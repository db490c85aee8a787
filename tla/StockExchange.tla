---------------------------- MODULE StockExchange ----------------------------
(***************************************************************************)
(* Exchange rates: the bank's feed thread (Server.StockExchange), the      *)
(* blocking call it makes (CurrencyService), the currency provider it      *)
(* calls (stock-exchange-python-service/stock_server.py), and the dispatch *)
(* threads that read the rates without a lock (PremiumAccount.getLoan).    *)
(*                                                                         *)
(* Prices are integers on a grid, the bounds and the largest change of the *)
(* simulator are constants on the same grid.                               *)
(***************************************************************************)
EXTENDS Integers

CONSTANTS
    MIN_BOUND, MAX_BOUND,  \* the simulator accepts prices strictly between
    MaxChange,             \* uniform(-MaxChange, MaxChange) on the grid
    InitialPrice,          \* allCurrencies as the provider starts with it
    Loans,                 \* getLoan calls that may be under way at a time
    MaxFaults,             \* bound: provider crashes and lost calls
    MaxBankRestarts,       \* bound: restarts of the bank's process
    null                   \* Java's null, no entry, no call

\* enum Currency of bank.ice, with the values Slice assigns.
Currencies == {"PLN", "USD", "EUR"}
CurrencyValue(d) == CASE d = "PLN" -> 0 [] d = "USD" -> 1 [] d = "EUR" -> 2

\* enum currency of stock.proto, by number.
stock_currency == <<"PLN", "EUR", "CHF", "USD", "GBP">>

\* What the provider quotes: allCurrencies.
Quoted == DOMAIN InitialPrice

\* The keys setAvailableCurrencies puts.
Available == {"EUR", "USD"}

Prices == (MIN_BOUND + 1) .. (MAX_BOUND - 1)
Changes == (-MaxChange) .. MaxChange

(***************************************************************************)
(* The prices of the currencies the bank asks for start so far from the    *)
(* bounds that the first change is always accepted (4.27 and 3.74 within   *)
(* 3.0 .. 6.0, changes up to 0.5); zero is no price.                       *)
(***************************************************************************)
ASSUME PriceAssumption ==
    /\ MIN_BOUND \in Nat /\ MAX_BOUND \in Nat /\ MaxChange \in Nat
    /\ InitialPrice \in [{"PLN", "EUR", "CHF"} -> Nat]
    /\ \A c \in {"EUR", "CHF"}, x \in Changes : InitialPrice[c] + x \in Prices

ASSUME BoundAssumption ==
    /\ MaxFaults \in Nat
    /\ MaxBankRestarts \in Nat

VARIABLES
    feed,         \* program counter of the feed thread
    monitor,      \* whether the feed thread is in synchronized(availableCurrencies)
    availableCurrencies,  \* the static HashMap: a rate, or null
    entries,      \* the entries the for loop has still to visit
    entry,        \* the entry it is at
    call,         \* the RPC under way, or null
    price,        \* the provider's allCurrencies
    up,           \* whether the provider runs
    loan,         \* loan[l]: a getLoan call
    swept,        \* history: the feed has visited every entry since the bank started
    faults,       \* faults so far
    bankRestarts  \* restarts of the bank so far

feedVars == <<feed, monitor, availableCurrencies, entries, entry, swept>>
providerVars == <<price, up>>
faultVars == <<faults, bankRestarts>>
vars == <<feedVars, call, providerVars, loan, faultVars>>

Idle == [state |-> "idle", currency |-> "PLN", rate |-> null, late |-> FALSE]

Init ==
    /\ feed = "start"
    /\ monitor = FALSE
    /\ availableCurrencies = [d \in Currencies |-> null]
    /\ entries = {}
    /\ entry = null
    /\ swept = FALSE
    /\ call = null
    /\ price = InitialPrice
    /\ up = TRUE
    /\ loan = [l \in Loans |-> Idle]
    /\ faults = 0
    /\ bankRestarts = 0

-----------------------------------------------------------------------------
(* The feed thread: Server.StockExchange.run.                              *)

\* setAvailableCurrencies: EUR, then USD, each at 0.0.
PutEUR ==
    /\ feed = "start"
    /\ feed' = "putUSD"
    /\ availableCurrencies' = [availableCurrencies EXCEPT !["EUR"] = 0]
    /\ UNCHANGED <<monitor, entries, entry, swept, call, providerVars, loan, faultVars>>

PutUSD ==
    /\ feed = "putUSD"
    /\ feed' = "loop"
    /\ availableCurrencies' = [availableCurrencies EXCEPT !["USD"] = 0]
    /\ UNCHANGED <<monitor, entries, entry, swept, call, providerVars, loan, faultVars>>

\* The monitor is entered (no other thread ever does) and the iteration begins.
BeginSweep ==
    /\ feed = "loop"
    /\ feed' = "each"
    /\ monitor' = TRUE
    /\ entries' = {d \in Currencies : availableCurrencies[d] # null}
    /\ UNCHANGED <<availableCurrencies, entry, swept, call, providerVars, loan, faultVars>>

\* For the next entry, in the map's order (which is not specified), the provider
\* is asked about currency number value + 1, and told the rate the bank has.
RunStockExchangeService ==
    /\ feed = "each"
    /\ \E d \in entries :
          /\ entry' = d
          /\ call' = [state |-> "sent", curr |-> stock_currency[CurrencyValue(d) + 1],
                      value |-> availableCurrencies[d]]
          /\ entries' = entries \ {d}
    /\ feed' = "await"
    /\ UNCHANGED <<monitor, availableCurrencies, swept, providerVars, loan, faultVars>>

\* The blocking call returns, and the result replaces the entry's value.
PutResult ==
    /\ feed = "await"
    /\ call.state = "answered"
    /\ availableCurrencies' = [availableCurrencies EXCEPT ![entry] = call.value]
    /\ feed' = "each"
    /\ entry' = null
    /\ call' = null
    /\ UNCHANGED <<monitor, entries, swept, providerVars, loan, faultVars>>

\* Mutant of FeedDies: a lock that is not released when the call throws.
FeedDiesHoldingMonitor ==
    /\ feed = "await"
    /\ call.state = "failed"
    /\ feed' = "dead"
    /\ entries' = {}
    /\ entry' = null
    /\ call' = null
    /\ UNCHANGED <<monitor, availableCurrencies, swept, providerVars, loan, faultVars>>

\* The call throws StatusRuntimeException, which nothing catches: the thread ends,
\* and leaves the monitor on its way out.
FeedDies ==
    /\ feed = "await"
    /\ call.state = "failed"
    /\ feed' = "dead"
    /\ monitor' = FALSE
    /\ entries' = {}
    /\ entry' = null
    /\ call' = null
    /\ UNCHANGED <<availableCurrencies, swept, providerVars, loan, faultVars>>

\* Thread.sleep(5000), still in the monitor.
Sleep ==
    /\ feed = "each"
    /\ entries = {}
    /\ feed' = "sleep"
    /\ swept' = TRUE
    /\ UNCHANGED <<monitor, availableCurrencies, entries, entry, call, providerVars, loan,
                   faultVars>>

\* Mutant of Wake: setAvailableCurrencies is called in the loop, not before it.
WakeResets ==
    /\ feed = "sleep"
    /\ feed' = "start"
    /\ monitor' = FALSE
    /\ UNCHANGED <<availableCurrencies, entries, entry, swept, call, providerVars, loan,
                   faultVars>>

Wake ==
    /\ feed = "sleep"
    /\ feed' = "loop"
    /\ monitor' = FALSE
    /\ UNCHANGED <<availableCurrencies, entries, entry, swept, call, providerVars, loan,
                   faultVars>>

Feed == \/ PutEUR \/ PutUSD \/ BeginSweep \/ RunStockExchangeService
        \/ PutResult \/ FeedDies \/ Sleep \/ Wake

-----------------------------------------------------------------------------
(* The provider: getUpdatedCurrencies, and the ways it may fail the bank.  *)

\* Mutant of Simulate: the candidate is stored before it is checked.
SimulateStoresFirst(curr, value, change) ==
    LET candidate == price[curr] + change
    IN  [prices |-> [price EXCEPT ![curr] = candidate], state |-> "answered",
         value |-> IF candidate \in Prices THEN candidate ELSE value]

\* Mutant of Simulate: nothing is returned for a rejected candidate, so the call fails.
SimulateOrNothing(curr, value, change) ==
    LET candidate == price[curr] + change
    IN  IF candidate \in Prices
        THEN [prices |-> [price EXCEPT ![curr] = candidate], state |-> "answered",
              value |-> candidate]
        ELSE [prices |-> price, state |-> "failed", value |-> value]

\* simulate: the price of the requested currency changes if the candidate is
\* within the bounds; otherwise the response carries back the request's value.
Simulate(curr, value, change) ==
    LET candidate == price[curr] + change
    IN  IF curr \in Quoted /\ candidate \in Prices
        THEN [prices |-> [price EXCEPT ![curr] = candidate], state |-> "answered",
              value |-> candidate]
        ELSE [prices |-> price, state |-> "answered", value |-> value]

GetUpdatedCurrencies ==
    /\ up
    /\ call # null /\ call.state = "sent"
    /\ \E change \in Changes :
          LET r == Simulate(call.curr, call.value, change)
          IN  /\ price' = r.prices
              /\ call' = [call EXCEPT !.state = r.state, !.value = r.value]
    /\ UNCHANGED <<up, feedVars, loan, faultVars>>

Pending == call # null /\ call.state \in {"sent", "answered"}

\* A call to a provider that is not there fails.
Unavailable ==
    /\ ~up
    /\ call # null /\ call.state = "sent"
    /\ call' = [call EXCEPT !.state = "failed"]
    /\ UNCHANGED <<feedVars, providerVars, loan, faultVars>>

ProviderCrash ==
    /\ up
    /\ faults < MaxFaults
    /\ faults' = faults + 1
    /\ up' = FALSE
    /\ call' = IF Pending THEN [call EXCEPT !.state = "failed"] ELSE call
    /\ UNCHANGED <<price, feedVars, loan, bankRestarts>>

\* The prices are in memory only.
ProviderStart ==
    /\ ~up
    /\ up' = TRUE
    /\ price' = InitialPrice
    /\ UNCHANGED <<feedVars, call, loan, faultVars>>

\* The request or the response vanishes without the connection being closed: the
\* stub has no deadline, so nothing ends the call.
LoseCall ==
    /\ Pending
    /\ faults < MaxFaults
    /\ faults' = faults + 1
    /\ call' = [call EXCEPT !.state = "lost"]
    /\ UNCHANGED <<feedVars, providerVars, loan, bankRestarts>>

Provider == GetUpdatedCurrencies \/ Unavailable

-----------------------------------------------------------------------------
(* getLoan, on an Ice dispatch thread: it reads the map outside the        *)
(* monitor, and unboxes what it finds.  Amount and period only scale the   *)
(* rate, so the rate stands for the cost.                                  *)

AskLoan(l) ==
    /\ loan[l].state = "idle"
    /\ \E d \in Currencies :
          loan' = [loan EXCEPT ![l] = [state |-> "asked", currency |-> d, rate |-> null,
                                       late |-> swept]]
    /\ UNCHANGED <<feedVars, call, providerVars, faultVars>>

\* Mutant of GetLoan: the rate is read in synchronized(availableCurrencies).
GetLoanSynchronized(l) ==
    /\ loan[l].state = "asked"
    /\ ~monitor
    /\ LET rate == availableCurrencies[loan[l].currency]
       IN  loan' = [loan EXCEPT ![l].state = IF rate = null THEN "raised" ELSE "quoted",
                                ![l].rate = rate]
    /\ UNCHANGED <<feedVars, call, providerVars, faultVars>>

\* Unboxing null is a NullPointerException, which the client gets as UnknownException.
GetLoan(l) ==
    /\ loan[l].state = "asked"
    /\ LET rate == availableCurrencies[loan[l].currency]
       IN  loan' = [loan EXCEPT ![l].state = IF rate = null THEN "raised" ELSE "quoted",
                                ![l].rate = rate]
    /\ UNCHANGED <<feedVars, call, providerVars, faultVars>>

\* The client is done with the answer.
EndLoan(l) ==
    /\ loan[l].state \in {"quoted", "raised"}
    /\ loan' = [loan EXCEPT ![l] = Idle]
    /\ UNCHANGED <<feedVars, call, providerVars, faultVars>>

-----------------------------------------------------------------------------
\* The bank's process ends and is started again; the provider keeps running.
BankRestart ==
    /\ bankRestarts < MaxBankRestarts
    /\ bankRestarts' = bankRestarts + 1
    /\ feed' = "start"
    /\ monitor' = FALSE
    /\ availableCurrencies' = [d \in Currencies |-> null]
    /\ entries' = {}
    /\ entry' = null
    /\ swept' = FALSE
    /\ call' = null
    /\ loan' = [l \in Loans |-> Idle]
    /\ UNCHANGED <<providerVars, faults>>

Next ==
    \/ Feed
    \/ Provider
    \/ ProviderCrash
    \/ ProviderStart
    \/ LoseCall
    \/ \E l \in Loans : AskLoan(l) \/ GetLoan(l) \/ EndLoan(l)
    \/ BankRestart

\* Threads that can run do, and a provider that is up answers; that it comes up
\* again, or that clients ask for loans, is not assumed.
Fairness == WF_vars(Feed) /\ WF_vars(Provider) /\ \A l \in Loans : WF_vars(GetLoan(l))

Spec == Init /\ [][Next]_vars /\ Fairness

-----------------------------------------------------------------------------
FeedStates == {"start", "putUSD", "loop", "each", "await", "sleep", "dead"}
Rates == {0} \cup Prices
Calls == [state : {"sent", "answered", "failed", "lost"}, curr : {"EUR", "CHF"}, value : Rates]
LoanCalls == [state : {"idle", "asked", "quoted", "raised"}, currency : Currencies,
              rate : Rates \cup {null}, late : BOOLEAN]

\* null is none of the values it stands in for.
ASSUME NullAssumption == null \notin Int /\ null \notin Available /\ null \notin Calls

\* Type correctness; the call is there while the feed waits for it, the monitor is
\* the feed's while it sweeps and sleeps, and only the two currencies that
\* setAvailableCurrencies puts ever have a rate.
TypeOK ==
    /\ feed \in FeedStates
    /\ monitor \in BOOLEAN /\ (monitor <=> feed \in {"each", "await", "sleep"})
    /\ availableCurrencies \in [Currencies -> Rates \cup {null}]
    /\ \A d \in Currencies : availableCurrencies[d] # null => d \in Available
    /\ entries \subseteq Available
    /\ entry \in Available \cup {null}
    /\ call \in Calls \cup {null}
    /\ (feed = "await") <=> (call # null)
    /\ (feed = "await") <=> (entry # null)
    /\ price \in [Quoted -> Nat]
    /\ up \in BOOLEAN
    /\ loan \in [Loans -> LoanCalls]
    /\ swept \in BOOLEAN
    /\ faults \in 0 .. MaxFaults
    /\ bankRestarts \in 0 .. MaxBankRestarts

-----------------------------------------------------------------------------
(* Safety.                                                                 *)

\* What the provider answers is the price it has for the currency it was asked
\* about, although on a rejected candidate it only echoes what the bank believes
\* the price to be.
AnswerIsCurrentPrice ==
    call # null /\ call.state = "answered" => call.value = price[call.curr]

\* That holds for as long as the bank's process lives, whatever becomes of the
\* provider: both start with a price that the first accepted candidate replaces.
AnswerIsCurrentInOneLife == bankRestarts = 0 => AnswerIsCurrentPrice

\* Once the feed has been through the map, no loan is computed with the 0.0 the
\* rates start with, however the sweep, faults of the provider and the death of the
\* feed interleave with the unsynchronized reads: a loan asked for from then on in a
\* currency the bank lists is quoted a price within the simulator's bounds, unless
\* the bank was restarted (a provider that goes on may echo the new 0.0).
LateLoansAreReal ==
    bankRestarts = 0 =>
        \A l \in Loans : /\ loan[l].late /\ loan[l].state \in {"quoted", "raised"}
                         /\ loan[l].currency \in Available
                         => loan[l].rate \in Prices

-----------------------------------------------------------------------------
(* Liveness.                                                               *)

\* getLoan is answered although the feed holds the monitor while it waits for the
\* provider and while it sleeps, also when the provider never answers again.
LoanAnswered ==
    \A l \in Loans : loan[l].state = "asked" ~> loan[l].state # "asked"

\* Unless the provider fails it, the feed completes one sweep after the other.
FeedKeepsRefreshing ==
    <>(faults > 0) \/ []<>(feed = "sleep")

-----------------------------------------------------------------------------
(* What the interfaces say, and the code does not do.                      *)

\* Both interface definitions have a currency called EUR; the rate the bank has
\* for its EUR when a sweep is over is the provider's price of EUR.
RateOfItsCurrency ==
    feed = "sleep" /\ up => availableCurrencies["EUR"] = price["EUR"]

=============================================================================
