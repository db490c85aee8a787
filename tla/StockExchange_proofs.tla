------------------------- MODULE StockExchange_proofs -------------------------
(***************************************************************************)
(* Theorems about StockExchange, for all bounds and changes of prices that *)
(* satisfy PriceAssumption and every number of loans, faults and restarts. *)
(***************************************************************************)
EXTENDS StockExchange, TLAPS

\* The currency the provider is asked for when the bank wants a rate for d.
Asked(d) == IF d = "EUR" THEN "CHF" ELSE "EUR"

\* Rates are natural numbers, null is none, and the provider is only asked for
\* currencies whose first change it accepts.
LEMMA Data ==
    /\ Prices \subseteq Nat /\ Rates \subseteq Nat /\ null \notin Rates /\ null \notin Prices
    /\ Prices \subseteq Rates /\ 0 \in Rates
    /\ 0 \in Changes /\ Changes \subseteq Int
    /\ Available \subseteq Currencies /\ Available = {"EUR", "USD"}
    /\ \A d \in Available : /\ stock_currency[CurrencyValue(d) + 1] = Asked(d)
                            /\ Asked(d) \in {"EUR", "CHF"}
    /\ {"EUR", "CHF"} \subseteq Quoted
    /\ \A c \in {"EUR", "CHF"} : InitialPrice[c] \in Prices
    /\ \A c \in {"EUR", "CHF"}, x \in Changes : InitialPrice[c] + x \in Prices
<1>1. Prices \subseteq Nat /\ Rates \subseteq Nat /\ Prices \subseteq Rates /\ 0 \in Rates
  BY PriceAssumption DEF Prices, Rates
<1>2. null \notin Rates /\ null \notin Prices
  <2>1. null \notin Int
    BY NullAssumption
  <2>2. \A n \in Nat : n \in Int
    OBVIOUS
  <2>3. QED
    BY <1>1, <2>1, <2>2
<1>3. 0 \in Changes /\ Changes \subseteq Int
  BY PriceAssumption DEF Changes
<1>4. Available \subseteq Currencies /\ Available = {"EUR", "USD"}
  BY DEF Available, Currencies
<1>5. \A d \in Available : /\ stock_currency[CurrencyValue(d) + 1] = Asked(d)
                           /\ Asked(d) \in {"EUR", "CHF"}
  BY DEF Available, stock_currency, CurrencyValue, Asked
<1>6. \A c \in {"EUR", "CHF"}, x \in Changes : InitialPrice[c] + x \in Prices
  BY PriceAssumption
<1>7. \A c \in {"EUR", "CHF"} : InitialPrice[c] \in Nat
  BY PriceAssumption
<1>8. \A c \in {"EUR", "CHF"} : InitialPrice[c] \in Prices
  BY <1>3, <1>6, <1>7
<1>9. {"EUR", "CHF"} \subseteq Quoted
  BY PriceAssumption DEF Quoted
<1>10. QED
  BY <1>1, <1>2, <1>3, <1>4, <1>5, <1>6, <1>8, <1>9

-----------------------------------------------------------------------------
(* Type correctness.                                                       *)

\* setAvailableCurrencies has put what it puts before the feed sweeps.
FeedInv ==
    /\ feed = "putUSD" => availableCurrencies["EUR"] # null
    /\ feed \notin {"start", "putUSD"} => \A d \in Available : availableCurrencies[d] # null

TypeInv == TypeOK /\ FeedInv

\* What simulate returns, for a request the bank makes.
LEMMA SimulateType ==
    ASSUME NEW curr \in {"EUR", "CHF"}, NEW value \in Rates, NEW change \in Changes,
           price \in [Quoted -> Nat]
    PROVE  LET r == Simulate(curr, value, change)
           IN  /\ r.prices \in [Quoted -> Nat]
               /\ r.state = "answered"
               /\ r.value \in Rates
BY Data DEF Simulate

\* A call that is answered with a rate is still a call.
LEMMA CallUpdate ==
    \A c \in Calls, v \in Rates : [c EXCEPT !.state = "answered", !.value = v] \in Calls
BY DEF Calls

LEMMA InitType == Init => TypeInv
<1> SUFFICES ASSUME Init PROVE TypeInv
  OBVIOUS
<1>1. Idle \in LoanCalls
  BY DEF Idle, LoanCalls, Currencies
<1>2. InitialPrice \in [Quoted -> Nat]
  BY PriceAssumption DEF Quoted
<1>3. /\ loan \in [Loans -> LoanCalls]
      /\ price \in [Quoted -> Nat]
  BY <1>1, <1>2 DEF Init
<1>4. availableCurrencies \in [Currencies -> Rates \cup {null}]
      /\ \A d \in Currencies : availableCurrencies[d] = null
  BY DEF Init
<1>5. faults \in 0 .. MaxFaults /\ bankRestarts \in 0 .. MaxBankRestarts
  BY BoundAssumption DEF Init
<1>6. TypeOK
  BY <1>3, <1>4, <1>5 DEF Init, TypeOK, FeedStates
<1>7. QED
  BY <1>6 DEF Init, TypeInv, FeedInv

LEMMA StepType == TypeInv /\ [Next]_vars => TypeInv'
<1> SUFFICES ASSUME TypeInv, [Next]_vars PROVE TypeInv'
  OBVIOUS
<1> USE Data, NullAssumption, BoundAssumption DEF TypeInv, TypeOK, FeedInv, FeedStates
<1>1. CASE PutEUR
  BY <1>1 DEF PutEUR, providerVars, faultVars
<1>2. CASE PutUSD
  BY <1>2 DEF PutUSD, providerVars, faultVars
<1>3. CASE BeginSweep
  BY <1>3 DEF BeginSweep, providerVars, faultVars
<1>4. CASE RunStockExchangeService
  <2>1. PICK d \in entries :
            /\ entry' = d /\ entries' = entries \ {d}
            /\ call' = [state |-> "sent", curr |-> stock_currency[CurrencyValue(d) + 1],
                        value |-> availableCurrencies[d]]
    BY <1>4 DEF RunStockExchangeService
  <2>2. call' \in Calls
    BY <2>1, <1>4 DEF RunStockExchangeService, Calls
  <2>3. QED
    BY <2>1, <2>2, <1>4 DEF RunStockExchangeService, providerVars, faultVars
<1>5. CASE PutResult
  BY <1>5 DEF PutResult, providerVars, faultVars, Calls
<1>6. CASE FeedDies
  BY <1>6 DEF FeedDies, providerVars, faultVars
<1>7. CASE Sleep
  BY <1>7 DEF Sleep, providerVars, faultVars
<1>8. CASE Wake
  BY <1>8 DEF Wake, providerVars, faultVars
<1>9. CASE GetUpdatedCurrencies
  <2>1. call \in Calls /\ call.curr \in {"EUR", "CHF"} /\ call.value \in Rates
    BY <1>9 DEF GetUpdatedCurrencies, Calls
  <2>2. PICK change \in Changes :
            /\ price' = Simulate(call.curr, call.value, change).prices
            /\ call' = [call EXCEPT !.state = Simulate(call.curr, call.value, change).state,
                                    !.value = Simulate(call.curr, call.value, change).value]
    BY <1>9 DEF GetUpdatedCurrencies
  <2>3. /\ price' \in [Quoted -> Nat]
        /\ \E v \in Rates : call' = [call EXCEPT !.state = "answered", !.value = v]
    <3>1. price \in [Quoted -> Nat]
      OBVIOUS
    <3>2. QED
      BY ONLY <2>1, <2>2, <3>1, SimulateType
  <2>4. call' \in Calls /\ call' # null
    <3>1. PICK v \in Rates : call' = [call EXCEPT !.state = "answered", !.value = v]
      BY <2>3
    <3>2. call' \in Calls
      BY ONLY <2>1, <3>1, CallUpdate
    <3>3. QED
      BY <3>2
  <2>5. QED
    BY <2>1, <2>3, <2>4, <1>9 DEF GetUpdatedCurrencies, feedVars, faultVars
<1>10. CASE Unavailable
  BY <1>10 DEF Unavailable, feedVars, providerVars, faultVars, Calls
<1>11. CASE ProviderCrash
  <2>1. call' \in Calls \cup {null} /\ (call' = null <=> call = null)
    <3>1. CASE Pending
      <4>1. call \in Calls /\ call' = [call EXCEPT !.state = "failed"]
        BY <3>1, <1>11 DEF ProviderCrash, Pending
      <4>2. call' \in Calls
        BY ONLY <4>1 DEF Calls
      <4>3. QED
        BY <4>1, <4>2
    <3>2. CASE ~Pending
      BY <3>2, <1>11 DEF ProviderCrash
    <3>3. QED
      BY <3>1, <3>2
  <2>2. faults' \in 0 .. MaxFaults
    BY <1>11 DEF ProviderCrash
  <2>3. QED
    BY <2>1, <2>2, <1>11 DEF ProviderCrash, feedVars
<1>12. CASE ProviderStart
  <2>1. price' \in [Quoted -> Nat]
    BY <1>12, PriceAssumption DEF ProviderStart, Quoted
  <2>2. QED
    BY <2>1, <1>12 DEF ProviderStart, feedVars, faultVars
<1>13. CASE LoseCall
  BY <1>13 DEF LoseCall, Pending, feedVars, providerVars, Calls
<1>14. ASSUME NEW l \in Loans, AskLoan(l) PROVE TypeInv'
  BY <1>14 DEF AskLoan, LoanCalls, feedVars, providerVars, faultVars
<1>15. ASSUME NEW l \in Loans, GetLoan(l) PROVE TypeInv'
  <2> DEFINE rate == availableCurrencies[loan[l].currency]
  <2>1. loan[l] \in LoanCalls /\ rate \in Rates \cup {null}
    BY DEF LoanCalls
  <2>2. PICK s \in {"raised", "quoted"} :
            loan' = [loan EXCEPT ![l] = [loan[l] EXCEPT !.state = s, !.rate = rate]]
    BY <1>15 DEF GetLoan
  <2>3. [loan[l] EXCEPT !.state = s, !.rate = rate] \in LoanCalls
    BY ONLY <2>1, <2>2 DEF LoanCalls
  <2>4. loan' \in [Loans -> LoanCalls]
    BY <2>2, <2>3
  <2>5. QED
    BY <2>4, <1>15 DEF GetLoan, feedVars, providerVars, faultVars
<1>16. ASSUME NEW l \in Loans, EndLoan(l) PROVE TypeInv'
  BY <1>16 DEF EndLoan, Idle, LoanCalls, feedVars, providerVars, faultVars, Currencies
<1>17. CASE BankRestart
  <2>1. Idle \in LoanCalls
    BY DEF Idle, LoanCalls, Currencies
  <2>2. loan' \in [Loans -> LoanCalls]
    BY <2>1, <1>17 DEF BankRestart
  <2>3. /\ availableCurrencies' \in [Currencies -> Rates \cup {null}]
        /\ \A d \in Currencies : availableCurrencies'[d] = null
    BY <1>17 DEF BankRestart
  <2>4. bankRestarts' \in 0 .. MaxBankRestarts
    BY <1>17 DEF BankRestart
  <2>5. QED
    BY <2>2, <2>3, <2>4, <1>17 DEF BankRestart, providerVars
<1>18. CASE UNCHANGED vars
  BY <1>18 DEF vars, feedVars, providerVars, faultVars
<1>19. QED
  BY <1>1, <1>2, <1>3, <1>4, <1>5, <1>6, <1>7, <1>8, <1>9, <1>10, <1>11, <1>12, <1>13,
     <1>14, <1>15, <1>16, <1>17, <1>18 DEF Next, Feed, Provider

\* Every reachable state is well typed; what the clauses of TypeOK add is that the
\* feed holds the monitor exactly while it sweeps and sleeps, also after a call that
\* failed, and waits for a call exactly while there is one.
THEOREM TypeCorrect == Spec => []TypeOK
<1>1. TypeInv => TypeOK
  BY DEF TypeInv
<1>2. QED
  BY InitType, StepType, <1>1, PTL DEF Spec

-----------------------------------------------------------------------------
(* Answers are current in one life of the bank.                            *)

\* A call asks for the currency of the feed's entry and tells the rate the bank has
\* for it; a provider that is down has answered nothing that is still to be read.
CallInv ==
    call # null => /\ call.curr = Asked(entry)
                   /\ call.state = "sent" => call.value = availableCurrencies[entry]
                   /\ call.state = "answered" => up

PriceInv == \A c \in {"EUR", "CHF"} : price[c] \in Prices

\* What makes the echo of a rejected candidate right: a price that is not the initial
\* one, whose first candidate is accepted, is the rate the bank has, unless the feed
\* has asked for it and has the answer still to come, or will never ask again.
AgreeInv ==
    \A d \in Available :
        \/ price[Asked(d)] = InitialPrice[Asked(d)]
        \/ /\ feed \notin {"start", "putUSD"}
           /\ \/ availableCurrencies[d] = price[Asked(d)]
              \/ entry = d /\ call.state # "sent"
              \/ feed = "dead"

OneLifeInv == AgreeInv /\ AnswerIsCurrentPrice

PriceIndInv ==
    /\ TypeInv /\ CallInv /\ PriceInv
    /\ bankRestarts = 0 => OneLifeInv

LEMMA InitPrices == Init => PriceIndInv
<1> SUFFICES ASSUME Init PROVE PriceIndInv
  OBVIOUS
<1>1. TypeInv
  BY InitType
<1>2. CallInv /\ PriceInv
  BY Data DEF Init, CallInv, PriceInv
<1>3. OneLifeInv
  BY DEF Init, OneLifeInv, AgreeInv, AnswerIsCurrentPrice
<1>4. QED
  BY <1>1, <1>2, <1>3 DEF PriceIndInv

\* One request at the provider: an accepted candidate is the new price, and what is
\* rejected leaves a price that is not the initial one, which the bank knows.
LEMMA StepAnswer ==
    ASSUME PriceIndInv, GetUpdatedCurrencies
    PROVE  /\ CallInv' /\ PriceInv'
           /\ bankRestarts = 0 => OneLifeInv'
<1> DEFINE curr == call.curr
<1>1. /\ call \in Calls /\ call.state = "sent" /\ up
      /\ entry \in Available /\ curr = Asked(entry)
      /\ call.value = availableCurrencies[entry]
      /\ feed = "await"
  BY NullAssumption DEF PriceIndInv, TypeInv, TypeOK, CallInv, GetUpdatedCurrencies
<1>2. PICK change \in Changes :
          /\ price' = Simulate(curr, call.value, change).prices
          /\ call' = [call EXCEPT !.state = Simulate(curr, call.value, change).state,
                                  !.value = Simulate(curr, call.value, change).value]
  BY DEF GetUpdatedCurrencies
<1>3. /\ up' = up /\ entry' = entry /\ availableCurrencies' = availableCurrencies
      /\ feed' = feed /\ bankRestarts' = bankRestarts
  BY DEF GetUpdatedCurrencies, feedVars, faultVars
<1>4. /\ price \in [Quoted -> Nat] /\ PriceInv /\ curr \in {"EUR", "CHF"}
      /\ bankRestarts = 0 => AgreeInv
  BY <1>1, Data DEF PriceIndInv, TypeInv, TypeOK, OneLifeInv
<1>5. CASE price[curr] + change \in Prices
  <2>1. /\ price' = [price EXCEPT ![curr] = price[curr] + change]
        /\ call' = [call EXCEPT !.state = "answered", !.value = price[curr] + change]
    BY <1>2, <1>4, <1>5, Data DEF Simulate
  <2>2. /\ call'.state = "answered" /\ call'.curr = curr
        /\ call'.value = price'[curr]
        /\ \A c \in {"EUR", "CHF"} : c # curr => price'[c] = price[c]
        /\ price'[curr] \in Prices
    BY <2>1, <1>1, <1>4, <1>5, Data DEF Calls
  <2>3. CallInv' /\ PriceInv'
    BY <2>2, <1>1, <1>3, <1>4 DEF CallInv, PriceInv
  <2>4. bankRestarts = 0 => AgreeInv'
    BY <2>2, <1>1, <1>3, <1>4, Data DEF AgreeInv, Asked
  <2>5. QED
    BY <2>2, <2>3, <2>4 DEF OneLifeInv, AnswerIsCurrentPrice
<1>6. CASE price[curr] + change \notin Prices
  <2>1. /\ price' = price
        /\ call' = [call EXCEPT !.state = "answered", !.value = call.value]
    BY <1>2, <1>4, <1>6, Data DEF Simulate
  <2>2. call'.state = "answered" /\ call'.curr = curr /\ call'.value = call.value
    BY <2>1, <1>1 DEF Calls
  <2>3. CallInv' /\ PriceInv'
    BY <2>1, <2>2, <1>1, <1>3, <1>4 DEF CallInv, PriceInv
  <2>4. price[curr] # InitialPrice[curr]
    BY <1>4, <1>6, Data
  <2>5. bankRestarts = 0 => call.value = price[curr]
    BY <2>4, <1>1, <1>4 DEF AgreeInv
  <2>6. bankRestarts = 0 => AgreeInv'
    BY <2>1, <2>2, <1>1, <1>3, <1>4 DEF AgreeInv
  <2>7. QED
    BY <2>1, <2>2, <2>3, <2>5, <2>6 DEF OneLifeInv, AnswerIsCurrentPrice
<1>7. QED
  BY <1>5, <1>6

LEMMA StepPrices == PriceIndInv /\ [Next]_vars => PriceIndInv'
<1> SUFFICES ASSUME PriceIndInv, [Next]_vars PROVE PriceIndInv'
  OBVIOUS
<1>1. TypeInv /\ TypeInv'
  BY StepType DEF PriceIndInv
<1>2. SUFFICES ASSUME ~ GetUpdatedCurrencies
               PROVE  /\ CallInv' /\ PriceInv'
                      /\ bankRestarts' = 0 => OneLifeInv'
  BY <1>1, StepAnswer DEF PriceIndInv, GetUpdatedCurrencies, faultVars
<1> USE Data, NullAssumption DEF PriceIndInv, OneLifeInv, AnswerIsCurrentPrice
<1>3. CASE PutEUR
  BY <1>3, <1>1 DEF PutEUR, TypeInv, TypeOK, CallInv, PriceInv, AgreeInv, providerVars, faultVars
<1>4. CASE PutUSD
  BY <1>4, <1>1 DEF PutUSD, TypeInv, TypeOK, CallInv, PriceInv, AgreeInv, providerVars, faultVars
<1>5. CASE BeginSweep
  BY <1>5, <1>1 DEF BeginSweep, TypeInv, TypeOK, CallInv, PriceInv, AgreeInv, providerVars, faultVars
<1>6. CASE RunStockExchangeService
  BY <1>6, <1>1 DEF RunStockExchangeService, TypeInv, TypeOK, CallInv, PriceInv, AgreeInv,
                    providerVars, faultVars
<1>7. CASE PutResult
  BY <1>7, <1>1 DEF PutResult, TypeInv, TypeOK, CallInv, PriceInv, AgreeInv, providerVars, faultVars
<1>8. CASE FeedDies
  BY <1>8, <1>1 DEF FeedDies, TypeInv, TypeOK, CallInv, PriceInv, AgreeInv, providerVars, faultVars
<1>9. CASE Sleep
  BY <1>9, <1>1 DEF Sleep, TypeInv, TypeOK, CallInv, PriceInv, AgreeInv, providerVars, faultVars
<1>10. CASE Wake
  BY <1>10, <1>1 DEF Wake, TypeInv, TypeOK, CallInv, PriceInv, AgreeInv, providerVars, faultVars
<1>11. CASE Unavailable
  BY <1>11, <1>1 DEF Unavailable, TypeInv, TypeOK, Calls, CallInv, PriceInv, AgreeInv,
                     feedVars, providerVars, faultVars
<1>12. CASE ProviderCrash
  BY <1>12, <1>1 DEF ProviderCrash, Pending, TypeInv, TypeOK, Calls, CallInv, PriceInv, AgreeInv,
                     feedVars
<1>13. CASE ProviderStart
  BY <1>13, <1>1 DEF ProviderStart, TypeInv, TypeOK, CallInv, PriceInv, AgreeInv,
                     feedVars, faultVars
<1>14. CASE LoseCall
  BY <1>14, <1>1 DEF LoseCall, Pending, TypeInv, TypeOK, Calls, CallInv, PriceInv, AgreeInv,
                     feedVars, providerVars
<1>15. ASSUME NEW l \in Loans, AskLoan(l) \/ GetLoan(l) \/ EndLoan(l)
       PROVE  CallInv' /\ PriceInv' /\ (bankRestarts' = 0 => OneLifeInv')
  BY <1>15 DEF AskLoan, GetLoan, EndLoan, CallInv, PriceInv, AgreeInv, feedVars, providerVars,
               faultVars
<1>16. CASE BankRestart
  BY <1>16, <1>1 DEF BankRestart, TypeInv, TypeOK, CallInv, PriceInv, providerVars
<1>17. CASE UNCHANGED vars
  BY <1>17 DEF vars, CallInv, PriceInv, AgreeInv, feedVars, providerVars, faultVars
<1>18. QED
  BY <1>2, <1>3, <1>4, <1>5, <1>6, <1>7, <1>8, <1>9, <1>10, <1>11, <1>12, <1>13, <1>14,
     <1>15, <1>16, <1>17 DEF Next, Feed, Provider

\* Until the bank is restarted, whatever the provider answers is the price it has,
\* although it echoes the caller's own rate when it rejects a candidate, and whenever
\* it crashes, comes back or loses calls.
THEOREM AnswersAreCurrent == Spec => []AnswerIsCurrentInOneLife
<1>1. PriceIndInv => AnswerIsCurrentInOneLife
  BY DEF PriceIndInv, OneLifeInv, AnswerIsCurrentInOneLife
<1>2. QED
  BY InitPrices, StepPrices, <1>1, PTL DEF Spec

-----------------------------------------------------------------------------
(* Loans after a sweep.                                                    *)

\* The entries the sweep has been through have a price, and so has every entry once
\* a sweep is over.
SweepInv ==
    /\ feed = "each" => \A d \in Available \ entries : availableCurrencies[d] \in Prices
    /\ feed = "await" => \A d \in Available \ entries :
                            d # entry => availableCurrencies[d] \in Prices
    /\ swept => /\ feed \notin {"start", "putUSD"}
                /\ \A d \in Available : availableCurrencies[d] \in Prices

\* A loan asked for after a sweep is served after it.
LateInv == \A l \in Loans : loan[l].late => swept

LoanInv ==
    \A l \in Loans : /\ loan[l].late /\ loan[l].state \in {"quoted", "raised"}
                     /\ loan[l].currency \in Available
                     => loan[l].rate \in Prices

LoanIndInv == PriceIndInv /\ (bankRestarts = 0 => SweepInv /\ LateInv /\ LoanInv)

LEMMA InitLoans == Init => LoanIndInv
<1> SUFFICES ASSUME Init PROVE LoanIndInv
  OBVIOUS
<1>1. PriceIndInv
  BY InitPrices
<1>2. SweepInv /\ LateInv /\ LoanInv
  BY DEF Init, SweepInv, LateInv, LoanInv, Idle
<1>3. QED
  BY <1>1, <1>2 DEF LoanIndInv

\* What the provider has answered in the first life of the bank is a price.
LEMMA AnswerIsPrice ==
    ASSUME PriceIndInv, bankRestarts = 0, call # null, call.state = "answered"
    PROVE  call.value \in Prices
BY Data DEF PriceIndInv, OneLifeInv, AnswerIsCurrentPrice, PriceInv, TypeInv, TypeOK, Calls

\* The steps of a feed and of a provider that touch no loan, and those that touch no
\* rate of the bank.
LEMMA FeedSteps ==
    ASSUME Feed
    PROVE  loan' = loan /\ (swept => swept') /\ bankRestarts' = bankRestarts
BY DEF Feed, PutEUR, PutUSD, BeginSweep, RunStockExchangeService, PutResult, FeedDies, Sleep, Wake,
       faultVars

LEMMA ProviderSteps ==
    ASSUME Provider \/ ProviderCrash \/ ProviderStart \/ LoseCall
    PROVE  loan' = loan /\ UNCHANGED feedVars /\ bankRestarts' = bankRestarts
BY DEF Provider, GetUpdatedCurrencies, Unavailable, ProviderCrash, ProviderStart, LoseCall, faultVars

LEMMA LoanSteps ==
    ASSUME NEW l \in Loans, AskLoan(l) \/ GetLoan(l) \/ EndLoan(l)
    PROVE  UNCHANGED feedVars /\ bankRestarts' = bankRestarts
BY DEF AskLoan, GetLoan, EndLoan, faultVars

\* A step leaves the sweep's invariant true.
LEMMA StepSweep ==
    ASSUME PriceIndInv, [Next]_vars, bankRestarts = 0, bankRestarts' = 0, SweepInv
    PROVE  SweepInv'
<1> USE DEF SweepInv
<1>1. TypeInv
  BY DEF PriceIndInv
<1>2. CASE PutEUR \/ PutUSD
  <2>1. ~ swept
    BY <1>2 DEF PutEUR, PutUSD
  <2>2. QED
    BY <2>1, <1>2 DEF PutEUR, PutUSD
<1>3. CASE BeginSweep
  BY <1>1, <1>3, Data DEF BeginSweep, TypeInv, TypeOK, FeedInv
<1>4. CASE RunStockExchangeService
  BY <1>1, <1>4 DEF RunStockExchangeService, TypeInv, TypeOK
<1>5. CASE PutResult
  <2>1. call.value \in Prices
    BY <1>1, <1>5, AnswerIsPrice DEF PutResult, TypeInv, TypeOK
  <2>2. QED
    BY <2>1, <1>1, <1>5, Data DEF PutResult, TypeInv, TypeOK
<1>6. CASE FeedDies \/ Wake
  BY <1>6 DEF FeedDies, Wake
<1>7. CASE Sleep
  BY <1>1, <1>7 DEF Sleep, TypeInv, TypeOK
<1>8. CASE \/ Provider \/ ProviderCrash \/ ProviderStart \/ LoseCall
           \/ \E l \in Loans : AskLoan(l) \/ GetLoan(l) \/ EndLoan(l)
           \/ UNCHANGED vars
  <2>1. UNCHANGED feedVars
    BY <1>8, ProviderSteps, LoanSteps DEF vars
  <2>2. QED
    BY <2>1 DEF feedVars
<1>9. CASE BankRestart
  BY <1>9, <1>1 DEF BankRestart, TypeInv, TypeOK
<1>10. QED
  BY <1>2, <1>3, <1>4, <1>5, <1>6, <1>7, <1>8, <1>9 DEF Next, Feed

LEMMA StepLoans == LoanIndInv /\ [Next]_vars => LoanIndInv'
<1> SUFFICES ASSUME LoanIndInv, [Next]_vars, bankRestarts' = 0
             PROVE  SweepInv' /\ LateInv' /\ LoanInv'
  BY StepPrices DEF LoanIndInv
<1>1. TypeInv /\ TypeInv' /\ PriceIndInv
  BY StepType DEF LoanIndInv, PriceIndInv
<1>2. bankRestarts = 0
  <2>1. CASE BankRestart
    BY <1>1, <2>1 DEF BankRestart, TypeInv, TypeOK
  <2>2. CASE ~ BankRestart
    BY <2>2, FeedSteps, ProviderSteps, LoanSteps DEF Next, vars, faultVars
  <2>3. QED
    BY <2>1, <2>2
<1>3. SweepInv /\ LateInv /\ LoanInv /\ SweepInv'
  BY <1>1, <1>2, StepSweep DEF LoanIndInv
<1>4. ASSUME NEW l \in Loans, AskLoan(l) PROVE LateInv' /\ LoanInv'
  BY <1>1, <1>3, <1>4 DEF AskLoan, LateInv, LoanInv, feedVars, TypeInv, TypeOK, LoanCalls
<1>5. ASSUME NEW l \in Loans, GetLoan(l) PROVE LateInv' /\ LoanInv'
  BY <1>1, <1>3, <1>5 DEF GetLoan, LateInv, LoanInv, SweepInv, feedVars, TypeInv, TypeOK, LoanCalls
<1>6. ASSUME NEW l \in Loans, EndLoan(l) PROVE LateInv' /\ LoanInv'
  BY <1>1, <1>3, <1>6 DEF EndLoan, Idle, LateInv, LoanInv, feedVars, TypeInv, TypeOK, LoanCalls
<1>7. CASE Feed \/ Provider \/ ProviderCrash \/ ProviderStart \/ LoseCall \/ UNCHANGED vars
  <2>1. loan' = loan /\ (swept => swept')
    BY <1>7, FeedSteps, ProviderSteps DEF vars, feedVars
  <2>2. QED
    BY <2>1, <1>3 DEF LateInv, LoanInv
<1>8. CASE BankRestart
  BY <1>1, <1>8, <1>2 DEF BankRestart, TypeInv, TypeOK
<1>9. QED
  BY <1>3, <1>4, <1>5, <1>6, <1>7, <1>8 DEF Next

\* Until the bank is restarted, a loan asked for after the first sweep is computed
\* with a price within the simulator's bounds, in every currency the bank lists:
\* never with the initial 0.0, however reads, sweeps and faults interleave.
THEOREM LateLoansReal == Spec => []LateLoansAreReal
<1>1. LoanIndInv => LateLoansAreReal
  BY DEF LoanIndInv, LoanInv, LateLoansAreReal
<1>2. QED
  BY InitLoans, StepLoans, <1>1, PTL DEF Spec
=============================================================================
