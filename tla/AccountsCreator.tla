--------------------------- MODULE AccountsCreator ---------------------------
(***************************************************************************)
(* The bank's Ice server: the account factory (AccountsCreator.java), the  *)
(* account servants it registers with the object adapter, and the dispatch *)
(* threads that run them.                                                  *)
(*                                                                         *)
(* createAccount is two updates of two maps, the adapter's servant map     *)
(* (synchronized by Ice) and createdAccounts (a plain HashMap), so it is   *)
(* three steps here: the servant is registered, the put begins, the put    *)
(* ends.  When two dispatch threads overlap in the HashMap, the outcomes   *)
(* of that data race are chosen nondeterministically.                      *)
(***************************************************************************)
EXTENDS BankTypes, FiniteSets

CONSTANTS
    Calls,        \* the calls clients make in a behaviour, each one once
    SizeMax,      \* Ice.ThreadPool.Server.SizeMax: dispatches at a time
    MaxRestarts   \* bound: how often the server process dies and comes back

ASSUME PoolAssumption ==
    /\ SizeMax \in Nat \ {0}
    /\ MaxRestarts \in Nat
    /\ IsFiniteSet(Calls)

VARIABLES
    request,          \* request[c]: what call c asks for
    stage,            \* stage[c]: how far call c has come
    newAccount,       \* newAccount[c]: createAccount's local of that name
    reply,            \* reply[c]: the reply to c
    servants,         \* servants[id]: the adapter's servant map
    createdAccounts,  \* createdAccounts[p]: the factory's HashMap
    raced,            \* the calls whose put has overlapped another put
    epoch,            \* how often the server has been restarted
    sentIn,           \* history: the epoch in which c was sent
    seen              \* history: the calls answered before c was sent

vars == <<request, stage, newAccount, reply, servants, createdAccounts, raced,
          epoch, sentIn, seen>>

clientVars == <<request, sentIn, seen, epoch>>

Stages == {"idle", "sent", "dispatched", "registered", "putting", "returned", "answered"}

Building == {"registered", "putting"}
OnThread == {"dispatched", "returned"} \cup Building
InFlight == OnThread \cup {"sent"}

In(stages) == {c \in Calls : stage[c] \in stages}

Succeeded(c) == stage[c] \in {"returned", "answered"} /\ reply[c].status = "ok"

Init ==
    /\ request         = [c \in Calls |-> None]
    /\ stage           = [c \in Calls |-> "idle"]
    /\ newAccount      = [c \in Calls |-> None]
    /\ reply           = [c \in Calls |-> None]
    /\ servants        = [id \in Identities |-> None]
    /\ createdAccounts = [p \in Pesels |-> None]
    /\ raced           = {}
    /\ epoch           = 0
    /\ sentIn          = [c \in Calls |-> 0]
    /\ seen            = [c \in Calls |-> {}]

-----------------------------------------------------------------------------
(* Clients.  An account is called through a proxy the factory returned.    *)

Proxies == {reply[c].value.account : c \in {d \in Calls :
                /\ stage[d] = "answered"
                /\ reply[d].status = "ok"
                /\ reply[d].value \in CreatedAccounts}}

Send(c) ==
    /\ stage[c] = "idle"
    /\ \E r \in CreateRequests \cup LookupRequests
                 \cup {q \in AccountRequests : q.account \in Proxies} :
          request' = [request EXCEPT ![c] = r]
    /\ stage' = [stage EXCEPT ![c] = "sent"]
    /\ sentIn' = [sentIn EXCEPT ![c] = epoch]
    /\ seen' = [seen EXCEPT ![c] = In({"answered"})]
    /\ UNCHANGED <<newAccount, reply, servants, createdAccounts, raced, epoch>>

-----------------------------------------------------------------------------
(* The server.                                                             *)

\* Mutant of ThreadFree: the pool is one thread larger than its limit.
ThreadFreeBeyondLimit == Cardinality(In(OnThread)) <= SizeMax

\* The pool has a thread that is not dispatching, or may start one more.
ThreadFree == Cardinality(In(OnThread)) < SizeMax

\* A thread of the pool picks the request up.
Dispatch(c) ==
    /\ stage[c] = "sent"
    /\ ThreadFree
    /\ stage' = [stage EXCEPT ![c] = "dispatched"]
    /\ UNCHANGED <<newAccount, reply, servants, createdAccounts, raced, clientVars>>

Return(c, r) ==
    /\ stage' = [stage EXCEPT ![c] = "returned"]
    /\ reply' = [reply EXCEPT ![c] = r]

\* Mutant of AddFails: an identity that is taken is taken over.
AddFailsOnEmptyName(id) == id.name = EmptyPesel

\* adapter.add throws: the name is empty, or the identity is taken.
AddFails(id) == id.name = EmptyPesel \/ servants[id] # None

\* Mutant of AddThrows: the entry is put before adapter.add is tried.
AddThrowsAfterPut(c) ==
    /\ stage[c] = "dispatched"
    /\ request[c] \in CreateRequests
    /\ LET id == IdentityOf(request[c])
       IN  /\ AddFails(id)
           /\ \E key \in Keys : createdAccounts' = [createdAccounts EXCEPT ![id.name] =
                 [account |-> id, key |-> key, isPremium |-> isPremium(request[c].income)]]
    /\ Return(c, Raised("UnknownLocalException"))
    /\ UNCHANGED <<newAccount, servants, raced, clientVars>>

\* Mutant of AddThrows: the handler of the exception removes the identity.
AddThrowsRemoves(c) ==
    /\ stage[c] = "dispatched"
    /\ request[c] \in CreateRequests
    /\ LET id == IdentityOf(request[c])
       IN  /\ AddFails(id)
           /\ servants' = [servants EXCEPT ![id] = None]
    /\ Return(c, Raised("UnknownLocalException"))
    /\ UNCHANGED <<newAccount, createdAccounts, raced, clientVars>>

\* The local exception leaves createAccount and is answered as unknown.
AddThrows(c) ==
    /\ stage[c] = "dispatched"
    /\ request[c] \in CreateRequests
    /\ AddFails(IdentityOf(request[c]))
    /\ Return(c, Raised("UnknownLocalException"))
    /\ UNCHANGED <<newAccount, servants, createdAccounts, raced, clientVars>>

\* The servant is built with its random key and balance and added to the
\* adapter, and newAccount is made of the proxy.
AddServant(c) ==
    /\ stage[c] = "dispatched"
    /\ request[c] \in CreateRequests
    /\ LET id == IdentityOf(request[c])
       IN  /\ ~AddFails(id)
           /\ \E key \in Keys, balance \in Balances :
                 /\ servants' = [servants EXCEPT ![id] =
                       [class |-> ClassOf(request[c]), key |-> key, balance |-> balance]]
                 /\ newAccount' = [newAccount EXCEPT ![c] =
                       [account |-> id, key |-> key,
                        isPremium |-> isPremium(request[c].income)]]
    /\ stage' = [stage EXCEPT ![c] = "registered"]
    /\ UNCHANGED <<reply, createdAccounts, raced, clientVars>>

\* createdAccounts.put(PESEL, newAccount) begins, perhaps while others run.
BeginPut(c) ==
    /\ stage[c] = "registered"
    /\ stage' = [stage EXCEPT ![c] = "putting"]
    /\ raced' = IF In({"putting"}) = {} THEN raced
                ELSE raced \cup In({"putting"}) \cup {c}
    /\ UNCHANGED <<newAccount, reply, servants, createdAccounts, clientVars>>

\* What java.util.HashMap holds after a put: entry e under p, or, when the put
\* overlapped another one (lost bins, a table replaced twice), any loss.
AfterPut(map, p, e, overlapped) ==
    LET stored == [map EXCEPT ![p] = e]
    IN  IF overlapped
        THEN {[q \in Pesels |-> IF q \in lost THEN None ELSE m[q]] :
                 m \in {map, stored}, lost \in SUBSET Pesels}
        ELSE {stored}

\* Mutant of EndPut: an entry that is there stays (putIfAbsent).
EndPutIfAbsent(c) ==
    /\ stage[c] = "putting"
    /\ createdAccounts' = [createdAccounts EXCEPT ![request[c].PESEL] =
                              IF @ = None THEN newAccount[c] ELSE @]
    /\ Return(c, Ok(newAccount[c]))
    /\ newAccount' = [newAccount EXCEPT ![c] = None]
    /\ raced' = raced \ {c}
    /\ UNCHANGED <<servants, clientVars>>

\* The put ends, and createAccount returns newAccount.
EndPut(c) ==
    /\ stage[c] = "putting"
    /\ createdAccounts' \in AfterPut(createdAccounts, request[c].PESEL, newAccount[c],
                                     c \in raced)
    /\ Return(c, Ok(newAccount[c]))
    /\ newAccount' = [newAccount EXCEPT ![c] = None]
    /\ raced' = raced \ {c}
    /\ UNCHANGED <<servants, clientVars>>

\* What createdAccounts.get(p) may find: during a put by another thread also
\* nothing, or the entry that is being put.
MayGet(p) ==
    {createdAccounts[p]} \cup
        IF In({"putting"}) = {} THEN {}
        ELSE {None} \cup {newAccount[d] : d \in {e \in In({"putting"}) : request[e].PESEL = p}}

GetAccount(c) ==
    /\ stage[c] = "dispatched"
    /\ request[c] \in LookupRequests
    /\ \E found \in MayGet(request[c].PESEL) : Return(c, Ok(Marshal(found)))
    /\ UNCHANGED <<newAccount, servants, createdAccounts, raced, clientVars>>

\* An operation of an account: the adapter finds the servant, or there is none.
InvokeAccount(c) ==
    /\ stage[c] = "dispatched"
    /\ request[c] \in AccountRequests
    /\ LET servant == servants[request[c].account]
       IN  Return(c, IF servant = None THEN Raised("ObjectNotExistException")
                     ELSE Ok(AccountResult(request[c].op, servant)))
    /\ UNCHANGED <<newAccount, servants, createdAccounts, raced, clientVars>>

\* Mutant of Answer: a reply is sent only when the operation returned.
AnswerResultsOnly(c) ==
    /\ stage[c] = "returned"
    /\ reply[c].status = "ok"
    /\ stage' = [stage EXCEPT ![c] = "answered"]
    /\ UNCHANGED <<newAccount, reply, servants, createdAccounts, raced, clientVars>>

\* The reply is sent, and the thread is free again.
Answer(c) ==
    /\ stage[c] = "returned"
    /\ stage' = [stage EXCEPT ![c] = "answered"]
    /\ UNCHANGED <<newAccount, reply, servants, createdAccounts, raced, clientVars>>

\* The process dies and is started again: both maps are empty, and the calls in
\* flight lose their connection.
Restart ==
    /\ epoch < MaxRestarts
    /\ epoch' = epoch + 1
    /\ servants' = [id \in Identities |-> None]
    /\ createdAccounts' = [p \in Pesels |-> None]
    /\ newAccount' = [c \in Calls |-> None]
    /\ raced' = {}
    /\ stage' = [c \in Calls |-> IF stage[c] \in InFlight THEN "answered" ELSE stage[c]]
    /\ reply' = [c \in Calls |-> IF stage[c] \in InFlight
                                 THEN Raised("ConnectionLostException") ELSE reply[c]]
    /\ UNCHANGED <<request, sentIn, seen>>

\* Every call has been made and answered: the server waits for more.
AllAnswered ==
    /\ In({"answered"}) = Calls
    /\ UNCHANGED vars

Handle(c) ==
    \/ Dispatch(c)
    \/ AddThrows(c)
    \/ AddServant(c)
    \/ BeginPut(c)
    \/ EndPut(c)
    \/ GetAccount(c)
    \/ InvokeAccount(c)
    \/ Answer(c)

Next ==
    \/ \E c \in Calls : Send(c) \/ Handle(c)
    \/ Restart
    \/ AllAnswered

\* The pool's threads run; clients need not call, and the process need not die.
Fairness == \A c \in Calls : WF_vars(Handle(c))

Spec == Init /\ [][Next]_vars /\ Fairness

-----------------------------------------------------------------------------
(* Type correctness: every variable keeps its type, and the locals of a    *)
(* dispatch are there while the stage of the call says so.                 *)
TypeOK ==
    /\ request \in [Calls -> Requests \cup {None}]
    /\ stage \in [Calls -> Stages]
    /\ newAccount \in [Calls -> CreatedAccounts \cup {None}]
    /\ reply \in [Calls -> Replies \cup {None}]
    /\ servants \in [Identities -> AccountServants \cup {None}]
    /\ createdAccounts \in [Pesels -> CreatedAccounts \cup {None}]
    /\ raced \subseteq Calls
    /\ epoch \in 0 .. MaxRestarts
    /\ sentIn \in [Calls -> 0 .. MaxRestarts]
    /\ seen \in [Calls -> SUBSET Calls]
    /\ \A c \in Calls :
          /\ (stage[c] = "idle") <=> (request[c] = None)
          /\ (stage[c] \in Building) <=> (newAccount[c] # None)
          /\ (stage[c] \in {"returned", "answered"}) <=> (reply[c] # None)

-----------------------------------------------------------------------------
(* Safety.                                                                 *)

\* e describes the account that the adapter has under e's identity.
Backed(e) ==
    LET servant == servants[e.account]
    IN  /\ e.account \in Identities
        /\ servant # None
        /\ servant.key = e.key
        /\ (servant.class = "PremiumAccount") = e.isPremium

Current(c) == sentIn[c] = epoch

\* What createAccount or getAccount hands out, or has listed, names an account
\* that is registered: createdAccounts and the adapter's servant map never
\* disagree in this direction, whatever overlaps, as long as the process lives
\* (AccountsCreator.java adds the servant before it puts the entry).
EntriesBacked ==
    /\ \A p \in Pesels : createdAccounts[p] # None =>
          createdAccounts[p].account.name = p /\ Backed(createdAccounts[p])
    /\ \A c \in Calls : Succeeded(c) /\ Current(c) /\ reply[c].value \in CreatedAccounts =>
          Backed(reply[c].value)

\* The account a createAccount has registered, from adapter.add on.
Registered(c) ==
    /\ request[c] \in CreateRequests
    /\ stage[c] \in Building \/ Succeeded(c)

RegisteredEntry(c) == IF stage[c] \in Building THEN newAccount[c] ELSE reply[c].value

\* Of the createAccount calls for one PESEL and category in one life of the
\* server, however they overlap, at most one succeeds: no two clients are ever
\* given the same account.
OneWinner ==
    \A c, d \in Calls :
        c # d /\ Registered(c) /\ Registered(d) /\ sentIn[c] = sentIn[d] =>
            RegisteredEntry(c).account # RegisteredEntry(d).account

\* A call through a proxy finds no servant only if the server was restarted since
\* the proxy was handed out: accounts are never removed, so a client that has an
\* account cannot lose it to what other clients do.
NoDanglingProxy ==
    \A c \in Calls :
        stage[c] \in {"returned", "answered"} /\ reply[c].status = "ObjectNotExistException" =>
            \A d \in seen[c] :
                ~ /\ reply[d].status = "ok" /\ reply[d].value \in CreatedAccounts
                  /\ reply[d].value.account = request[c].account
                  /\ sentIn[d] = sentIn[c]

\* createAccount decides three times whether the income is premium (for the
\* identity, for the servant's class, for the flag it returns).  The flag handed
\* out with an account is what the account itself answers to isPremium, also
\* when the answer comes from an account opened anew after a restart.
PremiumAnswersAgree ==
    \A c, d \in Calls :
        /\ Succeeded(c) /\ request[c] \in AccountRequests /\ request[c].op = "isPremium"
        /\ Succeeded(d) /\ request[d] \notin AccountRequests
        /\ reply[d].value.account = request[c].account
        => reply[c].value.premium = reply[d].value.isPremium

Opened(c, p) ==
    request[c] \in CreateRequests /\ request[c].PESEL = p /\ Succeeded(c)

\* getAccount, with one dispatch at a time, returns an account that no later
\* createAccount had already replaced when it was called, and null only when no
\* createAccount for that PESEL had been answered in this life of the server.
FreshLookup ==
    \A c \in Calls : Succeeded(c) /\ request[c] \in LookupRequests =>
        LET before == {d \in seen[c] : Opened(d, request[c].PESEL) /\ sentIn[d] = sentIn[c]}
        IN  \/ before = {} /\ reply[c].value = NullMarshalValue
            \/ \E d \in Calls :
                  /\ Opened(d, request[c].PESEL) /\ sentIn[d] = sentIn[c]
                  /\ reply[c].value = reply[d].value
                  /\ \A e \in before : d \notin seen[e]

-----------------------------------------------------------------------------
(* Liveness: every call that is made is answered.  No call waits for       *)
(* another one for ever, and an exception is an answer too.                *)
EveryCallAnswered ==
    \A c \in Calls : stage[c] = "sent" ~> stage[c] = "answered"

-----------------------------------------------------------------------------
(* Refinement: with one dispatch at a time (SizeMax = 1) the server is the *)
(* atomic AccountBook.  An account whose createAccount is still under way  *)
(* is not yet in the book, which is why a second dispatch thread breaks it.*)
UnderWay == {newAccount[c].account : c \in In(Building)}

Book == INSTANCE AccountBook WITH
    phase    <- [c \in Calls |->
                    CASE stage[c] \in {"dispatched"} \cup Building -> "sent"
                      [] stage[c] = "returned"                     -> "served"
                      [] OTHER                                     -> stage[c]],
    accounts <- [id \in Identities |-> IF id \in UnderWay THEN None ELSE servants[id]],
    listed   <- createdAccounts

\* Every behaviour of the server is one of the atomic account book.
AtomicBook == Book!Spec

=============================================================================
