------------------------------ MODULE BankClient ------------------------------
(***************************************************************************)
(* The interactive client (bankclient.py) against the bank: the sequence   *)
(* of calls that each choice of the menu makes, and how it fails, while    *)
(* other clients make theirs and the bank's process is restarted.          *)
(*                                                                         *)
(* The bank is the atomic AccountBook, which the server implements with    *)
(* its default of one dispatch at a time; a client has one call under way. *)
(* Its Ice run time repeats a call after a lost connection only if the     *)
(* operation is idempotent (RemoteCall and Invocation).  The client        *)
(* catches no exception: its first one ends it.                            *)
(***************************************************************************)
EXTENDS BankTypes

CONSTANTS
    Clients,
    MaxChoices,   \* bound: choices that all users make together
    MaxRestarts   \* bound: how often the bank is restarted

ASSUME ClientAssumption == MaxChoices \in Nat /\ MaxRestarts \in Nat /\ None \notin Clients

VARIABLES
    request, phase, reply, accounts, listed,  \* of the AccountBook
    place,        \* place[u]: the statement whose answer the client waits for
    accountProxy, \* accountProxy[u]: the local of that name
    shown,        \* shown[u]: what print(accountProxy.isPremium()) has shown
    error,        \* error[u]: the exception that ended the client
    connectedIn,  \* connectedIn[u]: the life of the bank its connection is to
    life,         \* how often the bank has been restarted
    since, had,   \* history: life and listed[PESEL] # None when the choice was made
    opened,       \* history: the identities opened since the bank was first started
    choices       \* how many choices have been made

bankVars == <<request, phase, reply, accounts, listed>>
choiceVars == <<accountProxy, shown, since, had>>
vars == <<bankVars, place, choiceVars, error, connectedIn, life, opened, choices>>

Bank == INSTANCE AccountBook WITH Calls <- Clients

Places == {"menu", "registering", "statusLookup", "loanLookup", "status", "printing",
           "checking", "casting", "asking", "ended"}

\* Where accountProxy is used.
Bound == {"status", "printing", "checking", "casting", "asking"}

Errors == {"UnknownLocalException", "UnknownException", "ObjectNotExistException",
           "OperationNotExistException", "ConnectionLostException",
           "nullAccount", "nullCast"}

\* null is no exception.
ASSUME ErrorAssumption == None \notin Errors

PremiumRequests == [op : {"ice_isA", "getLoan"}, account : Identities]

\* The operations bank.ice, and Ice for ice_isA, declare idempotent.
Idempotent == {"getAccountStatus", "ice_isA"}

Init ==
    /\ Bank!Init
    /\ place        = [u \in Clients |-> "menu"]
    /\ accountProxy = [u \in Clients |-> None]
    /\ shown        = [u \in Clients |-> FALSE]
    /\ error        = [u \in Clients |-> None]
    /\ connectedIn  = [u \in Clients |-> 0]
    /\ life         = 0
    /\ since        = [u \in Clients |-> 0]
    /\ had          = [u \in Clients |-> FALSE]
    /\ opened       = {}
    /\ choices      = 0

-----------------------------------------------------------------------------
(* The client.                                                             *)

\* A call is begun; the client goes on when its answer is there.
Ask(u, r, at) ==
    /\ request' = [request EXCEPT ![u] = r]
    /\ phase' = [phase EXCEPT ![u] = "sent"]
    /\ reply' = [reply EXCEPT ![u] = None]
    /\ place' = [place EXCEPT ![u] = at]

\* A choice that begins with the call r for PESEL p.
Choose(u, p, r, at) ==
    /\ place[u] = "menu" /\ choices < MaxChoices
    /\ choices' = choices + 1
    /\ since' = [since EXCEPT ![u] = life]
    /\ had' = [had EXCEPT ![u] = listed[p] # None]
    /\ Ask(u, r, at)
    /\ UNCHANGED <<accounts, listed, shown, error, connectedIn, life, opened>>

RegisterToBank(u) ==
    \E p \in Pesels, income \in Incomes :
        /\ Choose(u, p, [op |-> "createAccount", PESEL |-> p, income |-> income], "registering")
        /\ UNCHANGED accountProxy

AccountStatus(u) ==
    \E p \in Pesels :
        /\ Choose(u, p, [op |-> "getAccount", PESEL |-> p], "statusLookup")
        /\ UNCHANGED accountProxy

\* Mutant of GetLoan: a premium account is looked up once and its proxy kept.
GetLoanFromCache(u) ==
    \E p \in Pesels :
        \/ /\ Choose(u, p, [op |-> "getAccount", PESEL |-> p], "loanLookup")
           /\ UNCHANGED accountProxy
        \/ /\ \E id \in {IdentityOf(q) : q \in CreateRequests} :
                 /\ id \in opened
                 /\ Choose(u, p, [op |-> "isPremium", account |-> id], "printing")
                 /\ accountProxy' = [accountProxy EXCEPT ![u] = id]

GetLoan(u) ==
    \E p \in Pesels :
        /\ Choose(u, p, [op |-> "getAccount", PESEL |-> p], "loanLookup")
        /\ UNCHANGED accountProxy

Has(u, at) == place[u] = at /\ phase[u] = "answered" /\ reply[u].status = "ok"

\* No call is under way.
Rest(u) ==
    /\ phase' = [phase EXCEPT ![u] = "idle"]
    /\ request' = [request EXCEPT ![u] = None]
    /\ reply' = [reply EXCEPT ![u] = None]

\* Mutant of ToMenu: the local of the choice is kept.
ToMenuKeepsProxy(u) ==
    /\ Rest(u)
    /\ place' = [place EXCEPT ![u] = "menu"]
    /\ UNCHANGED <<accountProxy, shown, error>>

ToMenu(u) ==
    /\ Rest(u)
    /\ place' = [place EXCEPT ![u] = "menu"]
    /\ accountProxy' = [accountProxy EXCEPT ![u] = None]
    /\ UNCHANGED <<shown, error>>

\* An exception that nobody catches.
End(u, e) ==
    /\ Rest(u)
    /\ place' = [place EXCEPT ![u] = "ended"]
    /\ accountProxy' = [accountProxy EXCEPT ![u] = None]
    /\ error' = [error EXCEPT ![u] = e]
    /\ UNCHANGED shown

\* The next call of the same choice.
GoOn(u, op, account, at) ==
    /\ Ask(u, [op |-> op, account |-> account], at)
    /\ accountProxy' = [accountProxy EXCEPT ![u] = account]
    /\ UNCHANGED error

\* getAccount(PESEL).account is None if there is no account: the next call on it fails.
Found(u, op, at) ==
    LET account == reply[u].value.account
    IN  IF account = None THEN End(u, "nullAccount")
        ELSE GoOn(u, op, account, at) /\ UNCHANGED shown

Continue(u) ==
    /\ \/ (Has(u, "registering") \/ Has(u, "status") \/ Has(u, "asking")) /\ ToMenu(u)
       \/ Has(u, "statusLookup") /\ Found(u, "getAccountStatus", "status")
       \/ Has(u, "loanLookup") /\ Found(u, "isPremium", "printing")
       \/ /\ Has(u, "printing")
          /\ shown' = [shown EXCEPT ![u] = reply[u].value.premium]
          /\ GoOn(u, "isPremium", accountProxy[u], "checking")
       \/ /\ Has(u, "checking")
          /\ IF reply[u].value.premium
             THEN GoOn(u, "ice_isA", accountProxy[u], "casting") /\ UNCHANGED shown
             ELSE ToMenu(u)
       \/ /\ Has(u, "casting")
          /\ IF reply[u].value.isA
             THEN GoOn(u, "getLoan", accountProxy[u], "asking") /\ UNCHANGED shown
             ELSE End(u, "nullCast")
    /\ UNCHANGED <<accounts, listed, connectedIn, life, since, had, opened, choices>>

\* The run time repeats an idempotent call whose connection was lost.
Repeat(u) ==
    /\ phase[u] = "answered" /\ reply[u].status = "ConnectionLostException"
    /\ request[u].op \in Idempotent
    /\ phase' = [phase EXCEPT ![u] = "sent"]
    /\ reply' = [reply EXCEPT ![u] = None]
    /\ UNCHANGED <<request, accounts, listed, place, choiceVars, error, connectedIn, life,
                   opened, choices>>

Throw(u) ==
    /\ phase[u] = "answered" /\ reply[u].status # "ok"
    /\ End(u, reply[u].status)
    /\ UNCHANGED <<accounts, listed, connectedIn, life, since, had, opened, choices>>

\* Choice 0.
Exit(u) ==
    /\ place[u] = "menu"
    /\ place' = [place EXCEPT ![u] = "ended"]
    /\ UNCHANGED <<bankVars, choiceVars, error, connectedIn, life, opened, choices>>

-----------------------------------------------------------------------------
(* The connection.                                                         *)

\* The client notices that its connection is gone before the next request is sent.
Reconnect(u) ==
    /\ connectedIn[u] # life /\ phase[u] # "sent"
    /\ connectedIn' = [connectedIn EXCEPT ![u] = life]
    /\ UNCHANGED <<bankVars, place, choiceVars, error, life, opened, choices>>

\* Or the request has been written to the old connection.
LoseConnection(u) ==
    /\ connectedIn[u] # life /\ phase[u] = "sent"
    /\ connectedIn' = [connectedIn EXCEPT ![u] = life]
    /\ phase' = [phase EXCEPT ![u] = "answered"]
    /\ reply' = [reply EXCEPT ![u] = Raised("ConnectionLostException")]
    /\ UNCHANGED <<request, accounts, listed, place, choiceVars, error, life, opened, choices>>

-----------------------------------------------------------------------------
(* The bank.                                                               *)

\* Mutant of InvokePremium: a call for an account that is gone has no answer.
InvokePremiumOfServant(u) ==
    /\ request[u] \in PremiumRequests
    /\ LET account == accounts[request[u].account]
       IN  /\ account # None
           /\ IF request[u].op = "ice_isA"
              THEN Bank!Serve(u, Ok([isA |-> account.class = "PremiumAccount"]))
              ELSE Bank!Serve(u, Ok([cost |-> 0]))
    /\ UNCHANGED <<accounts, listed>>

\* ice_isA and getLoan; a loan in a currency that has no rate fails (StockExchange).
InvokePremium(u) ==
    /\ request[u] \in PremiumRequests
    /\ LET account == accounts[request[u].account]
       IN  CASE account = None -> Bank!Serve(u, Raised("ObjectNotExistException"))
             [] account # None /\ request[u].op = "ice_isA" ->
                  Bank!Serve(u, Ok([isA |-> account.class = "PremiumAccount"]))
             [] account # None /\ request[u].op = "getLoan" ->
                  IF account.class = "PremiumAccount"
                  THEN \/ Bank!Serve(u, Ok([cost |-> 0]))
                       \/ Bank!Serve(u, Raised("UnknownException"))
                  ELSE Bank!Serve(u, Raised("OperationNotExistException"))
    /\ UNCHANGED <<accounts, listed>>

\* The bank serves u's call and answers it.
Serve(u) ==
    /\ connectedIn[u] = life
    /\ \/ /\ Bank!Open(u)
          /\ opened' = opened \cup {IdentityOf(request[u])}
       \/ /\ Bank!Refuse(u) \/ Bank!Lookup(u) \/ Bank!Query(u) \/ InvokePremium(u)
          /\ UNCHANGED opened
       \/ Bank!Answer(u) /\ UNCHANGED opened
    /\ UNCHANGED <<place, choiceVars, error, connectedIn, life, choices>>

\* The process ends and is started again: calls under way lose their connection.
Restart ==
    /\ life < MaxRestarts
    /\ life' = life + 1
    /\ Bank!Restart
    /\ UNCHANGED <<place, choiceVars, error, connectedIn, opened, choices>>

-----------------------------------------------------------------------------

Running(u) == Continue(u) \/ Repeat(u) \/ Throw(u) \/ Serve(u) \/ LoseConnection(u)

Next ==
    \/ \E u \in Clients :
          \/ RegisterToBank(u) \/ AccountStatus(u) \/ GetLoan(u) \/ Exit(u)
          \/ Running(u) \/ Reconnect(u)
    \/ Restart

\* A client, the bank and what is between them run.  Users need not choose.
Fairness == \A u \in Clients : WF_vars(Running(u))

Spec == Init /\ [][Next]_vars /\ Fairness

-----------------------------------------------------------------------------
(* Type correctness; accountProxy is set exactly where it is used.         *)
TypeOK ==
    /\ request \in [Clients -> Requests \cup PremiumRequests \cup {None}]
    /\ phase \in [Clients -> {"idle", "sent", "served", "answered"}]
    /\ accounts \in [Identities -> AccountServants \cup {None}]
    /\ listed \in [Pesels -> CreatedAccounts \cup {None}]
    /\ place \in [Clients -> Places]
    /\ accountProxy \in [Clients -> Identities \cup {None}]
    /\ shown \in [Clients -> BOOLEAN] /\ had \in [Clients -> BOOLEAN]
    /\ error \in [Clients -> Errors \cup {None}]
    /\ life \in 0 .. MaxRestarts /\ choices \in 0 .. MaxChoices
    /\ connectedIn \in [Clients -> 0 .. life] /\ since \in [Clients -> 0 .. life]
    /\ opened \subseteq Identities
    /\ \A u \in Clients :
          /\ (place[u] \in {"menu", "ended"}) <=> (phase[u] = "idle")
          /\ (place[u] \in Bound) <=> (accountProxy[u] # None)
          /\ error[u] # None => place[u] = "ended"

-----------------------------------------------------------------------------
(* Safety.                                                                 *)

\* The up to five calls of the choice "get loan" agree with one another although the bank
\* may be restarted, and the account opened anew by someone else, between any two
\* of them: what is shown is what is decided, the cast of an account that says it is
\* premium succeeds, and the loan is asked of a premium account.
LoanPathAgrees ==
    \A u \in Clients :
        /\ error[u] \notin {"nullCast", "OperationNotExistException"}
        /\ Has(u, "checking") => shown[u] = reply[u].value.premium

\* The client does not fail without a reason its user can know of: an account that
\* existed when the choice was made is found, and still there for every call of the
\* choice, unless the bank was restarted; so is the connection; registration is
\* refused only for an account that was opened.  Nothing is said of a loan that fails
\* because its currency has no rate (UnknownException): that is up to the feed.
FailuresExplained ==
    \A u \in Clients :
        /\ error[u] = "nullAccount" => ~had[u] \/ since[u] < life
        /\ error[u] = "ObjectNotExistException" => since[u] < life
        /\ error[u] = "ConnectionLostException" => life > 0
        /\ place[u] = "registering" /\ reply[u] = Raised("UnknownLocalException") =>
              IdentityOf(request[u]).name = EmptyPesel \/ IdentityOf(request[u]) \in opened

-----------------------------------------------------------------------------
(* Liveness.                                                               *)

\* Every choice comes back to the menu or ends the client with an exception.
ChoiceEnds == \A u \in Clients : place[u] # "menu" ~> place[u] \in {"menu", "ended"}

=============================================================================
