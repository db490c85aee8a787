----------------------------- MODULE AccountBook -----------------------------
(***************************************************************************)
(* What a client may rely on when it calls the bank: a book of accounts    *)
(* on which every call takes effect in one step, at some moment between    *)
(* the call and its answer.  A restart of the bank empties the book.       *)
(*                                                                         *)
(* AccountsCreator, which registers a servant and lists it in two          *)
(* separate steps, is shown to implement this module when the server       *)
(* dispatches one request at a time (the Ice default).                     *)
(***************************************************************************)
EXTENDS BankTypes

CONSTANT Calls

VARIABLES
    request,    \* request[c]: what call c asks for
    phase,      \* phase[c]: where call c is
    reply,      \* reply[c]: the answer to c, fixed in the step that serves c
    accounts,   \* accounts[id]: the account opened under id, or None
    listed      \* listed[p]: the account that getAccount(p) hands out, or None

vars == <<request, phase, reply, accounts, listed>>

Init ==
    /\ request  = [c \in Calls |-> None]
    /\ phase    = [c \in Calls |-> "idle"]
    /\ reply    = [c \in Calls |-> None]
    /\ accounts = [id \in Identities |-> None]
    /\ listed   = [p \in Pesels |-> None]

Send(c) ==
    /\ phase[c] = "idle"
    /\ \E r \in Requests : request' = [request EXCEPT ![c] = r]
    /\ phase' = [phase EXCEPT ![c] = "sent"]
    /\ UNCHANGED <<reply, accounts, listed>>

Serve(c, r) ==
    /\ phase[c] = "sent"
    /\ phase' = [phase EXCEPT ![c] = "served"]
    /\ reply' = [reply EXCEPT ![c] = r]
    /\ UNCHANGED request

\* An account is opened and listed, both or neither.
Open(c) ==
    /\ request[c] \in CreateRequests
    /\ \E key \in Keys, balance \in Balances :
          LET id == IdentityOf(request[c])
              newAccount == [account |-> id, key |-> key,
                             isPremium |-> isPremium(request[c].income)]
          IN  /\ id.name # EmptyPesel
              /\ accounts[id] = None
              /\ accounts' = [accounts EXCEPT ![id] =
                    [class |-> ClassOf(request[c]), key |-> key, balance |-> balance]]
              /\ listed' = [listed EXCEPT ![id.name] = newAccount]
              /\ Serve(c, Ok(newAccount))

\* An account that exists, or that can have no identity, is not opened.
Refuse(c) ==
    /\ request[c] \in CreateRequests
    /\ IdentityOf(request[c]).name = EmptyPesel \/ accounts[IdentityOf(request[c])] # None
    /\ Serve(c, Raised("UnknownLocalException"))
    /\ UNCHANGED <<accounts, listed>>

Lookup(c) ==
    /\ request[c] \in LookupRequests
    /\ Serve(c, Ok(Marshal(listed[request[c].PESEL])))
    /\ UNCHANGED <<accounts, listed>>

Query(c) ==
    /\ request[c] \in AccountRequests
    /\ LET account == accounts[request[c].account]
       IN  Serve(c, IF account = None THEN Raised("ObjectNotExistException")
                    ELSE Ok(AccountResult(request[c].op, account)))
    /\ UNCHANGED <<accounts, listed>>

Answer(c) ==
    /\ phase[c] = "served"
    /\ phase' = [phase EXCEPT ![c] = "answered"]
    /\ UNCHANGED <<request, reply, accounts, listed>>

Pending == {c \in Calls : phase[c] \in {"sent", "served"}}

Restart ==
    /\ accounts' = [id \in Identities |-> None]
    /\ listed' = [p \in Pesels |-> None]
    /\ phase' = [c \in Calls |-> IF c \in Pending THEN "answered" ELSE phase[c]]
    /\ reply' = [c \in Calls |-> IF c \in Pending THEN Raised("ConnectionLostException")
                                 ELSE reply[c]]
    /\ UNCHANGED request

Next ==
    \/ \E c \in Calls : Send(c) \/ Open(c) \/ Refuse(c) \/ Lookup(c) \/ Query(c) \/ Answer(c)
    \/ Restart

Spec == Init /\ [][Next]_vars
=============================================================================
