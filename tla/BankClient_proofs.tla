-------------------------- MODULE BankClient_proofs --------------------------
(***************************************************************************)
(* Theorems about BankClient: for any number of users, choices and         *)
(* restarts of the bank, its state is well formed, the calls of the loan   *)
(* choice agree with one another, and a null proxy, a missing account, a   *)
(* lost connection and a refused registration have their reasons.          *)
(*                                                                         *)
(* Both rest on one inductive invariant.  It says of the bank that an      *)
(* account's class follows from its identity and that nothing is forgotten *)
(* between two restarts, and of each user what the call under way asks     *)
(* for, what its answer may be and what the earlier answers of the same    *)
(* choice have established.                                                *)
(***************************************************************************)
EXTENDS BankClient, TLAPS

\* The account of the proxy is a premium account, by its identity.
PremiumProxy(u) == accountProxy[u].category = "premium"

\* Nothing the user knew when the choice was made has to hold any more.
Restarted(u) == since[u] < life

\* What the bank holds: classes follow identities, what is listed is registered,
\* and what is registered has been opened.
BookInv ==
    /\ \A id \in Identities : accounts[id] # None =>
          /\ (accounts[id].class = "PremiumAccount") <=> (id.category = "premium")
          /\ id \in opened
    /\ \A p \in Pesels : listed[p] # None => accounts[listed[p].account] # None

\* The operation that is called where the proxy is used.
OperationAt(at) ==
    CASE at = "status" -> "getAccountStatus"
      [] at \in {"printing", "checking"} -> "isPremium"
      [] at = "casting" -> "ice_isA"
      [] at = "asking" -> "getLoan"

Lookups == {"statusLookup", "loanLookup"}

\* What the call under way asks for, and what it may rely on.
Asked(u) ==
    /\ place[u] = "registering" => request[u] \in CreateRequests
    /\ place[u] \in Lookups =>
          /\ request[u] \in LookupRequests
          /\ had[u] => Restarted(u) \/ listed[request[u].PESEL] # None
    /\ place[u] \in Bound =>
          /\ request[u] = [op |-> OperationAt(place[u]), account |-> accountProxy[u]]
          /\ Restarted(u) \/ accounts[accountProxy[u]] # None
    /\ place[u] = "checking" => (shown[u] <=> PremiumProxy(u))
    /\ place[u] \in {"casting", "asking"} => PremiumProxy(u)

\* What a successful answer says.
Answered(u) ==
    /\ place[u] \in Lookups =>
          \/ reply[u].value.account = None /\ (had[u] => Restarted(u))
          \/ /\ reply[u].value.account \in Identities
             /\ Restarted(u) \/ accounts[reply[u].value.account] # None
    /\ place[u] \in {"printing", "checking"} =>
          reply[u].value.premium = PremiumProxy(u)
    /\ place[u] = "casting" => reply[u].value.isA = PremiumProxy(u)

\* The exceptions that a call may raise, each with its reason.
Refused(u) ==
    \/ reply[u] = Raised("ConnectionLostException") /\ life > 0
    \/ /\ reply[u] = Raised("UnknownLocalException") /\ place[u] = "registering"
       /\ IdentityOf(request[u]).name = EmptyPesel \/ IdentityOf(request[u]) \in opened
    \/ reply[u] = Raised("ObjectNotExistException") /\ Restarted(u)
    \/ reply[u] = Raised("UnknownException")

ReplyInv(u) ==
    /\ phase[u] \in {"idle", "sent"} => reply[u] = None
    /\ phase[u] \in {"served", "answered"} =>
          (reply[u].status = "ok" /\ Answered(u)) \/ Refused(u)

\* Why a client has ended.
ErrorInv(u) ==
    /\ error[u] \notin {"nullCast", "OperationNotExistException"}
    /\ error[u] = "nullAccount" => ~had[u] \/ Restarted(u)
    /\ error[u] = "ObjectNotExistException" => Restarted(u)
    /\ error[u] = "ConnectionLostException" => life > 0

UserInv(u) == Asked(u) /\ ReplyInv(u) /\ ErrorInv(u)

IndInv == TypeOK /\ BookInv /\ DOMAIN reply = Clients /\ \A u \in Clients : UserInv(u)

-----------------------------------------------------------------------------
(* The steps of the book, in the names of this module.                     *)

LEMMA SameTypes ==
    /\ Bank!Identities = Identities
    /\ Bank!CreateRequests = CreateRequests
    /\ Bank!LookupRequests = LookupRequests
    /\ Bank!AccountRequests = AccountRequests
    /\ Bank!NullMarshalValue = NullMarshalValue
    /\ \A r : Bank!IdentityOf(r) = IdentityOf(r) /\ Bank!ClassOf(r) = ClassOf(r)
    /\ \A v : Bank!Ok(v) = Ok(v) /\ Bank!Raised(v) = Raised(v) /\ Bank!Marshal(v) = Marshal(v)
    /\ \A i : Bank!isPremium(i) = isPremium(i)
    /\ \A op, a : Bank!AccountResult(op, a) = AccountResult(op, a)
BY DEF Bank!Identities, Identities, Bank!CreateRequests, CreateRequests,
       Bank!LookupRequests, LookupRequests, Bank!AccountRequests, AccountRequests,
       Bank!IdentityOf, IdentityOf, Bank!ClassOf, ClassOf, Bank!Category, Category,
       Bank!isPremium, isPremium, Bank!PREMIUM_MIN_LIMIT, PREMIUM_MIN_LIMIT,
       Bank!Ok, Ok, Bank!Raised, Raised, Bank!Marshal, Marshal,
       Bank!NullMarshalValue, NullMarshalValue, Bank!AccountResult, AccountResult

LEMMA BankInit ==
    ASSUME Bank!Init
    PROVE  /\ request  = [u \in Clients |-> None]
           /\ phase    = [u \in Clients |-> "idle"]
           /\ reply    = [u \in Clients |-> None]
           /\ accounts = [id \in Identities |-> None]
           /\ listed   = [p \in Pesels |-> None]
BY SameTypes DEF Bank!Init

\* The bank fixes the answer r of u's call.
Fixes(u, r) ==
    /\ phase[u] = "sent"
    /\ phase' = [phase EXCEPT ![u] = "served"]
    /\ reply' = [reply EXCEPT ![u] = r]
    /\ UNCHANGED request

LEMMA BankServe == \A u \in Clients : \A r : Bank!Serve(u, r) => Fixes(u, r)
BY DEF Bank!Serve, Fixes

LEMMA BankOpen ==
    ASSUME NEW u \in Clients, Bank!Open(u)
    PROVE  \E key \in Keys, balance \in Balances :
              LET id == IdentityOf(request[u])
                  newAccount == [account |-> id, key |-> key,
                                 isPremium |-> isPremium(request[u].income)]
              IN  /\ request[u] \in CreateRequests
                  /\ accounts' = [accounts EXCEPT ![id] =
                        [class |-> ClassOf(request[u]), key |-> key, balance |-> balance]]
                  /\ listed' = [listed EXCEPT ![id.name] = newAccount]
                  /\ Fixes(u, Ok(newAccount))
BY SameTypes, BankServe DEF Bank!Open

LEMMA BankRefuse ==
    ASSUME NEW u \in Clients, Bank!Refuse(u)
    PROVE  /\ request[u] \in CreateRequests
           /\ \/ IdentityOf(request[u]).name = EmptyPesel
              \/ accounts[IdentityOf(request[u])] # None
           /\ Fixes(u, Raised("UnknownLocalException"))
           /\ UNCHANGED <<accounts, listed>>
BY SameTypes, BankServe DEF Bank!Refuse

LEMMA BankLookup ==
    ASSUME NEW u \in Clients, Bank!Lookup(u)
    PROVE  /\ request[u] \in LookupRequests
           /\ Fixes(u, Ok(Marshal(listed[request[u].PESEL])))
           /\ UNCHANGED <<accounts, listed>>
BY SameTypes, BankServe DEF Bank!Lookup

LEMMA BankQuery ==
    ASSUME NEW u \in Clients, Bank!Query(u)
    PROVE  /\ request[u] \in AccountRequests
           /\ LET account == accounts[request[u].account]
              IN  Fixes(u, IF account = None THEN Raised("ObjectNotExistException")
                           ELSE Ok(AccountResult(request[u].op, account)))
           /\ UNCHANGED <<accounts, listed>>
BY SameTypes, BankServe DEF Bank!Query

LEMMA BankAnswer ==
    ASSUME NEW u \in Clients, Bank!Answer(u)
    PROVE  /\ phase[u] = "served" /\ phase' = [phase EXCEPT ![u] = "answered"]
           /\ UNCHANGED <<request, reply, accounts, listed>>
BY DEF Bank!Answer

LEMMA BankRestart ==
    ASSUME Bank!Restart
    PROVE  LET Pending == {u \in Clients : phase[u] \in {"sent", "served"}}
           IN  /\ accounts' = [id \in Identities |-> None]
               /\ listed' = [p \in Pesels |-> None]
               /\ phase' = [u \in Clients |->
                              IF u \in Pending THEN "answered" ELSE phase[u]]
               /\ reply' = [u \in Clients |->
                              IF u \in Pending THEN Raised("ConnectionLostException")
                              ELSE reply[u]]
               /\ UNCHANGED request
BY SameTypes DEF Bank!Restart, Bank!Pending

-----------------------------------------------------------------------------
(* The initial states.                                                     *)

LEMMA InitIndInv == Init => IndInv
<1> SUFFICES ASSUME Init PROVE IndInv
  OBVIOUS
<1>1. Bank!Init
  BY DEF Init
<1>2. TypeOK
  BY <1>1, BankInit, ClientAssumption DEF Init, TypeOK, Places, Bound
<1>3. BookInv
  BY <1>1, BankInit DEF BookInv
<1>4. ASSUME NEW u \in Clients PROVE UserInv(u)
  BY <1>1, BankInit, ErrorAssumption
     DEF Init, UserInv, Asked, ReplyInv, ErrorInv, Lookups, Bound, Errors
<1>5. QED
  BY <1>1, <1>2, <1>3, <1>4, BankInit DEF IndInv

-----------------------------------------------------------------------------
(* What a step leaves of what the users rely on.                           *)

\* No step but a restart takes an account away.
Keeps ==
    /\ life' = life
    /\ opened \subseteq opened'
    /\ \A id \in Identities : accounts[id] # None => accounts'[id] # None
    /\ \A p \in Pesels : listed[p] # None => listed'[p] # None

\* A step that is not user v's keeps what holds of v.
LEMMA OthersKeep ==
    ASSUME IndInv, Keeps, NEW v \in Clients,
           request'[v] = request[v], phase'[v] = phase[v], reply'[v] = reply[v],
           place'[v] = place[v], accountProxy'[v] = accountProxy[v], shown'[v] = shown[v],
           error'[v] = error[v], since'[v] = since[v], had'[v] = had[v]
    PROVE  UserInv(v)'
<1>1. UserInv(v) /\ life \in Nat /\ accountProxy[v] \in Identities \cup {None}
      /\ (place[v] \in Bound => accountProxy[v] # None)
  BY ClientAssumption DEF IndInv, TypeOK
<1>2. Asked(v)'
  BY <1>1 DEF UserInv, Asked, Keeps, Restarted, PremiumProxy, LookupRequests, OperationAt, Bound
<1>3. ReplyInv(v)'
  <2>1. Answered(v) => Answered(v)'
    BY DEF Answered, Keeps, Restarted, PremiumProxy
  <2>2. Refused(v) => Refused(v)'
    BY DEF Refused, Keeps, Restarted
  <2>3. QED
    BY <1>1, <2>1, <2>2 DEF UserInv, ReplyInv
<1>4. ErrorInv(v)'
  BY <1>1 DEF UserInv, ErrorInv, Keeps, Restarted
<1>5. QED
  BY <1>2, <1>3, <1>4 DEF UserInv

\* User u's step does not touch what is another's.
Alone(u) ==
    \A v \in Clients \ {u} :
        /\ request'[v] = request[v] /\ phase'[v] = phase[v] /\ reply'[v] = reply[v]
        /\ place'[v] = place[v] /\ accountProxy'[v] = accountProxy[v]
        /\ shown'[v] = shown[v] /\ error'[v] = error[v]
        /\ since'[v] = since[v] /\ had'[v] = had[v]

\* A step of u is done with when the book, the types and u's part are kept.
LEMMA StepOf ==
    ASSUME IndInv, NEW u \in Clients, Alone(u), Keeps,
           TypeOK', BookInv', DOMAIN reply' = Clients, UserInv(u)'
    PROVE  IndInv'
<1>1. \A v \in Clients : UserInv(v)'
  BY OthersKeep DEF Alone
<1>2. QED
  BY <1>1 DEF IndInv

-----------------------------------------------------------------------------
(* The client's steps.                                                     *)

\* What is left of the bank by a step of the client.
LEMMA BookKept ==
    ASSUME IndInv, UNCHANGED <<accounts, listed, life, opened>>
    PROVE  BookInv' /\ Keeps
BY DEF IndInv, BookInv, Keeps

LEMMA ChooseStep ==
    ASSUME IndInv, NEW u \in Clients, NEW p \in Pesels, NEW r \in Requests,
           NEW at \in {"registering"} \cup Lookups,
           at = "registering" => r \in CreateRequests,
           at \in Lookups => r \in LookupRequests /\ r.PESEL = p,
           Choose(u, p, r, at), UNCHANGED accountProxy
    PROVE  IndInv'
<1>1. BookInv' /\ Keeps
  BY BookKept DEF Choose
<1>2. /\ Alone(u) /\ DOMAIN reply' = Clients
      /\ request'[u] = r /\ phase'[u] = "sent" /\ reply'[u] = None /\ place'[u] = at
      /\ error'[u] = error[u] /\ life' = life
      /\ since'[u] = life /\ had'[u] = (listed[p] # None) /\ listed' = listed
      /\ place[u] = "menu"
  BY DEF IndInv, TypeOK, Choose, Ask, Alone
<1>3. TypeOK'
  BY ClientAssumption DEF IndInv, TypeOK, Choose, Ask, Lookups, Places, Bound
<1>4. UserInv(u)'
  <2>1. Asked(u)'
    BY <1>2 DEF Asked, Lookups, Bound
  <2>2. ReplyInv(u)'
    BY <1>2 DEF ReplyInv
  <2>3. error[u] = None
    BY <1>2 DEF IndInv, TypeOK
  <2>4. ErrorInv(u)'
    BY <1>2, <2>3, ErrorAssumption DEF ErrorInv, Errors
  <2>5. QED
    BY <2>1, <2>2, <2>4 DEF UserInv
<1>5. QED
  BY <1>1, <1>2, <1>3, <1>4, StepOf

\* The choice is over: nothing is relied on any more.
LEMMA AtRest ==
    ASSUME NEW u \in Clients, place'[u] \in {"menu", "ended"}, phase'[u] = "idle",
           reply'[u] = None, ErrorInv(u)'
    PROVE  UserInv(u)'
BY DEF UserInv, Asked, ReplyInv, Lookups, Bound

LEMMA ToMenuStep ==
    ASSUME IndInv, NEW u \in Clients, ToMenu(u), phase[u] # "idle",
           UNCHANGED <<accounts, listed, connectedIn, life, since, had, opened, choices>>
    PROVE  IndInv'
<1>1. BookInv' /\ Keeps
  BY BookKept
<1>2. /\ Alone(u) /\ DOMAIN reply' = Clients
      /\ phase'[u] = "idle" /\ reply'[u] = None /\ place'[u] = "menu"
      /\ UNCHANGED <<error, life, since, had>>
  BY DEF IndInv, TypeOK, ToMenu, Rest, Alone
<1>3. TypeOK'
  BY ClientAssumption DEF IndInv, TypeOK, ToMenu, Rest, Places, Bound
<1>4. ErrorInv(u)'
  BY <1>2 DEF IndInv, UserInv, ErrorInv, Restarted
<1>5. QED
  BY <1>1, <1>2, <1>3, <1>4, AtRest, StepOf

LEMMA EndStep ==
    ASSUME IndInv, NEW u \in Clients, NEW e \in Errors, End(u, e), phase[u] # "idle",
           e \notin {"nullCast", "OperationNotExistException"},
           e = "nullAccount" => ~had[u] \/ Restarted(u),
           e = "ObjectNotExistException" => Restarted(u),
           e = "ConnectionLostException" => life > 0,
           UNCHANGED <<accounts, listed, connectedIn, life, since, had, opened, choices>>
    PROVE  IndInv'
<1>1. BookInv' /\ Keeps
  BY BookKept
<1>2. /\ Alone(u) /\ DOMAIN reply' = Clients
      /\ phase'[u] = "idle" /\ reply'[u] = None /\ place'[u] = "ended"
      /\ error'[u] = e /\ UNCHANGED <<life, since, had>>
  BY DEF IndInv, TypeOK, End, Rest, Alone
<1>3. TypeOK'
  BY ClientAssumption, ErrorAssumption DEF IndInv, TypeOK, End, Rest, Places, Bound
<1>4. ErrorInv(u)'
  BY <1>2 DEF ErrorInv, Restarted
<1>5. QED
  BY <1>1, <1>2, <1>3, <1>4, AtRest, StepOf

\* The next call of a choice.
LEMMA GoOnStep ==
    ASSUME IndInv, NEW u \in Clients, phase[u] = "answered",
           NEW at \in Bound, NEW account \in Identities,
           GoOn(u, OperationAt(at), account, at),
           Restarted(u) \/ accounts[account] # None,
           shown' \in [Clients -> BOOLEAN],
           \A v \in Clients \ {u} : shown'[v] = shown[v],
           at = "checking" => (shown'[u] <=> account.category = "premium"),
           at \in {"casting", "asking"} => account.category = "premium",
           UNCHANGED <<accounts, listed, connectedIn, life, since, had, opened, choices>>
    PROVE  IndInv'
<1>1. BookInv' /\ Keeps
  BY BookKept
<1>2. /\ Alone(u) /\ DOMAIN reply' = Clients
      /\ request'[u] = [op |-> OperationAt(at), account |-> account]
      /\ phase'[u] = "sent" /\ reply'[u] = None /\ place'[u] = at
      /\ accountProxy'[u] = account
      /\ UNCHANGED <<error, life, since, had, accounts>>
  BY DEF IndInv, TypeOK, GoOn, Ask, Alone
<1>3. TypeOK'
  <2>1. [op |-> OperationAt(at), account |-> account] \in Requests \cup PremiumRequests
    BY DEF OperationAt, Bound, Requests, AccountRequests, PremiumRequests
  <2>2. error[u] = None /\ account # None
    BY NoneAssumption DEF IndInv, TypeOK
  <2>3. QED
    BY <2>1, <2>2, ClientAssumption DEF IndInv, TypeOK, GoOn, Ask, Places, Bound
<1>4. UserInv(u)'
  <2>1. Asked(u)'
    BY <1>2 DEF Asked, Restarted, PremiumProxy, Lookups, Bound
  <2>2. ReplyInv(u)'
    BY <1>2 DEF ReplyInv
  <2>3. ErrorInv(u)'
    BY <1>2 DEF IndInv, UserInv, ErrorInv, Restarted
  <2>4. QED
    BY <2>1, <2>2, <2>3 DEF UserInv
<1>5. QED
  BY <1>1, <1>2, <1>3, <1>4, StepOf

\* A lookup has found an account, or the choice ends.
LEMMA FoundStep ==
    ASSUME IndInv, NEW u \in Clients, NEW from \in Lookups, Has(u, from),
           NEW at \in {"status", "printing"}, Found(u, OperationAt(at), at),
           UNCHANGED <<accounts, listed, connectedIn, life, since, had, opened, choices>>
    PROVE  IndInv'
<1> DEFINE account == reply[u].value.account
<1>1. \/ account = None /\ (had[u] => Restarted(u))
      \/ account \in Identities /\ (Restarted(u) \/ accounts[account] # None)
  <2>1. ~Refused(u)
    BY DEF Refused, Raised, Has
  <2>2. QED
    BY <2>1 DEF IndInv, UserInv, ReplyInv, Answered, Has
<1>2. CASE account = None
  BY <1>1, <1>2, NoneAssumption, EndStep DEF Found, Has, Errors
<1>3. CASE account # None
  <2>1. GoOn(u, OperationAt(at), account, at) /\ UNCHANGED shown
    BY <1>3 DEF Found
  <2>2. shown \in [Clients -> BOOLEAN] /\ phase[u] = "answered" /\ at \in Bound
    BY DEF IndInv, TypeOK, Has, Bound
  <2>3. QED
    BY <1>1, <1>3, <2>1, <2>2, GoOnStep
<1>4. QED
  BY <1>2, <1>3

LEMMA ContinueStep ==
    ASSUME IndInv, NEW u \in Clients, Continue(u)
    PROVE  IndInv'
<1>1. /\ phase[u] = "answered" /\ reply[u].status = "ok" /\ Answered(u)
      /\ UNCHANGED <<accounts, listed, connectedIn, life, since, had, opened, choices>>
  <2>1. ~Refused(u)
    BY DEF Refused, Raised, Continue, Has
  <2>2. QED
    BY <2>1 DEF IndInv, UserInv, ReplyInv, Continue, Has
<1>2. ASSUME place[u] \in Bound
      PROVE  /\ accountProxy[u] \in Identities
             /\ Restarted(u) \/ accounts[accountProxy[u]] # None
  BY <1>2, NoneAssumption DEF IndInv, TypeOK, UserInv, Asked
<1>3. shown \in [Clients -> BOOLEAN]
  BY DEF IndInv, TypeOK
<1>4. CASE (Has(u, "registering") \/ Has(u, "status") \/ Has(u, "asking")) /\ ToMenu(u)
  BY <1>1, <1>4, ToMenuStep
<1>5. CASE Has(u, "statusLookup") /\ Found(u, "getAccountStatus", "status")
  <2>1. OperationAt("status") = "getAccountStatus" /\ "statusLookup" \in Lookups
    BY DEF OperationAt, Lookups
  <2>2. QED
    BY <1>1, <1>5, <2>1, FoundStep
<1>6. CASE Has(u, "loanLookup") /\ Found(u, "isPremium", "printing")
  <2>1. OperationAt("printing") = "isPremium" /\ "loanLookup" \in Lookups
    BY DEF OperationAt, Lookups
  <2>2. QED
    BY <1>1, <1>6, <2>1, FoundStep
<1>7. CASE /\ Has(u, "printing")
           /\ shown' = [shown EXCEPT ![u] = reply[u].value.premium]
           /\ GoOn(u, "isPremium", accountProxy[u], "checking")
  <2>1. OperationAt("checking") = "isPremium" /\ "checking" \in Bound
        /\ place[u] = "printing" /\ place[u] \in Bound
    BY <1>7 DEF OperationAt, Bound, Has
  <2>2. reply[u].value.premium = PremiumProxy(u)
    BY <1>1, <2>1 DEF Answered
  <2>3. /\ shown' \in [Clients -> BOOLEAN]
        /\ \A v \in Clients \ {u} : shown'[v] = shown[v]
        /\ shown'[u] <=> accountProxy[u].category = "premium"
    BY <1>3, <1>7, <2>2 DEF PremiumProxy
  <2>4. QED
    BY <1>1, <1>2, <1>7, <2>1, <2>3, GoOnStep
<1>8. CASE /\ Has(u, "checking")
           /\ IF reply[u].value.premium
              THEN GoOn(u, "ice_isA", accountProxy[u], "casting") /\ UNCHANGED shown
              ELSE ToMenu(u)
  <2>1. OperationAt("casting") = "ice_isA" /\ "casting" \in Bound
        /\ place[u] = "checking" /\ place[u] \in Bound
    BY <1>8 DEF OperationAt, Bound, Has
  <2>2. reply[u].value.premium = PremiumProxy(u)
    BY <1>1, <2>1 DEF Answered
  <2>3. CASE reply[u].value.premium
    BY <1>1, <1>2, <1>3, <1>8, <2>1, <2>2, <2>3, GoOnStep DEF PremiumProxy
  <2>4. CASE ~reply[u].value.premium
    BY <1>1, <1>8, <2>4, ToMenuStep
  <2>5. QED
    BY <2>3, <2>4
<1>9. CASE /\ Has(u, "casting")
           /\ IF reply[u].value.isA
              THEN GoOn(u, "getLoan", accountProxy[u], "asking") /\ UNCHANGED shown
              ELSE End(u, "nullCast")
  <2>1. OperationAt("asking") = "getLoan" /\ "asking" \in Bound
        /\ place[u] = "casting" /\ place[u] \in Bound
    BY <1>9 DEF OperationAt, Bound, Has
  <2>2. reply[u].value.isA = PremiumProxy(u) /\ PremiumProxy(u)
    BY <1>1, <2>1 DEF Answered, IndInv, UserInv, Asked
  <2>3. GoOn(u, "getLoan", accountProxy[u], "asking") /\ UNCHANGED shown
    BY <1>9, <2>2
  <2>4. QED
    BY <1>1, <1>2, <1>3, <2>1, <2>2, <2>3, GoOnStep DEF PremiumProxy
<1>10. QED
  BY <1>4, <1>5, <1>6, <1>7, <1>8, <1>9 DEF Continue

LEMMA RepeatStep ==
    ASSUME IndInv, NEW u \in Clients, Repeat(u)
    PROVE  IndInv'
<1>1. BookInv' /\ Keeps
  BY BookKept DEF Repeat
<1>2. /\ Alone(u) /\ DOMAIN reply' = Clients
      /\ phase'[u] = "sent" /\ reply'[u] = None
      /\ UNCHANGED <<request, place, accountProxy, shown, since, had, error, life, accounts, listed>>
  BY DEF IndInv, TypeOK, Repeat, Alone, choiceVars
<1>3. TypeOK'
  BY ClientAssumption DEF IndInv, TypeOK, Repeat, choiceVars
<1>4. UserInv(u)'
  BY <1>2 DEF IndInv, UserInv, Asked, ReplyInv, ErrorInv, Restarted, PremiumProxy
<1>5. QED
  BY <1>1, <1>2, <1>3, <1>4, StepOf

LEMMA ThrowStep ==
    ASSUME IndInv, NEW u \in Clients, Throw(u)
    PROVE  IndInv'
<1>1. phase[u] = "answered" /\ Refused(u)
  BY DEF IndInv, UserInv, ReplyInv, Throw
<1>2. /\ reply[u].status \in Errors
      /\ reply[u].status \notin {"nullCast", "OperationNotExistException", "nullAccount"}
      /\ reply[u].status = "ObjectNotExistException" => Restarted(u)
      /\ reply[u].status = "ConnectionLostException" => life > 0
  BY <1>1 DEF Refused, Raised, Errors
<1>3. QED
  BY <1>1, <1>2, EndStep DEF Throw

LEMMA ExitStep ==
    ASSUME IndInv, NEW u \in Clients, Exit(u)
    PROVE  IndInv'
<1>1. BookInv' /\ Keeps
  BY BookKept DEF Exit, bankVars
<1>2. /\ Alone(u) /\ DOMAIN reply' = Clients
      /\ phase[u] = "idle" /\ phase'[u] = "idle" /\ place'[u] = "ended"
      /\ reply' = reply /\ UNCHANGED <<error, life, since, had>>
  BY DEF IndInv, TypeOK, Exit, Alone, choiceVars, bankVars
<1>3. TypeOK'
  BY ClientAssumption DEF IndInv, TypeOK, Exit, Places, Bound, choiceVars, bankVars
<1>4. reply'[u] = None /\ ErrorInv(u)'
  BY <1>2 DEF IndInv, UserInv, ReplyInv, ErrorInv, Restarted
<1>5. QED
  BY <1>1, <1>2, <1>3, <1>4, AtRest, StepOf

-----------------------------------------------------------------------------
(* The connection.                                                         *)

LEMMA ReconnectStep ==
    ASSUME IndInv, NEW u \in Clients, Reconnect(u)
    PROVE  IndInv'
<1>1. BookInv' /\ Keeps
  BY BookKept DEF Reconnect, bankVars
<1>2. TypeOK'
  BY ClientAssumption DEF IndInv, TypeOK, Reconnect, choiceVars, bankVars
<1>3. /\ Alone(u) /\ DOMAIN reply' = Clients
      /\ UNCHANGED <<request, phase, reply, place, accountProxy, shown, error, since, had>>
  BY DEF IndInv, Alone, Reconnect, choiceVars, bankVars
<1>4. UserInv(u)'
  BY <1>1, <1>3, OthersKeep
<1>5. QED
  BY <1>1, <1>2, <1>3, <1>4, StepOf

LEMMA LoseConnectionStep ==
    ASSUME IndInv, NEW u \in Clients, LoseConnection(u)
    PROVE  IndInv'
<1>1. BookInv' /\ Keeps
  BY BookKept DEF LoseConnection
<1>2. TypeOK'
  BY ClientAssumption DEF IndInv, TypeOK, LoseConnection, choiceVars
<1>3. /\ Alone(u) /\ DOMAIN reply' = Clients
      /\ phase'[u] = "answered" /\ reply'[u] = Raised("ConnectionLostException")
      /\ UNCHANGED <<request, place, accountProxy, shown, error, since, had, life, accounts, listed>>
  BY DEF IndInv, TypeOK, Alone, LoseConnection, choiceVars
<1>4. life > 0
  BY ClientAssumption DEF IndInv, TypeOK, LoseConnection
<1>5. Asked(u)' /\ ErrorInv(u)'
  BY <1>3 DEF IndInv, UserInv, Asked, ErrorInv, Restarted, PremiumProxy
<1>6. ReplyInv(u)'
  BY <1>3, <1>4 DEF ReplyInv, Refused
<1>7. QED
  BY <1>1, <1>2, <1>3, <1>5, <1>6, StepOf DEF UserInv

-----------------------------------------------------------------------------
(* The bank.                                                               *)

\* The bank fixes an answer; what u has asked for stays as it was.
LEMMA FixStep ==
    ASSUME IndInv, NEW u \in Clients, NEW r, Fixes(u, r), Keeps, BookInv',
           accounts' \in [Identities -> AccountServants \cup {None}],
           listed' \in [Pesels -> CreatedAccounts \cup {None}],
           opened' \subseteq Identities,
           \/ reply'[u].status = "ok" /\ Answered(u)'
           \/ Refused(u)',
           UNCHANGED <<place, choiceVars, error, connectedIn, life, choices>>
    PROVE  IndInv'
<1>1. /\ Alone(u) /\ DOMAIN reply' = Clients
      /\ phase'[u] = "served" /\ phase[u] = "sent"
      /\ UNCHANGED <<request, place, accountProxy, shown, error, since, had>>
  BY DEF IndInv, TypeOK, Alone, Fixes, choiceVars
<1>2. TypeOK'
  BY ClientAssumption DEF IndInv, TypeOK, Fixes, choiceVars
<1>3. Asked(u)'
  BY <1>1, NoneAssumption
     DEF IndInv, TypeOK, UserInv, Asked, Keeps, Restarted, PremiumProxy, LookupRequests, Bound
<1>4. ReplyInv(u)' /\ ErrorInv(u)'
  BY <1>1 DEF IndInv, UserInv, ReplyInv, ErrorInv, Keeps, Restarted
<1>5. QED
  BY <1>1, <1>2, <1>3, <1>4, StepOf DEF UserInv

\* Where the request of the call under way says the client is.
LEMMA PlaceOf ==
    ASSUME IndInv, NEW u \in Clients, phase[u] = "sent"
    PROVE  /\ request[u] \in CreateRequests => place[u] = "registering"
           /\ request[u] \in LookupRequests => place[u] \in Lookups
           /\ request[u] \in AccountRequests \cup PremiumRequests =>
                 place[u] \in Bound /\ accountProxy[u] \in Identities
           /\ request[u] \in AccountRequests =>
                 place[u] \in {"status", "printing", "checking"}
           /\ request[u] \in PremiumRequests => place[u] \in {"casting", "asking"}
<1>1. /\ place[u] \in Places \ {"menu", "ended"} /\ Asked(u)
      /\ place[u] \in Bound => accountProxy[u] \in Identities
  BY DEF IndInv, TypeOK, UserInv
<1>2. QED
  BY <1>1 DEF Asked, Places, Lookups, Bound, CreateRequests, LookupRequests, AccountRequests,
              PremiumRequests, OperationAt

LEMMA OpenStep ==
    ASSUME IndInv, NEW u \in Clients, Bank!Open(u),
           opened' = opened \cup {IdentityOf(request[u])},
           UNCHANGED <<place, choiceVars, error, connectedIn, life, choices>>
    PROVE  IndInv'
<1> DEFINE id == IdentityOf(request[u])
           newAccount(key) == [account |-> id, key |-> key,
                               isPremium |-> isPremium(request[u].income)]
           servant(key, balance) ==
               [class |-> ClassOf(request[u]), key |-> key, balance |-> balance]
<1>1. PICK key \in Keys, balance \in Balances :
         /\ request[u] \in CreateRequests
         /\ accounts' = [accounts EXCEPT ![id] = servant(key, balance)]
         /\ listed' = [listed EXCEPT ![id.name] = newAccount(key)]
         /\ Fixes(u, Ok(newAccount(key)))
  BY BankOpen
<1>2. /\ id \in Identities /\ id.name \in Pesels
      /\ servant(key, balance) \in AccountServants /\ newAccount(key) \in CreatedAccounts
      /\ (ClassOf(request[u]) = "PremiumAccount") <=> (id.category = "premium")
  BY <1>1, DataAssumption DEF IdentityOf, ClassOf, Category, isPremium, Identities, CreateRequests,
                              AccountServants, CreatedAccounts, PREMIUM_MIN_LIMIT
<1>3. /\ accounts' \in [Identities -> AccountServants \cup {None}]
      /\ listed' \in [Pesels -> CreatedAccounts \cup {None}]
      /\ opened' \subseteq Identities
      /\ accounts'[id] = servant(key, balance) /\ accounts'[id] # None
      /\ listed'[id.name] = newAccount(key) /\ listed'[id.name] # None
      /\ \A d \in Identities \ {id} : accounts'[d] = accounts[d]
      /\ \A p \in Pesels \ {id.name} : listed'[p] = listed[p]
  BY <1>1, <1>2, NoneAssumption DEF IndInv, TypeOK
<1>4. newAccount(key).account = id /\ servant(key, balance).class = ClassOf(request[u])
  OBVIOUS
<1> HIDE DEF id, newAccount, servant
<1>5. Keeps
  BY <1>3 DEF Keeps, choiceVars
<1>6. BookInv'
  <2>1. ASSUME NEW d \in Identities, accounts'[d] # None
        PROVE  /\ (accounts'[d].class = "PremiumAccount") <=> (d.category = "premium")
               /\ d \in opened'
    BY <1>2, <1>3, <1>4, <2>1 DEF IndInv, BookInv, id
  <2>2. ASSUME NEW p \in Pesels, listed'[p] # None PROVE accounts'[listed'[p].account] # None
    <3>1. CASE p = id.name
      BY <1>3, <1>4, <3>1
    <3>2. CASE p # id.name
      <4>1. listed[p] \in CreatedAccounts /\ accounts[listed[p].account] # None
        BY <1>3, <2>2, <3>2 DEF IndInv, TypeOK, BookInv
      <4>2. listed[p].account \in Identities
        BY <4>1 DEF CreatedAccounts
      <4>3. QED
        BY <1>3, <3>2, <4>1, <4>2
    <3>3. QED
      BY <3>1, <3>2
  <2>3. QED
    BY <2>1, <2>2 DEF BookInv
<1>7. reply'[u].status = "ok" /\ Answered(u)'
  <2>1. reply'[u] = Ok(newAccount(key)) /\ place'[u] = "registering"
    BY <1>1, PlaceOf DEF IndInv, Fixes
  <2>2. QED
    BY <2>1 DEF Ok, Answered, Lookups
<1>8. QED
  BY <1>1, <1>3, <1>5, <1>6, <1>7, FixStep

\* The steps of the bank that only read the book.
LEMMA ReadStep ==
    ASSUME IndInv, NEW u \in Clients, NEW r, Fixes(u, r),
           \/ r.status = "ok" /\ Answered(u)'
           \/ Refused(u)',
           UNCHANGED <<accounts, listed, opened, place, choiceVars, error, connectedIn, life,
                       choices>>
    PROVE  IndInv'
<1>1. BookInv' /\ Keeps
  BY BookKept
<1>2. /\ accounts' \in [Identities -> AccountServants \cup {None}]
      /\ listed' \in [Pesels -> CreatedAccounts \cup {None}]
      /\ opened' \subseteq Identities
  BY DEF IndInv, TypeOK
<1>3. reply'[u] = r
  BY DEF IndInv, Fixes
<1>4. QED
  BY <1>1, <1>2, <1>3, FixStep

LEMMA RefuseStep ==
    ASSUME IndInv, NEW u \in Clients, Bank!Refuse(u),
           UNCHANGED <<opened, place, choiceVars, error, connectedIn, life, choices>>
    PROVE  IndInv'
<1>1. /\ request[u] \in CreateRequests
      /\ IdentityOf(request[u]).name = EmptyPesel \/ accounts[IdentityOf(request[u])] # None
      /\ Fixes(u, Raised("UnknownLocalException"))
      /\ UNCHANGED <<accounts, listed>>
  BY BankRefuse
<1>2. IdentityOf(request[u]) \in Identities
  BY <1>1 DEF CreateRequests, IdentityOf, Identities, Category
<1>3. Refused(u)'
  BY <1>1, <1>2, PlaceOf DEF IndInv, BookInv, Refused, Fixes
<1>4. QED
  BY <1>1, <1>3, ReadStep

LEMMA LookupStep ==
    ASSUME IndInv, NEW u \in Clients, Bank!Lookup(u),
           UNCHANGED <<opened, place, choiceVars, error, connectedIn, life, choices>>
    PROVE  IndInv'
<1> DEFINE found == listed[request[u].PESEL]
<1>1. /\ request[u] \in LookupRequests /\ Fixes(u, Ok(Marshal(found)))
      /\ UNCHANGED <<accounts, listed>>
  BY BankLookup
<1>2. place[u] \in Lookups /\ request[u].PESEL \in Pesels /\ found \in CreatedAccounts \cup {None}
  BY <1>1, PlaceOf DEF IndInv, TypeOK, LookupRequests, Fixes
<1>3. reply'[u] = Ok(Marshal(found)) /\ reply'[u].value = Marshal(found)
  BY <1>1 DEF IndInv, Fixes, Ok
<1>4. \/ Marshal(found).account = None /\ (had[u] => Restarted(u))
      \/ /\ Marshal(found).account \in Identities
         /\ Restarted(u) \/ accounts[Marshal(found).account] # None
  <2>1. CASE found = None
    BY <1>2, <2>1 DEF Marshal, NullMarshalValue, IndInv, UserInv, Asked
  <2>2. CASE found # None
    BY <1>2, <2>2 DEF Marshal, CreatedAccounts, IndInv, BookInv
  <2>3. QED
    BY <2>1, <2>2
<1>5. Answered(u)'
  BY <1>1, <1>2, <1>3, <1>4 DEF Answered, Lookups, Restarted, choiceVars
<1>6. QED
  BY <1>1, <1>5, ReadStep DEF Ok

LEMMA OperationOf ==
    ASSUME IndInv, NEW u \in Clients, place[u] \in Bound
    PROVE  request[u].account = accountProxy[u] /\ request[u].op = OperationAt(place[u])
<1>1. request[u] = [op |-> OperationAt(place[u]), account |-> accountProxy[u]]
  BY DEF IndInv, UserInv, Asked
<1> HIDE DEF OperationAt
<1>2. QED
  BY <1>1

\* What an account that exists answers, and what a call for one that does not.
LEMMA AskedOf ==
    ASSUME IndInv, NEW u \in Clients, phase[u] = "sent",
           request[u] \in AccountRequests \cup PremiumRequests
    PROVE  /\ request[u].account = accountProxy[u] /\ request[u].account \in Identities
           /\ accounts[request[u].account] = None => Restarted(u)
           /\ accounts[request[u].account] # None =>
                 (accounts[request[u].account].class = "PremiumAccount") <=> PremiumProxy(u)
<1>1. place[u] \in Bound /\ accountProxy[u] \in Identities
  BY PlaceOf
<1>2. request[u].account = accountProxy[u]
  BY <1>1, OperationOf
<1>3. QED
  BY <1>1, <1>2 DEF IndInv, UserInv, Asked, BookInv, PremiumProxy

LEMMA QueryStep ==
    ASSUME IndInv, NEW u \in Clients, Bank!Query(u),
           UNCHANGED <<opened, place, choiceVars, error, connectedIn, life, choices>>
    PROVE  IndInv'
<1> DEFINE account == accounts[request[u].account]
<1>1. /\ request[u] \in AccountRequests /\ phase[u] = "sent"
      /\ Fixes(u, IF account = None THEN Raised("ObjectNotExistException")
                  ELSE Ok(AccountResult(request[u].op, account)))
      /\ UNCHANGED <<accounts, listed>>
  BY BankQuery DEF Fixes
<1>2. CASE account = None
  <2>1. Restarted(u) /\ reply'[u] = Raised("ObjectNotExistException")
    BY <1>1, <1>2, AskedOf DEF IndInv, Fixes
  <2>2. Refused(u)'
    BY <2>1 DEF Refused, Restarted, choiceVars
  <2>3. QED
    BY <1>1, <1>2, <2>2, ReadStep
<1>3. CASE account # None
  <2>1. /\ place[u] \in {"status", "printing", "checking"}
        /\ reply'[u].value = AccountResult(request[u].op, account)
    BY <1>1, <1>3, PlaceOf DEF IndInv, Fixes, Ok
  <2>2. (account.class = "PremiumAccount") = PremiumProxy(u)
    BY <1>1, <1>3, AskedOf DEF PremiumProxy
  <2>3. place[u] \in {"printing", "checking"} => request[u].op = "isPremium"
    BY OperationOf DEF Bound, OperationAt
  <2>4. place[u] \in {"printing", "checking"} =>
           AccountResult(request[u].op, account).premium = PremiumProxy(u)
    BY <2>2, <2>3 DEF AccountResult
  <2>5. Answered(u)'
    BY <2>1, <2>4 DEF Answered, Lookups, PremiumProxy, choiceVars
  <2>6. QED
    BY <1>1, <1>3, <2>5, ReadStep DEF Ok
<1>4. QED
  BY <1>2, <1>3

LEMMA InvokePremiumStep ==
    ASSUME IndInv, NEW u \in Clients, InvokePremium(u),
           UNCHANGED <<opened, place, choiceVars, error, connectedIn, life, choices>>
    PROVE  IndInv'
<1> DEFINE account == accounts[request[u].account]
<1>1. request[u] \in PremiumRequests /\ UNCHANGED <<accounts, listed>>
  BY DEF InvokePremium
<1>2. request[u].op \in {"ice_isA", "getLoan"}
  BY <1>1 DEF PremiumRequests
<1>3. CASE account = None
  <2>1. Fixes(u, Raised("ObjectNotExistException"))
    BY <1>3, BankServe DEF InvokePremium
  <2>2. Restarted(u) /\ reply'[u] = Raised("ObjectNotExistException")
    BY <1>1, <1>3, <2>1, AskedOf DEF IndInv, Fixes
  <2>3. Refused(u)'
    BY <2>2 DEF Refused, Restarted, choiceVars
  <2>4. QED
    BY <1>1, <2>1, <2>3, ReadStep
<1>4. CASE account # None /\ request[u].op = "ice_isA"
  <2> DEFINE answer == [isA |-> account.class = "PremiumAccount"]
  <2>1. Fixes(u, Ok(answer))
    BY <1>4, BankServe DEF InvokePremium
  <2>2. /\ place[u] \in {"casting", "asking"} /\ reply'[u].value = answer
        /\ (account.class = "PremiumAccount") = PremiumProxy(u)
    BY <1>1, <1>4, <2>1, PlaceOf, AskedOf DEF IndInv, Fixes, Ok, PremiumProxy
  <2>3. Answered(u)'
    BY <2>2 DEF Answered, Lookups, PremiumProxy, choiceVars
  <2>4. QED
    BY <1>1, <2>1, <2>3, ReadStep DEF Ok
<1>5. CASE account # None /\ request[u].op = "getLoan"
  <2>1. phase[u] = "sent"
    BY <1>5, BankServe DEF InvokePremium, Fixes
  <2>2. place[u] = "asking"
    BY <1>1, <1>5, <2>1, PlaceOf, OperationOf DEF OperationAt, Bound
  <2>3. account.class = "PremiumAccount"
    BY <1>1, <1>5, <2>1, <2>2, AskedOf DEF IndInv, UserInv, Asked
  <2>4. Fixes(u, Ok([cost |-> 0])) \/ Fixes(u, Raised("UnknownException"))
    BY <1>5, <2>3, BankServe DEF InvokePremium
  <2>5. CASE Fixes(u, Ok([cost |-> 0]))
    <3>1. Answered(u)'
      BY <2>2 DEF Answered, Lookups
    <3>2. QED
      BY <1>1, <2>5, <3>1, ReadStep DEF Ok
  <2>6. CASE Fixes(u, Raised("UnknownException"))
    <3>1. Refused(u)'
      BY <2>6 DEF IndInv, Refused, Fixes
    <3>2. QED
      BY <1>1, <2>6, <3>1, ReadStep
  <2>7. QED
    BY <2>4, <2>5, <2>6
<1>6. QED
  BY <1>2, <1>3, <1>4, <1>5

LEMMA AnswerStep ==
    ASSUME IndInv, NEW u \in Clients, Bank!Answer(u),
           UNCHANGED <<opened, place, choiceVars, error, connectedIn, life, choices>>
    PROVE  IndInv'
<1>1. /\ phase[u] = "served" /\ phase' = [phase EXCEPT ![u] = "answered"]
      /\ UNCHANGED <<request, reply, accounts, listed>>
  BY BankAnswer
<1>2. BookInv' /\ Keeps
  BY <1>1, BookKept
<1>3. /\ Alone(u) /\ DOMAIN reply' = Clients /\ phase'[u] = "answered"
      /\ UNCHANGED <<place, accountProxy, shown, error, since, had>>
  BY <1>1 DEF IndInv, TypeOK, Alone, choiceVars
<1>4. TypeOK'
  BY <1>1, ClientAssumption DEF IndInv, TypeOK, choiceVars
<1>5. Asked(u)' /\ ErrorInv(u)' /\ (Answered(u) => Answered(u)') /\ (Refused(u) => Refused(u)')
  BY <1>1, <1>3 DEF IndInv, UserInv, Asked, ErrorInv, Answered, Refused, Restarted, PremiumProxy
<1>6. UserInv(u)'
  BY <1>1, <1>3, <1>5 DEF IndInv, UserInv, ReplyInv
<1>7. QED
  BY <1>2, <1>3, <1>4, <1>6, StepOf

LEMMA RestartStep ==
    ASSUME IndInv, Restart
    PROVE  IndInv'
<1>1. LET Pending == {u \in Clients : phase[u] \in {"sent", "served"}}
      IN  /\ accounts' = [id \in Identities |-> None]
          /\ listed' = [p \in Pesels |-> None]
          /\ phase' = [u \in Clients |-> IF u \in Pending THEN "answered" ELSE phase[u]]
          /\ reply' = [u \in Clients |->
                          IF u \in Pending THEN Raised("ConnectionLostException") ELSE reply[u]]
          /\ UNCHANGED request
  BY BankRestart DEF Restart
<1>2. /\ life < MaxRestarts /\ life' = life + 1 /\ life \in Nat
      /\ UNCHANGED <<place, choiceVars, error, connectedIn, opened, choices>>
  BY ClientAssumption DEF Restart, IndInv, TypeOK
<1>3. TypeOK'
  BY <1>1, <1>2, ClientAssumption DEF IndInv, TypeOK, choiceVars
<1>4. BookInv'
  BY <1>1 DEF BookInv
<1>5. ASSUME NEW u \in Clients PROVE UserInv(u)'
  <2>1. Restarted(u)' /\ life' > 0
    BY <1>2, ClientAssumption DEF IndInv, TypeOK, Restarted, choiceVars
  <2>2. Asked(u)'
    BY <1>1, <1>2, <2>1 DEF IndInv, UserInv, Asked, PremiumProxy, choiceVars
  <2>3. ErrorInv(u)'
    BY <1>2, <2>1 DEF IndInv, UserInv, ErrorInv, choiceVars
  <2>4. CASE phase[u] \in {"sent", "served"}
    BY <1>1, <2>1, <2>2, <2>3, <2>4 DEF UserInv, ReplyInv, Refused
  <2>5. CASE phase[u] \notin {"sent", "served"}
    <3>1. phase'[u] = phase[u] /\ reply'[u] = reply[u]
      BY <1>1, <2>5
    <3>2. Answered(u) => Answered(u)'
      BY <1>2, <2>1, <3>1 DEF Answered, PremiumProxy, choiceVars
    <3>3. Refused(u) => Refused(u)'
      BY <1>1, <1>2, <2>1, <3>1 DEF Refused
    <3>4. QED
      BY <2>2, <2>3, <3>1, <3>2, <3>3 DEF IndInv, UserInv, ReplyInv
  <2>6. QED
    BY <2>4, <2>5
<1>6. QED
  BY <1>1, <1>3, <1>4, <1>5 DEF IndInv

-----------------------------------------------------------------------------
(* The theorems.                                                           *)

LEMMA NextIndInv == IndInv /\ [Next]_vars => IndInv'
<1> SUFFICES ASSUME IndInv, [Next]_vars PROVE IndInv'
  OBVIOUS
<1>1. ASSUME NEW u \in Clients, RegisterToBank(u) PROVE IndInv'
  <2>1. PICK p \in Pesels, income \in Incomes :
           /\ Choose(u, p, [op |-> "createAccount", PESEL |-> p, income |-> income], "registering")
           /\ UNCHANGED accountProxy
    BY <1>1 DEF RegisterToBank
  <2>2. [op |-> "createAccount", PESEL |-> p, income |-> income] \in CreateRequests
    BY DEF CreateRequests
  <2>3. QED
    BY <2>1, <2>2, ChooseStep DEF Requests, Lookups
<1>2. ASSUME NEW u \in Clients, AccountStatus(u) \/ GetLoan(u) PROVE IndInv'
  <2>1. PICK p \in Pesels, at \in Lookups :
           Choose(u, p, [op |-> "getAccount", PESEL |-> p], at) /\ UNCHANGED accountProxy
    BY <1>2 DEF AccountStatus, GetLoan, Lookups
  <2>2. /\ [op |-> "getAccount", PESEL |-> p] \in LookupRequests
        /\ [op |-> "getAccount", PESEL |-> p].PESEL = p /\ at # "registering"
    BY DEF LookupRequests, Lookups
  <2>3. QED
    BY <2>1, <2>2, ChooseStep DEF Requests
<1>3. ASSUME NEW u \in Clients, Serve(u) PROVE IndInv'
  BY <1>3, OpenStep, RefuseStep, LookupStep, QueryStep, InvokePremiumStep, AnswerStep DEF Serve
<1>4. CASE UNCHANGED vars
  <2>1. /\ TypeOK' /\ BookInv' /\ DOMAIN reply' = Clients
    BY <1>4, BookKept DEF IndInv, TypeOK, vars, bankVars, choiceVars
  <2>2. Keeps
    BY <1>4, BookKept DEF vars, bankVars
  <2>3. \A u \in Clients : UserInv(u)'
    BY <1>4, <2>2, OthersKeep DEF vars, bankVars, choiceVars
  <2>4. QED
    BY <2>1, <2>3 DEF IndInv
<1>5. QED
  BY <1>1, <1>2, <1>3, <1>4, ContinueStep, RepeatStep, ThrowStep, ExitStep, ReconnectStep,
     LoseConnectionStep, RestartStep DEF Next, Running

LEMMA Invariance == Spec => []IndInv
BY InitIndInv, NextIndInv, PTL DEF Spec

\* The state of the client and of the bank is well formed, and accountProxy is set
\* exactly where bankclient.py uses it.
THEOREM TypeCorrect == Spec => []TypeOK
<1>1. IndInv => TypeOK
  BY DEF IndInv
<1>2. QED
  BY <1>1, Invariance, PTL

\* The calls that the choice "get loan" makes agree with one another, whatever
\* other users do and however often the bank is restarted between them.
THEOREM LoanPathAgreement == Spec => []LoanPathAgrees
<1>1. IndInv => LoanPathAgrees
  <2> SUFFICES ASSUME IndInv, NEW u \in Clients
               PROVE  /\ error[u] \notin {"nullCast", "OperationNotExistException"}
                      /\ Has(u, "checking") => shown[u] = reply[u].value.premium
    BY DEF LoanPathAgrees
  <2>1. ASSUME Has(u, "checking") PROVE shown[u] = reply[u].value.premium
    <3>1. ~Refused(u) /\ place[u] = "checking" /\ phase[u] = "answered"
      BY <2>1 DEF Refused, Raised, Has
    <3>2. reply[u].value.premium = PremiumProxy(u) /\ (shown[u] <=> PremiumProxy(u))
      BY <3>1 DEF IndInv, UserInv, ReplyInv, Asked, Answered
    <3>3. shown[u] \in BOOLEAN
      BY DEF IndInv, TypeOK
    <3>4. QED
      BY <3>2, <3>3 DEF PremiumProxy
  <2>2. QED
    BY <2>1 DEF IndInv, UserInv, ErrorInv
<1>2. QED
  BY <1>1, Invariance, PTL

\* bankclient.py never fails for a reason its user cannot know of: a restart of the
\* bank, an account that was not there, or a registration that was made before.
THEOREM FailuresAreExplained == Spec => []FailuresExplained
<1>1. IndInv => FailuresExplained
  <2> SUFFICES ASSUME IndInv, NEW u \in Clients, place[u] = "registering",
                      reply[u] = Raised("UnknownLocalException")
               PROVE  \/ IdentityOf(request[u]).name = EmptyPesel
                      \/ IdentityOf(request[u]) \in opened
    BY DEF FailuresExplained, IndInv, UserInv, ErrorInv, Restarted
  <2>1. phase[u] \in {"served", "answered"}
    <3>1. Raised("UnknownLocalException") \in Replies
      BY DEF Raised, Replies, Exceptions
    <3>2. QED
      BY <3>1, NoneAssumption DEF IndInv, TypeOK, UserInv, ReplyInv
  <2>2. Refused(u)
    BY <2>1 DEF IndInv, UserInv, ReplyInv, Raised
  <2>3. QED
    BY <2>2 DEF Refused, Raised
<1>2. QED
  BY <1>1, Invariance, PTL
=============================================================================
