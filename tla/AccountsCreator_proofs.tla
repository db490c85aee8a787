------------------------ MODULE AccountsCreator_proofs ------------------------
(***************************************************************************)
(* Theorems about AccountsCreator, for every number of calls, PESELs, keys *)
(* and dispatch threads, and every number of restarts: its two maps agree, *)
(* and what clients were told stays true.                                  *)
(***************************************************************************)
EXTENDS AccountsCreator, TLAPS

-----------------------------------------------------------------------------
(* What the operators of BankTypes return.                                 *)

\* The identity and the class of a new account follow from its declared income.
LEMMA IdentityType ==
    ASSUME NEW r \in CreateRequests
    PROVE  /\ IdentityOf(r) \in Identities
           /\ IdentityOf(r).name = r.PESEL
           /\ r.PESEL \in Pesels
           /\ isPremium(r.income) \in BOOLEAN
           /\ (ClassOf(r) = "PremiumAccount") = isPremium(r.income)
           /\ ClassOf(r) \in {"Account", "PremiumAccount"}
<1>1. r.income \in Int /\ r.PESEL \in Pesels
  BY DataAssumption DEF CreateRequests
<1>2. isPremium(r.income) \in BOOLEAN
  BY <1>1 DEF isPremium, PREMIUM_MIN_LIMIT
<1>3. QED
  BY <1>1, <1>2 DEF IdentityOf, Identities, Category, ClassOf

\* A created account is marshalled as itself, null as the null value; both are
\* results, and the null value is no account.
LEMMA MarshalType ==
    ASSUME NEW e \in CreatedAccounts \cup {None}
    PROVE  /\ Marshal(e) \in Results
           /\ Marshal(e) \in CreatedAccounts => Marshal(e) = e /\ e # None
<1>1. NullMarshalValue \notin CreatedAccounts
  BY NoneAssumption DEF NullMarshalValue, CreatedAccounts
<1>2. QED
  BY <1>1, NoneAssumption DEF Marshal, Results

\* What an operation of an account answers is a result, and no account.
LEMMA AccountResultType ==
    ASSUME NEW servant \in AccountServants, NEW op
    PROVE  AccountResult(op, servant) \in Results \ CreatedAccounts
<1>1. CASE op = "isPremium"
  BY <1>1 DEF AccountResult, AccountServants, Results, CreatedAccounts
<1>2. CASE op # "isPremium"
  BY <1>2 DEF AccountResult, AccountServants, Results, CreatedAccounts
<1>3. QED
  BY <1>1, <1>2

\* Results and exceptions make replies.
LEMMA ReplyType ==
    /\ \A v \in Results : Ok(v) \in Replies /\ Ok(v).status = "ok" /\ Ok(v).value = v
    /\ \A x \in Exceptions : Raised(x) \in Replies /\ Raised(x).status = x /\ x # "ok"
BY DEF Ok, Raised, Replies, Exceptions

\* The operations on requests are told apart by what they ask for.
LEMMA RequestKinds ==
    ASSUME NEW r
    PROVE  /\ ~ (r \in CreateRequests /\ r \in LookupRequests)
           /\ ~ (r \in CreateRequests /\ r \in AccountRequests)
           /\ ~ (r \in LookupRequests /\ r \in AccountRequests)
BY DEF CreateRequests, LookupRequests, AccountRequests

-----------------------------------------------------------------------------
(* Type correctness.                                                       *)

LEMMA TypeInit == Init => TypeOK
BY PoolAssumption DEF Init, TypeOK, Stages, Building

\* What a put leaves in createdAccounts, raced or not, are created accounts.
LEMMA AfterPutType ==
    ASSUME NEW map \in [Pesels -> CreatedAccounts \cup {None}],
           NEW p, NEW e \in CreatedAccounts, NEW overlapped,
           NEW after \in AfterPut(map, p, e, overlapped)
    PROVE  /\ after \in [Pesels -> CreatedAccounts \cup {None}]
           /\ \A q \in Pesels : \/ after[q] = None
                                \/ after[q] = map[q]
                                \/ q = p /\ after[q] = e
<1> DEFINE stored == [map EXCEPT ![p] = e]
<1>1. stored \in [Pesels -> CreatedAccounts \cup {None}]
  OBVIOUS
<1>2. CASE ~overlapped
  BY <1>1, <1>2 DEF AfterPut
<1>3. CASE overlapped
  <2>1. PICK m \in {map, stored}, lost \in SUBSET Pesels :
           after = [q \in Pesels |-> IF q \in lost THEN None ELSE m[q]]
    BY <1>3 DEF AfterPut
  <2>2. QED
    BY <1>1, <2>1
<1>4. QED
  BY <1>2, <1>3

\* What getAccount finds is what is listed, what is being put, or nothing.
LEMMA MayGetType ==
    ASSUME TypeOK, NEW p \in Pesels, NEW e \in MayGet(p)
    PROVE  /\ e \in CreatedAccounts \cup {None}
           /\ \/ e = None
              \/ e = createdAccounts[p]
              \/ \E d \in Calls : stage[d] = "putting" /\ e = newAccount[d]
<1>1. In({"putting"}) = {d \in Calls : stage[d] = "putting"}
  BY DEF In
<1>2. QED
  BY <1>1 DEF MayGet, TypeOK

LEMMA TypeNext == TypeOK /\ [Next]_vars => TypeOK'
<1> SUFFICES ASSUME TypeOK, [Next]_vars PROVE TypeOK'
  OBVIOUS
<1> USE DEF Stages, Building, clientVars
<1>1. ASSUME NEW c \in Calls, Send(c) PROVE TypeOK'
  <2>1. PICK r \in Requests : request' = [request EXCEPT ![c] = r]
    BY <1>1 DEF Send, Requests
  <2>2. In({"answered"}) \in SUBSET Calls
    BY DEF In
  <2>3. QED
    BY <1>1, <2>1, <2>2, NoneAssumption DEF Send, TypeOK
<1>2. ASSUME NEW c \in Calls, Dispatch(c) PROVE TypeOK'
  BY <1>2 DEF Dispatch, TypeOK
<1>3. ASSUME NEW c \in Calls, AddThrows(c) PROVE TypeOK'
  BY <1>3, ReplyType, NoneAssumption DEF AddThrows, Return, Exceptions, TypeOK
<1>4. ASSUME NEW c \in Calls, AddServant(c) PROVE TypeOK'
  <2> DEFINE id == IdentityOf(request[c])
  <2>1. /\ id \in Identities
        /\ isPremium(request[c].income) \in BOOLEAN
        /\ ClassOf(request[c]) \in {"Account", "PremiumAccount"}
    BY <1>4, IdentityType DEF AddServant
  <2>2. PICK key \in Keys, balance \in Balances :
           /\ servants' = [servants EXCEPT ![id] =
                 [class |-> ClassOf(request[c]), key |-> key, balance |-> balance]]
           /\ newAccount' = [newAccount EXCEPT ![c] =
                 [account |-> id, key |-> key,
                  isPremium |-> isPremium(request[c].income)]]
    BY <1>4 DEF AddServant
  <2> HIDE DEF id
  <2>3. [class |-> ClassOf(request[c]), key |-> key, balance |-> balance] \in AccountServants
    BY <2>1, <2>2 DEF AccountServants
  <2>4. [account |-> id, key |-> key, isPremium |-> isPremium(request[c].income)]
           \in CreatedAccounts
    BY <2>1, <2>2 DEF CreatedAccounts
  <2>5. QED
    BY <1>4, <2>2, <2>3, <2>4, NoneAssumption DEF AddServant, TypeOK
<1>5. ASSUME NEW c \in Calls, BeginPut(c) PROVE TypeOK'
  <2>1. In({"putting"}) \subseteq Calls
    BY DEF In
  <2>2. QED
    BY <1>5, <2>1 DEF BeginPut, TypeOK
<1>6. ASSUME NEW c \in Calls, EndPut(c) PROVE TypeOK'
  <2>1. newAccount[c] \in CreatedAccounts
    BY <1>6 DEF EndPut, TypeOK
  <2>2. createdAccounts' \in [Pesels -> CreatedAccounts \cup {None}]
    BY <1>6, <2>1, AfterPutType DEF EndPut, TypeOK
  <2>3. Ok(newAccount[c]) \in Replies
    BY <2>1, ReplyType DEF Results
  <2>4. QED
    BY <1>6, <2>2, <2>3, NoneAssumption DEF EndPut, Return, TypeOK
<1>7. ASSUME NEW c \in Calls, GetAccount(c) PROVE TypeOK'
  <2>1. PICK found \in MayGet(request[c].PESEL) : Return(c, Ok(Marshal(found)))
    BY <1>7 DEF GetAccount
  <2>2. request[c].PESEL \in Pesels
    BY <1>7 DEF GetAccount, LookupRequests
  <2>3. Ok(Marshal(found)) \in Replies
    BY <2>1, <2>2, MayGetType, MarshalType, ReplyType
  <2>4. QED
    BY <1>7, <2>1, <2>3, NoneAssumption DEF GetAccount, Return, TypeOK
<1>8. ASSUME NEW c \in Calls, InvokeAccount(c) PROVE TypeOK'
  <2> DEFINE servant == servants[request[c].account]
             r == IF servant = None THEN Raised("ObjectNotExistException")
                  ELSE Ok(AccountResult(request[c].op, servant))
  <2>1. Return(c, r)
    BY <1>8 DEF InvokeAccount
  <2>2. servant \in AccountServants \cup {None}
    BY <1>8 DEF InvokeAccount, AccountRequests, TypeOK
  <2>3. r \in Replies
    BY <2>2, ReplyType, AccountResultType DEF Exceptions
  <2> HIDE DEF servant, r
  <2>4. QED
    BY <1>8, <2>1, <2>3, NoneAssumption DEF InvokeAccount, Return, TypeOK
<1>9. ASSUME NEW c \in Calls, Answer(c) PROVE TypeOK'
  BY <1>9 DEF Answer, TypeOK
<1>10. ASSUME Restart PROVE TypeOK'
  BY <1>10, ReplyType, NoneAssumption, PoolAssumption
     DEF Restart, InFlight, OnThread, Exceptions, TypeOK
<1>11. CASE UNCHANGED vars
  BY <1>11 DEF vars, TypeOK
<1>12. QED
  BY <1>1, <1>2, <1>3, <1>4, <1>5, <1>6, <1>7, <1>8, <1>9, <1>10, <1>11
     DEF Next, Handle, AllAnswered

\* Every reachable state is well typed, and a dispatch has its locals when the stage
\* of its call says so (createAccount's newAccount, the reply).
THEOREM TypeCorrect == Spec => []TypeOK
BY TypeInit, TypeNext, PTL DEF Spec

-----------------------------------------------------------------------------
(* Safety.  EntriesBacked and OneWinner are not inductive: they have to    *)
(* know what createAccount holds between adapter.add and the put, which    *)
(* the two maps do not show, and that replies of an earlier life of the    *)
(* server are told from those of this one.                                 *)

\* A call under way belongs to this life of the server; no call is from a later one.
EpochInv ==
    \A c \in Calls : sentIn[c] <= epoch /\ (stage[c] \in InFlight => Current(c))

\* Between adapter.add and return, createAccount's local names the servant it added.
LocalInv ==
    \A c \in Calls : stage[c] \in Building =>
        /\ request[c] \in CreateRequests
        /\ newAccount[c].account = IdentityOf(request[c])
        /\ Backed(newAccount[c])

\* createAccount returns what it built.
ReturnInv ==
    \A c \in Calls : Succeeded(c) /\ request[c] \in CreateRequests =>
        /\ reply[c].value \in CreatedAccounts
        /\ reply[c].value.account = IdentityOf(request[c])

IndInv == TypeOK /\ EpochInv /\ LocalInv /\ ReturnInv /\ EntriesBacked /\ OneWinner

LEMMA IndInit == Init => IndInv
<1> SUFFICES ASSUME Init PROVE IndInv
  OBVIOUS
<1>1. TypeOK
  BY TypeInit
<1>2. EpochInv /\ LocalInv /\ ReturnInv
  BY DEF Init, EpochInv, LocalInv, ReturnInv, InFlight, OnThread, Building, Succeeded
<1>3. EntriesBacked /\ OneWinner
  BY DEF Init, EntriesBacked, OneWinner, Succeeded, Registered, Building
<1>4. QED
  BY <1>1, <1>2, <1>3 DEF IndInv

\* A step of a call that neither registers a servant nor touches what createAccount
\* holds or returns leaves the invariant alone.
LEMMA QuietStep ==
    ASSUME IndInv, TypeOK', NEW c \in Calls,
           \A d \in Calls \ {c} : stage'[d] = stage[d] /\ reply'[d] = reply[d],
           UNCHANGED <<newAccount, servants, createdAccounts, clientVars>>,
           stage[c] \in InFlight,
           stage'[c] \in OnThread \cup {"answered"},
           stage'[c] \in Building <=> stage[c] \in Building,
           Succeeded(c)' =>
              \/ Succeeded(c) /\ reply'[c] = reply[c]
              \/ /\ request[c] \notin CreateRequests
                 /\ reply'[c].value \in CreatedAccounts => Backed(reply'[c].value)
    PROVE  IndInv'
<1> USE DEF IndInv, TypeOK, Stages, Building, OnThread, InFlight, Current, clientVars
<1>1. EpochInv'
  BY DEF EpochInv
<1>2. LocalInv'
  BY DEF LocalInv, Backed
<1>3. ReturnInv'
  BY DEF ReturnInv, Succeeded
<1>4. EntriesBacked'
  BY DEF EntriesBacked, Backed, Succeeded
<1>5. OneWinner'
  <2>1. \A d \in Calls : Registered(d)' =>
           Registered(d) /\ RegisteredEntry(d)' = RegisteredEntry(d)
    BY DEF Registered, RegisteredEntry, Succeeded
  <2>2. QED
    BY <2>1 DEF OneWinner
<1>6. QED
  BY <1>1, <1>2, <1>3, <1>4, <1>5

LEMMA IndNext == IndInv /\ [Next]_vars => IndInv'
<1> SUFFICES ASSUME IndInv, [Next]_vars PROVE IndInv'
  OBVIOUS
<1>0. TypeOK /\ TypeOK'
  BY TypeNext DEF IndInv
<1>1. ASSUME NEW c \in Calls, Send(c) PROVE IndInv'
  <2> USE <1>0, <1>1 DEF Send, TypeOK, Stages, Building, OnThread, InFlight, Current
  <2>1. /\ stage[c] = "idle" /\ stage'[c] = "sent" /\ sentIn'[c] = epoch
        /\ \A d \in Calls \ {c} : /\ stage'[d] = stage[d]
                                  /\ request'[d] = request[d]
                                  /\ sentIn'[d] = sentIn[d]
    OBVIOUS
  <2>2. EpochInv' /\ LocalInv' /\ ReturnInv'
    BY <2>1 DEF IndInv, EpochInv, LocalInv, ReturnInv, Succeeded, Backed
  <2>3. EntriesBacked'
    BY <2>1 DEF IndInv, EntriesBacked, Succeeded, Backed
  <2>4. OneWinner'
    <3>1. \A d \in Calls : Registered(d)' =>
             /\ d # c
             /\ Registered(d) /\ RegisteredEntry(d)' = RegisteredEntry(d)
      BY <2>1 DEF Registered, RegisteredEntry, Succeeded
    <3>2. QED
      BY <2>1, <3>1 DEF IndInv, OneWinner
  <2>5. QED
    BY <2>2, <2>3, <2>4 DEF IndInv
<1>2. ASSUME NEW c \in Calls, Dispatch(c) PROVE IndInv'
  <2>1. /\ stage[c] = "sent" /\ stage'[c] = "dispatched"
        /\ \A d \in Calls \ {c} : stage'[d] = stage[d] /\ reply'[d] = reply[d]
    BY <1>0, <1>2 DEF Dispatch, TypeOK
  <2>2. UNCHANGED <<newAccount, servants, createdAccounts, clientVars>>
    BY <1>2 DEF Dispatch
  <2>3. QED
    BY <1>0, <2>1, <2>2, QuietStep DEF Building, OnThread, InFlight, Succeeded
<1>3. ASSUME NEW c \in Calls, AddThrows(c) PROVE IndInv'
  <2>1. /\ stage[c] = "dispatched" /\ stage'[c] = "returned"
        /\ reply'[c].status # "ok"
        /\ \A d \in Calls \ {c} : stage'[d] = stage[d] /\ reply'[d] = reply[d]
    BY <1>0, <1>3, ReplyType DEF AddThrows, Return, Exceptions, TypeOK
  <2>2. UNCHANGED <<newAccount, servants, createdAccounts, clientVars>>
    BY <1>3 DEF AddThrows
  <2>3. QED
    BY <1>0, <2>1, <2>2, QuietStep DEF Building, OnThread, InFlight, Succeeded
<1>4. ASSUME NEW c \in Calls, AddServant(c) PROVE IndInv'
  <2> DEFINE id == IdentityOf(request[c])
  <2>1. request[c] \in CreateRequests /\ stage[c] = "dispatched" /\ stage'[c] = "registered"
        /\ servants[id] = None /\ id \in Identities
    BY <1>0, <1>4, IdentityType DEF AddServant, AddFails, TypeOK
  <2>2. newAccount'[c] \in CreatedAccounts /\ newAccount'[c].account = id /\ Backed(newAccount[c])'
    <3>1. PICK key \in Keys, balance \in Balances :
             /\ servants' = [servants EXCEPT ![id] =
                   [class |-> ClassOf(request[c]), key |-> key, balance |-> balance]]
             /\ newAccount' = [newAccount EXCEPT ![c] =
                   [account |-> id, key |-> key,
                    isPremium |-> isPremium(request[c].income)]]
      BY <1>4 DEF AddServant
    <3> HIDE DEF id
    <3>2. /\ servants'[id] = [class |-> ClassOf(request[c]), key |-> key, balance |-> balance]
          /\ newAccount'[c] = [account |-> id, key |-> key, isPremium |-> isPremium(request[c].income)]
      BY <1>0, <2>1, <3>1 DEF TypeOK
    <3>3. servants'[id] # None /\ (ClassOf(request[c]) = "PremiumAccount") = isPremium(request[c].income)
          /\ isPremium(request[c].income) \in BOOLEAN /\ ClassOf(request[c]) \in {"Account", "PremiumAccount"}
      BY <2>1, <3>1, <3>2, IdentityType, NoneAssumption DEF AccountServants
    <3>4. QED
      BY <2>1, <3>2, <3>3 DEF Backed, CreatedAccounts
  <2>3. /\ \A i \in Identities : i # id => servants'[i] = servants[i]
        /\ \A d \in Calls \ {c} : stage'[d] = stage[d] /\ newAccount'[d] = newAccount[d]
        /\ UNCHANGED <<request, reply, createdAccounts, epoch, sentIn>>
    BY <1>0, <1>4 DEF AddServant, TypeOK, clientVars
  <2> HIDE DEF id
  <2>4. ASSUME NEW e, Backed(e) PROVE Backed(e)' /\ e.account # id
    BY <2>1, <2>3, <2>4 DEF Backed
  <2> USE DEF Building, OnThread, InFlight, Current
  <2>5. EpochInv'
    BY <1>0, <2>1, <2>3 DEF IndInv, EpochInv, TypeOK, Stages
  <2>6. LocalInv'
    BY <1>0, <2>1, <2>2, <2>3, <2>4 DEF IndInv, LocalInv, TypeOK, id
  <2>7. ReturnInv'
    BY <2>1, <2>3 DEF IndInv, ReturnInv, Succeeded
  <2>8. EntriesBacked'
    BY <2>1, <2>3, <2>4 DEF IndInv, EntriesBacked, Succeeded
  <2>9. OneWinner'
    <3>1. \A d \in Calls \ {c} : Registered(d)' =>
             Registered(d) /\ RegisteredEntry(d)' = RegisteredEntry(d)
      BY <2>3 DEF Registered, RegisteredEntry, Succeeded
    <3>2. \A d \in Calls \ {c} : Registered(d) /\ sentIn[d] = sentIn[c] =>
             RegisteredEntry(d).account # id
      BY <2>1, <2>4 DEF IndInv, EpochInv, LocalInv, ReturnInv, EntriesBacked, Registered,
                        RegisteredEntry
    <3>3. RegisteredEntry(c)' = newAccount'[c]
      BY <2>1 DEF RegisteredEntry
    <3>4. QED
      BY <2>2, <2>3, <3>1, <3>2, <3>3 DEF IndInv, OneWinner
  <2>10. QED
    BY <1>0, <2>5, <2>6, <2>7, <2>8, <2>9 DEF IndInv
<1>5. ASSUME NEW c \in Calls, BeginPut(c) PROVE IndInv'
  <2>1. /\ stage[c] = "registered" /\ stage'[c] = "putting"
        /\ \A d \in Calls \ {c} : stage'[d] = stage[d] /\ reply'[d] = reply[d]
    BY <1>0, <1>5 DEF BeginPut, TypeOK
  <2>2. UNCHANGED <<newAccount, servants, createdAccounts, clientVars>>
    BY <1>5 DEF BeginPut
  <2>3. QED
    BY <1>0, <2>1, <2>2, QuietStep DEF Building, OnThread, InFlight, Succeeded
<1>6. ASSUME NEW c \in Calls, EndPut(c) PROVE IndInv'
  <2> USE DEF Building, OnThread, InFlight, Current
  <2>1. /\ stage[c] = "putting" /\ stage'[c] = "returned"
        /\ reply'[c] = Ok(newAccount[c]) /\ newAccount'[c] = None
        /\ \A d \in Calls \ {c} : /\ stage'[d] = stage[d]
                                  /\ reply'[d] = reply[d]
                                  /\ newAccount'[d] = newAccount[d]
        /\ UNCHANGED <<request, servants, epoch, sentIn>>
    BY <1>0, <1>6 DEF EndPut, Return, TypeOK, clientVars
  <2>2. /\ newAccount[c] \in CreatedAccounts
        /\ request[c] \in CreateRequests
        /\ newAccount[c].account = IdentityOf(request[c])
        /\ newAccount[c].account.name = request[c].PESEL
        /\ Backed(newAccount[c])
    BY <1>0, <2>1, IdentityType DEF IndInv, LocalInv, TypeOK
  <2>3. Ok(newAccount[c]).status = "ok" /\ Ok(newAccount[c]).value = newAccount[c]
    BY <2>2, ReplyType DEF Results
  <2>4. \A p \in Pesels : \/ createdAccounts'[p] = None
                          \/ createdAccounts'[p] = createdAccounts[p]
                          \/ p = request[c].PESEL /\ createdAccounts'[p] = newAccount[c]
    BY <1>0, <1>6, <2>2, AfterPutType DEF EndPut, TypeOK
  <2>5. EpochInv' /\ LocalInv' /\ ReturnInv'
    BY <2>1, <2>2, <2>3 DEF IndInv, EpochInv, LocalInv, ReturnInv, Succeeded, Backed
  <2>6. EntriesBacked'
    <3>1. \A e : Backed(e)' <=> Backed(e)
      BY <2>1 DEF Backed
    <3>2. \A p \in Pesels : createdAccounts'[p] # None =>
             createdAccounts'[p].account.name = p /\ Backed(createdAccounts'[p])
      BY <2>2, <2>4 DEF IndInv, EntriesBacked
    <3>3. \A d \in Calls :
             Succeeded(d)' /\ Current(d)' /\ reply'[d].value \in CreatedAccounts =>
                Backed(reply'[d].value)
      BY <2>1, <2>2, <2>3 DEF IndInv, EntriesBacked, Succeeded
    <3>4. QED
      BY <3>1, <3>2, <3>3 DEF EntriesBacked
  <2>7. OneWinner'
    <3>1. \A d \in Calls : Registered(d)' =>
             Registered(d) /\ RegisteredEntry(d)' = RegisteredEntry(d)
      BY <2>1, <2>3 DEF Registered, RegisteredEntry, Succeeded
    <3>2. QED
      BY <2>1, <3>1 DEF IndInv, OneWinner
  <2>8. QED
    BY <1>0, <2>5, <2>6, <2>7 DEF IndInv
<1>7. ASSUME NEW c \in Calls, GetAccount(c) PROVE IndInv'
  <2>1. PICK found \in MayGet(request[c].PESEL) : Return(c, Ok(Marshal(found)))
    BY <1>7 DEF GetAccount
  <2>2. request[c] \in LookupRequests /\ request[c].PESEL \in Pesels
    BY <1>7 DEF GetAccount, LookupRequests
  <2>3. /\ stage[c] = "dispatched" /\ stage'[c] = "returned"
        /\ \A d \in Calls \ {c} : stage'[d] = stage[d] /\ reply'[d] = reply[d]
        /\ reply'[c].value = Marshal(found)
    BY <1>0, <1>7, <2>1, <2>2, ReplyType, MayGetType, MarshalType
       DEF GetAccount, Return, TypeOK
  <2>4. UNCHANGED <<newAccount, servants, createdAccounts, clientVars>>
    BY <1>7 DEF GetAccount
  <2>5. found # None => Backed(found)
    BY <1>0, <2>2, MayGetType DEF IndInv, EntriesBacked, LocalInv, Building
  <2>6. Marshal(found) \in CreatedAccounts => Backed(Marshal(found))
    BY <1>0, <2>2, <2>5, MayGetType, MarshalType
  <2>7. request[c] \notin CreateRequests
    BY <2>2, RequestKinds
  <2>8. QED
    BY <1>0, <2>3, <2>4, <2>6, <2>7, QuietStep DEF Building, OnThread, InFlight, Succeeded
<1>8. ASSUME NEW c \in Calls, InvokeAccount(c) PROVE IndInv'
  <2> DEFINE servant == servants[request[c].account]
             r == IF servant = None THEN Raised("ObjectNotExistException")
                  ELSE Ok(AccountResult(request[c].op, servant))
  <2>1. request[c] \in AccountRequests /\ Return(c, r)
    BY <1>8 DEF InvokeAccount
  <2>2. servant \in AccountServants \cup {None}
    BY <1>0, <2>1 DEF AccountRequests, TypeOK
  <2>3. r.status = "ok" => r.value \notin CreatedAccounts
    BY <2>2, ReplyType, AccountResultType DEF Exceptions
  <2> HIDE DEF servant, r
  <2>4. /\ stage[c] = "dispatched" /\ stage'[c] = "returned" /\ reply'[c] = r
        /\ \A d \in Calls \ {c} : stage'[d] = stage[d] /\ reply'[d] = reply[d]
    BY <1>0, <1>8, <2>1 DEF InvokeAccount, Return, TypeOK
  <2>5. UNCHANGED <<newAccount, servants, createdAccounts, clientVars>>
    BY <1>8 DEF InvokeAccount
  <2>6. request[c] \notin CreateRequests
    BY <2>1, RequestKinds
  <2>7. QED
    BY <1>0, <2>3, <2>4, <2>5, <2>6, QuietStep DEF Building, OnThread, InFlight, Succeeded
<1>9. ASSUME NEW c \in Calls, Answer(c) PROVE IndInv'
  <2>1. /\ stage[c] = "returned" /\ stage'[c] = "answered" /\ reply'[c] = reply[c]
        /\ \A d \in Calls \ {c} : stage'[d] = stage[d] /\ reply'[d] = reply[d]
    BY <1>0, <1>9 DEF Answer, TypeOK
  <2>2. UNCHANGED <<newAccount, servants, createdAccounts, clientVars>>
    BY <1>9 DEF Answer
  <2>3. QED
    BY <1>0, <2>1, <2>2, QuietStep DEF Building, OnThread, InFlight, Succeeded
<1>10. ASSUME Restart PROVE IndInv'
  <2> USE DEF Building, OnThread, InFlight, Current
  <2>1. \A d \in Calls :
           /\ stage'[d] \notin InFlight
           /\ newAccount'[d] = None
           /\ stage[d] \in InFlight => reply'[d].status # "ok"
           /\ stage[d] \notin InFlight => stage'[d] = stage[d] /\ reply'[d] = reply[d]
    BY <1>10, ReplyType DEF Restart, Exceptions
  <2>2. epoch' = epoch + 1 /\ epoch \in Nat /\ UNCHANGED <<request, sentIn>>
    BY <1>0, <1>10, PoolAssumption DEF Restart, TypeOK
  <2>3. \A d \in Calls : sentIn[d] \in Nat /\ sentIn[d] <= epoch /\ ~Current(d)'
    BY <1>0, <2>2, PoolAssumption DEF IndInv, EpochInv, TypeOK
  <2>4. \A d \in Calls : Succeeded(d)' => Succeeded(d) /\ reply'[d] = reply[d]
    BY <2>1 DEF Succeeded
  <2>5. EpochInv' /\ LocalInv'
    BY <2>1, <2>2, <2>3 DEF EpochInv, LocalInv
  <2>6. ReturnInv'
    BY <2>2, <2>4 DEF IndInv, ReturnInv
  <2>7. EntriesBacked'
    BY <1>10, <2>3 DEF Restart, EntriesBacked
  <2>8. OneWinner'
    <3>1. \A d \in Calls : Registered(d)' =>
             Registered(d) /\ RegisteredEntry(d)' = RegisteredEntry(d)
      BY <2>1, <2>2, <2>4 DEF Registered, RegisteredEntry, Succeeded
    <3>2. QED
      BY <2>2, <3>1 DEF IndInv, OneWinner
  <2>9. QED
    BY <1>0, <2>5, <2>6, <2>7, <2>8 DEF IndInv
<1>11. CASE UNCHANGED vars
  <2> USE <1>11 DEF vars, Current
  <2>1. EpochInv' /\ LocalInv' /\ ReturnInv'
    BY DEF IndInv, EpochInv, LocalInv, ReturnInv, Succeeded, Backed
  <2>2. EntriesBacked'
    BY DEF IndInv, EntriesBacked, Succeeded, Backed
  <2>3. OneWinner'
    BY DEF IndInv, OneWinner, Registered, RegisteredEntry, Succeeded
  <2>4. QED
    BY <1>0, <2>1, <2>2, <2>3 DEF IndInv
<1>12. QED
  BY <1>1, <1>2, <1>3, <1>4, <1>5, <1>6, <1>7, <1>8, <1>9, <1>10, <1>11
     DEF Next, Handle, AllAnswered

LEMMA Invariance == Spec => []IndInv
BY IndInit, IndNext, PTL DEF Spec

\* Every account the factory lists or hands out is registered with the adapter, with
\* the key and the class it was described by, under any number of dispatch threads.
THEOREM EntriesAreBacked == Spec => []EntriesBacked
<1>1. IndInv => EntriesBacked
  BY DEF IndInv
<1>2. QED
  BY Invariance, <1>1, PTL

\* No two successful createAccount calls of one life of the server open the same
\* account, under any number of dispatch threads.
THEOREM OneCreateWins == Spec => []OneWinner
<1>1. IndInv => OneWinner
  BY DEF IndInv
<1>2. QED
  BY Invariance, <1>1, PTL

-----------------------------------------------------------------------------
(* What clients were told stays true, for any number of dispatch threads   *)
(* and across restarts.                                                    *)

IndSpec == IndInv /\ [Next]_vars

\* What handling call c leaves alone of the other calls.
LEMMA CallStep ==
    ASSUME IndSpec, NEW c \in Calls, Handle(c)
    PROVE  /\ \A d \in Calls \ {c} : stage'[d] = stage[d] /\ reply'[d] = reply[d]
           /\ stage[c] # "answered"
           /\ UNCHANGED clientVars
<1> USE DEF IndSpec, IndInv, TypeOK, clientVars
<1>1. QED
  BY DEF Handle, Dispatch, AddThrows, AddServant, BeginPut, EndPut, GetAccount, InvokeAccount,
         Answer, Return

\* How the reply to a call comes about: only InvokeAccount answers that there is no
\* servant, and there is none then.
LEMMA NoServant ==
    ASSUME IndSpec, NEW c \in Calls, Handle(c),
           stage[c] \notin {"returned", "answered"},
           stage'[c] \in {"returned", "answered"},
           reply'[c].status = "ObjectNotExistException"
    PROVE  /\ request[c] \in AccountRequests /\ stage[c] = "dispatched"
           /\ servants[request[c].account] = None
<1> USE DEF IndSpec, IndInv, TypeOK
<1>1. CASE Dispatch(c) \/ BeginPut(c) \/ AddServant(c) \/ Answer(c)
  BY <1>1 DEF Dispatch, BeginPut, AddServant, Answer
<1>2. CASE AddThrows(c)
  BY <1>2, ReplyType DEF AddThrows, Return, Exceptions
<1>3. CASE EndPut(c)
  BY <1>3, ReplyType DEF EndPut, Return, Results, Building
<1>4. CASE GetAccount(c)
  <2>1. PICK found \in MayGet(request[c].PESEL) : Return(c, Ok(Marshal(found)))
    BY <1>4 DEF GetAccount
  <2>2. request[c].PESEL \in Pesels
    BY <1>4 DEF GetAccount, LookupRequests
  <2>3. Marshal(found) \in Results
    BY <2>1, <2>2, MayGetType, MarshalType
  <2>4. reply'[c].status = "ok"
    BY <2>1, <2>3, ReplyType DEF Return
  <2>5. QED
    BY <2>4
<1>5. CASE InvokeAccount(c)
  <2> DEFINE servant == servants[request[c].account]
  <2>1. request[c] \in AccountRequests /\ stage[c] = "dispatched"
        /\ servant \in AccountServants \cup {None}
    BY <1>5 DEF InvokeAccount, AccountRequests
  <2>2. CASE servant # None
    <3>1. reply'[c] = Ok(AccountResult(request[c].op, servant))
      BY <1>5, <2>2 DEF InvokeAccount, Return
    <3>2. QED
      BY <2>1, <2>2, <3>1, ReplyType, AccountResultType
  <2>3. QED
    BY <2>1, <2>2
<1>6. QED
  BY <1>1, <1>2, <1>3, <1>4, <1>5 DEF Handle

-----------------------------------------------------------------------------
(* Proxies.                                                                *)

\* What a call has seen when it was sent stays answered.
SeenInv == \A c \in Calls : \A d \in seen[c] : d \in Calls /\ stage[d] = "answered"

ProxyInv == SeenInv /\ NoDanglingProxy

LEMMA ProxyInit == Init => ProxyInv
BY DEF Init, ProxyInv, SeenInv, NoDanglingProxy

LEMMA ProxyStep == ProxyInv /\ IndSpec => ProxyInv'
<1> SUFFICES ASSUME ProxyInv, IndSpec PROVE ProxyInv'
  OBVIOUS
<1> USE DEF ProxyInv
<1>1. TypeOK /\ TypeOK'
  BY TypeNext DEF IndSpec, IndInv
<1>2. ASSUME NEW c \in Calls, Send(c) PROVE ProxyInv'
  <2>1. /\ stage[c] = "idle" /\ stage'[c] = "sent"
        /\ seen'[c] = {d \in Calls : stage[d] = "answered"}
        /\ \A d \in Calls \ {c} : stage'[d] = stage[d] /\ reply'[d] = reply[d]
        /\ \A d \in Calls \ {c} : seen'[d] = seen[d] /\ sentIn'[d] = sentIn[d]
        /\ \A d \in Calls \ {c} : request'[d] = request[d]
    BY <1>1, <1>2 DEF Send, In, TypeOK
  <2>2. SeenInv'
    BY <2>1 DEF SeenInv
  <2>3. NoDanglingProxy'
    BY <2>1 DEF NoDanglingProxy, SeenInv
  <2>4. QED
    BY <2>2, <2>3
<1>3. ASSUME NEW c \in Calls, Handle(c) PROVE ProxyInv'
  <2>1. /\ \A d \in Calls \ {c} : stage'[d] = stage[d] /\ reply'[d] = reply[d]
        /\ UNCHANGED <<request, sentIn, seen, epoch>>
        /\ stage[c] # "answered"
    BY <1>3, CallStep DEF clientVars
  <2>2. SeenInv'
    BY <2>1 DEF SeenInv
  <2>3. ASSUME NEW b \in Calls, stage'[b] \in {"returned", "answered"},
               reply'[b].status = "ObjectNotExistException", NEW d \in seen[b],
               reply'[d].status = "ok", reply'[d].value \in CreatedAccounts,
               reply'[d].value.account = request[b].account, sentIn[d] = sentIn[b]
        PROVE  FALSE
    <3>1. d \in Calls /\ d # c /\ stage[d] = "answered" /\ reply'[d] = reply[d]
      BY <2>1, <2>3 DEF SeenInv
    <3>2. CASE stage[b] \in {"returned", "answered"} /\ reply'[b] = reply[b]
      BY <2>3, <3>1, <3>2 DEF NoDanglingProxy
    <3>3. CASE b = c /\ stage[c] \notin {"returned", "answered"}
      <4>1. stage[c] = "dispatched" /\ servants[request[c].account] = None
        BY <1>3, <2>3, <3>3, NoServant
      <4>2. Current(c) /\ Current(d)
        BY <2>3, <3>3, <4>1 DEF IndSpec, IndInv, EpochInv, InFlight, OnThread, Current
      <4>3. Backed(reply[d].value)
        BY <2>3, <3>1, <4>2 DEF IndSpec, IndInv, EntriesBacked, Succeeded
      <4>4. QED
        BY <2>3, <3>1, <3>3, <4>1, <4>3 DEF Backed
    <3>4. CASE b = c /\ stage[c] \in {"returned", "answered"}
      <4>1. reply'[c] = reply[c]
        BY <1>1, <1>3, <3>4 DEF Handle, Dispatch, AddThrows, AddServant, BeginPut, EndPut, GetAccount,
                                InvokeAccount, Answer
      <4>2. QED
        BY <3>2, <3>4, <4>1
    <3>5. QED
      BY <2>1, <2>3, <3>2, <3>3, <3>4
  <2>4. NoDanglingProxy'
    BY <2>1, <2>3 DEF NoDanglingProxy
  <2>5. QED
    BY <2>2, <2>4
<1>4. CASE Restart
  <2>1. /\ UNCHANGED <<request, sentIn, seen>>
        /\ \A d \in Calls :
              IF stage[d] \in InFlight
              THEN stage'[d] = "answered" /\ reply'[d].status = "ConnectionLostException"
              ELSE stage'[d] = stage[d] /\ reply'[d] = reply[d]
    BY <1>4, ReplyType DEF Restart, Exceptions
  <2>2. "answered" \notin InFlight
    BY DEF InFlight, OnThread, Building
  <2>3. SeenInv'
    BY <2>1, <2>2 DEF SeenInv
  <2>4. NoDanglingProxy'
    BY <2>1, <2>2 DEF NoDanglingProxy, SeenInv
  <2>5. QED
    BY <2>3, <2>4
<1>5. CASE UNCHANGED vars
  BY <1>5 DEF vars, SeenInv, NoDanglingProxy
<1>6. QED
  BY <1>2, <1>3, <1>4, <1>5 DEF IndSpec, Next, AllAnswered

\* A client that has been given an account does not lose it: a call through its proxy
\* finds a servant for as long as the server has not been restarted, under any
\* number of dispatch threads and whatever else is called.
THEOREM ProxiesDoNotDangle == Spec => []NoDanglingProxy
<1>1. ProxyInv => NoDanglingProxy
  BY DEF ProxyInv
<1>2. QED
  BY ProxyInit, ProxyStep, Invariance, <1>1, PTL DEF Spec, IndSpec

-----------------------------------------------------------------------------
(* The three decisions createAccount takes on the income.  They agree      *)
(* because the category is part of the identity, and all that is kept of   *)
(* an account is kept under its identity.                                  *)

\* The flag of e is what its category says.
Agrees(e) == e.isPremium = (e.account.category = "premium")

\* The servant of an identity has the class that its category says.
ClassInv ==
    \A id \in Identities : servants[id] # None =>
        (servants[id].class = "PremiumAccount") = (id.category = "premium")

\* Wherever an account is held, its flag agrees.
FlagInv ==
    /\ \A c \in Calls : newAccount[c] # None => Agrees(newAccount[c])
    /\ \A p \in Pesels : createdAccounts[p] # None => Agrees(createdAccounts[p])
    /\ \A c \in Calls :
          /\ Succeeded(c) /\ request[c] \notin AccountRequests
          /\ reply[c].value.account \in Identities
          => Agrees(reply[c].value)

\* isPremium has answered what the category of the account says.
AnswerInv ==
    \A c \in Calls :
        Succeeded(c) /\ request[c] \in AccountRequests /\ request[c].op = "isPremium" =>
            reply[c].value.premium = (request[c].account.category = "premium")

PremiumInv == ClassInv /\ FlagInv /\ AnswerInv

LEMMA PremiumInit == Init => PremiumInv
BY DEF Init, PremiumInv, ClassInv, FlagInv, AnswerInv, Succeeded

\* A step that registers nothing and replies nothing new.
LEMMA PremiumQuiet ==
    ASSUME PremiumInv, TypeOK, TypeOK', UNCHANGED <<request, servants>>,
           \A d \in Calls : newAccount'[d] \in {None, newAccount[d]},
           \A p \in Pesels : \/ createdAccounts'[p] \in {None, createdAccounts[p]}
                             \/ \E d \in Calls : newAccount[d] # None
                                                   /\ createdAccounts'[p] = newAccount[d],
           \A d \in Calls : Succeeded(d)' =>
               \/ Succeeded(d) /\ reply'[d] = reply[d]
               \/ /\ request[d] \notin AccountRequests
                  /\ reply'[d].value.account \in Identities => Agrees(reply'[d].value)
    PROVE  PremiumInv'
<1>1. ClassInv'
  BY DEF PremiumInv, ClassInv
<1>2. FlagInv'
  <2>1. \A d \in Calls : newAccount'[d] # None => Agrees(newAccount'[d])
    BY DEF PremiumInv, FlagInv
  <2>2. \A p \in Pesels : createdAccounts'[p] # None => Agrees(createdAccounts'[p])
    BY DEF PremiumInv, FlagInv
  <2>3. \A d \in Calls :
           /\ Succeeded(d)' /\ request'[d] \notin AccountRequests
           /\ reply'[d].value.account \in Identities
           => Agrees(reply'[d].value)
    BY DEF PremiumInv, FlagInv
  <2>4. QED
    BY <2>1, <2>2, <2>3 DEF FlagInv, Agrees
<1>3. AnswerInv'
  BY DEF PremiumInv, AnswerInv
<1>4. QED
  BY <1>1, <1>2, <1>3 DEF PremiumInv

LEMMA PremiumStep == PremiumInv /\ IndSpec => PremiumInv'
<1> SUFFICES ASSUME PremiumInv, IndSpec PROVE PremiumInv'
  OBVIOUS
<1>0. TypeOK /\ TypeOK'
  BY TypeNext DEF IndSpec, IndInv
<1>1. ASSUME NEW c \in Calls, Send(c) PROVE PremiumInv'
  <2>1. /\ UNCHANGED <<newAccount, reply, servants, createdAccounts>>
        /\ \A d \in Calls : Succeeded(d)' => Succeeded(d) /\ request'[d] = request[d]
    BY <1>0, <1>1 DEF Send, TypeOK, Succeeded
  <2>2. QED
    BY <2>1 DEF PremiumInv, ClassInv, FlagInv, AnswerInv, Agrees
<1>2. ASSUME NEW c \in Calls, Dispatch(c) \/ BeginPut(c) \/ Answer(c) PROVE PremiumInv'
  <2>1. /\ UNCHANGED <<request, newAccount, reply, servants, createdAccounts>>
        /\ \A d \in Calls : Succeeded(d)' => Succeeded(d)
    BY <1>0, <1>2 DEF Dispatch, BeginPut, Answer, TypeOK, Succeeded, clientVars
  <2>2. QED
    BY <1>0, <2>1, PremiumQuiet
<1>3. ASSUME NEW c \in Calls, AddThrows(c) PROVE PremiumInv'
  <2>1. /\ UNCHANGED <<request, newAccount, servants, createdAccounts>>
        /\ reply'[c].status # "ok"
        /\ \A d \in Calls \ {c} : stage'[d] = stage[d] /\ reply'[d] = reply[d]
    BY <1>0, <1>3, ReplyType DEF AddThrows, Return, Exceptions, TypeOK, clientVars
  <2>2. \A d \in Calls : Succeeded(d)' => Succeeded(d) /\ reply'[d] = reply[d]
    BY <2>1 DEF Succeeded
  <2>3. QED
    BY <1>0, <2>1, <2>2, PremiumQuiet
<1>4. ASSUME NEW c \in Calls, AddServant(c) PROVE PremiumInv'
  <2> DEFINE id == IdentityOf(request[c])
  <2>1. request[c] \in CreateRequests /\ id \in Identities
        /\ (ClassOf(request[c]) = "PremiumAccount") = isPremium(request[c].income)
        /\ isPremium(request[c].income) = (id.category = "premium")
    <3>1. request[c] \in CreateRequests
      BY <1>4 DEF AddServant
    <3>2. isPremium(request[c].income) \in BOOLEAN
      BY <3>1, IdentityType
    <3>3. isPremium(request[c].income) = (id.category = "premium")
      BY <3>2 DEF IdentityOf, Category
    <3>4. QED
      BY <3>1, <3>3, IdentityType
  <2>2. PICK key \in Keys, balance \in Balances :
           /\ servants' = [servants EXCEPT ![id] =
                 [class |-> ClassOf(request[c]), key |-> key, balance |-> balance]]
           /\ newAccount' = [newAccount EXCEPT ![c] =
                 [account |-> id, key |-> key,
                  isPremium |-> isPremium(request[c].income)]]
    BY <1>4 DEF AddServant
  <2>3. /\ UNCHANGED <<request, reply, createdAccounts>>
        /\ \A d \in Calls : Succeeded(d)' => Succeeded(d)
    BY <1>0, <1>4 DEF AddServant, TypeOK, Succeeded, clientVars
  <2> HIDE DEF id
  <2>4. /\ servants'[id].class = ClassOf(request[c])
        /\ \A i \in Identities : i # id => servants'[i] = servants[i]
        /\ newAccount'[c].account = id
        /\ newAccount'[c].isPremium = isPremium(request[c].income)
        /\ \A d \in Calls \ {c} : newAccount'[d] = newAccount[d]
    BY <1>0, <2>1, <2>2 DEF TypeOK
  <2>5. ClassInv'
    BY <2>1, <2>4 DEF PremiumInv, ClassInv
  <2>6. FlagInv'
    BY <2>1, <2>3, <2>4 DEF PremiumInv, FlagInv, Agrees
  <2>7. AnswerInv'
    BY <2>3 DEF PremiumInv, AnswerInv
  <2>8. QED
    BY <2>5, <2>6, <2>7 DEF PremiumInv
<1>5. ASSUME NEW c \in Calls, EndPut(c) PROVE PremiumInv'
  <2>1. newAccount[c] \in CreatedAccounts /\ newAccount[c] # None
        /\ request[c] \in CreateRequests /\ request[c] \notin AccountRequests
    BY <1>0, <1>5, NoneAssumption, RequestKinds
       DEF EndPut, IndSpec, IndInv, LocalInv, TypeOK, Building
  <2>2. /\ UNCHANGED <<request, servants>>
        /\ newAccount' = [newAccount EXCEPT ![c] = None]
        /\ reply'[c] = Ok(newAccount[c])
        /\ \A d \in Calls \ {c} : stage'[d] = stage[d] /\ reply'[d] = reply[d]
    BY <1>0, <1>5 DEF EndPut, Return, TypeOK, clientVars
  <2>3. reply'[c].value = newAccount[c]
    BY <2>1, <2>2 DEF Ok
  <2>4. \A p \in Pesels : \/ createdAccounts'[p] \in {None, createdAccounts[p]}
                          \/ createdAccounts'[p] = newAccount[c]
    BY <1>0, <1>5, <2>1, AfterPutType DEF EndPut, TypeOK
  <2>5. \A d \in Calls : newAccount'[d] \in {None, newAccount[d]}
    BY <1>0, <2>2 DEF TypeOK
  <2>6. Agrees(newAccount[c])
    BY <2>1 DEF PremiumInv, FlagInv
  <2>7. \A d \in Calls : Succeeded(d)' =>
               \/ Succeeded(d) /\ reply'[d] = reply[d]
               \/ /\ request[d] \notin AccountRequests
                  /\ reply'[d].value.account \in Identities => Agrees(reply'[d].value)
    BY <2>1, <2>2, <2>3, <2>6 DEF Succeeded
  <2>8. QED
    BY <1>0, <2>1, <2>2, <2>4, <2>5, <2>7, PremiumQuiet
<1>6. ASSUME NEW c \in Calls, GetAccount(c) PROVE PremiumInv'
  <2>1. PICK found \in MayGet(request[c].PESEL) : Return(c, Ok(Marshal(found)))
    BY <1>6 DEF GetAccount
  <2>2. request[c] \notin AccountRequests /\ request[c].PESEL \in Pesels
    BY <1>6, RequestKinds DEF GetAccount, LookupRequests
  <2>3. /\ UNCHANGED <<request, servants, newAccount, createdAccounts>>
        /\ \A d \in Calls \ {c} : stage'[d] = stage[d] /\ reply'[d] = reply[d]
        /\ reply'[c].value = Marshal(found)
    BY <1>0, <1>6, <2>1 DEF GetAccount, Return, Ok, TypeOK, clientVars
  <2>4. CASE found = None
    <3>1. reply'[c].value.account \notin Identities
      <4>1. reply'[c].value = NullMarshalValue
        BY <2>3, <2>4 DEF Marshal
      <4>2. NullMarshalValue.account = None
        BY DEF NullMarshalValue
      <4>3. QED
        BY <4>1, <4>2, NoneAssumption
    <3>2. \A d \in Calls : Succeeded(d)' =>
               \/ Succeeded(d) /\ reply'[d] = reply[d]
               \/ /\ request[d] \notin AccountRequests
                  /\ reply'[d].value.account \in Identities => Agrees(reply'[d].value)
      BY <2>2, <2>3, <3>1 DEF Succeeded
    <3>3. QED
      BY <1>0, <2>3, <3>2, PremiumQuiet
  <2>5. CASE found # None
    <3>1. Agrees(found)
      BY <1>0, <2>2, <2>5, MayGetType, NoneAssumption DEF PremiumInv, FlagInv, TypeOK, Building
    <3>2. reply'[c].value = found
      BY <2>3, <2>5 DEF Marshal
    <3>3. \A d \in Calls : Succeeded(d)' =>
               \/ Succeeded(d) /\ reply'[d] = reply[d]
               \/ /\ request[d] \notin AccountRequests
                  /\ reply'[d].value.account \in Identities => Agrees(reply'[d].value)
      BY <2>2, <2>3, <3>1, <3>2 DEF Succeeded
    <3>4. QED
      BY <1>0, <2>3, <3>3, PremiumQuiet
  <2>6. QED
    BY <2>4, <2>5
<1>7. ASSUME NEW c \in Calls, InvokeAccount(c) PROVE PremiumInv'
  <2> DEFINE servant == servants[request[c].account]
             r == IF servant = None THEN Raised("ObjectNotExistException")
                  ELSE Ok(AccountResult(request[c].op, servant))
  <2>1. /\ request[c] \in AccountRequests /\ request[c].account \in Identities
        /\ Return(c, r)
        /\ UNCHANGED <<request, newAccount, servants, createdAccounts>>
    BY <1>7 DEF InvokeAccount, AccountRequests, clientVars
  <2>2. /\ reply'[c] = r
        /\ \A d \in Calls \ {c} : stage'[d] = stage[d] /\ reply'[d] = reply[d]
    BY <1>0, <2>1 DEF Return, TypeOK
  <2>3. r.status = "ok" =>
           servant # None /\ r.value = AccountResult(request[c].op, servant)
    BY DEF Raised, Ok
  <2> HIDE DEF r
  <2>4. ClassInv'
    BY <2>1 DEF PremiumInv, ClassInv
  <2>5. FlagInv'
    BY <2>1, <2>2 DEF PremiumInv, FlagInv, Succeeded, Agrees
  <2>6. Succeeded(c)' /\ request[c].op = "isPremium" =>
           reply'[c].value.premium = (request[c].account.category = "premium")
    <3>1. SUFFICES ASSUME Succeeded(c)', request[c].op = "isPremium"
                   PROVE  reply'[c].value.premium = (request[c].account.category = "premium")
      OBVIOUS
    <3>2. servant # None /\ reply'[c].value = [premium |-> servant.class = "PremiumAccount"]
      BY <2>2, <2>3, <3>1 DEF Succeeded, AccountResult
    <3>3. (servant.class = "PremiumAccount") = (request[c].account.category = "premium")
      BY <2>1, <3>2 DEF PremiumInv, ClassInv
    <3>4. QED
      BY <3>2, <3>3
  <2>7. AnswerInv'
    BY <2>1, <2>2, <2>6 DEF PremiumInv, AnswerInv, Succeeded
  <2>8. QED
    BY <2>4, <2>5, <2>7 DEF PremiumInv
<1>8. CASE Restart
  <2>1. /\ UNCHANGED request
        /\ \A id \in Identities : servants'[id] = None
        /\ \A p \in Pesels : createdAccounts'[p] = None
        /\ \A d \in Calls : newAccount'[d] = None
        /\ \A d \in Calls : Succeeded(d)' => Succeeded(d) /\ reply'[d] = reply[d]
    BY <1>0, <1>8, ReplyType DEF Restart, Exceptions, Succeeded, InFlight, OnThread, Building, TypeOK
  <2>2. QED
    BY <2>1 DEF PremiumInv, ClassInv, FlagInv, AnswerInv, Agrees
<1>9. CASE UNCHANGED vars
  BY <1>9 DEF vars, PremiumInv, ClassInv, FlagInv, AnswerInv, Agrees, Succeeded
<1>10. QED
  BY <1>1, <1>2, <1>3, <1>4, <1>5, <1>6, <1>7, <1>8, <1>9
     DEF IndSpec, Next, Handle, AllAnswered

\* What createAccount and getAccount say of an account, and what the account itself
\* answers to isPremium, never disagree: not while calls overlap, and not when the
\* account was opened anew by a restarted server.
THEOREM PremiumAgrees == Spec => []PremiumAnswersAgree
<1>1. TypeOK /\ PremiumInv => PremiumAnswersAgree
  <2>1. SUFFICES ASSUME TypeOK, PremiumInv, NEW c \in Calls, NEW d \in Calls,
                        Succeeded(c), request[c] \in AccountRequests,
                        request[c].op = "isPremium", Succeeded(d),
                        request[d] \notin AccountRequests,
                        reply[d].value.account = request[c].account
                 PROVE  reply[c].value.premium = reply[d].value.isPremium
    BY DEF PremiumAnswersAgree
  <2>2. request[c].account \in Identities
    BY <2>1 DEF AccountRequests
  <2>3. QED
    BY <2>1, <2>2 DEF PremiumInv, FlagInv, AnswerInv, Agrees
<1>2. QED
  BY PremiumInit, PremiumStep, TypeCorrect, Invariance, <1>1, PTL DEF Spec, IndSpec
=============================================================================
