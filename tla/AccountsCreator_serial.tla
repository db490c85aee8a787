------------------------ MODULE AccountsCreator_serial ------------------------
(***************************************************************************)
(* Theorems about AccountsCreator with one dispatch at a time, which is    *)
(* what Ice.ThreadPool.Server.SizeMax is unless a configuration sets it:   *)
(* the server implements the atomic AccountBook, and a lookup returns what *)
(* the last createAccount has put.                                         *)
(***************************************************************************)
EXTENDS AccountsCreator_proofs, FiniteSetTheorems

\* One call at a time is on a thread, so no two puts overlap; and no servant has
\* the identity that adapter.add refuses.
SerialInv ==
    /\ \A c, d \in Calls : stage[c] \in OnThread /\ stage[d] \in OnThread => c = d
    /\ raced = {}
    /\ \A id \in Identities : servants[id] # None => id.name # EmptyPesel

\* The createAccount calls for p of this life of the server that have returned.
Puts(p) == {d \in Calls : Opened(d, p) /\ Current(d)}

\* What is listed for p is what the last of them returned: none of them was sent
\* after that one was answered.
LastInv ==
    \A p \in Pesels :
        \/ createdAccounts[p] = None /\ Puts(p) = {}
        \/ \E d \in Puts(p) :
              /\ createdAccounts[p] = reply[d].value
              /\ \A e \in Puts(p) : d \notin seen[e]

\* The createAccount calls that had been answered when lookup c was sent.
Before(c) == {d \in seen[c] : Opened(d, request[c].PESEL) /\ sentIn[d] = sentIn[c]}

\* FreshLookup, of a createAccount that has been answered: no restart undoes it.
FreshAnswer(c) ==
    \/ Before(c) = {} /\ reply[c].value = NullMarshalValue
    \/ \E d \in Calls :
          /\ stage[d] = "answered" /\ Opened(d, request[c].PESEL) /\ sentIn[d] = sentIn[c]
          /\ reply[c].value = reply[d].value
          /\ \A e \in Before(c) : d \notin seen[e]

FreshInv ==
    \A c \in Calls : Succeeded(c) /\ request[c] \in LookupRequests => FreshAnswer(c)

SerialInd == SeenInv /\ SerialInv /\ LastInv /\ FreshInv

LEMMA SerialInit == Init => SerialInd
BY DEF Init, SerialInd, SeenInv, SerialInv, LastInv, FreshInv, Puts, Opened, Succeeded, OnThread,
       Building

\* What the steps below may rely on.
Sound == SizeMax = 1 /\ IndSpec /\ PremiumInv /\ SerialInd

\* The step of a call c that is on a thread: no other call is.
LEMMA Alone ==
    ASSUME Sound, NEW c \in Calls, stage[c] \in OnThread
    PROVE  /\ \A d \in Calls \ {c} : stage[d] \notin OnThread
           /\ \A stages \in SUBSET OnThread :
                 In(stages) = IF stage[c] \in stages THEN {c} ELSE {}
BY DEF Sound, SerialInd, SerialInv, In

LEMMA SerialStep == Sound => SerialInv'
<1> SUFFICES ASSUME Sound PROVE SerialInv'
  OBVIOUS
<1> USE DEF SerialInv
<1>1. TypeOK /\ TypeOK' /\ SerialInv /\ [Next]_vars
  BY TypeNext DEF Sound, IndSpec, IndInv, SerialInd
<1>2. ASSUME NEW c \in Calls, Send(c) PROVE SerialInv'
  BY <1>1, <1>2 DEF Send, OnThread, Building, TypeOK
<1>3. ASSUME NEW c \in Calls, Dispatch(c) PROVE SerialInv'
  <2>1. In(OnThread) = {}
    <3>1. IsFiniteSet(In(OnThread)) /\ Cardinality(In(OnThread)) \in Nat
      <4>1. In(OnThread) \subseteq Calls
        BY DEF In
      <4>2. QED
        BY <4>1, PoolAssumption, FS_Subset, FS_CardinalityType
    <3>2. Cardinality(In(OnThread)) = 0
      BY <1>3, <3>1 DEF Dispatch, ThreadFree, Sound
    <3>3. QED
      BY <3>1, <3>2, FS_EmptySet
  <2>2. \A d \in Calls : stage[d] \notin OnThread
    BY <2>1 DEF In
  <2>3. QED
    BY <1>1, <1>3, <2>2 DEF Dispatch, TypeOK
<1>4. ASSUME NEW c \in Calls, AddThrows(c) \/ GetAccount(c) \/ InvokeAccount(c) \/ Answer(c)
      PROVE  SerialInv'
  <2>1. /\ stage[c] \in OnThread /\ UNCHANGED <<raced, servants>>
        /\ \A d \in Calls \ {c} : stage'[d] = stage[d]
    BY <1>1, <1>4 DEF AddThrows, GetAccount, InvokeAccount, Answer, Return, OnThread, TypeOK
  <2>2. QED
    BY <1>1, <2>1
<1>5. ASSUME NEW c \in Calls, AddServant(c) PROVE SerialInv'
  <2>1. /\ stage[c] \in OnThread /\ UNCHANGED raced
        /\ \A d \in Calls \ {c} : stage'[d] = stage[d]
    BY <1>1, <1>5 DEF AddServant, OnThread, TypeOK
  <2>2. ASSUME NEW id \in Identities, servants'[id] # None PROVE id.name # EmptyPesel
    BY <1>1, <1>5, <2>2 DEF AddServant, AddFails, TypeOK
  <2>3. QED
    BY <1>1, <2>1, <2>2
<1>6. ASSUME NEW c \in Calls, BeginPut(c) PROVE SerialInv'
  <2>1. /\ stage[c] \in OnThread /\ stage[c] # "putting" /\ UNCHANGED servants
        /\ \A d \in Calls \ {c} : stage'[d] = stage[d]
    BY <1>1, <1>6 DEF BeginPut, OnThread, Building, TypeOK
  <2>2. In({"putting"}) = {}
    BY <2>1, Alone DEF OnThread, Building
  <2>3. QED
    BY <1>1, <1>6, <2>1, <2>2 DEF BeginPut
<1>7. ASSUME NEW c \in Calls, EndPut(c) PROVE SerialInv'
  <2>1. /\ stage[c] \in OnThread /\ UNCHANGED servants /\ raced' = raced \ {c}
        /\ \A d \in Calls \ {c} : stage'[d] = stage[d]
    BY <1>1, <1>7 DEF EndPut, Return, OnThread, Building, TypeOK
  <2>2. QED
    BY <1>1, <2>1
<1>8. CASE Restart
  BY <1>1, <1>8 DEF Restart, InFlight, OnThread, Building
<1>9. CASE UNCHANGED vars
  BY <1>1, <1>9 DEF vars
<1>10. QED
  BY <1>1, <1>2, <1>3, <1>4, <1>5, <1>6, <1>7, <1>8, <1>9 DEF Next, Handle, AllAnswered

LEMMA SeenStep == Sound => SeenInv'
<1> SUFFICES ASSUME Sound PROVE SeenInv'
  OBVIOUS
<1>1. TypeOK /\ SeenInv /\ IndSpec
  BY DEF Sound, IndSpec, IndInv, SerialInd
<1>2. ASSUME NEW c \in Calls, Send(c) PROVE SeenInv'
  BY <1>1, <1>2 DEF SeenInv, Send, In, TypeOK
<1>3. ASSUME NEW c \in Calls, Handle(c) PROVE SeenInv'
  BY <1>1, <1>3, CallStep DEF SeenInv, clientVars
<1>4. CASE Restart
  BY <1>1, <1>4 DEF SeenInv, Restart, InFlight, OnThread, Building
<1>5. CASE UNCHANGED vars
  BY <1>1, <1>5 DEF SeenInv, vars
<1>6. QED
  BY <1>1, <1>2, <1>3, <1>4, <1>5 DEF IndSpec, Next, AllAnswered

-----------------------------------------------------------------------------
(* What getAccount returns.                                                *)

\* What a call was answered is not changed any more.
LEMMA AnsweredStays ==
    ASSUME Sound, NEW d \in Calls, stage[d] = "answered"
    PROVE  /\ stage'[d] = "answered" /\ reply'[d] = reply[d] /\ request'[d] = request[d]
           /\ sentIn'[d] = sentIn[d] /\ seen'[d] = seen[d]
<1>1. TypeOK /\ [Next]_vars /\ IndSpec
  BY DEF Sound, IndSpec, IndInv
<1>2. ASSUME NEW c \in Calls, Send(c) PROVE d # c
  BY <1>2 DEF Send
<1>3. CASE \E c \in Calls : Send(c)
  BY <1>1, <1>2, <1>3 DEF Send, TypeOK
<1>4. CASE \E c \in Calls : Handle(c)
  BY <1>1, <1>4, CallStep DEF clientVars
<1>5. CASE Restart
  BY <1>5 DEF Restart, InFlight, OnThread, Building
<1>6. CASE UNCHANGED vars
  BY <1>6 DEF vars
<1>7. QED
  BY <1>1, <1>3, <1>4, <1>5, <1>6 DEF Next, AllAnswered

\* A lookup has an answer from the step of GetAccount on, and keeps it.
LEMMA LookupAnswers ==
    ASSUME Sound, NEW c \in Calls, Succeeded(c)', request'[c] \in LookupRequests
    PROVE  /\ request'[c] = request[c] /\ sentIn'[c] = sentIn[c] /\ seen'[c] = seen[c]
           /\ \/ Succeeded(c) /\ reply'[c] = reply[c]
              \/ GetAccount(c)
<1>1. TypeOK /\ TypeOK' /\ [Next]_vars /\ IndSpec
  BY TypeNext DEF Sound, IndSpec, IndInv
<1>2. ASSUME NEW d \in Calls, Send(d) PROVE d # c
  BY <1>1, <1>2 DEF Send, Succeeded, TypeOK
<1>3. CASE \E d \in Calls : Send(d)
  BY <1>1, <1>2, <1>3 DEF Send, Succeeded, TypeOK
<1>4. ASSUME NEW d \in Calls, Handle(d), d # c
      PROVE  /\ Succeeded(c) /\ reply'[c] = reply[c]
             /\ request'[c] = request[c] /\ sentIn'[c] = sentIn[c] /\ seen'[c] = seen[c]
  BY <1>1, <1>4, CallStep DEF Succeeded, clientVars
<1>5. ASSUME Handle(c)
      PROVE  /\ (Succeeded(c) /\ reply'[c] = reply[c]) \/ GetAccount(c)
             /\ request'[c] = request[c] /\ sentIn'[c] = sentIn[c] /\ seen'[c] = seen[c]
  <2>1. UNCHANGED clientVars
    BY <1>1, <1>5, CallStep
  <2>2. request[c] \in LookupRequests
    BY <2>1 DEF clientVars
  <2>3. ~EndPut(c)
    BY <1>1, <2>2, RequestKinds DEF EndPut, LocalInv, Sound, IndSpec, IndInv, Building
  <2>4. ~InvokeAccount(c) /\ ~AddThrows(c) /\ ~AddServant(c)
    BY <2>2, RequestKinds DEF InvokeAccount, AddThrows, AddServant
  <2>5. CASE Dispatch(c) \/ BeginPut(c)
    BY <1>1, <2>1, <2>5 DEF Dispatch, BeginPut, Succeeded, TypeOK
  <2>6. CASE Answer(c)
    BY <1>1, <2>1, <2>6 DEF Answer, Succeeded, TypeOK, clientVars
  <2>7. QED
    BY <1>5, <2>1, <2>3, <2>4, <2>5, <2>6 DEF Handle, clientVars
<1>6. CASE Restart
  <2>1. Raised("ConnectionLostException").status # "ok"
    BY DEF Raised
  <2>2. QED
    BY <1>1, <1>6, <2>1 DEF Restart, Succeeded, InFlight, OnThread, Building, TypeOK
<1>7. CASE UNCHANGED vars
  BY <1>7 DEF vars, Succeeded
<1>8. QED
  BY <1>1, <1>3, <1>4, <1>5, <1>6, <1>7 DEF Next, AllAnswered

LEMMA FreshStep == Sound => FreshInv'
<1> SUFFICES ASSUME Sound, NEW c \in Calls, Succeeded(c)', request'[c] \in LookupRequests
             PROVE  FreshAnswer(c)'
  BY DEF FreshInv
<1> DEFINE p == request[c].PESEL
           before == Before(c)
<1>1. /\ request'[c] = request[c] /\ sentIn'[c] = sentIn[c] /\ seen'[c] = seen[c]
      /\ \/ Succeeded(c) /\ reply'[c] = reply[c]
         \/ GetAccount(c)
  BY LookupAnswers
<1>2. \A d \in seen[c] : d \in Calls /\ stage[d] = "answered"
  BY DEF Sound, SerialInd, SeenInv
<1>3. \A d \in Calls : stage[d] = "answered" =>
         /\ Opened(d, p)' <=> Opened(d, p)
         /\ stage'[d] = "answered" /\ sentIn'[d] = sentIn[d] /\ reply'[d] = reply[d]
         /\ seen'[d] = seen[d]
  BY <1>1, AnsweredStays DEF Opened, Succeeded
<1>4. Before(c)' = before
  BY <1>1, <1>2, <1>3 DEF Before
<1>5. before \subseteq Calls /\ \A e \in before : stage[e] = "answered"
  BY <1>2 DEF Before
<1> HIDE DEF before
<1>6. \/ before = {} /\ reply'[c].value = NullMarshalValue
      \/ \E d \in Calls :
            /\ stage[d] = "answered" /\ Opened(d, p) /\ sentIn[d] = sentIn[c]
            /\ reply'[c].value = reply[d].value
            /\ \A e \in before : d \notin seen[e]
  <2>1. CASE Succeeded(c) /\ reply'[c] = reply[c]
    BY <1>1, <2>1 DEF before, Sound, SerialInd, FreshInv, FreshAnswer
  <2>2. CASE GetAccount(c)
    <3>1. /\ stage[c] = "dispatched" /\ p \in Pesels /\ Current(c)
          /\ stage[c] \in OnThread
      BY <2>2 DEF GetAccount, LookupRequests, Sound, IndSpec, IndInv, EpochInv, InFlight, OnThread
    <3>2. In({"putting"}) = {}
      BY <3>1, Alone DEF OnThread, Building
    <3>3. reply'[c] = Ok(Marshal(createdAccounts[p]))
      BY <2>2, <3>2 DEF GetAccount, MayGet, Return, Sound, IndSpec, IndInv, TypeOK
    <3>4. reply'[c].value = Marshal(createdAccounts[p])
      BY <3>3 DEF Ok
    <3>5. before \subseteq Puts(p)
      BY <1>5, <3>1 DEF before, Before, Puts, Current
    <3>6. CASE createdAccounts[p] = None /\ Puts(p) = {}
      BY <3>4, <3>5, <3>6 DEF Marshal
    <3>7. CASE Puts(p) # {} \/ createdAccounts[p] # None
      <4>1. PICK d \in Puts(p) : /\ createdAccounts[p] = reply[d].value
                                 /\ \A e \in Puts(p) : d \notin seen[e]
        BY <3>1, <3>7 DEF Sound, SerialInd, LastInv
      <4>2. d \in Calls /\ Opened(d, p) /\ sentIn[d] = sentIn[c]
        BY <3>1, <4>1 DEF Puts, Current
      <4>3. stage[d] = "answered"
        <5>1. stage[d] \in {"returned", "answered"} /\ d # c
          BY <3>1, <4>2 DEF Opened, Succeeded
        <5>2. stage[d] \notin OnThread
          BY <3>1, <4>2, <5>1, Alone
        <5>3. QED
          BY <5>1, <5>2 DEF OnThread
      <4>4. reply[d].value \in CreatedAccounts
        BY <4>2 DEF Sound, IndSpec, IndInv, ReturnInv, Opened
      <4>5. Marshal(createdAccounts[p]) = reply[d].value
        BY <4>1, <4>4, NoneAssumption DEF Marshal
      <4>6. QED
        BY <3>4, <3>5, <4>1, <4>2, <4>3, <4>5
    <3>8. QED
      BY <3>6, <3>7
  <2>3. QED
    BY <1>1, <2>1, <2>2
<1>7. CASE before = {} /\ reply'[c].value = NullMarshalValue
  BY <1>4, <1>7 DEF FreshAnswer
<1>8. ASSUME NEW d \in Calls, stage[d] = "answered", Opened(d, p), sentIn[d] = sentIn[c],
             reply'[c].value = reply[d].value, \A e \in before : d \notin seen[e]
      PROVE  FreshAnswer(c)'
  <2>1. /\ stage'[d] = "answered" /\ Opened(d, p)' /\ sentIn'[d] = sentIn'[c]
        /\ reply'[d] = reply[d]
    BY <1>1, <1>3, <1>8
  <2>2. Opened(d, request[c].PESEL)'
    BY <1>1, <2>1 DEF Opened
  <2>3. \A e \in Before(c)' : d \notin seen'[e]
    BY <1>3, <1>4, <1>5, <1>8
  <2>4. QED
    BY <1>8, <2>1, <2>2, <2>3 DEF FreshAnswer
<1>9. QED
  BY <1>6, <1>7, <1>8

\* A step that puts nothing.
LEMMA LastQuiet ==
    ASSUME Sound, UNCHANGED <<createdAccounts, epoch>>,
           \A d \in Calls, p \in Pesels : Opened(d, p)' <=> Opened(d, p),
           \A d \in Calls, p \in Pesels : Opened(d, p) =>
              sentIn'[d] = sentIn[d] /\ reply'[d] = reply[d] /\ seen'[d] = seen[d],
           \A d \in Calls : sentIn'[d] # sentIn[d] => ~Succeeded(d)
    PROVE  LastInv'
<1>1. \A p \in Pesels : Puts(p)' = Puts(p)
  BY DEF Puts, Current, Opened
<1>2. QED
  BY <1>1 DEF Sound, SerialInd, LastInv, Puts

LEMMA LastStep == Sound => LastInv'
<1> SUFFICES ASSUME Sound PROVE LastInv'
  OBVIOUS
<1>1. TypeOK /\ TypeOK' /\ [Next]_vars /\ IndSpec /\ IndInv
  BY TypeNext DEF Sound, IndSpec, IndInv
<1>2. ASSUME NEW c \in Calls, Send(c) PROVE LastInv'
  <2>1. /\ stage[c] = "idle" /\ stage'[c] = "sent" /\ UNCHANGED <<createdAccounts, epoch, reply>>
        /\ \A d \in Calls \ {c} : stage'[d] = stage[d] /\ request'[d] = request[d]
                                  /\ sentIn'[d] = sentIn[d] /\ seen'[d] = seen[d]
    BY <1>1, <1>2 DEF Send, TypeOK
  <2>2. QED
    BY <2>1, LastQuiet DEF Opened, Succeeded
<1>3. ASSUME NEW c \in Calls, Handle(c), ~EndPut(c) PROVE LastInv'
  <2>1. /\ UNCHANGED <<createdAccounts, clientVars>>
        /\ \A d \in Calls \ {c} : stage'[d] = stage[d] /\ reply'[d] = reply[d]
    BY <1>1, <1>3, CallStep DEF Handle, Dispatch, AddThrows, AddServant, BeginPut, GetAccount,
                                InvokeAccount, Answer
  <2>2. request[c] \in CreateRequests => (Succeeded(c)' <=> Succeeded(c))
    <3>1. CASE Dispatch(c) \/ AddServant(c) \/ BeginPut(c)
      BY <1>1, <3>1 DEF Dispatch, AddServant, BeginPut, Succeeded, TypeOK
    <3>2. CASE AddThrows(c)
      BY <1>1, <3>2 DEF AddThrows, Return, Succeeded, TypeOK, Raised
    <3>3. CASE Answer(c)
      BY <1>1, <3>3 DEF Answer, Succeeded, TypeOK
    <3>4. CASE GetAccount(c) \/ InvokeAccount(c)
      BY <3>4, RequestKinds DEF GetAccount, InvokeAccount
    <3>5. QED
      BY <1>3, <3>1, <3>2, <3>3, <3>4 DEF Handle
  <2>3. request[c] \in CreateRequests /\ Succeeded(c) => reply'[c] = reply[c]
    BY <1>1, <1>3 DEF Handle, Dispatch, AddThrows, AddServant, BeginPut, GetAccount, InvokeAccount,
                      Answer, Succeeded
  <2>4. QED
    BY <2>1, <2>2, <2>3, LastQuiet DEF Opened, Succeeded, clientVars
<1>4. ASSUME NEW c \in Calls, EndPut(c) PROVE LastInv'
  <2> DEFINE q == request[c].PESEL
  <2>1. /\ stage[c] = "putting" /\ stage[c] \in Building /\ stage[c] \in InFlight
        /\ reply'[c] = Ok(newAccount[c]) /\ reply'[c].value = newAccount[c]
        /\ reply'[c].status = "ok" /\ stage'[c] = "returned"
        /\ UNCHANGED clientVars
        /\ \A d \in Calls \ {c} : stage'[d] = stage[d] /\ reply'[d] = reply[d]
    BY <1>1, <1>4 DEF EndPut, Return, Ok, TypeOK, Building, InFlight, OnThread
  <2>2. request[c] \in CreateRequests /\ q \in Pesels /\ Current(c)
    BY <1>1, <2>1 DEF IndInv, LocalInv, EpochInv, CreateRequests
  <2>3. createdAccounts' = [createdAccounts EXCEPT ![q] = newAccount[c]]
    BY <1>4 DEF EndPut, AfterPut, Sound, SerialInd, SerialInv
  <2>4. \A p \in Pesels : Puts(p)' = IF p = q THEN Puts(p) \cup {c} ELSE Puts(p)
    BY <2>1, <2>2 DEF Puts, Opened, Succeeded, Current, clientVars
  <2>5. \A e \in Calls : c \notin seen'[e]
    BY <2>1 DEF Sound, SerialInd, SeenInv, clientVars
  <2>6. \A p \in Pesels : \A d \in Puts(p) : d \in Calls /\ d # c
    BY <2>1 DEF Puts, Opened, Succeeded
  <2>7. ASSUME NEW p \in Pesels
        PROVE  \/ createdAccounts'[p] = None /\ Puts(p)' = {}
               \/ \E d \in Puts(p)' : /\ createdAccounts'[p] = reply'[d].value
                                      /\ \A e \in Puts(p)' : d \notin seen'[e]
    <3>1. CASE p = q
      <4>1. c \in Puts(p)' /\ createdAccounts'[p] = reply'[c].value
        BY <1>1, <2>1, <2>3, <2>4, <3>1 DEF TypeOK
      <4>2. \A e \in Puts(p)' : c \notin seen'[e]
        BY <2>2, <2>4, <2>5, <2>6, <3>1
      <4>3. QED
        BY <4>1, <4>2
    <3>2. CASE p # q
      BY <1>1, <2>1, <2>3, <2>4, <2>6, <3>2 DEF Sound, SerialInd, LastInv, clientVars, TypeOK
    <3>3. QED
      BY <3>1, <3>2
  <2>8. QED
    BY <2>7 DEF LastInv
<1>5. CASE Restart
  <2>1. /\ epoch' = epoch + 1 /\ epoch \in Nat /\ sentIn' = sentIn
        /\ \A p \in Pesels : createdAccounts'[p] = None
    BY <1>1, <1>5, PoolAssumption DEF Restart, TypeOK
  <2>2. \A d \in Calls : sentIn[d] <= epoch /\ sentIn[d] \in Nat
    BY <1>1, PoolAssumption DEF IndInv, EpochInv, TypeOK
  <2>3. \A d \in Calls : ~Current(d)'
    BY <2>1, <2>2 DEF Current
  <2>4. \A p \in Pesels : Puts(p)' = {}
    BY <2>3 DEF Puts
  <2>5. QED
    BY <2>1, <2>4 DEF LastInv
<1>6. CASE UNCHANGED vars
  BY <1>6 DEF Sound, SerialInd, LastInv, Puts, Opened, Succeeded, Current, vars
<1>7. QED
  BY <1>1, <1>2, <1>3, <1>4, <1>5, <1>6 DEF Next, AllAnswered

LEMMA SerialNext == Sound => SerialInd'
BY SerialStep, SeenStep, FreshStep, LastStep DEF SerialInd

\* With one dispatch at a time, getAccount returns an account that no later
\* createAccount had already replaced when it was called, and null only when none had
\* been answered in this life of the server.
THEOREM LookupsAreFresh ==
    ASSUME SizeMax = 1
    PROVE  Spec => []FreshLookup
<1>1. SerialInd => FreshLookup
  BY DEF SerialInd, FreshInv, FreshAnswer, Before, FreshLookup
<1>2. IndSpec /\ PremiumInv /\ SerialInd => SerialInd'
  BY SerialNext DEF Sound
<1>3. QED
  BY SerialInit, PremiumInit, PremiumStep, Invariance, <1>1, <1>2, PTL DEF Spec, IndSpec

-----------------------------------------------------------------------------
(* The refinement.                                                         *)

\* The phase of the book for a stage of the server.
PhaseOf(s) ==
    CASE s \in {"dispatched"} \cup Building -> "sent"
      [] s = "returned"                     -> "served"
      [] OTHER                              -> s

bookPhase == [c \in Calls |-> PhaseOf(stage[c])]

bookAccounts == [id \in Identities |-> IF id \in UnderWay THEN None ELSE servants[id]]

\* A call goes from one stage to another.
LEMMA PhaseMoves ==
    ASSUME TypeOK, NEW c \in Calls, NEW s, stage' = [stage EXCEPT ![c] = s]
    PROVE  bookPhase' = [bookPhase EXCEPT ![c] = PhaseOf(s)]
BY DEF bookPhase, TypeOK

\* The names of the book are those of this module.
LEMMA SameTypes ==
    /\ Book!Identities = Identities
    /\ Book!CreateRequests = CreateRequests
    /\ Book!LookupRequests = LookupRequests
    /\ Book!AccountRequests = AccountRequests
    /\ Book!Requests = Requests
    /\ \A r : Book!IdentityOf(r) = IdentityOf(r) /\ Book!ClassOf(r) = ClassOf(r)
    /\ \A v : Book!Ok(v) = Ok(v) /\ Book!Raised(v) = Raised(v) /\ Book!Marshal(v) = Marshal(v)
    /\ \A i : Book!isPremium(i) = isPremium(i)
    /\ \A op, a : Book!AccountResult(op, a) = AccountResult(op, a)
BY DEF Book!Identities, Identities, Book!CreateRequests, CreateRequests,
       Book!LookupRequests, LookupRequests, Book!AccountRequests, AccountRequests,
       Book!Requests, Requests,
       Book!IdentityOf, IdentityOf, Book!ClassOf, ClassOf, Book!Category, Category,
       Book!isPremium, isPremium, Book!PREMIUM_MIN_LIMIT, PREMIUM_MIN_LIMIT,
       Book!Ok, Ok, Book!Raised, Raised, Book!Marshal, Marshal,
       Book!NullMarshalValue, NullMarshalValue, Book!AccountResult, AccountResult

LEMMA BookStutter ==
    ASSUME UNCHANGED <<request, bookPhase, reply, bookAccounts, createdAccounts>>
    PROVE  UNCHANGED Book!vars
BY SameTypes DEF Book!vars, bookPhase, bookAccounts, PhaseOf

LEMMA BookInit == Init => Book!Init
<1> SUFFICES ASSUME Init PROVE Book!Init
  OBVIOUS
<1>1. bookPhase = [c \in Calls |-> "idle"]
  BY DEF Init, bookPhase, PhaseOf, Building
<1>2. bookAccounts = [id \in Identities |-> None]
  BY DEF Init, bookAccounts
<1>3. QED
  BY <1>1, <1>2, SameTypes DEF Init, Book!Init, bookPhase, bookAccounts, PhaseOf

\* A step that neither begins nor ends an account leaves the accounts of the book.
LEMMA AccountsKept ==
    ASSUME TypeOK, NEW c \in Calls, NEW s, stage' = [stage EXCEPT ![c] = s],
           s \in Building <=> stage[c] \in Building,
           UNCHANGED <<newAccount, servants>>
    PROVE  bookAccounts' = bookAccounts
<1>1. In(Building)' = In(Building)
  BY DEF In, TypeOK
<1>2. QED
  BY <1>1 DEF bookAccounts, UnderWay

\* While a thread is busy with something else, nothing is under way.
LEMMA NothingUnderWay ==
    ASSUME Sound, NEW c \in Calls, stage[c] \in OnThread, stage[c] \notin Building
    PROVE  bookAccounts = servants
<1>1. In(Building) = {}
  BY Alone DEF OnThread
<1>2. UnderWay = {}
  BY <1>1 DEF UnderWay
<1>3. QED
  BY <1>2 DEF bookAccounts, Sound, IndSpec, IndInv, TypeOK

LEMMA SendIsSend ==
    ASSUME Sound, NEW c \in Calls, Send(c)
    PROVE  Book!Send(c)
<1>1. TypeOK
  BY DEF Sound, IndSpec, IndInv
<1>2. bookPhase[c] = "idle" /\ bookPhase' = [bookPhase EXCEPT ![c] = "sent"]
  BY <1>1, PhaseMoves DEF Send, bookPhase, PhaseOf, Building
<1>3. bookAccounts' = bookAccounts
  BY <1>1, AccountsKept DEF Send, Building
<1>4. \E r \in Requests : request' = [request EXCEPT ![c] = r]
  BY DEF Send, Requests
<1>5. QED
  BY <1>2, <1>3, <1>4, SameTypes
     DEF Send, Book!Send, bookPhase, bookAccounts, PhaseOf

\* Steps of the server that the book does not see.
LEMMA InnerStutters ==
    ASSUME Sound, NEW c \in Calls, Dispatch(c) \/ AddServant(c) \/ BeginPut(c)
    PROVE  UNCHANGED Book!vars
<1>1. TypeOK
  BY DEF Sound, IndSpec, IndInv
<1>2. bookPhase' = bookPhase
  <2>1. PICK s \in {"dispatched", "registered", "putting"} :
           stage' = [stage EXCEPT ![c] = s] /\ PhaseOf(stage[c]) = "sent" /\ PhaseOf(s) = "sent"
    BY DEF Dispatch, AddServant, BeginPut, PhaseOf, Building
  <2>2. bookPhase' = [bookPhase EXCEPT ![c] = "sent"] /\ bookPhase[c] = "sent"
    BY <1>1, <2>1, PhaseMoves DEF bookPhase
  <2>3. QED
    BY <2>2 DEF bookPhase
<1>3. CASE Dispatch(c) \/ BeginPut(c)
  <2>1. bookAccounts' = bookAccounts
    BY <1>1, <1>3, AccountsKept DEF Dispatch, BeginPut, Building
  <2>2. QED
    BY <1>2, <1>3, <2>1, BookStutter DEF Dispatch, BeginPut, clientVars
<1>4. CASE AddServant(c)
  <2> DEFINE id == IdentityOf(request[c])
  <2>1. stage[c] = "dispatched" /\ stage[c] \in OnThread /\ stage[c] \notin Building
    BY <1>4 DEF AddServant, OnThread, Building
  <2>2. /\ stage' = [stage EXCEPT ![c] = "registered"]
        /\ newAccount'[c].account = id
        /\ servants[id] = None
        /\ \A d \in Identities \ {id} : servants'[d] = servants[d]
        /\ UNCHANGED <<request, reply, createdAccounts>>
    BY <1>1, <1>4 DEF AddServant, AddFails, TypeOK, clientVars
  <2>3. In(Building)' = {c}
    <3>1. In(Building) = {}
      BY <2>1, Alone DEF OnThread
    <3>2. QED
      BY <1>1, <2>2, <3>1 DEF In, Building, TypeOK
  <2>4. UnderWay' = {id}
    BY <2>2, <2>3 DEF UnderWay
  <2>5. bookAccounts = servants /\ servants \in [Identities -> AccountServants \cup {None}]
    BY <1>1, <2>1, NothingUnderWay DEF TypeOK
  <2>6. bookAccounts' = bookAccounts
    BY <2>2, <2>4, <2>5 DEF bookAccounts
  <2>7. QED
    BY <1>2, <2>2, <2>6, BookStutter
<1>5. QED
  BY <1>3, <1>4

\* Replies of calls that do not change the book.
LEMMA ReturnServes ==
    ASSUME Sound, NEW c \in Calls, stage[c] = "dispatched",
           stage' = [stage EXCEPT ![c] = "returned"], UNCHANGED <<newAccount, servants>>
    PROVE  /\ bookPhase[c] = "sent" /\ bookPhase' = [bookPhase EXCEPT ![c] = "served"]
           /\ bookAccounts = servants /\ bookAccounts' = bookAccounts
<1>1. TypeOK
  BY DEF Sound, IndSpec, IndInv
<1>2. bookPhase[c] = "sent" /\ bookPhase' = [bookPhase EXCEPT ![c] = "served"]
  BY <1>1, PhaseMoves DEF bookPhase, PhaseOf, Building
<1>3. bookAccounts' = bookAccounts
  BY <1>1, AccountsKept DEF Building
<1>4. bookAccounts = servants
  BY NothingUnderWay DEF OnThread, Building
<1>5. QED
  BY <1>2, <1>3, <1>4

LEMMA AddThrowsRefuses ==
    ASSUME Sound, NEW c \in Calls, AddThrows(c)
    PROVE  Book!Refuse(c)
<1>1. /\ bookPhase[c] = "sent" /\ bookPhase' = [bookPhase EXCEPT ![c] = "served"]
      /\ bookAccounts = servants /\ bookAccounts' = bookAccounts
  BY ReturnServes DEF AddThrows, Return
<1>2. request[c] \in CreateRequests /\ IdentityOf(request[c]) \in Identities
  BY IdentityType DEF AddThrows
<1>3. QED
  BY <1>1, <1>2, SameTypes
     DEF AddThrows, Return, AddFails, Book!Refuse, Book!Serve, bookPhase, PhaseOf, bookAccounts,
         clientVars

LEMMA GetAccountLooksUp ==
    ASSUME Sound, NEW c \in Calls, GetAccount(c)
    PROVE  Book!Lookup(c)
<1>1. stage[c] = "dispatched" /\ stage[c] \in OnThread
  BY DEF GetAccount, OnThread
<1>2. In({"putting"}) = {}
  BY <1>1, Alone DEF OnThread, Building
<1>3. /\ stage' = [stage EXCEPT ![c] = "returned"]
      /\ reply' = [reply EXCEPT ![c] = Ok(Marshal(createdAccounts[request[c].PESEL]))]
      /\ request[c] \in LookupRequests
      /\ UNCHANGED <<request, newAccount, servants, createdAccounts>>
  BY <1>2 DEF GetAccount, MayGet, Return, clientVars
<1>4. /\ bookPhase[c] = "sent" /\ bookPhase' = [bookPhase EXCEPT ![c] = "served"]
      /\ bookAccounts' = bookAccounts
  BY <1>1, <1>3, ReturnServes
<1>5. QED
  BY <1>3, <1>4, SameTypes DEF Book!Lookup, Book!Serve, bookPhase, PhaseOf, bookAccounts

LEMMA InvokeQueries ==
    ASSUME Sound, NEW c \in Calls, InvokeAccount(c)
    PROVE  Book!Query(c)
<1> DEFINE servant == servants[request[c].account]
<1>1. /\ stage[c] = "dispatched" /\ stage' = [stage EXCEPT ![c] = "returned"]
      /\ reply' = [reply EXCEPT ![c] =
                      IF servant = None THEN Raised("ObjectNotExistException")
                      ELSE Ok(AccountResult(request[c].op, servant))]
      /\ request[c] \in AccountRequests /\ request[c].account \in Identities
      /\ UNCHANGED <<request, newAccount, servants, createdAccounts>>
  BY DEF InvokeAccount, Return, AccountRequests, clientVars
<1>2. /\ bookPhase[c] = "sent" /\ bookPhase' = [bookPhase EXCEPT ![c] = "served"]
      /\ bookAccounts = servants /\ bookAccounts' = bookAccounts
  BY <1>1, ReturnServes
<1>3. bookAccounts[request[c].account] = servant
  BY <1>2
<1> HIDE DEF servant
<1>4. QED
  BY <1>1, <1>2, <1>3, SameTypes
     DEF Book!Query, Book!Serve, bookPhase, PhaseOf, bookAccounts

\* The account is in the book when its entry has been put.
LEMMA EndPutOpens ==
    ASSUME Sound, NEW c \in Calls, EndPut(c)
    PROVE  Book!Open(c)
<1> DEFINE id == IdentityOf(request[c])
<1>1. TypeOK /\ IndInv /\ ClassInv /\ FlagInv
  BY DEF Sound, IndSpec, IndInv, PremiumInv
<1>2. stage[c] = "putting" /\ stage[c] \in Building /\ stage[c] \in OnThread
  BY DEF EndPut, Building, OnThread
<1>3. /\ request[c] \in CreateRequests
      /\ newAccount[c] \in CreatedAccounts /\ newAccount[c] # None
      /\ newAccount[c].account = id
      /\ Backed(newAccount[c]) /\ Agrees(newAccount[c])
  BY <1>1, <1>2 DEF IndInv, LocalInv, TypeOK, FlagInv
<1>4. /\ id \in Identities /\ id.name = request[c].PESEL /\ id.name \in Pesels
      /\ isPremium(request[c].income) <=> (id.category = "premium")
      /\ ClassOf(request[c]) = IF id.category = "premium" THEN "PremiumAccount" ELSE "Account"
      /\ isPremium(request[c].income) \in BOOLEAN
  <2>1. /\ id \in Identities /\ id.name = request[c].PESEL /\ id.name \in Pesels
        /\ isPremium(request[c].income) \in BOOLEAN
    BY <1>3, IdentityType
  <2>2. /\ id.category = IF isPremium(request[c].income) THEN "premium" ELSE "standard"
        /\ ClassOf(request[c]) =
              IF isPremium(request[c].income) THEN "PremiumAccount" ELSE "Account"
    BY DEF IdentityOf, Category, ClassOf
  <2>3. QED
    BY <2>1, <2>2
<1>5. servants[id] \in AccountServants /\ servants[id] # None /\ id.name # EmptyPesel
  BY <1>1, <1>3, <1>4 DEF Backed, TypeOK, Sound, SerialInd, SerialInv
<1> DEFINE key == servants[id].key
           balance == servants[id].balance
<1>6. /\ key \in Keys /\ balance \in Balances
      /\ servants[id] = [class |-> ClassOf(request[c]), key |-> key, balance |-> balance]
  <2>1. servants[id].class = ClassOf(request[c])
    BY <1>1, <1>4, <1>5 DEF ClassInv, AccountServants
  <2>2. QED
    BY <1>5, <2>1 DEF AccountServants
<1>7. newAccount[c] = [account |-> id, key |-> key, isPremium |-> isPremium(request[c].income)]
  <2>1. newAccount[c].isPremium = isPremium(request[c].income)
    BY <1>3, <1>4 DEF Agrees
  <2>2. newAccount[c].key = key
    BY <1>3 DEF Backed
  <2>3. QED
    BY <1>3, <2>1, <2>2 DEF CreatedAccounts
<1>8. UnderWay = {id} /\ UnderWay' = {}
  <2>1. In(Building) = {c}
    BY <1>2, Alone DEF OnThread
  <2>2. In(Building)' = {}
    BY <1>1, <2>1 DEF EndPut, Return, In, Building, TypeOK
  <2>3. QED
    BY <1>3, <2>1, <2>2 DEF UnderWay
<1>9. bookAccounts[id] = None /\ bookAccounts' = [bookAccounts EXCEPT ![id] = servants[id]]
  <2>1. servants' = servants /\ servants \in [Identities -> AccountServants \cup {None}]
    BY <1>1 DEF EndPut, TypeOK
  <2>2. QED
    BY <1>4, <1>8, <2>1 DEF bookAccounts
<1>10. createdAccounts' = [createdAccounts EXCEPT ![id.name] = newAccount[c]]
  <2>1. createdAccounts' = [createdAccounts EXCEPT ![request[c].PESEL] = newAccount[c]]
    BY DEF EndPut, AfterPut, Sound, SerialInd, SerialInv
  <2>2. QED
    BY <1>4, <2>1
<1>11. /\ bookPhase[c] = "sent" /\ bookPhase' = [bookPhase EXCEPT ![c] = "served"]
       /\ reply' = [reply EXCEPT ![c] = Ok(newAccount[c])] /\ UNCHANGED request
  BY <1>1, <1>2, PhaseMoves DEF EndPut, Return, bookPhase, PhaseOf, Building, clientVars
<1>12. /\ Book!IdentityOf(request[c]) = id /\ Book!ClassOf(request[c]) = ClassOf(request[c])
       /\ Book!isPremium(request[c].income) = isPremium(request[c].income)
       /\ Book!Ok(newAccount[c]) = Ok(newAccount[c])
       /\ request[c] \in Book!CreateRequests
  BY <1>3, SameTypes
<1>13. key \in Keys /\ balance \in Balances /\ id.name # EmptyPesel /\ bookAccounts[id] = None
  BY <1>5, <1>6, <1>9
<1>14. bookAccounts' = [bookAccounts EXCEPT ![id] =
             [class |-> ClassOf(request[c]), key |-> key, balance |-> balance]]
  BY <1>6, <1>9
<1> DEFINE bookId == Book!IdentityOf(request[c])
           bookEntry == [account |-> bookId, key |-> key,
                         isPremium |-> Book!isPremium(request[c].income)]
<1>15. bookId = id /\ bookEntry = newAccount[c]
  BY <1>7, <1>12
<1> HIDE DEF id, key, balance, bookId, bookEntry
<1>16. /\ bookId.name # EmptyPesel /\ bookAccounts[bookId] = None
       /\ bookAccounts' = [bookAccounts EXCEPT ![bookId] =
             [class |-> Book!ClassOf(request[c]), key |-> key, balance |-> balance]]
       /\ createdAccounts' = [createdAccounts EXCEPT ![bookId.name] = bookEntry]
       /\ reply' = [reply EXCEPT ![c] = Book!Ok(bookEntry)]
  BY <1>10, <1>11, <1>12, <1>13, <1>14, <1>15
<1>17. QED
  BY <1>11, <1>12, <1>13, <1>16
     DEF Book!Open, Book!Serve, bookId, bookEntry, bookPhase, PhaseOf, bookAccounts

LEMMA AnswerAnswers ==
    ASSUME Sound, NEW c \in Calls, Answer(c)
    PROVE  Book!Answer(c)
<1>1. TypeOK
  BY DEF Sound, IndSpec, IndInv
<1>2. bookPhase[c] = "served" /\ bookPhase' = [bookPhase EXCEPT ![c] = "answered"]
  BY <1>1, PhaseMoves DEF Answer, bookPhase, PhaseOf, Building
<1>3. bookAccounts' = bookAccounts
  BY <1>1, AccountsKept DEF Answer, Building
<1>4. QED
  BY <1>2, <1>3, SameTypes DEF Answer, Book!Answer, bookPhase, bookAccounts, PhaseOf, clientVars

LEMMA RestartRestarts ==
    ASSUME Sound, Restart
    PROVE  Book!Restart
<1>1. TypeOK
  BY DEF Sound, IndSpec, IndInv
<1> DEFINE Pending == {c \in Calls : bookPhase[c] \in {"sent", "served"}}
<1>2. \A c \in Calls : c \in Pending <=> stage[c] \in InFlight
  BY <1>1 DEF bookPhase, PhaseOf, InFlight, OnThread, Building, TypeOK, Stages
<1>3. Book!Pending = Pending
  BY DEF Book!Pending, bookPhase, PhaseOf
<1> HIDE DEF Pending
<1>4. bookPhase' = [c \in Calls |-> IF c \in Pending THEN "answered" ELSE bookPhase[c]]
  BY <1>2 DEF Restart, bookPhase, PhaseOf, Building
<1>5. reply' = [c \in Calls |-> IF c \in Pending THEN Raised("ConnectionLostException")
                                ELSE reply[c]]
  BY <1>2 DEF Restart
<1>6. bookAccounts' = [id \in Identities |-> None]
  BY DEF Restart, bookAccounts
<1>7. QED
  BY <1>3, <1>4, <1>5, <1>6, SameTypes
     DEF Restart, Book!Restart, bookPhase, bookAccounts, PhaseOf

LEMMA StepOfBook == Sound => [Book!Next]_Book!vars
<1> SUFFICES ASSUME Sound PROVE [Book!Next]_Book!vars
  OBVIOUS
<1>1. [Next]_vars
  BY DEF Sound, IndSpec
<1>2. ASSUME NEW c \in Calls, Send(c) \/ Handle(c) PROVE [Book!Next]_Book!vars
  BY <1>2, SendIsSend, InnerStutters, AddThrowsRefuses, GetAccountLooksUp, InvokeQueries,
     EndPutOpens, AnswerAnswers DEF Handle, Book!Next
<1>3. CASE Restart
  BY <1>3, RestartRestarts DEF Book!Next
<1>4. CASE UNCHANGED vars
  <2>1. UNCHANGED <<request, bookPhase, reply, bookAccounts, createdAccounts>>
    BY <1>4 DEF vars, bookPhase, bookAccounts, UnderWay, In
  <2>2. QED
    BY <2>1, BookStutter
<1>5. QED
  BY <1>1, <1>2, <1>3, <1>4 DEF Next, AllAnswered

\* With one dispatch at a time, which is Ice's default, the bank's server is the
\* atomic account book: createAccount, which takes three steps on two maps, takes
\* effect in one of them, and every other call in the step that runs it.
THEOREM ServerIsAtomic ==
    ASSUME SizeMax = 1
    PROVE  Spec => AtomicBook
<1>1. IndSpec /\ PremiumInv /\ SerialInd => SerialInd' /\ [Book!Next]_Book!vars
  BY SerialNext, StepOfBook DEF Sound
<1>2. QED
  BY SerialInit, PremiumInit, PremiumStep, Invariance, BookInit, <1>1, PTL
     DEF Spec, IndSpec, AtomicBook, Book!Spec
===============================================================================
