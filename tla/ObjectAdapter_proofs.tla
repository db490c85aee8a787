------------------------- MODULE ObjectAdapter_proofs -------------------------
(***************************************************************************)
(* Theorems about ObjectAdapter, for any number of threads, connections,   *)
(* calls and requests, and any operations called from within a dispatch.   *)
(***************************************************************************)
EXTENDS ObjectAdapter, FiniteSetTheorems, TLAPS

-----------------------------------------------------------------------------
(* The order of the states.                                                *)

StateNames == {States[n] : n \in DOMAIN States}

ConnectionStates == {"None", "NotValidated", "Holding", "Active", "Closing", "ClosingPending",
                     "Closed", "Finished"}

LEMMA RankOf ==
    /\ Rank("Uninitialized") = 1 /\ Rank("Held") = 2 /\ Rank("Activating") = 3
    /\ Rank("Active") = 4 /\ Rank("Deactivating") = 5 /\ Rank("Deactivated") = 6
    /\ Rank("Destroying") = 7 /\ Rank("Destroyed") = 8
<1>1. DOMAIN States = 1 .. 8
  BY DEF States
<1>2. \A n \in 1 .. 8 : Rank(States[n]) = n
  <2>1. \A n, m \in 1 .. 8 : States[n] = States[m] => n = m
    BY DEF States
  <2>2. QED
    BY <1>1, <2>1 DEF Rank
<1>3. QED
  BY <1>2 DEF States

LEMMA StateNamesAre ==
    StateNames = {"Uninitialized", "Held", "Activating", "Active", "Deactivating", "Deactivated",
                  "Destroying", "Destroyed"}
<1>1. DOMAIN States = 1 .. 8
  BY DEF States
<1>2. QED
  BY <1>1 DEF StateNames, States

\* The states from a given one on.
LEMMA FromIs ==
    ASSUME state \in StateNames
    PROVE  /\ From("Deactivating") <=>
                 state \in {"Deactivating", "Deactivated", "Destroying", "Destroyed"}
           /\ From("Deactivated") <=> state \in {"Deactivated", "Destroying", "Destroyed"}
           /\ From("Destroying") <=> state \in {"Destroying", "Destroyed"}
BY RankOf, StateNamesAre DEF From

-----------------------------------------------------------------------------
(* Type correctness.  A dispatch that calls an operation is counted until  *)
(* the operation returns, so that the count is never less than the calls   *)
(* that threads make from within.                                          *)

\* A thread is within a dispatch only while it executes an operation.
IdleInv == \A t \in Threads : op[t] = None => within[t] = None

TypeInv == TypeOK /\ IdleInv

Dispatching(c) == {t \in Threads : within[t] = c}

\* How a step of thread t moves the thread: on to a place, or out of the operation.
Moves(t) ==
    /\ at[t] # "none"
    /\ \/ Return(t) /\ \E states \in [Connections -> ConnectionStates] : Unwind(t, states)
       \/ /\ \E place \in Places \ {"none"} : at' = [at EXCEPT ![t] = place]
          /\ waitsFor' \in [Threads -> SUBSET Connections]
          /\ conn' \in [Connections -> ConnectionStates]
          /\ UNCHANGED <<op, within, dispatchCount>>

LEMMA FiniteDispatching ==
    ASSUME NEW c
    PROVE  IsFiniteSet(Dispatching(c)) /\ Cardinality(Dispatching(c)) \in Nat
<1>1. Dispatching(c) \subseteq Threads
  BY DEF Dispatching
<1>2. QED
  BY <1>1, ObjectAdapterAssumption, FS_Subset, FS_CardinalityType

\* The end of an operation ends the dispatch it was called from, and no other.
LEMMA Unwinding ==
    ASSUME TypeInv, NEW t \in Threads, Return(t),
           NEW states \in [Connections -> ConnectionStates], Unwind(t, states)
    PROVE  /\ dispatchCount' \in [Connections -> Nat]
           /\ conn' \in [Connections -> ConnectionStates]
           /\ \A c \in Connections : Plain(c)' = Plain(c)
           /\ \A c \in Connections : dispatchCount'[c] <= dispatchCount[c]
           /\ \A c \in Connections :
                 \/ conn'[c] = states[c]
                 \/ states[c] = "Closing" /\ conn'[c] = "ClosingPending"
<1>0. /\ dispatchCount \in [Connections -> Nat] /\ within \in [Threads -> Connections \cup {None}]
      /\ within' = [within EXCEPT ![t] = None] /\ None \notin Connections
  BY ObjectAdapterAssumption DEF TypeInv, TypeOK, Return
<1> DEFINE n(c) == Cardinality(Dispatching(c))
<1>1. \A c \in Connections : /\ Plain(c) = dispatchCount[c] - n(c)
                             /\ Plain(c)' = dispatchCount'[c] - n(c)'
                             /\ n(c) \in Nat /\ n(c) <= dispatchCount[c]
  <2>1. \A c \in Connections : /\ Plain(c) = dispatchCount[c] - n(c)
                               /\ Plain(c)' = dispatchCount'[c] - n(c)'
    BY DEF Plain, Dispatching
  <2>2. \A c \in Connections : n(c) \in Nat
    BY FiniteDispatching
  <2>3. \A c \in Connections : Plain(c) >= 0
    BY DEF TypeInv, TypeOK
  <2> HIDE DEF n
  <2>4. QED
    BY <1>0, <2>1, <2>2, <2>3
<1>2. CASE within[t] = None
  <2>1. within' = within
    BY <1>0, <1>2
  <2>2. UNCHANGED dispatchCount /\ conn' = states
    BY <1>2 DEF Unwind
  <2>3. \A c \in Connections : Plain(c)' = Plain(c)
    BY <2>1, <2>2 DEF Plain
  <2>4. QED
    BY <1>0, <2>2, <2>3
<1>3. CASE within[t] # None
  <2>1. PICK d \in Connections : within[t] = d
    BY <1>0, <1>3
  <2>2. /\ dispatchCount' = [dispatchCount EXCEPT ![d] = @ - 1]
        /\ conn' = AfterDispatch(states, d, dispatchCount[d] - 1)
    BY <1>3, <2>1 DEF Unwind
  <2>3. /\ Dispatching(d)' = Dispatching(d) \ {t} /\ t \in Dispatching(d)
        /\ \A c \in Connections \ {d} : Dispatching(c)' = Dispatching(c)
    BY <1>0, <2>1 DEF Dispatching
  <2>4. n(d)' = n(d) - 1 /\ (\A c \in Connections \ {d} : n(c)' = n(c))
    BY <2>3, FiniteDispatching, FS_RemoveElement
  <2>5. n(d) # 0
    BY <2>3, FiniteDispatching, FS_EmptySet
  <2> HIDE DEF n
  <2>6. dispatchCount[d] >= 1 /\ dispatchCount[d] - 1 \in Nat
    BY <1>0, <1>1, <2>1, <2>5
  <2>7. dispatchCount' \in [Connections -> Nat]
    BY <1>0, <2>2, <2>6
  <2>8. ASSUME NEW c \in Connections PROVE Plain(c)' = Plain(c)
    <3>1. CASE c # d
      BY <1>0, <1>1, <2>2, <2>4, <3>1
    <3>2. CASE c = d
      <4>1. dispatchCount'[d] = dispatchCount[d] - 1
        BY <1>0, <2>2
      <4>2. dispatchCount[d] \in Nat /\ n(d) \in Nat
        BY <1>0, <1>1
      <4>3. QED
        BY <1>1, <2>4, <3>2, <4>1, <4>2
    <3>3. QED
      BY <3>1, <3>2
  <2>9. /\ conn' \in [Connections -> ConnectionStates]
        /\ \A c \in Connections :
                 \/ conn'[c] = states[c]
                 \/ states[c] = "Closing" /\ conn'[c] = "ClosingPending"
    BY <2>2 DEF AfterDispatch, ConnectionStates
  <2>10. \A c \in Connections : dispatchCount'[c] <= dispatchCount[c]
    BY <1>0, <2>2
  <2>11. QED
    BY <2>7, <2>8, <2>9, <2>10
<1>4. QED
  BY <1>2, <1>3

\* What an operation makes of the connections before it returns.
LEMMA ConnectionSets ==
    ASSUME TypeOK
    PROVE  /\ conn \in [Connections -> ConnectionStates]
           /\ Activated \in [Connections -> ConnectionStates]
           /\ Held \in [Connections -> ConnectionStates]
           /\ [c \in Connections |-> Closed(c)] \in [Connections -> ConnectionStates]
BY DEF TypeOK, ConnectionStates, Activated, Held, Closed

\* Every step within an operation is a move.
LEMMA StepMoves ==
    ASSUME TypeInv, NEW t \in Threads, Step(t)
    PROVE  Moves(t)
<1> USE DEF Moves, Runs
<1>1. /\ TypeOK /\ at \in [Threads -> Places]
      /\ waitsFor \in [Threads -> SUBSET Connections]
  BY DEF TypeInv, TypeOK
<1>2. at[t] # "none" => [at EXCEPT ![t] = at[t]] = at /\ at[t] \in Places \ {"none"}
  BY <1>1
<1>3. Places \ {"none"} = {"begin", "registering", "activating", "refreshing", "unregistering",
           "closingFactory", "deactivating", "waiting", "waitingFactory",
           "waitingConnections", "destroying", "cleaning"}
  BY DEF Places
<1>4. CASE Activate(t) \/ Register(t) \/ EndActivate(t)
  BY <1>1, <1>3, <1>4, ConnectionSets DEF Activate, Register, EndActivate, Goto
<1>5. CASE Hold(t) \/ WaitForHold(t) \/ Refresh(t) \/ EndRefresh(t)
  BY <1>1, <1>3, <1>5, ConnectionSets DEF Hold, WaitForHold, Refresh, EndRefresh, Goto
<1>6. CASE Deactivate(t) \/ EndDeactivate(t)
  BY <1>1, <1>2, <1>3, <1>6, ConnectionSets DEF Deactivate, EndDeactivate, NextPart, Goto, threadVars
<1>7. CASE Unregister(t) \/ CloseFactory(t)
  BY <1>1, <1>3, <1>7, ConnectionSets DEF Unregister, CloseFactory, Goto, connVars, countVars
<1>8. CASE WaitForDeactivate(t)
  <2>1. state \in StateNames /\ directCount \in Nat
    BY <1>1 DEF TypeOK, StateNames
  <2>2. \/ ~From("Deactivated") \/ directCount > 0
        \/ state = "Deactivated" /\ directCount = 0
        \/ From("Destroying") /\ directCount = 0
    BY <2>1, FromIs
  <2>3. \/ UNCHANGED <<threadVars, conn, dispatchCount>>
        \/ Goto(t, "waitingFactory") /\ UNCHANGED <<conn, dispatchCount>>
        \/ NextPart(t, "destroying")
    BY <1>8, <2>2 DEF WaitForDeactivate
  <2>4. at[t] # "none"
    BY <1>8 DEF WaitForDeactivate
  <2>5. QED
    BY <1>1, <1>2, <1>3, <2>3, <2>4, ConnectionSets DEF NextPart, Goto, threadVars
<1>9. CASE WaitFactory(t)
  BY <1>1, <1>3, <1>9, ConnectionSets DEF WaitFactory, connVars, countVars
<1>10. CASE WaitConnection(t)
  BY <1>1, <1>2, <1>3, <1>10, ConnectionSets DEF WaitConnection, NextPart, Goto
<1>11. CASE Destroy(t) \/ Clean(t)
  BY <1>1, <1>2, <1>3, <1>11, ConnectionSets DEF Destroy, Clean, Goto, threadVars
<1>12. QED
  BY <1>4, <1>5, <1>6, <1>7, <1>8, <1>9, <1>10, <1>11 DEF Step

\* The threads and the counts of dispatches are well typed.
ThreadsOK ==
    /\ conn \in [Connections -> ConnectionStates]
    /\ dispatchCount \in [Connections -> Nat]
    /\ op \in [Threads -> Ops \cup {None}]
    /\ at \in [Threads -> Places]
    /\ within \in [Threads -> Connections \cup {None}]
    /\ waitsFor \in [Threads -> SUBSET Connections]
    /\ \A t \in Threads : (op[t] = None) <=> (at[t] = "none")
    /\ \A c \in Connections : Plain(c) >= 0
    /\ IdleInv

\* The rest of the state is.
RestOK ==
    /\ state \in StateNames
    /\ factory \in {"Holding", "Active", "Closed", "Finished"}
    /\ starting \subseteq Connections /\ picked \subseteq Connections
    /\ directCount \in Nat
    /\ registry \in BOOLEAN /\ unreachable \in BOOLEAN
    /\ sleeping \subseteq Threads /\ undisturbed \subseteq Threads
    /\ calls \in 0 .. MaxCalls /\ requests \in 0 .. MaxRequests

LEMMA TypeParts == TypeInv <=> ThreadsOK /\ RestOK
BY DEF TypeInv, TypeOK, ThreadsOK, RestOK, ConnectionStates, StateNames

LEMMA TypePartsNext == ThreadsOK' /\ RestOK' => TypeInv'
BY DEF TypeInv, TypeOK, ThreadsOK, RestOK, ConnectionStates, StateNames

LEMMA MovesType ==
    ASSUME TypeInv, NEW t \in Threads, Moves(t)
    PROVE  ThreadsOK'
<1>1. ThreadsOK
  BY TypeParts
<1>2. CASE Return(t) /\ \E states \in [Connections -> ConnectionStates] : Unwind(t, states)
  <2>1. PICK states \in [Connections -> ConnectionStates] : Unwind(t, states)
    BY <1>2
  <2>2. /\ dispatchCount' \in [Connections -> Nat]
        /\ conn' \in [Connections -> ConnectionStates]
        /\ \A c \in Connections : Plain(c)' >= 0
    BY <1>1, <1>2, <2>1, Unwinding DEF ThreadsOK
  <2>3. QED
    BY <1>1, <1>2, <2>2, ObjectAdapterAssumption DEF ThreadsOK, IdleInv, Return, Places
<1>3. CASE /\ \E place \in Places \ {"none"} : at' = [at EXCEPT ![t] = place]
           /\ waitsFor' \in [Threads -> SUBSET Connections]
           /\ conn' \in [Connections -> ConnectionStates]
           /\ UNCHANGED <<op, within, dispatchCount>>
  <2>1. \A c \in Connections : Plain(c)' = Plain(c)
    BY <1>3 DEF Plain
  <2>2. at[t] # "none"
    BY DEF Moves
  <2>3. QED
    BY <1>1, <1>3, <2>1, <2>2 DEF ThreadsOK, IdleInv
<1>4. QED
  BY <1>2, <1>3 DEF Moves

\* A step that moves no thread in the adapter, and counts c's dispatches up or down.
LEMMA CountType ==
    ASSUME TypeInv, UNCHANGED threadVars,
           conn' \in [Connections -> ConnectionStates],
           \/ UNCHANGED dispatchCount
           \/ \E c \in Connections : \/ dispatchCount' = [dispatchCount EXCEPT ![c] = @ + 1]
                                     \/ /\ Plain(c) > 0
                                        /\ dispatchCount' = [dispatchCount EXCEPT ![c] = @ - 1]
    PROVE  ThreadsOK'
<1>1. ThreadsOK
  BY TypeParts
<1>2. \A c \in Connections : /\ Plain(c) = dispatchCount[c] - Cardinality(Dispatching(c))
                             /\ Plain(c)' = dispatchCount'[c] - Cardinality(Dispatching(c))
                             /\ Cardinality(Dispatching(c)) \in Nat
  BY FiniteDispatching DEF Plain, Dispatching, threadVars
<1>3. dispatchCount' \in [Connections -> Nat] /\ (\A c \in Connections : Plain(c)' >= 0)
  <2>1. CASE UNCHANGED dispatchCount
    BY <1>1, <1>2, <2>1 DEF ThreadsOK
  <2>2. ASSUME NEW c \in Connections, dispatchCount' = [dispatchCount EXCEPT ![c] = @ + 1]
        PROVE  <1>3!:
    BY <1>1, <1>2, <2>2 DEF ThreadsOK
  <2>3. ASSUME NEW c \in Connections, Plain(c) > 0,
               dispatchCount' = [dispatchCount EXCEPT ![c] = @ - 1]
        PROVE  <1>3!:
    BY <1>1, <1>2, <2>3 DEF ThreadsOK
  <2>4. QED
    BY <2>1, <2>2, <2>3
<1>4. QED
  BY <1>1, <1>3 DEF ThreadsOK, IdleInv, threadVars

LEMMA NestedCallType ==
    ASSUME TypeInv, NEW t \in Threads, NEW c \in Connections, NEW o \in Ops, NestedCall(t, c, o)
    PROVE  ThreadsOK'
<1>1. ThreadsOK
  BY TypeParts
<1>2. /\ op[t] = None /\ within[t] = None /\ None \notin Connections /\ None \notin Ops
      /\ op' = [op EXCEPT ![t] = o] /\ at' = [at EXCEPT ![t] = "begin"]
      /\ within' = [within EXCEPT ![t] = c]
      /\ dispatchCount' = [dispatchCount EXCEPT ![c] = @ + 1]
      /\ UNCHANGED <<conn, waitsFor>>
  BY <1>1, ObjectAdapterAssumption DEF NestedCall, connVars, ThreadsOK, IdleInv
<1>3. /\ Dispatching(c)' = Dispatching(c) \cup {t} /\ t \notin Dispatching(c)
      /\ \A d \in Connections \ {c} : Dispatching(d)' = Dispatching(d)
  BY <1>1, <1>2 DEF ThreadsOK, Dispatching
<1> DEFINE n(d) == Cardinality(Dispatching(d))
<1>4. \A d \in Connections : /\ Plain(d) = dispatchCount[d] - n(d)
                             /\ Plain(d)' = dispatchCount'[d] - n(d)'
                             /\ n(d) \in Nat
  BY FiniteDispatching DEF Plain, Dispatching
<1>5. n(c)' = n(c) + 1 /\ (\A d \in Connections \ {c} : n(d)' = n(d))
  BY <1>3, FiniteDispatching, FS_AddElement
<1> HIDE DEF n
<1>6. \A d \in Connections : Plain(d)' >= 0
  <2>1. ASSUME NEW d \in Connections, d # c PROVE Plain(d)' >= 0
    BY <1>1, <1>2, <1>4, <1>5, <2>1 DEF ThreadsOK
  <2>2. Plain(c)' >= 0
    <3>1. dispatchCount'[c] = dispatchCount[c] + 1 /\ dispatchCount[c] \in Nat /\ Plain(c) >= 0
      BY <1>1, <1>2 DEF ThreadsOK
    <3>2. QED
      BY <1>4, <1>5, <3>1
  <2>3. QED
    BY <2>1, <2>2
<1>7. dispatchCount' \in [Connections -> Nat]
  BY <1>1, <1>2 DEF ThreadsOK
<1>8. QED
  BY <1>1, <1>2, <1>6, <1>7 DEF ThreadsOK, IdleInv, Places

\* What a step within an operation makes of the rest.
LEMMA StepRest ==
    ASSUME TypeInv, NEW t \in Threads, Step(t)
    PROVE  RestOK'
<1>1. RestOK
  BY TypeParts
<1> USE <1>1, StateNamesAre DEF RestOK, Wait, NotifyAll
<1>2. CASE Activate(t) \/ Register(t) \/ EndActivate(t)
  BY <1>2 DEF Activate, Register, EndActivate, ActivateFactory
<1>3. CASE Hold(t) \/ WaitForHold(t) \/ Refresh(t) \/ EndRefresh(t)
  BY <1>3 DEF Hold, WaitForHold, Refresh, EndRefresh, HoldFactory, adapterVars
<1>4. CASE Deactivate(t) \/ EndDeactivate(t)
  BY <1>4 DEF Deactivate, EndDeactivate
<1>5. CASE Unregister(t) \/ CloseFactory(t)
  BY <1>5 DEF Unregister, CloseFactory, connVars, countVars, adapterVars
<1>6. CASE WaitForDeactivate(t)
  <2>1. \/ ~From("Deactivated") \/ directCount > 0
        \/ state = "Deactivated" /\ directCount = 0
        \/ From("Destroying") /\ directCount = 0
    BY FromIs
  <2>2. sleeping' = sleeping \/ sleeping' = sleeping \cup {t}
    BY <1>6, <2>1 DEF WaitForDeactivate
  <2>3. QED
    BY <1>6, <2>2 DEF WaitForDeactivate, adapterVars
<1>7. CASE WaitFactory(t) \/ WaitConnection(t)
  BY <1>7 DEF WaitFactory, WaitConnection, connVars, countVars, adapterVars
<1>8. CASE Destroy(t) \/ Clean(t)
  BY <1>8 DEF Destroy, Clean
<1>9. QED
  BY <1>2, <1>3, <1>4, <1>5, <1>6, <1>7, <1>8 DEF Step

LEMMA TypeInit == Init => TypeInv
<1> SUFFICES ASSUME Init PROVE TypeInv
  OBVIOUS
<1>1. RestOK
  <2>1. registry \in BOOLEAN /\ unreachable \in BOOLEAN
    BY Zenon DEF Init
  <2>2. MaxCalls \in Nat /\ MaxRequests \in Nat
    BY ObjectAdapterAssumption
  <2>3. calls \in 0 .. MaxCalls /\ requests \in 0 .. MaxRequests
    BY <2>2 DEF Init
  <2>4. state \in StateNames
    BY StateNamesAre DEF Init
  <2>5. QED
    BY <2>1, <2>3, <2>4 DEF Init, RestOK
<1>2. ASSUME NEW c \in Connections PROVE Plain(c) = 0
  <2>1. {t \in Threads : within[t] = c} = {}
    BY ObjectAdapterAssumption DEF Init
  <2>2. dispatchCount[c] = 0
    BY DEF Init
  <2>3. QED
    BY <2>1, <2>2, FS_EmptySet DEF Plain
<1>3. ThreadsOK
  BY <1>2 DEF Init, ThreadsOK, IdleInv, ConnectionStates, Places
<1>4. QED
  BY <1>1, <1>3, TypeParts

LEMMA TypeNext == TypeInv /\ [Next]_vars => TypeInv'
<1> SUFFICES ASSUME TypeInv, [Next]_vars PROVE TypeInv'
  OBVIOUS
<1>0. ThreadsOK /\ RestOK
  BY TypeParts
<1>1. ASSUME NEW t \in Threads, Step(t) PROVE TypeInv'
  BY <1>1, StepMoves, MovesType, StepRest, TypePartsNext
<1>2. ASSUME NEW t \in Threads, NEW o \in Ops, Call(t, o) PROVE TypeInv'
  <2>1. \A c \in Connections : Plain(c)' = Plain(c)
    BY <1>2 DEF Call, countVars, Plain
  <2>2. ThreadsOK'
    BY <1>0, <1>2, <2>1, ObjectAdapterAssumption
       DEF Call, ThreadsOK, IdleInv, Places, connVars, countVars
  <2>3. RestOK'
    BY <1>0, <1>2, ObjectAdapterAssumption
       DEF Call, RestOK, adapterVars, connVars, countVars
  <2>4. QED
    BY <2>2, <2>3, TypePartsNext
<1>3. ASSUME NEW t \in Threads, NEW c \in Connections, NEW o \in NestedOps, NestedCall(t, c, o)
      PROVE  TypeInv'
  <2>1. ThreadsOK'
    BY <1>3, NestedCallType, ObjectAdapterAssumption
  <2>2. RestOK'
    BY <1>0, <1>3, ObjectAdapterAssumption DEF NestedCall, RestOK, adapterVars, connVars
  <2>3. QED
    BY <2>1, <2>2, TypePartsNext
<1>4. ASSUME NEW c \in Connections,
             \/ Accept(c) \/ Closing(c) \/ Lose(c)
             \/ Pick(c) \/ Dispatch(c) \/ NoRequest(c) \/ EndDispatch(c)
      PROVE  TypeInv'
  <2> USE DEF connVars, countVars
  <2>1. /\ UNCHANGED threadVars
        /\ conn' \in [Connections -> ConnectionStates]
        /\ \/ UNCHANGED dispatchCount
           \/ dispatchCount' = [dispatchCount EXCEPT ![c] = @ + 1]
           \/ Plain(c) > 0 /\ dispatchCount' = [dispatchCount EXCEPT ![c] = @ - 1]
    BY <1>0, <1>4 DEF Accept, Closing, Lose, FinishConnection, Validate, StartCompleted,
                      Pick, Dispatch, NoRequest, EndDispatch, AfterDispatch, ThreadsOK, ConnectionStates
  <2>2. RestOK'
    BY <1>0, <1>4, ObjectAdapterAssumption
       DEF Accept, Closing, Lose, FinishConnection, Validate, StartCompleted,
           Pick, Dispatch, NoRequest, EndDispatch, RestOK, adapterVars
  <2>3. QED
    BY <2>1, <2>2, CountType, TypePartsNext
<1>5. CASE FinishFactory \/ DirectCall \/ EndDirectCall
  <2> USE DEF connVars, countVars
  <2>1. UNCHANGED <<threadVars, conn, dispatchCount>>
    BY <1>5 DEF FinishFactory, DirectCall, EndDirectCall
  <2>2. RestOK'
    BY <1>0, <1>5, ObjectAdapterAssumption
       DEF FinishFactory, DirectCall, EndDirectCall, RestOK, NotifyAll, adapterVars
  <2>3. QED
    BY <1>0, <2>1, <2>2, CountType, TypePartsNext DEF ThreadsOK
<1>6. CASE UNCHANGED vars
  <2>1. UNCHANGED <<threadVars, conn, dispatchCount>> /\ RestOK'
    BY <1>0, <1>6 DEF vars, connVars, countVars, adapterVars, RestOK
  <2>2. QED
    BY <1>0, <2>1, CountType, TypePartsNext DEF ThreadsOK
<1>7. QED
  BY <1>1, <1>2, <1>3, <1>4, <1>5, <1>6 DEF Next

\* Every reachable state is well typed; in particular the dispatches that are counted
\* for a connection are never fewer than the operations that its servants call.
THEOREM TypeCorrect == Spec => []TypeOK
<1>1. TypeInv => TypeOK
  BY DEF TypeInv
<1>2. QED
  BY TypeInit, TypeNext, <1>1, PTL DEF Spec

-----------------------------------------------------------------------------
(* Connections that have come to rest.  One that is not active and has at  *)
(* most one request left has no more of them until the factory is          *)
(* activated; one that is gone stays gone once the factory has finished.   *)

\* At most one request of c is dispatched, or will be before c is activated.
Still(c) == conn[c] # "Active" /\ Remaining(c) <= 1

Gone(c) == dispatchCount[c] = 0 /\ conn[c] \in {"None", "Finished"}

\* Nothing is dispatched for a connection that there has never been.
NoneInv == \A c \in Connections : conn[c] = "None" => dispatchCount[c] = 0

LEMMA StepEffect ==
    ASSUME TypeInv, NEW t \in Threads, Step(t)
    PROVE  /\ \A u \in Threads \ {t} : /\ at'[u] = at[u] /\ op'[u] = op[u]
                                       /\ waitsFor'[u] = waitsFor[u]
           /\ \A c \in Connections : /\ dispatchCount'[c] <= dispatchCount[c]
                                     /\ conn'[c] = "None" <=> conn[c] = "None"
                                     /\ conn[c] = "Finished" => conn'[c] = "Finished"
           /\ factory = "Finished" => factory' = "Finished"
           /\ undisturbed' # {} => /\ factory' = "Active" => factory = "Active"
                                   /\ \A c \in Connections : conn'[c] = "Active" => conn[c] = "Active"
           /\ UNCHANGED picked
<1>1. ThreadsOK
  BY TypeParts
<1> DEFINE Keeps(states) ==
        /\ states \in [Connections -> ConnectionStates]
        /\ \A c \in Connections : /\ states[c] = "None" <=> conn[c] = "None"
                                  /\ conn[c] = "Finished" => states[c] = "Finished"
                                  /\ undisturbed' # {} /\ states[c] = "Active" => conn[c] = "Active"
           Others == \A u \in Threads \ {t} : /\ at'[u] = at[u] /\ op'[u] = op[u]
                                              /\ waitsFor'[u] = waitsFor[u]
           Factory == /\ factory = "Finished" => factory' = "Finished"
                      /\ undisturbed' # {} => (factory' = "Active" => factory = "Active")
           Counts == /\ \A c \in Connections : dispatchCount'[c] <= dispatchCount[c]
                     /\ Keeps(conn')
           Leaves == Return(t) /\ \E states \in {conn, Activated, Held} :
                                     Keeps(states) /\ Unwind(t, states)
           Goes == /\ Others
                   /\ Keeps(conn') /\ UNCHANGED dispatchCount
<1>2. Keeps(conn) /\ Keeps(Held) /\ Keeps([c \in Connections |-> Closed(c)])
  BY <1>1 DEF ThreadsOK, Held, Closed, ConnectionStates
<1>3. undisturbed' = {} => Keeps(Activated)
  BY <1>1 DEF ThreadsOK, Activated, ConnectionStates
<1>4. ASSUME Leaves PROVE Others /\ Counts
  <2>1. PICK states \in {conn, Activated, Held} : Keeps(states) /\ Unwind(t, states)
    BY <1>4
  <2>2. Others
    BY <1>1, <1>4 DEF Return, ThreadsOK
  <2>3. /\ dispatchCount' \in [Connections -> Nat]
        /\ conn' \in [Connections -> ConnectionStates]
        /\ \A c \in Connections : dispatchCount'[c] <= dispatchCount[c]
        /\ \A c \in Connections :
                 \/ conn'[c] = states[c]
                 \/ states[c] = "Closing" /\ conn'[c] = "ClosingPending"
    BY <1>4, <2>1, Unwinding
  <2>4. Keeps(conn')
    BY <2>1, <2>3
  <2>5. QED
    BY <2>2, <2>3, <2>4
<1>5. ASSUME Goes PROVE Others /\ Counts
  BY <1>1, <1>5 DEF ThreadsOK
<1>6. ASSUME NEW place, Goto(t, place) PROVE Others
  BY <1>1, <1>6 DEF Goto, ThreadsOK
<1>7. ASSUME UNCHANGED threadVars PROVE Others
  BY <1>7 DEF threadVars
<1> HIDE DEF Keeps, Others
<1>8. Factory /\ (Leaves \/ Goes)
  <2>1. CASE Activate(t) \/ Register(t) \/ EndActivate(t)
    BY <1>2, <1>3, <1>6, <2>1 DEF Activate, Register, EndActivate, ActivateFactory
  <2>2. CASE Hold(t) \/ WaitForHold(t) \/ Refresh(t) \/ EndRefresh(t)
    BY <1>2, <1>6, <2>2 DEF Hold, WaitForHold, Refresh, EndRefresh, HoldFactory
  <2>3. CASE Deactivate(t) \/ EndDeactivate(t)
    BY <1>2, <1>6, <1>7, <2>3 DEF Deactivate, EndDeactivate, NextPart
  <2>4. CASE Unregister(t) \/ CloseFactory(t)
    BY <1>2, <1>6, <2>4 DEF Unregister, CloseFactory, connVars, countVars
  <2>5. CASE WaitForDeactivate(t)
    <3>1. \/ ~From("Deactivated") \/ directCount > 0
          \/ state = "Deactivated" /\ directCount = 0
          \/ From("Destroying") /\ directCount = 0
      BY TypeParts, FromIs DEF RestOK
    <3>2. \/ UNCHANGED <<threadVars, conn, dispatchCount>>
          \/ Goto(t, "waitingFactory") /\ UNCHANGED <<conn, dispatchCount>>
          \/ NextPart(t, "destroying")
      BY <2>5, <3>1 DEF WaitForDeactivate
    <3>3. UNCHANGED factory
      BY <2>5 DEF WaitForDeactivate
    <3>4. QED
      BY <1>2, <1>6, <1>7, <3>2, <3>3 DEF NextPart
  <2>6. CASE WaitFactory(t)
    <3>1. Others
      BY <1>1, <2>6 DEF WaitFactory, ThreadsOK, Others
    <3>2. QED
      BY <1>2, <2>6, <3>1 DEF WaitFactory, connVars, countVars
  <2>7. CASE WaitConnection(t)
    <3>1. Others \/ NextPart(t, "destroying")
      BY <1>1, <2>7 DEF WaitConnection, ThreadsOK, Others
    <3>2. QED
      BY <1>2, <1>6, <2>7, <3>1 DEF WaitConnection, NextPart
  <2>8. CASE Destroy(t) \/ Clean(t)
    BY <1>2, <1>6, <1>7, <2>8 DEF Destroy, Clean
  <2>9. QED
    BY <2>1, <2>2, <2>3, <2>4, <2>5, <2>6, <2>7, <2>8 DEF Step
<1>9. Others /\ Counts /\ Factory
  BY <1>4, <1>5, <1>8
<1>10. UNCHANGED picked
  BY DEF Step, Activate, Register, EndActivate, Hold, WaitForHold, Refresh, EndRefresh,
         Deactivate, Unregister, CloseFactory, EndDeactivate, WaitForDeactivate, WaitFactory,
         WaitConnection, Destroy, Clean, connVars
<1>11. QED
  BY <1>9, <1>10 DEF Keeps, Others

\* What each step leaves of connections that are at rest.
LEMMA AtRest ==
    ASSUME TypeInv, NoneInv, [Next]_vars
    PROVE  /\ NoneInv'
           /\ factory = "Finished" =>
                 factory' = "Finished" /\ \A c \in Connections : Gone(c) => Gone(c)'
           /\ factory # "Active" /\ undisturbed' # {} =>
                 factory' # "Active" /\ \A c \in Connections : Still(c) => Still(c)'
<1>0. ThreadsOK /\ ThreadsOK'
  <2>1. TypeInv'
    BY TypeNext
  <2>2. QED
    BY <2>1, TypeParts DEF TypeInv, TypeOK, ThreadsOK, ConnectionStates
<1> USE DEF NoneInv, Still, Gone, Remaining
<1> DEFINE Rests ==
        /\ NoneInv'
        /\ factory = "Finished" =>
              factory' = "Finished" /\ \A c \in Connections : Gone(c) => Gone(c)'
        /\ factory # "Active" /\ undisturbed' # {} =>
              factory' # "Active" /\ \A c \in Connections : Still(c) => Still(c)'
<1>1. ASSUME NEW t \in Threads, Step(t) PROVE Rests
  <2>1. \A c \in Connections : dispatchCount[c] \in Nat /\ dispatchCount'[c] \in Nat
    BY <1>0 DEF ThreadsOK
  <2>2. QED
    BY <1>1, <2>1, StepEffect
<1>2. ASSUME NEW t \in Threads, NEW o \in Ops, Call(t, o) PROVE Rests
  BY <1>2 DEF Call, connVars, countVars
<1>3. ASSUME NEW t \in Threads, NEW c \in Connections, NEW o \in NestedOps, NestedCall(t, c, o)
      PROVE  Rests
  BY <1>0, <1>3 DEF NestedCall, MayDispatch, ThreadsOK
<1>4. ASSUME NEW c \in Connections, Accept(c) \/ Lose(c) \/ FinishConnection(c)
                                     \/ Validate(c) \/ StartCompleted(c)
      PROVE  Rests
  BY <1>0, <1>4 DEF Accept, Lose, FinishConnection, Validate, StartCompleted, countVars, ThreadsOK
<1>5. ASSUME NEW c \in Connections, Pick(c) \/ Dispatch(c) \/ NoRequest(c) PROVE Rests
  BY <1>0, <1>5 DEF Pick, Dispatch, NoRequest, MayDispatch, countVars, ThreadsOK
<1>6. ASSUME NEW c \in Connections, EndDispatch(c) PROVE Rests
  <2>1. dispatchCount[c] > 0
    <3>1. Cardinality(Dispatching(c)) \in Nat /\ dispatchCount[c] \in Nat
      BY <1>0, FiniteDispatching DEF ThreadsOK
    <3>2. dispatchCount[c] - Cardinality(Dispatching(c)) > 0
      BY <1>6 DEF EndDispatch, Plain, Dispatching
    <3>3. QED
      BY <3>1, <3>2
  <2>2. QED
    BY <1>0, <1>6, <2>1 DEF EndDispatch, AfterDispatch, ThreadsOK
<1>7. CASE FinishFactory \/ DirectCall \/ EndDirectCall
  BY <1>7 DEF FinishFactory, DirectCall, EndDirectCall, connVars, countVars
<1>8. CASE UNCHANGED vars
  BY <1>8 DEF vars, connVars, countVars
<1>9. QED
  BY <1>1, <1>2, <1>3, <1>4, <1>5, <1>6, <1>7, <1>8 DEF Next, Closing

-----------------------------------------------------------------------------
(* waitForHold.                                                            *)

\* Every connection is still, and stays so until it is activated.
AllStill == factory # "Active" /\ \A c \in Connections : Still(c)

\* What waitForHold has seen come to rest is still at rest, if the thread has not been
\* struck from undisturbed by an activation.
SeenStill(t) ==
    \/ op[t] = "waitForHold" /\ at[t] = "waitingFactory"
    \/ /\ op[t] = "waitForHold" /\ at[t] = "waitingConnections"
       /\ factory # "Active" /\ \A c \in Connections \ waitsFor[t] : Still(c)
    \/ AllStill

HoldInv == \A t \in undisturbed : SeenStill(t)

LEMMA HoldInit == Init => NoneInv /\ HoldInv
BY DEF Init, NoneInv, HoldInv

LEMMA HoldNext == TypeInv /\ NoneInv /\ HoldInv /\ [Next]_vars => NoneInv' /\ HoldInv'
<1> SUFFICES ASSUME TypeInv, NoneInv, HoldInv, [Next]_vars PROVE NoneInv' /\ HoldInv'
  OBVIOUS
<1>0. ThreadsOK /\ undisturbed \subseteq Threads
  BY TypeParts DEF RestOK
<1>1. /\ NoneInv'
      /\ factory # "Active" /\ undisturbed' # {} =>
            factory' # "Active" /\ \A c \in Connections : Still(c) => Still(c)'
  BY AtRest
\* A thread that keeps its place keeps what it has seen.
<1>2. ASSUME NEW u \in undisturbed, undisturbed' # {}, op'[u] = op[u], at'[u] = at[u],
             waitsFor'[u] = waitsFor[u]
      PROVE  SeenStill(u)'
  BY <1>1, <1>2 DEF HoldInv, SeenStill, AllStill
<1>3. AllStill /\ undisturbed' # {} => AllStill'
  BY <1>1 DEF AllStill
<1>4. ASSUME NEW t \in Threads, Step(t) PROVE HoldInv'
  <2>1. \A u \in Threads \ {t} : at'[u] = at[u] /\ op'[u] = op[u] /\ waitsFor'[u] = waitsFor[u]
    BY <1>4, StepEffect
  <2> DEFINE Mine == t \in undisturbed' => SeenStill(t)'
  <2>2. undisturbed' \subseteq undisturbed \cup {t}
    BY <1>4 DEF Step, Activate, Register, EndActivate, Hold, WaitForHold, Refresh, EndRefresh,
                Deactivate, Unregister, CloseFactory, EndDeactivate, WaitForDeactivate, WaitFactory,
                WaitConnection, Destroy, Clean
  <2>3. CASE op[t] = "waitForHold" /\ WaitForHold(t)
    <3>1. Mine
      BY <1>0, <1>3, <2>3 DEF WaitForHold, HoldInv, SeenStill, Goto, Runs, ThreadsOK
    <3>2. QED
      BY <1>0, <1>2, <2>1, <2>2, <3>1 DEF HoldInv
  <2>4. CASE op[t] = "waitForHold" /\ WaitFactory(t)
    <3>1. /\ factory # "Active" /\ UNCHANGED factory
          /\ op'[t] = "waitForHold" /\ at'[t] = "waitingConnections"
          /\ waitsFor'[t] = {c \in Connections : conn[c] # "None"}
      BY <1>0, <2>4 DEF WaitFactory, connVars, ThreadsOK
    <3>2. \A c \in Connections \ waitsFor'[t] : Still(c)
      BY <1>0, <3>1 DEF NoneInv, Still, Remaining
    <3>3. Mine
      BY <1>1, <3>1, <3>2 DEF SeenStill
    <3>4. QED
      BY <1>0, <1>2, <2>1, <2>2, <3>3 DEF HoldInv
  <2>5. CASE op[t] = "waitForHold" /\ WaitConnection(t)
    <3>1. \A c \in Connections : Quiet(t, c) => Still(c)
      BY <1>0 DEF Quiet, Still, Remaining, ThreadsOK
    <3>2. t \in undisturbed /\ ~AllStill =>
             factory # "Active" /\ \A c \in Connections \ waitsFor[t] : Still(c)
      BY <2>5 DEF HoldInv, SeenStill, WaitConnection, Runs
    <3>3. CASE waitsFor[t] = {}
      BY <1>0, <1>2, <1>3, <2>1, <2>2, <2>5, <3>2, <3>3 DEF HoldInv, SeenStill, AllStill, WaitConnection
    <3>4. CASE waitsFor[t] # {}
      <4>1. PICK d \in waitsFor[t] :
               /\ Quiet(t, d)
               /\ waitsFor' = [waitsFor EXCEPT ![t] = @ \ {d}]
               /\ UNCHANGED <<op, at, within, conn, dispatchCount>>
        BY <2>5, <3>4 DEF WaitConnection
      <4>2. /\ waitsFor'[t] = waitsFor[t] \ {d} /\ d \in Connections
            /\ at[t] = "waitingConnections"
        BY <1>0, <2>5, <4>1 DEF ThreadsOK, WaitConnection, Runs
      <4>3. UNCHANGED <<undisturbed, factory>>
        BY <2>5 DEF WaitConnection
      <4>4. Mine
        BY <1>1, <1>3, <2>5, <3>1, <3>2, <4>1, <4>2, <4>3 DEF SeenStill
      <4>5. QED
        BY <1>0, <1>2, <2>1, <2>2, <4>4 DEF HoldInv
    <3>5. QED
      BY <3>3, <3>4
  <2>6. CASE ~(op[t] = "waitForHold" /\ (WaitForHold(t) \/ WaitFactory(t) \/ WaitConnection(t)))
    <3>1. t \in undisturbed' => t \in undisturbed
      BY <1>4, <2>6 DEF Step, Activate, Register, EndActivate, Hold, WaitForHold, Refresh, EndRefresh,
                Deactivate, Unregister, CloseFactory, EndDeactivate, WaitForDeactivate, WaitFactory,
                WaitConnection, Destroy, Clean
    <3>2. op[t] # "waitForHold" \/ at[t] \notin {"waitingFactory", "waitingConnections"}
      BY <1>4, <2>6 DEF Step, Activate, Register, EndActivate, Hold, WaitForHold, Refresh, EndRefresh,
                Deactivate, Unregister, CloseFactory, EndDeactivate, WaitForDeactivate, WaitFactory,
                WaitConnection, Destroy, Clean, Runs
    <3>3. Mine
      BY <1>3, <3>1, <3>2 DEF HoldInv, SeenStill
    <3>4. QED
      BY <1>0, <1>2, <2>1, <2>2, <3>3 DEF HoldInv
  <2>7. QED
    BY <2>3, <2>4, <2>5, <2>6
<1>5. ASSUME NEW t \in Threads, op[t] = None, UNCHANGED undisturbed,
             \A u \in Threads \ {t} : at'[u] = at[u] /\ op'[u] = op[u] /\ waitsFor'[u] = waitsFor[u]
      PROVE  HoldInv'
  <2>1. op[t] # "waitForHold"
    BY <1>5, ObjectAdapterAssumption DEF Ops
  <2>2. QED
    BY <1>0, <1>2, <1>3, <1>5, <2>1 DEF HoldInv, SeenStill
<1>6. ASSUME UNCHANGED <<undisturbed, threadVars>> PROVE HoldInv'
  <2>1. UNCHANGED <<undisturbed, op, at, waitsFor>>
    BY <1>6 DEF threadVars
  <2>2. QED
    BY <1>2, <2>1 DEF HoldInv
<1>7. QED
  <2>1. ASSUME NEW t \in Threads, NEW o \in Ops, Call(t, o) PROVE HoldInv'
    BY <1>0, <1>5, <2>1 DEF Call, ThreadsOK
  <2>2. ASSUME NEW t \in Threads, NEW c \in Connections, NEW o \in NestedOps, NestedCall(t, c, o)
        PROVE  HoldInv'
    BY <1>0, <1>5, <2>2 DEF NestedCall, ThreadsOK
  <2>3. ASSUME NEW c \in Connections,
               \/ Accept(c) \/ Closing(c) \/ Lose(c)
               \/ Pick(c) \/ Dispatch(c) \/ NoRequest(c) \/ EndDispatch(c)
        PROVE  HoldInv'
    BY <1>6, <2>3 DEF Accept, Closing, Lose, FinishConnection, Validate, StartCompleted,
                      Pick, Dispatch, NoRequest, EndDispatch
  <2>4. ASSUME FinishFactory \/ DirectCall \/ EndDirectCall PROVE HoldInv'
    BY <1>6, <2>4 DEF FinishFactory, DirectCall, EndDirectCall
  <2>5. ASSUME UNCHANGED vars PROVE HoldInv'
    BY <1>6, <2>5 DEF vars
  <2>6. QED
    BY <1>1, <1>4, <2>1, <2>2, <2>3, <2>4, <2>5 DEF Next

\* When waitForHold has returned, and until the adapter is activated again, a connection
\* dispatches what the pool had selected together with a write and nothing after it,
\* although the connections are waited for one after the other while clients open and
\* close them (ObjectAdapterI::waitForHold, ConnectionI::waitUntilHolding and message).
THEOREM OneMoreAfterHold == Spec => []OneAfterHold
<1>1. HoldInv => OneAfterHold
  BY DEF HoldInv, SeenStill, OneAfterHold, AllStill, Still
<1>2. QED
  BY TypeInit, TypeNext, HoldInit, HoldNext, <1>1, PTL DEF Spec

-----------------------------------------------------------------------------
(* The life of the adapter, if the application serializes what may not     *)
(* overlap.  A thread that is activating or deactivating then owns the     *)
(* state: nobody else changes it before the thread does.                   *)

Starts == {"registering", "activating"}
Stops == {"unregistering", "closingFactory", "deactivating"}

Late == {"Deactivated", "Destroying", "Destroyed"}

\* Thread t waits, or has waited, for the adapter to be deactivated.
Past(t) ==
    \/ at[t] \in {"waiting", "destroying", "cleaning"}
    \/ at[t] \in {"waitingFactory", "waitingConnections"} /\ op[t] # "waitForHold"

\* What the place of thread t says about its operation and about the state.
Placed(t) ==
    /\ at[t] \in Starts => op[t] = "activate" /\ state = "Activating"
    /\ at[t] \in Stops => op[t] \in {"deactivate", "destroy"} /\ state = "Deactivating"
    /\ at[t] = "refreshing" => op[t] = "refresh" /\ state \notin {"Deactivating"} \cup Late
    /\ at[t] \in {"waiting", "destroying", "cleaning"} => op[t] = "destroy"
    /\ Past(t) => state \in Late
    /\ at[t] = "cleaning" => state \in {"Destroying", "Destroyed"}

LifeInv ==
    /\ ~OverlapsStartup
    /\ ~(Starting /\ Overlapping)
    /\ \A t \in Threads : Placed(t)
    /\ \A t, u \in Threads : t # u => /\ ~(at[t] \in Starts /\ at[u] \in Starts)
                                      /\ ~(at[t] \in Stops /\ at[u] \in Stops)

\* How a step of thread t may change the state.
StateStep(t) ==
    \/ state' = state
    \/ state = "Uninitialized" /\ state' = "Activating"
    \/ at[t] \in Starts /\ state' \in {"Uninitialized", "Active"}
    \/ op[t] = "hold" /\ state \notin {"Deactivating"} \cup Late /\ state' = "Held"
    \/ /\ op[t] \in {"deactivate", "destroy"}
       /\ state \notin {"Activating", "Deactivating"} \cup Late /\ state' = "Deactivating"
    \/ at[t] \in Stops /\ state' = "Deactivated"
    \/ state = "Deactivated" /\ state' = "Destroying"
    \/ state \in {"Destroying", "Destroyed"} /\ state' = "Destroyed"

LEMMA StateSteps ==
    ASSUME TypeInv, LifeInv, NEW t \in Threads, Step(t)
    PROVE  StateStep(t)
<1>1. RestOK /\ Placed(t)
  BY TypeParts DEF LifeInv
<1> USE <1>1, FromIs, StateNamesAre DEF StateStep, RestOK, Runs, Starts, Stops, Late
<1>2. CASE Activate(t) \/ Register(t) \/ EndActivate(t)
  BY <1>2 DEF Activate, Register, EndActivate
<1>3. CASE Hold(t)
  BY <1>3 DEF Hold
<1>4. CASE Deactivate(t)
  BY <1>4 DEF Deactivate
<1>5. CASE EndDeactivate(t)
  BY <1>5 DEF EndDeactivate
<1>6. CASE Destroy(t) \/ Clean(t)
  BY <1>6 DEF Destroy, Clean, Placed, Past
<1>7. CASE WaitForHold(t) \/ Refresh(t) \/ EndRefresh(t) \/ Unregister(t) \/ CloseFactory(t)
             \/ WaitForDeactivate(t) \/ WaitFactory(t) \/ WaitConnection(t)
  BY <1>7 DEF WaitForHold, Refresh, EndRefresh, Unregister, CloseFactory, WaitForDeactivate,
              WaitFactory, WaitConnection, adapterVars
<1>8. QED
  BY <1>2, <1>3, <1>4, <1>5, <1>6, <1>7 DEF Step

\* From deactivation on, the state only goes forward.
LEMMA Forward ==
    ASSUME TypeInv, LifeInv, [Next]_vars, From("Deactivating")
    PROVE  Rank(state') >= Rank(state)
<1>1. RestOK /\ state \in {"Deactivating"} \cup Late
  BY TypeParts, FromIs DEF RestOK, Late
<1>2. CASE UNCHANGED state
  <2>1. Rank(state) \in Nat
    BY <1>1, RankOf DEF Late
  <2>2. QED
    BY <1>2, <2>1
<1>3. ASSUME NEW t \in Threads, Step(t) PROVE Rank(state') >= Rank(state)
  <2>1. StateStep(t) /\ Placed(t)
    BY <1>3, StateSteps DEF LifeInv
  <2>2. QED
    BY <1>1, <2>1, RankOf DEF StateStep, Placed, Starts, Stops, Late
<1>4. QED
  <2>1. \/ \E t \in Threads : Step(t)
        \/ UNCHANGED state
    BY DEF Next, vars, adapterVars, Call, NestedCall, Accept, Closing, Lose, FinishConnection,
           Validate, StartCompleted, Pick, Dispatch, NoRequest, EndDispatch, FinishFactory,
           DirectCall, EndDirectCall
  <2>2. QED
    BY <1>2, <1>3, <2>1

\* Where a step leaves thread t itself.
LEMMA StepPlaced ==
    ASSUME TypeInv, LifeInv, NEW t \in Threads, Step(t)
    PROVE  /\ Placed(t)'
           /\ op'[t] \in {op[t], None}
           /\ at'[t] \in Starts => at[t] \in Starts \/ state \notin {"Activating"}
           /\ at'[t] \in Stops => at[t] \in Stops \/ state \notin {"Deactivating"}
<1>1. ThreadsOK /\ RestOK /\ Placed(t) /\ None \notin Ops
  BY TypeParts, ObjectAdapterAssumption DEF LifeInv
<1> USE <1>1, FromIs, StateNamesAre
    DEF ThreadsOK, RestOK, Runs, Starts, Stops, Late, Placed, Past, Goto, Return, NextPart
<1>2. CASE Activate(t) \/ Register(t) \/ EndActivate(t)
  BY <1>2 DEF Activate, Register, EndActivate
<1>3. CASE Hold(t) \/ WaitForHold(t)
  BY <1>3 DEF Hold, WaitForHold, adapterVars
<1>4. CASE Refresh(t) \/ EndRefresh(t)
  BY <1>4 DEF Refresh, EndRefresh, adapterVars
<1>5. CASE Deactivate(t)
  BY <1>5 DEF Deactivate, threadVars
<1>6. CASE Unregister(t) \/ CloseFactory(t) \/ EndDeactivate(t)
  BY <1>6 DEF Unregister, CloseFactory, EndDeactivate, adapterVars
<1>7. CASE WaitForDeactivate(t)
  <2>1. \/ ~From("Deactivated") \/ directCount > 0
        \/ state = "Deactivated" /\ directCount = 0
        \/ From("Destroying") /\ directCount = 0
    OBVIOUS
  <2>2. \/ UNCHANGED threadVars
        \/ state = "Deactivated" /\ Goto(t, "waitingFactory")
        \/ From("Destroying") /\ NextPart(t, "destroying")
    BY <1>7, <2>1 DEF WaitForDeactivate
  <2>3. /\ UNCHANGED state
        /\ \/ at[t] = "begin" /\ op[t] = "waitForDeactivate"
           \/ at[t] = "waiting"
    BY <1>7 DEF WaitForDeactivate, adapterVars
  <2>4. QED
    BY <2>2, <2>3 DEF threadVars
<1>8. CASE WaitFactory(t) \/ WaitConnection(t)
  BY <1>8 DEF WaitFactory, WaitConnection, adapterVars
<1>9. CASE Destroy(t) \/ Clean(t)
  BY <1>9 DEF Destroy, Clean, threadVars
<1>10. QED
  BY <1>2, <1>3, <1>4, <1>5, <1>6, <1>7, <1>8, <1>9 DEF Step

LEMMA LifeInit == ~OverlapsStartup /\ Init => LifeInv
<1> SUFFICES ASSUME ~OverlapsStartup, Init PROVE LifeInv
  OBVIOUS
<1>1. ~Starting
  BY ObjectAdapterAssumption DEF Init, Starting, Ops
<1>2. QED
  BY <1>1 DEF Init, LifeInv, Placed, Past, Starts, Stops

LEMMA LifeNext == TypeInv /\ LifeInv /\ [Next]_vars => LifeInv'
<1> SUFFICES ASSUME TypeInv, LifeInv, [Next]_vars PROVE LifeInv'
  OBVIOUS
<1>0. ThreadsOK /\ RestOK /\ (\A u \in Threads : Placed(u)) /\ None \notin Ops
  BY TypeParts, ObjectAdapterAssumption DEF LifeInv
<1>1. ASSUME NEW t \in Threads, Step(t) PROVE LifeInv'
  <2>1. \A u \in Threads \ {t} : at'[u] = at[u] /\ op'[u] = op[u] /\ waitsFor'[u] = waitsFor[u]
    BY <1>1, StepEffect
  <2>2. /\ Placed(t)'
        /\ op'[t] \in {op[t], None}
        /\ at'[t] \in Starts => at[t] \in Starts \/ state \notin {"Activating"}
        /\ at'[t] \in Stops => at[t] \in Stops \/ state \notin {"Deactivating"}
    BY <1>1, StepPlaced
  <2>3. StateStep(t)
    BY <1>1, StateSteps
  <2>4. ASSUME NEW u \in Threads \ {t} PROVE Placed(u)'
    <3>1. /\ ~(at[t] \in Starts /\ at[u] \in Starts) /\ ~(at[t] \in Stops /\ at[u] \in Stops)
          /\ op[t] \in {"activate", "deactivate", "destroy"} => op[u] \notin {"hold", "refresh"}
          /\ op[u] \in {"activate", "deactivate", "destroy"} => op[t] \notin {"hold", "refresh"}
      BY DEF LifeInv, Starting, Overlapping
    <3>2. Placed(t) /\ Placed(u)
      BY <1>0
    <3>3. QED
      BY <2>1, <2>3, <3>1, <3>2 DEF StateStep, Placed, Past, Starts, Stops, Late
  <2>5. ~(Starting /\ Overlapping)'
    <3>1. \A u \in Threads : op'[u] \in {op[u], None}
      BY <2>1, <2>2
    <3>2. (Starting' => Starting) /\ (Overlapping' => Overlapping)
      BY <1>0, <3>1 DEF Starting, Overlapping, Ops
    <3>3. QED
      BY <3>2 DEF LifeInv
  <2>6. \A u, v \in Threads : u # v => /\ ~(at'[u] \in Starts /\ at'[v] \in Starts)
                                       /\ ~(at'[u] \in Stops /\ at'[v] \in Stops)
    <3>1. \A u \in Threads \ {t} : /\ ~(at'[t] \in Starts /\ at[u] \in Starts)
                                   /\ ~(at'[t] \in Stops /\ at[u] \in Stops)
      BY <1>0, <2>2 DEF LifeInv, Placed
    <3>2. QED
      BY <2>1, <3>1 DEF LifeInv
  <2>7. QED
    BY <2>2, <2>4, <2>5, <2>6 DEF LifeInv
\* An operation begins.
<1>2. ASSUME NEW t \in Threads, NEW o \in Ops, MayCall(o), op[t] = None,
             op' = [op EXCEPT ![t] = o], at' = [at EXCEPT ![t] = "begin"], UNCHANGED state
      PROVE  LifeInv'
  <2>1. /\ op'[t] = o /\ at'[t] = "begin"
        /\ \A u \in Threads \ {t} : op'[u] = op[u] /\ at'[u] = at[u]
    BY <1>0, <1>2 DEF ThreadsOK
  <2>2. ~(Starting /\ Overlapping)'
    <3>1. \/ o \notin {"activate", "deactivate", "destroy", "hold", "refresh"}
          \/ o \in {"hold", "refresh"} /\ ~Starting
          \/ o \in {"activate", "deactivate", "destroy"} /\ ~Overlapping
      BY <1>2 DEF MayCall, LifeInv
    <3>2. QED
      BY <2>1, <3>1 DEF LifeInv, Starting, Overlapping
  <2>3. \A u \in Threads : Placed(u)'
    BY <1>0, <1>2, <2>1 DEF Placed, Past, Starts, Stops
  <2>4. QED
    BY <2>1, <2>2, <2>3 DEF LifeInv, Starts, Stops
<1>3. ASSUME UNCHANGED <<state, op, at>> PROVE LifeInv'
  BY <1>3 DEF LifeInv, Starting, Overlapping, Placed, Past
<1>4. QED
  <2>1. ASSUME NEW t \in Threads, NEW o \in Ops, Call(t, o) PROVE LifeInv'
    BY <1>2, <2>1 DEF Call, adapterVars
  <2>2. ASSUME NEW t \in Threads, NEW c \in Connections, NEW o \in NestedOps, NestedCall(t, c, o)
        PROVE  LifeInv'
    BY <1>2, <2>2, ObjectAdapterAssumption DEF NestedCall, adapterVars
  <2>3. ASSUME NEW c \in Connections,
               \/ Accept(c) \/ Closing(c) \/ Lose(c)
               \/ Pick(c) \/ Dispatch(c) \/ NoRequest(c) \/ EndDispatch(c)
        PROVE  LifeInv'
    BY <1>3, <2>3 DEF Accept, Closing, Lose, FinishConnection, Validate, StartCompleted,
                      Pick, Dispatch, NoRequest, EndDispatch, threadVars, adapterVars
  <2>4. ASSUME FinishFactory \/ DirectCall \/ EndDirectCall PROVE LifeInv'
    BY <1>3, <2>4 DEF FinishFactory, DirectCall, EndDirectCall, threadVars, adapterVars
  <2>5. ASSUME UNCHANGED vars PROVE LifeInv'
    BY <1>3, <2>5 DEF vars, threadVars, adapterVars
  <2>6. QED
    BY <1>1, <2>1, <2>2, <2>3, <2>4, <2>5 DEF Next

\* The assertions at the end of activate and of deactivate hold: the state with which a
\* thread keeps the others out is still there when it has talked to the registry and
\* to the factory.
THEOREM StaysActivating == ~OverlapsStartup /\ Spec => []StillActivating
<1>1. LifeInv => StillActivating
  BY DEF LifeInv, StillActivating, Placed, Starts, Stops
<1>2. QED
  BY TypeInit, TypeNext, LifeInit, LifeNext, <1>1, PTL DEF Spec

\* A deactivated adapter is never active again, whatever is called afterwards and
\* whatever was under way.
THEOREM DeactivationFinal == ~OverlapsStartup /\ Spec => DeactivationIsFinal
<1>1. TypeInv /\ LifeInv /\ [Next]_vars =>
         [From("Deactivating") => Rank(state') >= Rank(state)]_vars
  BY Forward
<1>2. QED
  BY TypeInit, TypeNext, LifeInit, LifeNext, <1>1, PTL DEF Spec, DeactivationIsFinal

-----------------------------------------------------------------------------
(* What waitForDeactivate has waited for.  It waits for the collocated     *)
(* calls, for the factory and for one connection after the other, and what *)
(* it has seen end does not begin again.                                   *)

AllGone == factory = "Finished" /\ \A c \in Connections : Gone(c)

\* What the place of thread t says about what it has waited for.
Waited(t) ==
    /\ Past(t) /\ at[t] # "waiting" => directCount = 0
    /\ at[t] = "waitingConnections" /\ op[t] # "waitForHold" =>
          factory = "Finished" /\ \A c \in Connections \ waitsFor[t] : Gone(c)
    /\ at[t] \in {"destroying", "cleaning"} => AllGone

QuietInv ==
    /\ \A t \in Threads : Waited(t)
    /\ state \in {"Destroying", "Destroyed"} => directCount = 0 /\ AllGone

LEMMA QuietInit == Init => QuietInv
BY DEF Init, QuietInv, Waited, Past

LEMMA QuietNext ==
    TypeInv /\ NoneInv /\ LifeInv /\ QuietInv /\ [Next]_vars => QuietInv'
<1> SUFFICES ASSUME TypeInv, NoneInv, LifeInv, QuietInv, [Next]_vars PROVE QuietInv'
  OBVIOUS
<1>0. ThreadsOK /\ RestOK /\ (\A u \in Threads : Placed(u))
  BY TypeParts DEF LifeInv
<1>1. factory = "Finished" =>
         factory' = "Finished" /\ \A c \in Connections : Gone(c) => Gone(c)'
  BY AtRest
<1>2. AllGone => AllGone'
  BY <1>1 DEF AllGone
\* No collocated call begins when one has been waited for.
<1>3. state \in Late /\ directCount = 0 => directCount' = 0
  <2>1. state \in Late => From("Deactivating")
    BY <1>0, FromIs DEF RestOK, Late
  <2>2. \/ UNCHANGED directCount \/ DirectCall \/ EndDirectCall
    BY DEF Next, Step, Activate, Register, EndActivate, Hold, WaitForHold, Refresh, EndRefresh,
           Deactivate, Unregister, CloseFactory, EndDeactivate, WaitForDeactivate, WaitFactory,
           WaitConnection, Destroy, Clean, Call, NestedCall, Accept, Closing, Lose,
           FinishConnection, Validate, StartCompleted, Pick, Dispatch, NoRequest, EndDispatch, FinishFactory,
           vars, countVars
  <2>3. QED
    BY <2>1, <2>2 DEF DirectCall, EndDirectCall
\* A thread that keeps its place keeps what it has waited for.
<1>4. ASSUME NEW u \in Threads, op'[u] = op[u], at'[u] = at[u], waitsFor'[u] = waitsFor[u]
      PROVE  Waited(u)'
  <2>1. Waited(u) /\ Placed(u)
    BY <1>0 DEF QuietInv
  <2>2. QED
    BY <1>1, <1>2, <1>3, <1>4, <2>1 DEF Waited, Placed, Past
<1>5. UNCHANGED state /\ (state \in {"Destroying", "Destroyed"})' =>
         directCount' = 0 /\ AllGone'
  BY <1>2, <1>3 DEF QuietInv, Late
<1>6. ASSUME NEW t \in Threads, Step(t) PROVE QuietInv'
  <2>1. \A u \in Threads \ {t} : at'[u] = at[u] /\ op'[u] = op[u] /\ waitsFor'[u] = waitsFor[u]
    BY <1>6, StepEffect
  <2>2. Waited(t) /\ Placed(t) /\ Placed(t)' /\ StateStep(t)
    BY <1>0, <1>6, StepPlaced, StateSteps DEF QuietInv
  <2>3. ASSUME Waited(t)' PROVE \A u \in Threads : Waited(u)'
    BY <1>4, <2>1, <2>3
  <2> HIDE DEF QuietInv
  <2> USE DEF Late
  <2>4. CASE WaitFactory(t)
    <3>1. /\ op'[t] = op[t] /\ at'[t] = "waitingConnections" /\ UNCHANGED <<factory, state>>
          /\ waitsFor'[t] = {c \in Connections : conn[c] # "None"}
          /\ op[t] # "waitForHold" => factory = "Finished"
          /\ at[t] = "waitingFactory"
      BY <1>0, <2>4 DEF WaitFactory, connVars, adapterVars, ThreadsOK, Runs
    <3>2. \A c \in Connections \ waitsFor'[t] : Gone(c)
      BY <3>1 DEF NoneInv, Gone
    <3>3. Waited(t)'
      BY <1>1, <1>3, <2>2, <3>1, <3>2 DEF Waited, Placed, Past
    <3>4. QED
      BY <1>5, <2>3, <3>1, <3>3 DEF QuietInv
  <2>5. CASE WaitConnection(t)
    <3>1. UNCHANGED state /\ at[t] = "waitingConnections"
      BY <2>5 DEF WaitConnection, Runs, adapterVars
    <3>2. CASE op[t] = "waitForHold"
      <4>1. op'[t] = None \/ (op'[t] = op[t] /\ at'[t] = at[t])
        <5>1. UNCHANGED <<op, at>> \/ Return(t)
          BY <2>5, <3>2 DEF WaitConnection, NextPart
        <5>2. Return(t) => op'[t] = None
          BY <1>0 DEF Return, ThreadsOK
        <5>3. UNCHANGED <<op, at>> => op'[t] = op[t] /\ at'[t] = at[t]
          OBVIOUS
        <5>4. QED
          BY <5>1, <5>2, <5>3
      <4>2. op'[t] = None => at'[t] = "none"
        BY <1>0, <2>5, <3>2, ObjectAdapterAssumption DEF WaitConnection, NextPart, Return, ThreadsOK, Ops
      <4>3. Waited(t)'
        BY <3>1, <3>2, <4>1, <4>2 DEF Waited, Past
      <4>4. QED
        BY <1>5, <2>3, <3>1, <4>3 DEF QuietInv
    <3>3. CASE op[t] # "waitForHold" /\ waitsFor[t] = {}
      <4>1. AllGone' /\ directCount' = 0
        BY <1>2, <1>3, <2>2, <3>1, <3>3 DEF Waited, Placed, Past, AllGone
      <4>2. Waited(t)'
        BY <4>1 DEF Waited, AllGone
      <4>3. QED
        BY <1>5, <2>3, <3>1, <4>2 DEF QuietInv
    <3>4. CASE op[t] # "waitForHold" /\ waitsFor[t] # {}
      <4>1. PICK d \in waitsFor[t] :
               /\ Quiet(t, d)
               /\ waitsFor' = [waitsFor EXCEPT ![t] = @ \ {d}]
               /\ UNCHANGED <<op, at, within, conn, dispatchCount>>
        BY <2>5, <3>4 DEF WaitConnection
      <4>2. waitsFor'[t] = waitsFor[t] \ {d} /\ d \in Connections
        BY <1>0, <4>1 DEF ThreadsOK
      <4>3. Gone(d)
        BY <3>4, <4>1 DEF Quiet, Gone
      <4>4. Waited(t)'
        BY <1>1, <1>3, <2>2, <3>1, <4>1, <4>2, <4>3 DEF Waited, Placed, Past
      <4>5. QED
        BY <1>5, <2>3, <3>1, <4>4 DEF QuietInv
    <3>5. QED
      BY <3>2, <3>3, <3>4
  <2>6. CASE WaitForDeactivate(t)
    <3>1. UNCHANGED state
      BY <2>6 DEF WaitForDeactivate, adapterVars
    <3>2. \/ ~From("Deactivated") \/ directCount > 0
          \/ state = "Deactivated" /\ directCount = 0
          \/ From("Destroying") /\ directCount = 0
      BY <1>0, FromIs DEF RestOK
    <3>3. CASE UNCHANGED threadVars
      <4>1. op'[t] = op[t] /\ at'[t] = at[t] /\ waitsFor'[t] = waitsFor[t]
        BY <3>3 DEF threadVars
      <4>2. QED
        BY <1>4, <1>5, <2>3, <3>1, <4>1 DEF QuietInv
    <3>4. CASE state = "Deactivated" /\ directCount = 0 /\ Goto(t, "waitingFactory")
      <4>1. Waited(t)'
        BY <1>0, <1>3, <3>4 DEF Goto, ThreadsOK, Waited, Past
      <4>2. QED
        BY <1>5, <2>3, <3>1, <4>1 DEF QuietInv
    <3>5. CASE From("Destroying") /\ directCount = 0
      <4>1. AllGone' /\ directCount' = 0
        BY <1>0, <1>2, <1>3, <3>5, FromIs DEF RestOK, QuietInv
      <4>2. Waited(t)'
        BY <4>1 DEF Waited, AllGone
      <4>3. QED
        BY <1>5, <2>3, <3>1, <4>2 DEF QuietInv
    <3>6. QED
      BY <2>6, <3>2, <3>3, <3>4, <3>5 DEF WaitForDeactivate
  <2>7. CASE Destroy(t)
    <3>1. at[t] = "destroying" /\ AllGone' /\ directCount' = 0
      BY <1>2, <1>3, <2>2, <2>7 DEF Destroy, Runs, Waited, Placed, Past
    <3>2. Waited(t)'
      BY <3>1 DEF Waited, AllGone
    <3>3. QED
      BY <2>3, <3>1, <3>2 DEF QuietInv
  <2>8. CASE Clean(t)
    <3>1. at[t] = "cleaning" /\ AllGone' /\ directCount' = 0
      BY <1>2, <1>3, <2>2, <2>8 DEF Clean, Runs, Waited, Placed, Past
    <3>2. Waited(t)'
      BY <3>1 DEF Waited, AllGone
    <3>3. QED
      BY <2>3, <3>1, <3>2 DEF QuietInv
  <2>9. CASE \/ Activate(t) \/ Register(t) \/ EndActivate(t)
             \/ Hold(t) \/ WaitForHold(t) \/ Refresh(t) \/ EndRefresh(t)
             \/ Deactivate(t) \/ Unregister(t) \/ CloseFactory(t) \/ EndDeactivate(t)
    <3>1. \/ op'[t] = op[t] /\ at'[t] = at[t] /\ waitsFor'[t] = waitsFor[t]
          \/ at'[t] \in {"none", "waiting"} \cup Starts \cup Stops \cup {"refreshing"}
          \/ at'[t] = "waitingFactory" /\ op'[t] = "waitForHold"
      BY <1>0, <2>9 DEF Activate, Register, EndActivate, Hold, WaitForHold, Refresh, EndRefresh,
                        Deactivate, Unregister, CloseFactory, EndDeactivate, NextPart, Goto, Return,
                        threadVars, Starts, Stops, ThreadsOK
    <3>2. Waited(t)'
      BY <1>4, <3>1 DEF Waited, Past, Starts, Stops
    <3>3. state' \notin {"Destroying", "Destroyed"} \/ UNCHANGED state
      BY <2>9 DEF Activate, Register, EndActivate, Hold, WaitForHold, Refresh, EndRefresh,
                  Deactivate, Unregister, CloseFactory, EndDeactivate, adapterVars
    <3>4. QED
      BY <1>5, <2>3, <3>2, <3>3 DEF QuietInv
  <2>10. QED
    BY <1>6, <2>4, <2>5, <2>6, <2>7, <2>8, <2>9 DEF Step
\* An operation begins.
<1>7. ASSUME NEW t \in Threads, NEW o, op' = [op EXCEPT ![t] = o],
             at' = [at EXCEPT ![t] = "begin"], UNCHANGED <<waitsFor, state>>
      PROVE  QuietInv'
  <2>1. /\ at'[t] = "begin"
        /\ \A u \in Threads \ {t} : op'[u] = op[u] /\ at'[u] = at[u] /\ waitsFor'[u] = waitsFor[u]
    BY <1>0, <1>7 DEF ThreadsOK
  <2>2. Waited(t)'
    BY <2>1 DEF Waited, Past
  <2>3. \A u \in Threads : Waited(u)'
    BY <1>4, <2>1, <2>2
  <2>4. QED
    BY <1>5, <1>7, <2>3 DEF QuietInv
<1>8. ASSUME UNCHANGED <<state, op, at, waitsFor>> PROVE QuietInv'
  <2>1. \A u \in Threads : Waited(u)'
    BY <1>4, <1>8
  <2>2. QED
    BY <1>5, <1>8, <2>1 DEF QuietInv
<1>9. QED
  <2>1. ASSUME NEW t \in Threads, NEW o \in Ops, Call(t, o) PROVE QuietInv'
    BY <1>7, <2>1 DEF Call, adapterVars
  <2>2. ASSUME NEW t \in Threads, NEW c \in Connections, NEW o \in NestedOps, NestedCall(t, c, o)
        PROVE  QuietInv'
    BY <1>7, <2>2 DEF NestedCall, adapterVars
  <2>3. ASSUME NEW c \in Connections,
               \/ Accept(c) \/ Closing(c) \/ Lose(c)
               \/ Pick(c) \/ Dispatch(c) \/ NoRequest(c) \/ EndDispatch(c)
        PROVE  QuietInv'
    BY <1>8, <2>3 DEF Accept, Closing, Lose, FinishConnection, Validate, StartCompleted,
                      Pick, Dispatch, NoRequest, EndDispatch, threadVars, adapterVars
  <2>4. ASSUME FinishFactory \/ DirectCall \/ EndDirectCall PROVE QuietInv'
    BY <1>8, <2>4 DEF FinishFactory, DirectCall, EndDirectCall, threadVars, adapterVars
  <2>5. ASSUME UNCHANGED vars PROVE QuietInv'
    BY <1>8, <2>5 DEF vars, threadVars, adapterVars
  <2>6. QED
    BY <1>6, <2>1, <2>2, <2>3, <2>4, <2>5 DEF Next

\* The servants are destroyed only when no dispatch can use them any more: none is under
\* way, on any connection or collocated, and none can begin.
THEOREM DestroyedQuietly == ~OverlapsStartup /\ Spec => []QuietWhenDestroyed
<1>1. TypeInv /\ QuietInv => QuietWhenDestroyed
  <2>1. TypeInv /\ From("Destroying") => state \in {"Destroying", "Destroyed"}
    BY TypeParts, FromIs DEF RestOK
  <2>2. QED
    BY <2>1 DEF QuietInv, QuietWhenDestroyed, AllGone, Gone
<1>2. QED
  BY TypeInit, TypeNext, HoldInit, HoldNext, LifeInit, LifeNext, QuietInit, QuietNext, <1>1, PTL
     DEF Spec

-----------------------------------------------------------------------------
(* The locator registry.                                                   *)

\* Once the adapter has told the registry to forget it, nobody tells it otherwise.
ListInv ==
    (\E t \in Threads : at[t] \in {"closingFactory", "deactivating"}) \/ state \in Late =>
        unreachable \/ ~registry

LEMMA ListInit == Init => ListInv
BY DEF Init, ListInv, Late

LEMMA ListNext == TypeInv /\ LifeInv /\ ListInv /\ [Next]_vars => ListInv'
<1> SUFFICES ASSUME TypeInv, LifeInv, ListInv, [Next]_vars PROVE ListInv'
  OBVIOUS
<1>0. ThreadsOK /\ RestOK /\ (\A u \in Threads : Placed(u))
  BY TypeParts DEF LifeInv
<1> DEFINE Told(t) == at[t] \in {"closingFactory", "deactivating"}
<1>1. ASSUME NEW t \in Threads, Step(t) PROVE ListInv'
  <2>1. \A u \in Threads \ {t} : at'[u] = at[u]
    BY <1>1, StepEffect
  <2>2. StateStep(t) /\ Placed(t) /\ Placed(t)'
    BY <1>0, <1>1, StateSteps, StepPlaced
  <2>3. CASE Register(t) \/ EndRefresh(t)
    <3>1. state \notin {"Deactivating"} \cup Late /\ at[t] \notin Stops
      BY <2>2, <2>3 DEF Register, EndRefresh, Runs, Placed, Starts, Stops, Late
    <3>2. \A u \in Threads : ~Told(u)
      BY <1>0, <3>1 DEF Placed, Stops
    <3>3. ~Told(t)' /\ state' \notin Late
      BY <1>0, <2>2, <2>3, <3>1 DEF Register, EndRefresh, Goto, Return, ThreadsOK, Late
    <3>4. QED
      BY <2>1, <3>2, <3>3 DEF ListInv
  <2>4. CASE Unregister(t)
    BY <2>4 DEF Unregister, ListInv
  <2>5. CASE ~(Register(t) \/ EndRefresh(t) \/ Unregister(t))
    <3>1. UNCHANGED <<registry, unreachable>>
      BY <1>1, <2>5 DEF Step, Activate, EndActivate, Hold, WaitForHold, Refresh,
                Deactivate, CloseFactory, EndDeactivate, WaitForDeactivate, WaitFactory,
                WaitConnection, Destroy, Clean, adapterVars
    <3>2. Told(t)' => Told(t)
      <4>1. CASE CloseFactory(t)
        BY <4>1 DEF CloseFactory, Runs
      <4>2. CASE Deactivate(t)
        BY <1>0, <4>2 DEF Deactivate, NextPart, Goto, Return, threadVars, ThreadsOK
      <4>3. CASE WaitForDeactivate(t)
        <5>1. \/ ~From("Deactivated") \/ directCount > 0
              \/ state = "Deactivated" /\ directCount = 0
              \/ From("Destroying") /\ directCount = 0
          BY <1>0, FromIs DEF RestOK
        <5>2. UNCHANGED threadVars \/ Goto(t, "waitingFactory") \/ NextPart(t, "destroying")
          BY <4>3, <5>1 DEF WaitForDeactivate
        <5>3. QED
          BY <1>0, <5>2 DEF NextPart, Goto, Return, threadVars, ThreadsOK
      <4>4. CASE Activate(t) \/ EndActivate(t) \/ Hold(t) \/ WaitForHold(t) \/ Refresh(t)
        BY <1>0, <4>4 DEF Activate, EndActivate, Hold, WaitForHold, Refresh, Goto, Return, ThreadsOK
      <4>5. CASE EndDeactivate(t) \/ WaitFactory(t) \/ WaitConnection(t) \/ Destroy(t) \/ Clean(t)
        BY <1>0, <4>5 DEF EndDeactivate, WaitFactory, WaitConnection, Destroy, Clean, NextPart, Goto,
                          Return, threadVars, ThreadsOK
      <4>6. QED
        BY <1>1, <2>5, <4>1, <4>2, <4>3, <4>4, <4>5 DEF Step
    <3>3. state' \in Late => state \in Late \/ Told(t)
      <4>1. state' = "Deactivated" => UNCHANGED state \/ EndDeactivate(t)
        BY <1>1 DEF Step, Activate, Register, EndActivate, Hold, WaitForHold, Refresh, EndRefresh,
                Deactivate, Unregister, CloseFactory, EndDeactivate, WaitForDeactivate, WaitFactory,
                WaitConnection, Destroy, Clean, adapterVars
      <4>2. QED
        BY <2>2, <4>1 DEF StateStep, EndDeactivate, Runs, Late
    <3>4. QED
      BY <2>1, <3>1, <3>2, <3>3 DEF ListInv
  <2>6. QED
    BY <2>3, <2>4, <2>5
<1>2. ASSUME NEW t \in Threads, at' = [at EXCEPT ![t] = "begin"],
             UNCHANGED <<state, registry, unreachable>>
      PROVE  ListInv'
  BY <1>0, <1>2 DEF ListInv, ThreadsOK
<1>3. ASSUME UNCHANGED <<state, registry, unreachable, at>> PROVE ListInv'
  BY <1>3 DEF ListInv
<1>4. QED
  <2>1. ASSUME NEW t \in Threads, NEW o \in Ops, Call(t, o) PROVE ListInv'
    BY <1>2, <2>1 DEF Call, adapterVars
  <2>2. ASSUME NEW t \in Threads, NEW c \in Connections, NEW o \in NestedOps, NestedCall(t, c, o)
        PROVE  ListInv'
    BY <1>2, <2>2 DEF NestedCall, adapterVars
  <2>3. ASSUME NEW c \in Connections,
               \/ Accept(c) \/ Closing(c) \/ Lose(c)
               \/ Pick(c) \/ Dispatch(c) \/ NoRequest(c) \/ EndDispatch(c)
        PROVE  ListInv'
    BY <1>3, <2>3 DEF Accept, Closing, Lose, FinishConnection, Validate, StartCompleted,
                      Pick, Dispatch, NoRequest, EndDispatch, threadVars, adapterVars
  <2>4. ASSUME FinishFactory \/ DirectCall \/ EndDirectCall PROVE ListInv'
    BY <1>3, <2>4 DEF FinishFactory, DirectCall, EndDirectCall, threadVars, adapterVars
  <2>5. ASSUME UNCHANGED vars PROVE ListInv'
    BY <1>3, <2>5 DEF vars, threadVars, adapterVars
  <2>6. QED
    BY <1>1, <2>1, <2>2, <2>3, <2>4, <2>5 DEF Next

\* A deactivated adapter is not listed by a registry that could be reached: no earlier
\* update of the registry is overtaken by the one that takes the adapter off the list.
THEOREM NotListedLate == ~OverlapsStartup /\ Spec => []NotListed
<1>1. TypeInv /\ ListInv => NotListed
  <2>1. TypeInv /\ From("Deactivated") => state \in Late
    BY TypeParts, FromIs DEF RestOK, Late
  <2>2. QED
    BY <2>1 DEF ListInv, NotListed
<1>2. QED
  BY TypeInit, TypeNext, LifeInit, LifeNext, ListInit, ListNext, <1>1, PTL DEF Spec
=============================================================================
