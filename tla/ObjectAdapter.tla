----------------------------- MODULE ObjectAdapter -----------------------------
(***************************************************************************)
(* The life cycle of an object adapter (ObjectAdapterI.cpp) with the       *)
(* factory of its incoming connections (ConnectionFactory.cpp) and these   *)
(* connections (ConnectionI.cpp of zeroc-ice-3.7.2; the Java port that the *)
(* bank's server uses has the same structure).                             *)
(*                                                                         *)
(* Threads of the application call the adapter's operations, and so do     *)
(* servants from within a dispatch.  An operation takes the adapter's lock *)
(* several times; between its locked regions it talks to the locator       *)
(* registry, to the factory or to the servants.  A monitor's wait() is a   *)
(* set of threads that sleep until another thread calls notifyAll().       *)
(***************************************************************************)
EXTENDS Naturals, FiniteSets

CONSTANTS
    Threads,         \* threads of the application and threads that dispatch
    Connections,     \* connections that clients may open
    NestedOps,       \* the operations that servants call within a dispatch
    MaxCalls,        \* bound: calls of the adapter's operations
    MaxRequests,     \* bound: dispatches that call no operation
    OverlapsStartup, \* may hold and refresh overlap activation and deactivation?
    None

Ops == {"activate", "hold", "waitForHold", "refresh", "deactivate", "waitForDeactivate",
        "destroy"}

ASSUME ObjectAdapterAssumption ==
    /\ IsFiniteSet(Threads) /\ IsFiniteSet(Connections)
    /\ None \notin Connections /\ None \notin Ops
    /\ NestedOps \subseteq Ops
    /\ MaxCalls \in Nat /\ MaxRequests \in Nat
    /\ OverlapsStartup \in BOOLEAN

VARIABLES
    state,          \* _state
    factory,        \* the IncomingConnectionFactory's _state
    conn,           \* conn[c]: the _state of the ConnectionI
    starting,       \* connections whose start() has not reached its callback
    picked,         \* connections that the pool has selected for reading and for writing
                    \* at once, and for which message() has not yet taken its lock
    dispatchCount,  \* dispatchCount[c]: _dispatchCount
    directCount,    \* _directCount: collocated calls
    registry,       \* does the locator registry list the adapter's endpoints?
    unreachable,    \* has an update of the registry been lost in deactivate?
    op,             \* op[t]: the operation that t executes
    at,             \* at[t]: where t is in it
    within,         \* within[t]: the connection for which t dispatches
    waitsFor,       \* waitsFor[t]: the connections that t has still to wait for
    sleeping,       \* the threads in wait() on the adapter
    undisturbed,    \* history: waitForHold of t began after the last activation
    calls, requests \* how many there have been

adapterVars == <<state, registry, unreachable>>
connVars == <<factory, conn, starting, picked>>
countVars == <<dispatchCount, directCount, requests>>
threadVars == <<op, at, within, waitsFor>>
vars == <<adapterVars, connVars, countVars, threadVars, sleeping, undisturbed, calls>>

States == <<"Uninitialized", "Held", "Activating", "Active", "Deactivating", "Deactivated",
            "Destroying", "Destroyed">>

Rank(s) == CHOOSE n \in DOMAIN States : States[n] = s
From(s) == Rank(state) >= Rank(s)

Places == {"none", "begin", "registering", "activating", "refreshing", "unregistering",
           "closingFactory", "deactivating", "waiting", "waitingFactory",
           "waitingConnections", "destroying", "cleaning"}

Init ==
    /\ state         = "Uninitialized"
    /\ factory       = "Holding"
    /\ conn          = [c \in Connections |-> "None"]
    /\ starting      = {}
    /\ picked        = {}
    /\ dispatchCount = [c \in Connections |-> 0]
    /\ directCount   = 0
    /\ registry      = FALSE
    /\ unreachable   = FALSE
    /\ op            = [t \in Threads |-> None]
    /\ at            = [t \in Threads |-> "none"]
    /\ within        = [t \in Threads |-> None]
    /\ waitsFor      = [t \in Threads |-> {}]
    /\ sleeping      = {}
    /\ undisturbed   = {}
    /\ calls         = 0
    /\ requests      = 0

-----------------------------------------------------------------------------
(* Calls.                                                                  *)

Starting == \E t \in Threads : op[t] \in {"activate", "deactivate", "destroy"}
Overlapping == \E t \in Threads : op[t] \in {"hold", "refresh"}

\* Without OverlapsStartup the application serializes what may not overlap.
MayCall(o) ==
    \/ OverlapsStartup
    \/ o \in {"waitForHold", "waitForDeactivate"}
    \/ o \in {"hold", "refresh"} /\ ~Starting
    \/ o \in {"activate", "deactivate", "destroy"} /\ ~Overlapping

Call(t, o) ==
    /\ op[t] = None /\ calls < MaxCalls /\ MayCall(o)
    /\ op' = [op EXCEPT ![t] = o]
    /\ at' = [at EXCEPT ![t] = "begin"]
    /\ calls' = calls + 1
    /\ UNCHANGED <<adapterVars, connVars, countVars, within, waitsFor, sleeping,
                   undisturbed>>

\* May message() read a request of c and dispatch it?  A connection that is held is not
\* registered for reading, and its requests are not refused either.  message() does all
\* that c was selected for if any part of it is still registered: a thread that has c for
\* reading and for writing reads although hold() came in between.
MayDispatch(c) ==
    \/ conn[c] = "Active"
    \/ conn[c] = "Holding" /\ c \in picked

\* A request is dispatched by t, whose servant calls o.
NestedCall(t, c, o) ==
    /\ op[t] = None /\ calls < MaxCalls /\ MayCall(o)
    /\ MayDispatch(c)
    /\ picked' = picked \ {c}
    /\ op' = [op EXCEPT ![t] = o]
    /\ at' = [at EXCEPT ![t] = "begin"]
    /\ within' = [within EXCEPT ![t] = c]
    /\ dispatchCount' = [dispatchCount EXCEPT ![c] = @ + 1]
    /\ calls' = calls + 1
    /\ UNCHANGED <<adapterVars, factory, conn, starting, directCount, requests, waitsFor,
                   sleeping, undisturbed>>

\* The last request of a closing connection is answered: the connection is shut down.
AfterDispatch(states, c, left) ==
    IF left = 0 /\ states[c] = "Closing" THEN [states EXCEPT ![c] = "ClosingPending"]
    ELSE states

Goto(t, place) == at' = [at EXCEPT ![t] = place] /\ UNCHANGED <<op, within, waitsFor>>

\* Mutant of Return: the thread does not leave the dispatch.
ReturnWithin(t) ==
    /\ op' = [op EXCEPT ![t] = None]
    /\ at' = [at EXCEPT ![t] = "none"]
    /\ waitsFor' = [waitsFor EXCEPT ![t] = {}]
    /\ UNCHANGED within

\* The operation returns, or throws; with it ends the dispatch that called it.
Return(t) ==
    /\ op' = [op EXCEPT ![t] = None]
    /\ at' = [at EXCEPT ![t] = "none"]
    /\ within' = [within EXCEPT ![t] = None]
    /\ waitsFor' = [waitsFor EXCEPT ![t] = {}]

\* The counterpart of Return for the connections, given what the operation made of them.
Unwind(t, states) ==
    LET c == within[t]
    IN  IF c = None THEN conn' = states /\ UNCHANGED dispatchCount
        ELSE /\ dispatchCount' = [dispatchCount EXCEPT ![c] = @ - 1]
             /\ conn' = AfterDispatch(states, c, dispatchCount[c] - 1)

NotifyAll == sleeping' = {}

\* wait(): the lock is given up until notifyAll.
Wait(t) == sleeping' = sleeping \cup {t}

Runs(t, place) == at[t] = place /\ t \notin sleeping

-----------------------------------------------------------------------------
(* The factory, as the adapter's operations see it.                        *)

\* IncomingConnectionFactory::setState(StateActive), with connection->activate().
Activated == IF factory = "Holding"
             THEN [c \in Connections |-> IF conn[c] = "Holding" THEN "Active" ELSE conn[c]]
             ELSE conn

ActivateFactory == factory' = IF factory = "Holding" THEN "Active" ELSE factory

\* setState(StateHolding), with connection->hold().
Held == IF factory = "Active"
        THEN [c \in Connections |-> IF conn[c] = "Active" THEN "Holding" ELSE conn[c]]
        ELSE conn

HoldFactory == factory' = IF factory = "Active" THEN "Holding" ELSE factory

\* setState(StateClosed), with connection->destroy(): a connection closes gracefully,
\* at once if nothing is dispatched, or has not been validated yet.
Closed(c) ==
    CASE conn[c] = "NotValidated" -> "Closed"
      [] conn[c] \in {"Holding", "Active"} ->
            IF dispatchCount[c] = 0 THEN "ClosingPending" ELSE "Closing"
      [] OTHER -> conn[c]

-----------------------------------------------------------------------------
(* activate and hold.                                                      *)

Activate(t) ==
    /\ Runs(t, "begin") /\ op[t] = "activate"
    /\ CASE From("Deactivating") ->
              Return(t) /\ Unwind(t, conn) /\ UNCHANGED <<state, factory, undisturbed>>
         [] state # "Uninitialized" /\ ~From("Deactivating") ->
              /\ ActivateFactory /\ Return(t) /\ Unwind(t, Activated)
              /\ undisturbed' = {}
              /\ UNCHANGED state
         [] state = "Uninitialized" ->
              /\ state' = "Activating"
              /\ Goto(t, "registering")
              /\ UNCHANGED <<factory, conn, dispatchCount, undisturbed>>
    /\ UNCHANGED <<registry, unreachable, starting, picked, directCount, requests,
                   sleeping, calls>>

\* updateLocatorRegistry: the registry learns the endpoints, or cannot be reached.
Register(t) ==
    /\ Runs(t, "registering")
    /\ \/ /\ registry' = TRUE
          /\ Goto(t, "activating")
          /\ UNCHANGED <<state, conn, dispatchCount, sleeping>>
       \/ /\ state' = "Uninitialized"
          /\ NotifyAll
          /\ Return(t) /\ Unwind(t, conn)
          /\ UNCHANGED registry
    /\ UNCHANGED <<unreachable, factory, starting, picked, directCount, requests,
                   undisturbed, calls>>

\* The rest of activate.  Its assertion is the invariant StillActivating.
EndActivate(t) ==
    /\ Runs(t, "activating")
    /\ ActivateFactory /\ Return(t) /\ Unwind(t, Activated)
    /\ state' = "Active"
    /\ NotifyAll
    /\ undisturbed' = {}
    /\ UNCHANGED <<registry, unreachable, starting, picked, directCount, requests, calls>>

\* Mutant of Hold: a deactivated adapter is not refused.
HoldUnchecked(t) ==
    /\ Runs(t, "begin") /\ op[t] = "hold"
    /\ state' = "Held"
    /\ HoldFactory /\ Return(t) /\ Unwind(t, Held)
    /\ UNCHANGED <<registry, unreachable, starting, picked, directCount, requests, sleeping,
                   undisturbed, calls>>

Hold(t) ==
    /\ Runs(t, "begin") /\ op[t] = "hold"
    /\ IF From("Deactivating")
       THEN Return(t) /\ Unwind(t, conn) /\ UNCHANGED <<state, factory>>
       ELSE /\ state' = "Held"
            /\ HoldFactory /\ Return(t) /\ Unwind(t, Held)
    /\ UNCHANGED <<registry, unreachable, starting, picked, directCount, requests, sleeping,
                   undisturbed, calls>>

WaitForHold(t) ==
    /\ Runs(t, "begin") /\ op[t] = "waitForHold"
    /\ IF From("Deactivating")
       THEN Return(t) /\ Unwind(t, conn) /\ UNCHANGED undisturbed
       ELSE /\ Goto(t, "waitingFactory")
            /\ undisturbed' = undisturbed \cup {t}
            /\ UNCHANGED <<conn, dispatchCount>>
    /\ UNCHANGED <<adapterVars, factory, starting, picked, directCount, requests,
                   sleeping, calls>>

\* refreshPublishedEndpoints (and setPublishedEndpoints): the endpoints are computed
\* under the lock, the registry is told without it.
Refresh(t) ==
    /\ Runs(t, "begin") /\ op[t] = "refresh"
    /\ IF From("Deactivating") THEN Return(t) /\ Unwind(t, conn)
       ELSE Goto(t, "refreshing") /\ UNCHANGED <<conn, dispatchCount>>
    /\ UNCHANGED <<adapterVars, factory, starting, picked, directCount, requests, sleeping,
                   undisturbed, calls>>

EndRefresh(t) ==
    /\ Runs(t, "refreshing")
    /\ registry' \in {TRUE, registry}
    /\ Return(t) /\ Unwind(t, conn)
    /\ UNCHANGED <<state, unreachable, factory, starting, picked, directCount, requests,
                   sleeping,
                   undisturbed, calls>>

-----------------------------------------------------------------------------
(* deactivate, waitForDeactivate and destroy.                              *)

\* destroy goes on where deactivate, and then waitForDeactivate, would return.
NextPart(t, place) ==
    IF op[t] = "destroy" THEN Goto(t, place) /\ UNCHANGED <<conn, dispatchCount>>
    ELSE Return(t) /\ Unwind(t, conn)

\* Mutant of Deactivate: it does not wait for activation to complete.
DeactivateAtOnce(t) ==
    /\ Runs(t, "begin") /\ op[t] \in {"deactivate", "destroy"}
    /\ IF From("Deactivated") THEN NextPart(t, "waiting") /\ UNCHANGED <<state, sleeping>>
       ELSE /\ state' = "Deactivating"
            /\ Goto(t, "unregistering")
            /\ UNCHANGED <<conn, dispatchCount, sleeping>>
    /\ UNCHANGED <<registry, unreachable, factory, starting, picked, directCount, requests,
                   undisturbed, calls>>

\* deactivate waits while another thread is activating or deactivating.
Deactivate(t) ==
    /\ Runs(t, "begin") /\ op[t] \in {"deactivate", "destroy"}
    /\ CASE state \in {"Activating", "Deactivating"} ->
              Wait(t) /\ UNCHANGED <<state, threadVars, conn, dispatchCount>>
         [] From("Deactivated") ->
              NextPart(t, "waiting") /\ UNCHANGED <<state, sleeping>>
         [] OTHER ->
              /\ state' = "Deactivating"
              /\ Goto(t, "unregistering")
              /\ UNCHANGED <<conn, dispatchCount, sleeping>>
    /\ UNCHANGED <<registry, unreachable, factory, starting, picked, directCount, requests,
                   undisturbed, calls>>

\* The registry forgets the adapter; a failure is ignored.
Unregister(t) ==
    /\ Runs(t, "unregistering")
    /\ \/ registry' = FALSE /\ UNCHANGED unreachable
       \/ unreachable' = TRUE /\ UNCHANGED registry
    /\ Goto(t, "closingFactory")
    /\ UNCHANGED <<state, connVars, countVars, sleeping, undisturbed, calls>>

\* Mutant of CloseFactory: it waits for the connections to finish.
CloseFactoryAndWait(t) ==
    /\ Runs(t, "closingFactory")
    /\ \/ /\ factory \in {"Holding", "Active"}
          /\ factory' = "Closed"
          /\ conn' = [c \in Connections |-> Closed(c)]
          /\ UNCHANGED threadVars
       \/ /\ factory \in {"Closed", "Finished"}
          /\ \A c \in Connections : conn[c] \in {"None", "Finished"} /\ dispatchCount[c] = 0
          /\ Goto(t, "deactivating")
          /\ UNCHANGED <<factory, conn>>
    /\ UNCHANGED <<adapterVars, starting, picked, countVars, sleeping, undisturbed, calls>>

CloseFactory(t) ==
    /\ Runs(t, "closingFactory")
    /\ IF factory \in {"Holding", "Active"}
       THEN factory' = "Closed" /\ conn' = [c \in Connections |-> Closed(c)]
       ELSE UNCHANGED <<factory, conn>>
    /\ Goto(t, "deactivating")
    /\ UNCHANGED <<adapterVars, starting, picked, countVars, sleeping, undisturbed, calls>>

EndDeactivate(t) ==
    /\ Runs(t, "deactivating")
    /\ state' = "Deactivated"
    /\ NotifyAll
    /\ NextPart(t, "waiting")
    /\ UNCHANGED <<registry, unreachable, factory, starting, picked, directCount, requests,
                   undisturbed, calls>>

\* Mutant of WaitForDeactivate: collocated calls are not waited for.
WaitForDeactivateOnly(t) ==
    /\ \/ Runs(t, "begin") /\ op[t] = "waitForDeactivate"
       \/ Runs(t, "waiting")
    /\ CASE ~From("Deactivated") -> Wait(t) /\ UNCHANGED <<threadVars, conn, dispatchCount>>
         [] state = "Deactivated" ->
              Goto(t, "waitingFactory") /\ UNCHANGED <<conn, dispatchCount, sleeping>>
         [] From("Destroying") -> NextPart(t, "destroying") /\ UNCHANGED sleeping
    /\ UNCHANGED <<adapterVars, factory, starting, picked, directCount, requests,
                   undisturbed, calls>>

\* waitForDeactivate waits for the deactivation and for the collocated calls.
WaitForDeactivate(t) ==
    /\ \/ Runs(t, "begin") /\ op[t] = "waitForDeactivate"
       \/ Runs(t, "waiting")
    /\ CASE ~From("Deactivated") \/ directCount > 0 ->
              Wait(t) /\ UNCHANGED <<threadVars, conn, dispatchCount>>
         [] state = "Deactivated" /\ directCount = 0 ->
              Goto(t, "waitingFactory") /\ UNCHANGED <<conn, dispatchCount, sleeping>>
         [] From("Destroying") /\ directCount = 0 ->
              NextPart(t, "destroying") /\ UNCHANGED sleeping
    /\ UNCHANGED <<adapterVars, factory, starting, picked, directCount, requests,
                   undisturbed, calls>>

\* waitUntilHolding and waitUntilFinished of the factory: first the factory itself,
\* then each connection it has at that moment.
WaitFactory(t) ==
    /\ Runs(t, "waitingFactory")
    /\ factory = "Finished" \/ (op[t] = "waitForHold" /\ factory \in {"Holding", "Closed"})
    /\ at' = [at EXCEPT ![t] = "waitingConnections"]
    /\ waitsFor' = [waitsFor EXCEPT ![t] = {c \in Connections : conn[c] # "None"}]
    /\ UNCHANGED <<adapterVars, connVars, countVars, op, within, sleeping, undisturbed,
                   calls>>

\* waitUntilHolding and waitUntilFinished of the connection.
Quiet(t, c) ==
    /\ dispatchCount[c] = 0
    /\ \/ conn[c] = "Finished"
       \/ op[t] = "waitForHold" /\ conn[c] \notin {"NotValidated", "Active"}

WaitConnection(t) ==
    /\ Runs(t, "waitingConnections")
    /\ \/ \E c \in waitsFor[t] :
             /\ Quiet(t, c)
             /\ waitsFor' = [waitsFor EXCEPT ![t] = @ \ {c}]
             /\ UNCHANGED <<op, at, within, conn, dispatchCount>>
       \/ waitsFor[t] = {} /\ NextPart(t, "destroying")
    /\ UNCHANGED <<adapterVars, factory, starting, picked, directCount, requests, sleeping,
                   undisturbed, calls>>

\* destroy: only one thread destroys, others wait until it has.
Destroy(t) ==
    /\ Runs(t, "destroying")
    /\ CASE state = "Destroying" -> Wait(t) /\ UNCHANGED <<state, threadVars, conn,
                   dispatchCount>>
         [] state = "Destroyed" ->
              Return(t) /\ Unwind(t, conn) /\ UNCHANGED <<state, sleeping>>
         [] OTHER ->
              /\ state' = "Destroying"
              /\ Goto(t, "cleaning")
              /\ UNCHANGED <<conn, dispatchCount, sleeping>>
    /\ UNCHANGED <<registry, unreachable, factory, starting, picked, directCount, requests,
                   undisturbed, calls>>

\* The servant manager and the thread pool are destroyed, and the adapter is done.
Clean(t) ==
    /\ Runs(t, "cleaning")
    /\ state' = "Destroyed"
    /\ NotifyAll
    /\ Return(t) /\ Unwind(t, conn)
    /\ UNCHANGED <<registry, unreachable, factory, starting, picked, directCount, requests,
                   undisturbed, calls>>

-----------------------------------------------------------------------------
(* Connections and requests.                                               *)

\* message() of the factory accepts a connection.
Accept(c) ==
    /\ factory = "Active" /\ conn[c] = "None"
    /\ conn' = [conn EXCEPT ![c] = "NotValidated"]
    /\ starting' = starting \cup {c}
    /\ UNCHANGED <<adapterVars, factory, picked, countVars, threadVars, sleeping, undisturbed,
                   calls>>

\* start(): a validated connection begins in the holding state.
Validate(c) ==
    /\ conn[c] = "NotValidated"
    /\ conn' = [conn EXCEPT ![c] = "Holding"]
    /\ UNCHANGED <<adapterVars, factory, starting, picked, countVars, threadVars, sleeping,
                   undisturbed, calls>>

\* connectionStartCompleted (or Failed): the factory activates it, if it is active itself.
StartCompleted(c) ==
    /\ c \in starting /\ conn[c] # "NotValidated"
    /\ starting' = starting \ {c}
    /\ conn' = [conn EXCEPT ![c] = IF @ = "Holding" /\ factory = "Active" THEN "Active" ELSE @]
    /\ UNCHANGED <<adapterVars, factory, picked, countVars, threadVars, sleeping, undisturbed,
                   calls>>

\* The client closes the connection, or is gone; it does so after a close connection
\* message (or a timeout does).
Lose(c) ==
    /\ conn[c] \in {"NotValidated", "Holding", "Active", "Closing", "ClosingPending"}
    /\ conn' = [conn EXCEPT ![c] = "Closed"]
    /\ UNCHANGED <<adapterVars, factory, starting, picked, countVars, threadVars, sleeping,
                   undisturbed, calls>>

\* finished() of a connection and of the acceptor, called by the thread pool.
FinishConnection(c) ==
    /\ conn[c] = "Closed"
    /\ conn' = [conn EXCEPT ![c] = "Finished"]
    /\ UNCHANGED <<adapterVars, factory, starting, picked, countVars, threadVars, sleeping,
                   undisturbed, calls>>

FinishFactory ==
    /\ factory = "Closed"
    /\ factory' = "Finished"
    /\ UNCHANGED <<adapterVars, conn, starting, picked, countVars, threadVars, sleeping,
                   undisturbed,
                   calls>>

\* The selector finds that c can be read and that what was blocked, a reply or a heartbeat,
\* can be written: the pool will have a thread do both.
Pick(c) ==
    /\ conn[c] = "Active" /\ c \notin picked
    /\ picked' = picked \cup {c}
    /\ UNCHANGED <<adapterVars, factory, conn, starting, countVars, threadVars, sleeping,
                   undisturbed, calls>>

\* Mutant of Dispatch: a connection that is held goes on reading.
DispatchReadsOn(c) ==
    /\ MayDispatch(c) /\ requests < MaxRequests
    /\ requests' = requests + 1
    /\ dispatchCount' = [dispatchCount EXCEPT ![c] = @ + 1]
    /\ UNCHANGED <<adapterVars, connVars, directCount, threadVars, sleeping, undisturbed,
                   calls>>

\* A connection reads one message (a batch counts as one), and no other while it is held.
Dispatch(c) ==
    /\ MayDispatch(c) /\ requests < MaxRequests
    /\ requests' = requests + 1
    /\ dispatchCount' = [dispatchCount EXCEPT ![c] = @ + 1]
    /\ picked' = picked \ {c}
    /\ UNCHANGED <<adapterVars, factory, conn, starting, directCount, threadVars, sleeping,
                   undisturbed, calls>>

\* The message is not a request, or c is closed and not read.  (One that is not complete
\* leaves c registered for its rest.)
NoRequest(c) ==
    /\ c \in picked
    /\ picked' = picked \ {c}
    /\ UNCHANGED <<adapterVars, factory, conn, starting, countVars, threadVars, sleeping,
                   undisturbed, calls>>

\* The dispatches of c that are within no operation of the adapter.
Plain(c) == dispatchCount[c] - Cardinality({t \in Threads : within[t] = c})

EndDispatch(c) ==
    /\ Plain(c) > 0
    /\ dispatchCount' = [dispatchCount EXCEPT ![c] = @ - 1]
    /\ conn' = AfterDispatch(conn, c, dispatchCount[c] - 1)
    /\ UNCHANGED <<adapterVars, factory, starting, picked, directCount, requests,
                   threadVars,
                   sleeping, undisturbed, calls>>

\* incDirectCount and decDirectCount, around a collocated call.
DirectCall ==
    /\ ~From("Deactivating") /\ requests < MaxRequests
    /\ requests' = requests + 1
    /\ directCount' = directCount + 1
    /\ UNCHANGED <<adapterVars, connVars, dispatchCount, threadVars, sleeping, undisturbed,
                   calls>>

\* Mutant of EndDirectCall: waiting threads are not told.
EndDirectCallSilently ==
    /\ directCount > 0
    /\ directCount' = directCount - 1
    /\ UNCHANGED <<adapterVars, connVars, dispatchCount, requests, threadVars, sleeping,
                   undisturbed, calls>>

EndDirectCall ==
    /\ directCount > 0
    /\ directCount' = directCount - 1
    /\ IF directCount = 1 THEN NotifyAll ELSE UNCHANGED sleeping
    /\ UNCHANGED <<adapterVars, connVars, dispatchCount, requests, threadVars, undisturbed,
                   calls>>

-----------------------------------------------------------------------------

Step(t) ==
    \/ Activate(t) \/ Register(t) \/ EndActivate(t)
    \/ Hold(t) \/ WaitForHold(t) \/ Refresh(t) \/ EndRefresh(t)
    \/ Deactivate(t) \/ Unregister(t) \/ CloseFactory(t) \/ EndDeactivate(t)
    \/ WaitForDeactivate(t) \/ WaitFactory(t) \/ WaitConnection(t) \/ Destroy(t) \/ Clean(t)

Closing(c) ==
    \/ conn[c] = "ClosingPending" /\ Lose(c)
    \/ FinishConnection(c) \/ Validate(c) \/ StartCompleted(c)

Next ==
    \/ \E t \in Threads :
          \/ Step(t)
          \/ \E o \in Ops : Call(t, o)
          \/ \E o \in NestedOps, c \in Connections : NestedCall(t, c, o)
    \/ \E c \in Connections :
          \/ Accept(c) \/ Closing(c) \/ Lose(c)
          \/ Pick(c) \/ Dispatch(c) \/ NoRequest(c) \/ EndDispatch(c)
    \/ FinishFactory \/ DirectCall \/ EndDirectCall

\* Threads run, connections that close are closed in the end, the registry answers.
\* Nothing says that user code returns.
Fairness ==
    /\ \A t \in Threads : WF_vars(Step(t))
    /\ \A c \in Connections : WF_vars(Closing(c))
    /\ WF_vars(FinishFactory)

Spec == Init /\ [][Next]_vars /\ Fairness

-----------------------------------------------------------------------------
(* Type correctness, and who is in which state.                            *)
TypeOK ==
    /\ state \in {States[n] : n \in DOMAIN States}
    /\ factory \in {"Holding", "Active", "Closed", "Finished"}
    /\ conn \in [Connections -> {"None", "NotValidated", "Holding", "Active", "Closing",
                                 "ClosingPending", "Closed", "Finished"}]
    /\ starting \subseteq Connections /\ picked \subseteq Connections
    /\ dispatchCount \in [Connections -> Nat] /\ directCount \in Nat
    /\ registry \in BOOLEAN /\ unreachable \in BOOLEAN
    /\ op \in [Threads -> Ops \cup {None}]
    /\ at \in [Threads -> Places]
    /\ within \in [Threads -> Connections \cup {None}]
    /\ waitsFor \in [Threads -> SUBSET Connections]
    /\ sleeping \subseteq Threads /\ undisturbed \subseteq Threads
    /\ calls \in 0 .. MaxCalls /\ requests \in 0 .. MaxRequests
    /\ \A t \in Threads : (op[t] = None) <=> (at[t] = "none")
    /\ \A c \in Connections : Plain(c) >= 0

-----------------------------------------------------------------------------
(* Safety.                                                                 *)

\* When the servants are destroyed nothing is dispatched any more, neither for a
\* connection nor for a collocated call, whatever calls and closures overlapped
\* (ConnectionI.cpp, waitUntilFinished: "no outstanding calls when deactivate() is
\* called on the servant locators").
QuietWhenDestroyed ==
    From("Destroying") =>
        /\ directCount = 0
        /\ \A c \in Connections : dispatchCount[c] = 0 /\ conn[c] \in {"None", "Finished"}

\* The requests of c that are dispatched, or may be although c is held.
Remaining(c) == dispatchCount[c] + (IF c \in picked THEN 1 ELSE 0)

\* When waitForHold has returned, and until an activation, no connection reads requests,
\* but for one message that the pool had selected together with a write before the hold
\* (ConnectionI::message and setState): no second one follows, and no connection that is
\* accepted or validated meanwhile becomes active.
OneAfterHold ==
    \A t \in undisturbed : op[t] # "waitForHold" =>
        \A c \in Connections : conn[c] # "Active" /\ Remaining(c) <= 1

\* Updates of the locator registry are not out of order: a deactivated adapter is not
\* listed, if the registry could be reached.  This is so without OverlapsStartup only:
\* refreshPublishedEndpoints tells the registry without the lock, and its update may come
\* after that of a deactivate which overlaps it.
NotListed == From("Deactivated") /\ ~unreachable => ~registry

\* The assertions at the end of activate and of deactivate: the state that keeps others
\* out is still there.
StillActivating ==
    \A t \in Threads : /\ at[t] = "activating" => state = "Activating"
                       /\ at[t] = "deactivating" => state = "Deactivating"

\* Deactivation is final: the state never goes back.
DeactivationIsFinal == [][From("Deactivating") => Rank(state') >= Rank(state)]_vars

-----------------------------------------------------------------------------
(* Liveness.                                                               *)

\* deactivate returns although dispatches, among them its own caller's, do not.
DeactivateReturns == \A t \in Threads : op[t] = "deactivate" ~> op[t] = None

\* destroy returns, if the requests that are being executed end.
DestroyReturns ==
    (/\ []<>(directCount = 0)
     /\ \A c \in Connections : []<>(dispatchCount[c] = 0))
        => \A t \in Threads : op[t] = "destroy" ~> op[t] = None

=============================================================================
