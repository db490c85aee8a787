------------------------------ MODULE Invocation ------------------------------
(***************************************************************************)
(* Remote calls in the Ice run time: a caller's thread, the retry queue,   *)
(* the proxy's request handler and both ends of its connections            *)
(* (OutgoingAsync.cpp, Proxy.cpp, ProxyFactory.cpp, RetryQueue.cpp,        *)
(* ConnectRequestHandler.cpp and ConnectionI.cpp of zeroc-ice-3.7.2).      *)
(*                                                                         *)
(* Whether a call may be sent again depends on what its client can know:   *)
(* a request that was not written completely has not been executed, and a  *)
(* server that closes a connection gracefully promises that it executes    *)
(* none of the requests it has not answered.  Everything else a lost       *)
(* connection leaves open.                                                 *)
(*                                                                         *)
(* Calls are two-way and go through one proxy to one server.  A connection *)
(* and the connect request handler that waits for it share a number.       *)
(***************************************************************************)
EXTENDS Naturals, Sequences, FiniteSets, SequencesExt

CONSTANTS
    Invocations,          \* the calls, each made once
    Idempotent,           \* those whose operation is idempotent
    Cancelable,           \* those their caller may cancel
    Retries,              \* the length of Ice.RetryIntervals
    MaxConnections,       \* bound: connections the client may try to establish
    MaxFaults,            \* bound: crashes of the server and broken connections
    ReadFailsAfterWrite,  \* may a read fail in the step that wrote a request's end?
    None, CloseMsg, RetryTask

Exceptions == {"CloseConnection", "ConnectionLost", "ManuallyClosed", "Idle",
               "ConnectFailed", "Canceled"}

ASSUME InvocationAssumption ==
    /\ IsFiniteSet(Invocations)
    /\ Idempotent \subseteq Invocations
    /\ Cancelable \subseteq Invocations
    /\ Retries \in Nat /\ MaxConnections \in Nat /\ MaxFaults \in Nat
    /\ ReadFailsAfterWrite \in BOOLEAN
    /\ None \notin Nat \cup Exceptions /\ RetryTask \notin Nat /\ None # RetryTask
    /\ CloseMsg \notin Invocations

Conns == 1 .. MaxConnections

VARIABLES
    call,         \* call[i]: the invocation i (a ProxyOutgoingAsyncBase)
    canceled,     \* the calls with a _cancellationException
    cancelTo,     \* cancelTo[i]: the handler a cancel() of i is about to notify
    handler,      \* the proxy's _requestHandler
    requests,     \* requests[k]: the calls queued in connect request handler k
    cState,       \* cState[k]: the state of the client's end
    cException,   \* cException[k]: why it closes
    sendStreams,  \* sendStreams[k]: what is not written or not acknowledged yet
    writing,      \* writing[k]: "idle", "blocked", or "written" and not acknowledged
    sState,       \* sState[k]: the state of the server's end
    dispatching,  \* dispatching[k]: the requests being dispatched
    toServer,     \* toServer[k], toClient[k]: what is on its way
    toClient,
    broken,       \* the connections whose transport has failed
    faults,       \* how many faults there were
    executed      \* history: <<i, k>> if i was executed for a request on k

clientEnd == <<cState, cException, sendStreams, writing>>
serverEnd == <<sState, dispatching, executed>>
cancelVars == <<canceled, cancelTo>>
faultVars == <<broken, faults>>
vars == <<call, cancelVars, handler, requests, clientEnd, serverEnd, toServer, toClient,
          faultVars>>

Stages == {"idle", "ready", "bound", "queued", "out", "retrying", "answered", "failed"}
Completed == {"answered", "failed"}

Init ==
    /\ call        = [i \in Invocations |-> [stage |-> "idle", via |-> None, cnt |-> 0,
                                             sent |-> FALSE, why |-> None]]
    /\ canceled    = {}
    /\ cancelTo    = [i \in Invocations |-> None]
    /\ handler     = None
    /\ requests    = [k \in Conns |-> <<>>]
    /\ cState      = [k \in Conns |-> "Unused"]
    /\ cException  = [k \in Conns |-> None]
    /\ sendStreams = [k \in Conns |-> <<>>]
    /\ writing     = [k \in Conns |-> "idle"]
    /\ sState      = [k \in Conns |-> "Unused"]
    /\ dispatching = [k \in Conns |-> {}]
    /\ toServer    = [k \in Conns |-> <<>>]
    /\ toClient    = [k \in Conns |-> <<>>]
    /\ broken      = {}
    /\ faults      = 0
    /\ executed    = {}

-----------------------------------------------------------------------------
(* Exceptions and retries.                                                 *)

\* Mutant of MayRepeat: whatever the server has closed is repeated.
MayRepeatLost(i, ex) ==
    ~call[i].sent \/ i \in Idempotent \/ ex \in {"CloseConnection", "ConnectionLost"}

\* Repeating i cannot execute it twice, as far as its client knows.
MayRepeat(i, ex) == ~call[i].sent \/ i \in Idempotent \/ ex = "CloseConnection"

\* A graceful closure is retried once more than the intervals allow.
RetryLeft(i, ex) ==
    \/ call[i].cnt < Retries
    \/ call[i].cnt = Retries /\ ex = "CloseConnection"

Retried(i, ex) ==
    /\ MayRepeat(i, ex)
    /\ ex \notin {"ManuallyClosed", "Canceled"}
    /\ RetryLeft(i, ex)

Fail(i, ex) == [call[i] EXCEPT !.stage = "failed", !.via = None, !.why = ex]

\* Mutant of AfterException: the retry is not counted.
AfterExceptionUncounted(i, ex) ==
    IF Retried(i, ex)
    THEN IF i \in canceled THEN Fail(i, "Canceled")
         ELSE [call[i] EXCEPT !.stage = "retrying", !.via = None]
    ELSE Fail(i, ex)

\* exception(ex): the retry queue takes i, unless i may not be retried, or was
\* canceled (the queue then throws the cancellation).
AfterException(i, ex) ==
    IF Retried(i, ex)
    THEN IF i \in canceled THEN Fail(i, "Canceled")
         ELSE [call[i] EXCEPT !.stage = "retrying", !.via = None, !.cnt = @ + 1]
    ELSE Fail(i, ex)

\* The same in the loop of invokeImpl, which tries again at once.
AfterThrow(i, ex) ==
    IF Retried(i, ex)
    THEN [call[i] EXCEPT !.stage = "ready", !.via = None, !.cnt = @ + 1, !.sent = FALSE]
    ELSE Fail(i, ex)

\* RetryException: the connection was closed before i was sent; not counted.
AfterRetryException(i) ==
    IF call[i].stage = "bound" THEN [call[i] EXCEPT !.stage = "ready", !.via = None]
    ELSE IF i \in canceled THEN Fail(i, "Canceled")
    ELSE [call[i] EXCEPT !.stage = "retrying", !.via = None]

\* Mutant of ClearHandler: the proxy keeps the handler of a connection that closed.
ClearHandlerKept(k) == handler' = IF handler = k /\ cState[k] = "Failed" THEN None ELSE handler

\* The proxy forgets the request handler the exception came from.
ClearHandler(k) == handler' = IF handler = k THEN None ELSE handler

\* The requests in the connection's _asyncRequests.
Outstanding(k) == {i \in Invocations : call[i].stage = "out" /\ call[i].via = k}

\* Someone is inside message() on the client's end and holds its lock.
Unlocked(k) == writing[k] # "written"

Flushing(k) == cState[k] # "Connecting" /\ requests[k] # <<>>

-----------------------------------------------------------------------------
(* The caller's thread.                                                    *)

Invoke(i) ==
    /\ call[i].stage = "idle"
    /\ call' = [call EXCEPT ![i].stage = "ready"]
    /\ UNCHANGED <<cancelVars, handler, requests, clientEnd, serverEnd, toServer, toClient,
                   faultVars>>

Usable == {k \in Conns : cState[k] \in {"Connecting", "Active"}}
Unused == {k \in Conns : cState[k] = "Unused"}

\* _getRequestHandler: the cached one, else one for a connection that is there or
\* being established, else a new connection.  Without one left (a bound of the
\* model) the server counts as unreachable.
GetRequestHandler(i) ==
    /\ call[i].stage = "ready"
    /\ \/ /\ handler # None
          /\ call' = [call EXCEPT ![i].stage = "bound", ![i].via = handler]
          /\ UNCHANGED <<handler, cState>>
       \/ /\ handler = None
          /\ \E k \in Usable :
                /\ call' = [call EXCEPT ![i].stage = "bound", ![i].via = k]
                /\ handler' = k
          /\ UNCHANGED cState
       \/ /\ handler = None /\ Usable = {} /\ Unused # {}
          /\ \E k \in Unused :
                /\ \A n \in Unused : k <= n
                /\ call' = [call EXCEPT ![i].stage = "bound", ![i].via = k]
                /\ handler' = k
                /\ cState' = [cState EXCEPT ![k] = "Connecting"]
       \/ /\ handler = None /\ Usable = {} /\ Unused = {}
          /\ call' = [call EXCEPT ![i] = AfterThrow(i, "ConnectFailed")]
          /\ UNCHANGED <<handler, cState>>
    /\ UNCHANGED <<cancelVars, requests, cException, sendStreams, writing, serverEnd,
                   toServer, toClient, faultVars>>

\* A write on k may fail: the transport is broken or the peer has closed it.
MayFail(k) == k \in broken \/ sState[k] = "Closed"

Close(k, state, ex) ==
    /\ cState' = [cState EXCEPT ![k] = state]
    /\ cException' = [cException EXCEPT ![k] = IF @ = None THEN ex ELSE @]

\* Whoever writes to an end that is closed writes to nobody.
ToServer(k, m) ==
    toServer' = IF sState[k] = "Closed" THEN toServer
                ELSE [toServer EXCEPT ![k] = Append(@, m)]

ToClient(k, ms) ==
    toClient' = IF cState[k] = "Finished" \/ sState[k] = "Closed" THEN toClient
                ELSE [toClient EXCEPT ![k] = @ \o ms]

\* sendAsyncRequest of an active connection: the request is written, the write
\* blocks, the request queues behind others, or the write fails.
SendOn(i, k) ==
    LET out == [call[i] EXCEPT !.stage = "out"]
    IN  \/ /\ sendStreams[k] = <<>>
           /\ call' = [call EXCEPT ![i] = [out EXCEPT !.sent = TRUE]]
           /\ ToServer(k, i)
           /\ UNCHANGED <<handler, clientEnd>>
        \/ /\ call' = [call EXCEPT ![i] = out]
           /\ sendStreams' = [sendStreams EXCEPT ![k] = Append(@, i)]
           /\ writing' = [writing EXCEPT ![k] = "blocked"]
           /\ UNCHANGED <<handler, cState, cException, toServer>>
        \/ /\ sendStreams[k] = <<>> /\ MayFail(k)
           /\ Close(k, "Closed", "ConnectionLost")
           /\ call' = [call EXCEPT ![i] = IF @.stage = "bound"
                                          THEN AfterThrow(i, "ConnectionLost")
                                          ELSE AfterException(i, "ConnectionLost")]
           /\ ClearHandler(k)
           /\ UNCHANGED <<sendStreams, writing, toServer>>

\* invokeRemote over k, from the caller's thread or from the flush: the client's
\* end is closing (RetryException), or i was canceled, or i is sent.
InvokeRemote(i, k) ==
    \/ /\ cState[k] \in {"Closing", "ClosingPending", "Closed", "Finished"}
       /\ call' = [call EXCEPT ![i] = AfterRetryException(i)]
       /\ ClearHandler(k)
       /\ UNCHANGED <<clientEnd, toServer>>
    \/ /\ cState[k] = "Active" /\ i \in canceled
       /\ call' = [call EXCEPT ![i] = Fail(i, "Canceled")]
       /\ ClearHandler(k)
       /\ UNCHANGED <<clientEnd, toServer>>
    \/ /\ cState[k] = "Active" /\ i \notin canceled
       /\ SendOn(i, k)

\* The handler has a connection, and nobody flushes or holds its lock.
Send(i) ==
    /\ call[i].stage = "bound"
    /\ LET k == call[i].via
       IN  /\ cState[k] \notin {"Connecting", "Failed"}
           /\ Unlocked(k) /\ ~Flushing(k)
           /\ InvokeRemote(i, k)
    /\ UNCHANGED <<cancelVars, requests, serverEnd, toClient, faultVars>>

\* The connection is being established, or could not be.
Queue(i) ==
    /\ call[i].stage = "bound"
    /\ LET k == call[i].via
       IN  \/ /\ cState[k] = "Connecting" /\ i \notin canceled
              /\ call' = [call EXCEPT ![i].stage = "queued"]
              /\ requests' = [requests EXCEPT ![k] = Append(@, i)]
              /\ UNCHANGED handler
           \/ /\ cState[k] \in {"Connecting", "Failed"} /\ i \in canceled
              /\ call' = [call EXCEPT ![i] = Fail(i, "Canceled")]
              /\ ClearHandler(k)
              /\ UNCHANGED requests
           \/ /\ cState[k] = "Failed" /\ i \notin canceled
              /\ call' = [call EXCEPT ![i] = AfterThrow(i, "ConnectFailed")]
              /\ ClearHandler(k)
              /\ UNCHANGED requests
    /\ UNCHANGED <<cancelVars, clientEnd, serverEnd, toServer, toClient, faultVars>>

\* Mutant of Retry: _sent is not reset.
RetryStillSent(i) ==
    /\ call[i].stage = "retrying"
    /\ call' = [call EXCEPT ![i].stage = "ready"]
    /\ UNCHANGED <<cancelVars, handler, requests, clientEnd, serverEnd, toServer, toClient,
                   faultVars>>

\* The timer runs the retry task: the loop of invokeImpl starts again.
Retry(i) ==
    /\ call[i].stage = "retrying"
    /\ call' = [call EXCEPT ![i].stage = "ready", ![i].sent = FALSE]
    /\ UNCHANGED <<cancelVars, handler, requests, clientEnd, serverEnd, toServer, toClient,
                   faultVars>>

-----------------------------------------------------------------------------
(* Cancellation: cancel() leaves the exception with the call, copies its   *)
(* handler and then, in a second step, notifies that handler.              *)

Cancel(i) ==
    /\ i \in Cancelable \ canceled
    /\ call[i].stage \notin Completed \cup {"idle"}
    /\ canceled' = canceled \cup {i}
    /\ cancelTo' = [cancelTo EXCEPT ![i] =
                       CASE call[i].stage \in {"queued", "out"} -> call[i].via
                         [] call[i].stage = "retrying"          -> RetryTask
                         [] OTHER                               -> None]
    /\ UNCHANGED <<call, handler, requests, clientEnd, serverEnd, toServer, toClient,
                   faultVars>>

\* asyncRequestCanceled finds i where the handler keeps it; a connection that is
\* closed leaves i to finish().
CancelFinds(i) ==
    LET k == cancelTo[i]
    IN  \/ k = RetryTask /\ call[i].stage = "retrying"
        \/ /\ k \in Conns /\ call[i].via = k
           /\ \/ call[i].stage = "queued"
              \/ call[i].stage = "out" /\ cState[k] \notin {"Closed", "Finished"}

Position(queue, i) == CHOOSE n \in DOMAIN queue : queue[n] = i

\* The request that is being written stays in sendStreams without its call.
Withdraw(queue, i) ==
    IF Contains(queue, i) /\ Head(queue) # i THEN RemoveAt(queue, Position(queue, i))
    ELSE queue

NotifyHandler(i) ==
    /\ cancelTo[i] # None
    /\ cancelTo[i] \in Conns => Unlocked(cancelTo[i]) /\ ~Flushing(cancelTo[i])
    /\ cancelTo' = [cancelTo EXCEPT ![i] = None]
    /\ IF CancelFinds(i)
       THEN /\ call' = [call EXCEPT ![i] = Fail(i, "Canceled")]
            /\ ClearHandler(call[i].via)
            /\ requests' = IF call[i].stage = "queued"
                           THEN [requests EXCEPT ![call[i].via] = RemoveAt(@, Position(@, i))]
                           ELSE requests
            /\ sendStreams' = IF call[i].stage = "out"
                              THEN [sendStreams EXCEPT ![call[i].via] = Withdraw(@, i)]
                              ELSE sendStreams
       ELSE UNCHANGED <<call, handler, requests, sendStreams>>
    /\ UNCHANGED <<canceled, cState, cException, writing, serverEnd, toServer, toClient,
                   faultVars>>

-----------------------------------------------------------------------------
(* The client's end of a connection, and its connect request handler.      *)

\* The connection is established and validated; the server accepted it.
Established(k) ==
    /\ cState[k] = "Connecting"
    /\ cState' = [cState EXCEPT ![k] = "Active"]
    /\ sState' = [sState EXCEPT ![k] = "Active"]
    /\ UNCHANGED <<call, cancelVars, handler, requests, cException, sendStreams, writing,
                   dispatching, executed, toServer, toClient, faultVars>>

\* setException: no connection; every queued call gets the exception.
ConnectFails(k) ==
    /\ cState[k] = "Connecting"
    /\ cState' = [cState EXCEPT ![k] = "Failed"]
    /\ requests' = [requests EXCEPT ![k] = <<>>]
    /\ call' = [i \in Invocations |->
                   IF call[i].stage = "queued" /\ call[i].via = k
                   THEN AfterException(i, "ConnectFailed") ELSE call[i]]
    /\ ClearHandler(k)
    /\ UNCHANGED <<cancelVars, cException, sendStreams, writing, serverEnd, toServer,
                   toClient, faultVars>>

\* flushRequests sends the queued calls in order; nobody else sends meanwhile.
Flush(k) ==
    /\ Flushing(k) /\ Unlocked(k)
    /\ InvokeRemote(Head(requests[k]), k)
    /\ requests' = [requests EXCEPT ![k] = Tail(@)]
    /\ UNCHANGED <<cancelVars, serverEnd, toClient, faultVars>>

Open(k) == cState[k] \in {"Active", "Closing", "ClosingPending"}

\* message(): the socket took the rest of the request at the head.
FinishWrite(k) ==
    /\ writing[k] = "blocked" /\ Open(k)
    /\ ToServer(k, Head(sendStreams[k]))
    /\ writing' = [writing EXCEPT ![k] = "written"]
    /\ UNCHANGED <<call, cancelVars, handler, requests, cState, cException, sendStreams,
                   serverEnd, toClient, faultVars>>

\* sendNextMessage, later in the same message(): the request counts as sent, and
\* the next one is begun, unless the connection is closing for good.
Acknowledge(k) ==
    /\ writing[k] = "written"
    /\ LET i    == Head(sendStreams[k])
           rest == Tail(sendStreams[k])
       IN  /\ call' = IF i \in Outstanding(k) THEN [call EXCEPT ![i].sent = TRUE] ELSE call
           /\ sendStreams' = [sendStreams EXCEPT ![k] = rest]
           /\ writing' = [writing EXCEPT ![k] = IF rest = <<>> THEN "idle" ELSE "blocked"]
           /\ cState' = [cState EXCEPT ![k] = IF @ = "Closing" /\ rest = <<>>
                                              THEN "ClosingPending" ELSE @]
    /\ UNCHANGED <<cancelVars, handler, requests, cException, serverEnd, toServer, toClient,
                   faultVars>>

\* Mutant of ClientReads: a reply completes its call, also one that was canceled.
ClientReadsLate(k) ==
    /\ Open(k) /\ toClient[k] # <<>>
    /\ toClient' = [toClient EXCEPT ![k] = Tail(@)]
    /\ LET m == Head(toClient[k])
       IN  IF m = CloseMsg
           THEN Close(k, "Closed", "CloseConnection") /\ UNCHANGED call
           ELSE /\ call' = [call EXCEPT ![m].stage = "answered", ![m].via = None]
                /\ UNCHANGED <<cState, cException>>
    /\ UNCHANGED <<cancelVars, handler, requests, sendStreams, writing, serverEnd, toServer,
                   faultVars>>

\* parseMessage: a reply completes its call, if it still waits; a close connection
\* message closes the connection.
ClientReads(k) ==
    /\ Open(k) /\ toClient[k] # <<>>
    /\ toClient' = [toClient EXCEPT ![k] = Tail(@)]
    /\ LET m == Head(toClient[k])
       IN  IF m = CloseMsg
           THEN Close(k, "Closed", "CloseConnection") /\ UNCHANGED call
           ELSE /\ call' = IF m \in Outstanding(k)
                           THEN [call EXCEPT ![m].stage = "answered", ![m].via = None]
                           ELSE call
                /\ UNCHANGED <<cState, cException>>
    /\ UNCHANGED <<cancelVars, handler, requests, sendStreams, writing, serverEnd, toServer,
                   faultVars>>

\* A read fails or a timeout expires.  In the step that wrote the end of a request
\* (message() before sendNextMessage) only the read can.
LoseConnection(k) ==
    /\ Open(k)
    /\ k \in broken \/ (sState[k] = "Closed" /\ toClient[k] = <<>>)
    /\ Unlocked(k) \/ ReadFailsAfterWrite
    /\ Close(k, "Closed", "ConnectionLost")
    /\ writing' = [writing EXCEPT ![k] = "idle"]
    /\ UNCHANGED <<call, cancelVars, handler, requests, sendStreams, serverEnd, toServer,
                   toClient, faultVars>>

\* finish(): every call that is outstanding on k gets the exception of k.
Finish(k) ==
    /\ cState[k] = "Closed" /\ Unlocked(k)
    /\ cState' = [cState EXCEPT ![k] = "Finished"]
    /\ call' = [i \in Invocations |-> IF i \in Outstanding(k)
                                      THEN AfterException(i, cException[k]) ELSE call[i]]
    /\ IF Outstanding(k) = {} THEN UNCHANGED handler ELSE ClearHandler(k)
    /\ sendStreams' = [sendStreams EXCEPT ![k] = <<>>]
    /\ writing' = [writing EXCEPT ![k] = "idle"]
    /\ toClient' = [toClient EXCEPT ![k] = <<>>]
    /\ UNCHANGED <<cancelVars, requests, cException, serverEnd, toServer, faultVars>>

\* initiateShutdown: the close connection message is written, or queued.
ShutDown(k, ex) ==
    \/ /\ sendStreams[k] = <<>>
       /\ Close(k, "ClosingPending", ex)
       /\ ToServer(k, CloseMsg)
       /\ UNCHANGED <<sendStreams, writing>>
    \/ /\ Close(k, "Closing", ex)
       /\ sendStreams' = [sendStreams EXCEPT ![k] = Append(@, CloseMsg)]
       /\ writing' = [writing EXCEPT ![k] = "blocked"]
       /\ UNCHANGED toServer

\* Connection management closes an idle connection, the application any.
ClientCloses(k) ==
    /\ cState[k] = "Active" /\ Unlocked(k)
    /\ \/ Outstanding(k) = {} /\ sendStreams[k] = <<>> /\ ShutDown(k, "Idle")
       \/ ShutDown(k, "ManuallyClosed")
    /\ UNCHANGED <<call, cancelVars, handler, requests, serverEnd, toClient, faultVars>>

-----------------------------------------------------------------------------
(* The server's end.  What it writes is on its way at once.                *)

\* StateClosed: what has not been read from the socket never will be.
ServerEndCloses(k) ==
    /\ sState' = [sState EXCEPT ![k] = "Closed"]
    /\ toServer' = [toServer EXCEPT ![k] = <<>>]

\* parseMessage: a request is dispatched, unless the server's end is closing (it
\* is ignored, the client will retry); a close connection message closes it.
ServerReads(k) ==
    /\ sState[k] \in {"Active", "Closing", "ClosingPending"} /\ toServer[k] # <<>>
    /\ LET m == Head(toServer[k])
       IN  IF m = CloseMsg
           THEN ServerEndCloses(k) /\ UNCHANGED dispatching
           ELSE /\ dispatching' = [dispatching EXCEPT ![k] =
                                      IF sState[k] = "Active" THEN @ \cup {m} ELSE @]
                /\ toServer' = [toServer EXCEPT ![k] = Tail(@)]
                /\ UNCHANGED sState
    /\ UNCHANGED <<call, cancelVars, handler, requests, clientEnd, toClient, faultVars,
                   executed>>

\* A thread of the pool executes the operation.
Execute(i, k) ==
    /\ i \in dispatching[k] /\ <<i, k>> \notin executed
    /\ executed' = executed \cup {<<i, k>>}
    /\ UNCHANGED <<call, cancelVars, handler, requests, clientEnd, sState, dispatching,
                   toServer, toClient, faultVars>>

\* sendResponse: the reply is sent unless the connection is closed; the last one
\* of a closing connection is followed by the close connection message.
SendResponse(i, k) ==
    /\ i \in dispatching[k] /\ <<i, k>> \in executed
    /\ dispatching' = [dispatching EXCEPT ![k] = @ \ {i}]
    /\ LET last == sState[k] = "Closing" /\ dispatching[k] = {i}
       IN  /\ ToClient(k, IF last THEN <<i, CloseMsg>> ELSE <<i>>)
           /\ sState' = [sState EXCEPT ![k] = IF last THEN "ClosingPending" ELSE @]
    /\ UNCHANGED <<call, cancelVars, handler, requests, clientEnd, executed, toServer,
                   faultVars>>

\* Mutant of ServerCloses: the server does not wait for its dispatches.
ServerClosesAtOnce(k) ==
    /\ sState[k] = "Active"
    /\ sState' = [sState EXCEPT ![k] = "ClosingPending"]
    /\ ToClient(k, <<CloseMsg>>)
    /\ UNCHANGED <<call, cancelVars, handler, requests, clientEnd, dispatching, executed,
                   toServer, faultVars>>

\* setState(StateClosing), for a deactivated adapter or an idle connection.
ServerCloses(k) ==
    /\ sState[k] = "Active"
    /\ \/ /\ dispatching[k] = {}
          /\ sState' = [sState EXCEPT ![k] = "ClosingPending"]
          /\ ToClient(k, <<CloseMsg>>)
       \/ /\ dispatching[k] # {}
          /\ sState' = [sState EXCEPT ![k] = "Closing"]
          /\ UNCHANGED toClient
    /\ UNCHANGED <<call, cancelVars, handler, requests, clientEnd, dispatching, executed,
                   toServer, faultVars>>

\* The server's end finds the connection closed by the client, or broken.
ServerLoses(k) ==
    /\ sState[k] \in {"Active", "Closing", "ClosingPending"}
    /\ k \in broken \/ (cState[k] = "Finished" /\ toServer[k] = <<>>)
    /\ ServerEndCloses(k)
    /\ UNCHANGED <<call, cancelVars, handler, requests, clientEnd, dispatching, executed,
                   toClient, faultVars>>

-----------------------------------------------------------------------------
(* Faults.                                                                 *)

\* The transport of k fails: each end may still read what has arrived.
Break(k) ==
    /\ faults < MaxFaults /\ k \notin broken
    /\ cState[k] \in {"Active", "Closing", "ClosingPending"}
    /\ broken' = broken \cup {k}
    /\ faults' = faults + 1
    /\ UNCHANGED <<call, cancelVars, handler, requests, clientEnd, serverEnd, toServer,
                   toClient>>

\* The server dies, between any two steps, and is started again.
Crash ==
    /\ faults < MaxFaults
    /\ faults' = faults + 1
    /\ broken' = broken \cup {k \in Conns : sState[k] # "Unused"}
    /\ sState' = [k \in Conns |-> IF sState[k] = "Unused" THEN "Unused" ELSE "Closed"]
    /\ dispatching' = [k \in Conns |-> {}]
    /\ toServer' = [k \in Conns |-> <<>>]
    /\ UNCHANGED <<call, cancelVars, handler, requests, clientEnd, executed, toClient>>

\* Every call is completed: nothing needs to happen any more.
AllCompleted ==
    /\ \A i \in Invocations : call[i].stage \in Completed
    /\ UNCHANGED vars

-----------------------------------------------------------------------------

Caller(i) == GetRequestHandler(i) \/ Send(i) \/ Queue(i) \/ Retry(i) \/ NotifyHandler(i)

ClientEnd(k) ==
    FinishWrite(k) \/ Acknowledge(k) \/ ClientReads(k) \/ LoseConnection(k) \/ Finish(k)

ServerEnd(k) ==
    \/ ServerReads(k)
    \/ \E i \in Invocations : Execute(i, k) \/ SendResponse(i, k)
    \/ ServerLoses(k)

Next ==
    \/ \E i \in Invocations : Invoke(i) \/ Caller(i) \/ Cancel(i)
    \/ \E k \in Conns :
          \/ Established(k) \/ ConnectFails(k) \/ Flush(k)
          \/ ClientEnd(k) \/ ClientCloses(k)
          \/ ServerEnd(k) \/ ServerCloses(k) \/ Break(k)
    \/ Crash
    \/ AllCompleted

\* Threads run, sockets deliver what they took, a connection attempt ends.
Fairness ==
    /\ \A i \in Invocations : WF_vars(Caller(i))
    /\ \A k \in Conns :
          /\ WF_vars(Established(k) \/ ConnectFails(k))
          /\ WF_vars(Flush(k))
          /\ WF_vars(ClientEnd(k))
          /\ WF_vars(ServerEnd(k))

Spec == Init /\ [][Next]_vars /\ Fairness

-----------------------------------------------------------------------------
(* Type correctness, and the bookkeeping of a call at each of its stages.  *)
TypeOK ==
    /\ call \in [Invocations -> [stage : Stages, via : Conns \cup {None},
                                 cnt : 0 .. Retries + 1, sent : BOOLEAN,
                                 why : Exceptions \cup {None}]]
    /\ canceled \subseteq Cancelable
    /\ cancelTo \in [Invocations -> Conns \cup {None, RetryTask}]
    /\ handler \in Conns \cup {None}
    /\ requests \in [Conns -> Seq(Invocations)]
    /\ cState \in [Conns -> {"Unused", "Connecting", "Failed", "Active", "Closing",
                             "ClosingPending", "Closed", "Finished"}]
    /\ cException \in [Conns -> Exceptions \cup {None}]
    /\ sendStreams \in [Conns -> Seq(Invocations \cup {CloseMsg})]
    /\ writing \in [Conns -> {"idle", "blocked", "written"}]
    /\ sState \in [Conns -> {"Unused", "Active", "Closing", "ClosingPending", "Closed"}]
    /\ dispatching \in [Conns -> SUBSET Invocations]
    /\ toServer \in [Conns -> Seq(Invocations \cup {CloseMsg})]
    /\ toClient \in [Conns -> Seq(Invocations \cup {CloseMsg})]
    /\ broken \subseteq Conns
    /\ faults \in 0 .. MaxFaults
    /\ executed \subseteq Invocations \X Conns
    /\ \A i \in Invocations :
          /\ (call[i].stage \in {"bound", "queued", "out"}) <=> (call[i].via # None)
          /\ (call[i].stage = "failed") <=> (call[i].why # None)
          /\ call[i].stage \in {"ready", "bound", "queued"} => ~call[i].sent

-----------------------------------------------------------------------------
(* Safety.                                                                 *)

ExecutedFor(i) == {k \in Conns : <<i, k>> \in executed}

\* A call that is not idempotent is executed at most once, whatever is retried,
\* lost, canceled or restarted (Proxy.cpp, _handleException: a retry must not
\* "break at-most-once semantics").  createAccount is such a call.
AtMostOnce == \A i \in Invocations \ Idempotent : Cardinality(ExecutedFor(i)) <= 1

\* The promise of a close connection message: what is outstanding when it is read
\* has not been executed by this server and will not be, whatever is in flight.
CloseIsAPromise ==
    \A k \in Conns : toClient[k] # <<>> /\ Head(toClient[k]) = CloseMsg =>
        \A i \in Outstanding(k) : <<i, k>> \notin executed /\ i \notin dispatching[k]

\* A call is executed at most once for each connection it was sent over, and, with
\* cnt retries that count, at most on one more connection than that.
RetriesBounded == \A i \in Invocations : Cardinality(ExecutedFor(i)) <= 1 + call[i].cnt

\* Liveness: whatever is lost or canceled, every call that is made ends.
EveryCallEnds == \A i \in Invocations : call[i].stage = "ready" ~> call[i].stage \in Completed

-----------------------------------------------------------------------------
(* Refinement: the client run time keeps the promise of RemoteCall.        *)

Promise == INSTANCE RemoteCall WITH
    status <- [i \in Invocations |->
                  CASE call[i].stage \in {"idle", "answered"} -> call[i].stage
                    [] call[i].stage = "failed" ->
                          IF call[i].why = "ConnectFailed" THEN "unsent" ELSE "failed"
                    [] OTHER -> "pending"],
    runs   <- [i \in Invocations |-> Cardinality(ExecutedFor(i))]

\* Every behaviour of the run time is one that RemoteCall promises.
AtMostOnceCalls == Promise!Spec

=============================================================================
