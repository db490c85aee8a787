------------------------------ MODULE ThreadPool ------------------------------
(***************************************************************************)
(* The leader/follower thread pool that reads requests from connections    *)
(* and dispatches them (ThreadPool.cpp and Selector.cpp of zeroc-ice-3.7.2 *)
(* with epoll; the Java port has the same structure).                      *)
(*                                                                         *)
(* The leader waits in the selector and takes the first handler that is    *)
(* ready.  Reading counts as IO: before it runs user code a thread calls   *)
(* ioCompleted, which gives up leadership, makes the thread count as in    *)
(* use, and starts another thread if none is left to read.  Threads that   *)
(* are idle for too long leave the pool; a work queue, itself a handler,   *)
(* joins them, finishes closed connections and ends the pool.              *)
(***************************************************************************)
EXTENDS Integers, Sequences, FiniteSets, SequencesExt

CONSTANTS
    Connections,     \* the event handlers other than the work queue
    Configurations,  \* properties and number of processors the pool may start with
    MaxRequests,     \* bound: messages that arrive on the connections
    MaxItems,        \* bound: work items the application queues
    MaxShrinks,      \* bound: threads that leave because they are idle
    SizeLimit,       \* bound: no configuration has more threads at a time
    None, WorkQueue, Exit

Larger(a, b) == IF a < b THEN b ELSE a
Smaller(a, b) == IF a < b THEN a ELSE b

\* The constructor adjusts the properties: Size is at least 1, SizeMax at least Size, and
\* a SizeMax of -1 is one thread for each processor.
Configured(c) ==
    LET size == Larger(c.Size, 1)
        max  == Larger(IF c.SizeMax = -1 THEN c.nProcessors ELSE c.SizeMax, size)
    IN  [size |-> size, sizeMax |-> max, sizeIO |-> Smaller(max, c.nProcessors),
         serialize |-> c.Serialize]

ASSUME ThreadPoolAssumption ==
    /\ IsFiniteSet(Connections)
    /\ None \notin Connections \cup Nat /\ Exit \notin Nat /\ Exit # None
    /\ WorkQueue \notin Connections \cup {None}
    /\ MaxRequests \in Nat /\ MaxItems \in Nat /\ MaxShrinks \in Nat /\ SizeLimit \in Nat
    /\ \A c \in Configurations : /\ c.Size \in Int /\ c.SizeMax \in Int
                                 /\ c.nProcessors \in Nat \ {0} /\ c.Serialize \in BOOLEAN
                                 /\ Configured(c).sizeMax <= SizeLimit

Threads == 1 .. MaxShrinks + SizeLimit

VARIABLES
    pool,        \* _size, _sizeMax, _sizeIO, _serialize: never changed
    thread,      \* thread[t]: where t is in run(), and its ThreadPoolCurrent
    members,     \* _threads
    promote,     \* _promote: nobody leads
    inUseIO,     \* _inUseIO
    inUse,       \* _inUse
    handlers,    \* what is left of _handlers from _nextHandler on
    selected,    \* what select() returned
    wakeup,      \* select() will return: _interrupted or _selectNow
    registered,  \* the connections that are registered for reading
    disabled,    \* those that are disabled while a thread dispatches for them
    data,        \* data[h]: messages that wait in the socket of h
    arrived,     \* how many have arrived
    workItems,   \* _workQueue->_workItems
    ready,       \* is the work queue ready for the selector?
    items,       \* how many the application has queued
    destroyed    \* _destroyed

counters == <<promote, inUseIO, inUse>>
socketVars == <<registered, data, arrived>>
queueVars == <<workItems, ready, items>>
vars == <<pool, thread, members, counters, handlers, selected, wakeup, socketVars, disabled,
          queueVars, destroyed>>

Places == {"unborn", "enter", "select", "selected", "message", "join", "completing",
           "dispatching", "returned", "waiting", "notified", "done"}

Absent == [pc |-> "unborn", handler |-> None, leader |-> FALSE, ioCompleted |-> FALSE,
           target |-> None]

Init ==
    /\ pool \in {Configured(c) : c \in Configurations}
    /\ thread = [t \in Threads |-> IF t <= pool.size THEN [Absent EXCEPT !.pc = "enter"]
                                   ELSE Absent]
    /\ members = 1 .. pool.size
    /\ promote = TRUE
    /\ inUseIO = 0
    /\ inUse = 0
    /\ handlers = <<>>
    /\ selected = {}
    /\ wakeup = FALSE
    /\ registered = Connections
    /\ disabled = {}
    /\ data = [h \in Connections |-> 0]
    /\ arrived = 0
    /\ workItems = <<>>
    /\ ready = FALSE
    /\ items = 0
    /\ destroyed = FALSE

Counting == pool.sizeMax > 1

-----------------------------------------------------------------------------
(* The selector and the work queue.                                        *)

Selecting == \E t \in Threads : thread[t].pc \in {"select", "selected"}

\* checkReady: the selector learns that the work queue is ready, and wakes up.
MakeReady == ready' = TRUE /\ wakeup' = (wakeup \/ (~ready /\ Selecting))

\* queue: only the first item makes the work queue ready.
Queue(item) ==
    /\ workItems' = Append(workItems, item)
    /\ IF workItems = <<>> THEN MakeReady ELSE UNCHANGED <<ready, wakeup>>

Readable == {h \in registered \ disabled : data[h] > 0}

Eligible(h) == h = WorkQueue \/ h \in registered \ disabled

\* _nextHandler moves past what is not registered any more or disabled.
FromEligible(hs) ==
    LET ok == {n \in DOMAIN hs : Eligible(hs[n])}
    IN  IF ok = {} THEN <<>>
        ELSE SubSeq(hs, CHOOSE n \in ok : \A m \in ok : n <= m, Len(hs))

-----------------------------------------------------------------------------
(* Leadership.  ths is the threads' state so far in the same locked region,*)
(* io the value of _inUseIO.                                               *)

MustWait(hs, io) == ~promote \/ io = pool.sizeIO \/ (hs = <<>> /\ io > 0)

\* notify(): one of the threads that wait, if any.
Notified(ths) ==
    LET waiting == {t \in Threads : ths[t].pc = "waiting"}
    IN  IF waiting = {} THEN {ths}
        ELSE {[ths EXCEPT ![t].pc = "notified"] : t \in waiting}

\* Mutant of Promoted: nobody is notified unless another handler is ready.
PromotedForHandlers(ths, t, hs, io) ==
    LET given == [ths EXCEPT ![t].leader = FALSE]
    IN  IF io < pool.sizeIO /\ hs # <<>> THEN Notified(given) ELSE {given}

\* Mutant of Promoted: the thread goes on leading.
PromotedStillLeads(ths, t, hs, io) ==
    IF io < pool.sizeIO /\ (hs # <<>> \/ io = 0) THEN Notified(ths) ELSE {ths}

\* promoteFollower by t.
Promoted(ths, t, hs, io) ==
    LET given == [ths EXCEPT ![t].leader = FALSE]
    IN  IF io < pool.sizeIO /\ (hs # <<>> \/ io = 0) THEN Notified(given) ELSE {given}

\* The end of the loop's locked region, for the leader t: it takes the next handler,
\* gives up leadership while others are reading, or selects again.
NextHandler(t, hs, io) ==
    LET rest  == FromEligible(hs)
        taken == [thread EXCEPT ![t] = [pc |-> "message", handler |-> Head(rest),
                                        leader |-> TRUE, ioCompleted |-> FALSE,
                                        target |-> None]]
        idle  == [thread EXCEPT ![t] = [Absent EXCEPT !.pc = "enter", !.leader = TRUE]]
    IN  CASE rest # <<>> /\ Counting ->
                /\ handlers' = Tail(rest)
                /\ inUseIO' = io + 1
                /\ IF Tail(rest) # <<>> /\ io + 1 < pool.sizeIO
                   THEN promote' = TRUE /\ thread' \in Promoted(taken, t, Tail(rest), io + 1)
                   ELSE promote' = FALSE /\ thread' = taken
                /\ UNCHANGED wakeup
          [] rest # <<>> /\ ~Counting ->
                /\ handlers' = Tail(rest)
                /\ thread' = taken
                /\ promote' = FALSE /\ inUseIO' = io
                /\ UNCHANGED wakeup
          [] rest = <<>> /\ io > 0 ->
                /\ handlers' = <<>>
                /\ promote' = TRUE /\ inUseIO' = io
                /\ thread' \in Promoted(idle, t, <<>>, io)
                /\ UNCHANGED wakeup
          [] OTHER ->
                /\ handlers' = <<>>
                /\ thread' = [idle EXCEPT ![t].pc = "select"]
                /\ wakeup' = ready
                /\ promote' = FALSE /\ inUseIO' = io

\* Whoever does not lead waits in followerWait, or becomes the leader.
Lead(t, io) ==
    IF ~thread[t].leader /\ MustWait(handlers, io)
    THEN /\ thread' = [thread EXCEPT ![t] = [Absent EXCEPT !.pc = "waiting"]]
         /\ inUseIO' = io
         /\ UNCHANGED <<promote, handlers, wakeup>>
    ELSE NextHandler(t, handlers, io)

-----------------------------------------------------------------------------
(* The loop of run().                                                      *)

\* A new thread, or one that has given up leadership.
Enter(t) ==
    /\ thread[t].pc = "enter"
    /\ Lead(t, inUseIO)
    /\ UNCHANGED <<pool, members, inUse, selected, socketVars, disabled, queueVars, destroyed>>

Notify(t) ==
    /\ thread[t].pc = "notified"
    /\ Lead(t, inUseIO)
    /\ UNCHANGED <<pool, members, inUse, selected, socketVars, disabled, queueVars, destroyed>>

\* timedWait times out: t leaves the pool and has itself joined, unless it became
\* needed meanwhile or the pool is being destroyed.
TimedOut(t) ==
    /\ thread[t].pc = "waiting"
    /\ IF MustWait(handlers, inUseIO)
       THEN /\ ~destroyed /\ Cardinality({u \in Threads : thread[u].pc # "unborn"})
                                - Cardinality(members) < MaxShrinks
            /\ members' = members \ {t}
            /\ thread' = [thread EXCEPT ![t] = [Absent EXCEPT !.pc = "done"]]
            /\ Queue([kind |-> "join", of |-> t])
            /\ UNCHANGED <<promote, inUseIO, handlers, items>>
       ELSE Lead(t, inUseIO) /\ UNCHANGED <<members, queueVars>>
    /\ UNCHANGED <<pool, inUse, selected, socketVars, disabled, destroyed>>

\* select() returns what can be read at that moment, without the lock.
Select(t) ==
    /\ thread[t].pc = "select"
    /\ wakeup \/ Readable # {}
    /\ selected' = Readable
    /\ thread' = [thread EXCEPT ![t].pc = "selected"]
    /\ UNCHANGED <<pool, members, counters, handlers, wakeup, socketVars, disabled, queueVars,
                   destroyed>>

\* finishSelect: the work queue comes last.
FinishSelect(t) ==
    /\ thread[t].pc = "selected"
    /\ selected' = {}
    /\ \E hs \in SetToSeqs(selected) :
          NextHandler(t, hs \o (IF ready THEN <<WorkQueue>> ELSE <<>>), inUseIO)
    /\ UNCHANGED <<pool, members, inUse, socketVars, disabled, queueVars, destroyed>>

\* message() of a connection reads a part of a request, or all of it, and then calls
\* ioCompleted; a connection that was closed meanwhile does nothing.
Read(t) ==
    LET h == thread[t].handler
    IN  /\ thread[t].pc = "message" /\ h \in Connections
        /\ IF h \in registered /\ data[h] > 0
           THEN /\ data' = [data EXCEPT ![h] = @ - 1]
                /\ \E pc \in {"completing", "returned"} :
                      thread' = [thread EXCEPT ![t].pc = pc]
           ELSE /\ thread' = [thread EXCEPT ![t].pc = "returned"]
                /\ UNCHANGED data
        /\ UNCHANGED <<pool, members, counters, handlers, selected, wakeup, registered,
                       arrived, disabled, queueVars, destroyed>>

\* Mutant of AfterItem: an empty queue is not taken for the end of the pool.
AfterItemNever ==
    IF workItems = <<>> THEN {[pc |-> "returned", target |-> None]}
    ELSE LET item == Head(workItems)
         IN  IF item.kind = "join" THEN {[pc |-> "join", target |-> item.of]}
             ELSE {[pc |-> "completing", target |-> None]}

\* What the first item has its thread do: the item of a thread that left joins it; user
\* code needs ioCompleted, and a finished connection has callbacks to run or not; no
\* item means that the pool is destroyed and the thread ends.
AfterItem ==
    IF workItems = <<>> THEN {[pc |-> "completing", target |-> Exit]}
    ELSE LET item == Head(workItems)
         IN  CASE item.kind = "join"     -> {[pc |-> "join", target |-> item.of]}
               [] item.kind = "dispatch" -> {[pc |-> "completing", target |-> None]}
               [] item.kind = "finished" -> {[pc |-> p, target |-> None] :
                                             p \in {"completing", "returned"}}

\* Mutant of StaysReady: the end of the pool is announced once.
StaysReadyOnce(rest) == rest # <<>>

\* Once the pool is destroyed its work queue is ready for ever, for every thread.
StaysReady(rest) == rest # <<>> \/ destroyed

\* message() of the work queue.
WorkItem(t) ==
    /\ thread[t].pc = "message" /\ thread[t].handler = WorkQueue
    /\ \E a \in AfterItem :
          thread' = [thread EXCEPT ![t].pc = a.pc, ![t].target = a.target]
    /\ workItems' = IF workItems = <<>> THEN <<>> ELSE Tail(workItems)
    /\ ready' = StaysReady(workItems')
    /\ UNCHANGED <<pool, members, counters, handlers, selected, wakeup, socketVars, disabled,
                   items, destroyed>>

\* The item of a thread that left waits until it has ended.
Join(t) ==
    /\ thread[t].pc = "join" /\ thread[thread[t].target].pc = "done"
    /\ thread' = [thread EXCEPT ![t].pc = "returned", ![t].target = None]
    /\ UNCHANGED <<pool, members, counters, handlers, selected, wakeup, socketVars, disabled,
                   queueVars, destroyed>>

\* Mutant of Grows: one thread more than the limit.
GrowsBeyondMax(use) == ~destroyed /\ use <= pool.sizeMax /\ use = Cardinality(members)

\* Mutant of Grows: compared with the size the pool began with.
GrowsFromSize(use) == ~destroyed /\ use < pool.sizeMax /\ use = pool.size

\* A thread is started when all that there are are in use and the limit allows one more.
Grows(use) == ~destroyed /\ use < pool.sizeMax /\ use = Cardinality(members)

NextThread == Cardinality({t \in Threads : thread[t].pc # "unborn"}) + 1

\* ioCompleted: t does no more IO; it dispatches, or ends with the pool.
IOCompleted(t) ==
    /\ thread[t].pc = "completing"
    /\ LET io   == inUseIO - 1
           done == [thread EXCEPT ![t].ioCompleted = TRUE, ![t].target = None,
                                  ![t].pc = IF thread[t].target = Exit THEN "done"
                                            ELSE "dispatching"]
           more == Grows(inUse + 1)
           Born(ths) == IF more THEN [ths EXCEPT ![NextThread].pc = "enter"] ELSE ths
       IN  IF ~Counting
           THEN thread' = done /\ UNCHANGED <<counters, members, disabled>>
           ELSE /\ inUseIO' = io
                /\ inUse' = inUse + 1
                /\ disabled' = IF ~destroyed /\ pool.serialize /\ thread[t].handler # WorkQueue
                               THEN disabled \cup {thread[t].handler} ELSE disabled
                /\ promote' = (promote \/ thread[t].leader)
                /\ \E ths \in IF thread[t].leader THEN Promoted(done, t, handlers, io)
                              ELSE IF promote /\ (handlers # <<>> \/ io = 0)
                                   THEN Notified(done) ELSE {done} :
                      thread' = Born(ths)
                /\ members' = IF more THEN members \cup {NextThread} ELSE members
    /\ UNCHANGED <<pool, handlers, selected, wakeup, socketVars, queueVars, destroyed>>

\* User code returns; nothing says that it ever does.
EndDispatch(t) ==
    /\ thread[t].pc = "dispatching"
    /\ thread' = [thread EXCEPT ![t].pc = "returned"]
    /\ UNCHANGED <<pool, members, counters, handlers, selected, wakeup, socketVars, disabled,
                   queueVars, destroyed>>

\* Mutant of Returned: a thread that did IO only stays counted.
ReturnedStillInIO(t) ==
    /\ thread[t].pc = "returned"
    /\ LET completed == Counting /\ thread[t].ioCompleted
       IN  /\ disabled' = IF completed THEN disabled \ {thread[t].handler} ELSE disabled
           /\ inUse' = IF completed THEN inUse - 1 ELSE inUse
           /\ IF Counting THEN Lead(t, inUseIO) ELSE NextHandler(t, handlers, inUseIO)
    /\ UNCHANGED <<pool, members, selected, socketVars, queueVars, destroyed>>

\* message() has returned: the thread gives back what it counted for.
Returned(t) ==
    /\ thread[t].pc = "returned"
    /\ LET completed == Counting /\ thread[t].ioCompleted
       IN  /\ disabled' = IF completed THEN disabled \ {thread[t].handler} ELSE disabled
           /\ inUse' = IF completed THEN inUse - 1 ELSE inUse
           /\ IF Counting THEN Lead(t, IF completed THEN inUseIO ELSE inUseIO - 1)
              ELSE NextHandler(t, handlers, inUseIO)
    /\ UNCHANGED <<pool, members, selected, socketVars, queueVars, destroyed>>

-----------------------------------------------------------------------------
(* What the rest of the run time does to the pool.                         *)

Arrive(h) ==
    /\ h \in registered /\ arrived < MaxRequests
    /\ data' = [data EXCEPT ![h] = @ + 1]
    /\ arrived' = arrived + 1
    /\ UNCHANGED <<pool, thread, members, counters, handlers, selected, wakeup, registered,
                   disabled, queueVars, destroyed>>

\* finish(): a connection is closed, its finished() is left to the work queue.
Finish(h) ==
    /\ h \in registered
    /\ registered' = registered \ {h}
    /\ Queue([kind |-> "finished", of |-> h])
    /\ UNCHANGED <<pool, thread, members, counters, handlers, selected, data, arrived,
                   disabled, items, destroyed>>

\* dispatch(): a call to be run by a thread of the pool.
Dispatch ==
    /\ ~destroyed /\ items < MaxItems
    /\ items' = items + 1
    /\ Queue([kind |-> "dispatch", of |-> None])
    /\ UNCHANGED <<pool, thread, members, counters, handlers, selected, socketVars, disabled,
                   destroyed>>

\* The communicator destroys the pool after it has waited for all connections.
Destroy ==
    /\ ~destroyed /\ registered = {}
    /\ \A n \in DOMAIN workItems : workItems[n].kind # "finished"
    /\ destroyed' = TRUE
    /\ MakeReady
    /\ UNCHANGED <<pool, thread, members, counters, handlers, selected, socketVars, disabled,
                   workItems, items>>

\* joinWithAllThreads returns.
Joined ==
    /\ destroyed /\ \A t \in members : thread[t].pc = "done"
    /\ UNCHANGED vars

-----------------------------------------------------------------------------

Run(t) ==
    \/ Enter(t) \/ Notify(t) \/ Select(t) \/ FinishSelect(t) \/ Read(t)
    \/ WorkItem(t) \/ Join(t) \/ IOCompleted(t) \/ Returned(t)

Next ==
    \/ \E t \in Threads : Run(t) \/ TimedOut(t) \/ EndDispatch(t)
    \/ \E h \in Connections : Arrive(h) \/ Finish(h)
    \/ Dispatch \/ Destroy \/ Joined

\* Threads run.  Timeouts need not happen, nor need user code return.
Fairness == \A t \in Threads : WF_vars(Run(t))

Spec == Init /\ [][Next]_vars /\ Fairness

-----------------------------------------------------------------------------
(* Type correctness, and what the counters count.                          *)

InIO(t) == thread[t].pc \in {"message", "join", "completing"}
           \/ (thread[t].pc = "returned" /\ ~thread[t].ioCompleted)
InUse(t) == thread[t].pc = "dispatching" \/ (thread[t].pc = "returned" /\ thread[t].ioCompleted)

\* Types, and: the work queue is ready exactly while it has something to say.
TypeOK ==
    /\ pool \in [size : Nat \ {0}, sizeMax : Nat \ {0}, sizeIO : Nat \ {0}, serialize : BOOLEAN]
    /\ thread \in [Threads -> [pc : Places, handler : Connections \cup {None, WorkQueue},
                               leader : BOOLEAN, ioCompleted : BOOLEAN,
                               target : Threads \cup {None, Exit}]]
    /\ members \subseteq Threads
    /\ promote \in BOOLEAN /\ ready \in BOOLEAN /\ wakeup \in BOOLEAN /\ destroyed \in BOOLEAN
    /\ inUseIO \in Nat /\ inUse \in Nat /\ items \in 0 .. MaxItems
    /\ handlers \in Seq(Connections \cup {WorkQueue})
    /\ selected \subseteq Connections /\ registered \subseteq Connections
    /\ disabled \subseteq Connections
    /\ data \in [Connections -> Nat] /\ arrived \in 0 .. MaxRequests
    /\ workItems \in Seq([kind : {"join", "dispatch", "finished"},
                          of : Threads \cup Connections \cup {None}])
    /\ ready = (workItems # <<>> \/ destroyed)

\* The counters by which threads decide to wait, to grow and to lead are exact; a
\* thread that ended with the pool stays counted as in use.
CountersExact ==
    Counting =>
        /\ inUseIO = Cardinality({t \in Threads : InIO(t)})
        /\ inUse = Cardinality({t \in Threads : InUse(t)
                                      \/ (thread[t].pc = "done" /\ t \in members)})

-----------------------------------------------------------------------------
(* Safety.                                                                 *)

Leaders == {t \in Threads : thread[t].leader}

\* There is one leader, or a follower may become it: never two, never nobody.  A
\* single thread leads for ever.
OneLeader ==
    /\ Cardinality(Leaders) <= 1
    /\ promote <=> Leaders = {}

\* At most SizeMax threads run user code, and with Serialize at most one for a
\* connection: what unsynchronized servants rely on.
DispatchLimit ==
    /\ Cardinality({t \in Threads : thread[t].pc = "dispatching"}) <= pool.sizeMax
    /\ Cardinality(members) <= pool.sizeMax
    /\ pool.serialize /\ Counting => \A h \in Connections :
          Cardinality({t \in Threads : thread[t].pc = "dispatching" /\ thread[t].handler = h}) <= 1

\* Below its limit the pool always has a thread that is not running user code,
\* however threads leave and are started.
SomeoneReads ==
    ~destroyed /\ Cardinality({t \in Threads : InUse(t)}) < pool.sizeMax =>
        \E t \in members : ~InUse(t)

-----------------------------------------------------------------------------
(* Liveness.                                                               *)

\* A request is read although other dispatches never return, unless all the threads
\* there may be are taken, or its connection is serialized and busy.
RequestsAreRead ==
    \A h \in Connections :
        data[h] > 0 ~> \/ data[h] = 0 \/ h \notin registered \/ h \in disabled
                       \/ inUse = pool.sizeMax \/ (~Counting /\ \E t \in members : InUse(t))

\* If user code returns, destroying the pool ends all of its threads, the queued
\* work done.
PoolTerminates ==
    (\A t \in Threads : []<>(thread[t].pc # "dispatching"))
        => (destroyed ~> workItems = <<>> /\ \A t \in Threads : thread[t].pc \in {"unborn", "done"})

=============================================================================
