---------------------------- MODULE Invocation_once ----------------------------
(***************************************************************************)
(* Theorems about Invocation: what a close connection message promises,    *)
(* how often a call is executed, and that the run time implements          *)
(* RemoteCall.                                                             *)
(*                                                                         *)
(* How often a call ran is counted by the connections on which it ran or   *)
(* still may: it was executed or is being executed there, it is on its way *)
(* to a server that reads it, or it waits in the client to be written.     *)
(* Only sending adds one, and each further sending is paid for by a retry. *)
(* A call that is not idempotent has at most one: finish() repeats it only *)
(* when nothing of it was written (then it is not sent) or when the server *)
(* closed gracefully (then, by the promise, it was not executed).          *)
(***************************************************************************)
EXTENDS Invocation_proofs

-----------------------------------------------------------------------------
(* The inductive invariants.                                               *)

\* The close connection message is the last that the server sends, when it is done.
PromiseInv(k) ==
    /\ Contains(toClient[k], CloseMsg) \/ cException[k] = "CloseConnection" =>
          sState[k] \in {"ClosingPending", "Closed"} /\ dispatching[k] = {}
    /\ sState[k] = "ClosingPending" => dispatching[k] = {}
    /\ \A n \in DOMAIN toClient[k] : toClient[k][n] = CloseMsg => n = Len(toClient[k])

\* A reply says that its call was executed, and a call that waits on k and was
\* executed there has its reply on the way, unless the server's end was lost.
ReplyInv(i, k) ==
    /\ Contains(toClient[k], i) => <<i, k>> \in executed
    /\ /\ On(i, k) /\ <<i, k>> \in executed /\ i \notin dispatching[k]
       /\ sState[k] # "Closed" \/ Contains(toClient[k], CloseMsg)
       => Contains(toClient[k], i)
    /\ On(i, k) /\ cException[k] = "CloseConnection" => <<i, k>> \notin executed

\* The server has executed i, or will if nothing happens to it.
Delivered(i, k) ==
    \/ <<i, k>> \in executed
    \/ i \in dispatching[k]
    \/ sState[k] = "Active" /\ Contains(toServer[k], i)

\* The same, or the client has yet to write i.
MayRun(i, k) == Delivered(i, k) \/ (Open(k) /\ Contains(sendStreams[k], i))

RunsOn(i) == {k \in Conns : MayRun(i, k)}

\* The connections on which i may run: all but its own are finished, and there are
\* no more than it has had attempts.
RunInv(i) ==
    /\ \A k \in RunsOn(i) :
          /\ call[i].stage # "idle"
          /\ call[i].stage \in Early \/ (call[i].stage = "out" /\ call[i].via # k) =>
                cState[k] = "Finished"
    /\ Cardinality(RunsOn(i)) <= call[i].cnt + (IF call[i].stage \in Early THEN 0 ELSE 1)
    /\ call[i].stage = "answered" => ExecutedFor(i) # {}

\* For a call that is not idempotent: there is one such connection at most, none
\* while it waits to be sent, and what is delivered counts as sent, but for the
\* moment between the write of its end and the note of it.
OnceInv(i) ==
    /\ \A k \in RunsOn(i) :
          /\ call[i].stage \notin Early
          /\ call[i].stage = "out" => call[i].via = k
          /\ call[i].why # "ConnectFailed"
    /\ \A j, k \in RunsOn(i) : j = k
    /\ \A k \in Conns : On(i, k) /\ ~call[i].sent /\ Delivered(i, k) =>
          writing[k] = "written" /\ Head(sendStreams[k]) = i

AnswerInv == \A i \in Invocations : RunInv(i) /\ \A k \in Conns : ReplyInv(i, k)

\* The facts of Invocation_proofs.
Base == CallsOK /\ RestOK /\ BookInv

Inv == /\ \A k \in Conns : PromiseInv(k)
       /\ AnswerInv

-----------------------------------------------------------------------------
(* What a step may do to an execution.                                     *)

\* Only sending lets a call run on one more connection, and a blocked request reaches
\* the server when its end is written.
RunStep(i, k) ==
    /\ MayRun(i, k)' => MayRun(i, k) \/ IsSent(i, k)
    /\ Delivered(i, k)' =>
          \/ Delivered(i, k)
          \/ IsSent(i, k) /\ call'[i].sent
          \/ /\ Open(k) /\ writing[k] = "blocked" /\ Head(sendStreams[k]) = i
             /\ writing'[k] = "written" /\ sendStreams' = sendStreams

LEMMA SameRuns ==
    ASSUME NEW i \in Invocations, NEW k \in Conns, UNCHANGED <<clientEnd, serverEnd, toServer>>
    PROVE  RunStep(i, k)
  BY DEF RunStep, MayRun, Delivered, Open, clientEnd, serverEnd, Contains

\* invokeRemote.
LEMMA RunStepsOfSends ==
    ASSUME Base, NEW n \in Conns, NEW j \in Invocations, InvokeRemote(j, n),
           call[j].stage \in {"bound", "queued"}, call[j].via = n, UNCHANGED serverEnd,
           NEW i \in Invocations, NEW k \in Conns
    PROVE  RunStep(i, k)
<1> DEFINE Messages == Invocations \cup {CloseMsg}
<1>1. /\ toServer[k] \in Seq(Messages) /\ sendStreams[k] \in Seq(Messages)
      /\ call[j] \in Records /\ CallsOK /\ RestOK
  BY DEF Base, RestOK, CallsOK
<1> USE DEF RunStep, MayRun, Delivered, Open, serverEnd
<1>2. CASE UNCHANGED <<sendStreams, writing, toServer, cState, cException>>
  BY <1>2 DEF Contains
<1>3. CASE /\ UNCHANGED <<sendStreams, writing, toServer>> /\ cState[n] = "Active"
           /\ Close(n, "Closed", "ConnectionLost")
  <2>1. cState'[k] = cState[k] \/ cState'[k] = "Closed"
    BY <1>1, <1>3 DEF Close, RestOK
  <2> QED
    BY <1>3, <2>1 DEF Contains
<1>4. CASE /\ cState[n] = "Active" /\ ToServer(n, j) /\ UNCHANGED clientEnd
           /\ call' = [call EXCEPT ![j] = [call[j] EXCEPT !.stage = "out", !.sent = TRUE]]
  <2>1. CASE k = n /\ i = j
    <3>1. call'[i] = [call[j] EXCEPT !.stage = "out", !.sent = TRUE] /\ call'[i].sent
      BY <1>1, <1>4, <2>1 DEF CallsOK, Records
    <3>2. IsSent(i, k)
      BY <1>4, <2>1, <3>1 DEF IsSent, clientEnd
    <3> QED
      BY <3>1, <3>2
  <2>2. CASE ~(k = n /\ i = j)
    <3>1. Contains(Append(toServer[k], j), i) <=> Contains(toServer[k], i) \/ i = j
      BY <1>1, ContainsAppend
    <3>2. \/ toServer'[k] = toServer[k]
          \/ k = n /\ toServer'[k] = Append(toServer[k], j)
      BY <1>4 DEF ToServer, RestOK
    <3>3. Contains(toServer'[k], i) => Contains(toServer[k], i)
      BY <2>2, <3>1, <3>2
    <3> QED
      BY <1>4, <3>3 DEF clientEnd, Contains
  <2> QED
    BY <2>1, <2>2
<1>5. CASE /\ cState[n] = "Active"
           /\ call' = [call EXCEPT ![j] = [call[j] EXCEPT !.stage = "out"]]
           /\ sendStreams' = [sendStreams EXCEPT ![n] = Append(@, j)]
           /\ writing' = [writing EXCEPT ![n] = "blocked"]
           /\ UNCHANGED <<cState, cException, toServer>>
  <2>1. Delivered(i, k)' <=> Delivered(i, k)
    BY <1>5 DEF Contains
  <2>2. CASE k = n /\ i = j
    <3>1. /\ call'[i] = [call[j] EXCEPT !.stage = "out"]
          /\ [call[j] EXCEPT !.stage = "out"]
                = [call[j] EXCEPT !.stage = "out", !.sent = call[j].sent]
          /\ call[j].sent \in BOOLEAN
      BY <1>1, <1>5, <2>2 DEF CallsOK, Records
    <3>2. IsSent(i, k)
      BY <1>5, <2>2, <3>1 DEF IsSent
    <3> QED
      BY <2>1, <3>2
  <2>3. CASE ~(k = n /\ i = j)
    <3>1. Contains(Append(sendStreams[k], j), i) <=> Contains(sendStreams[k], i) \/ i = j
      BY <1>1, ContainsAppend
    <3>2. IF k = n THEN sendStreams'[k] = Append(sendStreams[k], j) ELSE UNCHANGED sendStreams[k]
      BY <1>1, <1>5 DEF RestOK
    <3>3. Contains(sendStreams'[k], i) => Contains(sendStreams[k], i)
      BY <2>3, <3>1, <3>2
    <3> QED
      BY <1>5, <2>1, <3>3 DEF Contains
  <2> QED
    BY <2>2, <2>3
<1> QED
  <2> HIDE DEF RunStep, MayRun, Delivered, Open, serverEnd
  <2>1. PICK c \in Records : call' = [call EXCEPT ![j] = c] /\ IsOutcome(j, n, c)
    BY <1>1, RemoteInvocation
  <2> QED
    BY <1>2, <1>3, <1>4, <1>5, <2>1 DEF IsOutcome, IsReturned, IsWritten, IsBlocked

\* Every step is one for each call and connection.
LEMMA RunSteps ==
    ASSUME Base, Next, NEW i \in Invocations, NEW k \in Conns
    PROVE  RunStep(i, k)
<1> DEFINE Messages == Invocations \cup {CloseMsg}
<1>1. CallsOK /\ RestOK /\ BookInv /\ \A j \in Invocations : call[j] \in Records /\ Kept(call[j])
  BY DEF Base, CallsOK
<1>2. \A j \in Invocations : call[j].stage \in {"bound", "queued", "out"} => call[j].via \in Conns
  BY <1>1, NoneIsNoNumber DEF Kept, Records
<1>3. \A n \in Conns : /\ toServer[n] \in Seq(Messages) /\ toClient[n] \in Seq(Messages)
                       /\ sendStreams[n] \in Seq(Messages) /\ EndsInv(n)
  BY <1>1 DEF RestOK, BookInv
<1>4. ASSUME NEW j \in Invocations, Send(j)
      PROVE  RunStep(i, k)
  <2>1. call[j].stage = "bound" /\ call[j].via \in Conns
    BY <1>2, <1>4 DEF Send
  <2> QED
    BY <1>4, <2>1, RunStepsOfSends DEF Send
<1>5. ASSUME NEW n \in Conns, Flush(n)
      PROVE  RunStep(i, k)
  <2> DEFINE j == Head(requests[n])
  <2>1. j \in Invocations /\ 1 \in DOMAIN requests[n] /\ requests[n][1] = j
    BY <1>1, <1>5, HeadTailProperties, EmptySeq DEF Flush, Flushing, RestOK
  <2>2. call[j].stage = "queued" /\ call[j].via = n
    BY <1>1, <2>1 DEF BookInv, QueueInv
  <2>3. InvokeRemote(j, n) /\ UNCHANGED serverEnd
    BY <1>5 DEF Flush
  <2> HIDE DEF j
  <2> QED
    BY <2>1, <2>2, <2>3, RunStepsOfSends
<1>6. ASSUME NEW j \in Invocations, Invoke(j) \/ Queue(j) \/ Retry(j) \/ Cancel(j)
      PROVE  UNCHANGED <<clientEnd, serverEnd, toServer>>
  BY <1>6 DEF Invoke, Queue, Retry, Cancel
<1>7. (\E n \in Conns : Break(n)) \/ AllCompleted => UNCHANGED <<clientEnd, serverEnd, toServer>>
  BY DEF Break, AllCompleted, vars
<1> USE DEF RunStep, MayRun, Delivered, Open
<1>8. ASSUME NEW j \in Invocations, GetRequestHandler(j)
      PROVE  RunStep(i, k)
  <2>1. cState'[k] = cState[k] \/ cState'[k] = "Connecting"
    BY <1>1, <1>8 DEF GetRequestHandler, RestOK, Usable, Unused
  <2>2. UNCHANGED <<sendStreams, serverEnd, toServer>>
    BY <1>8 DEF GetRequestHandler
  <2> QED
    BY <2>1, <2>2 DEF serverEnd, Contains
<1>9. ASSUME NEW j \in Invocations, NotifyHandler(j)
      PROVE  RunStep(i, k)
  <2>1. UNCHANGED <<cState, serverEnd, toServer>>
    BY <1>9 DEF NotifyHandler
  <2>2. Contains(sendStreams'[k], i) => Contains(sendStreams[k], i)
    <3>1. CASE CancelFinds(j) /\ call[j].stage = "out"
      <4>1. call[j].via \in Conns
        BY <1>2, <3>1
      <4>2. sendStreams' = [sendStreams EXCEPT ![call[j].via] = Withdraw(@, j)]
        BY <1>9, <3>1 DEF NotifyHandler
      <4> QED
        BY <1>1, <1>3, <4>1, <4>2, WithdrawProperties DEF RestOK
    <3>2. CASE ~(CancelFinds(j) /\ call[j].stage = "out")
      BY <1>9, <3>2 DEF NotifyHandler
    <3> QED
      BY <3>1, <3>2
  <2> QED
    BY <2>1, <2>2 DEF serverEnd, Contains
<1>10. ASSUME NEW n \in Conns, Established(n) \/ ConnectFails(n)
       PROVE  RunStep(i, k)
  <2>1. UNCHANGED <<sendStreams, dispatching, executed, toServer>>
    BY <1>10 DEF Established, ConnectFails, serverEnd
  <2>2. CASE k = n
    <3>1. sendStreams[k] = <<>> /\ toServer[k] = <<>>
      BY <1>3, <1>10, <2>2 DEF Established, ConnectFails, EndsInv, Unestablished
    <3> QED
      BY <2>1, <3>1, EmptyContainsNothing
  <2>3. CASE k # n
    <3>1. UNCHANGED <<cState[k], sState[k]>>
      BY <1>1, <1>10, <2>3 DEF Established, ConnectFails, RestOK, serverEnd
    <3> QED
      BY <2>1, <3>1 DEF Contains
  <2> QED
    BY <2>2, <2>3
<1>11. ASSUME NEW n \in Conns, FinishWrite(n)
       PROVE  RunStep(i, k)
  <2> DEFINE m == Head(sendStreams[n])
  <2>1. /\ UNCHANGED <<cState, sendStreams, serverEnd>> /\ ToServer(n, m)
        /\ writing[n] = "blocked" /\ Open(n) /\ writing'[n] = "written"
    BY <1>1, <1>11 DEF FinishWrite, RestOK
  <2>2. m \in Messages /\ Contains(sendStreams[n], m)
    BY <1>3, <2>1, HeadTailProperties, ContainsTail DEF EndsInv
  <2>3. Contains(toServer'[k], i) => Contains(toServer[k], i) \/ (k = n /\ i = m)
    <3>1. toServer'[k] = toServer[k] \/ (k = n /\ toServer'[k] = Append(toServer[k], m))
      BY <1>1, <2>1 DEF ToServer, RestOK
    <3>2. Contains(Append(toServer[k], m), i) <=> Contains(toServer[k], i) \/ i = m
      BY <1>3, <2>2, ContainsAppend
    <3> QED
      BY <3>1, <3>2
  <2> HIDE DEF m
  <2> QED
    BY <2>1, <2>2, <2>3 DEF serverEnd, m
<1>12. ASSUME NEW n \in Conns, Acknowledge(n)
       PROVE  RunStep(i, k)
  <2>1. sendStreams[n] # <<>> /\ UNCHANGED <<serverEnd, toServer>>
    BY <1>3, <1>12 DEF Acknowledge, EndsInv
  <2>2. Contains(sendStreams'[k], i) => Contains(sendStreams[k], i)
    BY <1>1, <1>3, <1>12, <2>1, ContainsTail DEF Acknowledge, RestOK
  <2>3. cState'[k] = cState[k] \/ (cState[k] = "Closing" /\ cState'[k] = "ClosingPending")
    BY <1>1, <1>12 DEF Acknowledge, RestOK
  <2> QED
    BY <2>1, <2>2, <2>3 DEF serverEnd, Contains
<1>13. ASSUME NEW n \in Conns, ClientReads(n) \/ LoseConnection(n)
       PROVE  RunStep(i, k)
  <2>1. UNCHANGED <<sendStreams, serverEnd, toServer>>
    BY <1>13 DEF ClientReads, LoseConnection
  <2>2. cState'[k] = cState[k] \/ cState'[k] = "Closed"
    BY <1>1, <1>13 DEF ClientReads, LoseConnection, Close, RestOK
  <2> QED
    BY <2>1, <2>2 DEF serverEnd, Contains
<1>14. ASSUME NEW n \in Conns, Finish(n)
       PROVE  RunStep(i, k)
  <2>1. UNCHANGED <<serverEnd, toServer>> /\ (cState'[k] = "Finished" \/ UNCHANGED <<cState[k], sendStreams[k]>>)
    BY <1>1, <1>14 DEF Finish, RestOK
  <2> QED
    BY <2>1 DEF serverEnd, Contains
<1>15. ASSUME NEW n \in Conns, ClientCloses(n)
       PROVE  RunStep(i, k)
  <2>1. PICK ex : ShutDown(n, ex)
    BY <1>15 DEF ClientCloses
  <2>2. cState[n] = "Active" /\ UNCHANGED serverEnd
    BY <1>15 DEF ClientCloses
  <2>3. i # CloseMsg
    BY InvocationAssumption
  <2>4. CASE /\ Close(n, "ClosingPending", ex) /\ ToServer(n, CloseMsg)
             /\ UNCHANGED <<sendStreams, writing>>
    <3>1. \/ toServer'[k] = toServer[k]
          \/ k = n /\ toServer'[k] = Append(toServer[k], CloseMsg)
      BY <1>1, <2>4 DEF ToServer, RestOK
    <3>2. Contains(Append(toServer[k], CloseMsg), i) <=> Contains(toServer[k], i) \/ i = CloseMsg
      BY <1>3, ContainsAppend
    <3>3. Contains(toServer'[k], i) => Contains(toServer[k], i)
      BY <2>3, <3>1, <3>2
    <3>4. Open(k)' => Open(k)
      BY <1>1, <2>2, <2>4 DEF Close, RestOK
    <3> QED
      BY <2>2, <2>4, <3>3, <3>4 DEF serverEnd, Contains
  <2>5. CASE /\ Close(n, "Closing", ex)
             /\ sendStreams' = [sendStreams EXCEPT ![n] = Append(@, CloseMsg)]
             /\ UNCHANGED toServer
    <3>1. IF k = n THEN sendStreams'[k] = Append(sendStreams[k], CloseMsg)
          ELSE UNCHANGED sendStreams[k]
      BY <1>1, <2>5 DEF RestOK
    <3>2. Contains(Append(sendStreams[k], CloseMsg), i) <=> Contains(sendStreams[k], i) \/ i = CloseMsg
      BY <1>3, ContainsAppend
    <3>3. Contains(sendStreams'[k], i) => Contains(sendStreams[k], i)
      BY <2>3, <3>1, <3>2
    <3>4. Open(k)' => Open(k)
      BY <1>1, <2>2, <2>5 DEF Close, RestOK
    <3> QED
      BY <2>2, <2>5, <3>3, <3>4 DEF serverEnd, Contains
  <2> QED
    BY <2>1, <2>4, <2>5 DEF ShutDown
<1>16. ASSUME NEW n \in Conns, ServerReads(n)
       PROVE  RunStep(i, k)
  <2> DEFINE m == Head(toServer[n])
  <2>1. toServer[n] # <<>> /\ UNCHANGED <<clientEnd, executed>>
    BY <1>16 DEF ServerReads
  <2>2. CASE m = CloseMsg
    <3>1. /\ dispatching' = dispatching
          /\ IF k = n THEN sState'[k] = "Closed" ELSE UNCHANGED <<sState[k], toServer[k]>>
      BY <1>1, <1>16, <2>2 DEF ServerReads, ServerEndCloses, RestOK
    <3> QED
      BY <2>1, <3>1 DEF clientEnd, Contains
  <2>3. CASE m # CloseMsg
    <3>1. /\ sState' = sState
          /\ IF k = n THEN /\ toServer'[k] = Tail(toServer[k])
                           /\ dispatching'[k] = IF sState[k] = "Active" THEN dispatching[k] \cup {m}
                                                ELSE dispatching[k]
             ELSE UNCHANGED <<dispatching[k], toServer[k]>>
      BY <1>1, <1>16, <2>3 DEF ServerReads, RestOK
    <3>2. k = n => (Contains(toServer[k], i) <=> Contains(Tail(toServer[k]), i) \/ i = m)
      BY <1>3, <2>1, ContainsTail
    <3> HIDE DEF m
    <3> QED
      BY <2>1, <3>1, <3>2 DEF clientEnd, Contains
  <2> QED
    BY <2>2, <2>3
<1>17. ASSUME NEW n \in Conns, NEW j \in Invocations, Execute(j, n)
       PROVE  RunStep(i, k)
  BY <1>17 DEF Execute, clientEnd, Contains
<1>18. ASSUME NEW n \in Conns, NEW j \in Invocations, SendResponse(j, n)
       PROVE  RunStep(i, k)
  <2>1. UNCHANGED <<clientEnd, executed, toServer>> /\ (sState'[k] = "Active" => sState[k] = "Active")
        /\ dispatching'[k] \subseteq dispatching[k]
    BY <1>1, <1>18 DEF SendResponse, RestOK
  <2> QED
    BY <2>1 DEF clientEnd, Contains
<1>19. ASSUME NEW n \in Conns, ServerLoses(n) \/ ServerCloses(n)
       PROVE  RunStep(i, k)
  <2>1. UNCHANGED <<clientEnd, executed, dispatching>>
        /\ (sState'[k] = "Active" => sState[k] = "Active" /\ UNCHANGED toServer[k])
    BY <1>1, <1>19 DEF ServerLoses, ServerEndCloses, ServerCloses, RestOK
  <2> QED
    BY <2>1 DEF clientEnd, Contains
<1>20. ASSUME Crash
       PROVE  RunStep(i, k)
  <2>1. UNCHANGED <<clientEnd, executed>> /\ dispatching'[k] = {} /\ toServer'[k] = <<>>
    BY <1>20 DEF Crash
  <2> QED
    BY <2>1, EmptyContainsNothing DEF clientEnd, Contains
<1> HIDE DEF RunStep, MayRun, Delivered, Open
<1> QED
  BY <1>4, <1>5, <1>6, <1>7, <1>8, <1>9, <1>10, <1>11, <1>12, <1>13, <1>14, <1>15, <1>16,
     <1>17, <1>18, <1>19, <1>20, SameRuns DEF Next, Caller, ClientEnd, ServerEnd

-----------------------------------------------------------------------------
(* What a step may do to the server's end of a connection.                 *)

\* What is executed on k stays as it is.
SameExecuted(k) == \A i \in Invocations : <<i, k>> \in executed' <=> <<i, k>> \in executed

\* j is answered, and the last answer of a closing end says that it closes.
Responds(j, k) ==
    /\ j \in dispatching[k] /\ <<j, k>> \in executed
    /\ dispatching'[k] = dispatching[k] \ {j}
    /\ \/ UNCHANGED <<sState[k], toClient[k]>> /\ (cState[k] = "Finished" \/ sState[k] = "Closed")
       \/ UNCHANGED sState[k] /\ toClient'[k] = Append(toClient[k], j)
       \/ /\ sState[k] = "Closing" /\ dispatching[k] = {j} /\ sState'[k] = "ClosingPending"
          /\ \/ toClient'[k] = Append(Append(toClient[k], j), CloseMsg)
             \/ cState[k] = "Finished" /\ UNCHANGED toClient[k]

\* The connection is established, or closed, or it breaks; the client reads, or is
\* finished; a request is read, executed, or answered; or nothing of this.
PeerStep(k) ==
    \/ SameExecuted(k) /\ UNCHANGED <<sState[k], dispatching[k], toClient[k]>>
    \/ /\ SameExecuted(k) /\ sState[k] = "Unused" /\ sState'[k] = "Active"
       /\ UNCHANGED <<dispatching[k], toClient[k]>>
    \/ /\ SameExecuted(k) /\ toClient[k] # <<>> /\ toClient'[k] = Tail(toClient[k])
       /\ UNCHANGED <<sState[k], dispatching[k]>>
       /\ \A i \in Invocations : Head(toClient[k]) = i => ~On(i, k)'
    \/ /\ SameExecuted(k) /\ cState'[k] = "Finished" /\ toClient'[k] = <<>>
       /\ UNCHANGED <<sState[k], dispatching[k]>>
    \/ /\ SameExecuted(k) /\ sState[k] = "Active" /\ UNCHANGED <<sState[k], toClient[k]>>
       /\ dispatching[k] \subseteq dispatching'[k]
    \/ /\ SameExecuted(k) /\ sState[k] # "Unused" /\ sState'[k] = "Closed"
       /\ dispatching'[k] \in {dispatching[k], {}} /\ UNCHANGED toClient[k]
    \/ /\ SameExecuted(k) /\ sState[k] = "Active" /\ UNCHANGED dispatching[k]
       /\ \/ sState'[k] = "Closing" /\ UNCHANGED toClient[k]
          \/ /\ sState'[k] = "ClosingPending" /\ dispatching[k] = {}
             /\ \/ toClient'[k] = Append(toClient[k], CloseMsg)
                \/ cState[k] = "Finished" /\ UNCHANGED toClient[k]
    \/ SameExecuted(k) /\ \E j \in Invocations : Responds(j, k)
    \/ /\ \E j \in dispatching[k] : executed' = executed \cup {<<j, k>>}
       /\ UNCHANGED <<sState[k], dispatching[k], toClient[k]>>

LEMMA PeerSteps ==
    ASSUME Base, Next, NEW k \in Conns
    PROVE  PeerStep(k)
<1>1. RestOK /\ CallsOK /\ EndsInv(k) /\ toClient[k] \in Seq(Invocations \cup {CloseMsg})
  BY DEF Base, BookInv, RestOK
<1> USE DEF PeerStep, SameExecuted
<1>2. ASSUME UNCHANGED <<sState, dispatching, executed, toClient>>
      PROVE  PeerStep(k)
  BY <1>2
<1>3. ASSUME NEW n \in Conns, Established(n)
      PROVE  PeerStep(k)
  <2>1. sState[n] = "Unused"
    BY <1>3 DEF Established, Base, BookInv, EndsInv, Unestablished
  <2> QED
    BY <1>1, <1>3, <2>1 DEF Established, RestOK
<1>4. ASSUME NEW n \in Conns, ClientReads(n)
      PROVE  PeerStep(k)
  <2>1. UNCHANGED <<sState, dispatching, executed>>
    BY <1>4 DEF ClientReads, serverEnd
  <2>2. CASE k # n
    BY <1>1, <1>4, <2>1, <2>2 DEF ClientReads, RestOK
  <2>3. CASE k = n
    <3>1. toClient[k] # <<>> /\ toClient'[k] = Tail(toClient[k])
      BY <1>1, <1>4, <2>3 DEF ClientReads, RestOK
    <3>2. ASSUME NEW i \in Invocations, Head(toClient[k]) = i
          PROVE  ~On(i, k)'
      <4>1. /\ i # CloseMsg
            /\ call' = IF On(i, k)
                       THEN [call EXCEPT ![i].stage = "answered", ![i].via = None] ELSE call
        BY <1>4, <2>3, <3>2, InvocationAssumption DEF ClientReads, Outstanding, On
      <4>2. call[i] \in Records
        BY <1>1 DEF CallsOK
      <4> QED
        BY <1>1, <4>1, <4>2 DEF On, CallsOK, Records
    <3> QED
      BY <2>1, <3>1, <3>2
  <2> QED
    BY <2>2, <2>3
<1>5. ASSUME NEW n \in Conns, Finish(n)
      PROVE  PeerStep(k)
  BY <1>1, <1>5 DEF Finish, RestOK, serverEnd
<1>6. ASSUME NEW n \in Conns, ServerReads(n)
      PROVE  PeerStep(k)
  <2> DEFINE m == Head(toServer[n])
  <2>1. UNCHANGED <<executed, toClient>>
    BY <1>6 DEF ServerReads
  <2>2. CASE m = CloseMsg
    <3>1. UNCHANGED dispatching /\ sState' = [sState EXCEPT ![n] = "Closed"] /\ sState[n] # "Unused"
      BY <1>6, <2>2 DEF ServerReads, ServerEndCloses
    <3> QED
      BY <1>1, <2>1, <3>1 DEF RestOK
  <2>3. CASE m # CloseMsg
    <3>1. /\ UNCHANGED sState
          /\ dispatching' = [dispatching EXCEPT ![n] = IF sState[n] = "Active" THEN @ \cup {m} ELSE @]
      BY <1>6, <2>3 DEF ServerReads
    <3>2. \/ UNCHANGED dispatching[k]
          \/ sState[k] = "Active" /\ dispatching[k] \subseteq dispatching'[k]
      BY <1>1, <3>1 DEF RestOK
    <3> QED
      BY <2>1, <3>1, <3>2
  <2> QED
    BY <2>2, <2>3
<1>7. ASSUME NEW n \in Conns, NEW j \in Invocations, Execute(j, n)
      PROVE  PeerStep(k)
  <2>1. UNCHANGED <<sState, dispatching, toClient>> /\ executed' = executed \cup {<<j, n>>}
        /\ j \in dispatching[n]
    BY <1>7 DEF Execute
  <2> QED
    BY <2>1
<1>8. ASSUME NEW n \in Conns, NEW j \in Invocations, SendResponse(j, n)
      PROVE  PeerStep(k)
  <2> DEFINE last == sState[n] = "Closing" /\ dispatching[n] = {j}
             ms == IF last THEN <<j, CloseMsg>> ELSE <<j>>
  <2>1. /\ UNCHANGED executed /\ ToClient(n, ms) /\ j \in dispatching[n] /\ <<j, n>> \in executed
        /\ dispatching' = [dispatching EXCEPT ![n] = @ \ {j}]
        /\ sState' = [sState EXCEPT ![n] = IF last THEN "ClosingPending" ELSE @]
    BY <1>8 DEF SendResponse
  <2>2. CASE k # n
    BY <1>1, <2>1, <2>2 DEF ToClient, RestOK
  <2>3. CASE k = n
    <3>1. toClient'[k] = IF cState[k] = "Finished" \/ sState[k] = "Closed" THEN toClient[k]
                         ELSE toClient[k] \o ms
      BY <1>1, <2>1, <2>3 DEF ToClient, RestOK
    <3>2. /\ toClient[k] \o <<j>> = Append(toClient[k], j)
          /\ toClient[k] \o <<j, CloseMsg>> = Append(Append(toClient[k], j), CloseMsg)
      BY <1>1
    <3>3. Responds(j, k)
      BY <1>1, <2>1, <2>3, <3>1, <3>2 DEF Responds, RestOK
    <3> QED
      BY <2>1, <3>3
  <2> QED
    BY <2>2, <2>3
<1>9. ASSUME NEW n \in Conns, ServerCloses(n)
      PROVE  PeerStep(k)
  <2>1. UNCHANGED <<dispatching, executed>> /\ sState[n] = "Active"
    BY <1>9 DEF ServerCloses
  <2>2. toClient[k] \o <<CloseMsg>> = Append(toClient[k], CloseMsg)
    BY <1>1
  <2>3. CASE dispatching[n] = {} /\ sState' = [sState EXCEPT ![n] = "ClosingPending"]
             /\ ToClient(n, <<CloseMsg>>)
    BY <1>1, <2>1, <2>2, <2>3 DEF ToClient, RestOK
  <2>4. CASE sState' = [sState EXCEPT ![n] = "Closing"] /\ UNCHANGED toClient
    BY <1>1, <2>1, <2>4 DEF RestOK
  <2> QED
    BY <1>9, <2>3, <2>4 DEF ServerCloses
<1>10. ASSUME NEW n \in Conns, ServerLoses(n)
       PROVE  PeerStep(k)
  <2>1. /\ UNCHANGED <<dispatching, executed, toClient>> /\ sState[n] # "Unused"
        /\ sState' = [sState EXCEPT ![n] = "Closed"]
    BY <1>10 DEF ServerLoses, ServerEndCloses
  <2> QED
    BY <1>1, <2>1 DEF RestOK
<1>11. ASSUME Crash
       PROVE  PeerStep(k)
  <2>1. /\ UNCHANGED <<executed, toClient>> /\ dispatching'[k] = {}
        /\ sState'[k] = IF sState[k] = "Unused" THEN "Unused" ELSE "Closed"
    BY <1>11 DEF Crash
  <2>2. sState[k] = "Unused" => dispatching[k] = {}
    BY <1>1 DEF EndsInv
  <2> QED
    BY <2>1, <2>2
<1>12. ASSUME NEW i \in Invocations, Invoke(i) \/ GetRequestHandler(i) \/ Send(i) \/ Queue(i)
                                     \/ Retry(i) \/ NotifyHandler(i) \/ Cancel(i)
       PROVE  UNCHANGED <<sState, dispatching, executed, toClient>>
  BY <1>12 DEF Invoke, GetRequestHandler, Send, Queue, Retry, NotifyHandler, Cancel, serverEnd
<1>13. ASSUME NEW n \in Conns, ConnectFails(n) \/ Flush(n) \/ FinishWrite(n) \/ Acknowledge(n)
                               \/ LoseConnection(n) \/ ClientCloses(n) \/ Break(n)
       PROVE  UNCHANGED <<sState, dispatching, executed, toClient>>
  BY <1>13 DEF ConnectFails, Flush, FinishWrite, Acknowledge, LoseConnection, ClientCloses, Break,
               serverEnd
<1>14. AllCompleted => UNCHANGED <<sState, dispatching, executed, toClient>>
  BY DEF AllCompleted, vars, serverEnd
<1> HIDE DEF PeerStep, SameExecuted
<1> QED
  BY <1>2, <1>3, <1>4, <1>5, <1>6, <1>7, <1>8, <1>9, <1>10, <1>11, <1>12, <1>13, <1>14
     DEF Next, Caller, ClientEnd, ServerEnd

-----------------------------------------------------------------------------
(* The promise of a close connection message.                              *)

\* A call waits on k only after it was given to k.
LEMMA OnSteps ==
    ASSUME Base, Next, NEW i \in Invocations, NEW k \in Conns, On(i, k)'
    PROVE  /\ On(i, k) \/ IsSent(i, k)
           /\ cState'[k] \in {"Active", "Closing", "ClosingPending", "Closed"}
<1>1. CallStep(i) /\ call[i] \in Records /\ call'[i] \in Records
  BY CallSteps DEF Base, CallsStep, CallsOK
<1>2. CallInv(i)'
  BY BookKept DEF Base, BookInv
<1>3. On(i, k) \/ IsSent(i, k)
  BY <1>1 DEF On, CallStep, StaysEarly, IsSent, IsAcknowledged, IsAnswered, IsCanceled, IsFinished,
              Records
<1> QED
  BY <1>2, <1>3 DEF CallInv, On

\* What is sent on k has not run there, and does not yet.
LEMMA SentAnew ==
    ASSUME AnswerInv, NEW i \in Invocations, NEW k \in Conns, IsSent(i, k)
    PROVE  ~MayRun(i, k)
  BY DEF AnswerInv, RunInv, RunsOn, IsSent, Early

\* What a close connection message that is read next says.
LEMMA PromiseKnown ==
    ASSUME Base, Inv, NEW k \in Conns, toClient[k] # <<>>, Head(toClient[k]) = CloseMsg,
           NEW i \in Invocations, On(i, k)
    PROVE  <<i, k>> \notin executed /\ dispatching[k] = {}
<1>1. toClient[k] \in Seq(Invocations \cup {CloseMsg}) /\ PromiseInv(k) /\ ReplyInv(i, k)
  BY DEF Base, RestOK, Inv, AnswerInv
<1>2. Len(toClient[k]) \in Nat /\ Len(toClient[k]) >= 1 /\ toClient[k][1] = CloseMsg
      /\ DOMAIN toClient[k] = 1 .. Len(toClient[k])
  BY <1>1, HeadTailProperties, EmptySeq, LenProperties
<1>3. Len(toClient[k]) = 1 /\ Contains(toClient[k], CloseMsg)
  <2>1. 1 \in 1 .. Len(toClient[k])
    BY <1>2
  <2>2. \A n \in 1 .. Len(toClient[k]) : toClient[k][n] = CloseMsg => n = Len(toClient[k])
    BY <1>1, <1>2 DEF PromiseInv
  <2> QED
    BY <1>2, <2>1, <2>2 DEF Contains
<1>4. dispatching[k] = {}
  BY <1>1, <1>3 DEF PromiseInv
<1>5. ~Contains(toClient[k], i)
  BY <1>2, <1>3, InvocationAssumption DEF Contains
<1> QED
  BY <1>1, <1>3, <1>4, <1>5 DEF ReplyInv

\* Nothing follows a close connection message.
OnlyLast(s) == \A n \in DOMAIN s : s[n] = CloseMsg => n = Len(s)

LEMMA OnlyLastAppend ==
    ASSUME NEW S, NEW s \in Seq(S), NEW m \in S, ~Contains(s, CloseMsg)
    PROVE  OnlyLast(Append(s, m))
<1>1. Append(s, m) \in Seq(S) /\ Len(Append(s, m)) = Len(s) + 1 /\ Len(s) \in Nat
  OBVIOUS
<1>2. \A n \in 1 .. Len(s) + 1 : Append(s, m)[n] = IF n = Len(s) + 1 THEN m ELSE s[n]
  OBVIOUS
<1> QED
  BY <1>1, <1>2, LenProperties DEF Contains, OnlyLast

LEMMA OnlyLastTail ==
    ASSUME NEW S, NEW s \in Seq(S), s # <<>>, OnlyLast(s)
    PROVE  OnlyLast(Tail(s))
<1>1. /\ Len(s) \in Nat /\ Tail(s) \in Seq(S) /\ Len(Tail(s)) = Len(s) - 1 /\ Len(s) >= 1
      /\ \A n \in 1 .. Len(Tail(s)) : Tail(s)[n] = s[n + 1]
  BY HeadTailProperties, EmptySeq, LenProperties
<1>2. DOMAIN s = 1 .. Len(s) /\ DOMAIN Tail(s) = 1 .. Len(s) - 1
  BY <1>1, LenProperties
<1> QED
  BY <1>1, <1>2 DEF OnlyLast

\* An end has been told, or has read, that the connection is closed gracefully.
Promised(k) == Contains(toClient[k], CloseMsg) \/ cException[k] = "CloseConnection"

\* Only a close connection message makes a closure graceful.
LEMMA ExceptionKnown ==
    ASSUME Base, Next, NEW k \in Conns, cException'[k] = "CloseConnection"
    PROVE  \/ cException[k] = "CloseConnection"
           \/ /\ toClient[k] # <<>> /\ Head(toClient[k]) = CloseMsg
              /\ Contains(toClient[k], CloseMsg)
<1>1. EndStep(k) /\ toClient[k] \in Seq(Invocations \cup {CloseMsg})
  BY EndSteps DEF Base, RestOK
<1>2. cException[k] = "CloseConnection" \/ (toClient[k] # <<>> /\ Head(toClient[k]) = CloseMsg)
  BY <1>1 DEF EndStep
<1> QED
  BY <1>1, <1>2, ContainsTail

LEMMA PromiseKept ==
    ASSUME Base, Next, NEW k \in Conns, PromiseInv(k)
    PROVE  PromiseInv(k)'
<1> DEFINE Messages == Invocations \cup {CloseMsg}
<1>1. /\ PeerStep(k) /\ toClient[k] \in Seq(Messages)
      /\ sState[k] = "Unused" => dispatching[k] = {}
      /\ Promised(k) => sState[k] \in {"ClosingPending", "Closed"} /\ dispatching[k] = {}
      /\ sState[k] = "ClosingPending" => dispatching[k] = {}
      /\ OnlyLast(toClient[k])
  BY PeerSteps DEF Base, RestOK, BookInv, EndsInv, PromiseInv, Promised, OnlyLast
<1>2. Promised(k)' => Promised(k) \/ Contains(toClient'[k], CloseMsg)
  BY ExceptionKnown DEF Promised
<1>3. SUFFICES /\ Promised(k)' => sState'[k] \in {"ClosingPending", "Closed"} /\ dispatching'[k] = {}
               /\ sState'[k] = "ClosingPending" => dispatching'[k] = {}
               /\ OnlyLast(toClient'[k])
  BY DEF PromiseInv, Promised, OnlyLast
<1>4. CASE UNCHANGED toClient[k]
  <2>1. Promised(k)' => Promised(k)
    BY <1>2, <1>4 DEF Promised
  <2>2. CASE \E j \in Invocations : Responds(j, k)
    BY <1>1, <1>4, <2>1, <2>2 DEF Responds
  <2>3. CASE ~\E j \in Invocations : Responds(j, k)
    BY <1>1, <1>4, <2>1, <2>3 DEF PeerStep
  <2> QED
    BY <2>2, <2>3
<1>5. CASE toClient[k] # <<>> /\ toClient'[k] = Tail(toClient[k]) /\ UNCHANGED <<sState[k], dispatching[k]>>
  <2>1. Promised(k)' => Promised(k)
    BY <1>1, <1>2, <1>5, ContainsTail DEF Promised
  <2> QED
    BY <1>1, <1>5, <2>1, OnlyLastTail
<1>6. CASE toClient'[k] = <<>> /\ UNCHANGED <<sState[k], dispatching[k]>>
  <2>1. Promised(k)' => Promised(k)
    BY <1>2, <1>6, EmptyContainsNothing
  <2> QED
    BY <1>1, <1>6, <2>1 DEF OnlyLast
<1>7. CASE \E j \in Invocations : Responds(j, k)
  <2>1. PICK j \in Invocations : Responds(j, k)
    BY <1>7
  <2>2. j # CloseMsg /\ j \in dispatching[k] /\ dispatching'[k] = dispatching[k] \ {j} /\ ~Promised(k)
    BY <1>1, <2>1, InvocationAssumption DEF Responds
  <2>3. /\ OnlyLast(Append(toClient[k], j)) /\ Append(toClient[k], j) \in Seq(Messages)
        /\ ~Contains(Append(toClient[k], j), CloseMsg)
    BY <1>1, <2>2, OnlyLastAppend, ContainsAppend DEF Promised
  <2>4. OnlyLast(Append(Append(toClient[k], j), CloseMsg))
    BY <2>3, OnlyLastAppend
  <2>5. CASE UNCHANGED sState[k] /\ toClient'[k] = Append(toClient[k], j)
    <3>1. ~Promised(k)'
      BY <1>2, <2>2, <2>3, <2>5
    <3> QED
      BY <1>1, <2>2, <2>3, <2>5, <3>1
  <2>6. CASE /\ dispatching[k] = {j} /\ sState'[k] = "ClosingPending"
             /\ toClient'[k] = Append(Append(toClient[k], j), CloseMsg)
    BY <2>2, <2>4, <2>6
  <2> QED
    BY <1>4, <2>1, <2>5, <2>6 DEF Responds
<1>8. CASE /\ sState[k] = "Active" /\ UNCHANGED dispatching[k] /\ dispatching[k] = {}
           /\ sState'[k] = "ClosingPending" /\ toClient'[k] = Append(toClient[k], CloseMsg)
  <2>1. ~Contains(toClient[k], CloseMsg)
    BY <1>1, <1>8 DEF Promised
  <2> QED
    BY <1>1, <1>8, <2>1, OnlyLastAppend
<1> QED
  BY <1>1, <1>4, <1>5, <1>6, <1>7, <1>8 DEF PeerStep

-----------------------------------------------------------------------------
(* Replies.                                                                *)

\* Nothing is unexecuted, and only what is dispatched is executed.
LEMMA ExecutedSteps ==
    ASSUME NEW k \in Conns, PeerStep(k), NEW i \in Invocations
    PROVE  /\ <<i, k>> \in executed => <<i, k>> \in executed'
           /\ <<i, k>> \in executed' => <<i, k>> \in executed \/ i \in dispatching[k]
<1>1. CASE SameExecuted(k)
  BY <1>1 DEF SameExecuted
<1>2. CASE \E j \in dispatching[k] : executed' = executed \cup {<<j, k>>}
  BY <1>2
<1> QED
  BY <1>1, <1>2 DEF PeerStep

\* What is on its way to the client grows by replies to what is executed.
LEMMA RepliesGrow ==
    ASSUME Base, NEW k \in Conns, PeerStep(k), NEW i \in Invocations
    PROVE  Contains(toClient'[k], i) => Contains(toClient[k], i) \/ <<i, k>> \in executed
<1> DEFINE Messages == Invocations \cup {CloseMsg}
<1>1. toClient[k] \in Seq(Messages) /\ i # CloseMsg
  BY InvocationAssumption DEF Base, RestOK
<1>2. CASE UNCHANGED toClient[k]
  BY <1>2
<1>3. CASE toClient[k] # <<>> /\ toClient'[k] = Tail(toClient[k])
  BY <1>1, <1>3, ContainsTail
<1>4. CASE toClient'[k] = <<>>
  BY <1>4, EmptyContainsNothing
<1>5. CASE \E j \in Invocations : Responds(j, k)
  <2>1. PICK j \in Invocations : Responds(j, k)
    BY <1>5
  <2>2. Append(toClient[k], j) \in Seq(Messages) /\ <<j, k>> \in executed
    BY <1>1, <2>1 DEF Responds
  <2>3. Contains(Append(toClient[k], j), i) <=> Contains(toClient[k], i) \/ i = j
    BY <1>1, ContainsAppend
  <2>4. Contains(Append(Append(toClient[k], j), CloseMsg), i)
           <=> Contains(Append(toClient[k], j), i) \/ i = CloseMsg
    <3>1. PICK s : s = Append(toClient[k], j)
      OBVIOUS
    <3>2. s \in Seq(Messages) /\ CloseMsg \in Messages
      BY <2>2, <3>1
    <3>3. Contains(Append(s, CloseMsg), i) <=> Contains(s, i) \/ i = CloseMsg
      BY <3>2, ContainsAppend
    <3> QED
      BY <3>1, <3>3
  <2> QED
    BY <1>1, <2>1, <2>2, <2>3, <2>4 DEF Responds
<1>6. CASE toClient'[k] = Append(toClient[k], CloseMsg)
  <2>1. Contains(Append(toClient[k], CloseMsg), i) <=> Contains(toClient[k], i) \/ i = CloseMsg
    BY <1>1, ContainsAppend
  <2> QED
    BY <1>1, <1>6, <2>1
<1> QED
  BY <1>2, <1>3, <1>4, <1>5, <1>6 DEF PeerStep

\* An executed call whose caller waits for it has its reply on the way, unless the
\* server's end was lost.
Awaited(i, k) ==
    /\ On(i, k) /\ <<i, k>> \in executed /\ i \notin dispatching[k]
    /\ sState[k] # "Closed" \/ Contains(toClient[k], CloseMsg)

LEMMA AwaitedKept ==
    ASSUME Base, Inv, Next, NEW i \in Invocations, NEW k \in Conns, Awaited(i, k)', On(i, k)
    PROVE  Contains(toClient'[k], i)
<1> DEFINE Messages == Invocations \cup {CloseMsg}
<1>1. /\ toClient[k] \in Seq(Messages) /\ i # CloseMsg
      /\ cState[k] # "Finished" /\ cState'[k] # "Finished"
      /\ sState[k] = "Unused" => <<i, k>> \notin executed
      /\ Contains(toClient[k], CloseMsg) => dispatching[k] = {}
  <2>1. CallInv(i) /\ EndsInv(k) /\ toClient[k] \in Seq(Messages) /\ PromiseInv(k) /\ i # CloseMsg
    BY InvocationAssumption DEF Base, BookInv, RestOK, Inv
  <2>2. cState'[k] # "Finished"
    BY OnSteps DEF Awaited
  <2> QED
    BY <2>1, <2>2 DEF CallInv, On, EndsInv, PromiseInv
<1>2. PeerStep(k) /\ (Awaited(i, k) => Contains(toClient[k], i))
  BY PeerSteps DEF Inv, AnswerInv, ReplyInv, Awaited
<1>3. Contains(Append(toClient[k], CloseMsg), i) <=> Contains(toClient[k], i) \/ i = CloseMsg
  BY <1>1, ContainsAppend
<1>4. CASE SameExecuted(k) /\ UNCHANGED <<sState[k], dispatching[k], toClient[k]>>
  BY <1>2, <1>4 DEF SameExecuted, Awaited
<1>5. CASE SameExecuted(k) /\ sState[k] = "Unused"
  BY <1>1, <1>5 DEF SameExecuted, Awaited
<1>6. CASE /\ SameExecuted(k) /\ toClient[k] # <<>> /\ toClient'[k] = Tail(toClient[k])
           /\ UNCHANGED <<sState[k], dispatching[k]>>
           /\ Head(toClient[k]) = i => ~On(i, k)'
  <2>1. \A x : Contains(toClient[k], x) <=> Contains(toClient'[k], x) \/ x = Head(toClient[k])
    BY <1>1, <1>6, ContainsTail
  <2> QED
    BY <1>2, <1>6, <2>1 DEF SameExecuted, Awaited
<1>7. CASE /\ SameExecuted(k) /\ dispatching[k] \subseteq dispatching'[k]
           /\ UNCHANGED <<sState[k], toClient[k]>>
  BY <1>2, <1>7 DEF SameExecuted, Awaited
<1>8. CASE SameExecuted(k) /\ sState'[k] = "Closed" /\ UNCHANGED toClient[k]
  <2>1. Contains(toClient[k], CloseMsg)
    BY <1>8 DEF Awaited
  <2> QED
    BY <1>1, <1>2, <1>8, <2>1 DEF SameExecuted, Awaited
<1>9. CASE /\ SameExecuted(k) /\ sState[k] = "Active" /\ UNCHANGED dispatching[k]
           /\ UNCHANGED toClient[k] \/ toClient'[k] = Append(toClient[k], CloseMsg)
  <2>1. Contains(toClient[k], i)
    BY <1>2, <1>9 DEF SameExecuted, Awaited
  <2> QED
    BY <1>3, <1>9, <2>1
<1>10. CASE SameExecuted(k) /\ \E j \in Invocations : Responds(j, k)
  <2>1. PICK j \in Invocations : Responds(j, k)
    BY <1>10
  <2>2. j \in dispatching[k] /\ dispatching'[k] = dispatching[k] \ {j} /\ j # CloseMsg
        /\ ~Contains(toClient[k], CloseMsg)
    BY <1>1, <2>1, InvocationAssumption DEF Responds
  <2>3. /\ Append(toClient[k], j) \in Seq(Messages)
        /\ \A x : Contains(Append(toClient[k], j), x) <=> Contains(toClient[k], x) \/ x = j
    BY <1>1, <2>1, ContainsAppend
  <2>4. \A x : Contains(Append(Append(toClient[k], j), CloseMsg), x)
                  <=> Contains(Append(toClient[k], j), x) \/ x = CloseMsg
    <3>1. PICK s : s = Append(toClient[k], j)
      OBVIOUS
    <3>2. s \in Seq(Messages) /\ CloseMsg \in Messages
      BY <2>3, <3>1
    <3>3. \A x : Contains(Append(s, CloseMsg), x) <=> Contains(s, x) \/ x = CloseMsg
      BY <3>2, ContainsAppend
    <3> QED
      BY <3>1, <3>3
  <2>5. CASE UNCHANGED <<sState[k], toClient[k]>> /\ (cState[k] = "Finished" \/ sState[k] = "Closed")
    BY <1>1, <2>2, <2>5 DEF Awaited
  <2>6. CASE UNCHANGED sState[k] /\ toClient'[k] = Append(toClient[k], j)
    BY <1>2, <1>10, <2>2, <2>3, <2>6 DEF SameExecuted, Awaited
  <2>7. CASE /\ sState[k] = "Closing" /\ dispatching[k] = {j}
             /\ toClient'[k] = Append(Append(toClient[k], j), CloseMsg)
    BY <1>2, <1>10, <2>3, <2>4, <2>7 DEF SameExecuted, Awaited
  <2> QED
    BY <1>1, <2>1, <2>5, <2>6, <2>7 DEF Responds
<1>11. CASE /\ \E j \in dispatching[k] : executed' = executed \cup {<<j, k>>}
            /\ UNCHANGED <<sState[k], dispatching[k], toClient[k]>>
  BY <1>2, <1>11 DEF Awaited
<1> QED
  BY <1>1, <1>2, <1>4, <1>5, <1>6, <1>7, <1>8, <1>9, <1>10, <1>11 DEF PeerStep

LEMMA ReplyKept ==
    ASSUME Base, Inv, Next, NEW i \in Invocations, NEW k \in Conns
    PROVE  ReplyInv(i, k)'
<1>1. PeerStep(k) /\ ReplyInv(i, k) /\ PromiseInv(k)
  BY PeerSteps DEF Inv, AnswerInv
<1>2. Contains(toClient'[k], i) => <<i, k>> \in executed'
  BY <1>1, RepliesGrow, ExecutedSteps DEF ReplyInv
<1>3. CASE IsSent(i, k)
  <2>1. <<i, k>> \notin executed'
    BY <1>1, <1>3, SentAnew, ExecutedSteps DEF Inv, MayRun, Delivered
  <2> QED
    BY <1>2, <2>1 DEF ReplyInv
<1>4. CASE ~On(i, k)'
  BY <1>2, <1>4 DEF ReplyInv
<1>5. CASE On(i, k)
  <2>1. ASSUME cException'[k] = "CloseConnection"
        PROVE  <<i, k>> \notin executed'
    <3>1. <<i, k>> \notin executed /\ dispatching[k] = {}
      <4>1. CASE cException[k] = "CloseConnection"
        BY <1>1, <1>5, <4>1 DEF ReplyInv, PromiseInv
      <4>2. CASE toClient[k] # <<>> /\ Head(toClient[k]) = CloseMsg
        BY <1>5, <4>2, PromiseKnown
      <4> QED
        BY <2>1, <4>1, <4>2, ExceptionKnown
    <3> QED
      BY <1>1, <3>1, ExecutedSteps
  <2>2. Awaited(i, k)' => Contains(toClient'[k], i)
    BY <1>5, AwaitedKept
  <2> QED
    BY <1>2, <2>1, <2>2 DEF ReplyInv, Awaited
<1> QED
  BY <1>3, <1>4, <1>5, OnSteps

-----------------------------------------------------------------------------
(* How often a call may run.                                               *)

\* What every step says about the calls, the runs and the connections.
LEMMA StepFacts ==
    ASSUME Base, Next, NEW i \in Invocations
    PROVE  /\ CallStep(i) /\ call[i] \in Records /\ call'[i] \in Records
           /\ Kept(call[i]) /\ Kept(call'[i])
           /\ \A k \in Conns : EndStep(k) /\ RunStep(i, k) /\ PeerStep(k)
  BY CallSteps, EndSteps, RunSteps, PeerSteps DEF Base, CallsStep, CallsOK

LEMMA FinishedStays ==
    ASSUME NEW k \in Conns, EndStep(k), cState[k] = "Finished"
    PROVE  cState'[k] = "Finished"
  BY DEF EndStep, Open

LEMMA FewerRuns ==
    ASSUME NEW i \in Invocations, \A k \in Conns : RunStep(i, k)
    PROVE  /\ \A n \in Conns : IsSent(i, n) => RunsOn(i)' \subseteq RunsOn(i) \cup {n}
           /\ (\A n \in Conns : ~IsSent(i, n)) => RunsOn(i)' \subseteq RunsOn(i)
           /\ IsFiniteSet(RunsOn(i)) /\ IsFiniteSet(RunsOn(i)')
           /\ Cardinality(RunsOn(i)) \in Nat /\ Cardinality(RunsOn(i)') \in Nat
<1>1. \A k, n \in Conns : IsSent(i, n) /\ IsSent(i, k) => k = n
  BY DEF IsSent
<1>2. RunsOn(i) \subseteq Conns /\ RunsOn(i)' \subseteq Conns
  BY DEF RunsOn
<1>3. /\ IsFiniteSet(RunsOn(i)) /\ IsFiniteSet(RunsOn(i)')
      /\ Cardinality(RunsOn(i)) \in Nat /\ Cardinality(RunsOn(i)') \in Nat
  BY <1>2, NoneIsNoNumber, FS_Subset, FS_CardinalityType
<1> QED
  BY <1>1, <1>3 DEF RunsOn, RunStep

LEMMA RunKept ==
    ASSUME Base, Inv, Next, NEW i \in Invocations
    PROVE  RunInv(i)'
<1> DEFINE Bound(c) == c.cnt + (IF c.stage \in Early THEN 0 ELSE 1)
<1>1. /\ CallStep(i) /\ call[i] \in Records /\ call'[i] \in Records
      /\ Kept(call[i]) /\ Kept(call'[i])
      /\ \A k \in Conns : EndStep(k) /\ RunStep(i, k) /\ PeerStep(k)
  BY StepFacts
<1>2. call[i].cnt \in Nat /\ call'[i].cnt \in Nat
  BY <1>1, InvocationAssumption DEF Records
<1>3. /\ \A k \in RunsOn(i) :
            /\ call[i].stage # "idle"
            /\ call[i].stage \in Early \/ (call[i].stage = "out" /\ call[i].via # k) =>
                  cState[k] = "Finished"
      /\ Cardinality(RunsOn(i)) <= Bound(call[i])
      /\ call[i].stage = "answered" => ExecutedFor(i) # {}
  BY DEF Inv, AnswerInv, RunInv
<1>4. \A k \in Conns : cState[k] = "Finished" => cState'[k] = "Finished"
  BY <1>1, FinishedStays
<1>5. ExecutedFor(i) \subseteq ExecutedFor(i)'
  BY <1>1, ExecutedSteps DEF ExecutedFor
<1>6. /\ IsFiniteSet(RunsOn(i)) /\ IsFiniteSet(RunsOn(i)')
      /\ Cardinality(RunsOn(i)) \in Nat /\ Cardinality(RunsOn(i)') \in Nat
      /\ RunsOn(i) \subseteq Conns /\ RunsOn(i)' \subseteq Conns
  BY <1>1, FewerRuns DEF RunsOn
<1>7. CASE \E n \in Conns : IsSent(i, n)
  <2>1. PICK n \in Conns : IsSent(i, n)
    BY <1>7
  <2>2. /\ call'[i].stage = "out" /\ call'[i].via = n /\ call'[i].cnt = call[i].cnt
        /\ call[i].stage \in Early
    BY <1>1, <2>1 DEF IsSent, Records, Early
  <2>3. RunsOn(i)' \subseteq RunsOn(i) \cup {n}
    BY <1>1, <2>1, FewerRuns
  <2>4. IsFiniteSet(RunsOn(i) \cup {n}) /\ Cardinality(RunsOn(i) \cup {n}) \in Nat
        /\ Cardinality(RunsOn(i) \cup {n}) <= Cardinality(RunsOn(i)) + 1
    <3>1. PICK R : R = RunsOn(i)
      OBVIOUS
    <3>2. IsFiniteSet(R) /\ Cardinality(R) \in Nat
      BY <1>6, <3>1
    <3>3. /\ IsFiniteSet(R \cup {n})
          /\ Cardinality(R \cup {n}) = IF n \in R THEN Cardinality(R) ELSE Cardinality(R) + 1
      BY <3>2, FS_AddElement
    <3> QED
      BY <3>1, <3>2, <3>3
  <2>5. Cardinality(RunsOn(i)') <= Cardinality(RunsOn(i)) + 1
    BY <1>6, <2>3, <2>4, FS_Subset
  <2>6. Cardinality(RunsOn(i)') <= Bound(call'[i])
    BY <1>2, <1>3, <1>6, <2>2, <2>5 DEF Early
  <2>7. \A k \in RunsOn(i)' : k # n => cState'[k] = "Finished"
    BY <1>3, <1>4, <1>6, <2>2, <2>3
  <2> QED
    BY <2>2, <2>6, <2>7 DEF RunInv, Early
<1>8. CASE \A n \in Conns : ~IsSent(i, n)
  <2>1. RunsOn(i)' \subseteq RunsOn(i)
    BY <1>1, <1>8, FewerRuns
  <2>2. Cardinality(RunsOn(i)') <= Cardinality(RunsOn(i))
    BY <1>6, <2>1, FS_Subset
  <2>3. ASSUME UNCHANGED <<call[i].stage, call[i].via, call[i].cnt>>
        PROVE  RunInv(i)'
    <3>1. Cardinality(RunsOn(i)') <= Bound(call'[i])
      BY <1>2, <1>3, <1>6, <2>2, <2>3
    <3>2. \A k \in RunsOn(i)' :
            /\ call'[i].stage # "idle"
            /\ call'[i].stage \in Early \/ (call'[i].stage = "out" /\ call'[i].via # k) =>
                  cState'[k] = "Finished"
      BY <1>3, <1>4, <1>6, <2>1, <2>3
    <3>3. call'[i].stage = "answered" => ExecutedFor(i)' # {}
      BY <1>3, <1>5, <2>3
    <3> QED
      BY <3>1, <3>2, <3>3 DEF RunInv
  <2>4. ASSUME call'[i].stage \in Completed, call'[i].cnt >= call[i].cnt,
               call'[i].stage = "answered" => ExecutedFor(i)' # {}
        PROVE  RunInv(i)'
    <3>1. Cardinality(RunsOn(i)') <= Bound(call'[i])
      BY <1>2, <1>3, <1>6, <2>2, <2>4 DEF Completed, Early
    <3> QED
      BY <2>4, <3>1 DEF RunInv, Completed, Early
  <2>5. ASSUME call'[i].stage \in Early \ {"idle"}, call'[i].cnt >= Bound(call[i]),
               \A k \in RunsOn(i)' : cState'[k] = "Finished"
        PROVE  RunInv(i)'
    <3>1. Cardinality(RunsOn(i)') <= Bound(call'[i])
      BY <1>2, <1>3, <1>6, <2>2, <2>5
    <3> QED
      BY <2>5, <3>1 DEF RunInv, Early
  <2>6. CASE StaysEarly(i)
    <3>1. CASE call'[i].stage = "failed"
      BY <2>4, <2>6, <3>1 DEF StaysEarly, Completed
    <3>2. CASE call'[i].stage # "failed"
      <4>1. call'[i].stage \in Early \ {"idle"} /\ call'[i].cnt >= Bound(call[i])
        BY <1>2, <2>6, <3>2 DEF StaysEarly, Early
      <4>2. \A k \in RunsOn(i)' : cState'[k] = "Finished"
        BY <1>3, <1>4, <1>6, <2>1, <2>6 DEF StaysEarly
      <4> QED
        BY <2>5, <4>1, <4>2
    <3> QED
      BY <3>1, <3>2
  <2>7. ASSUME NEW n \in Conns, IsAcknowledged(i, n)
        PROVE  UNCHANGED <<call[i].stage, call[i].via, call[i].cnt>>
    BY <1>1, <2>7 DEF IsAcknowledged, Records
  <2>8. ASSUME NEW n \in Conns, IsAnswered(i, n)
        PROVE  RunInv(i)'
    <3>1. n \in ExecutedFor(i)
      BY <2>8 DEF Inv, AnswerInv, ReplyInv, IsAnswered, ExecutedFor
    <3>2. call'[i].stage = "answered" /\ call'[i].cnt >= call[i].cnt
      BY <1>2, <2>8 DEF IsAnswered
    <3> QED
      BY <1>5, <2>4, <3>1, <3>2 DEF Completed
  <2>9. ASSUME NEW n \in Conns, IsCanceled(i, n)
        PROVE  RunInv(i)'
    BY <1>2, <2>4, <2>9 DEF IsCanceled, Completed
  <2>10. ASSUME NEW n \in Conns, IsFinished(i, n)
         PROVE  RunInv(i)'
    <3>1. CASE call'[i].stage = "failed" /\ call'[i].cnt = call[i].cnt
      BY <1>2, <2>4, <3>1 DEF Completed
    <3>2. CASE call'[i].stage = "retrying" /\ call'[i].cnt = call[i].cnt + 1
      <4>1. call'[i].stage \in Early \ {"idle"} /\ call'[i].cnt >= Bound(call[i])
        BY <1>2, <3>2 DEF Early
      <4>2. \A k \in RunsOn(i)' : cState'[k] = "Finished"
        BY <1>3, <1>4, <1>6, <2>1, <2>10 DEF IsFinished, On
      <4> QED
        BY <2>5, <4>1, <4>2
    <3> QED
      BY <2>10, <3>1, <3>2 DEF IsFinished
  <2> QED
    BY <1>1, <1>8, <2>3, <2>6, <2>7, <2>8, <2>9, <2>10 DEF CallStep
<1> QED
  BY <1>7, <1>8

LEMMA InitialInv == Init => Inv
<1> SUFFICES ASSUME Init PROVE Inv
  OBVIOUS
<1>1. \A k \in Conns : /\ toClient[k] = <<>> /\ toServer[k] = <<>> /\ sState[k] = "Unused"
                       /\ cException[k] = None /\ dispatching[k] = {} /\ cState[k] = "Unused"
  BY DEF Init
<1>2. None # "CloseConnection"
  BY NoneIsNoNumber DEF Exceptions
<1>3. \A k \in Conns : PromiseInv(k)
  BY <1>1, <1>2, EmptyContainsNothing DEF PromiseInv
<1>4. \A i \in Invocations, k \in Conns : ReplyInv(i, k) /\ ~MayRun(i, k)
  BY <1>1, EmptyContainsNothing DEF Init, ReplyInv, MayRun, Delivered, Open
<1>5. ASSUME NEW i \in Invocations PROVE RunInv(i)
  <2>1. call[i].stage = "idle" /\ call[i].cnt = 0 /\ RunsOn(i) = {}
    BY <1>4 DEF Init, RunsOn
  <2>2. Cardinality(RunsOn(i)) = 0
    BY <2>1, FS_EmptySet
  <2> QED
    BY <2>1, <2>2 DEF RunInv, Early
<1> QED
  BY <1>3, <1>4, <1>5 DEF Inv, AnswerInv

LEMMA InvKept ==
    ASSUME Base, Inv, [Next]_vars
    PROVE  Inv'
<1>1. CASE Next
  BY <1>1, PromiseKept, ReplyKept, RunKept DEF Inv, AnswerInv
<1>2. CASE UNCHANGED vars
  BY <1>2 DEF vars, cancelVars, clientEnd, serverEnd, faultVars, Inv, AnswerInv, PromiseInv,
              ReplyInv, RunInv, RunsOn, MayRun, Delivered, Open, On, Contains, ExecutedFor
<1> QED
  BY <1>1, <1>2

LEMMA InvHolds == Spec => [](Base /\ Inv)
<1>1. Base /\ Inv /\ [Next]_vars => (Base /\ Inv)'
  BY BookKept, InvKept DEF Base
<1>2. Init => Base /\ Inv
  BY InitialBook, InitialInv DEF Base
<1> QED
  BY <1>1, <1>2, PTL DEF Spec

\* When a close connection message arrives, none of the calls that wait on that
\* connection was executed or is being executed: what setState(StateClosing) and
\* sendResponse of ConnectionI.cpp promise with it, whatever is in flight.
THEOREM ClosePromise == Spec => []CloseIsAPromise
<1>1. Base /\ Inv => CloseIsAPromise
  BY PromiseKnown DEF CloseIsAPromise, Outstanding, On
<1> QED
  BY <1>1, InvHolds, PTL

\* A call is executed at most once more often than its retries that count, for any
\* number of calls, connections, faults and cancellations.
THEOREM RetryBound == Spec => []RetriesBounded
<1>1. ASSUME Base, Inv, NEW i \in Invocations
      PROVE  Cardinality(ExecutedFor(i)) <= 1 + call[i].cnt
  <2>1. ExecutedFor(i) \subseteq RunsOn(i) /\ RunsOn(i) \subseteq Conns
    BY DEF ExecutedFor, RunsOn, MayRun, Delivered
  <2>2. IsFiniteSet(RunsOn(i)) /\ IsFiniteSet(ExecutedFor(i))
    BY <2>1, NoneIsNoNumber, FS_Subset
  <2>3. /\ Cardinality(RunsOn(i)) \in Nat /\ Cardinality(ExecutedFor(i)) \in Nat
        /\ Cardinality(ExecutedFor(i)) <= Cardinality(RunsOn(i))
    BY <2>1, <2>2, FS_Subset, FS_CardinalityType
  <2>4. call[i].cnt \in Nat
    BY <1>1, InvocationAssumption DEF Base, CallsOK, Records
  <2>5. Cardinality(RunsOn(i)) <= call[i].cnt + (IF call[i].stage \in Early THEN 0 ELSE 1)
    BY <1>1 DEF Inv, AnswerInv, RunInv
  <2> QED
    BY <2>3, <2>4, <2>5
<1>2. Base /\ Inv => RetriesBounded
  BY <1>1 DEF RetriesBounded
<1> QED
  BY <1>2, InvHolds, PTL

-----------------------------------------------------------------------------
(* At most once.  From here on a read does not fail in the step that wrote *)
(* the end of a request, before message() has noted that it is sent.       *)

\* What is written and not acknowledged stays so, until its call is acknowledged.
LEMMA WrittenStays ==
    ASSUME ReadFailsAfterWrite = FALSE, Base, Next, NEW k \in Conns, NEW i \in Invocations,
           writing[k] = "written", Head(sendStreams[k]) = i, On(i, k), On(i, k)'
    PROVE  call'[i].sent \/ (writing'[k] = "written" /\ Head(sendStreams'[k]) = i)
<1>1. /\ RestOK /\ ~Unlocked(k) /\ sendStreams[k] # <<>>
      /\ sendStreams[k] \in Seq(Invocations \cup {CloseMsg})
  BY DEF Base, Unlocked, BookInv, EndsInv, RestOK
<1>2. \A j \in Invocations : call[j] \in Records /\ Kept(call[j])
  BY DEF Base, CallsOK
<1>3. \A j \in Invocations : call[j].stage \in {"bound", "queued", "out"} => call[j].via \in Conns
  BY <1>2, NoneIsNoNumber DEF Kept, Records
<1>4. ASSUME NEW n \in Conns, n # k, NEW j \in Invocations, InvokeRemote(j, n),
             call[j].stage \in {"bound", "queued"}, call[j].via = n
      PROVE  UNCHANGED <<writing[k], sendStreams[k]>>
  <2>1. \/ UNCHANGED <<sendStreams, writing>>
        \/ /\ sendStreams' = [sendStreams EXCEPT ![n] = Append(@, j)]
           /\ writing' = [writing EXCEPT ![n] = "blocked"]
    <3>1. CallsOK /\ RestOK
      BY DEF Base
    <3>2. \E c \in Records : IsOutcome(j, n, c)
      BY <1>4, <3>1, RemoteInvocation
    <3> QED
      BY <3>2 DEF IsOutcome, IsReturned, IsWritten, IsBlocked, clientEnd
  <2> QED
    BY <1>1, <1>4, <2>1 DEF RestOK
<1>5. ASSUME NEW j \in Invocations, Send(j)
      PROVE  UNCHANGED <<writing[k], sendStreams[k]>>
  <2>1. call[j].stage = "bound" /\ call[j].via \in Conns /\ Unlocked(call[j].via)
        /\ InvokeRemote(j, call[j].via)
    BY <1>3, <1>5 DEF Send
  <2> QED
    BY <1>1, <1>4, <2>1
<1>6. ASSUME NEW n \in Conns, Flush(n)
      PROVE  UNCHANGED <<writing[k], sendStreams[k]>>
  <2> DEFINE j == Head(requests[n])
  <2>1. j \in Invocations /\ 1 \in DOMAIN requests[n] /\ requests[n][1] = j
    BY <1>1, <1>6, HeadTailProperties, EmptySeq DEF Flush, Flushing, RestOK
  <2>2. call[j].stage = "queued" /\ call[j].via = n
    BY <2>1 DEF Base, BookInv, QueueInv
  <2>3. InvokeRemote(j, n) /\ n # k
    BY <1>1, <1>6 DEF Flush
  <2> HIDE DEF j
  <2> QED
    BY <1>4, <2>1, <2>2, <2>3
<1>7. ASSUME NEW j \in Invocations, NotifyHandler(j)
      PROVE  writing'[k] = "written" /\ Head(sendStreams'[k]) = i
  <2>1. UNCHANGED writing
    BY <1>7 DEF NotifyHandler
  <2>2. CASE CancelFinds(j) /\ call[j].stage = "out"
    <3>1. sendStreams' = [sendStreams EXCEPT ![call[j].via] = Withdraw(@, j)]
      BY <1>7, <2>2 DEF NotifyHandler
    <3>2. Head(Withdraw(sendStreams[k], j)) = i
      BY <1>1, WithdrawProperties
    <3>3. sendStreams'[k] \in {sendStreams[k], Withdraw(sendStreams[k], j)}
      BY <1>1, <3>1 DEF RestOK
    <3> QED
      BY <2>1, <3>2, <3>3
  <2>3. CASE ~(CancelFinds(j) /\ call[j].stage = "out")
    BY <1>7, <2>1, <2>3 DEF NotifyHandler
  <2> QED
    BY <2>2, <2>3
<1>8. ASSUME NEW n \in Conns, FinishWrite(n)
      PROVE  UNCHANGED <<writing[k], sendStreams[k]>>
  BY <1>1, <1>8 DEF FinishWrite, RestOK
<1>9. ASSUME NEW n \in Conns, Acknowledge(n)
      PROVE  call'[i].sent \/ UNCHANGED <<writing[k], sendStreams[k]>>
  <2>1. CASE n = k
    <3>1. i \in Outstanding(k)
      BY DEF Outstanding, On
    <3>2. call' = [call EXCEPT ![i].sent = TRUE]
      BY <1>9, <2>1, <3>1 DEF Acknowledge
    <3>3. call[i] \in Records
      BY <1>2
    <3> QED
      BY <3>2, <3>3 DEF Base, CallsOK, Records
  <2>2. CASE n # k
    BY <1>1, <1>9, <2>2 DEF Acknowledge, RestOK
  <2> QED
    BY <2>1, <2>2
<1>10. ASSUME NEW n \in Conns, LoseConnection(n) \/ Finish(n)
       PROVE  UNCHANGED <<writing[k], sendStreams[k]>>
  <2>1. n # k
    BY <1>1, <1>10 DEF LoseConnection, Finish
  <2> QED
    BY <1>1, <1>10, <2>1 DEF LoseConnection, Finish, RestOK
<1>11. ASSUME NEW n \in Conns, ClientCloses(n)
       PROVE  UNCHANGED <<writing[k], sendStreams[k]>>
  <2>1. n # k /\ \E ex : ShutDown(n, ex)
    BY <1>1, <1>11 DEF ClientCloses
  <2> QED
    BY <1>1, <2>1 DEF ShutDown, RestOK
<1>12. ASSUME NEW j \in Invocations, Invoke(j) \/ GetRequestHandler(j) \/ Queue(j) \/ Retry(j) \/ Cancel(j)
       PROVE  UNCHANGED <<writing, sendStreams>>
  BY <1>12 DEF Invoke, GetRequestHandler, Queue, Retry, Cancel, clientEnd
<1>13. ASSUME NEW n \in Conns, \/ Established(n) \/ ConnectFails(n) \/ ClientReads(n)
                               \/ ServerEnd(n) \/ ServerCloses(n) \/ Break(n)
       PROVE  UNCHANGED <<writing, sendStreams>>
  BY <1>13 DEF Established, ConnectFails, ClientReads, ServerEnd, ServerReads, Execute,
               SendResponse, ServerLoses, ServerCloses, Break, clientEnd
<1>14. Crash \/ AllCompleted => UNCHANGED <<writing, sendStreams>>
  BY DEF Crash, AllCompleted, vars, clientEnd
<1> QED
  BY <1>5, <1>6, <1>7, <1>8, <1>9, <1>10, <1>11, <1>12, <1>13, <1>14
     DEF Next, Caller, ClientEnd

\* finish() repeats a call that is not idempotent only if it never ran, nor will.
LEMMA RepeatedUnseen ==
    ASSUME Base, Inv, NEW i \in Invocations \ Idempotent, OnceInv(i), NEW n \in Conns,
           On(i, n), writing[n] # "written", MayRepeat(i, cException[n])
    PROVE  ~Delivered(i, n)
<1>1. CASE ~call[i].sent
  BY <1>1 DEF OnceInv
<1>2. CASE cException[n] = "CloseConnection"
  BY <1>2 DEF Inv, AnswerInv, PromiseInv, ReplyInv, Delivered
<1> QED
  BY <1>1, <1>2 DEF MayRepeat

LEMMA OnceKept ==
    ASSUME ReadFailsAfterWrite = FALSE, Base, Inv, Next,
           NEW i \in Invocations \ Idempotent, OnceInv(i)
    PROVE  OnceInv(i)'
<1>1. /\ CallStep(i) /\ call[i] \in Records /\ call'[i] \in Records
      /\ Kept(call[i]) /\ Kept(call'[i])
      /\ \A k \in Conns : EndStep(k) /\ RunStep(i, k)
  BY StepFacts
<1>2. RunsOn(i) \subseteq Conns /\ RunsOn(i)' \subseteq Conns
  BY DEF RunsOn
<1>3. /\ \A k \in RunsOn(i) :
            /\ call[i].stage \notin Early
            /\ call[i].stage = "out" => call[i].via = k
            /\ call[i].why # "ConnectFailed"
      /\ \A j, k \in RunsOn(i) : j = k
  BY DEF OnceInv
<1>4. ASSUME NEW k \in Conns, On(i, k)', ~call'[i].sent, Delivered(i, k)'
      PROVE  writing'[k] = "written" /\ Head(sendStreams'[k]) = i
  <2>1. CASE IsSent(i, k)
    <3>1. ~Delivered(i, k)
      BY <2>1, SentAnew DEF Inv, MayRun
    <3> QED
      BY <1>1, <1>4, <3>1 DEF RunStep
  <2>2. CASE On(i, k)
    <3>1. ~IsSent(i, k)
      BY <2>2 DEF IsSent, On
    <3>2. ~call[i].sent
      BY <1>1, <1>4, <2>2 DEF On, CallStep, StaysEarly, IsSent, IsAcknowledged, IsAnswered,
                              IsCanceled, IsFinished, Records, Early
    <3>3. CASE Delivered(i, k)
      <4>1. writing[k] = "written" /\ Head(sendStreams[k]) = i
        BY <2>2, <3>2, <3>3 DEF OnceInv
      <4> QED
        BY <1>4, <2>2, <4>1, WrittenStays
    <3>4. CASE ~Delivered(i, k)
      BY <1>1, <1>4, <3>1, <3>4 DEF RunStep
    <3> QED
      BY <3>3, <3>4
  <2> QED
    BY <1>4, <2>1, <2>2, OnSteps
<1>5. ASSUME RunsOn(i)' = {}
      PROVE  OnceInv(i)'
  BY <1>4, <1>5 DEF OnceInv
<1>6. CASE \E n \in Conns : IsSent(i, n)
  <2>1. PICK n \in Conns : IsSent(i, n)
    BY <1>6
  <2>2. /\ call'[i].stage = "out" /\ call'[i].via = n /\ call'[i].why = None
        /\ call[i].stage \in Early
    BY <1>1, <2>1 DEF IsSent, Records, Early, Kept
  <2>3. RunsOn(i)' \subseteq {n}
    <3>1. RunsOn(i) = {}
      BY <1>3, <2>2
    <3>2. RunsOn(i)' \subseteq RunsOn(i) \cup {n}
      BY <1>1, <2>1, FewerRuns
    <3> QED
      BY <3>1, <3>2
  <2>4. None # "ConnectFailed"
    BY NoneIsNoNumber DEF Exceptions
  <2> QED
    BY <1>4, <2>2, <2>3, <2>4 DEF OnceInv, Early
<1>7. CASE \A n \in Conns : ~IsSent(i, n)
  <2>1. RunsOn(i)' \subseteq RunsOn(i)
    BY <1>1, <1>7, FewerRuns
  <2>2. ASSUME UNCHANGED <<call[i].stage, call[i].via, call[i].why>>
        PROVE  OnceInv(i)'
    BY <1>3, <1>4, <2>1, <2>2 DEF OnceInv
  <2>3. ASSUME call'[i].stage \in Completed, call'[i].why # "ConnectFailed"
        PROVE  OnceInv(i)'
    BY <1>3, <1>4, <2>1, <2>3 DEF OnceInv, Completed, Early
  <2>4. CASE StaysEarly(i)
    <3>1. RunsOn(i) = {}
      BY <1>3, <2>4 DEF StaysEarly
    <3>2. RunsOn(i)' = {}
      BY <2>1, <3>1
    <3> QED
      BY <1>5, <3>2
  <2>5. ASSUME NEW n \in Conns, IsAcknowledged(i, n)
        PROVE  OnceInv(i)'
    BY <1>1, <2>2, <2>5 DEF IsAcknowledged, Records
  <2>6. ASSUME NEW n \in Conns, IsAnswered(i, n) \/ IsCanceled(i, n)
        PROVE  OnceInv(i)'
    BY <2>3, <2>6, NoneIsNoNumber DEF IsAnswered, IsCanceled, Completed, Exceptions
  <2>7. ASSUME NEW n \in Conns, IsFinished(i, n)
        PROVE  OnceInv(i)'
    <3>1. CASE call'[i].stage = "failed" /\ call'[i].why \in {cException[n], "Canceled"}
      <4>1. cException[n] # "ConnectFailed"
        BY NoneIsNoNumber DEF Base, BookInv, EndsInv, Exceptions
      <4> QED
        BY <2>3, <3>1, <4>1 DEF Completed
    <3>2. CASE MayRepeat(i, cException[n])
      <4>1. /\ On(i, n) /\ writing[n] # "written"
            /\ cState[n] = "Closed" /\ cState'[n] = "Finished"
        BY <2>7 DEF IsFinished
      <4>2. ~Delivered(i, n)
        BY <3>2, <4>1, RepeatedUnseen
      <4>3. ~MayRun(i, n)'
        BY <1>1, <1>7, <4>1, <4>2 DEF RunStep, MayRun, Open
      <4>4. \A k \in RunsOn(i) : k = n
        BY <1>3, <4>1 DEF On
      <4>5. RunsOn(i)' = {}
        BY <2>1, <4>3, <4>4 DEF RunsOn
      <4> QED
        BY <1>5, <4>5
    <3> QED
      BY <2>7, <3>1, <3>2 DEF IsFinished
  <2> QED
    BY <1>1, <1>7, <2>2, <2>4, <2>5, <2>6, <2>7 DEF CallStep
<1> QED
  BY <1>6, <1>7

Once == \A i \in Invocations \ Idempotent : OnceInv(i)

LEMMA OnceHolds ==
    ASSUME ReadFailsAfterWrite = FALSE
    PROVE  Spec => [](Base /\ Inv /\ Once)
<1>1. ASSUME Init PROVE Once
  <2>1. ASSUME NEW i \in Invocations PROVE OnceInv(i)
    <3>1. RunsOn(i) = {} /\ call[i].stage = "idle"
      BY <1>1, EmptyContainsNothing DEF Init, RunsOn, MayRun, Delivered, Open
    <3> QED
      BY <3>1 DEF OnceInv, On
  <2> QED
    BY <2>1 DEF Once
<1>2. ASSUME Base, Inv, Once, [Next]_vars PROVE Once'
  <2>1. CASE Next
    BY <1>2, <2>1, OnceKept DEF Once
  <2>2. CASE UNCHANGED vars
    BY <1>2, <2>2 DEF vars, cancelVars, clientEnd, serverEnd, faultVars, Once, OnceInv, RunsOn,
                      MayRun, Delivered, Open, On, Contains
  <2> QED
    BY <1>2, <2>1, <2>2
<1> QED
  BY <1>1, <1>2, InvHolds, PTL DEF Spec

LEMMA RunsAtMostOnce ==
    ASSUME NEW i \in Invocations \ Idempotent, OnceInv(i)
    PROVE  /\ ExecutedFor(i) \subseteq RunsOn(i)
           /\ \A j, k \in ExecutedFor(i) : j = k
           /\ IsFiniteSet(ExecutedFor(i)) /\ Cardinality(ExecutedFor(i)) \in {0, 1}
<1>1. ExecutedFor(i) \subseteq RunsOn(i) /\ RunsOn(i) \subseteq Conns
  BY DEF ExecutedFor, RunsOn, MayRun, Delivered
<1>2. \A j, k \in ExecutedFor(i) : j = k
  BY <1>1 DEF OnceInv
<1>3. CASE ExecutedFor(i) = {}
  BY <1>1, <1>2, <1>3, FS_EmptySet
<1>4. CASE ExecutedFor(i) # {}
  <2>1. PICK k : ExecutedFor(i) = {k}
    BY <1>2, <1>4
  <2>2. IsFiniteSet({k}) /\ Cardinality({k}) = 1
    BY FS_Singleton
  <2> QED
    BY <1>1, <1>2, <2>1, <2>2
<1> QED
  BY <1>3, <1>4

\* A call that is not idempotent is executed at most once, for any number of calls,
\* connections, retries, faults and cancellations, provided that no read fails
\* between the write of a request's end and the note that it was sent.
THEOREM AtMostOnceHolds ==
    ASSUME ReadFailsAfterWrite = FALSE
    PROVE  Spec => []AtMostOnce
<1>1. Once => AtMostOnce
  BY RunsAtMostOnce DEF Once, AtMostOnce
<1> QED
  BY <1>1, OnceHolds, PTL

-----------------------------------------------------------------------------
(* The run time implements RemoteCall.                                     *)

\* What RemoteCall sees of a call.
Status(c) ==
    CASE c.stage \in {"idle", "answered"} -> c.stage
      [] c.stage = "failed" -> IF c.why = "ConnectFailed" THEN "unsent" ELSE "failed"
      [] OTHER -> "pending"

Runs(i) == Cardinality(ExecutedFor(i))

LEMMA StatusTypes ==
    ASSUME NEW c \in Records
    PROVE  Status(c) \in {"idle", "pending", "answered", "failed", "unsent"}
  BY DEF Status, Records, Stages

LEMMA StatusOfStages ==
    ASSUME NEW c \in Records
    PROVE  /\ Status(c) = "idle" <=> c.stage = "idle"
           /\ Status(c) = "answered" <=> c.stage = "answered"
           /\ Status(c) = "failed" <=> c.stage = "failed" /\ c.why # "ConnectFailed"
           /\ Status(c) = "unsent" <=> c.stage = "failed" /\ c.why = "ConnectFailed"
           /\ Status(c) = "pending" <=> c.stage \notin {"idle", "answered", "failed"}
  BY DEF Status, Records, Stages

\* The actions of RemoteCall, said of the state of the run time.
LEMMA PromiseSteps ==
    ASSUME NEW i \in Invocations
    PROVE  LET s == Status(call[i])
               t == Status(call'[i])
               m == Runs(i)
               n == Runs(i)'
           IN  /\ s = "idle" /\ t = "pending" /\ n = m => Promise!Invoke(i)
               /\ /\ s # "idle" /\ t = s /\ n = m + 1
                  /\ i \in Idempotent \/ (m = 0 /\ s \in {"pending", "failed"})
                  => Promise!Execute(i)
               /\ s = "pending" /\ t = "answered" /\ m > 0 /\ n = m => Promise!Answer(i)
               /\ s = "pending" /\ t = "failed" /\ n = m => Promise!Fail(i)
               /\ /\ s = "pending" /\ t = "unsent" /\ n = m
                  /\ i \in Idempotent \/ m = 0
                  => Promise!FailUnsent(i)
               /\ t = s /\ n = m => Promise!Unchanged(i)
  BY DEF Promise!Invoke, Promise!Execute, Promise!Answer, Promise!Fail, Promise!FailUnsent,
         Promise!Unchanged, Status, Runs

LEMMA RunsCounted ==
    ASSUME NEW i \in Invocations
    PROVE  IsFiniteSet(ExecutedFor(i)) /\ Runs(i) \in Nat /\ (ExecutedFor(i) # {} => Runs(i) > 0)
<1>1. ExecutedFor(i) \subseteq Conns
  BY DEF ExecutedFor
<1>2. IsFiniteSet(ExecutedFor(i)) /\ Cardinality(ExecutedFor(i)) \in Nat
  BY <1>1, NoneIsNoNumber, FS_Subset, FS_CardinalityType
<1>3. ExecutedFor(i) # {} => Cardinality(ExecutedFor(i)) # 0
  BY <1>2, FS_EmptySet
<1> QED
  BY <1>2, <1>3 DEF Runs

\* At most one execution in a step, and then nothing else.
LEMMA ExecutionSteps ==
    ASSUME Next
    PROVE  \/ UNCHANGED executed
           \/ /\ UNCHANGED call
              /\ \E k \in Conns : \E j \in dispatching[k] : <<j, k>> \notin executed
                                    /\ executed' = executed \cup {<<j, k>>}
<1>1. ASSUME NEW k \in Conns, NEW j \in Invocations, Execute(j, k)
      PROVE  /\ UNCHANGED call
             /\ \E n \in Conns : \E i \in dispatching[n] : <<i, n>> \notin executed
                                   /\ executed' = executed \cup {<<i, n>>}
  BY <1>1 DEF Execute
<1>2. ASSUME NEW j \in Invocations, \/ Invoke(j) \/ GetRequestHandler(j) \/ Send(j) \/ Queue(j)
                                    \/ Retry(j) \/ NotifyHandler(j) \/ Cancel(j)
      PROVE  UNCHANGED executed
  BY <1>2 DEF Invoke, GetRequestHandler, Send, Queue, Retry, NotifyHandler, Cancel, serverEnd
<1>3. ASSUME NEW k \in Conns, \/ Established(k) \/ ConnectFails(k) \/ Flush(k) \/ FinishWrite(k)
                              \/ Acknowledge(k) \/ ClientReads(k) \/ LoseConnection(k)
                              \/ Finish(k) \/ ClientCloses(k) \/ ServerReads(k)
                              \/ ServerLoses(k) \/ ServerCloses(k) \/ Break(k)
      PROVE  UNCHANGED executed
  BY <1>3 DEF Established, ConnectFails, Flush, FinishWrite, Acknowledge, ClientReads,
              LoseConnection, Finish, ClientCloses, ServerReads, ServerLoses, ServerCloses,
              Break, serverEnd
<1>4. ASSUME NEW k \in Conns, NEW j \in Invocations, SendResponse(j, k)
      PROVE  UNCHANGED executed
  BY <1>4 DEF SendResponse
<1>5. Crash \/ AllCompleted => UNCHANGED executed
  BY DEF Crash, AllCompleted, vars, serverEnd
<1> QED
  BY <1>1, <1>2, <1>3, <1>4, <1>5 DEF Next, Caller, ClientEnd, ServerEnd

\* A step that executes nothing.
LEMMA CallRefined ==
    ASSUME Base, Inv, Once, Next, NEW i \in Invocations, UNCHANGED executed
    PROVE  \/ Promise!Invoke(i) \/ Promise!Answer(i) \/ Promise!Fail(i) \/ Promise!FailUnsent(i)
           \/ Promise!Unchanged(i)
<1> DEFINE s == Status(call[i])
           t == Status(call'[i])
<1>1. CallStep(i) /\ call[i] \in Records /\ call'[i] \in Records
      /\ Kept(call[i]) /\ Kept(call'[i])
  BY StepFacts
<1>2. Runs(i)' = Runs(i) /\ Runs(i) \in Nat /\ (ExecutedFor(i) # {} => Runs(i) > 0)
  BY RunsCounted DEF Runs, ExecutedFor
<1>3. /\ s = "idle" <=> call[i].stage = "idle"
      /\ s = "pending" <=> call[i].stage \notin {"idle", "answered", "failed"}
      /\ t = "answered" <=> call'[i].stage = "answered"
      /\ t = "failed" <=> call'[i].stage = "failed" /\ call'[i].why # "ConnectFailed"
      /\ t = "unsent" <=> call'[i].stage = "failed" /\ call'[i].why = "ConnectFailed"
      /\ t = "pending" <=> call'[i].stage \notin {"idle", "answered", "failed"}
  BY <1>1, StatusOfStages
<1>4. CASE StaysEarly(i) /\ call[i].stage = "idle"
  <2>1. s = "idle" /\ t = "pending"
    BY <1>3, <1>4 DEF StaysEarly
  <2> HIDE DEF s, t
  <2> QED
    BY <1>2, <2>1, PromiseSteps DEF s, t
<1>5. CASE StaysEarly(i) /\ call[i].stage # "idle"
  <2>1. s = "pending" /\ t \in {"pending", "failed", "unsent"}
    BY <1>3, <1>5 DEF StaysEarly, Early
  <2>2. i \in Idempotent \/ Runs(i) = 0
    <3>1. ASSUME i \notin Idempotent PROVE Runs(i) = 0
      <4>1. OnceInv(i)
        BY <3>1 DEF Once
      <4>2. RunsOn(i) = {}
        BY <1>5, <4>1 DEF OnceInv, StaysEarly
      <4>3. ExecutedFor(i) = {}
        BY <3>1, <4>1, <4>2, RunsAtMostOnce
      <4> QED
        BY <4>3, FS_EmptySet DEF Runs
    <3> QED
      BY <3>1
  <2> QED
    BY <1>2, <2>1, <2>2, PromiseSteps
<1>6. ASSUME NEW k \in Conns, IsSent(i, k) \/ IsAcknowledged(i, k)
      PROVE  Promise!Unchanged(i)
  <2>1. s = "pending" /\ t = "pending"
    BY <1>1, <1>3, <1>6 DEF IsSent, IsAcknowledged, On, Records
  <2> QED
    BY <1>2, <2>1, PromiseSteps
<1>7. ASSUME NEW k \in Conns, IsAnswered(i, k)
      PROVE  Promise!Answer(i)
  <2>1. s = "pending" /\ t = "answered"
    BY <1>3, <1>7 DEF IsAnswered, On
  <2>2. k \in ExecutedFor(i)
    BY <1>7 DEF Inv, AnswerInv, ReplyInv, IsAnswered, ExecutedFor
  <2> QED
    BY <1>2, <2>1, <2>2, PromiseSteps
<1>8. ASSUME NEW k \in Conns, IsCanceled(i, k) \/ IsFinished(i, k)
      PROVE  Promise!Fail(i) \/ Promise!Unchanged(i)
  <2>1. cException[k] # "ConnectFailed"
    BY NoneIsNoNumber DEF Base, BookInv, EndsInv, Exceptions
  <2>2. s = "pending" /\ t \in {"pending", "failed"}
    BY <1>3, <1>8, <2>1 DEF IsCanceled, IsFinished, On
  <2> QED
    BY <1>2, <2>2, PromiseSteps
<1>9. CASE UNCHANGED call[i]
  <2>1. t = s
    BY <1>9
  <2> QED
    BY <1>2, <2>1, PromiseSteps
<1> QED
  BY <1>1, <1>4, <1>5, <1>6, <1>7, <1>8, <1>9 DEF CallStep

\* A step in which the server executes a call.
LEMMA ExecutionRefined ==
    ASSUME Base, Inv, Once, UNCHANGED call, NEW k \in Conns, NEW j \in dispatching[k],
           <<j, k>> \notin executed, executed' = executed \cup {<<j, k>>}, NEW i \in Invocations
    PROVE  Promise!Execute(i) \/ Promise!Unchanged(i)
<1>1. call[i] \in Records
  BY DEF Base, CallsOK
<1>2. CASE i # j
  <2>1. ExecutedFor(i)' = ExecutedFor(i)
    BY <1>2 DEF ExecutedFor
  <2> QED
    BY <2>1, PromiseSteps DEF Runs
<1>3. CASE i = j
  <2>1. ExecutedFor(i)' = ExecutedFor(i) \cup {k} /\ k \notin ExecutedFor(i)
    BY <1>3 DEF ExecutedFor
  <2>2. Runs(i)' = Runs(i) + 1
    BY <2>1, RunsCounted, FS_AddElement DEF Runs
  <2>3. k \in RunsOn(i) /\ call[i].stage # "idle"
    BY <1>3 DEF RunsOn, MayRun, Delivered, Inv, AnswerInv, RunInv
  <2>4. Status(call[i]) # "idle" /\ Status(call'[i]) = Status(call[i])
    BY <1>1, <2>3, StatusOfStages
  <2>5. CASE i \in Idempotent
    BY <2>2, <2>4, <2>5, PromiseSteps
  <2>6. CASE i \notin Idempotent
    <3>1. OnceInv(i) /\ ExecutedFor(i) \subseteq RunsOn(i)
      BY <2>6, RunsAtMostOnce DEF Once
    <3>2. ExecutedFor(i) = {}
      BY <2>1, <2>3, <3>1 DEF OnceInv
    <3>3. Runs(i) = 0
      BY <3>2, FS_EmptySet DEF Runs
    <3>4. call[i].stage # "answered" /\ call[i].why # "ConnectFailed"
      BY <2>3, <3>1, <3>2 DEF OnceInv, Inv, AnswerInv, RunInv
    <3>5. Status(call[i]) \in {"pending", "failed"}
      BY <1>1, <2>3, <3>4, StatusOfStages
    <3> QED
      BY <2>2, <2>4, <3>3, <3>5, PromiseSteps
  <2> QED
    BY <2>5, <2>6
<1> QED
  BY <1>2, <1>3

LEMMA PromiseRefined ==
    ASSUME Base, Inv, Once, Next
    PROVE  Promise!Next
<1>1. ASSUME NEW i \in Invocations
      PROVE  \/ Promise!Invoke(i) \/ Promise!Execute(i) \/ Promise!Answer(i) \/ Promise!Fail(i)
             \/ Promise!FailUnsent(i) \/ Promise!Unchanged(i)
  BY ExecutionSteps, CallRefined, ExecutionRefined
<1>2. \A i \in Invocations : call'[i] \in Records /\ Runs(i)' \in Nat
  <2>1. ASSUME NEW i \in Invocations PROVE call'[i] \in Records
    BY StepFacts
  <2>2. ASSUME NEW i \in Invocations PROVE Runs(i)' \in Nat
    <3>1. ExecutedFor(i)' \subseteq Conns
      BY DEF ExecutedFor
    <3> QED
      BY <3>1, NoneIsNoNumber, FS_Subset, FS_CardinalityType DEF Runs
  <2> QED
    BY <2>1, <2>2
<1>3. [i \in Invocations |-> Status(call'[i])]
         \in [Invocations -> {"idle", "pending", "answered", "failed", "unsent"}]
  BY <1>2, StatusTypes
<1>4. [i \in Invocations |-> Runs(i)'] \in [Invocations -> Nat]
  BY <1>2
<1> QED
  BY <1>1, <1>3, <1>4 DEF Promise!Next, Status, Runs

\* The run time of the client keeps the promise of RemoteCall: every behaviour of
\* the retry queue, the handlers and the connections is one of at-most-once calls.
THEOREM PromiseKeeping ==
    ASSUME ReadFailsAfterWrite = FALSE
    PROVE  Spec => AtMostOnceCalls
<1>1. Init => Promise!Init
  <2>1. ASSUME Init PROVE Promise!Init
    <3>1. \A i \in Invocations : call[i].stage = "idle" /\ ExecutedFor(i) = {}
      BY <2>1 DEF Init, ExecutedFor
    <3>2. \A i \in Invocations : Cardinality(ExecutedFor(i)) = 0
      BY <3>1, FS_EmptySet
    <3> QED
      BY <3>1, <3>2 DEF Promise!Init
  <2> QED
    BY <2>1
<1>2. Base /\ Inv /\ Once /\ [Next]_vars => [Promise!Next]_(Promise!vars)
  <2>1. CASE UNCHANGED vars
    BY <2>1 DEF vars, serverEnd, Promise!vars, ExecutedFor
  <2>2. CASE Next
    BY <2>2, PromiseRefined
  <2> QED
    BY <2>1, <2>2
<1> QED
  BY <1>1, <1>2, OnceHolds, PTL DEF Spec, AtMostOnceCalls, Promise!Spec

=============================================================================
