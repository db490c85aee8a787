--------------------------- MODULE Invocation_proofs ---------------------------
(***************************************************************************)
(* Theorems about Invocation, for any number of calls, connections,        *)
(* retries and faults: type correctness, and what every step does to a     *)
(* call, to a queue of requests and to the client's end of a connection.   *)
(*                                                                         *)
(* TypeOK is not inductive: that finish() gives its calls an exception     *)
(* that is one needs cException to be set when a connection closes, that   *)
(* flushRequests finds a queued call at the head of its queue needs the    *)
(* queue to be exact, and that message() finds a request to acknowledge    *)
(* needs sendStreams not to be empty while it writes.  BookInv says so.    *)
(***************************************************************************)
EXTENDS Invocation, SequenceTheorems, FiniteSetTheorems, TLAPS

-----------------------------------------------------------------------------
(* Sequences of requests.                                                  *)

LEMMA EmptyContainsNothing ==
    ASSUME NEW x
    PROVE  ~Contains(<<>>, x)
  BY DEF Contains

LEMMA ContainsAppend ==
    ASSUME NEW S, NEW s \in Seq(S), NEW e \in S, NEW x
    PROVE  Contains(Append(s, e), x) <=> Contains(s, x) \/ x = e
<1>1. Append(s, e) \in Seq(S) /\ Len(Append(s, e)) = Len(s) + 1 /\ Len(s) \in Nat
  OBVIOUS
<1>2. \A n \in 1 .. Len(s) + 1 : Append(s, e)[n] = IF n = Len(s) + 1 THEN e ELSE s[n]
  OBVIOUS
<1> QED
  BY <1>1, <1>2 DEF Contains

LEMMA ContainsTail ==
    ASSUME NEW S, NEW s \in Seq(S), s # <<>>, NEW x
    PROVE  Contains(s, x) <=> Contains(Tail(s), x) \/ x = Head(s)
<1>1. /\ Head(s) = s[1] /\ Len(s) \in Nat /\ Len(s) >= 1
      /\ Len(Tail(s)) = Len(s) - 1
      /\ \A n \in 1 .. Len(Tail(s)) : Tail(s)[n] = s[n + 1]
  BY HeadTailProperties, EmptySeq
<1>2. ASSUME Contains(s, x) PROVE Contains(Tail(s), x) \/ x = Head(s)
  <2>1. PICK n \in 1 .. Len(s) : s[n] = x
    BY <1>2 DEF Contains
  <2>2. CASE n = 1
    BY <1>1, <2>1, <2>2
  <2>3. CASE n # 1
    <3>1. n - 1 \in 1 .. Len(Tail(s)) /\ Tail(s)[n - 1] = s[(n - 1) + 1]
      BY <1>1, <2>1, <2>3
    <3> QED
      BY <3>1, <2>1 DEF Contains
  <2> QED
    BY <2>2, <2>3
<1>3. ASSUME Contains(Tail(s), x) \/ x = Head(s) PROVE Contains(s, x)
  BY <1>1, <1>3 DEF Contains
<1> QED
  BY <1>2, <1>3

LEMMA ContainsConcat ==
    ASSUME NEW S, NEW s \in Seq(S), NEW t \in Seq(S), NEW x
    PROVE  Contains(s \o t, x) <=> Contains(s, x) \/ Contains(t, x)
<1>1. /\ Len(s) \in Nat /\ Len(t) \in Nat
      /\ Len(s \o t) = Len(s) + Len(t)
      /\ \A n \in 1 .. Len(s) + Len(t) : (s \o t)[n] = IF n <= Len(s) THEN s[n] ELSE t[n - Len(s)]
  BY ConcatProperties, LenProperties
<1>2. ASSUME Contains(s, x) PROVE Contains(s \o t, x)
  BY <1>1, <1>2 DEF Contains
<1>3. ASSUME Contains(t, x) PROVE Contains(s \o t, x)
  <2>1. PICK n \in 1 .. Len(t) : t[n] = x
    BY <1>3 DEF Contains
  <2>2. n + Len(s) \in 1 .. Len(s \o t) /\ (s \o t)[n + Len(s)] = t[(n + Len(s)) - Len(s)]
    BY <1>1, <2>1
  <2> QED
    BY <2>1, <2>2, <1>1 DEF Contains
<1>4. ASSUME Contains(s \o t, x) PROVE Contains(s, x) \/ Contains(t, x)
  BY <1>1, <1>4 DEF Contains
<1> QED
  BY <1>2, <1>3, <1>4

\* Removing one position shifts what follows it.
LEMMA RemoveAtProperties ==
    ASSUME NEW S, NEW s \in Seq(S), NEW n \in DOMAIN s
    PROVE  /\ RemoveAt(s, n) \in Seq(S)
           /\ Len(RemoveAt(s, n)) = Len(s) - 1
           /\ \A m \in 1 .. Len(s) - 1 :
                 RemoveAt(s, n)[m] = IF m < n THEN s[m] ELSE s[m + 1]
<1>1. Len(s) \in Nat /\ n \in 1 .. Len(s) /\ \A m \in 1 .. Len(s) : s[m] \in S
  BY LenProperties, ElementOfSeq
<1> DEFINE front == SubSeq(s, 1, n - 1)
           back  == SubSeq(s, n + 1, Len(s))
<1>2. /\ front \in Seq(S) /\ Len(front) = n - 1
      /\ \A m \in 1 .. n - 1 : front[m] = s[m]
  <2>1. 1 \in Int /\ n - 1 \in Int /\ \A m \in 1 .. n - 1 : s[m] \in S
    BY <1>1
  <2>2. /\ front \in Seq(S) /\ Len(front) = IF 1 <= n - 1 THEN (n - 1) - 1 + 1 ELSE 0
        /\ \A m \in 1 .. (n - 1) - 1 + 1 : front[m] = s[1 + m - 1]
    BY <2>1, SubSeqProperties
  <2> QED
    BY <1>1, <2>2
<1>3. /\ back \in Seq(S) /\ Len(back) = Len(s) - n
      /\ \A m \in 1 .. Len(s) - n : back[m] = s[n + m]
  <2>1. n + 1 \in Int /\ Len(s) \in Int /\ \A m \in n + 1 .. Len(s) : s[m] \in S
    BY <1>1
  <2>2. /\ back \in Seq(S) /\ Len(back) = IF n + 1 <= Len(s) THEN Len(s) - (n + 1) + 1 ELSE 0
        /\ \A m \in 1 .. Len(s) - (n + 1) + 1 : back[m] = s[(n + 1) + m - 1]
    BY <2>1, SubSeqProperties
  <2> QED
    BY <1>1, <2>2
<1> HIDE DEF front, back
<1>4. RemoveAt(s, n) = front \o back
  BY DEF RemoveAt, front, back
<1>5. /\ front \o back \in Seq(S)
      /\ Len(front \o back) = Len(front) + Len(back)
      /\ \A m \in 1 .. Len(front) + Len(back) :
            (front \o back)[m] = IF m <= Len(front) THEN front[m] ELSE back[m - Len(front)]
  BY <1>2, <1>3, ConcatProperties
<1>6. ASSUME NEW m \in 1 .. Len(s) - 1
      PROVE  (front \o back)[m] = IF m < n THEN s[m] ELSE s[m + 1]
  <2>1. CASE m < n
    <3>1. m \in 1 .. Len(front) + Len(back) /\ m <= Len(front) /\ m \in 1 .. n - 1
      BY <2>1, <1>1, <1>2, <1>3
    <3> QED
      BY <2>1, <3>1, <1>2, <1>5
  <2>2. CASE ~(m < n)
    <3>1. m \in 1 .. Len(front) + Len(back) /\ ~(m <= Len(front)) /\ m - Len(front) = m - n + 1
      BY <2>2, <1>1, <1>2, <1>3
    <3>2. (front \o back)[m] = back[m - n + 1]
      BY <3>1, <1>5
    <3>3. m - n + 1 \in 1 .. Len(s) - n /\ n + (m - n + 1) = m + 1
      BY <2>2, <1>1
    <3> QED
      BY <3>2, <3>3, <1>3, <2>2
  <2> QED
    BY <2>1, <2>2
<1>7. Len(front \o back) = Len(s) - 1
  BY <1>1, <1>2, <1>3, <1>5
<1> QED
  BY <1>4, <1>5, <1>6, <1>7

LEMMA PositionIsThere ==
    ASSUME NEW S, NEW s \in Seq(S), NEW x, Contains(s, x)
    PROVE  Position(s, x) \in DOMAIN s /\ s[Position(s, x)] = x
<1>1. \E n \in DOMAIN s : s[n] = x
  BY LenProperties DEF Contains
<1> QED
  BY <1>1 DEF Position

\* A withdrawn request leaves the head alone, and adds nothing.
LEMMA WithdrawProperties ==
    ASSUME NEW S, NEW s \in Seq(S), NEW i
    PROVE  /\ Withdraw(s, i) \in Seq(S)
           /\ \A x : Contains(Withdraw(s, i), x) => Contains(s, x)
           /\ s # <<>> => Withdraw(s, i) # <<>> /\ Head(Withdraw(s, i)) = Head(s)
           /\ s = <<>> => Withdraw(s, i) = <<>>
<1>1. CASE ~(Contains(s, i) /\ Head(s) # i)
  BY <1>1 DEF Withdraw
<1>2. CASE Contains(s, i) /\ Head(s) # i
  <2> DEFINE n == Position(s, i)
             w == RemoveAt(s, n)
  <2>1. n \in 1 .. Len(s) /\ n \in DOMAIN s /\ s[n] = i /\ Len(s) \in Nat
    BY <1>2, PositionIsThere, LenProperties
  <2>2. Withdraw(s, i) = w
    BY <1>2 DEF Withdraw
  <2>3. /\ w \in Seq(S) /\ Len(w) = Len(s) - 1
        /\ \A m \in 1 .. Len(s) - 1 : w[m] = IF m < n THEN s[m] ELSE s[m + 1]
    BY <2>1, RemoveAtProperties
  <2> HIDE DEF n, w
  <2>4. s # <<>> /\ Head(s) = s[1]
    BY <2>1
  <2>5. n # 1
    BY <1>2, <2>1, <2>4
  <2>6. ASSUME NEW x, Contains(w, x) PROVE Contains(s, x)
    <3>1. PICK m \in 1 .. Len(s) - 1 : w[m] = x
      BY <2>3, <2>6 DEF Contains
    <3>2. m \in 1 .. Len(s) /\ m + 1 \in 1 .. Len(s) /\ (s[m] = x \/ s[m + 1] = x)
      BY <3>1, <2>1, <2>3
    <3> QED
      BY <3>2 DEF Contains
  <2>7. w # <<>> /\ Head(w) = s[1]
    <3>1. Len(w) \in Nat /\ Len(w) # 0
      BY <2>1, <2>3, <2>5
    <3>2. w # <<>> /\ Head(w) = w[1]
      BY <3>1, <2>3
    <3> QED
      BY <3>1, <3>2, <2>1, <2>3, <2>5
  <2> QED
    BY <2>2, <2>3, <2>4, <2>6, <2>7
<1> QED
  BY <1>1, <1>2

-----------------------------------------------------------------------------
(* The inductive invariant.                                                *)

\* The stages in which a call is not on a connection, nor completed.
Early == {"idle", "ready", "bound", "queued", "retrying"}

Records == [stage : Stages, via : Conns \cup {None}, cnt : 0 .. Retries + 1, sent : BOOLEAN,
            why : Exceptions \cup {None}]

\* What a call has at each of its stages.
Kept(c) ==
    /\ c.stage \in {"bound", "queued", "out"} <=> c.via # None
    /\ c.stage = "failed" <=> c.why # None
    /\ c.stage \in {"idle", "ready", "bound", "queued"} => ~c.sent

Unestablished(k) == cState[k] \in {"Unused", "Connecting", "Failed"}

On(i, k) == call[i].stage = "out" /\ call[i].via = k

\* A call that is out waits on a connection that finish() has yet to see.
CallInv(i) ==
    /\ Kept(call[i])
    /\ call[i].stage = "out" =>
          cState[call[i].via] \in {"Active", "Closing", "ClosingPending", "Closed"}

\* The queue of handler k holds the calls that are queued there, each once.
QueueInv(k) ==
    /\ \A n \in DOMAIN requests[k] :
          call[requests[k][n]].stage = "queued" /\ call[requests[k][n]].via = k
    /\ \A m, n \in DOMAIN requests[k] : requests[k][m] = requests[k][n] => m = n
    /\ \A i \in Invocations :
          call[i].stage = "queued" /\ call[i].via = k => Contains(requests[k], i)

\* The server has its end once the connection is established; a closing connection
\* has an exception; what is being written is in sendStreams.
EndsInv(k) ==
    /\ sState[k] = "Unused" <=> Unestablished(k)
    /\ Unestablished(k) => sendStreams[k] = <<>>
    /\ sState[k] = "Unused" => /\ toServer[k] = <<>> /\ dispatching[k] = {}
                               /\ \A i \in Invocations : <<i, k>> \notin executed
    /\ cException[k] \in {None, "CloseConnection", "ConnectionLost", "ManuallyClosed", "Idle"}
    /\ cException[k] = None <=> Unestablished(k) \/ cState[k] = "Active"
    /\ writing[k] # "idle" => sendStreams[k] # <<>>

BookInv == /\ \A i \in Invocations : CallInv(i)
           /\ \A k \in Conns : QueueInv(k) /\ EndsInv(k)

-----------------------------------------------------------------------------

LEMMA NoneIsNoNumber ==
    /\ None \notin Conns /\ None \notin Exceptions /\ RetryTask \notin Conns /\ RetryTask # None
    /\ Conns \subseteq Nat /\ IsFiniteSet(Conns)
<1>1. None \notin Conns /\ None \notin Exceptions /\ RetryTask \notin Conns /\ RetryTask # None
  BY InvocationAssumption DEF Conns
<1>2. Conns \subseteq Nat /\ IsFiniteSet(Conns)
  BY InvocationAssumption, FS_Interval DEF Conns
<1> QED
  BY <1>1, <1>2

\* The record of a call after each way in which an attempt may end.
LEMMA AfterFail ==
    ASSUME NEW i \in Invocations, call[i] \in Records, Kept(call[i]),
           call[i].stage \notin Completed, NEW ex \in Exceptions
    PROVE  /\ Fail(i, ex) \in Records /\ Kept(Fail(i, ex))
           /\ Fail(i, ex).stage = "failed" /\ Fail(i, ex).why = ex
           /\ Fail(i, ex).cnt = call[i].cnt
  BY NoneIsNoNumber DEF Fail, Records, Kept, Stages, Completed

LEMMA AfterAnException ==
    ASSUME NEW i \in Invocations, call[i] \in Records, Kept(call[i]),
           call[i].stage \notin Completed, NEW ex \in Exceptions
    PROVE  LET c == AfterException(i, ex)
           IN  /\ c \in Records /\ Kept(c)
               /\ \/ c.stage = "failed" /\ c.why \in {ex, "Canceled"} /\ c.cnt = call[i].cnt
                  \/ /\ c.stage = "retrying" /\ c.why = None /\ c.cnt = call[i].cnt + 1
                     /\ MayRepeat(i, ex)
<1>1. CASE Retried(i, ex) /\ i \notin canceled
  <2>1. call[i].cnt + 1 \in 0 .. Retries + 1
    BY <1>1, InvocationAssumption DEF Records, Retried, RetryLeft
  <2>2. AfterException(i, ex) = [call[i] EXCEPT !.stage = "retrying", !.via = None, !.cnt = @ + 1]
    BY <1>1 DEF AfterException
  <2> QED
    BY <1>1, <2>1, <2>2, NoneIsNoNumber DEF Records, Kept, Stages, Completed, Retried
<1>2. CASE ~(Retried(i, ex) /\ i \notin canceled)
  <2>1. \E e \in {ex, "Canceled"} : AfterException(i, ex) = Fail(i, e)
    BY <1>2 DEF AfterException
  <2>2. "Canceled" \in Exceptions
    BY DEF Exceptions
  <2> QED
    BY <2>1, <2>2, AfterFail
<1> QED
  BY <1>1, <1>2

LEMMA AfterAThrow ==
    ASSUME NEW i \in Invocations, call[i] \in Records, Kept(call[i]),
           call[i].stage \notin Completed, NEW ex \in Exceptions
    PROVE  LET c == AfterThrow(i, ex)
           IN  /\ c \in Records /\ Kept(c)
               /\ \/ c.stage = "failed" /\ c.why = ex /\ c.cnt = call[i].cnt
                  \/ c.stage = "ready" /\ c.why = None /\ c.cnt = call[i].cnt + 1
<1>1. CASE Retried(i, ex)
  <2>1. call[i].cnt + 1 \in 0 .. Retries + 1
    BY <1>1, InvocationAssumption DEF Records, Retried, RetryLeft
  <2>2. AfterThrow(i, ex) = [call[i] EXCEPT !.stage = "ready", !.via = None, !.cnt = @ + 1,
                                            !.sent = FALSE]
    BY <1>1 DEF AfterThrow
  <2> QED
    BY <1>1, <2>1, <2>2, NoneIsNoNumber DEF Records, Kept, Stages, Completed
<1>2. CASE ~Retried(i, ex)
  BY <1>2, AfterFail DEF AfterThrow
<1> QED
  BY <1>1, <1>2

LEMMA AfterARetryException ==
    ASSUME NEW i \in Invocations, call[i] \in Records, Kept(call[i]),
           call[i].stage \in {"bound", "queued"}
    PROVE  LET c == AfterRetryException(i)
           IN  /\ c \in Records /\ Kept(c) /\ c.cnt = call[i].cnt
               /\ \/ c.stage = "failed" /\ c.why = "Canceled"
                  \/ c.stage \in {"ready", "retrying"} /\ c.why = None
<1>1. CASE call[i].stage = "bound"
  <2>1. AfterRetryException(i) = [call[i] EXCEPT !.stage = "ready", !.via = None]
    BY <1>1 DEF AfterRetryException
  <2> QED
    BY <1>1, <2>1, NoneIsNoNumber DEF Records, Kept, Stages, Completed
<1>2. CASE call[i].stage # "bound" /\ i \in canceled
  <2>1. AfterRetryException(i) = Fail(i, "Canceled") /\ "Canceled" \in Exceptions
    BY <1>2 DEF AfterRetryException, Exceptions
  <2>2. call[i].stage \notin Completed
    BY DEF Completed
  <2> QED
    BY <2>1, <2>2, AfterFail
<1>3. CASE call[i].stage # "bound" /\ i \notin canceled
  <2>1. AfterRetryException(i) = [call[i] EXCEPT !.stage = "retrying", !.via = None]
    BY <1>3 DEF AfterRetryException
  <2> QED
    BY <1>3, <2>1, NoneIsNoNumber DEF Records, Kept, Stages, Completed
<1> QED
  BY <1>1, <1>2, <1>3

\* What is left of TypeOK besides the calls.
RestOK ==
    /\ canceled \subseteq Cancelable
    /\ cancelTo \in [Invocations -> Conns \cup {None, RetryTask}]
    /\ handler \in Conns \cup {None}
    /\ requests \in [Conns -> Seq(Invocations)]
    /\ cState \in [Conns -> {"Unused", "Connecting", "Failed", "Active", "Closing",
                             "ClosingPending", "Closed", "Finished"}]
    /\ cException \in [Conns -> Exceptions \cup {None}]
    /\ sendStreams \in [Conns -> Seq(Invocations \cup {CloseMsg})]
    /\ writing \in [Conns -> {"idle", "blocked", "written"}]
    /\ sState \in [Conns -> {"Unused", "Active", "Closing", "ClosingPending", "Closed"}]
    /\ dispatching \in [Conns -> SUBSET Invocations]
    /\ toServer \in [Conns -> Seq(Invocations \cup {CloseMsg})]
    /\ toClient \in [Conns -> Seq(Invocations \cup {CloseMsg})]
    /\ broken \subseteq Conns
    /\ faults \in 0 .. MaxFaults
    /\ executed \subseteq Invocations \X Conns

CallsOK == call \in [Invocations -> Records] /\ \A i \in Invocations : Kept(call[i])

LEMMA TypesInParts == CallsOK /\ RestOK => TypeOK
  BY DEF CallsOK, RestOK, TypeOK, Records, Kept

\* The outcomes of invokeRemote for a call that is bound to k or queued there, with
\* c its record: it ends or is tried again, it is written, or it queues behind others.
IsReturned(i, k, c) ==
    /\ c.stage \in {"ready", "retrying", "failed"} /\ c.cnt >= call[i].cnt
    /\ UNCHANGED <<sendStreams, writing, toServer>>
    /\ \/ UNCHANGED <<cState, cException>>
       \/ cState[k] = "Active" /\ Close(k, "Closed", "ConnectionLost")

IsWritten(i, k, c) ==
    /\ cState[k] = "Active" /\ c = [call[i] EXCEPT !.stage = "out", !.sent = TRUE]
    /\ ToServer(k, i) /\ UNCHANGED clientEnd

IsBlocked(i, k, c) ==
    /\ cState[k] = "Active" /\ c = [call[i] EXCEPT !.stage = "out"]
    /\ sendStreams' = [sendStreams EXCEPT ![k] = Append(@, i)]
    /\ writing' = [writing EXCEPT ![k] = "blocked"]
    /\ UNCHANGED <<cState, cException, toServer>>

IsOutcome(i, k, c) == IsReturned(i, k, c) \/ IsWritten(i, k, c) \/ IsBlocked(i, k, c)

LEMMA RemoteInvocation ==
    ASSUME NEW i \in Invocations, NEW k \in Conns, CallsOK, RestOK,
           call[i].stage \in {"bound", "queued"}, call[i].via = k, InvokeRemote(i, k)
    PROVE  \E c \in Records : /\ Kept(c) /\ call' = [call EXCEPT ![i] = c]
                             /\ handler' \in {handler, None} /\ IsOutcome(i, k, c)
<1> USE DEF Completed
<1>1. call[i] \in Records /\ Kept(call[i]) /\ call[i].cnt \in Nat
  BY InvocationAssumption DEF CallsOK, Records
<1>2. {"ConnectionLost", "Canceled"} \subseteq Exceptions
  BY DEF Exceptions
<1>3. CASE /\ cState[k] \in {"Closing", "ClosingPending", "Closed", "Finished"}
           /\ call' = [call EXCEPT ![i] = AfterRetryException(i)]
           /\ ClearHandler(k)
           /\ UNCHANGED <<clientEnd, toServer>>
  <2>1. LET c == AfterRetryException(i)
        IN  /\ c \in Records /\ Kept(c) /\ c.cnt = call[i].cnt
            /\ \/ c.stage = "failed" /\ c.why = "Canceled"
               \/ c.stage \in {"ready", "retrying"} /\ c.why = None
    BY <1>1, AfterARetryException
  <2>2. None # "ConnectFailed" /\ call[i].cnt >= call[i].cnt
    BY <1>1, NoneIsNoNumber DEF Exceptions
  <2> QED
    BY <1>3, <2>1, <2>2 DEF clientEnd, ClearHandler, IsOutcome, IsReturned
<1>4. CASE /\ cState[k] = "Active" /\ i \in canceled
           /\ call' = [call EXCEPT ![i] = Fail(i, "Canceled")]
           /\ ClearHandler(k)
           /\ UNCHANGED <<clientEnd, toServer>>
  <2>1. LET c == Fail(i, "Canceled")
        IN  c \in Records /\ Kept(c) /\ c.stage = "failed" /\ c.why = "Canceled" /\ c.cnt = call[i].cnt
    BY <1>1, <1>2, AfterFail
  <2>2. call[i].cnt >= call[i].cnt
    BY <1>1
  <2> QED
    BY <1>4, <2>1, <2>2 DEF clientEnd, ClearHandler, IsOutcome, IsReturned
<1>5. CASE cState[k] = "Active" /\ i \notin canceled /\ SendOn(i, k)
  <2>1. CASE /\ sendStreams[k] = <<>>
             /\ call' = [call EXCEPT ![i] = [call[i] EXCEPT !.stage = "out", !.sent = TRUE]]
             /\ ToServer(k, i)
             /\ UNCHANGED <<handler, clientEnd>>
    <3>1. LET c == [call[i] EXCEPT !.stage = "out", !.sent = TRUE] IN c \in Records /\ Kept(c)
      BY <1>1 DEF Records, Kept, Stages
    <3> QED
      BY <1>5, <2>1, <3>1 DEF IsOutcome, IsWritten
  <2>2. CASE /\ call' = [call EXCEPT ![i] = [call[i] EXCEPT !.stage = "out"]]
             /\ sendStreams' = [sendStreams EXCEPT ![k] = Append(@, i)]
             /\ writing' = [writing EXCEPT ![k] = "blocked"]
             /\ UNCHANGED <<handler, cState, cException, toServer>>
    <3>1. LET c == [call[i] EXCEPT !.stage = "out"] IN c \in Records /\ Kept(c)
      BY <1>1 DEF Records, Kept, Stages
    <3> QED
      BY <1>5, <2>2, <3>1 DEF IsOutcome, IsBlocked
  <2>3. CASE /\ sendStreams[k] = <<>> /\ MayFail(k)
             /\ Close(k, "Closed", "ConnectionLost")
             /\ call' = [call EXCEPT ![i] = IF @.stage = "bound"
                                            THEN AfterThrow(i, "ConnectionLost")
                                            ELSE AfterException(i, "ConnectionLost")]
             /\ ClearHandler(k)
             /\ UNCHANGED <<sendStreams, writing, toServer>>
    <3> DEFINE c == IF call[i].stage = "bound" THEN AfterThrow(i, "ConnectionLost")
                    ELSE AfterException(i, "ConnectionLost")
    <3>1. /\ c \in Records /\ Kept(c) /\ c.stage \in {"ready", "retrying", "failed"}
          /\ c.cnt \in {call[i].cnt, call[i].cnt + 1}
          /\ c.why \in {"ConnectionLost", "Canceled", None}
      <4>1. CASE call[i].stage = "bound"
        BY <1>1, <1>2, <4>1, AfterAThrow
      <4>2. CASE call[i].stage # "bound"
        BY <1>1, <1>2, <4>2, AfterAnException
      <4> QED
        BY <4>1, <4>2
    <3>2. c.cnt >= call[i].cnt /\ c.why # "ConnectFailed"
      BY <1>1, <3>1, NoneIsNoNumber DEF Exceptions
    <3>3. call' = [call EXCEPT ![i] = c]
      BY <2>3 DEF CallsOK
    <3> HIDE DEF c
    <3> QED
      BY <1>5, <2>3, <3>1, <3>2, <3>3 DEF ClearHandler, IsOutcome, IsReturned
  <2> QED
    BY <1>5, <2>1, <2>2, <2>3 DEF SendOn
<1> QED
  BY <1>3, <1>4, <1>5 DEF InvokeRemote

-----------------------------------------------------------------------------
(* What a step may do to a call.                                           *)

\* It is not on a connection, before or after, or it fails.
StaysEarly(i) ==
    /\ call[i].stage \in Early
    /\ call'[i].stage \in {"ready", "bound", "queued", "retrying", "failed"}
    /\ call[i].stage = "idle" => call'[i].stage = "ready"
    /\ call'[i].cnt >= call[i].cnt

\* It is given to connection k.
IsSent(i, k) ==
    /\ call[i].stage \in {"bound", "queued"} /\ call[i].via = k
    /\ cState[k] = "Active" /\ cState' = cState
    /\ \E b \in BOOLEAN : call'[i] = [call[i] EXCEPT !.stage = "out", !.sent = b]

\* message() notes that it is sent.
IsAcknowledged(i, k) ==
    /\ On(i, k) /\ writing[k] = "written" /\ Head(sendStreams[k]) = i
    /\ call'[i] = [call[i] EXCEPT !.sent = TRUE]

\* Its reply is read.
IsAnswered(i, k) ==
    /\ On(i, k) /\ Contains(toClient[k], i)
    /\ call'[i].stage = "answered" /\ call'[i].cnt = call[i].cnt /\ call'[i].why = None

\* Its caller gives up.
IsCanceled(i, k) ==
    /\ On(i, k)
    /\ call'[i].stage = "failed" /\ call'[i].why = "Canceled" /\ call'[i].cnt = call[i].cnt

\* finish() gives it the exception of its connection.
IsFinished(i, k) ==
    /\ On(i, k) /\ cState[k] = "Closed" /\ cState'[k] = "Finished" /\ writing[k] # "written"
    /\ \/ /\ call'[i].stage = "failed" /\ call'[i].why \in {cException[k], "Canceled"}
          /\ call'[i].cnt = call[i].cnt
       \/ /\ call'[i].stage = "retrying" /\ call'[i].cnt = call[i].cnt + 1
          /\ MayRepeat(i, cException[k])

CallStep(i) ==
    \/ UNCHANGED call[i]
    \/ StaysEarly(i)
    \/ \E k \in Conns : \/ IsSent(i, k) \/ IsAcknowledged(i, k) \/ IsAnswered(i, k)
                        \/ IsCanceled(i, k) \/ IsFinished(i, k)

CallsStep ==
    /\ call' \in [Invocations -> Records]
    /\ \A i \in Invocations : Kept(call'[i]) /\ CallStep(i)

\* A step that changes one call.
LEMMA OneCall ==
    ASSUME CallsOK, NEW i \in Invocations, NEW c \in Records, Kept(c),
           call' = [call EXCEPT ![i] = c], CallStep(i)
    PROVE  CallsStep
  BY DEF CallsOK, CallsStep, CallStep

LEMMA NoCall ==
    ASSUME CallsOK, UNCHANGED call
    PROVE  CallsStep
  BY DEF CallsOK, CallsStep, CallStep

\* Every step keeps the records well formed and is one of the above for each call.
LEMMA CallSteps ==
    ASSUME CallsOK, RestOK, BookInv, Next
    PROVE  CallsStep
<1> USE DEF Completed
<1>1. \A i \in Invocations : call[i] \in Records /\ Kept(call[i]) /\ call[i].cnt \in Nat
  BY InvocationAssumption DEF CallsOK, Records
<1>2. \A i \in Invocations : call[i].cnt >= call[i].cnt /\ call[i].cnt + 1 >= call[i].cnt
  BY <1>1
<1>3. {"ConnectFailed", "Canceled"} \subseteq Exceptions
  BY DEF Exceptions
<1>4. ASSUME NEW i \in Invocations, NEW k \in Conns, InvokeRemote(i, k),
             call[i].stage \in {"bound", "queued"}, call[i].via = k
      PROVE  CallsStep
  <2>1. PICK c \in Records :
             /\ Kept(c) /\ call' = [call EXCEPT ![i] = c]
             /\ \/ c.stage \in {"ready", "retrying", "failed"} /\ c.cnt >= call[i].cnt
                \/ /\ cState[k] = "Active" /\ cState' = cState
                   /\ \E b \in BOOLEAN : c = [call[i] EXCEPT !.stage = "out", !.sent = b]
    <3>1. call[i].sent = FALSE
      BY <1>1, <1>4 DEF Records, Kept
    <3>2. [call[i] EXCEPT !.stage = "out"] = [call[i] EXCEPT !.stage = "out", !.sent = FALSE]
      BY <3>1, <1>1 DEF Records
    <3>3. PICK c \in Records : Kept(c) /\ call' = [call EXCEPT ![i] = c] /\ IsOutcome(i, k, c)
      BY <1>4, RemoteInvocation
    <3>4. CASE IsReturned(i, k, c)
      BY <3>3, <3>4 DEF IsReturned
    <3>5. CASE IsWritten(i, k, c)
      BY <3>3, <3>5 DEF IsWritten, clientEnd
    <3>6. CASE IsBlocked(i, k, c)
      BY <3>2, <3>3, <3>6 DEF IsBlocked
    <3> QED
      BY <3>3, <3>4, <3>5, <3>6 DEF IsOutcome
  <2>2. call'[i] = c
    BY <2>1 DEF CallsOK
  <2>3. CallStep(i)
    BY <1>4, <2>1, <2>2 DEF CallStep, StaysEarly, IsSent, Early
  <2> QED
    BY <2>1, <2>3, OneCall
<1>5. ASSUME NEW i \in Invocations, Invoke(i)
      PROVE  CallsStep
  <2> DEFINE c == [call[i] EXCEPT !.stage = "ready"]
  <2>1. c \in Records /\ Kept(c) /\ c.stage = "ready" /\ c.cnt = call[i].cnt
    BY <1>1, <1>5 DEF Invoke, Records, Kept, Stages
  <2>2. call' = [call EXCEPT ![i] = c]
    BY <1>5 DEF Invoke, CallsOK
  <2>3. CallStep(i)
    BY <1>2, <1>5, <2>1, <2>2 DEF Invoke, CallsOK, CallStep, StaysEarly, Early
  <2> QED
    BY <2>1, <2>2, <2>3, OneCall
<1>6. ASSUME NEW i \in Invocations, GetRequestHandler(i)
      PROVE  CallsStep
  <2>1. CASE \E k \in Conns : call' = [call EXCEPT ![i].stage = "bound", ![i].via = k]
    <3>1. PICK k \in Conns : call' = [call EXCEPT ![i].stage = "bound", ![i].via = k]
      BY <2>1
    <3> DEFINE c == [call[i] EXCEPT !.stage = "bound", !.via = k]
    <3>2. c \in Records /\ Kept(c) /\ c.stage = "bound" /\ c.cnt = call[i].cnt
      BY <1>1, <1>6, NoneIsNoNumber DEF GetRequestHandler, Records, Kept, Stages
    <3>3. call' = [call EXCEPT ![i] = c]
      BY <3>1 DEF CallsOK
    <3>4. CallStep(i)
      BY <1>2, <1>6, <3>2, <3>3 DEF GetRequestHandler, CallsOK, CallStep, StaysEarly, Early
    <3> QED
      BY <3>2, <3>3, <3>4, OneCall
  <2>2. CASE call' = [call EXCEPT ![i] = AfterThrow(i, "ConnectFailed")]
    <3> DEFINE c == AfterThrow(i, "ConnectFailed")
    <3>1. c \in Records /\ Kept(c) /\ c.stage \in {"ready", "failed"} /\ c.cnt >= call[i].cnt
      BY <1>1, <1>2, <1>3, <1>6, AfterAThrow DEF GetRequestHandler
    <3> HIDE DEF c
    <3>2. CallStep(i)
      BY <1>6, <2>2, <3>1 DEF GetRequestHandler, CallsOK, CallStep, StaysEarly, Early, c
    <3> QED
      BY <2>2, <3>1, <3>2, OneCall DEF c
  <2> QED
    BY <1>6, <2>1, <2>2 DEF GetRequestHandler, RestOK, Usable, Unused
<1>7. ASSUME NEW i \in Invocations, Send(i)
      PROVE  CallsStep
  <2>1. call[i].stage = "bound" /\ call[i].via \in Conns
    BY <1>1, <1>7 DEF Send, Records, Kept
  <2> QED
    BY <1>4, <1>7, <2>1 DEF Send
<1>8. ASSUME NEW i \in Invocations, Queue(i)
      PROVE  CallsStep
  <2>1. call[i].stage = "bound"
    BY <1>8 DEF Queue
  <2> DEFINE queued == [call[i] EXCEPT !.stage = "queued"]
             failed == Fail(i, "Canceled")
             thrown == AfterThrow(i, "ConnectFailed")
  <2>2. queued \in Records /\ Kept(queued) /\ queued.stage = "queued" /\ queued.cnt >= call[i].cnt
    BY <1>1, <1>2, <2>1 DEF Records, Kept, Stages
  <2>3. failed \in Records /\ Kept(failed) /\ failed.stage = "failed" /\ failed.cnt >= call[i].cnt
    BY <1>1, <1>2, <1>3, <2>1, AfterFail
  <2>4. thrown \in Records /\ Kept(thrown) /\ thrown.stage \in {"ready", "failed"} /\ thrown.cnt >= call[i].cnt
    BY <1>1, <1>2, <1>3, <2>1, AfterAThrow
  <2>5. \E c \in {queued, failed, thrown} : call' = [call EXCEPT ![i] = c]
    BY <1>8 DEF Queue, CallsOK
  <2> HIDE DEF queued, failed, thrown
  <2>6. PICK c \in Records : /\ Kept(c) /\ c.stage \in {"queued", "ready", "failed"}
                             /\ c.cnt >= call[i].cnt /\ call' = [call EXCEPT ![i] = c]
    BY <2>2, <2>3, <2>4, <2>5
  <2>7. CallStep(i)
    BY <2>1, <2>6 DEF CallsOK, CallStep, StaysEarly, Early
  <2> QED
    BY <2>6, <2>7, OneCall
<1>9. ASSUME NEW i \in Invocations, Retry(i)
      PROVE  CallsStep
  <2> DEFINE c == [call[i] EXCEPT !.stage = "ready", !.sent = FALSE]
  <2>1. c \in Records /\ Kept(c) /\ c.stage = "ready" /\ c.cnt >= call[i].cnt
    BY <1>1, <1>2, <1>9, NoneIsNoNumber DEF Retry, Records, Kept, Stages
  <2>2. call' = [call EXCEPT ![i] = c]
    BY <1>9 DEF Retry, CallsOK
  <2>3. CallStep(i)
    BY <1>9, <2>1, <2>2 DEF Retry, CallsOK, CallStep, StaysEarly, Early
  <2> QED
    BY <2>1, <2>2, <2>3, OneCall
<1>10. ASSUME NEW i \in Invocations, NotifyHandler(i)
       PROVE  CallsStep
  <2>1. CASE ~CancelFinds(i)
    BY <1>10, <2>1, NoCall DEF NotifyHandler
  <2>2. CASE CancelFinds(i)
    <3> DEFINE c == Fail(i, "Canceled")
    <3>1. call' = [call EXCEPT ![i] = c] /\ call[i].stage \in {"retrying", "queued", "out"}
      BY <1>10, <2>2 DEF NotifyHandler, CancelFinds
    <3>2. c \in Records /\ Kept(c) /\ c.stage = "failed" /\ c.why = "Canceled" /\ c.cnt = call[i].cnt
      BY <1>1, <1>3, <3>1, AfterFail
    <3> HIDE DEF c
    <3>3. call'[i] = c
      BY <3>1 DEF CallsOK
    <3>4. CASE call[i].stage = "out"
      <4>1. call[i].via \in Conns
        BY <1>1, <3>4 DEF Records, Kept
      <4>2. IsCanceled(i, call[i].via)
        BY <3>2, <3>3, <3>4 DEF IsCanceled, On
      <4>3. CallStep(i)
        BY <4>1, <4>2 DEF CallStep
      <4> QED
        BY <3>1, <3>2, <4>3, OneCall
    <3>5. CASE call[i].stage # "out"
      <4>1. CallStep(i)
        BY <1>2, <3>1, <3>2, <3>3, <3>5 DEF CallStep, StaysEarly, Early
      <4> QED
        BY <3>1, <3>2, <4>1, OneCall
    <3> QED
      BY <3>4, <3>5
  <2> QED
    BY <2>1, <2>2
<1>11. ASSUME NEW k \in Conns, ConnectFails(k)
       PROVE  CallsStep
  <2> DEFINE Q(i) == call[i].stage = "queued" /\ call[i].via = k
             c(i) == AfterException(i, "ConnectFailed")
  <2>1. ASSUME NEW i \in Invocations, Q(i)
        PROVE  /\ c(i) \in Records /\ Kept(c(i)) /\ c(i).stage \in {"failed", "retrying"}
               /\ c(i).cnt >= call[i].cnt
    BY <1>1, <1>2, <1>3, <2>1, AfterAnException
  <2>2. call' = [i \in Invocations |-> IF Q(i) THEN c(i) ELSE call[i]]
    BY <1>11 DEF ConnectFails
  <2> HIDE DEF c
  <2>3. ASSUME NEW i \in Invocations
        PROVE  call'[i] \in Records /\ Kept(call'[i]) /\ CallStep(i)
    <3>1. CASE Q(i)
      BY <2>1, <2>2, <3>1 DEF CallStep, StaysEarly, Early
    <3>2. CASE ~Q(i)
      BY <1>1, <2>2, <3>2 DEF CallStep
    <3> QED
      BY <3>1, <3>2
  <2>4. call' \in [Invocations -> Records]
    BY <2>2, <2>3
  <2> QED
    BY <2>3, <2>4 DEF CallsStep
<1>12. ASSUME NEW k \in Conns, Flush(k)
       PROVE  CallsStep
  <2> DEFINE i == Head(requests[k])
  <2>1. /\ i \in Invocations /\ 1 \in DOMAIN requests[k] /\ requests[k][1] = i
    BY <1>12, HeadTailProperties, EmptySeq DEF Flush, Flushing, RestOK
  <2>2. call[i].stage = "queued" /\ call[i].via = k
    BY <2>1 DEF BookInv, QueueInv
  <2>3. InvokeRemote(i, k)
    BY <1>12 DEF Flush
  <2> HIDE DEF i
  <2> QED
    BY <1>4, <2>1, <2>2, <2>3
<1>13. ASSUME NEW k \in Conns, Acknowledge(k)
       PROVE  CallsStep
  <2> DEFINE i == Head(sendStreams[k])
  <2>1. CASE i \in Outstanding(k)
    <3> DEFINE c == [call[i] EXCEPT !.sent = TRUE]
    <3>1. i \in Invocations /\ On(i, k) /\ call' = [call EXCEPT ![i] = c] /\ writing[k] = "written"
      BY <1>13, <2>1 DEF Acknowledge, Outstanding, On, CallsOK
    <3>2. c \in Records /\ Kept(c)
      BY <1>1, <3>1 DEF Records, Kept, On
    <3>3. CallStep(i)
      BY <3>1 DEF CallsOK, CallStep, IsAcknowledged
    <3> QED
      BY <3>1, <3>2, <3>3, OneCall
  <2>2. CASE i \notin Outstanding(k)
    BY <1>13, <2>2, NoCall DEF Acknowledge
  <2> QED
    BY <2>1, <2>2
<1>14. ASSUME NEW k \in Conns, ClientReads(k)
       PROVE  CallsStep
  <2> DEFINE m == Head(toClient[k])
  <2>1. CASE m \in Outstanding(k) /\ m # CloseMsg
    <3> DEFINE c == [call[m] EXCEPT !.stage = "answered", !.via = None]
    <3>1. m \in Invocations /\ On(m, k) /\ call' = [call EXCEPT ![m] = c]
      BY <1>14, <2>1 DEF ClientReads, Outstanding, On, CallsOK
    <3>2. Contains(toClient[k], m)
      BY <1>14, ContainsTail DEF ClientReads, RestOK
    <3>3. /\ c \in Records /\ Kept(c) /\ c.stage = "answered" /\ c.cnt = call[m].cnt /\ c.why = None
      BY <1>1, <3>1, NoneIsNoNumber DEF Records, Kept, On, Stages
    <3> HIDE DEF m, c
    <3>4. call'[m] = c
      BY <3>1 DEF CallsOK
    <3>5. IsAnswered(m, k)
      BY <3>1, <3>2, <3>3, <3>4 DEF IsAnswered
    <3>6. CallStep(m)
      BY <3>5 DEF CallStep
    <3> QED
      BY <3>1, <3>3, <3>6, OneCall
  <2>2. CASE ~(m \in Outstanding(k) /\ m # CloseMsg)
    BY <1>14, <2>2, NoCall DEF ClientReads
  <2> QED
    BY <2>1, <2>2
<1>15. ASSUME NEW k \in Conns, Finish(k)
       PROVE  CallsStep
  <2> DEFINE c(i) == AfterException(i, cException[k])
  <2>1. /\ cState[k] = "Closed" /\ cState'[k] = "Finished" /\ writing[k] # "written"
        /\ call' = [i \in Invocations |-> IF i \in Outstanding(k) THEN c(i) ELSE call[i]]
    BY <1>15 DEF Finish, Unlocked, RestOK
  <2>2. cException[k] \in Exceptions
    BY <2>1, NoneIsNoNumber DEF BookInv, EndsInv, Unestablished, RestOK
  <2>3. ASSUME NEW i \in Invocations, On(i, k)
        PROVE  /\ c(i) \in Records /\ Kept(c(i))
               /\ \/ /\ c(i).stage = "failed" /\ c(i).why \in {cException[k], "Canceled"}
                     /\ c(i).cnt = call[i].cnt
                  \/ /\ c(i).stage = "retrying" /\ c(i).cnt = call[i].cnt + 1
                     /\ MayRepeat(i, cException[k])
    BY <1>1, <2>2, <2>3, AfterAnException DEF On
  <2> HIDE DEF c
  <2>4. ASSUME NEW i \in Invocations
        PROVE  call'[i] \in Records /\ Kept(call'[i]) /\ CallStep(i)
    <3>1. CASE On(i, k)
      <4>1. call'[i] = c(i)
        BY <2>1, <3>1 DEF Outstanding, On
      <4>2. IsFinished(i, k)
        BY <2>1, <2>3, <3>1, <4>1 DEF IsFinished
      <4> QED
        BY <2>3, <3>1, <4>1, <4>2 DEF CallStep
    <3>2. CASE ~On(i, k)
      BY <1>1, <2>1, <3>2 DEF Outstanding, On, CallStep
    <3> QED
      BY <3>1, <3>2
  <2>5. call' \in [Invocations -> Records]
    BY <2>1, <2>4
  <2> QED
    BY <2>4, <2>5 DEF CallsStep
<1>16. ASSUME UNCHANGED call
       PROVE  CallsStep
  BY <1>16, NoCall
<1>17. ASSUME NEW i \in Invocations, Cancel(i)
       PROVE  UNCHANGED call
  BY <1>17 DEF Cancel
<1>18. ASSUME NEW k \in Conns,
              \/ Established(k) \/ FinishWrite(k) \/ LoseConnection(k) \/ ClientCloses(k)
              \/ ServerEnd(k) \/ ServerCloses(k) \/ Break(k)
       PROVE  UNCHANGED call
  BY <1>18 DEF Established, FinishWrite, LoseConnection, ClientCloses, ServerEnd, ServerReads,
               Execute, SendResponse, ServerLoses, ServerCloses, Break
<1>19. Crash \/ AllCompleted => UNCHANGED call
  BY DEF Crash, AllCompleted, vars
<1> QED
  BY <1>5, <1>6, <1>7, <1>8, <1>9, <1>10, <1>11, <1>12, <1>13, <1>14, <1>15, <1>16, <1>17,
     <1>18, <1>19 DEF Next, Caller, ClientEnd

-----------------------------------------------------------------------------
(* Types.                                                                  *)

LEMMA RestSteps ==
    ASSUME CallsOK, RestOK, BookInv, Next
    PROVE  RestOK'
<1> DEFINE Messages == Invocations \cup {CloseMsg}
<1>1. \A i \in Invocations : call[i] \in Records /\ Kept(call[i])
  BY DEF CallsOK
<1>2. \A i \in Invocations : call[i].via \in Conns \cup {None}
  BY <1>1 DEF Records
<1>3. \A i \in Invocations : call[i].stage \in {"bound", "queued", "out"} => call[i].via \in Conns
  BY <1>1, <1>2, NoneIsNoNumber DEF Kept
<1>4. {"CloseConnection", "ConnectionLost", "ManuallyClosed", "Idle"} \subseteq Exceptions
  BY DEF Exceptions
<1>5. \A k \in Conns : toServer[k] \in Seq(Messages) /\ toClient[k] \in Seq(Messages)
                       /\ sendStreams[k] \in Seq(Messages) /\ requests[k] \in Seq(Invocations)
  BY DEF RestOK
<1>6. ASSUME NEW k \in Conns, NEW m \in Messages, ToServer(k, m)
      PROVE  toServer' \in [Conns -> Seq(Messages)]
  BY <1>5, <1>6 DEF ToServer, RestOK
<1>7. ASSUME NEW k \in Conns, NEW i \in Invocations, InvokeRemote(i, k),
             call[i].stage \in {"bound", "queued"}, call[i].via = k
      PROVE  /\ handler' \in Conns \cup {None}
             /\ cState' \in [Conns -> {"Unused", "Connecting", "Failed", "Active", "Closing",
                                       "ClosingPending", "Closed", "Finished"}]
             /\ cException' \in [Conns -> Exceptions \cup {None}]
             /\ sendStreams' \in [Conns -> Seq(Messages)]
             /\ writing' \in [Conns -> {"idle", "blocked", "written"}]
             /\ toServer' \in [Conns -> Seq(Messages)]
  <2>1. PICK c \in Records : handler' \in {handler, None} /\ IsOutcome(i, k, c)
    BY <1>7, RemoteInvocation
  <2>2. CASE UNCHANGED <<sendStreams, writing, toServer, cState, cException>>
    BY <2>1, <2>2 DEF RestOK
  <2>3. CASE UNCHANGED <<sendStreams, writing, toServer>> /\ Close(k, "Closed", "ConnectionLost")
    BY <1>4, <2>1, <2>3 DEF RestOK, Close
  <2>4. CASE ToServer(k, i) /\ UNCHANGED clientEnd
    BY <1>6, <2>1, <2>4 DEF RestOK, clientEnd
  <2>5. CASE /\ sendStreams' = [sendStreams EXCEPT ![k] = Append(@, i)]
             /\ writing' = [writing EXCEPT ![k] = "blocked"]
             /\ UNCHANGED <<cState, cException, toServer>>
    <3>1. Append(sendStreams[k], i) \in Seq(Messages)
      BY <1>5
    <3> QED
      BY <2>1, <2>5, <3>1 DEF RestOK
  <2> QED
    BY <2>1, <2>2, <2>3, <2>4, <2>5 DEF IsOutcome, IsReturned, IsWritten, IsBlocked
<1>8. ASSUME NEW i \in Invocations, Invoke(i) \/ Retry(i)
      PROVE  RestOK'
  BY <1>8 DEF Invoke, Retry, RestOK, cancelVars, clientEnd, serverEnd, faultVars
<1>9. ASSUME NEW i \in Invocations, GetRequestHandler(i)
      PROVE  RestOK'
  BY <1>9 DEF GetRequestHandler, RestOK, cancelVars, clientEnd, serverEnd, faultVars, Usable,
              Unused
<1>10. ASSUME NEW i \in Invocations, Send(i)
       PROVE  RestOK'
  <2>1. call[i].stage = "bound" /\ call[i].via \in Conns
    BY <1>3, <1>10 DEF Send
  <2>2. InvokeRemote(i, call[i].via)
    BY <1>10 DEF Send
  <2> QED
    BY <1>7, <1>10, <2>1, <2>2 DEF Send, RestOK, cancelVars, serverEnd, faultVars
<1>11. ASSUME NEW i \in Invocations, Queue(i)
       PROVE  RestOK'
  <2>1. call[i].via \in Conns /\ Append(requests[call[i].via], i) \in Seq(Invocations)
    BY <1>3, <1>5, <1>11 DEF Queue
  <2>2. requests' \in [Conns -> Seq(Invocations)]
    BY <1>11, <2>1 DEF Queue, RestOK
  <2>3. handler' \in Conns \cup {None}
    BY <1>11 DEF Queue, ClearHandler, RestOK
  <2>4. UNCHANGED <<cancelVars, clientEnd, serverEnd, toServer, toClient, faultVars>>
    BY <1>11 DEF Queue
  <2> QED
    BY <2>2, <2>3, <2>4 DEF RestOK, cancelVars, clientEnd, serverEnd, faultVars
<1>12. ASSUME NEW i \in Invocations, Cancel(i)
       PROVE  RestOK'
  BY <1>3, <1>12 DEF Cancel, RestOK, clientEnd, serverEnd, faultVars
<1>13. ASSUME NEW i \in Invocations, NotifyHandler(i)
       PROVE  RestOK'
  <2>1. CASE ~CancelFinds(i)
    BY <1>13, <2>1 DEF NotifyHandler, RestOK, clientEnd, serverEnd, faultVars
  <2>2. CASE CancelFinds(i)
    <3>1. handler' \in Conns \cup {None}
      BY <1>13, <2>2 DEF NotifyHandler, ClearHandler, RestOK
    <3>2. requests' \in [Conns -> Seq(Invocations)]
      <4>1. CASE call[i].stage = "queued"
        <5> DEFINE k == call[i].via
        <5>1. k \in Conns /\ Contains(requests[k], i)
          BY <1>3, <4>1 DEF BookInv, QueueInv
        <5>2. Position(requests[k], i) \in DOMAIN requests[k]
          BY <1>5, <5>1, PositionIsThere
        <5>3. RemoveAt(requests[k], Position(requests[k], i)) \in Seq(Invocations)
          BY <1>5, <5>1, <5>2, RemoveAtProperties
        <5> QED
          BY <1>13, <2>2, <4>1, <5>1, <5>3 DEF NotifyHandler, RestOK
      <4>2. CASE call[i].stage # "queued"
        BY <1>13, <2>2, <4>2 DEF NotifyHandler, RestOK
      <4> QED
        BY <4>1, <4>2
    <3>3. sendStreams' \in [Conns -> Seq(Messages)]
      <4>1. CASE call[i].stage = "out"
        <5> DEFINE k == call[i].via
        <5>1. k \in Conns
          BY <1>3, <4>1
        <5>2. Withdraw(sendStreams[k], i) \in Seq(Messages)
          BY <1>5, <5>1, WithdrawProperties
        <5> QED
          BY <1>13, <2>2, <4>1, <5>1, <5>2 DEF NotifyHandler, RestOK
      <4>2. CASE call[i].stage # "out"
        BY <1>13, <2>2, <4>2 DEF NotifyHandler, RestOK
      <4> QED
        BY <4>1, <4>2
    <3> QED
      BY <1>13, <3>1, <3>2, <3>3 DEF NotifyHandler, RestOK, clientEnd, serverEnd, faultVars
  <2> QED
    BY <2>1, <2>2
<1>14. ASSUME NEW k \in Conns, Established(k)
       PROVE  RestOK'
  BY <1>14 DEF Established, RestOK, cancelVars, faultVars
<1>15. ASSUME NEW k \in Conns, ConnectFails(k)
       PROVE  RestOK'
  BY <1>15, EmptySeq DEF ConnectFails, ClearHandler, RestOK, cancelVars, serverEnd, faultVars
<1>16. ASSUME NEW k \in Conns, Flush(k)
       PROVE  RestOK'
  <2> DEFINE i == Head(requests[k])
  <2>1. /\ i \in Invocations /\ 1 \in DOMAIN requests[k] /\ requests[k][1] = i
        /\ Tail(requests[k]) \in Seq(Invocations)
    BY <1>5, <1>16, HeadTailProperties, EmptySeq DEF Flush, Flushing
  <2>2. call[i].stage = "queued" /\ call[i].via = k
    BY <2>1 DEF BookInv, QueueInv
  <2>3. InvokeRemote(i, k)
    BY <1>16 DEF Flush
  <2> HIDE DEF i
  <2> QED
    BY <1>7, <1>16, <2>1, <2>2, <2>3 DEF Flush, RestOK, cancelVars, serverEnd, faultVars
<1>17. ASSUME NEW k \in Conns, FinishWrite(k)
       PROVE  RestOK'
  <2>1. sendStreams[k] # <<>>
    BY <1>17 DEF FinishWrite, BookInv, EndsInv
  <2>2. Head(sendStreams[k]) \in Messages
    BY <1>5, <2>1, HeadTailProperties
  <2>3. toServer' \in [Conns -> Seq(Messages)]
    BY <1>6, <1>17, <2>2 DEF FinishWrite
  <2> QED
    BY <1>17, <2>3 DEF FinishWrite, RestOK, cancelVars, serverEnd, faultVars
<1>18. ASSUME NEW k \in Conns, Acknowledge(k)
       PROVE  RestOK'
  <2>1. sendStreams[k] # <<>>
    BY <1>18 DEF Acknowledge, BookInv, EndsInv
  <2>2. Tail(sendStreams[k]) \in Seq(Messages)
    BY <1>5, <2>1, HeadTailProperties
  <2> QED
    BY <1>18, <2>2 DEF Acknowledge, RestOK, cancelVars, serverEnd, faultVars
<1>19. ASSUME NEW k \in Conns, ClientReads(k)
       PROVE  RestOK'
  <2>1. Tail(toClient[k]) \in Seq(Messages)
    BY <1>5, <1>19, HeadTailProperties DEF ClientReads
  <2> QED
    BY <1>4, <1>19, <2>1 DEF ClientReads, Close, RestOK, cancelVars, serverEnd, faultVars
<1>20. ASSUME NEW k \in Conns, LoseConnection(k)
       PROVE  RestOK'
  BY <1>4, <1>20 DEF LoseConnection, Close, RestOK, cancelVars, serverEnd, faultVars
<1>21. ASSUME NEW k \in Conns, Finish(k)
       PROVE  RestOK'
  BY <1>21, EmptySeq DEF Finish, ClearHandler, RestOK, cancelVars, serverEnd, faultVars
<1>22. ASSUME NEW k \in Conns, ClientCloses(k)
       PROVE  RestOK'
  <2>1. PICK ex \in Exceptions : ShutDown(k, ex)
    BY <1>4, <1>22 DEF ClientCloses
  <2>2. CASE /\ Close(k, "ClosingPending", ex) /\ ToServer(k, CloseMsg)
             /\ UNCHANGED <<sendStreams, writing>>
    BY <1>6, <1>22, <2>2 DEF ClientCloses, Close, RestOK, cancelVars, serverEnd, faultVars
  <2>3. CASE /\ Close(k, "Closing", ex)
             /\ sendStreams' = [sendStreams EXCEPT ![k] = Append(@, CloseMsg)]
             /\ writing' = [writing EXCEPT ![k] = "blocked"] /\ UNCHANGED toServer
    <3>1. Append(sendStreams[k], CloseMsg) \in Seq(Messages)
      BY <1>5
    <3> QED
      BY <1>22, <2>3, <3>1 DEF ClientCloses, Close, RestOK, cancelVars, serverEnd, faultVars
  <2> QED
    BY <2>1, <2>2, <2>3 DEF ShutDown
<1>23. ASSUME NEW k \in Conns, ServerReads(k)
       PROVE  RestOK'
  <2>1. Tail(toServer[k]) \in Seq(Messages) /\ Head(toServer[k]) \in Messages
    BY <1>5, <1>23, HeadTailProperties DEF ServerReads
  <2>2. CASE Head(toServer[k]) = CloseMsg
    <3>1. /\ sState' = [sState EXCEPT ![k] = "Closed"]
          /\ toServer' = [toServer EXCEPT ![k] = <<>>] /\ UNCHANGED dispatching
      BY <1>23, <2>2 DEF ServerReads, ServerEndCloses
    <3>2. <<>> \in Seq(Messages)
      OBVIOUS
    <3> QED
      BY <1>23, <3>1, <3>2 DEF ServerReads, RestOK, cancelVars, clientEnd, faultVars
  <2>3. CASE Head(toServer[k]) # CloseMsg
    <3>1. /\ dispatching' = [dispatching EXCEPT ![k] =
                               IF sState[k] = "Active" THEN @ \cup {Head(toServer[k])} ELSE @]
          /\ toServer' = [toServer EXCEPT ![k] = Tail(@)] /\ UNCHANGED sState
      BY <1>23, <2>3 DEF ServerReads
    <3>2. dispatching' \in [Conns -> SUBSET Invocations]
      BY <2>1, <2>3, <3>1 DEF RestOK
    <3> QED
      BY <1>23, <2>1, <3>1, <3>2 DEF ServerReads, RestOK, cancelVars, clientEnd, faultVars
  <2> QED
    BY <2>2, <2>3
<1>24. ASSUME NEW k \in Conns, NEW i \in Invocations, Execute(i, k)
       PROVE  RestOK'
  BY <1>24 DEF Execute, RestOK, cancelVars, clientEnd, faultVars
<1>25. ASSUME NEW k \in Conns, NEW ms \in Seq(Messages), ToClient(k, ms)
       PROVE  toClient' \in [Conns -> Seq(Messages)]
  <2>1. toClient[k] \o ms \in Seq(Messages)
    BY <1>5, ConcatProperties
  <2> QED
    BY <1>25, <2>1 DEF ToClient, RestOK
<1>26. ASSUME NEW k \in Conns, NEW i \in Invocations, SendResponse(i, k)
       PROVE  RestOK'
  <2>1. <<i, CloseMsg>> \in Seq(Messages) /\ <<i>> \in Seq(Messages)
    OBVIOUS
  <2>2. toClient' \in [Conns -> Seq(Messages)]
    BY <1>25, <1>26, <2>1 DEF SendResponse
  <2> QED
    BY <1>26, <2>2 DEF SendResponse, RestOK, cancelVars, clientEnd, faultVars
<1>27. ASSUME NEW k \in Conns, ServerLoses(k)
       PROVE  RestOK'
  BY <1>27, EmptySeq DEF ServerLoses, ServerEndCloses, RestOK, cancelVars, clientEnd, faultVars
<1>28. ASSUME NEW k \in Conns, ServerCloses(k)
       PROVE  RestOK'
  <2>1. <<CloseMsg>> \in Seq(Messages)
    OBVIOUS
  <2>2. toClient' \in [Conns -> Seq(Messages)]
    BY <1>25, <1>28, <2>1 DEF ServerCloses, RestOK
  <2> QED
    BY <1>28, <2>2 DEF ServerCloses, RestOK, cancelVars, clientEnd, faultVars
<1>29. ASSUME NEW k \in Conns, Break(k)
       PROVE  RestOK'
  <2>1. broken' \subseteq Conns /\ faults' \in 0 .. MaxFaults
    BY <1>29, InvocationAssumption DEF Break, RestOK
  <2> QED
    BY <1>29, <2>1 DEF Break, RestOK, cancelVars, clientEnd, serverEnd
<1>30. ASSUME Crash
       PROVE  RestOK'
  BY <1>30, InvocationAssumption, EmptySeq DEF Crash, RestOK, cancelVars, clientEnd
<1>31. ASSUME AllCompleted
       PROVE  RestOK'
  BY <1>31 DEF AllCompleted, RestOK, vars, cancelVars, clientEnd, serverEnd, faultVars
<1> QED
  BY <1>8, <1>9, <1>10, <1>11, <1>12, <1>13, <1>14, <1>15, <1>16, <1>17, <1>18, <1>19, <1>20,
     <1>21, <1>22, <1>23, <1>24, <1>26, <1>27, <1>28, <1>29, <1>30, <1>31
     DEF Next, Caller, ClientEnd, ServerEnd

-----------------------------------------------------------------------------
(* What a step may do to the client's end of a connection.                 *)

EndStep(k) ==
    \/ UNCHANGED <<cState[k], cException[k]>>
    \/ cState[k] = "Unused" /\ cState'[k] = "Connecting" /\ UNCHANGED cException[k]
    \/ cState[k] = "Connecting" /\ cState'[k] \in {"Failed", "Active"} /\ UNCHANGED cException[k]
    \/ /\ cState[k] = "Active" /\ cState'[k] \in {"Closing", "ClosingPending"}
       /\ cException'[k] \in {cException[k], "Idle", "ManuallyClosed"} \ {None}
    \/ cState[k] = "Closing" /\ cState'[k] = "ClosingPending" /\ UNCHANGED cException[k]
    \/ /\ Open(k) /\ cState'[k] = "Closed"
       /\ cException'[k] \in {cException[k], "ConnectionLost", "CloseConnection"} \ {None}
       /\ cException'[k] = "CloseConnection" =>
             \/ cException[k] = "CloseConnection"
             \/ toClient[k] # <<>> /\ Head(toClient[k]) = CloseMsg
    \/ /\ cState[k] = "Closed" /\ cState'[k] = "Finished" /\ UNCHANGED cException[k]
       /\ \A i \in Invocations : On(i, k) => call'[i].stage \in {"failed", "retrying"}

LEMMA EndSteps ==
    ASSUME CallsOK, RestOK, BookInv, Next
    PROVE  \A k \in Conns : EndStep(k)
<1>1. \A i \in Invocations : call[i] \in Records /\ Kept(call[i])
  BY DEF CallsOK
<1>2. \A i \in Invocations : call[i].stage \in {"bound", "queued", "out"} => call[i].via \in Conns
  BY <1>1, NoneIsNoNumber DEF Kept, Records
<1>3. "ConnectionLost" # None /\ "CloseConnection" # None /\ "Idle" # None /\ "ManuallyClosed" # None
  BY NoneIsNoNumber DEF Exceptions
<1>4. ASSUME NEW n \in Conns, NEW i \in Invocations, InvokeRemote(i, n),
             call[i].stage \in {"bound", "queued"}, call[i].via = n, NEW k \in Conns
      PROVE  EndStep(k)
  <2>1. \E c \in Records : IsOutcome(i, n, c)
    BY <1>4, RemoteInvocation
  <2>2. \/ UNCHANGED <<cState, cException>>
        \/ cState[n] = "Active" /\ Close(n, "Closed", "ConnectionLost")
    BY <2>1 DEF IsOutcome, IsReturned, IsWritten, IsBlocked, clientEnd
  <2> QED
    BY <1>3, <2>2 DEF EndStep, Close, Open, RestOK
<1>5. ASSUME NEW i \in Invocations, GetRequestHandler(i), NEW k \in Conns
      PROVE  EndStep(k)
  BY <1>5 DEF GetRequestHandler, EndStep, RestOK, Usable, Unused
<1>6. ASSUME NEW i \in Invocations, Send(i), NEW k \in Conns
      PROVE  EndStep(k)
  <2>1. call[i].stage = "bound" /\ call[i].via \in Conns
    BY <1>2, <1>6 DEF Send
  <2> QED
    BY <1>4, <1>6, <2>1 DEF Send
<1>7. ASSUME NEW n \in Conns, Flush(n), NEW k \in Conns
      PROVE  EndStep(k)
  <2> DEFINE i == Head(requests[n])
  <2>1. i \in Invocations /\ 1 \in DOMAIN requests[n] /\ requests[n][1] = i
    BY <1>7, HeadTailProperties, EmptySeq DEF Flush, Flushing, RestOK
  <2>2. call[i].stage = "queued" /\ call[i].via = n
    BY <2>1 DEF BookInv, QueueInv
  <2>3. InvokeRemote(i, n)
    BY <1>7 DEF Flush
  <2> HIDE DEF i
  <2> QED
    BY <1>4, <2>1, <2>2, <2>3
<1>8. ASSUME NEW n \in Conns, Established(n) \/ ConnectFails(n), NEW k \in Conns
      PROVE  EndStep(k)
  BY <1>8 DEF Established, ConnectFails, EndStep, RestOK
<1>9. ASSUME NEW n \in Conns, Acknowledge(n), NEW k \in Conns
      PROVE  EndStep(k)
  BY <1>9 DEF Acknowledge, EndStep, RestOK
<1>10. ASSUME NEW n \in Conns, ClientReads(n), NEW k \in Conns
       PROVE  EndStep(k)
  <2>1. CASE Head(toClient[n]) # CloseMsg
    BY <1>10, <2>1 DEF ClientReads, EndStep
  <2>2. CASE Head(toClient[n]) = CloseMsg
    <3>1. Open(n) /\ toClient[n] # <<>> /\ Close(n, "Closed", "CloseConnection")
      BY <1>10, <2>2 DEF ClientReads
    <3> QED
      BY <1>3, <2>2, <3>1 DEF Close, Open, EndStep, RestOK
  <2> QED
    BY <2>1, <2>2
<1>11. ASSUME NEW n \in Conns, LoseConnection(n), NEW k \in Conns
       PROVE  EndStep(k)
  BY <1>3, <1>11 DEF LoseConnection, Close, Open, EndStep, RestOK
<1>12. ASSUME NEW n \in Conns, Finish(n), NEW k \in Conns
       PROVE  EndStep(k)
  <2>1. CASE k # n
    BY <1>12, <2>1 DEF Finish, EndStep, RestOK
  <2>2. CASE k = n
    <3>1. /\ cState[k] = "Closed" /\ cState'[k] = "Finished" /\ UNCHANGED cException[k]
          /\ call' = [i \in Invocations |-> IF i \in Outstanding(k)
                                            THEN AfterException(i, cException[k]) ELSE call[i]]
      BY <1>12, <2>2 DEF Finish, RestOK
    <3>2. cException[k] \in Exceptions
      BY <3>1, NoneIsNoNumber DEF BookInv, EndsInv, Unestablished, RestOK
    <3>3. ASSUME NEW i \in Invocations, On(i, k)
          PROVE  call'[i].stage \in {"failed", "retrying"}
      <4>1. call'[i] = AfterException(i, cException[k])
        BY <3>1, <3>3 DEF On, Outstanding
      <4>2. call[i].stage \notin Completed
        BY <3>3 DEF On, Completed
      <4> QED
        BY <1>1, <3>2, <4>1, <4>2, AfterAnException
    <3> QED
      BY <3>1, <3>3 DEF EndStep
  <2> QED
    BY <2>1, <2>2
<1>13. ASSUME NEW n \in Conns, ClientCloses(n), NEW k \in Conns
       PROVE  EndStep(k)
  <2>1. cState[n] = "Active" /\ \E ex \in {"Idle", "ManuallyClosed"} : ShutDown(n, ex)
    BY <1>13 DEF ClientCloses
  <2>2. \E ex \in {"Idle", "ManuallyClosed"}, to \in {"Closing", "ClosingPending"} : Close(n, to, ex)
    BY <2>1 DEF ShutDown
  <2> QED
    BY <1>3, <2>1, <2>2 DEF Close, EndStep, RestOK
<1>14. ASSUME UNCHANGED <<cState, cException>>, NEW k \in Conns
       PROVE  EndStep(k)
  BY <1>14 DEF EndStep
<1>15. ASSUME NEW i \in Invocations, Invoke(i) \/ Queue(i) \/ Retry(i) \/ NotifyHandler(i) \/ Cancel(i)
       PROVE  UNCHANGED <<cState, cException>>
  BY <1>15 DEF Invoke, Queue, Retry, NotifyHandler, Cancel, clientEnd
<1>16. ASSUME NEW k \in Conns,
              FinishWrite(k) \/ ServerEnd(k) \/ ServerCloses(k) \/ Break(k)
       PROVE  UNCHANGED <<cState, cException>>
  BY <1>16 DEF FinishWrite, ServerEnd, ServerReads, Execute, SendResponse, ServerLoses,
               ServerCloses, Break, clientEnd
<1>17. Crash \/ AllCompleted => UNCHANGED <<cState, cException>>
  BY DEF Crash, AllCompleted, vars, clientEnd
<1> QED
  BY <1>5, <1>6, <1>7, <1>8, <1>9, <1>10, <1>11, <1>12, <1>13, <1>14, <1>15, <1>16, <1>17
     DEF Next, Caller, ClientEnd

-----------------------------------------------------------------------------
(* The bookkeeping of calls, queues and connections.                       *)

LEMMA CallInvKept ==
    ASSUME CallsOK, RestOK, BookInv, Next, NEW i \in Invocations
    PROVE  CallInv(i)'
<1> DEFINE Up == {"Active", "Closing", "ClosingPending", "Closed"}
<1>1. Kept(call'[i]) /\ CallStep(i) /\ call[i] \in Records /\ Kept(call[i])
  BY CallSteps DEF CallsStep, CallsOK
<1>2. ASSUME call'[i].stage = "out"
      PROVE  cState'[call'[i].via] \in Up
  <2>1. CASE \E k \in Conns : IsSent(i, k)
    BY <2>1, <1>1 DEF IsSent, Records
  <2>2. CASE call[i].stage = "out" /\ call'[i].via = call[i].via
    <3> DEFINE k == call[i].via
    <3>1. k \in Conns /\ On(i, k) /\ cState[k] \in Up
      BY <1>1, <2>2, NoneIsNoNumber DEF On, Records, Kept, BookInv, CallInv
    <3>2. EndStep(k)
      BY <3>1, EndSteps
    <3> QED
      BY <1>2, <2>2, <3>1, <3>2 DEF EndStep, Open
  <2> QED
    BY <1>1, <1>2, <2>1, <2>2 DEF CallStep, StaysEarly, IsAcknowledged, IsAnswered, IsCanceled,
                                  IsFinished, On, Records
<1> QED
  BY <1>1, <1>2 DEF CallInv

QueuedAt(i, k) == call[i].stage = "queued" /\ call[i].via = k

LEMMA QueueUnchanged ==
    ASSUME NEW k \in Conns, RestOK, QueueInv(k), UNCHANGED requests[k],
           \A i \in Invocations : QueuedAt(i, k)' <=> QueuedAt(i, k)
    PROVE  QueueInv(k)'
<1>1. \A n \in DOMAIN requests[k] : requests[k][n] \in Invocations
  BY ElementOfSeq, LenProperties DEF RestOK
<1> QED
  BY <1>1 DEF QueueInv, QueuedAt

\* A connect request handler has each of its queued calls, once, and no other.
LEMMA QueueInvKept ==
    ASSUME CallsOK, RestOK, BookInv, Next, NEW k \in Conns
    PROVE  QueueInv(k)'
<1> USE DEF Completed
<1>1. \A i \in Invocations : call[i] \in Records /\ Kept(call[i])
  BY DEF CallsOK
<1>2. {"ConnectFailed", "Canceled"} \subseteq Exceptions
  BY DEF Exceptions
<1>3. requests[k] \in Seq(Invocations) /\ QueueInv(k)
  BY DEF RestOK, BookInv
<1>4. ASSUME UNCHANGED requests[k],
             \A i \in Invocations : \/ UNCHANGED call[i]
                                    \/ call[i].stage # "queued" /\ call'[i].stage # "queued"
      PROVE  QueueInv(k)'
  BY <1>3, <1>4, QueueUnchanged DEF QueuedAt
\* The call that the handler has kept leaves its queue for good.
<1>5. ASSUME NEW n \in Conns, NEW i \in Invocations, InvokeRemote(i, n),
             call[i].stage \in {"bound", "queued"}, call[i].via = n
      PROVE  /\ call'[i].stage # "queued"
             /\ \A j \in Invocations \ {i} : UNCHANGED call[j]
  <2>1. PICK c \in Records : call' = [call EXCEPT ![i] = c] /\ IsOutcome(i, n, c)
    BY <1>5, RemoteInvocation
  <2>2. c.stage # "queued"
    <3>1. [call[i] EXCEPT !.stage = "out"].stage # "queued"
      BY <1>1 DEF Records
    <3>2. [call[i] EXCEPT !.stage = "out", !.sent = TRUE].stage # "queued"
      BY <1>1 DEF Records
    <3>3. c.stage \in {"ready", "retrying", "failed"} \/ c = [call[i] EXCEPT !.stage = "out"]
             \/ c = [call[i] EXCEPT !.stage = "out", !.sent = TRUE]
      BY <2>1 DEF IsOutcome, IsReturned, IsWritten, IsBlocked
    <3> QED
      BY <3>1, <3>2, <3>3
  <2> QED
    BY <2>1, <2>2 DEF CallsOK
<1>6. ASSUME NEW i \in Invocations, Invoke(i) \/ Retry(i)
      PROVE  QueueInv(k)'
  BY <1>4, <1>6 DEF Invoke, Retry, CallsOK, Records
<1>7. ASSUME NEW i \in Invocations, GetRequestHandler(i)
      PROVE  QueueInv(k)'
  <2>1. AfterThrow(i, "ConnectFailed").stage # "queued"
    BY <1>1, <1>2, <1>7, AfterAThrow DEF GetRequestHandler
  <2> QED
    BY <1>4, <1>7, <2>1 DEF GetRequestHandler, CallsOK, Records
<1>8. ASSUME NEW i \in Invocations, Send(i)
      PROVE  QueueInv(k)'
  <2>1. call[i].stage = "bound" /\ call[i].via \in Conns
    BY <1>1, <1>8, NoneIsNoNumber DEF Send, Kept, Records
  <2>2. InvokeRemote(i, call[i].via) /\ UNCHANGED requests
    BY <1>8 DEF Send
  <2> QED
    BY <1>4, <1>5, <2>1, <2>2
<1>9. ASSUME NEW i \in Invocations, Queue(i)
      PROVE  QueueInv(k)'
  <2> DEFINE n == call[i].via
  <2>1. call[i].stage = "bound" /\ n \in Conns
    BY <1>1, <1>9, NoneIsNoNumber DEF Queue, Kept, Records
  <2>2. CASE /\ call' = [call EXCEPT ![i].stage = "queued"]
             /\ requests' = [requests EXCEPT ![n] = Append(@, i)]
    <3>1. CASE k = n
      <4>0. PICK q : q = Append(requests[k], i)
        OBVIOUS
      <4>1. requests'[k] = q
        BY <2>2, <3>1, <4>0 DEF RestOK
      <4>2. /\ q \in Seq(Invocations) /\ Len(requests[k]) \in Nat /\ Len(q) = Len(requests[k]) + 1
            /\ DOMAIN q = 1 .. Len(q) /\ DOMAIN requests[k] = 1 .. Len(requests[k])
            /\ \A m \in DOMAIN q : q[m] = IF m = Len(q) THEN i ELSE requests[k][m]
        BY <1>3, <4>0
      <4>3. \A m \in DOMAIN requests[k] : requests[k][m] # i /\ requests[k][m] \in Invocations
        BY <1>3, <2>1, <4>2, ElementOfSeq DEF QueueInv
      <4>4. QueuedAt(i, k)' /\ \A j \in Invocations \ {i} : UNCHANGED call[j]
        BY <2>1, <2>2, <3>1 DEF CallsOK, Records, QueuedAt
      <4>5. \A m \in DOMAIN q : QueuedAt(q[m], k)'
        BY <1>3, <4>2, <4>3, <4>4 DEF QueueInv, QueuedAt
      <4>6. \A l, m \in DOMAIN q : q[l] = q[m] => l = m
        BY <1>3, <4>2, <4>3 DEF QueueInv
      <4>7. ASSUME NEW j \in Invocations, QueuedAt(j, k)'
            PROVE  Contains(q, j)
        <5>1. j = i \/ Contains(requests[k], j)
          BY <1>3, <4>4, <4>7 DEF QueueInv, QueuedAt
        <5> QED
          BY <1>3, <4>0, <5>1, ContainsAppend
      <4> QED
        BY <4>1, <4>5, <4>6, <4>7 DEF QueueInv, QueuedAt
    <3>2. CASE k # n
      <4>1. /\ UNCHANGED requests[k] /\ ~QueuedAt(i, k) /\ ~QueuedAt(i, k)'
            /\ \A j \in Invocations \ {i} : UNCHANGED call[j]
        BY <2>1, <2>2, <3>2 DEF CallsOK, Records, QueuedAt, RestOK
      <4>2. \A j \in Invocations : QueuedAt(j, k)' <=> QueuedAt(j, k)
        BY <4>1 DEF QueuedAt
      <4> QED
        BY <1>3, <4>1, <4>2, QueueUnchanged
    <3> QED
      BY <3>1, <3>2
  <2>3. CASE UNCHANGED requests /\ \E c \in {Fail(i, "Canceled"), AfterThrow(i, "ConnectFailed")} :
                                       call' = [call EXCEPT ![i] = c]
    <3>1. /\ Fail(i, "Canceled").stage # "queued"
          /\ AfterThrow(i, "ConnectFailed").stage # "queued"
      BY <1>1, <1>2, <2>1, AfterAThrow, AfterFail
    <3> QED
      BY <1>4, <2>1, <2>3, <3>1 DEF CallsOK
  <2> QED
    BY <1>9, <2>2, <2>3 DEF Queue
\* Taking the call at position p out of the queue.
<1>10. ASSUME NEW i \in Invocations, NEW p \in DOMAIN requests[k], requests[k][p] = i,
              NEW q, requests'[k] = q, Len(q) = Len(requests[k]) - 1,
              q \in Seq(Invocations),
              \A m \in 1 .. Len(requests[k]) - 1 :
                 q[m] = IF m < p THEN requests[k][m] ELSE requests[k][m + 1],
              call'[i].stage # "queued",
              \A j \in Invocations \ {i} : UNCHANGED call[j]
       PROVE  QueueInv(k)'
  <2> DEFINE r == requests[k]
  <2>1. /\ Len(r) \in Nat /\ DOMAIN r = 1 .. Len(r) /\ DOMAIN q = 1 .. Len(r) - 1
        /\ \A m \in DOMAIN r : r[m] \in Invocations
    BY <1>3, <1>10, LenProperties, ElementOfSeq
  <2>2. \A l, m \in DOMAIN r : r[l] = r[m] => l = m
    BY <1>3 DEF QueueInv
  <2>3. \A m \in DOMAIN r : QueuedAt(r[m], k)
    BY <1>3 DEF QueueInv, QueuedAt
  <2> DEFINE at(m) == IF m < p THEN m ELSE m + 1
  <2>4. \A m \in DOMAIN q : at(m) \in DOMAIN r /\ at(m) # p /\ q[m] = r[at(m)]
    BY <1>10, <2>1
  <2>5. \A l, m \in DOMAIN q : at(l) = at(m) => l = m
    BY <1>10, <2>1
  <2> HIDE DEF r, at
  <2>6. \A m \in DOMAIN q : QueuedAt(q[m], k)'
    <3>1. \A m \in DOMAIN q : q[m] # i /\ q[m] \in Invocations /\ QueuedAt(q[m], k)
      BY <1>10, <2>1, <2>2, <2>3, <2>4 DEF r
    <3> QED
      BY <1>10, <3>1 DEF QueuedAt
  <2>7. \A l, m \in DOMAIN q : q[l] = q[m] => l = m
    BY <2>2, <2>4, <2>5
  <2>8. ASSUME NEW j \in Invocations, QueuedAt(j, k)'
        PROVE  Contains(q, j)
    <3>1. j # i /\ QueuedAt(j, k)
      BY <1>10, <2>8 DEF QueuedAt
    <3>2. Contains(r, j)
      BY <1>3, <3>1 DEF QueueInv, QueuedAt, r
    <3>3. PICK m \in 1 .. Len(r) : r[m] = j
      BY <3>2 DEF Contains
    <3>4. m # p /\ m \in DOMAIN r
      BY <1>10, <2>1, <3>1, <3>3 DEF r
    <3>5. CASE m < p
      <4>1. m \in 1 .. Len(q) /\ q[m] = j
        BY <1>10, <2>1, <3>3, <3>5 DEF r
      <4> QED
        BY <4>1 DEF Contains
    <3>6. CASE ~(m < p)
      <4>1. m - 1 \in 1 .. Len(q) /\ q[m - 1] = r[(m - 1) + 1]
        BY <1>10, <2>1, <3>3, <3>4, <3>6 DEF r
      <4> QED
        BY <3>3, <4>1, <2>1 DEF Contains
    <3> QED
      BY <3>5, <3>6
  <2> QED
    BY <1>10, <2>6, <2>7, <2>8 DEF QueueInv, QueuedAt
<1>11. ASSUME NEW i \in Invocations, NotifyHandler(i)
       PROVE  QueueInv(k)'
  <2>1. CASE ~CancelFinds(i)
    BY <1>4, <1>11, <2>1 DEF NotifyHandler
  <2>2. CASE CancelFinds(i)
    <3>1. call' = [call EXCEPT ![i] = Fail(i, "Canceled")] /\ call[i].stage \in {"retrying", "queued", "out"}
      BY <1>11, <2>2 DEF NotifyHandler, CancelFinds
    <3>2. call'[i].stage = "failed" /\ \A j \in Invocations \ {i} : UNCHANGED call[j]
      BY <1>1, <1>2, <3>1, AfterFail DEF CallsOK
    <3>3. CASE call[i].stage # "queued"
      BY <1>4, <1>11, <2>2, <3>2, <3>3 DEF NotifyHandler
    <3>4. CASE QueuedAt(i, k)
      <4> DEFINE p == Position(requests[k], i)
                 q == RemoveAt(requests[k], p)
      <4>1. Contains(requests[k], i)
        BY <1>3, <3>4 DEF QueueInv, QueuedAt
      <4>2. p \in DOMAIN requests[k] /\ requests[k][p] = i
        BY <1>3, <4>1, PositionIsThere
      <4>3. requests'[k] = q
        BY <1>11, <2>2, <3>4 DEF NotifyHandler, QueuedAt, RestOK
      <4>4. /\ q \in Seq(Invocations) /\ Len(q) = Len(requests[k]) - 1
            /\ \A m \in 1 .. Len(requests[k]) - 1 :
                  q[m] = IF m < p THEN requests[k][m] ELSE requests[k][m + 1]
        BY <1>3, <4>2, RemoveAtProperties
      <4> HIDE DEF p, q
      <4> QED
        BY <1>10, <3>2, <4>2, <4>3, <4>4
    <3>5. CASE call[i].stage = "queued" /\ call[i].via # k
      <4>1. UNCHANGED requests[k]
        BY <1>11, <2>2, <3>5 DEF NotifyHandler, RestOK
      <4>2. \A j \in Invocations : QueuedAt(j, k)' <=> QueuedAt(j, k)
        BY <3>2, <3>5 DEF QueuedAt
      <4> QED
        BY <1>3, <4>1, <4>2, QueueUnchanged
    <3> QED
      BY <3>3, <3>4, <3>5 DEF QueuedAt
  <2> QED
    BY <2>1, <2>2
<1>12. ASSUME NEW n \in Conns, Flush(n)
       PROVE  QueueInv(k)'
  <2> DEFINE i == Head(requests[n])
  <2>1. /\ requests[n] \in Seq(Invocations) /\ requests[n] # <<>>
        /\ InvokeRemote(i, n) /\ requests' = [requests EXCEPT ![n] = Tail(@)]
    BY <1>12 DEF Flush, Flushing, RestOK
  <2>2. /\ i \in Invocations /\ 1 \in DOMAIN requests[n] /\ requests[n][1] = i
        /\ Len(Tail(requests[n])) = Len(requests[n]) - 1 /\ Tail(requests[n]) \in Seq(Invocations)
        /\ \A m \in 1 .. Len(requests[n]) - 1 : Tail(requests[n])[m] = requests[n][m + 1]
    BY <2>1, HeadTailProperties, EmptySeq
  <2>3. call[i].stage = "queued" /\ call[i].via = n
    BY <2>2 DEF BookInv, QueueInv
  <2>4. /\ call'[i].stage # "queued"
        /\ \A j \in Invocations \ {i} : UNCHANGED call[j]
    BY <1>5, <2>1, <2>2, <2>3
  <2> HIDE DEF i
  <2>5. CASE k = n
    <3>1. \A m \in 1 .. Len(requests[k]) - 1 : ~(m < 1)
      BY <1>3
    <3>2. requests'[k] = Tail(requests[k])
      BY <2>1, <2>5 DEF RestOK
    <3> QED
      BY <1>10, <2>2, <2>4, <2>5, <3>1, <3>2
  <2>6. CASE k # n
    <3>1. UNCHANGED requests[k]
      BY <2>1, <2>6 DEF RestOK
    <3>2. \A j \in Invocations : QueuedAt(j, k)' <=> QueuedAt(j, k)
      BY <2>3, <2>4, <2>6 DEF QueuedAt
    <3> QED
      BY <1>3, <3>1, <3>2, QueueUnchanged
  <2> QED
    BY <2>5, <2>6
<1>13. ASSUME NEW n \in Conns, ConnectFails(n)
       PROVE  QueueInv(k)'
  <2>1. \A i \in Invocations : IF QueuedAt(i, n)
                               THEN call'[i].stage # "queued" ELSE UNCHANGED call[i]
    BY <1>1, <1>2, <1>13, AfterAnException DEF ConnectFails, QueuedAt
  <2>2. CASE k = n
    <3>1. requests'[k] = <<>> /\ DOMAIN <<>> = {}
      BY <1>13, <2>2 DEF ConnectFails, RestOK
    <3>2. \A i \in Invocations : ~QueuedAt(i, k)'
      BY <2>1, <2>2 DEF QueuedAt
    <3> QED
      BY <3>1, <3>2 DEF QueueInv, QueuedAt
  <2>3. CASE k # n
    <3>1. UNCHANGED requests[k]
      BY <1>13, <2>3 DEF ConnectFails, RestOK
    <3>2. \A j \in Invocations : QueuedAt(j, k)' <=> QueuedAt(j, k)
      BY <2>1, <2>3 DEF QueuedAt
    <3> QED
      BY <1>3, <3>1, <3>2, QueueUnchanged
  <2> QED
    BY <2>2, <2>3
<1>14. ASSUME NEW n \in Conns, Acknowledge(n) \/ ClientReads(n)
       PROVE  QueueInv(k)'
  BY <1>4, <1>14 DEF Acknowledge, ClientReads, Outstanding, CallsOK, Records
<1>15. ASSUME NEW n \in Conns, Finish(n)
       PROVE  QueueInv(k)'
  <2>1. cException[n] \in Exceptions
    BY <1>15, NoneIsNoNumber DEF Finish, BookInv, EndsInv, Unestablished, RestOK
  <2>2. \A i \in Outstanding(n) : AfterException(i, cException[n]).stage # "queued"
    BY <1>1, <2>1, AfterAnException DEF Outstanding
  <2> QED
    BY <1>4, <1>15, <2>2 DEF Finish, Outstanding
<1>16. ASSUME UNCHANGED <<call, requests>>
       PROVE  QueueInv(k)'
  BY <1>4, <1>16
<1>17. ASSUME NEW i \in Invocations, Cancel(i)
       PROVE  UNCHANGED <<call, requests>>
  BY <1>17 DEF Cancel
<1>18. ASSUME NEW n \in Conns,
              \/ Established(n) \/ FinishWrite(n) \/ LoseConnection(n) \/ ClientCloses(n)
              \/ ServerEnd(n) \/ ServerCloses(n) \/ Break(n)
       PROVE  UNCHANGED <<call, requests>>
  BY <1>18 DEF Established, FinishWrite, LoseConnection, ClientCloses, ServerEnd, ServerReads,
               Execute, SendResponse, ServerLoses, ServerCloses, Break
<1>19. Crash \/ AllCompleted => UNCHANGED <<call, requests>>
  BY DEF Crash, AllCompleted, vars
<1> QED
  BY <1>6, <1>7, <1>8, <1>9, <1>11, <1>12, <1>13, <1>14, <1>15, <1>16, <1>17, <1>18, <1>19
     DEF Next, Caller, ClientEnd

\* The two ends of a connection and why it closes go together.
LEMMA EndsInvKept ==
    ASSUME CallsOK, RestOK, BookInv, Next, NEW k \in Conns
    PROVE  EndsInv(k)'
<1> DEFINE Messages == Invocations \cup {CloseMsg}
<1>1. \A i \in Invocations : call[i] \in Records /\ Kept(call[i])
  BY DEF CallsOK
<1>2. \A i \in Invocations : call[i].stage \in {"bound", "queued", "out"} => call[i].via \in Conns
  BY <1>1, NoneIsNoNumber DEF Kept, Records
<1>3. EndsInv(k) /\ EndStep(k) /\ RestOK'
  BY EndSteps, RestSteps DEF BookInv
<1>4. \A s \in Seq(Messages), m \in Messages : Append(s, m) # <<>>
  OBVIOUS
<1>5. "CloseConnection" # None /\ "ConnectionLost" # None /\ "ManuallyClosed" # None /\ "Idle" # None
  BY NoneIsNoNumber DEF Exceptions
<1>6. ASSUME NEW n \in Conns, NEW state, NEW ex, Close(n, state, ex)
       PROVE  IF k = n THEN /\ cState'[k] = state
                            /\ cException'[k] = IF cException[k] = None THEN ex ELSE cException[k]
              ELSE UNCHANGED <<cState[k], cException[k]>>
  BY <1>6 DEF Close, RestOK
<1>7. ASSUME NEW n \in Conns, ServerEndCloses(n)
       PROVE  IF k = n THEN sState'[k] = "Closed" /\ toServer'[k] = <<>>
              ELSE UNCHANGED <<sState[k], toServer[k]>>
  BY <1>7 DEF ServerEndCloses, RestOK
<1> USE DEF EndsInv, Unestablished
\* The client's end writes only when the connection is established.
<1>8. ASSUME NEW n \in Conns, NEW i \in Invocations, InvokeRemote(i, n),
             call[i].stage \in {"bound", "queued"}, call[i].via = n,
             UNCHANGED <<serverEnd, toClient>>
      PROVE  EndsInv(k)'
  <2> USE DEF serverEnd
  <2>1. CASE UNCHANGED <<sendStreams, writing, toServer, cState, cException>>
    BY <1>3, <1>8, <2>1
  <2>2. CASE /\ UNCHANGED <<sendStreams, writing, toServer>> /\ cState[n] = "Active"
             /\ Close(n, "Closed", "ConnectionLost")
    BY <1>3, <1>8, <1>5, <1>6, <2>2
  <2>3. CASE ToServer(n, i) /\ UNCHANGED clientEnd /\ cState[n] = "Active"
    BY <1>3, <1>8, <2>3 DEF ToServer, clientEnd, RestOK
  <2>4. CASE /\ sendStreams' = [sendStreams EXCEPT ![n] = Append(@, i)]
             /\ writing' = [writing EXCEPT ![n] = "blocked"]
             /\ cState[n] = "Active" /\ UNCHANGED <<cState, cException, toServer>>
    <3>1. sendStreams[n] \in Seq(Messages) /\ Append(sendStreams[n], i) # <<>>
      BY <1>4 DEF RestOK
    <3>2. IF k = n THEN sendStreams'[k] # <<>> /\ cState[k] = "Active"
          ELSE UNCHANGED <<sendStreams[k], writing[k]>>
      BY <2>4, <3>1 DEF RestOK
    <3> QED
      BY <1>3, <1>8, <2>4, <3>2
  <2>5. \E c \in Records : IsOutcome(i, n, c)
    BY <1>8, RemoteInvocation
  <2> QED
    BY <2>1, <2>2, <2>3, <2>4, <2>5 DEF IsOutcome, IsReturned, IsWritten, IsBlocked
<1>9. ASSUME UNCHANGED <<clientEnd, serverEnd, toServer>>
      PROVE  EndsInv(k)'
  BY <1>3, <1>9 DEF clientEnd, serverEnd
<1>10. ASSUME NEW i \in Invocations, Invoke(i) \/ Queue(i) \/ Retry(i) \/ Cancel(i)
      PROVE  UNCHANGED <<clientEnd, serverEnd, toServer>>
  BY <1>10 DEF Invoke, Queue, Retry, Cancel
<1>11. ASSUME NEW i \in Invocations, GetRequestHandler(i)
      PROVE  EndsInv(k)'
  BY <1>3, <1>11 DEF GetRequestHandler, serverEnd, RestOK, Usable, Unused
<1>12. ASSUME NEW i \in Invocations, Send(i)
      PROVE  EndsInv(k)'
  <2>1. call[i].stage = "bound" /\ call[i].via \in Conns
    BY <1>2, <1>12 DEF Send
  <2> QED
    BY <1>8, <1>12, <2>1 DEF Send
<1>13. ASSUME NEW n \in Conns, Flush(n)
       PROVE  EndsInv(k)'
  <2> DEFINE i == Head(requests[n])
  <2>1. i \in Invocations /\ 1 \in DOMAIN requests[n] /\ requests[n][1] = i
    BY <1>13, HeadTailProperties, EmptySeq DEF Flush, Flushing, RestOK
  <2>2. call[i].stage = "queued" /\ call[i].via = n
    BY <2>1 DEF BookInv, QueueInv
  <2>3. InvokeRemote(i, n) /\ UNCHANGED <<serverEnd, toClient>>
    BY <1>13 DEF Flush
  <2> HIDE DEF i
  <2> QED
    BY <1>8, <2>1, <2>2, <2>3
<1>14. ASSUME NEW i \in Invocations, NotifyHandler(i)
       PROVE  EndsInv(k)'
  <2>1. UNCHANGED <<cState, cException, writing, serverEnd, toServer>>
    BY <1>14 DEF NotifyHandler
  <2>2. sendStreams[k] = <<>> <=> sendStreams'[k] = <<>>
    <3>1. CASE CancelFinds(i) /\ call[i].stage = "out"
      <4>1. call[i].via \in Conns /\ sendStreams[call[i].via] \in Seq(Messages)
        BY <1>2, <3>1 DEF RestOK
      <4>2. sendStreams' = [sendStreams EXCEPT ![call[i].via] = Withdraw(@, i)]
        BY <1>14, <3>1 DEF NotifyHandler
      <4> QED
        BY <4>1, <4>2, WithdrawProperties DEF RestOK
    <3>2. CASE ~(CancelFinds(i) /\ call[i].stage = "out")
      BY <1>14, <3>2 DEF NotifyHandler
    <3> QED
      BY <3>1, <3>2
  <2> QED
    BY <1>3, <2>1, <2>2 DEF serverEnd
<1>15. ASSUME NEW n \in Conns, Established(n) \/ ConnectFails(n)
       PROVE  EndsInv(k)'
  <2>1. CASE Established(n)
    <3>1. /\ UNCHANGED <<cException, sendStreams, writing, dispatching, executed, toServer>>
          /\ IF k = n THEN cState[k] = "Connecting" /\ cState'[k] = "Active" /\ sState'[k] = "Active"
             ELSE UNCHANGED <<cState[k], sState[k]>>
      BY <2>1 DEF Established, RestOK
    <3> QED
      BY <1>3, <3>1
  <2>2. CASE ConnectFails(n)
    <3>1. /\ UNCHANGED <<cException, sendStreams, writing, serverEnd, toServer>>
          /\ IF k = n THEN cState[k] = "Connecting" /\ cState'[k] = "Failed"
             ELSE UNCHANGED cState[k]
      BY <2>2 DEF ConnectFails, RestOK
    <3> QED
      BY <1>3, <3>1 DEF serverEnd
  <2> QED
    BY <1>15, <2>1, <2>2
<1>16. ASSUME NEW n \in Conns, FinishWrite(n)
       PROVE  EndsInv(k)'
  BY <1>3, <1>16 DEF FinishWrite, ToServer, Open, serverEnd, RestOK
<1>17. ASSUME NEW n \in Conns, Acknowledge(n)
       PROVE  EndsInv(k)'
  <2>1. sendStreams[n] # <<>> /\ ~Unestablished(n)
    BY <1>17 DEF Acknowledge, BookInv
  <2>2. /\ UNCHANGED <<cException, serverEnd, toServer>>
        /\ IF k = n THEN /\ writing'[k] = "idle" \/ sendStreams'[k] # <<>>
                         /\ cState'[k] \in {cState[k], "ClosingPending"}
                         /\ cState'[k] # cState[k] => cState[k] = "Closing"
           ELSE UNCHANGED <<cState[k], sendStreams[k], writing[k]>>
    BY <1>17 DEF Acknowledge, RestOK
  <2> QED
    BY <1>3, <2>1, <2>2 DEF serverEnd
<1>18. ASSUME NEW n \in Conns, ClientReads(n)
       PROVE  EndsInv(k)'
  <2>1. Open(n) /\ UNCHANGED <<sendStreams, writing, serverEnd, toServer>>
    BY <1>18 DEF ClientReads
  <2>2. CASE Close(n, "Closed", "CloseConnection")
    BY <1>3, <1>5, <1>6, <2>1, <2>2 DEF Open, serverEnd
  <2>3. CASE UNCHANGED <<cState, cException>>
    BY <1>3, <2>1, <2>3 DEF serverEnd
  <2> QED
    BY <1>18, <2>2, <2>3 DEF ClientReads
<1>19. ASSUME NEW n \in Conns, LoseConnection(n)
       PROVE  EndsInv(k)'
  BY <1>3, <1>19, NoneIsNoNumber DEF LoseConnection, Open, Close, serverEnd, RestOK, Exceptions
<1>20. ASSUME NEW n \in Conns, Finish(n)
       PROVE  EndsInv(k)'
  BY <1>3, <1>20 DEF Finish, serverEnd, RestOK
<1>21. ASSUME NEW n \in Conns, ClientCloses(n)
       PROVE  EndsInv(k)'
  <2>1. PICK ex \in {"Idle", "ManuallyClosed"} : ShutDown(n, ex)
    BY <1>21 DEF ClientCloses
  <2>2. cState[n] = "Active" /\ UNCHANGED <<serverEnd, toClient>>
    BY <1>21 DEF ClientCloses
  <2>3. CASE /\ Close(n, "ClosingPending", ex) /\ ToServer(n, CloseMsg)
             /\ UNCHANGED <<sendStreams, writing>>
    <3>1. UNCHANGED toServer[k] \/ k = n
      BY <2>3 DEF ToServer, RestOK
    <3> QED
      BY <1>3, <1>5, <1>6, <2>1, <2>2, <2>3, <3>1 DEF serverEnd
  <2>4. CASE /\ Close(n, "Closing", ex)
             /\ sendStreams' = [sendStreams EXCEPT ![n] = Append(@, CloseMsg)]
             /\ writing' = [writing EXCEPT ![n] = "blocked"] /\ UNCHANGED toServer
    <3>1. sendStreams[n] \in Seq(Messages) /\ Append(sendStreams[n], CloseMsg) # <<>>
      BY <1>4 DEF RestOK
    <3>2. CASE k = n
      <4>1. sendStreams'[k] # <<>> /\ cState'[k] = "Closing" /\ cException'[k] # None
        BY <1>5, <1>6, <2>1, <2>4, <3>1, <3>2 DEF RestOK
      <4>2. cException'[k] \in {cException[k], "ManuallyClosed", "Idle"}
        BY <1>6, <2>1, <2>4, <3>2
      <4> QED
        BY <1>3, <2>2, <2>4, <3>2, <4>1, <4>2 DEF serverEnd
    <3>3. CASE k # n
      BY <1>3, <1>6, <2>2, <2>4, <3>3 DEF serverEnd, RestOK
    <3> QED
      BY <3>2, <3>3
  <2> QED
    BY <2>1, <2>3, <2>4 DEF ShutDown
<1>22. ASSUME NEW n \in Conns, ServerReads(n)
       PROVE  EndsInv(k)'
  <2>1. sState[n] \notin {"Unused"} /\ UNCHANGED <<clientEnd, executed>>
    BY <1>22 DEF ServerReads
  <2>2. CASE Head(toServer[n]) = CloseMsg
    <3>1. ServerEndCloses(n) /\ UNCHANGED dispatching
      BY <1>22, <2>2 DEF ServerReads
    <3> QED
      BY <1>3, <1>7, <2>1, <3>1 DEF clientEnd
  <2>3. CASE Head(toServer[n]) # CloseMsg
    <3>1. UNCHANGED sState /\ (k # n => UNCHANGED <<dispatching[k], toServer[k]>>)
      BY <1>22, <2>3 DEF ServerReads, RestOK
    <3> QED
      BY <1>3, <2>1, <3>1 DEF clientEnd
  <2> QED
    BY <2>2, <2>3
<1>23. ASSUME NEW n \in Conns, NEW i \in Invocations, Execute(i, n)
       PROVE  EndsInv(k)'
  BY <1>3, <1>23 DEF Execute, clientEnd, RestOK
<1>24. ASSUME NEW n \in Conns, NEW i \in Invocations, SendResponse(i, n)
       PROVE  EndsInv(k)'
  BY <1>3, <1>24 DEF SendResponse, clientEnd, RestOK
<1>25. ASSUME NEW n \in Conns, ServerLoses(n) \/ ServerCloses(n)
       PROVE  EndsInv(k)'
  <2>1. CASE ServerLoses(n)
    BY <1>3, <1>7, <2>1 DEF ServerLoses, clientEnd
  <2>2. CASE ServerCloses(n)
    <3>1. UNCHANGED <<clientEnd, dispatching, executed, toServer>> /\ sState[n] = "Active"
      BY <2>2 DEF ServerCloses
    <3>2. \/ UNCHANGED sState[k]
          \/ sState[k] = "Active" /\ sState'[k] \in {"Closing", "ClosingPending"}
      BY <2>2, <3>1 DEF ServerCloses, RestOK
    <3> QED
      BY <1>3, <3>1, <3>2 DEF clientEnd
  <2> QED
    BY <1>25, <2>1, <2>2
<1>26. ASSUME NEW n \in Conns, Break(n)
       PROVE  UNCHANGED <<clientEnd, serverEnd, toServer>>
  BY <1>26 DEF Break
<1>27. ASSUME Crash
       PROVE  EndsInv(k)'
  BY <1>3, <1>27 DEF Crash, clientEnd
<1>28. AllCompleted => UNCHANGED <<clientEnd, serverEnd, toServer>>
  BY DEF AllCompleted, vars
<1> QED
  BY <1>9, <1>10, <1>11, <1>12, <1>13, <1>14, <1>15, <1>16, <1>17, <1>18, <1>19, <1>20, <1>21,
     <1>22, <1>23, <1>24, <1>25, <1>26, <1>27, <1>28 DEF Next, Caller, ClientEnd, ServerEnd

LEMMA InitialBook == Init => CallsOK /\ RestOK /\ BookInv
<1> SUFFICES ASSUME Init PROVE CallsOK /\ RestOK /\ BookInv
  OBVIOUS
<1>1. call \in [Invocations -> Records] /\ \A i \in Invocations : Kept(call[i])
  BY InvocationAssumption, NoneIsNoNumber DEF Init, Records, Kept, Stages
<1>2. RestOK
  BY InvocationAssumption, EmptySeq DEF Init, RestOK
<1>3. \A i \in Invocations : CallInv(i)
  BY <1>1 DEF Init, CallInv
<1>4. \A k \in Conns : QueueInv(k) /\ EndsInv(k)
  <2>1. DOMAIN <<>> = {}
    OBVIOUS
  <2> QED
    BY <2>1 DEF Init, QueueInv, EndsInv, Unestablished
<1> QED
  BY <1>1, <1>2, <1>3, <1>4 DEF CallsOK, BookInv

LEMMA BookKept ==
    ASSUME CallsOK, RestOK, BookInv, [Next]_vars
    PROVE  (CallsOK /\ RestOK /\ BookInv)'
<1>1. CASE Next
  <2>1. CallsOK'
    BY <1>1, CallSteps DEF CallsStep, CallsOK
  <2> QED
    BY <1>1, <2>1, RestSteps, CallInvKept, QueueInvKept, EndsInvKept DEF BookInv
<1>2. CASE UNCHANGED vars
  BY <1>2 DEF vars, cancelVars, clientEnd, serverEnd, faultVars, CallsOK, RestOK, BookInv,
              CallInv, QueueInv, EndsInv, Unestablished, Contains
<1> QED
  BY <1>1, <1>2

LEMMA BookHolds == Spec => [](CallsOK /\ RestOK /\ BookInv)
  BY InitialBook, BookKept, PTL DEF Spec

\* Every reachable state of the run time is well typed, and what a call remembers
\* at each of its stages is what OutgoingAsync.cpp keeps there.
THEOREM TypeCorrect == Spec => []TypeOK
  BY BookHolds, TypesInParts, PTL

=============================================================================
