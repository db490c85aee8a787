--------------------------- MODULE ThreadPool_proofs ---------------------------
(***************************************************************************)
(* Theorems about ThreadPool, for every configuration, any number of       *)
(* connections, requests, queued items and threads that leave: its         *)
(* counters are exact, there is one leader or a follower may lead, no more *)
(* dispatches run than allowed, and somebody is left to read.              *)
(*                                                                         *)
(* All of it rests on one fact about the selector: while a thread selects, *)
(* nobody does IO (in ThreadInv).  So a handler that is being read is in   *)
(* no new selection, and no two threads ever read for the same one; the    *)
(* counters then say what they count although leadership is given up,      *)
(* handed over and taken back at different places of the loop.             *)
(***************************************************************************)
EXTENDS ThreadPool, FiniteSetTheorems, SequenceTheorems, WellFoundedInduction, TLAPS

Handlers == Connections \cup {WorkQueue}

Records == [pc : Places, handler : Handlers \cup {None}, leader : BOOLEAN,
            ioCompleted : BOOLEAN, target : Threads \cup {None, Exit}]

Born   == {t \in Threads : thread[t].pc # "unborn"}
IOSet  == {t \in Threads : InIO(t)}
UseSet == {t \in Threads : InUse(t) \/ (thread[t].pc = "done" /\ t \in members)}

-----------------------------------------------------------------------------
(* The inductive invariant.                                                *)

\* Where a thread is says whether it may lead, what it works for and whether it is
\* a member of the pool.
ThreadInv(t) ==
    /\ thread[t].leader =>
          IF Counting
          THEN /\ thread[t].pc \in {"enter", "select", "selected", "message", "join",
                                    "completing", "returned"}
               /\ ~thread[t].ioCompleted
          ELSE thread[t].pc \notin {"unborn", "waiting", "notified"}
    /\ thread[t].pc \in {"select", "selected"} => thread[t].leader /\ IOSet = {}
    /\ thread[t].pc \in {"message", "join", "completing", "dispatching", "returned"} =>
          thread[t].handler # None /\ (Counting \/ thread[t].leader)
    /\ thread[t].ioCompleted => thread[t].pc \in {"dispatching", "returned", "done"}
    /\ thread[t].pc = "dispatching" => thread[t].ioCompleted
    /\ thread[t].pc = "join" => thread[t].target \in Threads
    /\ thread[t].target # None => thread[t].pc \in {"join", "completing"}
    /\ thread[t].target = Exit => destroyed /\ thread[t].handler = WorkQueue
    /\ thread[t].pc \notin {"unborn", "done"} => t \in members
    /\ thread[t].leader => t \in members
    /\ thread[t].pc = "unborn" => t \notin members
    /\ thread[t].pc = "done" /\ t \in members => destroyed
    /\ thread[t].pc = "message" /\ thread[t].handler = WorkQueue => ready
    /\ InIO(t) => thread[t].handler \notin ToSet(handlers)

\* There is one leader, or a follower may lead.
LeaderInv ==
    /\ \A t, u \in Threads : thread[t].leader /\ thread[u].leader => t = u
    /\ promote <=> \A t \in Threads : ~thread[t].leader

\* How many threads there are, and that they are numbered in the order of their start.
SizeInv ==
    /\ pool.size <= pool.sizeMax /\ pool.sizeMax <= SizeLimit
    /\ Cardinality(members) <= pool.sizeMax
    /\ \E n \in Nat : Born = 1 .. n /\ n <= Cardinality(members) + MaxShrinks

CountInv ==
    IF Counting THEN inUseIO = Cardinality(IOSet) /\ inUse = Cardinality(UseSet)
    ELSE inUseIO = 0 /\ inUse = 0

\* What is in the queues.
QueueInv ==
    /\ destroyed => registered = {}
    /\ \A n \in DOMAIN workItems : workItems[n].kind = "join" => workItems[n].of \in Threads
    /\ WorkQueue \in ToSet(handlers) => ready
    /\ IsInjective(handlers)

\* Nobody reads for the handler of another who reads, and with Serialize nobody for
\* one who dispatches.
Busy(t) == InIO(t) \/ InUse(t)
SerialInv ==
    /\ \A t, u \in IOSet : thread[t].handler = thread[u].handler => t = u
    /\ pool.serialize /\ Counting =>
          /\ \A t, u \in Threads :
                /\ Busy(t) /\ Busy(u)
                /\ thread[t].handler = thread[u].handler /\ thread[t].handler \in Connections
                => t = u
          /\ \A t \in Threads :
                InUse(t) /\ thread[t].handler \in Connections =>
                    thread[t].handler \notin registered \ disabled

Safe == /\ \A t \in Threads : ThreadInv(t)
        /\ LeaderInv /\ SizeInv /\ CountInv /\ QueueInv /\ SerialInv /\ SomeoneReads

IndInv == TypeOK /\ Safe

-----------------------------------------------------------------------------
(* Sets and sequences.                                                     *)

LEMMA Least ==
    ASSUME NEW T, T \subseteq Nat, T # {}
    PROVE  \E x \in T : \A y \in T : x <= y
<1> DEFINE R == {ss \in Nat \X Nat : ss[1] < ss[2]}
<1>1. IsWellFoundedOn(R, Nat)
  BY NatLessThanWellFounded DEF OpToRel
<1>2. \E x \in T : \A y \in T : ~ (<<y, x>> \in R)
  <2> HIDE DEF R
  <2> QED
    BY <1>1, WFMin
<1>3. PICK x \in T : \A y \in T : ~ (<<y, x>> \in R)
  BY <1>2
<1>4. ASSUME NEW y \in T PROVE x <= y
  <2>1. x \in Nat /\ y \in Nat /\ <<y, x>> \notin R
    BY <1>3
  <2>2. ~ (y < x)
    BY <2>1
  <2> QED
    BY <2>1, <2>2
<1> QED
  BY <1>4

\* Sets that differ in one element at most.
LEMMA CountStep ==
    ASSUME NEW S, IsFiniteSet(S), NEW T, NEW x, T \ {x} = S \ {x}
    PROVE  /\ IsFiniteSet(T) /\ Cardinality(S) \in Nat /\ Cardinality(T) \in Nat
           /\ x \in S /\ x \in T => Cardinality(T) = Cardinality(S)
           /\ x \notin S /\ x \notin T => Cardinality(T) = Cardinality(S)
           /\ x \in S /\ x \notin T => Cardinality(T) = Cardinality(S) - 1
           /\ x \notin S /\ x \in T => Cardinality(T) = Cardinality(S) + 1
<1> DEFINE R == S \ {x}
<1>1. IsFiniteSet(R) /\ Cardinality(R) = IF x \in S THEN Cardinality(S) - 1 ELSE Cardinality(S)
  BY FS_RemoveElement
<1>2. T = R \/ T = R \cup {x}
  OBVIOUS
<1>3. x \notin R
  OBVIOUS
<1>4. IsFiniteSet(R \cup {x}) /\ Cardinality(R \cup {x}) = Cardinality(R) + 1
  <2> HIDE DEF R
  <2> QED
    BY <1>1, <1>3, FS_AddElement
<1>5. Cardinality(S) \in Nat /\ Cardinality(R) \in Nat
  BY <1>1, FS_CardinalityType
<1>6. x \in T => T = R \cup {x}
  OBVIOUS
<1>7. x \notin T => T = R
  OBVIOUS
<1>8. x \in S => Cardinality(S) = Cardinality(R) + 1
  BY <1>1, <1>5
<1>9. x \notin S => Cardinality(S) = Cardinality(R)
  BY <1>1
<1>10. IsFiniteSet(T) /\ Cardinality(T) \in Nat
  <2> HIDE DEF R
  <2> QED
    BY <1>1, <1>2, <1>4, FS_CardinalityType
<1> HIDE DEF R
<1>11. x \in T => Cardinality(T) = Cardinality(R) + 1
  BY <1>4, <1>6
<1>12. x \notin T => Cardinality(T) = Cardinality(R)
  BY <1>7
<1> QED
  BY <1>5, <1>8, <1>9, <1>10, <1>11, <1>12

\* What _nextHandler moves to is the first that is eligible.
LEMMA NextIsEligible ==
    ASSUME NEW hs \in Seq(Handlers), IsInjective(hs), FromEligible(hs) # <<>>
    PROVE  LET rest == FromEligible(hs)
           IN  /\ Head(rest) \in ToSet(hs) /\ Eligible(Head(rest))
               /\ Tail(rest) \in Seq(Handlers) /\ IsInjective(Tail(rest))
               /\ ToSet(Tail(rest)) \subseteq ToSet(hs) \ {Head(rest)}
<1> DEFINE ok == {n \in DOMAIN hs : Eligible(hs[n])}
           first == CHOOSE n \in ok : \A m \in ok : n <= m
           rest == FromEligible(hs)
<1>1. ok # {} /\ rest = SubSeq(hs, first, Len(hs))
  BY DEF FromEligible
<1>2. ok \subseteq 1 .. Len(hs) /\ Len(hs) \in Nat /\ DOMAIN hs = 1 .. Len(hs)
  OBVIOUS
<1>3. first \in ok
  <2>1. \E n \in ok : \A m \in ok : n <= m
    <3>1. ok \subseteq Nat
      BY <1>2
    <3> HIDE DEF ok
    <3> QED
      BY <1>1, <3>1, Least
  <2> HIDE DEF ok
  <2> QED
    BY <2>1
<1>4. first \in 1 .. Len(hs) /\ Eligible(hs[first])
  BY <1>2, <1>3
<1> HIDE DEF ok, first, rest
<1>5. /\ rest \in Seq(Handlers) /\ Len(rest) = Len(hs) - first + 1
      /\ \A n \in 1 .. Len(hs) - first + 1 : rest[n] = hs[first + n - 1]
  BY <1>1, <1>2, <1>4, SubSeqProperties
<1>6. Head(rest) = hs[first]
  <2>1. 1 \in 1 .. Len(hs) - first + 1 /\ first + 1 - 1 = first
    BY <1>2, <1>4
  <2>2. rest[1] = hs[first] /\ rest # <<>>
    BY <1>5, <2>1
  <2> QED
    BY <2>2, <1>5
<1>7. /\ Tail(rest) \in Seq(Handlers) /\ Len(Tail(rest)) = Len(hs) - first
      /\ \A n \in 1 .. Len(hs) - first : Tail(rest)[n] = hs[first + n]
  <2>1. rest # <<>> /\ rest \in Seq(Handlers)
    BY <1>5 DEF rest
  <2>2. /\ Tail(rest) \in Seq(Handlers) /\ Len(Tail(rest)) = Len(hs) - first
        /\ \A n \in 1 .. Len(hs) - first : Tail(rest)[n] = rest[n + 1]
    BY <1>2, <1>4, <1>5, <2>1, HeadTailProperties
  <2>3. ASSUME NEW n \in 1 .. Len(hs) - first
        PROVE  n + 1 \in 1 .. Len(hs) - first + 1 /\ first + (n + 1) - 1 = first + n
    BY <1>2, <1>4
  <2> QED
    BY <1>5, <2>2, <2>3
<1>8. DOMAIN Tail(rest) = 1 .. Len(hs) - first
  BY <1>7
<1>9. \A n \in 1 .. Len(hs) - first : first + n \in 1 .. Len(hs) /\ first + n # first
  BY <1>2, <1>4
<1>10. \A m, n \in 1 .. Len(hs) : hs[m] = hs[n] => m = n
  BY <1>2 DEF IsInjective
<1>11. IsInjective(Tail(rest))
  <2> SUFFICES ASSUME NEW m \in 1 .. Len(hs) - first, NEW n \in 1 .. Len(hs) - first,
                      Tail(rest)[m] = Tail(rest)[n]
               PROVE  m = n
    BY <1>8 DEF IsInjective
  <2>1. hs[first + m] = hs[first + n]
    BY <1>7
  <2>2. first + m = first + n
    BY <2>1, <1>9, <1>10
  <2> QED
    BY <2>2, <1>2, <1>4
<1>12. ToSet(Tail(rest)) \subseteq ToSet(hs) \ {Head(rest)}
  <2> SUFFICES ASSUME NEW n \in 1 .. Len(hs) - first
               PROVE  Tail(rest)[n] \in ToSet(hs) \ {Head(rest)}
    BY <1>8 DEF ToSet
  <2>1. Tail(rest)[n] = hs[first + n] /\ first + n \in DOMAIN hs /\ hs[first + n] # hs[first]
    BY <1>2, <1>4, <1>7, <1>9, <1>10
  <2> QED
    BY <2>1, <1>6 DEF ToSet
<1>13. Head(rest) \in ToSet(hs)
  BY <1>2, <1>4, <1>6 DEF ToSet
<1> QED
  BY <1>4, <1>6, <1>7, <1>11, <1>12, <1>13 DEF rest

-----------------------------------------------------------------------------
(* What a step of thread t does to the threads.                            *)

\* The others stay where they are, but for one that is notified or started.
Stays(t) ==
    \A u \in Threads \ {t} :
        \/ thread'[u] = thread[u]
        \/ thread[u].pc = "waiting" /\ thread'[u] = [thread[u] EXCEPT !.pc = "notified"]
        \/ /\ thread[u].pc = "unborn" /\ thread'[u] = [thread[u] EXCEPT !.pc = "enter"]
           /\ u \in members'

\* The same, seen from one of them.
Follows(u) ==
    /\ \/ thread'[u].pc = thread[u].pc
       \/ thread[u].pc = "waiting" /\ thread'[u].pc = "notified"
       \/ thread[u].pc = "unborn" /\ thread'[u].pc = "enter" /\ u \in members'
    /\ thread'[u].handler = thread[u].handler
    /\ thread'[u].leader = thread[u].leader
    /\ thread'[u].ioCompleted = thread[u].ioCompleted
    /\ thread'[u].target = thread[u].target
    /\ InIO(u)' <=> InIO(u)
    /\ InUse(u)' <=> InUse(u)

LEMMA Bystanders ==
    ASSUME NEW t \in Threads, Stays(t), thread \in [Threads -> Records]
    PROVE  \A u \in Threads \ {t} : Follows(u)
<1> SUFFICES ASSUME NEW u \in Threads \ {t} PROVE Follows(u)
  OBVIOUS
<1>1. thread[u] \in Records
  OBVIOUS
<1>2. CASE thread'[u] = thread[u]
  BY <1>2 DEF Follows, InIO, InUse
<1>3. CASE thread[u].pc = "waiting" /\ thread'[u] = [thread[u] EXCEPT !.pc = "notified"]
  BY <1>1, <1>3 DEF Follows, InIO, InUse, Records
<1>4. CASE /\ thread[u].pc = "unborn" /\ thread'[u] = [thread[u] EXCEPT !.pc = "enter"]
           /\ u \in members'
  BY <1>1, <1>4 DEF Follows, InIO, InUse, Records
<1> QED
  BY <1>2, <1>3, <1>4 DEF Stays

LEMMA FiniteThreads ==
    /\ IsFiniteSet(Threads) /\ Threads \subseteq Nat
    /\ IsFiniteSet(IOSet) /\ IsFiniteSet(UseSet)
    /\ \A S : S \subseteq Threads => IsFiniteSet(S)
<1>1. IsFiniteSet(Threads) /\ Threads \subseteq Nat
  BY FS_Interval, ThreadPoolAssumption DEF Threads
<1>2. \A S : S \subseteq Threads => IsFiniteSet(S)
  BY <1>1, FS_Subset
<1> QED
  BY <1>1, <1>2 DEF IOSet, UseSet

\* notify() changes one thread that waits, or none.
LEMMA NotifiedStays ==
    ASSUME NEW ths \in [Threads -> Records], NEW t \in Threads, ths[t].pc # "waiting",
           NEW new \in Notified(ths)
    PROVE  /\ new \in [Threads -> Records] /\ new[t] = ths[t]
           /\ \A u \in Threads :
                 \/ new[u] = ths[u]
                 \/ ths[u].pc = "waiting" /\ new[u] = [ths[u] EXCEPT !.pc = "notified"]
<1>1. CASE new = ths
  BY <1>1
<1>2. CASE \E w \in Threads : ths[w].pc = "waiting" /\ new = [ths EXCEPT ![w].pc = "notified"]
  <2>1. PICK w \in Threads : ths[w].pc = "waiting" /\ new = [ths EXCEPT ![w].pc = "notified"]
    BY <1>2
  <2>2. [ths[w] EXCEPT !.pc = "notified"] \in Records
    BY DEF Records, Places
  <2> QED
    BY <2>1, <2>2
<1> QED
  BY <1>1, <1>2 DEF Notified

\* What the thread that leads does at the end of the loop's locked region.
Moves(t, hs, io) ==
    /\ thread' \in [Threads -> Records]
    /\ Stays(t)
    /\ handlers' \in Seq(Handlers) /\ IsInjective(handlers')
    /\ ToSet(handlers') \subseteq ToSet(hs)
    /\ wakeup' \in BOOLEAN
    /\ promote' \in BOOLEAN /\ (promote' <=> ~thread'[t].leader)
    /\ ~thread'[t].ioCompleted /\ thread'[t].target = None
    /\ \/ /\ thread'[t].pc = "message"
          /\ thread'[t].handler \in ToSet(hs) \ ToSet(handlers')
          /\ Eligible(thread'[t].handler)
          /\ inUseIO' = IF Counting THEN io + 1 ELSE io
          /\ Counting \/ thread'[t].leader
       \/ thread'[t].pc = "enter" /\ ~thread'[t].leader /\ inUseIO' = io /\ io > 0
       \/ thread'[t].pc = "select" /\ thread'[t].leader /\ inUseIO' = io /\ io = 0

\* followerWait.
Waits(t, io) ==
    /\ thread' = [thread EXCEPT ![t] = [Absent EXCEPT !.pc = "waiting"]]
    /\ ~thread[t].leader
    /\ inUseIO' = io
    /\ UNCHANGED <<promote, handlers, wakeup>>

\* A thread's record, field by field.
IsAt(r, pc, h, leads) ==
    r.pc = pc /\ r.handler = h /\ r.leader = leads /\ r.ioCompleted = FALSE /\ r.target = None

LEMMA NextHandlerMoves ==
    ASSUME thread \in [Threads -> Records], ready \in BOOLEAN, wakeup \in BOOLEAN,
           NEW t \in Threads, NEW io \in Nat, NEW hs \in Seq(Handlers), IsInjective(hs),
           NextHandler(t, hs, io)
    PROVE  Moves(t, hs, io)
<1> DEFINE rest  == FromEligible(hs)
           taken == [thread EXCEPT ![t] = [pc |-> "message", handler |-> Head(rest),
                                           leader |-> TRUE, ioCompleted |-> FALSE,
                                           target |-> None]]
           idle  == [thread EXCEPT ![t] = [Absent EXCEPT !.pc = "enter", !.leader = TRUE]]
<1>1. /\ idle \in [Threads -> Records] /\ IsAt(idle[t], "enter", None, TRUE)
      /\ \A u \in Threads \ {t} : idle[u] = thread[u]
  BY DEF Absent, Records, Places, IsAt
<1>2. <<>> \in Seq(Handlers) /\ IsInjective(<<>>) /\ ToSet(<<>>) = {}
  BY DEF IsInjective, ToSet
<1>3. CASE rest # <<>>
  <2>1. /\ Head(rest) \in ToSet(hs) /\ Eligible(Head(rest))
        /\ Tail(rest) \in Seq(Handlers) /\ IsInjective(Tail(rest))
        /\ ToSet(Tail(rest)) \subseteq ToSet(hs) \ {Head(rest)}
    BY <1>3, NextIsEligible
  <2>2. Head(rest) \in Handlers
    BY <2>1 DEF ToSet
  <2> HIDE DEF rest
  <2>3. /\ taken \in [Threads -> Records]
        /\ \A u \in Threads \ {t} : taken[u] = thread[u]
        /\ IsAt(taken[t], "message", Head(rest), TRUE)
    BY <2>2 DEF Records, Places, IsAt
  <2> HIDE DEF taken
  <2>4. handlers' = Tail(rest)
    BY <1>3 DEF NextHandler, rest
  <2>5. CASE thread' = taken /\ promote' = FALSE
    <3>1. inUseIO' = (IF Counting THEN io + 1 ELSE io) /\ UNCHANGED wakeup
      BY <1>3, ThreadPoolAssumption DEF NextHandler, rest
    <3>2. Stays(t)
      BY <2>3, <2>5 DEF Stays
    <3> QED
      BY <2>1, <2>3, <2>4, <2>5, <3>1, <3>2 DEF Moves, IsAt
  <2>6. CASE /\ Counting /\ promote' = TRUE
             /\ thread' \in Promoted(taken, t, Tail(rest), io + 1)
             /\ inUseIO' = io + 1 /\ UNCHANGED wakeup
    <3>1. DEFINE given == [taken EXCEPT ![t].leader = FALSE]
    <3>2. given \in [Threads -> Records] /\ given[t] = [taken[t] EXCEPT !.leader = FALSE]
          /\ \A u \in Threads \ {t} : given[u] = thread[u]
      BY <2>3 DEF Records
    <3>3. thread' = given \/ thread' \in Notified(given)
      BY <2>6 DEF Promoted
    <3> HIDE DEF given
    <3>4. IsAt(given[t], "message", Head(rest), FALSE)
      BY <2>3, <3>2 DEF Records, IsAt
    <3>5. /\ thread' \in [Threads -> Records] /\ thread'[t] = given[t]
          /\ \A u \in Threads \ {t} :
                \/ thread'[u] = thread[u]
                \/ thread[u].pc = "waiting" /\ thread'[u] = [thread[u] EXCEPT !.pc = "notified"]
      <4>1. CASE thread' = given
        BY <3>2, <4>1
      <4>2. CASE thread' \in Notified(given)
        <5>1. given[t].pc # "waiting"
          BY <3>4 DEF IsAt
        <5>2. /\ thread' \in [Threads -> Records] /\ thread'[t] = given[t]
              /\ \A u \in Threads :
                    \/ thread'[u] = given[u]
                    \/ /\ given[u].pc = "waiting"
                       /\ thread'[u] = [given[u] EXCEPT !.pc = "notified"]
          <6>1. given \in [Threads -> Records]
            BY <3>2
          <6> QED
            BY <4>2, <5>1, <6>1, NotifiedStays
        <5> QED
          BY <3>2, <5>2
      <4> QED
        BY <3>3, <4>1, <4>2
    <3>6. Stays(t)
      BY <3>5 DEF Stays
    <3>7. IsAt(thread'[t], "message", Head(rest), FALSE)
      BY <3>4, <3>5
    <3> QED
      BY <2>1, <2>4, <2>6, <3>5, <3>6, <3>7 DEF Moves, IsAt
  <2> QED
    BY <1>3, <2>5, <2>6 DEF NextHandler, rest, taken
<1>4. CASE rest = <<>> /\ io > 0
  <2>1. /\ handlers' = <<>> /\ promote' = TRUE /\ inUseIO' = io /\ UNCHANGED wakeup
        /\ thread' = [idle EXCEPT ![t].leader = FALSE]
    BY <1>4 DEF NextHandler, Promoted
  <2> HIDE DEF idle
  <2>2. /\ thread' \in [Threads -> Records] /\ IsAt(thread'[t], "enter", None, FALSE)
        /\ \A u \in Threads \ {t} : thread'[u] = thread[u]
    BY <1>1, <2>1 DEF Records, Places, IsAt
  <2>3. Stays(t)
    BY <2>2 DEF Stays
  <2> QED
    BY <1>2, <1>4, <2>1, <2>2, <2>3 DEF Moves, IsAt
<1>5. CASE rest = <<>> /\ ~ (io > 0)
  <2>1. /\ handlers' = <<>> /\ promote' = FALSE /\ inUseIO' = io /\ wakeup' = ready
        /\ thread' = [idle EXCEPT ![t].pc = "select"]
    BY <1>5 DEF NextHandler
  <2> HIDE DEF idle
  <2>2. /\ thread' \in [Threads -> Records] /\ IsAt(thread'[t], "select", None, TRUE)
        /\ \A u \in Threads \ {t} : thread'[u] = thread[u]
    BY <1>1, <2>1 DEF Records, Places, IsAt
  <2>3. Stays(t)
    BY <2>2 DEF Stays
  <2>4. wakeup' \in BOOLEAN /\ io = 0
    BY <1>5, <2>1
  <2> QED
    BY <1>2, <2>1, <2>2, <2>3, <2>4 DEF Moves, IsAt
<1> QED
  BY <1>3, <1>4, <1>5

LEMMA LeadMoves ==
    ASSUME thread \in [Threads -> Records], ready \in BOOLEAN, wakeup \in BOOLEAN,
           NEW t \in Threads, NEW io \in Nat,
           handlers \in Seq(Handlers), IsInjective(handlers), Lead(t, io)
    PROVE  \/ Waits(t, io) /\ MustWait(handlers, io)
           \/ Moves(t, handlers, io) /\ (thread[t].leader \/ promote)
<1>1. CASE ~thread[t].leader /\ MustWait(handlers, io)
  BY <1>1 DEF Lead, Waits
<1>2. CASE ~ (~thread[t].leader /\ MustWait(handlers, io))
  <2>1. thread[t].leader \/ promote
    BY <1>2 DEF MustWait
  <2> QED
    BY <1>2, <2>1, NextHandlerMoves DEF Lead
<1> QED
  BY <1>1, <1>2

-----------------------------------------------------------------------------
(* The steps by which a thread comes to the end of the loop's locked       *)
(* region, or to followerWait.                                             *)

\* t comes there from any place, with hs left of the handlers and io threads in IO.
Loops(t, hs, io) ==
    /\ thread[t].pc \in {"enter", "waiting", "notified", "selected", "returned"}
    /\ IsInjective(hs)
    /\ \A u \in IOSet \ {t} : thread[u].handler \notin ToSet(hs)
    /\ WorkQueue \in ToSet(hs) => ready
    /\ Counting => io = Cardinality(IOSet \ {t})
    /\ ~Counting => io = 0
    /\ Waits(t, io) \/ (Moves(t, hs, io) /\ (thread[t].leader \/ promote))
    /\ inUse' = (IF Counting /\ InUse(t) THEN inUse - 1 ELSE inUse)
    /\ disabled' = (IF Counting /\ InUse(t) THEN disabled \ {thread[t].handler} ELSE disabled)
    /\ selected' \subseteq Connections
    /\ UNCHANGED <<pool, members, socketVars, queueVars, destroyed>>

LEMMA WaitsType ==
    ASSUME thread \in [Threads -> Records], NEW t \in Threads, NEW io, Waits(t, io)
    PROVE  /\ thread' \in [Threads -> Records] /\ Stays(t)
           /\ IsAt(thread'[t], "waiting", None, FALSE)
<1>1. [Absent EXCEPT !.pc = "waiting"] \in Records
      /\ IsAt([Absent EXCEPT !.pc = "waiting"], "waiting", None, FALSE)
  BY DEF Absent, Records, Places, IsAt
<1> QED
  BY <1>1 DEF Waits, Stays

\* Where t goes.
Goes(t, io) ==
    /\ ~thread'[t].ioCompleted /\ thread'[t].target = None
    /\ \/ /\ thread'[t].pc = "message" /\ thread'[t].handler \in Handlers
          /\ thread'[t].handler \notin ToSet(handlers')
          /\ Eligible(thread'[t].handler)
          /\ inUseIO' = IF Counting THEN io + 1 ELSE io
          /\ Counting \/ thread'[t].leader
       \/ thread'[t].pc \in {"enter", "waiting"} /\ ~thread'[t].leader /\ inUseIO' = io
       \/ thread'[t].pc = "select" /\ thread'[t].leader /\ inUseIO' = io /\ io = 0

\* The facts about a loop's step that the invariants need.
LEMMA LoopFacts ==
    ASSUME IndInv, NEW t \in Threads, NEW hs \in Seq(Handlers), NEW io \in Nat,
           Loops(t, hs, io)
    PROVE  /\ thread' \in [Threads -> Records]
           /\ \A u \in Threads \ {t} : Follows(u)
           /\ Goes(t, io)
           /\ handlers' \in Seq(Handlers) /\ IsInjective(handlers')
           /\ \A u \in IOSet \ {t} : thread[u].handler \notin ToSet(handlers')
           /\ WorkQueue \in ToSet(handlers') => ready'
           /\ thread'[t].pc = "message" =>
                 /\ \A u \in IOSet \ {t} : thread[u].handler # thread'[t].handler
                 /\ thread'[t].handler = WorkQueue => ready'
           /\ wakeup' \in BOOLEAN /\ promote' \in BOOLEAN
           /\ \/ UNCHANGED promote /\ thread'[t].leader = thread[t].leader
                 /\ thread'[t].pc = "waiting"
              \/ /\ thread[t].leader \/ promote
                 /\ promote' <=> ~thread'[t].leader
<1>1. /\ thread \in [Threads -> Records] /\ handlers \in Seq(Handlers)
      /\ promote \in BOOLEAN /\ wakeup \in BOOLEAN /\ IsInjective(handlers)
      /\ \A u \in IOSet : thread[u].handler \notin ToSet(handlers)
      /\ WorkQueue \in ToSet(handlers) => ready
      /\ thread[t].leader \in BOOLEAN
  BY DEF IndInv, TypeOK, Records, Handlers, Safe, QueueInv, ThreadInv, IOSet
<1>2. ready' = ready
  BY DEF Loops, queueVars
<1>3. CASE Waits(t, io)
  <2>1. /\ thread' \in [Threads -> Records] /\ Stays(t)
        /\ IsAt(thread'[t], "waiting", None, FALSE)
    BY <1>1, <1>3, WaitsType
  <2>2. \A u \in Threads \ {t} : Follows(u)
    BY <1>1, <2>1, Bystanders
  <2>3. handlers' = handlers /\ wakeup' = wakeup /\ promote' = promote /\ inUseIO' = io
        /\ thread[t].leader = FALSE
    BY <1>1, <1>3 DEF Waits
  <2>4. Goes(t, io)
    BY <2>1, <2>3 DEF Goes, IsAt
  <2> QED
    BY <1>1, <1>2, <2>1, <2>2, <2>3, <2>4 DEF IsAt
<1>4. CASE Moves(t, hs, io) /\ (thread[t].leader \/ promote)
  <2>1. \A u \in Threads \ {t} : Follows(u)
    BY <1>1, <1>4, Bystanders DEF Moves
  <2>2. Goes(t, io)
    <3>1. thread'[t] \in Records /\ (thread'[t].pc = "message" => thread'[t].handler \in ToSet(hs))
      BY <1>4 DEF Moves
    <3>2. ToSet(hs) \subseteq Handlers
      BY DEF ToSet
    <3> QED
      BY <1>4, <3>1, <3>2 DEF Moves, Goes
  <2>3. /\ \A u \in IOSet \ {t} : thread[u].handler \notin ToSet(hs)
        /\ WorkQueue \in ToSet(hs) => ready
    BY DEF Loops
  <2>4. /\ ToSet(handlers') \subseteq ToSet(hs)
        /\ thread'[t].pc = "message" => thread'[t].handler \in ToSet(hs)
    BY <1>4 DEF Moves
  <2> QED
    BY <1>2, <1>4, <2>1, <2>2, <2>3, <2>4 DEF Moves
<1> QED
  BY <1>3, <1>4 DEF Loops

LEMMA LoopKeeps ==
    ASSUME IndInv, NEW t \in Threads, NEW hs \in Seq(Handlers), NEW io \in Nat,
           Loops(t, hs, io)
    PROVE  IndInv'
<1>0. TypeOK /\ Safe
  BY DEF IndInv
<1>1. /\ thread' \in [Threads -> Records]
      /\ \A u \in Threads \ {t} : Follows(u)
      /\ handlers' \in Seq(Handlers) /\ IsInjective(handlers')
      /\ \A u \in IOSet \ {t} : thread[u].handler \notin ToSet(handlers')
      /\ WorkQueue \in ToSet(handlers') => ready'
      /\ thread'[t].pc = "message" =>
            /\ \A u \in IOSet \ {t} : thread[u].handler # thread'[t].handler
            /\ thread'[t].handler = WorkQueue => ready'
      /\ wakeup' \in BOOLEAN /\ promote' \in BOOLEAN
  BY LoopFacts
<1>2. Goes(t, io)
  BY LoopFacts
<1>3. \/ UNCHANGED promote /\ thread'[t].leader = thread[t].leader /\ thread'[t].pc = "waiting"
      \/ (thread[t].leader \/ promote) /\ (promote' <=> ~thread'[t].leader)
  BY LoopFacts
<1>4. /\ pool' = pool /\ members' = members /\ destroyed' = destroyed
      /\ registered' = registered /\ data' = data /\ arrived' = arrived
      /\ workItems' = workItems /\ ready' = ready /\ items' = items
      /\ Counting' = Counting
  BY DEF Loops, socketVars, queueVars, Counting
<1>5. /\ IOSet' \ {t} = IOSet \ {t} /\ UseSet' \ {t} = UseSet \ {t}
      /\ t \in IOSet' <=> thread'[t].pc = "message"
      /\ t \notin UseSet'
      /\ ~InUse(t)'
      /\ t \in UseSet <=> InUse(t)
      /\ t \in IOSet <=> InIO(t)
  <2>1. \A u \in Threads \ {t} : u \in IOSet' <=> u \in IOSet
    BY <1>1 DEF Follows, IOSet
  <2>2. \A u \in Threads \ {t} : u \in UseSet' <=> u \in UseSet
    BY <1>1, <1>4 DEF Follows, UseSet
  <2>3. IOSet' \subseteq Threads /\ UseSet' \subseteq Threads
        /\ IOSet \subseteq Threads /\ UseSet \subseteq Threads
    BY DEF IOSet, UseSet
  <2>4. InIO(t)' <=> thread'[t].pc = "message"
    BY <1>2 DEF Goes, InIO
  <2>5. ~InUse(t)' /\ thread'[t].pc # "done"
    BY <1>2 DEF Goes, InUse
  <2>6. thread[t].pc # "done"
    BY DEF Loops
  <2>7. t \in IOSet' <=> InIO(t)'
    BY DEF IOSet
  <2>8. t \in UseSet' <=> (InUse(t)' \/ (thread'[t].pc = "done" /\ t \in members'))
    BY DEF UseSet
  <2>9. t \in UseSet <=> InUse(t)
    BY <2>6 DEF UseSet
  <2>10. t \in IOSet <=> InIO(t)
    BY DEF IOSet
  <2> QED
    BY <2>1, <2>2, <2>3, <2>4, <2>5, <2>7, <2>8, <2>9, <2>10
<1>6. CountInv' /\ inUseIO' \in Nat /\ inUse' \in Nat
  <2>1. CASE Counting
    <3>1. inUseIO = Cardinality(IOSet) /\ inUse = Cardinality(UseSet)
      BY <1>0, <2>1 DEF Safe, CountInv
    <3>2. io = Cardinality(IOSet \ {t})
      BY <2>1 DEF Loops
    <3>3. IsFiniteSet(IOSet \ {t}) /\ (IOSet \ {t}) \ {t} = IOSet' \ {t} /\ t \notin IOSet \ {t}
      BY <1>5, FiniteThreads, FS_RemoveElement
    <3>4. Cardinality(IOSet') = IF t \in IOSet' THEN io + 1 ELSE io
      BY <3>2, <3>3, CountStep
    <3>5. inUseIO' = Cardinality(IOSet')
      BY <1>2, <1>5, <2>1, <3>4 DEF Goes
    <3>6. inUse' = (IF InUse(t) THEN inUse - 1 ELSE inUse)
      BY <2>1 DEF Loops
    <3>7. inUse' = Cardinality(UseSet') /\ inUse' \in Nat
      BY <1>5, <3>1, <3>6, FiniteThreads, CountStep
    <3> QED
      BY <1>4, <2>1, <3>4, <3>5, <3>7 DEF CountInv
  <2>2. CASE ~Counting
    <3>1. io = 0 /\ inUse' = inUse /\ inUse = 0
      BY <1>0, <2>2 DEF Loops, Safe, CountInv
    <3>2. inUseIO' = 0
      BY <1>2, <2>2, <3>1 DEF Goes
    <3> QED
      BY <1>4, <2>2, <3>1, <3>2 DEF CountInv
  <2> QED
    BY <2>1, <2>2
<1>7. TypeOK'
  <2>1. disabled' \subseteq Connections /\ selected' \subseteq Connections
    BY <1>0 DEF Loops, TypeOK
  <2> QED
    BY <1>0, <1>1, <1>4, <1>6, <2>1 DEF TypeOK, Records, Handlers
<1>8. LeaderInv'
  <2>1. /\ \A u, v \in Threads : thread[u].leader /\ thread[v].leader => u = v
        /\ promote <=> \A u \in Threads : ~thread[u].leader
    BY <1>0 DEF Safe, LeaderInv
  <2>2. \A u \in Threads \ {t} : thread'[u].leader = thread[u].leader
    BY <1>1 DEF Follows
  <2>3. CASE UNCHANGED promote /\ thread'[t].leader = thread[t].leader
    BY <2>1, <2>2, <2>3 DEF LeaderInv
  <2>4. CASE (thread[t].leader \/ promote) /\ (promote' <=> ~thread'[t].leader)
    <3>1. \A u \in Threads \ {t} : ~thread'[u].leader
      BY <2>1, <2>2, <2>4
    <3> QED
      BY <2>4, <3>1 DEF LeaderInv
  <2> QED
    BY <1>3, <2>3, <2>4
<1>9. \A u \in Threads : ThreadInv(u)'
  <2>1. \A u \in Threads : ThreadInv(u)
    BY <1>0 DEF Safe
  <2>2. thread[t].pc \notin {"unborn", "done"} /\ t \in members
    BY <2>1 DEF Loops, ThreadInv
  <2>3. ASSUME thread'[t].pc = "select" PROVE IOSet' = {}
    <3>1. io = 0 /\ (thread[t].leader \/ promote)
      BY <1>2, <1>3, <2>3 DEF Goes
    <3>2. CASE Counting
      <4>1. Cardinality(IOSet \ {t}) = 0 /\ IsFiniteSet(IOSet \ {t})
        BY <3>1, <3>2, FiniteThreads, FS_RemoveElement DEF Loops
      <4>2. IOSet \ {t} = {}
        BY <4>1, FS_EmptySet
      <4> QED
        BY <1>5, <2>3, <4>2
    <3>3. CASE ~Counting
      <4>1. \A u \in IOSet : thread[u].leader
        BY <2>1, <3>3 DEF IOSet, InIO, ThreadInv
      <4>2. IOSet \ {t} = {}
        BY <1>0, <3>1, <4>1 DEF Safe, LeaderInv, IOSet
      <4> QED
        BY <1>5, <2>3, <4>2
    <3> QED
      BY <3>2, <3>3
  <2>4. ThreadInv(t)'
    <3>1. thread'[t].target \in {None}
      BY <1>2 DEF Goes
    <3>2. Exit # None
      BY ThreadPoolAssumption
    <3>3. thread'[t].handler \in Handlers => thread'[t].handler # None
      BY ThreadPoolAssumption DEF Handlers
    <3> QED
      BY <1>1, <1>2, <1>4, <1>5, <2>2, <2>3, <3>1, <3>2, <3>3
         DEF ThreadInv, Goes, IOSet, InIO
  <2>5. ASSUME NEW u \in Threads \ {t} PROVE ThreadInv(u)'
    <3>1. ThreadInv(u) /\ Follows(u)
      BY <1>1, <2>1
    <3>2. thread'[u].pc \in {"select", "selected"} => IOSet' = {}
      <4>1. ASSUME thread[u].pc \in {"select", "selected"} PROVE IOSet' = {}
        <5>1. thread[u].leader /\ IOSet = {}
          BY <3>1, <4>1 DEF ThreadInv
        <5>2. thread'[t].pc = "waiting"
          BY <1>0, <1>3, <5>1 DEF Safe, LeaderInv
        <5> QED
          BY <1>5, <5>1, <5>2
      <4> QED
        BY <3>1, <4>1 DEF Follows
    <3>3. InIO(u)' => thread'[u].handler \notin ToSet(handlers')
      BY <1>1, <3>1 DEF Follows, IOSet
    <3> QED
      BY <1>4, <3>1, <3>2, <3>3 DEF ThreadInv, Follows
  <2> QED
    BY <2>4, <2>5
<1>10. SizeInv'
  <2>1. \A u \in Threads : ThreadInv(u)
    BY <1>0 DEF Safe
  <2>2. \A u \in Threads \ {t} : thread'[u].pc = "unborn" <=> thread[u].pc = "unborn"
    BY <1>1, <1>4, <2>1 DEF Follows, ThreadInv
  <2>3. thread[t].pc # "unborn" /\ thread'[t].pc # "unborn"
    BY <1>2 DEF Loops, Goes
  <2>4. Born' = Born
    BY <2>2, <2>3 DEF Born
  <2> QED
    BY <1>0, <1>4, <2>4 DEF Safe, SizeInv
<1>11. QueueInv'
  BY <1>0, <1>1, <1>4 DEF Safe, QueueInv
<1>12. SerialInv'
  <2>1. SerialInv
    BY <1>0 DEF Safe
  <2>2. \A u \in Threads \ {t} : Busy(u)' <=> Busy(u)
    BY <1>1 DEF Follows, Busy
  <2>3. \A u \in Threads \ {t} : /\ thread'[u].handler = thread[u].handler
                                 /\ InUse(u)' <=> InUse(u)
    BY <1>1 DEF Follows
  <2>4. Busy(t)' <=> thread'[t].pc = "message"
    BY <1>5 DEF Busy, IOSet
  <2>5. \A u, v \in IOSet' : thread'[u].handler = thread'[v].handler => u = v
    <3>1. ASSUME NEW u \in IOSet', NEW v \in IOSet', thread'[u].handler = thread'[v].handler,
                 u # v
          PROVE  FALSE
      <4>1. CASE u # t /\ v # t
        <5>1. u \in IOSet /\ v \in IOSet /\ u \in Threads \ {t} /\ v \in Threads \ {t}
          BY <1>5, <4>1 DEF IOSet
        <5> QED
          BY <2>1, <2>3, <3>1, <5>1 DEF SerialInv
      <4>2. CASE u = t
        <5>1. v \in IOSet \ {t} /\ v \in Threads \ {t} /\ thread'[t].pc = "message"
          BY <1>5, <3>1, <4>2 DEF IOSet
        <5> QED
          BY <1>1, <2>3, <3>1, <4>2, <5>1
      <4>3. CASE v = t
        <5>1. u \in IOSet \ {t} /\ u \in Threads \ {t} /\ thread'[t].pc = "message"
          BY <1>5, <3>1, <4>3 DEF IOSet
        <5> QED
          BY <1>1, <2>3, <3>1, <4>3, <5>1
      <4> QED
        BY <4>1, <4>2, <4>3
    <3> QED
      BY <3>1
  <2>6. ASSUME pool.serialize, Counting, NEW u \in Threads \ {t}, InUse(u),
               thread[u].handler \in Connections
        PROVE  /\ thread[u].handler \notin registered \ disabled
               /\ thread[u].handler \notin registered \ disabled'
    <3>1. thread[u].handler \notin registered \ disabled
      BY <2>1, <2>6 DEF SerialInv
    <3>2. InUse(t) => thread[t].handler # thread[u].handler
      BY <2>1, <2>6 DEF SerialInv, Busy
    <3> QED
      BY <3>1, <3>2 DEF Loops
  <2>7. ASSUME pool.serialize, Counting, NEW u \in Threads \ {t}, Busy(u),
               thread'[t].pc = "message", thread'[t].handler \in Connections
        PROVE  thread[u].handler # thread'[t].handler
    <3>1. CASE InIO(u)
      BY <1>1, <2>7, <3>1 DEF IOSet
    <3>2. CASE InUse(u)
      <4>1. thread'[t].handler \in registered \ disabled
        BY <1>2, <2>7, ThreadPoolAssumption DEF Goes, Eligible
      <4> QED
        BY <2>6, <2>7, <3>2, <4>1
    <3> QED
      BY <2>7, <3>1, <3>2 DEF Busy
  <2>8. ASSUME pool.serialize, Counting, NEW u \in Threads, NEW v \in Threads,
               Busy(u)', Busy(v)', thread'[u].handler = thread'[v].handler,
               thread'[u].handler \in Connections
        PROVE  u = v
    <3>1. CASE u # t /\ v # t
      BY <2>1, <2>2, <2>3, <2>8, <3>1 DEF SerialInv
    <3>2. CASE u = t /\ v # t
      BY <2>2, <2>3, <2>4, <2>7, <2>8, <3>2
    <3>3. CASE v = t /\ u # t
      BY <2>2, <2>3, <2>4, <2>7, <2>8, <3>3
    <3> QED
      BY <3>1, <3>2, <3>3
  <2>9. ASSUME pool.serialize, Counting, NEW u \in Threads, InUse(u)',
               thread'[u].handler \in Connections
        PROVE  thread'[u].handler \notin registered \ disabled'
    BY <1>5, <2>3, <2>6, <2>9
  <2> QED
    BY <1>4, <2>5, <2>8, <2>9 DEF SerialInv
<1>13. SomeoneReads'
  <2>1. t \in members
    BY <1>0 DEF Safe, Loops, ThreadInv
  <2> QED
    BY <1>4, <1>5, <2>1 DEF SomeoneReads
<1> QED
  BY <1>7, <1>8, <1>9, <1>6, <1>10, <1>11, <1>12, <1>13 DEF IndInv, Safe

\* followerWait and what follows it, with the handlers that are left.
LEMMA LeadLoops ==
    ASSUME IndInv, NEW t \in Threads, NEW io \in Nat,
           thread[t].pc \in {"enter", "waiting", "notified", "returned"},
           Counting => io = Cardinality(IOSet \ {t}),
           ~Counting => io = 0,
           Lead(t, io),
           inUse' = (IF Counting /\ InUse(t) THEN inUse - 1 ELSE inUse),
           disabled' = (IF Counting /\ InUse(t) THEN disabled \ {thread[t].handler}
                        ELSE disabled),
           UNCHANGED <<pool, members, selected, socketVars, queueVars, destroyed>>
    PROVE  IndInv'
<1>1. /\ thread \in [Threads -> Records] /\ handlers \in Seq(Handlers)
      /\ wakeup \in BOOLEAN /\ ready \in BOOLEAN /\ IsInjective(handlers)
      /\ \A u \in IOSet : thread[u].handler \notin ToSet(handlers)
      /\ WorkQueue \in ToSet(handlers) => ready
      /\ selected \subseteq Connections
  BY DEF IndInv, TypeOK, Records, Handlers, Safe, QueueInv, ThreadInv, IOSet
<1>2. Waits(t, io) \/ (Moves(t, handlers, io) /\ (thread[t].leader \/ promote))
  BY <1>1, LeadMoves
<1>3. Loops(t, handlers, io)
  BY <1>1, <1>2 DEF Loops
<1> QED
  BY <1>1, <1>3, LoopKeeps

LEMMA NotInIO ==
    ASSUME IndInv, NEW t \in Threads, thread[t].pc \in {"enter", "waiting", "notified", "selected"}
    PROVE  /\ IOSet \ {t} = IOSet /\ ~InUse(t) /\ inUseIO \in Nat
           /\ Counting => inUseIO = Cardinality(IOSet \ {t})
           /\ ~Counting => inUseIO = 0
<1>1. ~InIO(t) /\ ~InUse(t)
  BY DEF InIO, InUse
<1>2. IOSet \ {t} = IOSet
  BY <1>1 DEF IOSet
<1> QED
  BY <1>1, <1>2 DEF IndInv, TypeOK, Safe, CountInv

LEMMA EnterKeeps ==
    ASSUME IndInv, NEW t \in Threads, Enter(t) \/ Notify(t)
    PROVE  IndInv'
<1>1. thread[t].pc \in {"enter", "notified"}
  BY DEF Enter, Notify
<1>2. /\ inUseIO \in Nat /\ ~InUse(t)
      /\ Counting => inUseIO = Cardinality(IOSet \ {t})
      /\ ~Counting => inUseIO = 0
  BY <1>1, NotInIO
<1>3. /\ Lead(t, inUseIO) /\ inUse' = inUse /\ disabled' = disabled
      /\ UNCHANGED <<pool, members, selected, socketVars, queueVars, destroyed>>
  BY DEF Enter, Notify
<1> QED
  BY <1>1, <1>2, <1>3, LeadLoops

LEMMA ReturnedKeeps ==
    ASSUME IndInv, NEW t \in Threads, Returned(t)
    PROVE  IndInv'
<1> DEFINE completed == Counting /\ thread[t].ioCompleted
<1>1. /\ thread[t].pc = "returned"
      /\ disabled' = (IF completed THEN disabled \ {thread[t].handler} ELSE disabled)
      /\ inUse' = (IF completed THEN inUse - 1 ELSE inUse)
      /\ IF Counting THEN Lead(t, IF completed THEN inUseIO ELSE inUseIO - 1)
         ELSE NextHandler(t, handlers, inUseIO)
      /\ UNCHANGED <<pool, members, selected, socketVars, queueVars, destroyed>>
  BY DEF Returned
<1>2. InUse(t) <=> thread[t].ioCompleted
  BY <1>1 DEF InUse
<1>3. InIO(t) <=> ~thread[t].ioCompleted
  BY <1>1 DEF InIO
<1>4. /\ thread \in [Threads -> Records] /\ handlers \in Seq(Handlers)
      /\ wakeup \in BOOLEAN /\ ready \in BOOLEAN /\ IsInjective(handlers)
      /\ \A u \in IOSet : thread[u].handler \notin ToSet(handlers)
      /\ WorkQueue \in ToSet(handlers) => ready
      /\ selected \subseteq Connections
      /\ ThreadInv(t) /\ CountInv
  BY DEF IndInv, TypeOK, Records, Handlers, Safe, QueueInv, ThreadInv, IOSet
<1>5. CASE Counting
  <2> DEFINE io == IF completed THEN inUseIO ELSE inUseIO - 1
  <2>1. inUseIO = Cardinality(IOSet)
    BY <1>4, <1>5 DEF CountInv
  <2>2. io = Cardinality(IOSet \ {t}) /\ io \in Nat
    <3>1. t \in IOSet <=> ~thread[t].ioCompleted
      BY <1>3 DEF IOSet
    <3>2. (IOSet \ {t}) \ {t} = IOSet \ {t} /\ IsFiniteSet(IOSet) /\ t \notin IOSet \ {t}
      BY FiniteThreads
    <3> QED
      BY <1>5, <2>1, <3>1, <3>2, CountStep
  <2>3. Lead(t, io)
    BY <1>1, <1>5
  <2> HIDE DEF io
  <2>4. /\ inUse' = (IF Counting /\ InUse(t) THEN inUse - 1 ELSE inUse)
        /\ disabled' = (IF Counting /\ InUse(t) THEN disabled \ {thread[t].handler}
                        ELSE disabled)
    BY <1>1, <1>2
  <2> QED
    BY <1>1, <1>5, <2>2, <2>3, <2>4, LeadLoops
<1>6. CASE ~Counting
  <2>1. inUseIO = 0 /\ thread[t].leader
    BY <1>1, <1>4, <1>6 DEF CountInv, ThreadInv
  <2>2. Moves(t, handlers, 0)
    BY <1>1, <1>4, <1>6, <2>1, NextHandlerMoves
  <2>3. Loops(t, handlers, 0)
    BY <1>1, <1>4, <1>6, <2>1, <2>2 DEF Loops
  <2> QED
    BY <1>4, <2>3, LoopKeeps
<1> QED
  BY <1>5, <1>6

\* The selected handlers, and the work queue after them.
LEMMA Selection ==
    ASSUME selected \subseteq Connections, NEW s \in SetToSeqs(selected), ready \in BOOLEAN,
           NEW hs, hs = s \o (IF ready THEN <<WorkQueue>> ELSE <<>>)
    PROVE  /\ hs \in Seq(Handlers) /\ IsInjective(hs)
           /\ WorkQueue \in ToSet(hs) => ready
<1> DEFINE n == Cardinality(selected)
<1>1. n \in Nat
  BY FS_Subset, FS_CardinalityType, ThreadPoolAssumption
<1>2. s \in [1 .. n -> selected] /\ \A i, j \in 1 .. n : i # j => s[i] # s[j]
  BY DEF SetToSeqs
<1>3. s \in Seq(Handlers) /\ Len(s) = n /\ \A i \in 1 .. n : s[i] \in Connections
  BY <1>1, <1>2 DEF Handlers
<1>4. \A i \in 1 .. n : s[i] # WorkQueue
  BY <1>3, ThreadPoolAssumption
<1> HIDE DEF n
<1>5. CASE ready
  <2>1. hs = s \o <<WorkQueue>> /\ <<WorkQueue>> \in Seq(Handlers)
    BY <1>5 DEF Handlers
  <2>2. /\ hs \in Seq(Handlers) /\ Len(hs) = n + 1
        /\ \A i \in 1 .. n + 1 : hs[i] = IF i <= n THEN s[i] ELSE WorkQueue
    BY <1>1, <1>3, <2>1, ConcatProperties
  <2>3. DOMAIN hs = 1 .. n + 1
    BY <2>2
  <2>4. \A i, j \in 1 .. n + 1 : i # j => hs[i] # hs[j]
    BY <1>1, <1>2, <1>4, <2>2
  <2> QED
    BY <1>5, <2>2, <2>3, <2>4 DEF IsInjective
<1>6. CASE ~ready
  <2>1. hs = s
    BY <1>3, <1>6
  <2>2. DOMAIN s = 1 .. n
    BY <1>2
  <2> QED
    BY <1>2, <1>3, <1>4, <2>1, <2>2 DEF IsInjective, ToSet
<1> QED
  BY <1>5, <1>6

LEMMA FinishSelectKeeps ==
    ASSUME IndInv, NEW t \in Threads, FinishSelect(t)
    PROVE  IndInv'
<1>1. thread[t].pc = "selected" /\ selected' = {} /\ inUse' = inUse /\ disabled' = disabled
      /\ UNCHANGED <<pool, members, socketVars, queueVars, destroyed>>
  BY DEF FinishSelect, socketVars, queueVars
<1>2. PICK s \in SetToSeqs(selected) :
          NextHandler(t, s \o (IF ready THEN <<WorkQueue>> ELSE <<>>), inUseIO)
  BY DEF FinishSelect
<1> DEFINE hs == s \o (IF ready THEN <<WorkQueue>> ELSE <<>>)
<1>3. /\ thread \in [Threads -> Records] /\ wakeup \in BOOLEAN /\ ready \in BOOLEAN
      /\ selected \subseteq Connections /\ ThreadInv(t)
  BY DEF IndInv, TypeOK, Records, Handlers, Safe
<1>4. /\ hs \in Seq(Handlers) /\ IsInjective(hs)
      /\ WorkQueue \in ToSet(hs) => ready
  BY <1>3, Selection
<1>5. /\ inUseIO \in Nat /\ ~InUse(t)
      /\ Counting => inUseIO = Cardinality(IOSet \ {t})
      /\ ~Counting => inUseIO = 0
  BY <1>1, NotInIO
<1>6. thread[t].leader /\ IOSet = {}
  BY <1>1, <1>3 DEF ThreadInv
<1>7. Moves(t, hs, inUseIO)
  <2> HIDE DEF hs
  <2>1. NextHandler(t, hs, inUseIO)
    BY <1>2 DEF hs
  <2> QED
    BY <1>3, <1>4, <1>5, <2>1, NextHandlerMoves
<1> HIDE DEF hs
<1>8. Loops(t, hs, inUseIO)
  BY <1>1, <1>4, <1>5, <1>6, <1>7 DEF Loops
<1> QED
  BY <1>4, <1>5, <1>8, LoopKeeps

-----------------------------------------------------------------------------
(* The steps of a thread between two passes of the loop that count for     *)
(* nothing, and those of the rest of the run time.                         *)

\* queue() makes the work queue ready.
LEMMA Queued ==
    ASSUME TypeOK, NEW item \in [kind : {"join", "dispatch", "finished"},
                                 of : Threads \cup Connections \cup {None}],
           Queue(item), destroyed' = destroyed
    PROVE  /\ workItems' = Append(workItems, item) /\ workItems' # <<>>
           /\ workItems' \in Seq([kind : {"join", "dispatch", "finished"},
                                  of : Threads \cup Connections \cup {None}])
           /\ ready' = TRUE /\ wakeup' \in BOOLEAN
           /\ \A n \in DOMAIN workItems' :
                 workItems'[n] = item \/ \E m \in DOMAIN workItems : workItems'[n] = workItems[m]
<1> DEFINE Items == [kind : {"join", "dispatch", "finished"},
                     of : Threads \cup Connections \cup {None}]
<1>1. workItems \in Seq(Items) /\ ready \in BOOLEAN /\ wakeup \in BOOLEAN
      /\ (workItems # <<>> => ready = TRUE)
  BY DEF TypeOK
<1>2. workItems' = Append(workItems, item)
  BY DEF Queue
<1> HIDE DEF Items
<1>3. /\ workItems' \in Seq(Items) /\ Len(workItems') = Len(workItems) + 1
      /\ workItems' # <<>>
      /\ \A n \in 1 .. Len(workItems) : workItems'[n] = workItems[n]
      /\ workItems'[Len(workItems) + 1] = item
  BY <1>1, <1>2, AppendProperties DEF Items
<1>4. \A n \in DOMAIN workItems' :
          workItems'[n] = item \/ \E m \in DOMAIN workItems : workItems'[n] = workItems[m]
  BY <1>1, <1>3
<1>5. ready' = TRUE /\ wakeup' \in BOOLEAN
  BY <1>1 DEF Queue, MakeReady
<1> QED
  BY <1>2, <1>3, <1>4, <1>5 DEF Items

\* Who is in use does not change.
LEMMA StillReads ==
    ASSUME SomeoneReads, pool' = pool, members' = members, destroyed => destroyed',
           \A t \in Threads : InUse(t)' <=> InUse(t), members \subseteq Threads
    PROVE  SomeoneReads'
<1>1. {t \in Threads : InUse(t)'} = {t \in Threads : InUse(t)}
  OBVIOUS
<1>2. SUFFICES ASSUME ~destroyed', Cardinality({t \in Threads : InUse(t)'}) < pool.sizeMax
      PROVE  \E t \in members : ~InUse(t)'
  BY DEF SomeoneReads
<1>3. ~destroyed /\ Cardinality({t \in Threads : InUse(t)}) < pool.sizeMax
  BY <1>1, <1>2
<1> QED
  BY <1>3 DEF SomeoneReads

\* Steps of the application, the connections and the clients.
LEMMA OutsideKeeps ==
    ASSUME IndInv, TypeOK',
           UNCHANGED <<pool, thread, members, counters, handlers, disabled>>,
           registered' \subseteq registered,
           ready => ready', destroyed => destroyed', destroyed' => registered' = {},
           \A n \in DOMAIN workItems' : workItems'[n].kind = "join" => workItems'[n].of \in Threads
    PROVE  IndInv'
<1>1. /\ pool' = pool /\ thread' = thread /\ members' = members /\ promote' = promote
      /\ inUseIO' = inUseIO /\ inUse' = inUse /\ handlers' = handlers /\ disabled' = disabled
  BY DEF counters
<1>2. Safe /\ members \subseteq Threads
  BY DEF IndInv, TypeOK
<1>3. /\ IOSet' = IOSet /\ UseSet' = UseSet /\ Born' = Born /\ Counting' = Counting
      /\ \A t \in Threads : /\ InIO(t)' <=> InIO(t)
                            /\ InUse(t)' <=> InUse(t)
                            /\ Busy(t)' <=> Busy(t)
  BY <1>1 DEF IOSet, UseSet, Born, Counting, InIO, InUse, Busy
<1>4. \A t \in Threads : ThreadInv(t)'
  <2> SUFFICES ASSUME NEW t \in Threads PROVE ThreadInv(t)'
    OBVIOUS
  <2>1. ThreadInv(t)
    BY <1>2 DEF Safe
  <2> QED
    BY <1>1, <1>3, <2>1 DEF ThreadInv
<1>5. LeaderInv' /\ SizeInv' /\ CountInv' /\ QueueInv'
  BY <1>1, <1>2, <1>3 DEF Safe, LeaderInv, SizeInv, CountInv, QueueInv
<1>6. SerialInv'
  BY <1>1, <1>2, <1>3 DEF Safe, SerialInv
<1>7. SomeoneReads'
  BY <1>1, <1>2, <1>3, StillReads DEF Safe
<1> QED
  BY <1>4, <1>5, <1>6, <1>7 DEF IndInv, Safe

LEMMA ArriveKeeps ==
    ASSUME IndInv, NEW h \in Connections, Arrive(h)
    PROVE  IndInv'
<1>1. TypeOK /\ QueueInv
  BY DEF IndInv, Safe
<1>2. /\ data' = [data EXCEPT ![h] = @ + 1] /\ arrived' = arrived + 1 /\ arrived < MaxRequests
      /\ UNCHANGED <<pool, thread, members, counters, handlers, selected, wakeup, registered,
                     disabled, queueVars, destroyed>>
  BY DEF Arrive
<1>3. data' \in [Connections -> Nat] /\ arrived' \in 0 .. MaxRequests
  BY <1>1, <1>2, ThreadPoolAssumption DEF TypeOK
<1>4. TypeOK'
  BY <1>1, <1>2, <1>3 DEF TypeOK, counters, queueVars
<1> QED
  BY <1>1, <1>2, <1>4, OutsideKeeps DEF QueueInv, queueVars

LEMMA FinishKeeps ==
    ASSUME IndInv, NEW h \in Connections, Finish(h)
    PROVE  IndInv'
<1>1. TypeOK /\ QueueInv
  BY DEF IndInv, Safe
<1> DEFINE item == [kind |-> "finished", of |-> h]
<1>2. /\ h \in registered /\ registered' = registered \ {h} /\ Queue(item)
      /\ UNCHANGED <<pool, thread, members, counters, handlers, selected, data, arrived,
                     disabled, items, destroyed>>
  BY DEF Finish
<1>3. item \in [kind : {"join", "dispatch", "finished"},
                of : Threads \cup Connections \cup {None}] /\ item.kind = "finished"
  OBVIOUS
<1> HIDE DEF item
<1>4. /\ workItems' # <<>>
      /\ workItems' \in Seq([kind : {"join", "dispatch", "finished"},
                             of : Threads \cup Connections \cup {None}])
      /\ ready' = TRUE /\ wakeup' \in BOOLEAN
      /\ \A n \in DOMAIN workItems' :
            workItems'[n] = item \/ \E m \in DOMAIN workItems : workItems'[n] = workItems[m]
  BY <1>1, <1>2, <1>3, Queued
<1>5. TypeOK'
  BY <1>1, <1>2, <1>4 DEF TypeOK, counters
<1>6. \A n \in DOMAIN workItems' : workItems'[n].kind = "join" => workItems'[n].of \in Threads
  BY <1>1, <1>3, <1>4 DEF QueueInv
<1>7. destroyed' => registered' = {}
  BY <1>1, <1>2 DEF QueueInv
<1> QED
  BY <1>2, <1>4, <1>5, <1>6, <1>7, OutsideKeeps

LEMMA DispatchKeeps ==
    ASSUME IndInv, Dispatch
    PROVE  IndInv'
<1>1. TypeOK /\ QueueInv
  BY DEF IndInv, Safe
<1> DEFINE item == [kind |-> "dispatch", of |-> None]
<1>2. /\ ~destroyed /\ items < MaxItems /\ items' = items + 1 /\ Queue(item)
      /\ UNCHANGED <<pool, thread, members, counters, handlers, selected, socketVars, disabled,
                     destroyed>>
  BY DEF Dispatch
<1>3. item \in [kind : {"join", "dispatch", "finished"},
                of : Threads \cup Connections \cup {None}] /\ item.kind = "dispatch"
  OBVIOUS
<1> HIDE DEF item
<1>4. /\ workItems' # <<>>
      /\ workItems' \in Seq([kind : {"join", "dispatch", "finished"},
                             of : Threads \cup Connections \cup {None}])
      /\ ready' = TRUE /\ wakeup' \in BOOLEAN
      /\ \A n \in DOMAIN workItems' :
            workItems'[n] = item \/ \E m \in DOMAIN workItems : workItems'[n] = workItems[m]
  BY <1>1, <1>2, <1>3, Queued
<1>5. items' \in 0 .. MaxItems
  BY <1>1, <1>2, ThreadPoolAssumption DEF TypeOK
<1>6. TypeOK'
  BY <1>1, <1>2, <1>4, <1>5 DEF TypeOK, counters, socketVars
<1>7. \A n \in DOMAIN workItems' : workItems'[n].kind = "join" => workItems'[n].of \in Threads
  BY <1>1, <1>3, <1>4 DEF QueueInv
<1> QED
  BY <1>1, <1>2, <1>4, <1>6, <1>7, OutsideKeeps DEF QueueInv, socketVars

LEMMA DestroyKeeps ==
    ASSUME IndInv, Destroy
    PROVE  IndInv'
<1>1. TypeOK /\ QueueInv
  BY DEF IndInv, Safe
<1>2. /\ ~destroyed /\ registered = {} /\ destroyed' = TRUE /\ ready' = TRUE
      /\ wakeup' \in BOOLEAN
      /\ UNCHANGED <<pool, thread, members, counters, handlers, selected, socketVars, disabled,
                     workItems, items>>
  BY <1>1 DEF Destroy, MakeReady, TypeOK
<1>3. TypeOK'
  BY <1>1, <1>2 DEF TypeOK, counters, socketVars
<1> QED
  BY <1>1, <1>2, <1>3, OutsideKeeps DEF QueueInv, socketVars

\* A thread goes on within message(), or from select() to finishSelect().
LEMMA PlaceKeeps ==
    ASSUME IndInv, TypeOK', NEW t \in Threads,
           \A u \in Threads \ {t} : thread'[u] = thread[u],
           thread'[t].leader = thread[t].leader, thread'[t].handler = thread[t].handler,
           thread'[t].ioCompleted = thread[t].ioCompleted,
           InIO(t)' <=> InIO(t), InUse(t)' <=> InUse(t),
           {thread[t].pc, thread'[t].pc} \cap {"unborn", "done"} = {},
           \A u \in Threads : thread'[u].pc = "message" /\ thread'[u].handler = WorkQueue => ready',
           WorkQueue \in ToSet(handlers) => ready',
           \A n \in DOMAIN workItems' : workItems'[n].kind = "join" => workItems'[n].of \in Threads,
           UNCHANGED <<pool, members, counters, handlers, registered, disabled, destroyed>>,
           ThreadInv(t)'
    PROVE  IndInv'
<1>1. /\ pool' = pool /\ members' = members /\ promote' = promote /\ registered' = registered
      /\ inUseIO' = inUseIO /\ inUse' = inUse /\ handlers' = handlers /\ disabled' = disabled
      /\ destroyed' = destroyed
  BY DEF counters
<1>2. Safe /\ members \subseteq Threads
  BY DEF IndInv, TypeOK
<1>3. \A u \in Threads : /\ thread'[u].leader = thread[u].leader
                         /\ thread'[u].handler = thread[u].handler
                         /\ thread'[u].ioCompleted = thread[u].ioCompleted
                         /\ InIO(u)' <=> InIO(u)
                         /\ InUse(u)' <=> InUse(u)
                         /\ thread'[u].pc = "done" <=> thread[u].pc = "done"
                         /\ thread'[u].pc = "unborn" <=> thread[u].pc = "unborn"
  BY DEF InIO, InUse
<1>4. /\ IOSet' = IOSet /\ UseSet' = UseSet /\ Born' = Born /\ Counting' = Counting
      /\ \A u \in Threads : Busy(u)' <=> Busy(u)
  BY <1>1, <1>3 DEF IOSet, UseSet, Born, Counting, Busy
<1>5. \A u \in Threads : ThreadInv(u)'
  <2> SUFFICES ASSUME NEW u \in Threads \ {t} PROVE ThreadInv(u)'
    OBVIOUS
  <2>1. ThreadInv(u) /\ thread'[u] = thread[u]
    BY <1>2 DEF Safe
  <2> QED
    BY <1>1, <1>3, <1>4, <2>1 DEF ThreadInv
<1>6. LeaderInv' /\ SizeInv' /\ CountInv' /\ QueueInv'
  BY <1>1, <1>2, <1>3, <1>4 DEF Safe, LeaderInv, SizeInv, CountInv, QueueInv
<1>7. SerialInv'
  BY <1>1, <1>2, <1>3, <1>4 DEF Safe, SerialInv, IOSet
<1>8. SomeoneReads'
  BY <1>1, <1>2, <1>3, StillReads DEF Safe
<1> QED
  BY <1>5, <1>6, <1>7, <1>8 DEF IndInv, Safe

LEMMA SelectKeeps ==
    ASSUME IndInv, NEW t \in Threads, Select(t)
    PROVE  IndInv'
<1>1. TypeOK /\ QueueInv /\ ThreadInv(t) /\ \A u \in Threads : ThreadInv(u)
  BY DEF IndInv, Safe
<1>2. /\ thread[t].pc = "select" /\ thread' = [thread EXCEPT ![t].pc = "selected"]
      /\ selected' = Readable
      /\ UNCHANGED <<pool, members, counters, handlers, wakeup, socketVars, disabled, queueVars,
                     destroyed>>
  BY DEF Select
<1>3. /\ thread' \in [Threads -> Records] /\ thread'[t].pc = "selected"
      /\ \A u \in Threads \ {t} : thread'[u] = thread[u]
      /\ thread'[t].leader = thread[t].leader /\ thread'[t].handler = thread[t].handler
      /\ thread'[t].ioCompleted = thread[t].ioCompleted
      /\ thread'[t].target = thread[t].target
  <2>1. thread \in [Threads -> Records]
    BY <1>1 DEF TypeOK, Records, Handlers
  <2> QED
    BY <1>2, <2>1 DEF Records, Places
<1>4. selected' \subseteq Connections
  BY <1>1, <1>2 DEF Readable, TypeOK
<1>5. TypeOK'
  BY <1>1, <1>2, <1>3, <1>4 DEF TypeOK, counters, socketVars, queueVars, Records, Handlers
<1>6. /\ InIO(t)' <=> InIO(t)
      /\ InUse(t)' <=> InUse(t)
  BY <1>2, <1>3 DEF InIO, InUse
<1>7. IOSet' = IOSet
  BY <1>3, <1>6 DEF IOSet, InIO
<1>8. ThreadInv(t)'
  BY <1>1, <1>2, <1>3, <1>6, <1>7
     DEF ThreadInv, Counting, counters, socketVars, queueVars, InIO
<1>9. \A u \in Threads : thread'[u].pc = "message" /\ thread'[u].handler = WorkQueue => ready'
  BY <1>1, <1>2, <1>3 DEF ThreadInv, queueVars
<1> QED
  BY <1>1, <1>2, <1>3, <1>5, <1>6, <1>8, <1>9, PlaceKeeps
     DEF QueueInv, counters, socketVars, queueVars

LEMMA ReadKeeps ==
    ASSUME IndInv, NEW t \in Threads, Read(t)
    PROVE  IndInv'
<1>1. /\ TypeOK /\ QueueInv /\ ThreadInv(t) /\ \A u \in Threads : ThreadInv(u)
  BY DEF IndInv, Safe
<1>2. /\ thread[t].pc = "message" /\ thread[t].handler \in Connections
      /\ \E pc \in {"completing", "returned"} : thread' = [thread EXCEPT ![t].pc = pc]
      /\ data' \in [Connections -> Nat]
      /\ UNCHANGED <<pool, members, counters, handlers, selected, wakeup, registered,
                     arrived, disabled, queueVars, destroyed>>
  <2> DEFINE h == thread[t].handler
  <2>1. /\ thread[t].pc = "message" /\ h \in Connections
        /\ UNCHANGED <<pool, members, counters, handlers, selected, wakeup, registered,
                       arrived, disabled, queueVars, destroyed>>
    BY DEF Read
  <2>2. \E pc \in {"completing", "returned"} : thread' = [thread EXCEPT ![t].pc = pc]
    BY DEF Read
  <2>3. data' \in [Connections -> Nat]
    <3>1. \/ data' = data
          \/ data[h] > 0 /\ data' = [data EXCEPT ![h] = @ - 1]
      BY DEF Read
    <3>2. data \in [Connections -> Nat] /\ h \in Connections
      BY <1>1, <2>1 DEF TypeOK
    <3> HIDE DEF h
    <3>3. data[h] > 0 => data[h] - 1 \in Nat
      BY <3>2
    <3> QED
      BY <3>1, <3>2, <3>3
  <2> QED
    BY <2>1, <2>2, <2>3
<1>3. /\ thread' \in [Threads -> Records] /\ thread'[t].pc \in {"completing", "returned"}
      /\ \A u \in Threads \ {t} : thread'[u] = thread[u]
      /\ thread'[t].leader = thread[t].leader /\ thread'[t].handler = thread[t].handler
      /\ thread'[t].ioCompleted = thread[t].ioCompleted
      /\ thread'[t].target = thread[t].target
  <2>1. PICK p \in {"completing", "returned"} : thread' = [thread EXCEPT ![t].pc = p]
    BY <1>2
  <2>2. thread \in [Threads -> Records]
    BY <1>1 DEF TypeOK, Records, Handlers
  <2> QED
    BY <2>1, <2>2 DEF Records, Places
<1>4. TypeOK'
  BY <1>1, <1>2, <1>3 DEF TypeOK, counters, queueVars, Records, Handlers
<1>5. thread[t].ioCompleted = FALSE /\ thread[t].target = None /\ Exit # None
  BY <1>1, <1>2, ThreadPoolAssumption DEF ThreadInv, TypeOK
<1>6. /\ InIO(t)' <=> InIO(t)
      /\ InUse(t)' <=> InUse(t)
      /\ InIO(t)
  BY <1>2, <1>3, <1>5 DEF InIO, InUse
<1>7. ThreadInv(t)'
  BY <1>1, <1>2, <1>3, <1>5, <1>6 DEF ThreadInv, Counting, counters, queueVars
<1>8. \A u \in Threads : thread'[u].pc = "message" /\ thread'[u].handler = WorkQueue => ready'
  BY <1>1, <1>2, <1>3 DEF ThreadInv, queueVars
<1> QED
  BY <1>1, <1>2, <1>3, <1>4, <1>6, <1>7, <1>8, PlaceKeeps DEF QueueInv, counters, queueVars

LEMMA WorkItemKeeps ==
    ASSUME IndInv, NEW t \in Threads, WorkItem(t)
    PROVE  IndInv'
<1>1. /\ TypeOK /\ QueueInv /\ ThreadInv(t) /\ SerialInv /\ \A u \in Threads : ThreadInv(u)
  BY DEF IndInv, Safe
<1> DEFINE Items == [kind : {"join", "dispatch", "finished"},
                     of : Threads \cup Connections \cup {None}]
           rest == IF workItems = <<>> THEN <<>> ELSE Tail(workItems)
<1>2. /\ thread[t].pc = "message" /\ thread[t].handler = WorkQueue
      /\ \E a \in AfterItem : thread' = [thread EXCEPT ![t].pc = a.pc, ![t].target = a.target]
      /\ workItems' = rest
      /\ ready' = (workItems' # <<>> \/ destroyed)
      /\ UNCHANGED <<pool, members, counters, handlers, selected, wakeup, socketVars, disabled,
                     items, destroyed>>
  BY DEF WorkItem, StaysReady
<1>3. workItems \in Seq(Items)
  BY <1>1 DEF TypeOK
<1>4. /\ rest \in Seq(Items)
      /\ \A n \in DOMAIN rest : rest[n].kind = "join" => rest[n].of \in Threads
  <2>1. CASE workItems = <<>>
    BY <2>1
  <2>2. CASE workItems # <<>>
    <3> HIDE DEF Items
    <3>1. /\ rest \in Seq(Items) /\ Len(rest) = Len(workItems) - 1
          /\ \A n \in 1 .. Len(rest) : rest[n] = workItems[n + 1]
          /\ Len(workItems) \in Nat \ {0}
      BY <1>3, <2>2, HeadTailProperties
    <3> HIDE DEF rest
    <3>2. \A n \in DOMAIN rest : n + 1 \in DOMAIN workItems /\ rest[n] = workItems[n + 1]
      BY <1>3, <3>1
    <3> QED
      BY <1>1, <3>1, <3>2 DEF QueueInv
  <2> QED
    BY <2>1, <2>2
<1>5. \A a \in AfterItem :
         /\ a.pc \in {"join", "completing", "returned"}
         /\ a.pc = "join" => a.target \in Threads
         /\ a.pc = "completing" => a.target \in {None, Exit}
         /\ a.pc = "returned" => a.target = None
         /\ a.target = Exit => destroyed
  <2>1. Exit # None /\ Exit \notin Threads
    BY FiniteThreads, ThreadPoolAssumption
  <2>2. CASE workItems = <<>>
    <3>1. destroyed
      BY <1>1, <1>2, <2>2 DEF ThreadInv, TypeOK
    <3> QED
      BY <2>1, <2>2, <3>1 DEF AfterItem
  <2>3. CASE workItems # <<>>
    <3>1. Head(workItems) = workItems[1] /\ 1 \in DOMAIN workItems /\ Head(workItems) \in Items
      <4> HIDE DEF Items
      <4> QED
        BY <1>3, <2>3
    <3>2. Head(workItems).kind = "join" => Head(workItems).of \in Threads
      BY <1>1, <3>1 DEF QueueInv
    <3>3. Head(workItems).kind \in {"join", "dispatch", "finished"}
      BY <3>1
    <3>4. CASE Head(workItems).kind = "join"
      BY <2>1, <2>3, <3>2, <3>4 DEF AfterItem
    <3>5. CASE Head(workItems).kind = "dispatch"
      BY <2>1, <2>3, <3>5 DEF AfterItem
    <3>6. CASE Head(workItems).kind = "finished"
      BY <2>1, <2>3, <3>6 DEF AfterItem
    <3> QED
      BY <3>3, <3>4, <3>5, <3>6
  <2> QED
    BY <2>2, <2>3
<1> HIDE DEF rest, Items
<1>6. PICK a \in AfterItem : thread' = [thread EXCEPT ![t].pc = a.pc, ![t].target = a.target]
  BY <1>2
<1>7. /\ thread' \in [Threads -> Records]
      /\ thread'[t].pc = a.pc /\ thread'[t].target = a.target
      /\ \A u \in Threads \ {t} : thread'[u] = thread[u]
      /\ thread'[t].leader = thread[t].leader /\ thread'[t].handler = thread[t].handler
      /\ thread'[t].ioCompleted = thread[t].ioCompleted
  <2>1. thread \in [Threads -> Records]
    BY <1>1 DEF TypeOK, Records, Handlers
  <2>2. a.pc \in Places /\ a.target \in Threads \cup {None, Exit}
    BY <1>5 DEF Places
  <2> QED
    BY <1>6, <2>1, <2>2 DEF Records
<1>8. workItems' \in Seq([kind : {"join", "dispatch", "finished"},
                          of : Threads \cup Connections \cup {None}])
  BY <1>2, <1>4 DEF Items
<1>9. TypeOK'
  BY <1>1, <1>2, <1>7, <1>8 DEF TypeOK, counters, socketVars, Records, Handlers
<1>10. thread[t].ioCompleted = FALSE /\ Exit # None /\ WorkQueue # None
  BY <1>1, <1>2, ThreadPoolAssumption DEF ThreadInv, TypeOK
<1>11. /\ InIO(t)' <=> InIO(t)
       /\ InUse(t)' <=> InUse(t)
       /\ InIO(t)
  BY <1>2, <1>5, <1>7, <1>10 DEF InIO, InUse
<1>12. ThreadInv(t)'
  <2>1. thread'[t].pc \in {"join", "completing", "returned"}
    BY <1>5, <1>7
  <2>2. thread'[t].target # None => thread'[t].pc \in {"join", "completing"}
    BY <1>5, <1>7
  <2> QED
    BY <1>1, <1>2, <1>5, <1>7, <1>10, <1>11, <2>1, <2>2 DEF ThreadInv, Counting, counters
<1>13. ASSUME NEW u \in Threads, thread'[u].pc = "message", thread'[u].handler = WorkQueue
       PROVE  FALSE
  <2>1. u # t
    BY <1>5, <1>7, <1>13
  <2>2. u \in IOSet /\ t \in IOSet /\ thread[u].handler = WorkQueue
    BY <1>7, <1>11, <1>13, <2>1 DEF IOSet, InIO
  <2> QED
    BY <1>1, <1>2, <2>1, <2>2 DEF SerialInv
<1>14. WorkQueue \notin ToSet(handlers)
  BY <1>1, <1>2, <1>11 DEF ThreadInv
<1>15. \A n \in DOMAIN workItems' : workItems'[n].kind = "join" => workItems'[n].of \in Threads
  BY <1>2, <1>4
<1>16. {thread[t].pc, thread'[t].pc} \cap {"unborn", "done"} = {}
  BY <1>2, <1>5, <1>7
<1> QED
  BY <1>2, <1>7, <1>9, <1>11, <1>12, <1>13, <1>14, <1>15, <1>16, PlaceKeeps
     DEF counters, socketVars

LEMMA JoinKeeps ==
    ASSUME IndInv, NEW t \in Threads, Join(t)
    PROVE  IndInv'
<1>1. /\ TypeOK /\ QueueInv /\ ThreadInv(t) /\ \A u \in Threads : ThreadInv(u)
  BY DEF IndInv, Safe
<1>2. /\ thread[t].pc = "join"
      /\ thread' = [thread EXCEPT ![t].pc = "returned", ![t].target = None]
      /\ UNCHANGED <<pool, members, counters, handlers, selected, wakeup, socketVars, disabled,
                     queueVars, destroyed>>
  BY DEF Join
<1>3. /\ thread' \in [Threads -> Records] /\ thread'[t].pc = "returned"
      /\ \A u \in Threads \ {t} : thread'[u] = thread[u]
      /\ thread'[t].leader = thread[t].leader /\ thread'[t].handler = thread[t].handler
      /\ thread'[t].ioCompleted = thread[t].ioCompleted /\ thread'[t].target = None
  <2>1. thread \in [Threads -> Records]
    BY <1>1 DEF TypeOK, Records, Handlers
  <2> QED
    BY <1>2, <2>1 DEF Records, Places
<1>4. TypeOK'
  BY <1>1, <1>2, <1>3 DEF TypeOK, counters, socketVars, queueVars, Records, Handlers
<1>5. thread[t].ioCompleted = FALSE /\ Exit # None
  BY <1>1, <1>2, ThreadPoolAssumption DEF ThreadInv, TypeOK
<1>6. /\ InIO(t)' <=> InIO(t)
      /\ InUse(t)' <=> InUse(t)
      /\ InIO(t)
  BY <1>2, <1>3, <1>5 DEF InIO, InUse
<1>7. ThreadInv(t)'
  BY <1>1, <1>2, <1>3, <1>5, <1>6 DEF ThreadInv, Counting, counters, queueVars
<1>8. \A u \in Threads : thread'[u].pc = "message" /\ thread'[u].handler = WorkQueue => ready'
  BY <1>1, <1>2, <1>3 DEF ThreadInv, queueVars
<1> QED
  BY <1>1, <1>2, <1>3, <1>4, <1>6, <1>7, <1>8, PlaceKeeps
     DEF QueueInv, counters, socketVars, queueVars

LEMMA EndDispatchKeeps ==
    ASSUME IndInv, NEW t \in Threads, EndDispatch(t)
    PROVE  IndInv'
<1>1. /\ TypeOK /\ QueueInv /\ ThreadInv(t) /\ \A u \in Threads : ThreadInv(u)
  BY DEF IndInv, Safe
<1>2. /\ thread[t].pc = "dispatching" /\ thread' = [thread EXCEPT ![t].pc = "returned"]
      /\ UNCHANGED <<pool, members, counters, handlers, selected, wakeup, socketVars, disabled,
                     queueVars, destroyed>>
  BY DEF EndDispatch
<1>3. /\ thread' \in [Threads -> Records] /\ thread'[t].pc = "returned"
      /\ \A u \in Threads \ {t} : thread'[u] = thread[u]
      /\ thread'[t].leader = thread[t].leader /\ thread'[t].handler = thread[t].handler
      /\ thread'[t].ioCompleted = thread[t].ioCompleted
      /\ thread'[t].target = thread[t].target
  <2>1. thread \in [Threads -> Records]
    BY <1>1 DEF TypeOK, Records, Handlers
  <2> QED
    BY <1>2, <2>1 DEF Records, Places
<1>4. TypeOK'
  BY <1>1, <1>2, <1>3 DEF TypeOK, counters, socketVars, queueVars, Records, Handlers
<1>5. thread[t].ioCompleted = TRUE /\ thread[t].target = None /\ Exit # None
  BY <1>1, <1>2, ThreadPoolAssumption DEF ThreadInv, TypeOK
<1>6. /\ InIO(t)' <=> InIO(t)
      /\ InUse(t)' <=> InUse(t)
      /\ ~InIO(t)
  BY <1>2, <1>3, <1>5 DEF InIO, InUse
<1>7. ThreadInv(t)'
  BY <1>1, <1>2, <1>3, <1>5, <1>6 DEF ThreadInv, Counting, counters, queueVars
<1>8. \A u \in Threads : thread'[u].pc = "message" /\ thread'[u].handler = WorkQueue => ready'
  BY <1>1, <1>2, <1>3 DEF ThreadInv, queueVars
<1> QED
  BY <1>1, <1>2, <1>3, <1>4, <1>6, <1>7, <1>8, PlaceKeeps
     DEF QueueInv, counters, socketVars, queueVars

\* Somebody else is left to read when a thread need not stay.
LEMMA OthersRead ==
    ASSUME IndInv, NEW t \in Threads, thread[t].pc = "waiting", MustWait(handlers, inUseIO)
    PROVE  \E u \in members \ {t} : ~InUse(u)
<1>1. /\ \A u \in Threads : ThreadInv(u)
      /\ LeaderInv /\ CountInv /\ SizeInv /\ TypeOK
  BY DEF IndInv, Safe
<1>2. t \in members /\ ~thread[t].leader
  BY <1>1 DEF ThreadInv
<1>3. CASE Counting
  <2>1. CASE ~promote
    <3>1. PICK u \in Threads : thread[u].leader
      BY <1>1, <2>1 DEF LeaderInv
    <3>2. u # t /\ u \in members /\ ~InUse(u)
      BY <1>1, <1>2, <1>3, <3>1 DEF ThreadInv, InUse
    <3> QED
      BY <3>2
  <2>2. CASE inUseIO > 0
    <3>1. inUseIO = Cardinality(IOSet)
      BY <1>1, <1>3 DEF CountInv
    <3>2. IOSet # {}
      BY <2>2, <3>1, FS_EmptySet
    <3>3. PICK u \in Threads : InIO(u)
      BY <3>2 DEF IOSet
    <3>4. u # t /\ u \in members /\ ~InUse(u)
      BY <1>1, <3>3 DEF ThreadInv, InIO, InUse
    <3> QED
      BY <3>4
  <2>3. inUseIO = pool.sizeIO => inUseIO > 0
    BY <1>1 DEF TypeOK
  <2> QED
    BY <2>1, <2>2, <2>3 DEF MustWait
<1>4. CASE ~Counting
  <2>1. inUseIO = 0 /\ pool.sizeMax = 1 /\ pool.sizeIO # 0
    BY <1>1, <1>4 DEF CountInv, TypeOK, Counting
  <2>2. PICK u \in Threads : thread[u].leader
    BY <1>1, <2>1 DEF MustWait, LeaderInv
  <2>3. {t, u} \subseteq members /\ u # t
    BY <1>1, <1>2, <2>2 DEF ThreadInv
  <2>4. IsFiniteSet(members) /\ Cardinality({t, u}) = 2
    <3>1. members \subseteq Threads
      BY <1>1 DEF TypeOK
    <3>2. IsFiniteSet({t}) /\ Cardinality({t}) = 1 /\ u \notin {t}
      BY <2>3, FS_Singleton
    <3>3. Cardinality({t} \cup {u}) = 2
      BY <3>2, FS_AddElement
    <3>4. {t} \cup {u} = {t, u}
      OBVIOUS
    <3> QED
      BY <3>1, <3>3, <3>4, FiniteThreads
  <2>5. Cardinality({t, u}) <= Cardinality(members)
    BY <2>3, <2>4, FS_Subset
  <2>6. Cardinality(members) <= 1 /\ Cardinality(members) \in Nat
    BY <1>1, <2>1, <2>4, FS_CardinalityType DEF SizeInv
  <2> QED
    BY <2>4, <2>5, <2>6
<1> QED
  BY <1>3, <1>4

\* A thread that was idle for too long leaves.
LEMMA LeaveKeeps ==
    ASSUME IndInv, NEW t \in Threads, TimedOut(t), MustWait(handlers, inUseIO)
    PROVE  IndInv'
<1> DEFINE item == [kind |-> "join", of |-> t]
<1>1. /\ \A u \in Threads : ThreadInv(u)
      /\ LeaderInv /\ SizeInv /\ CountInv /\ QueueInv /\ SerialInv /\ TypeOK
  BY DEF IndInv, Safe
<1>2. /\ thread[t].pc = "waiting" /\ ~destroyed
      /\ Cardinality(Born) - Cardinality(members) < MaxShrinks
      /\ members' = members \ {t}
      /\ thread' = [thread EXCEPT ![t] = [Absent EXCEPT !.pc = "done"]]
      /\ Queue(item)
      /\ UNCHANGED <<promote, inUseIO, handlers, items, pool, inUse, selected, socketVars,
                     disabled, destroyed>>
  BY DEF TimedOut, Born
<1>3. /\ thread' \in [Threads -> Records] /\ IsAt(thread'[t], "done", None, FALSE)
      /\ \A u \in Threads \ {t} : thread'[u] = thread[u]
  <2>1. [Absent EXCEPT !.pc = "done"] \in Records
        /\ IsAt([Absent EXCEPT !.pc = "done"], "done", None, FALSE)
    BY DEF Absent, Records, Places, IsAt
  <2>2. thread \in [Threads -> Records]
    BY <1>1 DEF TypeOK, Records, Handlers
  <2> QED
    BY <1>2, <2>1, <2>2
<1>4. item \in [kind : {"join", "dispatch", "finished"},
                of : Threads \cup Connections \cup {None}] /\ item.of = t
  OBVIOUS
<1> HIDE DEF item
<1>5. /\ workItems' # <<>>
      /\ workItems' \in Seq([kind : {"join", "dispatch", "finished"},
                             of : Threads \cup Connections \cup {None}])
      /\ ready' = TRUE /\ wakeup' \in BOOLEAN
      /\ \A n \in DOMAIN workItems' :
            workItems'[n] = item \/ \E m \in DOMAIN workItems : workItems'[n] = workItems[m]
  BY <1>1, <1>2, <1>4, Queued
<1>6. members' \subseteq Threads
  BY <1>1, <1>2 DEF TypeOK
<1>7. TypeOK'
  BY <1>1, <1>2, <1>3, <1>5, <1>6 DEF TypeOK, socketVars, Records, Handlers
<1>8. /\ thread'[t].pc = "done" /\ ~thread'[t].leader /\ ~thread'[t].ioCompleted
      /\ thread'[t].target = None /\ thread'[t].handler = None
      /\ ~thread[t].leader /\ t \in members /\ t \notin members'
      /\ ~InIO(t) /\ ~InUse(t) /\ ~InIO(t)' /\ ~InUse(t)'
  BY <1>1, <1>2, <1>3 DEF ThreadInv, IsAt, InIO, InUse
<1>9. \A u \in Threads \ {t} : /\ thread'[u] = thread[u]
                               /\ InIO(u)' <=> InIO(u)
                               /\ InUse(u)' <=> InUse(u)
                               /\ u \in members' <=> u \in members
  BY <1>2, <1>3 DEF InIO, InUse
<1>10. /\ \A u \in Threads : /\ InIO(u)' <=> InIO(u)
                             /\ InUse(u)' <=> InUse(u)
                             /\ Busy(u)' <=> Busy(u)
                             /\ thread'[u].leader <=> thread[u].leader
                             /\ thread'[u].pc # "unborn" <=> thread[u].pc # "unborn"
  BY <1>2, <1>8, <1>9 DEF Busy
<1>11. IOSet' = IOSet /\ Born' = Born /\ Counting' = Counting
  BY <1>2, <1>10 DEF IOSet, Born, Counting
<1>12. UseSet' = UseSet
  <2>1. \A u \in Threads \ {t} : (thread'[u].pc = "done" /\ u \in members')
                                    <=> (thread[u].pc = "done" /\ u \in members)
    BY <1>9
  <2>2. t \notin UseSet /\ t \notin UseSet'
    BY <1>2, <1>8 DEF UseSet
  <2> QED
    BY <1>10, <2>1, <2>2 DEF UseSet
<1>13. \A u \in Threads : ThreadInv(u)'
  <2>1. ThreadInv(t)'
    BY <1>8, ThreadPoolAssumption DEF ThreadInv
  <2>2. ASSUME NEW u \in Threads \ {t} PROVE ThreadInv(u)'
    <3>1. ThreadInv(u)
      BY <1>1
    <3>2. handlers' = handlers /\ destroyed' = destroyed
      BY <1>2
    <3> QED
      BY <1>5, <1>9, <1>11, <3>1, <3>2 DEF ThreadInv
  <2> QED
    BY <2>1, <2>2
<1>14. LeaderInv'
  BY <1>1, <1>2, <1>10 DEF LeaderInv
<1>15. SizeInv'
  <2>1. IsFiniteSet(members)
    BY <1>1, FiniteThreads DEF TypeOK
  <2>2. Cardinality(members') = Cardinality(members) - 1 /\ Cardinality(members) \in Nat
    BY <1>2, <1>8, <2>1, FS_RemoveElement, FS_CardinalityType
  <2>3. PICK n \in Nat : Born = 1 .. n
    BY <1>1 DEF SizeInv
  <2>4. Cardinality(Born) = n
    BY <2>3, FS_Interval
  <2>5. n <= Cardinality(members') + MaxShrinks
    BY <1>2, <2>2, <2>4, ThreadPoolAssumption
  <2> QED
    <3>1. pool.size <= pool.sizeMax /\ pool.sizeMax <= SizeLimit /\ pool.sizeMax \in Nat
          /\ Cardinality(members) <= pool.sizeMax
      BY <1>1 DEF SizeInv, TypeOK
    <3>2. Cardinality(members') <= pool.sizeMax
      BY <2>2, <3>1
    <3>3. pool' = pool
      BY <1>2
    <3> QED
      BY <1>11, <2>3, <2>5, <3>1, <3>2, <3>3 DEF SizeInv
<1>16. CountInv'
  BY <1>1, <1>2, <1>11, <1>12 DEF CountInv
<1>17. QueueInv'
  <2>1. \A n \in DOMAIN workItems' : workItems'[n].kind = "join" => workItems'[n].of \in Threads
    BY <1>1, <1>4, <1>5 DEF QueueInv
  <2> QED
    BY <1>1, <1>2, <1>5, <2>1 DEF QueueInv, socketVars
<1>18. SerialInv'
  <2>1. \A u \in Threads : Busy(u) => u # t
    BY <1>8 DEF Busy
  <2>2. \A u \in Threads : Busy(u) => thread'[u] = thread[u]
    BY <1>3, <2>1
  <2>3. \A u \in IOSet : Busy(u) /\ u \in Threads
    BY DEF IOSet, Busy
  <2>4. \A u \in Threads : InUse(u) => Busy(u)
    BY DEF Busy
  <2> QED
    <3>1. pool' = pool /\ registered' = registered /\ disabled' = disabled
      BY <1>2 DEF socketVars
    <3>2. \A u \in Threads : Busy(u) => thread'[u].handler = thread[u].handler
      BY <2>2
    <3>3. \A u, v \in IOSet' : thread'[u].handler = thread'[v].handler => u = v
      BY <1>1, <1>11, <2>3, <3>2 DEF SerialInv
    <3>4. ASSUME pool.serialize, Counting, NEW u \in Threads, NEW v \in Threads,
                 Busy(u), Busy(v), thread'[u].handler = thread'[v].handler,
                 thread'[u].handler \in Connections
          PROVE  u = v
      BY <1>1, <3>2, <3>4 DEF SerialInv
    <3>5. ASSUME pool.serialize, Counting, NEW u \in Threads, InUse(u),
                 thread'[u].handler \in Connections
          PROVE  thread'[u].handler \notin registered \ disabled
      BY <1>1, <2>4, <3>2, <3>5 DEF SerialInv
    <3> QED
      BY <1>10, <1>11, <3>1, <3>3, <3>4, <3>5 DEF SerialInv
<1>19. SomeoneReads'
  <2>1. PICK u \in members \ {t} : ~InUse(u)
    BY <1>2, OthersRead
  <2>2. u \in members' /\ u \in Threads
    BY <1>1, <1>2, <2>1 DEF TypeOK
  <2>3. ~InUse(u)'
    BY <1>10, <2>1, <2>2
  <2> QED
    BY <2>2, <2>3 DEF SomeoneReads
<1> QED
  BY <1>7, <1>13, <1>14, <1>15, <1>16, <1>17, <1>18, <1>19 DEF IndInv, Safe

LEMMA TimedOutKeeps ==
    ASSUME IndInv, NEW t \in Threads, TimedOut(t)
    PROVE  IndInv'
<1>1. CASE MustWait(handlers, inUseIO)
  BY <1>1, LeaveKeeps
<1>2. CASE ~MustWait(handlers, inUseIO)
  <2>1. thread[t].pc = "waiting"
    BY DEF TimedOut
  <2>2. /\ inUseIO \in Nat /\ ~InUse(t)
        /\ Counting => inUseIO = Cardinality(IOSet \ {t})
        /\ ~Counting => inUseIO = 0
    BY <2>1, NotInIO
  <2>3. /\ Lead(t, inUseIO) /\ inUse' = inUse /\ disabled' = disabled
        /\ UNCHANGED <<pool, members, selected, socketVars, queueVars, destroyed>>
    BY <1>2 DEF TimedOut
  <2> QED
    BY <2>1, <2>2, <2>3, LeadLoops
<1> QED
  BY <1>1, <1>2

-----------------------------------------------------------------------------
(* ioCompleted.                                                            *)

\* What becomes of the thread that has done its IO.
Completed(t) ==
    /\ thread'[t].pc = (IF thread[t].target = Exit THEN "done" ELSE "dispatching")
    /\ thread'[t].ioCompleted = TRUE /\ thread'[t].target = None
    /\ thread'[t].handler = thread[t].handler

\* With one thread nothing is counted and nobody else is there.
LEMMA AloneKeeps ==
    ASSUME IndInv, NEW t \in Threads, IOCompleted(t), ~Counting
    PROVE  IndInv'
<1>1. /\ \A u \in Threads : ThreadInv(u)
      /\ LeaderInv /\ SizeInv /\ CountInv /\ QueueInv /\ SerialInv /\ TypeOK
  BY DEF IndInv, Safe
<1>2. /\ thread[t].pc = "completing"
      /\ thread' = [thread EXCEPT ![t].ioCompleted = TRUE, ![t].target = None,
                                  ![t].pc = IF thread[t].target = Exit THEN "done"
                                            ELSE "dispatching"]
      /\ UNCHANGED <<pool, members, counters, handlers, selected, wakeup, socketVars, disabled,
                     queueVars, destroyed>>
  BY DEF IOCompleted
<1>3. /\ thread' \in [Threads -> Records] /\ Completed(t)
      /\ thread'[t].leader = thread[t].leader
      /\ \A u \in Threads \ {t} : thread'[u] = thread[u]
  <2>1. thread \in [Threads -> Records]
    BY <1>1 DEF TypeOK, Records, Handlers
  <2> QED
    BY <1>2, <2>1 DEF Completed, Records, Places
<1>4. TypeOK'
  BY <1>1, <1>2, <1>3 DEF TypeOK, counters, socketVars, queueVars, Records, Handlers
<1>5. /\ pool' = pool /\ members' = members /\ promote' = promote /\ registered' = registered
      /\ inUseIO' = inUseIO /\ inUse' = inUse /\ handlers' = handlers /\ disabled' = disabled
      /\ destroyed' = destroyed /\ workItems' = workItems /\ ready' = ready
      /\ Counting' = Counting
  BY <1>2 DEF counters, socketVars, queueVars, Counting
<1>6. /\ InIO(t) /\ ~InUse(t) /\ ~InIO(t)'
      /\ \A u \in Threads \ {t} : /\ InIO(u)' <=> InIO(u)
                                  /\ InUse(u)' <=> InUse(u)
  BY <1>2, <1>3 DEF Completed, InIO, InUse
<1>7. \A u \in Threads : u \in IOSet' => u \in IOSet /\ u # t
  BY <1>6 DEF IOSet
<1>8. \A u \in Threads : /\ thread'[u].pc # "unborn" <=> thread[u].pc # "unborn"
                         /\ thread'[u].leader <=> thread[u].leader
                         /\ thread'[u].handler = thread[u].handler
  BY <1>2, <1>3 DEF Completed
<1>9. \A u \in Threads : ThreadInv(u)'
  <2>1. ThreadInv(t)'
    <3>1. ThreadInv(t) /\ thread[t].handler # None /\ Exit # None
      BY <1>1, <1>2, ThreadPoolAssumption DEF ThreadInv
    <3> QED
      BY <1>2, <1>3, <1>5, <1>6, <3>1 DEF ThreadInv, Completed
  <2>2. ASSUME NEW u \in Threads \ {t} PROVE ThreadInv(u)'
    <3>1. ThreadInv(u) /\ thread'[u] = thread[u]
      BY <1>1, <1>3
    <3>2. IOSet = {} => IOSet' = {}
      BY <1>7 DEF IOSet
    <3> QED
      BY <1>5, <1>6, <3>1, <3>2 DEF ThreadInv
  <2> QED
    BY <2>1, <2>2
<1>10. LeaderInv'
  BY <1>1, <1>5, <1>8 DEF LeaderInv
<1>11. SizeInv'
  <2>1. Born' = Born
    BY <1>8 DEF Born
  <2> QED
    BY <1>1, <1>5, <2>1 DEF SizeInv
<1>12. CountInv' /\ QueueInv'
  BY <1>1, <1>5 DEF CountInv, QueueInv
<1>13. SerialInv'
  <2>1. \A u \in IOSet' : u \in IOSet /\ thread'[u].handler = thread[u].handler
    BY <1>7, <1>8 DEF IOSet
  <2> QED
    BY <1>1, <1>5, <2>1 DEF SerialInv
<1>14. SomeoneReads'
  <2>1. CASE thread[t].target = Exit
    BY <1>1, <1>5, <2>1 DEF ThreadInv, SomeoneReads
  <2>2. CASE thread[t].target # Exit
    <3>1. InUse(t)'
      BY <1>3, <2>2 DEF Completed, InUse
    <3> DEFINE Use == {u \in Threads : InUse(u)'}
    <3>2. t \in Use /\ IsFiniteSet(Use)
      BY <3>1, FiniteThreads
    <3> HIDE DEF Use
    <3>3. Cardinality(Use) # 0 /\ Cardinality(Use) \in Nat
      BY <3>2, FS_EmptySet, FS_CardinalityType
    <3>4. pool' = pool /\ pool.sizeMax = 1
      BY <1>1, <1>5 DEF TypeOK, Counting
    <3>5. ~ (Cardinality(Use) < pool'.sizeMax)
      BY <3>3, <3>4
    <3> QED
      BY <3>5 DEF SomeoneReads, Use
  <2> QED
    BY <2>1, <2>2
<1> QED
  BY <1>4, <1>9, <1>10, <1>11, <1>12, <1>13, <1>14 DEF IndInv, Safe

\* A new thread takes the next number.
LEMMA NextNumber ==
    ASSUME IndInv, Cardinality(members) < pool.sizeMax
    PROVE  \E n \in Nat : /\ Born = 1 .. n /\ NextThread = n + 1
                          /\ NextThread \in Threads \ Born
                          /\ n <= Cardinality(members) + MaxShrinks
<1>1. SizeInv /\ TypeOK
  BY DEF IndInv, Safe
<1>2. PICK n \in Nat : Born = 1 .. n /\ n <= Cardinality(members) + MaxShrinks
  BY <1>1 DEF SizeInv
<1>3. NextThread = n + 1
  <2>1. Cardinality(1 .. n) = n
    BY FS_Interval
  <2> QED
    BY <1>2, <2>1 DEF NextThread, Born
<1>4. Cardinality(members) \in Nat /\ pool.sizeMax \in Nat /\ pool.sizeMax <= SizeLimit
      /\ MaxShrinks \in Nat /\ SizeLimit \in Nat
  BY <1>1, FiniteThreads, FS_CardinalityType, ThreadPoolAssumption DEF TypeOK, SizeInv
<1>5. n + 1 \in Threads
  BY <1>2, <1>4 DEF Threads
<1> QED
  BY <1>2, <1>3, <1>5

\* With several threads the thread that leads gives leadership up, one that waits may be
\* notified, and another may be started.
LEMMA CompletedMoves ==
    ASSUME IndInv, NEW t \in Threads, IOCompleted(t), Counting
    PROVE  /\ thread' \in [Threads -> Records] /\ Completed(t) /\ ~thread'[t].leader
           /\ Stays(t)
           /\ \/ Grows(inUse + 1) /\ members' = members \cup {NextThread}
                 /\ NextThread \in Threads \ Born /\ thread'[NextThread].pc = "enter"
                 /\ \A u \in Threads \ {t, NextThread} :
                       thread[u].pc = "unborn" => thread'[u].pc = "unborn"
              \/ ~Grows(inUse + 1) /\ members' = members
                 /\ \A u \in Threads \ {t} : thread[u].pc = "unborn" => thread'[u].pc = "unborn"
<1> DEFINE io   == inUseIO - 1
           done == [thread EXCEPT ![t].ioCompleted = TRUE, ![t].target = None,
                                  ![t].pc = IF thread[t].target = Exit THEN "done"
                                            ELSE "dispatching"]
           given == [done EXCEPT ![t].leader = FALSE]
           more == Grows(inUse + 1)
           Is(r) == /\ r.pc = (IF thread[t].target = Exit THEN "done" ELSE "dispatching")
                    /\ r.ioCompleted = TRUE /\ r.target = None /\ r.handler = thread[t].handler
<1>1. /\ TypeOK /\ \A u \in Threads : ThreadInv(u)
      /\ thread \in [Threads -> Records]
  BY DEF IndInv, Safe, TypeOK, Records, Handlers
<1>2. thread[t].pc = "completing"
  BY DEF IOCompleted
<1>3. /\ done \in [Threads -> Records] /\ Is(done[t]) /\ done[t].leader = thread[t].leader
      /\ \A u \in Threads \ {t} : done[u] = thread[u]
  BY <1>1 DEF Records, Places
<1>4. PICK ths \in IF thread[t].leader THEN Promoted(done, t, handlers, io)
                   ELSE IF promote /\ (handlers # <<>> \/ io = 0)
                        THEN Notified(done) ELSE {done} :
         thread' = IF more THEN [ths EXCEPT ![NextThread].pc = "enter"] ELSE ths
  BY DEF IOCompleted
<1>5. members' = IF more THEN members \cup {NextThread} ELSE members
  BY DEF IOCompleted
<1> HIDE DEF done
<1>6. /\ given \in [Threads -> Records] /\ Is(given[t]) /\ given[t].leader = FALSE
      /\ \A u \in Threads \ {t} : given[u] = thread[u]
  BY <1>3 DEF Records
<1>7. thread[t].leader \in BOOLEAN
  BY <1>1 DEF Records
<1>8. \E d \in [Threads -> Records] :
         /\ Is(d[t]) /\ d[t].leader = FALSE /\ (ths = d \/ ths \in Notified(d))
         /\ \A u \in Threads \ {t} : d[u] = thread[u]
  <2>1. CASE thread[t].leader
    <3>1. ths = given \/ ths \in Notified(given)
      BY <1>4, <2>1 DEF Promoted
    <3> HIDE DEF given
    <3> QED
      BY <1>6, <3>1
  <2>2. CASE ~thread[t].leader
    <3>1. ths = done \/ ths \in Notified(done)
      BY <1>4, <2>2
    <3>2. done[t].leader = FALSE
      BY <1>3, <1>7, <2>2
    <3> QED
      BY <1>3, <3>1, <3>2
  <2> QED
    BY <2>1, <2>2
<1> HIDE DEF given, more, io
<1>9. /\ ths \in [Threads -> Records] /\ Is(ths[t]) /\ ths[t].leader = FALSE
      /\ \A u \in Threads \ {t} :
            \/ ths[u] = thread[u]
            \/ thread[u].pc = "waiting" /\ ths[u] = [thread[u] EXCEPT !.pc = "notified"]
  <2>1. PICK d \in [Threads -> Records] :
           /\ Is(d[t]) /\ d[t].leader = FALSE /\ (ths = d \/ ths \in Notified(d))
           /\ \A u \in Threads \ {t} : d[u] = thread[u]
    BY <1>8
  <2>2. CASE ths = d
    BY <2>1, <2>2
  <2>3. CASE ths \in Notified(d)
    <3>1. d[t].pc # "waiting"
      BY <2>1
    <3>2. /\ ths \in [Threads -> Records] /\ ths[t] = d[t]
          /\ \A u \in Threads :
                \/ ths[u] = d[u]
                \/ d[u].pc = "waiting" /\ ths[u] = [d[u] EXCEPT !.pc = "notified"]
      BY <2>3, <3>1, NotifiedStays
    <3> QED
      BY <2>1, <3>2
  <2> QED
    BY <2>1, <2>2, <2>3
<1>10. \A u \in Threads \ {t} : thread[u].pc = "unborn" => ths[u] = thread[u]
  BY <1>9
<1>11. CASE ~more
  <2>1. thread' = ths /\ members' = members
    BY <1>4, <1>5, <1>11
  <2>2. Stays(t) /\ Completed(t)
    BY <1>9, <2>1 DEF Stays, Completed
  <2> QED
    BY <1>9, <1>10, <1>11, <2>1, <2>2 DEF more
<1>12. CASE more
  <2>1. Cardinality(members) < pool.sizeMax
    BY <1>12 DEF more, Grows
  <2>2. NextThread \in Threads \ Born
    BY <2>1, NextNumber
  <2> DEFINE n == NextThread
  <2>3. n \in Threads /\ thread[n].pc = "unborn" /\ n # t /\ ths[n] = thread[n]
    BY <1>2, <1>10, <2>2 DEF Born
  <2>4. thread' = [ths EXCEPT ![n].pc = "enter"] /\ members' = members \cup {n}
    BY <1>4, <1>5, <1>12
  <2> HIDE DEF n
  <2>5. /\ thread' \in [Threads -> Records] /\ thread'[n] = [thread[n] EXCEPT !.pc = "enter"]
        /\ \A u \in Threads \ {n} : thread'[u] = ths[u]
    BY <1>9, <2>3, <2>4 DEF Records, Places
  <2>6. Stays(t)
    BY <1>9, <2>3, <2>4, <2>5 DEF Stays
  <2>7. Completed(t) /\ ~thread'[t].leader
    BY <1>9, <2>3, <2>5 DEF Completed
  <2>8. thread'[n].pc = "enter"
    <3>1. thread[n] \in Records
      BY <1>1, <2>3
    <3> QED
      BY <2>5, <3>1 DEF Records
  <2> QED
    BY <1>10, <1>12, <2>2, <2>4, <2>5, <2>6, <2>7, <2>8 DEF more, n
<1> QED
  BY <1>11, <1>12

LEMMA CompletedKeeps ==
    ASSUME IndInv, NEW t \in Threads, IOCompleted(t), Counting
    PROVE  IndInv'
<1> DEFINE more == Grows(inUse + 1)
<1>1. /\ \A u \in Threads : ThreadInv(u)
      /\ LeaderInv /\ SizeInv /\ CountInv /\ QueueInv /\ SerialInv /\ TypeOK
      /\ thread \in [Threads -> Records]
  BY DEF IndInv, Safe, TypeOK, Records, Handlers
<1>2. /\ thread[t].pc = "completing"
      /\ inUseIO' = inUseIO - 1 /\ inUse' = inUse + 1
      /\ disabled' = (IF ~destroyed /\ pool.serialize /\ thread[t].handler # WorkQueue
                      THEN disabled \cup {thread[t].handler} ELSE disabled)
      /\ promote' = (promote \/ thread[t].leader)
      /\ UNCHANGED <<pool, handlers, selected, wakeup, socketVars, queueVars, destroyed>>
  BY DEF IOCompleted
<1>3. thread' \in [Threads -> Records] /\ Completed(t) /\ ~thread'[t].leader /\ Stays(t)
  BY CompletedMoves
<1>4. \/ more /\ members' = members \cup {NextThread}
         /\ NextThread \in Threads \ Born /\ thread'[NextThread].pc = "enter"
         /\ \A u \in Threads \ {t, NextThread} :
               thread[u].pc = "unborn" => thread'[u].pc = "unborn"
      \/ ~more /\ members' = members
         /\ \A u \in Threads \ {t} : thread[u].pc = "unborn" => thread'[u].pc = "unborn"
  BY CompletedMoves
<1> HIDE DEF more
<1>5. \A u \in Threads \ {t} : Follows(u)
  BY <1>1, <1>3, Bystanders
<1>6. /\ pool' = pool /\ registered' = registered /\ handlers' = handlers
      /\ destroyed' = destroyed /\ workItems' = workItems /\ ready' = ready
      /\ Counting' = Counting
  BY <1>2 DEF socketVars, queueVars, Counting
<1>7. /\ InIO(t) /\ ~InUse(t) /\ ~InIO(t)' /\ t \in members /\ t \in members'
      /\ thread[t].handler \in Handlers /\ ~thread[t].ioCompleted
      /\ thread'[t].pc \in {"done", "dispatching"}
      /\ thread'[t].pc = "dispatching" <=> InUse(t)'
      /\ thread'[t].pc = "done" => destroyed
  <2>1. ThreadInv(t) /\ thread[t] \in Records
    BY <1>1
  <2>2. InIO(t) /\ ~InUse(t)
    BY <1>2 DEF InIO, InUse
  <2>3. thread[t].handler \in Handlers /\ ~thread[t].ioCompleted /\ t \in members
    BY <1>2, <2>1 DEF ThreadInv, Records
  <2>4. thread'[t].pc \in {"done", "dispatching"}
    BY <1>3 DEF Completed
  <2>5. ~InIO(t)'
    BY <2>4 DEF InIO
  <2>6. thread'[t].pc = "dispatching" <=> InUse(t)'
    BY <2>4 DEF InUse
  <2>7. thread'[t].pc = "done" => destroyed
    BY <1>3, <2>1 DEF Completed, ThreadInv
  <2> QED
    BY <1>4, <2>2, <2>3, <2>4, <2>5, <2>6, <2>7
\* A thread that is started was not there before.
<1>8. \A u \in Threads \ {t} : /\ thread'[u].pc = "done" <=> thread[u].pc = "done"
                               /\ u \in members => u \in members'
                               /\ u \in members' => u \in members \/ thread'[u].pc = "enter"
  <2>1. \A u \in Threads \ {t} : thread'[u].pc = "done" <=> thread[u].pc = "done"
    BY <1>5 DEF Follows
  <2> QED
    BY <1>4, <2>1
<1>9. IOSet' = IOSet \ {t} /\ t \in IOSet
  <2>1. \A u \in Threads : u \in IOSet' <=> u \in IOSet /\ u # t
    BY <1>5, <1>7 DEF Follows, IOSet
  <2> QED
    BY <1>7, <2>1 DEF IOSet
<1>10. UseSet' = UseSet \cup {t} /\ t \notin UseSet
  <2>1. \A u \in Threads \ {t} : u \in UseSet' <=> u \in UseSet
    BY <1>5, <1>8 DEF Follows, UseSet
  <2>2. t \in UseSet' /\ t \notin UseSet
    BY <1>2, <1>7 DEF UseSet
  <2>3. UseSet' \subseteq Threads /\ UseSet \subseteq Threads
    BY DEF UseSet
  <2> QED
    BY <2>1, <2>2, <2>3
<1>11. CountInv' /\ inUseIO' \in Nat /\ inUse' \in Nat
  <2>1. inUseIO = Cardinality(IOSet) /\ inUse = Cardinality(UseSet)
    BY <1>1 DEF CountInv
  <2>2. Cardinality(IOSet') = inUseIO - 1 /\ Cardinality(IOSet') \in Nat
    BY <1>9, <2>1, FiniteThreads, FS_RemoveElement, FS_CardinalityType
  <2>3. Cardinality(UseSet') = inUse + 1 /\ Cardinality(UseSet') \in Nat
    BY <1>10, <2>1, FiniteThreads, FS_AddElement, FS_CardinalityType
  <2> QED
    BY <1>2, <1>6, <2>2, <2>3 DEF CountInv
<1>12. members' \subseteq Threads /\ disabled' \subseteq Connections
  BY <1>1, <1>2, <1>4, <1>7 DEF TypeOK, Handlers
<1>13. TypeOK'
  <2>1. promote' \in BOOLEAN
    BY <1>1, <1>2 DEF TypeOK, Records
  <2> QED
    BY <1>1, <1>2, <1>3, <1>11, <1>12, <2>1
       DEF TypeOK, socketVars, queueVars, Records, Handlers
<1>14. \A u \in Threads : ThreadInv(u)'
  <2>1. ThreadInv(t)'
    BY <1>1, <1>3, <1>6, <1>7, ThreadPoolAssumption DEF ThreadInv, Completed, Handlers
  <2>2. ASSUME NEW u \in Threads \ {t} PROVE ThreadInv(u)'
    <3>1. ThreadInv(u) /\ Follows(u)
      BY <1>1, <1>5
    <3>2. thread'[u].pc \notin {"select", "selected"}
      BY <1>9, <3>1 DEF ThreadInv, Follows
    <3>3. CASE thread'[u].pc = thread[u].pc
      <4>1. thread'[u].pc = "unborn" => u \notin members'
        BY <1>8, <3>1, <3>3 DEF ThreadInv
      <4>2. thread'[u].pc = "done" /\ u \in members' => u \in members
        BY <1>8
      <4>3. thread'[u].pc \notin {"unborn", "done"} => u \in members'
        BY <1>8, <3>1, <3>3 DEF ThreadInv
      <4>4. thread[u].leader => u \in members'
        BY <1>8, <3>1 DEF ThreadInv
      <4> QED
        BY <1>6, <3>1, <3>2, <3>3, <4>1, <4>2, <4>3, <4>4 DEF ThreadInv, Follows
    <3>4. CASE thread[u].pc = "waiting" /\ thread'[u].pc = "notified"
      <4>1. u \in members'
        BY <1>8, <3>1, <3>4 DEF ThreadInv
      <4> QED
        BY <1>6, <3>1, <3>4, <4>1 DEF ThreadInv, Follows, InIO
    <3>5. CASE thread[u].pc = "unborn" /\ thread'[u].pc = "enter" /\ u \in members'
      BY <1>6, <3>1, <3>5 DEF ThreadInv, Follows, InIO
    <3> QED
      BY <3>1, <3>3, <3>4, <3>5 DEF Follows
  <2> QED
    BY <2>1, <2>2
<1>15. LeaderInv'
  <2>1. \A u \in Threads \ {t} : thread'[u].leader = thread[u].leader
    BY <1>5 DEF Follows
  <2> QED
    BY <1>1, <1>2, <1>3, <2>1 DEF LeaderInv
<1>16. SizeInv'
  <2>0. /\ pool.size <= pool.sizeMax /\ pool.sizeMax <= SizeLimit /\ pool.sizeMax \in Nat
        /\ Cardinality(members) <= pool.sizeMax
    BY <1>1 DEF SizeInv, TypeOK
  <2>1. IsFiniteSet(members) /\ Cardinality(members) \in Nat
    BY <1>1, FiniteThreads, FS_CardinalityType DEF TypeOK
  <2>2. CASE /\ more /\ members' = members \cup {NextThread}
             /\ NextThread \in Threads \ Born /\ thread'[NextThread].pc = "enter"
             /\ \A u \in Threads \ {t, NextThread} :
                   thread[u].pc = "unborn" => thread'[u].pc = "unborn"
    <3>1. Cardinality(members) < pool.sizeMax
      BY <2>2 DEF more, Grows
    <3>2. PICK n \in Nat : /\ Born = 1 .. n /\ NextThread = n + 1
                           /\ n <= Cardinality(members) + MaxShrinks
      BY <3>1, NextNumber
    <3>3. NextThread \notin members
      BY <1>1, <2>2 DEF ThreadInv, Born
    <3>4. Cardinality(members') = Cardinality(members) + 1
      BY <2>1, <2>2, <3>3, FS_AddElement
    <3>5. Born' = Born \cup {NextThread}
      <4>1. \A u \in Threads \ {t, NextThread} :
               thread'[u].pc # "unborn" <=> thread[u].pc # "unborn"
        BY <1>5, <2>2 DEF Follows
      <4>2. thread'[t].pc # "unborn" /\ thread[t].pc # "unborn" /\ thread'[NextThread].pc # "unborn"
        BY <1>2, <1>7, <2>2
      <4> QED
        BY <2>2, <4>1, <4>2 DEF Born
    <3>6. 1 .. n \cup {n + 1} = 1 .. n + 1
      OBVIOUS
    <3>7. Born' = 1 .. n + 1 /\ n + 1 \in Nat
      BY <3>2, <3>5, <3>6
    <3>8. n + 1 <= Cardinality(members') + MaxShrinks
      BY <2>1, <3>2, <3>4, ThreadPoolAssumption
    <3>9. Cardinality(members') <= pool.sizeMax
      BY <2>0, <2>1, <3>1, <3>4
    <3> QED
      BY <1>6, <2>0, <3>7, <3>8, <3>9 DEF SizeInv
  <2>3. CASE /\ members' = members
             /\ \A u \in Threads \ {t} : thread[u].pc = "unborn" => thread'[u].pc = "unborn"
    <3>1. \A u \in Threads : thread'[u].pc # "unborn" <=> thread[u].pc # "unborn"
      BY <1>2, <1>5, <1>7, <2>3 DEF Follows
    <3>2. Born' = Born
      BY <3>1 DEF Born
    <3> QED
      BY <1>1, <1>6, <2>3, <3>2 DEF SizeInv
  <2> QED
    BY <1>4, <2>2, <2>3
<1>17. QueueInv'
  BY <1>1, <1>6 DEF QueueInv
<1>18. SerialInv'
  <2>1. \A u \in Threads : /\ thread'[u].handler = thread[u].handler
                           /\ Busy(u)' => Busy(u)
    BY <1>3, <1>5, <1>7 DEF Completed, Follows, Busy
  <2>2. \A u, v \in IOSet' : thread'[u].handler = thread'[v].handler => u = v
    <3>1. \A u \in IOSet' : u \in IOSet /\ u \in Threads
      BY <1>9 DEF IOSet
    <3> QED
      BY <1>1, <2>1, <3>1 DEF SerialInv
  <2>3. ASSUME pool.serialize, NEW u \in Threads, NEW v \in Threads,
               Busy(u)', Busy(v)', thread'[u].handler = thread'[v].handler,
               thread'[u].handler \in Connections
        PROVE  u = v
    BY <1>1, <2>1, <2>3 DEF SerialInv
  <2>4. ASSUME pool.serialize, NEW u \in Threads, InUse(u)', thread'[u].handler \in Connections
        PROVE  thread'[u].handler \notin registered \ disabled'
    <3>1. CASE u = t
      <4>1. CASE destroyed
        BY <1>1, <4>1 DEF QueueInv
      <4>2. CASE ~destroyed
        BY <1>2, <2>1, <2>4, <3>1, <4>2, ThreadPoolAssumption
      <4> QED
        BY <4>1, <4>2
    <3>2. CASE u # t
      <4>1. InUse(u) /\ thread[u].handler \in Connections
        BY <1>5, <2>1, <2>4, <3>2 DEF Follows
      <4>2. thread[u].handler \notin registered \ disabled
        BY <1>1, <2>4, <4>1 DEF SerialInv
      <4>3. disabled \subseteq disabled'
        BY <1>2
      <4> QED
        BY <2>1, <4>2, <4>3
    <3> QED
      BY <3>1, <3>2
  <2> QED
    BY <1>6, <2>2, <2>3, <2>4 DEF SerialInv
<1>19. SomeoneReads'
  <2> DEFINE Use == {u \in Threads : InUse(u)'}
  <2>1. SUFFICES ASSUME ~destroyed, Cardinality(Use) < pool.sizeMax
                 PROVE  \E u \in members' : ~InUse(u)'
    BY <1>6 DEF SomeoneReads
  <2>2. Use = UseSet'
    <3>1. \A u \in Threads : ~ (thread'[u].pc = "done" /\ u \in members')
      BY <1>6, <1>14, <2>1 DEF ThreadInv
    <3> QED
      BY <3>1 DEF UseSet
  <2>3. Cardinality(Use) = inUse + 1
    BY <1>2, <1>6, <1>11, <2>2 DEF CountInv
  <2>4. Use \subseteq members'
    BY <1>14 DEF ThreadInv, InUse
  <2>5. CASE more
    <3>1. NextThread \in members' /\ thread'[NextThread].pc = "enter"
      BY <1>4, <2>5
    <3> QED
      BY <3>1 DEF InUse
  <2>6. CASE ~more
    <3>1. members' = members /\ Cardinality(Use) # Cardinality(members)
      BY <1>4, <2>1, <2>3, <2>6 DEF more, Grows
    <3>2. Use # members'
      BY <3>1
    <3> QED
      BY <1>12, <2>4, <3>2
  <2> QED
    BY <2>5, <2>6
<1> QED
  BY <1>11, <1>13, <1>14, <1>15, <1>16, <1>17, <1>18, <1>19 DEF IndInv, Safe

LEMMA IOCompletedKeeps ==
    ASSUME IndInv, NEW t \in Threads, IOCompleted(t)
    PROVE  IndInv'
BY AloneKeeps, CompletedKeeps

-----------------------------------------------------------------------------
(* The inductive invariant holds.                                          *)

LEMMA InitHolds == Init => IndInv
<1> SUFFICES ASSUME Init PROVE IndInv
  OBVIOUS
<1>1. PICK c \in Configurations : pool = Configured(c)
  BY DEF Init
<1>2. /\ pool \in [size : Nat \ {0}, sizeMax : Nat \ {0}, sizeIO : Nat \ {0},
                   serialize : BOOLEAN]
      /\ pool.size <= pool.sizeMax /\ pool.sizeMax <= SizeLimit
  <2>1. /\ c.Size \in Int /\ c.SizeMax \in Int /\ c.nProcessors \in Nat \ {0}
        /\ c.Serialize \in BOOLEAN /\ pool.sizeMax <= SizeLimit
    BY <1>1, ThreadPoolAssumption
  <2> DEFINE size == Larger(c.Size, 1)
             max  == Larger(IF c.SizeMax = -1 THEN c.nProcessors ELSE c.SizeMax, size)
             io   == Smaller(max, c.nProcessors)
  <2>2. size \in Nat \ {0}
    BY <2>1 DEF Larger
  <2>3. pool = [size |-> size, sizeMax |-> max, sizeIO |-> io, serialize |-> c.Serialize]
    BY <1>1 DEF Configured
  <2> HIDE DEF size
  <2>4. max \in Nat \ {0} /\ size <= max
    BY <2>1, <2>2 DEF Larger
  <2> HIDE DEF max
  <2>5. io \in Nat \ {0}
    BY <2>1, <2>4 DEF Smaller
  <2> HIDE DEF io
  <2> QED
    BY <2>1, <2>2, <2>3, <2>4, <2>5
<1>3. /\ thread = [t \in Threads |-> IF t <= pool.size THEN [Absent EXCEPT !.pc = "enter"]
                                     ELSE Absent]
      /\ members = 1 .. pool.size /\ promote = TRUE /\ inUseIO = 0 /\ inUse = 0
      /\ handlers = <<>> /\ selected = {} /\ wakeup = FALSE /\ registered = Connections
      /\ disabled = {} /\ data = [h \in Connections |-> 0] /\ arrived = 0
      /\ workItems = <<>> /\ ready = FALSE /\ items = 0 /\ destroyed = FALSE
  BY DEF Init
<1>4. \A t \in Threads : /\ thread[t] \in Records
                         /\ IsAt(thread[t], IF t <= pool.size THEN "enter" ELSE "unborn",
                                 None, FALSE)
  <2>1. /\ Absent \in Records /\ IsAt(Absent, "unborn", None, FALSE)
        /\ [Absent EXCEPT !.pc = "enter"] \in Records
        /\ IsAt([Absent EXCEPT !.pc = "enter"], "enter", None, FALSE)
    BY DEF Absent, Records, Places, IsAt
  <2> QED
    BY <1>3, <2>1
<1>5. members \subseteq Threads
  BY <1>2, <1>3, ThreadPoolAssumption DEF Threads
<1>6. \A t \in Threads : t \in members <=> t <= pool.size
  BY <1>2, <1>3, FiniteThreads DEF Threads
<1>7. TypeOK
  <2>1. thread \in [Threads -> Records]
    BY <1>3, <1>4
  <2>2. /\ handlers \in Seq(Connections \cup {WorkQueue})
        /\ workItems \in Seq([kind : {"join", "dispatch", "finished"},
                              of : Threads \cup Connections \cup {None}])
        /\ data \in [Connections -> Nat] /\ arrived \in 0 .. MaxRequests
        /\ items \in 0 .. MaxItems
    BY <1>3, ThreadPoolAssumption
  <2> QED
    BY <1>2, <1>3, <1>5, <2>1, <2>2 DEF TypeOK, Records, Handlers
<1>8. \A t \in Threads : /\ thread[t].pc \in {"enter", "unborn"}
                         /\ thread[t].pc = "enter" <=> t \in members
                         /\ ~thread[t].leader /\ ~thread[t].ioCompleted
                         /\ thread[t].target = None /\ thread[t].handler = None
                         /\ ~InIO(t) /\ ~InUse(t)
  BY <1>4, <1>6 DEF IsAt, InIO, InUse
<1>9. \A t \in Threads : ThreadInv(t)
  BY <1>8, ThreadPoolAssumption DEF ThreadInv
<1>10. LeaderInv
  BY <1>3, <1>8 DEF LeaderInv
<1>11. SizeInv
  <2>1. Born = members
    BY <1>5, <1>8 DEF Born
  <2>2. Cardinality(members) = pool.size
    BY <1>2, <1>3, FS_Interval
  <2>3. pool.size <= Cardinality(members) + MaxShrinks /\ pool.size \in Nat
    BY <1>2, <2>2, ThreadPoolAssumption
  <2>4. Born = 1 .. pool.size
    BY <1>3, <2>1
  <2> QED
    BY <1>2, <2>2, <2>3, <2>4 DEF SizeInv
<1>12. IOSet = {} /\ UseSet = {}
  BY <1>8 DEF IOSet, UseSet
<1>13. CountInv
  BY <1>3, <1>12, FS_EmptySet DEF CountInv
<1>14. QueueInv
  BY <1>3 DEF QueueInv, IsInjective, ToSet
<1>15. SerialInv
  BY <1>8, <1>12 DEF SerialInv, Busy
<1>16. SomeoneReads
  <2>1. 1 \in members /\ 1 \in Threads
    BY <1>2, <1>3, <1>5
  <2> QED
    BY <1>8, <2>1 DEF SomeoneReads
<1> QED
  BY <1>7, <1>9, <1>10, <1>11, <1>13, <1>14, <1>15, <1>16 DEF IndInv, Safe

LEMMA NextKeeps == IndInv /\ [Next]_vars => IndInv'
<1> SUFFICES ASSUME IndInv, [Next]_vars PROVE IndInv'
  OBVIOUS
<1>1. ASSUME NEW t \in Threads, Run(t) PROVE IndInv'
  BY <1>1, EnterKeeps, SelectKeeps, FinishSelectKeeps, ReadKeeps, WorkItemKeeps, JoinKeeps,
     IOCompletedKeeps, ReturnedKeeps DEF Run
<1>2. ASSUME NEW t \in Threads, TimedOut(t) PROVE IndInv'
  BY <1>2, TimedOutKeeps
<1>3. ASSUME NEW t \in Threads, EndDispatch(t) PROVE IndInv'
  BY <1>3, EndDispatchKeeps
<1>4. ASSUME NEW h \in Connections, Arrive(h) \/ Finish(h) PROVE IndInv'
  BY <1>4, ArriveKeeps, FinishKeeps
<1>5. CASE Dispatch
  BY <1>5, DispatchKeeps
<1>6. CASE Destroy
  BY <1>6, DestroyKeeps
<1>7. CASE UNCHANGED vars
  <2>1. TypeOK /\ QueueInv
    BY DEF IndInv, Safe
  <2>2. TypeOK'
    BY <1>7, <2>1 DEF TypeOK, vars, counters, socketVars, queueVars
  <2> QED
    BY <1>7, <2>1, <2>2, OutsideKeeps DEF vars, counters, socketVars, queueVars, QueueInv
<1> QED
  BY <1>1, <1>2, <1>3, <1>4, <1>5, <1>6, <1>7 DEF Next, Joined

LEMMA Inductive == Spec => []IndInv
BY InitHolds, NextKeeps, PTL DEF Spec

-----------------------------------------------------------------------------
(* The theorems.                                                           *)

\* A set whose members are all the same.
LEMMA AtMostOne ==
    ASSUME NEW S, \A x, y \in S : x = y
    PROVE  Cardinality(S) <= 1
<1>1. CASE S = {}
  BY <1>1, FS_EmptySet
<1>2. CASE S # {}
  <2>1. PICK x \in S : TRUE
    BY <1>2
  <2>2. S = {x}
    BY <2>1
  <2> QED
    BY <2>2, FS_Singleton
<1> QED
  BY <1>1, <1>2

\* Types are right, and the work queue is ready for the selector exactly while it has
\* an item or the pool is destroyed.
THEOREM TypeCorrect == Spec => []TypeOK
<1>1. IndInv => TypeOK
  BY DEF IndInv
<1> QED
  BY <1>1, Inductive, PTL

\* _inUseIO and _inUse are always what they stand for, through every way in which a
\* thread takes and gives up leadership: run() decides by them who waits, leads and
\* leaves, and ioCompleted whether to start another thread.
THEOREM CountsAreExact == Spec => []CountersExact
<1>1. IndInv => CountersExact
  BY DEF IndInv, Safe, CountInv, CountersExact, IOSet, UseSet
<1> QED
  BY <1>1, Inductive, PTL

\* Two threads never lead, so that nobody uses the selector and the handlers it has
\* returned at the same time; and _promote is set exactly while nobody leads.
THEOREM LeaderExists == Spec => []OneLeader
<1>1. IndInv => OneLeader
  <2> SUFFICES ASSUME LeaderInv PROVE OneLeader
    BY DEF IndInv, Safe
  <2>1. \A t, u \in Leaders : t = u
    BY DEF LeaderInv, Leaders
  <2>2. Cardinality(Leaders) <= 1
    BY <2>1, AtMostOne
  <2>3. promote <=> Leaders = {}
    BY DEF LeaderInv, Leaders
  <2> QED
    BY <2>2, <2>3 DEF OneLeader
<1> QED
  BY <1>1, Inductive, PTL

\* However threads leave and are started, no more than SizeMax run user code, and with
\* Serialize no two for the same connection.
THEOREM DispatchesLimited == Spec => []DispatchLimit
<1>1. IndInv => DispatchLimit
  <2> SUFFICES ASSUME IndInv PROVE DispatchLimit
    OBVIOUS
  <2>1. /\ \A t \in Threads : ThreadInv(t)
        /\ SizeInv /\ SerialInv /\ TypeOK
    BY DEF IndInv, Safe
  <2> DEFINE Running == {t \in Threads : thread[t].pc = "dispatching"}
  <2>2. Cardinality(members) <= pool.sizeMax
    BY <2>1 DEF SizeInv
  <2>3. Cardinality(Running) <= pool.sizeMax
    <3>1. Running \subseteq members /\ IsFiniteSet(members)
      BY <2>1, FiniteThreads DEF ThreadInv, TypeOK
    <3> HIDE DEF Running
    <3>2. /\ Cardinality(Running) <= Cardinality(members) /\ IsFiniteSet(Running)
      BY <3>1, FS_Subset
    <3>3. Cardinality(Running) \in Nat /\ Cardinality(members) \in Nat /\ pool.sizeMax \in Nat
      BY <2>1, <3>1, <3>2, FS_CardinalityType DEF TypeOK
    <3> QED
      BY <2>2, <3>2, <3>3
  <2>4. ASSUME pool.serialize, Counting, NEW h \in Connections
        PROVE  Cardinality({t \in Threads : thread[t].pc = "dispatching"
                                               /\ thread[t].handler = h}) <= 1
    <3> DEFINE S == {t \in Threads : thread[t].pc = "dispatching" /\ thread[t].handler = h}
    <3>1. \A t \in S : t \in Threads /\ Busy(t) /\ thread[t].handler = h
      BY DEF Busy, InUse
    <3> HIDE DEF S
    <3>2. \A t, u \in S : t = u
      BY <2>1, <2>4, <3>1 DEF SerialInv
    <3>3. Cardinality(S) <= 1
      BY <3>2, AtMostOne
    <3> QED
      BY <3>3 DEF S
  <2> QED
    BY <2>2, <2>3, <2>4 DEF DispatchLimit
<1> QED
  BY <1>1, Inductive, PTL

\* While fewer than SizeMax threads are in use there is a thread that is not: ioCompleted
\* starts one in time, and the last one never leaves for being idle.
THEOREM AThreadReads == Spec => []SomeoneReads
<1>1. IndInv => SomeoneReads
  BY DEF IndInv, Safe
<1> QED
  BY <1>1, Inductive, PTL

================================================================================
