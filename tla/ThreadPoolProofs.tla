-------------------------- MODULE ThreadPoolProofs --------------------------
(***************************************************************************)
(* Proofs about ThreadPool for every number of workers and every set of    *)
(* job nodes: its invariants, and that it implements FifoPool.             *)
(***************************************************************************)
EXTENDS ThreadPool, FiniteSetTheorems, TLAPS

(* The conjuncts that are inductive together: types, the list mutex, the    *)
(* phases of the main thread, and who owns which node of the job list.      *)
Base == TypeOK /\ MutualExclusion /\ MainPhase /\ DrainAlone /\ ListShape /\ SingleOwner

(* What Append and Tail do to the length and the elements of a sequence.   *)
LEMMA AppendFacts ==
  ASSUME NEW S, NEW s \in Seq(S), NEW e \in S
  PROVE  /\ Append(s, e) \in Seq(S)
         /\ Len(Append(s, e)) = Len(s) + 1
         /\ \A k \in 1..Len(s) : Append(s, e)[k] = s[k]
         /\ Append(s, e)[Len(s) + 1] = e
         /\ Append(s, e) # <<>>
OBVIOUS

(* What Tail does: unlinking the head node shifts the others by one.        *)
LEMMA TailFacts ==
  ASSUME NEW S, NEW s \in Seq(S), Len(s) > 0
  PROVE  /\ Tail(s) \in Seq(S)
         /\ Len(Tail(s)) = Len(s) - 1
         /\ \A k \in 1..(Len(s) - 1) : Tail(s)[k] = s[k + 1]
         /\ s[1] \in S
         /\ s # <<>>
OBVIOUS

(* Linking a node that is not in the list keeps the list free of repeats.   *)
LEMMA AppendNoRepeats ==
  ASSUME NEW S, NEW s \in Seq(S), NEW e \in S, NoRepeats(s), \A k \in 1..Len(s) : s[k] # e
  PROVE  NoRepeats(Append(s, e))
BY AppendFacts DEF NoRepeats

(* Unlinking the head node keeps the list free of repeats.                  *)
LEMMA TailNoRepeats ==
  ASSUME NEW S, NEW s \in Seq(S), Len(s) > 0, NoRepeats(s)
  PROVE  NoRepeats(Tail(s))
BY TailFacts DEF NoRepeats

(* The pointers f lead from each element of s to the next, and to null.    *)
Chained(f, s, null) == \A k \in 1..Len(s) : f[s[k]] = IF k = Len(s) THEN null ELSE s[k + 1]

(* e is not in s.                                                          *)
Absent(s, e) == \A k \in 1..Len(s) : s[k] # e

(* Appending a new last node to a chain of pointers.                       *)
LEMMA LinkLast ==
  ASSUME NEW S, NEW T, NEW s \in Seq(S), NEW e \in S, NEW null, NEW f \in [S -> T],
         Len(s) > 0, NoRepeats(s), Absent(s, e), Chained(f, s, null)
  PROVE  Chained([f EXCEPT ![e] = null, ![s[Len(s)]] = e], Append(s, e), null)
<1> USE DEF Absent, Chained
<1> DEFINE t == Append(s, e)
<1> DEFINE g == [f EXCEPT ![e] = null, ![s[Len(s)]] = e]
<1>1. Len(t) = Len(s) + 1 /\ t[Len(s) + 1] = e /\ \A k \in 1..Len(s) : t[k] = s[k] /\ s[k] \in S
  BY AppendFacts
<1>2. g[e] = null /\ g[s[Len(s)]] = e
  BY <1>1
<1>3. \A x \in S : x # e /\ x # s[Len(s)] => g[x] = f[x]
  OBVIOUS
<1> SUFFICES ASSUME NEW k \in 1..Len(t) PROVE g[t[k]] = IF k = Len(t) THEN null ELSE t[k + 1]
  OBVIOUS
<1> HIDE DEF t, g
<1>4. CASE k = Len(s) + 1
  BY <1>1, <1>2, <1>4
<1>5. CASE k = Len(s)
  BY <1>1, <1>2, <1>5
<1>6. CASE k \in 1..(Len(s) - 1)
  <2>1. s[k] # e /\ s[k] # s[Len(s)] /\ s[k] \in S
    BY <1>1, <1>6 DEF NoRepeats
  <2>2. f[s[k]] = s[k + 1]
    BY <1>6
  <2>3. t[k] = s[k] /\ t[k + 1] = s[k + 1]
    BY <1>1, <1>6
  <2> QED
    BY <1>1, <1>3, <1>6, <2>1, <2>2, <2>3
<1> QED
  BY <1>1, <1>4, <1>5, <1>6

(* The length of a list, and that only the empty one has length zero.       *)
LEMMA LenFacts ==
  ASSUME NEW S, NEW s \in Seq(S)
  PROVE  /\ Len(s) \in Nat
         /\ s = <<>> <=> Len(s) = 0
         /\ \A k \in 1..Len(s) : s[k] \in S
OBVIOUS

(* The nodes that are queued after an append and after a removal.          *)
LEMMA AppendQueued ==
  ASSUME NEW n \in Nodes, NEW m \in Nodes, fifo \in Seq(Nodes), fifo' = Append(fifo, m)
  PROVE  Queued(n)' <=> Queued(n) \/ n = m
<1>1. Len(fifo') = Len(fifo) + 1 /\ fifo'[Len(fifo) + 1] = m /\ \A k \in 1..Len(fifo) : fifo'[k] = fifo[k]
  BY AppendFacts
<1> QED
  BY <1>1, LenFacts DEF Queued

(* After remove_first exactly the old head node has left the list.          *)
LEMMA TailQueued ==
  ASSUME NEW n \in Nodes, fifo \in Seq(Nodes), Len(fifo) > 0, NoRepeats(fifo), fifo' = Tail(fifo)
  PROVE  /\ Queued(n)' <=> Queued(n) /\ n # fifo[1]
         /\ n = fifo[1] => Queued(n)
<1>1. /\ Len(fifo') = Len(fifo) - 1 /\ Len(fifo) \in Nat
      /\ \A k \in 1..(Len(fifo) - 1) : fifo'[k] = fifo[k + 1]
  BY TailFacts, LenFacts
<1>2. ASSUME Queued(n), n # fifo[1] PROVE Queued(n)'
  <2>1. PICK k \in 1..Len(fifo) : fifo[k] = n
    BY <1>2 DEF Queued
  <2>2. k - 1 \in 1..Len(fifo') /\ fifo'[k - 1] = n
    BY <1>1, <1>2, <2>1
  <2> QED
    BY <2>2 DEF Queued
<1>3. ASSUME Queued(n)' PROVE Queued(n) /\ n # fifo[1]
  <2>1. PICK k \in 1..(Len(fifo) - 1) : fifo[k + 1] = n
    BY <1>1, <1>3 DEF Queued
  <2>2. k + 1 \in 1..Len(fifo) /\ 1 \in 1..Len(fifo) /\ k + 1 # 1
    BY <1>1, <2>1
  <2> QED
    BY <2>1, <2>2 DEF Queued, NoRepeats
<1>4. n = fifo[1] => Queued(n)
  BY <1>1 DEF Queued
<1> QED
  BY <1>2, <1>3, <1>4

(* The initial state satisfies every part of the inductive invariant.      *)
LEMMA InitBase == Init => Base
<1> SUFFICES ASSUME Init PROVE Base
  OBVIOUS
<1> USE ThreadsAssumption, PointersAssumption
<1>1. TypeOK
  BY DEF Init, TypeOK, QueueTypeOK, threadpool_job_queue_init, Pointer, MainPC, WorkerPC, Workers, MainThread
<1>2. MutualExclusion /\ MainPhase /\ DrainAlone
  BY DEF Init, MutualExclusion, MainPhase, DrainAlone, Workers, MainThread, StoppedPC
<1>3. ListShape
  BY DEF Init, threadpool_job_queue_init, ListShape, Represented, CountsNodes, NoRepeats, Linked, BackLinked, EndsAt, Workers
<1>4. SingleOwner
  <2>1. \A n \in Nodes : ~Queued(n)
    <3>1. 1..Len(fifo) = {}
      BY DEF Init, threadpool_job_queue_init
    <3> QED
      BY <3>1, Zenon DEF Queued
  <2>2. \A n \in Nodes : heap[n] = "free" /\ ~BeingAdded(n) /\ \A w \in Workers : ~Holds(w, n)
    BY DEF Init, BeingAdded, Holds
  <2> QED
    BY <2>1, <2>2 DEF SingleOwner
<1> QED
  BY <1>1, <1>2, <1>3, <1>4 DEF Base

(* No step of any thread leaves the types: the list operations only follow *)
(* pointers to nodes because ListShape holds before them.                  *)
LEMMA TypeStep == Base /\ [Next]_vars => TypeOK'
<1> SUFFICES ASSUME Base, [Next]_vars PROVE TypeOK'
  OBVIOUS
<1> USE ThreadsAssumption, PointersAssumption DEF Base
<1> USE DEF TypeOK, QueueTypeOK, Pointer, Workers, MainThread, mainVars, workerVars, queueVars
<1>1. CASE CreateThread
  BY <1>1 DEF CreateThread, NextIndex, MainPC, WorkerPC
<1>2. ASSUME NEW n \in Nodes, AllocNode(n) PROVE TypeOK'
  BY <1>2 DEF AllocNode, MainPC
<1>3. CASE LockForAdd
  BY <1>3 DEF LockForAdd, MainPC
<1>4. CASE LinkNode
  <2>1. node \in Nodes
    BY <1>4 DEF LinkNode, MainPhase
  <2>2. fifo' \in Seq(Nodes)
    BY <1>4, <2>1, AppendFacts DEF LinkNode, threadpool_job_queue_add
  <2>3. head' \in Pointer /\ tail' \in Pointer
    BY <1>4, <2>1 DEF LinkNode, threadpool_job_queue_add
  <2>4. next' \in [Nodes -> Pointer \cup {Junk}]
    BY <1>4, <2>1 DEF LinkNode, threadpool_job_queue_add
  <2>5. prev' \in [Nodes -> Pointer \cup {Junk}]
    BY <1>4, <2>1 DEF LinkNode, threadpool_job_queue_add
  <2> QED
    BY <1>4, <2>2, <2>3, <2>4, <2>5 DEF LinkNode, threadpool_job_queue_add, MainPC
<1>5. CASE CountAndPost
  BY <1>5 DEF CountAndPost, MainPC
<1>6. CASE UnlockAfterAdd
  BY <1>6 DEF UnlockAfterAdd, MainPC
<1>7. CASE StopPool
  BY <1>7 DEF StopPool, MainPC
<1>8. CASE PostForExit
  BY <1>8 DEF PostForExit, NextIndex, MainPC
<1>9. CASE Join
  BY <1>9 DEF Join, NextIndex, MainPC
<1>10. CASE threadpool_job_queue_empty
  <2>1. CASE job_num = 0
    BY <1>10, <2>1 DEF threadpool_job_queue_empty, MainPC
  <2>2. CASE job_num # 0
    <3>1. Len(fifo) = job_num /\ Linked(fifo, cur)
      BY <1>10 DEF threadpool_job_queue_empty, ListShape, Represented, CountsNodes, DrainAlone
    <3>2. cur = fifo[1] /\ fifo[1] \in Nodes /\ Tail(fifo) \in Seq(Nodes)
      BY <2>2, <3>1, TailFacts DEF Linked
    <3>3. /\ job_num' = job_num - 1
          /\ fifo' = Tail(fifo)
          /\ cur' = next[cur]
      BY <1>10, <2>2 DEF threadpool_job_queue_empty
    <3>5. job_num' \in Nat /\ fifo' \in Seq(Nodes) /\ cur' \in Pointer \cup {Junk}
      BY <2>2, <3>2, <3>3
    <3>4. heap' \in [Nodes -> {"free", "live"}]
      BY <1>10, <2>2, <3>2 DEF threadpool_job_queue_empty
    <3> QED
      BY <1>10, <2>2, <3>5, <3>4 DEF threadpool_job_queue_empty, MainPC
  <2> QED
    BY <2>1, <2>2
<1>11. ASSUME NEW w \in Workers, threadpool_thread_run(w) PROVE TypeOK'
  <2>1. CASE WhileTest(w)
    BY <2>1 DEF WhileTest, WorkerPC
  <2>2. CASE SemWait(w)
    BY <2>2 DEF SemWait, WorkerPC
  <2>3. CASE KeepaliveTest(w)
    BY <2>3 DEF KeepaliveTest, WorkerPC
  <2>4. CASE LockForTake(w)
    BY <2>4 DEF LockForTake, WorkerPC
  <2>5. CASE UnlinkFirst(w)
    <3>1. CASE job_num = 0
      BY <2>5, <3>1 DEF UnlinkFirst, WorkerPC
    <3>2. CASE job_num # 0
      <4>1. Len(fifo) = job_num /\ Linked(fifo, head)
        BY <2>5 DEF UnlinkFirst, ListShape, Represented, CountsNodes, DrainAlone, MutualExclusion
      <4>2. head = fifo[1] /\ fifo[1] \in Nodes /\ Tail(fifo) \in Seq(Nodes)
        BY <3>2, <4>1, TailFacts DEF Linked
      <4>3. job_num > 1 => next[head] \in Nodes
        BY <4>1, <4>2 DEF Linked
      <4> QED
        BY <2>5, <3>2, <4>2, <4>3 DEF UnlinkFirst, threadpool_job_queue_remove_first, WorkerPC
    <3> QED
      BY <3>1, <3>2
  <2>6. CASE CountDown(w)
    BY <2>6 DEF CountDown, WorkerPC, ListShape, CountsNodes, MutualExclusion
  <2>7. CASE UnlockAfterTake(w)
    BY <2>7 DEF UnlockAfterTake, WorkerPC
  <2>8. CASE RunJob(w)
    BY <2>8 DEF RunJob, WorkerPC
  <2>9. CASE FreeNode(w)
    BY <2>9 DEF FreeNode, WorkerPC
  <2> QED
    BY <1>11, <2>1, <2>2, <2>3, <2>4, <2>5, <2>6, <2>7, <2>8, <2>9 DEF threadpool_thread_run
<1>12. CASE UNCHANGED vars
  BY <1>12 DEF vars
<1> QED
  BY <1>1, <1>2, <1>3, <1>4, <1>5, <1>6, <1>7, <1>8, <1>9, <1>10, <1>11, <1>12
     DEF Next, threadpool_add_work, threadpool_destroy, AfterDestroy

(* The mutex, the phases of the main thread and the joins are consistent   *)
(* after every step.                                                       *)
LEMMA ControlStep == Base /\ TypeOK' /\ [Next]_vars => (MutualExclusion /\ MainPhase /\ DrainAlone)'
<1> SUFFICES ASSUME Base, TypeOK', [Next]_vars PROVE (MutualExclusion /\ MainPhase /\ DrainAlone)'
  OBVIOUS
<1> USE ThreadsAssumption DEF Base
<1> USE DEF TypeOK, Workers, MainThread, MainPC, WorkerPC, StoppedPC, mainVars, workerVars,
            MutualExclusion, MainPhase, DrainAlone
<1>1. CASE CreateThread
  BY <1>1 DEF CreateThread, NextIndex
<1>2. ASSUME NEW n \in Nodes, AllocNode(n) PROVE (MutualExclusion /\ MainPhase /\ DrainAlone)'
  BY <1>2 DEF AllocNode
<1>3. CASE LockForAdd
  BY <1>3 DEF LockForAdd
<1>4. CASE LinkNode
  BY <1>4 DEF LinkNode
<1>5. CASE CountAndPost
  BY <1>5 DEF CountAndPost
<1>6. CASE UnlockAfterAdd
  BY <1>6 DEF UnlockAfterAdd
<1>7. CASE StopPool
  BY <1>7 DEF StopPool
<1>8. CASE PostForExit
  BY <1>8 DEF PostForExit, NextIndex
<1>9. CASE Join
  BY <1>9 DEF Join, NextIndex
<1>10. CASE threadpool_job_queue_empty
  BY <1>10 DEF threadpool_job_queue_empty
<1>11. ASSUME NEW w \in Workers, threadpool_thread_run(w) PROVE (MutualExclusion /\ MainPhase /\ DrainAlone)'
  <2>1. CASE WhileTest(w)
    BY <2>1 DEF WhileTest
  <2>2. CASE SemWait(w)
    BY <2>2 DEF SemWait
  <2>3. CASE KeepaliveTest(w)
    BY <2>3 DEF KeepaliveTest
  <2>4. CASE LockForTake(w)
    BY <2>4 DEF LockForTake
  <2>5. CASE UnlinkFirst(w)
    BY <2>5 DEF UnlinkFirst
  <2>6. CASE CountDown(w)
    BY <2>6 DEF CountDown
  <2>7. CASE UnlockAfterTake(w)
    BY <2>7 DEF UnlockAfterTake
  <2>8. CASE RunJob(w)
    BY <2>8 DEF RunJob
  <2>9. CASE FreeNode(w)
    BY <2>9 DEF FreeNode
  <2> QED
    BY <1>11, <2>1, <2>2, <2>3, <2>4, <2>5, <2>6, <2>7, <2>8, <2>9 DEF threadpool_thread_run
<1>12. CASE UNCHANGED vars
  BY <1>12 DEF vars
<1> QED
  BY <1>1, <1>2, <1>3, <1>4, <1>5, <1>6, <1>7, <1>8, <1>9, <1>10, <1>11, <1>12
     DEF Next, threadpool_add_work, threadpool_destroy, AfterDestroy

(* job_num keeps counting the list across every step.                      *)
LEMMA CountStep == Base /\ TypeOK' /\ (MutualExclusion /\ DrainAlone)' /\ [Next]_vars => CountsNodes'
<1> SUFFICES ASSUME Base, TypeOK', (MutualExclusion /\ DrainAlone)', [Next]_vars PROVE CountsNodes'
  OBVIOUS
<1> USE ThreadsAssumption, PointersAssumption DEF Base
<1> USE DEF TypeOK, QueueTypeOK, Workers, MainThread, MainPC, WorkerPC, mainVars, workerVars, queueVars,
            MutualExclusion, DrainAlone, ListShape, CountsNodes
<1>1. CASE CreateThread
  BY <1>1 DEF CreateThread, MainPhase
<1>2. ASSUME NEW n \in Nodes, AllocNode(n) PROVE CountsNodes'
  BY <1>2 DEF AllocNode
<1>3. CASE LockForAdd
  BY <1>3 DEF LockForAdd
<1>4. CASE LinkNode
  BY <1>4, AppendFacts DEF LinkNode, threadpool_job_queue_add, MainPhase
<1>5. CASE CountAndPost
  BY <1>5 DEF CountAndPost
<1>6. CASE UnlockAfterAdd
  BY <1>6 DEF UnlockAfterAdd
<1>7. CASE StopPool
  BY <1>7 DEF StopPool
<1>8. CASE PostForExit
  BY <1>8 DEF PostForExit
<1>9. CASE Join
  BY <1>9 DEF Join
<1>10. CASE threadpool_job_queue_empty
  <2>1. Len(fifo) = job_num
    BY <1>10 DEF threadpool_job_queue_empty
  <2>2. CASE job_num = 0
    BY <1>10, <2>1, <2>2 DEF threadpool_job_queue_empty
  <2>3. CASE job_num # 0
    <3>1. Len(Tail(fifo)) = Len(fifo) - 1
      BY <2>1, <2>3, TailFacts
    <3> QED
      BY <1>10, <2>1, <2>3, <3>1 DEF threadpool_job_queue_empty
  <2> QED
    BY <2>2, <2>3
<1>11. ASSUME NEW w \in Workers, threadpool_thread_run(w) PROVE CountsNodes'
  <2>1. CASE WhileTest(w)
    BY <2>1 DEF WhileTest
  <2>2. CASE SemWait(w)
    BY <2>2 DEF SemWait
  <2>3. CASE KeepaliveTest(w)
    BY <2>3 DEF KeepaliveTest
  <2>4. CASE LockForTake(w)
    BY <2>4 DEF LockForTake
  <2>5. CASE UnlinkFirst(w)
    <3>1. Len(fifo) = job_num
      BY <2>5 DEF UnlinkFirst
    <3>2. CASE job_num = 0
      BY <2>5, <3>1, <3>2 DEF UnlinkFirst
    <3>3. CASE job_num # 0
      <4>1. Len(Tail(fifo)) = Len(fifo) - 1
        BY <3>1, <3>3, TailFacts
      <4> QED
        BY <2>5, <3>1, <3>3, <4>1 DEF UnlinkFirst, threadpool_job_queue_remove_first
    <3> QED
      BY <3>2, <3>3
  <2>6. CASE CountDown(w)
    BY <2>6 DEF CountDown
  <2>7. CASE UnlockAfterTake(w)
    BY <2>7 DEF UnlockAfterTake
  <2>8. CASE RunJob(w)
    BY <2>8 DEF RunJob
  <2>9. CASE FreeNode(w)
    BY <2>9 DEF FreeNode
  <2> QED
    BY <1>11, <2>1, <2>2, <2>3, <2>4, <2>5, <2>6, <2>7, <2>8, <2>9 DEF threadpool_thread_run
<1>12. CASE UNCHANGED vars
  BY <1>12 DEF vars
<1> QED
  BY <1>1, <1>2, <1>3, <1>4, <1>5, <1>6, <1>7, <1>8, <1>9, <1>10, <1>11, <1>12
     DEF Next, threadpool_add_work, threadpool_destroy, AfterDestroy

(* The pointers keep representing the submission order across every step.  *)
LEMMA RepresentedStep == Base /\ TypeOK' /\ DrainAlone' /\ [Next]_vars => Represented'
<1> SUFFICES ASSUME Base, TypeOK', DrainAlone', [Next]_vars PROVE Represented'
  OBVIOUS
<1> USE ThreadsAssumption, PointersAssumption DEF Base
<1> USE DEF TypeOK, QueueTypeOK, Workers, MainThread, mainVars, workerVars, queueVars,
            ListShape, Represented, NoRepeats, Linked, BackLinked, EndsAt
<1>1. CASE CreateThread
  BY <1>1 DEF CreateThread
<1>2. ASSUME NEW n \in Nodes, AllocNode(n) PROVE Represented'
  <2>1. \A k \in 1..Len(fifo) : fifo[k] # n
    BY <1>2 DEF AllocNode, SingleOwner, Queued
  <2> QED
    BY <1>2, <2>1, LenFacts DEF AllocNode
<1>3. CASE LockForAdd
  BY <1>3 DEF LockForAdd
<1>4. CASE LinkNode
  <2>1. node \in Nodes /\ \A k \in 1..Len(fifo) : fifo[k] # node
    BY <1>4 DEF LinkNode, MainPhase, SingleOwner, Queued, BeingAdded
  <2>2. Len(fifo) = job_num
    BY <1>4 DEF LinkNode, CountsNodes, MutualExclusion
  <2>3. /\ Len(fifo') = Len(fifo) + 1
        /\ \A k \in 1..Len(fifo) : fifo'[k] = fifo[k]
        /\ fifo'[Len(fifo) + 1] = node
        /\ fifo' # <<>>
    BY <1>4, <2>1, AppendFacts DEF LinkNode, threadpool_job_queue_add
  <2>4. \A k \in 1..Len(fifo) : fifo[k] \in Nodes
    BY LenFacts
  <2>5. NoRepeats(fifo)'
    BY <1>4, <2>1, AppendNoRepeats DEF LinkNode, threadpool_job_queue_add
  <2>8. \A k \in 1..Len(fifo) : next[fifo[k]] = IF k = Len(fifo) THEN NULL ELSE fifo[k + 1]
    BY <1>4 DEF LinkNode
  <2>6. CASE job_num = 0
    BY <1>4, <2>1, <2>2, <2>3, <2>5, <2>6 DEF LinkNode, threadpool_job_queue_add
  <2>7. CASE job_num # 0
    <3>1. /\ tail = fifo[Len(fifo)]
          /\ head = fifo[1]
      BY <1>4, <2>2, <2>7, LenFacts DEF LinkNode
    <3>2. /\ next' = [next EXCEPT ![node] = NULL, ![tail] = node]
          /\ prev' = [prev EXCEPT ![node] = tail]
          /\ head' = head
          /\ tail' = node
          /\ mpc' = "post"
      BY <1>4, <2>7 DEF LinkNode, threadpool_job_queue_add
    <3>3. Linked(fifo, head)'
      <4>1. head' = fifo'[1]
        BY <2>2, <2>3, <2>7, <3>1, <3>2
      <4>2. \A k \in 1..Len(fifo') : next'[fifo'[k]] = IF k = Len(fifo') THEN NULL ELSE fifo'[k + 1]
        <5>1. next \in [Nodes -> Pointer \cup {Junk}] /\ fifo \in Seq(Nodes) /\ NoRepeats(fifo)
          OBVIOUS
        <5>2. fifo' = Append(fifo, node)
          BY <1>4 DEF LinkNode, threadpool_job_queue_add
        <5>3. Len(fifo) > 0
          BY <2>2, <2>7
        <5>4. Chained(next, fifo, NULL) /\ Absent(fifo, node) /\ node \in Nodes
          BY <2>1, <2>8 DEF Chained, Absent
        <5>5. next' = [next EXCEPT ![node] = NULL, ![fifo[Len(fifo)]] = node]
          BY <3>1, <3>2
        <5> HIDE DEF NoRepeats
        <5>6. Chained([next EXCEPT ![node] = NULL, ![fifo[Len(fifo)]] = node], Append(fifo, node), NULL)
          BY <5>1, <5>3, <5>4, LinkLast
        <5>7. Chained(next', fifo', NULL)
          BY <5>2, <5>5, <5>6
        <5> QED
          BY <5>7 DEF Chained
      <4> QED
        BY <2>3, <4>1, <4>2
    <3>4. BackLinked(fifo)'
      BY <1>4, <2>1, <2>2, <2>3, <2>4, <2>7, <3>1, <3>2 DEF LinkNode
    <3>5. EndsAt(fifo, tail)'
      BY <2>3, <3>2
    <3> QED
      BY <2>5, <3>2, <3>3, <3>4, <3>5
  <2> QED
    BY <2>6, <2>7
<1>5. CASE CountAndPost
  BY <1>5 DEF CountAndPost
<1>6. CASE UnlockAfterAdd
  BY <1>6 DEF UnlockAfterAdd
<1>7. CASE StopPool
  BY <1>7 DEF StopPool
<1>8. CASE PostForExit
  BY <1>8 DEF PostForExit
<1>9. CASE Join
  BY <1>9 DEF Join
<1>10. CASE threadpool_job_queue_empty
  <2>1. Len(fifo) = job_num
    BY <1>10 DEF threadpool_job_queue_empty, CountsNodes, DrainAlone
  <2>2. CASE job_num = 0
    BY <1>10, <2>2 DEF threadpool_job_queue_empty
  <2>3. CASE job_num # 0
    <3>1. /\ Len(fifo') = Len(fifo) - 1
          /\ \A k \in 1..(Len(fifo) - 1) : fifo'[k] = fifo[k + 1]
      <4>1. fifo' = Tail(fifo)
        BY <1>10, <2>3 DEF threadpool_job_queue_empty
      <4> QED
        BY <2>1, <2>3, <4>1, TailFacts
    <3>2. cur = fifo[1] /\ cur' = next[fifo[1]] /\ next' = next /\ mpc' = mpc /\ mpc = "drain"
      BY <1>10, <2>1, <2>3, LenFacts DEF threadpool_job_queue_empty
    <3>3. NoRepeats(fifo)'
      <4>1. fifo' = Tail(fifo) /\ NoRepeats(fifo) /\ Len(fifo) > 0
        BY <1>10, <2>1, <2>3 DEF threadpool_job_queue_empty
      <4> HIDE DEF NoRepeats
      <4> QED
        BY <4>1, TailNoRepeats
    <3>4. Linked(fifo, cur)'
      BY <2>1, <2>3, <3>1, <3>2, LenFacts, SMTT(30)
    <3> QED
      BY <3>2, <3>3, <3>4
  <2> QED
    BY <2>2, <2>3
<1>11. ASSUME NEW w \in Workers, threadpool_thread_run(w) PROVE Represented'
  <2>1. CASE WhileTest(w)
    BY <2>1 DEF WhileTest
  <2>2. CASE SemWait(w)
    BY <2>2 DEF SemWait
  <2>3. CASE KeepaliveTest(w)
    BY <2>3 DEF KeepaliveTest
  <2>4. CASE LockForTake(w)
    BY <2>4 DEF LockForTake
  <2>5. CASE UnlinkFirst(w)
    <3>1. Len(fifo) = job_num
      BY <2>5 DEF UnlinkFirst, CountsNodes, MutualExclusion
    <3>2. mpc \notin {"drain", "destroyed"} /\ mpc' = mpc
      BY <2>5 DEF UnlinkFirst, DrainAlone
    <3>3. CASE job_num = 0
      BY <2>5, <3>3 DEF UnlinkFirst
    <3>4. CASE job_num # 0
      <4>1. /\ Len(fifo') = Len(fifo) - 1
            /\ \A k \in 1..(Len(fifo) - 1) : fifo'[k] = fifo[k + 1]
        <5>1. fifo' = Tail(fifo)
          BY <2>5, <3>4 DEF UnlinkFirst, threadpool_job_queue_remove_first
        <5> QED
          BY <3>1, <3>4, <5>1, TailFacts
      <4>2. \A k \in 1..Len(fifo) : fifo[k] \in Nodes
        BY LenFacts
      <4>3. head = fifo[1]
        BY <3>1, <3>2, <3>4, LenFacts
      <4>4. NoRepeats(fifo)'
        <5>1. fifo' = Tail(fifo) /\ NoRepeats(fifo) /\ Len(fifo) > 0
          BY <2>5, <3>1, <3>4 DEF UnlinkFirst, threadpool_job_queue_remove_first
        <5> HIDE DEF NoRepeats
        <5> QED
          BY <5>1, TailNoRepeats
      <4>5. CASE job_num = 1
        <5>1. fifo' = <<>>
          BY <3>1, <4>1, <4>5, LenFacts
        <5> QED
          BY <2>5, <3>2, <4>1, <4>4, <4>5, <3>1, <5>1 DEF UnlinkFirst, threadpool_job_queue_remove_first
      <4>6. CASE job_num > 1
        <5>1. /\ next[head] = fifo[2]
              /\ tail = fifo[Len(fifo)]
          BY <3>1, <3>2, <4>3, <4>6, LenFacts
        <5>2. /\ prev' = [prev EXCEPT ![fifo[2]] = NULL]
              /\ head' = fifo[2]
              /\ tail' = tail
              /\ next' = next
          BY <2>5, <4>6, <5>1 DEF UnlinkFirst, threadpool_job_queue_remove_first
        <5>3. fifo' # <<>>
          BY <3>1, <4>1, <4>6
        <5>4. Linked(fifo, head)'
          BY <3>1, <3>2, <4>1, <4>6, <5>2, <5>3
        <5>5. BackLinked(fifo)'
          BY <3>1, <3>2, <4>1, <4>2, <4>6, <5>2
        <5>6. EndsAt(fifo, tail)'
          BY <3>1, <4>1, <4>6, <5>1, <5>2
        <5> QED
          BY <3>2, <4>4, <5>4, <5>5, <5>6
      <4> QED
        BY <3>4, <4>5, <4>6
    <3> QED
      BY <3>3, <3>4
  <2>6. CASE CountDown(w)
    BY <2>6 DEF CountDown
  <2>7. CASE UnlockAfterTake(w)
    BY <2>7 DEF UnlockAfterTake
  <2>8. CASE RunJob(w)
    BY <2>8 DEF RunJob
  <2>9. CASE FreeNode(w)
    BY <2>9 DEF FreeNode
  <2> QED
    BY <1>11, <2>1, <2>2, <2>3, <2>4, <2>5, <2>6, <2>7, <2>8, <2>9 DEF threadpool_thread_run
<1>12. CASE UNCHANGED vars
  BY <1>12 DEF vars
<1> QED
  BY <1>1, <1>2, <1>3, <1>4, <1>5, <1>6, <1>7, <1>8, <1>9, <1>10, <1>11, <1>12
     DEF Next, threadpool_add_work, threadpool_destroy, AfterDestroy

(* Every node keeps exactly one owner across every step.                   *)
LEMMA OwnerStep == Base /\ TypeOK' /\ [Next]_vars => SingleOwner'
<1> SUFFICES ASSUME Base, TypeOK', [Next]_vars PROVE SingleOwner'
  OBVIOUS
<1> USE ThreadsAssumption, PointersAssumption DEF Base
<1> USE DEF TypeOK, QueueTypeOK, Pointer, Workers, MainThread, mainVars, workerVars, queueVars,
            SingleOwner, Holds, Queued, BeingAdded
<1>1. CASE CreateThread
  BY <1>1 DEF CreateThread, MainPhase
<1>2. ASSUME NEW n \in Nodes, AllocNode(n) PROVE SingleOwner'
  BY <1>2 DEF AllocNode
<1>3. CASE LockForAdd
  BY <1>3 DEF LockForAdd
<1>4. CASE LinkNode
  <2>1. node \in Nodes /\ heap' = heap
    BY <1>4 DEF LinkNode, MainPhase
  <2>2. fifo' = Append(fifo, node)
    BY <1>4 DEF LinkNode, threadpool_job_queue_add
  <2>3. \A n \in Nodes : Queued(n)' <=> Queued(n) \/ n = node
    <3> HIDE DEF Queued
    <3> QED
      BY <2>1, <2>2, AppendQueued
  <2>4. \A n \in Nodes : (BeingAdded(n) <=> n = node) /\ ~BeingAdded(n)'
    BY <1>4 DEF LinkNode
  <2>5. \A n \in Nodes, v \in Workers : Holds(v, n)' <=> Holds(v, n)
    BY <1>4 DEF LinkNode
  <2> HIDE DEF Queued, BeingAdded, Holds
  <2> QED
    BY <2>1, <2>3, <2>4, <2>5
<1>5. CASE CountAndPost
  BY <1>5 DEF CountAndPost
<1>6. CASE UnlockAfterAdd
  BY <1>6, SMTT(30) DEF UnlockAfterAdd
<1>7. CASE StopPool
  BY <1>7 DEF StopPool
<1>8. CASE PostForExit
  BY <1>8 DEF PostForExit
<1>9. CASE Join
  BY <1>9 DEF Join
<1>10. CASE threadpool_job_queue_empty
  <2>1. CASE job_num = 0
    BY <1>10, <2>1 DEF threadpool_job_queue_empty
  <2>2. CASE job_num # 0
    <3>1. Len(fifo) = job_num /\ cur = fifo[1] /\ NoRepeats(fifo)
      BY <1>10, <2>2, LenFacts DEF threadpool_job_queue_empty, ListShape, CountsNodes, DrainAlone, Represented, Linked
    <3>2. fifo' = Tail(fifo) /\ heap' = [heap EXCEPT ![cur] = "free"]
      BY <1>10, <2>2 DEF threadpool_job_queue_empty
    <3>3. \A n \in Nodes : (Queued(n)' <=> Queued(n) /\ n # cur) /\ (n = cur => Queued(n))
      <4> HIDE DEF Queued
      <4> QED
        BY <2>2, <3>1, <3>2, TailQueued
    <3>4. \A n \in Nodes : ~BeingAdded(n) /\ ~BeingAdded(n)'
      BY <1>10 DEF threadpool_job_queue_empty
    <3>5. \A n \in Nodes, v \in Workers : ~Holds(v, n)' /\ ~Holds(v, n)
      BY <1>10 DEF threadpool_job_queue_empty, DrainAlone
    <3> HIDE DEF Queued, BeingAdded, Holds
    <3> QED
      BY <3>2, <3>3, <3>4, <3>5
  <2> QED
    BY <2>1, <2>2
<1>11. ASSUME NEW w \in Workers, threadpool_thread_run(w) PROVE SingleOwner'
  <2>1. CASE WhileTest(w)
    <3>1. \A n \in Nodes, v \in Workers : Holds(v, n)' <=> Holds(v, n)
      BY <2>1 DEF WhileTest
    <3>2. \A n \in Nodes : (Queued(n)' <=> Queued(n)) /\ (BeingAdded(n)' <=> BeingAdded(n)) /\ heap' = heap
      BY <2>1 DEF WhileTest
    <3> HIDE DEF Queued, BeingAdded, Holds
    <3> QED
      BY <3>1, <3>2
  <2>2. CASE SemWait(w)
    BY <2>2 DEF SemWait
  <2>3. CASE KeepaliveTest(w)
    BY <2>3 DEF KeepaliveTest
  <2>4. CASE LockForTake(w)
    BY <2>4 DEF LockForTake
  <2>5. CASE UnlinkFirst(w)
    <3>1. CASE job_num = 0
      <4>1. \A n \in Nodes, v \in Workers : Holds(v, n)' <=> Holds(v, n)
        <5>1. job' = [job EXCEPT ![w] = NULL] /\ wpc' = [wpc EXCEPT ![w] = "unlock"] /\ wpc[w] = "unlink"
          BY <2>5, <3>1 DEF UnlinkFirst
        <5> QED
          BY <5>1
      <4>2. \A n \in Nodes : (Queued(n)' <=> Queued(n)) /\ (BeingAdded(n)' <=> BeingAdded(n)) /\ heap' = heap
        BY <2>5, <3>1 DEF UnlinkFirst
      <4> HIDE DEF Queued, BeingAdded, Holds
      <4> QED
        BY <4>1, <4>2
    <3>2. CASE job_num # 0
      <4>1. Len(fifo) = job_num /\ head = fifo[1] /\ NoRepeats(fifo)
        BY <2>5, <3>2, LenFacts DEF UnlinkFirst, ListShape, CountsNodes, DrainAlone, Represented, Linked, MutualExclusion
      <4>2. fifo' = Tail(fifo)
        BY <2>5, <3>2 DEF UnlinkFirst, threadpool_job_queue_remove_first
      <4>3. \A n \in Nodes : (Queued(n)' <=> Queued(n) /\ n # head) /\ (n = head => Queued(n))
        <5> HIDE DEF Queued
        <5> QED
          BY <3>2, <4>1, <4>2, TailQueued
      <4>4. \A n \in Nodes : (BeingAdded(n)' <=> BeingAdded(n)) /\ heap' = heap
        BY <2>5 DEF UnlinkFirst
      <4>5. \A n \in Nodes, v \in Workers : Holds(v, n)' <=> Holds(v, n) \/ (v = w /\ n = head)
        BY <2>5, <3>2 DEF UnlinkFirst
      <4> HIDE DEF Queued, BeingAdded, Holds
      <4>6. ASSUME NEW n \in Nodes, n # head
            PROVE  \A v \in Workers : Holds(v, n)' <=> Holds(v, n)
        BY <4>5, <4>6
      <4>7. ASSUME NEW n \in Nodes, n = head
            PROVE  /\ \A v \in Workers : ~Holds(v, n) /\ (Holds(v, n)' <=> v = w)
                   /\ heap[n] = "live" /\ ~BeingAdded(n) /\ ~Queued(n)'
        BY <4>3, <4>5, <4>7
      <4>8. ASSUME NEW n \in Nodes
            PROVE  /\ (heap[n] = "live")' <=> BeingAdded(n)' \/ Queued(n)' \/ \E v \in Workers : Holds(v, n)'
                   /\ ~(BeingAdded(n)' /\ Queued(n)')
                   /\ \A u \in Workers : Holds(u, n)' =>
                         /\ ~BeingAdded(n)' /\ ~Queued(n)'
                         /\ \A v \in Workers : Holds(v, n)' => v = u
        <5>1. CASE n # head
          <6>1. /\ heap'[n] = heap[n] /\ (BeingAdded(n)' <=> BeingAdded(n)) /\ (Queued(n)' <=> Queued(n))
                /\ \A v \in Workers : Holds(v, n)' <=> Holds(v, n)
            BY <4>3, <4>4, <4>6, <5>1
          <6>2. /\ heap[n] = "live" <=> BeingAdded(n) \/ Queued(n) \/ \E v \in Workers : Holds(v, n)
                /\ ~(BeingAdded(n) /\ Queued(n))
                /\ \A u \in Workers : Holds(u, n) =>
                      /\ ~BeingAdded(n) /\ ~Queued(n)
                      /\ \A v \in Workers : Holds(v, n) => v = u
            BY DEF SingleOwner
          <6> QED
            BY <6>1, <6>2, Zenon
        <5>2. CASE n = head
          <6>1. heap'[n] = "live" /\ ~BeingAdded(n)' /\ ~Queued(n)'
            BY <4>4, <4>7, <5>2
          <6>2. \A v \in Workers : Holds(v, n)' <=> v = w
            BY <4>7, <5>2
          <6>3. \E v \in Workers : Holds(v, n)'
            BY <6>2, w \in Workers, Zenon
          <6>4. \A u, v \in Workers : Holds(u, n)' /\ Holds(v, n)' => v = u
            <7> SUFFICES ASSUME NEW u \in Workers, NEW v \in Workers, Holds(u, n)', Holds(v, n)'
                         PROVE  v = u
              BY Zenon
            <7>1. u = w
              BY <6>2, Zenon
            <7>2. v = w
              BY <6>2, Zenon
            <7> QED
              BY <7>1, <7>2, Zenon
          <6> QED
            BY <6>1, <6>3, <6>4, Zenon
        <5> QED
          BY <5>1, <5>2
      <4> QED
        BY <4>8
    <3> QED
      BY <3>1, <3>2
  <2>6. CASE CountDown(w)
    BY <2>6 DEF CountDown
  <2>7. CASE UnlockAfterTake(w)
    BY <2>7 DEF UnlockAfterTake
  <2>8. CASE RunJob(w)
    BY <2>8 DEF RunJob
  <2>9. CASE FreeNode(w)
    BY <2>9 DEF FreeNode
  <2> QED
    BY <1>11, <2>1, <2>2, <2>3, <2>4, <2>5, <2>6, <2>7, <2>8, <2>9 DEF threadpool_thread_run
<1>12. CASE UNCHANGED vars
  BY <1>12 DEF vars
<1> QED
  BY <1>1, <1>2, <1>3, <1>4, <1>5, <1>6, <1>7, <1>8, <1>9, <1>10, <1>11, <1>12
     DEF Next, threadpool_add_work, threadpool_destroy, AfterDestroy

-----------------------------------------------------------------------------

(* The sets of workers counted below are finite; what adding or removing   *)
(* one worker does to their number.                                        *)
LEMMA WorkerSets ==
  /\ IsFiniteSet(Workers) /\ Cardinality(Workers) = threads_num
  /\ \A S \in SUBSET Workers :
        /\ IsFiniteSet(S)
        /\ Cardinality(S) \in Nat
        /\ Cardinality(S) <= threads_num
        /\ S = {} <=> Cardinality(S) = 0
        /\ \A w \in Workers :
              /\ Cardinality(S \cup {w}) = IF w \in S THEN Cardinality(S) ELSE Cardinality(S) + 1
              /\ Cardinality(S \ {w}) = IF w \in S THEN Cardinality(S) - 1 ELSE Cardinality(S)
<1>1. IsFiniteSet(Workers) /\ Cardinality(Workers) = threads_num
  BY ThreadsAssumption, FS_Interval DEF Workers
<1>2. ASSUME NEW S \in SUBSET Workers
      PROVE  /\ IsFiniteSet(S)
             /\ Cardinality(S) \in Nat
             /\ Cardinality(S) <= threads_num
             /\ S = {} <=> Cardinality(S) = 0
  BY <1>1, FS_Subset, FS_CardinalityType, FS_EmptySet
<1>3. ASSUME NEW S \in SUBSET Workers, NEW w \in Workers
      PROVE  /\ Cardinality(S \cup {w}) = IF w \in S THEN Cardinality(S) ELSE Cardinality(S) + 1
             /\ Cardinality(S \ {w}) = IF w \in S THEN Cardinality(S) - 1 ELSE Cardinality(S)
  BY <1>2, FS_AddElement, FS_RemoveElement
<1> QED
  BY <1>1, <1>2, <1>3

(* The semaphore, the woken workers and job_num stay in step.              *)
LEMMA SemStep == Base /\ TypeOK' /\ SemAccounting /\ [Next]_vars => SemAccounting'
<1> SUFFICES ASSUME Base, TypeOK', SemAccounting, [Next]_vars PROVE SemAccounting'
  OBVIOUS
<1> USE ThreadsAssumption DEF Base
<1> USE DEF TypeOK, QueueTypeOK, mainVars, workerVars, queueVars, SemAccounting
<1>0. /\ Woken \in SUBSET Workers /\ Taking \in SUBSET Workers
      /\ Cardinality(Woken) \in Nat /\ Cardinality(Taking) \in Nat
  BY WorkerSets DEF Woken, Taking
<1>1. CASE CreateThread
  <2>1. Woken' = Woken /\ Taking' = Taking
    BY <1>1 DEF CreateThread, Woken, Taking, MainPhase, Workers
  <2> QED
    BY <1>1, <1>0, <2>1 DEF CreateThread
<1>2. ASSUME NEW n \in Nodes, AllocNode(n) PROVE SemAccounting'
  <2>1. Woken' = Woken /\ Taking' = Taking
    BY <1>2 DEF AllocNode, Woken, Taking
  <2> QED
    BY <1>2, <1>0, <2>1 DEF AllocNode
<1>3. CASE LockForAdd
  <2>1. Woken' = Woken /\ Taking' = Taking
    BY <1>3 DEF LockForAdd, Woken, Taking
  <2> QED
    BY <1>3, <1>0, <2>1 DEF LockForAdd
<1>4. CASE LinkNode
  <2>1. Woken' = Woken /\ Taking' = Taking
    BY <1>4 DEF LinkNode, Woken, Taking
  <2> QED
    BY <1>4, <1>0, <2>1 DEF LinkNode, threadpool_job_queue_add
<1>5. CASE CountAndPost
  <2>1. Woken' = Woken /\ Taking' = Taking
    BY <1>5 DEF CountAndPost, Woken, Taking
  <2> QED
    BY <1>5, <1>0, <2>1 DEF CountAndPost
<1>6. CASE UnlockAfterAdd
  <2>1. Woken' = Woken /\ Taking' = Taking
    BY <1>6 DEF UnlockAfterAdd, Woken, Taking
  <2> QED
    BY <1>6, <1>0, <2>1 DEF UnlockAfterAdd
<1>7. CASE StopPool
  <2>1. Woken' = Woken /\ Taking' = Taking
    BY <1>7 DEF StopPool, Woken, Taking
  <2> QED
    BY <1>7, <1>0, <2>1 DEF StopPool
<1>8. CASE PostForExit
  <2>1. Woken' = Woken /\ Taking' = Taking
    BY <1>8 DEF PostForExit, Woken, Taking
  <2> QED
    BY <1>8, <1>0, <2>1 DEF PostForExit, MainPhase, StoppedPC
<1>9. CASE Join
  <2>1. Woken' = Woken /\ Taking' = Taking
    BY <1>9 DEF Join, Woken, Taking
  <2> QED
    BY <1>9, <1>0, <2>1 DEF Join
<1>10. CASE threadpool_job_queue_empty
  <2>1. Woken' = Woken /\ Taking' = Taking /\ Taking = {}
    BY <1>10 DEF threadpool_job_queue_empty, Woken, Taking, DrainAlone
  <2>2. ~keepalive /\ keepalive' = keepalive
    BY <1>10 DEF threadpool_job_queue_empty, MainPhase, StoppedPC
  <2>3. Cardinality(Taking) = 0
    BY <1>0, <2>1, WorkerSets
  <2> QED
    BY <1>0, <2>1, <2>2, <2>3
<1>11. ASSUME NEW w \in Workers, threadpool_thread_run(w) PROVE SemAccounting'
  <2>1. CASE WhileTest(w)
    <3>1. Woken' = Woken /\ Taking' = Taking
      BY <2>1 DEF WhileTest, Woken, Taking
    <3> QED
      BY <2>1, <1>0, <3>1 DEF WhileTest
  <2>2. CASE SemWait(w)
    <3>1. Woken' = Woken \cup {w} /\ w \notin Woken /\ Taking' = Taking
      BY <2>2 DEF SemWait, Woken, Taking
    <3>2. Cardinality(Woken') = Cardinality(Woken) + 1
      BY <1>0, <3>1, WorkerSets
    <3> QED
      BY <2>2, <1>0, <3>1, <3>2 DEF SemWait
  <2>3. CASE KeepaliveTest(w)
    <3>1. Woken' = Woken \ {w} /\ w \in Woken
      BY <2>3 DEF KeepaliveTest, Woken
    <3>2. Cardinality(Woken') = Cardinality(Woken) - 1
      BY <1>0, <3>1, WorkerSets
    <3>3. CASE keepalive
      <4>1. Taking' = Taking \cup {w} /\ w \notin Taking
        BY <2>3, <3>3 DEF KeepaliveTest, Taking
      <4>2. Cardinality(Taking') = Cardinality(Taking) + 1
        BY <1>0, <4>1, WorkerSets
      <4>3. Cardinality(Woken') \in Nat
        BY <1>0, <3>1, WorkerSets
      <4> QED
        BY <2>3, <1>0, <3>2, <3>3, <4>2, <4>3 DEF KeepaliveTest
    <3>4. CASE ~keepalive
      <4>1. Taking' = Taking
        BY <2>3, <3>4 DEF KeepaliveTest, Taking
      <4> QED
        BY <2>3, <1>0, <3>4, <4>1 DEF KeepaliveTest
    <3> QED
      BY <3>3, <3>4
  <2>4. CASE LockForTake(w)
    <3>1. Woken' = Woken /\ Taking' = Taking
      BY <2>4 DEF LockForTake, Woken, Taking
    <3> QED
      BY <2>4, <1>0, <3>1 DEF LockForTake
  <2>5. CASE UnlinkFirst(w)
    <3>1. w \in Taking
      BY <2>5 DEF UnlinkFirst, Taking
    <3>2. job_num # 0
      BY <1>0, <3>1, WorkerSets
    <3>3. Woken' = Woken /\ Taking' = Taking
      BY <2>5, <3>2 DEF UnlinkFirst, Woken, Taking
    <3> QED
      BY <2>5, <1>0, <3>2, <3>3 DEF UnlinkFirst, threadpool_job_queue_remove_first
  <2>6. CASE CountDown(w)
    <3>1. Woken' = Woken /\ Taking' = Taking \ {w} /\ w \in Taking
      BY <2>6 DEF CountDown, Woken, Taking
    <3>2. Cardinality(Taking') = Cardinality(Taking) - 1
      BY <1>0, <3>1, WorkerSets
    <3>3. job_num' = job_num - 1 /\ sem' = sem /\ keepalive' = keepalive
      BY <2>6 DEF CountDown
    <3>4. Cardinality(Taking') <= job_num' /\ Cardinality(Woken') = Cardinality(Woken)
      BY <1>0, <3>1, <3>2, <3>3
    <3> QED
      BY <1>0, <3>2, <3>3, <3>4
  <2>7. CASE UnlockAfterTake(w)
    <3>1. Woken' = Woken /\ Taking' = Taking
      BY <2>7 DEF UnlockAfterTake, Woken, Taking
    <3> QED
      BY <2>7, <1>0, <3>1 DEF UnlockAfterTake
  <2>8. CASE RunJob(w)
    <3>1. Woken' = Woken /\ Taking' = Taking
      BY <2>8 DEF RunJob, Woken, Taking
    <3> QED
      BY <2>8, <1>0, <3>1 DEF RunJob
  <2>9. CASE FreeNode(w)
    <3>1. Woken' = Woken /\ Taking' = Taking
      BY <2>9 DEF FreeNode, Woken, Taking
    <3> QED
      BY <2>9, <1>0, <3>1 DEF FreeNode
  <2> QED
    BY <1>11, <2>1, <2>2, <2>3, <2>4, <2>5, <2>6, <2>7, <2>8, <2>9 DEF threadpool_thread_run
<1>12. CASE UNCHANGED vars
  <2>1. Woken' = Woken /\ Taking' = Taking
    BY <1>12 DEF vars, Woken, Taking
  <2> QED
    BY <1>12, <1>0, <2>1 DEF vars
<1> QED
  BY <1>1, <1>2, <1>3, <1>4, <1>5, <1>6, <1>7, <1>8, <1>9, <1>10, <1>11, <1>12
     DEF Next, threadpool_add_work, threadpool_destroy, AfterDestroy

(* Enough posts remain to wake every waiting worker of a stopped pool.     *)
LEMMA ExitStep == Base /\ TypeOK' /\ ExitTokens /\ [Next]_vars => ExitTokens'
<1> SUFFICES ASSUME Base, TypeOK', ExitTokens, [Next]_vars PROVE ExitTokens'
  OBVIOUS
<1> USE ThreadsAssumption DEF Base
<1> USE DEF TypeOK, mainVars, workerVars, queueVars, ExitTokens
<1>0. Waiting \in SUBSET Workers /\ Cardinality(Waiting) \in Nat /\ Cardinality(Waiting) <= threads_num
  BY WorkerSets DEF Waiting
<1>1. CASE CreateThread
  <2>1. Waiting' = Waiting
    BY <1>1 DEF CreateThread, Waiting, MainPhase, Workers
  <2> QED
    BY <1>1, <1>0, <2>1 DEF CreateThread, MainPhase, StoppedPC
<1>2. ASSUME NEW n \in Nodes, AllocNode(n) PROVE ExitTokens'
  <2>1. Waiting' = Waiting
    BY <1>2 DEF AllocNode, Waiting
  <2> QED
    BY <1>2, <1>0, <2>1 DEF AllocNode, MainPhase, StoppedPC
<1>3. CASE LockForAdd
  <2>1. Waiting' = Waiting
    BY <1>3 DEF LockForAdd, Waiting
  <2> QED
    BY <1>3, <1>0, <2>1 DEF LockForAdd, MainPhase, StoppedPC
<1>4. CASE LinkNode
  <2>1. Waiting' = Waiting
    BY <1>4 DEF LinkNode, Waiting
  <2> QED
    BY <1>4, <1>0, <2>1 DEF LinkNode, MainPhase, StoppedPC
<1>5. CASE CountAndPost
  <2>1. Waiting' = Waiting
    BY <1>5 DEF CountAndPost, Waiting
  <2> QED
    BY <1>5, <1>0, <2>1 DEF CountAndPost, MainPhase, StoppedPC
<1>6. CASE UnlockAfterAdd
  <2>1. Waiting' = Waiting
    BY <1>6 DEF UnlockAfterAdd, Waiting
  <2> QED
    BY <1>6, <1>0, <2>1 DEF UnlockAfterAdd, MainPhase, StoppedPC
<1>7. CASE StopPool
  <2>1. Waiting' = Waiting
    BY <1>7 DEF StopPool, Waiting
  <2> QED
    BY <1>7, <1>0, <2>1 DEF StopPool, MainPhase
<1>8. CASE PostForExit
  <2>1. Waiting' = Waiting
    BY <1>8 DEF PostForExit, Waiting
  <2> QED
    BY <1>8, <1>0, <2>1 DEF PostForExit, NextIndex
<1>9. CASE Join
  <2>1. Waiting' = Waiting
    BY <1>9 DEF Join, Waiting
  <2> QED
    BY <1>9, <1>0, <2>1 DEF Join, MainPhase, StoppedPC
<1>10. CASE threadpool_job_queue_empty
  <2>1. Waiting' = Waiting
    BY <1>10 DEF threadpool_job_queue_empty, Waiting
  <2> QED
    BY <1>10, <1>0, <2>1 DEF threadpool_job_queue_empty, MainPhase, StoppedPC
<1>11. ASSUME NEW w \in Workers, threadpool_thread_run(w) PROVE ExitTokens'
  <2>1. CASE WhileTest(w)
    <3>1. CASE keepalive
      BY <2>1, <3>1 DEF WhileTest
    <3>2. CASE ~keepalive
      <4>1. Waiting' = Waiting
        BY <2>1, <3>2 DEF WhileTest, Waiting
      <4> QED
        BY <2>1, <1>0, <4>1 DEF WhileTest
    <3> QED
      BY <3>1, <3>2
  <2>2. CASE SemWait(w)
    <3>1. Waiting' = Waiting \ {w} /\ w \in Waiting
      BY <2>2 DEF SemWait, Waiting
    <3>2. Cardinality(Waiting') = Cardinality(Waiting) - 1
      BY <1>0, <3>1, WorkerSets
    <3> QED
      BY <2>2, <1>0, <3>2 DEF SemWait
  <2>3. CASE KeepaliveTest(w)
    <3>1. Waiting' = Waiting
      BY <2>3 DEF KeepaliveTest, Waiting
    <3> QED
      BY <2>3, <1>0, <3>1 DEF KeepaliveTest
  <2>4. CASE LockForTake(w)
    <3>1. Waiting' = Waiting
      BY <2>4 DEF LockForTake, Waiting
    <3> QED
      BY <2>4, <1>0, <3>1 DEF LockForTake
  <2>5. CASE UnlinkFirst(w)
    <3>1. Waiting' = Waiting
      BY <2>5 DEF UnlinkFirst, Waiting
    <3> QED
      BY <2>5, <1>0, <3>1 DEF UnlinkFirst
  <2>6. CASE CountDown(w)
    <3>1. Waiting' = Waiting
      BY <2>6 DEF CountDown, Waiting
    <3> QED
      BY <2>6, <1>0, <3>1 DEF CountDown
  <2>7. CASE UnlockAfterTake(w)
    <3>1. Waiting' = Waiting
      BY <2>7 DEF UnlockAfterTake, Waiting
    <3> QED
      BY <2>7, <1>0, <3>1 DEF UnlockAfterTake
  <2>8. CASE RunJob(w)
    <3>1. Waiting' = Waiting
      BY <2>8 DEF RunJob, Waiting
    <3> QED
      BY <2>8, <1>0, <3>1 DEF RunJob
  <2>9. CASE FreeNode(w)
    <3>1. Waiting' = Waiting
      BY <2>9 DEF FreeNode, Waiting
    <3> QED
      BY <2>9, <1>0, <3>1 DEF FreeNode
  <2> QED
    BY <1>11, <2>1, <2>2, <2>3, <2>4, <2>5, <2>6, <2>7, <2>8, <2>9 DEF threadpool_thread_run
<1>12. CASE UNCHANGED vars
  <2>1. Waiting' = Waiting
    BY <1>12 DEF vars, Waiting
  <2> QED
    BY <1>12, <1>0, <2>1 DEF vars
<1> QED
  BY <1>1, <1>2, <1>3, <1>4, <1>5, <1>6, <1>7, <1>8, <1>9, <1>10, <1>11, <1>12
     DEF Next, threadpool_add_work, threadpool_destroy, AfterDestroy

-----------------------------------------------------------------------------

(* The inductive invariant of the pool: the two counting invariants need the*)
(* ownership of Base, and Base is preserved without them.                   *)
IInv == Base /\ SemAccounting /\ ExitTokens

(* The inductive invariant of the pool.                                    *)
THEOREM PoolInvariant == Spec => []IInv
<1>1. Init => IInv
  <2> SUFFICES ASSUME Init PROVE IInv
    OBVIOUS
  <2>1. Woken = {} /\ Taking = {}
    BY DEF Init, Woken, Taking
  <2>2. Cardinality(Woken) = 0 /\ Cardinality(Taking) = 0
    BY <2>1, FS_EmptySet
  <2>3. SemAccounting /\ ExitTokens
    BY <2>2 DEF Init, threadpool_job_queue_init, SemAccounting, ExitTokens
  <2> QED
    BY <2>3, InitBase DEF IInv
<1>2. IInv /\ [Next]_vars => IInv'
  <2> SUFFICES ASSUME IInv, [Next]_vars PROVE IInv'
    OBVIOUS
  <2>1. TypeOK'
    BY TypeStep DEF IInv
  <2>2. (MutualExclusion /\ MainPhase /\ DrainAlone)'
    BY <2>1, ControlStep DEF IInv
  <2>3. ListShape'
    BY <2>1, <2>2, CountStep, RepresentedStep DEF IInv, ListShape
  <2>4. SingleOwner'
    BY <2>1, OwnerStep DEF IInv
  <2>5. SemAccounting' /\ ExitTokens'
    BY <2>1, SemStep, ExitStep DEF IInv
  <2> QED
    BY <2>1, <2>2, <2>3, <2>4, <2>5 DEF IInv, Base
<1> QED
  BY <1>1, <1>2, PTL DEF Spec

(* No interleaving of submitter, workers and shutdown corrupts a type.     *)
THEOREM PoolTypeOK == Spec => []TypeOK
BY PoolInvariant, PTL DEF IInv, Base

(* The list operations are mutually exclusive for any number of workers.   *)
THEOREM PoolMutualExclusion == Spec => []MutualExclusion
BY PoolInvariant, PTL DEF IInv, Base

(* For any number of workers and jobs the linked list and its counter      *)
(* represent the jobs submitted and not yet taken.                         *)
THEOREM PoolListShape == Spec => []ListShape
BY PoolInvariant, PTL DEF IInv, Base

(* Nodes are never leaked, freed twice or run twice.                       *)
THEOREM PoolSingleOwner == Spec => []SingleOwner
BY PoolInvariant, PTL DEF IInv, Base

(* The main thread never empties the queue beside a live worker.           *)
THEOREM PoolDrainAlone == Spec => []DrainAlone
BY PoolInvariant, PTL DEF IInv, Base

(* Semaphore, woken workers and job count agree.                           *)
THEOREM PoolSemAccounting == Spec => []SemAccounting
BY PoolInvariant, PTL DEF IInv

(* threadpool_destroy posts often enough for every waiting worker.         *)
THEOREM PoolExitTokens == Spec => []ExitTokens
BY PoolInvariant, PTL DEF IInv

(* A worker woken to take a job always finds one.                          *)
THEOREM PoolNoEmptyTake == Spec => []NoEmptyTake
<1>1. IInv => NoEmptyTake
  <2> SUFFICES ASSUME IInv, NEW w \in Workers, wpc[w] = "unlink" PROVE job_num # 0
    BY DEF NoEmptyTake
  <2>1. w \in Taking /\ Taking \in SUBSET Workers
    BY DEF Taking
  <2>2. Cardinality(Taking) \in Nat /\ Cardinality(Taking) # 0
    BY <2>1, WorkerSets
  <2> QED
    BY <2>2 DEF IInv, SemAccounting, Base, TypeOK, QueueTypeOK
<1> QED
  BY <1>1, PoolInvariant, PTL

-----------------------------------------------------------------------------
(* The pool of threadpool.c implements FifoPool.                           *)

(* A worker between unlink and free has a node: the NULL branch is dead.   *)
JobInHand ==
    \A w \in Workers : wpc[w] \in {"dec", "unlock", "run", "free"} => job[w] \in Nodes

(* The node a worker unlinks is the head of a list that is not empty.      *)
LEMMA TakesHead ==
  ASSUME IInv, NEW w \in Workers, UnlinkFirst(w)
  PROVE  /\ job_num # 0 /\ Len(fifo) > 0 /\ head = fifo[1] /\ head \in Nodes
         /\ job' = [job EXCEPT ![w] = head] /\ wpc' = [wpc EXCEPT ![w] = "dec"]
         /\ fifo' = Tail(fifo) /\ keepalive' = keepalive
<1> USE DEF IInv, Base
<1>1. wpc[w] = "unlink"
  BY DEF UnlinkFirst
<1>2. w \in Taking /\ Taking \in SUBSET Workers
  BY <1>1 DEF Taking
<1>3. job_num # 0
  <2>1. Cardinality(Taking) \in Nat /\ Cardinality(Taking) # 0
    BY <1>2, WorkerSets
  <2> QED
    BY <2>1 DEF SemAccounting, TypeOK, QueueTypeOK
<1>4. Len(fifo) = job_num
  BY <1>1, ThreadsAssumption DEF ListShape, CountsNodes, MutualExclusion, Workers, MainThread
<1>5. mpc \notin {"drain", "destroyed"}
  BY <1>1 DEF DrainAlone
<1>6. Len(fifo) > 0 /\ fifo # <<>> /\ fifo[1] \in Nodes
  BY <1>3, <1>4, LenFacts DEF TypeOK, QueueTypeOK
<1>7. head = fifo[1]
  BY <1>5, <1>6 DEF ListShape, Represented, Linked
<1> QED
  BY <1>3, <1>6, <1>7 DEF UnlinkFirst, threadpool_job_queue_remove_first

(* Every step of the pool keeps JobInHand: a worker that unlinked a node     *)
(* runs the job of that node and of no other.                               *)
LEMMA JobInHandStep == IInv /\ JobInHand /\ [Next]_vars => JobInHand'
<1> SUFFICES ASSUME IInv, JobInHand, [Next]_vars PROVE JobInHand'
  OBVIOUS
<1> USE DEF JobInHand, IInv, Base, TypeOK, Pointer, mainVars, workerVars
<1>1. CASE CreateThread
  BY <1>1 DEF CreateThread, MainPhase, Workers
<1>2. ASSUME NEW n \in Nodes, AllocNode(n) PROVE JobInHand'
  BY <1>2 DEF AllocNode
<1>3. CASE LockForAdd
  BY <1>3 DEF LockForAdd
<1>4. CASE LinkNode
  BY <1>4 DEF LinkNode
<1>5. CASE CountAndPost
  BY <1>5 DEF CountAndPost
<1>6. CASE UnlockAfterAdd
  BY <1>6 DEF UnlockAfterAdd
<1>7. CASE StopPool
  BY <1>7 DEF StopPool
<1>8. CASE PostForExit
  BY <1>8 DEF PostForExit
<1>9. CASE Join
  BY <1>9 DEF Join
<1>10. CASE threadpool_job_queue_empty
  BY <1>10 DEF threadpool_job_queue_empty
<1>11. ASSUME NEW w \in Workers, threadpool_thread_run(w) PROVE JobInHand'
  <2>1. CASE WhileTest(w)
    BY <2>1 DEF WhileTest
  <2>2. CASE SemWait(w)
    BY <2>2 DEF SemWait
  <2>3. CASE KeepaliveTest(w)
    BY <2>3 DEF KeepaliveTest
  <2>4. CASE LockForTake(w)
    BY <2>4 DEF LockForTake
  <2>5. CASE UnlinkFirst(w)
    BY <2>5, TakesHead
  <2>6. CASE CountDown(w)
    BY <2>6 DEF CountDown
  <2>7. CASE UnlockAfterTake(w)
    BY <2>7 DEF UnlockAfterTake
  <2>8. CASE RunJob(w)
    BY <2>8 DEF RunJob
  <2>9. CASE FreeNode(w)
    BY <2>9 DEF FreeNode
  <2> QED
    BY <1>11, <2>1, <2>2, <2>3, <2>4, <2>5, <2>6, <2>7, <2>8, <2>9 DEF threadpool_thread_run
<1>12. CASE UNCHANGED vars
  BY <1>12 DEF vars
<1> QED
  BY <1>1, <1>2, <1>3, <1>4, <1>5, <1>6, <1>7, <1>8, <1>9, <1>10, <1>11, <1>12
     DEF Next, threadpool_add_work, threadpool_destroy, AfterDestroy

(* At most as many jobs run as there are other workers.                    *)
LEMMA RoomToStart ==
  ASSUME IInv, NEW w \in Workers, wpc[w] = "unlink"
  PROVE  Cardinality(Running) < threads_num
<1> DEFINE S == {v \in Workers : wpc[v] \in {"dec", "unlock", "run"}}
<1> DEFINE f == [v \in S |-> job[v]]
<1>1. S \in SUBSET Workers /\ S \in SUBSET (Workers \ {w})
  OBVIOUS
<1>2. f \in Surjection(S, Running)
  BY DEF Surjection, Running
<1>3. IsFiniteSet(S) /\ Cardinality(S) \in Nat
  BY <1>1, WorkerSets
<1>4. IsFiniteSet(Running) /\ Cardinality(Running) <= Cardinality(S) /\ Cardinality(Running) \in Nat
  <2> HIDE DEF S, f
  <2> QED
    BY <1>2, <1>3, FS_Surjection, FS_CardinalityType
<1>5. Cardinality(S) <= Cardinality(Workers \ {w})
  BY <1>1, WorkerSets, FS_Subset
<1>6. Cardinality(Workers \ {w}) = threads_num - 1
  BY WorkerSets
<1> QED
  BY <1>3, <1>4, <1>5, <1>6, ThreadsAssumption

(* Every step of the pool is a step of the abstract pool or a stutter.     *)
LEMMA RefinementStep == IInv /\ JobInHand /\ [Next]_vars => [Pool!Next]_(Pool!poolVars)
<1> SUFFICES ASSUME IInv, JobInHand, [Next]_vars PROVE [Pool!Next]_(Pool!poolVars)
  OBVIOUS
<1> USE DEF IInv, Base, mainVars, workerVars, queueVars
<1>1. CASE CreateThread
  <2>1. Running' = Running
    BY <1>1 DEF CreateThread, Running, MainPhase, TypeOK, Workers
  <2> QED
    BY <1>1, <2>1 DEF CreateThread, Pool!poolVars
<1>2. ASSUME NEW n \in Nodes, AllocNode(n) PROVE [Pool!Next]_(Pool!poolVars)
  <2>1. Running' = Running
    BY <1>2 DEF AllocNode, Running
  <2> QED
    BY <1>2, <2>1 DEF AllocNode, Pool!poolVars
<1>3. CASE LockForAdd
  <2>1. Running' = Running
    BY <1>3 DEF LockForAdd, Running
  <2> QED
    BY <1>3, <2>1 DEF LockForAdd, Pool!poolVars
<1>4. CASE LinkNode
  <2>1. node \in Nodes /\ keepalive /\ BeingAdded(node)
    BY <1>4 DEF LinkNode, MainPhase, StoppedPC, BeingAdded
  <2>2. \A k \in 1..Len(fifo) : fifo[k] # node
    BY <2>1 DEF SingleOwner, Queued
  <2>3. node \notin Running
    BY <2>1 DEF SingleOwner, Holds, Running
  <2>4. Running' = Running
    BY <1>4 DEF LinkNode, Running
  <2>5. Pool!Submit(node)
    BY <1>4, <2>1, <2>2, <2>3, <2>4 DEF LinkNode, threadpool_job_queue_add, Pool!Submit
  <2> QED
    BY <2>1, <2>5 DEF Pool!Next
<1>5. CASE CountAndPost
  <2>1. Running' = Running
    BY <1>5 DEF CountAndPost, Running
  <2> QED
    BY <1>5, <2>1 DEF CountAndPost, Pool!poolVars
<1>6. CASE UnlockAfterAdd
  <2>1. Running' = Running
    BY <1>6 DEF UnlockAfterAdd, Running
  <2> QED
    BY <1>6, <2>1 DEF UnlockAfterAdd, Pool!poolVars
<1>7. CASE StopPool
  <2>1. Running' = Running
    BY <1>7 DEF StopPool, Running
  <2>2. keepalive
    BY <1>7 DEF StopPool, MainPhase, StoppedPC
  <2> QED
    BY <1>7, <2>1, <2>2 DEF StopPool, Pool!Close, Pool!Next
<1>8. CASE PostForExit
  <2>1. Running' = Running
    BY <1>8 DEF PostForExit, Running
  <2> QED
    BY <1>8, <2>1 DEF PostForExit, Pool!poolVars
<1>9. CASE Join
  <2>1. Running' = Running
    BY <1>9 DEF Join, Running
  <2> QED
    BY <1>9, <2>1 DEF Join, Pool!poolVars
<1>10. CASE threadpool_job_queue_empty
  <2>1. Running' = Running /\ Running = {}
    BY <1>10 DEF threadpool_job_queue_empty, Running, DrainAlone
  <2>2. CASE job_num = 0
    BY <1>10, <2>1, <2>2 DEF threadpool_job_queue_empty, Pool!poolVars
  <2>3. CASE job_num # 0
    <3>1. Len(fifo) = job_num
      BY <1>10, ThreadsAssumption DEF threadpool_job_queue_empty, ListShape, CountsNodes, DrainAlone
    <3>2. fifo # <<>> /\ ~keepalive
      BY <1>10, <2>3, <3>1, LenFacts DEF threadpool_job_queue_empty, MainPhase, StoppedPC, TypeOK, QueueTypeOK
    <3> QED
      BY <1>10, <2>1, <2>3, <3>2 DEF threadpool_job_queue_empty, Pool!Drop, Pool!Next
  <2> QED
    BY <2>2, <2>3
<1>11. ASSUME NEW w \in Workers, threadpool_thread_run(w) PROVE [Pool!Next]_(Pool!poolVars)
  <2>1. CASE WhileTest(w)
    <3>1. Running' = Running
      BY <2>1 DEF WhileTest, Running, TypeOK
    <3> QED
      BY <2>1, <3>1 DEF WhileTest, Pool!poolVars
  <2>2. CASE SemWait(w)
    <3>1. Running' = Running
      BY <2>2 DEF SemWait, Running, TypeOK
    <3> QED
      BY <2>2, <3>1 DEF SemWait, Pool!poolVars
  <2>3. CASE KeepaliveTest(w)
    <3>1. Running' = Running
      BY <2>3 DEF KeepaliveTest, Running, TypeOK
    <3> QED
      BY <2>3, <3>1 DEF KeepaliveTest, Pool!poolVars
  <2>4. CASE LockForTake(w)
    <3>1. Running' = Running
      BY <2>4 DEF LockForTake, Running, TypeOK
    <3> QED
      BY <2>4, <3>1 DEF LockForTake, Pool!poolVars
  <2>5. CASE UnlinkFirst(w)
    <3>1. /\ Len(fifo) > 0 /\ head = fifo[1] /\ head \in Nodes /\ fifo' = Tail(fifo)
          /\ job' = [job EXCEPT ![w] = head] /\ wpc' = [wpc EXCEPT ![w] = "dec"]
          /\ keepalive' = keepalive
      BY <2>5, TakesHead
    <3>2. wpc[w] = "unlink"
      BY <2>5 DEF UnlinkFirst
    <3>3. fifo # <<>> /\ Queued(head)
      BY <3>1, LenFacts DEF TypeOK, QueueTypeOK, Queued
    <3>4. head \notin Running
      BY <3>1, <3>3 DEF SingleOwner, Holds, Running
    <3>5. Running' = Running \cup {head}
      BY <3>1, <3>2 DEF Running, TypeOK
    <3>6. Cardinality(Running) < threads_num
      BY <3>2, RoomToStart
    <3>8. fifo[1] \notin Running /\ Running' = Running \cup {fifo[1]} /\ fifo' = Tail(fifo)
      BY <3>1, <3>4, <3>5
    <3>7. Pool!Start
      BY <3>1, <3>3, <3>6, <3>8 DEF Pool!Start, Pool!Cardinality, Cardinality
    <3> QED
      BY <3>7 DEF Pool!Next
  <2>6. CASE CountDown(w)
    <3>1. Running' = Running
      BY <2>6 DEF CountDown, Running, TypeOK
    <3> QED
      BY <2>6, <3>1 DEF CountDown, Pool!poolVars
  <2>7. CASE UnlockAfterTake(w)
    <3>1. job[w] \in Nodes /\ job[w] # NULL
      BY <2>7, PointersAssumption DEF UnlockAfterTake, JobInHand
    <3>2. wpc' = [wpc EXCEPT ![w] = "run"] /\ job' = job
      BY <2>7, <3>1 DEF UnlockAfterTake
    <3>3. Running' = Running
      BY <2>7, <3>2 DEF UnlockAfterTake, Running, TypeOK
    <3> QED
      BY <2>7, <3>3 DEF UnlockAfterTake, Pool!poolVars
  <2>8. CASE RunJob(w)
    <3>1. wpc[w] = "run" /\ wpc' = [wpc EXCEPT ![w] = "free"] /\ job' = job /\ fifo' = fifo /\ keepalive' = keepalive
      BY <2>8 DEF RunJob
    <3>2. job[w] \in Nodes /\ job[w] \in Running
      BY <3>1 DEF JobInHand, Running
    <3>3. \A v \in Workers : wpc[v] \in {"dec", "unlock", "run"} /\ job[v] = job[w] => v = w
      BY <3>1, <3>2 DEF SingleOwner, Holds
    <3>4. Running' = Running \ {job[w]}
      BY <3>1, <3>3 DEF Running, TypeOK
    <3>5. Pool!Finish(job[w])
      BY <3>1, <3>2, <3>4 DEF Pool!Finish
    <3> QED
      BY <3>2, <3>5 DEF Pool!Next
  <2>9. CASE FreeNode(w)
    <3>1. Running' = Running
      BY <2>9 DEF FreeNode, Running, TypeOK
    <3> QED
      BY <2>9, <3>1 DEF FreeNode, Pool!poolVars
  <2> QED
    BY <1>11, <2>1, <2>2, <2>3, <2>4, <2>5, <2>6, <2>7, <2>8, <2>9 DEF threadpool_thread_run
<1>12. CASE UNCHANGED vars
  BY <1>12 DEF vars, Running, Pool!poolVars
<1> QED
  BY <1>1, <1>2, <1>3, <1>4, <1>5, <1>6, <1>7, <1>8, <1>9, <1>10, <1>11, <1>12
     DEF Next, threadpool_add_work, threadpool_destroy, AfterDestroy

(* threadpool.c implements FifoPool: jobs start in submission order, at    *)
(* most once, never more than threads_num at a time, and the rest is       *)
(* dropped only after the last running job has returned.                   *)
THEOREM PoolImplements == Spec => Implements
<1>1. Init => JobInHand
  BY DEF Init, JobInHand
<1>2. Spec => []JobInHand
  BY <1>1, PoolInvariant, JobInHandStep, PTL DEF Spec
<1>3. Init => Pool!Init
  BY DEF Init, threadpool_job_queue_init, Running, Pool!Init
<1> QED
  BY <1>2, <1>3, PoolInvariant, RefinementStep, PTL DEF Spec, Implements, Pool!Spec
=============================================================================
