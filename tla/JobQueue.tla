------------------------------ MODULE JobQueue ------------------------------
(***************************************************************************)
(* The job queue of proxy_server/threadpool/threadpool.c: a doubly linked  *)
(* list of heap nodes with head and tail pointers and a counter, job_num,  *)
(* on which both list operations branch.                                   *)
(*                                                                         *)
(* Each C function is split where the branch on job_num and the pointer    *)
(* writes end and the counter update begins, so that two threads that are  *)
(* inside the functions at once can see each other's half-done work.  The  *)
(* mutex that forbids it is in ThreadPool.                                 *)
(*                                                                         *)
(* fifo is a history variable: the nodes in the order they were linked and *)
(* not yet unlinked.  No guard reads it; ThreadPool's ListShape says that  *)
(* the pointers represent it.                                              *)
(***************************************************************************)
EXTENDS Naturals, Sequences

CONSTANTS Nodes,   \* addresses malloc can return for a threadpool_job_node
          NULL,    \* the null pointer
          Junk     \* contents of a freshly allocated, unwritten field

ASSUME PointersAssumption == NULL \notin Nodes /\ Junk \notin Nodes \cup {NULL}

VARIABLES head, tail, job_num, next, prev, fifo

queueVars == <<head, tail, job_num, next, prev, fifo>>

Pointer == Nodes \cup {NULL}

threadpool_job_queue_init ==
    /\ head = NULL
    /\ tail = NULL
    /\ job_num = 0
    /\ next = [n \in Nodes |-> Junk]
    /\ prev = [n \in Nodes |-> Junk]
    /\ fifo = <<>>

-----------------------------------------------------------------------------

(* Slip: the default branch forgets to move tail.                          *)
AddForgetsTail(n) ==
    /\ IF job_num = 0
          THEN /\ head' = n
               /\ tail' = n
               /\ next' = [next EXCEPT ![n] = NULL]
               /\ prev' = [prev EXCEPT ![n] = NULL]
          ELSE /\ next' = [next EXCEPT ![n] = NULL, ![tail] = n]
               /\ prev' = [prev EXCEPT ![n] = tail]
               /\ UNCHANGED <<head, tail>>
    /\ fifo' = Append(fifo, n)
    /\ UNCHANGED job_num

(* Slip: the new node is pushed at the front.                              *)
AddAtFront(n) ==
    /\ next' = [next EXCEPT ![n] = head]
    /\ prev' = [prev EXCEPT ![n] = NULL]
    /\ head' = n
    /\ tail' = IF job_num = 0 THEN n ELSE tail
    /\ fifo' = Append(fifo, n)
    /\ UNCHANGED job_num

(* threadpool_job_queue_add up to the end of its switch: the node is       *)
(* linked behind tail, or becomes the only node when job_num says empty.   *)
threadpool_job_queue_add(n) ==
    /\ \/ /\ job_num = 0
          /\ head' = n
          /\ next' = [next EXCEPT ![n] = NULL]
          /\ prev' = [prev EXCEPT ![n] = NULL]
       \/ /\ job_num # 0
          /\ next' = [next EXCEPT ![n] = NULL, ![tail] = n]
          /\ prev' = [prev EXCEPT ![n] = tail]
          /\ UNCHANGED head
    /\ tail' = n
    /\ fifo' = Append(fifo, n)
    /\ UNCHANGED job_num

(* The switch of threadpool_job_queue_remove_first for a non-empty queue;  *)
(* the node removed is the one head points to before the step.             *)
threadpool_job_queue_remove_first ==
    /\ \/ /\ job_num = 1
          /\ head' = NULL
          /\ tail' = NULL
          /\ UNCHANGED prev
       \/ /\ job_num > 1
          /\ prev' = [prev EXCEPT ![next[head]] = NULL]
          /\ head' = next[head]
          /\ UNCHANGED tail
    /\ fifo' = Tail(fifo)
    /\ UNCHANGED <<next, job_num>>

-----------------------------------------------------------------------------

(* The list the program would walk from first is s, front to back.         *)
Linked(s, first) ==
    /\ first = IF s = <<>> THEN NULL ELSE s[1]
    /\ \A k \in 1..Len(s) : next[s[k]] = IF k = Len(s) THEN NULL ELSE s[k + 1]

(* The prev pointers mirror the next pointers.                             *)
BackLinked(s) ==
    \A k \in 1..Len(s) : prev[s[k]] = IF k = 1 THEN NULL ELSE s[k - 1]

(* tail is the end of s.  When s is empty the code never reads tail.       *)
EndsAt(s, last) == s # <<>> => last = s[Len(s)]

(* No node is linked twice.                                                *)
NoRepeats(s) == \A k, m \in 1..Len(s) : s[k] = s[m] => k = m

QueueTypeOK ==
    /\ head \in Pointer
    /\ tail \in Pointer
    /\ job_num \in Nat
    /\ next \in [Nodes -> Pointer \cup {Junk}]
    /\ prev \in [Nodes -> Pointer \cup {Junk}]
    /\ fifo \in Seq(Nodes)
=============================================================================
