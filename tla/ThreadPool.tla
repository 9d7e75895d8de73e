----------------------------- MODULE ThreadPool -----------------------------
(***************************************************************************)
(* The worker pool of proxy_server/threadpool/threadpool.c.  The main      *)
(* thread creates the workers, submits jobs and destroys the pool; the     *)
(* workers wait on a counting semaphore, take the first job under a mutex  *)
(* and run it outside the mutex.  Only the main thread submits: every call *)
(* of threadpool_add_work is made from the event loop of proxy_server.c.   *)
(*                                                                         *)
(* A step is what one thread does between two points at which another      *)
(* thread can see it.  keepalive is a plain int read without the mutex, so *)
(* its two reads in threadpool_thread_run are two steps.  heap records     *)
(* which nodes malloc has handed out; a freed address may be handed out    *)
(* again.                                                                  *)
(***************************************************************************)
EXTENDS JobQueue, FiniteSets

CONSTANT threads_num

ASSUME ThreadsAssumption == threads_num \in Nat \ {0}

VARIABLES keepalive,   \* threadpool_keepalive = 1
          sem,         \* the value of queue_sem
          mutex,       \* the thread that holds the mutex, 0 when none does
          wpc,         \* where each worker is in threadpool_thread_run
          job,         \* each worker's pjob_node
          mpc,         \* where the main thread is
          i,           \* the loop counter of threadpool_init / _destroy
          node,        \* job_node of threadpool_add_work
          cur,         \* current of threadpool_job_queue_empty
          heap         \* "live" for the nodes malloc handed out, else "free"

vars == <<queueVars, keepalive, sem, mutex, wpc, job, mpc, i, node, cur, heap>>

Workers == 1..threads_num
MainThread == threads_num + 1

WorkerPC == {"none", "while", "wait", "check", "lock", "unlink", "dec",
             "unlock", "run", "free", "done"}
MainPC == {"create", "idle", "lock", "link", "post", "unlock",
           "posts", "join", "drain", "destroyed"}

Init ==
    /\ threadpool_job_queue_init
    /\ keepalive = TRUE
    /\ sem = 0
    /\ mutex = 0
    /\ wpc = [w \in Workers |-> "none"]
    /\ job = [w \in Workers |-> NULL]
    /\ mpc = "create"
    /\ i = 0
    /\ node = NULL
    /\ cur = NULL
    /\ heap = [n \in Nodes |-> "free"]

(* The loop counter after one iteration; the next loop starts at 0 again.  *)
NextIndex == IF i + 1 = threads_num THEN 0 ELSE i + 1

workerVars == <<wpc, job>>
mainVars == <<mpc, i, node, cur>>

-----------------------------------------------------------------------------
(* The main thread                                                         *)

(* One iteration of the pthread_create loop of threadpool_init.            *)
CreateThread ==
    /\ mpc = "create"
    /\ wpc' = [wpc EXCEPT ![i + 1] = "while"]
    /\ i' = NextIndex
    /\ mpc' = IF i + 1 = threads_num THEN "idle" ELSE "create"
    /\ UNCHANGED <<queueVars, keepalive, sem, mutex, job, node, cur, heap>>

(* threadpool_add_work up to the mutex: the node is allocated and filled.  *)
AllocNode(n) ==
    /\ mpc = "idle"
    /\ heap[n] = "free"
    /\ heap' = [heap EXCEPT ![n] = "live"]
    /\ next' = [next EXCEPT ![n] = Junk]
    /\ prev' = [prev EXCEPT ![n] = Junk]
    /\ node' = n
    /\ mpc' = "lock"
    /\ UNCHANGED <<head, tail, job_num, fifo, keepalive, sem, mutex,
                   workerVars, i, cur>>

LockForAdd ==
    /\ mpc = "lock"
    /\ mutex = 0
    /\ mutex' = MainThread
    /\ mpc' = "link"
    /\ UNCHANGED <<queueVars, keepalive, sem, workerVars, i, node, cur, heap>>

LinkNode ==
    /\ mpc = "link"
    /\ threadpool_job_queue_add(node)
    /\ mpc' = "post"
    /\ UNCHANGED <<keepalive, sem, mutex, workerVars, i, node, cur, heap>>

(* Slip: the commented-out test of lines 170-171, no post when there are   *)
(* more jobs than threads.                                                 *)
PostUpToThreads ==
    /\ mpc = "post"
    /\ job_num' = job_num + 1
    /\ sem' = IF job_num + 1 <= threads_num THEN sem + 1 ELSE sem
    /\ mpc' = "unlock"
    /\ UNCHANGED <<head, tail, next, prev, fifo, keepalive, mutex, workerVars,
                   i, node, cur, heap>>

(* job_num++ and the sem_post that ends threadpool_job_queue_add.          *)
CountAndPost ==
    /\ mpc = "post"
    /\ job_num' = job_num + 1
    /\ sem' = sem + 1
    /\ mpc' = "unlock"
    /\ UNCHANGED <<head, tail, next, prev, fifo, keepalive, mutex, workerVars,
                   i, node, cur, heap>>

UnlockAfterAdd ==
    /\ mpc = "unlock"
    /\ mutex' = 0
    /\ mpc' = "idle"
    /\ UNCHANGED <<queueVars, keepalive, sem, workerVars, i, node, cur, heap>>

(* Slip: the loop of posts starts at 1.                                    *)
StopPostsOneLess ==
    /\ mpc = "idle"
    /\ keepalive' = FALSE
    /\ mpc' = "posts"
    /\ i' = 1
    /\ UNCHANGED <<queueVars, sem, mutex, workerVars, node, cur, heap>>

(* threadpool_destroy: first the flag, then one post for each worker, then *)
(* the joins in creation order, then the jobs nobody took.                 *)
StopPool ==
    /\ mpc = "idle"
    /\ keepalive' = FALSE
    /\ mpc' = "posts"
    /\ UNCHANGED <<queueVars, sem, mutex, workerVars, i, node, cur, heap>>

(* Slip: the loop of posts runs to i <= threads_num.                       *)
PostOneMore ==
    /\ mpc = "posts"
    /\ sem' = sem + 1
    /\ i' = (i + 1) % (threads_num + 1)
    /\ mpc' = IF i = threads_num THEN "join" ELSE "posts"
    /\ UNCHANGED <<queueVars, keepalive, mutex, workerVars, node, cur, heap>>

PostForExit ==
    /\ mpc = "posts"
    /\ sem' = sem + 1
    /\ i' = NextIndex
    /\ mpc' = IF i + 1 = threads_num THEN "join" ELSE "posts"
    /\ UNCHANGED <<queueVars, keepalive, mutex, workerVars, node, cur, heap>>

(* Slip: the last thread is not joined.                                    *)
JoinAllButLast ==
    /\ mpc = "join"
    /\ i + 1 = threads_num \/ wpc[i + 1] = "done"
    /\ i' = NextIndex
    /\ mpc' = IF i + 1 = threads_num THEN "drain" ELSE mpc
    /\ cur' = IF i + 1 = threads_num THEN head ELSE cur
    /\ UNCHANGED <<queueVars, keepalive, sem, mutex, workerVars, node, heap>>

Join ==
    /\ mpc = "join"
    /\ wpc[i + 1] = "done"
    /\ i' = NextIndex
    /\ \/ /\ i + 1 < threads_num
          /\ UNCHANGED <<mpc, cur>>
       \/ /\ i + 1 = threads_num
          /\ mpc' = "drain"
          /\ cur' = head
    /\ UNCHANGED <<queueVars, keepalive, sem, mutex, workerVars, node, heap>>

(* Slip: the loop frees the list but never counts job_num down.            *)
EmptyNeverCounts ==
    /\ mpc = "drain"
    /\ cur' = IF cur \in Nodes THEN next[cur] ELSE cur
    /\ heap' = [n \in Nodes |-> IF n = cur THEN "free" ELSE heap[n]]
    /\ mpc' = IF job_num = 0 THEN "destroyed" ELSE mpc
    /\ UNCHANGED <<queueVars, keepalive, sem, mutex, workerVars, i, node>>

(* One iteration of threadpool_job_queue_empty, or its end together with   *)
(* the frees of the pool itself.                                           *)
threadpool_job_queue_empty ==
    /\ mpc = "drain"
    /\ \/ /\ job_num # 0
          /\ cur' = next[cur]
          /\ heap' = [heap EXCEPT ![cur] = "free"]
          /\ job_num' = job_num - 1
          /\ fifo' = Tail(fifo)
          /\ UNCHANGED mpc
       \/ /\ job_num = 0
          /\ mpc' = "destroyed"
          /\ UNCHANGED <<cur, heap, job_num, fifo>>
    /\ UNCHANGED <<head, tail, next, prev, keepalive, sem, mutex, workerVars,
                   i, node>>

-----------------------------------------------------------------------------
(* A worker: threadpool_thread_run                                         *)

(* while(threadpool_keepalive == 1); a worker that leaves the loop ends.   *)
(* It first closes the game world socket of its own (_td_sock_id, see      *)
(* SoapBackend), which nothing of the pool depends on.                     *)
WhileTest(w) ==
    /\ wpc[w] = "while"
    /\ wpc' = [wpc EXCEPT ![w] = IF keepalive THEN "wait" ELSE "done"]
    /\ UNCHANGED <<queueVars, keepalive, sem, mutex, job, mainVars, heap>>

(* sem_wait on a semaphore that is there fails only when a signal breaks   *)
(* it off; the handlers are set by signal(), which makes it start again,   *)
(* so the exit behind a failing sem_wait is not reached.                   *)
SemWait(w) ==
    /\ wpc[w] = "wait"
    /\ sem > 0
    /\ sem' = sem - 1
    /\ wpc' = [wpc EXCEPT ![w] = "check"]
    /\ UNCHANGED <<queueVars, keepalive, mutex, job, mainVars, heap>>

(* if(threadpool_keepalive)                                                *)
KeepaliveTest(w) ==
    /\ wpc[w] = "check"
    /\ wpc' = [wpc EXCEPT ![w] = IF keepalive THEN "lock" ELSE "while"]
    /\ UNCHANGED <<queueVars, keepalive, sem, mutex, job, mainVars, heap>>

LockForTake(w) ==
    /\ wpc[w] = "lock"
    /\ mutex = 0
    /\ mutex' = w
    /\ wpc' = [wpc EXCEPT ![w] = "unlink"]
    /\ UNCHANGED <<queueVars, keepalive, sem, job, mainVars, heap>>

(* pfirst_job = head and the switch; an empty queue returns NULL at once.  *)
UnlinkFirst(w) ==
    /\ wpc[w] = "unlink"
    /\ IF job_num = 0
          THEN /\ job' = [job EXCEPT ![w] = NULL]
               /\ wpc' = [wpc EXCEPT ![w] = "unlock"]
               /\ UNCHANGED queueVars
          ELSE /\ job' = [job EXCEPT ![w] = head]
               /\ wpc' = [wpc EXCEPT ![w] = "dec"]
               /\ threadpool_job_queue_remove_first
    /\ UNCHANGED <<keepalive, sem, mutex, mainVars, heap>>

CountDown(w) ==
    /\ wpc[w] = "dec"
    /\ job_num' = job_num - 1
    /\ wpc' = [wpc EXCEPT ![w] = "unlock"]
    /\ UNCHANGED <<head, tail, next, prev, fifo, keepalive, sem, mutex, job,
                   mainVars, heap>>

(* Slip: the commented-out sem_post of line 66.                            *)
UnlockAndPost(w) ==
    /\ wpc[w] = "unlock"
    /\ mutex' = 0
    /\ sem' = sem + 1
    /\ wpc' = [wpc EXCEPT ![w] = IF job[w] = NULL THEN "while" ELSE "run"]
    /\ UNCHANGED <<queueVars, keepalive, job, mainVars, heap>>

(* The unlock and the test of pjob_node that follows it.                   *)
UnlockAfterTake(w) ==
    /\ wpc[w] = "unlock"
    /\ mutex' = 0
    /\ wpc' = [wpc EXCEPT ![w] = IF job[w] = NULL THEN "while" ELSE "run"]
    /\ UNCHANGED <<queueVars, keepalive, sem, job, mainVars, heap>>

(* function(argv) returns.  What it does is the subject of other modules.  *)
RunJob(w) ==
    /\ wpc[w] = "run"
    /\ wpc' = [wpc EXCEPT ![w] = "free"]
    /\ UNCHANGED <<queueVars, keepalive, sem, mutex, job, mainVars, heap>>

(* Slip: the node is not freed.                                            *)
ForgetNode(w) ==
    /\ wpc[w] = "free"
    /\ job' = [job EXCEPT ![w] = NULL]
    /\ wpc' = [wpc EXCEPT ![w] = "while"]
    /\ UNCHANGED <<queueVars, keepalive, sem, mutex, mainVars, heap>>

FreeNode(w) ==
    /\ wpc[w] = "free"
    /\ heap' = [heap EXCEPT ![job[w]] = "free"]
    /\ job' = [job EXCEPT ![w] = NULL]
    /\ wpc' = [wpc EXCEPT ![w] = "while"]
    /\ UNCHANGED <<queueVars, keepalive, sem, mutex, mainVars>>

-----------------------------------------------------------------------------

threadpool_thread_run(w) ==
    \/ WhileTest(w)
    \/ SemWait(w)
    \/ KeepaliveTest(w)
    \/ LockForTake(w)
    \/ UnlinkFirst(w)
    \/ CountDown(w)
    \/ UnlockAfterTake(w)
    \/ RunJob(w)
    \/ FreeNode(w)

threadpool_add_work ==
    \/ \E n \in Nodes : AllocNode(n)
    \/ LockForAdd
    \/ LinkNode
    \/ CountAndPost
    \/ UnlockAfterAdd

threadpool_destroy ==
    \/ StopPool
    \/ PostForExit
    \/ Join
    \/ threadpool_job_queue_empty

(* The process goes on without the pool once threadpool_destroy returned.  *)
AfterDestroy ==
    /\ mpc = "destroyed"
    /\ UNCHANGED vars

Next ==
    \/ CreateThread
    \/ threadpool_add_work
    \/ threadpool_destroy
    \/ AfterDestroy
    \/ \E w \in Workers : threadpool_thread_run(w)

Spec == Init /\ [][Next]_vars

(* Every thread that can go on does, and the functions the workers run     *)
(* return.  Nobody has to submit a job or to stop the pool.                *)
Fairness ==
    /\ \A w \in Workers : WF_vars(threadpool_thread_run(w))
    /\ WF_vars(CreateThread)
    /\ WF_vars(LockForAdd \/ LinkNode \/ CountAndPost \/ UnlockAfterAdd)
    /\ WF_vars(PostForExit \/ Join \/ threadpool_job_queue_empty)

FairSpec == Spec /\ Fairness

-----------------------------------------------------------------------------
(* Correctness                                                             *)

(* The type of every variable.                                             *)
TypeOK ==
    /\ QueueTypeOK
    /\ keepalive \in BOOLEAN
    /\ sem \in Nat
    /\ mutex \in 0..MainThread
    /\ wpc \in [Workers -> WorkerPC]
    /\ job \in [Workers -> Pointer]
    /\ mpc \in MainPC
    /\ i \in 0..(threads_num - 1)
    /\ node \in Pointer
    /\ cur \in Pointer \cup {Junk}
    /\ heap \in [Nodes -> {"free", "live"}]

(* The mutex is held by exactly the thread that is between its lock and    *)
(* its unlock, so no two threads are inside the list operations at once.   *)
MutualExclusion ==
    /\ \A w \in Workers : wpc[w] \in {"unlink", "dec", "unlock"} <=> mutex = w
    /\ mpc \in {"link", "post", "unlock"} <=> mutex = MainThread

StoppedPC == {"posts", "join", "drain", "destroyed"}

(* The main thread's loops have done what their counter says: the workers  *)
(* not yet created have not started, the joined ones have ended, and       *)
(* keepalive is cleared exactly when threadpool_destroy has begun.         *)
MainPhase ==
    /\ mpc = "create" => \A w \in Workers : w > i => wpc[w] = "none"
    /\ mpc = "join" => \A w \in Workers : w <= i => wpc[w] = "done"
    /\ mpc \in {"idle", "lock", "link", "post", "unlock"} => i = 0
    /\ keepalive <=> mpc \notin StoppedPC
    /\ mpc \in {"lock", "link"} => node \in Nodes

(* job_num, on which add, remove_first and empty all branch, is the length *)
(* of the list but for the thread in the critical section that has linked  *)
(* or unlinked a node and not yet counted it.                              *)
CountsNodes ==
    Len(fifo) = IF mpc = "post" THEN job_num + 1
                ELSE IF mutex \in Workers /\ wpc[mutex] = "dec" THEN job_num - 1
                ELSE job_num

(* The pointers represent fifo: from head in both directions while the     *)
(* pool lives, from current forwards while threadpool_job_queue_empty runs.*)
Represented ==
    /\ NoRepeats(fifo)
    /\ mpc \in {"drain", "destroyed"} => Linked(fifo, cur)
    /\ mpc \notin {"drain", "destroyed"} => /\ Linked(fifo, head)
                                            /\ BackLinked(fifo)
                                            /\ EndsAt(fifo, tail)

(* The pointers of the queue represent the jobs submitted and not yet      *)
(* taken, in submission order, at every interleaving of submissions, takes *)
(* and the final drain: nothing is lost, linked twice or reachable after   *)
(* it was unlinked.                                                        *)
ListShape == CountsNodes /\ Represented

(* The nodes worker w has unlinked and not yet freed.                      *)
Holds(w, n) == wpc[w] \in {"dec", "unlock", "run", "free"} /\ job[w] = n

Queued(n) == \E k \in 1..Len(fifo) : fifo[k] = n

BeingAdded(n) == mpc \in {"lock", "link"} /\ node = n

(* Every allocated node has one owner, the submitter, the queue or one     *)
(* worker, and every owned node is allocated: no job runs twice, no node   *)
(* is freed twice, used after its free, or leaked.                         *)
SingleOwner ==
    \A n \in Nodes :
        /\ heap[n] = "live" <=> BeingAdded(n) \/ Queued(n) \/ \E w \in Workers : Holds(w, n)
        /\ ~(BeingAdded(n) /\ Queued(n))
        /\ \A w \in Workers : Holds(w, n) =>
              /\ ~BeingAdded(n) /\ ~Queued(n)
              /\ \A v \in Workers : Holds(v, n) => v = w

Woken  == {w \in Workers : wpc[w] = "check"}
Taking == {w \in Workers : wpc[w] \in {"lock", "unlink", "dec"}}

(* While the pool is open the posts not yet consumed and the workers they  *)
(* woke stand for the queued jobs one to one; workers that already chose   *)
(* to take a job when the pool was stopped still have one each.            *)
SemAccounting ==
    /\ keepalive => sem + Cardinality(Woken) + Cardinality(Taking) = job_num
    /\ Cardinality(Taking) <= job_num

(* A worker that holds the mutex to take a job finds one: the NULL branch  *)
(* of threadpool_job_queue_remove_first is never taken, also when a stop   *)
(* races with the wake-up.                                                 *)
NoEmptyTake == \A w \in Workers : wpc[w] = "unlink" => job_num # 0

Waiting == {w \in Workers : wpc[w] = "wait"}

(* Once the pool is stopped the posts made and still to be made suffice to *)
(* wake every worker that is blocked in sem_wait or about to be.           *)
ExitTokens ==
    ~keepalive => Cardinality(Waiting)
                     <= sem + (IF mpc = "posts" THEN threads_num - i ELSE 0)

(* No worker is still running when threadpool_destroy frees the queue.     *)
DrainAlone ==
    mpc \in {"drain", "destroyed"} => \A w \in Workers : wpc[w] = "done"

(* A queued job does not stay queued: a worker takes it, or the pool is    *)
(* destroyed and drops it.                                                 *)
JobLeavesQueue == \A n \in Nodes : Queued(n) ~> ~Queued(n)

(* threadpool_destroy, once called, returns: no worker is left blocked in  *)
(* sem_wait and the joins end.                                             *)
StopCompletes == ~keepalive ~> mpc = "destroyed"

(* What the pool promises: FifoPool, with a job running from the unlink of *)
(* its node until its function returns.                                    *)
Running == {job[w] : w \in {v \in Workers : wpc[v] \in {"dec", "unlock", "run"}}}

Pool == INSTANCE FifoPool WITH Jobs <- Nodes, Capacity <- threads_num,
                               queued <- fifo, running <- Running, open <- keepalive

Implements == Pool!Spec
=============================================================================
