------------------------------ MODULE FifoPool ------------------------------
(***************************************************************************)
(* What threadpool.h promises to the event loop, without semaphore, mutex, *)
(* list or heap: jobs start in the order they were submitted, at most      *)
(* Capacity run at once, each submission starts at most once, and when the *)
(* pool closes the jobs that were not started are dropped, but only after  *)
(* the last running one has returned.                                      *)
(***************************************************************************)
EXTENDS Naturals, Sequences, FiniteSets

CONSTANTS Jobs, Capacity

VARIABLES queued, running, open

poolVars == <<queued, running, open>>

Init ==
    /\ queued = <<>>
    /\ running = {}
    /\ open = TRUE

Submit(j) ==
    /\ open
    /\ j \notin running
    /\ \A k \in 1..Len(queued) : queued[k] # j
    /\ queued' = Append(queued, j)
    /\ UNCHANGED <<running, open>>

Start ==
    /\ queued # <<>>
    /\ Cardinality(running) < Capacity
    /\ queued[1] \notin running
    /\ running' = running \cup {queued[1]}
    /\ queued' = Tail(queued)
    /\ UNCHANGED open

Finish(j) ==
    /\ j \in running
    /\ running' = running \ {j}
    /\ UNCHANGED <<queued, open>>

Close ==
    /\ open
    /\ open' = FALSE
    /\ UNCHANGED <<queued, running>>

Drop ==
    /\ ~open
    /\ running = {}
    /\ queued # <<>>
    /\ queued' = Tail(queued)
    /\ UNCHANGED <<running, open>>

Next ==
    \/ \E j \in Jobs : Submit(j) \/ Finish(j)
    \/ Start
    \/ Close
    \/ Drop

Spec == Init /\ [][Next]_poolVars
=============================================================================
