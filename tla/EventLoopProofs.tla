--------------------------- MODULE EventLoopProofs ---------------------------
(***************************************************************************)
(* The life of client connections for any number of clients, descriptors,  *)
(* cells, workers and requests, when the setting is orderly: no client     *)
(* closes before the proxy has finished with it, or there is one worker    *)
(* and no reset follows a close.                                           *)
(***************************************************************************)
EXTENDS EventLoop, FiniteSetTheorems, SequenceTheorems, TLAPS

Patient == setting.closeWhen = "quiet" /\ setting.resetFrom = {}

Single == (\A v, w \in setting.workers : v = w) /\ setting.resetFrom \subseteq {"open"}

Orderly == Patient \/ Single

-----------------------------------------------------------------------------
(* The inductive invariant                                                 *)

(* The types, without the bounds on what is counted.                       *)
LoopTypes ==
    /\ setting \in Settings
    /\ peer \in [Sessions -> {"none", "open", "closed", "reset", "gone"}]
    /\ ready \subseteq Sessions \cup {"listen"}
    /\ file \in [Fds -> Sessions \cup {None}]
    /\ watch \in [Sessions -> Conns \cup {None}]
    /\ live \subseteq Conns
    /\ sock_fd \in [Conns -> Fds \cup {None}]
    /\ mpc \in {"wait", "accept", "events"}
    /\ batch \subseteq Event \cup {ListenEvent}
    /\ mpc = "wait" => batch = {}
    /\ jobs \in Seq(Job)
    /\ work \in [Workers -> Task \cup {Idle}]
    /\ \A w \in Workers : work[w] # Idle => w \in setting.workers
    /\ stalled \subseteq Sessions
    /\ unwatched \subseteq Conns

(* The client events of the batch.                                         *)
Events == batch \ {ListenEvent}

(* A registered session, its cell and its descriptor name each other.      *)
Bound(s) ==
    /\ watch[s] \in live
    /\ sock_fd[watch[s]] \in Fds
    /\ file[sock_fd[watch[s]]] = s
    /\ peer[s] \in {"open", "closed", "reset"}

Closing(w) == work[w] # Idle /\ work[w].pc = "free"

(* The session was accepted for f, and epoll does not know it.             *)
Lost(f) == watch[file[f]] = None /\ \E a \in unwatched : sock_fd[a] = f

Registered ==
    /\ \A s \in Sessions : watch[s] # None => Bound(s)
    /\ \A f \in Fds : file[f] # None =>
         \/ watch[file[f]] # None /\ sock_fd[watch[file[f]]] = f
         \/ Lost(f)
    /\ \A a \in live \ unwatched : \/ \E s \in Sessions : watch[s] = a
                                   \/ \E w \in Workers : Closing(w) /\ work[w].conn = a

(* A cell that epoll does not know keeps its descriptor for ever.          *)
LostInv ==
    \A a \in unwatched :
        /\ a \in live
        /\ \A s \in Sessions : watch[s] # a
        /\ \A w \in Workers : Closing(w) => work[w].conn # a
        /\ sock_fd[a] \in Fds
        /\ file[sock_fd[a]] # None
        /\ watch[file[sock_fd[a]]] = None

RegInv == Registered /\ LostInv

(* What an event, a job or a worker refers to is still registered,         *)
Working(w) == work[w] # Idle /\ work[w].pc # "free"

RefInv ==
    /\ \A e \in Events : watch[e.for] = e.conn
    /\ \A k \in 1..Len(jobs) : watch[jobs[k].for] = jobs[k].conn
    /\ \A w \in Workers : Working(w) => watch[work[w].for] = work[w].conn
    /\ \A w \in Workers : Working(w) /\ work[w].pc # "start" => work[w].fd = sock_fd[work[w].conn]

(* but for a worker between close and free, who alone has the cell.        *)
CloseInv ==
    \A w \in Workers : Closing(w) =>
        /\ work[w].conn \in live
        /\ peer[work[w].for] = "gone"
        /\ \A s \in Sessions : watch[s] # work[w].conn
        /\ \A v \in Workers : Closing(v) /\ work[v].conn = work[w].conn => v = w

(* The session has ended and epoll will not report it again.               *)
Leaving(s) == peer[s] \in {"closed", "reset"} /\ s \notin ready

Parting(e) == "EPOLLRDHUP" \in e.events

NoEvent(s) == \A e \in Events : e.for # s
NoJob(s) == \A k \in 1..Len(jobs) : jobs[k].for # s

(* What leads to the free of a cell is the last thing that refers to it.   *)
LastInv ==
    /\ \A e \in Events : Parting(e) => Leaving(e.for)
    /\ \A d, e \in Events : d.for = e.for => d = e
    /\ \A k \in 1..Len(jobs) : jobs[k].op = "free_sockConn_func" =>
         /\ Leaving(jobs[k].for)
         /\ NoEvent(jobs[k].for)
         /\ \A j \in 1..Len(jobs) : jobs[j].for = jobs[k].for => j <= k
    /\ \A w \in Workers : Working(w) /\ work[w].op = "free_sockConn_func" =>
         /\ Leaving(work[w].for)
         /\ NoEvent(work[w].for)
         /\ NoJob(work[w].for)
         /\ \A v \in Workers : Working(v) /\ work[v].for = work[w].for => v = w

(* With patient clients nothing else refers to one that has closed.        *)
PatientInv ==
    Patient => \A s \in Sessions : peer[s] \in {"closed", "reset"} =>
        /\ \A e \in Events : e.for = s => Parting(e)
        /\ \A k \in 1..Len(jobs) : jobs[k].for = s => jobs[k].op = "free_sockConn_func"
        /\ \A w \in Workers : Working(w) /\ work[w].for = s => work[w].op = "free_sockConn_func"

(* A request is waiting, in the hands of a worker, answered or lost.       *)
Answering(s) == {w \in Workers : Working(w) /\ work[w].pc = "answer" /\ work[w].for = s}

AnswerInv ==
    /\ unread \in [Sessions -> Nat]
    /\ answered \in [Sessions -> Nat]
    /\ sent \in [Sessions -> 0..MaxRequests]
    /\ \A s \in Sessions : answered[s] + unread[s] + Cardinality(Answering(s)) <= sent[s]

LoopInv ==
    /\ Orderly /\ LoopTypes /\ RegInv /\ RefInv /\ CloseInv
    /\ LastInv /\ PatientInv /\ AnswerInv

-----------------------------------------------------------------------------
(* What the types say of an event, a job and a task.                       *)

LEMMA EventFacts ==
    ASSUME LoopTypes, NEW e \in Events
    PROVE  /\ e \in Event /\ e.conn \in Conns /\ e.for \in Sessions
           /\ Parting(e) <=> ("EPOLLERR" \in e.events \/ {"EPOLLIN", "EPOLLRDHUP"} \subseteq e.events)
  BY DEF LoopTypes, Events, Event, Parting

LEMMA JobFacts ==
    ASSUME LoopTypes, NEW k \in 1..Len(jobs)
    PROVE  /\ jobs[k] \in Job /\ jobs[k].conn \in Conns /\ jobs[k].for \in Sessions
           /\ jobs[k].op \in {"read_sock_func", "free_sockConn_func"}
  <1>1. jobs[k] \in Job
    BY DEF LoopTypes
  <1> QED
    BY <1>1 DEF Job

LEMMA TaskFacts ==
    ASSUME LoopTypes, NEW w \in Workers, work[w] # Idle
    PROVE  /\ work[w] \in Task /\ work[w].conn \in Conns /\ work[w].for \in Sessions
           /\ work[w].op \in {"read_sock_func", "free_sockConn_func"}
           /\ work[w].pc \in {"start", "loop", "answer", "end", "free"}
           /\ work[w].op = "read_sock_func" => work[w].pc # "free"
           /\ work[w].op = "free_sockConn_func" => work[w].pc \in {"start", "free"}
  <1>1. work[w] \in Task
    BY DEF LoopTypes
  <1> QED
    BY <1>1 DEF Task

(* Every reference is to a session.                                        *)
LEMMA Refs ==
    ASSUME LoopTypes
    PROVE  /\ \A e \in Events : e.for \in Sessions
           /\ \A k \in 1..Len(jobs) : jobs[k].for \in Sessions
           /\ \A w \in Workers : Working(w) \/ Closing(w) => work[w].for \in Sessions
  BY EventFacts, JobFacts, TaskFacts DEF Working, Closing

(* A worker that runs a function has a task.                               *)
LEMMA NotIdle ==
    ASSUME NEW w \in Workers, work[w].op \in {"read_sock_func", "free_sockConn_func"}
    PROVE  work[w] # Idle
  BY DEF Idle

(* Two sessions never share a cell.                                        *)
LEMMA WatchInjective ==
    ASSUME RegInv, NEW s \in Sessions, NEW t \in Sessions, watch[s] = watch[t], watch[s] # None
    PROVE  s = t
  <1>1. Bound(s) /\ Bound(t)
    BY DEF RegInv, Registered
  <1> QED
    BY <1>1 DEF Bound

(* A cell that epoll does not know is allocated.                           *)
LEMMA Lively == ASSUME RegInv PROVE unwatched \subseteq live
  BY DEF RegInv, LostInv

(* Steps that register nothing and close nothing.                          *)
LEMMA RegKept ==
    ASSUME RegInv, UNCHANGED <<file, watch, sock_fd, unwatched>>, live' \subseteq live, unwatched \subseteq live',
           \A s \in Sessions : Bound(s) => Bound(s)',
           \A a \in live' : (\E w \in Workers : Closing(w) /\ work[w].conn = a)
                               => \E w \in Workers : Closing(w)' /\ work'[w].conn = a,
           \A w \in Workers : Closing(w)' => Closing(w) /\ work'[w].conn = work[w].conn
    PROVE  RegInv'
  <1>1. Registered'
    <2>1. \A f \in Fds : Lost(f)' <=> Lost(f)
      BY DEF Lost
    <2> QED
      BY <2>1 DEF RegInv, Registered
  <1>2. LostInv'
    BY DEF RegInv, LostInv
  <1> QED
    BY <1>1, <1>2 DEF RegInv

(* Finitely many workers are answering.                                    *)
LEMMA AnsweringFinite ==
    ASSUME NEW s
    PROVE  IsFiniteSet(Answering(s)) /\ Cardinality(Answering(s)) \in Nat
  <1>1. Answering(s) \subseteq Workers /\ IsFiniteSet(Workers)
    BY LoopAssumption DEF Answering
  <1> QED
    BY <1>1, FS_Subset, FS_CardinalityType

-----------------------------------------------------------------------------
(* Init                                                                    *)

LEMMA LoopInitInv == ASSUME Init, Orderly PROVE LoopInv
  <1>1. LoopTypes
    <2>1. jobs \in Seq(Job)
      BY DEF Init
    <2> QED
      BY <2>1, LoopAssumption DEF Init, LoopTypes
  <1>2. \A w \in Workers : ~Working(w) /\ ~Closing(w)
    BY DEF Init, Working, Closing
  <1>3. RegInv /\ CloseInv
    BY <1>2, LoopAssumption DEF Init, RegInv, Registered, LostInv, CloseInv
  <1>4. Len(jobs) = 0 /\ Events = {}
    BY DEF Init, Events
  <1>5. RefInv /\ LastInv /\ PatientInv
    <2>1. 1..Len(jobs) = {}
      BY <1>4
    <2> QED
      BY <1>2, <1>4, <2>1 DEF RefInv, LastInv, PatientInv
  <1>6. AnswerInv
    <2>1. \A s \in Sessions : Answering(s) = {}
      BY <1>2 DEF Answering
    <2>2. \A s \in Sessions : Cardinality(Answering(s)) = 0
      BY <2>1, FS_EmptySet
    <2> QED
      BY <2>2, LoopAssumption DEF Init, AnswerInv
  <1> QED
    BY <1>1, <1>3, <1>5, <1>6 DEF LoopInv

-----------------------------------------------------------------------------
(* What clients do                                                         *)

(* A client that connects, sends, closes or aborts was not leaving before, *)
(* so nothing that frees its cell is under way.                            *)
LEMMA ClientInv ==
    ASSUME LoopInv, AnswerInv', NEW s \in Sessions, NEW r \in {s, "listen"},
           NEW p \in {"open", "closed", "reset"},
           peer[s] \in {"none", "open"}, peer' = [peer EXCEPT ![s] = p], ready' = ready \cup {r},
           stalled' \subseteq Sessions,
           UNCHANGED <<setting, file, watch, live, sock_fd, unwatched, mpc, batch, jobs, work>>,
           Patient /\ p # "open" => NoEvent(s) /\ NoJob(s) /\ \A w \in Workers : Working(w) => work[w].for # s
    PROVE  LoopInv'
  <1>0. LoopTypes /\ RegInv /\ RefInv /\ CloseInv /\ LastInv /\ PatientInv /\ Orderly
    BY DEF LoopInv
  <1>1. LoopTypes' /\ Orderly' /\ (Patient' <=> Patient)
    BY <1>0 DEF LoopTypes, Orderly, Patient, Single
  <1>2. \A w \in Workers : (Working(w)' <=> Working(w)) /\ (Closing(w)' <=> Closing(w))
    BY DEF Working, Closing
  <1>3. peer'[s] = p /\ \A t \in Sessions : t # s => peer'[t] = peer[t]
    BY <1>0 DEF LoopTypes
  <1>4. Events' = Events
    BY DEF Events
  <1>5. RegInv'
    <2>1. \A t \in Sessions : Bound(t) => Bound(t)'
      BY <1>3 DEF Bound
    <2> QED
      BY <1>0, <1>2, <2>1, RegKept, Lively
  <1>6. RefInv'
    BY <1>0, <1>2, <1>4 DEF RefInv
  <1>7. CloseInv'
    <2>1. \A t \in Sessions : peer[t] = "gone" => peer'[t] = "gone"
      BY <1>3
    <2> QED
      BY <1>0, <1>2, <2>1, Refs DEF CloseInv
  <1>8. \A t \in Sessions : /\ Leaving(t) => Leaving(t)'
                            /\ (NoEvent(t)' <=> NoEvent(t)) /\ (NoJob(t)' <=> NoJob(t))
    BY <1>3, <1>4, LoopAssumption DEF Leaving, NoEvent, NoJob
  <1>9. LastInv'
    BY <1>0, <1>2, <1>4, <1>8, Refs DEF LastInv, Parting
  <1>10. PatientInv'
    <2> SUFFICES ASSUME Patient, NEW t \in Sessions, peer'[t] \in {"closed", "reset"}
                 PROVE  /\ \A e \in Events : e.for = t => Parting(e)
                        /\ \A k \in 1..Len(jobs) : jobs[k].for = t => jobs[k].op = "free_sockConn_func"
                        /\ \A w \in Workers : Working(w) /\ work[w].for = t => work[w].op = "free_sockConn_func"
      BY <1>1, <1>2, <1>4 DEF PatientInv, Parting
    <2>1. CASE t = s
      BY <1>3, <2>1 DEF NoEvent, NoJob
    <2>2. CASE t # s
      BY <1>0, <1>3, <2>2 DEF PatientInv
    <2> QED
      BY <2>1, <2>2
  <1> QED
    BY <1>1, <1>5, <1>6, <1>7, <1>9, <1>10 DEF LoopInv

LEMMA ClientStepInv ==
    ASSUME LoopInv, NEW s \in Sessions, Connect(s) \/ Send(s) \/ Close(s) \/ Reset(s)
    PROVE  LoopInv'
  <1>0. /\ LoopTypes /\ AnswerInv /\ Orderly
        /\ \A t \in Sessions : Answering(t)' = Answering(t)
        /\ UNCHANGED <<setting, answered, file, watch, live, sock_fd, unwatched, mpc, batch, jobs, work>>
        /\ stalled' \subseteq Sessions
    BY DEF LoopInv, LoopTypes, Connect, Send, Close, Reset, connVars, Answering, Working
  <1>1. \A t \in Sessions : Cardinality(Answering(t)) \in Nat
    BY AnsweringFinite
  <1>2. CASE Connect(s)
    <2>1. AnswerInv'
      BY <1>0, <1>2 DEF Connect, AnswerInv
    <2> QED
      BY <1>0, <1>2, <2>1, ClientInv DEF Connect
  <1>3. CASE Send(s)
    <2>1. AnswerInv'
      <3>1. /\ sent' = [sent EXCEPT ![s] = @ + 1] /\ unread' = [unread EXCEPT ![s] = @ + 1]
            /\ sent[s] < setting.requests /\ setting \in Settings
        BY <1>0, <1>3 DEF Send, LoopTypes
      <3>a. setting.requests \in 0..MaxRequests /\ MaxRequests \in Nat
        BY <3>1, LoopAssumption
      <3>2. sent' \in [Sessions -> 0..MaxRequests] /\ unread' \in [Sessions -> Nat] /\ answered' \in [Sessions -> Nat]
        BY <1>0, <3>1, <3>a DEF AnswerInv
      <3>3. \A t \in Sessions : answered'[t] + unread'[t] + Cardinality(Answering(t))' <= sent'[t]
        <4> TAKE t \in Sessions
        <4>1. /\ answered'[t] = answered[t] /\ Cardinality(Answering(t))' = Cardinality(Answering(t))
              /\ answered[t] \in Nat /\ unread[t] \in Nat /\ sent[t] \in Nat
              /\ answered[t] + unread[t] + Cardinality(Answering(t)) <= sent[t]
          BY <1>0, LoopAssumption DEF AnswerInv
        <4>2. \/ unread'[t] = unread[t] /\ sent'[t] = sent[t]
              \/ unread'[t] = unread[t] + 1 /\ sent'[t] = sent[t] + 1
          BY <1>0, <3>1 DEF AnswerInv
        <4> QED
          BY <1>1, <4>1, <4>2
      <3> QED
        BY <3>2, <3>3 DEF AnswerInv
    <2>2. peer' = [peer EXCEPT ![s] = "open"]
      BY <1>0, <1>3 DEF Send, LoopTypes
    <2> QED
      BY <1>0, <1>3, <2>1, <2>2, ClientInv DEF Send
  <1>4. CASE Close(s)
    <2>1. AnswerInv'
      BY <1>0, <1>4 DEF Close, AnswerInv
    <2>2. Patient => NoEvent(s) /\ NoJob(s) /\ \A w \in Workers : Working(w) => work[w].for # s
      BY <1>0, <1>4 DEF Close, Quiet, Patient, NoEvent, NoJob, Working, Events
    <2> QED
      BY <1>0, <1>4, <2>1, <2>2, ClientInv DEF Close
  <1>5. CASE Reset(s)
    <2>1. AnswerInv'
      <3>1. \A t \in Sessions : answered'[t] + unread'[t] + Cardinality(Answering(t))' <= sent'[t]
        <4> TAKE t \in Sessions
        <4>1. /\ answered'[t] = answered[t] /\ Cardinality(Answering(t))' = Cardinality(Answering(t))
              /\ answered[t] \in Nat /\ unread[t] \in Nat /\ sent[t] \in Nat /\ sent'[t] = sent[t]
              /\ answered[t] + unread[t] + Cardinality(Answering(t)) <= sent[t]
          BY <1>0, <1>5, LoopAssumption DEF AnswerInv, Reset
        <4>2. unread'[t] = unread[t] \/ unread'[t] = 0
          BY <1>0, <1>5 DEF AnswerInv, Reset
        <4> QED
          BY <1>1, <4>1, <4>2
      <3> QED
        BY <1>0, <1>5, <3>1 DEF AnswerInv, Reset
    <2>2. ~Patient /\ peer[s] = "open"
      BY <1>0, <1>5 DEF Reset, Orderly, Patient, Single
    <2> QED
      BY <1>0, <1>5, <2>1, <2>2, ClientInv DEF Reset
  <1> QED
    BY <1>2, <1>3, <1>4, <1>5

-----------------------------------------------------------------------------
(* The main thread                                                         *)

(* Steps that touch neither the counters nor the workers.                  *)
LEMMA AnswerKept ==
    ASSUME AnswerInv, UNCHANGED <<unread, sent, answered, work>>
    PROVE  AnswerInv'
  BY DEF AnswerInv, Answering, Working

(* The listening socket's event and the ends of the loops.                 *)
LEMMA ListenInv ==
    ASSUME LoopInv, HandleListen \/ AcceptEnds \/ EventsDone
    PROVE  LoopInv'
  <1>0. /\ LoopTypes /\ RegInv /\ RefInv /\ CloseInv /\ LastInv /\ PatientInv /\ AnswerInv /\ Orderly
        /\ UNCHANGED <<netVars, connVars, jobs, work>>
    BY DEF LoopInv, HandleListen, AcceptEnds, EventsDone
  <1>1. batch' \subseteq batch /\ Events' = Events /\ mpc' \in {"wait", "accept", "events"} /\ (mpc' = "wait" => batch' = {})
    BY <1>0 DEF HandleListen, AcceptEnds, EventsDone, Events
  <1>2. LoopTypes'
    BY <1>0, <1>1 DEF LoopTypes, netVars, connVars
  <1>3. RegInv' /\ CloseInv'
    <2>1. RegInv'
      BY <1>0, RegKept, Lively DEF Bound, Closing, netVars, connVars
    <2> QED
      BY <1>0, <2>1 DEF CloseInv, Closing, netVars, connVars
  <1>4. RefInv' /\ LastInv' /\ PatientInv' /\ Orderly'
    BY <1>0, <1>1
    DEF RefInv, LastInv, PatientInv, Orderly, Patient, Single, Leaving, NoEvent, NoJob, Working, Parting, netVars, connVars
  <1>5. AnswerInv'
    BY <1>0, AnswerKept DEF netVars
  <1> QED
    BY <1>2, <1>3, <1>4, <1>5 DEF LoopInv

(* What epoll_wait reports of a session.                                   *)
LEMMA MaskFacts ==
    ASSUME LoopTypes, NEW s \in Sessions, Mask(s) # {}
    PROVE  /\ Mask(s) \in {{"EPOLLIN"}, {"EPOLLIN", "EPOLLRDHUP"}, {"EPOLLIN", "EPOLLRDHUP", "EPOLLERR"}}
           /\ "EPOLLRDHUP" \in Mask(s) <=> peer[s] \in {"closed", "reset"}
  <1>1. CASE peer[s] = "reset"
    BY <1>1 DEF Mask
  <1>2. CASE peer[s] = "closed"
    BY <1>2 DEF Mask
  <1>3. CASE peer[s] \notin {"closed", "reset"}
    BY <1>3 DEF Mask
  <1> QED
    BY <1>1, <1>2, <1>3

LEMMA EpollWaitInv ==
    ASSUME LoopInv, EpollWait
    PROVE  LoopInv'
  <1>0. /\ LoopTypes /\ RegInv /\ RefInv /\ CloseInv /\ LastInv /\ PatientInv /\ AnswerInv /\ Orderly
        /\ UNCHANGED <<setting, peer, unread, sent, answered, stalled, file, watch, live, sock_fd, unwatched, jobs, work>>
        /\ ready' = {s \in ready \cap Sessions : watch[s] = None} /\ batch' = ReadyEvents /\ mpc' = "events"
    BY DEF LoopInv, EpollWait, connVars
  <1>1. \A s \in Reported : s \in Sessions /\ s \in ready /\ watch[s] \in Conns /\ Mask(s) # {}
    BY <1>0 DEF Reported, LoopTypes
  <1>2. \A s \in Reported : [conn |-> watch[s], events |-> Mask(s), for |-> s] \in Event
    <2> TAKE s \in Reported
    <2>1. Mask(s) \in {{"EPOLLIN"}, {"EPOLLIN", "EPOLLRDHUP"}, {"EPOLLIN", "EPOLLRDHUP", "EPOLLERR"}}
      BY <1>0, <1>1, MaskFacts
    <2> QED
      BY <1>1, <2>1 DEF Event
  <1>3. batch' \subseteq Event \cup {ListenEvent}
    BY <1>0, <1>2 DEF ReadyEvents
  <1>4. \A e \in Events' : e.for \in Reported /\ e = [conn |-> watch[e.for], events |-> Mask(e.for), for |-> e.for]
    BY <1>0 DEF ReadyEvents, Events
  <1>5. \A e \in Events' : /\ e.for \in Sessions /\ e.for \in ready /\ e.for \notin ready' /\ e.conn = watch[e.for]
                           /\ Parting(e) <=> peer[e.for] \in {"closed", "reset"}
    <2> TAKE e \in Events'
    <2>1. e.for \in Sessions /\ e.for \in ready /\ Mask(e.for) # {} /\ watch[e.for] # None
      BY <1>1, <1>4, LoopAssumption
    <2>2. "EPOLLRDHUP" \in Mask(e.for) <=> peer[e.for] \in {"closed", "reset"}
      BY <1>0, <2>1, MaskFacts
    <2> QED
      BY <1>0, <1>4, <2>1, <2>2 DEF Parting
  <1>6. LoopTypes' /\ Orderly' /\ (Patient' <=> Patient)
    BY <1>0, <1>3 DEF LoopTypes, Orderly, Patient, Single
  <1>7. \A w \in Workers : (Working(w)' <=> Working(w)) /\ (Closing(w)' <=> Closing(w))
    BY <1>0 DEF Working, Closing
  <1>8. RegInv' /\ CloseInv'
    <2>1. RegInv'
      BY <1>0, RegKept, Lively DEF Bound, Closing
    <2> QED
      BY <1>0, <2>1 DEF CloseInv, Closing
  <1>9. RefInv'
    BY <1>0, <1>5, <1>7 DEF RefInv
  <1>10. \A t \in Sessions : Leaving(t) => Leaving(t)' /\ NoEvent(t)' /\ (NoJob(t)' <=> NoJob(t))
    BY <1>0, <1>5 DEF Leaving, NoEvent, NoJob
  <1>11. LastInv'
    <2>1. \A e \in Events' : Parting(e) => Leaving(e.for)'
      BY <1>0, <1>5 DEF Leaving
    <2>2. \A d, e \in Events' : d.for = e.for => d = e
      BY <1>4
    <2> QED
      BY <1>0, <1>7, <1>10, <2>1, <2>2, Refs DEF LastInv, Parting
  <1>12. PatientInv'
    BY <1>0, <1>5, <1>6, <1>7 DEF PatientInv, Parting
  <1>13. AnswerInv'
    BY <1>0, AnswerKept
  <1> QED
    BY <1>6, <1>8, <1>9, <1>11, <1>12, <1>13 DEF LoopInv

(* A session that is accepted was not registered, so nothing refers to it. *)
LEMMA AcceptInv ==
    ASSUME LoopInv, NEW s \in Sessions, NEW f \in Fds, NEW a \in Conns, Accept(s, f, a),
           watch[s] = None, watch' = [watch EXCEPT ![s] = a], UNCHANGED unwatched,
           ready' = ready \ {s} \/ ready' = ready \cup {s}
    PROVE  LoopInv'
  <1>0. /\ LoopTypes /\ RegInv /\ RefInv /\ CloseInv /\ LastInv /\ PatientInv /\ AnswerInv /\ Orderly
        /\ UNCHANGED <<setting, peer, unread, sent, answered, stalled, unwatched, mpc, batch, jobs, work>>
        /\ peer[s] \in {"open", "closed"} /\ watch[s] = None /\ file[f] = None /\ a \notin live
        /\ \A g \in Fds : file[g] # s
        /\ file' = [file EXCEPT ![f] = s] /\ live' = live \cup {a}
        /\ sock_fd' = [sock_fd EXCEPT ![a] = f] /\ watch' = [watch EXCEPT ![s] = a]
        /\ ready' = ready \ {s} \/ ready' = ready \cup {s}
    BY DEF LoopInv, Accept, malloc_sockconn, Backlog, Accepted, Free
  <1>1. LoopTypes' /\ Orderly' /\ (Patient' <=> Patient)
    BY <1>0 DEF LoopTypes, Orderly, Patient, Single
  <1>2. \A w \in Workers : (Working(w)' <=> Working(w)) /\ (Closing(w)' <=> Closing(w))
    BY <1>0 DEF Working, Closing
  <1>3. Events' = Events
    BY <1>0 DEF Events
  <1>4. /\ watch'[s] = a /\ \A t \in Sessions : t # s => watch'[t] = watch[t]
        /\ file'[f] = s /\ \A g \in Fds : g # f => file'[g] = file[g]
        /\ sock_fd'[a] = f /\ \A b \in Conns : b # a => sock_fd'[b] = sock_fd[b]
        /\ s # None /\ a # None
    BY <1>0, LoopAssumption DEF LoopTypes
  <1>5. NoEvent(s) /\ NoJob(s) /\ \A w \in Workers : Working(w) \/ Closing(w) => work[w].for # s
    <2>1. NoEvent(s)
      BY <1>0, EventFacts, LoopAssumption DEF NoEvent, RefInv
    <2>2. NoJob(s)
      BY <1>0, JobFacts, LoopAssumption DEF NoJob, RefInv
    <2>3. \A w \in Workers : Working(w) => work[w].for # s
      BY <1>0, TaskFacts, LoopAssumption DEF Working, RefInv
    <2>4. \A w \in Workers : Closing(w) => work[w].for # s
      BY <1>0 DEF CloseInv
    <2> QED
      BY <2>1, <2>2, <2>3, <2>4
  <1>6. \A t \in Sessions : watch[t] # None => watch[t] \in Conns /\ watch[t] # a /\ sock_fd[watch[t]] # f /\ t # s
    <2> SUFFICES ASSUME NEW t \in Sessions, watch[t] # None
                 PROVE  watch[t] \in Conns /\ watch[t] # a /\ sock_fd[watch[t]] # f /\ t # s
      OBVIOUS
    <2>1. watch[t] \in Conns /\ t # None
      BY <1>0, LoopAssumption DEF LoopTypes
    <2>2. watch[t] \in live /\ file[sock_fd[watch[t]]] = t
      BY <1>0 DEF RegInv, Registered, Bound
    <2> QED
      BY <1>0, <2>1, <2>2
  <1>7. RegInv'
    <2>1. \A t \in Sessions : watch'[t] # None => Bound(t)'
      <3> TAKE t \in Sessions
      <3>1. CASE t = s
        BY <1>0, <1>4, <3>1 DEF Bound
      <3>2. CASE t # s
        BY <1>0, <1>4, <1>6, <3>2 DEF Bound, RegInv, Registered
      <3> QED
        BY <3>1, <3>2
    <2>2. \A g \in Fds : file'[g] # None =>
            (watch'[file'[g]] # None /\ sock_fd'[watch'[file'[g]]] = g) \/ Lost(g)'
      <3> TAKE g \in Fds
      <3>1. CASE g = f
        BY <1>4, <3>1
      <3>2. CASE g # f /\ file[g] # None
        <4>1. file'[g] = file[g] /\ file[g] \in Sessions /\ file[g] # s
          BY <1>0, <1>4, <3>2 DEF LoopTypes
        <4>2. CASE watch[file[g]] # None /\ sock_fd[watch[file[g]]] = g
          BY <1>4, <1>6, <4>1, <4>2
        <4>3. CASE Lost(g)
          <5>1. PICK b \in unwatched : sock_fd[b] = g /\ watch[file[g]] = None
            BY <4>3 DEF Lost
          <5>2. b \in Conns /\ b # a
            BY <1>0, <5>1, Lively DEF LoopTypes
          <5> QED
            BY <1>0, <1>4, <4>1, <5>1, <5>2 DEF Lost
        <4> QED
          BY <1>0, <3>2, <4>2, <4>3 DEF RegInv, Registered
      <3> QED
        BY <1>4, <3>1, <3>2
    <2>3. \A b \in live' \ unwatched' : \/ \E t \in Sessions : watch'[t] = b
                                        \/ \E w \in Workers : Closing(w)' /\ work'[w].conn = b
      <3> TAKE b \in live' \ unwatched'
      <3>1. CASE b = a
        BY <1>4, <3>1
      <3>2. CASE b # a
        <4>1. b \in live \ unwatched /\ b # None
          BY <1>0, <3>2, LoopAssumption DEF LoopTypes
        <4> QED
          BY <1>0, <1>2, <1>4, <4>1 DEF RegInv, Registered
      <3> QED
        BY <3>1, <3>2
    <2>4. LostInv'
      <3> SUFFICES ASSUME NEW b \in unwatched
                   PROVE  /\ b \in live' /\ \A t \in Sessions : watch'[t] # b
                          /\ \A w \in Workers : Closing(w)' => work'[w].conn # b
                          /\ sock_fd'[b] \in Fds /\ file'[sock_fd'[b]] # None /\ watch'[file'[sock_fd'[b]]] = None
        BY <1>0 DEF LostInv
      <3>1. /\ b \in live /\ \A t \in Sessions : watch[t] # b
            /\ \A w \in Workers : Closing(w) => work[w].conn # b
            /\ sock_fd[b] \in Fds /\ file[sock_fd[b]] # None /\ watch[file[sock_fd[b]]] = None
        BY <1>0 DEF RegInv, LostInv
      <3>2. b \in Conns /\ b # a /\ sock_fd'[b] = sock_fd[b]
        BY <1>0, <1>4, <3>1 DEF LoopTypes
      <3>3. sock_fd[b] # f /\ file'[sock_fd[b]] = file[sock_fd[b]] /\ file[sock_fd[b]] \in Sessions
        BY <1>0, <1>4, <3>1 DEF LoopTypes
      <3>4. watch'[file[sock_fd[b]]] = None
        BY <1>0, <1>4, <3>1, <3>3
      <3>5. \A t \in Sessions : watch'[t] # b
        BY <1>4, <3>1, <3>2
      <3> QED
        BY <1>0, <1>2, <3>1, <3>2, <3>3, <3>4, <3>5
    <2> QED
      BY <2>1, <2>2, <2>3, <2>4 DEF RegInv, Registered
  <1>8. RefInv'
    <2>1. \A e \in Events : e.for \in Sessions /\ e.for # s /\ watch[e.for] = e.conn
      BY <1>0, <1>5, Refs DEF NoEvent, RefInv
    <2>2. \A k \in 1..Len(jobs) : jobs[k].for \in Sessions /\ jobs[k].for # s /\ watch[jobs[k].for] = jobs[k].conn
      BY <1>0, <1>5, Refs DEF NoJob, RefInv
    <2>3. \A w \in Workers : Working(w) => /\ work[w].for \in Sessions /\ work[w].for # s
                                           /\ watch[work[w].for] = work[w].conn
                                           /\ work[w].conn \in Conns /\ work[w].conn # a
      <3> SUFFICES ASSUME NEW w \in Workers, Working(w)
                   PROVE  /\ work[w].for \in Sessions /\ work[w].for # s
                          /\ watch[work[w].for] = work[w].conn
                          /\ work[w].conn \in Conns /\ work[w].conn # a
        OBVIOUS
      <3>1. work[w].for \in Sessions /\ work[w].conn \in Conns
        BY <1>0, TaskFacts DEF Working
      <3>2. watch[work[w].for] = work[w].conn
        BY <1>0 DEF RefInv
      <3>3. work[w].conn # a
        BY <1>6, <3>1, <3>2, LoopAssumption
      <3> QED
        BY <1>5, <3>1, <3>2, <3>3
    <2> QED
      BY <1>0, <1>2, <1>3, <1>4, <2>1, <2>2, <2>3 DEF RefInv
  <1>9. CloseInv'
    BY <1>0, <1>2, <1>4 DEF CloseInv
  <1>10. \A t \in Sessions : t # s => /\ Leaving(t) => Leaving(t)'
                                      /\ (NoEvent(t)' <=> NoEvent(t)) /\ (NoJob(t)' <=> NoJob(t))
    BY <1>0, <1>3 DEF Leaving, NoEvent, NoJob
  <1>11. LastInv'
    <2>1. /\ \A e \in Events : e.for \in Sessions /\ e.for # s
          /\ \A k \in 1..Len(jobs) : jobs[k].for \in Sessions /\ jobs[k].for # s
          /\ \A w \in Workers : Working(w) => work[w].for \in Sessions /\ work[w].for # s
      BY <1>0, <1>5, Refs DEF NoEvent, NoJob
    <2> QED
      BY <1>0, <1>2, <1>3, <1>10, <2>1 DEF LastInv, Parting
  <1>12. PatientInv'
    BY <1>0, <1>1, <1>2, <1>3 DEF PatientInv, Parting
  <1>13. AnswerInv'
    BY <1>0, AnswerKept
  <1> QED
    BY <1>1, <1>7, <1>8, <1>9, <1>11, <1>12, <1>13 DEF LoopInv

(* A session that epoll_ctl does not register: its cell and descriptor are *)
(* lost from here on.                                                      *)
LEMMA AcceptLostInv ==
    ASSUME LoopInv, NEW s \in Sessions, NEW f \in Fds, NEW a \in Conns, Accept(s, f, a),
           watch[s] = None, unwatched' = unwatched \cup {a}, UNCHANGED <<watch, ready>>
    PROVE  LoopInv'
  <1>0. /\ LoopTypes /\ RegInv /\ RefInv /\ CloseInv /\ LastInv /\ PatientInv /\ AnswerInv /\ Orderly
        /\ UNCHANGED <<setting, peer, unread, sent, answered, ready, stalled, watch, mpc, batch, jobs, work>>
        /\ file[f] = None /\ a \notin live
        /\ file' = [file EXCEPT ![f] = s] /\ live' = live \cup {a} /\ sock_fd' = [sock_fd EXCEPT ![a] = f]
    BY DEF LoopInv, Accept, malloc_sockconn, Free
  <1>1. LoopTypes' /\ Orderly' /\ (Patient' <=> Patient)
    BY <1>0 DEF LoopTypes, Orderly, Patient, Single
  <1>2. \A w \in Workers : (Working(w)' <=> Working(w)) /\ (Closing(w)' <=> Closing(w))
    BY <1>0 DEF Working, Closing
  <1>3. Events' = Events
    BY <1>0 DEF Events
  <1>4. /\ file'[f] = s /\ \A g \in Fds : g # f => file'[g] = file[g]
        /\ sock_fd'[a] = f /\ \A b \in Conns : b # a => sock_fd'[b] = sock_fd[b]
        /\ s # None /\ a # None
    BY <1>0, LoopAssumption DEF LoopTypes
  <1>5. \A t \in Sessions : watch[t] # None => watch[t] \in Conns /\ watch[t] # a /\ Bound(t)
    BY <1>0 DEF LoopTypes, RegInv, Registered, Bound
  <1>6. \A w \in Workers : Closing(w) => work[w].conn # a
    BY <1>0 DEF CloseInv
  <1>7. Registered'
    <2>1. ASSUME NEW t \in Sessions, watch'[t] # None PROVE Bound(t)'
      <3>1. watch[t] \in Conns /\ watch[t] # a /\ Bound(t)
        BY <1>0, <1>5, <2>1
      <3>2. sock_fd[watch[t]] # f /\ sock_fd'[watch[t]] = sock_fd[watch[t]]
        BY <1>0, <1>4, <3>1, LoopAssumption DEF Bound
      <3> QED
        BY <1>0, <1>4, <3>1, <3>2 DEF Bound
    <2>2. ASSUME NEW g \in Fds, file'[g] # None
          PROVE  (watch'[file'[g]] # None /\ sock_fd'[watch'[file'[g]]] = g) \/ Lost(g)'
      <3>1. CASE g = f
        BY <1>0, <1>4, <3>1 DEF Lost
      <3>2. CASE g # f
        <4>1. file'[g] = file[g] /\ file[g] \in Sessions
          BY <1>0, <1>4, <2>2, <3>2 DEF LoopTypes
        <4>2. CASE watch[file[g]] # None /\ sock_fd[watch[file[g]]] = g
          BY <1>0, <1>4, <1>5, <4>1, <4>2
        <4>3. CASE Lost(g)
          <5>1. PICK b \in unwatched : sock_fd[b] = g /\ watch[file[g]] = None
            BY <4>3 DEF Lost
          <5>2. b \in Conns /\ b # a
            BY <1>0, <5>1, Lively DEF LoopTypes
          <5> QED
            BY <1>0, <1>4, <4>1, <5>1, <5>2 DEF Lost
        <4> QED
          BY <1>0, <2>2, <4>1, <4>2, <4>3 DEF RegInv, Registered
      <3> QED
        BY <3>1, <3>2
    <2>3. \A b \in live' \ unwatched' : \/ \E t \in Sessions : watch'[t] = b
                                        \/ \E w \in Workers : Closing(w)' /\ work'[w].conn = b
      BY <1>0, <1>2 DEF RegInv, Registered
    <2> QED
      BY <2>1, <2>2, <2>3 DEF Registered
  <1>8. LostInv'
    <2> SUFFICES ASSUME NEW b \in unwatched'
                 PROVE  /\ b \in live' /\ \A t \in Sessions : watch'[t] # b
                        /\ \A w \in Workers : Closing(w)' => work'[w].conn # b
                        /\ sock_fd'[b] \in Fds /\ file'[sock_fd'[b]] # None /\ watch'[file'[sock_fd'[b]]] = None
      BY DEF LostInv
    <2>1. CASE b = a
      BY <1>0, <1>2, <1>4, <1>5, <1>6, <2>1
    <2>2. CASE b # a
      <3>1. /\ b \in live /\ \A t \in Sessions : watch[t] # b
            /\ \A w \in Workers : Closing(w) => work[w].conn # b
            /\ sock_fd[b] \in Fds /\ file[sock_fd[b]] # None /\ watch[file[sock_fd[b]]] = None
        BY <1>0, <2>2 DEF RegInv, LostInv
      <3>2. b \in Conns /\ sock_fd'[b] = sock_fd[b]
        BY <1>0, <1>4, <2>2, <3>1 DEF LoopTypes
      <3>3. file'[sock_fd[b]] = file[sock_fd[b]]
        BY <1>0, <1>4, <3>1
      <3> QED
        BY <1>0, <1>2, <3>1, <3>2, <3>3
    <2> QED
      BY <2>1, <2>2
  <1>9. RefInv'
    <2>1. \A w \in Workers : Working(w) => work[w].conn # a /\ work[w].conn \in Conns
      <3> SUFFICES ASSUME NEW w \in Workers, Working(w) PROVE work[w].conn # a /\ work[w].conn \in Conns
        OBVIOUS
      <3>1. work[w].for \in Sessions /\ work[w].conn \in Conns
        BY <1>0, TaskFacts DEF Working
      <3>2. watch[work[w].for] = work[w].conn
        BY <1>0 DEF RefInv
      <3> QED
        BY <1>5, <3>1, <3>2, LoopAssumption
    <2> QED
      BY <1>0, <1>2, <1>3, <1>4, <2>1 DEF RefInv
  <1>10. CloseInv'
    BY <1>0, <1>2 DEF CloseInv
  <1>11. \A t \in Sessions : (Leaving(t)' <=> Leaving(t)) /\ (NoEvent(t)' <=> NoEvent(t)) /\ (NoJob(t)' <=> NoJob(t))
    BY <1>0, <1>3 DEF Leaving, NoEvent, NoJob
  <1>12. LastInv'
    BY <1>0, <1>2, <1>3, <1>11, Refs DEF LastInv, Parting
  <1>13. PatientInv'
    BY <1>0, <1>1, <1>2, <1>3 DEF PatientInv, Parting
  <1>14. AnswerInv'
    BY <1>0, AnswerKept
  <1> QED
    BY <1>1, <1>7, <1>8, <1>9, <1>10, <1>12, <1>13, <1>14 DEF LoopInv, RegInv

(* Both ends of add_epoll_fd.                                              *)
LEMMA AcceptStepInv ==
    ASSUME LoopInv, NEW s \in Sessions, NEW f \in Fds, NEW a \in Conns, Accept(s, f, a)
    PROVE  LoopInv'
  <1>1. watch[s] = None
    <2>1. ~Accepted(s) /\ RegInv
      BY DEF LoopInv, Accept, Backlog
    <2> QED
      BY <2>1 DEF Accepted, RegInv, Registered, Bound
  <1>2. add_epoll_fd(s, a)
    BY DEF Accept
  <1>3. CASE unwatched' = unwatched \cup {a} /\ UNCHANGED <<watch, ready>>
    BY <1>1, <1>3, AcceptLostInv
  <1>4. CASE /\ watch' = [watch EXCEPT ![s] = a] /\ UNCHANGED unwatched
             /\ ready' = ready \ {s} \/ ready' = ready \cup {s}
    BY <1>1, <1>4, AcceptInv
  <1> QED
    BY <1>2, <1>3, <1>4 DEF add_epoll_fd

(* The event handled becomes the last job of the queue.                    *)
LEMMA HandleEventInv ==
    ASSUME LoopInv, NEW e \in batch, HandleEvent(e)
    PROVE  LoopInv'
  <1> DEFINE job == IF "EPOLLERR" \in e.events \/ {"EPOLLIN", "EPOLLRDHUP"} \subseteq e.events
                       THEN FreeJob(e) ELSE ReadJob(e)
             n == Len(jobs) + 1
  <1>0. /\ LoopTypes /\ RegInv /\ RefInv /\ CloseInv /\ LastInv /\ PatientInv /\ AnswerInv /\ Orderly
        /\ UNCHANGED <<setting, peer, unread, sent, answered, ready, stalled, file, watch, live, sock_fd, unwatched, mpc, work>>
        /\ mpc = "events" /\ e \in Events /\ batch' = batch \ {e} /\ jobs' = Append(jobs, job)
    BY DEF LoopInv, HandleEvent, netVars, connVars, Events
  <1>1. e.conn \in Conns /\ e.for \in Sessions /\ watch[e.for] = e.conn
    BY <1>0, EventFacts DEF RefInv
  <1>2. /\ job \in Job /\ job.conn = e.conn /\ job.for = e.for
        /\ job.op = "free_sockConn_func" <=> Parting(e)
    BY <1>0, <1>1, EventFacts DEF Job, FreeJob, ReadJob
  <1> HIDE DEF job
  <1>3. /\ jobs \in Seq(Job) /\ jobs' \in Seq(Job) /\ Len(jobs') = n /\ Len(jobs) \in Nat
        /\ jobs'[n] = job /\ \A k \in 1..Len(jobs) : jobs'[k] = jobs[k]
    BY <1>0, <1>2 DEF LoopTypes
  <1>4. \A k \in 1..Len(jobs') : k = n \/ k \in 1..Len(jobs)
    BY <1>3
  <1>5. Events' = Events \ {e}
    BY <1>0 DEF Events
  <1>6. LoopTypes' /\ Orderly' /\ (Patient' <=> Patient)
    BY <1>0, <1>3 DEF LoopTypes, Orderly, Patient, Single
  <1>7. \A w \in Workers : (Working(w)' <=> Working(w)) /\ (Closing(w)' <=> Closing(w))
    BY <1>0 DEF Working, Closing
  <1>8. RegInv' /\ CloseInv'
    <2>1. RegInv'
      BY <1>0, RegKept, Lively DEF Bound, Closing
    <2> QED
      BY <1>0, <1>7, <2>1 DEF CloseInv
  <1>9. RefInv'
    <2>1. \A k \in 1..Len(jobs') : watch[jobs'[k].for] = jobs'[k].conn
      BY <1>0, <1>1, <1>2, <1>3, <1>4 DEF RefInv
    <2> QED
      BY <1>0, <1>5, <1>7, <2>1 DEF RefInv
  <1>10. \A t \in Sessions : /\ Leaving(t)' <=> Leaving(t)
                             /\ NoEvent(t) => NoEvent(t)'
                             /\ t # e.for /\ NoJob(t) => NoJob(t)'
    BY <1>0, <1>2, <1>3, <1>4, <1>5 DEF Leaving, NoEvent, NoJob
  <1>11. LastInv'
    <2>1. /\ \A d \in Events' : Parting(d) => Leaving(d.for)'
          /\ \A c, d \in Events' : c.for = d.for => c = d
      BY <1>0, <1>5, <1>10, Refs DEF LastInv
    <2>2. \A k \in 1..Len(jobs') : jobs'[k].op = "free_sockConn_func" =>
            /\ Leaving(jobs[k].for)'
            /\ NoEvent(jobs[k].for)'
            /\ \A j \in 1..Len(jobs') : jobs'[j].for = jobs'[k].for => j <= k
      <3> SUFFICES ASSUME NEW k \in 1..Len(jobs'), jobs'[k].op = "free_sockConn_func"
                   PROVE  /\ Leaving(jobs[k].for)'
                          /\ NoEvent(jobs[k].for)'
                          /\ \A j \in 1..Len(jobs') : jobs'[j].for = jobs'[k].for => j <= k
        OBVIOUS
      <3>1. CASE k = n
        <4>1. jobs'[k].for = e.for /\ Parting(e)
          BY <1>2, <1>3, <3>1
        <4>2. Leaving(e.for)'
          BY <1>0, <1>1, <1>10, <4>1 DEF LastInv
        <4>3. NoEvent(e.for)'
          BY <1>0, <1>5 DEF LastInv, NoEvent
        <4> QED
          BY <1>3, <3>1, <4>1, <4>2, <4>3
      <3>2. CASE k \in 1..Len(jobs)
        <4>1. jobs'[k] = jobs[k] /\ jobs[k].for \in Sessions
          BY <1>0, <1>3, <3>2, Refs
        <4>2. /\ Leaving(jobs[k].for) /\ NoEvent(jobs[k].for)
              /\ \A j \in 1..Len(jobs) : jobs[j].for = jobs[k].for => j <= k
          BY <1>0, <3>2, <4>1 DEF LastInv
        <4>3. jobs[k].for # e.for
          BY <1>0, <4>2 DEF NoEvent
        <4> QED
          BY <1>2, <1>3, <1>4, <1>10, <4>1, <4>2, <4>3
      <3> QED
        BY <1>4, <3>1, <3>2
    <2>3. \A w \in Workers : Working(w)' /\ work'[w].op = "free_sockConn_func" =>
            /\ Leaving(work[w].for)' /\ NoEvent(work[w].for)' /\ NoJob(work[w].for)'
            /\ \A v \in Workers : Working(v)' /\ work'[v].for = work'[w].for => v = w
      <3> SUFFICES ASSUME NEW w \in Workers, Working(w), work[w].op = "free_sockConn_func"
                   PROVE  /\ Leaving(work[w].for)' /\ NoEvent(work[w].for)' /\ NoJob(work[w].for)'
                          /\ \A v \in Workers : Working(v) /\ work[v].for = work[w].for => v = w
        BY <1>0, <1>7
      <3>1. /\ Leaving(work[w].for) /\ NoEvent(work[w].for) /\ NoJob(work[w].for)
            /\ \A v \in Workers : Working(v) /\ work[v].for = work[w].for => v = w
        BY <1>0 DEF LastInv
      <3>2. work[w].for \in Sessions /\ work[w].for # e.for
        BY <1>0, <3>1, Refs DEF NoEvent
      <3> QED
        BY <1>0, <1>10, <3>1, <3>2
    <2> QED
      BY <2>1, <2>2, <2>3 DEF LastInv, Parting
  <1>12. PatientInv'
    <2> SUFFICES ASSUME Patient, NEW t \in Sessions, peer[t] \in {"closed", "reset"}
                 PROVE  /\ \A d \in Events' : d.for = t => Parting(d)
                        /\ \A k \in 1..Len(jobs') : jobs'[k].for = t => jobs'[k].op = "free_sockConn_func"
                        /\ \A w \in Workers : Working(w) /\ work[w].for = t => work[w].op = "free_sockConn_func"
      BY <1>0, <1>6, <1>7 DEF PatientInv, Parting
    <2>1. /\ \A d \in Events : d.for = t => Parting(d)
          /\ \A k \in 1..Len(jobs) : jobs[k].for = t => jobs[k].op = "free_sockConn_func"
          /\ \A w \in Workers : Working(w) /\ work[w].for = t => work[w].op = "free_sockConn_func"
      BY <1>0 DEF PatientInv
    <2> QED
      BY <1>0, <1>2, <1>3, <1>4, <1>5, <2>1
  <1>13. AnswerInv'
    BY <1>0, AnswerKept
  <1> QED
    BY <1>6, <1>8, <1>9, <1>11, <1>12, <1>13 DEF LoopInv

-----------------------------------------------------------------------------
(* The workers                                                             *)

(* A worker takes the first job; for a free that is the only reference     *)
(* left: the queue has no other, and the other workers have none, as there *)
(* are none or the client waited for them.                                 *)
LEMMA TakeInv ==
    ASSUME LoopInv, NEW w \in Workers, Take(w)
    PROVE  LoopInv'
  <1> DEFINE task == [op |-> jobs[1].op, pc |-> "start", conn |-> jobs[1].conn, for |-> jobs[1].for, fd |-> None]
  <1>0. /\ LoopTypes /\ RegInv /\ RefInv /\ CloseInv /\ LastInv /\ PatientInv /\ AnswerInv /\ Orderly
        /\ UNCHANGED <<setting, peer, unread, sent, answered, ready, stalled, file, watch, live, sock_fd, unwatched, mpc, batch>>
        /\ w \in setting.workers /\ work[w] = Idle /\ jobs # <<>> /\ jobs' = Tail(jobs)
        /\ work' = [work EXCEPT ![w] = task]
    BY DEF LoopInv, Take, netVars, connVars
  <1>1. /\ jobs \in Seq(Job) /\ Len(jobs) \in Nat /\ Len(jobs) > 0 /\ 1 \in 1..Len(jobs)
        /\ jobs' \in Seq(Job) /\ Len(jobs') = Len(jobs) - 1
        /\ \A k \in 1..Len(jobs') : k + 1 \in 1..Len(jobs) /\ jobs'[k] = jobs[k + 1]
    BY <1>0 DEF LoopTypes
  <1>2. /\ jobs[1].conn \in Conns /\ jobs[1].for \in Sessions /\ watch[jobs[1].for] = jobs[1].conn
        /\ jobs[1].op \in {"read_sock_func", "free_sockConn_func"}
    BY <1>0, <1>1, JobFacts DEF RefInv
  <1>3. /\ task \in Task /\ task # Idle /\ task.pc = "start" /\ task.op = jobs[1].op
        /\ task.conn = jobs[1].conn /\ task.for = jobs[1].for
    BY <1>2 DEF Task, Idle
  <1> HIDE DEF task
  <1>a. PICK s \in Sessions : s = jobs[1].for
    BY <1>2
  <1>4. work'[w] = task /\ \A v \in Workers : v # w => work'[v] = work[v]
    BY <1>0 DEF LoopTypes
  <1>5. LoopTypes' /\ Orderly' /\ (Patient' <=> Patient)
    BY <1>0, <1>1, <1>3 DEF LoopTypes, Orderly, Patient, Single
  <1>6. /\ Events' = Events
        /\ Working(w)' /\ ~Closing(w)' /\ ~Working(w) /\ ~Closing(w)
        /\ \A v \in Workers : v # w => (Working(v)' <=> Working(v)) /\ (Closing(v)' <=> Closing(v))
    BY <1>0, <1>3, <1>4 DEF Working, Closing, Events
  <1>7. RegInv'
    <2>1. \A t \in Sessions : Bound(t) => Bound(t)'
      BY <1>0 DEF Bound
    <2>2. \A a \in live : (\E v \in Workers : Closing(v) /\ work[v].conn = a) => \E v \in Workers : Closing(v)' /\ work'[v].conn = a
      BY <1>4, <1>6
    <2>3. \A v \in Workers : Closing(v)' => Closing(v) /\ work'[v].conn = work[v].conn
      BY <1>4, <1>6
    <2> QED
      BY <1>0, <2>1, <2>2, <2>3, RegKept, Lively
  <1>8. CloseInv'
    BY <1>0, <1>4, <1>6 DEF CloseInv
  <1>9. RefInv'
    <2>1. \A k \in 1..Len(jobs') : watch[jobs'[k].for] = jobs'[k].conn
      BY <1>0, <1>1 DEF RefInv
    <2>2. \A v \in Workers : Working(v)' => watch[work'[v].for] = work'[v].conn
      BY <1>0, <1>2, <1>3, <1>4, <1>6 DEF RefInv
    <2>3. \A v \in Workers : Working(v)' /\ work'[v].pc # "start" => work'[v].fd = sock_fd[work'[v].conn]
      BY <1>0, <1>3, <1>4, <1>6 DEF RefInv
    <2> QED
      BY <1>0, <1>6, <2>1, <2>2, <2>3 DEF RefInv
  <1>10. \A t \in Sessions : /\ Leaving(t)' <=> Leaving(t)
                             /\ NoEvent(t)' <=> NoEvent(t)
                             /\ NoJob(t) => NoJob(t)'
    BY <1>0, <1>1, <1>6 DEF Leaving, NoEvent, NoJob
  <1>11. LastInv'
    <2>1. /\ \A d \in Events' : Parting(d) => Leaving(d.for)'
          /\ \A c, d \in Events' : c.for = d.for => c = d
      BY <1>0, <1>6, <1>10, Refs DEF LastInv
    <2>2. \A k \in 1..Len(jobs') : jobs'[k].op = "free_sockConn_func" =>
            /\ Leaving(jobs[k].for)'
            /\ NoEvent(jobs[k].for)'
            /\ \A j \in 1..Len(jobs') : jobs'[j].for = jobs'[k].for => j <= k
      <3> SUFFICES ASSUME NEW k \in 1..Len(jobs'), jobs'[k].op = "free_sockConn_func"
                   PROVE  /\ Leaving(jobs[k].for)'
                          /\ NoEvent(jobs[k].for)'
                          /\ \A j \in 1..Len(jobs') : jobs'[j].for = jobs'[k].for => j <= k
        OBVIOUS
      <3>1. k + 1 \in 1..Len(jobs) /\ jobs'[k] = jobs[k + 1] /\ jobs[k + 1].for \in Sessions
        BY <1>0, <1>1, Refs
      <3>2. /\ Leaving(jobs[k + 1].for) /\ NoEvent(jobs[k + 1].for)
            /\ \A j \in 1..Len(jobs) : jobs[j].for = jobs[k + 1].for => j <= k + 1
        BY <1>0, <3>1 DEF LastInv
      <3>3. PICK t \in Sessions : t = jobs[k + 1].for
        BY <3>1
      <3>4. Leaving(t)' /\ NoEvent(t)' /\ jobs'[k].for = t
        BY <1>10, <3>1, <3>2, <3>3
      <3>5. ASSUME NEW j \in 1..Len(jobs'), jobs'[j].for = t PROVE j <= k
        <4>1. j + 1 \in 1..Len(jobs) /\ jobs[j + 1].for = jobs[k + 1].for
          BY <1>1, <3>3, <3>5
        <4>2. j + 1 <= k + 1
          BY <3>2, <4>1
        <4> QED
          BY <1>1, <4>2
      <3> QED
        BY <3>4, <3>5
    <2>3. jobs[1].op = "free_sockConn_func" =>
            /\ Leaving(jobs[1].for) /\ NoEvent(jobs[1].for) /\ NoJob(s)'
            /\ \A v \in Workers : Working(v) => work[v].for # jobs[1].for
      <3> SUFFICES ASSUME jobs[1].op = "free_sockConn_func"
                   PROVE  /\ Leaving(jobs[1].for) /\ NoEvent(jobs[1].for) /\ NoJob(s)'
                          /\ \A v \in Workers : Working(v) => work[v].for # jobs[1].for
        OBVIOUS
      <3>1. /\ Leaving(jobs[1].for) /\ NoEvent(jobs[1].for)
            /\ \A j \in 1..Len(jobs) : jobs[j].for = jobs[1].for => j <= 1
        BY <1>0, <1>1 DEF LastInv
      <3>2. NoJob(s)'
        <4>1. ASSUME NEW k \in 1..Len(jobs'), jobs'[k].for = s PROVE FALSE
          <5>1. k + 1 \in 1..Len(jobs) /\ jobs[k + 1].for = jobs[1].for
            BY <1>a, <1>1, <4>1
          <5>2. k + 1 <= 1
            BY <3>1, <5>1
          <5> QED
            BY <5>2
        <4> QED
          BY <4>1 DEF NoJob
      <3>3. ASSUME NEW v \in Workers, Working(v), work[v].for = jobs[1].for PROVE FALSE
        <4>1. CASE Patient
          <5>1. work[v].op = "free_sockConn_func"
            BY <1>0, <1>2, <3>1, <3>3, <4>1 DEF PatientInv, Leaving
          <5>2. NoJob(jobs[1].for)
            BY <1>0, <3>3, <5>1 DEF LastInv
          <5> QED
            BY <1>1, <5>2 DEF NoJob
        <4>2. CASE Single
          <5>1. v \in setting.workers
            BY <1>0, <3>3 DEF LoopTypes, Working
          <5> QED
            BY <1>0, <1>6, <3>3, <4>2, <5>1 DEF Single
        <4> QED
          BY <1>0, <4>1, <4>2 DEF Orderly
      <3> QED
        BY <3>1, <3>2, <3>3
    <2>4. \A v \in Workers : Working(v)' /\ work'[v].op = "free_sockConn_func" =>
            /\ Leaving(work[v].for)' /\ NoEvent(work[v].for)' /\ NoJob(work[v].for)'
            /\ \A u \in Workers : Working(u)' /\ work'[u].for = work'[v].for => u = v
      <3> SUFFICES ASSUME NEW v \in Workers, Working(v)', work'[v].op = "free_sockConn_func"
                   PROVE  /\ Leaving(work[v].for)' /\ NoEvent(work[v].for)' /\ NoJob(work[v].for)'
                          /\ \A u \in Workers : Working(u)' /\ work'[u].for = work'[v].for => u = v
        OBVIOUS
      <3>1. CASE v = w
        <4>1. work'[v].for = s /\ jobs[1].op = "free_sockConn_func"
          BY <1>a, <1>3, <1>4, <3>1
        <4>2. Leaving(s)' /\ NoEvent(s)' /\ NoJob(s)'
          BY <1>a, <1>10, <2>3, <4>1
        <4>3. \A u \in Workers : Working(u)' /\ work'[u].for = s => u = w
          BY <1>a, <1>4, <1>6, <2>3, <4>1
        <4> QED
          BY <3>1, <4>1, <4>2, <4>3
      <3>2. CASE v # w
        <4>1. work'[v] = work[v] /\ Working(v) /\ work[v].for \in Sessions
          BY <1>0, <1>4, <1>6, <3>2, Refs
        <4>2. /\ Leaving(work[v].for) /\ NoEvent(work[v].for) /\ NoJob(work[v].for)
              /\ \A u \in Workers : Working(u) /\ work[u].for = work[v].for => u = v
          BY <1>0, <4>1 DEF LastInv
        <4>3. task.for # work[v].for
          BY <1>1, <1>3, <4>2 DEF NoJob
        <4> QED
          BY <1>4, <1>6, <1>10, <4>1, <4>2, <4>3
      <3> QED
        BY <3>1, <3>2
    <2> QED
      BY <2>1, <2>2, <2>4 DEF LastInv, Parting
  <1>12. PatientInv'
    <2> SUFFICES ASSUME Patient, NEW t \in Sessions, peer[t] \in {"closed", "reset"}
                 PROVE  /\ \A d \in Events : d.for = t => Parting(d)
                        /\ \A k \in 1..Len(jobs') : jobs'[k].for = t => jobs'[k].op = "free_sockConn_func"
                        /\ \A v \in Workers : Working(v)' /\ work'[v].for = t => work'[v].op = "free_sockConn_func"
      BY <1>0, <1>5, <1>6 DEF PatientInv, Parting
    <2>1. /\ \A d \in Events : d.for = t => Parting(d)
          /\ \A k \in 1..Len(jobs) : jobs[k].for = t => jobs[k].op = "free_sockConn_func"
          /\ \A v \in Workers : Working(v) /\ work[v].for = t => work[v].op = "free_sockConn_func"
      BY <1>0 DEF PatientInv
    <2> QED
      BY <1>1, <1>3, <1>4, <1>6, <2>1
  <1>13. AnswerInv'
    <2>1. \A t \in Sessions : Answering(t)' = Answering(t)
      BY <1>3, <1>4, <1>6 DEF Answering
    <2> QED
      BY <1>0, <2>1 DEF AnswerInv
  <1> QED
    BY <1>5, <1>7, <1>8, <1>9, <1>11, <1>12, <1>13 DEF LoopInv

(* A worker in read_sock_func works for a registered session, and the      *)
(* descriptor it has kept is still the session's.                          *)
LEMMA ReaderFacts ==
    ASSUME LoopTypes, RegInv, RefInv, NEW w \in Workers, work[w].op = "read_sock_func"
    PROVE  /\ Working(w) /\ ~Closing(w)
           /\ work[w] = [op |-> "read_sock_func", pc |-> work[w].pc, conn |-> work[w].conn,
                         for |-> work[w].for, fd |-> work[w].fd]
           /\ work[w].fd \in Fds \cup {None}
           /\ work[w].conn \in Conns /\ work[w].for \in Sessions
           /\ watch[work[w].for] = work[w].conn
           /\ sock_fd[work[w].conn] \in Fds /\ file[sock_fd[work[w].conn]] = work[w].for
           /\ work[w].pc # "start" => work[w].fd = sock_fd[work[w].conn]
  <1>1. Working(w) /\ ~Closing(w) /\ work[w].conn \in Conns /\ work[w].for \in Sessions /\ work[w] \in Task
    BY NotIdle, TaskFacts DEF Working, Closing
  <1>2. /\ work[w] = [op |-> "read_sock_func", pc |-> work[w].pc, conn |-> work[w].conn,
                      for |-> work[w].for, fd |-> work[w].fd]
        /\ work[w].fd \in Fds \cup {None}
    BY <1>1 DEF Task
  <1>3. watch[work[w].for] = work[w].conn /\ (work[w].pc # "start" => work[w].fd = sock_fd[work[w].conn])
    BY <1>1 DEF RefInv
  <1>4. Bound(work[w].for)
    BY <1>1, <1>3, LoopAssumption DEF RegInv, Registered
  <1> QED
    BY <1>1, <1>2, <1>3, <1>4 DEF Bound

(* A step of read_sock_func changes nobody else's references.              *)
LEMMA ReadInv ==
    ASSUME LoopInv, AnswerInv', NEW w \in Workers, work[w].op = "read_sock_func",
           NEW t, work' = [work EXCEPT ![w] = t],
           \/ t = Idle
           \/ /\ t \in Task /\ t.op = "read_sock_func" /\ t.conn = work[w].conn /\ t.for = work[w].for
              /\ t.pc # "start" /\ t.fd = sock_fd[work[w].conn],
           stalled' \subseteq Sessions, UNCHANGED <<setting, peer, ready, file, watch, live, sock_fd, unwatched, mpc, batch, jobs>>
    PROVE  LoopInv'
  <1>0. LoopTypes /\ RegInv /\ RefInv /\ CloseInv /\ LastInv /\ PatientInv /\ Orderly
    BY DEF LoopInv
  <1>1. work'[w] = t /\ \A v \in Workers : v # w => work'[v] = work[v]
    BY <1>0 DEF LoopTypes
  <1>2. /\ work[w] # Idle /\ Working(w) /\ ~Closing(w) /\ watch[work[w].for] = work[w].conn
        /\ work[w].for \in Sessions
    BY <1>0, NotIdle, ReaderFacts
  <1>3. t # Idle => t \in Task /\ t.pc # "free"
    BY DEF Task
  <1>4. LoopTypes' /\ Orderly' /\ (Patient' <=> Patient)
    <2>1. work' \in [Workers -> Task \cup {Idle}]
      BY <1>0, <1>3 DEF LoopTypes
    <2>2. \A v \in Workers : work'[v] # Idle => v \in setting.workers
      BY <1>0, <1>1, <1>2 DEF LoopTypes
    <2> QED
      BY <1>0, <2>1, <2>2 DEF LoopTypes, Orderly, Patient, Single
  <1>5. /\ Events' = Events /\ ~Closing(w)'
        /\ \A v \in Workers : v # w => (Working(v)' <=> Working(v)) /\ (Closing(v)' <=> Closing(v))
    BY <1>1, <1>3 DEF Working, Closing, Events
  <1>6. Working(w)' => /\ work'[w].op = "read_sock_func" /\ work'[w].for = work[w].for /\ work'[w].conn = work[w].conn
                       /\ work'[w].fd = sock_fd[work[w].conn]
    BY <1>1 DEF Working
  <1>7. RegInv'
    <2>1. \A r \in Sessions : Bound(r) => Bound(r)'
      BY DEF Bound
    <2>2. \A a \in live : (\E v \in Workers : Closing(v) /\ work[v].conn = a) => \E v \in Workers : Closing(v)' /\ work'[v].conn = a
      BY <1>1, <1>2, <1>5
    <2>3. \A v \in Workers : Closing(v)' => Closing(v) /\ work'[v].conn = work[v].conn
      BY <1>1, <1>5
    <2> QED
      BY <1>0, <2>1, <2>2, <2>3, RegKept, Lively
  <1>8. CloseInv'
    BY <1>0, <1>1, <1>5 DEF CloseInv
  <1>9. RefInv'
    <2>1. \A v \in Workers : Working(v)' => watch[work'[v].for] = work'[v].conn
      BY <1>0, <1>1, <1>2, <1>5, <1>6 DEF RefInv
    <2>2. \A v \in Workers : Working(v)' /\ work'[v].pc # "start" => work'[v].fd = sock_fd[work'[v].conn]
      BY <1>0, <1>1, <1>5, <1>6 DEF RefInv
    <2> QED
      BY <1>0, <1>5, <2>1, <2>2 DEF RefInv
  <1>10. \A r \in Sessions : (Leaving(r)' <=> Leaving(r)) /\ (NoEvent(r)' <=> NoEvent(r)) /\ (NoJob(r)' <=> NoJob(r))
    BY <1>5 DEF Leaving, NoEvent, NoJob
  <1>11. LastInv'
    <2>1. /\ \A d \in Events' : Parting(d) => Leaving(d.for)'
          /\ \A c, d \in Events' : c.for = d.for => c = d
      BY <1>0, <1>5, <1>10, Refs DEF LastInv
    <2>2. \A k \in 1..Len(jobs') : jobs'[k].op = "free_sockConn_func" =>
            /\ Leaving(jobs[k].for)'
            /\ NoEvent(jobs[k].for)'
            /\ \A j \in 1..Len(jobs') : jobs'[j].for = jobs'[k].for => j <= k
      BY <1>0, <1>10, Refs DEF LastInv
    <2>3. \A v \in Workers : Working(v)' /\ work'[v].op = "free_sockConn_func" =>
            /\ Leaving(work[v].for)' /\ NoEvent(work[v].for)' /\ NoJob(work[v].for)'
            /\ \A u \in Workers : Working(u)' /\ work'[u].for = work'[v].for => u = v
      <3> SUFFICES ASSUME NEW v \in Workers, Working(v)', work'[v].op = "free_sockConn_func"
                   PROVE  /\ Leaving(work[v].for)' /\ NoEvent(work[v].for)' /\ NoJob(work[v].for)'
                          /\ \A u \in Workers : Working(u)' /\ work'[u].for = work'[v].for => u = v
        OBVIOUS
      <3>1. v # w /\ work'[v] = work[v] /\ Working(v)
        BY <1>1, <1>5, <1>6
      <3>2. work[v].for \in Sessions
        BY <1>0, <3>1, Refs
      <3>3. /\ Leaving(work[v].for) /\ NoEvent(work[v].for) /\ NoJob(work[v].for)
            /\ \A u \in Workers : Working(u) /\ work[u].for = work[v].for => u = v
        BY <1>0, <3>1 DEF LastInv
      <3>4. PICK r \in Sessions : r = work[v].for
        BY <3>2
      <3>5. Leaving(r)' /\ NoEvent(r)' /\ NoJob(r)'
        BY <1>10, <3>3, <3>4
      <3>6. \A u \in Workers : Working(u)' /\ work'[u].for = r => u = v
        BY <1>1, <1>2, <1>5, <1>6, <3>1, <3>3, <3>4
      <3> QED
        BY <3>1, <3>4, <3>5, <3>6
    <2> QED
      BY <2>1, <2>2, <2>3 DEF LastInv, Parting
  <1>12. PatientInv'
    <2> SUFFICES ASSUME Patient, NEW r \in Sessions, peer[r] \in {"closed", "reset"}
                 PROVE  /\ \A d \in Events : d.for = r => Parting(d)
                        /\ \A k \in 1..Len(jobs) : jobs[k].for = r => jobs[k].op = "free_sockConn_func"
                        /\ \A v \in Workers : Working(v)' /\ work'[v].for = r => work'[v].op = "free_sockConn_func"
      BY <1>0, <1>4, <1>5 DEF PatientInv, Parting
    <2>1. /\ \A d \in Events : d.for = r => Parting(d)
          /\ \A k \in 1..Len(jobs) : jobs[k].for = r => jobs[k].op = "free_sockConn_func"
          /\ \A v \in Workers : Working(v) /\ work[v].for = r => work[v].op = "free_sockConn_func"
      BY <1>0 DEF PatientInv
    <2>2. work[w].for # r
      BY <1>2, <2>1
    <2> QED
      BY <1>1, <1>5, <1>6, <2>1, <2>2
  <1> QED
    BY <1>4, <1>7, <1>8, <1>9, <1>11, <1>12 DEF LoopInv

(* The counters when one worker starts or stops answering.                 *)
LEMMA AnswerCount ==
    ASSUME AnswerInv, NEW w \in Workers, NEW s \in Sessions, Working(w), work[w].for = s,
           \A v \in Workers : v # w => work'[v] = work[v],
           UNCHANGED sent, unread' \in [Sessions -> Nat], answered' \in [Sessions -> Nat],
           \A t \in Sessions : t # s => unread'[t] = unread[t] /\ answered'[t] = answered[t],
           Working(w)' => work'[w].for = s,
           \/ /\ w \in Answering(s) <=> w \in Answering(s)'
              /\ unread'[s] = unread[s] /\ answered'[s] = answered[s]
           \/ /\ w \notin Answering(s) /\ w \in Answering(s)'
              /\ unread[s] > 0 /\ unread'[s] = unread[s] - 1 /\ answered'[s] = answered[s]
           \/ /\ w \notin Answering(s) /\ w \notin Answering(s)'
              /\ unread[s] > 0 /\ unread'[s] = unread[s] - 1 /\ answered'[s] = answered[s]
           \/ /\ w \in Answering(s) /\ w \notin Answering(s)'
              /\ unread'[s] = unread[s] /\ answered'[s] = answered[s] + 1
    PROVE  AnswerInv'
  <1>1. \A t \in Sessions : t # s => Answering(t)' = Answering(t)
    BY DEF Answering, Working
  <1>2. \A v \in Workers : v # w => (v \in Answering(s)' <=> v \in Answering(s))
    BY DEF Answering, Working
  <1>3. Answering(s) \subseteq Workers /\ Answering(s)' \subseteq Workers
    BY DEF Answering
  <1>4. /\ IsFiniteSet(Answering(s)) /\ Cardinality(Answering(s)) \in Nat
        /\ answered[s] \in Nat /\ unread[s] \in Nat /\ sent[s] \in Nat
        /\ answered[s] + unread[s] + Cardinality(Answering(s)) <= sent[s]
    BY AnsweringFinite, LoopAssumption DEF AnswerInv
  <1>5. answered'[s] + unread'[s] + Cardinality(Answering(s))' <= sent[s]
    <2>1. CASE /\ w \in Answering(s) <=> w \in Answering(s)'
               /\ unread'[s] = unread[s] /\ answered'[s] = answered[s]
      <3>1. Answering(s)' = Answering(s)
        <4>1. \A v \in Workers : v \in Answering(s)' <=> v \in Answering(s)
          BY <1>2, <2>1
        <4> QED
          BY <1>3, <4>1
      <3> QED
        BY <1>4, <2>1, <3>1
    <2>2. CASE /\ w \notin Answering(s) /\ w \in Answering(s)'
               /\ unread[s] > 0 /\ unread'[s] = unread[s] - 1 /\ answered'[s] = answered[s]
      <3>1. Answering(s)' = Answering(s) \cup {w}
        BY <1>2, <1>3, <2>2
      <3>2. Cardinality(Answering(s))' = Cardinality(Answering(s)) + 1
        <4>1. Cardinality(Answering(s) \cup {w}) = Cardinality(Answering(s)) + 1
          BY <1>4, <2>2, FS_AddElement
        <4> QED
          BY <3>1, <4>1
      <3> QED
        BY <1>4, <2>2, <3>2
    <2>3. CASE /\ w \in Answering(s) /\ w \notin Answering(s)'
               /\ unread'[s] = unread[s] /\ answered'[s] = answered[s] + 1
      <3>1. Answering(s)' = Answering(s) \ {w}
        BY <1>2, <1>3, <2>3
      <3>2. Cardinality(Answering(s))' = Cardinality(Answering(s)) - 1
        BY <1>4, <2>3, <3>1, FS_RemoveElement
      <3> QED
        BY <1>4, <2>3, <3>2
    <2>4. CASE /\ w \notin Answering(s) /\ w \notin Answering(s)'
               /\ unread[s] > 0 /\ unread'[s] = unread[s] - 1 /\ answered'[s] = answered[s]
      <3>1. Answering(s)' = Answering(s)
        <4>1. \A v \in Workers : v \in Answering(s)' <=> v \in Answering(s)
          BY <1>2, <2>4
        <4> QED
          BY <1>3, <4>1
      <3> QED
        BY <1>4, <2>4, <3>1
    <2> QED
      BY <2>1, <2>2, <2>3, <2>4
  <1> QED
    BY <1>1, <1>5 DEF AnswerInv

LEMMA ReadStepInv ==
    ASSUME LoopInv, NEW w \in Workers, read_sock_func(w)
    PROVE  LoopInv'
  <1>0. /\ LoopTypes /\ RegInv /\ RefInv /\ AnswerInv
        /\ work[w].op = "read_sock_func"
        /\ UNCHANGED <<setting, peer, sent, ready, file, watch, live, sock_fd, unwatched, mpc, batch, jobs>>
        /\ stalled \subseteq Sessions
    BY DEF LoopInv, LoopTypes, read_sock_func, ReadStart, ReadRequest, Answer, ReadEnd, netVars, connVars
  <1> DEFINE c == work[w].conn
             s == work[w].for
             f == sock_fd[c]
             After(pc) == [op |-> "read_sock_func", pc |-> pc, conn |-> c, for |-> s, fd |-> f]
  <1>1. /\ Working(w) /\ c \in Conns /\ s \in Sessions /\ f \in Fds /\ file[f] = s
        /\ work[w] = [op |-> "read_sock_func", pc |-> work[w].pc, conn |-> c, for |-> s, fd |-> work[w].fd]
        /\ work[w].pc # "start" => work[w].fd = f
        /\ work[w].fd \in Fds \cup {None}
    BY <1>0, ReaderFacts
  <1>2. \A pc \in {"loop", "answer", "end"} :
          /\ After(pc) \in Task /\ After(pc).op = "read_sock_func" /\ After(pc).conn = c /\ After(pc).for = s
          /\ After(pc).pc = pc /\ After(pc).fd = f /\ After(pc) # Idle
    BY <1>1 DEF Task, Idle
  <1>3. f # None /\ s # None
    BY <1>1, LoopAssumption
  <1>4. PICK u \in Sessions : u = s
    BY <1>1
  <1>5. w \in Answering(u) <=> work[w].pc = "answer"
    BY <1>1, <1>4 DEF Answering
  <1>6. CASE ReadStart(w)
    <2>1. work' = [work EXCEPT ![w] = After("loop")] /\ UNCHANGED <<unread, answered, stalled>> /\ work[w].pc = "start"
      <3>1. /\ work' = [work EXCEPT ![w].pc = "loop", ![w].fd = f]
            /\ UNCHANGED <<unread, answered, stalled>> /\ work[w].pc = "start"
        BY <1>6 DEF ReadStart, netVars
      <3>2. [work[w] EXCEPT !.pc = "loop", !.fd = f] = After("loop")
        <4>1. PICK r : r = [work[w] EXCEPT !.pc = "loop"]
          OBVIOUS
        <4>2. [work[w] EXCEPT !.pc = "loop", !.fd = f] = [r EXCEPT !.fd = f]
          BY <4>1
        <4>3. r = [op |-> "read_sock_func", pc |-> "loop", conn |-> c, for |-> s, fd |-> work[w].fd]
          BY <1>1, <4>1
        <4>4. [r EXCEPT !.fd = f] = After("loop")
          BY <4>3
        <4> QED
          BY <4>2, <4>4
      <3> QED
        BY <1>0, <3>1, <3>2 DEF LoopTypes
    <2>2. work'[w] = After("loop") /\ \A v \in Workers : v # w => work'[v] = work[v]
      BY <1>0, <2>1 DEF LoopTypes
    <2>3. w \notin Answering(u) /\ w \notin Answering(u)' /\ work'[w].for = u
      BY <1>2, <1>4, <1>5, <2>1, <2>2 DEF Answering
    <2>4. AnswerInv'
      BY <1>0, <1>1, <1>4, <2>1, <2>2, <2>3, AnswerCount DEF AnswerInv
    <2> QED
      BY <1>0, <1>2, <2>1, <2>4, ReadInv
  <1>7. CASE ReadEnd(w)
    <2>1. work' = [work EXCEPT ![w] = Idle] /\ UNCHANGED <<unread, answered, stalled>> /\ work[w].pc = "end"
      BY <1>7 DEF ReadEnd, netVars
    <2>2. work'[w] = Idle /\ \A v \in Workers : v # w => work'[v] = work[v]
      BY <1>0, <2>1 DEF LoopTypes
    <2>3. w \notin Answering(u) /\ w \notin Answering(u)' /\ ~Working(w)'
      BY <1>5, <2>1, <2>2 DEF Answering, Working
    <2>4. AnswerInv'
      BY <1>0, <1>1, <1>4, <2>1, <2>2, <2>3, AnswerCount DEF AnswerInv
    <2> QED
      BY <1>0, <2>1, <2>4, ReadInv
  <1>8. CASE ReadRequest(w)
    <2>1. work[w].pc = "loop" /\ work[w].fd = f /\ UNCHANGED answered
      BY <1>1, <1>8 DEF ReadRequest
    <2>a. stalled' \subseteq Sessions
      BY <1>0, <1>1, <1>3, <1>8, <2>1 DEF ReadRequest
    <2>2. \A pc : [work[w] EXCEPT !.pc = pc] = After(pc)
      BY <1>1, <2>1
    <2>3. \/ /\ unread[s] > 0 /\ unread' = [unread EXCEPT ![s] = @ - 1]
             /\ work' = [work EXCEPT ![w] = After("answer")]
          \/ /\ unread[s] > 0 /\ unread' = [unread EXCEPT ![s] = @ - 1]
             /\ work' = [work EXCEPT ![w] = After("end")]
          \/ /\ unread' = unread /\ work' = [work EXCEPT ![w] = After("end")]
      <3>1. \/ /\ unread[s] > 0 /\ unread' = [unread EXCEPT ![s] = @ - 1]
               /\ work' = [work EXCEPT ![w].pc = "answer"]
            \/ /\ unread[s] > 0 /\ unread' = [unread EXCEPT ![s] = @ - 1]
               /\ work' = [work EXCEPT ![w].pc = "end"]
            \/ /\ unread' = unread /\ work' = [work EXCEPT ![w].pc = "end"]
        BY <1>1, <1>3, <1>8, <2>1 DEF ReadRequest
      <3> QED
        BY <1>0, <2>2, <3>1 DEF LoopTypes
    <2>4. CASE unread[s] > 0 /\ unread' = [unread EXCEPT ![s] = @ - 1] /\ work' = [work EXCEPT ![w] = After("answer")]
      <3>1. work'[w] = After("answer") /\ \A v \in Workers : v # w => work'[v] = work[v]
        BY <1>0, <2>4 DEF LoopTypes
      <3>2. w \notin Answering(u) /\ w \in Answering(u)' /\ work'[w].for = u
        BY <1>2, <1>4, <1>5, <2>1, <3>1 DEF Answering, Working
      <3>3. /\ unread'[u] = unread[u] - 1 /\ unread[u] > 0 /\ \A t \in Sessions : t # u => unread'[t] = unread[t]
            /\ unread' \in [Sessions -> Nat]
        BY <1>0, <1>4, <2>4 DEF AnswerInv
      <3>4. AnswerInv'
        BY <1>0, <1>1, <1>4, <2>1, <3>1, <3>2, <3>3, AnswerCount DEF AnswerInv
      <3> QED
        BY <1>0, <1>2, <2>a, <2>4, <3>4, ReadInv
    <2>5. CASE unread' = unread /\ work' = [work EXCEPT ![w] = After("end")]
      <3>1. work'[w] = After("end") /\ \A v \in Workers : v # w => work'[v] = work[v]
        BY <1>0, <2>5 DEF LoopTypes
      <3>2. w \notin Answering(u) /\ w \notin Answering(u)' /\ work'[w].for = u
        BY <1>2, <1>4, <1>5, <2>1, <3>1 DEF Answering, Working
      <3>3. AnswerInv'
        BY <1>0, <1>1, <1>4, <2>1, <2>5, <3>1, <3>2, AnswerCount DEF AnswerInv
      <3> QED
        BY <1>0, <1>2, <2>a, <2>5, <3>3, ReadInv
    <2>6. CASE unread[s] > 0 /\ unread' = [unread EXCEPT ![s] = @ - 1] /\ work' = [work EXCEPT ![w] = After("end")]
      <3>1. work'[w] = After("end") /\ \A v \in Workers : v # w => work'[v] = work[v]
        BY <1>0, <2>6 DEF LoopTypes
      <3>2. w \notin Answering(u) /\ w \notin Answering(u)' /\ work'[w].for = u
        BY <1>2, <1>4, <1>5, <2>1, <3>1 DEF Answering, Working
      <3>3. /\ unread'[u] = unread[u] - 1 /\ unread[u] > 0 /\ \A t \in Sessions : t # u => unread'[t] = unread[t]
            /\ unread' \in [Sessions -> Nat]
        BY <1>0, <1>4, <2>6 DEF AnswerInv
      <3>4. AnswerInv'
        BY <1>0, <1>1, <1>4, <2>1, <3>1, <3>2, <3>3, AnswerCount DEF AnswerInv
      <3> QED
        BY <1>0, <1>2, <2>a, <2>6, <3>4, ReadInv
    <2> QED
      BY <2>3, <2>4, <2>5, <2>6
  <1>9. CASE Answer(w)
    <2>1. work[w].pc = "answer" /\ work[w].fd = f /\ UNCHANGED <<unread, stalled>>
      BY <1>1, <1>9 DEF Answer
    <2>2. work' = [work EXCEPT ![w] = After("loop")] /\ answered' = [answered EXCEPT ![s] = @ + 1]
      <3>1. work' = [work EXCEPT ![w].pc = "loop"] /\ answered' = [answered EXCEPT ![s] = @ + 1]
        BY <1>1, <1>3, <1>9 DEF Answer
      <3>2. [work[w] EXCEPT !.pc = "loop"] = After("loop")
        BY <1>1, <2>1
      <3> QED
        BY <1>0, <3>1, <3>2 DEF LoopTypes
    <2>3. work'[w] = After("loop") /\ \A v \in Workers : v # w => work'[v] = work[v]
      BY <1>0, <2>2 DEF LoopTypes
    <2>4. w \in Answering(u) /\ w \notin Answering(u)' /\ work'[w].for = u
      BY <1>2, <1>4, <1>5, <2>1, <2>3 DEF Answering, Working
    <2>5. /\ answered'[u] = answered[u] + 1 /\ \A t \in Sessions : t # u => answered'[t] = answered[t]
          /\ answered' \in [Sessions -> Nat]
      BY <1>0, <1>4, <2>2 DEF AnswerInv
    <2>6. AnswerInv'
      BY <1>0, <1>1, <1>4, <2>1, <2>3, <2>4, <2>5, AnswerCount DEF AnswerInv
    <2> QED
      BY <1>0, <1>2, <2>1, <2>2, <2>6, ReadInv
  <1> QED
    BY <1>6, <1>7, <1>8, <1>9 DEF read_sock_func

(* Closing the descriptor: the worker has the only reference.              *)
LEMMA FreeCloseInv ==
    ASSUME LoopInv, NEW w \in Workers, FreeClose(w)
    PROVE  LoopInv'
  <1> DEFINE task == [work[w] EXCEPT !.pc = "free"]
  <1>0. /\ LoopTypes /\ RegInv /\ RefInv /\ CloseInv /\ LastInv /\ PatientInv /\ AnswerInv /\ Orderly
        /\ work[w].op = "free_sockConn_func" /\ work[w].pc = "start"
        /\ UNCHANGED <<setting, unread, sent, answered, stalled, live, unwatched, mpc, batch, jobs>>
    BY DEF LoopInv, FreeClose
  <1>1. work[w] # Idle /\ work[w] \in Task /\ work[w].conn \in Conns /\ work[w].for \in Sessions /\ Working(w)
    BY <1>0, NotIdle, TaskFacts DEF Working
  <1>2. PICK a \in Conns, s \in Sessions : a = work[w].conn /\ s = work[w].for
    BY <1>1
  <1>3. PICK f \in Fds : f = sock_fd[a] /\ file[f] = s /\ watch[s] = a /\ a \in live
    <2>1. watch[s] = a
      BY <1>0, <1>1, <1>2 DEF RefInv
    <2>2. Bound(s)
      BY <1>0, <1>2, <2>1, LoopAssumption DEF RegInv, Registered
    <2> QED
      BY <2>1, <2>2 DEF Bound
  <1>4. f # None /\ s # None /\ a # None
    BY LoopAssumption
  <1>5. /\ task \in Task /\ task # Idle /\ task.op = "free_sockConn_func" /\ task.pc = "free"
        /\ task.conn = a /\ task.for = s
    BY <1>0, <1>1, <1>2 DEF Task, Idle
  <1>6. /\ file' = [file EXCEPT ![f] = None] /\ sock_fd' = [sock_fd EXCEPT ![a] = None]
        /\ watch' = [watch EXCEPT ![s] = None] /\ peer' = [peer EXCEPT ![s] = "gone"]
        /\ ready' = ready \ {s} /\ work' = [work EXCEPT ![w] = task]
    <2>1. work' = [work EXCEPT ![w].pc = "free"]
      BY DEF FreeClose
    <2>2. work' = [work EXCEPT ![w] = task]
      BY <2>1
    <2> HIDE DEF task
    <2> QED
      BY <1>2, <1>3, <1>4, <2>2 DEF FreeClose
  <1> HIDE DEF task
  <1>7. /\ work'[w] = task /\ \A v \in Workers : v # w => work'[v] = work[v]
        /\ file'[f] = None /\ \A g \in Fds : g # f => file'[g] = file[g]
        /\ watch'[s] = None /\ \A t \in Sessions : t # s => watch'[t] = watch[t]
        /\ peer'[s] = "gone" /\ \A t \in Sessions : t # s => peer'[t] = peer[t]
        /\ sock_fd'[a] = None /\ \A b \in Conns : b # a => sock_fd'[b] = sock_fd[b]
    BY <1>0, <1>6 DEF LoopTypes
  <1>8. LoopTypes' /\ Orderly' /\ (Patient' <=> Patient)
    <2>1. work' \in [Workers -> Task \cup {Idle}]
      BY <1>0, <1>5, <1>6 DEF LoopTypes
    <2>2. \A v \in Workers : work'[v] # Idle => v \in setting.workers
      BY <1>0, <1>1, <1>7 DEF LoopTypes
    <2>3. watch' \in [Sessions -> Conns \cup {None}] /\ sock_fd' \in [Conns -> Fds \cup {None}]
      BY <1>0, <1>6 DEF LoopTypes
    <2>4. peer' \in [Sessions -> {"none", "open", "closed", "reset", "gone"}] /\ file' \in [Fds -> Sessions \cup {None}]
      BY <1>0, <1>6 DEF LoopTypes
    <2> QED
      BY <1>0, <1>6, <2>1, <2>2, <2>3, <2>4 DEF LoopTypes, Orderly, Patient, Single
  <1>9. /\ Events' = Events /\ Closing(w)' /\ ~Working(w)' /\ ~Closing(w)
        /\ \A v \in Workers : v # w => (Working(v)' <=> Working(v)) /\ (Closing(v)' <=> Closing(v))
    BY <1>0, <1>5, <1>7 DEF Working, Closing, Events
  <1>10. NoEvent(s) /\ NoJob(s) /\ (\A v \in Workers : Working(v) /\ v # w => work[v].for # s) /\ Leaving(s)
    BY <1>0, <1>1, <1>2 DEF LastInv
  <1>11. \A t \in Sessions : t # s => watch[t] # a
    BY <1>0, <1>3, <1>4, WatchInjective
  <1>12. RegInv'
    <2>1. \A t \in Sessions : watch'[t] # None => Bound(t)'
      <3> SUFFICES ASSUME NEW t \in Sessions, watch'[t] # None PROVE Bound(t)'
        OBVIOUS
      <3>1. t # s /\ watch'[t] = watch[t] /\ watch[t] # None /\ watch[t] # a /\ peer'[t] = peer[t]
        BY <1>7, <1>11
      <3>2. Bound(t) /\ watch[t] \in Conns
        BY <1>0, <3>1 DEF RegInv, Registered, LoopTypes
      <3>3. sock_fd[watch[t]] # f
        BY <1>3, <3>1, <3>2 DEF Bound
      <3> QED
        BY <1>0, <1>7, <3>1, <3>2, <3>3 DEF Bound
    <2>2. \A g \in Fds : file'[g] # None => (watch'[file'[g]] # None /\ sock_fd'[watch'[file'[g]]] = g) \/ Lost(g)'
      <3> SUFFICES ASSUME NEW g \in Fds, file'[g] # None
                   PROVE  (watch'[file'[g]] # None /\ sock_fd'[watch'[file'[g]]] = g) \/ Lost(g)'
        OBVIOUS
      <3>1. g # f /\ file'[g] = file[g] /\ file[g] # None
        BY <1>7
      <3>2. file[g] \in Sessions
        BY <1>0, <3>1 DEF LoopTypes
      <3>3. CASE watch[file[g]] # None /\ sock_fd[watch[file[g]]] = g
        <4>1. file[g] # s /\ watch[file[g]] \in Conns
          BY <1>0, <1>3, <3>1, <3>2, <3>3 DEF LoopTypes
        <4>2. watch[file[g]] # a
          BY <1>11, <3>2, <4>1
        <4> QED
          BY <1>7, <3>1, <3>2, <3>3, <4>1, <4>2
      <3>4. CASE Lost(g)
        <4>1. PICK b \in unwatched : sock_fd[b] = g /\ watch[file[g]] = None
          BY <3>4 DEF Lost
        <4>2. b \in Conns /\ b # a /\ file[g] # s
          BY <1>0, <1>3, <1>4, <4>1 DEF RegInv, LostInv, LoopTypes
        <4> QED
          BY <1>0, <1>7, <3>1, <3>2, <4>1, <4>2 DEF Lost
      <3> QED
        BY <1>0, <3>1, <3>2, <3>3, <3>4 DEF RegInv, Registered
    <2>3. \A b \in live' \ unwatched' : \/ \E t \in Sessions : watch'[t] = b
                                        \/ \E v \in Workers : Closing(v)' /\ work'[v].conn = b
      <3> SUFFICES ASSUME NEW b \in live \ unwatched, b # a
                   PROVE  \/ \E t \in Sessions : watch'[t] = b
                          \/ \E v \in Workers : Closing(v)' /\ work'[v].conn = b
        BY <1>0, <1>5, <1>7, <1>9
      <3>1. CASE \E t \in Sessions : watch[t] = b
        BY <1>3, <1>7, <3>1
      <3>2. CASE \E v \in Workers : Closing(v) /\ work[v].conn = b
        BY <1>7, <1>9, <3>2
      <3> QED
        BY <1>0, <3>1, <3>2 DEF RegInv, Registered
    <2>4. LostInv'
      <3> SUFFICES ASSUME NEW b \in unwatched
                   PROVE  /\ b \in live' /\ \A t \in Sessions : watch'[t] # b
                          /\ \A v \in Workers : Closing(v)' => work'[v].conn # b
                          /\ sock_fd'[b] \in Fds /\ file'[sock_fd'[b]] # None /\ watch'[file'[sock_fd'[b]]] = None
        BY <1>0 DEF LostInv
      <3>1. /\ b \in live /\ \A t \in Sessions : watch[t] # b
            /\ \A v \in Workers : Closing(v) => work[v].conn # b
            /\ sock_fd[b] \in Fds /\ file[sock_fd[b]] # None /\ watch[file[sock_fd[b]]] = None
        BY <1>0 DEF RegInv, LostInv
      <3>2. b \in Conns /\ b # a /\ b # None /\ sock_fd'[b] = sock_fd[b]
        BY <1>0, <1>3, <1>7, <3>1, LoopAssumption DEF LoopTypes
      <3>3. file[sock_fd[b]] \in Sessions /\ file[sock_fd[b]] # s
        BY <1>0, <1>3, <1>4, <3>1 DEF LoopTypes
      <3>4. sock_fd[b] # f
        BY <1>3, <3>3
      <3>5. \A t \in Sessions : watch'[t] # b
        BY <1>7, <3>1, <3>2
      <3>6. \A v \in Workers : Closing(v)' => work'[v].conn # b
        BY <1>5, <1>7, <1>9, <3>1, <3>2
      <3> QED
        BY <1>0, <1>7, <3>1, <3>2, <3>3, <3>4, <3>5, <3>6
    <2> QED
      BY <2>1, <2>2, <2>3, <2>4 DEF RegInv, Registered
  <1>13. RefInv'
    <2>1. \A e \in Events' : watch'[e.for] = e.conn
      BY <1>0, <1>7, <1>9, <1>10, Refs DEF RefInv, NoEvent
    <2>2. \A k \in 1..Len(jobs') : watch'[jobs'[k].for] = jobs'[k].conn
      BY <1>0, <1>7, <1>10, Refs DEF RefInv, NoJob
    <2>3. ASSUME NEW v \in Workers, Working(v)'
          PROVE  /\ watch'[work'[v].for] = work'[v].conn
                 /\ work'[v].pc # "start" => work'[v].fd = sock_fd'[work'[v].conn]
      <3>1. v # w /\ work'[v] = work[v] /\ Working(v)
        BY <1>7, <1>9, <2>3
      <3>2. work[v].for \in Sessions /\ work[v].for # s /\ work[v].conn \in Conns
        BY <1>0, <1>10, <3>1, TaskFacts DEF Working
      <3>3. watch[work[v].for] = work[v].conn /\ (work[v].pc # "start" => work[v].fd = sock_fd[work[v].conn])
        BY <1>0, <3>1 DEF RefInv
      <3>4. work[v].conn # a
        BY <1>11, <3>2, <3>3
      <3> QED
        BY <1>7, <3>1, <3>2, <3>3, <3>4
    <2> QED
      BY <2>1, <2>2, <2>3 DEF RefInv
  <1>14. CloseInv'
    <2>1. \A v \in Workers : Closing(v) => work[v].conn # a /\ work[v].for \in Sessions
      BY <1>0, <1>3, Refs DEF CloseInv
    <2>2. \A v \in Workers : Closing(v)' => /\ work'[v].conn \in live
                                            /\ peer'[work'[v].for] = "gone"
                                            /\ \A t \in Sessions : watch'[t] # work'[v].conn
                                            /\ \A u \in Workers : Closing(u)' /\ work'[u].conn = work'[v].conn => u = v
      <3> SUFFICES ASSUME NEW v \in Workers, Closing(v)'
                   PROVE  /\ work'[v].conn \in live
                          /\ peer'[work'[v].for] = "gone"
                          /\ \A t \in Sessions : watch'[t] # work'[v].conn
                          /\ \A u \in Workers : Closing(u)' /\ work'[u].conn = work'[v].conn => u = v
        OBVIOUS
      <3>1. CASE v = w
        BY <1>3, <1>4, <1>5, <1>7, <1>9, <1>11, <2>1, <3>1
      <3>2. CASE v # w
        <4>1. work'[v] = work[v] /\ Closing(v) /\ work[v].conn # a /\ work[v].for \in Sessions
          BY <1>7, <1>9, <2>1, <3>2
        <4>2. /\ work[v].conn \in live /\ peer[work[v].for] = "gone"
              /\ \A t \in Sessions : watch[t] # work[v].conn
              /\ \A u \in Workers : Closing(u) /\ work[u].conn = work[v].conn => u = v
          BY <1>0, <4>1 DEF CloseInv
        <4>3. \A t \in Sessions : watch'[t] # work[v].conn
          <5>1. work[v].conn # None
            BY <1>0, <4>2, LoopAssumption DEF LoopTypes
          <5> QED
            BY <1>7, <4>2, <5>1
        <4> QED
          BY <1>5, <1>7, <1>9, <4>1, <4>2, <4>3
      <3> QED
        BY <3>1, <3>2
    <2> QED
      BY <1>0, <2>2 DEF CloseInv
  <1>15. \A t \in Sessions : t # s => /\ Leaving(t) => Leaving(t)'
                                      /\ (NoEvent(t)' <=> NoEvent(t)) /\ (NoJob(t)' <=> NoJob(t))
    BY <1>0, <1>6, <1>7, <1>9 DEF Leaving, NoEvent, NoJob
  <1>16. LastInv'
    <2>1. /\ \A e \in Events : e.for \in Sessions /\ e.for # s
          /\ \A k \in 1..Len(jobs) : jobs[k].for \in Sessions /\ jobs[k].for # s
          /\ \A v \in Workers : Working(v)' => Working(v) /\ work'[v] = work[v] /\ work[v].for \in Sessions /\ work[v].for # s
      BY <1>0, <1>7, <1>9, <1>10, Refs DEF NoEvent, NoJob
    <2>2. /\ \A d \in Events' : Parting(d) => Leaving(d.for)'
          /\ \A c, d \in Events' : c.for = d.for => c = d
      BY <1>0, <1>9, <1>15, <2>1 DEF LastInv
    <2>3. \A k \in 1..Len(jobs') : jobs'[k].op = "free_sockConn_func" =>
            /\ Leaving(jobs[k].for)'
            /\ NoEvent(jobs[k].for)'
            /\ \A j \in 1..Len(jobs') : jobs'[j].for = jobs'[k].for => j <= k
      BY <1>0, <1>15, <2>1 DEF LastInv
    <2>4. \A v \in Workers : Working(v)' /\ work'[v].op = "free_sockConn_func" =>
            /\ Leaving(work[v].for)' /\ NoEvent(work[v].for)' /\ NoJob(work[v].for)'
            /\ \A u \in Workers : Working(u)' /\ work'[u].for = work'[v].for => u = v
      BY <1>0, <1>15, <2>1 DEF LastInv
    <2> QED
      BY <2>2, <2>3, <2>4 DEF LastInv, Parting
  <1>17. PatientInv'
    BY <1>0, <1>7, <1>8, <1>9 DEF PatientInv, Parting
  <1>18. AnswerInv'
    <2>1. \A t \in Sessions : Answering(t)' = Answering(t)
      BY <1>0, <1>7, <1>9 DEF Answering
    <2> QED
      BY <1>0, <2>1 DEF AnswerInv
  <1> QED
    BY <1>8, <1>12, <1>13, <1>14, <1>16, <1>17, <1>18 DEF LoopInv

(* The cell is given back: no session is registered with it.               *)
LEMMA FreeConnInv ==
    ASSUME LoopInv, NEW w \in Workers, FreeConn(w)
    PROVE  LoopInv'
  <1>0. /\ LoopTypes /\ RegInv /\ RefInv /\ CloseInv /\ LastInv /\ PatientInv /\ AnswerInv /\ Orderly
        /\ work[w].op = "free_sockConn_func" /\ work[w].pc = "free"
        /\ live' = live \ {work[w].conn} /\ work' = [work EXCEPT ![w] = Idle]
        /\ UNCHANGED <<setting, peer, unread, sent, answered, ready, stalled, file, watch, sock_fd, unwatched, mpc, batch, jobs>>
    BY DEF LoopInv, FreeConn, netVars
  <1>1. work[w] # Idle /\ Closing(w) /\ ~Working(w)
    BY <1>0, NotIdle DEF Working, Closing
  <1>2. work'[w] = Idle /\ \A v \in Workers : v # w => work'[v] = work[v]
    BY <1>0 DEF LoopTypes
  <1>3. LoopTypes' /\ Orderly' /\ (Patient' <=> Patient)
    BY <1>0, <1>2 DEF LoopTypes, Orderly, Patient, Single
  <1>4. /\ Events' = Events /\ ~Closing(w)' /\ ~Working(w)'
        /\ \A v \in Workers : v # w => (Working(v)' <=> Working(v)) /\ (Closing(v)' <=> Closing(v))
    BY <1>0, <1>2 DEF Working, Closing, Events
  <1>5. /\ \A s \in Sessions : watch[s] # work[w].conn
        /\ \A v \in Workers : Closing(v) /\ v # w => work[v].conn # work[w].conn
    BY <1>0, <1>1 DEF CloseInv
  <1>6. RegInv'
    <2>1. \A s \in Sessions : Bound(s) => Bound(s)'
      BY <1>0, <1>5 DEF Bound
    <2>2. \A b \in live' : (\E v \in Workers : Closing(v) /\ work[v].conn = b) => \E v \in Workers : Closing(v)' /\ work'[v].conn = b
      BY <1>0, <1>2, <1>4
    <2>3. \A v \in Workers : Closing(v)' => Closing(v) /\ work'[v].conn = work[v].conn
      BY <1>2, <1>4
    <2>4. unwatched \subseteq live' /\ live' \subseteq live
      BY <1>0, <1>1 DEF RegInv, LostInv
    <2> QED
      BY <1>0, <2>1, <2>2, <2>3, <2>4, RegKept
  <1>7. RefInv'
    BY <1>0, <1>2, <1>4 DEF RefInv
  <1>8. CloseInv'
    BY <1>0, <1>2, <1>4, <1>5 DEF CloseInv
  <1>9. \A t \in Sessions : (Leaving(t)' <=> Leaving(t)) /\ (NoEvent(t)' <=> NoEvent(t)) /\ (NoJob(t)' <=> NoJob(t))
    BY <1>0, <1>4 DEF Leaving, NoEvent, NoJob
  <1>10. LastInv'
    <2>1. \A v \in Workers : Working(v)' => Working(v) /\ work'[v] = work[v] /\ work[v].for \in Sessions
      BY <1>0, <1>2, <1>4, Refs
    <2> QED
      BY <1>0, <1>4, <1>9, <2>1, Refs DEF LastInv, Parting
  <1>11. PatientInv'
    BY <1>0, <1>2, <1>3, <1>4 DEF PatientInv, Parting
  <1>12. AnswerInv'
    <2>1. \A t \in Sessions : Answering(t)' = Answering(t)
      BY <1>1, <1>2, <1>4 DEF Answering
    <2> QED
      BY <1>0, <2>1 DEF AnswerInv
  <1> QED
    BY <1>3, <1>6, <1>7, <1>8, <1>10, <1>11, <1>12 DEF LoopInv

-----------------------------------------------------------------------------
(* The theorems                                                            *)

LEMMA LoopStutterInv == ASSUME LoopInv, UNCHANGED vars PROVE LoopInv'
  <1>0. UNCHANGED <<setting, peer, unread, sent, answered, ready, stalled, file, watch, live, sock_fd, unwatched, mpc, batch, jobs, work>>
    BY DEF vars, netVars, connVars
  <1>1. Events' = Events
    BY <1>0 DEF Events
  <1>2. Orderly' /\ LoopTypes' /\ RegInv' /\ CloseInv'
    <2>1. RegInv'
      BY <1>0, RegKept, Lively DEF LoopInv, Bound, Closing
    <2> QED
      BY <1>0, <2>1 DEF LoopInv, Orderly, Patient, Single, LoopTypes, CloseInv, Closing
  <1>3. RefInv' /\ LastInv' /\ PatientInv'
    BY <1>0, <1>1
    DEF LoopInv, RefInv, LastInv, PatientInv, Patient, Leaving, NoEvent, NoJob, Working, Parting
  <1>4. AnswerInv'
    BY <1>0, AnswerKept DEF LoopInv
  <1> QED
    BY <1>2, <1>3, <1>4 DEF LoopInv

(* The inductive invariant holds in every behaviour of an orderly setting. *)
THEOREM LoopInvariant == Orderly /\ Spec => []LoopInv
  <1>1. Orderly /\ Init => LoopInv
    BY LoopInitInv
  <1>2. LoopInv /\ [Next]_vars => LoopInv'
    <2> SUFFICES ASSUME LoopInv, [Next]_vars PROVE LoopInv'
      OBVIOUS
    <2>1. CASE loop_once
      BY <2>1, EpollWaitInv, ListenInv, AcceptStepInv, HandleEventInv DEF loop_once
    <2>2. CASE ClientStep
      BY <2>2, ClientStepInv DEF ClientStep
    <2>3. CASE \E w \in Workers : WorkerStep(w)
      BY <2>3, TakeInv, ReadStepInv, FreeCloseInv, FreeConnInv DEF WorkerStep, free_sockConn_func
    <2>4. CASE UNCHANGED vars
      BY <2>4, LoopStutterInv
    <2> QED
      BY <2>1, <2>2, <2>3, <2>4 DEF Next
  <1> QED
    BY <1>1, <1>2, PTL DEF Spec

(* The variables keep their types; no client is answered more often than   *)
(* it asked.                                                               *)
THEOREM LoopTypeOK == Orderly /\ Spec => []TypeOK
  <1>1. LoopInv => TypeOK
    <2> SUFFICES ASSUME LoopInv PROVE TypeOK
      OBVIOUS
    <2>1. ASSUME NEW s \in Sessions PROVE unread[s] \in 0..MaxRequests /\ answered[s] \in 0..MaxRequests
      <3>1. /\ Cardinality(Answering(s)) \in Nat /\ answered[s] \in Nat /\ unread[s] \in Nat
            /\ sent[s] \in 0..MaxRequests /\ MaxRequests \in Nat
            /\ answered[s] + unread[s] + Cardinality(Answering(s)) <= sent[s]
        BY AnsweringFinite, LoopAssumption DEF LoopInv, AnswerInv
      <3> QED
        BY <3>1
    <2>2. unread \in [Sessions -> 0..MaxRequests] /\ answered \in [Sessions -> 0..MaxRequests]
      BY <2>1 DEF LoopInv, AnswerInv
    <2> QED
      BY <2>2 DEF LoopInv, LoopTypes, AnswerInv, TypeOK
  <1> QED
    BY <1>1, LoopInvariant, PTL

(* Wherever loop_once, read_sock_func or free_sockConn_func dereferences a *)
(* SOCKCONN, the cell is allocated and is the one of the client it is      *)
(* about.                                                                  *)
THEOREM LoopConnAlive == Orderly /\ Spec => []ConnAlive
  <1>1. LoopInv => ConnAlive
    <2> SUFFICES ASSUME LoopInv PROVE ConnAlive
      OBVIOUS
    <2>0. LoopTypes /\ RegInv /\ RefInv
      BY DEF LoopInv
    <2>1. ASSUME NEW s \in Sessions, NEW a \in Conns, watch[s] = a PROVE Names(a, s)
      BY <2>0, <2>1, LoopAssumption DEF RegInv, Registered, Bound, Names
    <2>2. \A e \in batch \ {ListenEvent} : Names(e.conn, e.for)
      BY <2>0, <2>1, EventFacts DEF RefInv, Events
    <2>3. \A w \in Workers : Working(w) => Names(work[w].conn, work[w].for)
      BY <2>0, <2>1, TaskFacts DEF RefInv, Working
    <2> QED
      BY <2>2, <2>3 DEF ConnAlive, Working
  <1> QED
    BY <1>1, LoopInvariant, PTL

(* read_sock_func reads the stream of no other client, though it keeps the *)
(* descriptor for its whole loop.                                          *)
THEOREM LoopReadsOwnStream == Orderly /\ Spec => []ReadsOwnStream
  <1>1. LoopInv => ReadsOwnStream
    BY ReaderFacts DEF LoopInv, ReadsOwnStream
  <1> QED
    BY <1>1, LoopInvariant, PTL

(* Nothing is lost but what add_epoll_fd could not register: every other   *)
(* SOCKCONN is known to epoll or about to be freed, and every other        *)
(* descriptor belongs to one that is known.                                *)
THEOREM LoopNoLeak == Orderly /\ Spec => []NoLeak
  <1>1. LoopInv => NoLeak
    <2> SUFFICES ASSUME LoopInv PROVE NoLeak
      OBVIOUS
    <2>0. LoopTypes /\ RegInv
      BY DEF LoopInv
    <2>1. \A w \in Workers : Closing(w) => work[w].op = "free_sockConn_func"
      BY <2>0, TaskFacts DEF Closing
    <2>2. ASSUME NEW f \in Fds, file[f] # None
          PROVE  \E a \in live : sock_fd[a] = f /\ (watch[file[f]] = a \/ a \in unwatched)
      <3>1. CASE watch[file[f]] # None /\ sock_fd[watch[file[f]]] = f
        BY <2>0, <2>2, <3>1 DEF RegInv, Registered, Bound, LoopTypes
      <3>2. CASE Lost(f)
        BY <2>0, <3>2, Lively DEF Lost
      <3> QED
        BY <2>0, <2>2, <3>1, <3>2 DEF RegInv, Registered
    <2>3. \A a \in live \ unwatched :
            \/ \E s \in Sessions : watch[s] = a
            \/ \E w \in Workers : work[w].op = "free_sockConn_func" /\ work[w].conn = a
      BY <2>0, <2>1 DEF RegInv, Registered
    <2> QED
      BY <2>0, <2>2, <2>3, Lively DEF NoLeak
  <1> QED
    BY <1>1, LoopInvariant, PTL
=============================================================================
