----------------------------- MODULE EventLoop -----------------------------
(***************************************************************************)
(* The life of client connections in proxy_server.c: the epoll loop of the *)
(* main thread (loop_once and its handlers) and the two kinds of job it    *)
(* queues, read_sock_func and free_sockConn_func, run by the workers.      *)
(*                                                                         *)
(* A SOCKCONN is a heap cell; epoll events, SOCKDATA and free jobs carry   *)
(* its address.  Addresses and descriptors are handed out again after they *)
(* are given back, so an address or a descriptor kept too long may name    *)
(* another client.  Each event and job also records, as history, the       *)
(* session it was made for; the program does not know it.                  *)
(*                                                                         *)
(* The pool is FifoPool (ThreadPool implements it): jobs start in the      *)
(* order they were queued and each worker runs one at a time.  Requests    *)
(* are counted, not parsed; each is answered, or refused.                  *)
(***************************************************************************)
EXTENDS Naturals, Sequences, FiniteSets

CONSTANTS Sessions,    \* TCP connections made by clients
          Fds,         \* descriptors the process may have open for clients
          Conns,       \* addresses malloc can return for a SOCKCONN
          Workers,     \* threads of the pool
          None,
          MaxRequests, \* bound on the requests one client sends
          Settings     \* the processes and clients looked at

(* workers, fds: what the process has.  requests: how many a client sends  *)
(* at most.  closeWhen: when clients close.  resetFrom: client states in   *)
(* which a reset can arrive.                                               *)
ASSUME LoopAssumption ==
    /\ None \notin Sessions \cup Fds \cup Conns
    /\ "listen" \notin Sessions
    /\ IsFiniteSet(Workers)
    /\ MaxRequests \in Nat
    /\ Fds \subseteq Nat
    /\ Settings \subseteq [workers : SUBSET Workers, fds : SUBSET Fds, requests : 0..MaxRequests,
                           closeWhen : {"quiet", "answered", "any"},
                           resetFrom : SUBSET {"open", "closed"}]

VARIABLES setting,  \* one of Settings, the same throughout
          peer,     \* the client's side of each session
          unread,   \* requests in the receive buffer of each session
          sent, answered,
          ready,    \* epoll: sessions, or "listen", on the ready list
          file,     \* the descriptor table
          watch,    \* epoll: the data.ptr registered for each session
          live,     \* the SOCKCONNs that are allocated
          sock_fd,  \* sockConn->sock_fd
          mpc,      \* where the main thread is
          batch,    \* events returned by epoll_wait and not yet handled
          jobs,     \* the queue of the pool
          work,     \* what each worker is doing
          stalled,  \* history: a refused request was the last one read, others are behind it
          unwatched \* history: the SOCKCONNs that epoll_ctl did not register

netVars == <<setting, peer, unread, sent, answered, ready, stalled>>
connVars == <<file, watch, live, sock_fd, unwatched>>
vars == <<netVars, connVars, mpc, batch, jobs, work>>

Idle == [op |-> "idle"]

Init ==
    /\ setting \in Settings
    /\ peer = [s \in Sessions |-> "none"]
    /\ unread = [s \in Sessions |-> 0]
    /\ sent = [s \in Sessions |-> 0]
    /\ answered = [s \in Sessions |-> 0]
    /\ ready = {}
    /\ file = [f \in Fds |-> None]
    /\ watch = [s \in Sessions |-> None]
    /\ live = {}
    /\ sock_fd = [a \in Conns |-> None]
    /\ mpc = "wait"
    /\ batch = {}
    /\ jobs = <<>>
    /\ work = [w \in Workers |-> Idle]
    /\ stalled = {}
    /\ unwatched = {}

-----------------------------------------------------------------------------
(* Clients and the kernel                                                  *)

Accepted(s) == \E f \in Fds : file[f] = s

(* Connections the kernel has completed and accept has not returned yet.   *)
Backlog == {s \in Sessions : peer[s] \in {"open", "closed"} /\ ~Accepted(s)}

Connect(s) ==
    /\ peer[s] = "none"
    /\ peer' = [peer EXCEPT ![s] = "open"]
    /\ ready' = ready \cup {"listen"}
    /\ UNCHANGED <<setting, unread, sent, answered, stalled, connVars, mpc, batch, jobs, work>>

(* A request arrives: an edge for epoll.                                   *)
Send(s) ==
    /\ peer[s] = "open"
    /\ sent[s] < setting.requests
    /\ sent' = [sent EXCEPT ![s] = @ + 1]
    /\ unread' = [unread EXCEPT ![s] = @ + 1]
    /\ ready' = ready \cup {s}
    /\ stalled' = stalled \ {s}
    /\ UNCHANGED <<setting, peer, answered, connVars, mpc, batch, jobs, work>>

(* The proxy has nothing left to do for the session.                       *)
Quiet(s) ==
    /\ watch[s] # None
    /\ unread[s] = 0
    /\ s \notin ready
    /\ \A e \in batch : e.for # s
    /\ \A k \in 1..Len(jobs) : jobs[k].for # s
    /\ \A w \in Workers : work[w] # Idle => work[w].for # s

Close(s) ==
    /\ peer[s] = "open"
    /\ \/ setting.closeWhen = "any"
       \/ setting.closeWhen = "answered" /\ watch[s] # None /\ answered[s] = sent[s]
       \/ setting.closeWhen = "quiet" /\ Quiet(s)
    /\ peer' = [peer EXCEPT ![s] = "closed"]
    /\ ready' = ready \cup {s}
    /\ UNCHANGED <<setting, unread, sent, answered, stalled, connVars, mpc, batch, jobs, work>>

(* The peer answers data sent to its closed socket with a reset, or aborts.*)
Reset(s) ==
    /\ peer[s] \in setting.resetFrom
    /\ Accepted(s)
    /\ peer' = [peer EXCEPT ![s] = "reset"]
    /\ unread' = [unread EXCEPT ![s] = 0]
    /\ ready' = ready \cup {s}
    /\ stalled' = stalled \ {s}
    /\ UNCHANGED <<setting, sent, answered, connVars, mpc, batch, jobs, work>>

(* The event mask of a session at the moment epoll_wait reports it.        *)
Mask(s) ==
    (IF unread[s] > 0 \/ peer[s] \in {"closed", "reset"} THEN {"EPOLLIN"} ELSE {})
    \cup (IF peer[s] \in {"closed", "reset"} THEN {"EPOLLRDHUP"} ELSE {})
    \cup (IF peer[s] = "reset" THEN {"EPOLLERR"} ELSE {})

-----------------------------------------------------------------------------
(* The main thread: loop_once                                              *)

(* Registered sessions on the ready list that still have something to say. *)
Reported == {s \in ready \cap Sessions : watch[s] # None /\ Mask(s) # {}}

ListenEvent == [conn |-> None, events |-> {"EPOLLIN"}, for |-> "listen"]

ReadyEvents ==
    {[conn |-> watch[s], events |-> Mask(s), for |-> s] : s \in Reported}
        \cup (IF "listen" \in ready THEN {ListenEvent} ELSE {})

(* epoll_wait with edge triggering: the events of every descriptor on the  *)
(* ready list, which is empty afterwards.                                  *)
EpollWait ==
    /\ mpc = "wait"
    /\ ReadyEvents # {}
    /\ batch' = ReadyEvents
    /\ mpc' = "events"
    /\ ready' = {s \in ready \cap Sessions : watch[s] = None}
    /\ UNCHANGED <<setting, peer, unread, sent, answered, stalled, connVars, jobs, work>>

(* The event of the listening socket: handle_accept begins.                *)
HandleListen ==
    /\ mpc = "events"
    /\ ListenEvent \in batch
    /\ batch' = batch \ {ListenEvent}
    /\ mpc' = "accept"
    /\ UNCHANGED <<netVars, connVars, jobs, work>>

(* The cell at address a, for descriptor f.                                *)
malloc_sockconn(a, f) ==
    /\ a \notin live
    /\ live' = live \cup {a}
    /\ sock_fd' = [sock_fd EXCEPT ![a] = f]

(* Registration puts a socket with data on the ready list at once.  When   *)
(* epoll_ctl fails nothing is undone: cell and descriptor stay, and epoll  *)
(* will never report them.                                                 *)
add_epoll_fd(s, a) ==
    \/ /\ watch' = [watch EXCEPT ![s] = a]
       /\ ready' = IF Mask(s) = {} THEN ready \ {s} ELSE ready \cup {s}
       /\ UNCHANGED unwatched
    \/ /\ unwatched' = unwatched \cup {a}
       /\ UNCHANGED <<watch, ready>>

Free == {f \in setting.fds : file[f] = None}

(* One iteration of handle_accept; accept returns the lowest descriptor    *)
(* that is free.                                                           *)
Accept(s, f, a) ==
    /\ mpc = "accept"
    /\ s \in Backlog
    /\ f \in Free /\ \A g \in Free : f <= g
    /\ file' = [file EXCEPT ![f] = s]
    /\ malloc_sockconn(a, f)
    /\ add_epoll_fd(s, a)
    /\ UNCHANGED <<setting, peer, unread, sent, answered, stalled, mpc, batch, jobs, work>>

(* accept returns EAGAIN, or fails because no descriptor is left: both end *)
(* the loop, and the clients still waiting are not looked at again before  *)
(* another one connects.                                                   *)
AcceptEnds ==
    /\ mpc = "accept"
    /\ Backlog = {} \/ Free = {}
    /\ mpc' = "events"
    /\ UNCHANGED <<netVars, connVars, batch, jobs, work>>

(* The jobs handle_read and handle_disconnect queue.                       *)
ReadJob(e) == [op |-> "read_sock_func", conn |-> e.conn, for |-> e.for]
FreeJob(e) == [op |-> "free_sockConn_func", conn |-> e.conn, for |-> e.for]

(* Slip: the data that came with the FIN is read by a job queued too late. *)
FreeThenRead(e) ==
    /\ mpc = "events"
    /\ e \in batch \ {ListenEvent}
    /\ batch' = batch \ {e}
    /\ jobs' = jobs \o IF "EPOLLRDHUP" \in e.events THEN <<FreeJob(e), ReadJob(e)>> ELSE <<ReadJob(e)>>
    /\ UNCHANGED <<netVars, connVars, mpc, work>>

(* The event of a client: sockConn is dereferenced and a job queued, by    *)
(* handle_disconnect or by handle_read.  EPOLLOUT is never asked for.      *)
HandleEvent(e) ==
    /\ mpc = "events"
    /\ e \in batch \ {ListenEvent}
    /\ batch' = batch \ {e}
    /\ jobs' = Append(jobs,
                 IF "EPOLLERR" \in e.events \/ {"EPOLLIN", "EPOLLRDHUP"} \subseteq e.events
                    THEN FreeJob(e) ELSE ReadJob(e))
    /\ UNCHANGED <<netVars, connVars, mpc, work>>

EventsDone ==
    /\ mpc = "events"
    /\ batch = {}
    /\ mpc' = "wait"
    /\ UNCHANGED <<netVars, connVars, batch, jobs, work>>

-----------------------------------------------------------------------------
(* The workers                                                             *)

Take(w) ==
    /\ w \in setting.workers
    /\ work[w] = Idle
    /\ jobs # <<>>
    /\ work' = [work EXCEPT ![w] = [op |-> jobs[1].op, pc |-> "start",
                                    conn |-> jobs[1].conn, for |-> jobs[1].for, fd |-> None]]
    /\ jobs' = Tail(jobs)
    /\ UNCHANGED <<netVars, connVars, mpc, batch>>

(* sock = sockData->sockConn->sock_fd, read once.                          *)
ReadStart(w) ==
    /\ work[w].op = "read_sock_func"
    /\ work[w].pc = "start"
    /\ work' = [work EXCEPT ![w].pc = "loop", ![w].fd = sock_fd[work[w].conn]]
    /\ UNCHANGED <<netVars, connVars, mpc, batch, jobs>>

(* Slip: a message is taken without testing what recv returned.            *)
ReadUnchecked(w) ==
    /\ work[w].op = "read_sock_func"
    /\ work[w].pc = "loop"
    /\ unread' = [s \in Sessions |-> IF s = file[work[w].fd] THEN unread[s] - 1 ELSE unread[s]]
    /\ work' = [work EXCEPT ![w].pc = "answer"]
    /\ UNCHANGED <<setting, peer, sent, answered, ready, stalled, connVars, mpc, batch, jobs>>

(* One pass of the loop: a request is taken from whatever the descriptor   *)
(* names now, or there is none and the loop ends.  A request that          *)
(* analysis_message refuses ends the loop too, whatever is behind it.      *)
ReadRequest(w) ==
    /\ work[w].op = "read_sock_func"
    /\ work[w].pc = "loop"
    /\ LET s == IF work[w].fd = None THEN None ELSE file[work[w].fd]
           there == IF s = None THEN FALSE ELSE unread[s] > 0
       IN  \/ /\ there
              /\ unread' = [unread EXCEPT ![s] = @ - 1]
              /\ \/ /\ work' = [work EXCEPT ![w].pc = "answer"]
                    /\ stalled' = stalled \ {s}
                 \/ /\ work' = [work EXCEPT ![w].pc = "end"]
                    /\ stalled' = IF unread[s] > 1 THEN stalled \cup {s} ELSE stalled \ {s}
           \/ /\ ~there
              /\ work' = [work EXCEPT ![w].pc = "end"]
              /\ UNCHANGED <<unread, stalled>>
    /\ UNCHANGED <<setting, peer, sent, answered, ready, connVars, mpc, batch, jobs>>

(* Slip: one request for each event.                                       *)
AnswerAndStop(w) ==
    /\ work[w].op = "read_sock_func"
    /\ work[w].pc = "answer"
    /\ work' = [work EXCEPT ![w].pc = "end"]
    /\ UNCHANGED <<netVars, connVars, mpc, batch, jobs>>

(* write_sock_func reads sockConn->sock_fd again and writes to it.         *)
Answer(w) ==
    /\ work[w].op = "read_sock_func"
    /\ work[w].pc = "answer"
    /\ LET f == sock_fd[work[w].conn]
           s == IF f = None THEN None ELSE file[f]
       IN  answered' = IF s = None THEN answered ELSE [answered EXCEPT ![s] = @ + 1]
    /\ work' = [work EXCEPT ![w].pc = "loop"]
    /\ UNCHANGED <<setting, peer, unread, sent, ready, stalled, connVars, mpc, batch, jobs>>

(* free_sockData, which still dereferences sockConn.                       *)
ReadEnd(w) ==
    /\ work[w].op = "read_sock_func"
    /\ work[w].pc = "end"
    /\ work' = [work EXCEPT ![w] = Idle]
    /\ UNCHANGED <<netVars, connVars, mpc, batch, jobs>>

(* free_sockconn: close, which also ends the epoll registration.           *)
FreeClose(w) ==
    /\ work[w].op = "free_sockConn_func"
    /\ work[w].pc = "start"
    /\ LET a == work[w].conn
           f == sock_fd[a]
           s == IF f = None THEN None ELSE file[f]
       IN  /\ file' = IF f = None THEN file ELSE [file EXCEPT ![f] = None]
           /\ sock_fd' = [sock_fd EXCEPT ![a] = None]
           /\ watch' = IF s = None THEN watch ELSE [watch EXCEPT ![s] = None]
           /\ peer' = IF s = None THEN peer ELSE [peer EXCEPT ![s] = "gone"]
           /\ ready' = ready \ {s}
    /\ work' = [work EXCEPT ![w].pc = "free"]
    /\ UNCHANGED <<setting, unread, sent, answered, stalled, live, unwatched, mpc, batch, jobs>>

(* Slip: the descriptor is closed and the cell forgotten.                  *)
ForgetConn(w) ==
    /\ work[w].op = "free_sockConn_func"
    /\ work[w].pc = "free"
    /\ work' = [work EXCEPT ![w] = Idle]
    /\ UNCHANGED <<netVars, connVars, mpc, batch, jobs>>

FreeConn(w) ==
    /\ work[w].op = "free_sockConn_func"
    /\ work[w].pc = "free"
    /\ live' = live \ {work[w].conn}
    /\ work' = [work EXCEPT ![w] = Idle]
    /\ UNCHANGED <<netVars, file, watch, sock_fd, unwatched, mpc, batch, jobs>>

-----------------------------------------------------------------------------

loop_once ==
    \/ EpollWait
    \/ HandleListen
    \/ \E s \in Sessions, f \in Fds, a \in Conns : Accept(s, f, a)
    \/ AcceptEnds
    \/ \E e \in batch : HandleEvent(e)
    \/ EventsDone

read_sock_func(w) == ReadStart(w) \/ ReadRequest(w) \/ Answer(w) \/ ReadEnd(w)

free_sockConn_func(w) == FreeClose(w) \/ FreeConn(w)

WorkerStep(w) == Take(w) \/ read_sock_func(w) \/ free_sockConn_func(w)

ClientStep == \E s \in Sessions : Connect(s) \/ Send(s) \/ Close(s) \/ Reset(s)

Next == loop_once \/ ClientStep \/ \E w \in Workers : WorkerStep(w)

Spec == Init /\ [][Next]_vars

FairSpec ==
    /\ Spec
    /\ WF_vars(loop_once)
    /\ \A w \in Workers : WF_vars(WorkerStep(w))

-----------------------------------------------------------------------------
(* Correctness                                                             *)

Event == [conn : Conns, for : Sessions,
          events : {{"EPOLLIN"}, {"EPOLLIN", "EPOLLRDHUP"}, {"EPOLLIN", "EPOLLRDHUP", "EPOLLERR"}}]
Job == [op : {"read_sock_func", "free_sockConn_func"}, conn : Conns, for : Sessions]
Task == [op : {"read_sock_func"}, pc : {"start", "loop", "answer", "end"},
         conn : Conns, for : Sessions, fd : Fds \cup {None}]
        \cup [op : {"free_sockConn_func"}, pc : {"start", "free"},
              conn : Conns, for : Sessions, fd : {None}]

(* The type of every variable.                                             *)
TypeOK ==
    /\ setting \in Settings
    /\ peer \in [Sessions -> {"none", "open", "closed", "reset", "gone"}]
    /\ unread \in [Sessions -> 0..MaxRequests]
    /\ sent \in [Sessions -> 0..MaxRequests]
    /\ answered \in [Sessions -> 0..MaxRequests]
    /\ ready \subseteq Sessions \cup {"listen"}
    /\ file \in [Fds -> Sessions \cup {None}]
    /\ watch \in [Sessions -> Conns \cup {None}]
    /\ live \subseteq Conns
    /\ sock_fd \in [Conns -> Fds \cup {None}]
    /\ mpc \in {"wait", "accept", "events"}
    /\ batch \subseteq Event \cup {ListenEvent}
    /\ jobs \in Seq(Job)
    /\ work \in [Workers -> Task \cup {Idle}]
    /\ stalled \subseteq Sessions
    /\ unwatched \subseteq Conns

(* The SOCKCONN at address a is allocated and is the one of session s.     *)
Names(a, s) == a \in live /\ watch[s] = a

(* Wherever the program is about to dereference a SOCKCONN, in loop_once,  *)
(* at the start, the answer and the end of read_sock_func and at the start *)
(* of free_sockConn_func, the cell is allocated and belongs to the client  *)
(* the event or job is about.                                              *)
ConnAlive ==
    /\ \A e \in batch \ {ListenEvent} : Names(e.conn, e.for)
    /\ \A w \in Workers : work[w] # Idle /\ work[w].pc # "free" /\ work[w].pc # "loop"
                             => Names(work[w].conn, work[w].for)

(* read_sock_func never reads the byte stream of another client, though it *)
(* keeps the descriptor number across its whole loop and the number may be *)
(* closed and handed out again meanwhile.                                  *)
ReadsOwnStream ==
    \A w \in Workers, f \in Fds :
        work[w].op = "read_sock_func" /\ work[w].pc = "loop" /\ work[w].fd = f
            => file[f] \in {work[w].for, None}

(* What add_epoll_fd could not register is lost, descriptor and SOCKCONN,  *)
(* and nothing else ever is: every other SOCKCONN is known to epoll or is  *)
(* about to be freed, and every other open descriptor belongs to one that  *)
(* is known to epoll.                                                      *)
NoLeak ==
    /\ unwatched \subseteq live
    /\ \A a \in live \ unwatched :
          \/ \E s \in Sessions : watch[s] = a
          \/ \E w \in Workers : work[w].op = "free_sockConn_func" /\ work[w].conn = a
    /\ \A f \in Fds : file[f] # None =>
          \E a \in live : sock_fd[a] = f /\ (watch[file[f]] = a \/ a \in unwatched)

(* Whatever a registered client has done is dealt with.  Its requests are  *)
(* all read, unless one was refused and none came after that: no edge is   *)
(* lost when one job reads the requests of several edges, when two jobs    *)
(* share a client, or when the rest behind a refused request waits for the *)
(* next edge.  Once it has closed, its descriptor is closed.               *)
ClientServed ==
    \A s \in Sessions :
        /\ watch[s] # None /\ unread[s] > 0 ~> unread[s] = 0 \/ s \in stalled \/ peer[s] = "gone"
        /\ watch[s] # None /\ peer[s] \in {"closed", "reset"} ~> peer[s] = "gone"
=============================================================================
