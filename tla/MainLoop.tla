------------------------------ MODULE MainLoop ------------------------------
(***************************************************************************)
(* How the proxy starts and stops: the steps of main before its loop, each *)
(* of which may fail and end the process, the while loop, the three ways   *)
(* loop_once returns (events, EINTR, another error), the SIGINT handler,   *)
(* and the order in which main gives back what the workers use.            *)
(*                                                                         *)
(* Events are not told apart; each may queue a job.  A job looks a command *)
(* up (value_for_key in parse_object), reads its fields, fetches the       *)
(* credentials (fetch_request_auth in make_soap_request) and reads them.   *)
(***************************************************************************)
EXTENDS Integers, FiniteSets

CONSTANTS Errors,        \* errno values of epoll_wait other than EINTR
          ERRNUMTOEXIT,  \* config_.h
          SERVERPORT,    \* config_.h
          TryNum,        \* ports create_listen_sock tries: 100
          Others,        \* ports that other programs may hold at times
          Keys,          \* keys of the command table
          Workers, None, AnyPort,
          MaxQueued,     \* bound on the jobs waiting in the pool
          MayRecover     \* whether a failing epoll_wait may work again

ASSUME MainAssumption ==
    /\ ERRNUMTOEXIT \in Nat \ {0}
    /\ SERVERPORT \in Nat \ {0} /\ TryNum \in Nat \ {0} /\ Others \subseteq Nat
    /\ MaxQueued \in Nat
    /\ MayRecover \in BOOLEAN
    /\ None \notin Errors \cup Keys

VARIABLES pc,          \* where main is
          g_stop,
          pre_error,   \* the errno of the last failure (0 at first)
          error_num,
          pending,     \* an event is ready
          fault,       \* what epoll_wait fails with at the moment, or None
          interrupted, \* history: SIGINT has been handled
          command_table, auth_base64, threadpool_keepalive,
          tried,       \* ports create_listen_sock has found in use
          port,        \* the port of the server and its connections
          clients,     \* the server has had clients
          taken,       \* ports that somebody else holds
          queued,      \* jobs waiting
          job          \* what each worker is doing

loopVars == <<g_stop, pre_error, error_num, interrupted>>
portVars == <<tried, port, clients, taken>>
envVars == <<pending, fault>>
dataVars == <<command_table, auth_base64>>
poolVars == <<threadpool_keepalive, queued, job>>
vars == <<pc, loopVars, envVars, dataVars, poolVars, portVars>>

Idle == [at |-> "idle"]

(* The SIGINT handler is set and the workers wait for jobs.                *)
Init ==
    /\ pc = "load"
    /\ g_stop = FALSE
    /\ pre_error = None
    /\ error_num = 0
    /\ pending = FALSE
    /\ fault = None
    /\ interrupted = FALSE
    /\ command_table = {}
    /\ auth_base64 = FALSE
    /\ tried = 0
    /\ port = None
    /\ clients = FALSE
    /\ taken \in SUBSET Others
    /\ threadpool_keepalive = TRUE
    /\ queued = 0
    /\ job = [w \in Workers |-> Idle]

-----------------------------------------------------------------------------
(* The world outside: clients, the kernel, the operator                    *)

Starting == {"load", "credentials", "listen", "listening", "epoll"}
Looping == {"test", "call", "wait"}
Stopping == {"close", "table", "auth", "pool"}
Running == pc \in Starting \cup Looping \cup Stopping

ClientEvent ==
    /\ Running
    /\ ~pending
    /\ pending' = TRUE
    /\ UNCHANGED <<pc, loopVars, fault, dataVars, poolVars, portVars>>

Break(e) ==
    /\ Running
    /\ fault # e
    /\ fault = None \/ MayRecover
    /\ fault' = e
    /\ UNCHANGED <<pc, loopVars, pending, dataVars, poolVars, portVars>>

Recover ==
    /\ Running
    /\ MayRecover
    /\ fault # None
    /\ fault' = None
    /\ UNCHANGED <<pc, loopVars, pending, dataVars, poolVars, portVars>>

(* SIGINT: handleInterrupt runs in the main thread, and epoll_wait, if it  *)
(* is waiting, returns EINTR, on which loop_once returns.                  *)
handleInterrupt ==
    /\ Running
    /\ g_stop' = TRUE
    /\ interrupted' = TRUE
    /\ pc' = IF pc = "wait" THEN "test" ELSE pc
    /\ UNCHANGED <<pre_error, error_num, envVars, dataVars, poolVars, portVars>>

(* Other programs come and go.                                             *)
TakePort(p) ==
    /\ p \in Others \ taken /\ p # port
    /\ taken' = taken \cup {p}
    /\ UNCHANGED <<pc, loopVars, envVars, dataVars, poolVars, tried, port, clients>>

FreePort(p) ==
    /\ p \in taken
    /\ taken' = taken \ {p}
    /\ UNCHANGED <<pc, loopVars, envVars, dataVars, poolVars, tried, port, clients>>

-----------------------------------------------------------------------------
(* The main thread before its loop                                         *)


(* init_commands_table: a row of the table commands is hashed,             *)
callback_record_command(k) ==
    /\ pc = "load"
    /\ k \notin command_table
    /\ command_table' = command_table \cup {k}
    /\ UNCHANGED <<pc, loopVars, envVars, auth_base64, poolVars, portVars>>

(* until there are no more.                                                *)
init_commands_table ==
    /\ pc = "load"
    /\ pc' = "credentials"
    /\ UNCHANGED <<loopVars, envVars, dataVars, poolVars, portVars>>

(* init_request_auth: a row with name and password replaces the credentials*)
(* of an earlier one.                                                      *)
callback_record_request ==
    /\ pc = "credentials"
    /\ auth_base64' = TRUE
    /\ UNCHANGED <<pc, loopVars, envVars, command_table, poolVars, portVars>>

(* Without such a row there are no credentials, and that is no error.      *)
init_request_auth ==
    /\ pc = "credentials"
    /\ pc' = "listen"
    /\ UNCHANGED <<loopVars, envVars, dataVars, poolVars, portVars>>

(* Slip: after EADDRINUSE the same port is tried again.                    *)
BindSamePort ==
    /\ pc = "listen"
    /\ SERVERPORT \notin taken
    /\ port' = SERVERPORT
    /\ pc' = "listening"
    /\ UNCHANGED <<loopVars, envVars, dataVars, poolVars, tried, clients, taken>>

(* create_listen_sock: bind to the next port, or find it in use; after     *)
(* TryNum of them the socket is returned as it is, bound to none.          *)
create_listen_sock ==
    /\ pc = "listen"
    /\ LET next == SERVERPORT + tried
       IN  \/ /\ tried < TryNum /\ next \in taken
              /\ tried' = tried + 1
              /\ UNCHANGED <<pc, port>>
           \/ /\ tried < TryNum /\ next \notin taken
              /\ port' = next
              /\ pc' = "listening"
              /\ UNCHANGED tried
           \/ /\ tried = TryNum
              /\ pc' = "listening"
              /\ UNCHANGED <<tried, port>>
    /\ UNCHANGED <<loopVars, envVars, dataVars, poolVars, clients, taken>>

(* listen; a socket that is not bound gets a port of the kernel's choice.  *)
create_server ==
    /\ pc = "listening"
    /\ port' = IF port = None THEN AnyPort ELSE port
    /\ pc' = "epoll"
    /\ UNCHANGED <<loopVars, envVars, dataVars, poolVars, tried, clients, taken>>

create_epoll ==
    /\ pc = "epoll"
    /\ pc' = "test"
    /\ UNCHANGED <<loopVars, envVars, dataVars, poolVars, portVars>>

(* One of them fails: main returns -1 or -3, and the process ends.         *)
StartFails ==
    /\ pc \in Starting
    /\ pc' = "failed"
    /\ UNCHANGED <<loopVars, envVars, dataVars, poolVars, portVars>>

-----------------------------------------------------------------------------
(* The main thread: the loop and the shutdown                              *)

(* while(!g_stop).                                                         *)
LoopTest ==
    /\ pc = "test"
    /\ pc' = IF g_stop THEN "close" ELSE "call"
    /\ UNCHANGED <<loopVars, envVars, dataVars, poolVars, portVars>>

(* epoll_wait is entered; with no time limit it may block.                 *)
LoopCall ==
    /\ pc = "call"
    /\ pc' = "wait"
    /\ UNCHANGED <<loopVars, envVars, dataVars, poolVars, portVars>>

(* epoll_wait returns events; the first is a client that connects, and     *)
(* handling them may queue a job.                                          *)
LoopEvents ==
    /\ pc = "wait"
    /\ fault = None
    /\ pending
    /\ pending' = FALSE
    /\ queued' \in {queued, queued + 1} \cap 0..MaxQueued
    /\ clients' = TRUE
    /\ pc' = "test"
    /\ UNCHANGED <<g_stop, pre_error, error_num, interrupted, fault, dataVars,
                   threadpool_keepalive, job, tried, port, taken>>

(* Slip: pre_error is never set.                                           *)
ForgetError ==
    /\ pc = "wait"
    /\ fault # None
    /\ error_num' = 0
    /\ pc' = "test"
    /\ UNCHANGED <<g_stop, pre_error, interrupted, envVars, dataVars, poolVars, portVars>>

(* Slip: > instead of ==.                                                  *)
GiveUpLater ==
    /\ pc = "wait"
    /\ fault # None
    /\ error_num' = IF pre_error = fault THEN error_num + 1 ELSE 0
    /\ g_stop' = (g_stop \/ error_num' > ERRNUMTOEXIT)
    /\ pre_error' = fault
    /\ pc' = "test"
    /\ UNCHANGED <<interrupted, envVars, dataVars, poolVars, portVars>>

(* epoll_wait fails, not with EINTR.  With nfds = -1 the loop over the     *)
(* events does nothing.                                                    *)
LoopError ==
    /\ pc = "wait"
    /\ fault # None
    /\ error_num' = IF pre_error = fault THEN error_num + 1 ELSE 0
    /\ g_stop' = (g_stop \/ error_num' = ERRNUMTOEXIT)
    /\ pre_error' = IF error_num' = ERRNUMTOEXIT THEN pre_error ELSE fault
    /\ pc' = "test"
    /\ UNCHANGED <<interrupted, envVars, dataVars, poolVars, portVars>>

(* close(listen_fd) and free of the listening SOCKCONN.                    *)
CloseListen ==
    /\ pc = "close"
    /\ pc' = "table"
    /\ UNCHANGED <<loopVars, envVars, dataVars, poolVars, portVars>>

(* HASH_ITER: one element is unlinked and freed at a time.                 *)
destory_commands_table ==
    /\ pc = "table"
    /\ IF command_table = {}
         THEN pc' = "auth" /\ UNCHANGED command_table
         ELSE /\ \E k \in command_table : command_table' = command_table \ {k}
              /\ UNCHANGED pc
    /\ UNCHANGED <<loopVars, envVars, auth_base64, poolVars, portVars>>

destory_request_auth ==
    /\ pc = "auth"
    /\ auth_base64' = FALSE
    /\ pc' = "pool"
    /\ UNCHANGED <<loopVars, envVars, command_table, poolVars, portVars>>

(* Slip: the workers are joined without being told to stop.                *)
JoinOnly ==
    /\ pc = "pool"
    /\ threadpool_keepalive
    /\ UNCHANGED vars

(* threadpool_destroy: no worker starts another job,                       *)
StopPool ==
    /\ pc = "pool"
    /\ threadpool_keepalive
    /\ threadpool_keepalive' = FALSE
    /\ UNCHANGED <<pc, loopVars, envVars, dataVars, queued, job, portVars>>

(* every worker is joined, and the jobs left are freed.                    *)
JoinPool ==
    /\ pc = "pool"
    /\ ~threadpool_keepalive
    /\ \A w \in Workers : job[w] = Idle
    /\ queued' = 0
    /\ pc' = "done"
    /\ UNCHANGED <<loopVars, envVars, dataVars, threadpool_keepalive, job, portVars>>

-----------------------------------------------------------------------------
(* The workers                                                             *)

StartJob(w, k) ==
    /\ job[w] = Idle
    /\ threadpool_keepalive
    /\ queued > 0
    /\ queued' = queued - 1
    /\ job' = [job EXCEPT ![w] = [at |-> "parse", key |-> k]]
    /\ UNCHANGED <<pc, loopVars, envVars, dataVars, threadpool_keepalive, portVars>>

(* The address of the element, or NULL, on which the message is dropped.   *)
value_for_key(w) ==
    /\ job[w].at = "parse"
    /\ job' = [job EXCEPT ![w] = IF @.key \in command_table THEN [@ EXCEPT !.at = "command"] ELSE Idle]
    /\ UNCHANGED <<pc, loopVars, envVars, dataVars, threadpool_keepalive, queued, portVars>>

(* parse_object reads the element; the command goes to the database or to  *)
(* the SOAP server.                                                        *)
UseCommand(w) ==
    /\ job[w].at = "command"
    /\ job' \in {[job EXCEPT ![w].at = "soap"], [job EXCEPT ![w] = Idle]}
    /\ UNCHANGED <<pc, loopVars, envVars, dataVars, threadpool_keepalive, queued, portVars>>

(* With no credentials the request is empty and the client gets an error.  *)
fetch_request_auth(w) ==
    /\ job[w].at = "soap"
    /\ job' = [job EXCEPT ![w] = IF auth_base64 THEN [@ EXCEPT !.at = "request"] ELSE Idle]
    /\ UNCHANGED <<pc, loopVars, envVars, dataVars, threadpool_keepalive, queued, portVars>>

(* make_soap_request copies the credentials; the exchange ends.            *)
UseAuth(w) ==
    /\ job[w].at = "request"
    /\ job' = [job EXCEPT ![w] = Idle]
    /\ UNCHANGED <<pc, loopVars, envVars, dataVars, threadpool_keepalive, queued, portVars>>

-----------------------------------------------------------------------------

Startup ==
    \/ \E k \in Keys : callback_record_command(k)
    \/ init_commands_table
    \/ callback_record_request
    \/ init_request_auth
    \/ create_listen_sock
    \/ create_server
    \/ create_epoll

main ==
    \/ Startup
    \/ LoopTest
    \/ LoopCall
    \/ LoopEvents
    \/ LoopError
    \/ CloseListen
    \/ destory_commands_table
    \/ destory_request_auth
    \/ StopPool
    \/ JoinPool

Worker(w) ==
    \/ \E k \in Keys : StartJob(w, k)
    \/ value_for_key(w)
    \/ UseCommand(w)
    \/ fetch_request_auth(w)
    \/ UseAuth(w)

World ==
    \/ StartFails
    \/ ClientEvent
    \/ handleInterrupt
    \/ Recover
    \/ \E e \in Errors : Break(e)
    \/ \E p \in Others : TakePort(p)
    \/ \E p \in taken : FreePort(p)

Next == main \/ World \/ \E w \in Workers : Worker(w)

Spec == Init /\ [][Next]_vars

-----------------------------------------------------------------------------
(* Correctness                                                             *)

(* The type of every variable.                                             *)
TypeOK ==
    /\ Running \/ pc \in {"done", "failed"}
    /\ g_stop \in BOOLEAN /\ interrupted \in BOOLEAN /\ pending \in BOOLEAN
    /\ pre_error \in Errors \cup {None} /\ fault \in Errors \cup {None}
    /\ error_num \in 0..ERRNUMTOEXIT
    /\ tried \in 0..TryNum /\ port \in {None, AnyPort} \cup Nat /\ clients \in BOOLEAN
    /\ command_table \subseteq Keys /\ auth_base64 \in BOOLEAN
    /\ threadpool_keepalive \in BOOLEAN /\ queued \in 0..MaxQueued
    /\ \A w \in Workers :
         job[w] # Idle => job[w].at \in {"parse", "command", "soap", "request"} /\ job[w].key \in Keys

(* The element value_for_key returned is still allocated when parse_object *)
(* reads it, though main frees the table before it stops the pool.         *)
CommandStays == \A w \in Workers : job[w].at = "command" => job[w].key \in command_table
=============================================================================
