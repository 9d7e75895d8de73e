------------------------------ MODULE Service ------------------------------
(***************************************************************************)
(* The daemon lserverd and the server it keeps running: main of lserverd   *)
(* (wserverd differs in the name of its server), create_daemon,            *)
(* init_child_image, and the process of MainLoop, which may now crash and  *)
(* be started again, with new memory, by the daemon.                       *)
(*                                                                         *)
(* pc gets the values of a process that is not (yet) the server: "none",   *)
(* "image" between fork and exec, and "crashed".                           *)
(***************************************************************************)
EXTENDS MainLoop

(* None stands for: no exit code yet.                                      *)
ASSUME ServiceAssumption == None \notin {0, -2, -3}

VARIABLES daemon,    \* where the daemon is: "start", "fork", "wait", "ended"
          exit_code  \* its own, None before it ends

serviceVars == <<vars, daemon, exit_code>>

ServiceInit ==
    /\ daemon = "start"
    /\ exit_code = None
    /\ pc = "none"
    /\ g_stop = FALSE /\ pre_error = None /\ error_num = 0
    /\ pending = FALSE /\ fault = None
    /\ interrupted = FALSE
    /\ command_table = {} /\ auth_base64 = FALSE
    /\ tried = 0 /\ port = None /\ clients = FALSE /\ taken \in SUBSET Others
    /\ threadpool_keepalive = TRUE /\ queued = 0 /\ job = [w \in Workers |-> Idle]

-----------------------------------------------------------------------------
(* The daemon                                                              *)

Exits(code) == daemon' = "ended" /\ exit_code' = code

(* create_daemon: fork and setsid work,                                    *)
create_daemon ==
    /\ daemon = "start"
    /\ daemon' = "fork"
    /\ UNCHANGED <<vars, exit_code>>

(* or one of them does not.                                                *)
CreateFails ==
    /\ daemon = "start"
    /\ Exits(-2)
    /\ UNCHANGED vars

ForkFails ==
    /\ daemon = "fork"
    /\ Exits(-3)
    /\ UNCHANGED vars

(* What is left of the server before is gone with its process.             *)
Cleared ==
    /\ g_stop' = FALSE /\ pre_error' = None /\ error_num' = 0
    /\ interrupted' = FALSE
    /\ pending' = FALSE /\ fault' = None
    /\ command_table' = {} /\ auth_base64' = FALSE
    /\ tried' = 0 /\ port' = None /\ clients' = FALSE
    /\ threadpool_keepalive' = TRUE /\ queued' = 0 /\ job' = [w \in Workers |-> Idle]
    /\ UNCHANGED taken

Fork ==
    /\ daemon = "fork"
    /\ daemon' = "wait"
    /\ pc' = "image"
    /\ Cleared
    /\ UNCHANGED exit_code

(* Slip: any exit ends the daemon, whatever its status.                    *)
WaitAnyExit ==
    /\ daemon = "wait"
    /\ pc \in {"done", "failed", "crashed"}
    /\ IF pc = "crashed" THEN daemon' = "fork" /\ UNCHANGED exit_code ELSE Exits(0)
    /\ UNCHANGED vars

(* waitpid: after an exit with status 0 the daemon exits, after any other  *)
(* end it forks again.                                                     *)
waitpid ==
    /\ daemon = "wait"
    /\ \/ pc = "done" /\ Exits(0)
       \/ pc \in {"failed", "crashed"} /\ daemon' = "fork" /\ UNCHANGED exit_code
    /\ UNCHANGED vars

-----------------------------------------------------------------------------
(* The child                                                               *)

(* init_child_image: execvp starts the server with its initial memory.     *)
init_child_image ==
    /\ pc = "image"
    /\ pc' = "load"
    /\ UNCHANGED <<loopVars, envVars, dataVars, poolVars, portVars, daemon, exit_code>>

(* The path is not found, or execvp fails: exit(-1).                       *)
ImageFails ==
    /\ pc = "image"
    /\ pc' = "failed"
    /\ UNCHANGED <<loopVars, envVars, dataVars, poolVars, portVars, daemon, exit_code>>

(* The server dies of a signal.  The connections it had to its clients     *)
(* hold their port for a while: bind then finds it in use, for the code    *)
(* does not set SO_REUSEADDR.                                              *)
Crash ==
    /\ Running
    /\ pc' = "crashed"
    /\ queued' = 0 /\ job' = [w \in Workers |-> Idle]
    /\ taken' \in {taken} \cup (IF clients /\ port \in Nat THEN {taken \cup {port}} ELSE {})
    /\ UNCHANGED <<loopVars, envVars, dataVars, threadpool_keepalive, tried, port, clients, daemon, exit_code>>

-----------------------------------------------------------------------------

Daemon == create_daemon \/ Fork \/ waitpid

Failures == CreateFails \/ ForkFails \/ ImageFails \/ Crash

Server == Next /\ UNCHANGED <<daemon, exit_code>>

ServiceNext == Daemon \/ init_child_image \/ Failures \/ Server

ServiceSpec == ServiceInit /\ [][ServiceNext]_serviceVars

(* Every process and thread runs.  Nothing is assumed of clients, of what  *)
(* fails, of other programs or of the operator.                            *)
FairService ==
    /\ ServiceSpec
    /\ WF_serviceVars(Daemon)
    /\ WF_serviceVars(init_child_image)
    /\ WF_serviceVars(main /\ UNCHANGED <<daemon, exit_code>>)
    /\ \A w \in Workers : WF_serviceVars(Worker(w) /\ UNCHANGED <<daemon, exit_code>>)

-----------------------------------------------------------------------------
(* Correctness                                                             *)

(* The type of every variable.                                             *)
ServiceTypeOK ==
    /\ TypeOK \/ pc \in {"none", "image", "crashed"}
    /\ error_num \in 0..ERRNUMTOEXIT
    /\ daemon \in {"start", "fork", "wait", "ended"}
    /\ exit_code \in {None, 0, -2, -3}
    /\ exit_code = None <=> daemon # "ended"

(* The daemon ends with success only when the server left its loop on      *)
(* purpose and gave everything back; and a server that runs has a daemon   *)
(* that waits for it.                                                      *)
EndsWithServer ==
    /\ exit_code = 0 => pc = "done" /\ g_stop /\ command_table = {} /\ ~threadpool_keepalive
    /\ Running \/ pc = "image" => daemon = "wait"

(* An epoll_wait that fails with one error for ever ends the service: the  *)
(* loop is left, the shutdown, which waits for the workers, completes, and *)
(* the daemon takes that for a normal end and does not start another.      *)
LastingErrorEnds == (\E e \in Errors : [](fault = e)) ~> daemon = "ended"

(* The service has ended, or the server failed before it could: then the   *)
(* daemon starts another, which knows nothing of the signal.               *)
Over == daemon = "ended" \/ pc \in {"failed", "crashed"}

(* SIGINT ends the service whenever it arrives, before the loop, while     *)
(* epoll_wait waits or between two calls, with no event to help it; only   *)
(* if it arrives after the test of g_stop and before epoll_wait waits does *)
(* the service need an event, and then it still ends.                      *)
InterruptHeeded == interrupted /\ (pc \in {"call", "wait"} => pending) ~> Over

(* The service comes back after every crash: either it serves again and    *)
(* again, or its servers keep failing, or the daemon has ended.            *)
ServerBack ==
    \/ []<>(pc \in Looping)
    \/ []<>(pc \in {"failed", "crashed"} /\ daemon = "fork")
    \/ <>(daemon = "ended")

(* The server listens at the port create_server is given.                  *)
ListensAtPort == pc \in Looping => port = SERVERPORT
=============================================================================
