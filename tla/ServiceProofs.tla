---------------------------- MODULE ServiceProofs ----------------------------
(***************************************************************************)
(* Safety of the service for every ERRNUMTOEXIT and every number of        *)
(* workers, keys and ports, with crashes and restarts anywhere.            *)
(***************************************************************************)
EXTENDS Service, TLAPS

(* What is true of the server's memory at each point of its shutdown.      *)
ShutdownInv ==
    /\ pc \in Stopping \cup {"done"} => g_stop
    /\ pc \in {"auth", "pool", "done"} => command_table = {}
    /\ pc = "done" => ~threadpool_keepalive

(* Where the daemon is while the server is somewhere.                      *)
DaemonInv ==
    /\ Running \/ pc = "image" => daemon = "wait"
    /\ exit_code \in {None, 0, -2, -3}
    /\ exit_code = 0 => pc = "done"
    /\ daemon \in {"start", "fork"} => exit_code # 0
    /\ daemon = "wait" => exit_code # 0

ServiceInv == ShutdownInv /\ DaemonInv

USE DEF Running, Starting, Looping, Stopping, loopVars, envVars, dataVars, poolVars, portVars

(* The service begins in the invariant.                                    *)
LEMMA InitInv == ServiceInit => ServiceInv
  BY MainAssumption, ServiceAssumption DEF ServiceInit, ServiceInv, ShutdownInv, DaemonInv

(* The steps of main before its loop touch no more than the place of main. *)
LEMMA StartupInv ==
    ASSUME ServiceInv, Startup, UNCHANGED <<daemon, exit_code>>
    PROVE  ServiceInv'
  <1>1. UNCHANGED loopVars /\ UNCHANGED threadpool_keepalive
    BY DEF Startup, callback_record_command, init_commands_table, callback_record_request, init_request_auth,
           create_listen_sock, create_server, create_epoll
  <1>2. pc \in Starting /\ pc' \in Starting \cup {"test"}
    BY DEF Startup, callback_record_command, init_commands_table, callback_record_request, init_request_auth,
           create_listen_sock, create_server, create_epoll
  <1> QED
    BY <1>1, <1>2 DEF ServiceInv, ShutdownInv, DaemonInv

(* The steps of the loop and the shutdown.                                 *)
LEMMA LoopInv ==
    ASSUME ServiceInv, UNCHANGED <<daemon, exit_code>>,
           \/ LoopTest \/ LoopCall \/ LoopEvents \/ LoopError
           \/ CloseListen \/ destory_commands_table \/ destory_request_auth \/ StopPool \/ JoinPool
    PROVE  ServiceInv'
  <1>1. CASE LoopTest
    BY <1>1 DEF LoopTest, ServiceInv, ShutdownInv, DaemonInv
  <1>2. CASE LoopCall
    BY <1>2 DEF LoopCall, ServiceInv, ShutdownInv, DaemonInv
  <1>3. CASE LoopEvents
    BY <1>3 DEF LoopEvents, ServiceInv, ShutdownInv, DaemonInv
  <1>4. CASE CloseListen
    BY <1>4 DEF CloseListen, ServiceInv, ShutdownInv, DaemonInv
  <1>5. CASE destory_commands_table
    BY <1>5 DEF destory_commands_table, ServiceInv, ShutdownInv, DaemonInv
  <1>6. CASE destory_request_auth
    BY <1>6 DEF destory_request_auth, ServiceInv, ShutdownInv, DaemonInv
  <1>7. CASE StopPool
    BY <1>7 DEF StopPool, ServiceInv, ShutdownInv, DaemonInv
  <1>8. CASE JoinPool
    BY <1>8 DEF JoinPool, ServiceInv, ShutdownInv, DaemonInv
  <1>9. CASE LoopError
    BY <1>9 DEF LoopError, ServiceInv, ShutdownInv, DaemonInv
  <1> QED
    BY <1>1, <1>2, <1>3, <1>4, <1>5, <1>6, <1>7, <1>8, <1>9

(* Workers change nothing the invariant speaks of.                         *)
LEMMA WorkerInv ==
    ASSUME ServiceInv, UNCHANGED <<daemon, exit_code>>, NEW w \in Workers, Worker(w)
    PROVE  ServiceInv'
  <1>1. UNCHANGED <<pc, loopVars, dataVars, threadpool_keepalive>>
    BY DEF Worker, StartJob, value_for_key, UseCommand, fetch_request_auth, UseAuth
  <1> QED
    BY <1>1 DEF ServiceInv, ShutdownInv, DaemonInv

(* Clients, the kernel, other programs and the operator.                   *)
LEMMA WorldInv ==
    ASSUME ServiceInv, UNCHANGED <<daemon, exit_code>>, World
    PROVE  ServiceInv'
  <1>1. CASE StartFails
    BY <1>1 DEF StartFails, ServiceInv, ShutdownInv, DaemonInv
  <1>2. CASE handleInterrupt
    BY <1>2 DEF handleInterrupt, ServiceInv, ShutdownInv, DaemonInv
  <1>3. CASE \/ ClientEvent \/ Recover \/ \E e \in Errors : Break(e)
             \/ \E p \in Others : TakePort(p)
             \/ \E p \in taken : FreePort(p)
    <2>1. UNCHANGED <<pc, loopVars, dataVars, threadpool_keepalive>>
      BY <1>3 DEF ClientEvent, Recover, Break, TakePort, FreePort
    <2> QED
      BY <2>1 DEF ServiceInv, ShutdownInv, DaemonInv
  <1> QED
    BY <1>1, <1>2, <1>3 DEF World

(* The daemon, the image of the server and its crash.                      *)
LEMMA ProcessInv ==
    ASSUME ServiceInv, Daemon \/ init_child_image \/ Failures
    PROVE  ServiceInv'
  <1>1. CASE create_daemon
    BY <1>1 DEF create_daemon, vars, ServiceInv, ShutdownInv, DaemonInv
  <1>2. CASE Fork
    BY <1>2, MainAssumption DEF Fork, Cleared, ServiceInv, ShutdownInv, DaemonInv
  <1>3. CASE waitpid
    BY <1>3 DEF waitpid, Exits, vars, ServiceInv, ShutdownInv, DaemonInv
  <1>4. CASE init_child_image
    BY <1>4 DEF init_child_image, ServiceInv, ShutdownInv, DaemonInv
  <1>5. CASE CreateFails
    BY <1>5 DEF CreateFails, Exits, vars, ServiceInv, ShutdownInv, DaemonInv
  <1>6. CASE ForkFails
    BY <1>6 DEF ForkFails, Exits, vars, ServiceInv, ShutdownInv, DaemonInv
  <1>7. CASE ImageFails
    BY <1>7 DEF ImageFails, ServiceInv, ShutdownInv, DaemonInv
  <1>8. CASE Crash
    BY <1>8 DEF Crash, ServiceInv, ShutdownInv, DaemonInv
  <1> QED
    BY <1>1, <1>2, <1>3, <1>4, <1>5, <1>6, <1>7, <1>8 DEF Daemon, Failures

(* Every reachable state satisfies the invariant.                          *)
THEOREM ServiceInvariant == ServiceSpec => []ServiceInv
  <1>1. ServiceInv /\ [ServiceNext]_serviceVars => ServiceInv'
    <2> SUFFICES ASSUME ServiceInv, [ServiceNext]_serviceVars
                 PROVE  ServiceInv'
      OBVIOUS
    <2>1. CASE UNCHANGED serviceVars
      BY <2>1 DEF serviceVars, vars, ServiceInv, ShutdownInv, DaemonInv
    <2>2. CASE Daemon \/ init_child_image \/ Failures
      BY <2>2, ProcessInv
    <2>3. CASE Server
      <3>1. UNCHANGED <<daemon, exit_code>>
        BY <2>3 DEF Server
      <3>2. CASE main
        BY <3>1, <3>2, StartupInv, LoopInv DEF main
      <3>3. CASE World
        BY <3>1, <3>3, WorldInv
      <3>4. CASE \E w \in Workers : Worker(w)
        BY <3>1, <3>4, WorkerInv
      <3> QED
        BY <2>3, <3>2, <3>3, <3>4 DEF Server, Next
    <2> QED
      BY <2>1, <2>2, <2>3 DEF ServiceNext
  <1> QED
    BY <1>1, InitInv, PTL DEF ServiceSpec

(* The daemon reports success only for a server that was told to stop and  *)
(* gave everything back, and no server runs without a daemon that waits    *)
(* for it.                                                                 *)
THEOREM ServiceEnds == ServiceSpec => []EndsWithServer
  <1>1. ServiceInv => EndsWithServer
    BY DEF ServiceInv, ShutdownInv, DaemonInv, EndsWithServer
  <1> QED
    BY <1>1, ServiceInvariant, PTL

-----------------------------------------------------------------------------
(* Types                                                                   *)

(* What the loop counts: the counter never passes ERRNUMTOEXIT, for once   *)
(* it is there g_stop is set and epoll_wait is not called again.           *)
LoopType ==
    /\ pre_error \in Errors \cup {None} /\ fault \in Errors \cup {None}
    /\ error_num \in Nat /\ error_num <= ERRNUMTOEXIT
    /\ error_num = ERRNUMTOEXIT => g_stop
    /\ pc \in {"call", "wait"} => error_num < ERRNUMTOEXIT

FlagType ==
    /\ g_stop \in BOOLEAN /\ interrupted \in BOOLEAN /\ pending \in BOOLEAN
    /\ clients \in BOOLEAN /\ auth_base64 \in BOOLEAN /\ threadpool_keepalive \in BOOLEAN

DataType ==
    /\ tried \in 0..TryNum
    /\ port \in {None, AnyPort} \cup Nat
    /\ command_table \subseteq Keys
    /\ queued \in 0..MaxQueued

AtWork == [at : {"parse", "command", "soap", "request"}, key : Keys]
JobType == job \in [Workers -> {Idle} \cup AtWork]

ProcessType ==
    /\ Running \/ pc \in {"done", "failed", "none", "image", "crashed"}
    /\ daemon \in {"start", "fork", "wait", "ended"}
    /\ exit_code \in {None, 0, -2, -3}
    /\ exit_code = None <=> daemon # "ended"

ServiceTypes == LoopType /\ FlagType /\ DataType /\ JobType /\ ProcessType

(* The steps of the server keep the counters in their bounds.              *)
LEMMA LoopTypeStep ==
    ASSUME LoopType, FlagType, Server
    PROVE  LoopType'
  <1>0. ERRNUMTOEXIT \in Nat \ {0}
    BY MainAssumption
  <1>1. CASE LoopError
    <2>1. /\ pc = "wait" /\ pc' = "test" /\ fault' = fault
          /\ error_num' \in {0, error_num + 1}
          /\ pre_error' \in {pre_error, fault}
      BY <1>1 DEF LoopError
    <2>2. error_num' = ERRNUMTOEXIT => g_stop'
      BY <1>1, Zenon DEF LoopError
    <2> QED
      BY <1>0, <2>1, <2>2 DEF LoopType
  <1>2. CASE handleInterrupt
    BY <1>2 DEF handleInterrupt, LoopType
  <1>3. CASE \E e \in Errors : Break(e)
    BY <1>3 DEF Break, LoopType
  <1>4. CASE Recover
    BY <1>4 DEF Recover, LoopType
  <1>5. CASE LoopTest
    BY <1>0, <1>5 DEF LoopTest, LoopType
  <1>6. CASE LoopCall \/ LoopEvents
    BY <1>0, <1>6 DEF LoopCall, LoopEvents, LoopType
  <1>7. CASE UNCHANGED <<loopVars, fault>> /\ pc' \notin {"call", "wait"}
    BY <1>7 DEF LoopType
  <1>8. CASE UNCHANGED <<loopVars, fault, pc>>
    BY <1>8 DEF LoopType
  <1>9. CASE Startup
    <2>1. UNCHANGED <<loopVars, fault>> /\ pc' \notin {"call", "wait"}
      BY <1>9
      DEF Startup, callback_record_command, init_commands_table, callback_record_request, init_request_auth,
          create_listen_sock, create_server, create_epoll
    <2> QED
      BY <1>7, <2>1
  <1>10. CASE \/ CloseListen \/ destory_commands_table \/ destory_request_auth
              \/ StopPool \/ JoinPool \/ StartFails
    <2>1. UNCHANGED <<loopVars, fault>> /\ pc' \notin {"call", "wait"}
      BY <1>10 DEF CloseListen, destory_commands_table, destory_request_auth, StopPool, JoinPool, StartFails
    <2> QED
      BY <1>7, <2>1
  <1>11. CASE \/ ClientEvent \/ (\E p \in Others : TakePort(p)) \/ (\E p \in taken : FreePort(p))
              \/ \E w \in Workers : Worker(w)
    <2>1. UNCHANGED <<loopVars, fault, pc>>
      BY <1>11 DEF ClientEvent, TakePort, FreePort, Worker, StartJob, value_for_key, UseCommand,
                   fetch_request_auth, UseAuth
    <2> QED
      BY <1>8, <2>1
  <1> QED
    BY <1>1, <1>2, <1>3, <1>4, <1>5, <1>6, <1>9, <1>10, <1>11 DEF Server, Next, main, World

(* The steps of the server keep the flags Boolean.                         *)
LEMMA FlagTypeStep ==
    ASSUME FlagType, Server
    PROVE  FlagType'
  <1>1. CASE main
    BY <1>1
    DEF FlagType, main, Startup, callback_record_command, init_commands_table, callback_record_request,
        init_request_auth, create_listen_sock, create_server, create_epoll, LoopTest, LoopCall, LoopEvents,
        LoopError, CloseListen, destory_commands_table, destory_request_auth, StopPool, JoinPool
  <1>2. CASE World
    BY <1>2 DEF FlagType, World, StartFails, ClientEvent, handleInterrupt, Recover, Break, TakePort, FreePort
  <1>3. CASE \E w \in Workers : Worker(w)
    BY <1>3 DEF FlagType, Worker, StartJob, value_for_key, UseCommand, fetch_request_auth, UseAuth
  <1> QED
    BY <1>1, <1>2, <1>3 DEF Server, Next

(* The ports, the table and the queue.                                     *)
LEMMA DataTypeStep ==
    ASSUME DataType, Server
    PROVE  DataType'
  <1>0. SERVERPORT \in Nat /\ TryNum \in Nat /\ MaxQueued \in Nat
    BY MainAssumption
  <1>1. CASE \E k \in Keys : callback_record_command(k)
    BY <1>1 DEF DataType, callback_record_command
  <1>2. CASE create_listen_sock
    BY <1>0, <1>2 DEF DataType, create_listen_sock
  <1>3. CASE create_server
    BY <1>3 DEF DataType, create_server
  <1>4. CASE LoopEvents
    BY <1>4 DEF DataType, LoopEvents
  <1>5. CASE destory_commands_table
    BY <1>5 DEF DataType, destory_commands_table
  <1>6. CASE JoinPool
    BY <1>0, <1>6 DEF DataType, JoinPool
  <1>7. CASE \E w \in Workers, k \in Keys : StartJob(w, k)
    BY <1>0, <1>7 DEF DataType, StartJob
  <1>8. CASE UNCHANGED <<tried, port, command_table, queued>>
    BY <1>8 DEF DataType
  <1>9. CASE \/ init_commands_table \/ callback_record_request \/ init_request_auth \/ create_epoll
             \/ LoopTest \/ LoopCall \/ LoopError \/ CloseListen \/ destory_request_auth \/ StopPool
    BY <1>8, <1>9
    DEF init_commands_table, callback_record_request, init_request_auth, create_epoll,
        LoopTest, LoopCall, LoopError, CloseListen, destory_request_auth, StopPool
  <1>10. CASE World
    BY <1>8, <1>10 DEF World, StartFails, ClientEvent, handleInterrupt, Recover, Break, TakePort, FreePort
  <1>11. CASE \E w \in Workers : value_for_key(w) \/ UseCommand(w) \/ fetch_request_auth(w) \/ UseAuth(w)
    BY <1>8, <1>11 DEF value_for_key, UseCommand, fetch_request_auth, UseAuth
  <1> QED
    BY <1>1, <1>2, <1>3, <1>4, <1>5, <1>6, <1>7, <1>9, <1>10, <1>11 DEF Server, Next, main, Startup, Worker

(* What the workers do.                                                    *)
LEMMA JobTypeStep ==
    ASSUME JobType, Server
    PROVE  JobType'
  <1>1. ASSUME NEW w \in Workers, Worker(w)
        PROVE  JobType'
    <2>1. job \in [Workers -> {Idle} \cup AtWork]
      BY DEF JobType
    <2>2. job[w].at \in {"parse", "command", "soap", "request"} => job[w] \in AtWork
      BY <2>1 DEF Idle, AtWork
    <2>3. CASE \E k \in Keys : StartJob(w, k)
      BY <2>1, <2>3 DEF JobType, StartJob, AtWork
    <2>4. CASE value_for_key(w)
      BY <2>1, <2>2, <2>4 DEF JobType, value_for_key, AtWork
    <2>5. CASE UseCommand(w)
      BY <2>1, <2>2, <2>5 DEF JobType, UseCommand, AtWork
    <2>6. CASE fetch_request_auth(w)
      BY <2>1, <2>2, <2>6 DEF JobType, fetch_request_auth, AtWork
    <2>7. CASE UseAuth(w)
      BY <2>1, <2>7 DEF JobType, UseAuth
    <2> QED
      BY <1>1, <2>3, <2>4, <2>5, <2>6, <2>7 DEF Worker
  <1>2. CASE main
    <2>1. UNCHANGED job
      BY <1>2
      DEF main, Startup, callback_record_command, init_commands_table, callback_record_request,
          init_request_auth, create_listen_sock, create_server, create_epoll, LoopTest, LoopCall, LoopEvents,
          LoopError, CloseListen, destory_commands_table, destory_request_auth, StopPool, JoinPool
    <2> QED
      BY <2>1 DEF JobType
  <1>3. CASE World
    <2>1. UNCHANGED job
      BY <1>3 DEF World, StartFails, ClientEvent, handleInterrupt, Recover, Break, TakePort, FreePort
    <2> QED
      BY <2>1 DEF JobType
  <1> QED
    BY <1>1, <1>2, <1>3 DEF Server, Next

(* Where main is, and the daemon.                                          *)
LEMMA ProcessTypeStep ==
    ASSUME ProcessType, Server
    PROVE  ProcessType'
  <1>0. UNCHANGED <<daemon, exit_code>>
    BY DEF Server
  <1>1. CASE main
    <2>1. pc' \in Starting \cup Looping \cup Stopping \cup {"done"}
      BY <1>1
      DEF main, Startup, callback_record_command, init_commands_table, callback_record_request,
          init_request_auth, create_listen_sock, create_server, create_epoll, LoopTest, LoopCall, LoopEvents,
          LoopError, CloseListen, destory_commands_table, destory_request_auth, StopPool, JoinPool
    <2> QED
      BY <1>0, <2>1 DEF ProcessType
  <1>2. CASE World
    BY <1>0, <1>2
    DEF ProcessType, World, StartFails, ClientEvent, handleInterrupt, Recover, Break, TakePort, FreePort
  <1>3. CASE \E w \in Workers : Worker(w)
    BY <1>0, <1>3 DEF ProcessType, Worker, StartJob, value_for_key, UseCommand, fetch_request_auth, UseAuth
  <1> QED
    BY <1>1, <1>2, <1>3 DEF Server, Next

(* The types hold of a server that is just started, and of the first one.  *)
LEMMA FreshTypes ==
    /\ ServiceInit => ServiceTypes
    /\ ServiceTypes /\ Fork => ServiceTypes'
  <1>0. /\ ERRNUMTOEXIT \in Nat \ {0} /\ TryNum \in Nat /\ MaxQueued \in Nat
        /\ None \notin {0, -2, -3}
    BY MainAssumption, ServiceAssumption
  <1>1. ASSUME ServiceInit PROVE ServiceTypes
    <2> USE <1>1 DEF ServiceInit
    <2>1. LoopType
      BY <1>0 DEF LoopType
    <2>2. FlagType /\ JobType
      BY DEF FlagType, JobType
    <2>3. DataType
      BY <1>0 DEF DataType
    <2>4. ProcessType
      BY <1>0 DEF ProcessType
    <2> QED
      BY <2>1, <2>2, <2>3, <2>4 DEF ServiceTypes
  <1>2. ASSUME ServiceTypes, Fork PROVE ServiceTypes'
    <2> USE <1>2 DEF Fork, Cleared
    <2>1. LoopType'
      BY <1>0 DEF LoopType
    <2>2. FlagType' /\ JobType'
      BY DEF FlagType, JobType
    <2>3. DataType'
      BY <1>0 DEF DataType
    <2>4. ProcessType'
      BY <1>0 DEF ProcessType, ServiceTypes
    <2> QED
      BY <2>1, <2>2, <2>3, <2>4 DEF ServiceTypes
  <1> QED
    BY <1>1, <1>2

(* The other steps of the daemon, exec and the crash of the server.        *)
LEMMA ProcessTypes ==
    ASSUME ServiceTypes,
           \/ create_daemon \/ waitpid \/ CreateFails \/ ForkFails
           \/ init_child_image \/ ImageFails \/ Crash
    PROVE  ServiceTypes'
  <1>0. None \notin {0, -2, -3} /\ MaxQueued \in Nat
    BY MainAssumption, ServiceAssumption
  <1>1. CASE create_daemon \/ waitpid \/ CreateFails \/ ForkFails
    <2>1. UNCHANGED vars
      BY <1>1 DEF create_daemon, waitpid, CreateFails, ForkFails
    <2>2. ProcessType'
      BY <1>0, <1>1, <2>1 DEF create_daemon, waitpid, CreateFails, ForkFails, Exits, ProcessType, ServiceTypes, vars
    <2> QED
      BY <2>1, <2>2 DEF vars, ServiceTypes, LoopType, FlagType, DataType, JobType
  <1>2. CASE init_child_image \/ ImageFails
    BY <1>2 DEF init_child_image, ImageFails, ServiceTypes, LoopType, FlagType, DataType, JobType, ProcessType
  <1>3. CASE Crash
    <2>1. JobType' /\ LoopType' /\ FlagType'
      BY <1>3 DEF Crash, ServiceTypes, JobType, LoopType, FlagType
    <2>2. DataType'
      BY <1>0, <1>3 DEF Crash, ServiceTypes, DataType
    <2>3. ProcessType'
      BY <1>3 DEF Crash, ServiceTypes, ProcessType
    <2> QED
      BY <2>1, <2>2, <2>3 DEF ServiceTypes
  <1> QED
    BY <1>1, <1>2, <1>3

(* The variables of the daemon and of its servers keep their types; the    *)
(* counter of loop_once stays within 0..ERRNUMTOEXIT, so that the test for *)
(* equality with ERRNUMTOEXIT cannot be stepped over.                      *)
THEOREM ServiceTypesHold == ServiceSpec => []ServiceTypeOK
  <1>1. ServiceTypes /\ [ServiceNext]_serviceVars => ServiceTypes'
    <2> SUFFICES ASSUME ServiceTypes, [ServiceNext]_serviceVars PROVE ServiceTypes'
      OBVIOUS
    <2>1. CASE UNCHANGED serviceVars
      BY <2>1 DEF serviceVars, vars, ServiceTypes, LoopType, FlagType, DataType, JobType, ProcessType
    <2>2. CASE Server
      BY <2>2, LoopTypeStep, FlagTypeStep, DataTypeStep, JobTypeStep, ProcessTypeStep DEF ServiceTypes
    <2>3. CASE Daemon \/ init_child_image \/ Failures
      BY <2>3, FreshTypes, ProcessTypes DEF Daemon, Failures
    <2> QED
      BY <2>1, <2>2, <2>3 DEF ServiceNext
  <1>2. ServiceTypes => ServiceTypeOK
    <2> SUFFICES ASSUME ServiceTypes PROVE ServiceTypeOK
      OBVIOUS
    <2>1. ERRNUMTOEXIT \in Nat
      BY MainAssumption
    <2>2. error_num \in 0..ERRNUMTOEXIT
      BY <2>1 DEF ServiceTypes, LoopType
    <2>3. \A w \in Workers : job[w] # Idle => job[w].at \in {"parse", "command", "soap", "request"} /\ job[w].key \in Keys
      BY DEF ServiceTypes, JobType, AtWork
    <2>4. TypeOK \/ pc \in {"none", "image", "crashed"}
      BY <2>2, <2>3 DEF TypeOK, ServiceTypes, LoopType, FlagType, DataType, ProcessType
    <2> QED
      BY <2>2, <2>4 DEF ServiceTypeOK, ServiceTypes, ProcessType
  <1> QED
    BY <1>1, <1>2, FreshTypes, PTL DEF ServiceSpec
=============================================================================
