# wow_proxy: a TLA+ verification project

The proxy (`src/proxy_server`, with helpers in `src/common`) accepts TCP clients,
cuts their byte streams into messages, turns each message into commands, runs the
commands against a game server (SOAP over HTTP) or against an SQLite database, and
sends replies back. One main thread runs an edge-triggered epoll loop; a pool with
one thread for each CPU runs the jobs.

This directory models that program in TLA+, checks the models on small instances
with TLC, and proves with TLAPS, for every size of the instance, every safety invariant
that the passing runs check (section 4 says under which conditions). Four runs are
expected to fail: there a comment or a header says of the code what it does not do. Only the
build that the repository configures is modelled: `_SOAP` is always defined by
`common/config_.h`, `SOCKSSL` never is.

## 1. Inventory

| Part | State it keeps | Operations | Interacts with |
|---|---|---|---|
| Thread pool (`threadpool.c`) | doubly linked job list with `job_num`, semaphore, mutex, `threadpool_keepalive` | init, add_work, thread_run, destroy | main thread submits; workers run jobs |
| Event loop (`proxy_server.c`) | epoll set, one `SOCKCONN` on the heap for each client | loop_once, handle_accept, handle_read, handle_disconnect | kernel; queues read and free jobs |
| Read job (`aidsock.c`) | `SOCKDATA`, a copy of the descriptor, a database handle | read_sock_func | event loop, framing, commands |
| Framing (`aidsock.c`, `crc8.c`) | the socket's receive buffer | recv_peek, readn, read_normal_sock, analysis_message | network |
| Commands (`aidsock.c`) | the command table (uthash) | parse_object, dispatch, write_db, close_db | database, SOAP exchange |
| SOAP exchange (`utility.c`, `aidsock.c`) | the thread-local socket `_td_sock_id` | make_soap_socket, reset_thread_local_soap_socket, writen_fd, readn_fd, write_sock_func | game server, client |
| Main, signals, shutdown (`proxy_server.c`) | `g_stop`, `pre_error`, `error_num` | main, handleInterrupt, the destroy functions | all of the above |
| Command table, credentials (`aid_sql.c`) | `command_table`, `auth_base64` | load, look up, free | main thread frees, workers read |
| SOAP text (`analysis_soap.c`, `xml.c`, `readn_fd`) | the buffers of one read | build a request, put a response together and take it apart | SOAP exchange |
| CRC-8 and header (`crc8.c`, `aidsock.c`) | none | crc_data, reverse_crc_data, the two conversions | framing, replies |
| Listening socket (`utility.c`) | the port | create_listen_sock, create_server | other programs, the dead server's connections |
| Daemons (`lserverd`, `wserverd`) | the child's pid | fork, wait, restart | the server as a child |
| Timer, hash table, TLS, named pipes | — | — | not in the build, or not called |

What is hard here, and what makes each part correct:

- **Pool.** A semaphore, a mutex, and a flag that is read without the mutex. No job may
  be lost, taken twice or left behind with every worker asleep; the stop must wake
  everybody; nothing may be freed under a running worker.
- **Connections.** A `SOCKCONN` is reached from epoll, from queued jobs and from
  running jobs. It must be alive wherever it is dereferenced, freed once, and every
  edge must lead to a read, although a refused request ends the job that reads. Descriptor numbers are handed out again.
- **Framing.** TCP cuts messages anywhere and several jobs may read one client. The
  reader must use no message twice or out of order and lose none; it goes on with what
  it has when the rest of a message is late.
- **SOAP exchange.** Time-outs, late and split answers, a FIN that races the check,
  clients that leave. Every client gets the answer to its own command; no command is
  executed twice; the thread never hangs.
- **SOAP text.** Fixed buffers, texts without a terminator, answers cut anywhere. The
  client is told what the server said, whole or not at all.
- **CRC-8 and header.** Sender and receiver must agree at every length, and damage
  must be noticed.
- **Commands.** One refused item drops the whole message; the database handle is
  opened once, used while open and closed.
- **Main and daemon.** The loop ends on SIGINT and on a lasting error, and only then;
  the shutdown frees nothing that is in use; a server that dies is replaced, and one
  that was told to stop is not.

`PROJECT.json` lists each of these hazards at the line where it bites.

## 2. Modules

| Module | Models | Extends |
|---|---|---|
| `JobQueue` | the linked list and its two operations | |
| `ThreadPool` | the whole pool: main thread and workers | `JobQueue` |
| `FifoPool` | abstract: what the pool promises | |
| `EventLoop` | clients' connections from accept to free | |
| `MainLoop` | how the server starts and stops | |
| `Service` | the daemon, and the server as a process that may crash | `MainLoop` |
| `FrameReader` | messages cut out of one client's stream | |
| `Header` | the two length bytes | |
| `Wire` | one message with its checksum and header, on bytes | `Header` |
| `SoapBackend` | one thread's exchanges with the game server | |
| `Exchange` | abstract: what the thread owes its clients | |
| `SoapAnswer` | the text of one answer, from the socket to the client | |
| `CommandJob` | parsing and dispatch, the database handle | |
| `MCEventLoop`, `MCFrameReader`, `MCWire`, `MCSoapBackend`, `MCSoapAnswer`, `MCCommandJob` | values for the runs | the component |
| `ThreadPoolProofs` | invariants of the pool, and that it implements `FifoPool`, proved | `ThreadPool` |
| `ServiceProofs` | invariants of the service, proved | `Service` |
| `EventLoopProofs` | connections are alive and not leaked, proved | `EventLoop` |
| `FrameReaderProofs` | messages are used in order and once, proved | `FrameReader` |
| `SoapBackendProofs` | at most once, descriptors accounted for, and that `SoapBackend` implements `Exchange`, proved | `SoapBackend` |
| `CommandJobProofs` | all or nothing, and the database handle, proved | `CommandJob` |
| `WireProofs` | the checksum is the remainder, what is sent is got, damage is noticed, proved | `Wire` |
| `SoapAnswerProofs` | what the client is told of an answer, proved | `SoapAnswer` |

Definitions carry the name of the C function they model; `PROJECT.json` maps each to
its lines. Definitions that begin with the comment *Slip* are plausible mistakes in
the definition that follows; they are used only to show that a property notices them.

**JobQueue, ThreadPool.** `head`, `tail`, `next`, `prev`, `job_num` are the fields of
the queue. The two list functions are split between the pointer writes and the update
of the counter, so that an interleaving without the mutex would show. `wpc[w]` is the
place of worker `w` in `threadpool_thread_run`, `mpc` that of the main thread in
`threadpool_init`, `threadpool_add_work` and `threadpool_destroy`. The two reads of
`threadpool_keepalive` are two steps. `heap` says which nodes are allocated; a freed
node may be allocated again at once. `fifo` is a history variable, the nodes linked
and not yet unlinked. `sem_wait` does not fail: its semaphore is there, and `signal()`
sets handlers after which glibc restarts it. What a worker does last, the close of its
`_td_sock_id`, touches nothing of the pool and is left out. Failing `malloc`, `sem_init` and `pthread_create` are left out.

**EventLoop.** Each client session has a peer state, a number of unread requests and
a registration (`watch`, the `data.ptr` given to epoll). `ready` is epoll's ready
list: a session enters it on each edge and leaves it when `epoll_wait` reports it.
`sock_fd` and `live` are the `SOCKCONN` cells, `file` the descriptor table. Jobs and
events carry the address the program has and, as history, the session it was meant
for. The pool is used through what `FifoPool` promises: jobs start in order. A
`setting`, fixed for each behaviour, has the workers and descriptors there are and says
when clients close or are reset. A request is answered or, for what it says, refused; a
refusal ends the job whatever is behind it, which `stalled` records until the next edge.
`epoll_ctl` may fail in `add_epoll_fd`, which undoes nothing: `unwatched` records the
cells that are lost in this way. `accept` returns the lowest free descriptor.
`epoll_wait` returns everything that is ready; `LISTEN_MAX` (500) is not reached.

**MainLoop, Service.** `main` from the start of the workers to its end: loading the
command table and the credentials row by row, the search for a port, `listen` and
`create_epoll`, any of which may fail and end the process; then the loop, the three
ways `loop_once` returns, and the shutdown, with `handleInterrupt` between any two
steps and workers in the middle of a job. A `SIGINT` during start-up is remembered in
`g_stop` and ends the loop before its first turn. `LoopCall` is the entry into
`epoll_wait`: before it a signal only sets `g_stop`, after it the signal interrupts the
wait. `pending` says that an event is ready, `taken` has the ports that `bind` finds in use. `Service` adds the daemon (`lserverd`;
`wserverd` is the same with another name) and what happens to a process as a whole:
`Fork` gives it new memory, `init_child_image` starts the program, `Crash` ends it
anywhere and may leave its port in use, `waitpid` tells the daemon how it ended. The
build compiles as gnu11, so a `main` that runs off its end exits with 0; the daemon
takes every such end, also that after a lasting error, for a wanted one.

**FrameReader.** A byte is a pair (message, position). `Send` is the client writing its
next message, at any time; `Segment` delivers any prefix of what was sent that the cuts
of the `setting` allow. `recv_peek`, `readn` and `analysis_message` are
steps, so two jobs of one client interleave between them. `analysis_message` may refuse
a whole message for what it says, and always refuses anything else; a body of no bytes
ends the process (`Dead`). Three histories: `refused`, `torn` (a job took bytes that are
not one message) and `stalled` (a job ended with a refusal, and no segment came since). The base of the header is a
constant; 4 stands for 256, so that messages longer than one header byte can count
stay small.

**Header, Wire.** The conversions and the checksum, computed on bytes as the code does:
`CrcBit` is one round of the inner loop. A byte of the text and the register of `crc8`
are functions from the places of their bits, the highest first; the register has 16 bits,
since the top one is always gone before the shift. A message is framed by `write_sock_func` (the
clients frame theirs in the same way), perhaps damaged, and tested by
`analysis_message`. `BufSize` is the size of its buffer, 4096 in the code: a longer text is
dropped, and one that fits only without header and checksum ends in `"undefined"`, as
the check looks at the text alone. `Remainder` is the reference: division of polynomials over GF(2).

**SoapBackend, Exchange.** One thread, its socket, the server and the network. A
connection has what the server has to read, what is under way, what the thread can
read, and whether FIN or RST has arrived. `writen_fd` is split at the check, the write
and the retry; `readn_fd` at `select` and at each read, of which one that fills the
buffer is followed by another. `make_soap_socket` connects, fails for want of a socket
(`NoSocket`), or gives up after the socket was made, on keep-alive or on three refused
connects, and leaves it open (`Refused`). `fds` counts the descriptors. The `mode`, fixed for each
behaviour, says how well the server behaves. `Exchange` says what is left when sockets
and time are taken away: commands in order, each executed at most once, and what a
client may be told. `waiting`, `busy`, `ran` and `told` are mapped to `mode.needRsp`,
`pc # "idle"`, `executed` and `reply`.

**SoapAnswer.** A text is a sequence of tokens (a status, a blank line, a tag, a word)
of length one, and `MAX_BUF_SIZE` a small number. `Round` is one turn of the loop in
`readn_fd` with the buffer `szBuf` that is not cleared in between; what lies behind a
full one, up to a NUL, is one of `Tails`. `SoapStart`, `http_header` and `soap` are `partition_response`.
`xml_parse_document` is the parser of `xml.c` as far as an answer needs it: it takes one
token after the other (`Take`), skips white space between tags, takes everything up to
the next `<` for the text of an element, and has a document when it is done in the end.
Elements inside the elements of an answer and the trimming of white space at the ends of
a text are left out. `Result` has `rst_len`, which stays the size of the buffer when there
is no text; `Analyse` then ends in `"undefined"`, for `szBuf[rst_len]` is behind the buffer.
Three things are assumed (`AnswerAssumption`): a result, a faultstring and a detail are at the places where gSOAP
puts them (`WellPlaced`; `get_soap_content` looks at places and then at names, `Meant` at
names alone); the header with the XML declaration, five tokens, does not fill
`MAX_BUF_SIZE`, which is 1024 bytes in the code; and what lies behind `szBuf` may be
anything but the closing tags of a SOAP document, which would complete an answer that was
cut at exactly `MAX_BUF_SIZE`. Where the code leaves its buffers the model stops in
`"undefined"` and the properties say nothing.

**CommandJob.** An item of a message is the number of its keys, the command it names,
whether its parameters are strings and whether the text it comes to is empty. The database handle (`db`) and the connection
it names (`conn`) are separate, because `close_db` clears neither.

## 3. Runs

Passing runs:

| Run | Instance | Shows |
|---|---|---|
| `pool` | 2 workers, 3 nodes, fair | the list, ownership and semaphore accounting in every interleaving with a stop; a queued job leaves the queue, destroy returns, `FifoPool` is implemented |
| `conn` | 2 workers, 2 clients with 2 requests each that close when the proxy is done, 1 descriptor; and 1 worker, clients that close or abort at any time, 1 or 2 descriptors; requests may be refused and `epoll_ctl` may fail | `SOCKCONN` lifetimes, no leak but that of `add_epoll_fd`, no lost edge |
| `service` | daemon, 2 errno values, `ERRNUMTOEXIT` 2, 2 ports to try, crashes and failures anywhere | a lasting error ends the service, and so does a SIGINT, but for the gap before `epoll_wait`; success is reported only after a full shutdown; a dead server is replaced |
| `frame` | 1 worker, messages 5, 2, 6 long, cut anywhere; and 2 jobs at once, messages 2, 5, 2 long; any may be refused | never twice, never out of order, none both used and refused; none left unread but after a part was taken for a message or a refusal |
| `wire` | every message of one byte, 4 longer ones, 3 around the size of the buffer; damage to 4 of them | `crc8` is the remainder, what fits is sent and got, bursts of 8 bits and 2 bits less than 127 apart are noticed |
| `soap` | 3 commands; a prompt server, one without credentials, a late one, a rough one | `Exchange` is implemented, at most once, descriptors accounted for, the only wait without a limit is named |
| `answer` | 84 answers of 5 to 22 tokens, buffers of 14, cut anywhere, 4 things behind a full buffer | a text is told as it was meant, true status, text whole or not at all |
| `cmd` | every kind of item, one with an empty text, alone and in pairs, 2 messages, every database failure | all or nothing, exactly the well-formed ones; how the handle may be misused |

Runs in which a property is violated, each by what the code does against what a
comment or a header says of it (`findings` in `PROJECT.json` quotes them):

| Run | What happens |
|---|---|
| `conn_answered` | `read_sock_func` holds a descriptor number that another worker closes and `accept` hands out again |
| `main_shutdown` | the command table is freed while a worker reads it |
| `soap_late` | a late answer is told to the next client |
| `service_port` | after a crash the port is still in use and the new server listens at the next one |

The passing runs hold under conditions that are part of their configuration. What
happens outside them, with the change that shows it:

- *An early close.* With several workers and a client that closes before the proxy has
  finished with it (`AnsweredClients`), `ConnAlive` fails as `ReadsOwnStream` does: a
  `SOCKCONN` is freed while a read job on another worker still needs it.
- *Close, then reset.* Epoll reports both, and each queues a free of the `SOCKCONN`. The
  settings of `conn` have no reset after a close; with `resetFrom |-> {"open", "closed"}`
  in `OneWorker`, `ConnAlive` fails: the second job gets freed memory.
- *Errors that come and go.* `proxy_server.c:188` says that the loop gives up after N equal
  errors in a row. A call that succeeds resets nothing, so failures far apart add up, and
  the first counts as 0, so it takes N + 1 of them. No property claims what the comment
  says.
- *SIGINT in the gap.* Between the test of `g_stop` and `epoll_wait` a signal interrupts
  nothing, and a server without clients sleeps on. `InterruptHeeded` excepts this case
  (the premise about `pending`) and fails without the exception.
- *No descriptor left.* Clients that wait in the backlog are looked at only after the next
  connection; no property asks for more.
- *A failing `epoll_ctl`.* The client is never served, and its cell and descriptor are lost;
  `NoLeak` counts them.
- *A refused request.* What is behind it waits for the next edge; `ClientServed` and
  `AllParsed` allow for that wait and for no other.
- *SIGINT to a server that then fails.* The daemon starts another one, which knows
  nothing of the signal; `InterruptHeeded` leaves this out.
- *An image that cannot be started.* The daemon forks again at once and for ever;
  `ServerBack` counts that as servers that keep failing.
- *A part taken for a message.* `aidsock.c:62-66` says that `readn` returns less than it was
  asked for only at the end; it also does so on `EAGAIN`. After such a read, or when two
  jobs and messages of different lengths meet, a job takes bytes that are not one message. They
  are refused, and messages may be lost or, with a header alone, the process. `AllParsed`
  says nothing after that (`torn`); `InOrder` and `UsedOnce` hold all the same.
- *Long replies.* Beyond `BufSize - 3` bytes a reply overruns the buffer of
  `write_sock_func` or is dropped; `RoundTrip` says that no shorter one is.
- *FIN just after the check.* Without `finTogether` in `Prompt` and in
  `PromptMode`: the request is lost, the client is told nothing, and `Implements` fails.
- *A full buffer.* An answer of exactly `MAX_BUF_SIZE` bytes on a connection that stays
  open: the second read of `readn_fd` waits without a limit (`AllDone` names it).
- *Long answers.* Beyond `MAX_BUF_SIZE` bytes an answer does not fit the buffer of
  `get_soap_content`; `SoapAnswer` stops there. It also stops when an answer is cut
  inside its XML declaration, and behind an answer without a text:
  there `rst_len` keeps the size of the buffer, against `analysis_soap.h:35`, and
  `aidsock.c:646` writes `szBuf[rst_len]`. `ToldExactly` speaks of answers with a text.
- *A split answer.* The client is told the status with an empty text, and the rest is
  found by the next command.
- *Reply to a client that left.* `ReplyToClosed`: `writen_fd` replaces the thread's
  SOAP socket and writes the reply to the SOAP server.
- *SQL that is refused.* `close_db` clears its own parameter only; `HandleOpen` and
  `NothingLeft` name the only failures after which the handle dangles or the connection
  stays; they do not forbid them. In the same way `SocketsAccounted` counts the sockets
  that `make_soap_socket` leaves open.

**Bounds.** Two workers and the main thread meet in every pair and as three (the
proofs cover any number); three nodes give the list a first, a middle and a last element and
let freed nodes return. One descriptor for two clients forces the number to be used
again; two requests for each client let a request arrive before, during and after the
job of the first. `ERRNUMTOEXIT` is 5 in the source; with 2
in `service` errors of two kinds still come, go and add up. Two ports and two tries let the search find none.
Three messages
let a reader that has taken a part meet a later header. Three commands let an answer be
late by more than one command. With 14 tokens for `MAX_BUF_SIZE` there are answers
that are shorter, that fill the buffer exactly, and that need two reads; behind it are
nothing, two words, tags and white space, or more than fits. For `Wire`
one-byte messages and a few longer ones meet every case of the inner loop, and with a
buffer of 8 bytes some fit, some overrun it and some are dropped; longer
messages are the subject of its proofs.

**Deadlock** is checked for the pool. The other runs switch it off: the event loop may
wait for ever in `epoll_wait`, and the other models come to an end (the process exits,
the job ends, the commands are done).

**Fairness.** Weak fairness of each process and thread: the kernel scheduler runs every
runnable one, glibc mutexes and semaphores wake a waiter, and the functions run by
workers return (`soap` checks that for the SOAP exchange). Nothing is assumed of
clients, failures, crashes, other programs, the operator or the server, with two
exceptions: `frame` asks for a network that delivers what was sent, and `soap` for a server that
answers, but only in the modes that say it is prompt.

## 4. Proofs

For every number of workers `threads_num >= 1` and every set of nodes, from
`PointersAssumption` (`NULL` and `Junk` are not nodes) and `ThreadsAssumption`:

- `PoolInvariant`: `Spec => []IInv`, and from it `PoolTypeOK`, `PoolMutualExclusion`,
  `PoolListShape`, `PoolSingleOwner`, `PoolDrainAlone`, `PoolSemAccounting`,
  `PoolNoEmptyTake`, `PoolExitTokens`;
- `PoolImplements`: `Spec => Pool!Spec`, the pool implements `FifoPool` under the
  mapping `queued <- fifo`, `running <- ` the nodes between unlink and return,
  `open <- keepalive`.

`IInv` is `Base /\ SemAccounting /\ ExitTokens`, where `Base` joins the type
invariant, mutual exclusion, `MainPhase` (what the loop counters of `threadpool_init`
and `threadpool_destroy` say about the workers), `DrainAlone`, `ListShape` and
`SingleOwner`. None of them is inductive alone: that `add` links behind the real tail
needs `job_num` to be right, which needs the mutex; that a freed node is not in the
list needs ownership; that the drain is alone needs `MainPhase`. The accounting
invariants speak of cardinalities of sets of workers; each action moves at most one
worker, so the proofs reduce to adding one element to a finite set or taking it away
(lemmas at the head of `ThreadPoolProofs`, over `FiniteSetTheorems`). `NoEmptyTake`
follows: a worker that is about to unlink is one of `Taking`, so `job_num` is at least
one. The refinement needs one fact more, `JobInHand`: two workers never have the same
job in hand, and the job in hand is a node.

For every `ERRNUMTOEXIT >= 1` and every set of errors, keys, ports and workers, from
`MainAssumption` and `ServiceAssumption`:

- `ServiceInvariant`: `ServiceSpec => []ServiceInv`, and from it `ServiceEnds`
  (`EndsWithServer`).

`ServiceInv` is `ShutdownInv /\ DaemonInv`. `EndsWithServer` is not inductive: it needs what each point of the shutdown says about
the table and the pool, and where the daemon is while a server exists. Crashes and
restarts are steps of the induction like any other.

`ServiceTypesHold` proves `ServiceTypeOK`, the limit of `error_num` included; it rests
on `ServiceAssumption`, that the value for no exit code is none of the exit codes.

**Connections** (`EventLoopProofs`), for any sets of clients, descriptors, cells and
finitely many workers, and any number of requests, from `LoopAssumption`. Every theorem
has the hypothesis `Orderly`, a condition on the `setting` alone: clients close only when
the proxy has finished with them and are not reset (`Patient`), or there is one worker and
no reset follows a close (`Single`). The settings of the run `conn` satisfy it, in one way
or the other. It cannot be dropped: `conn_answered` is a setting outside it in which
`ReadsOwnStream` and `ConnAlive` fail, and with a reset after a close the second free
makes `ConnAlive` fail with one worker too. Requests
that are refused and a failing `epoll_ctl` are steps of every setting.

- `LoopInvariant`: `Orderly /\ Spec => []LoopInv`, and from it `LoopConnAlive`,
  `LoopReadsOwnStream`, `LoopNoLeak` and `LoopTypeOK`.

`LoopInv` says that a registered client, its cell and its descriptor name each other
(`Registered`), as do the cells and descriptors that could not be registered (`LostInv`,
both in `RegInv`); that every event, queued job and running job refers to a registered client
(`RefInv`) except a worker between `close` and `free`, who alone has the cell
(`CloseInv`); that what leads to the free is the last thing that refers to the cell
(`LastInv`), which is what makes the free safe; why patient clients have nothing else
under way when they close (`PatientInv`); and that no request is answered twice
(`AnswerInv`, which bounds the counters). With one worker `LastInv` follows from the
order of the queue: reads of a client are queued before its free.

**Framing** (`FrameReaderProofs`), for any number of messages of any lengths that two
header bytes to the base `Base` can count, from `FrameAssumption`:

- `FrameInvariant`: `Spec => []FrameInv`, for every setting, and from it `FrameTypeOK`,
  `FrameInOrder` and `FrameUsedOnce`. Nothing is assumed of cuts, lengths, the number of
  jobs or refusals, and nothing is left out after a torn read.

`FrameInv` has three parts beside the types. `PoolInv`: only the workers of the setting run
jobs. `OrderInv`: with one worker the bytes it has in hand and those still to be read are
in order and behind the messages used. `UseInv`: with any number of workers each byte is in
one place, still to be read or in the hands of one worker (`Apart`), and no byte of a
message that was used or refused is left anywhere (`Pending`); so a message can be whole in
some worker's hands only once. `UsedOnce` alone says nothing of the bytes under way and is
not inductive. Everything is stated byte by byte, so that cutting a segment off and putting
a message behind need no induction over the sequence.

**SOAP exchange** (`SoapBackendProofs`), for any number of commands and every mode, from
`SoapAssumption` and `NoneAssumption` (the value for nothing is neither a connection nor
something a client can be told):

- `SoapInvariant`: `Spec => []SoapInv`, and from it `SoapAtMostOnce`,
  `SoapSocketsAccounted` and `SoapTypeOK`.

`AtMostOnce` is not inductive: it needs that a request on its way to the server has not
been executed and is there once, and that requests of later commands have not been
written (`OnceInv`, with `Sent`). The bound `MaxParts` of the next-state relation is
shown to be no restriction: `RoomInv` counts what a connection can still bring (two parts
for each request, and one end), and every action keeps or lowers it except the write.

- `SoapImplements`: `Spec => Exchange!Spec`. With a prompt server each client that waits
  is told the answer to its own command, or an error when the server did not run it; with
  any other server no part of an answer is told to two clients.

It rests on `ToldInvariant`, which adds three things to `SoapInv`. `PartsInv` follows the
parts of answers through five places: still to be made, under way, arrived, about to be
said, told. No part is in two places or twice in one, and every action only moves parts
on or loses them (`PartsMoved` has that argument once for all actions). `PromptInv` says
that with a prompt server the connection is empty between two exchanges, and in one holds
the request, its answer under way or its answer, so that neither the time limit nor the
end of the stream can overtake it. `SayInv` says that an answer is read for a client that
waits. All three were checked with TLC in the modes of the run `soap` before the proof.

**Commands** (`CommandJobProofs`), for every table, every set of messages and any number
of them, from `CommandAssumption` (the shape of table and messages):

- `JobInvariant`: `Spec => []JobInv`, and from it `JobAllOrNothing`, `JobHandleOpen`,
  `JobNothingLeft` and `JobTypeOK`.

`ParseInv` relates the commands parsed so far to a prefix of the items, and `HandleInv`
the handle and the connection to what the database has refused.

**Wire** (`WireProofs`), for any set of messages of one byte and more and any `BufSize` up
to 65535, from `WireAssumption` (so that two header bytes count whatever fits; in the code
`BufSize` is 4096):

- `HeaderRoundTrip`: every length up to 65535 is read back by `convert_hex_to_int` as
  `convert_int_to_hex` wrote it, on both sides of the limit at which its branches change;
- `CrcIsRemainderHolds`, `RoundTripHolds` and `DamageRefusedHolds`: the three invariants
  of the run.

The argument is about what `crc8` computes, not about the steps, which are few (`WireInv`
says what the frame is at each of them). A round of the inner loop is linear over
GF(2): the register for the exclusive or of two texts is the exclusive or of their
registers. So a frame passes the test exactly when its difference from what was sent has
the checksum 0. The difference is 0 up to the damage; eight bits in a row cannot be
divided by a polynomial of degree 8 with a constant term, and a single bit, moved on one
round at a time, does not come back to itself within 126 rounds; the tables of those
rounds are in the lemmas. At 127 it does, which is why `TwoBits` stops there: two bits at that
distance pass the test of `reverse_crc_data`. What follows the damage cannot hide it, since a round of zeros is
invertible. For `CrcIsRemainder` the upper half of the register is followed beside the
division, bit by bit.

**Answers** (`SoapAnswerProofs`), for any set of answers with any number of nodes and
texts of any length, every `MAX_BUF_SIZE` above 5, and every way in which the network cuts,
ends or resets the stream, from `AnswerAssumption`:

- `AnswerInvariant`: `Spec => []AnswerInv`, and from it `StatusTrueHolds`,
  `ContentWholeHolds` and `ToldExactlyHolds`.

`AnswerInv` follows `readn_fd` through its rounds. Before the first (`Fresh`) stream and
air are together the text of the answer. A first read that does not fill the buffer
leaves a beginning of the text in `szData` (`Short`). One that fills it (`Filled`) is
followed by another: if that finds the end, the full buffer is appended once more, behind
whatever lies behind it (`Twice`); if it finds bytes, more has been read
than `analysis_soap_response` has room for (`Past`, `Beyond`). In `Short` and `Twice` the
first end of a document that the parser can meet is the end of the answer: every other
token is one of the text before its last, one of a tail, which has no such end, or one of
the header again, on which the parser gives up or which it takes for the text of an element
that never ends. So the parser finds the whole document of the answer or none at all; in
`Past` the code leaves its buffers. `Right` is what is told in the end, and `Safe` what holds
of it throughout. The invariant was checked with TLC for buffers of 6, 7, 9, 11 and 14
tokens before the proof.

Both modules prove what functions defined by recursion over bytes or tokens compute. The
library's induction theorems take an operator as their parameter, which the provers
cannot instantiate; `SetInduction`, at the head of each of the two modules, has the set of
the numbers for which the claim holds in its place, and is proved from the
well-foundedness of the natural numbers. The lemmas on numbers and sequences after it are
in both modules.

**Model-checked only.** Liveness (`JobLeavesQueue`, `StopCompletes`, `ClientServed`,
`LastingErrorEnds`, `InterruptHeeded`, `ServerBack`, `AllParsed`, `AllDone`) and `ENABLED`
are out of the prover's reach.

## 5. Not modelled

- The text of a SOAP request (`make_soap_request` concatenates constants and the
  command) and XML entities, which the code passes on as they are.
- Heap memory of the read job (`values[j]` are not freed when a later item is
  refused; `json_str` when a reply is dropped), partial writes, `EINTR` retries of single system calls, a failing `malloc`.
- The end of a worker: it closes its SOAP socket, on which nothing depends any more.
- Of `xml.c`, attributes, self-closing tags, nested elements inside those of an answer, and
  white space at the ends of a text.
- The data of start-up: the fields of a row, rows that repeat a key.
- TLS and named pipes: not compiled. `config_.h` always defines `_SOAP` and nothing
  defines `SOCKSSL`.
- The timer (`common/timer.c`) and the hash table (`common/hashtable`): no makefile of
  the servers builds them and nothing calls them; the timer does not compile against
  its own header.
- Vendored code: SQLite, cJSON, base64, uthash, utlist, utstring, gSOAP.
  It is nearly all of the repository's lines: `sqlite3.c` and `sqlite3.h` alone are 95 %.
  What the project's own files hold (`proxy_server.c`, `threadpool.c`, `aidsock.c`,
  `aid_sql.c`, `analysis_soap.c`, `utility.c`, `crc8.c`, the daemons) is mapped.

## 6. Plan

Done: the pool, connections, main loop and daemon, framing, SOAP exchange, commands,
wire format and SOAP answers, with their proofs. Next:

- Composition: `EventLoop` over `FifoPool` by `INSTANCE`, and `FrameReader` with
  `CommandJob` as one read job.
