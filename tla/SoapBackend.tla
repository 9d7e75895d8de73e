----------------------------- MODULE SoapBackend -----------------------------
(***************************************************************************)
(* The exchange of one worker thread with the SOAP server of the game      *)
(* world: write_pipe_or_sock, which runs one command after another, over   *)
(* the socket kept in the thread-local _td_sock_id, with make_soap_socket, *)
(* reset_thread_local_soap_socket, writen_fd, readn_fd and the reply to    *)
(* the client (write_sock_func, which uses writen_fd as well).             *)
(*                                                                         *)
(* Other threads have sockets of their own, so one thread is enough.  Each *)
(* command comes from a client of its own.  A request, an answer and a     *)
(* reply fit the socket buffers and are written at once; an answer may     *)
(* arrive in two parts.  What an answer says is the subject of SoapAnswer. *)
(* How the world behaves is fixed for each behaviour by its mode.          *)
(***************************************************************************)
EXTENDS Naturals, Sequences, SequencesExt

CONSTANTS N,     \* commands 1..N
          None,
          Modes  \* how the world may behave

(* prompt: the server answers before select gives up.  splits: an answer   *)
(* may arrive in two parts.  fills: what is read may be MAX_BUF_SIZE bytes *)
(* exactly.  finTogether: the end of the stream arrives with the answer.   *)
(* clientsStay: no client closes before it has its reply.  auth: there are *)
(* credentials.  maxRefused, maxDropped: the connections that may fail     *)
(* once there is a socket, and those that the server may drop unanswered.  *)
(* needRsp: commands that need a response.                                 *)
Mode == [prompt : BOOLEAN, splits : BOOLEAN, fills : BOOLEAN, finTogether : BOOLEAN,
         clientsStay : BOOLEAN, auth : BOOLEAN,
         maxRefused : Nat, maxDropped : Nat, needRsp : SUBSET (1..N)]

ASSUME SoapAssumption == N \in Nat /\ \A m \in Modes : m \in Mode

Commands == 1..N

(* A connection is used for N requests and a reply at most.                *)
MaxParts == 2 * (N + 1)

VARIABLES mode,
          pc,       \* where the thread is
          cur,      \* the command it runs
          sock,     \* the connection behind _td_sock_id, None when that is 0
          say,      \* what the reply will say: the parts read, or an error
          fds,      \* descriptors the thread has made and not closed
          refused, dropped,
          client,   \* each command's client: "open" or "closed"
          reply,    \* what each client has got, None at first
          executed  \* history: how often the server has run each command

vars == <<mode, pc, cur, sock, say, fds, refused, dropped, client, reply, executed>>
world == <<mode, refused, dropped, client, executed>>

-----------------------------------------------------------------------------
(* Connections                                                             *)

(* A connection as both ends see it: what the server has to read, what is  *)
(* under way from it, what the thread has to read, whether the server has  *)
(* closed, and whether its FIN or a reset has arrived.                     *)
Fresh == [up |-> <<>>, air |-> <<>>, down |-> <<>>,
          srv |-> "open", fin |-> FALSE, rst |-> FALSE]

Request(i) == [kind |-> "request", cmd |-> i]
Reply(i) == [kind |-> "reply", cmd |-> i]

(* What the server sends: an answer, or a part of one, its FIN or a reset. *)
Part(item, p) == [of |-> item, part |-> p]
FIN == Part([kind |-> "fin", cmd |-> 0], "all")
RST == Part([kind |-> "rst", cmd |-> 0], "all")

(* ERRORMSG1, from write_fd_error_message.                                 *)
ErrorMessage == {Part([kind |-> "error", cmd |-> 0], "all")}

(* What may be on its way to the server, what may come back, and a whole   *)
(* connection.  None is neither a connection nor something to be told.     *)
Wired == [kind : {"request", "reply"}, cmd : Commands]
AnswerPart == [of : Wired, part : {"all", "head", "tail"}]
Connection == [up : Seq(Wired), air : Seq(AnswerPart \cup {FIN, RST}), down : Seq(AnswerPart),
               srv : {"open", "closed"}, fin : BOOLEAN, rst : BOOLEAN]

ASSUME NoneAssumption ==
    /\ None \notin Connection
    /\ None # ErrorMessage
    /\ \A S \in SUBSET AnswerPart : S # None

(* write to a connected socket: after the server has closed, the bytes are *)
(* lost and answered with a reset.                                         *)
Written(c, item) ==
    IF c.srv = "open" THEN [c EXCEPT !.up = Append(@, item)]
                      ELSE [c EXCEPT !.air = Append(@, RST)]

(* recv with MSG_PEEK sees the end or an error only behind the data.       *)
is_sock_closed_by_peer(c) == c.down = <<>> /\ (c.fin \/ c.rst)

(* The outcome of make_soap_socket when there is no socket: connected, or  *)
(* refused three times, or no keep-alive, and then the socket it made is   *)
(* not closed; or no socket at all.  open counts the descriptors before.   *)
Connected(c, open) ==
    /\ c = Fresh
    /\ fds' = open + 1
    /\ UNCHANGED refused

Refused(c, open) ==
    /\ refused < mode.maxRefused
    /\ c = None
    /\ fds' = open + 1
    /\ refused' = refused + 1

NoSocket(c, open) ==
    /\ c = None
    /\ fds' = open
    /\ UNCHANGED refused

make_soap_socket(c, open) == Connected(c, open) \/ Refused(c, open) \/ NoSocket(c, open)

(* Slip: the old socket is forgotten, not closed.                          *)
reset_without_close(c) == make_soap_socket(c, fds)

(* The old socket is closed, if there is one, and another one made.        *)
reset_thread_local_soap_socket(c) ==
    make_soap_socket(c, IF sock # None THEN fds - 1 ELSE fds)

-----------------------------------------------------------------------------

Init ==
    /\ mode \in Modes
    /\ pc = "idle"
    /\ cur = 0
    /\ sock = None
    /\ say = None
    /\ fds = 0
    /\ refused = 0
    /\ dropped = 0
    /\ client = [i \in Commands |-> "open"]
    /\ reply = [i \in Commands |-> None]
    /\ executed = [i \in Commands |-> 0]

-----------------------------------------------------------------------------
(* write_pipe_or_sock                                                      *)

(* The next command is taken up.                                           *)
Begin ==
    /\ pc = "idle"
    /\ cur < N
    /\ cur' = cur + 1
    /\ pc' = "make"
    /\ UNCHANGED <<sock, say, fds, reply, world>>

(* make_soap_socket: the socket of the thread if it has one.               *)
UseSocket ==
    /\ pc = "make"
    /\ sock # None
    /\ pc' = "check"
    /\ UNCHANGED <<cur, sock, say, fds, reply, world>>

(* Slip: the result of make_soap_socket is not tested.                     *)
MakeUntested(c) ==
    /\ pc = "make"
    /\ sock = None
    /\ make_soap_socket(c, fds)
    /\ sock' = c
    /\ pc' = "check"
    /\ UNCHANGED <<mode, cur, say, reply, dropped, client, executed>>

(* make_soap_socket when it has none; on failure the client is told.       *)
MakeSocket(c) ==
    /\ pc = "make"
    /\ sock = None
    /\ make_soap_socket(c, fds)
    /\ sock' = c
    /\ pc' = IF c = None THEN "reply" ELSE "check"
    /\ say' = IF c = None THEN ErrorMessage ELSE say
    /\ UNCHANGED <<mode, cur, reply, dropped, client, executed>>

(* make_soap_request makes nothing without credentials: writen_fd has      *)
(* nothing to write, and returning 0 it is taken to have failed.           *)
EmptyRequest ==
    /\ pc = "check"
    /\ ~mode.auth
    /\ say' = ErrorMessage
    /\ pc' = "reply"
    /\ UNCHANGED <<cur, sock, fds, reply, world>>

(* writen_fd: the socket is not closed by the peer,                        *)
CheckOpen ==
    /\ pc = "check"
    /\ mode.auth
    /\ ~is_sock_closed_by_peer(sock)
    /\ pc' = "write"
    /\ UNCHANGED <<cur, sock, say, fds, reply, world>>

(* or it is, now or with EPIPE on the write: it is closed, another one is  *)
(* made and the write done again.                                          *)
ResetSocket(c) ==
    /\ \/ pc = "check" /\ mode.auth /\ is_sock_closed_by_peer(sock)
       \/ pc = "write" /\ sock.rst
    /\ reset_thread_local_soap_socket(c)
    /\ sock' = c
    /\ pc' = IF c = None THEN "reply"
             ELSE IF pc = "check" THEN "write" ELSE "check"
    /\ say' = IF c = None THEN ErrorMessage ELSE say
    /\ UNCHANGED <<mode, cur, reply, dropped, client, executed>>

(* The write fails with another error (ECONNRESET).                        *)
WriteError ==
    /\ pc = "write"
    /\ sock.rst
    /\ say' = ErrorMessage
    /\ pc' = "reply"
    /\ UNCHANGED <<cur, sock, fds, reply, world>>

(* Slip: a request is sent twice.                                          *)
WriteTwice ==
    /\ pc = "write"
    /\ ~sock.rst
    /\ sock' = Written(Written(sock, Request(cur)), Request(cur))
    /\ pc' = "select"
    /\ UNCHANGED <<cur, say, fds, reply, world>>

WriteRequest ==
    /\ pc = "write"
    /\ ~sock.rst
    /\ sock' = Written(sock, Request(cur))
    /\ pc' = "select"
    /\ UNCHANGED <<cur, say, fds, reply, world>>

(* One read of readn_fd takes the first k parts there are now: all of      *)
(* them, unless it is full with its MAX_BUF_SIZE bytes.                    *)
Read(k, full) ==
    /\ k \in 1..Len(sock.down)
    /\ IF full THEN mode.fills ELSE k = Len(sock.down)
    /\ sock' = [sock EXCEPT !.down = SubSeq(@, k + 1, Len(@))]

(* After a full read comes another one, without a select before it.        *)
(* Otherwise the answer is for the client, if it needs a response.         *)
Got(parts, full) ==
    /\ pc' = IF full THEN "more" ELSE IF cur \in mode.needRsp THEN "reply" ELSE "idle"
    /\ say' = IF full \/ cur \in mode.needRsp THEN parts ELSE None

(* Slip: the answer is left in the socket.                                 *)
PeekAnswer(k, full) ==
    /\ pc = "select"
    /\ k = Len(sock.down) /\ k > 0
    /\ Got(ToSet(sock.down), FALSE)
    /\ UNCHANGED <<cur, sock, fds, reply, world>>

(* readn_fd: select finds data.                                            *)
ReadAnswer(k, full) ==
    /\ pc = "select"
    /\ Read(k, full)
    /\ Got(ToSet(SubSeq(sock.down, 1, k)), full)
    /\ UNCHANGED <<cur, fds, reply, world>>

(* The next read blocks until there is more,                               *)
ReadMore(k, full) ==
    /\ pc = "more"
    /\ Read(k, full)
    /\ Got(say \cup ToSet(SubSeq(sock.down, 1, k)), full)
    /\ UNCHANGED <<cur, fds, reply, world>>

(* which is dropped when szData has no room for it: the rest of the answer *)
(* stays in the socket.                                                    *)
ReadBeyond(k) ==
    /\ pc = "more"
    /\ Read(k, TRUE)
    /\ Got(say, FALSE)
    /\ UNCHANGED <<cur, fds, reply, world>>

(* It also returns at the end of the stream or with an error.              *)
ReadEnd ==
    /\ pc = "more"
    /\ is_sock_closed_by_peer(sock)
    /\ Got(say, FALSE)
    /\ UNCHANGED <<cur, sock, fds, reply, world>>

(* The end of the stream or an error: the client is told nothing.          *)
ReadNothing ==
    /\ pc = "select"
    /\ is_sock_closed_by_peer(sock)
    /\ pc' = "idle"
    /\ UNCHANGED <<cur, sock, say, fds, reply, world>>

(* The server has something to say and may still say it.                   *)
Owing(c) == c.air # <<>> \/ (c.srv = "open" /\ c.up # <<>>)

(* Slip: select without a time limit, which returns only at the end.       *)
SelectForEver ==
    /\ pc = "select"
    /\ is_sock_closed_by_peer(sock)
    /\ pc' = "idle"
    /\ UNCHANGED <<cur, sock, say, fds, reply, world>>

(* select gives up after FD_TIMEOUT seconds: the client is told nothing.   *)
SelectTimeout ==
    /\ pc = "select"
    /\ sock.down = <<>> /\ ~is_sock_closed_by_peer(sock)
    /\ mode.prompt => ~Owing(sock)
    /\ pc' = "idle"
    /\ UNCHANGED <<cur, sock, say, fds, reply, world>>

-----------------------------------------------------------------------------
(* write_sock_func: the reply, with writen_fd on the client's socket       *)

ReplyToClient ==
    /\ pc = "reply"
    /\ client[cur] = "open"
    /\ reply' = [reply EXCEPT ![cur] = say]
    /\ say' = None
    /\ pc' = "idle"
    /\ UNCHANGED <<cur, sock, fds, world>>

(* writen_fd takes the client's socket for the SOAP socket: that one is    *)
(* replaced, and the reply written to the new one.                         *)
ReplyToClosed(c) ==
    /\ pc = "reply"
    /\ client[cur] = "closed"
    /\ reset_thread_local_soap_socket(c)
    /\ sock' = IF c = None THEN None ELSE Written(c, Reply(cur))
    /\ say' = None
    /\ pc' = "idle"
    /\ UNCHANGED <<mode, cur, reply, dropped, client, executed>>

-----------------------------------------------------------------------------
(* The server, the network and the clients                                 *)

(* The server runs a request (anything else is a fault to it), answers as  *)
(* one part or two, and closes (Connection: close) or keeps the connection.*)
Serve(split, close) ==
    /\ sock # None
    /\ sock.srv = "open"
    /\ sock.up # <<>>
    /\ split => mode.splits
    /\ sock' = [sock EXCEPT
         !.up = IF close THEN <<>> ELSE Tail(@),
         !.air = @ \o (IF split THEN <<Part(Head(sock.up), "head"), Part(Head(sock.up), "tail")>>
                                ELSE <<Part(Head(sock.up), "all")>>)
                   \o (IF close THEN <<FIN>> ELSE <<>>),
         !.srv = IF close THEN "closed" ELSE @]
    /\ executed' = IF Head(sock.up).kind = "request"
                     THEN [executed EXCEPT ![Head(sock.up).cmd] = @ + 1] ELSE executed
    /\ UNCHANGED <<mode, pc, cur, say, fds, reply, refused, dropped, client>>

(* The server closes without answering.                                    *)
Drop ==
    /\ sock # None
    /\ sock.srv = "open"
    /\ dropped < mode.maxDropped
    /\ dropped' = dropped + 1
    /\ sock' = [sock EXCEPT !.srv = "closed", !.up = <<>>,
                            !.air = Append(@, IF sock.up = <<>> THEN FIN ELSE RST)]
    /\ UNCHANGED <<mode, pc, cur, say, fds, reply, refused, client, executed>>

(* The first n things under way arrive: d parts of answers, and behind     *)
(* them, where nothing else can be, the end of the stream or resets.       *)
Arrive(n) ==
    /\ sock # None
    /\ n \in 1..Len(sock.air)
    /\ mode.finTogether /\ n < Len(sock.air) => sock.air[n + 1] # FIN
    /\ \E d \in 0..n :
         /\ \A k \in 1..n : k <= d <=> sock.air[k] \notin {FIN, RST}
         /\ sock' = [sock EXCEPT
               !.air = SubSeq(@, n + 1, Len(@)),
               !.down = @ \o SubSeq(sock.air, 1, d),
               !.fin = @ \/ \E k \in 1..n : sock.air[k] = FIN,
               !.rst = @ \/ \E k \in 1..n : sock.air[k] = RST]
    /\ UNCHANGED <<pc, cur, say, fds, reply, world>>

ClientClose(i) ==
    /\ client[i] = "open"
    /\ ~mode.clientsStay
    /\ client' = [client EXCEPT ![i] = "closed"]
    /\ UNCHANGED <<mode, pc, cur, sock, say, fds, reply, refused, dropped, executed>>

-----------------------------------------------------------------------------

write_pipe_or_sock ==
    \/ Begin
    \/ UseSocket
    \/ \E c \in {Fresh, None} : MakeSocket(c) \/ ResetSocket(c)
    \/ EmptyRequest
    \/ CheckOpen
    \/ WriteError
    \/ WriteRequest
    \/ \E k \in 1..MaxParts : ReadBeyond(k) \/ \E full \in BOOLEAN : ReadAnswer(k, full) \/ ReadMore(k, full)
    \/ ReadEnd
    \/ ReadNothing
    \/ SelectTimeout

write_sock_func == ReplyToClient \/ \E c \in {Fresh, None} : ReplyToClosed(c)

Server ==
    \/ \E split, close \in BOOLEAN : Serve(split, close)
    \/ Drop
    \/ \E n \in 1..(MaxParts + 1) : Arrive(n)

Next ==
    \/ write_pipe_or_sock
    \/ write_sock_func
    \/ Server
    \/ \E i \in Commands : ClientClose(i)

Spec == Init /\ [][Next]_vars

(* The thread runs, and select returns when there is something to read or  *)
(* its time is over.  A server that answers in time answers; nothing is    *)
(* assumed of the others.                                                  *)
PromptServer == mode.prompt /\ Server
FairSpec == Spec /\ WF_vars(write_pipe_or_sock) /\ WF_vars(write_sock_func) /\ WF_vars(PromptServer)

-----------------------------------------------------------------------------
(* Correctness                                                             *)

Answer(i) == {Part(Request(i), "all")}

(* The type of every variable.                                             *)
TypeOK ==
    /\ mode \in Modes
    /\ pc \in {"idle", "make", "check", "write", "select", "more", "reply"}
    /\ cur \in 0..N
    /\ pc \in {"check", "write", "select", "more"} => sock # None
    /\ pc \in {"more", "reply"} <=> say # None
    /\ fds \in Nat /\ refused \in 0..mode.maxRefused /\ dropped \in 0..mode.maxDropped
    /\ client \in [Commands -> {"open", "closed"}]
    /\ sock # None => sock \in Connection /\ Len(sock.up) <= N /\ Len(sock.down) <= MaxParts
    /\ say \in {None, ErrorMessage} \/ say \subseteq AnswerPart
    /\ executed \in [Commands -> Nat]

(* A server that answers in time and in one piece, to clients that stay.   *)
Prompt ==
    /\ mode.prompt /\ mode.finTogether /\ mode.clientsStay
    /\ ~mode.splits /\ ~mode.fills
    /\ mode.maxDropped = 0

Exchange == INSTANCE Exchange WITH
    Error <- ErrorMessage, prompt <- Prompt, waiting <- mode.needRsp,
    busy <- pc # "idle", ran <- executed, told <- reply

(* The thread does for its clients what Exchange promises: with a prompt   *)
(* server each client that waits is told the answer to its own command, or *)
(* that the server was not reached when it did not run it; with any other  *)
(* one, nothing of what one client is told is told to another.             *)
Implements == Exchange!Spec

(* What a client is told is the answer to its own command, whole, or that  *)
(* the server could not be reached.                                        *)
AnswerMatches == \A i \in Commands : reply[i] \in {None, ErrorMessage, Answer(i)}

(* A command is executed at most once, though writen_fd writes it again    *)
(* after EPIPE and the server may close at any point of the exchange.      *)
AtMostOnce == \A i \in Commands : executed[i] <= 1

(* Every descriptor the thread has made is the one in _td_sock_id or one   *)
(* whose connect was refused, or which got no keep-alive: those, one for   *)
(* each such failure, are all that the thread loses, however often the     *)
(* socket is replaced.                                                     *)
SocketsAccounted == fds = refused + (IF sock = None THEN 0 ELSE 1)

(* Every command comes to its end, unless a full read is followed by one   *)
(* that waits for a server with nothing more to say: no other wait of the  *)
(* thread is without limit.                                                *)
AllDone ==
    \/ <>(cur = N /\ pc = "idle")
    \/ <>[](pc = "more" /\ sock.down = <<>> /\ ~is_sock_closed_by_peer(sock))
=============================================================================
