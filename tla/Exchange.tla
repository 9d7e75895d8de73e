------------------------------ MODULE Exchange ------------------------------
(***************************************************************************)
(* What a worker thread owes the clients whose commands it sends to the    *)
(* game server, without sockets, time or a network: it runs the commands   *)
(* one after another, each is executed at most once, and each client is    *)
(* told at most one thing, when its command's turn ends.                   *)
(*                                                                         *)
(* With a server that is prompt (it answers in time and in one piece) a    *)
(* client that waits for a response is told the answer to its own command  *)
(* if that was executed, and an error if it was not.  With any other       *)
(* server it may be told an error, nothing, or what the server said to     *)
(* somebody, but nothing that another client has been told already.        *)
(***************************************************************************)
EXTENDS Naturals

CONSTANTS N,          \* commands 1..N
          None,
          Answer(_),  \* what the server says to a command
          Error       \* what a client is told when the server is not reached

VARIABLES prompt,     \* the server is prompt
          waiting,    \* the commands whose client waits for a response
          cur,        \* the command in hand, or the last one
          busy,       \* it is in hand
          ran,        \* how often each command has been executed
          told        \* what each client has been told

exchangeVars == <<prompt, waiting, cur, busy, ran, told>>

Init ==
    /\ prompt \in BOOLEAN
    /\ waiting \subseteq 1..N
    /\ cur = 0
    /\ busy = FALSE
    /\ ran = [i \in 1..N |-> 0]
    /\ told = [i \in 1..N |-> None]

Take ==
    /\ ~busy
    /\ cur < N
    /\ cur' = cur + 1
    /\ busy' = TRUE
    /\ UNCHANGED <<prompt, waiting, ran, told>>

(* The server executes a command, perhaps after the thread has given up.   *)
Execute(i) ==
    /\ i \in 1..cur
    /\ ran[i] = 0
    /\ prompt => busy /\ i = cur
    /\ ran' = [ran EXCEPT ![i] = 1]
    /\ UNCHANGED <<prompt, waiting, cur, busy, told>>

(* What the client of the command in hand may be told.                     *)
Sayable(what) ==
    \/ what = Error /\ (prompt => ran[cur] = 0)
    \/ cur \in waiting /\ ran[cur] = 1 /\ what = Answer(cur)
    \/ /\ ~prompt /\ cur \in waiting
       /\ what # {}
       /\ \A i \in 1..N : told[i] # None => told[i] \cap what = {}

Tell ==
    /\ busy
    /\ busy' = FALSE
    /\ told'[cur] # None
    /\ Sayable(told'[cur])
    /\ told' = [told EXCEPT ![cur] = told'[cur]]
    /\ UNCHANGED <<prompt, waiting, cur, ran>>

(* Its turn ends and nobody is told.                                       *)
Pass ==
    /\ busy
    /\ prompt => cur \notin waiting
    /\ busy' = FALSE
    /\ UNCHANGED <<prompt, waiting, cur, ran, told>>

Next == Take \/ (\E i \in 1..N : Execute(i)) \/ Tell \/ Pass

Spec == Init /\ [][Next]_exchangeVars
=============================================================================
