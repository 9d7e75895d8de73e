----------------------------- MODULE CommandJob -----------------------------
(***************************************************************************)
(* What read_sock_func does with the messages it has read: analysis_message*)
(* and parse_object turn a message into commands, the commands are handed  *)
(* one by one to write_pipe_or_sock or to write_db, and the database       *)
(* handle lives from the first write_db to the end of the job.             *)
(*                                                                         *)
(* A message is an array of key lists and an array of value objects, and   *)
(* items pairs them up as far as the shorter one goes.  Of each pair only  *)
(* what parse_object looks at is kept: how many keys there are, the command*)
(* its first value names, whether every parameter is there and is a string *)
(* and whether the text made of the row and the parameters is empty.       *)
(* Memory is not modelled.                                                 *)
(***************************************************************************)
EXTENDS Integers, Sequences, FiniteSets

CONSTANTS Table,       \* the command table: key -> its row
          Messages,    \* what a client may send
          MaxMessages, \* messages of one job
          DbFails      \* what may fail in the database: "open", "prepare", "step"

ASSUME CommandAssumption ==
    /\ MaxMessages \in Nat
    /\ DbFails \subseteq {"open", "prepare", "step"}
    /\ Messages \subseteq [valid : BOOLEAN, items : Seq([size : Nat, op : STRING, params : BOOLEAN, empty : BOOLEAN])]
    /\ "not a string" \notin DOMAIN Table
    /\ \A k \in DOMAIN Table :
         Table[k] \in [paramNum : Nat, needRsp : {0, 1}, deprecated : BOOLEAN, is2Pipe : BOOLEAN]

VARIABLES pc,     \* where the job is: "read", "parse", "run", "end"
          count,  \* messages read so far
          msg,    \* the message in hand
          cmds,   \* the commands parsed from it
          ran,    \* how many of them have been run
          db,     \* whether the job's handle is set
          conn,   \* the connection the handle names: "none", "open", "closed"
          stmts,  \* whether it has statements that were not finalized
          left,   \* history: connections left open by jobs that have ended
          used,   \* history: a closed connection was used
          denied  \* history: a statement was not accepted

vars == <<pc, count, msg, cmds, ran, db, conn, stmts, left, used, denied>>
dbVars == <<db, conn, stmts, left, used, denied>>

-----------------------------------------------------------------------------
(* Parsing                                                                 *)

PARAMNUMERR == -2
PARAMTYPEERR == -3
COMMANDNOEXIST == -4
DEPRECATED == -1

(* Slip: at most four fields with the op instead of four parameters.       *)
parse_up_to_four(item) ==
    IF /\ item.size \in 2..4
       /\ item.op \in DOMAIN Table
       /\ item.params /\ ~Table[item.op].deprecated /\ item.size - 1 = Table[item.op].paramNum
    THEN Table[item.op].needRsp ELSE PARAMNUMERR

(* The checks, in their order.  size counts the op field; a missing op or  *)
(* parameter, or one that is not a string, is what vaild_item refuses.     *)
parse_object(item) ==
    IF item.size \notin 2..5 THEN PARAMNUMERR
    ELSE IF item.op = "not a string" THEN PARAMTYPEERR
    ELSE IF item.op \notin DOMAIN Table THEN COMMANDNOEXIST
    ELSE IF item.size - 1 # Table[item.op].paramNum THEN PARAMNUMERR
    ELSE IF Table[item.op].deprecated THEN DEPRECATED
    ELSE IF ~item.params THEN PARAMTYPEERR
    ELSE Table[item.op].needRsp

(* The command of an item that was accepted.                               *)
Command(item) ==
    [op |-> item.op, resp |-> parse_object(item), is2Pipe |-> Table[item.op].is2Pipe, empty |-> item.empty]

NoMessage == [valid |-> FALSE, items |-> <<>>]

Init ==
    /\ pc = "read"
    /\ count = 0
    /\ msg = NoMessage
    /\ cmds = <<>>
    /\ ran = 0
    /\ db = FALSE
    /\ conn = "none"
    /\ stmts = FALSE
    /\ left = 0
    /\ used = FALSE
    /\ denied = FALSE

-----------------------------------------------------------------------------
(* The job                                                                 *)

(* read_normal_sock returns a message; analysis_message checks its sum and *)
(* its JSON and that both arrays are there and not empty.                  *)
ReadMessage(m) ==
    /\ pc = "read"
    /\ count < MaxMessages
    /\ count' = count + 1
    /\ msg' = m
    /\ cmds' = <<>>
    /\ ran' = 0
    /\ pc' = IF m.valid /\ m.items # <<>> THEN "parse" ELSE "end"
    /\ UNCHANGED dbVars

(* There is nothing more to read.                                          *)
ReadEnds ==
    /\ pc = "read"
    /\ pc' = "end"
    /\ UNCHANGED <<count, msg, cmds, ran, dbVars>>

(* Slip: an item that is refused is skipped.                               *)
SkipBadItem ==
    /\ pc = "parse"
    /\ LET good == SelectSeq(msg.items, LAMBDA it : parse_object(it) >= 0)
       IN  cmds' = [k \in 1..Len(good) |-> Command(good[k])]
    /\ pc' = "run"
    /\ UNCHANGED <<count, msg, ran, dbVars>>

(* One item after the other; the first that is refused ends the job and    *)
(* drops the whole message.                                                *)
ParseItem ==
    /\ pc = "parse"
    /\ Len(cmds) < Len(msg.items)
    /\ LET item == msg.items[Len(cmds) + 1]
       IN  \/ /\ parse_object(item) >= 0
              /\ cmds' = Append(cmds, Command(item))
              /\ UNCHANGED pc
           \/ /\ parse_object(item) < 0
              /\ cmds' = <<>>
              /\ pc' = "end"
    /\ UNCHANGED <<count, msg, ran, dbVars>>

ParseDone ==
    /\ pc = "parse"
    /\ Len(cmds) = Len(msg.items)
    /\ pc' = "run"
    /\ UNCHANGED <<count, msg, cmds, ran, dbVars>>

Current == cmds[ran + 1]

(* A command for the game world (SoapBackend).                             *)
write_pipe_or_sock ==
    /\ pc = "run"
    /\ ran < Len(cmds)
    /\ Current.is2Pipe
    /\ ran' = ran + 1
    /\ UNCHANGED <<pc, count, msg, cmds, dbVars>>

(* write_db returns at once on a command without text.                     *)
EmptyCommand ==
    /\ pc = "run"
    /\ ran < Len(cmds)
    /\ ~Current.is2Pipe
    /\ Current.empty
    /\ ran' = ran + 1
    /\ UNCHANGED <<pc, count, msg, cmds, dbVars>>

ToDb == pc = "run" /\ ran < Len(cmds) /\ ~Current.is2Pipe /\ ~Current.empty

(* Slip: the handle is set before the result of the open is looked at.     *)
OpenFailsButSet ==
    /\ ToDb
    /\ ~db
    /\ "open" \in DbFails
    /\ db' = TRUE
    /\ ran' = ran + 1
    /\ UNCHANGED <<pc, count, msg, cmds, conn, stmts, left, used, denied>>

(* write_db cannot open the database: the handle stays NULL.               *)
OpenFails ==
    /\ ToDb
    /\ ~db
    /\ "open" \in DbFails
    /\ ran' = ran + 1
    /\ UNCHANGED <<pc, count, msg, cmds, dbVars>>

(* Slip: the connection is closed after each statement.                    *)
ExecuteAndClose ==
    /\ ToDb
    /\ db' = TRUE
    /\ conn' = "closed"
    /\ used' = (used \/ conn = "closed")
    /\ ran' = ran + 1
    /\ UNCHANGED <<pc, count, msg, cmds, stmts, left, denied>>

(* The statement is prepared, run and finalized, over the handle the job   *)
(* has or over a new one.                                                  *)
Execute ==
    /\ ToDb
    /\ conn # "closed"
    /\ db' = TRUE
    /\ conn' = "open"
    /\ ran' = ran + 1
    /\ UNCHANGED <<pc, count, msg, cmds, stmts, left, used, denied>>

(* sqlite3_close: refused while a statement is not finalized.              *)
Closed(c, pending) == IF c = "open" /\ pending THEN "open" ELSE "closed"

(* The SQL is not accepted, or the connection is closed already: there is  *)
(* no statement to run, the connection is closed (again), and the caller's *)
(* handle is still set.                                                    *)
PrepareFails ==
    /\ ToDb
    /\ "prepare" \in DbFails
    /\ db' = TRUE
    /\ conn' = Closed(IF db THEN conn ELSE "open", stmts)
    /\ used' = (used \/ conn = "closed")
    /\ denied' = TRUE
    /\ ran' = ran + 1
    /\ UNCHANGED <<pc, count, msg, cmds, stmts, left>>

(* The statement fails and is not finalized: the close is refused.         *)
StepFails ==
    /\ ToDb
    /\ conn # "closed"
    /\ "step" \in DbFails
    /\ db' = TRUE
    /\ conn' = "open"
    /\ stmts' = TRUE
    /\ ran' = ran + 1
    /\ UNCHANGED <<pc, count, msg, cmds, left, used, denied>>

(* free_command; the loop reads on.                                        *)
MessageDone ==
    /\ pc = "run"
    /\ ran = Len(cmds)
    /\ pc' = "read"
    /\ UNCHANGED <<count, msg, cmds, ran, dbVars>>

(* Slip: the job forgets to close its connection.                          *)
EndWithoutClose ==
    /\ pc = "end"
    /\ left' = IF conn = "open" THEN left + 1 ELSE left
    /\ pc' = "done"
    /\ UNCHANGED <<count, msg, cmds, ran, db, conn, stmts, used, denied>>

(* The end of the job: a handle that is set is closed.                     *)
JobEnds ==
    /\ pc = "end"
    /\ used' = (used \/ (db /\ conn = "closed"))
    /\ conn' = IF db THEN Closed(conn, stmts) ELSE conn
    /\ left' = IF conn' = "open" THEN left + 1 ELSE left
    /\ pc' = "done"
    /\ UNCHANGED <<count, msg, cmds, ran, db, stmts, denied>>

write_db == EmptyCommand \/ OpenFails \/ Execute \/ PrepareFails \/ StepFails

read_sock_func ==
    \/ \E m \in Messages : ReadMessage(m)
    \/ ReadEnds
    \/ ParseItem
    \/ ParseDone
    \/ write_pipe_or_sock
    \/ write_db
    \/ MessageDone
    \/ JobEnds

Next == read_sock_func

Spec == Init /\ [][Next]_vars

-----------------------------------------------------------------------------
(* Correctness                                                             *)

(* The type of every variable.                                             *)
TypeOK ==
    /\ pc \in {"read", "parse", "run", "end", "done"}
    /\ count \in 0..MaxMessages
    /\ msg \in Messages \cup {NoMessage}
    /\ Len(cmds) <= Len(msg.items) /\ ran \in 0..Len(cmds)
    /\ db \in BOOLEAN /\ stmts \in BOOLEAN /\ used \in BOOLEAN /\ denied \in BOOLEAN
    /\ conn \in {"none", "open", "closed"}
    /\ db <=> conn # "none"

(* Reference: an item is a command of the table that is still in use, with *)
(* as many parameters as it takes, all of them strings.                    *)
WellFormed(item) ==
    /\ item.op \in DOMAIN Table
    /\ ~Table[item.op].deprecated
    /\ item.params
    /\ item.size = Table[item.op].paramNum + 1

(* One error drops the whole message: commands are run only when every     *)
(* item of the message is well formed, and then all of them, in order; and *)
(* a message that is well formed throughout, with one to four parameters   *)
(* for each command, is not dropped.                                       *)
AllOrNothing ==
    /\ ran > 0 => \A k \in 1..Len(msg.items) : WellFormed(msg.items[k])
    /\ pc = "read" /\ count > 0 => ran = Len(msg.items)
    /\ \A k \in 1..ran : cmds[k].op = msg.items[k].op
    /\ pc = "end" /\ count > 0 /\ msg.valid /\ msg.items # <<>>
         /\ (\A k \in 1..Len(msg.items) : WellFormed(msg.items[k]) /\ msg.items[k].size \in 2..5)
             => ran = Len(msg.items)

(* write_db and the end of the job use a connection that is closed only    *)
(* after a statement was not accepted, on which write_db closes it and     *)
(* leaves the handle set.                                                  *)
HandleOpen == used => denied

(* A connection to the database outlives its job only when a statement     *)
(* failed and was not finalized.                                           *)
NothingLeft == left > 0 => stmts
=============================================================================
