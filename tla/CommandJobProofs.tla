-------------------------- MODULE CommandJobProofs --------------------------
(***************************************************************************)
(* The properties of CommandJob for every command table, every set of      *)
(* messages, any number of messages and any failures of the database.      *)
(***************************************************************************)
EXTENDS CommandJob, TLAPS

Item == [size : Nat, op : STRING, params : BOOLEAN, empty : BOOLEAN]
Accepted == [op : STRING, resp : {0, 1}, is2Pipe : BOOLEAN, empty : BOOLEAN]

(* What parsing has come to: the commands are those of the first items,    *)
(* each accepted, and nothing is run before all of them are.               *)
ParseInv ==
    /\ cmds \in Seq(Accepted)
    /\ Len(cmds) <= Len(msg.items)
    /\ \A k \in 1..Len(cmds) : cmds[k].op = msg.items[k].op /\ parse_object(msg.items[k]) >= 0
    /\ pc = "parse" => ran = 0
    /\ pc = "run" \/ ran > 0 => Len(cmds) = Len(msg.items)
    /\ pc = "read" /\ count > 0 => ran = Len(msg.items)
    /\ pc = "end" /\ count > 0 /\ msg.valid /\ msg.items # <<>>
         => ran = Len(msg.items) \/ \E k \in 1..Len(msg.items) : parse_object(msg.items[k]) < 0

(* What the database has come to: a connection is closed before the end of *)
(* the job only because a statement was not accepted.                      *)
HandleInv ==
    /\ conn = "closed" => denied \/ pc = "done"
    /\ used => denied
    /\ left \in Nat
    /\ pc # "done" => left = 0
    /\ left > 0 => stmts

JobInv == TypeOK /\ ParseInv /\ HandleInv

-----------------------------------------------------------------------------
(* Parsing                                                                 *)

(* The messages are sequences of items.                                    *)
LEMMA MessageType ==
    ASSUME TypeOK
    PROVE  msg.items \in Seq(Item) /\ msg.valid \in BOOLEAN
  <1>1. CASE msg = NoMessage
    BY <1>1 DEF NoMessage
  <1>2. CASE msg \in Messages
    <2>1. msg \in [valid : BOOLEAN, items : Seq(Item)]
      BY <1>2, CommandAssumption DEF Item
    <2> QED
      BY <2>1
  <1> QED
    BY <1>1, <1>2 DEF TypeOK

(* A row of the table.                                                     *)
LEMMA RowType ==
    ASSUME NEW k \in DOMAIN Table
    PROVE  /\ Table[k].paramNum \in Nat
           /\ Table[k].needRsp \in {0, 1}
           /\ Table[k].deprecated \in BOOLEAN
           /\ Table[k].is2Pipe \in BOOLEAN
  <1>1. Table[k] \in [paramNum : Nat, needRsp : {0, 1}, deprecated : BOOLEAN, is2Pipe : BOOLEAN]
    BY CommandAssumption
  <1> QED
    BY <1>1

(* What parse_object returns is a number, and one that is not negative     *)
(* exactly when the item has one to four parameters and is well formed.    *)
LEMMA ParseType ==
    ASSUME NEW item \in Item
    PROVE  /\ parse_object(item) \in Int
           /\ parse_object(item) >= 0 => parse_object(item) \in {0, 1}
           /\ parse_object(item) >= 0 <=> WellFormed(item) /\ item.size \in 2..5
  <1> DEFINE row == Table[item.op]
  <1>0. item.size \in Nat /\ item.params \in BOOLEAN
    BY DEF Item
  <1>1. CASE item.size \notin 2..5
    BY <1>1 DEF parse_object, PARAMNUMERR
  <1>2. CASE item.size \in 2..5 /\ item.op \notin DOMAIN Table
    BY <1>2 DEF parse_object, PARAMTYPEERR, COMMANDNOEXIST, WellFormed
  <1>3. CASE item.size \in 2..5 /\ item.op \in DOMAIN Table
    <2>1. item.op # "not a string"
      BY <1>3, CommandAssumption
    <2>2. row.paramNum \in Nat /\ row.needRsp \in {0, 1} /\ row.deprecated \in BOOLEAN
      BY <1>3, RowType
    <2>3. parse_object(item) = IF item.size - 1 # row.paramNum THEN PARAMNUMERR
                               ELSE IF row.deprecated THEN DEPRECATED
                               ELSE IF ~item.params THEN PARAMTYPEERR ELSE row.needRsp
      BY <1>3, <2>1 DEF parse_object
    <2>4. WellFormed(item) <=> item.size - 1 = row.paramNum /\ ~row.deprecated /\ item.params
      BY <1>0, <1>3, <2>2 DEF WellFormed
    <2> HIDE DEF row
    <2> QED
      BY <1>0, <1>3, <2>2, <2>3, <2>4 DEF PARAMNUMERR, PARAMTYPEERR, DEPRECATED
  <1> QED
    BY <1>1, <1>2, <1>3

-----------------------------------------------------------------------------
(* The inductive invariant                                                 *)

(* The job begins in the invariant.                                        *)
LEMMA JobInitInv == Init => JobInv
  <1> SUFFICES ASSUME Init PROVE JobInv
    OBVIOUS
  <1>0. MaxMessages \in Nat
    BY CommandAssumption
  <1>1. TypeOK
    <2>1. msg.items = <<>>
      BY DEF Init, NoMessage
    <2>2. Len(cmds) <= Len(msg.items) /\ ran \in 0..Len(cmds)
      BY <2>1 DEF Init
    <2>3. count \in 0..MaxMessages
      BY <1>0 DEF Init
    <2>4. /\ db \in BOOLEAN /\ stmts \in BOOLEAN /\ used \in BOOLEAN /\ denied \in BOOLEAN
          /\ db <=> conn # "none"
      BY DEF Init
    <2> QED
      BY <2>2, <2>3, <2>4 DEF Init, TypeOK
  <1>2. ParseInv
    BY DEF Init, ParseInv, NoMessage
  <1>3. HandleInv
    BY DEF Init, HandleInv
  <1> QED
    BY <1>1, <1>2, <1>3 DEF JobInv

(* A step that leaves the database alone and does not end the job keeps    *)
(* what is known of the handle.                                            *)
LEMMA HandleKept ==
    ASSUME HandleInv, UNCHANGED dbVars, pc # "done", pc' # "done"
    PROVE  HandleInv'
  BY DEF HandleInv, dbVars

(* Reading a message starts afresh.                                        *)
LEMMA ReadMessageInv ==
    ASSUME JobInv, NEW m \in Messages, ReadMessage(m)
    PROVE  JobInv'
  <1>1. cmds' = <<>> /\ ran' = 0 /\ msg' = m /\ count' = count + 1 /\ pc = "read"
        /\ pc' = IF m.valid /\ m.items # <<>> THEN "parse" ELSE "end"
    BY DEF ReadMessage
  <1>2. m.items \in Seq(Item) /\ m.valid \in BOOLEAN
    <2>1. m \in [valid : BOOLEAN, items : Seq(Item)]
      BY CommandAssumption DEF Item
    <2> QED
      BY <2>1
  <1>3. count' \in 0..MaxMessages
    <2>1. MaxMessages \in Nat
      BY CommandAssumption
    <2> QED
      BY <2>1 DEF ReadMessage, JobInv, TypeOK
  <1>4. TypeOK'
    BY <1>1, <1>2, <1>3 DEF JobInv, TypeOK, ReadMessage, dbVars
  <1>5. ParseInv'
    BY <1>1, <1>2 DEF ParseInv
  <1>6. HandleInv'
    BY <1>1, HandleKept DEF JobInv, ReadMessage
  <1> QED
    BY <1>4, <1>5, <1>6 DEF JobInv

(* Each item that is accepted adds its command; one that is refused ends   *)
(* the job with nothing run.                                               *)
LEMMA ParseItemInv ==
    ASSUME JobInv, ParseItem
    PROVE  JobInv'
  <1> DEFINE n == Len(cmds) + 1
             item == msg.items[n]
  <1>1. /\ pc = "parse" /\ Len(cmds) < Len(msg.items)
        /\ UNCHANGED <<count, msg, ran, dbVars>>
    BY DEF ParseItem
  <1>2. msg.items \in Seq(Item) /\ cmds \in Seq(Accepted) /\ ran = 0
    BY <1>1, MessageType DEF JobInv, ParseInv
  <1>3. n \in 1..Len(msg.items) /\ item \in Item
    BY <1>1, <1>2
  <1>4. CASE parse_object(item) >= 0 /\ cmds' = Append(cmds, Command(item)) /\ pc' = pc
    <2>1. Command(item) \in Accepted
      <3>1. item.op \in DOMAIN Table /\ parse_object(item) \in {0, 1}
        BY <1>3, <1>4, ParseType DEF WellFormed
      <3>2. Table[item.op].is2Pipe \in BOOLEAN /\ item.op \in STRING /\ item.empty \in BOOLEAN
        BY <1>3, <3>1, RowType DEF Item
      <3> HIDE DEF item
      <3> QED
        BY <3>1, <3>2 DEF Command, Accepted
    <2>2. Command(item).op = item.op
      BY DEF Command
    <2> HIDE DEF item
    <2>3. /\ cmds' \in Seq(Accepted) /\ Len(cmds') = n /\ cmds'[n].op = item.op
          /\ \A k \in 1..Len(cmds) : cmds'[k] = cmds[k]
      BY <1>2, <1>4, <2>1, <2>2
    <2>4. \A k \in 1..Len(cmds') : cmds'[k].op = msg.items[k].op /\ parse_object(msg.items[k]) >= 0
      <3> TAKE k \in 1..Len(cmds')
      <3>1. CASE k = n
        BY <1>4, <2>3, <3>1 DEF item
      <3>2. CASE k \in 1..Len(cmds)
        BY <2>3, <3>2 DEF JobInv, ParseInv
      <3> QED
        BY <1>2, <2>3, <3>1, <3>2
    <2>5. ParseInv'
      BY <1>1, <1>2, <1>3, <1>4, <2>3, <2>4 DEF ParseInv
    <2>6. TypeOK'
      BY <1>1, <1>2, <1>3, <1>4, <2>3 DEF JobInv, TypeOK, dbVars
    <2> QED
      BY <1>1, <1>4, <2>5, <2>6, HandleKept DEF JobInv
  <1>5. CASE parse_object(item) < 0 /\ cmds' = <<>> /\ pc' = "end"
    <2>1. \E k \in 1..Len(msg.items) : parse_object(msg.items[k]) < 0
      BY <1>3, <1>5
    <2> HIDE DEF item
    <2>2. ParseInv'
      BY <1>1, <1>2, <1>5, <2>1 DEF ParseInv
    <2>3. TypeOK'
      BY <1>1, <1>2, <1>5 DEF JobInv, TypeOK, dbVars
    <2> QED
      BY <1>1, <1>5, <2>2, <2>3, HandleKept DEF JobInv
  <1> QED
    BY <1>4, <1>5 DEF ParseItem

(* The steps of the loop that touch neither the message nor the database.  *)
LEMMA LoopInv ==
    ASSUME JobInv, ReadEnds \/ ParseDone \/ MessageDone
    PROVE  JobInv'
  <1>1. msg.items \in Seq(Item)
    BY MessageType DEF JobInv
  <1>2. UNCHANGED <<count, msg, cmds, ran, dbVars>> /\ pc' # "done" /\ pc # "done"
    BY DEF ReadEnds, ParseDone, MessageDone
  <1>3. TypeOK'
    BY <1>2 DEF JobInv, TypeOK, dbVars, ReadEnds, ParseDone, MessageDone
  <1>4. ParseInv'
    <2>1. CASE ReadEnds
      BY <1>1, <1>2, <2>1 DEF JobInv, TypeOK, ParseInv, ReadEnds
    <2>2. CASE ParseDone
      BY <1>1, <1>2, <2>2 DEF JobInv, TypeOK, ParseInv, ParseDone
    <2>3. CASE MessageDone
      BY <1>1, <1>2, <2>3 DEF JobInv, TypeOK, ParseInv, MessageDone
    <2> QED
      BY <2>1, <2>2, <2>3
  <1> QED
    BY <1>2, <1>3, <1>4, HandleKept DEF JobInv

(* Running a command counts it, and no more, as far as parsing goes.       *)
LEMMA RunParse ==
    ASSUME JobInv, pc = "run", ran < Len(cmds), ran' = ran + 1, UNCHANGED <<pc, count, msg, cmds>>
    PROVE  ParseInv' /\ ran' \in 0..Len(cmds') /\ Len(cmds') <= Len(msg'.items)
  <1>1. msg.items \in Seq(Item) /\ cmds \in Seq(Accepted) /\ ran \in 0..Len(cmds)
    BY MessageType DEF JobInv, TypeOK, ParseInv
  <1> QED
    BY <1>1 DEF JobInv, ParseInv

(* A command for the game world or for the database.                       *)
LEMMA RunInv ==
    ASSUME JobInv, write_pipe_or_sock \/ write_db
    PROVE  JobInv'
  <1> USE DEF ToDb
  <1>1. pc = "run" /\ ran < Len(cmds) /\ ran' = ran + 1 /\ UNCHANGED <<pc, count, msg, cmds>>
    BY DEF write_pipe_or_sock, write_db, EmptyCommand, OpenFails, Execute, PrepareFails, StepFails
  <1>2. ParseInv' /\ ran' \in 0..Len(cmds') /\ Len(cmds') <= Len(msg'.items)
    BY <1>1, RunParse
  <1>3. CASE UNCHANGED dbVars
    BY <1>1, <1>2, <1>3, HandleKept DEF JobInv, TypeOK, dbVars
  <1>4. CASE Execute
    BY <1>1, <1>2, <1>4 DEF Execute, JobInv, TypeOK, HandleInv
  <1>5. CASE PrepareFails
    BY <1>1, <1>2, <1>5 DEF PrepareFails, Closed, JobInv, TypeOK, HandleInv
  <1>6. CASE StepFails
    BY <1>1, <1>2, <1>6 DEF StepFails, JobInv, TypeOK, HandleInv
  <1> QED
    BY <1>3, <1>4, <1>5, <1>6 DEF write_pipe_or_sock, write_db, EmptyCommand, OpenFails

(* The end of the job: the connection it closes was closed before only     *)
(* because a statement was not accepted, and stays open only with one that *)
(* was not finalized.                                                      *)
LEMMA JobEndsInv ==
    ASSUME JobInv, JobEnds
    PROVE  JobInv'
  <1>1. pc = "end" /\ pc' = "done" /\ UNCHANGED <<count, msg, cmds, ran, db, stmts, denied>>
    BY DEF JobEnds
  <1>2. ParseInv'
    BY <1>1 DEF JobInv, ParseInv
  <1>3. TypeOK'
    BY <1>1 DEF JobEnds, JobInv, TypeOK, Closed
  <1>4. HandleInv'
    BY <1>1 DEF JobEnds, JobInv, TypeOK, HandleInv, Closed
  <1> QED
    BY <1>2, <1>3, <1>4 DEF JobInv

(* Every reachable state of a job satisfies the invariant.                 *)
THEOREM JobInvariant == Spec => []JobInv
  <1>1. JobInv /\ [Next]_vars => JobInv'
    <2> SUFFICES ASSUME JobInv, [Next]_vars PROVE JobInv'
      OBVIOUS
    <2>1. CASE UNCHANGED vars
      BY <2>1 DEF vars, JobInv, TypeOK, ParseInv, HandleInv
    <2>2. CASE \E m \in Messages : ReadMessage(m)
      BY <2>2, ReadMessageInv
    <2>3. CASE ParseItem
      BY <2>3, ParseItemInv
    <2>4. CASE ReadEnds \/ ParseDone \/ MessageDone
      BY <2>4, LoopInv
    <2>5. CASE write_pipe_or_sock \/ write_db
      BY <2>5, RunInv
    <2>6. CASE JobEnds
      BY <2>6, JobEndsInv
    <2> QED
      BY <2>1, <2>2, <2>3, <2>4, <2>5, <2>6 DEF Next, read_sock_func
  <1> QED
    BY <1>1, JobInitInv, PTL DEF Spec

-----------------------------------------------------------------------------
(* What it says of the code                                                *)

(* The variables of a job keep their types.                                *)
THEOREM JobTypeOK == Spec => []TypeOK
  BY JobInvariant, PTL DEF JobInv

(* One error drops the whole message, for every table and every message:   *)
(* commands are run only when every item is well formed, then all of them  *)
(* and in order, and a message without an error is not dropped.            *)
THEOREM JobAllOrNothing == Spec => []AllOrNothing
  <1>1. JobInv => AllOrNothing
    <2> SUFFICES ASSUME JobInv PROVE AllOrNothing
      OBVIOUS
    <2>1. /\ msg.items \in Seq(Item) /\ cmds \in Seq(Accepted) /\ ran \in 0..Len(cmds)
          /\ Len(cmds) <= Len(msg.items)
      BY MessageType DEF JobInv, TypeOK, ParseInv
    <2>2. \A k \in 1..Len(msg.items) : msg.items[k] \in Item
      BY <2>1
    <2>3. ran > 0 => \A k \in 1..Len(msg.items) : WellFormed(msg.items[k])
      BY <2>1, <2>2, ParseType DEF JobInv, ParseInv
    <2>4. \A k \in 1..ran : cmds[k].op = msg.items[k].op
      BY <2>1 DEF JobInv, ParseInv
    <2>5. (\E k \in 1..Len(msg.items) : parse_object(msg.items[k]) < 0)
          => ~\A k \in 1..Len(msg.items) : WellFormed(msg.items[k]) /\ msg.items[k].size \in 2..5
      BY <2>2, ParseType
    <2> QED
      BY <2>3, <2>4, <2>5 DEF JobInv, ParseInv, AllOrNothing
  <1> QED
    BY <1>1, JobInvariant, PTL

(* A closed connection is used only after a statement was not accepted.    *)
THEOREM JobHandleOpen == Spec => []HandleOpen
  <1>1. JobInv => HandleOpen
    BY DEF JobInv, HandleInv, HandleOpen
  <1> QED
    BY <1>1, JobInvariant, PTL

(* A connection outlives its job only with a statement not finalized.      *)
THEOREM JobNothingLeft == Spec => []NothingLeft
  <1>1. JobInv => NothingLeft
    BY DEF JobInv, HandleInv, NothingLeft
  <1> QED
    BY <1>1, JobInvariant, PTL
=============================================================================
