---------------------------- MODULE MCCommandJob ----------------------------
(* A small command table and messages for the runs of CommandJob.          *)
EXTENDS CommandJob

Row(n, rsp, old, pipe) == [paramNum |-> n, needRsp |-> rsp, deprecated |-> old, is2Pipe |-> pipe]

(* Commands for the game world and for the database, one that takes four   *)
(* parameters, one that takes none (and so can never be sent), one that is *)
(* no longer in use.                                                       *)
SmallTable ==
    [world |-> Row(1, 1, FALSE, TRUE), sql |-> Row(1, 0, FALSE, FALSE), four |-> Row(4, 1, FALSE, TRUE),
     none |-> Row(0, 0, FALSE, TRUE), old |-> Row(1, 0, TRUE, FALSE)]

(* One of the items comes to an empty text for the database.               *)
Items ==
    [size : {0, 1, 2, 5, 6}, op : DOMAIN SmallTable \cup {"unknown", "not a string"}, params : BOOLEAN,
     empty : {FALSE}]
    \cup {[size |-> 2, op |-> "sql", params |-> TRUE, empty |-> TRUE]}

(* Every single item, and every pair with a good one.                      *)
AllMessages ==
    LET good == {[size |-> 2, op |-> o, params |-> TRUE, empty |-> FALSE] : o \in {"world", "sql"}}
    IN  {[valid |-> v, items |-> s] : v \in BOOLEAN,
            s \in {<<>>} \cup {<<i>> : i \in Items}
                  \cup {<<g, i>> : g \in good, i \in Items} \cup {<<i, g>> : g \in good, i \in Items}}
=============================================================================
