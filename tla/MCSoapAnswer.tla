---------------------------- MODULE MCSoapAnswer ----------------------------
(* The answers of the run of SoapAnswer: results and faults of lengths on  *)
(* both sides of MAX_BUF_SIZE, one with a text like a status line, and     *)
(* documents with other nodes than expected.                               *)
EXTENDS SoapAnswer

Node(name, text) == [name |-> name, text |-> text]

Texts == {<<>>, <<"a">>, <<"a", "200 OK">>, <<"a", "b", "c", "d">>, <<"a", "b", "c", "d", "e">>,
          <<"a", "b", "c", "d", "e", "f", "g", "h">>}

Bodies ==
    {<<Node("result", t)>> : t \in Texts}
        \cup {<<Node("faultcode", <<>>), Node("faultstring", <<"s">>), Node("detail", t)>> : t \in Texts}
        \cup {<<Node("faultcode", <<>>), Node("faultstring", t)>> : t \in Texts}
        \cup {<<>>, <<Node("other", <<"x">>)>>,
              <<Node("faultcode", <<>>), Node("other", <<"x">>)>>}

(* Nothing, more than one token, white space and tags, and more than fits. *)
AllTails == {<<>>, <<"junk", "200 OK">>, <<"/", "blank line", "<?xml">>, [i \in 1..2 * MAX_BUF_SIZE |-> "junk"]}

AllAnswers == [ok : BOOLEAN, decl : BOOLEAN, nodes : Bodies]
=============================================================================
