---------------------------- MODULE MCSoapBackend ----------------------------
(* The ways the world may behave in the runs of SoapBackend.               *)
EXTENDS SoapBackend

(* The server answers in time and in one piece, its FIN comes with the     *)
(* answer, and it may refuse connections.                                  *)
PromptMode ==
    [prompt |-> TRUE, splits |-> FALSE, fills |-> FALSE, finTogether |-> TRUE,
     clientsStay |-> TRUE, auth |-> TRUE,
     maxRefused |-> 2, maxDropped |-> 0, needRsp |-> {1, 3}]

(* It may be late and split its answers.                                   *)
LateMode == [PromptMode EXCEPT !.prompt = FALSE, !.maxRefused = 0, !.needRsp = Commands]
SplitMode == [LateMode EXCEPT !.splits = TRUE, !.finTogether = FALSE, !.fills = TRUE]

(* Connections are dropped and clients leave as well.                      *)
RoughMode == [SplitMode EXCEPT !.fills = FALSE, !.maxRefused = 1, !.maxDropped = 1, !.clientsStay = FALSE]

Everything ==
    {PromptMode, [PromptMode EXCEPT !.auth = FALSE], SplitMode, RoughMode}
Late == {LateMode}
=============================================================================
