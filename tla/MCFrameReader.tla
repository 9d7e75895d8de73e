---------------------------- MODULE MCFrameReader ----------------------------
(* The clients, networks and pools of the runs of FrameReader.             *)
EXTENDS FrameReader

CONSTANTS w1, w2

(* Messages longer and shorter than Base, so that the first byte of a      *)
(* header is zero or not; a segment may end anywhere.                      *)
CutAnywhere == [lens |-> <<5, 2, 6>>, cuts |-> 1..5, workers |-> {w1}]

(* Two jobs of one client at once, and messages of different lengths.      *)
Shared == [lens |-> <<2, 5, 2>>, cuts |-> {}, workers |-> {w1, w2}]

TwoWorkers == {w1, w2}
Both == {CutAnywhere, Shared}
=============================================================================
