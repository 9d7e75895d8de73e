----------------------------- MODULE MCEventLoop -----------------------------
(* The processes and clients of the runs of EventLoop.                     *)
EXTENDS EventLoop

CONSTANTS w1, w2

TwoWorkers == {w1, w2}

(* Two workers; clients close when the proxy has finished with them; one   *)
(* descriptor less than clients, so that it is used again.                 *)
QuietClients == [workers |-> {w1, w2}, fds |-> {1}, requests |-> 2, closeWhen |-> "quiet", resetFrom |-> {}]

(* One worker; clients close at any time or abort, but no reset follows a  *)
(* close.  The second client gets the descriptor of the first.             *)
OneWorker == [workers |-> {w1}, fds |-> {1}, requests |-> 2, closeWhen |-> "any", resetFrom |-> {"open"}]

(* The same with both clients at once.                                     *)
OneWorkerForBoth == [OneWorker EXCEPT !.fds = {1, 2}, !.requests = 1]

(* Two workers; clients close as soon as every request is answered.        *)
AnsweredClients == [QuietClients EXCEPT !.closeWhen = "answered"]

Ordered == {QuietClients, OneWorker, OneWorkerForBoth}
Hasty == {AnsweredClients}
=============================================================================
