---------------------------- MODULE MCDashboard ----------------------------
(* Two requests are enough for one to run, one to wait, and a retry of the *)
(* first behind both.  With few retained events a turn trims its own head. *)
EXTENDS Dashboard, TLC

CONSTANTS p1, p2
TwoPrompts == {p1, p2}
Alike == Permutations(TwoPrompts)

(* A prompt that is sent under a second id takes the place of the other,   *)
(* and one run_state at a time is held back.                               *)
TwoRequests ==
  Cardinality(Used) <= 2 /\ Cardinality(happened) + server.ticks + server.stops <= 2

(* While the session is being opened the tab gets no events: the view that *)
(* they would change is about to be replaced, so they may as well have     *)
(* come before.                                                            *)
Quiet == snapshot.at # "none" /\ snapshot'.at # "none" => tab' = tab \/ sending' # sending
============================================================================
