--------------------------- MODULE MCCallbackOutbox ---------------------------
(* Instances of CallbackOutbox for TLC.                                      *)
EXTENDS CallbackOutbox, TLC

CONSTANTS c1, c2, d1, d2

TwoCallbacks == {c1, c2}
TwoDispatchers == {d1, d2}

\* Rows are told apart only by the order of next_attempt_at (safety runs only).
TwoSymmetry == Permutations(TwoCallbacks) \cup Permutations(TwoDispatchers)
================================================================================
