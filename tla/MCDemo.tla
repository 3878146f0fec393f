------------------------------- MODULE MCDemo -------------------------------
(* Constants of Demo for the model checker. *)
EXTENDS Demo

(* A buffer for two characters, and the two that never take a byte. *)
TwoCharacters == {[max_len |-> 3, tmo |-> 2], [max_len |-> 3, tmo |-> 0],
                  [max_len |-> 1, tmo |-> 2], [max_len |-> 0, tmo |-> 2]}
=============================================================================
