------------------------------ MODULE MCEgress -------------------------------
(* Instances of Egress for TLC. *)
EXTENDS Egress

CONSTANTS p1, p2, p3, l1, l2

PraosAndLeios == {p1, p2, p3, l1, l2}
Leios == {l1, l2}
==============================================================================
