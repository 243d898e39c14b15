---------------------------- MODULE MCVyukovRing -----------------------------
(* Small instances of VyukovRing for TLC. *)
EXTENDS VyukovRing, TLC

(* Threads of one kind run the same code, so they may be permuted. *)
Symmetry == Permutations(Senders) \cup Permutations(Receivers) \cup Permutations(Msg)
=============================================================================
