------------------------ MODULE MCAcbsAuthentication ------------------------
(* Small instances of AcbsAuthentication for TLC. *)
EXTENDS AcbsAuthentication, TLC

Symmetry == Permutations(Calls)
=============================================================================
