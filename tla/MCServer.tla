------------------------------ MODULE MCServer ------------------------------
(* Small instances of Server for TLC. *)
EXTENDS Server, TLC

UserSymmetry == Permutations(User)
ConnSymmetry == Permutations(Conn)
Symmetry     == UserSymmetry \cup ConnSymmetry
=============================================================================
