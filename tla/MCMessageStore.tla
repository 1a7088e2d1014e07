--------------------------- MODULE MCMessageStore ---------------------------
(***************************************************************************)
(* Small talks for TLC: calls and messages are interchangeable.  Users are *)
(* not, because Init and the peer of a user are chosen by CHOOSE.          *)
(***************************************************************************)
EXTENDS MessageStore, TLC

Symmetry == Permutations(Msg) \cup Permutations(Op)
=============================================================================
