---------------------------- MODULE MCNameServer ----------------------------
(* Constants for the runs of NameServer. *)
EXTENDS NameServer, TLC

CONSTANTS n1, n2, x1, x2

(* A node moves between commands and weights; the other has a command in common. *)
TheOffers == {[node |-> n1, cmds |-> {x1}, weight |-> 1],
              [node |-> n1, cmds |-> {x1, x2}, weight |-> 2],
              [node |-> n2, cmds |-> {x1}, weight |-> 1]}

Symmetry == Permutations(Stream) \cup Permutations(Call)

(* After a race that the properties except nothing is claimed. *)
Unraced == ~raced
=============================================================================
