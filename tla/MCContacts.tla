----------------------------- MODULE MCContacts -----------------------------
(***************************************************************************)
(* Small instances for TLC. Calls, groups and applications are             *)
(* interchangeable, and so are the users nobody's groups depend on.        *)
(***************************************************************************)
EXTENDS Contacts, TLC

Symmetry == Permutations(Call) \cup Permutations(Group) \cup Permutations(Apply)
            \cup Permutations(User \ Sorters)

Star == {p \in User \X User : p[1] # p[2] /\ (p[1] \in Sorters \/ p[2] \in Sorters)}
=============================================================================
