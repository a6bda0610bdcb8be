----------------------------- MODULE MCAccounts -----------------------------
(* Two administrators, two operators who change them, two login handlers. *)
EXTENDS Accounts, TLC
CONSTANTS u1, u2

MCUser == {u1, u2}
MCSubjects == {u1}
Symmetry == Permutations(Operator) \cup Permutations(Login)
=============================================================================
