---------------------------- MODULE MCMigrations ----------------------------
(* Two accounts and two alembic processes.                                 *)
EXTENDS Migrations, TLC

CONSTANTS u1, u2, m1, m2

MCUsers == {u1, u2}
MCMigrators == {m1, m2}
Symmetry == Permutations(MCUsers) \cup Permutations(MCMigrators)
=============================================================================
