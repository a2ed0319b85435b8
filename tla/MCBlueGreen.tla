---------------------------- MODULE MCBlueGreen ----------------------------
(* A small instance of BlueGreen for TLC: three releases, one of two       *)
(* migrations, one with a migration that the gate refuses; two containers  *)
(* that migrate.  The first migration of the middle release breaks code    *)
(* shipped before it, which matters to OldCodeSurvives alone.              *)
EXTENDS BlueGreen, TLC

Symmetry == Permutations(Runner)
=============================================================================
