---------------------------- MODULE MCDiagnostic ----------------------------
(* Small instances of Diagnostic for TLC.                                  *)
EXTENDS Diagnostic
=============================================================================
