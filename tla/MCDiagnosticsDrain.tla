------------------------ MODULE MCDiagnosticsDrain ------------------------
(* DiagnosticsDrain with a pipe of a few bytes, for TLC. *)
EXTENDS DiagnosticsDrain
=============================================================================
