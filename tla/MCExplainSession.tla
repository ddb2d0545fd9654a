-------------------------- MODULE MCExplainSession ---------------------------
(* One explanation, with and without a voice note and a transcript dialog. *)
EXTENDS ExplainSession
=============================================================================
