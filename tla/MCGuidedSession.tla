-------------------------- MODULE MCGuidedSession ----------------------------
(* One guided run, live or replayed, with as many questions as the cfg     *)
(* allows.                                                                 *)
EXTENDS GuidedSession
=============================================================================
