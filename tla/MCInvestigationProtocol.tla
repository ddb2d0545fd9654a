----------------------- MODULE MCInvestigationProtocol -----------------------
(* The reducer with four ids, enough for one question and three captures,  *)
(* four instants, enough for three disjoint acquisition windows, and       *)
(* messages of this session and of another.                                *)
EXTENDS InvestigationProtocol

MCInstants == 0..3
=============================================================================
