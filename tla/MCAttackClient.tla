--------------------------- MODULE MCAttackClient ---------------------------
(* Both attack scripts at 30 requests per minute, one tick a second: the  *)
(* 2 s interval is shorter than the longest request, so a request can     *)
(* outlast it.                                                             *)
EXTENDS AttackClient

MCMains == {FreshCharsetParserMain, UserAgentMain}
=============================================================================
