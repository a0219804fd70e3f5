---------------------------- MODULE MCIntakePage ----------------------------
(* A browser that comes with no sessions, with a list that is full, or with *)
(* the single session an older version kept, which the list does not hold   *)
EXTENDS IntakePage

MCRemembered == {<<>>, <<2, 1>>}
MCLegacy     == {0, 3}
=============================================================================
