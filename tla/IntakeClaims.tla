---------------------------- MODULE IntakeClaims ----------------------------
(***************************************************************************)
(* Statements that the comments, tests and documents of the repository     *)
(* make about an intake session and that its code does not keep.  Each one *)
(* is the property of a run that ends in a counterexample; the quotation   *)
(* and its place stand with the finding in PROJECT.json.                    *)
(***************************************************************************)
EXTENDS WebIntake

(* Journey principle P-U3: no state stops the journey because the requester *)
(* cannot answer.  A document edit counts as the answer to an open re-ask   *)
(* round of a correction, which then takes no answer and offers no retry.   *)
NeverStuck == status # "absent" /\ ~InFlight => WayForward

(* A partial correction changes the named elements and the code keeps the   *)
(* rest (correctDocument).  An instruction writes back the content it read  *)
(* before its LLM call, over an edit made meanwhile.                        *)
NoElementReverts ==
  [][docVersion' > docVersion => \A p \in Paths : text'[p] \in {text[p], docVersion'}]_vars
=============================================================================
