---------------------------- MODULE MCWebIntake ----------------------------
(* Instances of one web intake session for TLC. *)
EXTENDS IntakeClaims

(* what the pages see of it: a round is pending only while nothing runs     *)
J == INSTANCE Journey WITH
  processing <- InFlight,
  pending <- ~InFlight /\ PendingRound # "none",
  round <- asked, count <- roundCount,
  doc <- docVersion > 0,
  mockup <- Len(mockups),
  open <- Open,
  decided <- mockups # <<>> /\ Latest.theme # "none"

(* Whatever the adapter and the runner do, a page sees a session that moves *)
(* as Journey says.                                                          *)
JourneySpec == J!SessionSpec
=============================================================================
