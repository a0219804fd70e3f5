--------------------------- MODULE MCSessionPage ---------------------------
(* The session page on sessions of every stage. *)
EXTENDS SessionPage

Scene(s, p, n, m, o, posts, others, rounds, mockups) ==
  [status |-> s, processing |-> p, asks |-> [i \in 1..n |-> <<i, "q1">>],
   answered |-> s # "clarifying", mockup |-> m, open |-> o,
   left |-> [posts |-> posts, others |-> others, rounds |-> rounds, mockups |-> mockups]]

MCScenes ==
  {Scene("intake", TRUE, 0, 0, FALSE, 1, 0, 2, 1),
   Scene("clarifying", FALSE, 1, 0, FALSE, 2, 1, 1, 0),
   Scene("closed", FALSE, 1, 0, FALSE, 1, 1, 1, 0),
   Scene("documented", FALSE, 1, 1, FALSE, 1, 1, 1, 1),
   Scene("documented", FALSE, 1, 1, TRUE, 2, 0, 1, 1),
   Scene("mockup", FALSE, 1, 1, TRUE, 1, 1, 0, 1)}
=============================================================================
