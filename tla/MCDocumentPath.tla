--------------------------- MODULE MCDocumentPath ---------------------------
(***************************************************************************)
(* An instance of DocumentPath and DocumentCard for TLC.                    *)
(***************************************************************************)
EXTENDS DocumentCard

CONSTANTS s1, s2, lee

(* "When" stands twice, and a line ends before the first *)
MCTwice == <<"Given", "a", "nl", "When", "b", "When", "a", "Then", "b", "nl">>
MCTexts == {<<"a">>, <<"nl", "b", "nl", "nl", "a">>, <<"nl">>, MCTwice}
MCQuestion == [s \in {s1, s2} |-> <<"a">>]

MCOutputs ==
  LET issue(s, text) == [slot |-> s, question |-> text, assignee |-> Nobody]
      gwt == [given |-> <<"b">>, when |-> <<"a">>, then |-> <<"b">>]
  IN {[problem |-> <<"a">>, users |-> <<(<<"a">>), (<<"b", "nl">>)>>, issues |-> issues,
       criteria |-> <<gwt>>] :
        issues \in {<<>>, <<issue(s1, <<"b">>), issue(s2, <<"a">>)>>}}

(* every element, both lists, an address too far, and two elements at once *)
MCEdits ==
  {{Place("problem", 0)}, {Place("users", 0)}, {Place("users", 3)},
   {Place("issues", 0)}, {Place("issues", 2)}, {Place("criteria", 1)},
   {Place("users", 2), Place("issues", 1)}}
MCInstructions == {{Place("criteria", 1)}, {Place("problem", 0), Place("issues", 1)}}
(* a line that fits every element *)
MCDrafts == {<<"Given", "b", "When", "a", "Then", "a">>}
(* what was asked for, a part of it, and an element nobody named *)
MCAnswers ==
  MCInstructions \cup {{Place("problem", 0)}, {Place("users", 1)},
                       {Place("users", 1), Place("criteria", 1)}}
=============================================================================
