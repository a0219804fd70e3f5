---------------------------- MODULE DocumentCard ----------------------------
(***************************************************************************)
(* The document card of the session page (document-view.tsx,                *)
(* inline-editor.tsx) on the document of DocumentPath: the lines it draws,  *)
(* the addresses a selection stands for, the editor that takes the place of *)
(* a line, and the corrections it sends.                                    *)
(***************************************************************************)
EXTENDS DocumentPath

CONSTANTS
  Drafts,     \* lines that the requester types
  Label,      \* the word "[slot]" before an issue ...
  Assigned    \* ... and "assignee" behind it

ASSUME CardAssumption == {Label, Assigned} \subseteq Words /\ Drafts \subseteq Text

VARIABLES
  shown,   \* {the version on the screen}, or {} for a client without a card
  editor,  \* {the open editor}, or {}
  sent     \* {the correction on its way}, or {}

card == <<shown, editor, sent>>
cardVars == <<vars, card>>

Latest == [content |-> doc, number |-> version]

NoText == <<>>

----------------------------------------------------------------------------
(* Lines *)

Numbered(part, texts) == [i \in DOMAIN texts |-> [text |-> texts[i], path |-> Place(part, i)]]

Decorated(issue) == <<Label>> \o issue.question \o <<Assigned>>

(* documentLinesFromContent: the lines that have an address, in their order *)
Lines(content) ==
  Numbered("problem", <<content.problem>>)
    \o Numbered("users", content.users)
    \o Numbered("criteria", [i \in DOMAIN content.criteria |-> FormatGwt(content.criteria[i])])
    \o Numbered("issues", [i \in DOMAIN content.issues |-> Decorated(content.issues[i])])

(* the address of the one plain text has no number *)
Named(path) == IF path.part = "problem" THEN Place("problem", 0) ELSE path

(* pathsInRange, readSelectionPaths: every line that the range touches *)
PathsInRange(content, from, to) ==
  {Named(Lines(content)[i].path) : i \in {j \in DOMAIN Lines(content) : j \in from..to}}

(* commonArrayPath: lines of one list stand for the list, any other set for *)
(* its first element                                                         *)
EditTarget(content, paths) ==
  LET parts == {p.part : p \in paths}
      first == CHOOSE i \in DOMAIN Lines(content) :
                 /\ Named(Lines(content)[i].path) \in paths
                 /\ \A j \in 1..(i - 1) : Named(Lines(content)[j].path) \notin paths
  IN IF \E part \in {"users", "issues"} : parts = {part}
     THEN Place(CHOOSE part \in parts : TRUE, 0)
     ELSE Named(Lines(content)[first].path)

(* mutant: every line is taken for one of the list *)
Mut_Covered(content, p) ==
  {i \in DOMAIN Lines(content) : LineArray(p) \/ Named(Lines(content)[i].path) = p}

(* the lines that the editor of an address takes the place of *)
Covered(content, p) ==
  {i \in DOMAIN Lines(content) :
     LET path == Named(Lines(content)[i].path)
     IN path = p \/ (LineArray(p) /\ path.part = p.part)}

(* the text it starts from *)
Initial(content, p) ==
  LET at == InOrder(Lines(content), Covered(content, p))
  IN Joined([i \in DOMAIN at |-> Lines(content)[at[i]].text])

----------------------------------------------------------------------------
(* The requester *)

Quietly == UNCHANGED <<vars, shown, sent>>

(* the page's own instruction runs: act shows no card until it is done *)
Waiting == asked # {} \/ \E request \in sent : request.mode = "instruct"

(* an editor whose address is gone is not drawn; a click beside one that is *)
(* commits it first                                                          *)
Drawn(edit) == edit.line # 0
NoneDrawn == \A edit \in editor : ~Drawn(edit)

(* double click, or the link of a selection's popover: the line, or the list *)
(* that the selected lines belong to, becomes an editor (in an instance not  *)
(* at the last version)                                                      *)
StartInlineEdit == \E view \in shown : \E from, to \in DOMAIN Lines(view.content) :
  LET content == view.content
      p == EditTarget(content, PathsInRange(content, from, to))
  IN /\ from <= to /\ NoneDrawn /\ ~Waiting /\ version < MaxVersions
     /\ editor' = {[path |-> p, text |-> Initial(content, p), was |-> view.number,
                    line |-> Min(Covered(content, p)), typed |-> FALSE]}
     /\ Quietly

(* one line of the text is written anew, or one is added; once, which bounds *)
(* an instance                                                               *)
Type == \E edit \in editor, draft \in Drafts :
  \E i \in 1..(Len(Items(edit.text)) + 1) :
    LET items == Items(edit.text)
    IN /\ Drawn(edit) /\ ~edit.typed /\ version < MaxVersions
       /\ editor' = {[edit EXCEPT !.typed = TRUE, !.text =
                        Joined(IF i \in DOMAIN items THEN [items EXCEPT ![i] = draft]
                               ELSE Append(items, draft))]}
       /\ Quietly

Cancel == ~NoneDrawn /\ editor' = {} /\ Quietly

(* Enter, or a click outside: what is blank or as it was is not sent *)
Commit == \E edit \in editor, view \in shown :
  /\ Drawn(edit) /\ editor' = {}
  /\ IF Trim(edit.text) \in {NoText, Trim(Initial(view.content, edit.path))}
     THEN UNCHANGED sent
     ELSE /\ sent = {}
          /\ sent' = {[mode |-> "edit", paths |-> {edit.path}, text |-> Trim(edit.text),
                       was |-> edit.was]}
  /\ UNCHANGED <<vars, shown>>

(* an instruction about the selected lines *)
Submit == \E view \in shown : \E from, to \in DOMAIN Lines(view.content) :
  /\ from <= to /\ sent = {} /\ NoneDrawn /\ ~Waiting
  /\ sent' = {[mode |-> "instruct", paths |-> PathsInRange(view.content, from, to),
               text |-> NoText, was |-> view.number]}
  /\ editor' = {}
  /\ UNCHANGED <<vars, shown>>

----------------------------------------------------------------------------
(* The page and the server *)

(* the server performs the correction *)
Performed(request) ==
  IF request.mode = "edit" THEN Edit(request.paths, request.text) ELSE Instruct(request.paths)

Receive == \E request \in sent :
  /\ Performed(request)
  /\ sent' = {} /\ UNCHANGED <<shown, editor>>

(* refused, for an address that is gone or a text that does not fit; or lost *)
Reject == sent # {} /\ sent' = {} /\ UNCHANGED <<vars, shown, editor>>

(* An editor is a line of the card: it starts anew when its line has another *)
(* number, and is not drawn while its address does not exist.                *)
Redrawn(edit, view) ==
  LET at == Covered(view.content, edit.path)
  IN IF at = {} THEN [edit EXCEPT !.line = 0]
     ELSE IF Min(at) = edit.line THEN edit
     ELSE [edit EXCEPT !.text = Initial(view.content, edit.path), !.was = view.number, !.line = Min(at),
                       !.typed = FALSE]

(* refetch, behind whatever request of the page *)
Refetch ==
  /\ shown # {} /\ shown # {Latest}
  /\ shown' = {Latest}
  /\ editor' = {Redrawn(edit, Latest) : edit \in editor}
  /\ UNCHANGED <<vars, sent>>

(* the page waits for some work, and draws the card again *)
Remount ==
  /\ shown # {} /\ asked = {}
  /\ editor # {} \/ shown # {Latest}
  /\ editor' = {} /\ shown' = {Latest}
  /\ UNCHANGED <<vars, sent>>

(* deliveries, answers of the LLM and other clients, one of each *)
Elsewhere == UNCHANGED card /\
  \/ Next /\ shown = {}
  \/ /\ shown # {}
     /\ \/ \E output \in Outputs : version = 1 /\ Deliver(output)
        \/ \E job \in asked : \E p \in job.paths, draft \in Drafts : InstructDone([q \in {p} |-> draft])
        \/ \E draft \in Drafts : version = 1 /\ Edit({Place("users", 0)}, draft)

CardInit ==
  /\ Init
  /\ shown \in {{}, {Latest}} /\ (shown # {} => \A s \in Slots : rows[s] = NotPromoted)
  /\ editor = {} /\ sent = {}

CardNext ==
  \/ StartInlineEdit \/ Type \/ Cancel \/ Commit \/ Submit
  \/ Receive \/ Reject \/ Refetch \/ Remount \/ Elsewhere

CardSpec == CardInit /\ [][CardNext]_cardVars

----------------------------------------------------------------------------
CardTypeOK ==
  /\ TypeOK
  /\ \A view \in shown : view.content \in Content /\ view.number \in 1..version
  /\ \A edit \in editor : edit.path \in Address /\ edit.text \in Text /\ edit.was \in 1..version
  /\ \A request \in sent : request.paths \subseteq Address /\ request.text \in Text

(* An edit replaces what its editor stood for: sent over a document that is *)
(* still the one its editor opened on, it finds the addressed text as the    *)
(* screen showed it, and leaves every other element alone.  The addresses   *)
(* of lib/document.ts and those of document/path.ts are one grammar, kept in *)
(* two places.  (Of the open issues the screen shows more than their text.)  *)
EditReplacesWhatWasShown ==
  [][\A request \in sent :
       request.mode = "edit" /\ request.was = version /\ sent' = {} =>
         /\ \A p \in request.paths :
              Exists(doc, p) /\ (p.part # "issues" => Initial(doc, p) = Read(doc, p))
         /\ version' > version => SameOutside(doc, request.paths, doc')]_cardVars
=============================================================================
