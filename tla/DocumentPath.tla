---------------------------- MODULE DocumentPath ----------------------------
(***************************************************************************)
(* The content of a requirements document and its partial correction:      *)
(* the addresses of document/path.ts (readDocumentPath,                     *)
(* applyDocumentCorrections), the assembly of a version                     *)
(* (assembleRequirementsDocument) and the two operations of the runner that *)
(* write one (correctDocument, deliverDocument).                             *)
(*                                                                         *)
(* A text is a sequence of tokens: words, line ends, and the three marks of *)
(* "Given ... / When ... / Then ...".  The part "users" stands for the four *)
(* lists of lines, "problem" for the elements that are one plain text, and  *)
(* "criteria" for the Given-When-Then of all acceptance criteria.            *)
(***************************************************************************)
EXTENDS Integers, Sequences, FiniteSets, SequencesExt, Lists

CONSTANTS
  Words,        \* words of a text
  Texts,        \* texts that requesters and the LLM write
  Slots,        \* slot keys
  Assignees,    \* assignees of promoted slots, Nobody perhaps among them
  Nobody,       \* an open issue without an assignee
  NoSlot,       \* the slot key of an issue that a requester added
  NotPromoted,
  Question,     \* slot -> the question of its open issue when it is promoted
  Outputs,      \* documents that the LLM writes
  Edits,        \* sets of addresses that an edit names
  Instructions, \* sets of addresses that an instruction names
  Answers,      \* sets of addresses that the LLM replaces
  MaxVersions   \* bound of an instance: versions of the document

(* Addresses: an element of a part, or the whole part at 0 *)
Address == [part: {"problem", "users", "issues", "criteria"}, at: Nat]
Place(part, at) == [part |-> part, at |-> at]
LineArray(p) == p.part \in {"users", "issues"} /\ p.at = 0

Marks == {"Given", "When", "Then"}
Text == Seq(Words \cup Marks \cup {"nl"})
Says == Text \ {<<>>}

ASSUME PathAssumption ==
  /\ {"nl"} \cap (Words \cup Marks) = {} /\ Words \cap Marks = {}
  /\ Texts \subseteq Text /\ Question \in [Slots -> Says]
  /\ IsFiniteSet(Slots) /\ NoSlot \notin Slots /\ NotPromoted \notin Assignees \cup {Nobody}
  /\ MaxVersions \in Nat \ {0}
  \* no named address lies inside another, as the page sends them
  /\ \A paths \in Edits \cup Instructions : \A p, q \in paths :
       p \in Address /\ (p.part = q.part /\ LineArray(p) => p = q)

VARIABLES
  doc,      \* the content of the latest version
  version,
  rows,     \* slot -> NotPromoted, or the assignee of its row
  asked     \* the instruction that waits for its LLM call: addresses, content read

vars == <<doc, version, rows, asked>>

Issue == [slot: Slots \cup {NoSlot}, question: Says, assignee: Assignees \cup {Nobody}]
Gwt == [given: Says, when: Says, then: Says]
Content == [problem: Says, users: Seq(Says), issues: Seq(Issue), criteria: Seq(Gwt)]

(* the output schema of the LLM: texts are not empty, but may be blank       *)
ASSUME OutputsAssumption == Outputs \subseteq Content

----------------------------------------------------------------------------
(* Texts *)

Trim(text) ==
  LET solid == {i \in DOMAIN text : text[i] # "nl"}
  IN IF solid = {} THEN <<>> ELSE SubSeq(text, Min(solid), Max(solid))

(* the line of a text that starts at a place *)
Line(text, from) ==
  SubSeq(text, from, Max({to \in from..Len(text) : \A i \in from..to : text[i] # "nl"}))
Starts(text) == {i \in DOMAIN text : text[i] # "nl" /\ (i = 1 \/ text[i - 1] = "nl")}

(* linesToItems: the lines of a text that are not blank *)
Items(text) ==
  LET starts == InOrder(text, Starts(text))
  IN [k \in DOMAIN starts |-> Line(text, starts[k])]

(* join('\n') *)
Joined(items) ==
  LET text[n \in 0..Len(items)] ==
        IF n = 0 THEN <<>> ELSE IF n = 1 THEN items[1] ELSE text[n - 1] \o <<"nl">> \o items[n]
  IN  text[Len(items)]

(* formatGwt *)
FormatGwt(gwt) ==
  <<"Given">> \o gwt.given \o <<"When">> \o gwt.when \o <<"Then">> \o gwt.then

(* the places of "When" and "Then" at which GWT_PATTERN matches: three       *)
(* fields, none of them empty or with a line end inside                      *)
Cuts(text) ==
  LET Field(from, to) == Trim(SubSeq(text, from, to))
  IN {cut \in (DOMAIN text) \X (DOMAIN text) :
        /\ text[1] = "Given" /\ text[cut[1]] = "When" /\ text[cut[2]] = "Then"
        /\ \A field \in {Field(2, cut[1] - 1), Field(cut[1] + 1, cut[2] - 1),
                         Field(cut[2] + 1, Len(text))} :
             field # <<>> /\ "nl" \notin ToSet(field)}

(* parseGwt: the fields before the last are as short as they can be *)
ParseGwt(text) ==
  LET cut == CHOOSE c \in Cuts(text) :
               \A d \in Cuts(text) : c[1] < d[1] \/ (c[1] = d[1] /\ c[2] <= d[2])
  IN [given |-> Trim(SubSeq(text, 2, cut[1] - 1)),
      when |-> Trim(SubSeq(text, cut[1] + 1, cut[2] - 1)),
      then |-> Trim(SubSeq(text, cut[2] + 1, Len(text)))]

----------------------------------------------------------------------------
(* Addresses *)

(* readDocumentPath finds the address *)
Exists(content, p) ==
  CASE p.part = "problem"  -> p.at = 0
    [] p.part = "users"    -> p.at \in 0..Len(content.users)
    [] p.part = "issues"   -> p.at \in 0..Len(content.issues)
    [] p.part = "criteria" -> p.at \in DOMAIN content.criteria

Read(content, p) ==
  LET questions == [i \in DOMAIN content.issues |-> content.issues[i].question]
  IN CASE p.part = "problem"  -> content.problem
       [] p.part = "users"    -> IF p.at = 0 THEN Joined(content.users) ELSE content.users[p.at]
       [] p.part = "issues"   -> IF p.at = 0 THEN Joined(questions) ELSE questions[p.at]
       [] p.part = "criteria" -> FormatGwt(content.criteria[p.at])

(* mutant: a text of blanks passes *)
Mut_Accepts(p, text) == p.part = "criteria" => Cuts(Trim(text)) # {}

(* applyDocumentCorrections takes the text for the address *)
Accepts(p, text) ==
  /\ Trim(text) # <<>>
  /\ p.part = "criteria" => Cuts(Trim(text)) # {}

(* mutant: lines beyond the issues that are there are dropped *)
Mut_Relined(issues, questions) ==
  [i \in 1..(IF Len(questions) < Len(issues) THEN Len(questions) ELSE Len(issues)) |->
     [issues[i] EXCEPT !.question = questions[i]]]

(* the questions of the open issues, line by line *)
Relined(issues, questions) ==
  [i \in DOMAIN questions |->
     IF i \in DOMAIN issues THEN [issues[i] EXCEPT !.question = questions[i]]
     ELSE [slot |-> NoSlot, question |-> questions[i], assignee |-> Nobody]]

(* applyDocumentCorrections, of corrections (address -> text) it accepts.   *)
(* No address of a correction lies inside another.                           *)
Corrected(content, corrections) ==
  LET Named(p) == p \in DOMAIN corrections
      Put(p, old) == IF Named(p) THEN Trim(corrections[p]) ELSE old
      users == Place("users", 0)
      issues == Place("issues", 0)
  IN [problem |-> Put(Place("problem", 0), content.problem),
      users |-> IF Named(users) THEN Items(corrections[users])
                ELSE [i \in DOMAIN content.users |-> Put(Place("users", i), content.users[i])],
      issues |-> IF Named(issues) THEN Relined(content.issues, Items(corrections[issues]))
                 ELSE [i \in DOMAIN content.issues |->
                         [content.issues[i] EXCEPT !.question = Put(Place("issues", i), @)]],
      criteria |-> [i \in DOMAIN content.criteria |->
                      IF Named(Place("criteria", i))
                      THEN ParseGwt(Trim(corrections[Place("criteria", i)]))
                      ELSE content.criteria[i]]]

----------------------------------------------------------------------------
(* Versions *)

(* mutant: an issue that is there keeps its assignee *)
Mut_WithPromoted(issues, s) ==
  IF \E i \in DOMAIN issues : issues[i].slot = s THEN issues
  ELSE Append(issues, [slot |-> s, question |-> Question[s], assignee |-> rows[s]])

(* the first issue of a promoted slot gets its assignee, or one is added *)
WithPromoted(issues, s) ==
  LET mine == {i \in DOMAIN issues : issues[i].slot = s}
  IN IF mine # {} THEN [issues EXCEPT ![Min(mine)].assignee = rows[s]]
     ELSE Append(issues, [slot |-> s, question |-> Question[s], assignee |-> rows[s]])

(* assembleRequirementsDocument, with the slots in any order *)
Assembled(content, order) ==
  LET listed[n \in 0..Len(order)] ==
        IF n = 0 THEN content.issues ELSE WithPromoted(listed[n - 1], order[n])
  IN [content EXCEPT !.issues = listed[Len(order)]]

(* a new version is stored *)
Write(content) ==
  /\ version < MaxVersions
  /\ \E order \in SetToSeqs({s \in Slots : rows[s] # NotPromoted}) :
       doc' = Assembled(content, order)
  /\ version' = version + 1
  /\ UNCHANGED rows

(* deliverDocument, from the LLM's output.  No row is promoted or reopened   *)
(* during its call: what does either is a background operation, too.          *)
Deliver(output) ==
  /\ asked = {}
  /\ Write(output)
  /\ UNCHANGED asked

(* Judgements, promotions, denials: the rows of slots change. *)
Judge(table) ==
  /\ asked = {} /\ table # rows
  /\ rows' = table
  /\ UNCHANGED <<doc, version, asked>>

(* correctDocument by an edit: one text for every address, or nothing.      *)
(* (An instance leaves room for the version of a waiting instruction.)        *)
Edit(paths, text) ==
  /\ version + Cardinality(asked) < MaxVersions
  /\ \A p \in paths : Exists(doc, p) /\ Accepts(p, text)
  /\ Write(Corrected(doc, [p \in paths |-> text]))
  /\ UNCHANGED asked

(* correctDocument by an instruction, to its LLM call *)
Instruct(paths) ==
  /\ asked = {} /\ version < MaxVersions
  /\ \A p \in paths : Exists(doc, p)
  /\ asked' = {[paths |-> paths, content |-> doc]}
  /\ UNCHANGED <<doc, version, rows>>

(* mutant: what the LLM was not asked for is not filtered out *)
Mut_Allowed(replacements, paths) == replacements

(* the replacements of addresses that were named *)
Allowed(replacements, paths) == Restrict(replacements, paths \cap DOMAIN replacements)

(* ... and after it, on the content read before: a new version, nothing     *)
(* when no replacement is left, an exception when one is not accepted        *)
InstructDone(replacements) ==
  \E job \in asked :
    LET corrections == Allowed(replacements, job.paths)
    IN /\ asked' = {}
       /\ IF corrections # <<>>
             /\ \A p \in DOMAIN corrections :
                  Exists(job.content, p) /\ Accepts(p, corrections[p])
          THEN Write(Corrected(job.content, corrections))
          ELSE UNCHANGED <<doc, version, rows>>

----------------------------------------------------------------------------
Init ==
  /\ rows \in [Slots -> Assignees \cup {NotPromoted}]
  /\ \E output \in Outputs, order \in SetToSeqs({s \in Slots : rows[s] # NotPromoted}) :
       doc = Assembled(output, order)
  /\ version = 1 /\ asked = {}

Next ==
  \/ \E output \in Outputs : Deliver(output)
  \/ \E table \in [Slots -> Assignees \cup {NotPromoted}] : Judge(table)
  \/ \E paths \in Edits, text \in Texts : Edit(paths, text)
  \/ \E paths \in Instructions : Instruct(paths)
  \/ \E paths \in Answers : \E replacements \in [paths -> Texts] : InstructDone(replacements)

Spec == Init /\ [][Next]_vars

----------------------------------------------------------------------------
Elements(content) ==
  {Place("problem", 0)} \cup {Place("users", i) : i \in DOMAIN content.users}
    \cup {Place("issues", i) : i \in DOMAIN content.issues}
    \cup {Place("criteria", i) : i \in DOMAIN content.criteria}

(* what is not written by a requester *)
Generated ==
  {Question[s] : s \in Slots}
    \cup UNION {{Read(output, p) : p \in Elements(output)} : output \in Outputs}

(* Every text of a document says something, and is trimmed unless the LLM or *)
(* a slot gave it as it is.                                                   *)
TypeOK ==
  /\ doc \in Content /\ version \in 1..MaxVersions
  /\ rows \in [Slots -> Assignees \cup {NotPromoted}]
  /\ \A job \in asked : job.content \in Content /\ \A p \in job.paths : Exists(job.content, p)
  /\ \A p \in Elements(doc) : Read(doc, p) = Trim(Read(doc, p)) \/ Read(doc, p) \in Generated

(* Every version lists every promoted slot with the assignee of its row,     *)
(* whatever the LLM wrote and whichever lines an edit took out               *)
(* (assembleRequirementsDocument, by code and not by prompt).                 *)
PromotedIsListed ==
  [][version' > version =>
       \A s \in Slots : rows[s] # NotPromoted =>
         \E i \in DOMAIN doc'.issues : /\ doc'.issues[i].slot = s
                                       /\ doc'.issues[i].assignee = rows[s]]_vars

(* What stands outside the named addresses reads as it read before: of the  *)
(* document for an edit, of the document it was asked for an instruction     *)
(* (applyDocumentCorrections, ADR-0016).                                      *)
SameOutside(before, paths, after) ==
  \A p \in Elements(before) :
    p \notin paths /\ Place(p.part, 0) \notin paths
      => p \in Elements(after) /\ Read(after, p) = Read(before, p)
NamedOnly ==
  [][version' > version =>
       /\ \A paths \in Edits, text \in Texts : Edit(paths, text) => SameOutside(doc, paths, doc')
       /\ \A job \in asked : asked' = {} => SameOutside(job.content, job.paths, doc')]_vars

(* The text of an edit stands in its place as it was written, but for blank *)
(* lines: an element is that text, a list has its lines, and the issues may *)
(* be followed by those of promoted slots (path.ts, its first comment).      *)
WrittenStands ==
  [][\A paths \in Edits, text \in Texts :
       version' > version /\ Edit(paths, text) =>
         \A p \in paths :
           LET read == Read(doc', p)
               written == Only(text, Words \cup Marks)
           IN CASE p.part = "criteria" -> read = written
                [] p.part = "users" /\ LineArray(p) -> Items(read) = Items(text)
                [] p.part = "issues" /\ LineArray(p) -> IsPrefix(Items(text), Items(read))
                [] OTHER -> read = Trim(text)]_vars
=============================================================================
