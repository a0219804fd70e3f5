---------------------------- MODULE IntakeRunner ----------------------------
(***************************************************************************)
(* One intake session as src/runner/core-runner.ts drives it.              *)
(*                                                                         *)
(* An operation of IntakeRunner is a run of synchronous store writes       *)
(* between two awaits.  The awaits that really suspend it are the LLM      *)
(* calls; everything up to the next LLM call is one action here, and what  *)
(* the code read before the call and uses after it is a field of the job   *)
(* that waits.  An adapter (WebIntake) decides which requests reach these  *)
(* operations, so no bound and no gate stands in this module.              *)
(***************************************************************************)
EXTENDS Naturals, Sequences, FiniteSets, FiniteSetsExt

CONSTANTS
  Workers,        \* background operations that may wait for an LLM at a time
  Slots,          \* keys of the required slots (TEMP_REQUIRED_SLOTS)
  Paths,          \* addresses of document elements
  Themes,         \* ids of the registered design systems
  MaxRounds,      \* clarification rounds granted per budget (maxRounds)
  MaxIterations,  \* mockup regenerations granted per segment
  UiAnswers       \* answers the UI classification may give

ASSUME RunnerAssumption ==
  /\ MaxRounds \in Nat \ {0}
  /\ MaxIterations \in Nat \ {0}
  /\ UiAnswers \subseteq {"yes", "no"}
  /\ "none" \notin Themes
  /\ "delegated" \notin Themes
  /\ Workers # {} /\ Slots # {}

VARIABLES
  (* the session row and its signals *)
  status,       \* "absent" until the row exists
  roundCount,   \* session.roundCount
  resumes,      \* number of session_resumed signals
  slots,        \* state and requester confirmation of each required slot
  (* the transcript, as far as decisions read it *)
  asked,        \* number of clarification_round signals; names the latest
  answered,     \* a requester utterance follows the latest round's questions
  said,         \* the last utterance: "agent", or a requester's "reply"/"comment"
  (* the document *)
  docVersion,   \* version of the latest requirements_doc row, 0 without one
  text,         \* per element, the version that wrote the text it holds
  visual,       \* visualDirection of the latest document
  completed,    \* versions with a session_completed signal
  (* the mockup stage *)
  isUi,         \* session.isUiRequest
  mockups,      \* the mockup rows, oldest first
  (* in memory *)
  jobs          \* what each worker waits for

dialogue == <<status, roundCount, resumes, asked, answered, said>>
document == <<docVersion, text, visual, completed>>
stage    == <<isUi, mockups>>
runnerVars == <<dialogue, slots, document, stage, jobs>>

Directions == Themes \cup {"delegated", "none"}
SlotRow    == [state: {"filled", "unfilled", "promoted"}, confirmed: BOOLEAN]
Mockup     == [doc: Nat,       \* docVersion column
               read: Nat,      \* version of the document its generation was given
               convergence: {"iterating", "approved", "escalated"},
               theme: Directions]
Texts      == [Paths -> Nat]

Ops == {"idle", "question", "judge", "promote", "document", "classify",
        "draw", "redraw", "instruct", "approve"}
Job == [op: Ops,
        correction: BOOLEAN,   \* options.correction of the round
        count: Nat,            \* roundCount read at the start of the round
        gap: SUBSET Slots,     \* unfilled slots sent to the promotion judge
        doc: Nat,              \* document version the mockup will be mapped to
        read: Nat,             \* document version given to the LLM
        base: Texts,           \* document content given to the LLM
        paths: SUBSET Paths,   \* addressed elements
        dir: Directions,       \* visual direction read with the content
        mock: Nat]             \* mockup being approved

Blank == [p \in Paths |-> 0]
Empty == [state |-> "unfilled", confirmed |-> FALSE]
Idle  == [op |-> "idle", correction |-> FALSE, count |-> 0, gap |-> {},
          doc |-> 0, read |-> 0, base |-> Blank, paths |-> {}, dir |-> "none",
          mock |-> 0]

Busy(w) == jobs[w].op # "idle"
Wait(w, job) == jobs' = [jobs EXCEPT ![w] = job]
Finish(w)    == Wait(w, Idle)

-----------------------------------------------------------------------------
(* The transcript.  A requester utterance answers the latest round,        *)
(* whatever wrote it (isAnswered compares sequence numbers only).           *)

RequesterSays(kind) == said' = kind /\ answered' = TRUE
AgentSays           == said' = "agent" /\ UNCHANGED answered
Exchange            == said' = "agent" /\ answered' = TRUE

-----------------------------------------------------------------------------
(* Clarification rounds *)

RoundBudget == MaxRounds * (1 + resumes)

QuestionJob(correction, count) ==
  [Idle EXCEPT !.op = "question", !.correction = correction, !.count = count]

StartClarification(w) ==
  /\ status \in {"intake", "clarifying"}
  /\ Wait(w, QuestionJob(FALSE, roundCount))
  /\ UNCHANGED <<dialogue, slots, document, stage>>

OpenSession(w) ==
  /\ status = "absent"
  /\ status' = "intake"
  /\ RequesterSays("reply")
  /\ Wait(w, QuestionJob(FALSE, roundCount))
  /\ UNCHANGED <<roundCount, resumes, asked, slots, document, stage>>

(* attachUploads refuses after the session and its utterance are written *)
OpenSessionRefused ==
  /\ status = "absent"
  /\ status' = "intake"
  /\ RequesterSays("reply")
  /\ UNCHANGED <<roundCount, resumes, asked, slots, document, stage, jobs>>

QuestionDone(w) ==
  /\ jobs[w].op = "question"
  /\ asked' = asked + 1
  /\ said' = "agent"
  /\ answered' = FALSE
  /\ status' = "clarifying"
  /\ roundCount' = IF jobs[w].correction THEN roundCount ELSE jobs[w].count + 1
  /\ Finish(w)
  /\ UNCHANGED <<resumes, slots, document, stage>>

-----------------------------------------------------------------------------
(* Judgement of a reply (processReply) *)

JudgeJob(correction) ==
  [Idle EXCEPT !.op = "judge", !.correction = correction, !.count = roundCount]

Resume ==
  IF status = "closed"
  THEN status' = "clarifying" /\ resumes' = resumes + 1
  ELSE UNCHANGED <<status, resumes>>

(* a plain reply to a published document gets the guide, not a judgement,   *)
(* and nothing when the files that come with it are refused                 *)
Guide(append) ==
  /\ status \in {"documented", "mockup"}
  /\ \/ IF append THEN Exchange ELSE AgentSays
     \/ append /\ RequesterSays("reply")
  /\ UNCHANGED <<status, roundCount, resumes, asked, document, stage, jobs>>

Judge(w, correction, append) ==
  /\ status # "absent"
  /\ status \in {"documented", "mockup"} => correction
  /\ Resume
  /\ IF append THEN RequesterSays("reply") ELSE UNCHANGED <<said, answered>>
  /\ Wait(w, JudgeJob(correction))
  /\ UNCHANGED <<roundCount, asked, document, stage>>

ProcessReply(w, correction, append) ==
  \/ Guide(append) /\ ~correction
  \/ Judge(w, correction, append)

HandleReply(w) == ProcessReply(w, FALSE, TRUE) /\ UNCHANGED slots

(* verdicts the judge may return; a required slot may be left out *)
Verdicts == [Slots -> {"filled", "unfilled", "promoted", "omitted"}]

Judged(verdict) ==
  [s \in Slots |-> IF verdict[s] = "omitted" THEN slots[s]
                   ELSE [state |-> verdict[s], confirmed |-> FALSE]]

Gap(table) == {s \in Slots : table[s].state = "unfilled"}

(* mutant: the budget test is off by one *)
Mut_NextStageBudget(job, table, highScore) ==
  LET passed == Gap(table) = {}
  IN  CASE passed /\ highScore -> [Idle EXCEPT !.op = "document"]
        [] ~(passed /\ highScore) /\ (job.correction \/ job.count <= RoundBudget) ->
             QuestionJob(job.correction, roundCount)
        [] ~job.correction /\ job.count > RoundBudget ->
             [Idle EXCEPT !.op = "promote", !.gap = Gap(table)]

(* mutant: a high score hides a gap the rule layer found *)
Mut_NextStageRule(job, table, highScore) ==
  CASE highScore -> [Idle EXCEPT !.op = "document"]
    [] ~highScore /\ (job.correction \/ job.count < RoundBudget) ->
         QuestionJob(job.correction, roundCount)
    [] ~highScore /\ ~job.correction /\ job.count >= RoundBudget ->
         [Idle EXCEPT !.op = "promote", !.gap = Gap(table)]

(* where a judgement leads: the rule layer is "no required slot unfilled",  *)
(* highScore the rubric against its threshold                               *)
NextStage(job, table, highScore) ==
  LET passed == Gap(table) = {}
      DocumentJob == [Idle EXCEPT !.op = "document"]
  IN  CASE passed /\ highScore -> DocumentJob
        [] job.correction /\ ~(passed /\ highScore) -> QuestionJob(TRUE, roundCount)
        [] ~job.correction /\ ~(passed /\ highScore) ->
             CASE job.count < RoundBudget -> QuestionJob(FALSE, roundCount)
               [] job.count >= RoundBudget /\ passed -> DocumentJob
               [] job.count >= RoundBudget /\ ~passed ->
                    [Idle EXCEPT !.op = "promote", !.gap = Gap(table)]

JudgeDone(w) ==
  /\ jobs[w].op = "judge"
  /\ \E verdict \in Verdicts, highScore \in BOOLEAN :
       /\ \E s \in Slots : verdict[s] # "omitted"
       /\ slots' = Judged(verdict)
       /\ Wait(w, NextStage(jobs[w], Judged(verdict), highScore))
  /\ UNCHANGED <<dialogue, document, stage>>

(* mutant: what can be promoted is promoted, even if a gap remains *)
Mut_Promoted(gap, promotable) ==
  [s \in Slots |-> IF s \in promotable
                   THEN [state |-> "promoted", confirmed |-> FALSE]
                   ELSE slots[s]]

(* judgeCapReached: slots are touched only if every gap can be promoted *)
Promoted(gap, promotable) ==
  [s \in Slots |-> IF s \in gap /\ promotable = gap
                   THEN [state |-> "promoted", confirmed |-> FALSE]
                   ELSE slots[s]]

(* the reason is posted, then the session closes as on hold *)
Hold(w) ==
  /\ status' = "closed"
  /\ AgentSays
  /\ Finish(w)
  /\ UNCHANGED <<roundCount, resumes, asked>>

PromoteDone(w) ==
  /\ jobs[w].op = "promote"
  /\ \E promotable \in SUBSET jobs[w].gap :
       LET table == Promoted(jobs[w].gap, promotable)
       IN  /\ slots' = table
           /\ IF promotable = jobs[w].gap /\ Gap(table) = {}
              THEN Wait(w, [Idle EXCEPT !.op = "document"]) /\ UNCHANGED dialogue
              ELSE Hold(w)
  /\ UNCHANGED <<document, stage>>

-----------------------------------------------------------------------------
(* The document *)

(* recordCompletion for a version and a slot table *)
Completion(version, table) ==
  IF version > 0 /\ \A s \in Slots : table[s].state = "filled" => table[s].confirmed
  THEN completed \cup {version}
  ELSE completed

Latest == mockups[Len(mockups)]
Open   == mockups # <<>> /\ Latest.convergence = "iterating"

DrawJob(version, current) ==
  [Idle EXCEPT !.op = "draw", !.doc = version, !.read = current]

(* enterMockupStage, with the status the session has when it is entered *)
EnterMockupStage(w, ui, settled, version, current) ==
  /\ status' = IF ui = "yes" /\ Open THEN "mockup" ELSE settled
  /\ Wait(w, CASE ui = "unknown" -> [Idle EXCEPT !.op = "classify", !.doc = version]
               [] ui = "yes" /\ mockups = <<>> -> DrawJob(version, current)
               [] OTHER -> Idle)

(* deliverDocument: every element is written anew, without a direction *)
DocumentDone(w) ==
  /\ jobs[w].op = "document"
  /\ docVersion' = docVersion + 1
  /\ text' = [p \in Paths |-> docVersion + 1]
  /\ visual' = "none"
  /\ completed' = Completion(docVersion + 1, slots)
  /\ AgentSays
  /\ EnterMockupStage(w, isUi, "documented", docVersion + 1, docVersion + 1)
  /\ UNCHANGED <<roundCount, resumes, asked, slots, stage>>

ClassifyDone(w) ==
  /\ jobs[w].op = "classify"
  /\ \E ui \in UiAnswers :
       /\ isUi' = ui
       /\ EnterMockupStage(w, ui, status, jobs[w].doc, docVersion)
  /\ UNCHANGED <<roundCount, resumes, asked, answered, said, slots, document, mockups>>

Rewrite(base, paths) ==
  [p \in Paths |-> IF p \in paths THEN docVersion + 1 ELSE base[p]]

(* correctDocument, mode edit: no LLM, at any status *)
EditDocument(paths) ==
  /\ docVersion > 0
  /\ paths # {}
  /\ docVersion' = docVersion + 1
  /\ text' = Rewrite(text, paths)
  /\ Exchange
  /\ UNCHANGED <<status, roundCount, resumes, asked, slots, visual, completed, stage, jobs>>

(* correctDocument, mode instruct: the content is read before the LLM call *)
InstructDocument(w, paths) ==
  /\ docVersion > 0
  /\ paths # {}
  /\ Wait(w, [Idle EXCEPT !.op = "instruct", !.base = text, !.paths = paths, !.dir = visual])
  /\ UNCHANGED <<dialogue, slots, document, stage>>

InstructDone(w) ==
  /\ jobs[w].op = "instruct"
  /\ \E applied \in SUBSET jobs[w].paths :
       IF applied = {}
       THEN UNCHANGED <<docVersion, text, visual, said, answered>>
       ELSE /\ docVersion' = docVersion + 1
            /\ text' = Rewrite(jobs[w].base, applied)
            /\ visual' = jobs[w].dir
            /\ Exchange
  /\ Finish(w)
  /\ UNCHANGED <<status, roundCount, resumes, asked, slots, completed, stage>>

-----------------------------------------------------------------------------
(* Confirmation and correction of a slot *)

Reviewable == status \in {"documented", "mockup"}

ConfirmSlot(s) ==
  /\ Reviewable
  /\ slots' = [slots EXCEPT ![s].confirmed = TRUE]
  /\ completed' = Completion(docVersion, slots')
  /\ UNCHANGED <<dialogue, docVersion, text, visual, stage, jobs>>

DenySlot(w, s) ==
  /\ Reviewable
  /\ slots' = [slots EXCEPT ![s] = Empty]
  /\ Judge(w, TRUE, TRUE)

(* ... or, with a text that is too long, ends behind its first write *)
DenialTooLong(s) ==
  /\ Reviewable
  /\ slots' = [slots EXCEPT ![s] = Empty]
  /\ UNCHANGED <<dialogue, document, stage, jobs>>

-----------------------------------------------------------------------------
(* The mockup stage *)

Closed(m) == m.convergence \in {"approved", "escalated"}

(* mockupIterationsUsed: versions since the last closed one; the first      *)
(* version of the first segment was not asked for                           *)
IterationsUsed ==
  LET closed == {i \in DOMAIN mockups : Closed(mockups[i])}
  IN  IF closed # {} THEN Len(mockups) - Max(closed)
      ELSE IF mockups = <<>> THEN 0 ELSE Len(mockups) - 1

NewMockup(job) ==
  [doc |-> job.doc, read |-> job.read, convergence |-> "iterating", theme |-> "none"]

DrawDone(w) ==
  /\ jobs[w].op \in {"draw", "redraw"}
  /\ mockups' = Append(mockups, NewMockup(jobs[w]))
  /\ status' = IF jobs[w].op = "draw" THEN "mockup" ELSE status
  /\ AgentSays
  /\ Finish(w)
  /\ UNCHANGED <<roundCount, resumes, asked, slots, document, isUi>>

(* mutant: an escalation leaves the session in the mockup stage *)
Mut_Escalate ==
  /\ IterationsUsed >= MaxIterations
  /\ mockups' = [mockups EXCEPT ![Len(mockups)].convergence = "escalated"]
  /\ Exchange
  /\ UNCHANGED <<status, jobs>>

(* annotateMockup at the end of the budget: close the segment unconverged *)
Escalate ==
  /\ IterationsUsed >= MaxIterations
  /\ mockups' = [mockups EXCEPT ![Len(mockups)].convergence = "escalated"]
  /\ status' = "documented"
  /\ Exchange
  /\ UNCHANGED jobs

(* mutant: one regeneration more than the budget *)
Mut_Redraw(w) ==
  /\ IterationsUsed <= MaxIterations
  /\ RequesterSays("comment")
  /\ Wait(w, [Idle EXCEPT !.op = "redraw", !.doc = docVersion, !.read = docVersion])
  /\ UNCHANGED <<status, mockups>>

Redraw(w) ==
  /\ IterationsUsed < MaxIterations
  /\ RequesterSays("comment")
  /\ Wait(w, [Idle EXCEPT !.op = "redraw", !.doc = docVersion, !.read = docVersion])
  /\ UNCHANGED <<status, mockups>>

AnnotateMockup(w) ==
  /\ mockups # <<>>
  /\ Escalate \/ Redraw(w)
  /\ UNCHANGED <<roundCount, resumes, asked, slots, document, isUi>>

(* mutant: a closed mockup still takes a theme *)
Mut_SelectMockupTheme(choice) ==
  /\ mockups # <<>>
  /\ choice \in Directions \ {"none"}
  /\ mockups' = [mockups EXCEPT ![Len(mockups)].theme = choice]
  /\ AgentSays
  /\ UNCHANGED <<status, roundCount, resumes, asked, slots, document, isUi, jobs>>

SelectMockupTheme(choice) ==
  /\ Open
  /\ choice \in Directions \ {"none"}
  /\ mockups' = [mockups EXCEPT ![Len(mockups)].theme = choice]
  /\ AgentSays
  /\ UNCHANGED <<status, roundCount, resumes, asked, slots, document, isUi, jobs>>

(* mutant: a mockup is approved before a direction was chosen *)
Mut_ApproveMockup(w) ==
  /\ Open
  /\ Wait(w, [Idle EXCEPT !.op = "approve", !.base = text, !.dir = Latest.theme,
                          !.mock = Len(mockups)])
  /\ UNCHANGED <<dialogue, slots, document, stage>>

(* approveMockup: theme and document content are read before the LLM call *)
ApproveMockup(w) ==
  /\ Open
  /\ Latest.theme # "none"
  /\ Wait(w, [Idle EXCEPT !.op = "approve", !.base = text, !.dir = Latest.theme,
                          !.mock = Len(mockups)])
  /\ UNCHANGED <<dialogue, slots, document, stage>>

ApproveDone(w) ==
  /\ jobs[w].op = "approve"
  /\ \E absorbed \in SUBSET Paths : text' = Rewrite(jobs[w].base, absorbed)
  /\ docVersion' = docVersion + 1
  /\ visual' = jobs[w].dir
  /\ mockups' = [mockups EXCEPT ![jobs[w].mock].convergence = "approved"]
  /\ status' = "documented"
  /\ completed' = Completion(docVersion + 1, slots)
  /\ AgentSays
  /\ Finish(w)
  /\ UNCHANGED <<roundCount, resumes, asked, slots, isUi>>

-----------------------------------------------------------------------------
(* Failure, retry, restart *)

(* an LLM call throws: the operation ends where it waited *)
Fail(w) ==
  /\ Busy(w)
  /\ Finish(w)
  /\ UNCHANGED <<dialogue, slots, document, stage>>

(* a restart forgets what only memory held *)
Restart ==
  /\ jobs' = [w \in Workers |-> Idle]
  /\ UNCHANGED <<dialogue, slots, document, stage>>

(* mutant: only the first round can be retried *)
Mut_PendingFirst ==
  CASE status = "intake" -> "clarification"
    [] status = "documented" /\ isUi = "yes" /\ mockups = <<>> -> "mockup"
    [] OTHER -> "none"

(* mutant: a retry does not ask who spoke last *)
Mut_PendingAlways ==
  CASE status = "intake" -> "clarification"
    [] status \in {"absent", "closed"} -> "none"
    [] status = "documented" /\ isUi = "yes" /\ mockups = <<>> -> "mockup"
    [] OTHER -> "judgement"

(* mutant: nothing is pending once a document exists *)
Mut_PendingCorrection ==
  CASE status = "intake" -> "clarification"
    [] status \in {"absent", "closed"} \/ docVersion > 0 -> "none"
    [] OTHER -> IF said = "agent" THEN "none" ELSE "judgement"

PendingRound ==
  CASE status = "intake" -> "clarification"
    [] status \in {"absent", "closed"} -> "none"
    [] status = "documented" /\ isUi = "yes" /\ mockups = <<>> -> "mockup"
    [] OTHER -> IF said = "agent" THEN "none" ELSE "judgement"

RetryMockup(w) ==
  /\ EnterMockupStage(w, isUi, status, docVersion, docVersion)
  /\ UNCHANGED <<roundCount, resumes, asked, answered, said, slots, document, stage>>

RetryJudgement(w) ==
  /\ ProcessReply(w, status = "documented", FALSE)
  /\ UNCHANGED slots

RetryRound(w) ==
  \/ PendingRound = "clarification" /\ StartClarification(w)
  \/ PendingRound = "mockup" /\ RetryMockup(w)
  \/ PendingRound = "judgement" /\ RetryJudgement(w)

JobDone(w) ==
  \/ QuestionDone(w) \/ JudgeDone(w) \/ PromoteDone(w)
  \/ DocumentDone(w) \/ InstructDone(w)
  \/ ClassifyDone(w) \/ DrawDone(w) \/ ApproveDone(w)

RunnerInit ==
  /\ status = "absent" /\ roundCount = 0 /\ resumes = 0
  /\ slots = [s \in Slots |-> Empty]
  /\ asked = 0 /\ answered = FALSE /\ said = "agent"
  /\ docVersion = 0 /\ text = Blank /\ visual = "none" /\ completed = {}
  /\ isUi = "unknown" /\ mockups = <<>>
  /\ jobs = [w \in Workers |-> Idle]

RunnerTypeOK ==
  /\ status \in {"absent", "intake", "clarifying", "documented", "mockup", "closed"}
  /\ roundCount \in Nat /\ resumes \in Nat /\ asked \in Nat
  /\ slots \in [Slots -> SlotRow]
  /\ answered \in BOOLEAN /\ said \in {"agent", "reply", "comment"}
  /\ docVersion \in Nat /\ text \in Texts /\ visual \in Directions
  /\ completed \subseteq 1..docVersion
  /\ isUi \in {"unknown", "yes", "no"}
  /\ mockups \in Seq(Mockup)
  /\ jobs \in [Workers -> Job]
=============================================================================
