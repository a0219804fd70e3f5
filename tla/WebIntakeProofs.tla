-------------------------- MODULE WebIntakeProofs --------------------------
(***************************************************************************)
(* Theorems about an intake session behind the web adapter, for every set  *)
(* of workers, slots, paths and themes and for every bound.                *)
(*                                                                         *)
(* The argument of all of them: one background operation at a time, so     *)
(* that what an operation read before its LLM call and relies on after it  *)
(* (JobOK) is disturbed by nothing but edits, confirmations and theme      *)
(* choices, which leave it alone.                                          *)
(***************************************************************************)
EXTENDS MCWebIntake, SequenceTheorems, WellFoundedInduction, TLAPS

SingleFlight == \A v, w \in Workers : Busy(v) /\ Busy(w) => v = w

(* What a waiting operation may rely on when its LLM call returns.          *)
JobOK(job) ==
  /\ job.op = "question" /\ ~job.correction => job.count = roundCount /\ roundCount < RoundBudget
  /\ job.op = "judge" => job.count = roundCount
  /\ job.op = "promote" => roundCount >= RoundBudget /\ job.gap = Gap(slots) /\ job.gap # {}
  /\ job.op = "document" => Gap(slots) = {}
  /\ job.op = "classify" => isUi = "unknown" /\ docVersion > 0 /\ status = "documented"
  /\ job.op = "draw" => isUi = "yes"
  /\ job.op \in {"draw", "redraw"} => docVersion > 0
  /\ job.op = "approve" => job.mock \in DOMAIN mockups /\ mockups # <<>>

JobsOK == \A w \in Workers : JobOK(jobs[w])

(* No round is counted before the first question, and a mockup needs a      *)
(* document.                                                                *)
EarlyOK ==
  /\ status \in {"absent", "intake"} => roundCount = 0
  /\ mockups # <<>> => docVersion > 0

(* Before its row exists nothing is known of a session.                     *)
AbsentOK == status = "absent" => docVersion = 0 /\ \A w \in Workers : ~Busy(w)

Kept == SingleFlight /\ JobsOK /\ EarlyOK /\ RoundsWithinBudget /\ StatusMatchesStore
IInv == TypeOK /\ Kept /\ AbsentOK

-----------------------------------------------------------------------------
(* Every job an operation starts is a job.                                  *)
LEMMA IdleIsJob == Idle \in Job /\ Blank \in Texts
  BY RunnerAssumption DEF Idle, Job, Ops, Blank, Texts, Directions

(* A worker that is given a job keeps the table of jobs well typed.         *)
LEMMA WaitTypes ==
  ASSUME NEW w \in Workers, NEW job \in Job, jobs \in [Workers -> Job], Wait(w, job)
  PROVE  jobs' \in [Workers -> Job] /\ jobs'[w] = job /\ \A v \in Workers \ {w} : jobs'[v] = jobs[v]
  BY DEF Wait

(* The operation that holds the background, or takes it while it is free,   *)
(* is the only one in flight afterwards.                                    *)
LEMMA WaitAlone ==
  ASSUME NEW w \in Workers, NEW job \in Job, jobs \in [Workers -> Job], SingleFlight,
         Busy(w) \/ Background(w), Wait(w, job)
  PROVE  SingleFlight' /\ (JobsOK' <=> JobOK(job)')
<1>1. jobs'[w] = job /\ \A v \in Workers \ {w} : jobs'[v] = jobs[v] /\ jobs[v].op = "idle"
  BY WaitTypes DEF Background, SingleFlight, Busy
<1>2. SingleFlight'
  BY <1>1 DEF SingleFlight, Busy
<1>3. \A v \in Workers \ {w} : JobOK(jobs[v])'
  BY <1>1 DEF JobOK
<1>4. JobOK(jobs[w])' <=> JobOK(job)'
  BY <1>1 DEF JobOK
<1> QED
  BY <1>2, <1>3, <1>4 DEF JobsOK

-----------------------------------------------------------------------------
(* The jobs that operations start are jobs.                                 *)
LEMMA QuestionJobType ==
  ASSUME NEW correction \in BOOLEAN, NEW count \in Nat
  PROVE  QuestionJob(correction, count) \in Job
  BY IdleIsJob DEF QuestionJob, Idle, Job, Ops

(* The judgement call remembers the round count it read.                    *)
LEMMA JudgeJobType ==
  ASSUME NEW correction \in BOOLEAN, roundCount \in Nat
  PROVE  JudgeJob(correction) \in Job
  BY IdleIsJob DEF JudgeJob, Idle, Job, Ops

(* So do the drawing of a mockup and the UI classification before it.       *)
LEMMA DrawJobType ==
  ASSUME NEW version \in Nat, NEW current \in Nat
  PROVE  DrawJob(version, current) \in Job /\ [Idle EXCEPT !.op = "classify", !.doc = version] \in Job
  BY IdleIsJob DEF DrawJob, Idle, Job, Ops

(* Resumptions only add to the round budget.                                *)
LEMMA BudgetType == resumes \in Nat => RoundBudget \in Nat
  BY RunnerAssumption DEF RoundBudget

(* What a judgement leads to, as a choice of cases.                         *)
LEMMA NextStageCases ==
  ASSUME NEW job \in Job, NEW table, NEW highScore \in BOOLEAN, resumes \in Nat
  PROVE  \/ /\ Gap(table) = {}
            /\ NextStage(job, table, highScore) = [Idle EXCEPT !.op = "document"]
         \/ /\ job.correction
            /\ NextStage(job, table, highScore) = QuestionJob(TRUE, roundCount)
         \/ /\ job.count < RoundBudget
            /\ NextStage(job, table, highScore) = QuestionJob(FALSE, roundCount)
         \/ /\ job.count >= RoundBudget /\ Gap(table) # {}
            /\ NextStage(job, table, highScore) = [Idle EXCEPT !.op = "promote", !.gap = Gap(table)]
<1>1. job.correction \in BOOLEAN /\ job.count \in Nat /\ RoundBudget \in Nat
  BY BudgetType DEF Job
<1>2. job.count < RoundBudget <=> ~(job.count >= RoundBudget)
  BY <1>1
<1>3. CASE Gap(table) = {} /\ highScore
  BY <1>3 DEF NextStage
<1>4. CASE job.correction /\ ~(Gap(table) = {} /\ highScore)
  BY <1>1, <1>4 DEF NextStage
<1>5. CASE ~job.correction /\ ~(Gap(table) = {} /\ highScore)
  BY <1>1, <1>2, <1>5 DEF NextStage
<1> QED
  BY <1>1, <1>3, <1>4, <1>5

(* Whatever a judgement leads to is a job.                                  *)
LEMMA NextStageType ==
  ASSUME NEW job \in Job, NEW table \in [Slots -> SlotRow], NEW highScore \in BOOLEAN,
         roundCount \in Nat, resumes \in Nat
  PROVE  NextStage(job, table, highScore) \in Job
<1>1. [Idle EXCEPT !.op = "document"] \in Job
  BY IdleIsJob DEF Idle, Job, Ops
<1>2. Gap(table) \in SUBSET Slots
  BY DEF Gap
<1>3. [Idle EXCEPT !.op = "promote", !.gap = Gap(table)] \in Job
  BY <1>2, IdleIsJob DEF Idle, Job, Ops
<1>4. QuestionJob(TRUE, roundCount) \in Job /\ QuestionJob(FALSE, roundCount) \in Job
  BY QuestionJobType
<1>5. NextStage(job, table, highScore) \in
        {[Idle EXCEPT !.op = "document"], QuestionJob(TRUE, roundCount), QuestionJob(FALSE, roundCount),
         [Idle EXCEPT !.op = "promote", !.gap = Gap(table)]}
  BY NextStageCases
<1> QED
  BY <1>1, <1>3, <1>4, <1>5, Zenon

(* Entering the mockup stage keeps the status and the jobs well typed.      *)
LEMMA EnterTypes ==
  ASSUME NEW w \in Workers, NEW ui \in {"unknown", "yes", "no"}, NEW settled,
         NEW version \in Nat, NEW current \in Nat, jobs \in [Workers -> Job],
         EnterMockupStage(w, ui, settled, version, current)
  PROVE  jobs' \in [Workers -> Job] /\ status' \in {"mockup", settled}
<1>1. (CASE ui = "unknown" -> [Idle EXCEPT !.op = "classify", !.doc = version]
         [] ui = "yes" /\ mockups = <<>> -> DrawJob(version, current)
         [] OTHER -> Idle) \in Job
  BY DrawJobType, IdleIsJob
<1> QED
  BY <1>1 DEF EnterMockupStage, Wait

(* Slot tables and texts that operations write.                             *)
LEMMA DataTypes ==
  ASSUME slots \in [Slots -> SlotRow], docVersion \in Nat
  PROVE  /\ \A verdict \in Verdicts : Judged(verdict) \in [Slots -> SlotRow]
         /\ \A gap, promotable : Promoted(gap, promotable) \in [Slots -> SlotRow]
         /\ \A s \in Slots : [slots EXCEPT ![s] = Empty] \in [Slots -> SlotRow]
         /\ \A s \in Slots : [slots EXCEPT ![s].confirmed = TRUE] \in [Slots -> SlotRow]
         /\ \A base \in Texts : \A paths : Rewrite(base, paths) \in Texts
<1>1. \A verdict \in Verdicts : Judged(verdict) \in [Slots -> SlotRow]
  BY DEF Judged, Verdicts, SlotRow
<1>2. \A gap, promotable : Promoted(gap, promotable) \in [Slots -> SlotRow]
  BY DEF Promoted, SlotRow
<1>3. \A s \in Slots : [slots EXCEPT ![s] = Empty] \in [Slots -> SlotRow]
  BY DEF Empty, SlotRow
<1>4. \A s \in Slots : [slots EXCEPT ![s].confirmed = TRUE] \in [Slots -> SlotRow]
  BY DEF SlotRow
<1>5. \A base \in Texts : \A paths : Rewrite(base, paths) \in Texts
  BY DEF Rewrite, Texts
<1> QED
  BY <1>1, <1>2, <1>3, <1>4, <1>5

(* A changed row of the mockups leaves their number alone.                  *)
LEMMA RowChanged ==
  ASSUME NEW s \in Seq(Mockup), NEW i \in DOMAIN s, NEW row \in Mockup
  PROVE  /\ [s EXCEPT ![i] = row] \in Seq(Mockup)
         /\ Len([s EXCEPT ![i] = row]) = Len(s) /\ DOMAIN [s EXCEPT ![i] = row] = DOMAIN s
  BY LenProperties

(* The latest mockup is the last row, when there is one.                    *)
LEMMA LatestIsMockup ==
  ASSUME mockups \in Seq(Mockup), mockups # <<>>
  PROVE  /\ Len(mockups) \in DOMAIN mockups /\ Latest = mockups[Len(mockups)] /\ Latest \in Mockup
         /\ Len(mockups) \in Nat /\ DOMAIN mockups = 1 .. Len(mockups)
  BY LenProperties DEF Latest

-----------------------------------------------------------------------------
(* Type correctness, one lemma per operation of the runner that is more     *)
(* than a frame.                                                            *)
LEMMA JudgeTypes ==
  ASSUME RunnerTypeOK, NEW w \in Workers, NEW correction \in BOOLEAN, NEW append \in BOOLEAN,
         Judge(w, correction, append), slots' \in [Slots -> SlotRow]
  PROVE  RunnerTypeOK'
<1>1. JudgeJob(correction) \in Job
  BY JudgeJobType DEF RunnerTypeOK
<1>2. jobs' \in [Workers -> Job]
  BY <1>1, WaitTypes DEF Judge, RunnerTypeOK
<1>3. status' \in {"absent", "intake", "clarifying", "documented", "mockup", "closed"} /\ resumes' \in Nat
  BY DEF Judge, Resume, RunnerTypeOK
<1>4. said' \in {"agent", "reply", "comment"} /\ answered' \in BOOLEAN
  BY DEF Judge, RequesterSays, RunnerTypeOK
<1> QED
  BY <1>2, <1>3, <1>4 DEF Judge, document, stage, RunnerTypeOK

(* A reply, a retried one or a resuming one: processReply.                  *)
LEMMA ProcessReplyTypes ==
  ASSUME RunnerTypeOK, NEW w \in Workers, NEW correction \in BOOLEAN, NEW append \in BOOLEAN,
         ProcessReply(w, correction, append), slots' \in [Slots -> SlotRow]
  PROVE  RunnerTypeOK'
<1>1. ASSUME Guide(append) PROVE RunnerTypeOK'
  BY <1>1 DEF Guide, Exchange, AgentSays, RequesterSays, document, stage, RunnerTypeOK
<1> QED
  BY <1>1, JudgeTypes DEF ProcessReply

(* A clarification question is posted, counted or not.                      *)
LEMMA QuestionTypes ==
  ASSUME RunnerTypeOK, NEW w \in Workers, QuestionDone(w)
  PROVE  RunnerTypeOK'
<1>1. jobs' \in [Workers -> Job]
  BY IdleIsJob, WaitTypes DEF QuestionDone, Finish, RunnerTypeOK
<1>2. jobs[w].count \in Nat
  BY DEF RunnerTypeOK, Job
<1>3. roundCount' \in Nat /\ asked' \in Nat
  BY <1>2 DEF QuestionDone, RunnerTypeOK
<1> QED
  BY <1>1, <1>3 DEF QuestionDone, document, stage, RunnerTypeOK

(* A judgement returns and its verdicts are written.                        *)
LEMMA JudgeDoneTypes ==
  ASSUME RunnerTypeOK, NEW w \in Workers, JudgeDone(w)
  PROVE  RunnerTypeOK'
<1>1. PICK verdict \in Verdicts, highScore \in BOOLEAN :
        slots' = Judged(verdict) /\ Wait(w, NextStage(jobs[w], Judged(verdict), highScore))
  BY DEF JudgeDone
<1>2. slots' \in [Slots -> SlotRow]
  BY <1>1, DataTypes DEF RunnerTypeOK
<1>3. NextStage(jobs[w], slots', highScore) \in Job
  BY <1>2, NextStageType DEF RunnerTypeOK
<1>4. jobs' \in [Workers -> Job]
  BY <1>1, <1>3, WaitTypes DEF RunnerTypeOK
<1> QED
  BY <1>2, <1>4 DEF JudgeDone, dialogue, document, stage, RunnerTypeOK

(* A promotion returns: the slots it covers, or a hold.                     *)
LEMMA PromoteTypes ==
  ASSUME RunnerTypeOK, NEW w \in Workers, PromoteDone(w)
  PROVE  RunnerTypeOK'
<1>1. PICK promotable \in SUBSET jobs[w].gap :
        /\ slots' = Promoted(jobs[w].gap, promotable)
        /\ \/ Wait(w, [Idle EXCEPT !.op = "document"]) /\ UNCHANGED dialogue
           \/ Hold(w)
  BY DEF PromoteDone
<1>2. slots' \in [Slots -> SlotRow]
  BY <1>1, DataTypes DEF RunnerTypeOK
<1>3. [Idle EXCEPT !.op = "document"] \in Job /\ Idle \in Job
  BY IdleIsJob DEF Idle, Job, Ops
<1>4. jobs' \in [Workers -> Job]
  BY <1>1, <1>3, WaitTypes DEF Hold, Finish, RunnerTypeOK
<1> QED
  BY <1>1, <1>2, <1>4 DEF PromoteDone, Hold, AgentSays, dialogue, document, stage, RunnerTypeOK

(* Only versions that exist are recorded as complete.                       *)
LEMMA CompletionTypes ==
  ASSUME RunnerTypeOK, NEW version \in Nat, NEW table, version >= docVersion
  PROVE  Completion(version, table) \subseteq 1 .. version
  BY DEF Completion, RunnerTypeOK

(* A document is delivered, and the mockup stage may follow.                *)
LEMMA DocumentTypes ==
  ASSUME RunnerTypeOK, NEW w \in Workers, DocumentDone(w)
  PROVE  RunnerTypeOK'
<1>1. docVersion' = docVersion + 1 /\ docVersion' \in Nat
  BY DEF DocumentDone, RunnerTypeOK
<1>2. completed' \subseteq 1 .. docVersion'
  BY <1>1, CompletionTypes DEF DocumentDone, RunnerTypeOK
<1>3. jobs' \in [Workers -> Job] /\ status' \in {"mockup", "documented"}
  BY <1>1, EnterTypes DEF DocumentDone, RunnerTypeOK
<1>4. text' \in Texts /\ visual' \in Directions
  BY <1>1 DEF DocumentDone, Texts, Directions, RunnerTypeOK
<1> QED
  BY <1>1, <1>2, <1>3, <1>4 DEF DocumentDone, AgentSays, stage, RunnerTypeOK

(* The UI classification returns.                                           *)
LEMMA ClassifyTypes ==
  ASSUME RunnerTypeOK, NEW w \in Workers, ClassifyDone(w)
  PROVE  RunnerTypeOK'
<1>1. PICK ui \in UiAnswers : isUi' = ui /\ EnterMockupStage(w, ui, status, jobs[w].doc, docVersion)
  BY DEF ClassifyDone
<1>2. ui \in {"yes", "no"}
  BY RunnerAssumption
<1>3. jobs[w].doc \in Nat /\ docVersion \in Nat
  BY DEF RunnerTypeOK, Job
<1>4. jobs' \in [Workers -> Job] /\ status' \in {"mockup", status}
  BY <1>1, <1>2, <1>3, EnterTypes DEF RunnerTypeOK
<1> QED
  BY <1>1, <1>2, <1>4 DEF ClassifyDone, document, RunnerTypeOK

(* A direct edit writes a version at once.                                  *)
LEMMA EditTypes ==
  ASSUME RunnerTypeOK, NEW paths, EditDocument(paths)
  PROVE  RunnerTypeOK'
<1>1. text' \in Texts /\ docVersion' = docVersion + 1
  BY DataTypes DEF EditDocument, RunnerTypeOK
<1>2. completed' \subseteq 1 .. docVersion'
  BY <1>1 DEF EditDocument, RunnerTypeOK
<1> QED
  BY <1>1, <1>2 DEF EditDocument, Exchange, stage, RunnerTypeOK

(* An instruction returns with a version of its own.                        *)
LEMMA InstructDoneTypes ==
  ASSUME RunnerTypeOK, NEW w \in Workers, InstructDone(w)
  PROVE  RunnerTypeOK'
<1>1. jobs' \in [Workers -> Job]
  BY IdleIsJob, WaitTypes DEF InstructDone, Finish, RunnerTypeOK
<1>2. jobs[w].base \in Texts /\ jobs[w].dir \in Directions
  BY DEF RunnerTypeOK, Job
<1>3. docVersion' \in Nat /\ docVersion' >= docVersion /\ text' \in Texts /\ visual' \in Directions
  BY <1>2, DataTypes DEF InstructDone, RunnerTypeOK
<1>4. said' \in {"agent", "reply", "comment"} /\ answered' \in BOOLEAN
  BY DEF InstructDone, Exchange, RunnerTypeOK
<1>5. completed' \subseteq 1 .. docVersion'
  BY <1>3 DEF InstructDone, RunnerTypeOK
<1> QED
  BY <1>1, <1>3, <1>4, <1>5 DEF InstructDone, stage, RunnerTypeOK

(* A slot is confirmed.                                                     *)
LEMMA ConfirmTypes ==
  ASSUME RunnerTypeOK, NEW s \in Slots, ConfirmSlot(s)
  PROVE  RunnerTypeOK'
<1>1. slots' \in [Slots -> SlotRow]
  BY DataTypes DEF ConfirmSlot, RunnerTypeOK
<1>2. completed' \subseteq 1 .. docVersion
  BY CompletionTypes DEF ConfirmSlot, RunnerTypeOK
<1> QED
  BY <1>1, <1>2 DEF ConfirmSlot, dialogue, stage, RunnerTypeOK

(* A denial with too long a text empties its slot.                          *)
LEMMA DropTypes ==
  ASSUME RunnerTypeOK, NEW s \in Slots, DenialTooLong(s)
  PROVE  RunnerTypeOK'
<1>1. slots' \in [Slots -> SlotRow]
  BY DataTypes DEF DenialTooLong, RunnerTypeOK
<1> QED
  BY <1>1 DEF DenialTooLong, dialogue, document, stage, RunnerTypeOK

(* A drawing returns: a mockup is added.                                    *)
LEMMA DrawDoneTypes ==
  ASSUME RunnerTypeOK, NEW w \in Workers, DrawDone(w)
  PROVE  RunnerTypeOK'
<1>1. jobs' \in [Workers -> Job]
  BY IdleIsJob, WaitTypes DEF DrawDone, Finish, RunnerTypeOK
<1>2. NewMockup(jobs[w]) \in Mockup
  BY DEF NewMockup, Mockup, Directions, RunnerTypeOK, Job
<1>3. mockups' \in Seq(Mockup)
  BY <1>2, AppendProperties DEF DrawDone, RunnerTypeOK
<1> QED
  BY <1>1, <1>3 DEF DrawDone, AgentSays, document, RunnerTypeOK

(* A mockup row whose convergence or theme is set is a mockup row.          *)
LEMMA RowTypes ==
  ASSUME mockups \in Seq(Mockup), NEW i \in DOMAIN mockups
  PROVE  /\ \A c \in {"approved", "escalated"} :
              [mockups EXCEPT ![i].convergence = c] = [mockups EXCEPT ![i] = [mockups[i] EXCEPT !.convergence = c]]
              /\ [mockups[i] EXCEPT !.convergence = c] \in Mockup
         /\ \A d \in Directions :
              [mockups EXCEPT ![i].theme = d] = [mockups EXCEPT ![i] = [mockups[i] EXCEPT !.theme = d]]
              /\ [mockups[i] EXCEPT !.theme = d] \in Mockup
<1>1. mockups[i] \in Mockup
  BY LenProperties
<1> QED
  BY <1>1 DEF Mockup

(* A comment escalates the latest mockup or has it drawn anew.              *)
LEMMA AnnotateTypes ==
  ASSUME RunnerTypeOK, NEW w \in Workers, AnnotateMockup(w)
  PROVE  RunnerTypeOK'
<1>1. Len(mockups) \in DOMAIN mockups /\ Latest \in Mockup
  BY LatestIsMockup DEF AnnotateMockup, RunnerTypeOK
<1>2. CASE Escalate
  <2>1. mockups' \in Seq(Mockup)
    BY <1>1, <1>2, RowTypes, RowChanged DEF Escalate, RunnerTypeOK
  <2> QED
    BY <1>2, <2>1 DEF AnnotateMockup, Escalate, Exchange, document, RunnerTypeOK
<1>3. CASE Redraw(w)
  <2>1. [Idle EXCEPT !.op = "redraw", !.doc = docVersion, !.read = docVersion] \in Job
    BY IdleIsJob DEF Idle, Job, Ops, RunnerTypeOK
  <2>2. jobs' \in [Workers -> Job]
    BY <1>3, <2>1, WaitTypes DEF Redraw, RunnerTypeOK
  <2> QED
    BY <1>3, <2>2 DEF AnnotateMockup, Redraw, RequesterSays, document, RunnerTypeOK
<1> QED
  BY <1>2, <1>3 DEF AnnotateMockup

(* A theme is chosen on the open mockup.                                    *)
LEMMA ThemeTypes ==
  ASSUME RunnerTypeOK, NEW choice, SelectMockupTheme(choice)
  PROVE  RunnerTypeOK'
<1>1. Len(mockups) \in DOMAIN mockups /\ choice \in Directions
  BY LatestIsMockup DEF SelectMockupTheme, Open, RunnerTypeOK
<1>2. mockups' \in Seq(Mockup)
  BY <1>1, RowTypes, RowChanged DEF SelectMockupTheme, RunnerTypeOK
<1> QED
  BY <1>2 DEF SelectMockupTheme, AgentSays, document, RunnerTypeOK

(* An approval starts.                                                      *)
LEMMA ApproveTypes ==
  ASSUME RunnerTypeOK, NEW w \in Workers, ApproveMockup(w)
  PROVE  RunnerTypeOK'
<1>1. Len(mockups) \in Nat /\ Latest \in Mockup
  BY LatestIsMockup DEF ApproveMockup, Open, RunnerTypeOK
<1>2. [Idle EXCEPT !.op = "approve", !.base = text, !.dir = Latest.theme, !.mock = Len(mockups)] \in Job
  BY <1>1, IdleIsJob DEF Idle, Job, Ops, Mockup, RunnerTypeOK
<1>3. jobs' \in [Workers -> Job]
  BY <1>2, WaitTypes DEF ApproveMockup, RunnerTypeOK
<1> QED
  BY <1>3 DEF ApproveMockup, dialogue, document, stage, RunnerTypeOK

(* An approval returns: mockup, document and status.                        *)
LEMMA ApproveDoneTypes ==
  ASSUME RunnerTypeOK, NEW w \in Workers, ApproveDone(w), JobOK(jobs[w])
  PROVE  RunnerTypeOK'
<1>1. jobs' \in [Workers -> Job]
  BY IdleIsJob, WaitTypes DEF ApproveDone, Finish, RunnerTypeOK
<1>2. jobs[w].base \in Texts /\ jobs[w].dir \in Directions /\ jobs[w].mock \in DOMAIN mockups
  BY DEF RunnerTypeOK, Job, JobOK, ApproveDone
<1>3. mockups' \in Seq(Mockup)
  BY <1>2, RowTypes, RowChanged DEF ApproveDone, RunnerTypeOK
<1>4. text' \in Texts /\ docVersion' = docVersion + 1 /\ docVersion' \in Nat
  BY <1>2, DataTypes DEF ApproveDone, RunnerTypeOK
<1>5. completed' \subseteq 1 .. docVersion'
  BY <1>4, CompletionTypes DEF ApproveDone, RunnerTypeOK
<1> QED
  BY <1>1, <1>2, <1>3, <1>4, <1>5 DEF ApproveDone, AgentSays, RunnerTypeOK

(* Every return of an LLM call keeps the types.                             *)
LEMMA WorkTypes ==
  ASSUME RunnerTypeOK, JobsOK, NEW w \in Workers, JobDone(w) \/ Fail(w)
  PROVE  RunnerTypeOK'
<1>1. ASSUME Fail(w) PROVE RunnerTypeOK'
  <2>1. jobs' \in [Workers -> Job]
    BY <1>1, IdleIsJob, WaitTypes DEF Fail, Finish, RunnerTypeOK
  <2> QED
    BY <1>1, <2>1 DEF Fail, dialogue, document, stage, RunnerTypeOK
<1>2. JobOK(jobs[w])
  BY DEF JobsOK
<1> QED
  BY <1>1, <1>2, QuestionTypes, JudgeDoneTypes, PromoteTypes, DocumentTypes, InstructDoneTypes,
     ClassifyTypes, DrawDoneTypes, ApproveDoneTypes DEF JobDone

(* A request opens a session.                                               *)
LEMMA StartTypes ==
  ASSUME RunnerTypeOK, NEW w \in Workers, OpenSession(w) \/ StartClarification(w)
  PROVE  RunnerTypeOK'
<1>1. QuestionJob(FALSE, roundCount) \in Job
  BY QuestionJobType DEF RunnerTypeOK
<1>2. jobs' \in [Workers -> Job]
  BY <1>1, WaitTypes DEF OpenSession, StartClarification, RunnerTypeOK
<1> QED
  BY <1>2 DEF OpenSession, StartClarification, RequesterSays, dialogue, document, stage, RunnerTypeOK

(* An instruction starts.                                                   *)
LEMMA InstructTypes ==
  ASSUME RunnerTypeOK, NEW w \in Workers, NEW paths \in SUBSET Paths, InstructDocument(w, paths)
  PROVE  RunnerTypeOK'
<1>1. [Idle EXCEPT !.op = "instruct", !.base = text, !.paths = paths, !.dir = visual] \in Job
  BY IdleIsJob DEF Idle, Job, Ops, RunnerTypeOK
<1>2. jobs' \in [Workers -> Job]
  BY <1>1, WaitTypes DEF InstructDocument, RunnerTypeOK
<1> QED
  BY <1>2 DEF InstructDocument, dialogue, document, stage, RunnerTypeOK

(* A slot is denied, and a correction starts.                               *)
LEMMA DenyTypes ==
  ASSUME RunnerTypeOK, NEW w \in Workers, NEW s \in Slots, DenySlot(w, s)
  PROVE  RunnerTypeOK'
<1>1. slots' \in [Slots -> SlotRow]
  BY DataTypes DEF DenySlot, RunnerTypeOK
<1> QED
  BY <1>1, JudgeTypes DEF DenySlot

(* A retry starts the stage that pendingRound names.                        *)
LEMMA RetryTypes ==
  ASSUME RunnerTypeOK, NEW w \in Workers, RetryRound(w)
  PROVE  RunnerTypeOK'
<1>1. ASSUME RetryMockup(w) PROVE RunnerTypeOK'
  <2>1. jobs' \in [Workers -> Job] /\ status' \in {"mockup", status}
    BY <1>1, EnterTypes DEF RetryMockup, RunnerTypeOK
  <2> QED
    BY <1>1, <2>1 DEF RetryMockup, document, stage, RunnerTypeOK
<1>2. ASSUME RetryJudgement(w) PROVE RunnerTypeOK'
  <2>1. slots' \in [Slots -> SlotRow]
    BY <1>2 DEF RetryJudgement, RunnerTypeOK
  <2> QED
    BY <1>2, <2>1, ProcessReplyTypes DEF RetryJudgement
<1> QED
  BY <1>1, <1>2, StartTypes DEF RetryRound

(* Requests are well typed whatever they name.                              *)
LEMMA ReceiveTypes ==
  ASSUME TypeOK, NEW kind \in {"reply", "denial", "comment"}, NEW id \in Nat, Receive(kind, id)
  PROVE  TypeOK'
<1>1. req' \in Request
  BY DEF Receive, Request, TypeOK, RunnerTypeOK
<1>2. RunnerTypeOK'
  BY DEF TypeOK, Receive, runnerVars, dialogue, document, stage, RunnerTypeOK
<1> QED
  BY <1>1, <1>2 DEF TypeOK

(* Every step of the session keeps it well typed.                           *)
LEMMA TypeStep == TypeOK /\ JobsOK /\ [Next]_vars => TypeOK'
<1> SUFFICES ASSUME TypeOK, JobsOK, [Next]_vars PROVE TypeOK'
  OBVIOUS
<1>t. RunnerTypeOK /\ req \in Request /\ NoRequest \in Request
  BY DEF TypeOK, NoRequest, Request
<1>1. ASSUME PostSession PROVE TypeOK'
  <2>1. ASSUME OpenSessionRefused PROVE RunnerTypeOK'
    BY <1>t, <2>1 DEF OpenSessionRefused, RequesterSays, document, stage, RunnerTypeOK
  <2> QED
    BY <1>t, <1>1, <2>1, StartTypes DEF PostSession, TypeOK
<1>2. ASSUME ReplyHeaders PROVE TypeOK'
  <2>1. PICK round \in 0 .. asked : Receive("reply", round)
    BY <1>2 DEF ReplyHeaders
  <2>2. round \in Nat
    BY <1>t DEF RunnerTypeOK
  <2> QED
    BY <2>1, <2>2, ReceiveTypes
<1>3. ASSUME ReplyBody PROVE TypeOK'
  <2>1. PICK w \in Workers : HandleReply(w)
    BY <1>3 DEF ReplyBody
  <2>2. slots' \in [Slots -> SlotRow]
    BY <1>t, <2>1 DEF HandleReply, RunnerTypeOK
  <2>3. RunnerTypeOK'
    BY <1>t, <2>1, <2>2, ProcessReplyTypes DEF HandleReply
  <2> QED
    BY <1>t, <1>3, <2>3 DEF ReplyBody, TypeOK
<1>4. ASSUME Confirm PROVE TypeOK'
  BY <1>t, <1>4, ConfirmTypes DEF Confirm, TypeOK
<1>5. ASSUME DenialHeaders PROVE TypeOK'
  BY <1>5, ReceiveTypes DEF DenialHeaders
<1>6. ASSUME DenialBody PROVE TypeOK'
  BY <1>t, <1>6, DenyTypes DEF DenialBody, TypeOK
<1>7. ASSUME Edit PROVE TypeOK'
  BY <1>t, <1>7, EditTypes DEF Edit, TypeOK
<1>8. ASSUME Instruct PROVE TypeOK'
  BY <1>t, <1>8, InstructTypes DEF Instruct, TypeOK
<1>9. ASSUME CommentHeaders PROVE TypeOK'
  <2>1. Len(mockups) \in Nat
    BY <1>t, LenProperties DEF RunnerTypeOK
  <2> QED
    BY <1>9, <2>1, ReceiveTypes DEF CommentHeaders
<1>10. ASSUME CommentBody PROVE TypeOK'
  BY <1>t, <1>10, AnnotateTypes DEF CommentBody, TypeOK
<1>11. ASSUME Theme PROVE TypeOK'
  BY <1>t, <1>11, ThemeTypes DEF Theme, TypeOK
<1>12. ASSUME Approve PROVE TypeOK'
  BY <1>t, <1>12, ApproveTypes DEF Approve, TypeOK
<1>13. ASSUME Retry PROVE TypeOK'
  BY <1>t, <1>13, RetryTypes DEF Retry, TypeOK
<1>14. ASSUME NEW w \in Workers, Work(w) PROVE TypeOK'
  BY <1>t, <1>14, WorkTypes DEF Work, TypeOK
<1>15. ASSUME UNCHANGED runnerVars, req' \in Request PROVE TypeOK'
  BY <1>t, <1>15 DEF runnerVars, dialogue, document, stage, RunnerTypeOK, TypeOK
<1>16. ASSUME Crash PROVE TypeOK'
  <2>1. jobs' \in [Workers -> Job]
    BY <1>16, IdleIsJob DEF Crash, Restart
  <2> QED
    BY <1>t, <1>16, <2>1 DEF Crash, Restart, dialogue, document, stage, RunnerTypeOK, TypeOK
<1>17. ASSUME Refuse PROVE TypeOK'
  BY <1>t, <1>15, <1>17 DEF Refuse
<1>18. ASSUME UNCHANGED vars PROVE TypeOK'
  BY <1>t, <1>15, <1>18 DEF vars
<1>19. ASSUME DenialDropped PROVE TypeOK'
  BY <1>t, <1>19, DropTypes DEF DenialDropped, TypeOK
<1> QED
  BY <1>1, <1>2, <1>3, <1>4, <1>5, <1>6, <1>7, <1>8, <1>9, <1>10, <1>11, <1>12, <1>13, <1>14,
     <1>16, <1>17, <1>18, <1>19 DEF Next, ReplyRefused, DenialRefused, CommentRefused, Abandon

-----------------------------------------------------------------------------
(* The rest of the invariant.  A resumption only adds to the budget.        *)
LEMMA BudgetGrows ==
  ASSUME resumes \in Nat
  PROVE  RoundBudget > 0 /\ (resumes' \in {resumes, resumes + 1} => RoundBudget' >= RoundBudget)
<1>1. RoundBudget = MaxRounds + MaxRounds * resumes /\ MaxRounds * resumes \in Nat
      /\ MaxRounds \in Nat /\ MaxRounds > 0
  BY RunnerAssumption DEF RoundBudget
<1>2. resumes' = resumes + 1 => RoundBudget' = RoundBudget + MaxRounds
  BY <1>1, RunnerAssumption DEF RoundBudget
<1>3. resumes' = resumes => RoundBudget' = RoundBudget
  BY DEF RoundBudget
<1> QED
  BY <1>1, <1>2, <1>3

(* An operation that ends leaves nothing in flight to rely on anything.     *)
LEMMA FinishAlone ==
  ASSUME jobs \in [Workers -> Job], SingleFlight, NEW w \in Workers, Busy(w), Finish(w)
  PROVE  SingleFlight' /\ JobsOK'
<1>1. JobOK(Idle)'
  BY DEF JobOK, Idle
<1> QED
  BY <1>1, IdleIsJob, WaitAlone DEF Finish

(* What an operation in flight relies on survives every step that leaves    *)
(* these variables alone.                                                   *)
LEMMA JobsFramed ==
  ASSUME SingleFlight, JobsOK, jobs' = jobs, roundCount' = roundCount, resumes' = resumes,
         Gap(slots') = Gap(slots), isUi' = isUi, docVersion' >= docVersion,
         docVersion \in Nat, docVersion' \in Nat,
         status' = status, DOMAIN mockups' = DOMAIN mockups, mockups # <<>> => mockups' # <<>>
  PROVE  SingleFlight' /\ JobsOK'
<1>1. SingleFlight'
  BY DEF SingleFlight, Busy
<1>2. RoundBudget' = RoundBudget /\ Gap(slots)' = Gap(slots)
  BY DEF RoundBudget, Gap
<1>3. JobsOK'
  BY <1>2 DEF JobsOK, JobOK
<1> QED
  BY <1>1, <1>3

(* The fields of the jobs that operations start.                            *)
LEMMA JobFields ==
  /\ Idle.op = "idle"
  /\ [Idle EXCEPT !.op = "document"].op = "document"
  /\ \A gap : /\ [Idle EXCEPT !.op = "promote", !.gap = gap].op = "promote"
              /\ [Idle EXCEPT !.op = "promote", !.gap = gap].gap = gap
  /\ \A version : [Idle EXCEPT !.op = "classify", !.doc = version].op = "classify"
  /\ \A version, current : DrawJob(version, current).op = "draw"
  /\ \A correction, count : /\ QuestionJob(correction, count).op = "question"
                            /\ QuestionJob(correction, count).correction = correction
                            /\ QuestionJob(correction, count).count = count
  BY DEF Idle, DrawJob, QuestionJob

(* A counted question still has the count it read, below the budget.        *)
LEMMA QuestionKeeps ==
  ASSUME IInv, NEW w \in Workers, QuestionDone(w)
  PROVE  Kept'
<1>1. SingleFlight' /\ JobsOK'
  BY FinishAlone DEF IInv, Kept, TypeOK, RunnerTypeOK, QuestionDone, Busy
<1>2. roundCount' = roundCount \/ (roundCount' = roundCount + 1 /\ roundCount < RoundBudget)
  BY DEF IInv, Kept, JobsOK, JobOK, QuestionDone
<1>3. RoundBudget' = RoundBudget /\ RoundBudget \in Nat /\ roundCount \in Nat
  BY BudgetType DEF QuestionDone, RoundBudget, IInv, TypeOK, RunnerTypeOK
<1>4. RoundsWithinBudget'
  BY <1>2, <1>3 DEF RoundsWithinBudget, IInv, Kept
<1>5. EarlyOK' /\ StatusMatchesStore'
  BY DEF QuestionDone, document, stage, EarlyOK, StatusMatchesStore, Reviewable, IInv, Kept
<1> QED
  BY <1>1, <1>4, <1>5 DEF Kept

(* A judgement hands its round count, or the gap, to the next job.          *)
LEMMA JudgeDoneKeeps ==
  ASSUME IInv, NEW w \in Workers, JudgeDone(w)
  PROVE  Kept'
<1>t. RunnerTypeOK /\ jobs[w] \in Job
  BY DEF IInv, TypeOK, RunnerTypeOK
<1>1. PICK verdict \in Verdicts, highScore \in BOOLEAN :
        slots' = Judged(verdict) /\ Wait(w, NextStage(jobs[w], Judged(verdict), highScore))
  BY DEF JudgeDone
<1>2. UNCHANGED <<dialogue, document, stage>> /\ jobs[w].count = roundCount /\ Busy(w)
  BY DEF JudgeDone, IInv, Kept, JobsOK, JobOK, Busy
<1>3. RoundBudget' = RoundBudget /\ roundCount' = roundCount
  BY <1>2 DEF RoundBudget, dialogue
<1>4. PICK job \in Job : job = NextStage(jobs[w], Judged(verdict), highScore)
  <2>1. Judged(verdict) \in [Slots -> SlotRow]
    BY <1>t, DataTypes DEF RunnerTypeOK
  <2> QED
    BY <1>t, <2>1, NextStageType DEF RunnerTypeOK
<1>5. \/ Gap(Judged(verdict)) = {} /\ job.op = "document"
      \/ job.op = "question" /\ job.correction
      \/ jobs[w].count < RoundBudget /\ job.op = "question" /\ job.count = roundCount
      \/ /\ jobs[w].count >= RoundBudget /\ Gap(Judged(verdict)) # {}
         /\ job.op = "promote" /\ job.gap = Gap(Judged(verdict))
  <2>1. resumes \in Nat
    BY <1>t DEF RunnerTypeOK
  <2>2. CASE job = [Idle EXCEPT !.op = "document"] /\ Gap(Judged(verdict)) = {}
    BY <2>2, JobFields
  <2>3. CASE job = QuestionJob(TRUE, roundCount)
    <3>1. job.op = "question" /\ job.correction = TRUE
      BY <2>3 DEF QuestionJob, Idle
    <3> QED
      BY <3>1
  <2>4. CASE jobs[w].count < RoundBudget /\ job = QuestionJob(FALSE, roundCount)
    <3>1. job.op = "question" /\ job.count = roundCount
      BY <2>4 DEF QuestionJob, Idle
    <3> QED
      BY <2>4, <3>1
  <2>5. CASE /\ jobs[w].count >= RoundBudget /\ Gap(Judged(verdict)) # {}
             /\ job = [Idle EXCEPT !.op = "promote", !.gap = Gap(Judged(verdict))]
    BY <2>5, JobFields
  <2> QED
    BY <1>t, <1>4, <2>1, <2>2, <2>3, <2>4, <2>5, NextStageCases
<1>6. Gap(slots)' = Gap(Judged(verdict))
  BY <1>1 DEF Gap
<1>7. JobOK(job)'
  BY <1>2, <1>3, <1>5, <1>6 DEF JobOK, dialogue
<1>8. SingleFlight' /\ JobsOK'
  BY <1>t, <1>1, <1>2, <1>4, <1>7, WaitAlone DEF IInv, Kept, RunnerTypeOK
<1> QED
  BY <1>2, <1>3, <1>8 DEF IInv, Kept, EarlyOK, RoundsWithinBudget, StatusMatchesStore, Reviewable,
     Open, Latest, dialogue, document, stage

(* A promotion closes only what was earned, or leaves no gap.               *)
LEMMA PromoteKeeps ==
  ASSUME IInv, NEW w \in Workers, PromoteDone(w)
  PROVE  Kept'
<1>t. RunnerTypeOK /\ Busy(w) /\ SingleFlight /\ UNCHANGED <<document, stage>>
  BY DEF IInv, Kept, TypeOK, PromoteDone, Busy
<1>1. CASE Wait(w, [Idle EXCEPT !.op = "document"]) /\ UNCHANGED dialogue /\ Gap(slots') = {}
  <2>1. [Idle EXCEPT !.op = "document"] \in Job
    BY IdleIsJob DEF Idle, Job, Ops
  <2>2. JobOK([Idle EXCEPT !.op = "document"])'
    BY <1>1 DEF JobOK, Idle, Gap
  <2>3. SingleFlight' /\ JobsOK'
    BY <1>t, <1>1, <2>1, <2>2, WaitAlone DEF RunnerTypeOK
  <2>4. RoundBudget' = RoundBudget
    BY <1>1 DEF RoundBudget, dialogue
  <2> QED
    BY <1>t, <1>1, <2>3, <2>4 DEF IInv, Kept, EarlyOK, RoundsWithinBudget, StatusMatchesStore,
       Reviewable, Open, Latest, dialogue, document, stage
<1>2. CASE Hold(w)
  <2>1. SingleFlight' /\ JobsOK'
    BY <1>t, <1>2, FinishAlone DEF Hold, RunnerTypeOK
  <2>2. RoundBudget' = RoundBudget
    BY <1>2 DEF RoundBudget, Hold
  <2> QED
    BY <1>t, <1>2, <2>1, <2>2 DEF Hold, IInv, Kept, EarlyOK, RoundsWithinBudget, StatusMatchesStore,
       Reviewable, document, stage
<1> QED
  BY <1>1, <1>2 DEF PromoteDone

(* Entering the mockup stage with a document, at its status or the          *)
(* document's.                                                              *)
LEMMA EnterKeeps ==
  ASSUME RunnerTypeOK, SingleFlight, NEW w \in Workers, Busy(w) \/ Background(w),
         NEW version \in Nat, NEW current \in Nat, NEW ui \in {"unknown", "yes", "no"},
         EnterMockupStage(w, ui, "documented", version, current),
         isUi' = ui, mockups' = mockups, docVersion' > 0, docVersion' \in Nat
  PROVE  SingleFlight' /\ JobsOK' /\ StatusMatchesStore'
<1>1. status' = IF ui = "yes" /\ Open THEN "mockup" ELSE "documented"
  BY DEF EnterMockupStage
<1>2. PICK job \in Job :
        /\ Wait(w, job)
        /\ \/ ui = "unknown" /\ job.op = "classify"
           \/ ui = "yes" /\ job.op = "draw"
           \/ job.op = "idle"
  <2>1. CASE ui = "unknown"
    <3> DEFINE j == [Idle EXCEPT !.op = "classify", !.doc = version]
    <3>1. Wait(w, j)
      BY <2>1 DEF EnterMockupStage
    <3>2. j \in Job /\ j.op = "classify"
      BY DrawJobType, JobFields
    <3> HIDE DEF j
    <3> QED
      BY <2>1, <3>1, <3>2
  <2>2. CASE ui = "yes" /\ mockups = <<>>
    <3>1. Wait(w, DrawJob(version, current))
      BY <2>2 DEF EnterMockupStage
    <3>2. DrawJob(version, current) \in Job
      BY DrawJobType
    <3>3. DrawJob(version, current).op = "draw"
      BY DEF DrawJob, Idle
    <3> QED
      BY <2>2, <3>1, <3>2, <3>3
  <2>3. CASE ~(ui = "unknown") /\ ~(ui = "yes" /\ mockups = <<>>)
    <3>1. Wait(w, Idle)
      BY <2>3 DEF EnterMockupStage
    <3> QED
      BY <3>1, IdleIsJob, JobFields
  <2> QED
    BY <2>1, <2>2, <2>3
<1>3. JobOK(job)'
  <2>1. CASE ui = "unknown" /\ job.op = "classify"
    <3>1. isUi' = "unknown" /\ status' = "documented"
      BY <1>1, <2>1
    <3> QED
      BY <2>1, <3>1 DEF JobOK
  <2>2. CASE ui = "yes" /\ job.op = "draw"
    BY <2>2 DEF JobOK
  <2>3. CASE job.op = "idle"
    BY <2>3 DEF JobOK
  <2> QED
    BY <1>2, <2>1, <2>2, <2>3
<1>4. SingleFlight' /\ JobsOK'
  BY <1>2, <1>3, WaitAlone DEF RunnerTypeOK
<1>5. StatusMatchesStore'
  BY <1>1 DEF StatusMatchesStore, Reviewable, Open, Latest
<1> QED
  BY <1>4, <1>5

(* A delivered document backs the status it publishes.                      *)
LEMMA DocumentKeeps ==
  ASSUME IInv, NEW w \in Workers, DocumentDone(w)
  PROVE  Kept'
<1>t. RunnerTypeOK /\ SingleFlight /\ Busy(w)
  BY DEF IInv, Kept, TypeOK, DocumentDone, Busy
<1>1. docVersion' = docVersion + 1 /\ docVersion' \in Nat /\ docVersion' > 0 /\ docVersion + 1 \in Nat
  BY <1>t DEF DocumentDone, RunnerTypeOK
<1>2. EnterMockupStage(w, isUi, "documented", docVersion + 1, docVersion + 1)
      /\ isUi' = isUi /\ mockups' = mockups
  BY DEF DocumentDone, stage
<1>3. SingleFlight' /\ JobsOK' /\ StatusMatchesStore'
  BY <1>t, <1>1, <1>2, EnterKeeps DEF RunnerTypeOK
<1>4. EarlyOK'
  BY <1>1, <1>2 DEF EarlyOK, EnterMockupStage
<1>5. RoundsWithinBudget'
  BY DEF DocumentDone, RoundsWithinBudget, RoundBudget, IInv, Kept
<1> QED
  BY <1>3, <1>4, <1>5 DEF Kept

(* A classification publishes no status without its document.               *)
LEMMA ClassifyKeeps ==
  ASSUME IInv, NEW w \in Workers, ClassifyDone(w)
  PROVE  Kept'
<1>t. RunnerTypeOK /\ SingleFlight /\ Busy(w)
  BY DEF IInv, Kept, TypeOK, ClassifyDone, Busy
<1>1. status = "documented" /\ docVersion > 0 /\ docVersion \in Nat /\ docVersion' = docVersion
      /\ mockups' = mockups /\ jobs[w].doc \in Nat
  BY <1>t DEF IInv, Kept, JobsOK, JobOK, ClassifyDone, document, RunnerTypeOK, Job
<1>2. PICK ui \in UiAnswers : isUi' = ui /\ EnterMockupStage(w, ui, status, jobs[w].doc, docVersion)
  BY DEF ClassifyDone
<1>3. ui \in {"unknown", "yes", "no"}
  BY RunnerAssumption
<1>4. SingleFlight' /\ JobsOK' /\ StatusMatchesStore'
  BY <1>t, <1>1, <1>2, <1>3, EnterKeeps
<1>5. EarlyOK'
  BY <1>1, <1>2 DEF EarlyOK, EnterMockupStage, IInv, Kept
<1>6. RoundsWithinBudget'
  BY DEF ClassifyDone, RoundsWithinBudget, RoundBudget, IInv, Kept
<1> QED
  BY <1>4, <1>5, <1>6 DEF Kept

(* An instruction writes a document and nothing a status rests on.          *)
LEMMA InstructDoneKeeps ==
  ASSUME IInv, NEW w \in Workers, InstructDone(w)
  PROVE  Kept'
<1>1. SingleFlight' /\ JobsOK'
  BY FinishAlone DEF IInv, Kept, TypeOK, RunnerTypeOK, InstructDone, Busy
<1>2. docVersion' >= docVersion /\ docVersion \in Nat /\ docVersion' \in Nat
  BY DEF InstructDone, IInv, TypeOK, RunnerTypeOK
<1> QED
  BY <1>1, <1>2 DEF InstructDone, IInv, Kept, EarlyOK, RoundsWithinBudget, RoundBudget,
     StatusMatchesStore, Reviewable, Open, Latest, stage

(* A drawn mockup is open, and backs the mockup stage.                      *)
LEMMA DrawDoneKeeps ==
  ASSUME IInv, NEW w \in Workers, DrawDone(w)
  PROVE  Kept'
<1>t. RunnerTypeOK
  BY DEF IInv, TypeOK
<1>1. SingleFlight' /\ JobsOK'
  BY FinishAlone DEF IInv, Kept, TypeOK, RunnerTypeOK, DrawDone, Busy
<1>2. docVersion' > 0 /\ isUi' = isUi /\ roundCount' = roundCount /\ resumes' = resumes
      /\ (status' = "mockup" => isUi = "yes") /\ (status' # status => status' = "mockup")
  BY DEF DrawDone, document, IInv, Kept, JobsOK, JobOK, StatusMatchesStore
<1>3. mockups' = Append(mockups, NewMockup(jobs[w])) /\ NewMockup(jobs[w]).convergence = "iterating"
  BY DEF DrawDone, NewMockup
<1>4. mockups' # <<>> /\ mockups'[Len(mockups')] = NewMockup(jobs[w])
  <2>1. NewMockup(jobs[w]) \in Mockup /\ mockups \in Seq(Mockup)
    BY <1>t DEF NewMockup, Mockup, Directions, RunnerTypeOK, Job
  <2> QED
    BY <1>3, <2>1, AppendProperties
<1>5. Open'
  BY <1>3, <1>4 DEF Open, Latest
<1> QED
  BY <1>1, <1>2, <1>5 DEF IInv, Kept, EarlyOK, RoundsWithinBudget, RoundBudget, StatusMatchesStore

(* An approval leaves the mockup stage with the mockup closed.              *)
LEMMA ApproveDoneKeeps ==
  ASSUME IInv, NEW w \in Workers, ApproveDone(w)
  PROVE  Kept'
<1>1. SingleFlight' /\ JobsOK'
  BY FinishAlone DEF IInv, Kept, TypeOK, RunnerTypeOK, ApproveDone, Busy
<1>2. docVersion' > 0 /\ roundCount' = roundCount /\ resumes' = resumes /\ status' = "documented"
  BY DEF ApproveDone, IInv, TypeOK, RunnerTypeOK
<1> QED
  BY <1>1, <1>2 DEF IInv, Kept, EarlyOK, RoundsWithinBudget, RoundBudget, StatusMatchesStore, Reviewable

(* A failure only ends the job.                                             *)
LEMMA FailKeeps ==
  ASSUME IInv, NEW w \in Workers, Fail(w)
  PROVE  Kept'
<1>1. SingleFlight' /\ JobsOK'
  BY FinishAlone DEF IInv, Kept, TypeOK, RunnerTypeOK, Fail
<1> QED
  BY <1>1 DEF Fail, dialogue, document, stage, IInv, Kept, EarlyOK, RoundsWithinBudget, RoundBudget,
     StatusMatchesStore, Reviewable, Open, Latest

(* The first question of a session may be counted.                          *)
LEMMA StartKeeps ==
  ASSUME IInv, NEW w \in Workers, Background(w), status \in {"absent", "intake"},
         OpenSession(w) \/ StartClarification(w)
  PROVE  Kept'
<1>t. RunnerTypeOK /\ SingleFlight /\ roundCount = 0 /\ RoundBudget > 0 /\ RoundBudget \in Nat
  BY BudgetGrows, BudgetType DEF IInv, Kept, TypeOK, EarlyOK, RunnerTypeOK
<1>1. PICK job \in Job : Wait(w, job) /\ job.op = "question" /\ job.count = roundCount
  <2>1. Wait(w, QuestionJob(FALSE, roundCount)) /\ QuestionJob(FALSE, roundCount) \in Job
    BY <1>t, QuestionJobType DEF OpenSession, StartClarification, RunnerTypeOK
  <2>2. QuestionJob(FALSE, roundCount).op = "question" /\ QuestionJob(FALSE, roundCount).count = roundCount
    BY DEF QuestionJob, Idle
  <2> QED
    BY <2>1, <2>2
<1>2. /\ roundCount' = roundCount /\ resumes' = resumes /\ status' = "intake"
      /\ docVersion' = docVersion /\ mockups' = mockups /\ RoundBudget' = RoundBudget
  BY DEF OpenSession, StartClarification, dialogue, document, stage, RoundBudget
<1>3. JobOK(job)'
  BY <1>t, <1>1, <1>2 DEF JobOK
<1>4. SingleFlight' /\ JobsOK'
  BY <1>t, <1>1, <1>3, WaitAlone DEF RunnerTypeOK
<1> QED
  BY <1>t, <1>2, <1>4 DEF IInv, Kept, EarlyOK, RoundsWithinBudget, StatusMatchesStore, Reviewable

(* A judgement starts with the count the session has now.                   *)
LEMMA JudgeKeeps ==
  ASSUME IInv, NEW w \in Workers, Background(w), NEW correction \in BOOLEAN, NEW append \in BOOLEAN,
         Judge(w, correction, append)
  PROVE  Kept'
<1>t. RunnerTypeOK /\ SingleFlight
  BY DEF IInv, Kept, TypeOK
<1>1. PICK job \in Job : Wait(w, job) /\ job.op = "judge" /\ job.count = roundCount
  <2>1. Wait(w, JudgeJob(correction)) /\ JudgeJob(correction) \in Job
    BY <1>t, JudgeJobType DEF Judge, RunnerTypeOK
  <2>2. JudgeJob(correction).op = "judge" /\ JudgeJob(correction).count = roundCount
    BY DEF JudgeJob, Idle
  <2> QED
    BY <2>1, <2>2
<1>2. /\ roundCount' = roundCount /\ resumes' \in {resumes, resumes + 1}
      /\ status' = status \/ status' = "clarifying"
      /\ UNCHANGED <<document, stage>>
  BY DEF Judge, Resume
<1>3. JobOK(job)'
  BY <1>1, <1>2 DEF JobOK
<1>4. SingleFlight' /\ JobsOK'
  BY <1>t, <1>1, <1>3, WaitAlone DEF RunnerTypeOK
<1>5. RoundsWithinBudget'
  <2>1. resumes \in Nat /\ roundCount \in Nat /\ RoundBudget \in Nat /\ resumes' \in Nat
    BY <1>t, <1>2, BudgetType DEF RunnerTypeOK
  <2>2. RoundBudget' >= RoundBudget
    BY <1>2, <2>1, BudgetGrows
  <2>3. RoundBudget' \in Nat
    <3>1. \A r \in Nat : MaxRounds * (1 + r) \in Nat
      BY RunnerAssumption
    <3> QED
      BY <2>1, <3>1 DEF RoundBudget
  <2> QED
    BY <1>2, <2>1, <2>2, <2>3 DEF RoundsWithinBudget, IInv, Kept
<1> QED
  BY <1>2, <1>4, <1>5 DEF IInv, Kept, EarlyOK, StatusMatchesStore, Reviewable, Open, Latest, document, stage

(* Steps that leave the jobs and what they rely on alone.                   *)
LEMMA FrameKeeps ==
  ASSUME IInv, jobs' = jobs, roundCount' = roundCount, resumes' = resumes, status' = status,
         Gap(slots') = Gap(slots), isUi' = isUi, docVersion' >= docVersion, docVersion' \in Nat,
         DOMAIN mockups' = DOMAIN mockups, (mockups = <<>>) = (mockups' = <<>>), Open => Open'
  PROVE  Kept'
<1>1. docVersion \in Nat
  BY DEF IInv, TypeOK, RunnerTypeOK
<1>2. SingleFlight' /\ JobsOK'
  BY <1>1, JobsFramed DEF IInv, Kept
<1> QED
  BY <1>1, <1>2 DEF IInv, Kept, EarlyOK, RoundsWithinBudget, RoundBudget, StatusMatchesStore, Reviewable

(* A reply is answered by the guide or starts a judgement.                  *)
LEMMA ProcessReplyKeeps ==
  ASSUME IInv, NEW w \in Workers, Background(w), NEW correction \in BOOLEAN, NEW append \in BOOLEAN,
         ProcessReply(w, correction, append), slots' = slots
  PROVE  Kept'
<1>1. ASSUME Guide(append) PROVE Kept'
  <2>1. docVersion \in Nat /\ UNCHANGED <<roundCount, resumes, status, document, stage, jobs>>
    BY <1>1 DEF Guide, IInv, TypeOK, RunnerTypeOK
  <2>2. Gap(slots') = Gap(slots) /\ docVersion' >= docVersion /\ (Open => Open')
    BY <2>1 DEF Open, Latest, document, stage
  <2> QED
    BY <2>1, <2>2, FrameKeeps DEF document, stage
<1> QED
  BY <1>1, JudgeKeeps DEF ProcessReply

(* A confirmation opens no gap.                                             *)
LEMMA ConfirmKeeps ==
  ASSUME IInv, NEW s \in Slots, ConfirmSlot(s)
  PROVE  Kept'
<1>1. slots \in [Slots -> SlotRow] /\ docVersion \in Nat
  BY DEF IInv, TypeOK, RunnerTypeOK
<1>2. \A t \in Slots : slots'[t].state = slots[t].state
  BY <1>1 DEF ConfirmSlot, SlotRow
<1>3. Gap(slots') = Gap(slots)
  BY <1>2 DEF Gap
<1>4. UNCHANGED <<dialogue, docVersion, stage, jobs>> /\ docVersion' >= docVersion /\ (Open => Open')
  BY <1>1 DEF ConfirmSlot, Open, Latest, stage
<1> QED
  BY <1>1, <1>3, <1>4, FrameKeeps DEF dialogue, stage

(* A denial is dropped only while nothing is in flight that could rely on   *)
(* its slot.                                                                 *)
LEMMA DropKeeps ==
  ASSUME IInv, NEW s \in Slots, DenialTooLong(s), ~InFlight
  PROVE  Kept'
<1>1. UNCHANGED <<dialogue, document, stage, jobs>>
  BY DEF DenialTooLong
<1>2. \A w \in Workers : ~Busy(w) /\ ~Busy(w)'
  BY <1>1 DEF InFlight, Busy
<1>3. SingleFlight' /\ JobsOK'
  BY <1>2 DEF SingleFlight, JobsOK, JobOK, Busy
<1> QED
  BY <1>1, <1>3 DEF IInv, Kept, EarlyOK, RoundsWithinBudget, RoundBudget, StatusMatchesStore, Reviewable,
     Open, Latest, dialogue, document, stage

(* An edit adds a version, which no waiting job relies on.                  *)
LEMMA EditKeeps ==
  ASSUME IInv, NEW paths, EditDocument(paths)
  PROVE  Kept'
<1>1. docVersion \in Nat
  BY DEF IInv, TypeOK, RunnerTypeOK
<1>2. docVersion' \in Nat /\ docVersion' >= docVersion /\ Gap(slots') = Gap(slots) /\ (Open => Open')
      /\ UNCHANGED <<status, roundCount, resumes, stage, jobs>>
  BY <1>1 DEF EditDocument, Open, Latest, stage
<1> QED
  BY <1>2, FrameKeeps DEF stage

(* An instruction that starts relies on nothing.                            *)
LEMMA InstructKeeps ==
  ASSUME IInv, NEW w \in Workers, Background(w), NEW paths \in SUBSET Paths, InstructDocument(w, paths)
  PROVE  Kept'
<1>t. RunnerTypeOK /\ SingleFlight
  BY DEF IInv, Kept, TypeOK
<1>1. PICK job \in Job : Wait(w, job) /\ job.op = "instruct"
  <2> DEFINE j == [Idle EXCEPT !.op = "instruct", !.base = text, !.paths = paths, !.dir = visual]
  <2>1. j \in Job /\ j.op = "instruct"
    BY <1>t, IdleIsJob DEF Idle, Job, Ops, RunnerTypeOK
  <2>2. Wait(w, j)
    BY DEF InstructDocument
  <2> HIDE DEF j
  <2> QED
    BY <2>1, <2>2
<1>2. JobOK(job)'
  BY <1>1 DEF JobOK
<1>3. SingleFlight' /\ JobsOK'
  BY <1>t, <1>1, <1>2, WaitAlone DEF RunnerTypeOK
<1> QED
  BY <1>3 DEF InstructDocument, dialogue, document, stage, IInv, Kept, EarlyOK, RoundsWithinBudget,
     RoundBudget, StatusMatchesStore, Reviewable, Open, Latest

(* A comment closes the mockup only together with its stage.                *)
LEMMA AnnotateKeeps ==
  ASSUME IInv, NEW w \in Workers, Background(w), AnnotateMockup(w)
  PROVE  Kept'
<1>t. RunnerTypeOK /\ SingleFlight /\ mockups # <<>> /\ docVersion > 0 /\ docVersion \in Nat
      /\ UNCHANGED <<roundCount, resumes, slots, docVersion, isUi>>
  BY DEF IInv, Kept, TypeOK, RunnerTypeOK, AnnotateMockup, EarlyOK, document
<1>1. CASE Escalate
  <2>1. jobs' = jobs /\ status' = "documented"
    BY <1>1 DEF Escalate
  <2>2. SingleFlight' /\ JobsOK'
    BY <2>1 DEF Background, SingleFlight, JobsOK, JobOK, Busy
  <2> QED
    BY <1>t, <2>1, <2>2 DEF IInv, Kept, EarlyOK, RoundsWithinBudget, RoundBudget, StatusMatchesStore,
       Reviewable
<1>2. CASE Redraw(w)
  <2>1. PICK job \in Job : Wait(w, job) /\ job.op = "redraw"
    <3> DEFINE j == [Idle EXCEPT !.op = "redraw", !.doc = docVersion, !.read = docVersion]
    <3>1. j \in Job /\ j.op = "redraw"
      BY <1>t, IdleIsJob DEF Idle, Job, Ops
    <3>2. Wait(w, j)
      BY <1>2 DEF Redraw
    <3> HIDE DEF j
    <3> QED
      BY <3>1, <3>2
  <2>2. UNCHANGED <<status, mockups>>
    BY <1>2 DEF Redraw
  <2>3. JobOK(job)'
    BY <1>t, <2>1 DEF JobOK
  <2>4. SingleFlight' /\ JobsOK'
    BY <1>t, <2>1, <2>3, WaitAlone DEF RunnerTypeOK
  <2> QED
    BY <1>t, <2>2, <2>4 DEF IInv, Kept, EarlyOK, RoundsWithinBudget, RoundBudget, StatusMatchesStore,
       Reviewable, Open, Latest
<1> QED
  BY <1>1, <1>2 DEF AnnotateMockup

(* A theme leaves the mockup open.                                          *)
LEMMA ThemeKeeps ==
  ASSUME IInv, NEW choice, SelectMockupTheme(choice)
  PROVE  Kept'
<1>t. mockups \in Seq(Mockup) /\ mockups # <<>> /\ docVersion \in Nat /\ choice \in Directions
  BY DEF IInv, TypeOK, RunnerTypeOK, SelectMockupTheme, Open
<1> DEFINE n == Len(mockups)
<1>1. n \in DOMAIN mockups /\ n \in Nat
  BY <1>t, LatestIsMockup
<1>2. mockups' = [mockups EXCEPT ![n] = [mockups[n] EXCEPT !.theme = choice]]
      /\ [mockups[n] EXCEPT !.theme = choice] \in Mockup
  BY <1>t, <1>1, RowTypes DEF SelectMockupTheme
<1>3. Len(mockups') = n /\ DOMAIN mockups' = DOMAIN mockups /\ mockups' \in Seq(Mockup)
  BY <1>t, <1>1, <1>2, RowChanged
<1>4. mockups' # <<>>
  BY <1>1, <1>3
<1>5. mockups'[n].convergence = mockups[n].convergence
  <2>1. mockups'[n] = [mockups[n] EXCEPT !.theme = choice] /\ mockups[n] \in Mockup
    BY <1>t, <1>1, <1>2
  <2> QED
    BY <2>1 DEF Mockup
<1>6. Open'
  BY <1>3, <1>4, <1>5 DEF SelectMockupTheme, Open, Latest
<1>7. UNCHANGED <<status, roundCount, resumes, slots, docVersion, isUi, jobs>> /\ docVersion' >= docVersion
      /\ Gap(slots') = Gap(slots)
  BY <1>t DEF SelectMockupTheme, document
<1> QED
  BY <1>t, <1>3, <1>4, <1>6, <1>7, FrameKeeps

(* An approval starts while the latest mockup is open.                      *)
LEMMA ApproveKeeps ==
  ASSUME IInv, NEW w \in Workers, Background(w), ApproveMockup(w)
  PROVE  Kept'
<1>t. RunnerTypeOK /\ SingleFlight /\ mockups # <<>>
  BY DEF IInv, Kept, TypeOK, ApproveMockup, Open
<1>1. Len(mockups) \in DOMAIN mockups /\ Len(mockups) \in Nat /\ Latest \in Mockup
  BY <1>t, LatestIsMockup DEF RunnerTypeOK
<1>2. PICK job \in Job : Wait(w, job) /\ job.op = "approve" /\ job.mock = Len(mockups)
  <2> DEFINE j == [Idle EXCEPT !.op = "approve", !.base = text, !.dir = Latest.theme, !.mock = Len(mockups)]
  <2>1. j \in Job /\ j.op = "approve" /\ j.mock = Len(mockups)
    BY <1>t, <1>1, IdleIsJob DEF Idle, Job, Ops, Mockup, RunnerTypeOK
  <2>2. Wait(w, j)
    BY DEF ApproveMockup
  <2> HIDE DEF j
  <2> QED
    BY <2>1, <2>2
<1>3. UNCHANGED <<dialogue, slots, document, stage>>
  BY DEF ApproveMockup
<1>4. JobOK(job)'
  BY <1>t, <1>1, <1>2, <1>3 DEF JobOK, stage
<1>5. SingleFlight' /\ JobsOK'
  BY <1>t, <1>2, <1>4, WaitAlone DEF RunnerTypeOK
<1> QED
  BY <1>3, <1>5 DEF dialogue, document, stage, IInv, Kept, EarlyOK, RoundsWithinBudget, RoundBudget,
     StatusMatchesStore, Reviewable, Open, Latest

(* A retry is one of the operations above, at the status that asks for it.  *)
LEMMA RetryKeeps ==
  ASSUME IInv, NEW w \in Workers, Background(w), RetryRound(w)
  PROVE  Kept'
<1>t. RunnerTypeOK /\ SingleFlight
  BY DEF IInv, Kept, TypeOK
<1>1. CASE PendingRound = "clarification" /\ StartClarification(w)
  <2>1. status = "intake"
    BY <1>t, <1>1 DEF PendingRound, RunnerTypeOK
  <2> QED
    BY <1>1, <2>1, StartKeeps
<1>2. CASE PendingRound = "mockup" /\ RetryMockup(w)
  <2>1. status = "documented" /\ docVersion > 0 /\ docVersion \in Nat
    BY <1>t, <1>2 DEF PendingRound, RunnerTypeOK, IInv, Kept, StatusMatchesStore, Reviewable
  <2>2. UNCHANGED <<roundCount, resumes, docVersion, isUi, mockups>>
    BY <1>2 DEF RetryMockup, document, stage
  <2>3. SingleFlight' /\ JobsOK' /\ StatusMatchesStore'
    BY <1>t, <1>2, <2>1, <2>2, EnterKeeps DEF RetryMockup, RunnerTypeOK
  <2>4. status' \in {"mockup", "documented"}
    BY <1>2, <2>1 DEF RetryMockup, EnterMockupStage
  <2> QED
    BY <2>2, <2>3, <2>4 DEF IInv, Kept, EarlyOK, RoundsWithinBudget, RoundBudget
<1>3. CASE RetryJudgement(w)
  BY <1>3, ProcessReplyKeeps DEF RetryJudgement
<1> QED
  BY <1>1, <1>2, <1>3 DEF RetryRound

(* A restart ends every job and writes nothing.                             *)
LEMMA CrashKeeps ==
  ASSUME IInv, Restart
  PROVE  Kept'
<1>1. \A w \in Workers : jobs'[w] = Idle
  BY DEF Restart
<1>2. SingleFlight' /\ JobsOK'
  BY <1>1, JobFields DEF SingleFlight, Busy, JobsOK, JobOK
<1> QED
  BY <1>2 DEF Restart, dialogue, document, stage, IInv, Kept, EarlyOK, RoundsWithinBudget, RoundBudget,
     StatusMatchesStore, Reviewable, Open, Latest

(* A session whose uploads are refused has an utterance and nothing else.   *)
LEMMA RefusedKeeps ==
  ASSUME IInv, OpenSessionRefused
  PROVE  Kept'
<1>1. /\ status = "absent" /\ status' = "intake" /\ docVersion' = docVersion /\ jobs' = jobs
      /\ UNCHANGED <<roundCount, resumes, slots, isUi, mockups>>
  BY DEF OpenSessionRefused, document, stage
<1>2. RoundBudget' = RoundBudget /\ Gap(slots)' = Gap(slots)
  BY <1>1 DEF RoundBudget, Gap
<1>3. SingleFlight' /\ JobsOK'
  BY <1>1, <1>2 DEF IInv, Kept, SingleFlight, Busy, JobsOK, JobOK
<1> QED
  BY <1>1, <1>2, <1>3 DEF IInv, Kept, EarlyOK, RoundsWithinBudget, StatusMatchesStore, Reviewable

(* The end of any background operation.                                     *)
LEMMA WorkKeeps ==
  ASSUME IInv, NEW w \in Workers, Work(w)
  PROVE  Kept'
  BY QuestionKeeps, JudgeDoneKeeps, PromoteKeeps, DocumentKeeps, InstructDoneKeeps, ClassifyKeeps,
     DrawDoneKeeps, ApproveDoneKeeps, FailKeeps DEF Work, JobDone

(* Steps that touch the pending request only.                               *)
LEMMA IdleKeeps ==
  ASSUME IInv, UNCHANGED runnerVars
  PROVE  Kept'
<1>1. docVersion \in Nat /\ UNCHANGED <<dialogue, slots, document, stage, jobs>>
  BY DEF IInv, TypeOK, RunnerTypeOK, runnerVars
<1>2. UNCHANGED <<status, roundCount, resumes, docVersion, isUi, mockups, jobs>>
      /\ docVersion' >= docVersion /\ Gap(slots') = Gap(slots) /\ (Open => Open')
  BY <1>1 DEF dialogue, document, stage, Open, Latest
<1> QED
  BY <1>1, <1>2, FrameKeeps

(* Every step of the session keeps the invariant.                           *)
LEMMA KeptStep == IInv /\ [Next]_vars => Kept'
<1> SUFFICES ASSUME IInv, [Next]_vars PROVE Kept'
  OBVIOUS
<1>1. ASSUME PostSession PROVE Kept'
  <2>1. ASSUME NEW w \in Workers, OpenSession(w) PROVE Kept'
    <3>1. status = "absent" /\ Background(w)
      BY <2>1 DEF OpenSession, Background, IInv, AbsentOK
    <3> QED
      BY <2>1, <3>1, StartKeeps
  <2> QED
    BY <1>1, <2>1, RefusedKeeps DEF PostSession
<1>2. ASSUME ReplyBody PROVE Kept'
  <2>1. PICK w \in Workers : Background(w) /\ ProcessReply(w, FALSE, TRUE) /\ slots' = slots
    BY <1>2 DEF ReplyBody, HandleReply
  <2> QED
    BY <2>1, ProcessReplyKeeps
<1>3. ASSUME Confirm PROVE Kept'
  BY <1>3, ConfirmKeeps DEF Confirm
<1>4. ASSUME DenialBody PROVE Kept'
  <2>1. PICK w \in Workers : Background(w) /\ Judge(w, TRUE, TRUE)
    BY <1>4 DEF DenialBody, DenySlot
  <2> QED
    BY <2>1, JudgeKeeps
<1>5. ASSUME Edit PROVE Kept'
  BY <1>5, EditKeeps DEF Edit
<1>6. ASSUME Instruct PROVE Kept'
  BY <1>6, InstructKeeps DEF Instruct
<1>7. ASSUME CommentBody PROVE Kept'
  BY <1>7, AnnotateKeeps DEF CommentBody
<1>8. ASSUME Theme PROVE Kept'
  BY <1>8, ThemeKeeps DEF Theme
<1>9. ASSUME Approve PROVE Kept'
  BY <1>9, ApproveKeeps DEF Approve
<1>10. ASSUME Retry PROVE Kept'
  BY <1>10, RetryKeeps DEF Retry
<1>11. ASSUME Crash PROVE Kept'
  BY <1>11, CrashKeeps DEF Crash
<1>12. ASSUME UNCHANGED runnerVars PROVE Kept'
  BY <1>12, IdleKeeps
<1>13. ASSUME DenialDropped PROVE Kept'
  BY <1>13, DropKeeps DEF DenialDropped
<1> QED
  BY <1>1, <1>2, <1>3, <1>4, <1>5, <1>6, <1>7, <1>8, <1>9, <1>10, <1>11, <1>12, <1>13, WorkKeeps
  DEF Next, ReplyHeaders, DenialHeaders, CommentHeaders, Receive, Refuse,
      ReplyRefused, DenialRefused, CommentRefused, Abandon, vars

(* Where a step takes the status: only the promotion judge closes a         *)
(* session, and no step makes it absent.                                    *)
LEMMA StatusMoves ==
  ASSUME IInv, [Next]_vars
  PROVE  \/ status' = status
         \/ status' \notin {"absent", "closed"}
         \/ \E w \in Workers : PromoteDone(w)
<1> DEFINE Moved == status' = status \/ status' \notin {"absent", "closed"}
<1>1. ASSUME NEW w \in Workers, JobDone(w), ~PromoteDone(w) PROVE Moved
  <2>1. ASSUME DocumentDone(w) PROVE Moved
    BY <2>1 DEF DocumentDone, EnterMockupStage
  <2>2. ASSUME ClassifyDone(w) PROVE Moved
    BY <2>2 DEF ClassifyDone, EnterMockupStage
  <2>3. ASSUME JudgeDone(w) PROVE Moved
    BY <2>3 DEF JudgeDone, dialogue
  <2> QED
    BY <1>1, <2>1, <2>2, <2>3 DEF JobDone, QuestionDone, InstructDone, DrawDone, ApproveDone
<1>2. ASSUME NEW w \in Workers, NEW correction, NEW append, ProcessReply(w, correction, append) PROVE Moved
  BY <1>2 DEF ProcessReply, Guide, Judge, Resume
<1>3. ASSUME NEW w \in Workers, RetryRound(w) PROVE Moved
  <2>1. ASSUME StartClarification(w) PROVE Moved
    BY <2>1 DEF StartClarification, dialogue
  <2>2. ASSUME RetryMockup(w) PROVE Moved
    BY <2>2 DEF RetryMockup, EnterMockupStage
  <2> QED
    BY <1>2, <1>3, <2>1, <2>2 DEF RetryRound, RetryJudgement
<1>4. ASSUME PostSession PROVE Moved
  BY <1>4 DEF PostSession, OpenSession, OpenSessionRefused
<1>5. ASSUME ReplyBody \/ DenialBody PROVE Moved
  <2>1. PICK w \in Workers : HandleReply(w) \/ \E s \in Slots : DenySlot(w, s)
    BY <1>5 DEF ReplyBody, DenialBody
  <2>2. ASSUME Judge(w, TRUE, TRUE) PROVE Moved
    BY <2>2, <1>2 DEF ProcessReply
  <2> QED
    BY <1>2, <2>1, <2>2 DEF HandleReply, DenySlot
<1>6. ASSUME Confirm \/ DenialDropped \/ Edit \/ Instruct \/ Theme \/ Approve \/ Crash PROVE Moved
  BY <1>6 DEF Confirm, ConfirmSlot, DenialDropped, DenialTooLong, Edit, EditDocument, Instruct, InstructDocument, Theme,
     SelectMockupTheme, Approve, ApproveMockup, Crash, Restart, dialogue
<1>7. ASSUME CommentBody PROVE Moved
  BY <1>7 DEF CommentBody, AnnotateMockup, Escalate, Redraw
<1>8. ASSUME Retry PROVE Moved
  BY <1>3, <1>8 DEF Retry
<1>9. ASSUME NEW w \in Workers, Fail(w) PROVE Moved
  BY <1>9 DEF Fail, dialogue
<1>10. ASSUME UNCHANGED runnerVars PROVE Moved
  BY <1>10 DEF runnerVars, dialogue
<1> QED
  BY <1>1, <1>4, <1>5, <1>6, <1>7, <1>8, <1>9, <1>10
  DEF Next, Work, ReplyHeaders, DenialHeaders, CommentHeaders, Receive, Refuse,
      ReplyRefused, DenialRefused, CommentRefused, Abandon, vars

(* A session without a row takes no request but the one that opens it.      *)
LEMMA AbsentStep == IInv /\ [Next]_vars => AbsentOK'
<1> SUFFICES ASSUME IInv, [Next]_vars, status' = "absent"
             PROVE  docVersion' = 0 /\ \A w \in Workers : ~Busy(w)'
  BY DEF AbsentOK
<1>1. status = "absent"
  BY StatusMoves DEF PromoteDone, Hold, dialogue
<1>2. docVersion = 0 /\ mockups = <<>> /\ \A w \in Workers : ~Busy(w)
  BY <1>1 DEF IInv, Kept, EarlyOK, AbsentOK
<1>3. ~PostSession
  BY DEF PostSession, OpenSession, OpenSessionRefused
<1>4. ~ReplyBody /\ ~DenialBody /\ ~DenialDropped /\ ~Confirm
  BY <1>1 DEF ReplyBody, HandleReply, ProcessReply, Guide, Judge, DenialBody, DenySlot, DenialDropped,
     DenialTooLong, Confirm, ConfirmSlot, Reviewable
<1>5. ~Edit /\ ~Instruct /\ ~CommentBody /\ ~Theme /\ ~Approve
  BY <1>2 DEF Edit, EditDocument, Instruct, InstructDocument, CommentBody, AnnotateMockup, Theme,
     SelectMockupTheme, Approve, ApproveMockup, Open
<1>6. ~Retry
  BY <1>1 DEF Retry, PendingRound
<1>7. \A w \in Workers : ~Work(w)
  BY <1>2 DEF Work, JobDone, Fail, Busy, QuestionDone, JudgeDone, PromoteDone, DocumentDone,
     InstructDone, ClassifyDone, DrawDone, ApproveDone
<1>8. ASSUME UNCHANGED runnerVars PROVE docVersion' = 0 /\ \A w \in Workers : ~Busy(w)'
  BY <1>2, <1>8 DEF runnerVars, document, Busy
<1>9. ASSUME Crash PROVE docVersion' = 0 /\ \A w \in Workers : ~Busy(w)'
  BY <1>2, <1>9, JobFields DEF Crash, Restart, document, Busy
<1> QED
  BY <1>3, <1>4, <1>5, <1>6, <1>7, <1>8, <1>9
  DEF Next, ReplyHeaders, DenialHeaders, CommentHeaders, Receive, Refuse,
      ReplyRefused, DenialRefused, CommentRefused, Abandon, vars

(* A server that starts knows no session.                                   *)
LEMMA InitHolds == Init => IInv
<1> SUFFICES ASSUME Init PROVE IInv
  OBVIOUS
<1>1. jobs \in [Workers -> Job] /\ text \in Texts /\ \A w \in Workers : jobs[w] = Idle
  BY IdleIsJob DEF Init, RunnerInit
<1>2. slots \in [Slots -> SlotRow]
  BY DEF Init, RunnerInit, Empty, SlotRow
<1>3. TypeOK
  <2>1. req \in Request
    BY DEF Init, NoRequest, Request
  <2>2. mockups \in Seq(Mockup) /\ completed \subseteq 1 .. docVersion
    BY DEF Init, RunnerInit
  <2>3. visual \in Directions
    BY DEF Init, RunnerInit, Directions
  <2>4. roundCount \in Nat /\ resumes \in Nat /\ asked \in Nat /\ docVersion \in Nat
        /\ answered \in BOOLEAN /\ said \in {"agent", "reply", "comment"}
        /\ isUi \in {"unknown", "yes", "no"}
        /\ status \in {"absent", "intake", "clarifying", "documented", "mockup", "closed"}
    BY DEF Init, RunnerInit
  <2> QED
    BY <1>1, <1>2, <2>1, <2>2, <2>3, <2>4 DEF TypeOK, RunnerTypeOK
<1>4. SingleFlight /\ JobsOK /\ AbsentOK
  BY <1>1, JobFields DEF Init, RunnerInit, SingleFlight, Busy, JobsOK, JobOK, AbsentOK
<1>5. RoundsWithinBudget
  BY BudgetType DEF Init, RunnerInit, RoundsWithinBudget
<1> QED
  BY <1>3, <1>4, <1>5 DEF IInv, Kept, Init, RunnerInit, EarlyOK, StatusMatchesStore, Reviewable

-----------------------------------------------------------------------------
(* The inductive invariant of a session behind the web adapter: types, one  *)
(* operation in flight, and what it relies on when its LLM call returns.    *)
THEOREM Invariance == Spec => []IInv
<1>1. IInv /\ [Next]_vars => IInv'
  BY TypeStep, KeptStep, AbsentStep DEF IInv, Kept
<1> QED
  BY <1>1, InitHolds, PTL DEF Spec

(* Every row, signal and job keeps its type; every completion names a       *)
(* version of the document that exists.                                     *)
THEOREM TypesHold == Spec => []TypeOK
<1>1. IInv => TypeOK
  BY DEF IInv
<1> QED
  BY <1>1, Invariance, PTL

(* No history of replies, retries, corrections, failures and restarts       *)
(* counts more rounds than the budget and its resumptions grant.            *)
THEOREM RoundsHold == Spec => []RoundsWithinBudget
<1>1. IInv => RoundsWithinBudget
  BY DEF IInv, Kept
<1> QED
  BY <1>1, Invariance, PTL

(* A status shown to the requester is backed by what the store holds.       *)
THEOREM StatusHolds == Spec => []StatusMatchesStore
<1>1. IInv => StatusMatchesStore
  BY DEF IInv, Kept
<1> QED
  BY <1>1, Invariance, PTL

(* A session closes only at the promotion judge, whose verdict is about the *)
(* gap the slot table still has when it returns.                            *)
THEOREM HoldsAreEarned == Spec => HoldIsEarned
<1>1. IInv /\ [Next]_vars =>
        [status # "closed" /\ status' = "closed"
           => roundCount >= RoundBudget /\ Gap(slots) # {} /\ slots' = slots]_vars
  <2> SUFFICES ASSUME IInv, [Next]_vars, status # "closed", status' = "closed"
               PROVE  roundCount >= RoundBudget /\ Gap(slots) # {} /\ slots' = slots
    OBVIOUS
  <2>1. PICK w \in Workers : PromoteDone(w)
    BY StatusMoves
  <2>2. roundCount >= RoundBudget /\ jobs[w].gap = Gap(slots) /\ Gap(slots) # {}
    BY <2>1 DEF IInv, Kept, JobsOK, JobOK, PromoteDone
  <2>3. slots \in [Slots -> SlotRow]
    BY DEF IInv, TypeOK, RunnerTypeOK
  <2>4. PICK promotable \in SUBSET Gap(slots) :
          /\ slots' = Promoted(Gap(slots), promotable)
          /\ ~(promotable = Gap(slots) /\ Gap(Promoted(Gap(slots), promotable)) = {})
    BY <2>1, <2>2 DEF PromoteDone, dialogue
  <2>5. promotable # Gap(slots)
    <3>1. Gap(Promoted(Gap(slots), Gap(slots))) = {}
      BY <2>3 DEF Gap, Promoted
    <3> QED
      BY <2>4, <3>1
  <2>6. slots' = slots
    BY <2>3, <2>4, <2>5 DEF Promoted
  <2> QED
    BY <2>2, <2>6
<1> QED
  BY <1>1, Invariance, PTL DEF Spec, HoldIsEarned

(* Nothing reopens a slot between the judgement that found no gap and the   *)
(* delivery of the document it led to.                                      *)
THEOREM DeliveriesHaveNoGap == Spec => DeliveredWithoutGap
<1>1. IInv => \A w \in Workers : DocumentDone(w) => Gap(slots) = {}
  BY DEF IInv, Kept, JobsOK, JobOK, DocumentDone
<1>2. IInv /\ [Next]_vars => [\A w \in Workers : DocumentDone(w) => Gap(slots) = {}]_vars
  BY <1>1
<1> QED
  BY <1>2, Invariance, PTL DEF Spec, DeliveredWithoutGap

-----------------------------------------------------------------------------
(***************************************************************************)
(* The mockups of a session, the words its counted rounds react to, and     *)
(* that the pages see it move as Journey says.  These rest on IInv and on   *)
(* two more: what the operations of the mockup stage rely on while they     *)
(* wait (StageOK), and who spoke last while there is no document (WordsOK). *)
(***************************************************************************)

(* What a waiting operation of the mockup stage may rely on: the mockup it  *)
(* approves stays the latest, open and decided, the one it draws is the     *)
(* first, and the regeneration it works on is within the budget.            *)
StageJobOK(job) ==
  /\ job.op = "approve" =>
       job.mock = Len(mockups) /\ Open /\ Latest.theme # "none" /\ job.dir # "none"
  /\ job.op = "draw" => mockups = <<>>
  /\ job.op = "redraw" => mockups # <<>> /\ IterationsUsed < MaxIterations
  /\ job.op = "instruct" => docVersion > 0

StageJobsOK == \A w \in Workers : StageJobOK(jobs[w])
StageOK     == StageJobsOK /\ IterationsWithinBudget

(* Before the first document the requester has had the last word whenever   *)
(* no question is open, and so it is while a judgement or the question it    *)
(* led to is under way.                                                     *)
WaitsForWords(job) == job.op = "judge" \/ (job.op = "question" /\ ~job.correction)

WordsOK ==
  /\ ~answered => said = "agent"
  /\ docVersion = 0 =>
       /\ status = "intake" \/ (status = "clarifying" /\ answered) => said # "agent"
       /\ \A w \in Workers : WaitsForWords(jobs[w]) => said # "agent"

SessionInv == IInv /\ StageOK /\ WordsOK

-----------------------------------------------------------------------------
(* The highest of a non-empty set of indices is one of them.                *)
LEMMA MaxExists ==
  ASSUME NEW n \in Nat, NEW T \in SUBSET (0 .. n), T # {}
  PROVE  Max(T) \in T /\ \A y \in T : Max(T) >= y
<1> DEFINE U == {n - x : x \in T}
           Less == {ss \in Nat \X Nat : ss[1] < ss[2]}
<1>1. \A x \in T : x \in Nat /\ n - x \in Nat
  OBVIOUS
<1>2. IsWellFoundedOn(Less, Nat)
  BY NatLessThanWellFounded DEF OpToRel
<1>3. PICK u \in U : \A v \in U : <<v, u>> \notin Less
  <2>1. U \subseteq Nat /\ U # {}
    BY <1>1
  <2> HIDE DEF U, Less
  <2> QED
    BY <1>2, <2>1, WFMin, Zenon
<1>4. PICK m \in T : u = n - m
  BY <1>3
<1>5. ASSUME NEW y \in T PROVE m >= y
  <2>1. y \in Nat /\ m \in Nat /\ n - y \in Nat /\ n - m \in Nat /\ n - y \in U
    BY <1>1
  <2>2. ~(n - y < n - m)
    BY <1>3, <1>4, <2>1
  <2> QED
    BY <2>1, <2>2
<1>6. \E x \in T : \A y \in T : x >= y
  BY <1>5
<1> QED
  BY <1>6, Zenon DEF Max

(* The mockups that were closed, of a list of them.                         *)
ClosedOf(s) == {i \in DOMAIN s : Closed(s[i])}

(* How many regenerations a list of mockups counts.                         *)
UsedOf(s) == IF ClosedOf(s) # {} THEN Len(s) - Max(ClosedOf(s))
             ELSE IF s = <<>> THEN 0 ELSE Len(s) - 1

(* The budget's counter is a function of the list of mockups only.          *)
LEMMA UsedIsUsedOf == IterationsUsed = UsedOf(mockups)
  BY DEF IterationsUsed, UsedOf, ClosedOf

(* Closed mockups are among the versions there are, the last one before or  *)
(* at the latest.                                                           *)
LEMMA LastClosed ==
  ASSUME NEW s \in Seq(Mockup), ClosedOf(s) # {}
  PROVE  /\ Max(ClosedOf(s)) \in ClosedOf(s) /\ Max(ClosedOf(s)) \in 1 .. Len(s)
         /\ \A i \in ClosedOf(s) : Max(ClosedOf(s)) >= i
<1>1. Len(s) \in Nat /\ DOMAIN s = 1 .. Len(s)
  BY LenProperties
<1>2. ClosedOf(s) \in SUBSET (0 .. Len(s)) /\ ClosedOf(s) \subseteq 1 .. Len(s)
  BY <1>1 DEF ClosedOf
<1> QED
  BY <1>1, <1>2, MaxExists

(* The counter is a natural number.                                         *)
LEMMA UsedType == ASSUME NEW s \in Seq(Mockup) PROVE UsedOf(s) \in Nat
<1>1. Len(s) \in Nat /\ (s # <<>> => Len(s) > 0)
  BY LenProperties, EmptySeq
<1>2. CASE ClosedOf(s) # {}
  BY <1>1, <1>2, LastClosed DEF UsedOf
<1>3. CASE ClosedOf(s) = {}
  BY <1>1, <1>3 DEF UsedOf
<1> QED
  BY <1>2, <1>3

(* A new mockup adds one to the counter, the first none.                    *)
LEMMA UsedAppend ==
  ASSUME NEW s \in Seq(Mockup), NEW m \in Mockup, m.convergence = "iterating"
  PROVE  UsedOf(Append(s, m)) = IF s = <<>> THEN 0 ELSE UsedOf(s) + 1
<1> DEFINE t == Append(s, m)
<1>1. Len(s) \in Nat /\ DOMAIN s = 1 .. Len(s) /\ t \in Seq(Mockup) /\ Len(t) = Len(s) + 1
      /\ DOMAIN t = 1 .. Len(t) /\ t[Len(s) + 1] = m /\ \A i \in 1 .. Len(s) : t[i] = s[i]
  BY LenProperties, AppendProperties
<1>2. t # <<>> /\ (s = <<>> => Len(s) = 0)
  BY <1>1
<1>3. ClosedOf(t) = ClosedOf(s)
  <2>1. ~Closed(m)
    BY DEF Closed
  <2>2. \A i \in DOMAIN t : i = Len(s) + 1 \/ i \in DOMAIN s
    BY <1>1
  <2>3. DOMAIN s \subseteq DOMAIN t
    BY <1>1
  <2> HIDE DEF t
  <2> QED
    BY <1>1, <2>1, <2>2, <2>3 DEF ClosedOf
<1>4. s = <<>> => ClosedOf(s) = {}
  BY <1>1 DEF ClosedOf
<1>5. ASSUME ClosedOf(s) # {} PROVE UsedOf(t) = IF s = <<>> THEN 0 ELSE UsedOf(s) + 1
  <2>1. Max(ClosedOf(s)) \in 1 .. Len(s)
    BY <1>5, LastClosed
  <2> HIDE DEF t
  <2> QED
    BY <1>1, <1>3, <1>4, <1>5, <2>1 DEF UsedOf
<1>6. ASSUME ClosedOf(s) = {} PROVE UsedOf(t) = IF s = <<>> THEN 0 ELSE UsedOf(s) + 1
  <2> HIDE DEF t
  <2> QED
    BY <1>1, <1>2, <1>3, <1>6 DEF UsedOf
<1> QED
  BY <1>5, <1>6

(* Closing the latest mockup starts a new segment.                          *)
LEMMA UsedClosed ==
  ASSUME NEW s \in Seq(Mockup), NEW t \in Seq(Mockup), Len(t) = Len(s), Len(s) > 0,
         Closed(t[Len(t)])
  PROVE  UsedOf(t) = 0
<1>1. Len(t) \in Nat /\ Len(t) \in DOMAIN t
  BY LenProperties
<1>2. Len(t) \in ClosedOf(t)
  BY <1>1 DEF ClosedOf
<1>3. Max(ClosedOf(t)) = Len(t)
  BY <1>1, <1>2, LastClosed
<1> QED
  BY <1>1, <1>2, <1>3 DEF UsedOf

(* A used-up budget means that the latest mockup is open.                   *)
LEMMA UsedUpIsOpen ==
  ASSUME mockups \in Seq(Mockup), mockups # <<>>, IterationsUsed >= MaxIterations
  PROVE  Open
<1>1. Latest \in Mockup /\ Latest = mockups[Len(mockups)] /\ Len(mockups) \in Nat
      /\ Len(mockups) \in DOMAIN mockups /\ DOMAIN mockups = 1 .. Len(mockups)
  BY LatestIsMockup
<1>2. ~Closed(Latest)
  <2> SUFFICES ASSUME Closed(Latest) PROVE FALSE
    OBVIOUS
  <2>1. UsedOf(mockups) = 0
    BY <1>1, UsedClosed
  <2> QED
    BY <2>1, UsedIsUsedOf, RunnerAssumption
<1> QED
  BY <1>1, <1>2 DEF Closed, Mockup, Open

-----------------------------------------------------------------------------
(* The operations of the runner that a request, the end of an LLM call or a *)
(* restart may lead to.  Those that start one find the background free.     *)
Operation(w) ==
  \/ Background(w) /\ (OpenSession(w) \/ HandleReply(w) \/ RetryRound(w))
  \/ Background(w) /\ \E s \in Slots : DenySlot(w, s)
  \/ Background(w) /\ \E paths \in SUBSET Paths : InstructDocument(w, paths)
  \/ Background(w) /\ (AnnotateMockup(w) \/ ApproveMockup(w))
  \/ JobDone(w) \/ Fail(w)

Aside ==
  \/ OpenSessionRefused
  \/ \E s \in Slots : ConfirmSlot(s) \/ DenialTooLong(s)
  \/ \E paths \in SUBSET Paths : EditDocument(paths)
  \/ \E choice \in Directions : SelectMockupTheme(choice)
  \/ Restart
  \/ UNCHANGED runnerVars

(* Every step of the adapter is one of them.                                *)
LEMMA StepKinds ==
  ASSUME IInv, [Next]_vars
  PROVE  Aside \/ \E w \in Workers : Operation(w)
<1>1. ASSUME PostSession PROVE Aside \/ \E w \in Workers : Operation(w)
  <2>1. ASSUME NEW w \in Workers, OpenSession(w) PROVE Background(w)
    BY <2>1 DEF OpenSession, Background, IInv, AbsentOK
  <2> QED
    BY <1>1, <2>1 DEF PostSession, Operation, Aside
<1>2. ASSUME ReplyBody \/ DenialBody \/ Instruct \/ CommentBody \/ Approve \/ Retry
      PROVE  \E w \in Workers : Operation(w)
  BY <1>2 DEF ReplyBody, DenialBody, Instruct, CommentBody, Approve, Retry, Operation
<1>3. ASSUME Confirm \/ DenialDropped \/ Edit \/ Theme \/ Crash PROVE Aside
  BY <1>3 DEF Confirm, DenialDropped, Edit, Theme, Crash, Aside
<1>4. ASSUME NEW w \in Workers, Work(w) PROVE Operation(w)
  BY <1>4 DEF Work, Operation
<1>5. ASSUME UNCHANGED runnerVars PROVE Aside
  BY <1>5 DEF Aside
<1> QED
  BY <1>1, <1>2, <1>3, <1>4, <1>5
  DEF Next, ReplyHeaders, DenialHeaders, CommentHeaders, Receive, Refuse,
      ReplyRefused, DenialRefused, CommentRefused, Abandon, vars

(* What a step may do to the mockups: a drawing adds one, an approval or an *)
(* escalation closes one, a theme is chosen on the open one.                *)
LEMMA MockupMoves ==
  ASSUME Aside \/ \E w \in Workers : Operation(w)
  PROVE  \/ mockups' = mockups
         \/ \E w \in Workers : DrawDone(w) \/ ApproveDone(w)
         \/ \E w \in Workers : Background(w) /\ mockups # <<>> /\ Escalate
         \/ \E choice \in Directions : SelectMockupTheme(choice)
<1>1. ASSUME NEW w \in Workers, JobDone(w), ~DrawDone(w), ~ApproveDone(w) PROVE mockups' = mockups
  BY <1>1 DEF JobDone, QuestionDone, JudgeDone, PromoteDone, DocumentDone, InstructDone, ClassifyDone, stage
<1>2. ASSUME NEW w \in Workers, NEW correction, NEW append, ProcessReply(w, correction, append)
      PROVE  mockups' = mockups
  BY <1>2 DEF ProcessReply, Guide, Judge, stage
<1>3. ASSUME NEW w \in Workers, RetryRound(w) PROVE mockups' = mockups
  BY <1>2, <1>3 DEF RetryRound, StartClarification, RetryMockup, RetryJudgement, stage
<1>4. ASSUME NEW w \in Workers, NEW s \in Slots, DenySlot(w, s) PROVE mockups' = mockups
  BY <1>4 DEF DenySlot, Judge, stage
<1>5. ASSUME NEW w \in Workers, OpenSession(w) \/ HandleReply(w) \/ ApproveMockup(w) \/ Fail(w)
      PROVE  mockups' = mockups
  BY <1>2, <1>5 DEF OpenSession, HandleReply, ApproveMockup, Fail, stage
<1>6. ASSUME NEW w \in Workers, NEW paths, InstructDocument(w, paths) PROVE mockups' = mockups
  BY <1>6 DEF InstructDocument, stage
<1>7. ASSUME NEW w \in Workers, AnnotateMockup(w), ~Escalate PROVE mockups' = mockups
  BY <1>7 DEF AnnotateMockup, Redraw
<1>8. ASSUME Aside, ~(\E choice \in Directions : SelectMockupTheme(choice)) PROVE mockups' = mockups
  BY <1>8 DEF Aside, OpenSessionRefused, ConfirmSlot, DenialTooLong, EditDocument, Restart, runnerVars, stage
<1>9. ASSUME NEW w \in Workers, AnnotateMockup(w) PROVE mockups # <<>>
  BY <1>9 DEF AnnotateMockup
<1> QED
  BY <1>1, <1>3, <1>4, <1>5, <1>6, <1>7, <1>8, <1>9 DEF Operation

-----------------------------------------------------------------------------
(* A worker that is given a job waits for it, and nobody else does.         *)
LEMMA WaitSets ==
  ASSUME NEW w \in Workers, NEW job, jobs \in [Workers -> Job], Wait(w, job)
  PROVE  jobs'[w] = job /\ \A v \in Workers \ {w} : jobs'[v] = jobs[v]
  BY DEF Wait

(* Jobs an operation may start, and what it knows as it does.               *)
Starts(job) ==
  \/ job.op \in {"idle", "promote", "document", "classify"}
  \/ job.op = "question" /\ job.correction
  \/ job.op = "question" /\ said' = said /\ (status = "intake" \/ \E w \in Workers : JudgeDone(w))
  \/ job.op \in {"question", "judge"} /\ said' # "agent"
  \/ job.op = "draw" /\ mockups = <<>> /\ mockups' = mockups
  \/ job.op = "redraw" /\ mockups # <<>> /\ IterationsUsed < MaxIterations /\ mockups' = mockups
  \/ job.op = "instruct" /\ docVersion > 0 /\ docVersion' = docVersion
  \/ /\ job.op = "approve" /\ job.mock = Len(mockups) /\ Open
     /\ Latest.theme # "none" /\ job.dir # "none" /\ mockups' = mockups

(* The mockup stage is entered with a classification, a first drawing or    *)
(* nothing to do.                                                            *)
LEMMA EnterStarts ==
  ASSUME NEW w \in Workers, NEW ui, NEW settled, NEW version, NEW current,
         jobs \in [Workers -> Job], EnterMockupStage(w, ui, settled, version, current),
         mockups' = mockups
  PROVE  Starts(jobs'[w]) /\ \A v \in Workers \ {w} : jobs'[v] = jobs[v]
<1> DEFINE job == CASE ui = "unknown" -> [Idle EXCEPT !.op = "classify", !.doc = version]
                    [] ui = "yes" /\ mockups = <<>> -> DrawJob(version, current)
                    [] OTHER -> Idle
<1>1. Wait(w, job)
  BY DEF EnterMockupStage
<1>2. CASE ui = "unknown"
  <2>1. job.op = "classify"
    BY <1>2, JobFields
  <2> QED
    BY <1>1, <2>1, WaitSets DEF Starts
<1>3. CASE ui = "yes" /\ mockups = <<>>
  <2>1. job.op = "draw"
    BY <1>3, JobFields
  <2> QED
    BY <1>1, <1>3, <2>1, WaitSets DEF Starts
<1>4. CASE ~(ui = "unknown") /\ ~(ui = "yes" /\ mockups = <<>>)
  <2>1. job.op = "idle"
    BY <1>4, JobFields
  <2> QED
    BY <1>1, <2>1, WaitSets DEF Starts
<1> QED
  BY <1>2, <1>3, <1>4

(* A clarification question, of a correction or not.                        *)
LEMMA QuestionFields ==
  /\ QuestionJob(TRUE, roundCount).op = "question" /\ QuestionJob(TRUE, roundCount).correction
  /\ QuestionJob(FALSE, roundCount).op = "question"
  BY DEF QuestionJob, Idle

(* A judgement starts with the words it judges in the transcript.           *)
LEMMA JudgeStarts ==
  ASSUME NEW w \in Workers, NEW correction \in BOOLEAN, NEW append \in BOOLEAN,
         jobs \in [Workers -> Job], Judge(w, correction, append), append \/ said # "agent"
  PROVE  Starts(jobs'[w]) /\ \A v \in Workers \ {w} : jobs'[v] = jobs[v]
<1>1. JudgeJob(correction).op = "judge"
  BY DEF JudgeJob, Idle
<1>2. said' # "agent"
  BY DEF Judge, RequesterSays
<1>3. jobs'[w] = JudgeJob(correction) /\ \A v \in Workers \ {w} : jobs'[v] = jobs[v]
  BY WaitSets DEF Judge
<1> QED
  BY <1>1, <1>2, <1>3 DEF Starts

(* A reply is judged, or answered by the guide at once.                     *)
LEMMA ReplyStarts ==
  ASSUME NEW w \in Workers, NEW correction \in BOOLEAN, NEW append \in BOOLEAN,
         jobs \in [Workers -> Job], ProcessReply(w, correction, append), append \/ said # "agent"
  PROVE  jobs' = jobs \/ (Starts(jobs'[w]) /\ \A v \in Workers \ {w} : jobs'[v] = jobs[v])
  BY JudgeStarts DEF ProcessReply, Guide

(* An LLM call that returns ends its job or hands over to the next.         *)
LEMMA DoneStarts ==
  ASSUME RunnerTypeOK, NEW w \in Workers, JobDone(w)
  PROVE  Starts(jobs'[w]) /\ \A v \in Workers \ {w} : jobs'[v] = jobs[v]
<1>t. jobs \in [Workers -> Job] /\ jobs[w] \in Job /\ resumes \in Nat
  BY DEF RunnerTypeOK
<1>1. ASSUME Finish(w) PROVE Starts(jobs'[w]) /\ \A v \in Workers \ {w} : jobs'[v] = jobs[v]
  BY <1>t, <1>1, WaitSets, JobFields DEF Finish, Starts
<1>2. ASSUME JudgeDone(w) PROVE Starts(jobs'[w]) /\ \A v \in Workers \ {w} : jobs'[v] = jobs[v]
  <2>1. PICK verdict \in Verdicts, highScore \in BOOLEAN :
          Wait(w, NextStage(jobs[w], Judged(verdict), highScore))
    BY <1>2 DEF JudgeDone
  <2> DEFINE table == Judged(verdict)
             job == NextStage(jobs[w], table, highScore)
  <2>2. said' = said
    BY <1>2 DEF JudgeDone, dialogue
  <2>3. \/ job = [Idle EXCEPT !.op = "document"]
        \/ job = QuestionJob(TRUE, roundCount)
        \/ job = QuestionJob(FALSE, roundCount)
        \/ job = [Idle EXCEPT !.op = "promote", !.gap = Gap(table)]
    BY <1>t, NextStageCases
  <2>4. jobs'[w] = job /\ \A v \in Workers \ {w} : jobs'[v] = jobs[v]
    BY <1>t, <2>1, WaitSets
  <2> HIDE DEF table, job
  <2>5. CASE job = [Idle EXCEPT !.op = "document"]
    BY <2>4, <2>5, JobFields DEF Starts
  <2>6. CASE job = QuestionJob(TRUE, roundCount)
    BY <2>4, <2>6, QuestionFields DEF Starts
  <2>7. CASE job = QuestionJob(FALSE, roundCount)
    BY <1>2, <2>2, <2>4, <2>7, QuestionFields DEF Starts
  <2>8. CASE job = [Idle EXCEPT !.op = "promote", !.gap = Gap(table)]
    BY <2>4, <2>8, JobFields DEF Starts
  <2> QED
    BY <2>3, <2>5, <2>6, <2>7, <2>8
<1>3. ASSUME PromoteDone(w) PROVE Starts(jobs'[w]) /\ \A v \in Workers \ {w} : jobs'[v] = jobs[v]
  <2>1. ASSUME Wait(w, [Idle EXCEPT !.op = "document"])
        PROVE  Starts(jobs'[w]) /\ \A v \in Workers \ {w} : jobs'[v] = jobs[v]
    <3>1. jobs'[w] = [Idle EXCEPT !.op = "document"] /\ \A v \in Workers \ {w} : jobs'[v] = jobs[v]
      BY <1>t, <2>1, WaitSets
    <3>2. jobs'[w].op = "document"
      BY <3>1, JobFields
    <3> QED
      BY <3>1, <3>2 DEF Starts
  <2> QED
    BY <1>1, <1>3, <2>1 DEF PromoteDone, Hold
<1>4. ASSUME DocumentDone(w) \/ ClassifyDone(w)
      PROVE  Starts(jobs'[w]) /\ \A v \in Workers \ {w} : jobs'[v] = jobs[v]
  BY <1>t, <1>4, EnterStarts DEF DocumentDone, ClassifyDone, stage
<1> QED
  BY <1>1, <1>2, <1>3, <1>4 DEF JobDone, QuestionDone, InstructDone, DrawDone, ApproveDone

(* A retry starts what pendingRound names.                                  *)
LEMMA RetryStarts ==
  ASSUME RunnerTypeOK, NEW w \in Workers, RetryRound(w)
  PROVE  jobs' = jobs \/ (Starts(jobs'[w]) /\ \A v \in Workers \ {w} : jobs'[v] = jobs[v])
<1>t. jobs \in [Workers -> Job]
  BY DEF RunnerTypeOK
<1>1. CASE PendingRound = "clarification" /\ StartClarification(w)
  <2>1. status = "intake" /\ said' = said
    BY <1>1 DEF PendingRound, StartClarification, dialogue
  <2>2. jobs'[w] = QuestionJob(FALSE, roundCount) /\ \A v \in Workers \ {w} : jobs'[v] = jobs[v]
    BY <1>t, <1>1, WaitSets DEF StartClarification
  <2>3. jobs'[w].op = "question"
    BY <2>2, QuestionFields
  <2> QED
    BY <2>1, <2>2, <2>3 DEF Starts
<1>2. CASE PendingRound = "mockup" /\ RetryMockup(w)
  BY <1>t, <1>2, EnterStarts DEF RetryMockup, stage
<1>3. CASE PendingRound = "judgement" /\ RetryJudgement(w)
  <2>1. said # "agent"
    BY <1>3 DEF PendingRound
  <2> QED
    BY <1>t, <1>3, <2>1, ReplyStarts DEF RetryJudgement
<1> QED
  BY <1>1, <1>2, <1>3 DEF RetryRound

(* A comment that is within the budget starts a regeneration, an            *)
(* instruction its own call, an approval the absorption of the mockup.      *)
LEMMA StageStarts ==
  ASSUME RunnerTypeOK, NEW w \in Workers,
         \/ AnnotateMockup(w) \/ ApproveMockup(w)
         \/ \E paths \in SUBSET Paths : InstructDocument(w, paths)
  PROVE  jobs' = jobs \/ (Starts(jobs'[w]) /\ \A v \in Workers \ {w} : jobs'[v] = jobs[v])
<1>t. jobs \in [Workers -> Job]
  BY DEF RunnerTypeOK
<1>1. CASE AnnotateMockup(w) /\ Redraw(w)
  <2> DEFINE job == [Idle EXCEPT !.op = "redraw", !.doc = docVersion, !.read = docVersion]
  <2>1. job.op = "redraw"
    BY DEF Idle
  <2>2. jobs'[w] = job /\ \A v \in Workers \ {w} : jobs'[v] = jobs[v]
    BY <1>t, <1>1, WaitSets DEF Redraw
  <2>3. mockups # <<>> /\ IterationsUsed < MaxIterations /\ mockups' = mockups
    BY <1>1 DEF AnnotateMockup, Redraw
  <2> HIDE DEF job
  <2> QED
    BY <2>1, <2>2, <2>3 DEF Starts
<1>2. CASE AnnotateMockup(w) /\ Escalate
  BY <1>2 DEF Escalate
<1>3. CASE ApproveMockup(w)
  <2> DEFINE job == [Idle EXCEPT !.op = "approve", !.base = text, !.dir = Latest.theme,
                                 !.mock = Len(mockups)]
  <2>1. job.op = "approve" /\ job.dir = Latest.theme /\ job.mock = Len(mockups)
    BY DEF Idle
  <2>2. jobs'[w] = job /\ \A v \in Workers \ {w} : jobs'[v] = jobs[v]
    BY <1>t, <1>3, WaitSets DEF ApproveMockup
  <2>3. Open /\ Latest.theme # "none" /\ mockups' = mockups
    BY <1>3 DEF ApproveMockup, stage
  <2> HIDE DEF job
  <2> QED
    BY <2>1, <2>2, <2>3 DEF Starts
<1>4. ASSUME NEW paths \in SUBSET Paths, InstructDocument(w, paths)
      PROVE  Starts(jobs'[w]) /\ \A v \in Workers \ {w} : jobs'[v] = jobs[v]
  <2> DEFINE job == [Idle EXCEPT !.op = "instruct", !.base = text, !.paths = paths, !.dir = visual]
  <2>1. job.op = "instruct"
    BY DEF Idle
  <2>2. jobs'[w] = job /\ \A v \in Workers \ {w} : jobs'[v] = jobs[v]
    BY <1>t, <1>4, WaitSets DEF InstructDocument
  <2>3. docVersion > 0 /\ docVersion' = docVersion
    BY <1>4 DEF InstructDocument, document
  <2> HIDE DEF job
  <2> QED
    BY <2>1, <2>2, <2>3 DEF Starts
<1> QED
  BY <1>1, <1>2, <1>3, <1>4 DEF AnnotateMockup

(* Whatever the session does, a worker keeps its job or is given one that   *)
(* knows what its operation may rely on.                                    *)
LEMMA JobMoves ==
  ASSUME RunnerTypeOK, Aside \/ \E w \in Workers : Operation(w)
  PROVE  \A v \in Workers : jobs'[v] = jobs[v] \/ Starts(jobs'[v])
<1>t. jobs \in [Workers -> Job]
  BY DEF RunnerTypeOK
<1>1. ASSUME NEW w \in Workers, OpenSession(w)
      PROVE  Starts(jobs'[w]) /\ \A v \in Workers \ {w} : jobs'[v] = jobs[v]
  <2>1. jobs'[w] = QuestionJob(FALSE, roundCount) /\ \A v \in Workers \ {w} : jobs'[v] = jobs[v]
    BY <1>t, <1>1, WaitSets DEF OpenSession
  <2>2. jobs'[w].op = "question" /\ said' # "agent"
    BY <1>1, <2>1, QuestionFields DEF OpenSession, RequesterSays
  <2> QED
    BY <2>1, <2>2 DEF Starts
<1>2. ASSUME NEW w \in Workers, HandleReply(w)
      PROVE  jobs' = jobs \/ (Starts(jobs'[w]) /\ \A v \in Workers \ {w} : jobs'[v] = jobs[v])
  BY <1>t, <1>2, ReplyStarts DEF HandleReply
<1>3. ASSUME NEW w \in Workers, NEW s \in Slots, DenySlot(w, s)
      PROVE  Starts(jobs'[w]) /\ \A v \in Workers \ {w} : jobs'[v] = jobs[v]
  BY <1>t, <1>3, JudgeStarts DEF DenySlot
<1>4. ASSUME NEW w \in Workers, Fail(w)
      PROVE  Starts(jobs'[w]) /\ \A v \in Workers \ {w} : jobs'[v] = jobs[v]
  BY <1>t, <1>4, WaitSets, JobFields DEF Fail, Finish, Starts
<1>5. ASSUME Aside PROVE jobs' = jobs \/ \A v \in Workers : Starts(jobs'[v])
  <2>1. ASSUME Restart PROVE \A v \in Workers : Starts(jobs'[v])
    BY <2>1, JobFields DEF Restart, Starts
  <2> QED
    BY <1>5, <2>1 DEF Aside, OpenSessionRefused, ConfirmSlot, DenialTooLong, EditDocument, SelectMockupTheme, runnerVars
<1> QED
  BY <1>1, <1>2, <1>3, <1>4, <1>5, DoneStarts, RetryStarts, StageStarts DEF Operation

(* No step takes a version of the document back.                            *)
LEMMA VersionMoves ==
  ASSUME docVersion \in Nat, Aside \/ \E w \in Workers : Operation(w)
  PROVE  docVersion' \in Nat /\ docVersion' >= docVersion
<1>1. ASSUME NEW w \in Workers, JobDone(w) PROVE docVersion' \in {docVersion, docVersion + 1}
  BY <1>1 DEF JobDone, QuestionDone, JudgeDone, PromoteDone, DocumentDone, InstructDone, ClassifyDone,
     DrawDone, ApproveDone, document
<1>2. ASSUME NEW w \in Workers, NEW correction, NEW append, ProcessReply(w, correction, append)
      PROVE  docVersion' = docVersion
  BY <1>2 DEF ProcessReply, Guide, Judge, document
<1>3. ASSUME NEW w \in Workers, RetryRound(w) PROVE docVersion' = docVersion
  BY <1>2, <1>3 DEF RetryRound, StartClarification, RetryMockup, RetryJudgement, document
<1>4. ASSUME NEW w \in Workers, NEW s \in Slots, DenySlot(w, s) PROVE docVersion' = docVersion
  BY <1>4 DEF DenySlot, Judge, document
<1>5. ASSUME NEW w \in Workers, OpenSession(w) \/ HandleReply(w) \/ ApproveMockup(w) \/ Fail(w)
      PROVE  docVersion' = docVersion
  BY <1>2, <1>5 DEF OpenSession, HandleReply, ApproveMockup, Fail, document
<1>6. ASSUME NEW w \in Workers, NEW paths, InstructDocument(w, paths) \/ AnnotateMockup(w)
      PROVE  docVersion' = docVersion
  BY <1>6 DEF InstructDocument, AnnotateMockup, document
<1>7. ASSUME Aside PROVE docVersion' \in {docVersion, docVersion + 1}
  BY <1>7 DEF Aside, OpenSessionRefused, ConfirmSlot, DenialTooLong, EditDocument, SelectMockupTheme, Restart,
     runnerVars, document
<1> QED
  BY <1>1, <1>3, <1>4, <1>5, <1>6, <1>7 DEF Operation

(* The latest mockup, closed by an approval or an escalation, or given a    *)
(* theme; the others stay as they are.                                      *)
LEMMA LatestChanged ==
  ASSUME mockups \in Seq(Mockup), mockups # <<>>
  PROVE  /\ \A c \in {"approved", "escalated"} :
              LET t == [mockups EXCEPT ![Len(mockups)].convergence = c]
              IN  /\ t \in Seq(Mockup) /\ Len(t) = Len(mockups) /\ DOMAIN t = DOMAIN mockups
                  /\ t[Len(mockups)] = [Latest EXCEPT !.convergence = c]
                  /\ \A i \in DOMAIN mockups : i # Len(mockups) => t[i] = mockups[i]
         /\ \A d \in Directions :
              LET t == [mockups EXCEPT ![Len(mockups)].theme = d]
              IN  /\ t \in Seq(Mockup) /\ Len(t) = Len(mockups) /\ DOMAIN t = DOMAIN mockups
                  /\ t[Len(mockups)] = [Latest EXCEPT !.theme = d]
                  /\ \A i \in DOMAIN mockups : i # Len(mockups) => t[i] = mockups[i]
<1> DEFINE n == Len(mockups)
<1>1. n \in DOMAIN mockups /\ Latest = mockups[n]
  BY LatestIsMockup
<1>2. ASSUME NEW row \in Mockup
      PROVE  LET t == [mockups EXCEPT ![n] = row]
             IN  /\ t \in Seq(Mockup) /\ Len(t) = n /\ DOMAIN t = DOMAIN mockups /\ t[n] = row
                 /\ \A i \in DOMAIN mockups : i # n => t[i] = mockups[i]
  BY <1>1, RowChanged
<1> HIDE DEF n
<1>3. ASSUME NEW c \in {"approved", "escalated"}
      PROVE  /\ [mockups EXCEPT ![n].convergence = c] = [mockups EXCEPT ![n] = [Latest EXCEPT !.convergence = c]]
             /\ [Latest EXCEPT !.convergence = c] \in Mockup
  BY <1>1, RowTypes
<1>4. ASSUME NEW d \in Directions
      PROVE  /\ [mockups EXCEPT ![n].theme = d] = [mockups EXCEPT ![n] = [Latest EXCEPT !.theme = d]]
             /\ [Latest EXCEPT !.theme = d] \in Mockup
  BY <1>1, RowTypes
<1>5. ASSUME NEW c \in {"approved", "escalated"}
      PROVE  LET t == [mockups EXCEPT ![n].convergence = c]
             IN  /\ t \in Seq(Mockup) /\ Len(t) = n /\ DOMAIN t = DOMAIN mockups
                 /\ t[n] = [Latest EXCEPT !.convergence = c]
                 /\ \A i \in DOMAIN mockups : i # n => t[i] = mockups[i]
  <2> DEFINE row == [Latest EXCEPT !.convergence = c]
  <2>1. row \in Mockup /\ [mockups EXCEPT ![n].convergence = c] = [mockups EXCEPT ![n] = row]
    BY <1>3
  <2> HIDE DEF row
  <2>2. LET t == [mockups EXCEPT ![n] = row]
        IN  /\ t \in Seq(Mockup) /\ Len(t) = n /\ DOMAIN t = DOMAIN mockups /\ t[n] = row
            /\ \A i \in DOMAIN mockups : i # n => t[i] = mockups[i]
    BY <2>1, <1>2
  <2> QED
    BY <2>1, <2>2 DEF row
<1>6. ASSUME NEW d \in Directions
      PROVE  LET t == [mockups EXCEPT ![n].theme = d]
             IN  /\ t \in Seq(Mockup) /\ Len(t) = n /\ DOMAIN t = DOMAIN mockups
                 /\ t[n] = [Latest EXCEPT !.theme = d]
                 /\ \A i \in DOMAIN mockups : i # n => t[i] = mockups[i]
  <2> DEFINE row == [Latest EXCEPT !.theme = d]
  <2>1. row \in Mockup /\ [mockups EXCEPT ![n].theme = d] = [mockups EXCEPT ![n] = row]
    BY <1>4
  <2> HIDE DEF row
  <2>2. LET t == [mockups EXCEPT ![n] = row]
        IN  /\ t \in Seq(Mockup) /\ Len(t) = n /\ DOMAIN t = DOMAIN mockups /\ t[n] = row
            /\ \A i \in DOMAIN mockups : i # n => t[i] = mockups[i]
    BY <2>1, <1>2
  <2> QED
    BY <2>1, <2>2 DEF row
<1> QED
  BY <1>5, <1>6 DEF n

(* The counter looks at what is closed, not at themes.                      *)
LEMMA UsedSame ==
  ASSUME NEW s \in Seq(Mockup), NEW t \in Seq(Mockup), Len(t) = Len(s),
         \A i \in DOMAIN s : t[i].convergence = s[i].convergence
  PROVE  UsedOf(t) = UsedOf(s)
<1>1. DOMAIN s = 1 .. Len(s) /\ DOMAIN t = DOMAIN s /\ (s = <<>> <=> Len(s) = 0) /\ (t = <<>> <=> Len(t) = 0)
  BY LenProperties, EmptySeq
<1>2. ClosedOf(t) = ClosedOf(s)
  BY <1>1 DEF ClosedOf, Closed
<1> QED
  BY <1>1, <1>2 DEF UsedOf

(* The one operation in flight ends, and nothing is in flight.              *)
LEMMA FinishedAlone ==
  ASSUME jobs \in [Workers -> Job], SingleFlight, NEW w \in Workers, Busy(w), Finish(w)
  PROVE  \A v \in Workers : jobs'[v].op = "idle"
<1>1. jobs'[w] = Idle /\ \A v \in Workers \ {w} : jobs'[v] = jobs[v] /\ jobs[v].op = "idle"
  BY WaitSets DEF Finish, SingleFlight, Busy
<1> QED
  BY <1>1, JobFields

(* A drawing is the first of its mockups or one more within the budget.     *)
LEMMA DrawWithin ==
  ASSUME IInv, StageOK, NEW w \in Workers, DrawDone(w)
  PROVE  StageOK'
<1>t. RunnerTypeOK /\ SingleFlight /\ Busy(w) /\ jobs[w] \in Job /\ mockups \in Seq(Mockup)
  BY DEF IInv, Kept, TypeOK, RunnerTypeOK, DrawDone, Busy
<1>1. StageJobsOK'
  BY <1>t, FinishedAlone DEF DrawDone, RunnerTypeOK, StageJobsOK, StageJobOK
<1>2. NewMockup(jobs[w]) \in Mockup /\ NewMockup(jobs[w]).convergence = "iterating"
  BY <1>t DEF NewMockup, Mockup, Directions, RunnerTypeOK, Job
<1>3. IterationsUsed' = IF mockups = <<>> THEN 0 ELSE IterationsUsed + 1
  <2>1. IterationsUsed' = UsedOf(mockups')
    BY DEF IterationsUsed, UsedOf, ClosedOf
  <2>2. mockups' = Append(mockups, NewMockup(jobs[w]))
    BY DEF DrawDone
  <2> QED
    BY <1>t, <1>2, <2>1, <2>2, UsedAppend, UsedIsUsedOf
<1>4. mockups = <<>> \/ IterationsUsed < MaxIterations
  BY DEF DrawDone, StageOK, StageJobsOK, StageJobOK
<1>5. IterationsUsed \in Nat
  BY <1>t, UsedType, UsedIsUsedOf
<1> QED
  BY <1>1, <1>3, <1>4, <1>5, RunnerAssumption DEF StageOK, IterationsWithinBudget

(* An approval or an escalation ends the segment.                           *)
LEMMA ClosingWithin ==
  ASSUME IInv, StageOK, mockups # <<>>, \A v \in Workers : jobs'[v].op = "idle",
         NEW c \in {"approved", "escalated"}, mockups' = [mockups EXCEPT ![Len(mockups)].convergence = c]
  PROVE  StageOK'
<1>t. mockups \in Seq(Mockup)
  BY DEF IInv, TypeOK, RunnerTypeOK
<1>1. StageJobsOK'
  BY DEF StageJobsOK, StageJobOK
<1>2. Latest \in Mockup /\ Len(mockups) \in Nat /\ Len(mockups) > 0
  BY <1>t, LatestIsMockup, EmptySeq
<1>3. mockups' \in Seq(Mockup) /\ Len(mockups') = Len(mockups)
      /\ mockups'[Len(mockups)] = [Latest EXCEPT !.convergence = c]
  BY <1>t, LatestChanged
<1>4. Closed(mockups'[Len(mockups')])
  BY <1>2, <1>3 DEF Mockup, Closed
<1>5. UsedOf(mockups') = 0
  BY <1>t, <1>2, <1>3, <1>4, UsedClosed
<1>6. IterationsUsed' = UsedOf(mockups')
  BY DEF IterationsUsed, UsedOf, ClosedOf
<1> QED
  BY <1>1, <1>5, <1>6, RunnerAssumption DEF StageOK, IterationsWithinBudget

(* A choice of theme counts as nothing, and decides what is approved.       *)
LEMMA ThemeWithin ==
  ASSUME IInv, StageOK, NEW choice \in Directions, SelectMockupTheme(choice)
  PROVE  StageOK'
<1>t. mockups \in Seq(Mockup) /\ mockups # <<>> /\ docVersion' = docVersion
  BY DEF IInv, TypeOK, RunnerTypeOK, SelectMockupTheme, Open, document
<1>1. Latest \in Mockup /\ Len(mockups) \in DOMAIN mockups /\ Latest = mockups[Len(mockups)]
      /\ DOMAIN mockups = 1 .. Len(mockups) /\ Len(mockups) \in Nat
  BY <1>t, LatestIsMockup
<1>2. /\ mockups' \in Seq(Mockup) /\ Len(mockups') = Len(mockups)
      /\ mockups'[Len(mockups)] = [Latest EXCEPT !.theme = choice]
      /\ \A i \in DOMAIN mockups : i # Len(mockups) => mockups'[i] = mockups[i]
  BY <1>t, LatestChanged DEF SelectMockupTheme
<1>3. [Latest EXCEPT !.theme = choice].convergence = Latest.convergence
      /\ [Latest EXCEPT !.theme = choice].theme = choice
  BY <1>1 DEF Mockup
<1>4. \A i \in DOMAIN mockups : mockups'[i].convergence = mockups[i].convergence
  BY <1>1, <1>2, <1>3
<1>5. IterationsUsed' = IterationsUsed
  <2>1. IterationsUsed' = UsedOf(mockups')
    BY DEF IterationsUsed, UsedOf, ClosedOf
  <2>2. UsedOf(mockups') = UsedOf(mockups)
    BY <1>t, <1>2, <1>4, UsedSame
  <2> QED
    BY <2>1, <2>2, UsedIsUsedOf
<1>6. mockups' # <<>> /\ Latest' = [Latest EXCEPT !.theme = choice] /\ choice # "none"
  <2>1. Latest' = mockups'[Len(mockups)]
    BY <1>2 DEF Latest
  <2>2. mockups' # <<>>
    BY <1>1, <1>2, EmptySeq
  <2> QED
    BY <1>2, <2>1, <2>2 DEF SelectMockupTheme
<1>7. Open'
  BY <1>3, <1>6 DEF Open, SelectMockupTheme
<1>8. jobs' = jobs
  BY DEF SelectMockupTheme
<1>9. StageJobsOK'
  BY <1>t, <1>2, <1>3, <1>5, <1>6, <1>7, <1>8 DEF StageOK, StageJobsOK, StageJobOK
<1> QED
  BY <1>5, <1>9 DEF StageOK, IterationsWithinBudget

(* Every step keeps what the mockup stage relies on.                        *)
LEMMA StageStep ==
  ASSUME IInv, StageOK, Aside \/ \E w \in Workers : Operation(w)
  PROVE  StageOK'
<1>t. RunnerTypeOK /\ SingleFlight /\ docVersion \in Nat /\ jobs \in [Workers -> Job]
  BY DEF IInv, Kept, TypeOK, RunnerTypeOK
<1>1. CASE mockups' = mockups
  <2>1. IterationsUsed' = IterationsUsed /\ Latest' = Latest /\ (Open' <=> Open)
    BY <1>1 DEF IterationsUsed, Latest, Open
  <2>2. docVersion' >= docVersion /\ docVersion' \in Nat
    BY <1>t, VersionMoves
  <2>3. ASSUME NEW v \in Workers PROVE StageJobOK(jobs[v])'
    <3>1. CASE jobs'[v] = jobs[v]
      BY <1>t, <1>1, <2>1, <2>2, <3>1 DEF StageOK, StageJobsOK, StageJobOK
    <3>2. CASE Starts(jobs'[v])
      BY <1>t, <1>1, <2>1, <2>2, <3>2 DEF Starts, StageJobOK
    <3> QED
      BY <1>t, <3>1, <3>2, JobMoves
  <2> QED
    BY <2>1, <2>3 DEF StageOK, StageJobsOK, IterationsWithinBudget
<1>2. ASSUME NEW w \in Workers, ApproveDone(w) PROVE StageOK'
  <2>1. \A v \in Workers : jobs'[v].op = "idle"
    BY <1>t, <1>2, FinishedAlone DEF ApproveDone, Busy
  <2>2. jobs[w].mock = Len(mockups) /\ mockups # <<>>
    BY <1>2 DEF ApproveDone, StageOK, StageJobsOK, StageJobOK, Open
  <2>3. mockups' = [mockups EXCEPT ![Len(mockups)].convergence = "approved"]
    BY <1>2, <2>2 DEF ApproveDone
  <2> QED
    BY <2>1, <2>2, <2>3, ClosingWithin
<1>3. ASSUME NEW w \in Workers, Background(w), mockups # <<>>, Escalate PROVE StageOK'
  <2>1. \A v \in Workers : jobs'[v].op = "idle"
    BY <1>3 DEF Background, Busy, Escalate
  <2> QED
    BY <1>3, <2>1, ClosingWithin DEF Escalate
<1> QED
  BY <1>1, <1>2, <1>3, DrawWithin, ThemeWithin, MockupMoves

-----------------------------------------------------------------------------
(* Who has the last word after a step.  The agent takes it only with a      *)
(* question, over a document, or as the session goes on hold.               *)
Still  == UNCHANGED <<said, answered>> /\ (status' = status \/ status' \notin {"intake", "clarifying"})
Spoken == said' # "agent" /\ answered' = TRUE
Idles  == \A w \in Workers : jobs'[w].op = "idle"
Asked  == said' = "agent" /\ answered' = FALSE /\ status' = "clarifying" /\ Idles
Told   == said' = "agent" /\ answered' \in {answered, TRUE} /\ docVersion' > 0
Closes == said' = "agent" /\ answered' = answered /\ status' = "closed" /\ Idles
Talk   == Still \/ Spoken \/ Asked \/ Told \/ Closes

(* The end of an LLM call.                                                  *)
LEMMA DoneTalks ==
  ASSUME IInv, NEW w \in Workers, JobDone(w)
  PROVE  Talk
<1>t. RunnerTypeOK /\ SingleFlight /\ docVersion \in Nat /\ jobs \in [Workers -> Job]
  BY DEF IInv, Kept, TypeOK, RunnerTypeOK
<1>1. CASE QuestionDone(w)
  BY <1>t, <1>1, FinishedAlone DEF QuestionDone, Busy, Talk, Asked, Idles
<1>2. CASE JudgeDone(w)
  BY <1>2 DEF JudgeDone, dialogue, Talk, Still
<1>3. CASE PromoteDone(w)
  <2>1. CASE Hold(w)
    BY <1>t, <1>3, <2>1, FinishedAlone DEF PromoteDone, Hold, AgentSays, Busy, Talk, Closes, Idles
  <2> QED
    BY <1>3, <2>1 DEF PromoteDone, dialogue, Talk, Still
<1>4. CASE DocumentDone(w)
  BY <1>t, <1>4 DEF DocumentDone, AgentSays, Talk, Told
<1>5. CASE InstructDone(w)
  <2>1. \/ UNCHANGED <<said, answered>>
        \/ docVersion' = docVersion + 1 /\ said' = "agent" /\ answered' = TRUE
    BY <1>5 DEF InstructDone, Exchange
  <2>2. status' = status
    BY <1>5 DEF InstructDone
  <2>3. CASE UNCHANGED <<said, answered>>
    BY <2>2, <2>3 DEF Talk, Still
  <2>4. CASE docVersion' = docVersion + 1 /\ said' = "agent" /\ answered' = TRUE
    BY <1>t, <2>4 DEF Talk, Told
  <2> QED
    BY <2>1, <2>3, <2>4
<1>6. CASE ClassifyDone(w)
  BY <1>6 DEF ClassifyDone, EnterMockupStage, Talk, Still
<1>7. CASE DrawDone(w)
  BY <1>t, <1>7 DEF DrawDone, AgentSays, document, Talk, Told, IInv, Kept, JobsOK, JobOK
<1>8. CASE ApproveDone(w)
  BY <1>t, <1>8 DEF ApproveDone, AgentSays, Talk, Told
<1> QED
  BY <1>1, <1>2, <1>3, <1>4, <1>5, <1>6, <1>7, <1>8 DEF JobDone

(* A reply: the requester's words, or the guide over a document.            *)
LEMMA ReplyTalks ==
  ASSUME IInv, NEW w \in Workers, NEW correction, NEW append, ProcessReply(w, correction, append),
         append \in BOOLEAN, append \/ status # "closed"
  PROVE  Talk
<1>1. CASE Guide(append)
  BY <1>1 DEF Guide, Exchange, AgentSays, RequesterSays, document, IInv, Kept, StatusMatchesStore,
     Reviewable, Talk, Told, Spoken
<1>2. CASE Judge(w, correction, append)
  <2>1. CASE append
    BY <1>2, <2>1 DEF Judge, RequesterSays, Talk, Spoken
  <2>2. CASE ~append
    BY <1>2, <2>2 DEF Judge, Resume, Talk, Still
  <2> QED
    BY <2>1, <2>2
<1> QED
  BY <1>1, <1>2 DEF ProcessReply

(* Every step.                                                              *)
LEMMA TalkMoves ==
  ASSUME IInv, Aside \/ \E w \in Workers : Operation(w)
  PROVE  Talk
<1>t. docVersion \in Nat /\ (mockups # <<>> => docVersion > 0)
  BY DEF IInv, Kept, TypeOK, RunnerTypeOK, EarlyOK
<1>1. ASSUME NEW w \in Workers, OpenSession(w) \/ HandleReply(w) PROVE Talk
  BY <1>1, ReplyTalks DEF OpenSession, RequesterSays, HandleReply, Talk, Spoken
<1>2. ASSUME NEW w \in Workers, NEW s \in Slots, DenySlot(w, s) PROVE Talk
  BY <1>2, ReplyTalks DEF DenySlot, ProcessReply
<1>3. ASSUME NEW w \in Workers, RetryRound(w) PROVE Talk
  <2>1. CASE StartClarification(w)
    BY <2>1 DEF StartClarification, dialogue, Talk, Still
  <2>2. CASE RetryMockup(w)
    BY <2>2 DEF RetryMockup, EnterMockupStage, Talk, Still
  <2>3. CASE PendingRound = "judgement" /\ RetryJudgement(w)
    BY <2>3, ReplyTalks DEF PendingRound, RetryJudgement
  <2> QED
    BY <1>3, <2>1, <2>2, <2>3 DEF RetryRound
<1>4. ASSUME NEW w \in Workers, AnnotateMockup(w) PROVE Talk
  BY <1>t, <1>4 DEF AnnotateMockup, Escalate, Redraw, Exchange, RequesterSays, document, Talk, Told, Spoken
<1>5. ASSUME NEW w \in Workers, NEW paths, InstructDocument(w, paths) \/ ApproveMockup(w) \/ Fail(w)
      PROVE  Talk
  BY <1>5 DEF InstructDocument, ApproveMockup, Fail, dialogue, Talk, Still
<1>6. ASSUME Aside PROVE Talk
  <2>1. ASSUME OpenSessionRefused PROVE Talk
    BY <2>1 DEF OpenSessionRefused, RequesterSays, Talk, Spoken
  <2>2. ASSUME NEW paths, EditDocument(paths) PROVE Talk
    BY <1>t, <2>2 DEF EditDocument, Exchange, Talk, Told
  <2>3. ASSUME NEW choice, SelectMockupTheme(choice) PROVE Talk
    BY <1>t, <2>3 DEF SelectMockupTheme, Open, AgentSays, document, Talk, Told
  <2>4. ASSUME UNCHANGED dialogue PROVE Talk
    BY <2>4 DEF dialogue, Talk, Still
  <2> QED
    BY <1>6, <2>1, <2>2, <2>3, <2>4 DEF Aside, ConfirmSlot, DenialTooLong, Restart, runnerVars
<1> QED
  BY <1>1, <1>2, <1>3, <1>4, <1>5, <1>6, DoneTalks DEF Operation

(* Every step keeps the requester's last word until somebody answers it.    *)
LEMMA WordsStep ==
  ASSUME IInv, WordsOK, Aside \/ \E w \in Workers : Operation(w)
  PROVE  WordsOK'
<1>t. RunnerTypeOK /\ docVersion \in Nat
  BY DEF IInv, TypeOK, RunnerTypeOK
<1>1. Talk
  BY TalkMoves
<1>2. docVersion' = 0 => docVersion = 0
  BY <1>t, VersionMoves
<1>3. ~answered' => said' = "agent"
  BY <1>1 DEF WordsOK, Talk, Still, Spoken, Asked, Told, Closes
<1>4. ASSUME docVersion' = 0, status' = "intake" \/ (status' = "clarifying" /\ answered')
      PROVE  said' # "agent"
  <2>1. ~Told /\ ~Closes /\ ~Asked
    BY <1>4 DEF Told, Closes, Asked
  <2> QED
    BY <1>1, <1>2, <1>4, <2>1 DEF WordsOK, Talk, Still, Spoken
<1>5. ASSUME docVersion' = 0, NEW v \in Workers, WaitsForWords(jobs'[v]) PROVE said' # "agent"
  <2>1. jobs'[v].op # "idle" /\ jobs'[v].op \in {"judge", "question"}
        /\ (jobs'[v].op = "question" => ~jobs'[v].correction)
    BY <1>5 DEF WaitsForWords
  <2>2. Still \/ Spoken
    BY <1>1, <1>5, <2>1 DEF Talk, Asked, Told, Closes, Idles
  <2>3. CASE jobs'[v] = jobs[v]
    BY <1>2, <1>5, <2>2, <2>3 DEF WordsOK, Still, Spoken
  <2>4. CASE Starts(jobs'[v])
    <3>1. ASSUME NEW w \in Workers, JudgeDone(w) PROVE said # "agent"
      BY <1>2, <1>5, <3>1 DEF WordsOK, JudgeDone, WaitsForWords
    <3> QED
      BY <1>2, <1>5, <2>1, <2>4, <3>1 DEF Starts, WordsOK
  <2> QED
    BY <1>t, <2>3, <2>4, JobMoves
<1> QED
  BY <1>3, <1>4, <1>5 DEF WordsOK, WaitsForWords

-----------------------------------------------------------------------------
(* A server that starts has no mockup, and nobody has spoken.               *)
LEMMA SessionInit == Init => StageOK /\ WordsOK
<1> SUFFICES ASSUME Init PROVE StageOK /\ WordsOK
  OBVIOUS
<1>1. /\ status = "absent" /\ answered = FALSE /\ said = "agent" /\ mockups = <<>>
      /\ \A w \in Workers : jobs[w].op = "idle"
  BY JobFields DEF Init, RunnerInit
<1>2. ClosedOf(mockups) = {}
  BY <1>1 DEF ClosedOf
<1>3. IterationsUsed = 0
  BY <1>1, <1>2, UsedIsUsedOf DEF UsedOf
<1>4. StageOK
  BY <1>1, <1>3, RunnerAssumption DEF StageOK, StageJobsOK, StageJobOK, IterationsWithinBudget
<1>5. WordsOK
  BY <1>1 DEF WordsOK, WaitsForWords
<1> QED
  BY <1>4, <1>5

(* Every step of the adapter keeps the invariant of the session.            *)
LEMMA SessionStep == SessionInv /\ [Next]_vars => SessionInv'
<1>1. IInv /\ [Next]_vars => IInv'
  BY TypeStep, KeptStep, AbsentStep DEF IInv, Kept
<1> QED
  BY <1>1, StepKinds, StageStep, WordsStep DEF SessionInv

(* The invariant of a session with its mockups and its words.               *)
THEOREM SessionInvariance == Spec => []SessionInv
<1> QED
  BY SessionStep, SessionInit, InitHolds, PTL DEF Spec, SessionInv

(* However approvals, escalations, failures and restarts alternate, the     *)
(* requester gets at most MaxIterations regenerations between two closings. *)
THEOREM IterationsHold == Spec => []IterationsWithinBudget
<1>1. SessionInv => IterationsWithinBudget
  BY DEF SessionInv, StageOK
<1> QED
  BY <1>1, SessionInvariance, PTL

(* What a step may do to a mockup that is there.                            *)
LEMMA RowMoves ==
  ASSUME SessionInv, [Next]_vars, NEW i \in DOMAIN mockups
  PROVE  /\ i \in DOMAIN mockups'
         /\ \/ mockups'[i] = mockups[i]
            \/ i = Len(mockups) /\ Open /\ \E w \in Workers : ApproveDone(w)
            \/ i = Len(mockups) /\ Open /\ mockups'[i] = [mockups[i] EXCEPT !.convergence = "escalated"]
            \/ /\ i = Len(mockups) /\ Open
               /\ \E choice \in Directions : mockups'[i] = [mockups[i] EXCEPT !.theme = choice]
<1>t. mockups \in Seq(Mockup) /\ mockups # <<>> /\ RunnerTypeOK
  BY EmptySeq DEF SessionInv, IInv, TypeOK, RunnerTypeOK
<1>1. Latest = mockups[Len(mockups)]
  BY <1>t, LatestIsMockup
<1>2. CASE mockups' = mockups
  BY <1>2
<1>3. ASSUME NEW w \in Workers, DrawDone(w)
      PROVE  i \in DOMAIN mockups' /\ mockups'[i] = mockups[i]
  <2>1. NewMockup(jobs[w]) \in Mockup
    BY <1>t, <1>3 DEF NewMockup, Mockup, Directions, RunnerTypeOK, Job
  <2>2. DOMAIN mockups = 1 .. Len(mockups) /\ Len(mockups) \in Nat
    BY <1>t, LenProperties
  <2> QED
    BY <1>t, <1>3, <2>1, <2>2, AppendProperties DEF DrawDone
<1>4. ASSUME NEW w \in Workers, ApproveDone(w)
      PROVE  /\ i \in DOMAIN mockups'
             /\ mockups'[i] = mockups[i] \/ (i = Len(mockups) /\ Open)
  <2>1. jobs[w].mock = Len(mockups) /\ Open
    BY <1>4 DEF ApproveDone, SessionInv, StageOK, StageJobsOK, StageJobOK
  <2>2. mockups' = [mockups EXCEPT ![Len(mockups)].convergence = "approved"]
    BY <1>4, <2>1 DEF ApproveDone
  <2> QED
    BY <1>t, <2>1, <2>2, LatestChanged
<1>5. ASSUME Escalate
      PROVE  /\ i \in DOMAIN mockups'
             /\ \/ mockups'[i] = mockups[i]
                \/ /\ i = Len(mockups) /\ Open
                   /\ mockups'[i] = [mockups[i] EXCEPT !.convergence = "escalated"]
  <2>1. Open
    BY <1>t, <1>5, UsedUpIsOpen DEF Escalate
  <2> QED
    BY <1>t, <1>1, <1>5, <2>1, LatestChanged DEF Escalate
<1>6. ASSUME NEW choice \in Directions, SelectMockupTheme(choice)
      PROVE  /\ i \in DOMAIN mockups'
             /\ \/ mockups'[i] = mockups[i]
                \/ /\ i = Len(mockups) /\ Open
                   /\ mockups'[i] = [mockups[i] EXCEPT !.theme = choice]
  BY <1>t, <1>1, <1>6, LatestChanged DEF SelectMockupTheme
<1>7. Aside \/ \E w \in Workers : Operation(w)
  BY StepKinds DEF SessionInv
<1> QED
  BY <1>2, <1>3, <1>4, <1>5, <1>6, <1>7, MockupMoves

(* An approved or an escalated mockup never changes again: no comment,      *)
(* theme, approval or drawing reaches it.                                   *)
THEOREM ClosedStaysClosed == Spec => ClosedMockupFrozen
<1> DEFINE Frozen == \A i \in DOMAIN mockups : Closed(mockups[i])
                       => i \in DOMAIN mockups' /\ mockups'[i] = mockups[i]
<1>1. SessionInv /\ [Next]_vars => Frozen
  <2> SUFFICES ASSUME SessionInv, [Next]_vars, NEW i \in DOMAIN mockups, Closed(mockups[i])
               PROVE  i \in DOMAIN mockups' /\ mockups'[i] = mockups[i]
    OBVIOUS
  <2>1. ~(i = Len(mockups) /\ Open)
    BY DEF Open, Latest, Closed
  <2> QED
    BY <2>1, RowMoves
<1>2. SessionInv /\ [Next]_vars => [Frozen]_vars
  BY <1>1
<1> QED
  BY <1>2, SessionInvariance, PTL DEF Spec, ClosedMockupFrozen

(* A mockup is approved only as the latest one, with its direction decided, *)
(* and by the step that writes the document version it is absorbed by.      *)
THEOREM ApprovalsAreAbsorbed == Spec => ApprovalIsAbsorbed
<1> DEFINE Absorbed == \A i \in DOMAIN mockups :
             mockups[i].convergence # "approved" /\ mockups'[i].convergence = "approved"
               => /\ i = Len(mockups) /\ mockups[i].theme # "none"
                  /\ docVersion' = docVersion + 1 /\ visual' # "none"
<1>1. SessionInv /\ [Next]_vars => Absorbed
  <2> SUFFICES ASSUME SessionInv, [Next]_vars, NEW i \in DOMAIN mockups,
                      mockups[i].convergence # "approved", mockups'[i].convergence = "approved"
               PROVE  /\ i = Len(mockups) /\ mockups[i].theme # "none"
                      /\ docVersion' = docVersion + 1 /\ visual' # "none"
    OBVIOUS
  <2>1. mockups[i] \in Mockup
    BY LenProperties DEF SessionInv, IInv, TypeOK, RunnerTypeOK
  <2>2. [mockups[i] EXCEPT !.convergence = "escalated"].convergence = "escalated"
        /\ \A choice : [mockups[i] EXCEPT !.theme = choice].convergence = mockups[i].convergence
    BY <2>1 DEF Mockup
  <2>3. i = Len(mockups) /\ \E w \in Workers : ApproveDone(w)
    BY <2>2, RowMoves
  <2>4. PICK w \in Workers : ApproveDone(w)
    BY <2>3
  <2>5. jobs[w].dir # "none" /\ Latest.theme # "none"
    BY <2>4 DEF ApproveDone, SessionInv, StageOK, StageJobsOK, StageJobOK
  <2> QED
    BY <2>3, <2>4, <2>5 DEF ApproveDone, Latest
<1>2. SessionInv /\ [Next]_vars => [Absorbed]_vars
  BY <1>1
<1> QED
  BY <1>2, SessionInvariance, PTL DEF Spec, ApprovalIsAbsorbed

(* Rounds are counted by the question that ends an uncorrected round only.  *)
LEMMA RoundMoves ==
  ASSUME IInv, Aside \/ \E w \in Workers : Operation(w)
  PROVE  roundCount' = roundCount \/ \E w \in Workers : QuestionDone(w) /\ ~jobs[w].correction
<1>1. ASSUME NEW w \in Workers, JobDone(w), ~QuestionDone(w) PROVE roundCount' = roundCount
  BY <1>1 DEF JobDone, JudgeDone, PromoteDone, Hold, DocumentDone, InstructDone, ClassifyDone,
     DrawDone, ApproveDone, dialogue
<1>2. ASSUME NEW w \in Workers, QuestionDone(w), jobs[w].correction PROVE roundCount' = roundCount
  BY <1>2 DEF QuestionDone
<1>3. ASSUME NEW w \in Workers, NEW correction, NEW append, ProcessReply(w, correction, append)
      PROVE  roundCount' = roundCount
  BY <1>3 DEF ProcessReply, Guide, Judge
<1>4. ASSUME NEW w \in Workers, RetryRound(w) PROVE roundCount' = roundCount
  BY <1>3, <1>4 DEF RetryRound, StartClarification, RetryMockup, RetryJudgement, dialogue
<1>5. ASSUME NEW w \in Workers, NEW s \in Slots, DenySlot(w, s) PROVE roundCount' = roundCount
  BY <1>5 DEF DenySlot, Judge
<1>6. ASSUME NEW w \in Workers, OpenSession(w) \/ HandleReply(w) \/ ApproveMockup(w) \/ Fail(w)
      PROVE  roundCount' = roundCount
  BY <1>3, <1>6 DEF OpenSession, HandleReply, ApproveMockup, Fail, dialogue
<1>7. ASSUME NEW w \in Workers, NEW paths, InstructDocument(w, paths) \/ AnnotateMockup(w)
      PROVE  roundCount' = roundCount
  BY <1>7 DEF InstructDocument, AnnotateMockup, dialogue
<1>8. ASSUME Aside PROVE roundCount' = roundCount
  BY <1>8 DEF Aside, OpenSessionRefused, ConfirmSlot, DenialTooLong, EditDocument, SelectMockupTheme, Restart,
     runnerVars, dialogue
<1> QED
  BY <1>1, <1>2, <1>4, <1>5, <1>6, <1>7, <1>8 DEF Operation

(* Before the first document a counted round reacts to words of the         *)
(* requester that nobody has replied to, over retries, failures and         *)
(* restarts.  Of rounds counted after a document nothing is said.            *)
THEOREM RoundsReactToWords == Spec => RoundSpentOnNewWords
<1> DEFINE Reacts == roundCount' > roundCount /\ docVersion = 0 => said # "agent"
<1>1. SessionInv /\ [Next]_vars => Reacts
  <2> SUFFICES ASSUME SessionInv, [Next]_vars, roundCount' > roundCount, docVersion = 0
               PROVE  said # "agent"
    OBVIOUS
  <2>1. roundCount \in Nat
    BY DEF SessionInv, IInv, TypeOK, RunnerTypeOK
  <2>2. PICK w \in Workers : QuestionDone(w) /\ ~jobs[w].correction
    BY <2>1, StepKinds, RoundMoves DEF SessionInv
  <2> QED
    BY <2>2 DEF SessionInv, WordsOK, WaitsForWords, QuestionDone
<1>2. SessionInv /\ [Next]_vars => [Reacts]_vars
  BY <1>1
<1> QED
  BY <1>2, SessionInvariance, PTL DEF Spec, RoundSpentOnNewWords

-----------------------------------------------------------------------------
(* What the pages see.  The decision over the latest mockup is named here;  *)
(* the other variables of Journey are InFlight, what is pending of a        *)
(* session at rest, Open, and columns of the session.                       *)
Decided == mockups # <<>> /\ Latest.theme # "none"

(* What a page sees of a session at rest agrees with what it has pending.   *)
LEMMA RestsHolds == ASSUME SessionInv' PROVE J!Rests
<1>1. InFlight' \in BOOLEAN /\ (~InFlight' /\ PendingRound' # "none") \in BOOLEAN
  BY DEF InFlight
<1>2. docVersion' \in Nat /\ answered' \in BOOLEAN
  BY DEF SessionInv, IInv, TypeOK, RunnerTypeOK
<1>3. status' \in {"absent", "closed"} => PendingRound' = "none"
  BY DEF PendingRound
<1>4. status' = "intake" => PendingRound' # "none"
  BY DEF PendingRound
<1>5. status' = "clarifying" => (PendingRound' = "none" <=> said' = "agent")
  BY DEF PendingRound
<1>6. ~answered' => said' = "agent"
  BY DEF SessionInv, WordsOK
<1>7. docVersion' = 0 /\ status' = "clarifying" /\ answered' => said' # "agent"
  BY DEF SessionInv, WordsOK
<1> QED
  BY <1>1, <1>2, <1>3, <1>4, <1>5, <1>6, <1>7 DEF J!Rests

(* A job that is given to a free worker puts the session into flight.       *)
LEMMA StartsHolds ==
  ASSUME RunnerTypeOK, NEW w \in Workers, NEW job, Wait(w, job), job.op # "idle"
  PROVE  J!Starts /\ InFlight'
<1>1. InFlight'
  BY WaitSets DEF InFlight, Busy, RunnerTypeOK
<1>2. InFlight' \in BOOLEAN
  BY DEF InFlight
<1> QED
  BY <1>1, <1>2 DEF J!Starts

(* The agent's word takes what was pending, or leaves it.                   *)
LEMMA QuietHolds ==
  ASSUME jobs' = jobs, status' = status, isUi' = isUi, said' = "agent",
         (mockups' = <<>>) <=> (mockups = <<>>)
  PROVE  J!Quiet
<1>1. InFlight' = InFlight /\ InFlight \in BOOLEAN
  BY DEF InFlight, Busy
<1>2. PendingRound' = PendingRound \/ PendingRound' = "none"
  BY DEF PendingRound
<1> QED
  BY <1>1, <1>2 DEF J!Quiet

(* The background is free when no operation is in flight.                   *)
LEMMA FreeIsIdle == ASSUME NEW w \in Workers, Background(w) PROVE ~InFlight
  BY DEF Background, InFlight

(* A mockup list that stays shows the same mockup.                          *)
LEMMA StageFramed ==
  ASSUME mockups' = mockups
  PROVE  Len(mockups') = Len(mockups) /\ Open' = Open /\ Decided' = Decided
  BY DEF Open, Decided, Latest

(* A session opens, with its first question under way or its uploads        *)
(* refused.                                                                 *)
LEMMA OpenRefines ==
  ASSUME SessionInv, SessionInv', PostSession
  PROVE  J!SessionNext
<1>1. /\ status = "absent" /\ status' = "intake" /\ answered' = TRUE
      /\ UNCHANGED <<roundCount, asked, docVersion, mockups>>
  BY DEF PostSession, OpenSession, OpenSessionRefused, RequesterSays, document, stage
<1>2. J!Open
  BY <1>1, StageFramed, RestsHolds DEF J!Open, J!Spoken, Decided
<1> QED
  BY <1>2 DEF J!SessionNext

(* A judgement takes the background, whatever asks for it.                  *)
LEMMA JudgeShows ==
  ASSUME RunnerTypeOK, NEW w \in Workers, Background(w), NEW correction \in BOOLEAN,
         NEW append \in BOOLEAN, Judge(w, correction, append)
  PROVE  /\ ~InFlight /\ J!Starts /\ status # "absent"
         /\ status' = IF status = "closed" THEN "clarifying" ELSE status
         /\ answered' = IF append THEN TRUE ELSE answered
         /\ UNCHANGED <<asked, roundCount, docVersion, mockups>>
<1>1. JudgeJob(correction).op # "idle"
  BY DEF JudgeJob, Idle
<1>2. J!Starts
  BY <1>1, StartsHolds DEF Judge
<1> QED
  BY <1>2, FreeIsIdle DEF Judge, Resume, RequesterSays, document, stage

(* A reply that reaches the runner is one of the page's replies.            *)
LEMMA ReplyRefines ==
  ASSUME SessionInv, ReplyBody
  PROVE  J!SessionNext
<1>t. RunnerTypeOK /\ asked \in Nat /\ req \in Request
  BY DEF SessionInv, IInv, TypeOK, RunnerTypeOK
<1>1. PICK w \in Workers : Background(w) /\ ProcessReply(w, FALSE, TRUE)
  BY DEF ReplyBody, HandleReply
<1>2. req.id \in 0 .. asked /\ J!ReplyTaken(req.id)
  BY <1>t DEF ReplyBody, CurrentRound, Request, J!ReplyTaken
<1>3. CASE Guide(TRUE)
  <2>1. /\ Reviewable /\ UNCHANGED <<status, asked, roundCount, docVersion, mockups, isUi, jobs>>
        /\ answered' = TRUE
    BY <1>3 DEF Guide, Exchange, RequesterSays, Reviewable, document, stage
  <2>2. InFlight' = InFlight /\ ~InFlight
    BY <1>1, <2>1, FreeIsIdle DEF InFlight, Busy
  <2>3. J!Reply(req.id)
    BY <1>2, <2>1, <2>2, StageFramed DEF J!Reply, J!Reviewed, J!Spoken, Reviewable, Decided
  <2> QED
    BY <1>2, <2>3 DEF J!SessionNext
<1>4. CASE Judge(w, FALSE, TRUE)
  <2>1. ~Reviewable
    BY <1>4 DEF Judge, Reviewable
  <2>2. /\ ~InFlight /\ J!Starts /\ status # "absent" /\ answered' = TRUE
        /\ status' = IF status = "closed" THEN "clarifying" ELSE status
        /\ UNCHANGED <<asked, roundCount, docVersion, mockups>>
    BY <1>t, <1>1, <1>4, JudgeShows
  <2>3. J!Reply(req.id)
    BY <1>2, <2>1, <2>2, StageFramed DEF J!Reply, J!Reviewed, J!Spoken, Reviewable, Decided
  <2> QED
    BY <1>2, <2>3 DEF J!SessionNext
<1> QED
  BY <1>1, <1>3, <1>4 DEF ProcessReply

(* A denied slot starts a correction.                                       *)
LEMMA DenialRefines ==
  ASSUME SessionInv, DenialBody
  PROVE  J!SessionNext
<1>t. RunnerTypeOK
  BY DEF SessionInv, IInv, TypeOK
<1>1. PICK w \in Workers, s \in Slots : Background(w) /\ DenySlot(w, s)
  BY DEF DenialBody
<1>2. Reviewable /\ Judge(w, TRUE, TRUE)
  BY <1>1 DEF DenySlot
<1>3. /\ ~InFlight /\ J!Starts /\ answered' = TRUE
      /\ status' = IF status = "closed" THEN "clarifying" ELSE status
      /\ UNCHANGED <<asked, roundCount, docVersion, mockups>>
  BY <1>t, <1>1, <1>2, JudgeShows
<1>4. J!Deny
  BY <1>2, <1>3, StageFramed DEF J!Deny, J!Reviewed, J!Spoken, Reviewable, Decided
<1> QED
  BY <1>4 DEF J!SessionNext

(* A confirmation shows nowhere but in the slots.                           *)
LEMMA ConfirmRefines ==
  ASSUME SessionInv, Confirm
  PROVE  J!SessionNext
<1>1. Reviewable /\ UNCHANGED <<dialogue, docVersion, stage, jobs>>
  BY DEF Confirm, ConfirmSlot
<1>2. InFlight' = InFlight /\ PendingRound' = PendingRound /\ Open' = Open /\ Decided' = Decided
  BY <1>1 DEF InFlight, Busy, PendingRound, Open, Decided, Latest, dialogue, stage
<1>3. J!Confirm
  BY <1>1, <1>2 DEF J!Confirm, J!Reviewed, J!session, Reviewable, Decided, dialogue, stage
<1> QED
  BY <1>3 DEF J!SessionNext

(* A direct edit answers the round and leaves the rest as it was.           *)
LEMMA EditRefines ==
  ASSUME SessionInv, Edit
  PROVE  J!SessionNext
<1>1. PICK paths : EditDocument(paths)
  BY DEF Edit
<1>2. docVersion \in Nat /\ docVersion > 0 /\ docVersion' > 0
  BY <1>1 DEF EditDocument, SessionInv, IInv, TypeOK, RunnerTypeOK
<1>3. UNCHANGED <<status, roundCount, asked, mockups, isUi, jobs>> /\ said' = "agent" /\ answered' = TRUE
  BY <1>1 DEF EditDocument, Exchange, stage
<1>4. J!Quiet
  BY <1>3, QuietHolds
<1>5. J!EditDocument
  BY <1>2, <1>3, <1>4, StageFramed DEF J!EditDocument, J!Spoken, Decided
<1> QED
  BY <1>5 DEF J!SessionNext

(* An instruction takes the background, and the round stays as it was.      *)
LEMMA InstructRefines ==
  ASSUME SessionInv, Instruct
  PROVE  J!SessionNext
<1>t. RunnerTypeOK
  BY DEF SessionInv, IInv, TypeOK
<1>1. PICK w \in Workers, paths \in SUBSET Paths : Background(w) /\ InstructDocument(w, paths)
  BY DEF Instruct
<1>2. J!Starts
  <2> DEFINE job == [Idle EXCEPT !.op = "instruct", !.base = text, !.paths = paths, !.dir = visual]
  <2>1. job.op # "idle"
    BY DEF Idle
  <2>2. Wait(w, job)
    BY <1>1 DEF InstructDocument
  <2> HIDE DEF job
  <2> QED
    BY <1>t, <2>1, <2>2, StartsHolds
<1>3. docVersion > 0 /\ UNCHANGED <<status, answered, roundCount, asked, docVersion, mockups>> /\ ~InFlight
  BY <1>1, FreeIsIdle DEF InstructDocument, dialogue, document, stage
<1>4. J!InstructDocument
  BY <1>2, <1>3, StageFramed DEF J!InstructDocument, Decided
<1> QED
  BY <1>4 DEF J!SessionNext

(* A comment has the next mockup drawn, or ends the segment.                *)
LEMMA CommentRefines ==
  ASSUME SessionInv, SessionInv', CommentBody
  PROVE  J!SessionNext
<1>t. RunnerTypeOK /\ mockups \in Seq(Mockup)
  BY DEF SessionInv, IInv, TypeOK, RunnerTypeOK
<1>1. PICK w \in Workers : Background(w) /\ AnnotateMockup(w)
  BY DEF CommentBody
<1>2. ~InFlight /\ mockups # <<>> /\ UNCHANGED <<roundCount, asked, docVersion, isUi>> /\ Len(mockups) > 0
  BY <1>t, <1>1, FreeIsIdle, EmptySeq, LenProperties DEF AnnotateMockup, document
<1>3. CASE Redraw(w)
  <2>1. J!Starts
    <3> DEFINE job == [Idle EXCEPT !.op = "redraw", !.doc = docVersion, !.read = docVersion]
    <3>1. job.op # "idle"
      BY DEF Idle
    <3>2. Wait(w, job)
      BY <1>3 DEF Redraw
    <3> HIDE DEF job
    <3> QED
      BY <1>t, <3>1, <3>2, StartsHolds
  <2>2. UNCHANGED <<status, mockups>> /\ answered' = TRUE
    BY <1>3 DEF Redraw, RequesterSays
  <2>3. J!Comment
    BY <1>2, <2>1, <2>2, StageFramed DEF J!Comment, J!Spoken, Decided
  <2> QED
    BY <2>3 DEF J!SessionNext
<1>4. CASE Escalate
  <2>1. jobs' = jobs /\ status' = "documented" /\ said' = "agent" /\ answered' = TRUE
        /\ mockups' = [mockups EXCEPT ![Len(mockups)].convergence = "escalated"]
    BY <1>4 DEF Escalate, Exchange
  <2>2. Latest \in Mockup /\ Len(mockups) \in Nat
    BY <1>t, <1>2, LatestIsMockup
  <2>3. /\ mockups' \in Seq(Mockup) /\ Len(mockups') = Len(mockups)
        /\ mockups'[Len(mockups)] = [Latest EXCEPT !.convergence = "escalated"]
    BY <1>t, <1>2, <2>1, LatestChanged
  <2>4. mockups' # <<>> /\ Latest' = [Latest EXCEPT !.convergence = "escalated"]
    BY <1>2, <2>3, EmptySeq DEF Latest
  <2>5. Open' = FALSE /\ Decided' = Decided
    BY <1>2, <2>2, <2>4 DEF Open, Decided, Mockup
  <2>6. InFlight' = InFlight /\ InFlight \in BOOLEAN
    BY <2>1 DEF InFlight, Busy
  <2>7. PendingRound' = "none"
    BY <2>1, <2>4 DEF PendingRound
  <2>8. J!Comment
    BY <1>2, <2>1, <2>3, <2>5, <2>6, <2>7 DEF J!Comment, J!Quiet, J!Spoken, Decided
  <2> QED
    BY <2>8 DEF J!SessionNext
<1> QED
  BY <1>1, <1>3, <1>4 DEF AnnotateMockup

(* A theme decides the open mockup.                                         *)
LEMMA ThemeRefines ==
  ASSUME SessionInv, Theme
  PROVE  J!SessionNext
<1>t. mockups \in Seq(Mockup)
  BY DEF SessionInv, IInv, TypeOK, RunnerTypeOK
<1>1. PICK choice \in Directions : SelectMockupTheme(choice)
  BY DEF Theme
<1>2. /\ Open /\ mockups # <<>> /\ choice # "none" /\ said' = "agent"
      /\ UNCHANGED <<status, answered, roundCount, asked, docVersion, isUi, jobs>>
  BY <1>1 DEF SelectMockupTheme, Open, AgentSays, document
<1>3. Latest \in Mockup /\ Len(mockups) \in Nat /\ Len(mockups) > 0
  BY <1>t, <1>2, LatestIsMockup, EmptySeq
<1>4. /\ mockups' \in Seq(Mockup) /\ Len(mockups') = Len(mockups)
      /\ mockups'[Len(mockups)] = [Latest EXCEPT !.theme = choice]
  BY <1>t, <1>1, <1>2, LatestChanged DEF SelectMockupTheme
<1>5. mockups' # <<>> /\ Latest' = [Latest EXCEPT !.theme = choice]
  BY <1>3, <1>4, EmptySeq DEF Latest
<1>6. Open' /\ Decided'
  BY <1>2, <1>3, <1>5 DEF Open, Decided, Mockup
<1>7. J!Quiet
  BY <1>2, <1>5, QuietHolds
<1>8. Open \in BOOLEAN /\ Open' \in BOOLEAN /\ Decided' \in BOOLEAN
  BY DEF Open, Decided
<1>9. J!Theme
  BY <1>2, <1>4, <1>6, <1>7, <1>8 DEF J!Theme, Decided
<1> QED
  BY <1>9 DEF J!SessionNext

(* An approval takes the background with the open mockup decided.           *)
LEMMA ApproveRefines ==
  ASSUME SessionInv, Approve
  PROVE  J!SessionNext
<1>t. RunnerTypeOK
  BY DEF SessionInv, IInv, TypeOK
<1>1. PICK w \in Workers : Background(w) /\ ApproveMockup(w)
  BY DEF Approve
<1>2. J!Starts
  <2> DEFINE job == [Idle EXCEPT !.op = "approve", !.base = text, !.dir = Latest.theme,
                                 !.mock = Len(mockups)]
  <2>1. job.op # "idle"
    BY DEF Idle
  <2>2. Wait(w, job)
    BY <1>1 DEF ApproveMockup
  <2> HIDE DEF job
  <2> QED
    BY <1>t, <2>1, <2>2, StartsHolds
<1>3. ~InFlight /\ Open /\ Decided /\ UNCHANGED <<status, answered, roundCount, asked, docVersion, mockups>>
  BY <1>1, FreeIsIdle DEF ApproveMockup, Open, Decided, dialogue, document, stage
<1>4. J!Approve
  BY <1>2, <1>3, StageFramed DEF J!Approve, Decided
<1> QED
  BY <1>4 DEF J!SessionNext

(* A retry starts what is pending; over a mockup it gets the guide.         *)
LEMMA RetryRefines ==
  ASSUME SessionInv, Retry
  PROVE  J!SessionNext
<1>t. RunnerTypeOK /\ jobs \in [Workers -> Job]
  BY DEF SessionInv, IInv, TypeOK, RunnerTypeOK
<1>1. PICK w \in Workers : Background(w) /\ RetryRound(w)
  BY DEF Retry
<1>2. PendingRound # "none" /\ ~InFlight
  BY <1>1, FreeIsIdle DEF Retry
<1>3. CASE PendingRound = "clarification" /\ StartClarification(w)
  <2>1. QuestionJob(FALSE, roundCount).op # "idle" /\ Wait(w, QuestionJob(FALSE, roundCount))
    BY <1>3, QuestionFields DEF StartClarification
  <2>2. J!Starts
    BY <1>t, <2>1, StartsHolds
  <2>3. UNCHANGED <<status, answered, roundCount, asked, docVersion, mockups>>
    BY <1>3 DEF StartClarification, dialogue, document, stage
  <2>4. J!Retry
    BY <1>2, <2>2, <2>3, StageFramed DEF J!Retry, Decided
  <2> QED
    BY <2>4 DEF J!SessionNext
<1>4. CASE PendingRound = "mockup" /\ RetryMockup(w)
  <2>1. isUi = "yes" /\ mockups = <<>>
    BY <1>4 DEF PendingRound
  <2>2. Wait(w, DrawJob(docVersion, docVersion)) /\ status' = status
    BY <1>4, <2>1 DEF RetryMockup, EnterMockupStage, Open
  <2>3. DrawJob(docVersion, docVersion).op # "idle"
    BY DEF DrawJob, Idle
  <2>4. J!Starts
    BY <1>t, <2>2, <2>3, StartsHolds
  <2>5. UNCHANGED <<answered, roundCount, asked, docVersion, mockups>>
    BY <1>4 DEF RetryMockup, document, stage
  <2>6. J!Retry
    BY <1>2, <2>2, <2>4, <2>5, StageFramed DEF J!Retry, Decided
  <2> QED
    BY <2>6 DEF J!SessionNext
<1>5. CASE PendingRound = "judgement" /\ RetryJudgement(w)
  <2>1. status \notin {"absent", "closed"}
    BY <1>5 DEF PendingRound
  <2>2. CASE Guide(FALSE) /\ status # "documented"
    <3>1. /\ status = "mockup" /\ said' = "agent"
          /\ UNCHANGED <<status, answered, roundCount, asked, docVersion, mockups, isUi, jobs>>
      BY <2>2 DEF Guide, AgentSays, document, stage
    <3>2. J!Quiet
      BY <3>1, QuietHolds
    <3>3. PendingRound' = "none"
      BY <3>1 DEF PendingRound
    <3>4. J!Retry
      BY <1>2, <3>1, <3>2, <3>3, StageFramed DEF J!Retry, Decided
    <3> QED
      BY <3>4 DEF J!SessionNext
  <2>3. ASSUME NEW correction \in BOOLEAN, Judge(w, correction, FALSE) PROVE J!SessionNext
    <3>1. /\ J!Starts /\ status' = status /\ answered' = answered
          /\ UNCHANGED <<asked, roundCount, docVersion, mockups>>
      BY <1>t, <1>1, <2>1, <2>3, JudgeShows
    <3>2. J!Retry
      BY <1>2, <3>1, StageFramed DEF J!Retry, Decided
    <3> QED
      BY <3>2 DEF J!SessionNext
  <2>4. (status = "documented") \in BOOLEAN
    OBVIOUS
  <2> QED
    BY <1>5, <2>2, <2>3, <2>4 DEF RetryJudgement, ProcessReply
<1> QED
  BY <1>1, <1>3, <1>4, <1>5 DEF RetryRound

(* While an operation is in flight the session shows as processing, and it  *)
(* does not when the only one has ended.                                    *)
LEMMA IdlesShow == ASSUME Idles PROVE InFlight' = FALSE
  BY DEF Idles, InFlight, Busy

(* One LLM call hands over to the next: nothing changes but the job.        *)
LEMMA HandsOver ==
  ASSUME InFlight, InFlight', UNCHANGED <<dialogue, docVersion, stage>>
  PROVE  UNCHANGED J!session
<1>1. InFlight' = InFlight
  BY DEF InFlight
<1>2. Open' = Open /\ Decided' = Decided
  BY DEF Open, Decided, Latest, stage
<1> QED
  BY <1>1, <1>2 DEF J!session, Decided, dialogue, stage

(* Operations that end with nothing to show.                                *)
LEMMA EndRefines ==
  ASSUME SessionInv', InFlight, Idles, UNCHANGED <<status, roundCount, asked, answered, docVersion, mockups>>
  PROVE  J!SessionNext
<1>1. J!Ends
  BY IdlesShow, StageFramed DEF J!Ends, Decided
<1> QED
  BY <1>1, RestsHolds DEF J!Progress, J!SessionNext

(* A question is asked, counted once or not at all.                         *)
LEMMA QuestionRefines ==
  ASSUME SessionInv, SessionInv', InFlight, NEW w \in Workers, QuestionDone(w)
  PROVE  J!SessionNext
<1>1. Idles
  BY FinishedAlone DEF QuestionDone, Busy, Idles, SessionInv, IInv, Kept, TypeOK, RunnerTypeOK
<1>2. roundCount' \in {roundCount, roundCount + 1}
  BY DEF QuestionDone, SessionInv, IInv, Kept, JobsOK, JobOK
<1>3. asked' = asked + 1 /\ answered' = FALSE /\ status' = "clarifying" /\ UNCHANGED <<docVersion, mockups>>
  BY DEF QuestionDone, document, stage
<1>4. J!Asks
  BY <1>1, <1>2, <1>3, IdlesShow, StageFramed DEF J!Asks, Decided
<1> QED
  BY <1>4, RestsHolds DEF J!Progress, J!SessionNext

(* A judgement always leads to another call.                                *)
LEMMA JudgementRefines ==
  ASSUME SessionInv, InFlight, NEW w \in Workers, JudgeDone(w)
  PROVE  UNCHANGED J!session
<1>t. jobs \in [Workers -> Job] /\ jobs[w] \in Job /\ resumes \in Nat
  BY DEF SessionInv, IInv, TypeOK, RunnerTypeOK
<1>1. PICK verdict \in Verdicts, highScore \in BOOLEAN :
        Wait(w, NextStage(jobs[w], Judged(verdict), highScore))
  BY DEF JudgeDone
<1> DEFINE table == Judged(verdict)
           job == NextStage(jobs[w], table, highScore)
<1>2. \/ job = [Idle EXCEPT !.op = "document"]
      \/ job = QuestionJob(TRUE, roundCount)
      \/ job = QuestionJob(FALSE, roundCount)
      \/ job = [Idle EXCEPT !.op = "promote", !.gap = Gap(table)]
  BY <1>t, NextStageCases
<1>3. jobs'[w] = job
  BY <1>t, <1>1, WaitSets
<1> HIDE DEF job, table
<1>4. job.op # "idle"
  BY <1>2 DEF QuestionJob, Idle
<1>5. InFlight'
  BY <1>3, <1>4 DEF InFlight, Busy
<1> QED
  BY <1>5, HandsOver DEF JudgeDone, document

(* The promotion judge hands over to the document, or puts on hold.         *)
LEMMA PromotionRefines ==
  ASSUME SessionInv, SessionInv', InFlight, NEW w \in Workers, PromoteDone(w)
  PROVE  J!SessionNext \/ UNCHANGED J!session
<1>t. jobs \in [Workers -> Job] /\ UNCHANGED <<document, stage>> /\ Busy(w) /\ SingleFlight
  BY DEF PromoteDone, Busy, SessionInv, IInv, Kept, TypeOK, RunnerTypeOK
<1>1. CASE Wait(w, [Idle EXCEPT !.op = "document"]) /\ UNCHANGED dialogue
  <2>1. jobs'[w] = [Idle EXCEPT !.op = "document"]
    BY <1>t, <1>1, WaitSets
  <2>2. jobs'[w].op # "idle"
    BY <2>1, JobFields
  <2>3. InFlight'
    BY <2>2 DEF InFlight, Busy
  <2> QED
    BY <1>t, <1>1, <2>3, HandsOver DEF document
<1>2. CASE Hold(w)
  <2>1. Idles
    BY <1>t, <1>2, FinishedAlone DEF Hold, Idles
  <2>2. status' = "closed" /\ UNCHANGED <<roundCount, asked, answered, docVersion, mockups>>
    BY <1>t, <1>2 DEF Hold, AgentSays, document, stage
  <2>3. J!Holds
    BY <2>1, <2>2, IdlesShow, StageFramed DEF J!Holds, Decided
  <2> QED
    BY <2>3, RestsHolds DEF J!Progress, J!SessionNext
<1> QED
  BY <1>1, <1>2 DEF PromoteDone

(* A document is delivered, or classified, with its status.                 *)
LEMMA DeliveryRefines ==
  ASSUME SessionInv, SessionInv', InFlight, NEW w \in Workers, DocumentDone(w) \/ ClassifyDone(w)
  PROVE  J!SessionNext
<1>1. docVersion' > 0 /\ UNCHANGED <<roundCount, asked, answered, mockups>>
  BY DEF DocumentDone, ClassifyDone, AgentSays, document, stage, SessionInv, IInv, Kept, TypeOK,
     RunnerTypeOK, JobsOK, JobOK
<1>2. status' = "documented" \/ (status' = "mockup" /\ Open)
  BY DEF DocumentDone, ClassifyDone, EnterMockupStage, SessionInv, IInv, Kept, JobsOK, JobOK
<1>3. J!Writes
  BY <1>1, <1>2, StageFramed DEF J!Writes, Decided
<1> QED
  BY <1>3, RestsHolds DEF J!Progress, J!SessionNext

(* An instruction writes a version, or finds nothing to change.             *)
LEMMA InstructionRefines ==
  ASSUME SessionInv, SessionInv', InFlight, NEW w \in Workers, InstructDone(w)
  PROVE  J!SessionNext
<1>t. docVersion \in Nat /\ docVersion > 0 /\ UNCHANGED <<status, roundCount, asked, mockups>>
  BY DEF InstructDone, stage, SessionInv, IInv, TypeOK, RunnerTypeOK, StageOK, StageJobsOK, StageJobOK
<1>1. Idles
  BY FinishedAlone DEF InstructDone, Busy, Idles, SessionInv, IInv, Kept, TypeOK, RunnerTypeOK
<1>2. \/ UNCHANGED <<docVersion, answered>>
      \/ docVersion' = docVersion + 1 /\ answered' = TRUE
  BY DEF InstructDone, Exchange
<1>3. CASE UNCHANGED <<docVersion, answered>>
  BY <1>t, <1>1, <1>3, EndRefines
<1>4. CASE docVersion' = docVersion + 1 /\ answered' = TRUE
  <2>1. docVersion' > 0
    BY <1>t, <1>4
  <2>2. J!Writes
    <3>1. Open' = Open /\ Decided' = Decided /\ Len(mockups') = Len(mockups)
      BY <1>t, StageFramed
    <3>2. status' = "mockup" => Open'
      BY DEF SessionInv, IInv, Kept, StatusMatchesStore
    <3> QED
      BY <1>t, <1>4, <2>1, <3>1, <3>2 DEF J!Writes, Decided
  <2> QED
    BY <2>2, RestsHolds DEF J!Progress, J!SessionNext
<1> QED
  BY <1>2, <1>3, <1>4

(* A drawing shows a new mockup, open and undecided.                        *)
LEMMA DrawRefines ==
  ASSUME SessionInv, SessionInv', InFlight, NEW w \in Workers, DrawDone(w)
  PROVE  J!SessionNext
<1>t. RunnerTypeOK /\ mockups \in Seq(Mockup)
  BY DEF SessionInv, IInv, TypeOK, RunnerTypeOK
<1>1. Idles
  BY FinishedAlone DEF DrawDone, Busy, Idles, SessionInv, IInv, Kept, TypeOK, RunnerTypeOK
<1>2. docVersion > 0 /\ UNCHANGED <<roundCount, asked, answered, docVersion>> /\ status' \in {status, "mockup"}
  BY DEF DrawDone, AgentSays, document, SessionInv, IInv, Kept, JobsOK, JobOK
<1>3. NewMockup(jobs[w]) \in Mockup
  BY <1>t DEF NewMockup, Mockup, Directions, RunnerTypeOK, Job
<1>4. Len(mockups') = Len(mockups) + 1 /\ mockups' # <<>> /\ Latest' = NewMockup(jobs[w])
  <2>1. mockups' = Append(mockups, NewMockup(jobs[w]))
    BY DEF DrawDone
  <2> QED
    BY <1>t, <1>3, <2>1, AppendProperties DEF Latest
<1>5. Open' = TRUE /\ Decided' = FALSE
  BY <1>4 DEF Open, Decided, NewMockup
<1>6. J!Draws
  BY <1>1, <1>2, <1>4, <1>5, IdlesShow DEF J!Draws, Decided
<1> QED
  BY <1>6, RestsHolds DEF J!Progress, J!SessionNext

(* An approval writes a version and closes the mockup it approves.          *)
LEMMA ApprovalRefines ==
  ASSUME SessionInv, SessionInv', InFlight, NEW w \in Workers, ApproveDone(w)
  PROVE  J!SessionNext
<1>t. RunnerTypeOK /\ mockups \in Seq(Mockup) /\ docVersion \in Nat
  BY DEF SessionInv, IInv, TypeOK, RunnerTypeOK
<1>1. jobs[w].mock = Len(mockups) /\ Open /\ mockups # <<>>
  BY DEF ApproveDone, SessionInv, StageOK, StageJobsOK, StageJobOK, Open
<1>2. Latest \in Mockup /\ Len(mockups) \in Nat /\ Len(mockups) > 0
  BY <1>t, <1>1, LatestIsMockup, EmptySeq
<1>3. /\ mockups' \in Seq(Mockup) /\ Len(mockups') = Len(mockups)
      /\ mockups'[Len(mockups)] = [Latest EXCEPT !.convergence = "approved"]
  BY <1>t, <1>1, LatestChanged DEF ApproveDone
<1>4. mockups' # <<>> /\ Latest' = [Latest EXCEPT !.convergence = "approved"]
  BY <1>2, <1>3, EmptySeq DEF Latest
<1>5. Open' = FALSE /\ Decided' = Decided
  BY <1>1, <1>2, <1>4 DEF Open, Decided, Mockup
<1>6. docVersion' > 0 /\ status' = "documented" /\ UNCHANGED <<roundCount, asked, answered>>
  BY <1>t DEF ApproveDone, AgentSays
<1>7. J!Writes
  BY <1>3, <1>5, <1>6 DEF J!Writes, Decided
<1> QED
  BY <1>7, RestsHolds DEF J!Progress, J!SessionNext

(* Whatever an operation comes to is a progress of Journey, or nothing a    *)
(* page sees.                                                                *)
LEMMA WorkRefines ==
  ASSUME SessionInv, SessionInv', NEW w \in Workers, Work(w)
  PROVE  J!SessionNext \/ UNCHANGED J!session
<1>1. Busy(w)
  BY DEF Work, JobDone, Fail, QuestionDone, JudgeDone, PromoteDone, DocumentDone, InstructDone,
     ClassifyDone, DrawDone, ApproveDone, Busy
<1>2. InFlight
  BY <1>1 DEF InFlight
<1>3. CASE Fail(w)
  <2>1. Idles
    BY <1>1, <1>3, FinishedAlone DEF Fail, Idles, SessionInv, IInv, Kept, TypeOK, RunnerTypeOK
  <2>2. UNCHANGED <<status, roundCount, asked, answered, docVersion, mockups>>
    BY <1>3 DEF Fail, dialogue, document, stage
  <2> QED
    BY <1>2, <2>1, <2>2, EndRefines
<1>4. CASE JobDone(w)
  BY <1>2, <1>4, QuestionRefines, JudgementRefines, PromotionRefines, DeliveryRefines,
     InstructionRefines, DrawRefines, ApprovalRefines DEF JobDone
<1> QED
  BY <1>3, <1>4 DEF Work

(* A restart ends the operation in flight, and is not seen without one.     *)
LEMMA CrashRefines ==
  ASSUME SessionInv', Crash
  PROVE  J!SessionNext \/ UNCHANGED J!session
<1>1. UNCHANGED <<dialogue, docVersion, stage>> /\ Idles
  BY DEF Crash, Restart, Idles, Idle, document
<1>2. CASE InFlight
  BY <1>1, <1>2, EndRefines DEF dialogue, stage
<1>3. CASE ~InFlight
  <2>1. InFlight' = InFlight
    BY <1>1, <1>3, IdlesShow DEF InFlight
  <2>2. PendingRound' = PendingRound /\ Open' = Open /\ Decided' = Decided
    BY <1>1 DEF PendingRound, Open, Decided, Latest, dialogue, stage
  <2> QED
    BY <1>1, <2>1, <2>2 DEF J!session, Decided, dialogue, stage
<1> QED
  BY <1>2, <1>3

(* A request that only arrives, is refused or is given up is not seen.      *)
LEMMA UnseenSteps ==
  ASSUME UNCHANGED runnerVars
  PROVE  UNCHANGED J!session
<1>1. InFlight' = InFlight /\ PendingRound' = PendingRound /\ Open' = Open /\ Decided' = Decided
  BY DEF runnerVars, dialogue, document, stage, InFlight, Busy, PendingRound, Open, Decided, Latest
<1> QED
  BY <1>1 DEF J!session, Decided, runnerVars, dialogue, document, stage

(* A denial that is dropped shows nowhere but in the slots.                 *)
LEMMA DropUnseen ==
  ASSUME DenialDropped
  PROVE  UNCHANGED J!session
<1>1. UNCHANGED <<dialogue, document, stage, jobs>>
  BY DEF DenialDropped, DenialTooLong
<1>2. InFlight' = InFlight /\ PendingRound' = PendingRound /\ Open' = Open /\ Decided' = Decided
  BY <1>1 DEF InFlight, Busy, PendingRound, Open, Decided, Latest, dialogue, stage
<1> QED
  BY <1>1, <1>2 DEF J!session, Decided, dialogue, document, stage

(* No session is open at first, and nothing of it is seen.                  *)
LEMMA JourneyInit == Init => J!SessionInit
<1> SUFFICES ASSUME Init PROVE J!SessionInit
  OBVIOUS
<1>1. ~InFlight /\ PendingRound = "none" /\ Len(mockups) = 0 /\ mockups = <<>> /\ Open = FALSE
  BY DEF Init, RunnerInit, InFlight, Busy, Idle, PendingRound, Open
<1> QED
  BY <1>1 DEF Init, RunnerInit, J!SessionInit

(* Every step of the session is one that its pages expect, or none.         *)
LEMMA JourneyStep ==
  ASSUME SessionInv, SessionInv', [Next]_vars
  PROVE  J!SessionNext \/ UNCHANGED J!session
<1>1. CASE ReplyHeaders \/ ReplyRefused \/ DenialHeaders \/ DenialRefused \/ CommentHeaders
           \/ CommentRefused \/ Abandon \/ UNCHANGED vars
  BY <1>1, UnseenSteps DEF ReplyHeaders, ReplyRefused, DenialHeaders, DenialRefused,
     CommentHeaders, CommentRefused, Abandon, Receive, Refuse, vars
<1>2. CASE PostSession
  BY <1>2, OpenRefines
<1>3. CASE ReplyBody
  BY <1>3, ReplyRefines
<1>4. CASE DenialBody
  BY <1>4, DenialRefines
<1>5. CASE Confirm
  BY <1>5, ConfirmRefines
<1>6. CASE Edit
  BY <1>6, EditRefines
<1>7. CASE Instruct
  BY <1>7, InstructRefines
<1>8. CASE CommentBody
  BY <1>8, CommentRefines
<1>9. CASE Theme
  BY <1>9, ThemeRefines
<1>10. CASE Approve
  BY <1>10, ApproveRefines
<1>11. CASE Retry
  BY <1>11, RetryRefines
<1>12. ASSUME NEW w \in Workers, Work(w) PROVE J!SessionNext \/ UNCHANGED J!session
  BY <1>12, WorkRefines
<1>13. CASE Crash
  BY <1>13, CrashRefines
<1>14. CASE DenialDropped
  BY <1>14, DropUnseen
<1> QED
  BY <1>1, <1>2, <1>3, <1>4, <1>5, <1>6, <1>7, <1>8, <1>9, <1>10, <1>11, <1>12, <1>13, <1>14 DEF Next

(* The adapter and the runner implement Journey: what a page sees of a      *)
(* session moves only as Journey says, for every size of the session and of *)
(* its budgets.                                                              *)
THEOREM JourneyHolds == Spec => JourneySpec
<1>1. SessionInv /\ SessionInv' /\ [Next]_vars => [J!SessionNext]_(J!session)
  BY JourneyStep
<1> QED
  BY <1>1, JourneyInit, SessionInvariance, PTL DEF Spec, JourneySpec, J!SessionSpec
=============================================================================
