----------------------------- MODULE WebIntake -----------------------------
(***************************************************************************)
(* The web adapter of src/web/server.ts over one session: which HTTP       *)
(* requests reach the runner, and when.                                    *)
(*                                                                         *)
(* A handler that reads a body takes two steps: it looks at the session    *)
(* when the headers arrive and acts when the body is complete.  Operations *)
(* that call the LLM run in the background, one per session (inFlight);    *)
(* document edits, slot confirmations and theme choices do not pass that   *)
(* gate.                                                                   *)
(***************************************************************************)
EXTENDS IntakeRunner

CONSTANTS MaxAsked, MaxResumes, MaxDocs, MaxMockups   \* bounds of an instance

ASSUME BoundAssumption ==
  MaxAsked \in Nat /\ MaxResumes \in Nat /\ MaxDocs \in Nat /\ MaxMockups \in Nat

VARIABLE req   \* the request whose body is still arriving

vars == <<runnerVars, req>>

NoRequest == [kind |-> "none", seen |-> "absent", id |-> 0]
Request == [kind: {"none", "reply", "denial", "comment"},
            seen: {"absent", "intake", "clarifying", "documented", "mockup", "closed"},
            id: Nat]   \* the round, or the mockup version, the client names

InFlight == \E w \in Workers : Busy(w)

-----------------------------------------------------------------------------
(* Bounds.  Every operation that may end in a round, a document version or *)
(* a mockup starts only while there is room for what it may add.           *)

DocumentsDue == Cardinality({w \in Workers :
                  jobs[w].op \in {"judge", "promote", "document", "instruct", "approve"}})

RoomForDocument == docVersion + DocumentsDue < MaxDocs
RoomForRound    == asked < MaxAsked /\ RoomForDocument
RoomForMockup   == Len(mockups) < MaxMockups
RoomForResume   == status = "closed" => resumes < MaxResumes

-----------------------------------------------------------------------------
(* Requests *)

PostSession ==
  \/ \E w \in Workers : OpenSession(w) /\ UNCHANGED req
  \/ OpenSessionRefused /\ UNCHANGED req

Receive(kind, id) ==
  /\ req = NoRequest
  /\ req' = [kind |-> kind, seen |-> status, id |-> id]
  /\ UNCHANGED runnerVars

(* mutant: it refuses what is in flight already, not the session's next work *)
Mut_Background(w) == ~Busy(w)

(* runInBackground refuses while the session has work in flight *)
Background(w) == \A v \in Workers : ~Busy(v)

Refuse == req' = NoRequest /\ UNCHANGED runnerVars

(* handleReply: round 0 stands for a body without a roundId *)
ReplyHeaders ==
  /\ status \notin {"absent", "documented"}
  /\ \E round \in 0..asked : Receive("reply", round)

CurrentRound(request) ==
  IF request.id = 0
  THEN ~(request.seen = "clarifying" /\ asked > 0)
  ELSE request.id = asked /\ ~answered

ReplyBody ==
  /\ req.kind = "reply"
  /\ RoomForRound /\ RoomForResume
  /\ CurrentRound(req)
  /\ \E w \in Workers : Background(w) /\ HandleReply(w)
  /\ req' = NoRequest

ReplyRefused ==
  /\ req.kind = "reply"
  /\ ~CurrentRound(req) \/ InFlight
  /\ Refuse

(* handleSlotConfirm *)
Confirm == \E s \in Slots : ConfirmSlot(s) /\ UNCHANGED req

DenialHeaders == status # "absent" /\ Receive("denial", 0)

DenialAdmitted(seen) == seen = "documented"

DenialBody ==
  /\ req.kind = "denial"
  /\ DenialAdmitted(req.seen)
  /\ RoomForRound
  /\ \E w \in Workers, s \in Slots : Background(w) /\ DenySlot(w, s)
  /\ req' = NoRequest

DenialDropped ==
  /\ req.kind = "denial"
  /\ DenialAdmitted(req.seen)
  /\ ~InFlight
  /\ \E s \in Slots : DenialTooLong(s)
  /\ req' = NoRequest

DenialRefused ==
  /\ req.kind = "denial"
  /\ ~DenialAdmitted(req.seen) \/ InFlight \/ ~Reviewable
  /\ Refuse

(* handleDocumentCorrection *)
Edit ==
  /\ RoomForDocument
  /\ \E paths \in SUBSET Paths : EditDocument(paths)
  /\ UNCHANGED req

Instruct ==
  /\ RoomForDocument
  /\ \E w \in Workers, paths \in SUBSET Paths : Background(w) /\ InstructDocument(w, paths)
  /\ UNCHANGED req

(* handleMockupAnnotations: the body's version is compared with the latest  *)
(* one as it was when the headers arrived                                   *)
CommentHeaders == mockups # <<>> /\ Receive("comment", Len(mockups))

CommentBody ==
  /\ req.kind = "comment"
  /\ RoomForMockup
  /\ \E w \in Workers : Background(w) /\ AnnotateMockup(w)
  /\ req' = NoRequest

CommentRefused == req.kind = "comment" /\ InFlight /\ Refuse

(* handleMockupTheme *)
Theme == \E choice \in Directions : SelectMockupTheme(choice) /\ UNCHANGED req

(* handleMockupApproval *)
Approve ==
  /\ RoomForDocument
  /\ \E w \in Workers : Background(w) /\ ApproveMockup(w)
  /\ UNCHANGED req

(* POST .../rounds *)
Retry ==
  /\ PendingRound # "none"
  /\ RoomForRound
  /\ \E w \in Workers : Background(w) /\ RetryRound(w)
  /\ UNCHANGED req

(* the client gives up before its body is complete, or a reply is too long *)
Abandon == req # NoRequest /\ Refuse

-----------------------------------------------------------------------------
(* The process *)

Work(w) == (JobDone(w) \/ Fail(w)) /\ UNCHANGED req

Crash == Restart /\ req' = NoRequest

Init == RunnerInit /\ req = NoRequest

Next ==
  \/ PostSession
  \/ ReplyHeaders \/ ReplyBody \/ ReplyRefused
  \/ Confirm \/ DenialHeaders \/ DenialBody \/ DenialDropped \/ DenialRefused
  \/ Edit \/ Instruct
  \/ CommentHeaders \/ CommentBody \/ CommentRefused
  \/ Theme \/ Approve
  \/ Retry \/ Abandon
  \/ \E w \in Workers : Work(w)
  \/ Crash

Spec == Init /\ [][Next]_vars
FairSpec == Spec /\ \A w \in Workers : WF_vars(Work(w))

-----------------------------------------------------------------------------
(* Properties *)

TypeOK == RunnerTypeOK /\ req \in Request

(* No more counted rounds than granted: a retry, a correction or a lost    *)
(* round never eats the budget of the next one (G-10, roundBudgetOf).       *)
RoundsWithinBudget == roundCount <= RoundBudget

(* A published status is never ahead of the store: a session shown as       *)
(* documented or in the mockup stage has a document, and the mockup stage   *)
(* an open mockup of a request classified as UI.                            *)
StatusMatchesStore ==
  /\ Reviewable => docVersion > 0
  /\ status = "mockup" => isUi = "yes" /\ Open

(* What a resting session offers the requester to do: a round that still    *)
(* takes an answer, a retry, a resume, a document.                           *)
CanAnswer == \E round \in 0..asked :
  CurrentRound([kind |-> "reply", seen |-> status, id |-> round])
WayForward ==
  \/ PendingRound # "none"
  \/ status \in {"intake", "clarifying", "closed"} /\ CanAnswer
  \/ Reviewable

(* Before the first document a counted round reacts to words of the         *)
(* requester nobody has replied to: neither a retry nor a restart spends    *)
(* the budget on the same words twice.  Later rounds are left out: an edit  *)
(* during a judgement leaves the agent speaking last, and its round counts. *)
RoundSpentOnNewWords ==
  [][roundCount' > roundCount /\ docVersion = 0 => said # "agent"]_vars

(* A session goes on hold only with its rounds used up and a slot nobody    *)
(* could fill or promote, and the verdict leaves the slots as they were.    *)
HoldIsEarned ==
  [][status # "closed" /\ status' = "closed"
       => roundCount >= RoundBudget /\ Gap(slots) # {} /\ slots' = slots]_vars

(* A document is delivered only over a slot table without gaps: no request  *)
(* reopens a slot between the judgement and the delivery it led to.         *)
DeliveredWithoutGap == [][\A w \in Workers : DocumentDone(w) => Gap(slots) = {}]_vars

(* A mockup that was approved or escalated never changes again.             *)
ClosedMockupFrozen ==
  [][\A i \in DOMAIN mockups : Closed(mockups[i]) => i \in DOMAIN mockups' /\ mockups'[i] = mockups[i]]_vars

(* Between two closings the requester gets at most MaxIterations            *)
(* regenerations, however approvals, escalations and failures alternate.    *)
IterationsWithinBudget == IterationsUsed <= MaxIterations

(* A mockup is approved only as the latest one, with a direction decided,   *)
(* and each approval is absorbed by a document version of its own.          *)
ApprovalIsAbsorbed ==
  [][\A i \in DOMAIN mockups :
       mockups[i].convergence # "approved" /\ mockups'[i].convergence = "approved"
         => /\ i = Len(mockups) /\ mockups[i].theme # "none"
            /\ docVersion' = docVersion + 1 /\ visual' # "none"]_vars

(* A reply never goes unnoticed: the agent speaks again, or its judgement   *)
(* can be retried (G-10, pendingRound), whatever fails in between.          *)
WordsAreServed ==
  said = "reply" ~> (said # "reply" \/ (~InFlight /\ PendingRound # "none"))
=============================================================================
