----------------------------- MODULE ChatThread -----------------------------
(***************************************************************************)
(* A Slack thread and its intake session: src/cli/slack.ts over            *)
(* src/runner/slack-runner.ts over src/runner/core-runner.ts.              *)
(*                                                                         *)
(* The Slack adapter has no gate.  Every event is handled as it comes,     *)
(* beside whatever handlers still wait for an LLM or for Slack, and the    *)
(* agent's words stand in the thread (an await) before they stand in the   *)
(* transcript.  IntakeRunner takes those two for one step, as the web      *)
(* adapter's port allows; here they are two, and what is kept of the       *)
(* session is what a thread can reach: no uploads, no slot confirmation,   *)
(* no edits, no comments on a mockup.  An event may be late and overtaken; *)
(* that Slack sends one twice is left out.                                 *)
(***************************************************************************)
EXTENDS Lists, FiniteSets

CONSTANTS
  MaxMessages,  \* messages people write in the thread
  Kinds,        \* kinds of the messages they write
  MaxRounds,    \* clarification rounds granted per budget (maxRounds)
  AtOnce,       \* handlers that wait at a time
  MaxDeaths     \* handlers after whose death nothing fails any more

ASSUME ThreadAssumption ==
  /\ MaxMessages \in Nat \ {0} /\ MaxRounds \in Nat \ {0} /\ AtOnce \in Nat \ {0}
  /\ MaxDeaths \in Nat
  /\ Kinds \subseteq {"mention", "plain", "other"}  \* "other": a message with a subtype

VARIABLES
  (* Slack *)
  written,     \* kinds of the messages written so far, oldest first
  events,      \* events Slack has yet to deliver
  thread,      \* the agent's words in the thread, in its order
  (* the session row and its signals *)
  status,      \* "absent" until the row exists
  roundCount,  \* session.roundCount
  resumes,     \* number of session_resumed signals
  docVersion,  \* version of the latest requirements_doc row, 0 without one
  isUi,        \* session.isUiRequest
  drawn,       \* a mockup row exists
  transcript,  \* the utterances, by seq
  (* in memory *)
  jobs,        \* per event, what its handler waits for
  (* history *)
  turns        \* so far every message was written when all was quiet, and no handler died

slack   == <<written, events, thread>>
session == <<status, roundCount, resumes, docVersion, isUi, drawn, transcript>>
vars    == <<slack, session, jobs, turns>>

Messages == 1..MaxMessages
Event    == Messages \X {"app_mention", "message"}
Words    == {"ack", "question", "guide", "document", "hold", "mockup"}
Entry    == [by: Words \cup {"requester"}, to: Messages]  \* to: the message, or the one answered

Waits == {"ack", "guide", "question", "judge", "promote", "document", "classify",
          "draw", "record"}
Job   == [op: Waits \cup {"none", "done", "died"},
          count: Nat,                    \* roundCount as the handler read it
          words: Words,                  \* what is in the thread and not yet recorded
          version: Nat]                  \* version its document was published under

Blank == [op |-> "none", count |-> 0, words |-> "ack", version |-> 0]
Busy(e) == jobs[e].op \in Waits
Quiet   == events = {} /\ \A e \in Event : ~Busy(e)

Asked == Cardinality({i \in DOMAIN transcript : transcript[i].by = "question"})

Wait(e, op, count)  == jobs' = [jobs EXCEPT ![e] = [Blank EXCEPT !.op = op, !.count = count]]
Ends(e, how)        == jobs' = [jobs EXCEPT ![e] = [Blank EXCEPT !.op = how]]
Said(by, e)         == [by |-> by, to |-> e[1]]

(* port.post: the words are in the thread, the handler is yet to return to them *)
Post(e, words, count, version) ==
  /\ thread' = Append(thread, Said(words, e))
  /\ jobs' = [jobs EXCEPT ![e] = [op |-> "record", count |-> count,
                                  words |-> words, version |-> version]]

-----------------------------------------------------------------------------
(* Slack *)

(* a mention comes as an event of its own and as a message *)
EventsOf(m, kind) ==
  {<<m, "message">>} \cup (IF kind = "mention" THEN {<<m, "app_mention">>} ELSE {})

Write(kind) ==
  /\ Len(written) < MaxMessages
  /\ written' = Append(written, kind)
  /\ events' = events \cup EventsOf(Len(written) + 1, kind)
  /\ turns' = (turns /\ Quiet)
  /\ UNCHANGED <<thread, session, jobs>>

(* mutant: a mention is taken for an answer as well *)
Mut_IsAnswer(m) == written[m] # "other" /\ m # 1

(* the filter of app.message; the first message of a thread has no thread_ts *)
IsAnswer(m) == written[m] = "plain" /\ m # 1

-----------------------------------------------------------------------------
(* The handlers, up to their first wait *)

Requester(e) == transcript' = Append(transcript, Said("requester", e))

(* openSession: the acknowledgement is posted and never recorded *)
OpenSession(e) ==
  /\ status = "absent"
  /\ status' = "intake"
  /\ Requester(e)
  /\ Wait(e, "ack", 0)
  /\ UNCHANGED <<roundCount, resumes, docVersion, isUi, drawn>>

(* mutant: the guard knows the mockup stage only *)
Mut_Published == status = "mockup"

Published == status \in {"documented", "mockup"}

(* processReply *)
Reply(e) ==
  /\ status # "absent"
  /\ IF status = "closed"
     THEN status' = "clarifying" /\ resumes' = resumes + 1
     ELSE UNCHANGED <<status, resumes>>
  /\ Requester(e)
  /\ Wait(e, IF Published THEN "guide" ELSE "judge", roundCount)
  /\ UNCHANGED <<roundCount, docVersion, isUi, drawn>>

Ignore(e) == Ends(e, "none") /\ UNCHANGED session

(* handleMention, handleThreadReply *)
HandleMention(e)     == e[2] = "app_mention" /\ (OpenSession(e) \/ Reply(e))
HandleThreadReply(e) ==
  /\ e[2] = "message"
  /\ IF IsAnswer(e[1]) /\ status # "absent" THEN Reply(e) ELSE Ignore(e)

Deliver(e) ==
  /\ e \in events
  /\ Cardinality({x \in Event : Busy(x)}) < AtOnce
  /\ events' = events \ {e}
  /\ HandleMention(e) \/ HandleThreadReply(e)
  /\ UNCHANGED <<written, thread, turns>>

-----------------------------------------------------------------------------
(* The handlers, from wait to wait *)

(* the acknowledgement is out; startClarification looks at the status anew *)
Acknowledged(e) ==
  /\ jobs[e].op = "ack"
  /\ thread' = Append(thread, Said("ack", e))
  /\ IF status \in {"intake", "clarifying"} THEN Wait(e, "question", roundCount) ELSE Ends(e, "done")
  /\ UNCHANGED <<written, events, session, turns>>

(* mutant: a reply to a published document is kept and not answered *)
Mut_Guided(e) ==
  /\ jobs[e].op = "guide"
  /\ Ends(e, "done")
  /\ UNCHANGED <<slack, session, turns>>

Guided(e) ==
  /\ jobs[e].op = "guide"
  /\ Post(e, "guide", 0, 0)
  /\ UNCHANGED <<written, events, session, turns>>

Questioned(e) ==
  /\ jobs[e].op = "question"
  /\ Post(e, "question", jobs[e].count, 0)
  /\ UNCHANGED <<written, events, session, turns>>

RoundBudget == MaxRounds * (1 + resumes)

(* mutant: the budget test is off by one *)
Mut_Asks(e, verdict) == verdict # "refined" /\ jobs[e].count <= RoundBudget

(* verdict: "refined", "gap" (a required slot is unfilled) or "vague"       *)
Asks(e, verdict) == verdict # "refined" /\ jobs[e].count < RoundBudget

(* mutant: a round is counted when it is decided on, before it is asked *)
Mut_Judged(e) ==
  /\ jobs[e].op = "judge"
  /\ \E verdict \in {"refined", "gap", "vague"} :
       IF Asks(e, verdict)
       THEN Wait(e, "question", roundCount) /\ roundCount' = roundCount + 1
       ELSE Wait(e, IF verdict = "gap" THEN "promote" ELSE "document", 0) /\ UNCHANGED roundCount
  /\ UNCHANGED <<slack, status, resumes, docVersion, isUi, drawn, transcript, turns>>

Judged(e) ==
  /\ jobs[e].op = "judge"
  /\ \E verdict \in {"refined", "gap", "vague"} :
       CASE Asks(e, verdict) -> Wait(e, "question", roundCount)
         [] ~Asks(e, verdict) /\ verdict = "gap" -> Wait(e, "promote", 0)
         [] ~Asks(e, verdict) /\ verdict # "gap" -> Wait(e, "document", 0)
  /\ UNCHANGED <<slack, session, turns>>

(* judgeCapReached: all of the gap is promoted, or the session is put on hold *)
Promoted(e) ==
  /\ jobs[e].op = "promote"
  /\ \/ Wait(e, "document", 0) /\ UNCHANGED thread
     \/ Post(e, "hold", 0, 0)
  /\ UNCHANGED <<written, events, session, turns>>

(* deliverDocument counts its version before the text is posted *)
Documented(e) ==
  /\ jobs[e].op = "document"
  /\ Post(e, "document", 0, docVersion + 1)
  /\ UNCHANGED <<written, events, session, turns>>

(* enterMockupStage; no thread can close a mockup *)
Stage(e, ui, settled) ==
  CASE ui = "unknown"          -> Wait(e, "classify", 0) /\ status' = settled
    [] ui = "yes" /\ ~drawn    -> Wait(e, "draw", 0) /\ status' = settled
    [] ui = "yes" /\ drawn     -> Ends(e, "done") /\ status' = "mockup"
    [] ui = "no"               -> Ends(e, "done") /\ status' = settled

Classified(e) ==
  /\ jobs[e].op = "classify"
  /\ \E ui \in {"yes", "no"} : isUi' = ui /\ Stage(e, ui, status)
  /\ UNCHANGED <<slack, roundCount, resumes, docVersion, drawn, transcript, turns>>

(* the row of the mockup is written before its words are posted *)
Drawn(e) ==
  /\ jobs[e].op = "draw"
  /\ drawn' = TRUE
  /\ Post(e, "mockup", 0, 0)
  /\ UNCHANGED <<written, events, status, roundCount, resumes, docVersion, isUi, transcript, turns>>

-----------------------------------------------------------------------------
(* The words are out: the handler records them and does what follows *)

RecordQuestion(e) ==
  /\ jobs[e].words = "question"
  /\ status' = "clarifying"
  /\ roundCount' = jobs[e].count + 1
  /\ Ends(e, "done")
  /\ UNCHANGED <<resumes, docVersion, isUi>>

RecordGuide(e) ==
  /\ jobs[e].words = "guide"
  /\ Ends(e, "done")
  /\ UNCHANGED <<status, roundCount, resumes, docVersion, isUi>>

RecordHold(e) ==
  /\ jobs[e].words = "hold"
  /\ status' = "closed"
  /\ Ends(e, "done")
  /\ UNCHANGED <<roundCount, resumes, docVersion, isUi>>

(* the row is unique by its version: the later of two equal ones throws *)
RecordDocument(e) ==
  /\ jobs[e].words = "document"
  /\ IF jobs[e].version > docVersion
     THEN docVersion' = jobs[e].version /\ Stage(e, isUi, "documented")
     ELSE status' = "documented" /\ Ends(e, "died") /\ UNCHANGED docVersion
  /\ UNCHANGED <<roundCount, resumes, isUi>>

RecordMockup(e) ==
  /\ jobs[e].words = "mockup"
  /\ status' = "mockup"
  /\ Ends(e, "done")
  /\ UNCHANGED <<roundCount, resumes, docVersion, isUi>>

Record(e) ==
  /\ jobs[e].op = "record"
  /\ transcript' = Append(transcript, Said(jobs[e].words, e))
  /\ \/ RecordQuestion(e) \/ RecordGuide(e) \/ RecordHold(e)
     \/ RecordDocument(e) \/ RecordMockup(e)
  /\ UNCHANGED <<slack, drawn, turns>>

Proceed(e) ==
  \/ Acknowledged(e) \/ Guided(e) \/ Questioned(e) \/ Judged(e) \/ Promoted(e)
  \/ Documented(e) \/ Classified(e) \/ Drawn(e) \/ Record(e)

MayDie == Cardinality({e \in Event : jobs[e].op = "died"}) < MaxDeaths

(* an LLM call or port.post throws; nothing in a thread asks for a retry *)
Fail(e) ==
  /\ MayDie
  /\ jobs[e].op \in Waits \ {"record"}
  /\ Ends(e, "died")
  /\ turns' = FALSE
  /\ UNCHANGED <<slack, session>>

Restart ==
  /\ MayDie
  /\ \E e \in Event : Busy(e)
  /\ jobs' = [e \in Event |-> IF Busy(e) THEN [Blank EXCEPT !.op = "died"] ELSE jobs[e]]
  /\ turns' = FALSE
  /\ UNCHANGED <<slack, session>>

-----------------------------------------------------------------------------
Init ==
  /\ written = <<>> /\ events = {} /\ thread = <<>>
  /\ status = "absent" /\ roundCount = 0 /\ resumes = 0
  /\ docVersion = 0 /\ isUi = "unknown" /\ drawn = FALSE
  /\ transcript = <<>>
  /\ jobs = [e \in Event |-> Blank]
  /\ turns = TRUE

Next ==
  \/ \E kind \in Kinds : Write(kind)
  \/ \E e \in Event : Deliver(e) \/ Proceed(e) \/ Fail(e)
  \/ Restart

(* Slack delivers; every LLM call and every post returns or throws.  The    *)
(* messages are bounded, so that it is enough to say so of all together     *)
Fairness == WF_vars(\E e \in Event : Deliver(e)) /\ WF_vars(\E e \in Event : Proceed(e))

Spec == Init /\ [][Next]_vars /\ Fairness

-----------------------------------------------------------------------------
(* buildConversation: the request, and each reply that follows words of the *)
(* agent directly; these are the utterances an LLM call is given            *)

Given ==
  {i \in DOMAIN transcript : transcript[i].by = "requester"
                             /\ (i = 1 \/ transcript[i - 1].by # "requester")}

-----------------------------------------------------------------------------
(* Types, and that the rounds counted are never more than the rounds asked: *)
(* handlers beside each other may lose a count, but invent none             *)
TypeOK ==
  /\ written \in Seq(Kinds) /\ events \subseteq Event
  /\ thread \in Seq(Entry) /\ transcript \in Seq(Entry)
  /\ status \in {"absent", "intake", "clarifying", "documented", "mockup", "closed"}
  /\ roundCount \in 0..Asked /\ resumes \in Nat /\ docVersion \in Nat
  /\ isUi \in {"unknown", "yes", "no"} /\ drawn \in BOOLEAN
  /\ jobs \in [Event -> Job]
  /\ turns \in BOOLEAN

(* A message is taken up once, though a mention comes as two events, in     *)
(* either order and at any distance                                         *)
EachMessageOnce ==
  \A m \in Messages :
    Cardinality({i \in DOMAIN transcript : transcript[i] = [by |-> "requester", to |-> m]}) <= 1

(* every word that was said is given to the judgement that answers it       *)
Heard ==
  (\E e \in Event : jobs[e].op = "judge")
    => {i \in DOMAIN transcript : transcript[i].by = "requester"} \subseteq Given

(* no round is asked beyond the budget, and the count is exact              *)
WithinBudget == Asked <= RoundBudget /\ roundCount = Asked

(* what the agent said in the thread is what the transcript has it say, in  *)
(* that order, but for the acknowledgement                                  *)
Recorded ==
  Quiet => Only(transcript, {entry \in Entry : entry.by # "requester"})
             = Only(thread, {entry \in Entry : entry.by # "ack"})

(* As long as people take turns with the agent, nobody is overheard, no     *)
(* round is asked beyond the budget, and the transcript is the thread.      *)
(* Handlers beside each other break each of these: they lose counts, ask    *)
(* more, and record words out of their order                                *)
ThreadInTurn == turns => Heard /\ WithinBudget /\ Recorded

(* As long as people take turns, a reply in the thread does not reopen a    *)
(* published document                                                       *)
DocumentStands ==
  [][turns' /\ status \in {"documented", "mockup"} => status' \in {"documented", "mockup"}]_vars

(* Every message that was taken up ends up answered in the thread, unless   *)
(* its handler died                                                         *)
MessagesAreMet ==
  []<>(\A e \in Event :
         \/ jobs[e].op \in {"none", "died"}
         \/ jobs[e].op = "done" /\ \E k \in DOMAIN thread : thread[k].to = e[1])
=============================================================================
