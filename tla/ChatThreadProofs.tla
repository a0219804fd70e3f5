-------------------------- MODULE ChatThreadProofs --------------------------
(***************************************************************************)
(* Theorems about a Slack thread and its session: handlers that run beside *)
(* each other take every message up once, and as long as people take turns *)
(* with the agent there is one handler at a time, whose way from wait to    *)
(* wait is what the invariant describes.                                    *)
(***************************************************************************)
EXTENDS ChatThread, ListsProofs, FiniteSetTheorems

Ours   == {entry \in Entry : entry.by # "requester"}
Theirs == {entry \in Entry : entry.by # "ack"}

(* The one event of a message whose handler may take it up.                 *)
TakenBy(m) == <<m, IF written[m] = "mention" THEN "app_mention" ELSE "message">>

(* What is delivered was written, and a mention is an event of a mention.   *)
EventsOK ==
  \A e \in events : e[1] <= Len(written) /\ (e[2] = "app_mention" => written[e[1]] = "mention")

(* A handler at work has the one event that takes its message up.           *)
HandlersOK ==
  \A e \in Event :
    /\ Busy(e) => e \notin events /\ e[1] <= Len(written) /\ e = TakenBy(e[1])
    /\ jobs[e].count <= Asked
    /\ jobs[e].op = "record" => jobs[e].words # "ack"

(* The requester's words in the transcript are those of different messages, *)
(* all of them taken up.                                                    *)
OnceOK ==
  /\ \A i \in DOMAIN transcript : transcript[i].by = "requester" =>
       transcript[i].to <= Len(written) /\ TakenBy(transcript[i].to) \notin events
  /\ \A i, j \in DOMAIN transcript :
       transcript[i].by = "requester" /\ transcript[j] = transcript[i] => i = j

(* Without a session nothing was said to it, and nobody works for it.       *)
AbsentOK == status = "absent" => transcript = <<>> /\ \A e \in Event : ~Busy(e)

-----------------------------------------------------------------------------
(* Turns                                                                    *)

LastIsOurs == transcript # <<>> => transcript[Len(transcript)].by # "requester"
Agree      == Only(transcript, Ours) = Only(thread, Theirs)
AllGiven   == {i \in DOMAIN transcript : transcript[i].by = "requester"} \subseteq Given

(* The job of the one handler, by what it waits for.                        *)
Asking(e)   == jobs[e].op = "question" \/ (jobs[e].op = "record" /\ jobs[e].words = "question")
Holding(e)  == jobs[e].op = "record" /\ jobs[e].words = "hold"
Drawing(e)  == jobs[e].op \in {"classify", "draw"} \/ (jobs[e].op = "record" /\ jobs[e].words = "mockup")

AtWork(e) ==
  /\ jobs[e].op = "ack" => status = "intake" /\ roundCount = 0
  /\ Asking(e) \/ Holding(e) \/ jobs[e].op \in {"ack", "judge", "promote"} => ~Published
  /\ Asking(e) \/ jobs[e].op = "judge" => jobs[e].count = roundCount
  /\ Asking(e) => roundCount < RoundBudget
  /\ Drawing(e) => LastIsOurs
  /\ IF jobs[e].op = "record"
     THEN Only(thread, Theirs) = Append(Only(transcript, Ours), Said(jobs[e].words, e))
     ELSE Agree

AtEase == LastIsOurs /\ Agree

TurnOK ==
  turns =>
    /\ \A e \in Event : e \in events \/ Busy(e) => e[1] = Len(written)
    /\ \A e \in Event : Busy(e) => AtWork(e)
    /\ (\A e \in Event : ~Busy(e)) => AtEase
    /\ AllGiven /\ WithinBudget

ThreadInv == TypeOK /\ EventsOK /\ HandlersOK /\ OnceOK /\ AbsentOK /\ TurnOK

-----------------------------------------------------------------------------
(* Lists of words                                                           *)

QuestionsOf(list) == {i \in DOMAIN list : list[i].by = "question"}

(* A question more in the transcript is a question more that was asked.     *)
LEMMA QuestionsCount ==
  ASSUME NEW list \in Seq(Entry)
  PROVE  /\ Cardinality(QuestionsOf(list)) \in Nat
         /\ \A x \in Entry :
              Cardinality(QuestionsOf(Append(list, x)))
                = Cardinality(QuestionsOf(list)) + IF x.by = "question" THEN 1 ELSE 0
<1>1. Len(list) \in Nat /\ DOMAIN list = 1 .. Len(list)
  BY LenProperties
<1>2. IsFiniteSet(QuestionsOf(list))
  <2>1. QuestionsOf(list) \subseteq 1 .. Len(list)
    BY <1>1 DEF QuestionsOf
  <2>2. IsFiniteSet(1 .. Len(list))
    BY <1>1, FS_Interval
  <2> QED
    BY <2>1, <2>2, FS_Subset
<1>3. Cardinality(QuestionsOf(list)) \in Nat
  BY <1>2, FS_CardinalityType
<1>4. ASSUME NEW x \in Entry
      PROVE  Cardinality(QuestionsOf(Append(list, x)))
               = Cardinality(QuestionsOf(list)) + IF x.by = "question" THEN 1 ELSE 0
  <2> DEFINE longer == Append(list, x)
             last == Len(list) + 1
  <2>1. /\ longer \in Seq(Entry) /\ Len(longer) = last /\ longer[last] = x
        /\ \A i \in 1 .. Len(list) : longer[i] = list[i]
    BY AppendProperties
  <2>2. DOMAIN longer = 1 .. last /\ 1 .. last = (1 .. Len(list)) \cup {last} /\ last \notin 1 .. Len(list)
    BY <1>1, <2>1, LenProperties
  <2> HIDE DEF longer, last
  <2>3. CASE x.by = "question"
    <3>1. QuestionsOf(longer) = QuestionsOf(list) \cup {last} /\ last \notin QuestionsOf(list)
      BY <1>1, <2>1, <2>2, <2>3 DEF QuestionsOf
    <3>2. Cardinality(QuestionsOf(longer)) = Cardinality(QuestionsOf(list)) + 1
      BY <1>2, <3>1, FS_AddElement
    <3> QED
      BY <2>3, <3>2 DEF longer
  <2>4. CASE x.by # "question"
    <3>1. QuestionsOf(longer) = QuestionsOf(list)
      BY <1>1, <2>1, <2>2, <2>4 DEF QuestionsOf
    <3> QED
      BY <1>3, <2>4, <3>1 DEF longer
  <2> QED
    BY <2>3, <2>4
<1> QED
  BY <1>3, <1>4

(* The number of questions asked follows the transcript.                    *)
LEMMA AskedGrows ==
  ASSUME transcript \in Seq(Entry)
  PROVE  /\ Asked \in Nat
         /\ transcript' = transcript => Asked' = Asked
         /\ \A x \in Entry : transcript' = Append(transcript, x) =>
              /\ transcript' \in Seq(Entry)
              /\ Asked' = Asked + IF x.by = "question" THEN 1 ELSE 0
<1>1. Asked = Cardinality(QuestionsOf(transcript)) /\ Asked' = Cardinality(QuestionsOf(transcript'))
  BY DEF Asked, QuestionsOf
<1>2. \A x \in Entry : Append(transcript, x) \in Seq(Entry)
  BY AppendProperties
<1> QED
  BY <1>1, <1>2, QuestionsCount

(* Words and messages make entries.                                         *)
LEMMA SaidFits ==
  ASSUME NEW e \in Event, NEW by \in Words \cup {"requester"}
  PROVE  Said(by, e) \in Entry /\ Said(by, e).by = by /\ Said(by, e).to = e[1]
BY DEF Said, Entry, Event

-----------------------------------------------------------------------------
(* Jobs                                                                     *)

(* A handler waits.                                                         *)
LEMMA WaitFits ==
  ASSUME jobs \in [Event -> Job], NEW e \in Event, NEW op \in Waits, NEW count \in Nat,
         Wait(e, op, count)
  PROVE  /\ jobs' \in [Event -> Job] /\ jobs'[e].op = op /\ jobs'[e].count = count
         /\ \A f \in Event \ {e} : jobs'[f] = jobs[f]
<1> DEFINE job == [Blank EXCEPT !.op = op, !.count = count]
<1>1. job \in Job /\ job.op = op /\ job.count = count
  BY DEF Blank, Job, Words, Waits
<1>2. jobs' = [jobs EXCEPT ![e] = job]
  BY DEF Wait
<1> HIDE DEF job
<1> QED
  BY <1>1, <1>2

(* A handler ends.                                                          *)
LEMMA EndsFits ==
  ASSUME jobs \in [Event -> Job], NEW e \in Event, NEW how \in {"none", "done", "died"}, Ends(e, how)
  PROVE  /\ jobs' \in [Event -> Job] /\ jobs'[e].op = how /\ jobs'[e].count = 0
         /\ \A f \in Event \ {e} : jobs'[f] = jobs[f]
<1> DEFINE job == [Blank EXCEPT !.op = how]
<1>1. job \in Job /\ job.op = how /\ job.count = 0
  BY DEF Blank, Job, Words, Waits
<1>2. jobs' = [jobs EXCEPT ![e] = job]
  BY DEF Ends
<1> HIDE DEF job
<1> QED
  BY <1>1, <1>2

(* A handler waits for its words to be out.                                 *)
LEMMA PostFits ==
  ASSUME jobs \in [Event -> Job], thread \in Seq(Entry), NEW e \in Event,
         NEW words \in Words, NEW count \in Nat, NEW number \in Nat, Post(e, words, count, number)
  PROVE  /\ jobs' \in [Event -> Job] /\ jobs'[e].op = "record" /\ jobs'[e].count = count
         /\ jobs'[e].words = words
         /\ \A f \in Event \ {e} : jobs'[f] = jobs[f]
         /\ thread' = Append(thread, Said(words, e)) /\ thread' \in Seq(Entry)
<1> DEFINE job == [op |-> "record", count |-> count, words |-> words, version |-> number]
<1>1. job \in Job /\ job.op = "record" /\ job.count = count /\ job.words = words
  BY DEF Job, Waits
<1>2. jobs' = [jobs EXCEPT ![e] = job] /\ thread' = Append(thread, Said(words, e))
  BY DEF Post
<1>3. thread' \in Seq(Entry)
  BY <1>2, SaidFits, AppendProperties
<1> HIDE DEF job
<1> QED
  BY <1>1, <1>2, <1>3

-----------------------------------------------------------------------------
(* What any step of a handler leaves as it should                           *)

RowOK ==
  /\ status \in {"absent", "intake", "clarifying", "documented", "mockup", "closed"}
  /\ docVersion \in Nat /\ isUi \in {"unknown", "yes", "no"} /\ drawn \in BOOLEAN

(* The row stays a row, and a session stays a session.                      *)
RowMoves == RowOK' /\ (status # "absent" => status' # "absent")

Moved(e) ==
  /\ UNCHANGED <<written, events, turns, resumes>> /\ Busy(e)
  /\ RowMoves
  /\ thread' \in Seq(Entry)
  /\ jobs' \in [Event -> Job] /\ \A f \in Event \ {e} : jobs'[f] = jobs[f]
  /\ jobs'[e].count <= Asked' /\ (jobs'[e].op = "record" => jobs'[e].words # "ack")
  /\ \/ transcript' = transcript /\ roundCount' = roundCount
     \/ \E x \in Entry : /\ x.by # "requester" /\ transcript' = Append(transcript, x)
                         /\ roundCount' \in 0 .. Asked'

(* The mockup stage is entered, or what it waits for is waited for.         *)
LEMMA StageFits ==
  ASSUME TypeOK, NEW e \in Event, NEW ui \in {"unknown", "yes", "no"},
         NEW settled \in {"intake", "clarifying", "documented", "mockup", "closed"},
         Stage(e, ui, settled)
  PROVE  /\ jobs' \in [Event -> Job] /\ \A f \in Event \ {e} : jobs'[f] = jobs[f]
         /\ jobs'[e].op \in {"classify", "draw", "done"} /\ jobs'[e].count = 0
         /\ status' \in {settled, "mockup"}
<1>1. jobs \in [Event -> Job] /\ drawn \in BOOLEAN
  BY DEF TypeOK
<1>2. CASE ui = "unknown"
  <2>1. Wait(e, "classify", 0) /\ status' = settled
    BY <1>2 DEF Stage
  <2> QED
    BY <1>1, <2>1, WaitFits DEF Waits
<1>3. CASE ui = "yes" /\ ~drawn
  <2>1. Wait(e, "draw", 0) /\ status' = settled
    BY <1>3 DEF Stage
  <2> QED
    BY <1>1, <2>1, WaitFits DEF Waits
<1>4. CASE ui = "yes" /\ drawn
  <2>1. Ends(e, "done") /\ status' = "mockup"
    BY <1>4 DEF Stage
  <2> QED
    BY <1>1, <2>1, EndsFits
<1>5. CASE ui = "no"
  <2>1. Ends(e, "done") /\ status' = settled
    BY <1>5 DEF Stage
  <2> QED
    BY <1>1, <2>1, EndsFits
<1> QED
  BY <1>1, <1>2, <1>3, <1>4, <1>5

(* A handler that neither records nor stages.                               *)
LEMMA WaitsMoved ==
  ASSUME TypeOK, HandlersOK, AbsentOK, NEW e \in Event,
         \/ Acknowledged(e) \/ Guided(e) \/ Questioned(e) \/ Judged(e) \/ Promoted(e)
         \/ Documented(e) \/ Drawn(e)
  PROVE  Moved(e)
<1>t. /\ jobs \in [Event -> Job] /\ thread \in Seq(Entry) /\ RowOK /\ roundCount \in Nat
      /\ jobs[e].count \in Nat /\ jobs[e].count <= Asked
      /\ Asked \in Nat /\ (transcript' = transcript => Asked' = Asked) /\ roundCount <= Asked
  <2>1. transcript \in Seq(Entry)
    BY DEF TypeOK
  <2>2. jobs[e] \in Job
    BY DEF TypeOK
  <2> QED
    BY <2>1, <2>2, AskedGrows DEF TypeOK, RowOK, HandlersOK, Job
<1>b. ASSUME jobs[e].op \in Waits PROVE Busy(e) /\ status # "absent"
  BY <1>b DEF Busy, AbsentOK
<1>w. ASSUME NEW op \in Waits, op # "record", NEW count \in Nat, Wait(e, op, count), count <= Asked,
             Busy(e), status # "absent",
             UNCHANGED <<written, events, turns, session>>, thread' \in Seq(Entry)
      PROVE  Moved(e)
  <2>1. /\ jobs' \in [Event -> Job] /\ jobs'[e].op = op /\ jobs'[e].count = count
        /\ \A f \in Event \ {e} : jobs'[f] = jobs[f]
    BY <1>t, <1>w, WaitFits
  <2> QED
    BY <1>t, <1>w, <2>1 DEF Moved, RowMoves, RowOK, session
<1>e. ASSUME Ends(e, "done"), Busy(e),
             UNCHANGED <<written, events, turns, session>>, thread' \in Seq(Entry)
      PROVE  Moved(e)
  <2>1. /\ jobs' \in [Event -> Job] /\ jobs'[e].op = "done" /\ jobs'[e].count = 0
        /\ \A f \in Event \ {e} : jobs'[f] = jobs[f]
    BY <1>t, <1>e, EndsFits
  <2> QED
    BY <1>t, <1>e, <2>1 DEF Moved, RowMoves, RowOK, session
<1>p. ASSUME NEW words \in Words, words # "ack", NEW count \in Nat, NEW number \in Nat,
             Post(e, words, count, number), count <= Asked, Busy(e),
             UNCHANGED <<written, events, turns, status, roundCount, resumes, docVersion, isUi, transcript>>,
             drawn' \in BOOLEAN
      PROVE  Moved(e)
  <2>1. /\ jobs' \in [Event -> Job] /\ jobs'[e].op = "record" /\ jobs'[e].count = count
        /\ jobs'[e].words = words /\ thread' \in Seq(Entry)
        /\ \A f \in Event \ {e} : jobs'[f] = jobs[f]
    BY <1>t, <1>p, PostFits
  <2> QED
    BY <1>t, <1>p, <2>1 DEF Moved, RowMoves, RowOK
<1>1. CASE Acknowledged(e)
  <2>1. jobs[e].op = "ack" /\ UNCHANGED <<written, events, turns, session>> /\ thread' \in Seq(Entry)
    BY <1>t, <1>1, SaidFits, AppendProperties DEF Acknowledged, Words
  <2>2. Wait(e, "question", roundCount) \/ Ends(e, "done")
    BY <1>1 DEF Acknowledged
  <2> QED
    BY <1>t, <1>b, <1>w, <1>e, <2>1, <2>2 DEF Waits
<1>2. CASE Guided(e)
  <2>1. jobs[e].op = "guide" /\ UNCHANGED <<written, events, turns, session>> /\ Post(e, "guide", 0, 0)
    BY <1>2 DEF Guided
  <2> QED
    BY <1>t, <1>b, <1>p, <2>1 DEF Waits, Words, session, RowOK
<1>3. CASE Questioned(e)
  <2>1. jobs[e].op = "question" /\ UNCHANGED <<written, events, turns, session>>
        /\ Post(e, "question", jobs[e].count, 0)
    BY <1>3 DEF Questioned
  <2> QED
    BY <1>t, <1>b, <1>p, <2>1 DEF Waits, Words, session, RowOK
<1>4. CASE Judged(e)
  <2>1. jobs[e].op = "judge" /\ UNCHANGED <<written, events, turns, session>> /\ thread' = thread
    BY <1>4 DEF Judged, slack
  <2>2. Wait(e, "question", roundCount) \/ Wait(e, "promote", 0) \/ Wait(e, "document", 0)
    BY <1>4 DEF Judged
  <2> QED
    BY <1>t, <1>b, <1>w, <2>1, <2>2 DEF Waits
<1>5. CASE Promoted(e)
  <2>1. jobs[e].op = "promote" /\ UNCHANGED <<written, events, turns, session>>
    BY <1>5 DEF Promoted
  <2>2. CASE Wait(e, "document", 0) /\ thread' = thread
    BY <1>t, <1>b, <1>w, <2>1, <2>2 DEF Waits
  <2>3. CASE Post(e, "hold", 0, 0)
    BY <1>t, <1>b, <1>p, <2>1, <2>3 DEF Waits, Words, session, RowOK
  <2> QED
    BY <1>5, <2>2, <2>3 DEF Promoted
<1>6. CASE Documented(e)
  <2>1. jobs[e].op = "document" /\ UNCHANGED <<written, events, turns, session>>
        /\ Post(e, "document", 0, docVersion + 1)
    BY <1>6 DEF Documented
  <2>2. docVersion + 1 \in Nat
    BY <1>t DEF RowOK
  <2> QED
    BY <1>t, <1>b, <1>p, <2>1, <2>2 DEF Waits, Words, session, RowOK
<1>7. CASE Drawn(e)
  <2>1. /\ jobs[e].op = "draw" /\ Post(e, "mockup", 0, 0) /\ drawn' = TRUE
        /\ UNCHANGED <<written, events, turns, status, roundCount, resumes, docVersion, isUi, transcript>>
    BY <1>7 DEF Drawn
  <2> QED
    BY <1>t, <1>b, <1>p, <2>1 DEF Waits, Words
<1> QED
  BY <1>1, <1>2, <1>3, <1>4, <1>5, <1>6, <1>7

(* A handler that knows whether the request is about a screen.              *)
LEMMA ClassifiedMoved ==
  ASSUME TypeOK, HandlersOK, AbsentOK, NEW e \in Event, Classified(e)
  PROVE  Moved(e)
<1>1. PICK ui \in {"yes", "no"} : isUi' = ui /\ Stage(e, ui, status)
  BY DEF Classified
<1>2. Busy(e) /\ status # "absent"
  BY DEF Classified, Busy, Waits, AbsentOK
<1>3. status \in {"intake", "clarifying", "documented", "mockup", "closed"}
  BY <1>2 DEF TypeOK
<1>4. /\ jobs' \in [Event -> Job] /\ \A f \in Event \ {e} : jobs'[f] = jobs[f]
      /\ jobs'[e].op \in {"classify", "draw", "done"} /\ jobs'[e].count = 0
      /\ status' \in {status, "mockup"}
  BY <1>1, <1>3, StageFits
<1>5. transcript' = transcript /\ Asked' = Asked /\ Asked \in Nat /\ thread' = thread
      /\ UNCHANGED <<written, events, turns, resumes, docVersion, drawn, roundCount>>
  BY AskedGrows DEF Classified, slack, TypeOK
<1>6. RowMoves
  BY <1>1, <1>3, <1>4, <1>5 DEF RowMoves, RowOK, TypeOK
<1> QED
  BY <1>2, <1>4, <1>5, <1>6 DEF Moved, TypeOK

(* A handler that records its words and does what follows.                  *)
LEMMA RecordMoved ==
  ASSUME TypeOK, HandlersOK, AbsentOK, NEW e \in Event, Record(e)
  PROVE  Moved(e)
<1> DEFINE x == Said(jobs[e].words, e)
<1>1. /\ jobs[e] \in Job /\ jobs[e].op = "record" /\ Busy(e) /\ status # "absent"
      /\ jobs[e].count \in Nat /\ jobs[e].words \in Words /\ jobs[e].version \in Nat
      /\ jobs \in [Event -> Job] /\ transcript \in Seq(Entry)
  BY DEF Record, Busy, Waits, AbsentOK, TypeOK, Job
<1>2. /\ x \in Entry /\ x.by = jobs[e].words /\ x.by # "requester"
      /\ transcript' = Append(transcript, x)
  BY <1>1, SaidFits DEF Record, Words
<1> HIDE DEF x
<1>3. Asked \in Nat /\ Asked' = Asked + IF x.by = "question" THEN 1 ELSE 0
  BY <1>1, <1>2, AskedGrows
<1>4. UNCHANGED <<written, events, turns, resumes, drawn, thread>>
  BY DEF Record, slack, RecordQuestion, RecordGuide, RecordHold, RecordDocument, RecordMockup
<1>5. /\ jobs' \in [Event -> Job] /\ \A f \in Event \ {e} : jobs'[f] = jobs[f]
      /\ jobs'[e].op # "record" /\ jobs'[e].count = 0
      /\ RowMoves
  <2>e. ASSUME NEW how \in {"done", "died"}, Ends(e, how)
        PROVE  /\ jobs' \in [Event -> Job] /\ \A f \in Event \ {e} : jobs'[f] = jobs[f]
               /\ jobs'[e].op # "record" /\ jobs'[e].count = 0
    BY <1>1, <2>e, EndsFits
  <2>1. CASE RecordQuestion(e) \/ RecordGuide(e) \/ RecordHold(e) \/ RecordMockup(e)
    <3>1. RowMoves
      BY <1>1, <1>4, <2>1 DEF RecordQuestion, RecordGuide, RecordHold, RecordMockup, RowMoves, RowOK, TypeOK
    <3> QED
      BY <2>1, <2>e, <3>1 DEF RecordQuestion, RecordGuide, RecordHold, RecordMockup
  <2>2. CASE RecordDocument(e)
    <3>1. CASE jobs[e].version > docVersion
      <4>1. docVersion' = jobs[e].version /\ isUi' = isUi /\ Stage(e, isUi, "documented")
        BY <2>2, <3>1 DEF RecordDocument
      <4>2. /\ jobs' \in [Event -> Job] /\ \A f \in Event \ {e} : jobs'[f] = jobs[f]
            /\ jobs'[e].op \in {"classify", "draw", "done"} /\ jobs'[e].count = 0
            /\ status' \in {"documented", "mockup"}
        BY <4>1, StageFits DEF TypeOK
      <4> QED
        BY <1>1, <1>4, <4>1, <4>2 DEF RowMoves, RowOK, TypeOK
    <3>2. CASE ~(jobs[e].version > docVersion)
      <4>1. docVersion' = docVersion /\ isUi' = isUi /\ status' = "documented" /\ Ends(e, "died")
        BY <2>2, <3>2 DEF RecordDocument
      <4> QED
        BY <1>1, <1>4, <2>e, <4>1 DEF RowMoves, RowOK, TypeOK
    <3> QED
      BY <3>1, <3>2
  <2> QED
    BY <2>1, <2>2 DEF Record
<1>6. roundCount' \in 0 .. Asked'
  <2>1. roundCount \in 0 .. Asked /\ jobs[e].count <= Asked
    BY DEF TypeOK, HandlersOK
  <2>2. CASE RecordQuestion(e)
    <3>1. roundCount' = jobs[e].count + 1 /\ x.by = "question"
      BY <1>2, <2>2 DEF RecordQuestion
    <3> QED
      BY <1>1, <1>3, <2>1, <3>1
  <2>3. CASE roundCount' = roundCount
    BY <1>3, <2>1, <2>3
  <2> QED
    BY <2>2, <2>3 DEF Record, RecordGuide, RecordHold, RecordDocument, RecordMockup
<1>7. thread' \in Seq(Entry)
  BY <1>4 DEF TypeOK
<1> QED
  BY <1>1, <1>2, <1>3, <1>4, <1>5, <1>6, <1>7 DEF Moved

(* Every step of a handler is a move.                                       *)
LEMMA ProceedMoved ==
  ASSUME TypeOK, HandlersOK, AbsentOK, NEW e \in Event, Proceed(e)
  PROVE  Moved(e)
BY WaitsMoved, ClassifiedMoved, RecordMoved DEF Proceed

-----------------------------------------------------------------------------
(* Every message is taken up once                                           *)

BaseInv == TypeOK /\ EventsOK /\ HandlersOK /\ OnceOK /\ AbsentOK

(* What the agent adds to the transcript takes nothing up.                  *)
LEMMA MovedKeeps == ASSUME BaseInv, NEW e \in Event, Moved(e) PROVE BaseInv'
<1>t. /\ transcript \in Seq(Entry) /\ Len(transcript) \in Nat /\ DOMAIN transcript = 1 .. Len(transcript)
      /\ Asked \in Nat /\ roundCount \in 0 .. Asked
      /\ TypeOK /\ EventsOK /\ HandlersOK /\ OnceOK /\ AbsentOK
  BY AskedGrows, LenProperties DEF BaseInv, TypeOK
<1>m. /\ UNCHANGED <<written, events, turns, resumes>> /\ Busy(e) /\ RowMoves
      /\ thread' \in Seq(Entry) /\ jobs' \in [Event -> Job] /\ \A f \in Event \ {e} : jobs'[f] = jobs[f]
      /\ jobs'[e].count <= Asked' /\ (jobs'[e].op = "record" => jobs'[e].words # "ack")
  BY DEF Moved
<1>1. transcript' \in Seq(Entry) /\ Asked' \in Nat /\ Asked <= Asked' /\ roundCount' \in 0 .. Asked'
  <2>1. CASE transcript' = transcript /\ roundCount' = roundCount
    <3>1. Asked' = Asked
      BY <1>t, <2>1, AskedGrows
    <3> QED
      BY <1>t, <2>1, <3>1
  <2>2. ASSUME NEW x \in Entry, transcript' = Append(transcript, x), roundCount' \in 0 .. Asked'
        PROVE  transcript' \in Seq(Entry) /\ Asked' \in Nat /\ Asked <= Asked' /\ roundCount' \in 0 .. Asked'
    <3>1. transcript' \in Seq(Entry) /\ Asked' = Asked + IF x.by = "question" THEN 1 ELSE 0
      BY <1>t, <2>2, AskedGrows
    <3> QED
      BY <1>t, <2>2, <3>1
  <2> QED
    BY <2>1, <2>2 DEF Moved
<1>2. TypeOK'
  BY <1>t, <1>m, <1>1 DEF TypeOK, RowMoves, RowOK
<1>3. EventsOK'
  BY <1>t, <1>m DEF EventsOK
<1>4. HandlersOK'
  <2> SUFFICES ASSUME NEW f \in Event
               PROVE  /\ Busy(f)' => f \notin events /\ f[1] <= Len(written) /\ f = TakenBy(f[1])
                      /\ jobs'[f].count <= Asked'
                      /\ jobs'[f].op = "record" => jobs'[f].words # "ack"
    BY <1>m DEF HandlersOK, TakenBy
  <2>1. CASE f = e
    BY <1>t, <1>m, <2>1 DEF HandlersOK
  <2>2. CASE f # e
    <3>1. jobs'[f] = jobs[f] /\ jobs[f] \in Job /\ (Busy(f)' <=> Busy(f))
      BY <1>t, <1>m, <2>2 DEF Busy, TypeOK
    <3>2. jobs[f].count \in Nat /\ jobs[f].count <= Asked
      BY <1>t, <3>1 DEF HandlersOK, Job
    <3>3. jobs'[f].count <= Asked'
      BY <1>t, <1>1, <3>1, <3>2
    <3> QED
      BY <1>t, <3>1, <3>3 DEF HandlersOK
  <2> QED
    BY <2>1, <2>2
<1>5. OnceOK'
  <2>1. CASE transcript' = transcript
    BY <1>t, <1>m, <2>1 DEF OnceOK, TakenBy
  <2>2. ASSUME NEW x \in Entry, x.by # "requester", transcript' = Append(transcript, x) PROVE OnceOK'
    <3> DEFINE last == Len(transcript) + 1
    <3>1. /\ Len(transcript') = last /\ transcript'[last] = x
          /\ \A i \in 1 .. Len(transcript) : transcript'[i] = transcript[i]
      BY <1>t, <2>2, AppendProperties
    <3>2. DOMAIN transcript' = 1 .. last
      BY <1>1, <3>1, LenProperties
    <3>3. \A i \in DOMAIN transcript' : transcript'[i].by = "requester" =>
            i \in DOMAIN transcript /\ transcript'[i] = transcript[i]
      BY <1>t, <2>2, <3>1, <3>2
    <3>4. \A i, j \in DOMAIN transcript' :
            transcript'[i].by = "requester" /\ transcript'[j] = transcript'[i] => i = j
      BY <1>t, <3>3 DEF OnceOK
    <3>5. \A i \in DOMAIN transcript' : transcript'[i].by = "requester" =>
            transcript'[i].to <= Len(written) /\ TakenBy(transcript'[i].to) \notin events
      BY <1>t, <3>3 DEF OnceOK
    <3> QED
      BY <1>m, <3>4, <3>5 DEF OnceOK, TakenBy
  <2> QED
    BY <2>1, <2>2 DEF Moved
<1>6. AbsentOK'
  BY <1>t, <1>m DEF AbsentOK, RowMoves
<1> QED
  BY <1>2, <1>3, <1>4, <1>5, <1>6 DEF BaseInv

(* A message is taken up: its words stand in the transcript, and its handler *)
(* waits.                                                                    *)
TakenUp(e) ==
  /\ e \in events /\ e = TakenBy(e[1])
  /\ events' = events \ {e} /\ UNCHANGED <<written, thread, turns>>
  /\ transcript' = Append(transcript, Said("requester", e))
  /\ RowOK' /\ status' # "absent" /\ resumes' \in Nat /\ roundCount' = roundCount
  /\ jobs' \in [Event -> Job] /\ \A f \in Event \ {e} : jobs'[f] = jobs[f]
  /\ jobs'[e].op \in {"ack", "guide", "judge"} /\ jobs'[e].count \in {0, roundCount}

(* An event is passed over.                                                 *)
PassedOver(e) ==
  /\ events' = events \ {e} /\ UNCHANGED <<written, thread, turns, session>>
  /\ jobs' \in [Event -> Job] /\ \A f \in Event \ {e} : jobs'[f] = jobs[f]
  /\ jobs'[e].op = "none" /\ jobs'[e].count = 0

(* A mention that opens a session is taken up.                             *)
LEMMA OpenedTakenUp ==
  ASSUME BaseInv, NEW e \in Event, Deliver(e), OpenSession(e), e = TakenBy(e[1])
  PROVE  TakenUp(e)
<1>1. e \in events /\ events' = events \ {e} /\ UNCHANGED <<written, thread, turns>>
  BY DEF Deliver
<1>2. jobs \in [Event -> Job] /\ RowOK /\ resumes \in Nat
  BY DEF BaseInv, TypeOK, RowOK
<1>3. /\ status' = "intake" /\ transcript' = Append(transcript, Said("requester", e)) /\ Wait(e, "ack", 0)
      /\ UNCHANGED <<roundCount, resumes, docVersion, isUi, drawn>>
  BY DEF OpenSession, Requester
<1>4. /\ jobs' \in [Event -> Job] /\ jobs'[e].op = "ack" /\ jobs'[e].count = 0
      /\ \A f \in Event \ {e} : jobs'[f] = jobs[f]
  BY <1>2, <1>3, WaitFits DEF Waits
<1> QED
  BY <1>1, <1>2, <1>3, <1>4 DEF TakenUp, RowOK

(* A reply is taken up, to be guided when there is a document.              *)
LEMMA RepliedTakenUp ==
  ASSUME BaseInv, NEW e \in Event, Deliver(e), Reply(e), e = TakenBy(e[1])
  PROVE  /\ TakenUp(e)
         /\ jobs'[e].count = roundCount /\ jobs'[e].op = IF Published THEN "guide" ELSE "judge"
<1>1. e \in events /\ events' = events \ {e} /\ UNCHANGED <<written, thread, turns>>
  BY DEF Deliver
<1>2. jobs \in [Event -> Job] /\ RowOK /\ resumes \in Nat /\ roundCount \in Nat
  BY AskedGrows DEF BaseInv, TypeOK, RowOK
<1>3. /\ status # "absent" /\ transcript' = Append(transcript, Said("requester", e))
      /\ Wait(e, IF Published THEN "guide" ELSE "judge", roundCount)
      /\ UNCHANGED <<roundCount, docVersion, isUi, drawn>>
      /\ status' \in {status, "clarifying"} /\ resumes' \in {resumes, resumes + 1}
  BY DEF Reply, Requester
<1>4. /\ jobs' \in [Event -> Job] /\ jobs'[e].op = (IF Published THEN "guide" ELSE "judge")
      /\ jobs'[e].count = roundCount
      /\ \A f \in Event \ {e} : jobs'[f] = jobs[f]
  <2> DEFINE op == IF Published THEN "guide" ELSE "judge"
  <2>1. op \in Waits
    BY DEF Waits
  <2>2. Wait(e, op, roundCount)
    BY <1>3
  <2> HIDE DEF op
  <2>3. /\ jobs' \in [Event -> Job] /\ jobs'[e].op = op /\ jobs'[e].count = roundCount
        /\ \A f \in Event \ {e} : jobs'[f] = jobs[f]
    BY <1>2, <2>1, <2>2, WaitFits
  <2> QED
    BY <2>3 DEF op
<1>5. RowOK' /\ status' # "absent" /\ resumes' \in Nat
  BY <1>2, <1>3 DEF RowOK
<1>6. jobs'[e].op \in {"ack", "guide", "judge"}
  BY <1>4
<1> QED
  BY <1>1, <1>3, <1>4, <1>5, <1>6 DEF TakenUp

(* An event is taken up by the one event of its message, or passed over.    *)
LEMMA Delivered ==
  ASSUME BaseInv, NEW e \in Event, Deliver(e)
  PROVE  \/ TakenUp(e) /\ OpenSession(e)
         \/ TakenUp(e) /\ Reply(e) /\ jobs'[e].count = roundCount
              /\ jobs'[e].op = IF Published THEN "guide" ELSE "judge"
         \/ PassedOver(e)
<1>1. e \in events /\ (e[2] = "app_mention" => written[e[1]] = "mention")
  BY DEF Deliver, BaseInv, EventsOK
<1>2. e = <<e[1], e[2]>>
  BY DEF Event
<1>3. CASE HandleMention(e)
  <2>1. e = TakenBy(e[1])
    BY <1>1, <1>2, <1>3 DEF HandleMention, TakenBy
  <2> QED
    BY <1>3, <2>1, OpenedTakenUp, RepliedTakenUp DEF HandleMention
<1>4. CASE HandleThreadReply(e) /\ Reply(e) /\ IsAnswer(e[1])
  <2>1. e = TakenBy(e[1])
    BY <1>2, <1>4 DEF HandleThreadReply, IsAnswer, TakenBy
  <2> QED
    BY <1>4, <2>1, RepliedTakenUp
<1>5. CASE Ignore(e)
  <2>1. /\ jobs' \in [Event -> Job] /\ jobs'[e].op = "none" /\ jobs'[e].count = 0
        /\ \A f \in Event \ {e} : jobs'[f] = jobs[f]
    BY <1>5, EndsFits DEF Ignore, BaseInv, TypeOK
  <2> QED
    BY <1>5, <2>1 DEF Ignore, PassedOver, Deliver
<1> QED
  BY <1>3, <1>4, <1>5 DEF Deliver, HandleThreadReply

(* Who is taken up was not taken up before.                                 *)
LEMMA TakenUpKeeps == ASSUME BaseInv, NEW e \in Event, TakenUp(e) PROVE BaseInv'
<1> DEFINE x == Said("requester", e)
           last == Len(transcript) + 1
<1>t. /\ transcript \in Seq(Entry) /\ Len(transcript) \in Nat /\ DOMAIN transcript = 1 .. Len(transcript)
      /\ Asked \in Nat /\ roundCount \in 0 .. Asked
      /\ TypeOK /\ EventsOK /\ HandlersOK /\ OnceOK /\ AbsentOK
  BY AskedGrows, LenProperties DEF BaseInv, TypeOK
<1>m. /\ e \in events /\ e = TakenBy(e[1])
      /\ events' = events \ {e} /\ UNCHANGED <<written, thread, turns>>
      /\ transcript' = Append(transcript, x)
      /\ RowOK' /\ status' # "absent" /\ resumes' \in Nat /\ roundCount' = roundCount
      /\ jobs' \in [Event -> Job] /\ \A f \in Event \ {e} : jobs'[f] = jobs[f]
      /\ jobs'[e].op \in {"ack", "guide", "judge"} /\ jobs'[e].count \in {0, roundCount}
  BY DEF TakenUp
<1>x. x \in Entry /\ x.by = "requester" /\ x.to = e[1]
  BY SaidFits
<1> HIDE DEF x
<1>1. transcript' \in Seq(Entry) /\ Asked' = Asked
  <2>1. transcript' \in Seq(Entry) /\ Asked' = Asked + IF x.by = "question" THEN 1 ELSE 0
    BY <1>t, <1>m, <1>x, AskedGrows
  <2> QED
    BY <1>t, <1>x, <2>1
<1>2. TypeOK'
  BY <1>t, <1>m, <1>1 DEF TypeOK, RowOK
<1>3. EventsOK'
  BY <1>t, <1>m DEF EventsOK
<1>4. HandlersOK'
  <2> SUFFICES ASSUME NEW f \in Event
               PROVE  /\ Busy(f)' => f \notin events' /\ f[1] <= Len(written) /\ f = TakenBy(f[1])
                      /\ jobs'[f].count <= Asked'
                      /\ jobs'[f].op = "record" => jobs'[f].words # "ack"
    BY <1>m DEF HandlersOK, TakenBy
  <2>1. CASE f = e
    <3>1. e[1] <= Len(written)
      BY <1>t, <1>m DEF EventsOK
    <3>2. jobs'[e].count <= Asked'
      BY <1>t, <1>m, <1>1
    <3> QED
      BY <1>m, <2>1, <3>1, <3>2
  <2>2. CASE f # e
    <3>1. jobs'[f] = jobs[f] /\ (Busy(f)' <=> Busy(f))
      BY <1>m, <2>2 DEF Busy
    <3> QED
      BY <1>t, <1>m, <1>1, <3>1 DEF HandlersOK
  <2> QED
    BY <2>1, <2>2
<1>5. OnceOK'
  <2>1. /\ Len(transcript') = last /\ transcript'[last] = x
        /\ \A i \in 1 .. Len(transcript) : transcript'[i] = transcript[i]
    BY <1>t, <1>m, <1>x, AppendProperties
  <2>2. DOMAIN transcript' = 1 .. last
    BY <1>1, <2>1, LenProperties
  <2> HIDE DEF last
  <2>3. \A i \in DOMAIN transcript' : i = last \/ (i \in DOMAIN transcript /\ transcript'[i] = transcript[i])
    BY <1>t, <2>1, <2>2 DEF last
  <2>4. e[1] <= Len(written)
    BY <1>t, <1>m DEF EventsOK
  <2>5. \A i \in DOMAIN transcript : transcript[i] # x
    <3> SUFFICES ASSUME NEW i \in DOMAIN transcript, transcript[i] = x PROVE FALSE
      OBVIOUS
    <3>1. TakenBy(e[1]) \notin events
      BY <1>t, <1>x DEF OnceOK
    <3> QED
      BY <1>m, <3>1
  <2>6. ASSUME NEW i \in DOMAIN transcript', transcript'[i].by = "requester"
        PROVE  transcript'[i].to <= Len(written) /\ TakenBy(transcript'[i].to) \notin events'
    <3>1. CASE i = last
      BY <1>m, <1>x, <2>1, <2>4, <3>1
    <3>2. CASE i # last
      <4>1. i \in DOMAIN transcript /\ transcript'[i] = transcript[i]
        BY <2>3, <3>2
      <4> QED
        BY <1>t, <1>m, <2>6, <4>1 DEF OnceOK
    <3> QED
      BY <3>1, <3>2
  <2>7. ASSUME NEW i \in DOMAIN transcript', NEW j \in DOMAIN transcript',
               transcript'[i].by = "requester", transcript'[j] = transcript'[i]
        PROVE  i = j
    <3>1. CASE i = last
      BY <2>1, <2>3, <2>5, <2>7, <3>1
    <3>2. CASE j = last
      BY <2>1, <2>3, <2>5, <2>7, <3>2
    <3>3. CASE i # last /\ j # last
      <4>1. /\ i \in DOMAIN transcript /\ transcript'[i] = transcript[i]
            /\ j \in DOMAIN transcript /\ transcript'[j] = transcript[j]
        BY <2>3, <3>3
      <4> QED
        BY <1>t, <2>7, <4>1 DEF OnceOK
    <3> QED
      BY <3>1, <3>2, <3>3
  <2> QED
    BY <1>m, <2>6, <2>7 DEF OnceOK, TakenBy
<1>6. AbsentOK'
  BY <1>m DEF AbsentOK
<1> QED
  BY <1>2, <1>3, <1>4, <1>5, <1>6 DEF BaseInv

(* What is passed over, or ends, leaves the session alone.                  *)
LEMMA EndKeeps ==
  ASSUME BaseInv, UNCHANGED <<written, thread, session>>, events' \subseteq events, turns' \in BOOLEAN,
         jobs' \in [Event -> Job],
         \A f \in Event : jobs'[f] = jobs[f] \/ (jobs'[f].op \notin Waits /\ jobs'[f].count = 0)
  PROVE  BaseInv'
<1>t. Asked \in Nat /\ Asked' = Asked /\ TypeOK /\ EventsOK /\ HandlersOK /\ OnceOK /\ AbsentOK
      /\ UNCHANGED <<written, thread, status, roundCount, resumes, docVersion, isUi, drawn, transcript>>
  BY AskedGrows DEF BaseInv, TypeOK, session
<1>1. TypeOK' /\ EventsOK' /\ OnceOK'
  BY <1>t DEF TypeOK, EventsOK, OnceOK, TakenBy
<1>2. HandlersOK'
  <2> SUFFICES ASSUME NEW f \in Event
               PROVE  /\ Busy(f)' => f \notin events' /\ f[1] <= Len(written) /\ f = TakenBy(f[1])
                      /\ jobs'[f].count <= Asked'
                      /\ jobs'[f].op = "record" => jobs'[f].words # "ack"
    BY <1>t DEF HandlersOK, TakenBy
  <2>1. CASE jobs'[f] = jobs[f]
    <3>1. Busy(f)' <=> Busy(f)
      BY <2>1 DEF Busy
    <3> QED
      BY <1>t, <2>1, <3>1 DEF HandlersOK
  <2>2. CASE jobs'[f].op \notin Waits /\ jobs'[f].count = 0
    <3>1. 0 <= Asked' /\ ~Busy(f)' /\ jobs'[f].op # "record"
      BY <1>t, <2>2 DEF Busy, Waits
    <3> QED
      BY <2>2, <3>1
  <2> QED
    BY <2>1, <2>2
<1>3. AbsentOK'
  <2>1. \A f \in Event : ~Busy(f) => ~Busy(f)'
    BY DEF Busy
  <2> QED
    BY <1>t, <2>1 DEF AbsentOK
<1> QED
  BY <1>1, <1>2, <1>3 DEF BaseInv

(* A message that is written has events that nobody had.                    *)
LEMMA WriteKeeps == ASSUME BaseInv, NEW kind \in Kinds, Write(kind) PROVE BaseInv'
<1> DEFINE n == Len(written) + 1
<1>t. /\ written \in Seq(Kinds) /\ Len(written) \in Nat /\ MaxMessages \in Nat /\ Len(written) < MaxMessages
      /\ TypeOK /\ EventsOK /\ HandlersOK /\ OnceOK /\ AbsentOK
      /\ transcript \in Seq(Entry) /\ Asked' = Asked
  BY ThreadAssumption, AskedGrows DEF BaseInv, TypeOK, Write, session
<1>1. /\ UNCHANGED <<thread, jobs, status, roundCount, resumes, docVersion, isUi, drawn, transcript>>
      /\ written' = Append(written, kind) /\ events' = events \cup EventsOf(n, kind)
      /\ turns' = (turns /\ Quiet)
  BY DEF Write, session
<1>2. /\ written' \in Seq(Kinds) /\ Len(written') = n /\ written'[n] = kind
      /\ \A m \in 1 .. Len(written) : written'[m] = written[m]
  BY <1>t, <1>1, AppendProperties
<1>3. n \in Messages
  BY <1>t DEF Messages
<1> HIDE DEF n
<1>4. \A f \in EventsOf(n, kind) : f \in Event /\ f[1] = n /\ (f[2] = "app_mention" => kind = "mention")
  BY <1>3 DEF EventsOf, Event
<1>5. \A m \in Messages : m <= Len(written) => m # n /\ m <= n /\ TakenBy(m)' = TakenBy(m)
  BY <1>t, <1>2 DEF TakenBy, Messages, n
<1>6. TypeOK'
  BY <1>t, <1>1, <1>2, <1>4 DEF TypeOK
<1>7. EventsOK'
  <2> SUFFICES ASSUME NEW f \in events'
               PROVE  f[1] <= n /\ (f[2] = "app_mention" => written'[f[1]] = "mention")
    BY <1>2 DEF EventsOK
  <2>1. CASE f \in events
    <3>1. f[1] \in Messages /\ f[1] <= Len(written) /\ (f[2] = "app_mention" => written[f[1]] = "mention")
      BY <1>t, <2>1 DEF EventsOK, TypeOK, Event
    <3>2. f[1] \in 1 .. Len(written)
      BY <1>t, <3>1 DEF Messages
    <3> QED
      BY <1>2, <1>5, <3>1, <3>2
  <2>2. CASE f \in EventsOf(n, kind)
    <3>1. n <= n
      BY <1>3 DEF Messages
    <3> QED
      BY <1>2, <1>4, <2>2, <3>1
  <2> QED
    BY <1>1, <2>1, <2>2
<1>8. HandlersOK'
  <2> SUFFICES ASSUME NEW f \in Event
               PROVE  /\ Busy(f) => f \notin events' /\ f[1] <= n /\ f = TakenBy(f[1])'
                      /\ jobs[f].count <= Asked
                      /\ jobs[f].op = "record" => jobs[f].words # "ack"
    BY <1>t, <1>1, <1>2 DEF HandlersOK, Busy, TakenBy
  <2>1. f[1] \in Messages
    BY DEF Event
  <2>2. ASSUME Busy(f) PROVE f \notin events' /\ f[1] <= n /\ f = TakenBy(f[1])'
    <3>1. f \notin events /\ f[1] <= Len(written) /\ f = TakenBy(f[1])
      BY <1>t, <2>2 DEF HandlersOK
    <3> QED
      BY <1>1, <1>4, <1>5, <2>1, <3>1
  <2> QED
    BY <1>t, <2>2 DEF HandlersOK
<1>9. OnceOK'
  <2>1. ASSUME NEW i \in DOMAIN transcript, transcript[i].by = "requester"
        PROVE  transcript[i].to <= n /\ TakenBy(transcript[i].to)' \notin events'
    <3>1. transcript[i] \in Entry
      BY <1>t, LenProperties, ElementOfSeq
    <3>2. transcript[i].to \in Messages
      BY <3>1 DEF Entry
    <3>3. transcript[i].to <= Len(written) /\ TakenBy(transcript[i].to) \notin events
      BY <1>t, <2>1 DEF OnceOK
    <3>4. TakenBy(transcript[i].to)[1] = transcript[i].to
      BY DEF TakenBy
    <3>5. TakenBy(transcript[i].to) \notin EventsOf(n, kind)
      BY <1>4, <1>5, <3>2, <3>3, <3>4
    <3>6. TakenBy(transcript[i].to)' = TakenBy(transcript[i].to)
      <4>1. transcript[i].to \in 1 .. Len(written)
        BY <1>t, <3>2, <3>3 DEF Messages
      <4>2. written'[transcript[i].to] = written[transcript[i].to]
        BY <1>2, <4>1
      <4> QED
        BY <1>1, <4>2 DEF TakenBy
    <3> QED
      BY <1>1, <1>5, <3>2, <3>3, <3>5, <3>6
  <2> QED
    BY <1>t, <1>1, <1>2, <2>1 DEF OnceOK
<1>10. AbsentOK'
  BY <1>t, <1>1 DEF AbsentOK, Busy
<1> QED
  BY <1>6, <1>7, <1>8, <1>9, <1>10 DEF BaseInv

(* No step takes a message up again.                                        *)
LEMMA BaseStep == ASSUME BaseInv, [Next]_vars PROVE BaseInv'
<1>t. jobs \in [Event -> Job] /\ turns \in BOOLEAN
  BY DEF BaseInv, TypeOK
<1>1. ASSUME NEW kind \in Kinds, Write(kind) PROVE BaseInv'
  BY <1>1, WriteKeeps
<1>2. ASSUME NEW e \in Event, Deliver(e) PROVE BaseInv'
  <2>1. CASE TakenUp(e)
    BY <2>1, TakenUpKeeps
  <2>2. CASE PassedOver(e)
    <3>1. \A f \in Event : jobs'[f] = jobs[f] \/ (jobs'[f].op \notin Waits /\ jobs'[f].count = 0)
      BY <2>2 DEF PassedOver, Waits
    <3> QED
      BY <1>t, <2>2, <3>1, EndKeeps DEF PassedOver
  <2> QED
    BY <1>2, <2>1, <2>2, Delivered
<1>3. ASSUME NEW e \in Event, Proceed(e) PROVE BaseInv'
  BY <1>3, ProceedMoved, MovedKeeps DEF BaseInv
<1>4. ASSUME NEW e \in Event, Fail(e) PROVE BaseInv'
  <2>1. UNCHANGED <<written, events, thread, session>> /\ turns' = FALSE /\ Ends(e, "died")
    BY <1>4 DEF Fail, slack
  <2>2. /\ jobs' \in [Event -> Job] /\ jobs'[e].op = "died" /\ jobs'[e].count = 0
        /\ \A f \in Event \ {e} : jobs'[f] = jobs[f]
    BY <1>t, <2>1, EndsFits
  <2>3. \A f \in Event : jobs'[f] = jobs[f] \/ (jobs'[f].op \notin Waits /\ jobs'[f].count = 0)
    BY <2>2 DEF Waits
  <2> QED
    BY <2>1, <2>2, <2>3, EndKeeps
<1>5. CASE Restart
  <2> DEFINE dead == [Blank EXCEPT !.op = "died"]
  <2>1. UNCHANGED <<written, events, thread, session>> /\ turns' = FALSE
        /\ jobs' = [e \in Event |-> IF Busy(e) THEN dead ELSE jobs[e]]
    BY <1>5 DEF Restart, slack
  <2>2. dead \in Job /\ dead.op \notin Waits /\ dead.count = 0
    BY DEF Blank, Job, Words, Waits
  <2> HIDE DEF dead
  <2>3. jobs' \in [Event -> Job]
        /\ \A f \in Event : jobs'[f] = jobs[f] \/ (jobs'[f].op \notin Waits /\ jobs'[f].count = 0)
    BY <1>t, <2>1, <2>2
  <2> QED
    BY <2>1, <2>3, EndKeeps
<1>6. CASE UNCHANGED vars
  <2>1. UNCHANGED <<written, events, thread, session, turns, jobs>>
    BY <1>6 DEF vars, slack
  <2> QED
    BY <1>t, <2>1, EndKeeps
<1> QED
  BY <1>1, <1>2, <1>3, <1>4, <1>5, <1>6 DEF Next

(* A message has one entry in the transcript at most.                       *)
LEMMA OnceIsOnce == ASSUME BaseInv PROVE EachMessageOnce
<1> SUFFICES ASSUME NEW m \in Messages
             PROVE  Cardinality({i \in DOMAIN transcript : transcript[i] = [by |-> "requester", to |-> m]}) <= 1
  BY DEF EachMessageOnce
<1> DEFINE S == {i \in DOMAIN transcript : transcript[i] = [by |-> "requester", to |-> m]}
<1>1. \A i, j \in S : i = j
  BY DEF BaseInv, OnceOK
<1>2. S = {} \/ \E i : S = {i}
  <2> HIDE DEF S
  <2> QED
    BY <1>1
<1> HIDE DEF S
<1>3. Cardinality(S) <= 1
  <2>1. CASE S = {}
    <3>1. Cardinality(S) = 0
      BY <2>1, FS_EmptySet
    <3> QED
      BY <3>1
  <2>2. CASE \E i : S = {i}
    <3>1. Cardinality(S) = 1
      BY <2>2, FS_Singleton
    <3> QED
      BY <3>1
  <2> QED
    BY <1>2, <2>1, <2>2
<1> QED
  BY <1>3 DEF S

-----------------------------------------------------------------------------
(* Turns                                                                    *)

(* A resumption adds to the budget.                                         *)
LEMMA BudgetGrows ==
  ASSUME NEW r \in Nat
  PROVE  /\ MaxRounds * (1 + r) \in Nat /\ 0 < MaxRounds * (1 + r)
         /\ MaxRounds * (1 + r) <= MaxRounds * (1 + (r + 1))
<1>1. MaxRounds \in Nat /\ MaxRounds > 0
  BY ThreadAssumption
<1>2. MaxRounds * r \in Nat
  BY <1>1
<1>3. MaxRounds * (1 + r) = MaxRounds + MaxRounds * r
  BY <1>1
<1>4. MaxRounds * (1 + (r + 1)) = MaxRounds + MaxRounds + MaxRounds * r
  BY <1>1
<1> QED
  BY <1>1, <1>2, <1>3, <1>4

(* The agent's words in two lists, when one gets another of them.           *)
LEMMA OnlyGrows ==
  ASSUME NEW list \in Seq(Entry), NEW x \in Entry
  PROVE  /\ Only(Append(list, x), Ours)
              = IF x.by # "requester" THEN Append(Only(list, Ours), x) ELSE Only(list, Ours)
         /\ Only(Append(list, x), Theirs)
              = IF x.by # "ack" THEN Append(Only(list, Theirs), x) ELSE Only(list, Theirs)
<1>1. (x \in Ours <=> x.by # "requester") /\ (x \in Theirs <=> x.by # "ack")
  BY DEF Ours, Theirs
<1> QED
  BY <1>1, OnlyAppend

(* In turns, who works, or is about to, works alone.                        *)
LEMMA Alone ==
  ASSUME BaseInv, TurnOK, turns, NEW e \in Event, Busy(e) \/ (e \in events /\ e = TakenBy(e[1]))
  PROVE  \A f \in Event \ {e} : ~Busy(f)
<1> SUFFICES ASSUME NEW f \in Event \ {e}, Busy(f) PROVE FALSE
  OBVIOUS
<1>1. e[1] = Len(written) /\ f[1] = Len(written)
  BY DEF TurnOK
<1>2. f = TakenBy(f[1]) /\ e = TakenBy(e[1])
  BY DEF BaseInv, HandlersOK
<1> QED
  BY <1>1, <1>2

(* What one handler at work leaves behind, whatever it waits for.           *)
LEMMA AloneKeeps ==
  ASSUME BaseInv, TurnOK, turns, NEW e \in Event, e \in events \/ Busy(e),
         \A f \in Event \ {e} : ~Busy(f) /\ jobs'[f] = jobs[f],
         events' \subseteq events, written' = written,
         Busy(e)' => AtWork(e)', ~Busy(e)' => AtEase', AllGiven', WithinBudget'
  PROVE  TurnOK'
<1>1. \A f \in Event \ {e} : ~Busy(f)'
  BY DEF Busy
<1>2. \A f \in Event : f \in events \/ Busy(f) => f[1] = Len(written)
  BY DEF TurnOK
<1>3. events \subseteq Event
  BY DEF BaseInv, TypeOK
<1>4. \A f \in Event : f \in events' \/ Busy(f)' => f[1] = Len(written)'
  BY <1>1, <1>2
<1>5. \A f \in Event : Busy(f)' => AtWork(f)'
  BY <1>1
<1>6. (\A f \in Event : ~Busy(f)') => AtEase'
  OBVIOUS
<1> QED
  BY <1>4, <1>5, <1>6 DEF TurnOK

(* The handler's words are out, and the transcript is to get them.          *)
LEMMA PostedAgrees ==
  ASSUME BaseInv, Agree, NEW e \in Event, NEW words \in Words \ {"ack"},
         transcript' = transcript, thread' = Append(thread, Said(words, e))
  PROVE  Only(thread, Theirs)' = Append(Only(transcript, Ours)', Said(words, e))
<1>1. Said(words, e) \in Entry /\ Said(words, e).by # "ack"
  BY SaidFits
<1>2. thread \in Seq(Entry)
  BY DEF BaseInv, TypeOK
<1>3. Only(Append(thread, Said(words, e)), Theirs) = Append(Only(thread, Theirs), Said(words, e))
  BY <1>1, <1>2, OnlyGrows
<1> QED
  BY <1>3 DEF Agree

(* In turns, from wait to wait, the handler is where it should be.          *)
LEMMA WaitsInTurn ==
  ASSUME BaseInv, TurnOK, turns, NEW e \in Event,
         \/ Acknowledged(e) \/ Guided(e) \/ Questioned(e) \/ Judged(e) \/ Promoted(e)
         \/ Documented(e) \/ Drawn(e)
  PROVE  Busy(e)' /\ AtWork(e)'
<1>t. /\ jobs \in [Event -> Job] /\ thread \in Seq(Entry) /\ jobs[e].count \in Nat /\ docVersion \in Nat
      /\ roundCount \in Nat /\ resumes \in Nat
  <2>1. jobs[e] \in Job
    BY DEF BaseInv, TypeOK
  <2> QED
    BY <2>1, AskedGrows DEF BaseInv, TypeOK, Job
<1>b. jobs[e].op \in {"ack", "guide", "question", "judge", "promote", "document", "draw"}
  BY DEF Acknowledged, Guided, Questioned, Judged, Promoted, Documented, Drawn
<1>w. AtWork(e) /\ Agree /\ Busy(e)
  <2>1. Busy(e)
    BY <1>b DEF Busy, Waits
  <2>2. AtWork(e)
    BY <2>1 DEF TurnOK
  <2> QED
    BY <1>b, <2>1, <2>2 DEF AtWork
<1>s. UNCHANGED <<status, roundCount, resumes, transcript>>
  BY DEF Acknowledged, Guided, Questioned, Judged, Promoted, Documented, Drawn, session
<1>d. /\ LastIsOurs' <=> LastIsOurs
      /\ Published' <=> Published
      /\ RoundBudget' = RoundBudget
      /\ Only(transcript, Ours)' = Only(transcript, Ours)
  BY <1>s DEF LastIsOurs, Published, RoundBudget
<1>q. ASSUME NEW op \in {"promote", "document"}, Wait(e, op, 0), thread' = thread,
             op = "promote" => ~Published
      PROVE  Busy(e)' /\ AtWork(e)'
  <2>1. jobs'[e].op = op
    BY <1>t, <1>q, WaitFits DEF Waits
  <2>2. Agree'
    BY <1>w, <1>d, <1>q DEF Agree
  <2>3. Busy(e)' /\ ~Asking(e)' /\ ~Holding(e)' /\ ~Drawing(e)'
    BY <1>q, <2>1 DEF Busy, Waits, Asking, Holding, Drawing
  <2> QED
    BY <1>d, <1>q, <2>1, <2>2, <2>3 DEF AtWork
<1>a. ASSUME Wait(e, "question", roundCount), ~Published, roundCount < RoundBudget, Agree'
      PROVE  Busy(e)' /\ AtWork(e)'
  <2>1. jobs'[e].op = "question" /\ jobs'[e].count = roundCount
    BY <1>t, <1>a, WaitFits DEF Waits
  <2>2. Busy(e)' /\ Asking(e)' /\ ~Holding(e)' /\ ~Drawing(e)'
    BY <2>1 DEF Busy, Waits, Asking, Holding, Drawing
  <2> QED
    BY <1>s, <1>d, <1>a, <2>1, <2>2 DEF AtWork
<1>p. ASSUME NEW words \in Words \ {"ack", "mockup"}, NEW count \in Nat, NEW number \in Nat,
             Post(e, words, count, number),
             words \in {"question", "hold"} => ~Published,
             words = "question" => count = roundCount /\ roundCount < RoundBudget
      PROVE  Busy(e)' /\ AtWork(e)'
  <2>1. /\ jobs'[e].op = "record" /\ jobs'[e].words = words /\ jobs'[e].count = count
        /\ thread' = Append(thread, Said(words, e))
    BY <1>t, <1>p, PostFits
  <2>2. Only(thread, Theirs)' = Append(Only(transcript, Ours)', Said(words, e))
    BY <1>w, <1>s, <2>1, PostedAgrees
  <2>3. Busy(e)' /\ (Asking(e)' <=> words = "question") /\ (Holding(e)' <=> words = "hold") /\ ~Drawing(e)'
    BY <2>1 DEF Busy, Waits, Asking, Holding, Drawing
  <2>4. Said(jobs[e].words, e)' = Said(words, e)
    BY <2>1 DEF Said
  <2> QED
    BY <1>s, <1>d, <1>p, <2>1, <2>2, <2>3, <2>4 DEF AtWork
<1>1. CASE Acknowledged(e)
  <2>1. jobs[e].op = "ack" /\ thread' = Append(thread, Said("ack", e))
    BY <1>1 DEF Acknowledged
  <2>2. status = "intake" /\ roundCount = 0 /\ ~Published
    BY <1>w, <2>1 DEF AtWork, Published
  <2>3. Wait(e, "question", roundCount)
    BY <1>1, <2>2 DEF Acknowledged
  <2>4. roundCount < RoundBudget
    BY <1>t, <2>2, BudgetGrows DEF RoundBudget
  <2>5. Said("ack", e) \in Entry /\ Said("ack", e).by = "ack"
    BY SaidFits DEF Words
  <2>6. Agree'
    BY <1>t, <1>w, <1>d, <2>1, <2>5, OnlyGrows DEF Agree
  <2> QED
    BY <1>a, <2>2, <2>3, <2>4, <2>6
<1>2. CASE Guided(e)
  BY <1>2, <1>p DEF Guided, Words
<1>3. CASE Questioned(e)
  <2>1. Asking(e) /\ Post(e, "question", jobs[e].count, 0)
    BY <1>3 DEF Questioned, Asking
  <2>2. ~Published /\ jobs[e].count = roundCount /\ roundCount < RoundBudget
    BY <1>w, <2>1 DEF AtWork
  <2> QED
    BY <1>t, <1>p, <2>1, <2>2 DEF Words
<1>4. CASE Judged(e)
  <2>1. jobs[e].op = "judge" /\ thread' = thread
    BY <1>4 DEF Judged, slack
  <2>2. ~Published /\ jobs[e].count = roundCount
    BY <1>w, <2>1 DEF AtWork
  <2>3. Agree'
    BY <1>w, <1>d, <2>1 DEF Agree
  <2>4. PICK verdict \in {"refined", "gap", "vague"} :
          CASE Asks(e, verdict) -> Wait(e, "question", roundCount)
            [] ~Asks(e, verdict) /\ verdict = "gap" -> Wait(e, "promote", 0)
            [] ~Asks(e, verdict) /\ verdict # "gap" -> Wait(e, "document", 0)
    BY <1>4 DEF Judged
  <2>5. CASE Asks(e, verdict)
    BY <1>a, <2>2, <2>3, <2>4, <2>5 DEF Asks
  <2>6. CASE ~Asks(e, verdict)
    <3>1. Wait(e, "promote", 0) \/ Wait(e, "document", 0)
      BY <2>4, <2>6
    <3> QED
      BY <1>q, <2>1, <2>2, <3>1
  <2> QED
    BY <2>5, <2>6
<1>5. CASE Promoted(e)
  <2>1. ~Published
    BY <1>w, <1>5 DEF AtWork, Promoted
  <2>2. CASE Wait(e, "document", 0) /\ thread' = thread
    BY <1>q, <2>2
  <2>3. CASE Post(e, "hold", 0, 0)
    BY <1>p, <2>1, <2>3 DEF Words
  <2> QED
    BY <1>5, <2>2, <2>3 DEF Promoted
<1>6. CASE Documented(e)
  <2>1. Post(e, "document", 0, docVersion + 1) /\ docVersion + 1 \in Nat
    BY <1>t, <1>6 DEF Documented
  <2> QED
    BY <1>p, <2>1 DEF Words
<1>7. CASE Drawn(e)
  <2>1. Post(e, "mockup", 0, 0) /\ Drawing(e)
    BY <1>7 DEF Drawn, Drawing
  <2>2. LastIsOurs'
    BY <1>w, <1>d, <2>1 DEF AtWork
  <2>3. /\ jobs'[e].op = "record" /\ jobs'[e].words = "mockup"
        /\ thread' = Append(thread, Said("mockup", e))
    BY <1>t, <2>1, PostFits DEF Words
  <2>4. Only(thread, Theirs)' = Append(Only(transcript, Ours)', Said("mockup", e))
    BY <1>w, <1>s, <2>3, PostedAgrees DEF Words
  <2>5. Busy(e)' /\ ~Asking(e)' /\ ~Holding(e)'
    BY <2>3 DEF Busy, Waits, Asking, Holding
  <2>6. Said(jobs[e].words, e)' = Said("mockup", e)
    BY <2>3 DEF Said
  <2> QED
    BY <2>2, <2>3, <2>4, <2>5, <2>6 DEF AtWork
<1> QED
  BY <1>1, <1>2, <1>3, <1>4, <1>5, <1>6, <1>7

(* What is given to the next judgement, and the budget, are of the          *)
(* transcript and its counts.                                               *)
LEMMA SameTranscript ==
  ASSUME BaseInv, AllGiven, WithinBudget, UNCHANGED <<transcript, roundCount, resumes>>
  PROVE  AllGiven' /\ WithinBudget'
<1>1. Asked' = Asked
  BY AskedGrows DEF BaseInv, TypeOK
<1> QED
  BY <1>1 DEF AllGiven, Given, WithinBudget, RoundBudget

(* ... a staged document too.                                               *)
LEMMA StagedInTurn ==
  ASSUME BaseInv, NEW e \in Event, NEW ui \in {"unknown", "yes", "no"},
         NEW settled \in {"intake", "clarifying", "documented", "mockup", "closed"},
         Stage(e, ui, settled), LastIsOurs', Agree'
  PROVE  (Busy(e)' => AtWork(e)') /\ (~Busy(e)' => AtEase')
<1>1. jobs'[e].op \in {"classify", "draw", "done"}
  BY StageFits DEF BaseInv
<1>2. ~Asking(e)' /\ ~Holding(e)'
  BY <1>1 DEF Asking, Holding
<1> QED
  BY <1>1, <1>2 DEF AtWork, AtEase

(* ... and recorded words.                                                  *)
LEMMA RecordInTurn ==
  ASSUME BaseInv, TurnOK, turns, NEW e \in Event, Record(e)
  PROVE  /\ (Busy(e)' => AtWork(e)') /\ (~Busy(e)' => AtEase')
         /\ AllGiven' /\ WithinBudget'
<1> DEFINE x == Said(jobs[e].words, e)
           last == Len(transcript) + 1
<1>1. /\ jobs[e] \in Job /\ jobs[e].op = "record" /\ Busy(e) /\ jobs[e].words # "ack"
      /\ jobs[e].count \in Nat /\ jobs[e].words \in Words
      /\ jobs \in [Event -> Job] /\ transcript \in Seq(Entry)
  BY DEF Record, Busy, Waits, BaseInv, TypeOK, HandlersOK, Job
<1>w. AtWork(e) /\ AllGiven /\ WithinBudget
  BY <1>1 DEF TurnOK
<1>2. /\ x \in Entry /\ x.by = jobs[e].words /\ x.by # "requester"
      /\ transcript' = Append(transcript, x) /\ thread' = thread /\ resumes' = resumes
  <2>1. thread' = thread /\ resumes' = resumes
    BY DEF Record, slack, RecordQuestion, RecordGuide, RecordHold, RecordDocument, RecordMockup
  <2> QED
    BY <1>1, <2>1, SaidFits DEF Record, Words
<1>3. Only(thread, Theirs) = Append(Only(transcript, Ours), x)
  BY <1>1, <1>w DEF AtWork
<1> HIDE DEF x
<1>4. Asked \in Nat /\ Asked' = Asked + IF x.by = "question" THEN 1 ELSE 0
  BY <1>1, <1>2, AskedGrows
<1>5. Agree'
  <2>1. Only(transcript', Ours) = Append(Only(transcript, Ours), x)
    BY <1>1, <1>2, OnlyGrows
  <2> QED
    BY <1>2, <1>3, <2>1 DEF Agree
<1>6. /\ transcript' \in Seq(Entry) /\ Len(transcript') = last /\ transcript'[last] = x
      /\ \A i \in 1 .. Len(transcript) : transcript'[i] = transcript[i]
      /\ DOMAIN transcript' = 1 .. last /\ DOMAIN transcript = 1 .. Len(transcript) /\ Len(transcript) \in Nat
  <2>1. /\ transcript' \in Seq(Entry) /\ Len(transcript') = last /\ transcript'[last] = x
        /\ \A i \in 1 .. Len(transcript) : transcript'[i] = transcript[i]
    BY <1>1, <1>2, AppendProperties
  <2> QED
    BY <1>1, <2>1, LenProperties
<1>7. LastIsOurs'
  BY <1>2, <1>6 DEF LastIsOurs
<1>8. AllGiven'
  <2> SUFFICES ASSUME NEW i \in 1 .. last, transcript'[i].by = "requester"
               PROVE  i = 1 \/ transcript'[i - 1].by # "requester"
    BY <1>6 DEF AllGiven, Given
  <2>1. i \in 1 .. Len(transcript)
    BY <1>2, <1>6
  <2>2. transcript[i].by = "requester" /\ (i = 1 \/ i - 1 \in 1 .. Len(transcript))
    BY <1>6, <2>1
  <2>3. i = 1 \/ transcript[i - 1].by # "requester"
    BY <1>w, <1>6, <2>1, <2>2 DEF AllGiven, Given
  <2> QED
    BY <1>6, <2>2, <2>3
<1>9. WithinBudget'
  <2>1. Asked <= RoundBudget /\ roundCount = Asked /\ RoundBudget' = RoundBudget
    BY <1>2, <1>w DEF WithinBudget, RoundBudget
  <2>2. RoundBudget \in Nat
    <3>1. resumes \in Nat
      BY DEF BaseInv, TypeOK
    <3> QED
      BY <3>1, BudgetGrows DEF RoundBudget
  <2>3. CASE RecordQuestion(e)
    <3>1. Asking(e) /\ x.by = "question" /\ roundCount' = jobs[e].count + 1
      BY <1>1, <1>2, <2>3 DEF RecordQuestion, Asking
    <3>2. jobs[e].count = roundCount /\ roundCount < RoundBudget
      BY <1>w, <3>1 DEF AtWork
    <3>3. Asked' = Asked + 1 /\ Asked' <= RoundBudget'
      BY <1>4, <2>1, <2>2, <3>1, <3>2
    <3> QED
      BY <2>1, <3>1, <3>2, <3>3 DEF WithinBudget
  <2>4. CASE roundCount' = roundCount /\ jobs[e].words # "question"
    <3>1. Asked' = Asked
      BY <1>2, <1>4, <2>4
    <3> QED
      BY <2>1, <2>4, <3>1 DEF WithinBudget
  <2> QED
    BY <2>3, <2>4 DEF Record, RecordGuide, RecordHold, RecordDocument, RecordMockup
<1>10. (Busy(e)' => AtWork(e)') /\ (~Busy(e)' => AtEase')
  <2>1. ASSUME NEW how \in {"done", "died"}, Ends(e, how) PROVE ~Busy(e)' /\ AtEase'
    <3>1. jobs'[e].op = how
      BY <1>1, <2>1, EndsFits
    <3>2. ~Busy(e)'
      BY <3>1 DEF Busy, Waits
    <3> QED
      BY <1>5, <1>7, <3>2 DEF AtEase
  <2>2. CASE RecordQuestion(e) \/ RecordGuide(e) \/ RecordHold(e) \/ RecordMockup(e)
    BY <2>1, <2>2 DEF RecordQuestion, RecordGuide, RecordHold, RecordMockup
  <2>3. CASE RecordDocument(e)
    <3>1. CASE Ends(e, "died")
      BY <2>1, <3>1
    <3>2. CASE Stage(e, isUi, "documented")
      <4>1. isUi \in {"unknown", "yes", "no"}
        BY DEF BaseInv, TypeOK
      <4> QED
        BY <1>5, <1>7, <3>2, <4>1, StagedInTurn
    <3> QED
      BY <2>3, <3>1, <3>2 DEF RecordDocument
  <2> QED
    BY <2>2, <2>3 DEF Record
<1> QED
  BY <1>8, <1>9, <1>10

(* One step of the one handler.                                             *)
LEMMA ProceedInTurn ==
  ASSUME BaseInv, TurnOK, turns, NEW e \in Event, Proceed(e)
  PROVE  TurnOK'
<1>1. Moved(e)
  BY ProceedMoved DEF BaseInv
<1>2. Busy(e) /\ written' = written /\ events' = events /\ \A f \in Event \ {e} : jobs'[f] = jobs[f]
  BY <1>1 DEF Moved
<1>3. \A f \in Event \ {e} : ~Busy(f)
  BY <1>2, Alone
<1>4. AtWork(e) /\ AllGiven /\ WithinBudget
  BY <1>2 DEF TurnOK
<1>5. (Busy(e)' => AtWork(e)') /\ (~Busy(e)' => AtEase') /\ AllGiven' /\ WithinBudget'
  <2>1. CASE \/ Acknowledged(e) \/ Guided(e) \/ Questioned(e) \/ Judged(e) \/ Promoted(e)
             \/ Documented(e) \/ Drawn(e)
    <3>1. UNCHANGED <<transcript, roundCount, resumes>>
      BY <2>1 DEF Acknowledged, Guided, Questioned, Judged, Promoted, Documented, Drawn, session
    <3> QED
      BY <1>4, <2>1, <3>1, WaitsInTurn, SameTranscript
  <2>2. CASE Classified(e)
    <3>1. UNCHANGED <<transcript, roundCount, resumes, thread>>
      BY <2>2 DEF Classified, slack
    <3>2. Drawing(e) /\ jobs[e].op # "record"
      BY <2>2 DEF Classified, Drawing
    <3>3. LastIsOurs /\ Agree
      BY <1>4, <3>2 DEF AtWork
    <3>4. LastIsOurs' /\ Agree'
      BY <3>1, <3>3 DEF LastIsOurs, Agree
    <3>5. PICK ui \in {"yes", "no"} : Stage(e, ui, status)
      BY <2>2 DEF Classified
    <3>6. status \in {"intake", "clarifying", "documented", "mockup", "closed"}
      BY <1>2 DEF BaseInv, AbsentOK, TypeOK
    <3>7. (Busy(e)' => AtWork(e)') /\ (~Busy(e)' => AtEase')
      BY <3>4, <3>5, <3>6, StagedInTurn
    <3> QED
      BY <1>4, <3>1, <3>7, SameTranscript
  <2>3. CASE Record(e)
    BY <2>3, RecordInTurn
  <2> QED
    BY <2>1, <2>2, <2>3 DEF Proceed
<1> QED
  BY <1>2, <1>3, <1>5, AloneKeeps

(* A message that is taken up when all is quiet.                            *)
LEMMA TakenUpInTurn ==
  ASSUME BaseInv, TurnOK, turns, NEW e \in Event, TakenUp(e),
         \/ OpenSession(e)
         \/ Reply(e) /\ jobs'[e].count = roundCount
              /\ jobs'[e].op = IF Published THEN "guide" ELSE "judge"
  PROVE  TurnOK'
<1> DEFINE x == Said("requester", e)
           last == Len(transcript) + 1
<1>t. /\ transcript \in Seq(Entry) /\ jobs \in [Event -> Job] /\ roundCount \in 0 .. Asked
      /\ Asked \in Nat /\ resumes \in Nat
  BY AskedGrows DEF BaseInv, TypeOK
<1>m. /\ e \in events /\ e = TakenBy(e[1])
      /\ events' = events \ {e} /\ UNCHANGED <<written, thread, turns>>
      /\ transcript' = Append(transcript, x) /\ roundCount' = roundCount
      /\ \A f \in Event \ {e} : jobs'[f] = jobs[f]
      /\ jobs'[e].op \in {"ack", "guide", "judge"}
  BY DEF TakenUp
<1>x. x \in Entry /\ x.by = "requester"
  BY SaidFits
<1> HIDE DEF x
<1>1. (\A f \in Event : ~Busy(f)) /\ AllGiven /\ WithinBudget /\ LastIsOurs /\ Agree
  <2>1. \A f \in Event \ {e} : ~Busy(f)
    BY <1>m, Alone
  <2>2. ~Busy(e)
    BY <1>m DEF BaseInv, HandlersOK
  <2>3. \A f \in Event : ~Busy(f)
    BY <2>1, <2>2
  <2> QED
    BY <2>3 DEF TurnOK, AtEase
<1>2. Agree'
  <2>1. Only(transcript', Ours) = Only(transcript, Ours)
    BY <1>t, <1>m, <1>x, OnlyGrows
  <2> QED
    BY <1>m, <1>1, <2>1 DEF Agree
<1>3. Asked' = Asked
  <2>1. Asked' = Asked + IF x.by = "question" THEN 1 ELSE 0
    BY <1>t, <1>m, <1>x, AskedGrows
  <2> QED
    BY <1>t, <1>x, <2>1
<1>4. WithinBudget'
  <2>1. resumes' \in {resumes, resumes + 1}
    BY DEF OpenSession, Reply
  <2>2. RoundBudget \in Nat /\ RoundBudget' \in Nat /\ RoundBudget <= RoundBudget'
    <3>1. /\ MaxRounds * (1 + resumes) \in Nat
          /\ MaxRounds * (1 + resumes) <= MaxRounds * (1 + (resumes + 1))
      BY <1>t, BudgetGrows
    <3>2. MaxRounds * (1 + (resumes + 1)) \in Nat
      BY <1>t, BudgetGrows
    <3> DEFINE less == MaxRounds * (1 + resumes)
               more == MaxRounds * (1 + (resumes + 1))
    <3>3. RoundBudget = less /\ RoundBudget' \in {less, more}
      BY <2>1 DEF RoundBudget
    <3> HIDE DEF less, more
    <3>4. less \in Nat /\ more \in Nat /\ less <= more
      BY <3>1, <3>2 DEF less, more
    <3> QED
      BY <3>3, <3>4
  <2>3. Asked <= RoundBudget /\ roundCount = Asked
    BY <1>1 DEF WithinBudget
  <2>4. Asked <= RoundBudget'
    BY <1>t, <2>2, <2>3
  <2> QED
    BY <1>m, <1>3, <2>3, <2>4 DEF WithinBudget
<1>5. AllGiven'
  <2>1. /\ transcript' \in Seq(Entry) /\ Len(transcript') = last /\ transcript'[last] = x
        /\ \A i \in 1 .. Len(transcript) : transcript'[i] = transcript[i]
        /\ Len(transcript) \in Nat
    BY <1>t, <1>m, <1>x, AppendProperties
  <2>2. DOMAIN transcript' = 1 .. last /\ DOMAIN transcript = 1 .. Len(transcript)
    BY <1>t, <2>1, LenProperties
  <2> SUFFICES ASSUME NEW i \in 1 .. last, transcript'[i].by = "requester"
               PROVE  i = 1 \/ transcript'[i - 1].by # "requester"
    BY <2>2 DEF AllGiven, Given
  <2>3. CASE i = last
    <3>1. CASE last = 1
      BY <2>3, <3>1
    <3>2. CASE last # 1
      <4>1. Len(transcript) \in 1 .. Len(transcript) /\ i - 1 = Len(transcript)
        BY <2>1, <2>3, <3>2
      <4>2. transcript # <<>>
        BY <4>1, EmptySeq
      <4>3. transcript[Len(transcript)].by # "requester"
        BY <1>1, <4>2 DEF LastIsOurs
      <4> QED
        BY <2>1, <4>1, <4>3
    <3> QED
      BY <3>1, <3>2
  <2>4. CASE i # last
    <3>1. i \in 1 .. Len(transcript) /\ (i = 1 \/ i - 1 \in 1 .. Len(transcript))
      BY <2>1, <2>4
    <3>2. transcript[i].by = "requester"
      BY <2>1, <3>1
    <3>3. i = 1 \/ transcript[i - 1].by # "requester"
      BY <1>1, <2>2, <3>1, <3>2 DEF AllGiven, Given
    <3> QED
      BY <2>1, <3>1, <3>3
  <2> QED
    BY <2>3, <2>4
<1>6. AtWork(e)' /\ Busy(e)'
  <2>1. Busy(e)' /\ ~Asking(e)' /\ ~Holding(e)' /\ ~Drawing(e)' /\ jobs'[e].op \notin {"record", "promote"}
    BY <1>m DEF Busy, Waits, Asking, Holding, Drawing
  <2>2. CASE OpenSession(e)
    <3>1. status' = "intake" /\ status = "absent" /\ Wait(e, "ack", 0)
      BY <2>2 DEF OpenSession
    <3>2. jobs'[e].op = "ack"
      BY <1>t, <3>1, WaitFits DEF Waits
    <3>3. transcript = <<>>
      BY <3>1 DEF BaseInv, AbsentOK
    <3>4. Asked = 0
      <4>1. QuestionsOf(transcript) = {}
        BY <3>3 DEF QuestionsOf
      <4> QED
        BY <4>1, FS_EmptySet DEF Asked, QuestionsOf
    <3>5. roundCount' = 0
      BY <1>t, <1>m, <3>4
    <3> QED
      BY <1>2, <2>1, <3>1, <3>2, <3>5 DEF AtWork, Published
  <2>3. CASE Reply(e) /\ jobs'[e].count = roundCount /\ jobs'[e].op = IF Published THEN "guide" ELSE "judge"
    <3>1. jobs'[e].op = "judge" => ~Published'
      BY <2>3 DEF Reply, Published
    <3>2. jobs'[e].op # "ack"
      BY <2>3
    <3> QED
      BY <1>m, <1>2, <2>1, <2>3, <3>1, <3>2 DEF AtWork
  <2> QED
    BY <2>2, <2>3
<1> QED
  <2>1. \A f \in Event \ {e} : ~Busy(f) /\ jobs'[f] = jobs[f]
    BY <1>m, <1>1
  <2> QED
    BY <1>m, <1>4, <1>5, <1>6, <2>1, AloneKeeps

(* An event that is passed over, or a step of nobody.                       *)
LEMMA SameInTurn ==
  ASSUME BaseInv, TurnOK, turns, UNCHANGED <<written, thread, session>>, events' \subseteq events,
         \A f \in Event : jobs'[f] = jobs[f] \/ (~Busy(f) /\ ~Busy(f)')
  PROVE  TurnOK'
<1>s. UNCHANGED <<status, roundCount, resumes, transcript>>
  BY DEF session
<1>1. /\ (LastIsOurs' <=> LastIsOurs) /\ (Published' <=> Published) /\ RoundBudget' = RoundBudget
      /\ (Agree' <=> Agree)
  BY <1>s DEF LastIsOurs, Published, RoundBudget, Agree
<1>2. \A f \in Event : Busy(f)' => Busy(f) /\ jobs'[f] = jobs[f]
  BY DEF Busy
<1>3. \A f \in Event : ~Busy(f)' => ~Busy(f)
  BY DEF Busy
<1>4. ASSUME NEW f \in Event, Busy(f)' PROVE AtWork(f)'
  <2>1. Busy(f) /\ jobs'[f] = jobs[f] /\ AtWork(f)
    BY <1>2, <1>4 DEF TurnOK
  <2>2. (Asking(f)' <=> Asking(f)) /\ (Holding(f)' <=> Holding(f)) /\ (Drawing(f)' <=> Drawing(f))
        /\ Said(jobs[f].words, f)' = Said(jobs[f].words, f)
    BY <2>1 DEF Asking, Holding, Drawing, Said
  <2> QED
    BY <1>s, <1>1, <2>1, <2>2 DEF AtWork
<1>5. (\A f \in Event : ~Busy(f)') => AtEase'
  BY <1>1, <1>3 DEF TurnOK, AtEase
<1>6. AllGiven' /\ WithinBudget'
  BY <1>s, SameTranscript DEF TurnOK
<1>7. \A f \in Event : f \in events' \/ Busy(f)' => f[1] = Len(written)'
  BY <1>2 DEF TurnOK
<1> QED
  BY <1>4, <1>5, <1>6, <1>7 DEF TurnOK

(* As long as people take turns, each step leaves one handler in its place. *)
LEMMA TurnStep == ASSUME BaseInv, TurnOK, [Next]_vars PROVE TurnOK'
<1> SUFFICES ASSUME turns' PROVE TurnOK'
  BY DEF TurnOK
<1>1. ASSUME NEW kind \in Kinds, Write(kind) PROVE TurnOK'
  <2>1. /\ turns /\ Quiet /\ UNCHANGED <<thread, jobs, session>>
        /\ written' = Append(written, kind) /\ events' = events \cup EventsOf(Len(written) + 1, kind)
    BY <1>1 DEF Write
  <2>2. events = {} /\ \A f \in Event : ~Busy(f) /\ ~Busy(f)'
    BY <2>1 DEF Quiet, Busy
  <2>3. LastIsOurs /\ Agree /\ AllGiven /\ WithinBudget
    BY <2>1, <2>2 DEF TurnOK, AtEase
  <2>4. AtEase'
    BY <2>1, <2>3 DEF AtEase, LastIsOurs, Agree, session
  <2>5. AllGiven' /\ WithinBudget'
    BY <2>1, <2>3, SameTranscript DEF session
  <2>6. Len(written') = Len(written) + 1
    BY <2>1, AppendProperties DEF BaseInv, TypeOK
  <2>7. \A f \in events' : f[1] = Len(written')
    BY <2>1, <2>2, <2>6 DEF EventsOf
  <2> QED
    BY <2>2, <2>4, <2>5, <2>7 DEF TurnOK
<1>2. ASSUME NEW e \in Event, Deliver(e) PROVE TurnOK'
  <2>1. turns
    BY <1>2 DEF Deliver
  <2>2. CASE PassedOver(e)
    <3>1. ~Busy(e) /\ ~Busy(e)'
      BY <1>2, <2>2 DEF PassedOver, Deliver, Busy, Waits, BaseInv, HandlersOK
    <3>2. \A f \in Event : jobs'[f] = jobs[f] \/ (~Busy(f) /\ ~Busy(f)')
      BY <2>2, <3>1 DEF PassedOver
    <3>3. UNCHANGED <<written, thread, session>> /\ events' \subseteq events
      BY <2>2 DEF PassedOver
    <3> QED
      BY <2>1, <3>2, <3>3, SameInTurn
  <2>3. CASE ~PassedOver(e)
    BY <1>2, <2>1, <2>3, Delivered, TakenUpInTurn
  <2> QED
    BY <2>2, <2>3
<1>3. ASSUME NEW e \in Event, Proceed(e) PROVE TurnOK'
  <2>1. turns
    BY <1>3, ProceedMoved DEF BaseInv, Moved
  <2> QED
    BY <1>3, <2>1, ProceedInTurn
<1>4. CASE UNCHANGED vars
  BY <1>4, SameInTurn DEF vars, slack
<1>5. ASSUME Restart \/ \E e \in Event : Fail(e) PROVE FALSE
  BY <1>5 DEF Restart, Fail
<1> QED
  BY <1>1, <1>2, <1>3, <1>4, <1>5 DEF Next

-----------------------------------------------------------------------------
(* The theorems                                                             *)

(* Nothing is written, and nobody works.                                    *)
LEMMA ThreadInit == ASSUME Init PROVE ThreadInv
<1>t. <<>> \in Seq(Kinds) /\ <<>> \in Seq(Entry) /\ Len(<<>>) = 0 /\ DOMAIN <<>> = {}
  BY EmptySeq
<1>1. Asked = 0
  <2>1. QuestionsOf(transcript) = {}
    BY <1>t DEF Init, QuestionsOf
  <2> QED
    BY <2>1, FS_EmptySet DEF Asked, QuestionsOf
<1>2. Blank \in Job /\ Blank.op = "none" /\ Blank.count = 0
  BY DEF Blank, Job, Words, Waits
<1>3. TypeOK
  <2>1. roundCount \in 0 .. Asked
    BY <1>1 DEF Init
  <2>2. jobs \in [Event -> Job]
    BY <1>2 DEF Init
  <2>3. written \in Seq(Kinds) /\ thread \in Seq(Entry) /\ transcript \in Seq(Entry)
    BY <1>t DEF Init
  <2> QED
    BY <2>1, <2>2, <2>3 DEF Init, TypeOK
<1>4. \A f \in Event : ~Busy(f) /\ jobs[f].count <= Asked /\ jobs[f].op # "record"
  BY <1>1, <1>2 DEF Init, Busy, Waits
<1>5. EventsOK /\ HandlersOK /\ OnceOK /\ AbsentOK
  BY <1>t, <1>4 DEF Init, EventsOK, HandlersOK, OnceOK, AbsentOK
<1>6. Only(<<>>, Ours) = Only(<<>>, Theirs)
  BY OnlyEmpty
<1>7. AtEase
  BY <1>6 DEF Init, AtEase, LastIsOurs, Agree
<1>8. AllGiven
  BY <1>t DEF Init, AllGiven, Given
<1>9. WithinBudget
  <2>1. 0 < MaxRounds * (1 + 0) /\ MaxRounds * (1 + 0) \in Nat
    BY BudgetGrows
  <2>2. RoundBudget = MaxRounds * (1 + 0)
    BY DEF Init, RoundBudget
  <2>3. Asked <= RoundBudget
    BY <1>1, <2>1, <2>2
  <2> QED
    BY <1>1, <2>3 DEF Init, WithinBudget
<1>10. TurnOK
  <2>1. events = {}
    BY DEF Init
  <2> QED
    BY <1>4, <1>7, <1>8, <1>9, <2>1 DEF TurnOK
<1> QED
  BY <1>3, <1>5, <1>10 DEF ThreadInv

(* The handlers take each message up once; and while people take turns, one *)
(* handler at a time is where its way has led it.                            *)
THEOREM ThreadInvariance == Spec => []ThreadInv
<1>1. Init => ThreadInv
  BY ThreadInit
<1>2. ThreadInv /\ [Next]_vars => ThreadInv'
  <2> SUFFICES ASSUME ThreadInv, [Next]_vars PROVE ThreadInv'
    OBVIOUS
  <2>1. BaseInv /\ TurnOK
    BY DEF ThreadInv, BaseInv
  <2>2. BaseInv' /\ TurnOK'
    BY <2>1, BaseStep, TurnStep
  <2> QED
    BY <2>2 DEF ThreadInv, BaseInv
<1> QED
  BY <1>1, <1>2, PTL DEF Spec

(* Types, and that the rounds counted are never more than the rounds asked. *)
THEOREM ThreadTypes == Spec => []TypeOK
BY ThreadInvariance, PTL DEF ThreadInv

(* A message is taken up once, though a mention comes as two events, in     *)
(* either order and at any distance, and whatever else goes on.             *)
THEOREM MessagesOnce == Spec => []EachMessageOnce
<1>1. ThreadInv => EachMessageOnce
  BY OnceIsOnce DEF ThreadInv, BaseInv
<1> QED
  BY <1>1, ThreadInvariance, PTL

(* As long as people take turns with the agent, nobody is overheard, no     *)
(* round is asked beyond the budget, and the transcript is the thread.      *)
THEOREM TurnsAreKept == Spec => []ThreadInTurn
<1>1. ThreadInv => ThreadInTurn
  <2> SUFFICES ASSUME ThreadInv, turns PROVE Heard /\ WithinBudget /\ Recorded
    BY DEF ThreadInTurn
  <2>1. TurnOK
    BY DEF ThreadInv
  <2>2. Heard
    BY <2>1 DEF TurnOK, AllGiven, Heard
  <2>3. Recorded
    <3> SUFFICES ASSUME Quiet PROVE Agree
      BY DEF Recorded, Agree, Ours, Theirs
    <3> QED
      BY <2>1 DEF Quiet, TurnOK, AtEase
  <2> QED
    BY <2>1, <2>2, <2>3 DEF TurnOK
<1> QED
  BY <1>1, ThreadInvariance, PTL

(* In turns, nobody who would reopen a session works on a published one.    *)
LEMMA StandsStep ==
  ASSUME ThreadInv, [Next]_vars, turns', Published
  PROVE  Published'
<1>b. BaseInv /\ TurnOK
  BY DEF ThreadInv, BaseInv
<1>1. CASE UNCHANGED status
  BY <1>1 DEF Published
<1>2. ASSUME NEW e \in Event, Deliver(e) PROVE Published'
  BY <1>1, <1>2 DEF Deliver, HandleMention, HandleThreadReply, OpenSession, Reply, Ignore, session, Published
<1>s. ASSUME NEW e \in Event, NEW ui \in {"unknown", "yes", "no"}, Stage(e, ui, status) \/ Stage(e, ui, "documented")
      PROVE  Published'
  <2>1. status \in {"intake", "clarifying", "documented", "mockup", "closed"}
    BY DEF Published
  <2>2. status' \in {status, "documented", "mockup"}
    BY <1>b, <1>s, <2>1, StageFits DEF BaseInv
  <2> QED
    BY <2>2 DEF Published
<1>3. ASSUME NEW e \in Event, Record(e) PROVE Published'
  <2>1. turns /\ Busy(e) /\ jobs[e].op = "record"
    BY <1>3 DEF Record, Busy, Waits
  <2>2. AtWork(e)
    BY <1>b, <2>1 DEF TurnOK
  <2>3. ~Asking(e) /\ ~Holding(e)
    BY <2>2 DEF AtWork
  <2>4. ~RecordQuestion(e) /\ ~RecordHold(e)
    BY <2>1, <2>3 DEF Asking, Holding, RecordQuestion, RecordHold
  <2>5. isUi \in {"unknown", "yes", "no"}
    BY <1>b DEF BaseInv, TypeOK
  <2>6. RecordGuide(e) \/ RecordMockup(e) \/ RecordDocument(e)
    BY <1>3, <2>4 DEF Record
  <2>7. CASE RecordGuide(e) \/ RecordMockup(e)
    BY <2>7 DEF RecordGuide, RecordMockup, Published
  <2>8. CASE RecordDocument(e)
    <3>1. Stage(e, isUi, "documented") \/ status' = "documented"
      BY <2>8 DEF RecordDocument
    <3> QED
      BY <1>s, <2>5, <3>1 DEF Published
  <2> QED
    BY <2>6, <2>7, <2>8
<1>4. ASSUME NEW e \in Event, Proceed(e) PROVE Published'
  <2>1. CASE Record(e)
    BY <1>3, <2>1
  <2>2. CASE Classified(e)
    BY <1>s, <2>2 DEF Classified
  <2>3. CASE ~Record(e) /\ ~Classified(e)
    <3>1. UNCHANGED status
      BY <1>4, <2>3 DEF Proceed, Acknowledged, Guided, Questioned, Judged, Promoted, Documented, Drawn, session
    <3> QED
      BY <1>1, <3>1
  <2> QED
    BY <2>1, <2>2, <2>3
<1>5. CASE (\E kind \in Kinds : Write(kind)) \/ Restart \/ (\E e \in Event : Fail(e)) \/ UNCHANGED vars
  <2>1. UNCHANGED status
    BY <1>5 DEF Write, Restart, Fail, session, vars
  <2> QED
    BY <1>1, <2>1
<1> QED
  BY <1>2, <1>4, <1>5 DEF Next

(* As long as people take turns, a reply in the thread does not reopen a    *)
(* published document.                                                      *)
THEOREM PublishedStands == Spec => DocumentStands
<1>1. ThreadInv /\ [Next]_vars
        => [turns' /\ status \in {"documented", "mockup"} => status' \in {"documented", "mockup"}]_vars
  BY StandsStep DEF Published
<1> QED
  BY <1>1, ThreadInvariance, PTL DEF Spec, DocumentStands
=============================================================================
