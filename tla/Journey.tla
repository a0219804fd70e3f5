------------------------------ MODULE Journey ------------------------------
(***************************************************************************)
(* A session as the pages that show it see it: what GET /api/sessions/:id  *)
(* tells of it, which requests it takes and how it may move on.  WebIntake *)
(* implements this specification (MCWebIntake checks it); SessionPage puts *)
(* the session page of the web interface in front of it.                    *)
(***************************************************************************)
EXTENDS Naturals

VARIABLES
  status,
  processing,  \* a background operation runs
  pending,     \* pendingRound # null, of a session at rest
  round,       \* the latest clarification round, 0 before the first
  count,       \* session.roundCount
  answered,    \* that round takes no answer any more
  doc,         \* a document exists
  mockup,      \* version of the latest mockup, 0 without one
  open,        \* that mockup still iterates
  decided      \* its theme is chosen or delegated

session == <<status, processing, pending, round, count, answered, doc, mockup, open, decided>>

Statuses == {"absent", "intake", "clarifying", "documented", "mockup", "closed"}
Reviewed == status \in {"documented", "mockup"}

(* What a resting session has pending: a request without questions always,  *)
(* a closed one never, an answered round before the first document always.  *)
Rests ==
  /\ processing' \in BOOLEAN /\ pending' \in BOOLEAN
  /\ processing' => ~pending'
  /\ status' \in {"absent", "closed"} => ~pending'
  /\ ~processing' =>
       /\ status' = "intake" => pending'
       /\ status' = "clarifying" /\ ~answered' => ~pending'
       /\ status' = "clarifying" /\ answered' /\ ~doc' => pending'

Starts == processing' = TRUE /\ pending' = FALSE
Quiet  == UNCHANGED processing /\ pending' \in {FALSE, pending}

(* an utterance of the requester answers the latest round *)
Spoken == answered' = TRUE

Open ==
  /\ status = "absent" /\ status' = "intake"
  /\ Spoken
  /\ UNCHANGED <<round, count, doc, mockup, open, decided>>
  /\ Rests

(* round 0 stands for a reply that names none *)
ReplyTaken(id) == id # 0 => id = round /\ ~answered

(* Beside a document a reply gets the guide, or waits for a retry when its  *)
(* files are refused; any other a judgement.                                *)
Reply(id) ==
  /\ status # "absent" /\ ReplyTaken(id) /\ ~processing
  /\ IF Reviewed THEN UNCHANGED <<status, processing>> /\ pending' \in BOOLEAN
     ELSE Starts /\ status' = IF status = "closed" THEN "clarifying" ELSE status
  /\ Spoken
  /\ UNCHANGED <<round, count, doc, mockup, open, decided>>

Deny ==
  /\ Reviewed /\ ~processing /\ Starts /\ Spoken
  /\ UNCHANGED <<status, round, count, doc, mockup, open, decided>>

Confirm == Reviewed /\ UNCHANGED session

EditDocument ==
  /\ doc /\ Quiet /\ Spoken
  /\ UNCHANGED <<status, round, count, doc, mockup, open, decided>>

InstructDocument ==
  /\ doc /\ ~processing /\ Starts
  /\ UNCHANGED <<status, round, count, answered, doc, mockup, open, decided>>

(* a new mockup is drawn, or the budget is used up *)
Comment ==
  /\ mockup > 0 /\ ~processing /\ Spoken
  /\ \/ Starts /\ UNCHANGED <<status, open>>
     \/ Quiet /\ pending' = FALSE /\ status' = "documented" /\ open' = FALSE
  /\ UNCHANGED <<round, count, doc, mockup, decided>>

Theme ==
  /\ open /\ decided' = TRUE
  /\ Quiet
  /\ UNCHANGED <<status, round, count, answered, doc, mockup, open>>

Approve ==
  /\ open /\ decided /\ ~processing /\ Starts
  /\ UNCHANGED <<status, round, count, answered, doc, mockup, open, decided>>

(* a comment of the mockup stage that was not drawn gets the guide *)
Retry ==
  /\ pending /\ ~processing
  /\ Starts \/ (status = "mockup" /\ Quiet /\ pending' = FALSE)
  /\ UNCHANGED <<status, round, count, answered, doc, mockup, open, decided>>

(* the operation asks, or asks again within a correction *)
Asks ==
  /\ round' = round + 1 /\ count' \in {count, count + 1}
  /\ answered' = FALSE /\ status' = "clarifying" /\ processing' = FALSE
  /\ UNCHANGED <<doc, mockup, open, decided>>

(* ... writes or amends the document, or approves the mockup with it *)
Writes ==
  /\ doc' = TRUE
  /\ \/ doc /\ status' = status
     \/ status' = "documented"
     \/ status' = "mockup" /\ open
  /\ open' \in {open, FALSE} /\ (status' = "mockup" => open')
  /\ answered' \in {answered, TRUE}
  /\ UNCHANGED <<round, count, mockup, decided>>

Draws ==
  /\ doc /\ mockup' = mockup + 1 /\ open' = TRUE /\ decided' = FALSE
  /\ status' \in {status, "mockup"} /\ processing' = FALSE
  /\ UNCHANGED <<round, count, answered, doc>>

Holds ==
  /\ status' = "closed" /\ processing' = FALSE
  /\ UNCHANGED <<round, count, answered, doc, mockup, open, decided>>

(* ... or fails, or ends with nothing to show *)
Ends ==
  /\ processing' = FALSE
  /\ UNCHANGED <<status, round, count, answered, doc, mockup, open, decided>>

Progress ==
  /\ processing
  /\ Asks \/ Writes \/ Draws \/ Holds \/ Ends
  /\ Rests

(* a restart ends every operation *)
Restart == processing /\ Ends /\ Rests

SessionInit ==
  /\ status = "absent" /\ processing = FALSE /\ pending = FALSE
  /\ round = 0 /\ count = 0 /\ answered = FALSE
  /\ doc = FALSE /\ mockup = 0 /\ open = FALSE /\ decided = FALSE

SessionNext ==
  \/ Open \/ (\E id \in 0..round : Reply(id)) \/ Deny \/ Confirm
  \/ EditDocument \/ InstructDocument \/ Comment \/ Theme \/ Approve \/ Retry
  \/ Progress \/ Restart

SessionSpec == SessionInit /\ [][SessionNext]_session
=============================================================================
