---------------------------- MODULE SessionPage ----------------------------
(***************************************************************************)
(* The session page (web-ui/app/s/[id]/page.tsx) in front of a session that *)
(* other tabs and the server's own work move on (Journey): what the         *)
(* requester writes and sends, the page's asynchronous functions, and the   *)
(* requests and answers on their way.                                       *)
(***************************************************************************)
EXTENDS Journey, SessionCards, FiniteSetsExt

CONSTANTS
  MaxFlows,    \* asynchronous functions of the page that run at once
  Scenes       \* the sessions the page is opened on, each with its bounds

ASSUME PageAssumption == MaxFlows \in Nat

(* a page is opened on a session that exists: a request is worked on, the   *)
(* rounds are numbered, and what is drawn has a document                     *)
ASSUME SceneAssumption == \A scene \in Scenes :
  /\ scene.status \in Statuses \ {"absent"}
  /\ scene.processing \in BOOLEAN /\ scene.answered \in BOOLEAN /\ scene.open \in BOOLEAN
  /\ scene.asks \in Seq(Nat \X Firsts) /\ scene.mockup \in Nat
  /\ scene.asks # <<>> => scene.asks[Len(scene.asks)][1] = Len(scene.asks)
  /\ scene.left \in [{"posts", "others", "rounds", "mockups"} -> Nat]
  /\ scene.status = "intake" => scene.processing
  /\ scene.mockup > 0 \/ scene.open => scene.status \in {"documented", "mockup"}

VARIABLES
  asks,    \* per round: its number as counted, and its first question
  page,    \* state of the component SessionPage
  cards,   \* state of the cards it renders
  flows,   \* running calls of act, retry, refetch, ...
  left     \* bounds: requests of the page and of other tabs, rounds, mockups to come

screen == <<page, cards>>
vars == <<session, asks, screen, flows, left>>

FlowIds == 1..MaxFlows

(* what a handler has read of the session while it awaits a body *)
Unread == [status |-> "absent", mockup |-> 0]

Flow == [via: {"none", "boot", "look", "plain", "retry", "act"},
         pc: {"idle", "sent", "body", "taken", "watch", "get"},
         post: [kind: Kinds, id: Nat, words: SUBSET Nat],
         found: [status: Statuses, mockup: Nat],   \* by its handler
         watched: BOOLEAN]       \* it watches the session, and will fetch

Over == [via |-> "none", pc |-> "idle", post |-> NoPost, found |-> Unread, watched |-> FALSE]

(* handleSessionDetail, without the part no card of the stage shows *)
DetailNow ==
  LET bare == [NoDetail EXCEPT !.status = status, !.round = round,
                               !.processing = processing, !.pending = pending]
  IN IF status = "clarifying" /\ round > 0
     THEN [bare EXCEPT !.count = count, !.first = asks[round][2]]
     ELSE IF Reviewed
     THEN [bare EXCEPT !.mockup = mockup, !.open = open, !.decided = decided]
     ELSE bare

----------------------------------------------------------------------------
(* The requester *)

Stay == UNCHANGED <<session, asks, page, flows, left>>

Write(c, i, subject) ==
  /\ Mounted(cards, c)
  /\ cards' = [cards EXCEPT ![c] = Written(@, i, subject)]
  /\ Stay

Answer == \E i \in 1..Asked : Write("wizard", i, page.detail.round)
Resume == Write("hold", 1, 1)
TypeComment == \E c \in {"panel", "archive"} :
  ~Submitting(page) /\ cards[c].seen > 0 /\ Write(c, 1, cards[c].seen)
TypeCorrection == cards["review"].seen > 0 /\ Write("review", 1, cards["review"].seen)

Toggle == \E slot \in SlotNumbers :
  /\ Mounted(cards, "review") /\ ~Submitting(page)
  /\ cards' = [cards EXCEPT !["review"] = Toggled(@, slot)]
  /\ Stay

(* the mockup cards fetch their own state when they are mounted *)
Load == \E c \in {"panel", "archive"} :
  /\ Mounted(cards, c) /\ cards[c].seen = 0
  /\ cards' = [cards EXCEPT ![c].seen = mockup, ![c].decided = decided]
  /\ Stay

Idles == {f \in FlowIds : flows[f].pc = "idle"}

Start(via, pc, post) ==
  /\ Idles # {}
  /\ flows' = [flows EXCEPT ![Min(Idles)] = [Over EXCEPT !.via = via, !.pc = pc, !.post = post]]

(* a control is enabled only when its text is written *)
Ready(post) ==
  /\ 0 \notin post.words
  /\ post.kind = "deny" => cards["review"].seen = post.id
  /\ Mounted(cards, "hold") => Complete(cards["hold"])

(* a confirmation keeps an error on the screen, everything else clears it *)
Send == \E post \in Offers(page, cards) :
  LET via == IF post.kind = "retry" THEN "retry"
             ELSE IF post.kind \in Acts THEN "act" ELSE "plain"
      spent == [c \in Cards |->
                  IF post.kind = "comment" /\ c \in {"panel", "archive"} /\ Mounted(cards, c)
                  THEN Cleared(cards[c]) ELSE cards[c]]
  IN /\ Ready(post) /\ left.posts > 0
     /\ Start(via, "sent", post)
     /\ left' = [left EXCEPT !.posts = @ - 1]
     /\ page' = [page EXCEPT !.busy = @ \/ via = "act", !.error = @ /\ post.kind = "confirm"]
     /\ cards' = Rendered(spent, page')
     /\ UNCHANGED <<session, asks>>

(* the button of the error alert *)
Continue ==
  /\ page.error /\ ~page.notFound
  /\ Start("look", "get", NoPost)
  /\ UNCHANGED <<session, asks, screen, left>>

----------------------------------------------------------------------------
(* The server *)

(* These handlers look at the session when the headers arrive, await the    *)
(* body and judge by what they saw; the others await it first, or have none. *)
Early == {"reply", "deny", "comment"}

Read == [status |-> status, mockup |-> mockup]

(* the refusals before the body: seen is what was read with the headers *)
Awaited(post, seen) ==
  /\ post.kind = "reply" => seen.status \notin {"absent", "documented"}
  /\ post.kind = "comment" => seen.mockup > 0

(* ... and behind it *)
Passes(post, seen) ==
  CASE post.kind = "reply" ->
         /\ ReplyTaken(post.id)
         /\ post.id = 0 => seen.status # "clarifying" \/ round = 0
         /\ ~processing
    [] post.kind = "deny"     -> seen.status = "documented" /\ ~processing
    [] post.kind = "confirm"  -> Reviewed
    [] post.kind = "edit"     -> doc
    [] post.kind = "instruct" -> doc /\ ~processing
    [] post.kind = "comment"  -> post.id = seen.mockup /\ ~processing
    [] post.kind = "theme"    -> open
    [] post.kind = "approve"  -> open /\ decided /\ ~processing
    [] post.kind = "retry"    -> pending /\ ~processing

(* a request whose body comes with its headers *)
Admitted(post) == Awaited(post, Read) /\ Passes(post, Read)

(* a text that is too long does nothing, nor does a denial that passes late, *)
(* when the session asks again                                               *)
Performs(post) ==
  \/ post.kind = "reply"    /\ (Reply(post.id) \/ UNCHANGED session)
  \/ post.kind = "deny"     /\ (Deny \/ UNCHANGED session)
  \/ post.kind = "confirm"  /\ Confirm
  \/ post.kind = "edit"     /\ EditDocument
  \/ post.kind = "instruct" /\ InstructDocument
  \/ post.kind = "comment"  /\ Comment
  \/ post.kind = "theme"    /\ Theme
  \/ post.kind = "approve"  /\ Approve
  \/ post.kind = "retry"    /\ Retry

Receive(f) ==
  /\ flows[f].pc = "sent" /\ flows[f].post.kind \in Early
  /\ Awaited(flows[f].post, Read)
  /\ flows' = [flows EXCEPT ![f].pc = "body", ![f].found = Read]
  /\ UNCHANGED <<session, asks, screen, left>>

Handle(f) ==
  /\ flows[f].pc = IF flows[f].post.kind \in Early THEN "body" ELSE "sent"
  /\ Passes(flows[f].post, flows[f].found)
  /\ Performs(flows[f].post)
  /\ flows' = [flows EXCEPT ![f].pc = "taken", ![f].found = Unread]
  /\ UNCHANGED <<asks, screen, left>>

(* another tab's request: its headers may have come at any earlier stage.  A *)
(* comment on an older mockup does what one on the latest does.              *)
Others ==
  /\ left.others > 0 /\ left' = [left EXCEPT !.others = @ - 1] /\ ~page.notFound
  /\ \E kind \in Kinds \ {"none"}, id \in {0, round, mockup}, stage \in Statuses \ {"absent"} :
       LET post == Post(kind, id, {})
           seen == [status |-> stage, mockup |-> mockup]
       IN Awaited(post, seen) /\ Passes(post, seen) /\ Performs(post)
  /\ UNCHANGED <<asks, screen, flows>>

(* the running operation moves on, or the server restarts *)
Work ==
  /\ Progress \/ Restart
  /\ ~page.notFound
  /\ round' - round <= left.rounds /\ mockup' - mockup <= left.mockups
  /\ left' = [left EXCEPT !.rounds = @ - (round' - round), !.mockups = @ - (mockup' - mockup)]
  /\ IF round' = round THEN UNCHANGED asks
     ELSE \E first \in Firsts : asks' = Append(asks, <<count', first>>)
  /\ UNCHANGED <<screen, flows>>

----------------------------------------------------------------------------
(* The page's asynchronous functions *)

Becomes(f, flow) == flows' = [flows EXCEPT ![f] = flow]

Shows(newpage) ==
  /\ page' = newpage /\ cards' = Rendered(cards, newpage)
  /\ UNCHANGED <<session, asks, left>>

(* mutant: act lets the controls go only when its request was taken *)
Mut_Released(f, newpage) ==
  IF flows[f].via = "act" /\ flows[f].watched THEN [newpage EXCEPT !.busy = FALSE] ELSE newpage

(* the finally of act *)
Released(f, newpage) ==
  IF flows[f].via = "act" THEN [newpage EXCEPT !.busy = FALSE] ELSE newpage

(* watchThenRefetch: a session is watched once *)
Follow(f, newpage) ==
  IF page.watching
  THEN Becomes(f, Over) /\ Shows(Released(f, newpage))
  ELSE /\ Becomes(f, [flows[f] EXCEPT !.pc = "watch", !.post = NoPost, !.watched = TRUE])
       /\ Shows([newpage EXCEPT !.watching = TRUE])

Accepted(f) ==
  /\ flows[f].pc = "taken"
  /\ IF flows[f].via = "plain"
     THEN Becomes(f, [flows[f] EXCEPT !.pc = "get", !.post = NoPost]) /\ Shows(page)
     ELSE Follow(f, page)

(* the request was refused; or it, or its answer, was lost or came too late *)
Rejected(f) ==
  /\ flows[f].pc \in {"sent", "body", "taken"}
  /\ Becomes(f, IF flows[f].via = "plain" THEN Over
                ELSE [flows[f] EXCEPT !.pc = "get", !.post = NoPost, !.found = Unread])
  /\ Shows([page EXCEPT !.error = TRUE])

(* watchProcessing hears that the work is over, or gives up after 180 s *)
WatchEnds(f) ==
  /\ flows[f].pc = "watch"
  /\ Becomes(f, [flows[f] EXCEPT !.pc = "get"])
  /\ Shows(page)

(* what the caller of refetch does after it *)
Refetched(f, newpage) ==
  IF flows[f].via = "boot" /\ ~flows[f].watched /\ ~newpage.notFound /\ newpage.detail.processing
  THEN Follow(f, newpage)
  ELSE /\ Becomes(f, Over)
       /\ Shows(Released(f, [newpage EXCEPT !.watching = @ /\ ~flows[f].watched]))

(* refetch: any error is taken for a session that does not exist *)
Arrive(f) ==
  /\ flows[f].pc = "get"
  /\ \/ Refetched(f, [page EXCEPT !.detail = DetailNow])
     \/ Refetched(f, [page EXCEPT !.notFound = TRUE])

Resumes(f) == Accepted(f) \/ Rejected(f) \/ WatchEnds(f) \/ Arrive(f)

----------------------------------------------------------------------------
(* the page is opened: it fetches the session first *)
Init ==
  /\ \E scene \in Scenes :
       /\ status = scene.status /\ processing = scene.processing /\ pending = FALSE
       /\ asks = scene.asks /\ round = Len(scene.asks) /\ count = round
       /\ answered = scene.answered /\ doc = (status \in {"documented", "mockup"})
       /\ mockup = scene.mockup /\ open = scene.open /\ decided = FALSE
       /\ left = scene.left
  /\ page = [detail |-> NoDetail, notFound |-> FALSE, busy |-> FALSE, error |-> FALSE, watching |-> FALSE]
  /\ cards = [c \in Cards |-> Unmounted]
  /\ flows = [f \in FlowIds |->
                IF f = 1 THEN [Over EXCEPT !.via = "boot", !.pc = "get"] ELSE Over]

Requester == Answer \/ Resume \/ TypeComment \/ TypeCorrection \/ Toggle \/ Load \/ Send \/ Continue

Next ==
  \/ Requester \/ Others \/ Work
  \/ \E f \in FlowIds : Receive(f) \/ Handle(f) \/ Resumes(f)

Spec == Init /\ [][Next]_vars

(* fetch and watchProcessing have time limits, and the page's event loop    *)
(* runs every continuation                                                   *)
FairSpec == Spec /\ \A f \in FlowIds : WF_vars(Resumes(f))

----------------------------------------------------------------------------
(* Properties *)

TypeOK ==
  /\ status \in Statuses /\ {processing, pending, answered, doc, open, decided} \subseteq BOOLEAN
  /\ {round, count, mockup} \subseteq Nat
  /\ left \in [{"posts", "others", "rounds", "mockups"} -> Nat]
  /\ asks \in Seq(Nat \X Firsts) /\ Len(asks) = round
  /\ page \in Page /\ (\A c \in Cards : IsCard(cards[c])) /\ flows \in [FlowIds -> Flow]

Settled == Idles = FlowIds
(* the screen shows the session as it is *)
UpToDate ==
  /\ Settled /\ ~page.notFound /\ page.detail = DetailNow
  /\ \A c \in {"panel", "archive"} :
       Mounted(cards, c) => cards[c].seen = mockup /\ cards[c].decided = decided

(* WebIntake: a correction that ends with nothing to ask, and no retry *)
Stuck == status = "clarifying" /\ answered /\ ~pending

(* Types; and the controls are locked exactly while one call of act runs,   *)
(* from its click to the refetch behind it, and the session is watched by   *)
(* one of its functions at most: no double submit, no lock that is left     *)
(* behind (page.tsx act, setBusy, watchThenRefetch).                         *)
BusyIsExact ==
  /\ TypeOK
  /\ Cardinality({f \in FlowIds : flows[f].via = "act"}) = IF page.busy THEN 1 ELSE 0
  /\ Cardinality({f \in FlowIds : flows[f].watched}) = IF page.watching THEN 1 ELSE 0

(* Whatever an up-to-date screen offers, the server takes if nothing happens *)
(* before the request is there: page and server judge by the same rounds,   *)
(* versions and statuses.  Two offers are known to be refused: a correction *)
(* in the mockup stage (OfferedCorrectionIsTaken) and the answered round of *)
(* a stuck session.                                                          *)
OffersAreTaken ==
  UpToDate /\ ~Stuck =>
    \A post \in Offers(page, cards) :
      Admitted(post) \/ (post.kind = "deny" /\ status = "mockup")

(* ... and offers something whenever the session rests: a dead round shows  *)
(* its retry, a hold its resumption, a question its answer (P-U2).          *)
WayForward ==
  UpToDate /\ ~processing /\ ~Stuck => \E post \in Offers(page, cards) : Admitted(post)

(* Words that the server takes are about what it takes them for: an answer's *)
(* about questions of the number and the beginning of those that are open,  *)
(* a correction's about its slot -- whatever was replaced under the          *)
(* requester's hands (key of QuestionWizard, stale_round).  A comment's are  *)
(* about the mockup that was the latest when its headers arrived; by the    *)
(* time its body does another may be, where the code files it all the same. *)
WordsMeetTheirSubject ==
  [][\A f \in FlowIds : flows[f].pc # "taken" /\ flows'[f].pc = "taken" =>
       LET post == flows[f].post
       IN \A subject \in post.words :
            /\ post.kind = "reply" => asks[subject] = asks[round]
            /\ post.kind = "deny" => subject = post.id
            /\ post.kind = "comment" => subject = flows[f].found.mockup]_vars

(* The lock of a request is always released, whatever is lost on the way.   *)
BusyEnds == page.busy ~> ~page.busy

(* "목업을 보다 슬롯 값의 오류를 발견할 수 있다 — 정정 진입점 유지" (page.tsx): a   *)
(* correction offered beside the mockup can be sent.                        *)
OfferedCorrectionIsTaken ==
  UpToDate => \A post \in Offers(page, cards) : post.kind = "deny" => Admitted(post)
=============================================================================
