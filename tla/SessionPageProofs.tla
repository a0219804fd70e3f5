------------------------- MODULE SessionPageProofs -------------------------
(***************************************************************************)
(* Theorems about the session page in front of a session that others move  *)
(* on: its lock, what it offers, and where the requester's words go.        *)
(***************************************************************************)
EXTENDS SessionPage, ListsProofs, FiniteSetTheorems

-----------------------------------------------------------------------------
(* The session: it exists, a request without questions is worked on or has  *)
(* a retry, and what is published or drawn has a document.                  *)
SessionOK ==
  /\ status \in Statuses \ {"absent"}
  /\ processing \in BOOLEAN /\ pending \in BOOLEAN /\ answered \in BOOLEAN
  /\ doc \in BOOLEAN /\ open \in BOOLEAN /\ decided \in BOOLEAN
  /\ round \in Nat /\ count \in Nat /\ mockup \in Nat
  /\ Reviewed \/ mockup > 0 \/ open => doc
  /\ status = "intake" => ~doc /\ (processing \/ pending)

AsksOK ==
  /\ asks \in Seq(Nat \X Firsts) /\ Len(asks) = round
  /\ round > 0 => asks[round][1] = count
LeftOK == left \in [{"posts", "others", "rounds", "mockups"} -> Nat]

(* The flows: an idle one is nobody's, a request is not yet watched, and    *)
(* the page is locked, or watches, for one of them.                         *)
OnlyOne(flag, S) == IF flag THEN \E f \in S : \A g \in S : g = f ELSE S = {}

ActFlows   == {f \in FlowIds : flows[f].via = "act"}
WatchFlows == {f \in FlowIds : flows[f].watched}

FlowsOK ==
  /\ flows \in [FlowIds -> Flow]
  /\ \A f \in FlowIds :
       /\ flows[f].pc = "idle" => flows[f].via # "act"
       /\ flows[f].watched => flows[f].pc \in {"watch", "get"}
  /\ OnlyOne(page.busy, ActFlows)
  /\ OnlyOne(page.watching, WatchFlows)

(* The screen: its round is one that was asked, as it was asked.            *)
DetailOK ==
  /\ page \in Page
  /\ page.detail.round \in 0 .. Len(asks)
  /\ page.detail.status = "clarifying" =>
       IF page.detail.round > 0
       THEN asks[page.detail.round] = <<page.detail.count, page.detail.first>>
       ELSE page.detail.first = "none"

(* A card is what its place, its key and its words make it.                 *)
CardsOf(keys) == [key : keys, seen : Nat, decided : BOOLEAN, words : Seq(Nat)]

(* Words of the wizard are about a round with its key, those of the mockup  *)
(* and review cards about what they show.                                    *)
About(c, card, subject) ==
  \/ subject = 0
  \/ c = "wizard" /\ subject \in 1 .. Len(asks) /\ asks[subject] = card.key
  \/ c \in {"panel", "archive", "review"} /\ subject = card.seen
  \/ c = "hold"

FitCard(c, card) ==
  /\ card \in CardsOf({card.key})
  /\ Len(card.key) \in 0 .. 2
  /\ Len(card.words) \in {0, 1, Asked} /\ (c # "wizard" => Len(card.words) <= 1)
  /\ \A i \in DOMAIN card.words : About(c, card, card.words[i])

InPlace(c) ==
  IF c \in Shown(page) THEN cards[c].key = Key(c, page.detail) ELSE cards[c] = Unmounted

CardsOK ==
  /\ cards = [c \in Cards |-> cards[c]]
  /\ \A c \in Cards : FitCard(c, cards[c]) /\ InPlace(c)

(* A request under way: its words are about what it names.                  *)
Asking == {"sent", "body"}

SentOK ==
  \A f \in FlowIds : flows[f].pc \in Asking =>
    LET post == flows[f].post
    IN /\ post.kind = "reply" =>
            \A s \in post.words :
              s \in 1 .. Len(asks) /\ post.id \in 1 .. Len(asks) /\ asks[s] = asks[post.id]
       /\ post.kind \in {"comment", "deny"} => \A s \in post.words : s = post.id

ScreenInv == SessionOK /\ AsksOK /\ LeftOK /\ FlowsOK /\ DetailOK /\ CardsOK /\ SentOK

-----------------------------------------------------------------------------
(* The session.  No request asks a round; the operation at work may.         *)

(* A request the server performs keeps what is known of the session.        *)
LEMMA PerformedKeeps ==
  ASSUME SessionOK, NEW post, Performs(post)
  PROVE  SessionOK' /\ round' = round /\ count' = count /\ mockup' = mockup
<1>1. CASE Reply(post.id)
  BY <1>1 DEF SessionOK, Reply, Starts, Spoken, Reviewed, Statuses
<1>2. CASE Deny
  BY <1>2 DEF SessionOK, Deny, Starts, Spoken, Reviewed, Statuses
<1>3. CASE Confirm
  BY <1>3 DEF SessionOK, Confirm, session, Reviewed
<1>4. CASE EditDocument
  BY <1>4 DEF SessionOK, EditDocument, Quiet, Spoken, Reviewed
<1>5. CASE InstructDocument
  BY <1>5 DEF SessionOK, InstructDocument, Starts, Reviewed
<1>6. CASE Comment
  BY <1>6 DEF SessionOK, Comment, Starts, Quiet, Spoken, Reviewed, Statuses
<1>7. CASE Theme
  BY <1>7 DEF SessionOK, Theme, Quiet, Reviewed
<1>8. CASE Approve
  BY <1>8 DEF SessionOK, Approve, Starts, Reviewed
<1>9. CASE Retry
  BY <1>9 DEF SessionOK, Retry, Starts, Quiet, Reviewed
<1>10. CASE UNCHANGED session
  BY <1>10 DEF SessionOK, session, Reviewed
<1> QED
  BY <1>1, <1>2, <1>3, <1>4, <1>5, <1>6, <1>7, <1>8, <1>9, <1>10 DEF Performs

(* So does the operation at work, and a restart; a round they ask is the    *)
(* next one.                                                                *)
LEMMA WorkedKeeps ==
  ASSUME SessionOK, Progress \/ Restart
  PROVE  /\ SessionOK'
         /\ (round' = round /\ count' = count) \/ round' = round + 1
         /\ mockup' \in {mockup, mockup + 1}
<1>1. processing' \in BOOLEAN /\ pending' \in BOOLEAN
  BY DEF Progress, Restart, Rests
<1>2. CASE Asks
  <2>1. round' = round + 1 /\ round' \in Nat /\ count' \in Nat /\ mockup' = mockup
    BY <1>2 DEF SessionOK, Asks
  <2>2. /\ processing' \in BOOLEAN /\ pending' \in BOOLEAN /\ answered' \in BOOLEAN
        /\ doc' = doc /\ open' = open /\ decided' = decided
        /\ status' = "clarifying"
    BY <1>1, <1>2 DEF Asks
  <2> QED
    BY <2>1, <2>2 DEF SessionOK, Reviewed, Statuses
<1>3. CASE Writes
  BY <1>1, <1>3 DEF SessionOK, Writes, Reviewed, Statuses
<1>4. CASE Draws
  <2>1. round' = round /\ count' = count /\ mockup' = mockup + 1 /\ mockup' \in Nat
    BY <1>4 DEF SessionOK, Draws
  <2>2. /\ processing' \in BOOLEAN /\ pending' \in BOOLEAN /\ answered' = answered
        /\ doc /\ doc' = doc /\ open' \in BOOLEAN /\ decided' \in BOOLEAN
        /\ status' = status \/ status' = "mockup"
    BY <1>1, <1>4 DEF Draws
  <2> QED
    BY <2>1, <2>2 DEF SessionOK, Reviewed, Statuses
<1>5. CASE Holds
  BY <1>1, <1>5 DEF SessionOK, Holds, Reviewed, Statuses
<1>6. CASE Ends /\ Rests
  BY <1>1, <1>6 DEF SessionOK, Ends, Rests, Reviewed
<1> QED
  BY <1>2, <1>3, <1>4, <1>5, <1>6 DEF Progress, Restart

(* What was asked stays asked, under its number.                            *)
Grown ==
  /\ Len(asks) <= Len(asks')
  /\ \A i \in 1 .. Len(asks) : asks'[i] = asks[i]

(* Steps of the session: the page is as it was.                             *)
Away ==
  /\ SessionOK' /\ AsksOK' /\ LeftOK' /\ Grown
  /\ UNCHANGED screen

(* A handler that begins to await a body changes nothing of the session.    *)
LEMMA ReceiveIsAway ==
  ASSUME ScreenInv, NEW f \in FlowIds, Receive(f)
  PROVE  Away
<1>1. UNCHANGED <<session, asks, left, screen>>
  BY DEF Receive
<1>2. SessionOK'
  BY <1>1 DEF session, ScreenInv, SessionOK, Reviewed
<1>3. AsksOK' /\ LeftOK' /\ Grown
  BY <1>1 DEF session, ScreenInv, AsksOK, LeftOK, Grown
<1> QED
  BY <1>1, <1>2, <1>3 DEF Away

(* The server performs a request of the page: no row of the page's moves.   *)
LEMMA HandleIsAway ==
  ASSUME ScreenInv, NEW f \in FlowIds, Handle(f)
  PROVE  Away
<1>1. SessionOK' /\ round' = round /\ count' = count
  BY PerformedKeeps DEF Handle, ScreenInv
<1>2. asks' = asks /\ left' = left /\ UNCHANGED screen
  BY DEF Handle
<1> QED
  BY <1>1, <1>2 DEF Away, Grown, ScreenInv, AsksOK, LeftOK

(* Another tab's request, likewise.                                         *)
LEMMA OthersAreAway ==
  ASSUME ScreenInv, Others
  PROVE  Away
<1>1. SessionOK' /\ round' = round /\ count' = count
  <2>1. PICK kind \in Kinds \ {"none"}, id \in {0, round, mockup} : Performs(Post(kind, id, {}))
    BY DEF Others
  <2> QED
    BY <2>1, PerformedKeeps DEF ScreenInv
<1>2. asks' = asks /\ left' = [left EXCEPT !.others = @ - 1] /\ left.others > 0 /\ UNCHANGED screen
  BY DEF Others
<1>3. LeftOK'
  BY <1>2 DEF ScreenInv, LeftOK
<1> QED
  BY <1>1, <1>2, <1>3 DEF Away, Grown, ScreenInv, AsksOK

(* The operation at work may ask one round more, which is counted and kept. *)
LEMMA WorkIsAway ==
  ASSUME ScreenInv, Work
  PROVE  Away
<1>1. /\ SessionOK'
      /\ (round' = round /\ count' = count) \/ round' = round + 1
      /\ mockup' \in {mockup, mockup + 1}
  BY WorkedKeeps DEF Work, ScreenInv
<1>2. round \in Nat /\ mockup \in Nat /\ count' \in Nat /\ SessionOK
  BY <1>1 DEF ScreenInv, SessionOK
<1>3. LeftOK'
  <2>1. /\ round' - round <= left.rounds /\ mockup' - mockup <= left.mockups
        /\ left' = [left EXCEPT !.rounds = @ - (round' - round), !.mockups = @ - (mockup' - mockup)]
        /\ left \in [{"posts", "others", "rounds", "mockups"} -> Nat]
    BY DEF Work, ScreenInv, LeftOK
  <2>2. round' \in {round, round + 1} /\ mockup' \in {mockup, mockup + 1}
    BY <1>1
  <2> DEFINE asked == round' - round
             drawn == mockup' - mockup
  <2>3. asked \in Nat /\ drawn \in Nat
    <3>1. asked = 0 \/ asked = 1
      <4>1. CASE round' = round
        BY <1>2, <4>1
      <4>2. CASE round' = round + 1
        BY <1>2, <4>2
      <4> QED
        BY <2>2, <4>1, <4>2
    <3>2. drawn = 0 \/ drawn = 1
      <4>1. CASE mockup' = mockup
        BY <1>2, <4>1
      <4>2. CASE mockup' = mockup + 1
        BY <1>2, <4>2
      <4> QED
        BY <2>2, <4>1, <4>2
    <3> QED
      BY <3>1, <3>2
  <2> HIDE DEF asked, drawn
  <2>4. left.rounds \in Nat /\ left.mockups \in Nat
    BY <2>1
  <2>5. left.rounds - asked \in Nat /\ left.mockups - drawn \in Nat
    BY <2>1, <2>3, <2>4 DEF asked, drawn
  <2>6. left' = [left EXCEPT !.rounds = left.rounds - asked, !.mockups = left.mockups - drawn]
    BY <2>1 DEF asked, drawn
  <2> QED
    BY <2>1, <2>5, <2>6 DEF LeftOK
<1>4. AsksOK' /\ Grown
  <2>1. /\ asks \in Seq(Nat \X Firsts) /\ Len(asks) = round
        /\ round > 0 => asks[round][1] = count
    BY DEF ScreenInv, AsksOK
  <2>2. CASE round' = round
    <3>1. asks' = asks /\ count' = count
      BY <1>1, <1>2, <2>2 DEF Work
    <3> QED
      BY <2>1, <2>2, <3>1 DEF AsksOK, Grown
  <2>3. CASE round' # round
    <3>1. PICK first \in Firsts : asks' = Append(asks, <<count', first>>)
      BY <2>3 DEF Work
    <3>2. <<count', first>> \in Nat \X Firsts
      BY <1>2
    <3>3. /\ asks' \in Seq(Nat \X Firsts) /\ Len(asks') = Len(asks) + 1
          /\ \A i \in 1 .. Len(asks) : asks'[i] = asks[i]
          /\ asks'[Len(asks) + 1] = <<count', first>>
      BY <2>1, <3>1, <3>2, AppendProperties
    <3>4. round' = round + 1
      BY <1>1, <2>3
    <3> QED
      BY <1>2, <2>1, <3>3, <3>4 DEF AsksOK, Grown
  <2> QED
    BY <2>2, <2>3
<1>5. UNCHANGED screen
  BY DEF Work
<1> QED
  BY <1>1, <1>3, <1>4, <1>5 DEF Away

(* What the screen and the requests say of the rounds, they say of the      *)
(* rounds there are: all of it stands when rounds are added.                *)
LEMMA GrownKeeps ==
  ASSUME ScreenInv, AsksOK', Grown, UNCHANGED screen
  PROVE  DetailOK' /\ CardsOK'
<1>1. page' = page /\ cards' = cards
  BY DEF screen
<1>2. /\ Len(asks) \in Nat /\ Len(asks') \in Nat /\ Len(asks) <= Len(asks')
      /\ \A i \in 1 .. Len(asks) : i \in 1 .. Len(asks') /\ asks'[i] = asks[i]
  <2>1. asks \in Seq(Nat \X Firsts) /\ asks' \in Seq(Nat \X Firsts)
    BY DEF ScreenInv, AsksOK
  <2>2. Len(asks) \in Nat /\ Len(asks') \in Nat
    BY <2>1
  <2> QED
    BY <2>2 DEF Grown
<1>3. DetailOK'
  <2>1. page.detail.round \in 0 .. Len(asks) /\ page.detail.round \in 0 .. Len(asks')
    BY <1>2 DEF ScreenInv, DetailOK
  <2>2. page.detail.round > 0 => asks'[page.detail.round] = asks[page.detail.round]
    BY <1>2, <2>1
  <2> QED
    BY <1>1, <2>1, <2>2 DEF ScreenInv, DetailOK
<1>4. CardsOK'
  <2>1. ASSUME NEW c \in Cards PROVE FitCard(c, cards[c])'
    <3>1. FitCard(c, cards[c])
      BY DEF ScreenInv, CardsOK
    <3>2. \A i \in DOMAIN cards[c].words :
            About(c, cards[c], cards[c].words[i]) => About(c, cards[c], cards[c].words[i])'
      BY <1>1, <1>2 DEF About
    <3> QED
      BY <1>1, <3>1, <3>2 DEF FitCard
  <2>2. ASSUME NEW c \in Cards PROVE InPlace(c)'
    BY <1>1 DEF ScreenInv, CardsOK, InPlace
  <2> QED
    BY <1>1, <2>1, <2>2 DEF ScreenInv, CardsOK
<1> QED
  BY <1>3, <1>4

(* A flow that goes on as it was, or whose request the server reads or takes. *)
GoesOn(f) ==
  /\ flows'[f].via = flows[f].via /\ flows'[f].watched = flows[f].watched
  /\ flows'[f].post = flows[f].post
  /\ \/ flows'[f].pc = flows[f].pc
     \/ flows[f].pc \in Asking /\ flows'[f].pc \in {"body", "taken"}

(* Behind the page's back its invariant holds: nothing it shows is taken back. *)
LEMMA GoingOnHolds ==
  ASSUME ScreenInv, Away, flows' \in [FlowIds -> Flow], \A f \in FlowIds : GoesOn(f)
  PROVE  ScreenInv'
<1>1. SessionOK' /\ AsksOK' /\ LeftOK' /\ DetailOK' /\ CardsOK'
  BY GrownKeeps DEF Away
<1>2. FlowsOK'
  <2>1. page' = page
    BY DEF Away, screen
  <2>2. ActFlows' = ActFlows
    BY DEF ActFlows, GoesOn
  <2>3. WatchFlows' = WatchFlows
    BY DEF WatchFlows, GoesOn
  <2>4. OnlyOne(page.busy, ActFlows)' /\ OnlyOne(page.watching, WatchFlows)'
    BY <2>1, <2>2, <2>3 DEF OnlyOne, ScreenInv, FlowsOK
  <2>5. ASSUME NEW f \in FlowIds
        PROVE  /\ flows'[f].pc = "idle" => flows'[f].via # "act"
               /\ flows'[f].watched => flows'[f].pc \in {"watch", "get"}
    BY DEF GoesOn, ScreenInv, FlowsOK, Asking
  <2> QED
    BY <2>4, <2>5 DEF FlowsOK
<1>3. SentOK'
  <2> SUFFICES ASSUME NEW f \in FlowIds, flows'[f].pc \in Asking
               PROVE  LET post == flows'[f].post
                      IN /\ post.kind = "reply" =>
                              \A s \in post.words :
                                /\ s \in 1 .. Len(asks') /\ post.id \in 1 .. Len(asks')
                                /\ asks'[s] = asks'[post.id]
                         /\ post.kind \in {"comment", "deny"} => \A s \in post.words : s = post.id
    BY DEF SentOK
  <2>1. flows[f].pc \in Asking /\ flows'[f].post = flows[f].post
    BY DEF GoesOn
  <2>2. \A i \in 1 .. Len(asks) : i \in 1 .. Len(asks') /\ asks'[i] = asks[i]
    <3>1. asks \in Seq(Nat \X Firsts) /\ asks' \in Seq(Nat \X Firsts)
      BY DEF ScreenInv, AsksOK, Away
    <3>2. Len(asks) \in Nat /\ Len(asks') \in Nat
      BY <3>1
    <3> QED
      BY <3>2 DEF Away, Grown
  <2> QED
    BY <2>1, <2>2 DEF ScreenInv, SentOK
<1> QED
  BY <1>1, <1>2, <1>3 DEF ScreenInv

(* A handler that awaits nothing has found nothing.                         *)
LEMMA UnreadIsFound == Unread \in [status : Statuses, mockup : Nat]
  BY DEF Unread, Statuses

(* Every step of the server and of other tabs is of that kind.              *)
LEMMA ServerHolds ==
  ASSUME ScreenInv, Others \/ Work \/ \E f \in FlowIds : Receive(f) \/ Handle(f)
  PROVE  ScreenInv'
<1>1. CASE Others \/ Work
  <2>1. Away
    BY <1>1, OthersAreAway, WorkIsAway
  <2>2. flows' = flows
    BY <1>1 DEF Others, Work
  <2> QED
    BY <2>1, <2>2, GoingOnHolds DEF GoesOn, ScreenInv, FlowsOK
<1>2. ASSUME NEW f \in FlowIds, Handle(f) PROVE ScreenInv'
  <2>1. Away
    BY <1>2, HandleIsAway
  <2>2. /\ flows[f].pc \in Asking /\ flows \in [FlowIds -> Flow]
        /\ flows' = [flows EXCEPT ![f].pc = "taken", ![f].found = Unread]
    BY <1>2 DEF Handle, ScreenInv, FlowsOK, Asking
  <2>3. flows' \in [FlowIds -> Flow] /\ \A g \in FlowIds : GoesOn(g)
    BY <2>2, UnreadIsFound DEF Flow, GoesOn
  <2> QED
    BY <2>1, <2>3, GoingOnHolds
<1>3. ASSUME NEW f \in FlowIds, Receive(f) PROVE ScreenInv'
  <2>1. Away
    BY <1>3, ReceiveIsAway
  <2>2. /\ flows[f].pc \in Asking /\ flows \in [FlowIds -> Flow]
        /\ flows' = [flows EXCEPT ![f].pc = "body", ![f].found = Read]
    BY <1>3 DEF Receive, ScreenInv, FlowsOK, Asking
  <2>3. Read \in [status : Statuses, mockup : Nat]
    BY DEF Read, ScreenInv, SessionOK
  <2> HIDE DEF Read
  <2>4. flows' \in [FlowIds -> Flow] /\ \A g \in FlowIds : GoesOn(g)
    BY <2>2, <2>3 DEF Flow, GoesOn
  <2> QED
    BY <2>1, <2>4, GoingOnHolds
<1> QED
  BY <1>1, <1>2, <1>3

-----------------------------------------------------------------------------
(* The cards.  What the requester writes is about what the card is about.   *)

(* A card stays what it is when words about its own subject are written on it. *)
LEMMA WrittenFits ==
  ASSUME NEW c \in Cards, NEW card, FitCard(c, card), NEW i, NEW subject \in Nat,
         About(c, card, subject)
  PROVE  FitCard(c, Written(card, i, subject)) /\ Written(card, i, subject).key = card.key
<1> DEFINE now == Written(card, i, subject)
<1>1. card \in CardsOf({card.key}) /\ card.words \in Seq(Nat)
  BY DEF FitCard, CardsOf
<1>2. /\ now \in CardsOf({card.key}) /\ now.key = card.key /\ now.seen = card.seen
      /\ now.decided = card.decided
      /\ now.words = [card.words EXCEPT ![i] = subject]
  <2>1. [card.words EXCEPT ![i] = subject] \in Seq(Nat)
    <3>1. Len(card.words) \in Nat /\ card.words \in [1 .. Len(card.words) -> Nat]
      BY <1>1, LenProperties
    <3>2. [card.words EXCEPT ![i] = subject] \in [1 .. Len(card.words) -> Nat]
      BY <3>1
    <3> QED
      BY <3>1, <3>2, SeqDef
  <2> QED
    BY <1>1, <2>1 DEF Written, CardsOf
<1>3. Len(now.words) = Len(card.words) /\ DOMAIN now.words = DOMAIN card.words
  BY <1>1, <1>2
<1>4. \A j \in DOMAIN now.words : About(c, now, now.words[j])
  <2>1. \A s : About(c, card, s) => About(c, now, s)
    BY <1>2 DEF About
  <2>2. \A j \in DOMAIN now.words : now.words[j] = subject \/ now.words[j] = card.words[j]
    BY <1>1, <1>2
  <2> QED
    BY <1>3, <2>1, <2>2 DEF FitCard
<1> HIDE DEF now
<1>5. FitCard(c, now)
  BY <1>2, <1>3, <1>4 DEF FitCard
<1> QED
  BY <1>2, <1>5 DEF now

(* A card stays what it is when its text is cleared.                        *)
LEMMA ClearedFits ==
  ASSUME NEW c \in Cards, NEW card, FitCard(c, card)
  PROVE  FitCard(c, Cleared(card)) /\ Cleared(card).key = card.key
<1>1. Cleared(card) = Written(card, 1, 0)
  BY DEF Cleared, Written
<1> QED
  BY <1>1, WrittenFits DEF About

(* Where one slot's text was written nothing is left of it for another.     *)
LEMMA ToggledFits ==
  ASSUME NEW card, FitCard("review", card), NEW slot \in SlotNumbers
  PROVE  FitCard("review", Toggled(card, slot)) /\ Toggled(card, slot).key = card.key
<1> DEFINE blank == Cleared(card)
           now == Toggled(card, slot)
<1>1. FitCard("review", blank) /\ blank.key = card.key
  BY ClearedFits DEF Cards
<1>2. \A i \in DOMAIN blank.words : blank.words[i] = 0
  <2>1. card.words \in Seq(Nat) /\ Len(card.words) <= 1 /\ Len(card.words) \in Nat
    BY DEF FitCard, CardsOf
  <2>2. blank.words = [card.words EXCEPT ![1] = 0]
    BY DEF Cleared, FitCard, CardsOf
  <2>3. \A i \in DOMAIN card.words : i = 1
    BY <2>1
  <2> QED
    BY <2>1, <2>2, <2>3
<1> HIDE DEF blank
<1>3. /\ now.key = blank.key /\ now.words = blank.words
      /\ now \in CardsOf({blank.key})
  <2>1. slot \in Nat
    BY CardAssumption
  <2>2. now = [blank EXCEPT !.seen = IF blank.seen = slot THEN 0 ELSE slot]
    BY DEF Toggled, blank
  <2> QED
    BY <1>1, <2>1, <2>2 DEF FitCard, CardsOf
<1> HIDE DEF now
<1>4. FitCard("review", now) /\ now.key = card.key
  BY <1>1, <1>2, <1>3 DEF FitCard, About
<1> QED
  BY <1>4 DEF now

(* A card of the screen is another as long as its key is not.               *)
LEMMA MountedIsShown ==
  ASSUME ScreenInv, NEW c \in Cards
  PROVE  Mounted(cards, c) <=> c \in Shown(page)
<1>1. InPlace(c)
  BY DEF ScreenInv, CardsOK
<1>2. Key(c, page.detail) # <<>>
  BY DEF Key, Cards
<1>3. Unmounted.key = <<>>
  BY DEF Unmounted
<1> QED
  BY <1>1, <1>2, <1>3 DEF InPlace, Mounted

(* One card that is shown changes under its key: the invariant holds.       *)
LEMMA CardChanges ==
  ASSUME ScreenInv, NEW c \in Cards, Mounted(cards, c),
         NEW card, FitCard(c, card), card.key = cards[c].key,
         cards' = [cards EXCEPT ![c] = card], Stay
  PROVE  ScreenInv'
<1>1. page' = page /\ asks' = asks /\ flows' = flows /\ left' = left /\ UNCHANGED session
  BY DEF Stay
<1>2. c \in Shown(page)
  BY MountedIsShown
<1>3. CardsOK'
  <2>1. cards = [d \in Cards |-> cards[d]]
    BY DEF ScreenInv, CardsOK
  <2>2. /\ cards' = [d \in Cards |-> cards'[d]]
        /\ cards'[c] = card /\ \A d \in Cards : d # c => cards'[d] = cards[d]
    BY <2>1
  <2>3. ASSUME NEW d \in Cards PROVE FitCard(d, cards[d])' /\ InPlace(d)'
    <3>2. FitCard(d, cards[d]) /\ InPlace(d)
      BY DEF ScreenInv, CardsOK
    <3>3. CASE d = c
      BY <1>1, <1>2, <2>2, <3>2, <3>3 DEF FitCard, About, InPlace
    <3>4. CASE d # c
      BY <1>1, <2>2, <3>2, <3>4 DEF FitCard, About, InPlace
    <3> QED
      BY <3>3, <3>4
  <2> QED
    BY <2>2, <2>3 DEF CardsOK
<1>4. SessionOK' /\ AsksOK' /\ LeftOK' /\ DetailOK'
  BY <1>1 DEF session, ScreenInv, SessionOK, AsksOK, LeftOK, DetailOK, Reviewed
<1>5. FlowsOK' /\ SentOK'
  <2>1. ActFlows' = ActFlows /\ WatchFlows' = WatchFlows
    BY <1>1 DEF ActFlows, WatchFlows
  <2> QED
    BY <1>1, <2>1 DEF ScreenInv, FlowsOK, SentOK, OnlyOne
<1> QED
  BY <1>3, <1>4, <1>5 DEF ScreenInv

(* Whatever the requester types, opens or closes keeps the invariant.       *)
LEMMA WritingHolds ==
  ASSUME ScreenInv,
         Answer \/ Resume \/ TypeComment \/ TypeCorrection \/ Toggle \/ Load
  PROVE  ScreenInv'
<1>1. ASSUME NEW c \in Cards PROVE FitCard(c, cards[c]) /\ cards[c].seen \in Nat
  BY DEF ScreenInv, CardsOK, FitCard, CardsOf
<1>2. ASSUME NEW c \in Cards, NEW i, NEW subject \in Nat, Write(c, i, subject),
             About(c, cards[c], subject)
      PROVE  ScreenInv'
  <2>1. FitCard(c, Written(cards[c], i, subject)) /\ Written(cards[c], i, subject).key = cards[c].key
    BY <1>1, <1>2, WrittenFits
  <2>2. /\ Mounted(cards, c) /\ cards' = [cards EXCEPT ![c] = Written(cards[c], i, subject)] /\ Stay
    BY <1>2 DEF Write
  <2> QED
    BY <2>1, <2>2, CardChanges
<1>3. CASE Answer
  <2>1. PICK i \in 1 .. Asked : Write("wizard", i, page.detail.round)
    BY <1>3 DEF Answer
  <2>2. "wizard" \in Cards /\ "wizard" \in Shown(page)
    BY <2>1, MountedIsShown DEF Write, Cards
  <2>3. cards["wizard"].key = <<page.detail.count, page.detail.first>>
    BY <2>2 DEF ScreenInv, CardsOK, InPlace, Key
  <2>4. page.detail.status = "clarifying" /\ page \in Page
    BY <2>2 DEF Shown, ScreenInv, DetailOK, Page, Detail, MockupCard
  <2>5. About("wizard", cards["wizard"], page.detail.round) /\ page.detail.round \in Nat
    <3>1. page.detail.round \in 0 .. Len(asks) /\ Len(asks) \in Nat
      BY DEF ScreenInv, DetailOK, AsksOK
    <3> QED
      BY <2>3, <2>4, <3>1 DEF ScreenInv, DetailOK, About
  <2> QED
    BY <1>2, <2>1, <2>2, <2>5
<1>4. CASE Resume
  BY <1>2, <1>4 DEF Resume, About, Cards
<1>5. CASE TypeComment
  <2>1. PICK c \in {"panel", "archive"} : Write(c, 1, cards[c].seen)
    BY <1>5 DEF TypeComment
  <2> QED
    BY <1>1, <1>2, <2>1 DEF About, Cards
<1>6. CASE TypeCorrection
  BY <1>1, <1>2, <1>6 DEF TypeCorrection, About, Cards
<1>7. CASE Toggle
  <2>1. PICK slot \in SlotNumbers :
          /\ Mounted(cards, "review") /\ Stay
          /\ cards' = [cards EXCEPT !["review"] = Toggled(cards["review"], slot)]
    BY <1>7 DEF Toggle
  <2>2. "review" \in Cards
    BY DEF Cards
  <2>3. /\ FitCard("review", Toggled(cards["review"], slot))
        /\ Toggled(cards["review"], slot).key = cards["review"].key
    BY <1>1, <2>2, ToggledFits
  <2> QED
    BY <2>1, <2>2, <2>3, CardChanges
<1>8. CASE Load
  <2>1. PICK c \in {"panel", "archive"} :
          /\ Mounted(cards, c) /\ cards[c].seen = 0 /\ Stay
          /\ cards' = [cards EXCEPT ![c].seen = mockup, ![c].decided = decided]
    BY <1>8 DEF Load
  <2> DEFINE now == [cards[c] EXCEPT !.seen = mockup, !.decided = decided]
  <2>2. c \in Cards
    BY DEF Cards
  <2>3. mockup \in Nat /\ decided \in BOOLEAN
    BY DEF ScreenInv, SessionOK
  <2>4. now \in CardsOf({cards[c].key}) /\ now.key = cards[c].key /\ now.words = cards[c].words
    BY <1>1, <2>2, <2>3 DEF FitCard, CardsOf
  <2>5. \A i \in DOMAIN cards[c].words : cards[c].words[i] = 0
    BY <1>1, <2>1, <2>2 DEF FitCard, About
  <2>6. cards' = [cards EXCEPT ![c] = now]
    BY <2>1, <2>2 DEF ScreenInv, CardsOK
  <2> HIDE DEF now
  <2>7. FitCard(c, now) /\ now.key = cards[c].key
    BY <1>1, <2>2, <2>4, <2>5 DEF FitCard, About
  <2> QED
    BY <2>1, <2>2, <2>6, <2>7, CardChanges
<1> QED
  BY <1>3, <1>4, <1>5, <1>6, <1>7, <1>8

(* A card begins with nothing written.                                      *)
LEMMA FreshFits ==
  ASSUME NEW c \in Cards, NEW p \in Page
  PROVE  FitCard(c, Fresh(c, p.detail)) /\ Fresh(c, p.detail).key = Key(c, p.detail)
<1> DEFINE size == IF c = "wizard" THEN Asked ELSE 1
           blank == [i \in 1 .. size |-> 0]
           card == Fresh(c, p.detail)
<1>1. size \in Nat /\ size \in {1, Asked} /\ (c # "wizard" => size = 1)
  BY CardAssumption
<1> HIDE DEF size
<1>2. blank \in [1 .. size -> Nat] /\ DOMAIN blank = 1 .. size /\ \A i \in DOMAIN blank : blank[i] = 0
  OBVIOUS
<1>3. blank \in Seq(Nat)
  BY <1>1, <1>2, SeqDef
<1>4. Len(blank) = size
  BY <1>1, <1>2, <1>3
<1> HIDE DEF blank
<1>5. card = [key |-> Key(c, p.detail), seen |-> 0, decided |-> FALSE, words |-> blank]
  BY DEF Fresh, size, blank
<1>6. Len(Key(c, p.detail)) \in 0 .. 2
  BY DEF Key, Cards
<1> HIDE DEF card
<1>7. card \in CardsOf({card.key}) /\ card.key = Key(c, p.detail) /\ card.words = blank
  BY <1>3, <1>5 DEF CardsOf
<1>8. FitCard(c, card)
  BY <1>1, <1>2, <1>4, <1>6, <1>7 DEF FitCard, About
<1> QED
  BY <1>7, <1>8 DEF card

(* A card that is not there has no words.                                   *)
LEMMA UnmountedFits ==
  ASSUME NEW c \in Cards
  PROVE  FitCard(c, Unmounted)
<1>1. <<>> \in Seq(Nat) /\ Len(<<>>) = 0 /\ DOMAIN <<>> = {}
  OBVIOUS
<1>2. /\ Unmounted \in CardsOf({Unmounted.key})
      /\ Unmounted.key = <<>> /\ Unmounted.words = <<>>
  BY <1>1 DEF Unmounted, CardsOf
<1> QED
  BY <1>1, <1>2 DEF FitCard

(* Rendering puts every card in its place.                                  *)
LEMMA RenderedFits ==
  ASSUME NEW p \in Page, NEW deck, \A c \in Cards : FitCard(c, deck[c])
  PROVE  /\ Rendered(deck, p) = [c \in Cards |-> Rendered(deck, p)[c]]
         /\ \A c \in Cards :
              /\ FitCard(c, Rendered(deck, p)[c])
              /\ IF c \in Shown(p) THEN Rendered(deck, p)[c].key = Key(c, p.detail)
                                   ELSE Rendered(deck, p)[c] = Unmounted
<1>1. \A c \in Cards :
        Rendered(deck, p)[c] =
          IF c \notin Shown(p) THEN Unmounted
          ELSE IF deck[c].key = Key(c, p.detail) THEN deck[c] ELSE Fresh(c, p.detail)
  BY DEF Rendered
<1>2. Rendered(deck, p) = [c \in Cards |-> Rendered(deck, p)[c]]
  BY DEF Rendered
<1>3. ASSUME NEW c \in Cards
      PROVE  /\ FitCard(c, Rendered(deck, p)[c])
             /\ IF c \in Shown(p) THEN Rendered(deck, p)[c].key = Key(c, p.detail)
                                  ELSE Rendered(deck, p)[c] = Unmounted
  <2>1. CASE c \notin Shown(p)
    BY <1>1, <2>1, UnmountedFits
  <2>2. CASE c \in Shown(p) /\ deck[c].key = Key(c, p.detail)
    BY <1>1, <2>2
  <2>3. CASE c \in Shown(p) /\ deck[c].key # Key(c, p.detail)
    BY <1>1, <2>3, FreshFits
  <2> QED
    BY <2>1, <2>2, <2>3
<1> QED
  BY <1>2, <1>3

(* The answer of the server tells of a round as it was asked.               *)
LEMMA DetailNowFits ==
  ASSUME SessionOK, AsksOK
  PROVE  /\ DetailNow \in Detail
         /\ DetailNow.status = status /\ DetailNow.processing = processing
         /\ DetailNow.pending = pending /\ DetailNow.round = round
         /\ status = "clarifying" =>
              IF round > 0 THEN asks[round] = <<DetailNow.count, DetailNow.first>>
              ELSE DetailNow.first = "none"
         /\ Reviewed => /\ DetailNow.mockup = mockup /\ DetailNow.open = open
                        /\ DetailNow.decided = decided
<1> DEFINE bare == [NoDetail EXCEPT !.status = status, !.round = round,
                                    !.processing = processing, !.pending = pending]
<1>1. /\ bare \in Detail /\ bare.status = status /\ bare.processing = processing
      /\ bare.pending = pending /\ bare.round = round /\ bare.first = "none"
  BY DEF SessionOK, Statuses, Detail, NoDetail
<1> HIDE DEF bare
<1>2. CASE status = "clarifying" /\ round > 0
  <2>1. round \in 1 .. Len(asks) /\ asks \in Seq(Nat \X Firsts) /\ asks[round][1] = count
    BY <1>2 DEF SessionOK, AsksOK
  <2>2. asks[round] \in Nat \X Firsts
    BY <2>1, ElementOfSeq
  <2>3. asks[round] = <<count, asks[round][2]>> /\ asks[round][2] \in Firsts /\ count \in Nat
    BY <2>1, <2>2
  <2>4. DetailNow = [bare EXCEPT !.count = count, !.first = asks[round][2]]
    BY <1>2 DEF DetailNow, bare
  <2>5. /\ DetailNow \in Detail /\ DetailNow.status = status /\ DetailNow.processing = processing
        /\ DetailNow.pending = pending /\ DetailNow.round = round
        /\ DetailNow.count = count /\ DetailNow.first = asks[round][2]
    BY <1>1, <2>3, <2>4 DEF Detail
  <2> QED
    BY <1>2, <2>3, <2>5 DEF Reviewed
<1>3. CASE ~(status = "clarifying" /\ round > 0) /\ Reviewed
  <2>1. DetailNow = [bare EXCEPT !.mockup = mockup, !.open = open, !.decided = decided]
    BY <1>3 DEF DetailNow, bare
  <2> QED
    BY <1>1, <1>3, <2>1 DEF Detail, SessionOK, Reviewed
<1>4. CASE ~(status = "clarifying" /\ round > 0) /\ ~Reviewed
  <2>1. DetailNow = bare
    BY <1>4 DEF DetailNow, bare
  <2> QED
    BY <1>1, <1>4, <2>1 DEF SessionOK
<1> QED
  BY <1>2, <1>3, <1>4

(* A page that changes by itself or by an answer of the server, and renders *)
(* its cards.                                                               *)
LEMMA ScreenChanges ==
  ASSUME ScreenInv, UNCHANGED <<session, asks>>, LeftOK', FlowsOK', SentOK',
         page' \in Page, page'.detail \in {page.detail, DetailNow},
         NEW deck, \A c \in Cards : FitCard(c, deck[c]), cards' = Rendered(deck, page')
  PROVE  ScreenInv'
<1>1. SessionOK /\ AsksOK /\ SessionOK' /\ AsksOK' /\ asks' = asks
  BY DEF ScreenInv, session, SessionOK, AsksOK, Reviewed
<1>2. DetailOK'
  <2>1. CASE page'.detail = page.detail
    BY <1>1, <2>1 DEF ScreenInv, DetailOK
  <2>2. CASE page'.detail = DetailNow
    <3>1. round \in 0 .. Len(asks)
      BY <1>1 DEF SessionOK, AsksOK
    <3> QED
      BY <1>1, <2>2, <3>1, DetailNowFits DEF DetailOK
  <2> QED
    BY <2>1, <2>2
<1>3. CardsOK'
  <2>1. /\ cards' = [c \in Cards |-> cards'[c]]
        /\ \A c \in Cards :
             /\ FitCard(c, cards'[c])
             /\ IF c \in Shown(page') THEN cards'[c].key = Key(c, page'.detail)
                                      ELSE cards'[c] = Unmounted
    BY RenderedFits
  <2>2. ASSUME NEW c \in Cards PROVE FitCard(c, cards[c])' /\ InPlace(c)'
    BY <1>1, <2>1 DEF FitCard, About, InPlace
  <2> QED
    BY <2>1, <2>2 DEF CardsOK
<1> QED
  BY <1>1, <1>2, <1>3 DEF ScreenInv

-----------------------------------------------------------------------------
(* The flows.                                                               *)

(* A mark that one has at most stays so when one element f gets or loses it. *)
LEMMA OneMoves ==
  ASSUME NEW flag \in BOOLEAN, NEW flag2 \in BOOLEAN, NEW S, NEW T, NEW f,
         OnlyOne(flag, S), S \ {f} = T \ {f},
         flag2 <=> (flag /\ f \notin S) \/ f \in T,
         f \in T => f \in S \/ ~flag
  PROVE  OnlyOne(flag2, T)
<1>1. CASE f \in T
  <2>1. T = {f}
    BY <1>1 DEF OnlyOne
  <2> QED
    BY <1>1, <2>1 DEF OnlyOne
<1>2. CASE f \notin T /\ f \in S
  <2>1. flag /\ S = {f} /\ T = {} /\ ~flag2
    BY <1>2 DEF OnlyOne
  <2> QED
    BY <2>1 DEF OnlyOne
<1>3. CASE f \notin T /\ f \notin S
  <2>1. S = T /\ flag2 = flag
    BY <1>3
  <2> QED
    BY <2>1
<1> QED
  BY <1>1, <1>2, <1>3

(* The lock and the watch follow the one flow that changes.                 *)
Marks(f, flow) ==
  /\ page'.busy <=> (page.busy /\ flows[f].via # "act") \/ flow.via = "act"
  /\ flow.via = "act" => flows[f].via = "act" \/ ~page.busy
  /\ page'.watching <=> (page.watching /\ ~flows[f].watched) \/ flow.watched
  /\ flow.watched => flows[f].watched \/ ~page.watching

(* One flow moves, and the marks with it: each mark still belongs to one flow. *)
LEMMA FlowMoves ==
  ASSUME FlowsOK, page \in Page, page' \in Page, NEW f \in FlowIds, NEW flow \in Flow,
         flows' = [flows EXCEPT ![f] = flow], Marks(f, flow),
         flow.pc = "idle" => flow.via # "act",
         flow.watched => flow.pc \in {"watch", "get"}
  PROVE  FlowsOK'
<1>1. /\ flows' \in [FlowIds -> Flow] /\ flows'[f] = flow
      /\ \A g \in FlowIds : g # f => flows'[g] = flows[g]
  BY DEF FlowsOK
<1>2. /\ page.busy \in BOOLEAN /\ page'.busy \in BOOLEAN
      /\ page.watching \in BOOLEAN /\ page'.watching \in BOOLEAN
  BY DEF Page
<1>3. OnlyOne(page'.busy, ActFlows')
  <2>1. OnlyOne(page.busy, ActFlows)
    BY DEF FlowsOK
  <2>2. ActFlows \ {f} = ActFlows' \ {f}
    BY <1>1 DEF ActFlows
  <2>3. (f \in ActFlows <=> flows[f].via = "act") /\ (f \in ActFlows' <=> flow.via = "act")
    BY <1>1 DEF ActFlows
  <2>4. /\ page'.busy <=> (page.busy /\ f \notin ActFlows) \/ f \in ActFlows'
        /\ f \in ActFlows' => f \in ActFlows \/ ~page.busy
    BY <2>3 DEF Marks
  <2> QED
    BY <1>2, <2>1, <2>2, <2>4, OneMoves
<1>4. OnlyOne(page'.watching, WatchFlows')
  <2>1. OnlyOne(page.watching, WatchFlows)
    BY DEF FlowsOK
  <2>2. WatchFlows \ {f} = WatchFlows' \ {f}
    BY <1>1 DEF WatchFlows
  <2>3. (f \in WatchFlows <=> flows[f].watched) /\ (f \in WatchFlows' <=> flow.watched)
    BY <1>1 DEF WatchFlows
  <2>4. /\ page'.watching <=> (page.watching /\ f \notin WatchFlows) \/ f \in WatchFlows'
        /\ f \in WatchFlows' => f \in WatchFlows \/ ~page.watching
    BY <2>3 DEF Marks
  <2> QED
    BY <1>2, <2>1, <2>2, <2>4, OneMoves
<1>5. ASSUME NEW g \in FlowIds
      PROVE  /\ flows'[g].pc = "idle" => flows'[g].via # "act"
             /\ flows'[g].watched => flows'[g].pc \in {"watch", "get"}
  BY <1>1 DEF FlowsOK
<1>6. OnlyOne(page.busy, ActFlows)' /\ OnlyOne(page.watching, WatchFlows)'
  BY <1>3, <1>4 DEF OnlyOne
<1> QED
  BY <1>1, <1>5, <1>6 DEF FlowsOK

(* A continuation of the page's: it moves a flow that does not send.        *)
LEMMA FlowChanges ==
  ASSUME ScreenInv, NEW f \in FlowIds, NEW flow \in Flow, NEW newpage \in Page,
         Becomes(f, flow), Shows(newpage), Marks(f, flow),
         newpage.detail \in {page.detail, DetailNow},
         flow.pc \notin Asking, flow.pc = "idle" => flow.via # "act",
         flow.watched => flow.pc \in {"watch", "get"}
  PROVE  ScreenInv'
<1>1. /\ page' = newpage /\ cards' = Rendered(cards, page') /\ UNCHANGED <<session, asks, left>>
      /\ flows' = [flows EXCEPT ![f] = flow]
  BY DEF Shows, Becomes
<1>2. page \in Page /\ FlowsOK
  BY DEF ScreenInv, DetailOK
<1>3. FlowsOK'
  BY <1>1, <1>2, FlowMoves
<1>4. SentOK'
  <2>1. \A g \in FlowIds : flows'[g].pc \in Asking => flows'[g] = flows[g]
    BY <1>1, <1>2 DEF FlowsOK
  <2> QED
    BY <1>1, <2>1 DEF ScreenInv, SentOK
<1>5. \A c \in Cards : FitCard(c, cards[c])
  BY DEF ScreenInv, CardsOK
<1>6. LeftOK'
  BY <1>1 DEF ScreenInv, LeftOK
<1> QED
  BY <1>1, <1>3, <1>4, <1>5, <1>6, ScreenChanges

(* What a flow becomes is a flow.                                           *)
LEMMA FlowShapes ==
  ASSUME NEW flow \in Flow
  PROVE  /\ Over \in Flow /\ Over.via = "none" /\ Over.pc = "idle" /\ ~Over.watched
         /\ LET got == [flow EXCEPT !.pc = "get"]
            IN got \in Flow /\ got.via = flow.via /\ got.pc = "get" /\ got.watched = flow.watched
         /\ LET got == [flow EXCEPT !.pc = "get", !.post = NoPost]
            IN got \in Flow /\ got.via = flow.via /\ got.pc = "get" /\ got.watched = flow.watched
         /\ LET got == [flow EXCEPT !.pc = "get", !.post = NoPost, !.found = Unread]
            IN got \in Flow /\ got.via = flow.via /\ got.pc = "get" /\ got.watched = flow.watched
         /\ LET seen == [flow EXCEPT !.pc = "watch", !.post = NoPost, !.watched = TRUE]
            IN seen \in Flow /\ seen.via = flow.via /\ seen.pc = "watch" /\ seen.watched = TRUE
<1>1. NoPost \in [kind : Kinds, id : Nat, words : SUBSET Nat]
  BY DEF NoPost, Post, Kinds
<1> QED
  BY <1>1, UnreadIsFound DEF Flow, Over

(* A call of act holds the lock, a watching flow the watch.                 *)
LEMMA MarksAreSet ==
  ASSUME ScreenInv, NEW f \in FlowIds
  PROVE  /\ flows[f] \in Flow /\ page \in Page
         /\ flows[f].via = "act" => page.busy
         /\ flows[f].watched => page.watching /\ flows[f].pc \in {"watch", "get"}
         /\ flows[f].pc = "idle" => flows[f].via # "act"
<1>1. f \in ActFlows => page.busy
  BY DEF ScreenInv, FlowsOK, OnlyOne
<1>2. f \in WatchFlows => page.watching
  BY DEF ScreenInv, FlowsOK, OnlyOne
<1> QED
  BY <1>1, <1>2 DEF ActFlows, WatchFlows, ScreenInv, FlowsOK, DetailOK

(* The end of a flow lets go of what it held.                               *)
LEMMA OverHolds ==
  ASSUME ScreenInv, NEW f \in FlowIds, NEW newpage \in Page,
         Becomes(f, Over), Shows(Released(f, newpage)),
         newpage.detail \in {page.detail, DetailNow}, newpage.busy = page.busy,
         newpage.watching <=> page.watching /\ ~flows[f].watched
  PROVE  ScreenInv'
<1> DEFINE shown == Released(f, newpage)
<1>1. /\ shown \in Page /\ shown.detail = newpage.detail /\ shown.watching = newpage.watching
      /\ shown.busy <=> page.busy /\ flows[f].via # "act"
  BY DEF Released, Page
<1>2. page' = shown
  BY DEF Shows
<1> HIDE DEF shown
<1>3. Over \in Flow /\ Over.via = "none" /\ Over.pc = "idle" /\ ~Over.watched
  BY MarksAreSet, FlowShapes
<1>4. Marks(f, Over)
  BY <1>1, <1>2, <1>3 DEF Marks
<1>5. Shows(shown)
  BY DEF shown
<1> QED
  BY <1>1, <1>3, <1>4, <1>5, FlowChanges DEF Asking

(* watchThenRefetch keeps the invariant: the session is watched once.       *)
LEMMA FollowHolds ==
  ASSUME ScreenInv, NEW f \in FlowIds, NEW newpage \in Page, Follow(f, newpage),
         ~flows[f].watched, newpage.detail \in {page.detail, DetailNow},
         newpage.busy = page.busy, newpage.watching = page.watching
  PROVE  ScreenInv'
<1>1. CASE page.watching
  <2>1. Becomes(f, Over) /\ Shows(Released(f, newpage))
    BY <1>1 DEF Follow
  <2> QED
    BY <2>1, OverHolds
<1>2. CASE ~page.watching
  <2> DEFINE flow == [flows[f] EXCEPT !.pc = "watch", !.post = NoPost, !.watched = TRUE]
             shown == [newpage EXCEPT !.watching = TRUE]
  <2>1. Becomes(f, flow) /\ Shows(shown)
    BY <1>2 DEF Follow
  <2>2. flow \in Flow /\ flow.via = flows[f].via /\ flow.pc = "watch" /\ flow.watched = TRUE
    BY MarksAreSet, FlowShapes
  <2>3. /\ shown \in Page /\ shown.watching = TRUE /\ shown.busy = page.busy
        /\ shown.detail = newpage.detail
    BY DEF Page
  <2>4. page' = shown
    BY <2>1 DEF Shows
  <2> HIDE DEF flow, shown
  <2>5. Marks(f, flow)
    BY <1>2, <2>2, <2>3, <2>4, MarksAreSet DEF Marks
  <2> QED
    BY <2>1, <2>2, <2>3, <2>5, FlowChanges DEF Asking
<1> QED
  BY <1>1, <1>2

(* A flow goes on under the same marks.                                     *)
LEMMA SameMarksHold ==
  ASSUME ScreenInv, NEW f \in FlowIds, NEW flow \in Flow, NEW newpage \in Page,
         Becomes(f, flow), Shows(newpage), newpage.detail = page.detail,
         newpage.busy = page.busy, newpage.watching = page.watching,
         flow.via = flows[f].via, flow.watched = flows[f].watched, flow.pc = "get"
  PROVE  ScreenInv'
<1>1. page' = newpage
  BY DEF Shows
<1>2. Marks(f, flow)
  BY <1>1, MarksAreSet DEF Marks
<1> QED
  BY <1>2, FlowChanges DEF Asking

(* Every continuation of the page's functions keeps the invariant.          *)
LEMMA ResumesHolds ==
  ASSUME ScreenInv, NEW f \in FlowIds, Resumes(f)
  PROVE  ScreenInv'
<1>1. flows[f] \in Flow /\ page \in Page /\ DetailNow \in Detail
  BY MarksAreSet, DetailNowFits DEF ScreenInv
<1>2. CASE Accepted(f)
  <2>1. ~flows[f].watched
    BY <1>2, MarksAreSet DEF Accepted
  <2>2. CASE flows[f].via = "plain"
    BY <1>1, <1>2, <2>2, FlowShapes, SameMarksHold DEF Accepted
  <2>3. CASE flows[f].via # "plain"
    BY <1>1, <1>2, <2>1, <2>3, FollowHolds DEF Accepted
  <2> QED
    BY <2>2, <2>3
<1>3. CASE Rejected(f)
  <2> DEFINE shown == [page EXCEPT !.error = TRUE]
  <2>1. /\ shown \in Page /\ shown.detail = page.detail /\ shown.busy = page.busy
        /\ shown.watching = page.watching
    BY <1>1 DEF Page
  <2>2. Shows(shown) /\ ~flows[f].watched
    BY <1>3, MarksAreSet DEF Rejected
  <2> HIDE DEF shown
  <2>3. CASE flows[f].via = "plain"
    <3>1. Becomes(f, Over) /\ Released(f, shown) = shown
      BY <1>3, <2>3 DEF Rejected, Released
    <3> QED
      BY <2>1, <2>2, <3>1, OverHolds
  <2>4. CASE flows[f].via # "plain"
    <3> DEFINE flow == [flows[f] EXCEPT !.pc = "get", !.post = NoPost, !.found = Unread]
    <3>1. Becomes(f, flow)
      BY <1>3, <2>4 DEF Rejected
    <3>2. flow \in Flow /\ flow.via = flows[f].via /\ flow.pc = "get" /\ flow.watched = flows[f].watched
      BY <1>1, FlowShapes
    <3> HIDE DEF flow
    <3> QED
      BY <2>1, <2>2, <3>1, <3>2, SameMarksHold
  <2> QED
    BY <2>3, <2>4
<1>4. CASE WatchEnds(f)
  <2> DEFINE flow == [flows[f] EXCEPT !.pc = "get"]
  <2>1. Becomes(f, flow) /\ Shows(page)
    BY <1>4 DEF WatchEnds
  <2>2. flow \in Flow /\ flow.via = flows[f].via /\ flow.pc = "get" /\ flow.watched = flows[f].watched
    BY <1>1, FlowShapes
  <2> HIDE DEF flow
  <2> QED
    BY <1>1, <2>1, <2>2, SameMarksHold
<1>5. ASSUME NEW newpage \in Page, Refetched(f, newpage),
             newpage.detail \in {page.detail, DetailNow},
             newpage.busy = page.busy, newpage.watching = page.watching
      PROVE  ScreenInv'
  <2>1. CASE flows[f].via = "boot" /\ ~flows[f].watched /\ ~newpage.notFound /\ newpage.detail.processing
    BY <1>5, <2>1, FollowHolds DEF Refetched
  <2>2. CASE ~(flows[f].via = "boot" /\ ~flows[f].watched /\ ~newpage.notFound /\ newpage.detail.processing)
    <3> DEFINE shown == [newpage EXCEPT !.watching = @ /\ ~flows[f].watched]
    <3>1. /\ shown \in Page /\ shown.detail = newpage.detail /\ shown.busy = page.busy
          /\ shown.watching <=> page.watching /\ ~flows[f].watched
      BY <1>1, <1>5 DEF Page, Flow
    <3>2. Becomes(f, Over) /\ Shows(Released(f, shown))
      BY <1>5, <2>2 DEF Refetched
    <3> HIDE DEF shown
    <3> QED
      BY <1>5, <3>1, <3>2, OverHolds
  <2> QED
    BY <2>1, <2>2
<1>6. CASE Arrive(f)
  <2>1. ASSUME Refetched(f, [page EXCEPT !.detail = DetailNow]) PROVE ScreenInv'
    <3> DEFINE newpage == [page EXCEPT !.detail = DetailNow]
    <3>1. /\ newpage \in Page /\ newpage.detail = DetailNow /\ newpage.busy = page.busy
          /\ newpage.watching = page.watching
      BY <1>1 DEF Page
    <3>2. Refetched(f, newpage)
      BY <2>1
    <3> HIDE DEF newpage
    <3> QED
      BY <1>5, <3>1, <3>2
  <2>2. ASSUME Refetched(f, [page EXCEPT !.notFound = TRUE]) PROVE ScreenInv'
    <3> DEFINE newpage == [page EXCEPT !.notFound = TRUE]
    <3>1. /\ newpage \in Page /\ newpage.detail = page.detail /\ newpage.busy = page.busy
          /\ newpage.watching = page.watching
      BY <1>1 DEF Page
    <3>2. Refetched(f, newpage)
      BY <2>2
    <3> HIDE DEF newpage
    <3> QED
      BY <1>5, <3>1, <3>2
  <2> QED
    BY <1>6, <2>1, <2>2 DEF Arrive
<1> QED
  BY <1>2, <1>3, <1>4, <1>6 DEF Resumes

-----------------------------------------------------------------------------
(* What the page offers.                                                    *)

(* The stage that shows a card; none with an offer shows while a request of *)
(* the page runs.                                                           *)
LEMMA ShownWhere ==
  ASSUME NEW p \in Page, NEW c \in Shown(p)
  PROVE  /\ c \in {"retry", "wizard", "hold", "document", "review", "panel", "archive", "ack", "waiting"}
         /\ c \notin {"ack", "waiting"} => ~p.busy /\ ~p.detail.processing
         /\ c = "retry" => p.detail.pending
         /\ c = "wizard" => p.detail.status = "clarifying" /\ ~p.detail.pending
         /\ c = "hold" => p.detail.status = "closed"
         /\ c \in {"document", "review", "panel", "archive"} =>
              p.detail.status \in {"documented", "mockup"}
         /\ c \in {"panel", "archive"} => p.detail.mockup > 0
         /\ c = "panel" => p.detail.open
<1>1. /\ p.detail.mockup \in Nat /\ p.busy \in BOOLEAN /\ p.detail.processing \in BOOLEAN
      /\ p.detail.status \in {"absent", "intake", "clarifying", "documented", "mockup", "closed"}
  BY DEF Page, Detail
<1>2. \A m \in MockupCard(p.detail) :
        /\ m \in {"panel", "archive"} /\ p.detail.mockup > 0
        /\ m = "panel" => p.detail.open
  BY <1>1 DEF MockupCard
<1>3. CASE p.detail.status \in {"absent", "intake"}
  BY <1>1, <1>3 DEF Shown, Failed
<1>4. CASE p.detail.status = "clarifying"
  BY <1>1, <1>4 DEF Shown, Failed
<1>5. CASE p.detail.status \in {"mockup", "documented"}
  BY <1>1, <1>2, <1>5 DEF Shown, Failed
<1>6. CASE p.detail.status = "closed"
  BY <1>1, <1>6 DEF Shown, Failed
<1> QED
  BY <1>1, <1>3, <1>4, <1>5, <1>6

(* An offer is one of a card on the screen.                                 *)
LEMMA OfferedBy ==
  ASSUME NEW p \in Page, NEW deck, NEW post \in Offers(p, deck)
  PROVE  \/ "retry" \in Shown(p) /\ post = Post("retry", 0, {})
         \/ "wizard" \in Shown(p) /\ post = From(deck["wizard"], "reply", p.detail.round)
         \/ "hold" \in Shown(p) /\ post = Post("reply", 0, {})
         \/ "document" \in Shown(p) /\ post \in {Post("edit", 0, {}), Post("instruct", 0, {})}
         \/ /\ "review" \in Shown(p)
            /\ \/ post = Post("confirm", 0, {})
               \/ \E slot \in SlotNumbers : post = From(deck["review"], "deny", slot)
         \/ \E c \in {"panel", "archive"} :
              /\ c \in Shown(p) /\ deck[c].seen # 0
              /\ post = From(deck[c], "comment", deck[c].seen)
         \/ "panel" \in Shown(p) /\ post = Post("theme", 0, {})
         \/ "panel" \in Shown(p) /\ deck["panel"].decided /\ post = Post("approve", 0, {})
<1>1. PICK c \in Shown(p) :
        post \in CASE c = "retry"    -> RetryOffers
                   [] c = "wizard"   -> WizardOffers(p, deck[c])
                   [] c = "hold"     -> HoldOffers(p)
                   [] c = "document" -> DocumentOffers(p)
                   [] c = "review"   -> ReviewOffers(p, deck[c])
                   [] c = "panel"    -> PanelOffers(p, deck[c])
                   [] c = "archive"  -> ArchiveOffers(p, deck[c])
                   [] OTHER          -> {}
  BY DEF Offers
<1>2. CASE c = "retry"
  BY <1>1, <1>2 DEF RetryOffers
<1>3. CASE c = "wizard"
  BY <1>1, <1>3 DEF WizardOffers
<1>4. CASE c = "hold"
  BY <1>1, <1>4 DEF HoldOffers, Resumption
<1>5. CASE c = "document"
  <2>1. post \in DocumentOffers(p)
    BY <1>1, <1>5
  <2> QED
    BY <1>5, <2>1 DEF DocumentOffers
<1>6. CASE c = "review"
  <2>1. post \in ReviewOffers(p, deck["review"])
    BY <1>1, <1>6
  <2> QED
    BY <1>6, <2>1 DEF ReviewOffers
<1>7. CASE c = "panel"
  <2>1. post \in PanelOffers(p, deck["panel"])
    BY <1>1, <1>7
  <2> QED
    BY <1>7, <2>1 DEF PanelOffers
<1>8. CASE c = "archive"
  <2>1. post \in ArchiveOffers(p, deck["archive"])
    BY <1>1, <1>8
  <2> QED
    BY <1>8, <2>1 DEF ArchiveOffers
<1> QED
  BY <1>1, <1>2, <1>3, <1>4, <1>5, <1>6, <1>7, <1>8, ShownWhere

(* A page that is locked offers nothing.                                    *)
LEMMA OffersWhenFree ==
  ASSUME NEW p \in Page, NEW deck, NEW post \in Offers(p, deck)
  PROVE  ~p.busy
BY OfferedBy, ShownWhere

(* A request that is offered is a request, and its words are about what it   *)
(* names.                                                                   *)
LEMMA OfferFits ==
  ASSUME ScreenInv, NEW post \in Offers(page, cards), Ready(post)
  PROVE  /\ post \in [kind : Kinds, id : Nat, words : SUBSET Nat]
         /\ post.kind = "reply" =>
              \A s \in post.words :
                s \in 1 .. Len(asks) /\ post.id \in 1 .. Len(asks) /\ asks[s] = asks[post.id]
         /\ post.kind \in {"comment", "deny"} => \A s \in post.words : s = post.id
<1>1. page \in Page /\ page.detail.round \in Nat
  BY DEF ScreenInv, DetailOK, Page, Detail
<1>2. ASSUME NEW c \in Cards
      PROVE  /\ FitCard(c, cards[c]) /\ cards[c].seen \in Nat /\ cards[c].words \in Seq(Nat)
             /\ Subjects(cards[c]) \in SUBSET Nat
             /\ \A s \in Subjects(cards[c]) : About(c, cards[c], s)
  <2>1. FitCard(c, cards[c])
    BY DEF ScreenInv, CardsOK
  <2>2. cards[c].seen \in Nat /\ cards[c].words \in Seq(Nat)
    BY <2>1 DEF FitCard, CardsOf
  <2>3. \A i \in DOMAIN cards[c].words : cards[c].words[i] \in Nat
    BY <2>2, ElementOfSeq, LenProperties
  <2> QED
    BY <2>1, <2>2, <2>3 DEF FitCard, Subjects
<1>3. \A s \in post.words : s # 0
  BY DEF Ready
<1>4. ASSUME NEW kind \in Kinds, kind \notin {"comment", "deny"}, post = Post(kind, 0, {})
      PROVE  /\ post \in [kind : Kinds, id : Nat, words : SUBSET Nat]
             /\ post.words = {} /\ post.kind = kind
  BY <1>4 DEF Post
<1>5. CASE "wizard" \in Shown(page) /\ post = From(cards["wizard"], "reply", page.detail.round)
  <2>1. /\ post.kind = "reply" /\ post.id = page.detail.round
        /\ post.words = Subjects(cards["wizard"])
        /\ post \in [kind : Kinds, id : Nat, words : SUBSET Nat]
    BY <1>1, <1>2, <1>5 DEF From, Post, Kinds, Cards
  <2>2. cards["wizard"].key = <<page.detail.count, page.detail.first>>
    BY <1>5 DEF ScreenInv, CardsOK, InPlace, Key, Cards
  <2>3. page.detail.status = "clarifying"
    BY <1>1, <1>5, ShownWhere
  <2>4. ASSUME NEW s \in post.words
        PROVE  s \in 1 .. Len(asks) /\ asks[s] = <<page.detail.count, page.detail.first>>
    BY <1>2, <1>3, <2>1, <2>2 DEF About, Cards
  <2>5. ASSUME NEW s \in post.words
        PROVE  post.id \in 1 .. Len(asks) /\ asks[s] = asks[post.id]
    <3>1. asks \in Seq(Nat \X Firsts) /\ page.detail.round \in 0 .. Len(asks)
      BY DEF ScreenInv, AsksOK, DetailOK
    <3>2. asks[s] \in Nat \X Firsts
      BY <2>4, <3>1, ElementOfSeq
    <3>3. page.detail.first \in Firsts
      BY <2>4, <3>2
    <3>4. page.detail.round > 0
      <4>1. ~(page.detail.round > 0) => page.detail.first = "none"
        BY <2>3 DEF ScreenInv, DetailOK
      <4> QED
        BY <3>3, <4>1, CardAssumption
    <3>5. asks[page.detail.round] = <<page.detail.count, page.detail.first>>
      BY <2>3, <3>4 DEF ScreenInv, DetailOK
    <3> QED
      BY <1>1, <2>1, <2>4, <3>1, <3>4, <3>5
  <2> QED
    BY <2>1, <2>4, <2>5
<1>6. CASE \E slot \in SlotNumbers : post = From(cards["review"], "deny", slot)
  <2>1. PICK slot \in SlotNumbers : post = From(cards["review"], "deny", slot)
    BY <1>6
  <2>2. /\ post.kind = "deny" /\ post.id = slot /\ slot \in Nat
        /\ post.words = Subjects(cards["review"])
        /\ post \in [kind : Kinds, id : Nat, words : SUBSET Nat]
    BY <1>2, <2>1, CardAssumption DEF From, Post, Kinds, Cards
  <2>3. cards["review"].seen = post.id
    BY <2>2 DEF Ready
  <2> QED
    BY <1>2, <1>3, <2>2, <2>3 DEF About, Cards
<1>7. ASSUME NEW c \in {"panel", "archive"}, post = From(cards[c], "comment", cards[c].seen)
      PROVE  /\ post \in [kind : Kinds, id : Nat, words : SUBSET Nat]
             /\ post.kind = "comment" /\ \A s \in post.words : s = post.id
  <2>1. /\ post.kind = "comment" /\ post.id = cards[c].seen /\ post.words = Subjects(cards[c])
        /\ post \in [kind : Kinds, id : Nat, words : SUBSET Nat]
    BY <1>2, <1>7 DEF From, Post, Kinds, Cards
  <2> QED
    BY <1>2, <1>3, <2>1 DEF About, Cards
<1>8. CASE \E c \in {"panel", "archive"} : post = From(cards[c], "comment", cards[c].seen)
  BY <1>7, <1>8
<1>9. CASE \E kind \in {"retry", "reply", "edit", "instruct", "confirm", "theme", "approve"} :
             post = Post(kind, 0, {})
  BY <1>4, <1>9 DEF Kinds
<1> QED
  BY <1>1, <1>5, <1>6, <1>8, <1>9, OfferedBy

-----------------------------------------------------------------------------
(* The requester's clicks.                                                  *)

(* A new flow takes the place of an idle one.                               *)
LEMMA FirstIdle ==
  ASSUME ScreenInv, Idles # {}
  PROVE  Min(Idles) \in FlowIds /\ flows[Min(Idles)].pc = "idle"
<1>1. Idles \in SUBSET Nat /\ \A f \in Idles : f \in FlowIds /\ flows[f].pc = "idle"
  BY PageAssumption DEF Idles, FlowIds
<1>2. \E f \in Idles : \A g \in Idles : f <= g
  BY <1>1, LeastExists
<1>3. Min(Idles) \in Idles
  BY <1>2 DEF Min
<1> QED
  BY <1>1, <1>3

(* A click that sends a request keeps the invariant: the lock is free, and the*)
(* words go with what they are about.                                       *)
LEMMA SendHolds ==
  ASSUME ScreenInv, Send
  PROVE  ScreenInv'
<1>1. PICK post \in Offers(page, cards) :
        LET via == IF post.kind = "retry" THEN "retry"
                   ELSE IF post.kind \in Acts THEN "act" ELSE "plain"
            spent == [c \in Cards |->
                        IF post.kind = "comment" /\ c \in {"panel", "archive"} /\ Mounted(cards, c)
                        THEN Cleared(cards[c]) ELSE cards[c]]
        IN /\ Ready(post) /\ left.posts > 0
           /\ Start(via, "sent", post)
           /\ left' = [left EXCEPT !.posts = @ - 1]
           /\ page' = [page EXCEPT !.busy = @ \/ via = "act", !.error = @ /\ post.kind = "confirm"]
           /\ cards' = Rendered(spent, page')
           /\ UNCHANGED <<session, asks>>
  BY DEF Send
<1> DEFINE via == IF post.kind = "retry" THEN "retry"
                  ELSE IF post.kind \in Acts THEN "act" ELSE "plain"
           spent == [c \in Cards |->
                       IF post.kind = "comment" /\ c \in {"panel", "archive"} /\ Mounted(cards, c)
                       THEN Cleared(cards[c]) ELSE cards[c]]
           f == Min(Idles)
           flow == [Over EXCEPT !.via = via, !.pc = "sent", !.post = post]
<1>2. /\ Ready(post) /\ left.posts > 0 /\ Idles # {}
      /\ flows' = [flows EXCEPT ![f] = flow]
      /\ left' = [left EXCEPT !.posts = @ - 1]
      /\ page' = [page EXCEPT !.busy = @ \/ via = "act", !.error = @ /\ post.kind = "confirm"]
      /\ cards' = Rendered(spent, page')
      /\ UNCHANGED <<session, asks>>
  BY <1>1 DEF Start
<1>3. via \in {"retry", "act", "plain"}
  OBVIOUS
<1>4. \A c \in Cards : FitCard(c, spent[c])
  BY ClearedFits DEF ScreenInv, CardsOK
<1> HIDE DEF via, spent
<1>5. f \in FlowIds /\ flows[f].pc = "idle"
  BY <1>2, FirstIdle
<1> HIDE DEF f
<1>6. page \in Page /\ flows[f] \in Flow /\ flows[f].via # "act" /\ ~flows[f].watched
  BY <1>5, MarksAreSet
<1>7. ~page.busy
  BY <1>6, OffersWhenFree
<1>8. /\ post \in [kind : Kinds, id : Nat, words : SUBSET Nat]
      /\ post.kind = "reply" =>
           \A s \in post.words :
             s \in 1 .. Len(asks) /\ post.id \in 1 .. Len(asks) /\ asks[s] = asks[post.id]
      /\ post.kind \in {"comment", "deny"} => \A s \in post.words : s = post.id
  BY <1>2, OfferFits
<1>9. /\ flow \in Flow /\ flow.via = via /\ flow.pc = "sent" /\ flow.post = post /\ ~flow.watched
  BY <1>3, <1>6, <1>8, FlowShapes DEF Flow, Over
<1> HIDE DEF flow
<1>10. /\ page' \in Page /\ page'.detail = page.detail /\ page'.watching = page.watching
       /\ page'.busy <=> page.busy \/ via = "act"
  BY <1>2, <1>6 DEF Page
<1>11. FlowsOK'
  <2>1. Marks(f, flow)
    BY <1>6, <1>7, <1>9, <1>10 DEF Marks
  <2>2. FlowsOK
    BY DEF ScreenInv
  <2> QED
    BY <1>2, <1>5, <1>6, <1>9, <1>10, <2>1, <2>2, FlowMoves
<1>12. SentOK'
  <2>1. /\ flows'[f] = flow /\ asks' = asks
        /\ \A g \in FlowIds : g # f => flows'[g] = flows[g]
    BY <1>2, <1>5 DEF ScreenInv, FlowsOK
  <2>2. ASSUME NEW g \in FlowIds, flows'[g].pc \in Asking
        PROVE  LET sent == flows'[g].post
               IN /\ sent.kind = "reply" =>
                       \A s \in sent.words :
                         /\ s \in 1 .. Len(asks') /\ sent.id \in 1 .. Len(asks')
                         /\ asks'[s] = asks'[sent.id]
                  /\ sent.kind \in {"comment", "deny"} => \A s \in sent.words : s = sent.id
    <3>1. CASE g = f
      BY <1>8, <1>9, <2>1, <3>1
    <3>2. CASE g # f
      BY <2>1, <2>2, <3>2 DEF ScreenInv, SentOK
    <3> QED
      BY <3>1, <3>2
  <2> QED
    BY <2>2 DEF SentOK
<1>13. LeftOK'
  <2>1. left \in [{"posts", "others", "rounds", "mockups"} -> Nat]
    BY DEF ScreenInv, LeftOK
  <2> QED
    BY <1>2, <2>1 DEF LeftOK
<1> QED
  BY <1>2, <1>4, <1>10, <1>11, <1>12, <1>13, ScreenChanges

(* The button of the error alert fetches the session and holds nothing.     *)
LEMMA ContinueHolds ==
  ASSUME ScreenInv, Continue
  PROVE  ScreenInv'
<1> DEFINE f == Min(Idles)
           flow == [Over EXCEPT !.via = "look", !.pc = "get", !.post = NoPost]
<1>1. /\ Idles # {} /\ flows' = [flows EXCEPT ![f] = flow]
      /\ UNCHANGED <<session, asks, left>> /\ page' = page /\ cards' = cards
  BY DEF Continue, Start, screen
<1>2. f \in FlowIds /\ flows[f].pc = "idle"
  BY <1>1, FirstIdle
<1> HIDE DEF f
<1>3. page \in Page /\ flows[f] \in Flow /\ flows[f].via # "act" /\ ~flows[f].watched
  BY <1>2, MarksAreSet
<1>4. flow \in Flow /\ flow.via = "look" /\ flow.pc = "get" /\ ~flow.watched
  <2>1. NoPost \in [kind : Kinds, id : Nat, words : SUBSET Nat]
    BY DEF NoPost, Post, Kinds
  <2> QED
    BY <2>1, UnreadIsFound DEF Flow, Over
<1> HIDE DEF flow
<1>5. FlowsOK'
  <2>1. Marks(f, flow)
    BY <1>1, <1>3, <1>4 DEF Marks
  <2>2. FlowsOK
    BY DEF ScreenInv
  <2> QED
    BY <1>1, <1>2, <1>3, <1>4, <2>1, <2>2, FlowMoves
<1>6. SentOK'
  <2>1. \A g \in FlowIds : flows'[g].pc \in Asking => flows'[g] = flows[g]
    BY <1>1, <1>2, <1>4 DEF ScreenInv, FlowsOK, Asking
  <2> QED
    BY <1>1, <2>1 DEF ScreenInv, SentOK
<1>7. SessionOK' /\ AsksOK' /\ LeftOK' /\ DetailOK'
  BY <1>1 DEF session, ScreenInv, SessionOK, AsksOK, LeftOK, DetailOK, Reviewed
<1>8. CardsOK'
  BY <1>1 DEF ScreenInv, CardsOK, FitCard, About, InPlace
<1> QED
  BY <1>5, <1>6, <1>7, <1>8 DEF ScreenInv

(* Nothing happens to what does not change.                                 *)
LEMMA StutterHolds ==
  ASSUME ScreenInv, UNCHANGED vars
  PROVE  ScreenInv'
<1>1. /\ UNCHANGED <<session, asks, left>> /\ page' = page /\ cards' = cards /\ flows' = flows
  BY DEF vars, screen
<1>2. SessionOK' /\ AsksOK' /\ LeftOK' /\ DetailOK'
  BY <1>1 DEF session, ScreenInv, SessionOK, AsksOK, LeftOK, DetailOK, Reviewed
<1>3. CardsOK'
  BY <1>1 DEF ScreenInv, CardsOK, FitCard, About, InPlace
<1>4. FlowsOK' /\ SentOK'
  BY <1>1 DEF ScreenInv, FlowsOK, SentOK, OnlyOne, ActFlows, WatchFlows
<1> QED
  BY <1>2, <1>3, <1>4 DEF ScreenInv

(* Every step keeps the invariant.                                          *)
LEMMA NextHolds ==
  ASSUME ScreenInv, [Next]_vars
  PROVE  ScreenInv'
<1>1. CASE Requester
  BY <1>1, WritingHolds, SendHolds, ContinueHolds DEF Requester
<1>2. CASE Others \/ Work \/ \E f \in FlowIds : Receive(f) \/ Handle(f)
  BY <1>2, ServerHolds
<1>3. ASSUME NEW f \in FlowIds, Resumes(f) PROVE ScreenInv'
  BY <1>3, ResumesHolds
<1>4. CASE UNCHANGED vars
  BY <1>4, StutterHolds
<1> QED
  BY <1>1, <1>2, <1>3, <1>4 DEF Next

(* A page that is opened has it.                                            *)
LEMMA InitHolds ==
  ASSUME Init
  PROVE  ScreenInv
<1>1. PICK scene \in Scenes :
        /\ status = scene.status /\ processing = scene.processing /\ pending = FALSE
        /\ asks = scene.asks /\ round = Len(scene.asks) /\ count = round
        /\ answered = scene.answered /\ doc = (status \in {"documented", "mockup"})
        /\ mockup = scene.mockup /\ open = scene.open /\ decided = FALSE
        /\ left = scene.left
  BY DEF Init
<1>2. /\ scene.status \in Statuses \ {"absent"}
      /\ scene.processing \in BOOLEAN /\ scene.answered \in BOOLEAN /\ scene.open \in BOOLEAN
      /\ scene.asks \in Seq(Nat \X Firsts) /\ scene.mockup \in Nat
      /\ scene.asks # <<>> => scene.asks[Len(scene.asks)][1] = Len(scene.asks)
      /\ scene.left \in [{"posts", "others", "rounds", "mockups"} -> Nat]
      /\ scene.status = "intake" => scene.processing
      /\ scene.mockup > 0 \/ scene.open => scene.status \in {"documented", "mockup"}
  BY SceneAssumption
<1>3. round \in Nat /\ (round > 0 => scene.asks # <<>>)
  <2>1. Len(scene.asks) \in Nat
    BY <1>2, LenProperties
  <2> QED
    BY <1>1, <2>1, EmptySeq
<1>4. SessionOK
  <2>1. doc \in BOOLEAN /\ (doc <=> status \in {"documented", "mockup"})
    <3> DEFINE published == status \in {"documented", "mockup"}
    <3>1. doc = published /\ published \in BOOLEAN
      BY <1>1
    <3> HIDE DEF published
    <3>2. doc \in BOOLEAN /\ (doc <=> published)
      BY <3>1
    <3> QED
      BY <3>2 DEF published
  <2>2. /\ status \in Statuses \ {"absent"} /\ processing \in BOOLEAN /\ pending \in BOOLEAN
        /\ answered \in BOOLEAN /\ open \in BOOLEAN /\ decided \in BOOLEAN
        /\ round \in Nat /\ count \in Nat /\ mockup \in Nat
    BY <1>1, <1>2, <1>3
  <2>3. mockup > 0 \/ open => status \in {"documented", "mockup"}
    BY <1>1, <1>2
  <2>4. status = "intake" => processing
    BY <1>1, <1>2
  <2> QED
    BY <2>1, <2>2, <2>3, <2>4 DEF SessionOK, Reviewed
<1>5. AsksOK /\ LeftOK
  BY <1>1, <1>2, <1>3 DEF AsksOK, LeftOK
<1>6. page.detail = NoDetail /\ page \in Page /\ ~page.busy /\ ~page.watching
  BY DEF Init, Page, Detail, NoDetail
<1>7. DetailOK
  <2>1. page.detail.round = 0 /\ page.detail.status = "absent"
    BY <1>6 DEF NoDetail
  <2>2. 0 \in 0 .. Len(asks)
    BY <1>1, <1>3
  <2> QED
    BY <1>6, <2>1, <2>2 DEF DetailOK
<1>8. CardsOK
  <2>1. cards = [c \in Cards |-> Unmounted]
    BY DEF Init
  <2>2. Shown(page) = {}
    BY <1>6 DEF Shown, NoDetail
  <2> QED
    BY <2>1, <2>2, UnmountedFits DEF CardsOK, InPlace
<1>9. FlowsOK /\ SentOK
  <2>1. NoPost \in [kind : Kinds, id : Nat, words : SUBSET Nat]
    BY DEF NoPost, Post, Kinds
  <2>2. flows = [f \in FlowIds |-> IF f = 1 THEN [Over EXCEPT !.via = "boot", !.pc = "get"] ELSE Over]
    BY DEF Init
  <2>3. /\ flows \in [FlowIds -> Flow]
        /\ \A f \in FlowIds : /\ flows[f].pc \in {"idle", "get"} /\ flows[f].via # "act"
                              /\ ~flows[f].watched
    BY <2>1, <2>2, UnreadIsFound DEF Flow, Over
  <2>4. ActFlows = {} /\ WatchFlows = {}
    BY <2>3 DEF ActFlows, WatchFlows
  <2> QED
    BY <1>6, <2>3, <2>4 DEF FlowsOK, SentOK, OnlyOne, Asking
<1> QED
  BY <1>4, <1>5, <1>7, <1>8, <1>9 DEF ScreenInv

(* The page's invariant holds, whatever others do to the session.           *)
THEOREM ScreenInvariance == Spec => []ScreenInv
<1>1. Init => ScreenInv
  BY InitHolds
<1>2. ScreenInv /\ [Next]_vars => ScreenInv'
  BY NextHolds
<1> QED
  BY <1>1, <1>2, PTL DEF Spec

-----------------------------------------------------------------------------
(* What the invariant says of the page.                                     *)

(* What one has at most is counted 1 or 0.                                  *)
LEMMA CountOne ==
  ASSUME NEW flag \in BOOLEAN, NEW S, OnlyOne(flag, S)
  PROVE  Cardinality(S) = IF flag THEN 1 ELSE 0
<1>1. CASE flag
  <2>1. PICK f \in S : S = {f}
    BY <1>1 DEF OnlyOne
  <2> QED
    BY <1>1, <2>1, FS_Singleton
<1>2. CASE ~flag
  <2>1. S = {}
    BY <1>2 DEF OnlyOne
  <2> QED
    BY <1>2, <2>1, FS_EmptySet
<1> QED
  BY <1>1, <1>2

(* The cards have their types.                                              *)
LEMMA CardIsCard ==
  ASSUME NEW c \in Cards, NEW card, FitCard(c, card)
  PROVE  IsCard(card)
<1>1. /\ card \in CardsOf({card.key}) /\ Len(card.key) \in 0 .. 2
      /\ Len(card.words) \in {0, 1, Asked}
  BY DEF FitCard
<1>2. card.words \in Seq(Nat) /\ card.seen \in Nat /\ card.decided \in BOOLEAN
  BY <1>1 DEF CardsOf
<1>3. DOMAIN card = {"key", "seen", "decided", "words"}
  BY <1>1 DEF CardsOf
<1>4. \A i \in DOMAIN card.words : card.words[i] \in Nat
  BY <1>2, ElementOfSeq, LenProperties
<1> QED
  BY <1>1, <1>2, <1>3, <1>4 DEF IsCard

(* So has everything.                                                       *)
LEMMA TypesHold ==
  ASSUME ScreenInv
  PROVE  TypeOK
<1>1. \A c \in Cards : IsCard(cards[c])
  BY CardIsCard DEF ScreenInv, CardsOK
<1>2. status \in Statuses /\ {processing, pending, answered, doc, open, decided} \subseteq BOOLEAN
  BY DEF ScreenInv, SessionOK
<1>3. {round, count, mockup} \subseteq Nat
  BY DEF ScreenInv, SessionOK
<1> QED
  BY <1>1, <1>2, <1>3 DEF ScreenInv, TypeOK, AsksOK, LeftOK, FlowsOK, DetailOK

(* The controls are locked while exactly one call of act runs, and the      *)
(* session is watched by one function at most (page.tsx act, setBusy,       *)
(* watchThenRefetch).                                                       *)
THEOREM BusyExactly == Spec => []BusyIsExact
<1>1. ASSUME ScreenInv PROVE BusyIsExact
  <2>1. page.busy \in BOOLEAN /\ page.watching \in BOOLEAN
    BY <1>1 DEF ScreenInv, DetailOK, Page
  <2>2. OnlyOne(page.busy, ActFlows) /\ OnlyOne(page.watching, WatchFlows)
    BY <1>1 DEF ScreenInv, FlowsOK
  <2>3. /\ Cardinality(ActFlows) = IF page.busy THEN 1 ELSE 0
        /\ Cardinality(WatchFlows) = IF page.watching THEN 1 ELSE 0
    BY <2>1, <2>2, CountOne
  <2>4. TypeOK
    BY <1>1, TypesHold
  <2> QED
    BY <2>3, <2>4 DEF BusyIsExact, ActFlows, WatchFlows
<1> QED
  BY <1>1, ScreenInvariance, PTL

(* On a screen that is up to date and has nothing under way, page and       *)
(* server see the same session.                                             *)
LEMMA UpToDateAgrees ==
  ASSUME ScreenInv, UpToDate
  PROVE  /\ page \in Page /\ ~page.busy /\ ~page.notFound
         /\ page.detail.status = status /\ page.detail.processing = processing
         /\ page.detail.pending = pending /\ page.detail.round = round
         /\ Reviewed => /\ page.detail.mockup = mockup /\ page.detail.open = open
                        /\ page.detail.decided = decided
<1>1. page \in Page /\ ~page.notFound /\ page.detail = DetailNow
  BY DEF ScreenInv, DetailOK, UpToDate
<1>2. ~page.busy
  <2>1. \A f \in FlowIds : flows[f].pc = "idle"
    BY DEF UpToDate, Settled, Idles
  <2>2. ActFlows = {}
    BY <2>1 DEF ScreenInv, FlowsOK, ActFlows
  <2> QED
    BY <1>1, <2>2 DEF ScreenInv, FlowsOK, OnlyOne
<1> QED
  BY <1>1, <1>2, DetailNowFits DEF ScreenInv

(* Offer by offer: what the page judged by is what the handler judges by.   *)
LEMMA OffersTaken ==
  ASSUME ScreenInv, UpToDate, ~Stuck, NEW post \in Offers(page, cards)
  PROVE  Admitted(post) \/ (post.kind = "deny" /\ status = "mockup")
<1>1. /\ page \in Page /\ ~page.busy /\ ~page.notFound
      /\ page.detail.status = status /\ page.detail.processing = processing
      /\ page.detail.pending = pending /\ page.detail.round = round
      /\ Reviewed => /\ page.detail.mockup = mockup /\ page.detail.open = open
                     /\ page.detail.decided = decided
  BY UpToDateAgrees
<1>2. /\ processing \in BOOLEAN /\ round \in Nat /\ mockup \in Nat
      /\ Reviewed => doc
  BY DEF ScreenInv, SessionOK
<1>3. CASE "retry" \in Shown(page) /\ post = Post("retry", 0, {})
  <2>1. pending /\ ~processing
    BY <1>1, <1>3, ShownWhere
  <2> QED
    BY <1>3, <2>1 DEF Admitted, Awaited, Passes, Read, Post
<1>4. CASE "wizard" \in Shown(page) /\ post = From(cards["wizard"], "reply", page.detail.round)
  <2>1. status = "clarifying" /\ ~pending /\ ~processing
    BY <1>1, <1>4, ShownWhere
  <2>2. ~answered
    BY <2>1 DEF Stuck
  <2>3. post.kind = "reply" /\ post.id = round
    BY <1>1, <1>4 DEF From, Post
  <2>4. ReplyTaken(post.id) /\ (post.id = 0 => status # "clarifying" \/ round = 0)
    BY <2>2, <2>3 DEF ReplyTaken
  <2> QED
    BY <2>1, <2>3, <2>4 DEF Admitted, Awaited, Passes, Read
<1>5. CASE "hold" \in Shown(page) /\ post = Post("reply", 0, {})
  <2>1. status = "closed" /\ ~processing
    BY <1>1, <1>5, ShownWhere
  <2>2. post.kind = "reply" /\ post.id = 0 /\ ReplyTaken(post.id)
    BY <1>5 DEF Post, ReplyTaken
  <2> QED
    BY <2>1, <2>2 DEF Admitted, Awaited, Passes, Read
<1>6. CASE "document" \in Shown(page) /\ post \in {Post("edit", 0, {}), Post("instruct", 0, {})}
  <2>1. Reviewed /\ ~processing
    BY <1>1, <1>6, ShownWhere DEF Reviewed
  <2>2. doc /\ post.kind \in {"edit", "instruct"}
    BY <1>2, <1>6, <2>1 DEF Post
  <2>3. CASE post.kind = "edit"
    BY <2>2, <2>3 DEF Admitted, Awaited, Passes, Read
  <2>4. CASE post.kind = "instruct"
    BY <2>1, <2>2, <2>4 DEF Admitted, Awaited, Passes, Read
  <2> QED
    BY <2>2, <2>3, <2>4
<1>7. CASE "review" \in Shown(page) /\ post = Post("confirm", 0, {})
  <2>1. Reviewed
    BY <1>1, <1>7, ShownWhere DEF Reviewed
  <2> QED
    BY <1>7, <2>1 DEF Admitted, Awaited, Passes, Read, Post
<1>8. CASE /\ "review" \in Shown(page)
           /\ \E slot \in SlotNumbers : post = From(cards["review"], "deny", slot)
  <2>1. Reviewed /\ ~processing /\ post.kind = "deny"
    BY <1>1, <1>8, ShownWhere DEF Reviewed, From, Post
  <2> QED
    BY <2>1 DEF Admitted, Awaited, Passes, Read, Reviewed
<1>9. CASE \E c \in {"panel", "archive"} :
              /\ c \in Shown(page) /\ cards[c].seen # 0
              /\ post = From(cards[c], "comment", cards[c].seen)
  <2>1. PICK c \in {"panel", "archive"} :
              /\ c \in Shown(page) /\ cards[c].seen # 0
              /\ post = From(cards[c], "comment", cards[c].seen)
    BY <1>9
  <2>2. Reviewed /\ ~processing /\ page.detail.mockup > 0
    BY <1>1, <2>1, ShownWhere DEF Reviewed
  <2>3. cards[c].seen = mockup
    BY <2>1, MountedIsShown DEF UpToDate, Cards
  <2>4. post.kind = "comment" /\ post.id = mockup /\ mockup > 0
    BY <1>1, <2>1, <2>2, <2>3 DEF From, Post
  <2> QED
    BY <2>2, <2>4 DEF Admitted, Awaited, Passes, Read
<1>10. CASE "panel" \in Shown(page) /\ post = Post("theme", 0, {})
  <2>1. Reviewed /\ open
    BY <1>1, <1>10, ShownWhere DEF Reviewed
  <2> QED
    BY <1>10, <2>1 DEF Admitted, Awaited, Passes, Read, Post
<1>11. CASE "panel" \in Shown(page) /\ cards["panel"].decided /\ post = Post("approve", 0, {})
  <2>1. Reviewed /\ open /\ ~processing
    BY <1>1, <1>11, ShownWhere DEF Reviewed
  <2>2. decided
    BY <1>11, MountedIsShown DEF UpToDate, Cards
  <2> QED
    BY <1>11, <2>1, <2>2 DEF Admitted, Awaited, Passes, Read, Post
<1> QED
  BY <1>1, <1>3, <1>4, <1>5, <1>6, <1>7, <1>8, <1>9, <1>10, <1>11, OfferedBy

(* Whatever an up-to-date screen offers, the server takes, but for the two  *)
(* offers that are known to be refused (page.tsx, the handlers' 409).       *)
THEOREM OffersTakenAlways == Spec => []OffersAreTaken
<1>1. ScreenInv => OffersAreTaken
  BY OffersTaken DEF OffersAreTaken
<1> QED
  BY <1>1, ScreenInvariance, PTL

(* Stage by stage: a dead round its retry, a question its answer, a hold its*)
(* resumption, a document its confirmation.                                 *)
LEMMA WayOn ==
  ASSUME ScreenInv, UpToDate, ~processing, ~Stuck
  PROVE  \E post \in Offers(page, cards) : Admitted(post)
<1>1. /\ page \in Page /\ ~page.busy /\ ~page.notFound
      /\ page.detail.status = status /\ page.detail.processing = processing
      /\ page.detail.pending = pending /\ page.detail.round = round
  BY UpToDateAgrees
<1>2. /\ status \in {"intake", "clarifying", "documented", "mockup", "closed"}
      /\ status = "intake" => pending
  BY DEF ScreenInv, SessionOK, Statuses
<1>3. Failed(page) <=> pending
  BY <1>1 DEF Failed
<1>4. ASSUME NEW c, c \in Shown(page), NEW post,
             \/ c = "retry" /\ post \in RetryOffers
             \/ c = "wizard" /\ post \in WizardOffers(page, cards[c])
             \/ c = "hold" /\ post \in HoldOffers(page)
             \/ c = "review" /\ post \in ReviewOffers(page, cards[c])
      PROVE  post \in Offers(page, cards)
  BY <1>4 DEF Offers
<1>5. CASE pending /\ status # "closed"
  <2>1. "retry" \in Shown(page)
    BY <1>1, <1>2, <1>3, <1>5 DEF Shown
  <2>2. Post("retry", 0, {}) \in RetryOffers
    BY DEF RetryOffers
  <2>3. Admitted(Post("retry", 0, {}))
    BY <1>5 DEF Admitted, Awaited, Passes, Read, Post
  <2> QED
    BY <1>4, <2>1, <2>2, <2>3
<1>6. CASE ~pending /\ status = "clarifying"
  <2>1. "wizard" \in Shown(page)
    BY <1>1, <1>3, <1>6 DEF Shown
  <2> DEFINE post == From(cards["wizard"], "reply", page.detail.round)
  <2>2. post \in WizardOffers(page, cards["wizard"])
    BY DEF WizardOffers
  <2>3. post \in Offers(page, cards) /\ post.kind = "reply"
    BY <1>4, <2>1, <2>2 DEF From, Post
  <2> HIDE DEF post
  <2>4. Admitted(post)
    BY <1>6, <2>3, OffersTaken
  <2> QED
    BY <2>3, <2>4
<1>7. CASE status = "closed"
  <2>1. "hold" \in Shown(page)
    BY <1>1, <1>7 DEF Shown
  <2>2. Post("reply", 0, {}) \in HoldOffers(page)
    BY DEF HoldOffers, Resumption
  <2>3. Admitted(Post("reply", 0, {}))
    BY <1>7 DEF Admitted, Awaited, Passes, Read, Post, ReplyTaken
  <2> QED
    BY <1>4, <2>1, <2>2, <2>3
<1>8. CASE ~pending /\ status \in {"documented", "mockup"}
  <2>1. "review" \in Shown(page)
    BY <1>1, <1>3, <1>8 DEF Shown
  <2>2. Post("confirm", 0, {}) \in ReviewOffers(page, cards["review"])
    BY <1>1, <1>3, <1>8 DEF ReviewOffers, Submitting
  <2>3. Admitted(Post("confirm", 0, {}))
    BY <1>8 DEF Admitted, Awaited, Passes, Read, Post, Reviewed
  <2> QED
    BY <1>4, <2>1, <2>2, <2>3
<1> QED
  BY <1>2, <1>5, <1>6, <1>7, <1>8

(* An up-to-date screen of a session at rest offers something the server    *)
(* takes (roundFailed, HoldCard, QuestionWizard, SlotReview).               *)
THEOREM WayForwardAlways == Spec => []WayForward
<1>1. ScreenInv => WayForward
  BY WayOn DEF WayForward
<1> QED
  BY <1>1, ScreenInvariance, PTL

(* A step by which the server takes a request is one of its own, of a       *)
(* request that it admits.                                                  *)
LEMMA TakenByHandle ==
  ASSUME ScreenInv, [Next]_vars, NEW f \in FlowIds,
         flows[f].pc # "taken", flows'[f].pc = "taken"
  PROVE  Handle(f)
<1>1. flows \in [FlowIds -> Flow]
  BY DEF ScreenInv, FlowsOK
<1>2. flows' # flows
  OBVIOUS
<1>3. ~(Others \/ Work \/ UNCHANGED vars)
  BY <1>2 DEF Others, Work, vars
<1>4. ~(Answer \/ Resume \/ TypeComment \/ TypeCorrection \/ Toggle \/ Load)
  BY <1>2 DEF Answer, Resume, TypeComment, TypeCorrection, Toggle, Load, Write, Stay
<1>5. ~(Send \/ Continue)
  <2>1. ASSUME NEW via, NEW pc \in {"sent", "get"}, NEW post, Start(via, pc, post) PROVE FALSE
    BY <1>1, <2>1 DEF Start, Over
  <2> QED
    BY <2>1 DEF Send, Continue
<1>6. ASSUME NEW g \in FlowIds, Resumes(g) PROVE FALSE
  <2>1. ASSUME NEW flow, Becomes(g, flow), flow.pc # "taken" PROVE FALSE
    BY <1>1, <2>1 DEF Becomes
  <2>2. /\ flows[g] \in Flow
        /\ Over.pc # "taken"
        /\ [flows[g] EXCEPT !.pc = "get"].pc # "taken"
        /\ [flows[g] EXCEPT !.pc = "get", !.post = NoPost].pc # "taken"
        /\ [flows[g] EXCEPT !.pc = "get", !.post = NoPost, !.found = Unread].pc # "taken"
        /\ [flows[g] EXCEPT !.pc = "watch", !.post = NoPost, !.watched = TRUE].pc # "taken"
    BY <1>1, FlowShapes
  <2>3. ASSUME NEW newpage, Follow(g, newpage) PROVE FALSE
    BY <2>1, <2>2, <2>3 DEF Follow
  <2>4. ASSUME NEW newpage, Refetched(g, newpage) PROVE FALSE
    BY <2>1, <2>2, <2>3, <2>4 DEF Refetched
  <2> QED
    BY <1>6, <2>1, <2>2, <2>3, <2>4 DEF Resumes, Accepted, Rejected, WatchEnds, Arrive
<1>7. ASSUME NEW g \in FlowIds, Receive(g) PROVE FALSE
  BY <1>1, <1>7 DEF Receive
<1>8. PICK g \in FlowIds : Handle(g)
  BY <1>3, <1>4, <1>5, <1>6, <1>7 DEF Next, Requester
<1>9. g = f
  BY <1>1, <1>8 DEF Handle
<1> QED
  BY <1>8, <1>9

(* A request that is taken is about what it is taken for, or, if a comment, *)
(* about what was the latest mockup before its body was awaited (key of     *)
(* QuestionWizard, stale_round, stale_mockup).                               *)
THEOREM WordsMeet == Spec => WordsMeetTheirSubject
<1> DEFINE Meets ==
      \A f \in FlowIds : flows[f].pc # "taken" /\ flows'[f].pc = "taken" =>
         LET post == flows[f].post
         IN \A subject \in post.words :
              /\ post.kind = "reply" => asks[subject] = asks[round]
              /\ post.kind = "deny" => subject = post.id
              /\ post.kind = "comment" => subject = flows[f].found.mockup
<1>1. ASSUME ScreenInv, [Next]_vars PROVE Meets
  <2> SUFFICES ASSUME NEW f \in FlowIds, flows[f].pc # "taken", flows'[f].pc = "taken",
                      NEW subject \in flows[f].post.words
               PROVE  /\ flows[f].post.kind = "reply" => asks[subject] = asks[round]
                      /\ flows[f].post.kind = "deny" => subject = flows[f].post.id
                      /\ flows[f].post.kind = "comment" => subject = flows[f].found.mockup
    OBVIOUS
  <2> DEFINE post == flows[f].post
             found == flows[f].found
  <2>1. Passes(post, found) /\ flows[f].pc \in Asking
    BY <1>1, TakenByHandle DEF Handle, Asking
  <2>2. /\ post.kind = "reply" =>
             /\ subject \in 1 .. Len(asks) /\ post.id \in 1 .. Len(asks)
             /\ asks[subject] = asks[post.id]
        /\ post.kind \in {"comment", "deny"} => subject = post.id
    BY <1>1, <2>1 DEF ScreenInv, SentOK
  <2> HIDE DEF post, found
  <2>3. ASSUME post.kind = "reply" PROVE asks[subject] = asks[round]
    <3>1. ReplyTaken(post.id)
      BY <2>1, <2>3 DEF Passes
    <3>2. post.id # 0
      BY <2>2, <2>3
    <3> QED
      BY <2>2, <2>3, <3>1, <3>2 DEF ReplyTaken
  <2>4. ASSUME post.kind = "comment" PROVE subject = found.mockup
    BY <2>1, <2>2, <2>4 DEF Passes
  <2> QED
    BY <2>2, <2>3, <2>4 DEF post, found
<1> HIDE DEF Meets
<1>2. Spec => [][Meets]_vars
  BY <1>1, ScreenInvariance, PTL DEF Spec
<1> QED
  BY <1>2 DEF Meets, WordsMeetTheirSubject
=============================================================================
