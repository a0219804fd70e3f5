---------------------------- MODULE SessionCards ----------------------------
(***************************************************************************)
(* What the session page of web-ui/ shows of a session: which cards are    *)
(* rendered, what unmounts a card or gives it a new key, and which requests *)
(* its enabled controls would send.                                         *)
(*                                                                         *)
(* The words a requester writes are their subject: the round, the mockup or *)
(* the slot that stood on the screen when they were written, 0 for none.    *)
(* The document card has a module of its own (DocumentCard).                *)
(***************************************************************************)
EXTENDS Naturals, Sequences, FiniteSets

CONSTANTS
  Firsts,      \* first questions a round may have
  Asked,       \* number of questions of a round
  SlotNumbers  \* slots that the review lists

ASSUME CardAssumption ==
  /\ Asked \in Nat \ {0} /\ SlotNumbers \subseteq Nat \ {0}
  /\ IsFiniteSet(Firsts) /\ "none" \notin Firsts

(* the answer of GET /api/sessions/:id, as far as the page decides by it *)
Detail == [status: {"absent", "intake", "clarifying", "documented", "mockup", "closed"},
           processing: BOOLEAN, pending: BOOLEAN,
           round: Nat, count: Nat, first: Firsts \cup {"none"},
           mockup: Nat, open: BOOLEAN, decided: BOOLEAN]

NoDetail == [status |-> "absent", processing |-> FALSE, pending |-> FALSE,
             round |-> 0, count |-> 0, first |-> "none",
             mockup |-> 0, open |-> FALSE, decided |-> FALSE]

Page == [detail: Detail, notFound: BOOLEAN, busy: BOOLEAN, error: BOOLEAN, watching: BOOLEAN]

----------------------------------------------------------------------------
(* Rendering *)

(* mutant: a dead round shows while something runs, not when nothing does *)
Mut_Failed(page) == page.detail.pending /\ (page.detail.processing \/ page.busy)

(* roundFailed *)
Failed(page) == page.detail.pending /\ ~(page.detail.processing \/ page.busy)

Submitting(page) == page.busy \/ Failed(page)

(* mockupCardMode *)
MockupCard(detail) ==
  IF detail.mockup = 0 THEN {} ELSE IF detail.open THEN {"panel"} ELSE {"archive"}

(* mutant: the cards stay on the screen while a request of theirs runs *)
Mut_Shown(page) ==
  LET detail == page.detail
      retry == IF Failed(page) THEN {"retry"} ELSE {}
  IN IF page.notFound THEN {}
     ELSE CASE detail.status = "absent" -> {}
            [] detail.status = "intake" -> {"ack"} \cup retry
            [] detail.status # "intake" /\ detail.processing -> {"waiting"}
            [] OTHER ->
                 retry \cup
                 CASE detail.status = "clarifying" -> IF Failed(page) THEN {} ELSE {"wizard"}
                   [] detail.status \in {"mockup", "documented"} ->
                        {"review", "document"} \cup MockupCard(detail)
                   [] detail.status = "closed" -> {"hold"}

(* the card of a dead round is a button of the ack card until there is a    *)
(* round                                                                     *)
Shown(page) ==
  LET detail == page.detail
      retry == IF Failed(page) THEN {"retry"} ELSE {}
  IN IF page.notFound THEN {}
     ELSE CASE detail.status = "absent" -> {}
            [] detail.status = "intake" -> {"ack"} \cup retry
            [] detail.status # "intake" /\ (page.busy \/ detail.processing) -> {"waiting"}
            [] OTHER ->
                 retry \cup
                 CASE detail.status = "clarifying" -> IF Failed(page) THEN {} ELSE {"wizard"}
                   [] detail.status \in {"mockup", "documented"} ->
                        {"review", "document"} \cup MockupCard(detail)
                   [] detail.status = "closed" -> {"hold"}

----------------------------------------------------------------------------
(* Cards with a state of their own *)

Cards == {"wizard", "panel", "archive", "review", "hold"}

IsCard(card) ==
  /\ DOMAIN card = {"key", "seen", "decided", "words"}
  /\ Len(card.key) \in 0..2
  /\ card.seen \in Nat       \* the mockup read, or the slot to correct
  /\ card.decided \in BOOLEAN  \* its theme is decided, as it was read
  /\ Len(card.words) \in {0, 1, Asked} /\ \A i \in DOMAIN card.words : card.words[i] \in Nat

(* mutant: the wizard has no key *)
Mut_Key(card, detail) ==
  CASE card = "wizard"  -> <<0>>
    [] card = "panel"   -> <<detail.mockup, detail.decided>>
    [] card = "archive" -> <<"v", detail.mockup>>
    [] card = "review"  -> <<detail.status, 0>>
    [] card = "hold"    -> <<0>>

(* what tells React that a card is another one.  The review has no key; it  *)
(* stands in another place of each stage.                                    *)
Key(card, detail) ==
  CASE card = "wizard"  -> <<detail.count, detail.first>>
    [] card = "panel"   -> <<detail.mockup, detail.decided>>
    [] card = "archive" -> <<"v", detail.mockup>>
    [] card = "review"  -> <<detail.status, 0>>
    [] card = "hold"    -> <<0>>

Unmounted == [key |-> <<>>, seen |-> 0, decided |-> FALSE, words |-> <<>>]

Fresh(card, detail) ==
  [key |-> Key(card, detail), seen |-> 0, decided |-> FALSE,
   words |-> [i \in 1..(IF card = "wizard" THEN Asked ELSE 1) |-> 0]]

Rendered(cards, page) ==
  [c \in Cards |->
     IF c \notin Shown(page) THEN Unmounted
     ELSE IF cards[c].key = Key(c, page.detail) THEN cards[c] ELSE Fresh(c, page.detail)]

Mounted(cards, c) == cards[c].key # <<>>

(* isComplete: no answer is missing *)
Complete(card) == \A i \in DOMAIN card.words : card.words[i] # 0

Written(card, i, subject) == [card EXCEPT !.words[i] = subject]
Cleared(card) == [card EXCEPT !.words[1] = 0]

(* the button of a slot opens its text, empty, or closes it *)
Toggled(card, slot) == [Cleared(card) EXCEPT !.seen = IF @ = slot THEN 0 ELSE slot]

----------------------------------------------------------------------------
(* Requests (lib/api.ts): what is asked of the server, the round, mockup or *)
(* slot it names, and the subjects of its words                              *)

Kinds == {"none", "reply", "deny", "confirm", "comment", "theme", "approve",
          "instruct", "edit", "retry"}
Post(kind, id, words) == [kind |-> kind, id |-> id, words |-> words]
NoPost == Post("none", 0, {})

(* those that go through act: everything the LLM works on, but a retry *)
Acts == {"reply", "deny", "comment", "approve", "instruct"}

Subjects(card) == {card.words[i] : i \in DOMAIN card.words}

(* mutant: a resumption names the round the page knows of *)
Mut_Resumption(detail) == Post("reply", detail.round, {})

Resumption(detail) == Post("reply", 0, {})

(* what the enabled controls of each card would send, were their texts      *)
(* written                                                                   *)
From(card, kind, id) == Post(kind, id, Subjects(card))

RetryOffers == {Post("retry", 0, {})}

WizardOffers(page, card) == {From(card, "reply", page.detail.round)}

HoldOffers(page) == {Resumption(page.detail)}

DocumentOffers(page) ==
  {Post("edit", 0, {})} \cup (IF Submitting(page) THEN {} ELSE {Post("instruct", 0, {})})

ReviewOffers(page, card) ==
  IF Submitting(page) THEN {}
  ELSE {Post("confirm", 0, {})} \cup {From(card, "deny", slot) : slot \in SlotNumbers}

(* the mockup cards show nothing before their own state is there *)
PanelOffers(page, card) ==
  IF Submitting(page) \/ card.seen = 0 THEN {}
  ELSE {From(card, "comment", card.seen), Post("theme", 0, {})}
         \cup (IF card.decided THEN {Post("approve", 0, {})} ELSE {})

ArchiveOffers(page, card) ==
  IF Submitting(page) \/ card.seen = 0 THEN {} ELSE {From(card, "comment", card.seen)}

Offers(page, cards) ==
  UNION {CASE c = "retry"    -> RetryOffers
           [] c = "wizard"   -> WizardOffers(page, cards[c])
           [] c = "hold"     -> HoldOffers(page)
           [] c = "document" -> DocumentOffers(page)
           [] c = "review"   -> ReviewOffers(page, cards[c])
           [] c = "panel"    -> PanelOffers(page, cards[c])
           [] c = "archive"  -> ArchiveOffers(page, cards[c])
           [] OTHER          -> {} : c \in Shown(page)}
=============================================================================
