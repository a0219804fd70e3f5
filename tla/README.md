# pm-jude, specified

TLA+ models of pm-jude, a PM intake agent: a requester describes what they
need, an LLM asks back, judges whether the request is complete, writes a
requirements document, and draws mockups the requester comments on and
approves. The *code* decides every transition (ADR-0001); these modules model
that code. Paths below are relative to the repository.

## 1. The system

| Part | State | Operations | Talks to |
|---|---|---|---|
| Intake runner `src/runner/core-runner.ts` | none of its own: rows and signals in the store | open, clarify, reply, confirm/deny a slot, correct a document, comment/theme/approve a mockup, retry | store (synchronous), gateway (awaited), channel port |
| Web adapter `src/web/server.ts` | `inFlight` (one background operation per session), event-stream subscribers | HTTP handlers, `runInBackground` | runner, store |
| LLM gateway `src/gateway/gateway.ts` | `active`, `waiters` | `complete` (limit, attempts, timeout) | backend |
| Session store `src/store/*` | SQLite rows: session, utterance, slot state, document, mockup, annotation, signal, attachment | append, update, list | - |
| Completeness judgement `src/prompts/completeness-v0.ts` | - | rule layer, rubric | - |
| Document addresses `src/document/path.ts` | - | read and rewrite an addressed element | - |
| Attachments, extractors, Notion | files and attachment rows | put, extract, fetch; condensation in the runner | store, gateway |
| Slack runner `src/runner/slack-runner.ts`, `src/cli/slack.ts` | none: every event is handled as it comes | mention, reply in a thread | runner, Slack |
| Local runner | none | one question and answer after the other | runner |
| Web interface `web-ui/` | the browser's list of sessions; per page the last answer of the server, what is typed, the requests under way | session screen, document card, home page with form and picker, event stream | web adapter |
| Prompts, mockup rendering, trace, analysis, development site, logs, CLI | - | data, rendering, reports, wiring | - |

What is hard here: one process, no threads, but every LLM call suspends an
operation for seconds to minutes. Meanwhile the handlers that pass no gate
(document edit, slot confirmation, theme choice) run to their end; a handler
that awaits a request body goes on with what it saw before; a call may fail or
time out at every stage and the requester retries; a restart forgets what was
in flight. The rules that must survive this are bookkeeping across several
rows: the round budget with its resumptions, the iteration budget with its
segments, "is this round answered", "what died", completion per version. In
front of it stand pages whose own functions overlap, which judge by an answer
that may be old, and a Slack adapter without the gate of the web.

What makes each part correct:

* **Runner**: rounds and iterations stay within their budgets; a session is put
  on hold only when nothing else is left; a document is delivered only without
  gaps; a published status is backed by the store; closed mockups are frozen and
  an approval is absorbed exactly once; a reply is never lost.
* **Web adapter**: one background operation at a time; an answer meets the
  round it was written for (a comment need not meet its mockup, see section 3).
* **Sources**: limits of pages and text hold over all rounds, a judgement finds
  every source read, files are attached all or none.
* **Event streams**: a page learns the end of what it waits for, and not before.
* **Document**: a correction changes what it names and nothing else; no promoted
  slot drops out of the open issues.
* **Gateway**: never more than the limit, no lost wake-up, every call ends.
* **Session screen**: what it offers the server takes, something is always
  offered, the controls are locked while a request of the page is followed and
  never for ever, and answers and corrections are taken for what they were
  typed for (a comment need not be, see section 3).
* **Document card**: an edit replaces the lines that its editor stood for.
* **Home page**: uploads land whole or not at all, a removed file does not come
  back, the session shown last heads the list.
* **Slack thread**: a message is taken up once and answered; as long as people
  wait for the agent, rounds, transcript and document are what the web's are.

## 2. Modules

| Module | Models | Role |
|---|---|---|
| `IntakeRunner` | `core-runner.ts`, rule layer, the rows it reads | state, one action per run of writes between two LLM calls; no gate and no bound |
| `WebIntake` | `server.ts` | EXTENDS `IntakeRunner`: which requests reach it, the body wait, the gate, restart; the bounds; the properties |
| `IntakeClaims` | - | statements of comments, tests and documents that the code breaks |
| `Journey` | what `GET /api/sessions/:id` shows of a session | abstract specification of a session, for the pages |
| `MCWebIntake` | - | instances for TLC, and the mapping to `Journey` |
| `SessionCards` | rendering and cards of `web-ui/app/s/[id]/page.tsx` | operators: which cards, with which state, offering which requests |
| `SessionPage` | the page's functions (`act`, `retry`, `refetch`, ...) and requests | EXTENDS `Journey` and `SessionCards`: state, actions, properties |
| `MCSessionPage` | - | the sessions a page is opened on |
| `ChatThread` | `cli/slack.ts`, `slack-runner.ts`, and of `core-runner.ts` what a thread reaches | state, one action per wait, properties |
| `IntakePage` | `intake-form.tsx`, `attachment-picker.tsx`, `local-sessions.ts`, the home page; the handlers and the store transaction it meets | state, actions, properties |
| `MCIntakePage` | - | browsers for TLC |
| `Sources` | the preparation before a judgement in `core-runner.ts`, uploads, attachment rows | state, one action per await, properties |
| `MCSources` | - | links and symmetry for TLC |
| `EventStreams` | subscribers and `handleEvents` in `server.ts`, `watch-processing.ts`, the session page | state, actions, properties |
| `DocumentPath` | `document/path.ts`, `assembleRequirementsDocument`, the writes of `correctDocument` and `deliverDocument` | content of a document below the version, properties |
| `DocumentCard` | `document-view.tsx`, `inline-editor.tsx`, `lib/document.ts` | EXTENDS `DocumentPath`: the card on the document, its editor, its properties |
| `MCDocumentPath` | - | texts, outputs, drafts and addresses for TLC |
| `BoundedService` | what callers of `complete()` rely on | abstract specification |
| `LlmGateway` | `gateway.ts` | state, actions, properties, refinement mapping to `BoundedService` |
| `Lists` | `filter`, `flatMap`, first occurrences and sums of JavaScript's arrays | operators of `ChatThread`, `IntakePage`, `Sources` and `DocumentPath` |
| `WebIntakeProofs`, `SourcesProofs`, `IntakePageProofs`, `ChatThreadProofs`, `SessionPageProofs` | - | theorems about the module they are named after |
| `DocumentProofs` | - | theorems about `DocumentPath` and `DocumentCard` |
| `ServerProofs` | - | theorems about what the server keeps in memory: `LlmGateway` and `EventStreams` |
| `ListsProofs` | - | lemmas about `Lists` |

### From the code to `IntakeRunner`

An operation is split at its LLM calls. `Wait(w, job)` is the call: the job
keeps exactly what the code read before the call and uses after it (the round
count of `session`, the unfilled slots, the document content, the theme, the
version a mockup is mapped to). `...Done` is the rest of the operation up to the
next call, with every write in it. `Fail` is an exception at the call, which
`runInBackground` swallows: nothing is written. Other awaits (`port.post`)
resolve in a microtask and separate nothing. The preparation of sources
before a judgement has its own awaits, but writes none of the state here and is
part of the wait; `Sources` models it.

* A slot without a row is an unfilled one (the runner reads both alike).
* The transcript is `said` (who spoke last, and for the requester whether it was
  a reply or a comment) and `answered` (an utterance of the requester follows
  the latest questions); decisions read nothing else of it.
* A document is, per element, the version that wrote the text it holds, so that
  a lost edit is visible; `visual` is its `visualDirection`.
* `status = "closed"` is closed on hold: nothing in the repository writes
  another terminal state.
* A judgement is any verdict for any non-empty set of slots with any rubric
  result; a promotion any subset of the gap; a patch any subset of the addressed
  elements: the LLM is unconstrained within its output schema.

`WebIntake` splits a handler that reads a body into `...Headers` (it looks at
the session, `req.seen`) and `...Body` (it acts on what it saw), with a refusal
where the code answers 409 and `Abandon` for a body that never comes. A text
that is too long is refused in the background: a reply is then gone (`Abandon`),
a denial has emptied its slot (`DenialDropped`). A reply to a document whose
files are refused is stored without the guide (`Guide`). One body
is in flight at a time; handlers whose outcome does not depend on what they saw
before the body (edit, confirmation, theme, approval) are one step.

### From the code to `Sources`

One session's utterances, attachment rows and staged uploads; the rows outlive a
round, `prep` is what the local variables of `ingestNotionLinks`,
`extractPendingAttachments` and `condenseLongSources` keep over their awaits
(`fetched`, `usedChars`, `projected`, the lists they iterate). A step ends at
the next await: `Prepare` runs to the first page to fetch, extraction or
condensation, or to the judgement, with every row that is written without one
(a refused link). `Die` is an LLM call that throws, a page body that does not
parse or a restart; nothing is undone, and `Retry`, the next `Say` or a
correction prepares from the rows that are left.

* A text is its length; a failed extraction has length 0. What a fetch returns,
  an extractor reads or a condensation answers is any member of `Lengths`.
* `unanswered` is `pendingRound` reduced to "may be retried", as the transcript
  of one utterance per round gives it. `Correct` is a document edit: it passes
  no gate and adds words during any preparation.
* An opening whose uploads are refused is left out: it leaves a session of which
  nobody learns the address. Nothing but tests calls `purgeStagedUploads`.

### From the code to `EventStreams`

One session: `running` is its place in `inFlight`, `current` the set that the
map `subscribers` holds for it. The sets are objects with an identity, because a
stream's close handler keeps the set it was added to. A stream has left no set,
one set, or the set that the map has forgotten; `ended` is `res.end()`; `wire`
are the events between server and page. `Closed` is the close of a request,
noticed at any time after the stream has ended or its page has let go. A page
is in `watchProcessing` (`watch`), in the fetch after it (`refetch`) or at rest;
`conn` is its `EventSource`, `due` a ghost: what it waits for still runs. An
`EventSource` connects again after a loss while the page polls; an end of the
stream is not met, as its last event ends the wait. The
reading of the session (`Mount`, `Refetch`) is one step. Posts and heartbeats
change nothing here; an operation is only its beginning and its end.

### From the code to `DocumentPath`

`IntakeRunner` knows of an element only which version wrote it; `DocumentPath`
has the content. A text is a sequence of words, line ends and the marks of
Given-When-Then, so that trimming, splitting into lines, joining and the
pattern of `parseGwt` are what they are in the code (`Trim`, `Items`, `Joined`,
`Cuts`, `ParseGwt`). `Corrected` is both loops of `applyDocumentCorrections`:
either every correction is accepted (`Exists`, `Accepts`) or nothing is written.
An instruction keeps the content it read over its call (`asked`). The rows of
slots are reduced to "promoted, with this assignee". Requests whose addresses
lie inside one another (`users` and `users[3]`) are left out: the page sends
none, and with them the code can leave a gap in a list.

### From the code to `Journey` and `SessionPage`

`Journey` is the specification of a session that a page may rely on: its
variables are fields of the answer of `GET /api/sessions/:id`, its actions the
requests and what an operation may end in. `WebIntake` implements it; the
mapping stands in `MCWebIntake` (`J`), and `JourneySpec` is a property of the
two runs of `WebIntake`. `SessionPage` puts the page in front of `Journey`
instead of the larger `WebIntake`, so that page and session together stay
checkable.

* A flow is a running call of one of the page's asynchronous functions, from
  await to await: the request (`sent`, `body` when its handler awaits the body,
  `taken` when the server has done it), `watchProcessing` (`watch`, which
  `EventStreams` takes apart), the fetch (`get`). An answer may be lost on either
  side of the server's work.
* A handler that judges by what it saw before the body (`Early`: a reply, a
  denial, a comment) is two steps as in `WebIntake`, `Receive` and `Handle`, with
  what it read in `found`; the others are one. So is a fetch, at the moment its
  answer arrives. A request of another tab is one step that may have seen any
  earlier stage.
* A reply or a denial whose text is too long is accepted and does nothing
  (`Performs`; in the runner a denial has emptied its slot by then).
* A card keeps what it was mounted with until React gives it another key or
  stops rendering it (`Key`, `Shown`, `Rendered`). What is typed is its subject:
  the round, slot or mockup on the screen at the time.
* Themes are one (`decided`). The wizard's steps, the picker beside it and the
  files of an answer are left out.

### From the code to `DocumentCard`

`Lines` are the addressed lines of `documentLinesFromContent`, `PathsInRange`
and `EditTarget` what a selection stands for, `Covered` and `Initial` the lines
an editor takes the place of and the text it starts from. The popover and the
selection behind it are one step with what they are used for. A refetch keeps
an open editor as React does: while its first line has the same number.

### From the code to `ChatThread`

A handler runs from wait to wait; a wait is an LLM call or `port.post`. Posting
is a step of its own here: the words stand in the thread while the handler has
yet to record them (`record`), which the web's port, a no-op, never shows. The
handler keeps what the code read before (the round count, the version). There
is no gate and no retry. A mention is two events, in any order. Uploads, slot
confirmations, edits and comments do not reach the runner from a thread.
Slack's redelivery of an event that was not acknowledged is left out, and so are
a message that is too long (its handler dies before anything is stored) and the
waits between a record and its judgement, for a page behind a link or a
condensation, which a reply beside it may outrun.

### From the code to `IntakePage`

One browser, its pages one after the other. An upload is a number; `picker` is
what `handlePick` closed over, `posts` are the submissions of the form as the
page and as the server see them, so that an answer may be lost after the
server has done its work and a response may come to a page that is left. The
text and the error shown are dropped; an upload under way ends with its page.

## 3. Runs

Passing (`expect: pass`):

| Run | Instance | Shows |
|---|---|---|
| `dialogue` | 2 workers, 2 slots, 1 element, 2 rounds per budget, 6 questions, 1 resumption, 2 documents, no UI | budgets, what a round is spent on before the first document, holds, deliveries and the service of words over two budgets of rounds, with denials, edits, retries, failures and restarts; the session moves as `Journey` |
| `mockup_stage` | 1 slot, 1 round, 1 iteration, 3 documents, 3 mockups, UI or not | two segments: comment, escalation, approval, reopening, with edits and theme choices during every call; the same service of words and the same journey |
| `gateway` | 4 callers, limit 2, 2 attempts, 2 calls each | limit, exact counter, wake-ups with overtaking; refinement of `BoundedService` with its fairness |
| `sources` | 3 uploads, 2 pages, 1 database, lengths 1 and 5, 2 utterances; at most 2 attachments, 1 page, 6 characters of text, budget 6, target 2, tolerated 3 | limits over all rounds (`WithinLimits`: text, pages, files), everything read before a judgement, condensation only over budget |
| `event_streams` | 2 pages, 3 streams, 3 sets, 2 operations | no early word, no ended stream in the map, every page that is not forgotten hears the end |
| `document_path` | 2 slots, 1 assignee, 2 outputs, 4 texts (a word, lines with blanks, blank, a Given-When-Then with a mark twice), 3 versions; a card with one editor and one request, or clients without one | what is not named stays, what is written stands, promoted slots are listed, an edit of the version shown replaces what was shown |
| `session_page` | six sessions (opened, asked, on hold, documented with a closed and an open mockup, in the mockup stage), 2 flows at once, 2 first questions, 2 slots; per session up to 2 requests of the page, 1 of another tab, 2 rounds and 1 mockup to come | the lock is exact and ends, offers are taken, a way forward, answers and corrections meet their subject, comments what was the latest mockup at their headers |
| `chat_thread` | 3 messages, 1 round per budget, 2 handlers at once, 1 death before nothing fails any more | a message is taken up once and answered; budget, judgement, transcript and document while people take turns |
| `intake_page` | 2 files per request, 2 picked at a time, 3 uploads, 2 submissions, 2 of 3 old sessions remembered, with and without an id under the old key | uploads whole or not at all, the picker's list and its limit, the latest session first |

Bounds and why they suffice. `MaxAsked`, `MaxResumes`, `MaxDocs` and
`MaxMockups` stop an instance where a counter of the code grows for ever; an
operation starts only while there is room for all it may add, so that no
operation is cut off in the middle. Two budgets of two rounds are the smallest
instance in which a count of the wrong budget differs from the right one, and
in which an uncounted round lies between counted ones. Three mockups with one
iteration hold a closed segment and a full one behind it. Two slots tell "all
promoted" from "some promoted". A second worker is there so that the gate is
checked and not assumed. Four callers over two slots let two waiters overtake
each other. `Themes` is empty in the instances: "left to the developers" is a
direction like any other, and no decision tells two themes apart.
In `sources`, two utterances are a session that is answered, edited or replied
to after a death; three uploads exceed the two that may be attached, two pages
the one that may be fetched, and two texts of length 5 exceed the text limit
(6) as well as, with the words, the budget; 5 is over the target and its
tolerance, so that both calls of a condensation and the cut occur, and 1 under
both. In `event_streams` two operations are what a stream of the first needs to
close late in the second; three streams are one for each page and one that is
left over, and with as many sets as streams one is always free. In
`document_path` three versions are a delivery, an instruction and an edit
during its call; the addresses hold every kind, a pair and one too far.
A card and clients without one are two kinds of behaviour of the same run
(`CardInit`): with a card, others contribute one delivery, one answer and one
edit, which is what a card can be behind by.
In `session_page` two flows are a request and what is done beside it. Each
scene has only what its stage needs: a second request of the page where answers
or comments compete, another tab where it can move the stage on, and the rounds
and mockups that replace those under the requester's hands once. In
`chat_thread` three messages are an opening, a reply and one beside it, over a
budget of one round; a third handler at once adds no new pair. In `intake_page`
three uploads exceed what a request carries, two submissions compete for the
same uploads, and a list of two is cut by a third session.
`CHECK_DEADLOCK FALSE` stands in `gateway`, `sources` and `chat_thread`, where
all calls, words or messages may be used up, and in `session_page`, where the
page for a session that was not found offers nothing, and in
`offered_correction`, which opens the same page.

Fairness. `FairSpec` of `WebIntake` is weak fairness of `Work(w)` alone: a
waiting operation ends, because `runWithTimeout` ends every backend run.
Nothing is assumed of requesters, retries or restarts. `FairSpec` of
`LlmGateway` is weak fairness of a woken waiter (a microtask) and of the end of
a run (the same timer). `FairStreams` of `EventStreams` is weak fairness of the end
of an operation (the same timer), of the close of a request, and of what a page
and its browser do by themselves: connect, receive, poll, fetch.
Nothing is assumed of the cap of 180 seconds, or `EndIsHeard` would be its
doing. In `SessionPage` every function of the page goes on (`Resumes`): a fetch
has a limit of 150 s, a watch one of 180 s, and the event loop runs the rest;
nothing is assumed of the requester, of other tabs or of the server. In
`ChatThread` Slack delivers and some waiting handler proceeds: each call ends by
the gateway's timer, and as messages are finitely many it is enough to say so of
all handlers together. `ServiceSpec` promises that somebody who waits is served,
not who: with an endless supply of calls the gateway's code may overtake a
waiter for ever.

Types are a conjunct of `WithinLimits`, `SubscribersAreServed` and
`BusyIsExact`, a property of their own in `document_path`, `chat_thread` and
`intake_page`, and a theorem everywhere (section 4).

Every property of these runs has a mutant in PROJECT.json: an operator
`Mut_...` beside the definition it replaces, a plausible bug of that code with
which TLC finds the property violated.

### Disagreements (`expect: violation`)

Each of these runs checks one statement (of `IntakeClaims`, or the last of
`SessionPage`) which a comment, test or document makes; TLC finds a behaviour of
the code that breaks it. The quotations stand in PROJECT.json.

| Run | What happens |
|---|---|
| `never_stuck` | deny a slot, get a re-ask round, edit the document directly: the round counts as answered and nothing can be retried |
| `edit_reverts` | edit during an instruction: the instruction writes back the text from before |
| `offered_correction` | in the mockup stage the screen offers to correct a slot, and the server refuses every such correction |

The models show more of the kind; these have no run of their own:

* a theme chosen while an approval waits for its LLM call is the approved
  mockup's, and the document absorbs the one before (`ApproveMockup`,
  `SelectMockupTheme`; `core-runner.ts:2025`, against `core-runner.ts:2004`);
* a comment whose body arrives after the next mockup was drawn is compared with
  the one before, accepted, and stored on the next (`CommentHeaders`,
  `CommentBody`; `Receive`, `Passes`; `server.ts:851`, against `server.ts:838` and
  `tests/web-server.test.ts:941`); so `WordsMeetTheirSubject` speaks of the mockup
  the handler found;
* after a document a round is counted although the requester's words are not the
  last: deny a slot, answer the re-ask round, and edit the document while the
  answer is judged; so `RoundSpentOnNewWords` stops at the first document
  (`QuestionDone`, `EditDocument`; `core-runner.ts:1183`);
* a denial whose body arrives when the session asks again is answered 202, and
  the runner drops it (`DenialRefused`, `Performs`; `server.ts:600`,
  `core-runner.ts:1354`);
* a reply or a denial with too long a text is answered 202 and dropped in the
  background, the denial after its slot was emptied: a documented session with a
  slot that nobody corrects (`DenialDropped`; `core-runner.ts:1378`,
  `core-runner.ts:1039`);
* an element that is edited to two lines is two items when its list is edited,
  and a Given-When-Then that the LLM writes over two lines cannot be written
  back (`Read`, `Cuts`; `path.ts:74`, "only where one line is one item");
* an edit of an older view of a document meets whatever stands at its address
  now: corrections carry no version, unlike answers and comments (`Edit`);
* an edit during the UI classification is drawn under the number of the
  document version before it (`ClassifyDone`; `core-runner.ts:1763`, against
  `store/schema.ts:242`);
* a regeneration that failed is retried as the judgement of a reply and ends in
  the guide (`PendingRound`; `core-runner.ts:998`, against `core-runner.ts:1003`,
  "only the dead stage runs again");
* a page whose time is up (180 s, where a prompt may take 900), whose poll fails
  or whose action is refused shows that processing goes on and follows it no
  longer (`Cap`, `PollFails`, `ActRefused`; against `page.tsx:47` and `:101`);
* a slot corrected after an approval regenerates the document without the
  visual direction it had absorbed (`DocumentDone`; `core-runner.ts:1701`);
* a document edit after the last confirmation makes a version that no
  confirmation can complete (`EditDocument`; `core-runner.ts:1289`);
* a slot that was just denied drops out of the completion test, so confirming
  the others before the judgement completes the version under correction
  (`Completion`; `core-runner.ts:1476`);
* when the UI classification itself fails, the session keeps `isUi` unknown:
  no mockup stage, no retry (`PendingRound`; `core-runner.ts:991`);
* deny a slot with the budget used up and answer the re-ask round: the answer
  is judged as a plain reply, and the session closes on hold over its document
  (`NextStage`; `core-runner.ts:1183`, against `core-runner.ts:1175`);
* a second denial after one whose round died is stored and given to no
  judgement, as no words of the agent stand between the two
  (`core-runner.ts:2144`);
* a request of the operation before closes after the next has a subscriber: the
  entry of the map goes, and that stream stays open past the end (`Closed`;
  `server.ts:639`, against `server.ts:280`);
* a line inserted before an open issue gives its question the slot and the
  assignee of the next (`Relined`; `path.ts:211`, against
  `tests/document-path.test.ts:165`);
* the editor shows an open issue with its label and assignee, so that an
  untouched line of an edited list is written back changed (`Decorated`;
  `web-ui/lib/document.ts:84`, against `path.ts:122`);
* a reply whose body arrives after a question is taken as its answer without
  naming it (`ReplyBody`; `server.ts:466`);
* a reply is accepted and its words are stored before its uploads are counted:
  when they are too many the round dies, and the retry judges the words without
  the files (`Say`; `core-runner.ts:1109`, against `server.ts:342`);
* condensing every candidate does not bring the total under the budget, as
  `core-runner.ts:774` derives: a condensation may exceed its target by half, a
  cut one by a note more, and words and pages are not bounded by the cap on
  attachments (`StoreCondensed`, `Candidates`).

The session screen (`SessionPage`, `SessionCards`, `DocumentCard`): two offers
are known to be refused, a correction in the mockup stage (above) and the
answered round of a stuck session (`never_stuck`). Besides:

* `retry` locks nothing: until it is answered every other control stays enabled
  (`Send`; `page.tsx:266`);
* an error of any fetch is taken for a session that does not exist, until the
  page is loaded again (`Arrive`; `page.tsx:78`), and one of a mockup card's
  fetch leaves its skeleton;
* a refused request leaves processing unwatched (`Rejected`);
* a re-ask round with the same count and first question keeps the wizard and
  its answers (`Key`; `WordsMeetTheirSubject` asks for no more);
* an approval names no version, unlike a comment;
* a theme choice remounts the panel and loses a comment being typed (`Key`);
* a theme chosen after a redraw that failed removes its retry (`Journey!Theme`);
* an editor left open over a refetch sends an edit of the old text, is lost when
  its line moves, and an edit of a list overwrites what others changed in it
  (`Redrawn`; `EditReplacesWhatWasShown` is about the version shown);
* answers to fetches may arrive out of order; a fetch is one step here.

The home page (`IntakePage`): two submissions open two sessions; after a lost
answer the same files are refused for ever, as the first session has them;
picks beyond the limit are dropped without a word (`Room`;
`attachment-picker.tsx:55`, against `:30`); an opening whose uploads are refused
leaves a session nobody is told of (`OpenSession`; `core-runner.ts:541`); the
move of an id from the old key leaves an uncut list (`Listed`), of which the
server looks at the first 50. In the wizard, which is not modelled, the
picker's captured list brings files back that a submission has taken out.

A Slack thread in which people do not take turns (`ChatThread`; each part of
`ThreadInTurn` and `DocumentStands` fails without `turns`): a second message in
a row is given to no judgement; rounds are asked beyond the budget and counted
short (against `slack-runner.ts:34`); a documented session goes back to
clarifying; two handlers deliver under one version, and the later one dies at
the unique index. A reply with a file has a subtype and is ignored
(`slack.ts:66`); a handler that died is retried by nobody.

Outside the models: an error of the backend that is neither a timeout nor a
block is thrown past the usage log (`gateway.ts:109`), where
`tests/gateway.test.ts:213` has every call logged.

## 4. Theorems

TLAPS proves, for every set of workers, slots, elements, themes, callers,
pages, streams, files, messages and scenes, and for every bound:

| Module | Theorems |
|---|---|
| `WebIntakeProofs` | `TypesHold`, `RoundsHold`, `StatusHolds`, `HoldsAreEarned`, `DeliveriesHaveNoGap`, `IterationsHold`, `ClosedStaysClosed`, `ApprovalsAreAbsorbed`, `RoundsReactToWords`, and `JourneyHolds` (`Spec => JourneySpec`) |
| `ServerProofs` | `TypesHold`, `LimitHolds`, `WakeupsHold`, `Refinement` (`Spec => Service!Spec`), `SubscribersServed`, `WordIsNotEarly` |
| `SourcesProofs` | `KeptWithinLimits`, `AllReadIsJudged`, `OverBudgetIsCondensed` |
| `SessionPageProofs` | `BusyExactly`, `OffersTakenAlways`, `WayForwardAlways`, `WordsMeet` |
| `IntakePageProofs` | `PageTypes`, `UploadsLand`, `PickerKeeps`, `HomeShows` |
| `ChatThreadProofs` | `ThreadTypes`, `MessagesOnce`, `TurnsAreKept`, `PublishedStands` |
| `DocumentProofs` | `DocumentTypes`, `PromotedListed`, `OutsideIsKept`, `WrittenIsRead`, `CardTypes`, `EditsWhatWasShown` |

Each rests on an inductive invariant, which is a theorem too (`Invariance`,
`SessionInvariance`, `StreamsInvariance`, `SourcesInvariance`,
`ScreenInvariance`, `PageInvariance`, `ThreadInvariance`, `DocInvariance`,
`CardInvariance`) and which TLC has checked on the instance
of section 3.

**The session.** None of the properties is inductive: `RoundsWithinBudget` says
nothing of an operation that has read the count and will write it. The invariant
`IInv` adds `SingleFlight` (at most one operation waits; this is
`runInBackground`) and `JobOK` for the waiting job: a counted question still
has the round count it read and that count is below the budget; a promotion
still has the gap it sent, with the budget used up; a delivery still finds no
gap; an approval still has its mockup. `EarlyOK` and `AbsentOK` say what cannot
have happened yet. The proof has a lemma per operation for types (`...Types`)
and one for the rest (`...Keeps`). Operations that take or hold the background
go through `WaitAlone`: the others are idle, so `JobsOK` is about the new job
alone. Operations that pass no gate go through `FrameKeeps`: an edit, a
confirmation and a theme choice change nothing that a job relies on. That is why
these theorems hold and the claims of section 3, which ask more of the same
interleavings, do not. `HoldIsEarned` and `DeliveredWithoutGap` follow from
`IInv` at the step that closes or delivers; `StatusMoves` shows that no other
step closes.

**The mockup stage and the words.** `SessionInv` adds two parts to `IInv`.
`StageOK` is what a regeneration and an approval rely on over their call: the
mockup they read is still the latest, still open, and the iteration they will
add is within the segment. Without it `IterationsWithinBudget` could be broken
by the end of a call that began in time, and an approval could absorb a mockup
that another replaced. `WordsOK` says who spoke last: before the first document
a session without an open question has words of the requester that nobody
reacted to, and so has the operation that will ask; hence, up to that document,
no round is spent on words that were replied to. `JourneyHolds` goes through the steps of `WebIntake` one by one: each
maps to the action of `Journey` it was written for, or changes nothing a page
sees (a body that is awaited, a call between two of one operation).

**The gateway.** `IInv` says that the counter is the number of running callers,
that the queue holds exactly the waiting callers, once each, and that a free
slot beside a waiter is promised to a woken one. `Refinement` maps waiting and
woken callers to queued ones.

**Streams.** `StreamsInv` adds to the types what the map's set contains
(`CurrentOK`) and what a page's wait is for (`WaitsOK`). That a set is free for
a new subscriber follows by counting (`SetsSuffice`): each stream keeps one set
at most, and the one that joins keeps none.

**The sources.** `WithinLimits` says nothing of what `prep` keeps over an await,
and everything depends on it. `SourcesInv` says, await by await, that it agrees
with the rows: the links left are distinct and without a row, and the pages that
have a row and were not refused are fewer than were counted, the one under way
being among the latter (`FetchOK`); the list
of attachments is exactly the rows that wait, and `used` is their text
(`ExtractOK`); at the judgement nothing that was heard waits or is unrecorded
(`ReadOK`); and `projected` is at most what the session's texts weigh, so that
whoever condenses is over the budget (`CondenseOK`). `RowOK` says of a row by
itself that it has no text until it is read. The
steps go through what the synchronous parts return (`RefusedRows`, the links
refused on the way; the next attachment; the next text to condense), over sums
that change in one place (`TotalChange`). There is always a longest candidate
as no text is longer than all of them together (`LongestIn`).

**The session page.** `ScreenInv` has seven parts. `FlowsOK` says of the lock
that it is set exactly if one flow is a call of `act`, and of the watch
likewise (`OnlyOne`; `OneMoves` is the one argument for every step of a flow):
a second `act` cannot start, as a locked page offers nothing (`OffersWhenFree`).
`DetailOK` says that the round on the screen is one that was asked, as it was
asked; this needs that the session numbers its rounds (`AsksOK`). `CardsOK` says
that a card stands where the page shows one, with the key of its place, and
that its words are about a round with that key, the mockup it read or the slot
it corrects (`About`); `SentOK` says the same of a request that is sent or whose
body is awaited. A comment then names the mockup its words are about, and its
handler compares that with what it found: this is all that `WordsMeet` claims of
comments. Steps of
the session alone leave all this standing because rounds are only added
(`GrownKeeps`); steps of the page go through `ScreenChanges`. `Rendered` keeps a
card only under its old key: this is where words survive exactly as long as
their subject. `OffersTaken` and `WayOn` then compare the page and the server
card by card. Nothing is assumed of the operation at work or of other tabs
beyond `Journey`, which the web adapter implements.

**The home page.** `PageInv` is invariant in three parts: the server with the
submissions, the form with its picker, and the browser's list with its old key.
`PickerOK` says that the list a picker closed over is still the page's and has
room for what is left; `LastOK` that the session shown last leads the list.

**The Slack thread.** `ThreadInv` says of handlers that a message is taken up by
one of its events (`OnceOK`) and, as long as people take turns (`TurnOK`), that
one handler at most is at work, where its way has led it, over a transcript that
agrees with the thread (`Agree`, by the words that `Only` keeps).

**The document.** `DocInv` says of a content what the code relies on: it is
typed, every text in it says something, and each is trimmed unless the LLM or a
slot gave it as it is (`TextsStand`); an instruction waits with such a content,
alone. `CorrectedIs` is the heart of it: what a correction is accepted for is
what is written. A text that is not blank has lines, and the lines have no line
end and something in them (`LineProperties`, `ItemsProperties`); a text that
the pattern takes has a first way to be cut, whose three fields are trimmed
(`ParseProperties`). `AssembledLists` is
the loop over the promoted slots: each pass lists its slot, moves no issue and
changes no question (`WithPromotedLists`), so that after the last one every slot
the order names is listed, and an order of as many places as there are slots
names them all. `OutsideStands` adds the corrections before it: what they do not
name keeps its address and its text, so the issues that the assembly appends or
assigns are no exception. `WrittenIsRead` says what becomes of what they do name:
joining and splitting are each other's inverse on lines, whatever is joined
behind them (`ItemsJoined`, over `NextItems`: a text on the next line moves no
line before it), and however the pattern cuts a text, what is written back says
the same words (`CutKeeps`; `Kept` is the text without its line ends).

**The document card.** `CardInv` says that a view of the latest version is that
version, and that whatever stems from the latest version - an editor, a
correction under way - has an address of it. Each step of the card is one of
the document's (`CardIsDocStep`), which leaves the version or makes a new
number, so that nothing old passes for new (`PageStands`). `LinesAre` describes
the list of lines the page draws, the concatenation of four lists, line by line;
from it `InitialIsRead`: the text an editor starts from, the joined lines
that `InOrder` picks, is what the server reads at its address. The proofs hold
for every selection, draft and answer, where TLC tries a few.

**Lists.** Induction is out of this prover's reach, so `ListsProofs` argues by
the least counterexample: a set of numbers that is not empty has a least element
(`LeastExists`), here the first place at which a filtered list would be wrong,
and in `OnTheWay` the first pass of a loop.
`Only` stands in for `SelectSeq`, of which the provers know no definition, and
`AddedUp` and `Flat` for the library's folds; the lemmas say how a sum changes
with one of its terms or one more (`AddedUpChange`, `AddedUpGrows`), and that `OnceOf` lists
every element once. `PlacesTo` lists the places of a set up to a number, which is how
`InOrder` goes through a list; beyond a place it only gets longer (`PlacesBeyond`).

The assumptions are those of the modules: `MaxRounds`, `MaxIterations`, `Max`
and `Attempts` positive (`config.ts` rejects others), `MaxOps` positive,
`"none"` and `"delegated"` no theme ids and `"none"` no first question, the sets
of workers and slots not empty, callers, streams, uploads and a document's slots finite, lengths
positive, the limits of `Sources` natural numbers, pages, databases and uploads
different things,
the LLM's documents of the form its output schema demands, a slot's question
not empty, no address of a correction inside another (the page sends none), and the two words that decorate an issue words like others. A page is opened on
a session that exists (`SceneAssumption`): it is worked on if it has not asked
yet, its last round has the number of the count, and only a documented one has
mockups. TLC evaluates all of them on every run.

Only model-checked: liveness, which is beyond this prover (`WordsAreServed`,
`MessagesAreMet`, `BusyEnds`, `EndIsHeard`, the fairness of `ServiceSpec`).
Every safety property of the passing runs is a theorem.

## 5. Not modelled, and the plan

Not modelled: prompt texts and schemas, rendering, reports, logs, configuration
and CLI (no state a decision depends on); the agent backend (external; a run
that ignores its abort signal may outlive its slot); a death of the process
between two synchronous writes of one operation.

Order of the work, most important behaviour first:

1. *(done)* the runner, the web adapter, the gateway, their first theorems.
2. *(done)* the preparation of sources: Notion ingestion, extraction under the
   session's text limit, condensation, with failure and restart between any two
   attachments. Left: the two views of the conversation that the prompts get.
3. *(done)* `ChatThread`: the Slack adapter without a gate, and which rules of
   a session survive handlers beside each other. Left: redelivered events.
4. *(done)* event streams and the pages that follow them.
5. *(done)* document addresses, corrections and assembly.
6. The content-addressed attachment store and the extractors' registry.
7. Crashes inside a run of writes.
8. *(done)* `Journey`, the session as its pages see it, implemented by
   `WebIntake`; on it `SessionPage`, and beside it `DocumentCard` and
   `IntakePage`. Left: the wizard's steps and the files of its answers, slot
   evidence, the other lists of lines, sessions of one requester side by side.
9. Theorems: *(done)* all safety properties of the runs. Left: theorems about
   what the plan adds.
