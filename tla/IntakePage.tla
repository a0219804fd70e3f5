----------------------------- MODULE IntakePage -----------------------------
(***************************************************************************)
(* The home page of a browser before a request has a session:              *)
(* web-ui/app/page.tsx with its intake form, its picker of files and the   *)
(* list of sessions the browser remembers, over the handlers of the server *)
(* that take an upload and open a session.                                 *)
(*                                                                         *)
(* Files are uploaded one by one while the page goes on, the form can be   *)
(* submitted at any time and as often as its button is pressed, an answer  *)
(* may get lost (the fetch gives up after 150 s) although the server has   *)
(* done its work, and a reload forgets what only the page knew.  An upload *)
(* is a number; what a file holds, its name and its size are left out but  *)
(* for the server's choice to refuse it, and so is the text (the button    *)
(* asks for one) and the error the page shows.  An upload that goes on     *)
(* after the page is gone only stages what nobody can name, and ends with  *)
(* the page here.                                                          *)
(***************************************************************************)
EXTENDS Lists, SequencesExt

CONSTANTS
  MaxFiles,      \* files a request may carry (limits.maxPerSession)
  MaxPick,       \* files picked in one dialog
  MaxUploads,    \* bound: uploads the server stages
  MaxPosts,      \* bound: submissions of the form
  MaxRemembered, \* ids the browser keeps (50)
  Old,           \* sessions there are before
  Remembered,    \* lists of them a browser may come with
  Legacy         \* ids under the old key a browser may come with, 0 for none

ASSUME PageAssumption ==
  /\ MaxFiles \in Nat \ {0} /\ MaxPick \in Nat \ {0} /\ MaxRemembered \in Nat \ {0}
  /\ MaxUploads \in Nat /\ MaxPosts \in Nat /\ Old \in Nat
  /\ Remembered \subseteq Seq(1..Old) /\ Legacy \subseteq 0..Old

VARIABLES
  (* the server *)
  uploads,   \* number of uploads staged so far; names the latest
  staged,    \* uploads no utterance has taken yet
  sessions,  \* uploads attached to each session, by the order they were opened
  (* the browser *)
  ids,       \* pmjude.sessions, the most recent first
  legacy,    \* pmjude.sessionId, 0 without one
  (* the page *)
  page,      \* where the browser is and what the page shows
  picker,    \* the picker's handler
  posts,     \* submissions, as the page and as the server sees them
  (* history *)
  last       \* session this browser showed last, 0 before any

server  == <<uploads, staged, sessions>>
browser == <<ids, legacy>>
vars    == <<server, browser, page, picker, posts, last>>

Upload  == 1..MaxUploads
Posts   == 1..MaxPosts

Page   == [at: {"nowhere", "home", "session"},
           summaries: {"null", "loaded", "failed"},
           shown: Seq(Nat),                        \* ids of the summaries
           showForm: BOOLEAN,
           policy: BOOLEAN,                        \* the form knows what may be uploaded
           files: Seq(Upload)]
Picker == [busy: BOOLEAN,
           captured: Seq(Upload),                  \* files as handlePick closed over them
           left: Nat,                              \* picked files yet to be uploaded
           accepted: Seq(Upload)]
Post   == [client: {"unused", "waiting", "left", "done"},  \* "left": its page is gone
           server: {"unused", "sent", "opened", "refused"},
           names: SUBSET Upload,                   \* uploadIds
           session: Nat]

AtRest == [busy |-> FALSE, captured |-> <<>>, left |-> 0, accepted |-> <<>>]
Unused == [client |-> "unused", server |-> "unused", names |-> {}, session |-> 0]

-----------------------------------------------------------------------------
(* The list of the browser (local-sessions.ts) *)

Without(list, id) == Only(list, ToSet(list) \ {id})
UpTo(list, n)     == SubSeq(list, 1, IF Len(list) < n THEN Len(list) ELSE n)

(* listSessionIds: the old key moves to the front, and the list is not cut  *)
Listed == IF legacy = 0 \/ legacy \in ToSet(ids) THEN ids ELSE <<legacy>> \o ids

(* mutant: the latest session is put at the end of the list that is cut *)
Mut_Remember(id) ==
  /\ ids' = UpTo(Append(Without(Listed, id), id), MaxRemembered)
  /\ legacy' = 0

Remember(id) ==
  /\ ids' = UpTo(<<id>> \o Without(Listed, id), MaxRemembered)
  /\ legacy' = 0

-----------------------------------------------------------------------------
(* The home page *)

Mounted(at) ==
  [at |-> at, summaries |-> "null", shown |-> <<>>, showForm |-> FALSE,
   policy |-> FALSE, files |-> <<>>]

(* a visit mounts the page anew *)
Visit ==
  /\ page' = Mounted("home")
  /\ ids' = Listed /\ legacy' = 0
  /\ picker' = AtRest
  /\ UNCHANGED <<server, last>>

(* those who wait on a page that is left still wait, those of a document    *)
(* that is unloaded do not                                                  *)
Left(how) == [p \in Posts |-> IF posts[p].client \in {"waiting", "left"}
                              THEN [posts[p] EXCEPT !.client = how] ELSE posts[p]]

Return == page.at = "session" /\ Visit /\ UNCHANGED posts
Reload == Visit /\ posts' = Left("done")

(* handleSummaries: the first ids only, and of those the sessions there are *)
Found == Only(UpTo(ids, MaxRemembered), DOMAIN sessions)

Summaries ==
  /\ page.at = "home" /\ page.summaries = "null"
  /\ \/ page' = [page EXCEPT !.summaries = "loaded", !.shown = Found]
     \/ page' = [page EXCEPT !.summaries = "failed"]
  /\ UNCHANGED <<server, browser, picker, posts, last>>

NewRequest ==
  /\ page.at = "home" /\ page.shown # <<>>
  /\ page' = [page EXCEPT !.showForm = TRUE]
  /\ UNCHANGED <<server, browser, picker, posts, last>>

(* the page of a session is mounted, and remembers it *)
Show(id) ==
  /\ Remember(id)
  /\ page' = Mounted("session")
  /\ picker' = AtRest
  /\ last' = id
  /\ UNCHANGED server

(* a link of the list *)
Follow(id) ==
  /\ page.at = "home" /\ id \in ToSet(page.shown)
  /\ Show(id)
  /\ posts' = Left("left")

(* an address somebody kept *)
DeepLink(id) == Show(id) /\ posts' = Left("done")

-----------------------------------------------------------------------------
(* The form and its picker *)

FormShown ==
  /\ page.at = "home" /\ page.summaries # "null"
  /\ page.shown = <<>> \/ page.showForm

(* mutant: what is picked is not cut to the room that is left *)
Mut_Room(picked) == picked

(* slice: the files picked beyond the limit are not uploaded *)
Room(picked) ==
  LET room == MaxFiles - Len(page.files)
  IN  IF picked < room THEN picked ELSE room

(* getUploadPolicy; without its answer the form offers no picker *)
GetPolicy ==
  /\ FormShown /\ ~page.policy
  /\ page' = [page EXCEPT !.policy = TRUE]
  /\ UNCHANGED <<server, browser, picker, posts, last>>

HandlePick(picked) ==
  /\ FormShown /\ page.policy
  /\ ~picker.busy
  /\ Len(page.files) < MaxFiles
  /\ picker' = [busy |-> TRUE, captured |-> page.files, left |-> Room(picked), accepted |-> <<>>]
  /\ UNCHANGED <<server, browser, page, posts, last>>

(* the loop goes on with or without this file; at its end the list is set   *)
Uploaded(took) ==
  LET accepted == picker.accepted \o SetToSeq(took)
  IN  IF picker.left > 1
      THEN /\ picker' = [picker EXCEPT !.left = @ - 1, !.accepted = accepted]
           /\ UNCHANGED page
      ELSE /\ page' = [page EXCEPT !.files = picker.captured \o accepted]
           /\ picker' = AtRest

StageUpload ==
  /\ uploads < MaxUploads
  /\ uploads' = uploads + 1
  /\ staged' = staged \cup {uploads + 1}

(* a format or a size that the server does not take, an empty file *)
RejectUpload == UNCHANGED <<uploads, staged>>

(* to the page a lost answer is a refusal *)
HandleUpload ==
  /\ picker.busy /\ picker.left > 0
  /\ \/ StageUpload /\ \E took \in {{}, {uploads + 1}} : Uploaded(took)
     \/ RejectUpload /\ Uploaded({})
  /\ UNCHANGED <<sessions, browser, posts, last>>

(* mutant: a file can be taken off the list while others are uploaded *)
Mut_Removable == FormShown

Removable == FormShown /\ ~picker.busy

TakeOff(u) ==
  /\ Removable
  /\ u \in ToSet(page.files)
  /\ page' = [page EXCEPT !.files = Without(page.files, u)]
  /\ UNCHANGED <<server, browser, picker, posts, last>>

(* the button looks at the text only, not at an upload or a submission      *)
(* under way                                                                *)
Submit(p) ==
  /\ FormShown
  /\ posts[p].client = "unused" /\ \A q \in 1..(p - 1) : posts[q].client # "unused"
  /\ posts' = [posts EXCEPT ![p] = [client |-> "waiting", server |-> "sent",
                                    names |-> ToSet(page.files), session |-> 0]]
  /\ UNCHANGED <<server, browser, page, picker, last>>

-----------------------------------------------------------------------------
(* The server opens a session *)

Open(p)   == posts' = [posts EXCEPT ![p].server = "opened", ![p].session = Len(sessions) + 1]
Refuse(p) == posts' = [posts EXCEPT ![p].server = "refused", ![p].names = {}]

(* a text that is too long is refused before there is a session *)
TooLong(p) == Refuse(p) /\ UNCHANGED server

(* mutant: the uploads that are unknown are passed over *)
Mut_Attachable(names) == TRUE

(* attachUploads and promoteUploads: all of them or none *)
Attachable(names) == Cardinality(names) <= MaxFiles /\ names \subseteq staged

(* openSession: the session and its words stand whatever becomes of the uploads *)
OpenSession(p) ==
  LET names == posts[p].names
      taken == IF Attachable(names) THEN names \cap staged ELSE {}
  IN  /\ sessions' = Append(sessions, taken)
      /\ staged' = staged \ taken
      /\ IF Attachable(names) THEN Open(p) ELSE Refuse(p)
      /\ UNCHANGED uploads

HandleIntake(p) ==
  /\ posts[p].server = "sent"
  /\ TooLong(p) \/ OpenSession(p)
  /\ UNCHANGED <<browser, page, picker, last>>

Failed(p) ==
  /\ posts' = [posts EXCEPT ![p].client = "done"]
  /\ UNCHANGED <<server, browser, page, picker, last>>

(* the answer comes: the browser goes to the session, whatever it shows by  *)
(* then, or the form shows what is wrong, if it is still there              *)
Receive(p) ==
  /\ posts[p].client \in {"waiting", "left"}
  /\ \/ /\ posts[p].server = "opened"
        /\ Show(posts[p].session)
        /\ posts' = [Left("left") EXCEPT ![p].client = "done"]
     \/ posts[p].server = "refused" /\ Failed(p)

(* the connection breaks or the time is up, before the server's work or after *)
Lost(p) == posts[p].client \in {"waiting", "left"} /\ Failed(p)

-----------------------------------------------------------------------------
Init ==
  /\ uploads = 0 /\ staged = {}
  /\ ids \in Remembered /\ legacy \in Legacy
  /\ sessions = [id \in 1..Old |-> {}]
  /\ page = Mounted("nowhere")
  /\ picker = AtRest
  /\ posts = [p \in Posts |-> Unused]
  /\ last = 0

Next ==
  \/ Return \/ Reload \/ Summaries \/ NewRequest \/ GetPolicy
  \/ \E id \in DOMAIN sessions : Follow(id) \/ DeepLink(id)
  \/ \E picked \in 1..MaxPick : HandlePick(picked)
  \/ HandleUpload
  \/ \E u \in Upload : TakeOff(u)
  \/ \E p \in Posts : Submit(p) \/ HandleIntake(p) \/ Receive(p) \/ Lost(p)

Spec == Init /\ [][Next]_vars

-----------------------------------------------------------------------------
(* Types, and the limit: no sequence of dialogs, refusals and removals      *)
(* brings more files into the form than a request may carry                 *)
TypeOK ==
  /\ uploads \in 0..MaxUploads /\ staged \subseteq 1..uploads
  /\ sessions \in Seq(SUBSET (1..uploads))
  /\ ids \in Seq(DOMAIN sessions) /\ legacy \in Nat
  /\ page \in Page /\ Len(page.files) <= MaxFiles
  /\ picker \in Picker
  /\ posts \in [Posts -> Post]
  /\ last \in {0} \cup DOMAIN sessions

(* Whatever is submitted twice, refused or unheard of, a session that was   *)
(* opened carries all the files its request named, one that was refused     *)
(* halfway carries none, and no file is in two requests                     *)
UploadsLandWhole ==
  /\ \A p \in Posts : posts[p].session # 0 => sessions[posts[p].session] = posts[p].names
  /\ \A id \in DOMAIN sessions :
       sessions[id] # {} => \E p \in Posts : posts[p].session = id
  /\ \A a, b \in DOMAIN sessions : a # b => sessions[a] \cap sessions[b] = {}
  /\ \A id \in DOMAIN sessions : sessions[id] \cap staged = {}

(* The picker sets the list it saw when its dialog closed plus what it      *)
(* uploaded; nothing may change the list meanwhile, or a removed file comes *)
(* back                                                                     *)
PickerKeepsTheList == picker.busy => picker.captured = page.files

(* The session the browser showed last is the first on its home page        *)
HomeShowsTheLatest ==
  page.at = "home" /\ page.summaries = "loaded" /\ last # 0
    => page.shown # <<>> /\ Head(page.shown) = last
=============================================================================
