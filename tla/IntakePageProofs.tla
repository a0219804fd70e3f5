-------------------------- MODULE IntakePageProofs --------------------------
(***************************************************************************)
(* Theorems about the home page before a request has a session: its form,  *)
(* its picker, the requests it sends, and the sessions it remembers.       *)
(***************************************************************************)
EXTENDS IntakePage, ListsProofs, FiniteSetTheorems

(* What the browser remembers are sessions there are, under its old key too. *)
KnownOK == legacy \in 0 .. Len(sessions)

(* A picker at work has room for the files it has yet to upload, over the   *)
(* list that is on the page.                                                *)
PickerOK ==
  /\ picker.busy =>
       /\ picker.captured = page.files
       /\ picker.left > 0
       /\ Len(picker.captured) + Len(picker.accepted) + picker.left <= MaxFiles

(* A submission has a session exactly when the server opened one for it, and *)
(* none before the server has it.                                            *)
PostsOK ==
  \A p \in Posts :
    /\ posts[p].server = "opened" => posts[p].session \in DOMAIN sessions
    /\ posts[p].server # "opened" => posts[p].session = 0
    /\ posts[p].client = "unused" => posts[p].server = "unused"

(* The session shown last leads the list of the browser.                    *)
LastOK == last # 0 => ids # <<>> /\ Head(ids) = last /\ legacy = 0

PageInv ==
  TypeOK /\ KnownOK /\ PickerOK /\ PostsOK /\ UploadsLandWhole /\ LastOK /\ HomeShowsTheLatest

-----------------------------------------------------------------------------
(* What is cut off a list, or out of it, leaves elements of the list.       *)
LEMMA WithoutFits ==
  ASSUME NEW U, NEW list \in Seq(U), NEW id
  PROVE  Without(list, id) \in Seq(U) /\ Len(Without(list, id)) <= Len(list)
<1> DEFINE others == ToSet(list) \ {id}
<1>1. Only(list, others) \in Seq(U \cap others) /\ Len(Only(list, others)) <= Len(list)
  BY OnlyProperties
<1>2. Only(list, others) \in Seq(U)
  <2>1. U \cap others \subseteq U
    OBVIOUS
  <2> HIDE DEF others
  <2> QED
    BY <1>1, <2>1, SeqMonotonic
<1> QED
  BY <1>1, <1>2 DEF Without

(* A cut list begins as the list did.                                       *)
LEMMA UpToFits ==
  ASSUME NEW U, NEW list \in Seq(U), NEW n \in Nat
  PROVE  /\ UpTo(list, n) \in Seq(U)
         /\ list # <<>> /\ n > 0 => UpTo(list, n) # <<>> /\ Head(UpTo(list, n)) = Head(list)
<1> DEFINE end == IF Len(list) < n THEN Len(list) ELSE n
           cut == SubSeq(list, 1, end)
<1>1. Len(list) \in Nat /\ end \in 0 .. Len(list)
  OBVIOUS
<1> HIDE DEF end
<1>2. \A i \in 1 .. end : list[i] \in U
  BY <1>1, ElementOfSeq
<1>3. /\ cut \in Seq(U) /\ Len(cut) = IF 1 <= end THEN end ELSE 0
      /\ \A i \in 1 .. end : cut[i] = list[1 + i - 1]
  <2>1. /\ cut \in Seq(U) /\ Len(cut) = IF 1 <= end THEN end - 1 + 1 ELSE 0
        /\ \A i \in 1 .. end - 1 + 1 : cut[i] = list[1 + i - 1]
    BY <1>1, <1>2, SubSeqProperties
  <2> QED
    BY <1>1, <2>1
<1> HIDE DEF cut
<1>4. ASSUME list # <<>>, n > 0 PROVE cut # <<>> /\ Head(cut) = Head(list)
  <2>1. Len(list) > 0
    BY <1>4, EmptySeq
  <2>2. end >= 1
    BY <1>4, <2>1 DEF end
  <2>3. Len(cut) > 0 /\ cut[1] = list[1]
    BY <1>1, <1>3, <2>2
  <2>4. cut # <<>>
    BY <2>3, EmptySeq
  <2> QED
    BY <1>3, <1>4, <2>3, <2>4
<1> QED
  BY <1>3, <1>4 DEF UpTo, cut, end

(* A list that gets a new head is a list with that head.                    *)
LEMMA ConsFits ==
  ASSUME NEW U, NEW list \in Seq(U), NEW x \in U
  PROVE  <<x>> \o list \in Seq(U) /\ <<x>> \o list # <<>> /\ Head(<<x>> \o list) = x
<1>1. <<x>> \in Seq(U) /\ Len(<<x>>) = 1 /\ <<x>>[1] = x
  OBVIOUS
<1>2. /\ <<x>> \o list \in Seq(U) /\ Len(<<x>> \o list) = 1 + Len(list) /\ Len(list) \in Nat
      /\ \A i \in 1 .. 1 + Len(list) : (<<x>> \o list)[i] = IF i <= 1 THEN <<x>>[i] ELSE list[i - 1]
  BY <1>1, ConcatProperties
<1>3. (<<x>> \o list)[1] = x
  BY <1>1, <1>2
<1>4. <<x>> \o list # <<>>
  BY <1>2, EmptySeq
<1> QED
  BY <1>2, <1>3, <1>4

(* The one upload that was taken, or none, as a list.                       *)
LEMMA TookFits ==
  ASSUME NEW took, took = {} \/ (\E u \in Upload : took = {u})
  PROVE  SetToSeq(took) \in Seq(Upload) /\ Len(SetToSeq(took)) <= 1
<1>1. CASE took = {}
  <2>1. Cardinality({}) = 0
    BY FS_EmptySet
  <2>2. \E f \in [1 .. Cardinality(took) -> took] : IsInjective(f)
    <3>1. 1 .. Cardinality(took) = {}
      BY <1>1, <2>1
    <3>2. <<>> \in [1 .. Cardinality(took) -> took] /\ IsInjective(<<>>)
      BY <3>1 DEF IsInjective
    <3> QED
      BY <3>2
  <2>3. SetToSeq(took) \in [1 .. 0 -> {}]
    BY <1>1, <2>1, <2>2 DEF SetToSeq
  <2>4. SetToSeq(took) = <<>>
    BY <2>3
  <2> QED
    BY <2>4, EmptySeq
<1>2. ASSUME NEW u \in Upload, took = {u} PROVE SetToSeq(took) \in Seq(Upload) /\ Len(SetToSeq(took)) <= 1
  <2>1. Cardinality({u}) = 1
    BY FS_Singleton
  <2>2. \E f \in [1 .. Cardinality(took) -> took] : IsInjective(f)
    <3>1. [i \in 1 .. 1 |-> u] \in [1 .. Cardinality(took) -> took] /\ IsInjective([i \in 1 .. 1 |-> u])
      BY <1>2, <2>1 DEF IsInjective
    <3> QED
      BY <3>1
  <2>3. SetToSeq(took) \in [1 .. 1 -> {u}]
    BY <1>2, <2>1, <2>2 DEF SetToSeq
  <2>4. SetToSeq(took) = <<u>>
    BY <2>3
  <2> QED
    BY <2>4
<1> QED
  BY <1>1, <1>2

-----------------------------------------------------------------------------
(* The server and the submissions                                           *)

ServerTypeOK ==
  /\ uploads \in 0 .. MaxUploads /\ staged \subseteq 1 .. uploads
  /\ sessions \in Seq(SUBSET (1 .. uploads))
  /\ posts \in [Posts -> Post]
ServerInv == ServerTypeOK /\ PostsOK /\ UploadsLandWhole

(* What the server knows of a submission stays, whoever waits for it.       *)
SamePost(p) ==
  /\ posts'[p].server = posts[p].server /\ posts'[p].session = posts[p].session
  /\ posts'[p].names = posts[p].names
  /\ posts'[p].client = "unused" <=> posts[p].client = "unused"
ServerStays == UNCHANGED server /\ posts' \in [Posts -> Post] /\ \A p \in Posts : SamePost(p)

(* A page that is left leaves its submissions to the server.                *)
LEMMA LeftStays ==
  ASSUME ServerTypeOK, NEW how \in {"left", "done"}
  PROVE  /\ Left(how) \in [Posts -> Post]
         /\ \A p \in Posts :
              /\ Left(how)[p].server = posts[p].server /\ Left(how)[p].session = posts[p].session
              /\ Left(how)[p].names = posts[p].names
              /\ Left(how)[p].client = "unused" <=> posts[p].client = "unused"
<1> SUFFICES ASSUME NEW p \in Posts
             PROVE  /\ Left(how)[p] \in Post
                    /\ Left(how)[p].server = posts[p].server /\ Left(how)[p].session = posts[p].session
                    /\ Left(how)[p].names = posts[p].names
                    /\ Left(how)[p].client = "unused" <=> posts[p].client = "unused"
  BY DEF Left
<1>1. posts[p] \in Post
  BY DEF ServerTypeOK
<1> QED
  BY <1>1 DEF Left, Post

(* The server meets new words, a file or a request, or is left alone.       *)
LEMMA ServerMoves ==
  ASSUME ServerTypeOK, [Next]_vars
  PROVE  ServerStays \/ (\E p \in Posts : Submit(p) \/ HandleIntake(p)) \/ HandleUpload
<1>t. \A p \in Posts : posts[p] \in Post
  BY DEF ServerTypeOK
<1>1. ASSUME UNCHANGED <<server, posts>> PROVE ServerStays
  BY <1>1 DEF ServerStays, SamePost, ServerTypeOK
<1>2. CASE Return \/ Summaries \/ NewRequest \/ GetPolicy \/ (\E picked \in 1 .. MaxPick : HandlePick(picked))
           \/ (\E u \in Upload : TakeOff(u)) \/ UNCHANGED vars
  BY <1>1, <1>2 DEF Return, Visit, Summaries, NewRequest, GetPolicy, HandlePick, TakeOff, vars
<1>3. ASSUME NEW how \in {"left", "done"}, UNCHANGED server, posts' = Left(how) PROVE ServerStays
  BY <1>3, LeftStays DEF ServerStays, SamePost
<1>4. CASE Reload \/ \E id \in DOMAIN sessions : Follow(id) \/ DeepLink(id)
  BY <1>3, <1>4 DEF Reload, Visit, Follow, DeepLink, Show
<1>5. ASSUME NEW p \in Posts, Failed(p), posts[p].client # "unused" PROVE ServerStays
  BY <1>t, <1>5 DEF Failed, ServerStays, SamePost, ServerTypeOK, Post
<1>6. ASSUME NEW p \in Posts, posts[p].client # "unused", UNCHANGED server,
             posts' = [Left("left") EXCEPT ![p].client = "done"]
      PROVE  ServerStays
  <2> DEFINE gone == Left("left")
  <2>1. /\ gone \in [Posts -> Post]
        /\ \A q \in Posts :
             /\ gone[q].server = posts[q].server /\ gone[q].session = posts[q].session
             /\ gone[q].names = posts[q].names
             /\ gone[q].client = "unused" <=> posts[q].client = "unused"
    BY LeftStays
  <2>2. posts' = [gone EXCEPT ![p].client = "done"]
    BY <1>6
  <2> HIDE DEF gone
  <2>3. ASSUME NEW q \in Posts PROVE posts'[q] \in Post /\ SamePost(q)
    <3>1. gone[q] \in Post
      BY <2>1
    <3>2. posts'[q] = IF q = p THEN [gone[q] EXCEPT !.client = "done"] ELSE gone[q]
      BY <2>1, <2>2
    <3>3. /\ posts'[q] \in Post
          /\ posts'[q].server = gone[q].server /\ posts'[q].session = gone[q].session
          /\ posts'[q].names = gone[q].names
          /\ posts'[q].client = IF q = p THEN "done" ELSE gone[q].client
      BY <3>1, <3>2 DEF Post
    <3> QED
      BY <1>6, <2>1, <3>3 DEF SamePost
  <2> QED
    BY <1>6, <2>1, <2>2, <2>3 DEF ServerStays
<1>7. CASE \E p \in Posts : Receive(p) \/ Lost(p)
  BY <1>5, <1>6, <1>7 DEF Receive, Lost, Show
<1> QED
  BY <1>2, <1>4, <1>7 DEF Next

(* What only the waiting sides see changes nothing at the server.           *)
LEMMA StaysStep == ASSUME ServerInv, ServerStays PROVE ServerInv'
<1>1. ServerTypeOK' /\ PostsOK' /\ sessions' = sessions /\ staged' = staged
  BY DEF ServerInv, ServerStays, SamePost, ServerTypeOK, PostsOK, server
<1>2. UploadsLandWhole'
  BY <1>1 DEF ServerInv, ServerStays, SamePost, UploadsLandWhole
<1> QED
  BY <1>1, <1>2 DEF ServerInv

(* A submission names the files of the form, and has no session yet.        *)
LEMMA SubmitStep ==
  ASSUME ServerInv, NEW p \in Posts, Submit(p), page.files \in Seq(Upload)
  PROVE  ServerInv'
<1>1. ToSet(page.files) \subseteq Upload
  BY ElementOfSeq DEF ToSet
<1> DEFINE new == [client |-> "waiting", server |-> "sent", names |-> ToSet(page.files), session |-> 0]
<1>2. new \in Post /\ new.server = "sent" /\ new.session = 0 /\ new.client = "waiting"
  BY <1>1 DEF Post
<1>3. posts' = [posts EXCEPT ![p] = new] /\ UNCHANGED <<uploads, staged, sessions>>
  BY DEF Submit, server
<1> HIDE DEF new
<1>4. ServerTypeOK'
  BY <1>2, <1>3 DEF ServerInv, ServerTypeOK
<1>5. posts'[p] = new /\ \A q \in Posts \ {p} : posts'[q] = posts[q]
  BY <1>3 DEF ServerInv, ServerTypeOK
<1>6. PostsOK'
  BY <1>2, <1>3, <1>5 DEF ServerInv, PostsOK
<1>7. posts[p].session = 0
  BY DEF Submit, ServerInv, PostsOK
<1>8. UploadsLandWhole'
  <2>1. \A q \in Posts : posts'[q].session # 0 => q # p
    BY <1>2, <1>5
  <2>2. \A q \in Posts : posts'[q].session # 0 => sessions[posts'[q].session] = posts'[q].names
    BY <1>5, <2>1 DEF ServerInv, UploadsLandWhole
  <2>3. ASSUME NEW id \in DOMAIN sessions, sessions[id] # {} PROVE \E q \in Posts : posts'[q].session = id
    <3>1. PICK q \in Posts : posts[q].session = id
      BY <2>3 DEF ServerInv, UploadsLandWhole
    <3>2. id # 0
      BY LenProperties DEF ServerInv, ServerTypeOK
    <3>3. q # p
      BY <1>7, <3>1, <3>2
    <3> QED
      BY <1>5, <3>1, <3>3
  <2> QED
    BY <1>3, <2>2, <2>3 DEF ServerInv, UploadsLandWhole
<1> QED
  BY <1>4, <1>6, <1>8 DEF ServerInv

(* A file that is staged is in no session.                                  *)
LEMMA UploadStep == ASSUME ServerInv, HandleUpload PROVE ServerInv'
<1>t. uploads \in Nat /\ sessions \in Seq(SUBSET (1 .. uploads)) /\ staged \subseteq 1 .. uploads
      /\ DOMAIN sessions = 1 .. Len(sessions)
  BY LenProperties, PageAssumption DEF ServerInv, ServerTypeOK
<1>1. CASE RejectUpload
  <2>1. UNCHANGED <<uploads, staged, sessions, posts>>
    BY <1>1 DEF RejectUpload, HandleUpload
  <2> QED
    BY <2>1 DEF ServerInv, ServerTypeOK, PostsOK, UploadsLandWhole
<1>2. CASE StageUpload
  <2>1. UNCHANGED <<sessions, posts>> /\ uploads' = uploads + 1 /\ staged' = staged \cup {uploads + 1}
        /\ uploads + 1 \in 0 .. MaxUploads
    BY <1>t, <1>2, PageAssumption DEF StageUpload, HandleUpload
  <2>2. SUBSET (1 .. uploads) \subseteq SUBSET (1 .. uploads + 1)
    BY <1>t
  <2>3. sessions \in Seq(SUBSET (1 .. uploads + 1))
    BY <1>t, <2>2, SeqMonotonic
  <2>4. staged' \subseteq 1 .. uploads + 1
    BY <1>t, <2>1
  <2>5. ServerTypeOK'
    BY <2>1, <2>3, <2>4 DEF ServerInv, ServerTypeOK
  <2>6. PostsOK'
    BY <2>1 DEF ServerInv, PostsOK
  <2>7. \A id \in DOMAIN sessions : sessions[id] \subseteq 1 .. uploads
    BY <1>t, ElementOfSeq
  <2>8. \A id \in DOMAIN sessions : uploads + 1 \notin sessions[id]
    BY <1>t, <2>7
  <2>9. UploadsLandWhole'
    BY <2>1, <2>8 DEF ServerInv, UploadsLandWhole
  <2> QED
    BY <2>5, <2>6, <2>9 DEF ServerInv
<1> QED
  BY <1>1, <1>2 DEF HandleUpload

(* A request is refused before there is a session, or as one is opened that *)
(* gets none of its files; or the session gets them all.                    *)
LEMMA IntakeStep == ASSUME ServerInv, NEW p \in Posts, HandleIntake(p) PROVE ServerInv'
<1> DEFINE names == posts[p].names
<1>t. /\ ServerTypeOK /\ PostsOK /\ UploadsLandWhole /\ posts[p] \in Post /\ posts[p].session = 0
      /\ posts[p].server = "sent" /\ posts[p].client # "unused"
      /\ DOMAIN sessions = 1 .. Len(sessions) /\ Len(sessions) \in Nat
  BY LenProperties DEF HandleIntake, ServerInv, ServerTypeOK, PostsOK
<1>r. ASSUME Refuse(p)
      PROVE  /\ posts' \in [Posts -> Post] /\ posts'[p].server = "refused" /\ posts'[p].session = 0
             /\ posts'[p].client = posts[p].client
             /\ \A q \in Posts \ {p} : posts'[q] = posts[q]
  BY <1>t, <1>r DEF Refuse, ServerTypeOK, Post
<1>1. CASE TooLong(p)
  <2>1. UNCHANGED <<uploads, staged, sessions>> /\ Refuse(p)
    BY <1>1 DEF TooLong, server
  <2>2. ServerTypeOK' /\ PostsOK'
    BY <1>t, <1>r, <2>1 DEF ServerTypeOK, PostsOK
  <2>3. \A q \in Posts : posts'[q].session = posts[q].session
    BY <1>t, <1>r, <2>1
  <2>4. \A q \in Posts : posts'[q].session # 0 => posts'[q].names = posts[q].names
    BY <1>t, <1>r, <2>1, <2>3
  <2>5. UploadsLandWhole'
    BY <1>t, <2>1, <2>3, <2>4 DEF UploadsLandWhole
  <2> QED
    BY <2>2, <2>5 DEF ServerInv
<1>2. CASE OpenSession(p)
  <2> DEFINE taken == IF Attachable(names) THEN names \cap staged ELSE {}
             new == Len(sessions) + 1
  <2>1. /\ sessions' = Append(sessions, taken) /\ staged' = staged \ taken /\ uploads' = uploads
        /\ IF Attachable(names) THEN Open(p) ELSE Refuse(p)
    BY <1>2 DEF OpenSession
  <2>2. taken \subseteq staged /\ taken \in SUBSET (1 .. uploads)
    BY <1>t DEF ServerTypeOK
  <2>a. Attachable(names) => taken = names
    BY DEF Attachable
  <2>b. ~Attachable(names) => taken = {}
    OBVIOUS
  <2> HIDE DEF taken
  <2>3. /\ sessions' \in Seq(SUBSET (1 .. uploads)) /\ Len(sessions') = new
        /\ \A i \in 1 .. Len(sessions) : sessions'[i] = sessions[i]
        /\ sessions'[new] = taken
    BY <1>t, <2>1, <2>2, AppendProperties DEF ServerTypeOK
  <2>4. DOMAIN sessions' = 1 .. new /\ 1 .. new = (DOMAIN sessions) \cup {new} /\ new \notin DOMAIN sessions
    BY <1>t, <2>3, LenProperties
  <2>5. /\ posts' \in [Posts -> Post] /\ posts'[p].client = posts[p].client
        /\ \A q \in Posts \ {p} : posts'[q] = posts[q]
        /\ IF Attachable(names)
           THEN posts'[p].server = "opened" /\ posts'[p].session = new /\ posts'[p].names = names
           ELSE posts'[p].server = "refused" /\ posts'[p].session = 0
    <3>1. CASE Attachable(names)
      <4>1. posts' = [posts EXCEPT ![p].server = "opened", ![p].session = Len(sessions) + 1]
        BY <2>1, <3>1 DEF Open
      <4>2. new \in Nat
        BY <1>t
      <4> QED
        BY <1>t, <3>1, <4>1, <4>2 DEF ServerTypeOK, Post
    <3>2. CASE ~Attachable(names)
      BY <1>r, <2>1, <3>2
    <3> QED
      BY <3>1, <3>2
  <2> HIDE DEF new
  <2>6. ServerTypeOK'
    BY <1>t, <2>1, <2>2, <2>3, <2>5 DEF ServerTypeOK
  <2>7. PostsOK'
    BY <1>t, <2>4, <2>5 DEF PostsOK
  <2>8. UploadsLandWhole'
    <3>1. ASSUME NEW q \in Posts, posts'[q].session # 0
          PROVE  sessions'[posts'[q].session] = posts'[q].names
      <4>1. CASE q = p
        BY <2>3, <2>5, <2>a, <3>1, <4>1
      <4>2. CASE q # p
        <5>1. posts'[q] = posts[q] /\ posts[q].session \in DOMAIN sessions
          BY <1>t, <2>5, <3>1, <4>2 DEF PostsOK
        <5>2. sessions[posts[q].session] = posts[q].names
          BY <1>t, <3>1, <5>1 DEF UploadsLandWhole
        <5> QED
          BY <1>t, <2>3, <5>1, <5>2
      <4> QED
        BY <4>1, <4>2
    <3>2. ASSUME NEW id \in DOMAIN sessions', sessions'[id] # {}
          PROVE  \E q \in Posts : posts'[q].session = id
      <4>1. CASE id = new
        BY <2>3, <2>5, <2>b, <3>2, <4>1
      <4>2. CASE id # new
        <5>1. id \in DOMAIN sessions /\ sessions[id] # {} /\ id # 0
          BY <1>t, <2>3, <2>4, <3>2, <4>2
        <5>2. PICK q \in Posts : posts[q].session = id
          BY <1>t, <5>1 DEF UploadsLandWhole
        <5> QED
          BY <1>t, <2>5, <5>1, <5>2
      <4> QED
        BY <4>1, <4>2
    <3>3. \A id \in DOMAIN sessions : sessions'[id] = sessions[id] /\ sessions[id] \cap taken = {}
      BY <1>t, <2>2, <2>3 DEF UploadsLandWhole
    <3>4. \A a, b \in DOMAIN sessions' : a # b => sessions'[a] \cap sessions'[b] = {}
      BY <1>t, <2>3, <2>4, <3>3 DEF UploadsLandWhole
    <3>5. \A id \in DOMAIN sessions' : sessions'[id] \cap staged' = {}
      BY <1>t, <2>1, <2>3, <2>4, <3>3 DEF UploadsLandWhole
    <3> QED
      BY <3>1, <3>2, <3>4, <3>5 DEF UploadsLandWhole
  <2> QED
    BY <2>6, <2>7, <2>8 DEF ServerInv
<1> QED
  BY <1>1, <1>2 DEF HandleIntake

(* Whatever reaches the server, a session carries its files whole.          *)
LEMMA ServerStep ==
  ASSUME ServerInv, page.files \in Seq(Upload), [Next]_vars
  PROVE  ServerInv'
<1>1. ServerTypeOK
  BY DEF ServerInv
<1> QED
  BY <1>1, ServerMoves, StaysStep, SubmitStep, UploadStep, IntakeStep

-----------------------------------------------------------------------------
(* The form and its picker                                                  *)

FormTypeOK == page \in Page /\ Len(page.files) <= MaxFiles /\ picker \in Picker
FormInv    == FormTypeOK /\ PickerOK

(* A page that is mounted has no files, and its picker is at rest.          *)
LEMMA MountedFits ==
  ASSUME NEW at \in {"nowhere", "home", "session"}, page' = Mounted(at), picker' = AtRest
  PROVE  FormInv' /\ page'.summaries = "null"
<1>1. <<>> \in Seq(Upload) /\ <<>> \in Seq(Nat) /\ Len(<<>>) = 0
  BY EmptySeq
<1>2. Mounted(at) \in Page /\ Mounted(at).files = <<>> /\ Mounted(at).summaries = "null"
  BY <1>1 DEF Mounted, Page
<1>3. AtRest \in Picker /\ ~AtRest.busy
  BY <1>1 DEF AtRest, Picker
<1>4. page' \in Page /\ page'.files = <<>> /\ page'.summaries = "null" /\ picker' \in Picker /\ ~picker'.busy
  BY <1>2, <1>3
<1>5. Len(page'.files) <= MaxFiles
  <2>1. MaxFiles \in Nat
    BY PageAssumption
  <2> QED
    BY <1>1, <1>4, <2>1
<1> QED
  BY <1>4, <1>5 DEF FormInv, FormTypeOK, PickerOK

(* A page whose files and picker stay keeps what the form relies on.        *)
LEMMA FormStays ==
  ASSUME FormInv, page' \in Page, page'.files = page.files, picker' = picker
  PROVE  FormInv'
  BY DEF FormInv, FormTypeOK, PickerOK

(* A dialog that closes takes no more files than there is room for.         *)
LEMMA PickStep ==
  ASSUME FormInv, NEW picked \in 1 .. MaxPick, HandlePick(picked)
  PROVE  FormInv'
<1> DEFINE new == [busy |-> TRUE, captured |-> page.files, left |-> Room(picked), accepted |-> <<>>]
<1>1. page.files \in Seq(Upload) /\ Len(page.files) \in Nat /\ <<>> \in Seq(Upload) /\ Len(<<>>) = 0
  BY EmptySeq DEF FormInv, FormTypeOK, Page
<1>2. Room(picked) \in Nat /\ Room(picked) > 0 /\ Len(page.files) + Room(picked) <= MaxFiles
  <2> DEFINE files == Len(page.files)
             room  == MaxFiles - files
  <2>1. MaxFiles \in Nat /\ MaxPick \in Nat
    BY PageAssumption
  <2>2. files \in Nat /\ files < MaxFiles /\ picked \in Nat /\ picked > 0
    BY <1>1, <2>1 DEF HandlePick
  <2>3. Room(picked) = IF picked < room THEN picked ELSE room
    BY DEF Room
  <2>4. Len(page.files) = files
    OBVIOUS
  <2> HIDE DEF files
  <2> QED
    BY <2>1, <2>2, <2>3, <2>4
<1>3. new \in Picker
  BY <1>1, <1>2 DEF Picker
<1>4. picker' = new /\ page' = page
  BY DEF HandlePick
<1>5. new.captured = page.files /\ new.left = Room(picked) /\ new.accepted = <<>>
  OBVIOUS
<1> HIDE DEF new
<1> QED
  BY <1>1, <1>2, <1>3, <1>4, <1>5 DEF FormInv, FormTypeOK, PickerOK

(* The loop over the picked files ends within the limit of the form.        *)
LEMMA LoopStep ==
  ASSUME FormInv, picker.busy, NEW took, took = {} \/ (\E u \in Upload : took = {u}), Uploaded(took)
  PROVE  FormInv'
<1> DEFINE accepted == picker.accepted \o SetToSeq(took)
<1>1. /\ SetToSeq(took) \in Seq(Upload) /\ Len(SetToSeq(took)) <= 1
      /\ picker.accepted \in Seq(Upload) /\ picker.captured \in Seq(Upload) /\ picker.left \in Nat
  BY TookFits DEF FormInv, FormTypeOK, Picker
<1>2. /\ accepted \in Seq(Upload) /\ Len(accepted) = Len(picker.accepted) + Len(SetToSeq(took))
      /\ Len(SetToSeq(took)) \in Nat /\ Len(picker.accepted) \in Nat /\ Len(picker.captured) \in Nat
  BY <1>1, ConcatProperties
<1>3. /\ picker.captured = page.files /\ picker.left > 0
      /\ Len(picker.captured) + Len(picker.accepted) + picker.left <= MaxFiles
  BY DEF FormInv, PickerOK
<1>a. MaxFiles \in Nat
  BY PageAssumption
<1>b. Len(picker.captured) + Len(accepted) + (picker.left - 1) <= MaxFiles
  <2> DEFINE c == Len(picker.captured)
             a == Len(picker.accepted)
             t == Len(SetToSeq(took))
             l == picker.left
  <2>1. c \in Nat /\ a \in Nat /\ t \in Nat /\ l \in Nat /\ t <= 1 /\ c + a + l <= MaxFiles
    BY <1>1, <1>2, <1>3
  <2>2. Len(accepted) = a + t
    BY <1>2
  <2> HIDE DEF c, a, t, l, accepted
  <2>3. c + (a + t) + (l - 1) <= MaxFiles
    BY <2>1, <1>a
  <2> QED
    BY <2>2, <2>3 DEF c, l
<1>4. CASE picker.left > 1
  <2>1. picker' = [picker EXCEPT !.left = @ - 1, !.accepted = accepted] /\ page' = page
    BY <1>4 DEF Uploaded
  <2> HIDE DEF accepted
  <2>2. /\ picker' \in Picker /\ picker'.busy = picker.busy /\ picker'.captured = picker.captured
        /\ picker'.left = picker.left - 1 /\ picker'.accepted = accepted
    <3>1. picker \in Picker /\ picker.left - 1 \in Nat
      BY <1>1, <1>4 DEF FormInv, FormTypeOK
    <3> QED
      BY <1>2, <2>1, <3>1 DEF Picker
  <2>3. picker'.left > 0 /\ Len(picker.captured) + Len(accepted) + picker'.left <= MaxFiles
    BY <1>1, <1>4, <1>b, <2>2
  <2> QED
    BY <1>3, <2>1, <2>2, <2>3 DEF FormInv, FormTypeOK, PickerOK
<1>5. CASE ~(picker.left > 1)
  <2>1. page' = [page EXCEPT !.files = picker.captured \o accepted] /\ picker' = AtRest
    BY <1>5 DEF Uploaded
  <2> HIDE DEF accepted
  <2>2. /\ picker.captured \o accepted \in Seq(Upload)
        /\ Len(picker.captured \o accepted) = Len(picker.captured) + Len(accepted)
    BY <1>1, <1>2, ConcatProperties
  <2>3. Len(picker.captured \o accepted) <= MaxFiles
    <3>1. picker.left = 1
      BY <1>1, <1>3, <1>5
    <3>2. Len(picker.captured) \in Nat /\ Len(accepted) \in Nat
      BY <1>2
    <3> QED
      BY <1>a, <1>b, <2>2, <3>1, <3>2
  <2>4. page' \in Page /\ page'.files = picker.captured \o accepted
    BY <2>1, <2>2 DEF FormInv, FormTypeOK, Page
  <2>5. AtRest \in Picker /\ ~AtRest.busy
    BY EmptySeq DEF AtRest, Picker
  <2> QED
    BY <2>1, <2>3, <2>4, <2>5 DEF FormInv, FormTypeOK, PickerOK
<1> QED
  BY <1>4, <1>5

(* A file is taken off only while nothing is uploaded.                      *)
LEMMA TakeOffStep == ASSUME FormInv, NEW u \in Upload, TakeOff(u) PROVE FormInv'
<1>1. page.files \in Seq(Upload) /\ Len(page.files) \in Nat
  BY DEF FormInv, FormTypeOK, Page
<1> DEFINE rest == Without(page.files, u)
<1>2. rest \in Seq(Upload) /\ Len(rest) <= Len(page.files)
  BY <1>1, WithoutFits
<1>3. page' = [page EXCEPT !.files = rest] /\ picker' = picker /\ ~picker.busy
  BY DEF TakeOff, Removable
<1> HIDE DEF rest
<1>4. page' \in Page /\ page'.files = rest
  BY <1>2, <1>3 DEF FormInv, FormTypeOK, Page
<1>5. Len(rest) <= MaxFiles
  BY <1>1, <1>2, PageAssumption DEF FormInv, FormTypeOK
<1> QED
  BY <1>3, <1>4, <1>5 DEF FormInv, FormTypeOK, PickerOK

(* A summary that arrives, a request for the form and the policy leave the  *)
(* files alone.                                                              *)
LEMMA ViewStep ==
  ASSUME FormInv, Found \in Seq(Nat), Summaries \/ NewRequest \/ GetPolicy
  PROVE  FormInv'
<1>1. page \in Page /\ picker' = picker
  BY DEF FormInv, FormTypeOK, Summaries, NewRequest, GetPolicy
<1>2. page' \in Page /\ page'.files = page.files
  <2>1. CASE Summaries
    <3> DEFINE found == Found
    <3>1. \/ page' = [page EXCEPT !.summaries = "loaded", !.shown = found]
          \/ page' = [page EXCEPT !.summaries = "failed"]
      BY <2>1 DEF Summaries
    <3>2. found \in Seq(Nat)
      OBVIOUS
    <3> HIDE DEF found
    <3> QED
      BY <1>1, <3>1, <3>2 DEF Page
  <2>2. CASE NewRequest \/ GetPolicy
    BY <1>1, <2>2 DEF NewRequest, GetPolicy, Page
  <2> QED
    BY <2>1, <2>2
<1> QED
  BY <1>1, <1>2, FormStays

-----------------------------------------------------------------------------
(* What the browser remembers                                               *)

BrowserTypeOK ==
  /\ ids \in Seq(DOMAIN sessions) /\ legacy \in Nat
  /\ last \in {0} \cup DOMAIN sessions
BrowserInv == BrowserTypeOK /\ KnownOK /\ LastOK /\ HomeShowsTheLatest

(* The sessions there are have the numbers up to their count.               *)
LEMMA SessionsCount ==
  ASSUME ServerTypeOK
  PROVE  DOMAIN sessions = 1 .. Len(sessions) /\ Len(sessions) \in Nat
BY LenProperties DEF ServerTypeOK

(* The list with the id under the old key is a list of sessions, which the  *)
(* session shown last leads.                                                *)
LEMMA ListedFits ==
  ASSUME ServerTypeOK, BrowserInv
  PROVE  /\ Listed \in Seq(DOMAIN sessions)
         /\ last # 0 => Listed # <<>> /\ Head(Listed) = last
<1>1. CASE legacy = 0 \/ legacy \in ToSet(ids)
  <2>1. Listed = ids
    BY <1>1 DEF Listed
  <2> QED
    BY <2>1 DEF BrowserInv, BrowserTypeOK, LastOK
<1>2. CASE ~(legacy = 0 \/ legacy \in ToSet(ids))
  <2>1. Listed = <<legacy>> \o ids
    BY <1>2 DEF Listed
  <2>2. legacy \in DOMAIN sessions
    BY <1>2, SessionsCount DEF BrowserInv, KnownOK
  <2>3. <<legacy>> \o ids \in Seq(DOMAIN sessions)
    BY <2>2, ConsFits DEF BrowserInv, BrowserTypeOK
  <2>4. last = 0
    BY <1>2 DEF BrowserInv, LastOK
  <2> QED
    BY <2>1, <2>3, <2>4
<1> QED
  BY <1>1, <1>2

(* The page of a session puts it at the head of the list.                   *)
LEMMA ShowStep ==
  ASSUME ServerTypeOK, BrowserInv, NEW id \in DOMAIN sessions, Show(id)
  PROVE  BrowserInv'
<1> DEFINE U == DOMAIN sessions
           rest == Without(Listed, id)
           full == <<id>> \o rest
           kept == UpTo(full, MaxRemembered)
<1>1. sessions' = sessions /\ ids' = kept /\ legacy' = 0 /\ last' = id /\ page' = Mounted("session")
  BY DEF Show, Remember, server
<1>2. Listed \in Seq(U)
  BY ListedFits
<1>3. rest \in Seq(U)
  BY <1>2, WithoutFits
<1> HIDE DEF rest
<1>4. full \in Seq(U) /\ full # <<>> /\ Head(full) = id
  BY <1>3, ConsFits
<1>5. MaxRemembered \in Nat /\ MaxRemembered > 0
  BY PageAssumption
<1> HIDE DEF full
<1>6. kept \in Seq(U) /\ kept # <<>> /\ Head(kept) = id
  BY <1>4, <1>5, UpToFits
<1> HIDE DEF kept
<1>7. page'.summaries = "null"
  BY <1>1 DEF Mounted
<1>8. Len(sessions) \in Nat
  BY SessionsCount
<1> QED
  BY <1>1, <1>6, <1>7, <1>8 DEF BrowserInv, BrowserTypeOK, KnownOK, LastOK, HomeShowsTheLatest

(* A visit moves the id under the old key into the list.                    *)
LEMMA VisitStep == ASSUME ServerTypeOK, BrowserInv, Visit PROVE BrowserInv'
<1> DEFINE list == Listed
<1>1. sessions' = sessions /\ ids' = list /\ legacy' = 0 /\ last' = last /\ page'.summaries = "null"
  BY DEF Visit, server, Mounted
<1>2. list \in Seq(DOMAIN sessions) /\ (last # 0 => list # <<>> /\ Head(list) = last)
  BY ListedFits
<1> HIDE DEF list
<1>3. Len(sessions) \in Nat
  BY SessionsCount
<1> QED
  BY <1>1, <1>2, <1>3 DEF BrowserInv, BrowserTypeOK, KnownOK, LastOK, HomeShowsTheLatest

(* The summaries are those of the first sessions of the list, all of which  *)
(* there are.                                                               *)
LEMMA FoundFits ==
  ASSUME ServerTypeOK, BrowserInv
  PROVE  /\ Found \in Seq(Nat)
         /\ last # 0 => Found # <<>> /\ Head(Found) = last
<1> DEFINE U == DOMAIN sessions
           first == UpTo(ids, MaxRemembered)
<1>1. ids \in Seq(U) /\ MaxRemembered \in Nat /\ MaxRemembered > 0
  BY PageAssumption DEF BrowserInv, BrowserTypeOK
<1>2. first \in Seq(U) /\ (ids # <<>> => first # <<>> /\ Head(first) = Head(ids))
  BY <1>1, UpToFits
<1>3. Found = Only(first, U)
  BY DEF Found
<1> HIDE DEF first
<1>4. Only(first, U) = first
  BY <1>2, OnlyProperties
<1>5. U \subseteq Nat
  BY SessionsCount
<1>6. first \in Seq(Nat)
  <2> HIDE DEF U
  <2> QED
    BY <1>2, <1>5, SeqMonotonic
<1> QED
  BY <1>2, <1>3, <1>4, <1>6 DEF BrowserInv, LastOK

(* What leaves the list, the sessions and the summaries alone.              *)
LEMMA ViewStays ==
  ASSUME BrowserInv, UNCHANGED <<sessions, browser, last>>,
         page'.at = page.at, page'.summaries = page.summaries, page'.shown = page.shown
  PROVE  BrowserInv'
BY DEF BrowserInv, BrowserTypeOK, KnownOK, LastOK, HomeShowsTheLatest, browser

(* A session that is opened forgets none.                                   *)
LEMMA OpenStep ==
  ASSUME ServerTypeOK, BrowserInv, NEW p \in Posts, HandleIntake(p)
  PROVE  BrowserInv'
<1>1. UNCHANGED <<ids, legacy, page, last>>
  BY DEF HandleIntake, browser
<1>2. CASE TooLong(p)
  <2>1. sessions' = sessions
    BY <1>2 DEF TooLong, server
  <2> QED
    BY <1>1, <2>1, ViewStays DEF browser
<1>3. CASE OpenSession(p)
  <2>1. PICK taken : sessions' = Append(sessions, taken) /\ taken \in SUBSET (1 .. uploads)
    <3> DEFINE took == IF Attachable(posts[p].names) THEN posts[p].names \cap staged ELSE {}
    <3>1. sessions' = Append(sessions, took)
      BY <1>3 DEF OpenSession
    <3>2. took \in SUBSET (1 .. uploads)
      BY DEF ServerTypeOK
    <3> QED
      BY <3>1, <3>2
  <2>2. sessions' \in Seq(SUBSET (1 .. uploads)) /\ Len(sessions') = Len(sessions) + 1
    BY <2>1, AppendProperties DEF ServerTypeOK
  <2>3. DOMAIN sessions' = 1 .. Len(sessions) + 1
    BY <2>2, LenProperties
  <2>4. DOMAIN sessions \subseteq DOMAIN sessions' /\ Len(sessions) \in Nat
    BY <2>3, SessionsCount
  <2>5. ids \in Seq(DOMAIN sessions')
    BY <2>4, SeqMonotonic DEF BrowserInv, BrowserTypeOK
  <2>6. last \in {0} \cup DOMAIN sessions'
    BY <2>4 DEF BrowserInv, BrowserTypeOK
  <2>7. legacy \in 0 .. Len(sessions')
    BY <2>2, <2>4 DEF BrowserInv, KnownOK
  <2> QED
    BY <1>1, <2>5, <2>6, <2>7 DEF BrowserInv, BrowserTypeOK, KnownOK, LastOK, HomeShowsTheLatest
<1> QED
  BY <1>2, <1>3 DEF HandleIntake

(* What the form and its picker do is not seen in the list.                 *)
LEMMA FormIsApart ==
  ASSUME FormInv, BrowserInv,
         \/ NewRequest \/ GetPolicy \/ (\E picked \in 1 .. MaxPick : HandlePick(picked)) \/ HandleUpload
         \/ (\E u \in Upload : TakeOff(u)) \/ (\E p \in Posts : Submit(p) \/ Failed(p)) \/ UNCHANGED vars
  PROVE  BrowserInv'
<1>t. page \in Page
  BY DEF FormInv, FormTypeOK
<1>1. UNCHANGED <<sessions, browser, last>>
  BY DEF NewRequest, GetPolicy, HandlePick, HandleUpload, TakeOff, Submit, Failed, vars, server
<1>2. page'.at = page.at /\ page'.summaries = page.summaries /\ page'.shown = page.shown
  <2>1. CASE NewRequest \/ GetPolicy \/ \E u \in Upload : TakeOff(u)
    BY <1>t, <2>1 DEF NewRequest, GetPolicy, TakeOff, Page
  <2>2. CASE HandleUpload
    <3>1. PICK took : Uploaded(took)
      BY <2>2 DEF HandleUpload
    <3>2. page' = page \/ \E files : page' = [page EXCEPT !.files = files]
      BY <3>1 DEF Uploaded
    <3> QED
      BY <1>t, <3>2 DEF Page
  <2>3. CASE page' = page
    BY <2>3
  <2>4. CASE (\E picked \in 1 .. MaxPick : HandlePick(picked)) \/ (\E p \in Posts : Submit(p) \/ Failed(p)) \/ UNCHANGED vars
    BY <2>3, <2>4 DEF HandlePick, Submit, Failed, vars
  <2> QED
    BY <2>1, <2>2, <2>4
<1> QED
  BY <1>1, <1>2, ViewStays

-----------------------------------------------------------------------------
(* The invariant                                                            *)

(* The invariant by the parts that are kept each by its own lemmas.         *)
LEMMA Parts == PageInv <=> ServerInv /\ FormInv /\ BrowserInv
BY DEF PageInv, TypeOK, ServerInv, ServerTypeOK, FormInv, FormTypeOK, BrowserInv, BrowserTypeOK

(* The page of a session is one the server opened before it answered.       *)
LEMMA ReceivedIsThere ==
  ASSUME PostsOK, NEW p \in Posts, posts[p].server = "opened"
  PROVE  posts[p].session \in DOMAIN sessions
BY DEF PostsOK

(* No step gives the form more than it may carry.                           *)
LEMMA FormStep ==
  ASSUME ServerInv, FormInv, BrowserInv, [Next]_vars
  PROVE  FormInv'
<1>t. ServerTypeOK
  BY DEF ServerInv
<1>1. ASSUME UNCHANGED <<page, picker>> PROVE FormInv'
  BY <1>1 DEF FormInv, FormTypeOK, PickerOK
<1>2. ASSUME NEW id, Show(id) PROVE FormInv'
  BY <1>2, MountedFits DEF Show
<1>3. CASE Return \/ Reload
  BY <1>3, MountedFits DEF Return, Reload, Visit
<1>4. CASE Summaries \/ NewRequest \/ GetPolicy
  BY <1>t, <1>4, FoundFits, ViewStep
<1>5. ASSUME NEW id, Follow(id) \/ DeepLink(id) PROVE FormInv'
  BY <1>2, <1>5 DEF Follow, DeepLink
<1>6. CASE \E picked \in 1 .. MaxPick : HandlePick(picked)
  BY <1>6, PickStep
<1>7. CASE HandleUpload
  <2>1. picker.busy
    BY <1>7 DEF HandleUpload
  <2>2. CASE StageUpload
    <3>1. PICK took \in {{}, {uploads + 1}} : Uploaded(took)
      BY <1>7, <2>2 DEF HandleUpload, StageUpload, RejectUpload
    <3>2. uploads \in Nat /\ MaxUploads \in Nat /\ uploads < MaxUploads
      BY <1>t, <2>2, PageAssumption DEF StageUpload, ServerTypeOK
    <3>3. uploads + 1 \in Upload
      BY <3>2 DEF Upload
    <3> QED
      BY <2>1, <3>1, <3>3, LoopStep
  <2>3. CASE Uploaded({})
    BY <2>1, <2>3, LoopStep
  <2> QED
    BY <1>7, <2>2, <2>3 DEF HandleUpload
<1>8. CASE \E u \in Upload : TakeOff(u)
  BY <1>8, TakeOffStep
<1>9. ASSUME NEW p \in Posts, Submit(p) \/ HandleIntake(p) \/ Receive(p) \/ Lost(p) PROVE FormInv'
  BY <1>1, <1>2, <1>9 DEF Submit, HandleIntake, Receive, Lost, Failed
<1>10. CASE UNCHANGED vars
  BY <1>1, <1>10 DEF vars
<1> QED
  BY <1>3, <1>4, <1>5, <1>6, <1>7, <1>8, <1>9, <1>10 DEF Next

(* No step lets the session shown last slip from the head of the list.      *)
LEMMA BrowserStep ==
  ASSUME ServerInv, FormInv, BrowserInv, [Next]_vars
  PROVE  BrowserInv'
<1>t. ServerTypeOK /\ PostsOK
  BY DEF ServerInv
<1>1. CASE Return \/ Reload
  BY <1>t, <1>1, VisitStep DEF Return, Reload
<1>2. CASE Summaries
  <2> DEFINE found == Found
  <2>1. found \in Seq(Nat) /\ (last # 0 => found # <<>> /\ Head(found) = last)
    BY <1>t, FoundFits
  <2>2. /\ \/ page' = [page EXCEPT !.summaries = "loaded", !.shown = found]
           \/ page' = [page EXCEPT !.summaries = "failed"]
        /\ UNCHANGED <<sessions, ids, legacy, last>>
    BY <1>2 DEF Summaries, server, browser
  <2> HIDE DEF found
  <2>3. page \in Page
    BY DEF FormInv, FormTypeOK
  <2>4. page'.summaries = "loaded" => page'.shown = found
    BY <2>2, <2>3 DEF Page
  <2> QED
    BY <2>1, <2>2, <2>4 DEF BrowserInv, BrowserTypeOK, KnownOK, LastOK, HomeShowsTheLatest
<1>3. ASSUME NEW id \in DOMAIN sessions, Follow(id) \/ DeepLink(id) PROVE BrowserInv'
  BY <1>t, <1>3, ShowStep DEF Follow, DeepLink
<1>4. ASSUME NEW p \in Posts, Receive(p) PROVE BrowserInv'
  BY <1>t, <1>4, ReceivedIsThere, ShowStep, FormIsApart DEF Receive
<1>5. ASSUME NEW p \in Posts, HandleIntake(p) PROVE BrowserInv'
  BY <1>t, <1>5, OpenStep
<1>6. ASSUME NEW p \in Posts, Submit(p) \/ Lost(p) PROVE BrowserInv'
  BY <1>6, FormIsApart DEF Lost
<1>7. CASE \/ NewRequest \/ GetPolicy \/ (\E picked \in 1 .. MaxPick : HandlePick(picked)) \/ HandleUpload
           \/ (\E u \in Upload : TakeOff(u)) \/ UNCHANGED vars
  BY <1>7, FormIsApart
<1> QED
  BY <1>1, <1>2, <1>3, <1>4, <1>5, <1>6, <1>7 DEF Next

(* A browser comes with sessions there are, and nothing else.               *)
LEMMA PageInit == ASSUME Init PROVE PageInv
<1>1. Old \in Nat /\ MaxUploads \in Nat /\ Remembered \subseteq Seq(1 .. Old) /\ Legacy \subseteq 0 .. Old
  BY PageAssumption
<1>2. sessions \in Seq(SUBSET (1 .. 0)) /\ Len(sessions) = Old /\ DOMAIN sessions = 1 .. Old
  BY <1>1, IsASeq DEF Init
<1>3. Unused \in Post
  BY DEF Unused, Post
<1>4. ServerTypeOK
  BY <1>1, <1>2, <1>3 DEF Init, ServerTypeOK
<1>5. PostsOK
  BY DEF Init, PostsOK, Unused
<1>6. UploadsLandWhole
  BY <1>1 DEF Init, UploadsLandWhole, Unused
<1>7. FormInv
  <2>1. <<>> \in Seq(Upload) /\ <<>> \in Seq(Nat) /\ Len(<<>>) = 0
    BY EmptySeq
  <2>2. page \in Page /\ page.files = <<>> /\ picker \in Picker /\ ~picker.busy
    BY <2>1 DEF Init, Mounted, Page, AtRest, Picker
  <2>3. MaxFiles \in Nat
    BY PageAssumption
  <2> QED
    <3>1. Len(page.files) <= MaxFiles
      BY <2>1, <2>2, <2>3
    <3> QED
      BY <2>2, <3>1 DEF FormInv, FormTypeOK, PickerOK
<1>8. BrowserInv
  <2>1. ids \in Seq(DOMAIN sessions) /\ legacy \in 0 .. Len(sessions)
    BY <1>1, <1>2 DEF Init
  <2> QED
    BY <1>1, <2>1 DEF Init, BrowserInv, BrowserTypeOK, KnownOK, LastOK, HomeShowsTheLatest
<1> QED
  BY <1>4, <1>5, <1>6, <1>7, <1>8, Parts DEF ServerInv

(* What the home page relies on is kept by every step: the form knows no    *)
(* more files than a request may carry while its picker is at work, and the *)
(* server, the submissions and the browser agree on the sessions there are. *)
THEOREM PageInvariance == Spec => []PageInv
<1>1. Init => PageInv
  BY PageInit
<1>2. PageInv /\ [Next]_vars => PageInv'
  <2> SUFFICES ASSUME PageInv, [Next]_vars PROVE PageInv'
    OBVIOUS
  <2>1. ServerInv /\ FormInv /\ BrowserInv
    BY Parts
  <2>2. page.files \in Seq(Upload)
    BY <2>1 DEF FormInv, FormTypeOK, Page
  <2>3. ServerInv' /\ FormInv' /\ BrowserInv'
    BY <2>1, <2>2, ServerStep, FormStep, BrowserStep
  <2> QED
    BY <2>3 DEF PageInv, TypeOK, ServerInv, ServerTypeOK, FormInv, FormTypeOK, BrowserInv, BrowserTypeOK
<1> QED
  BY <1>1, <1>2, PTL DEF Spec

(* The types, and the limit of the files in the form.                       *)
THEOREM PageTypes == Spec => []TypeOK
BY PageInvariance, PTL DEF PageInv

(* A session that was opened carries all the files its request named, and   *)
(* no file is in two requests.                                              *)
THEOREM UploadsLand == Spec => []UploadsLandWhole
BY PageInvariance, PTL DEF PageInv

(* The list the picker sets at its end is the list of the page plus what it *)
(* uploaded.                                                                *)
THEOREM PickerKeeps == Spec => []PickerKeepsTheList
<1>1. PageInv => PickerKeepsTheList
  BY DEF PageInv, PickerOK, PickerKeepsTheList
<1> QED
  BY <1>1, PageInvariance, PTL

(* The session the browser showed last is the first on its home page.       *)
THEOREM HomeShows == Spec => []HomeShowsTheLatest
BY PageInvariance, PTL DEF PageInv
=============================================================================
