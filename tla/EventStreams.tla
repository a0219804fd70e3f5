---------------------------- MODULE EventStreams ----------------------------
(***************************************************************************)
(* How pages learn that the background operation of a session has ended:   *)
(* the event streams of server.ts (subscribers, broadcast,                  *)
(* closeSubscribers, runInBackground, handleEvents) and the pages that      *)
(* follow them (watch-processing.ts, app/s/[id]/page.tsx).                  *)
(*                                                                         *)
(* A set of subscribers is an object: streams stay in the one they were     *)
(* added to when the map forgets it, and a stream leaves it when the close  *)
(* of its request is noticed, some time after the stream has ended.         *)
(***************************************************************************)
EXTENDS Integers, Sequences, FiniteSets

CONSTANTS
  Pages,    \* open session screens
  Streams,  \* places for streams whose request is not closed yet
  Sets,     \* identities of subscriber sets
  None,
  MaxOps    \* bound of an instance: operations of the session

ASSUME StreamsAssumption ==
  /\ None \notin Streams \cup Sets /\ MaxOps \in Nat \ {0}
  /\ IsFiniteSet(Streams) /\ IsFiniteSet(Sets) /\ Cardinality(Sets) >= Cardinality(Streams)

VARIABLES
  running,  \* the session is in inFlight
  ops,      \* operations begun
  current,  \* the set that the map holds for the session
  streams,  \* set it is in, whether it has ended, events on their way
  pages     \* what a screen does, shows and follows

streamsVars == <<running, ops, current, streams, pages>>

Stream == [set: Sets \cup {None}, ended: BOOLEAN, wire: Seq({"running", "idle", "failed"})]
Page == [phase: {"rest", "watch", "refetch"},
         shown: BOOLEAN,              \* detail.processing
         conn: Streams \cup {None},   \* the stream of its EventSource
         polling: BOOLEAN,
         due: BOOLEAN]                \* what it waits for has not ended yet

Members(set) == {s \in Streams : streams[s].set = set}
Followed(s) == \E p \in Pages : pages[p].conn = s
Unused(set) == set # current /\ Members(set) = {}

(* a page lets go of its stream: the events on their way are lost *)
Dropped(p) == [s \in Streams |-> IF s = pages[p].conn THEN [streams[s] EXCEPT !.wire = <<>>]
                                 ELSE streams[s]]

(* the wait is over, and the session is fetched anew *)
Finish(p) ==
  /\ pages' = [pages EXCEPT ![p].phase = "refetch", ![p].conn = None, ![p].polling = FALSE,
                            ![p].due = FALSE]
  /\ streams' = Dropped(p)

----------------------------------------------------------------------------
(* The server *)

(* the set of the map, or a new one *)
Joined == IF current # None THEN current ELSE CHOOSE set \in Sets : Unused(set)

(* mutant: an idle session keeps the stream open, like a busy one *)
Mut_HandleEvents(s) ==
  /\ streams' = [streams EXCEPT ![s] = [set |-> Joined, ended |-> FALSE, wire |-> <<"running">>]]
  /\ current' = Joined

(* The status is sent at once; a stream of an idle session ends with it.    *)
HandleEvents(s) ==
  IF running
  THEN /\ streams' = [streams EXCEPT ![s] = [set |-> Joined, ended |-> FALSE, wire |-> <<"running">>]]
       /\ current' = Joined
  ELSE /\ streams' = [streams EXCEPT ![s] = [set |-> None, ended |-> TRUE, wire |-> <<"idle">>]]
       /\ UNCHANGED current

(* mutant: the map keeps the set whose streams were ended *)
Mut_CloseSubscribers(news) ==
  /\ streams' = [s \in Streams |->
       IF current # None /\ streams[s].set = current
       THEN [streams[s] EXCEPT !.ended = TRUE, !.wire = IF Followed(s) THEN @ \o news ELSE <<>>]
       ELSE streams[s]]
  /\ UNCHANGED current

(* The last events of an operation go to the set of the map, its streams    *)
(* are ended and the map forgets it.                                         *)
CloseSubscribers(news) ==
  /\ streams' = [s \in Streams |->
       IF current # None /\ streams[s].set = current
       THEN [streams[s] EXCEPT !.ended = TRUE, !.wire = IF Followed(s) THEN @ \o news ELSE <<>>]
       ELSE streams[s]]
  /\ current' = None

Ended == pages' = [p \in Pages |-> [pages[p] EXCEPT !.due = FALSE]]

(* The operation ends: runInBackground, from its catch or finally. *)
End(ok) ==
  /\ running /\ running' = FALSE
  /\ CloseSubscribers(IF ok THEN <<"idle">> ELSE <<"failed", "idle">>)
  /\ Ended
  /\ UNCHANGED ops

(* The close of a request is noticed: the stream leaves its set, and an     *)
(* empty set takes the entry of the map with it, whichever set that holds.  *)
Closed(s) ==
  /\ streams[s].set # None /\ (streams[s].ended \/ ~Followed(s))
  /\ streams' = [streams EXCEPT ![s].set = None, ![s].ended = TRUE]
  /\ current' = IF Members(streams[s].set) = {s} THEN None ELSE current
  /\ UNCHANGED <<running, ops, pages>>

(* The process restarts: nothing is in flight and no stream is left. *)
Restart ==
  /\ running' = FALSE /\ current' = None
  /\ streams' = [s \in Streams |-> [set |-> None, ended |-> TRUE, wire |-> <<>>]]
  /\ pages' = [p \in Pages |->
       [pages[p] EXCEPT !.due = FALSE, !.conn = None,
                        !.polling = @ \/ pages[p].conn # None]]
  /\ UNCHANGED ops

----------------------------------------------------------------------------
(* A page *)

(* The page is opened, or loaded anew, and follows what is going on. *)
Mount(p) ==
  /\ pages' = [pages EXCEPT ![p] =
       [phase |-> IF running THEN "watch" ELSE "rest", shown |-> running,
        conn |-> None, polling |-> FALSE, due |-> running]]
  /\ streams' = Dropped(p)
  /\ UNCHANGED <<running, ops, current>>

(* The requester acts: 202, and the page watches. *)
Act(p) ==
  /\ pages[p].phase = "rest" /\ ~pages[p].shown
  /\ ~running /\ ops < MaxOps
  /\ running' = TRUE /\ ops' = ops + 1
  /\ pages' = [pages EXCEPT ![p].phase = "watch", ![p].due = TRUE]
  /\ UNCHANGED <<current, streams>>

(* 409: the page fetches the session and shows what it finds. *)
ActRefused(p) ==
  /\ pages[p].phase = "rest" /\ ~pages[p].shown /\ running
  /\ pages' = [pages EXCEPT ![p].shown = TRUE]
  /\ UNCHANGED <<running, ops, current, streams>>

(* The EventSource connects, also after an error. *)
Connect(p) ==
  LET free == {s \in Streams : streams[s].set = None /\ ~Followed(s)}
      s == CHOOSE place \in free : TRUE
  IN /\ pages[p].phase = "watch" /\ pages[p].conn = None /\ free # {}
     /\ HandleEvents(s)
     /\ pages' = [pages EXCEPT ![p].conn = s]
     /\ UNCHANGED <<running, ops>>

(* mutant: the first status ends the wait, whatever it says *)
Mut_Receive(p) ==
  LET s == pages[p].conn
  IN /\ pages[p].phase = "watch" /\ s # None /\ streams[s].wire # <<>>
     /\ Finish(p)
     /\ UNCHANGED <<running, ops, current>>

(* An event arrives: the end of the operation, or that it still runs. *)
Receive(p) ==
  LET s == pages[p].conn
  IN /\ pages[p].phase = "watch" /\ s # None /\ streams[s].wire # <<>>
     /\ IF Head(streams[s].wire) = "running"
        THEN streams' = [streams EXCEPT ![s].wire = Tail(@)] /\ UNCHANGED pages
        ELSE Finish(p)
     /\ UNCHANGED <<running, ops, current>>

(* onerror: the page polls and its EventSource connects again.  A stream    *)
(* that the server ends is not met here: its last event ends the wait.       *)
Lost(p) ==
  /\ pages[p].phase = "watch" /\ pages[p].conn # None
  /\ pages' = [pages EXCEPT ![p].conn = None, ![p].polling = TRUE]
  /\ streams' = Dropped(p)
  /\ UNCHANGED <<running, ops, current>>

(* A poll answers that nothing runs, or fails. *)
Poll(p) ==
  /\ pages[p].phase = "watch" /\ pages[p].polling /\ ~running
  /\ Finish(p)
  /\ UNCHANGED <<running, ops, current>>
PollFails(p) ==
  /\ pages[p].phase = "watch" /\ pages[p].polling
  /\ Finish(p)
  /\ UNCHANGED <<running, ops, current>>

(* The time of watchProcessing is up. *)
Cap(p) ==
  /\ pages[p].phase = "watch"
  /\ Finish(p)
  /\ UNCHANGED <<running, ops, current>>

Refetch(p) ==
  /\ pages[p].phase = "refetch"
  /\ pages' = [pages EXCEPT ![p].phase = "rest", ![p].shown = running]
  /\ UNCHANGED <<running, ops, current, streams>>

----------------------------------------------------------------------------
(* the session was just opened, and its pages, too *)
StreamsInit ==
  /\ running = TRUE /\ ops = 1 /\ current = None
  /\ streams = [s \in Streams |-> [set |-> None, ended |-> TRUE, wire |-> <<>>]]
  /\ pages = [p \in Pages |-> [phase |-> "watch", shown |-> TRUE, conn |-> None,
                               polling |-> FALSE, due |-> TRUE]]

StreamsNext ==
  \/ \E ok \in BOOLEAN : End(ok)
  \/ \E s \in Streams : Closed(s)
  \/ Restart
  \/ \E p \in Pages :
       \/ Mount(p) \/ Act(p) \/ ActRefused(p) \/ Connect(p) \/ Receive(p) \/ Lost(p)
       \/ Poll(p) \/ PollFails(p) \/ Cap(p) \/ Refetch(p)

StreamsSpec == StreamsInit /\ [][StreamsNext]_streamsVars

(* Operations end (the timer of runWithTimeout), pages connect, events      *)
(* arrive, requests close, polls are answered.  Nothing is assumed of the   *)
(* cap: what pages learn, they learn without it.                             *)
FairStreams ==
  /\ StreamsSpec
  /\ WF_streamsVars(\E ok \in BOOLEAN : End(ok))
  /\ \A s \in Streams : WF_streamsVars(Closed(s))
  /\ \A p \in Pages : /\ WF_streamsVars(Connect(p)) /\ WF_streamsVars(Receive(p)) /\ WF_streamsVars(Poll(p))
                      /\ WF_streamsVars(Refetch(p))

----------------------------------------------------------------------------
StreamsTypeOK ==
  /\ running \in BOOLEAN /\ ops \in 0..MaxOps /\ current \in Sets \cup {None}
  /\ streams \in [Streams -> Stream] /\ pages \in [Pages -> Page]
  /\ \A p \in Pages : pages[p].conn # None \/ pages[p].polling => pages[p].phase = "watch"

(* Types; and the map holds a set only while an operation runs, and         *)
(* broadcast meets streams that are open: nobody is told the end of another *)
(* operation, and nothing is written to a stream that was ended             *)
(* (closeSubscribers).                                                       *)
SubscribersAreServed ==
  /\ StreamsTypeOK
  /\ current # None =>
       running /\ Members(current) # {} /\ \A s \in Members(current) : ~streams[s].ended

(* An event or a poll ends a wait only when the operation that ran as the   *)
(* wait began has ended (watchProcessing).                                   *)
NoEarlyWord ==
  [][\A p \in Pages :
       (Receive(p) \/ Poll(p)) /\ pages'[p].phase = "refetch" => ~pages[p].due]_streamsVars

(* A page that waits learns the end without its time being up, over lost    *)
(* connections, failures and restarts, unless the server has forgotten its  *)
(* stream (Closed, of a request of an earlier operation).                    *)
Forgotten(p) == LET s == pages[p].conn
                IN s # None /\ streams[s].set \notin {None, current} /\ ~streams[s].ended
EndIsHeard ==
  \A p \in Pages : pages[p].phase = "watch" ~> pages[p].phase # "watch" \/ Forgotten(p)
=============================================================================
