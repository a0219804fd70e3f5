------------------------------ MODULE Sources ------------------------------
(***************************************************************************)
(* The material of one session: the requester's words, the files they      *)
(* upload and the Notion pages they link to, and the preparation that runs *)
(* before every judgement: ingestNotionLinks, extractPendingAttachments,   *)
(* condenseLongSources (core-runner.ts).                                    *)
(*                                                                         *)
(* A step is what runs between two awaits: the fetch of a page, the         *)
(* extraction of a row, a condensation call, the judgement.  Texts are      *)
(* their lengths; a condensed text of length 0 is none.                     *)
(***************************************************************************)
EXTENDS Integers, FiniteSetsExt, SequencesExt, Lists

CONSTANTS
  Uploads,          \* files a requester may upload
  Pages, Databases, \* Notion links, by key
  LinkLists,        \* links that one utterance may contain
  Lengths,          \* lengths of texts
  MaxPerSession,    \* attachments of a session (limits.maxPerSession)
  MaxPages,         \* pages fetched per session (MAX_NOTION_PAGES_PER_SESSION)
  MaxSessionText,   \* extracted text of a session (limits.maxSessionTextChars)
  Target, Tolerated, Mark, \* a condensed text: asked for, accepted, note of a cut
  Budget,           \* text carried by a generation call (condense.budgetChars)
  MaxUtterances     \* bound of the instance

Links == Pages \cup Databases

ASSUME LinksAssumption == Uploads \cap Links = {} /\ Pages \cap Databases = {}
                          /\ LinkLists \subseteq Seq(Links) /\ IsFiniteSet(Uploads)
ASSUME LengthsAssumption == Lengths \subseteq Nat \ {0}
ASSUME LimitsAssumption ==
  /\ MaxPerSession \in Nat /\ MaxPages \in Nat /\ MaxSessionText \in Nat
  /\ Target \in Nat /\ Tolerated \in Nat /\ Mark \in Nat /\ Budget \in Nat
  /\ MaxUtterances \in Nat

VARIABLES
  staged,      \* uploads that no utterance refers to yet
  utterances,  \* the requester's words, in order
  rows,        \* attachments, in order of creation
  documented,  \* a document exists
  unanswered,  \* the last round has not ended: it can be retried
  prep         \* the operation in the background and what it keeps

vars == <<staged, utterances, rows, documented, unanswered, prep>>

Utterance == [chars: Nat, links: Seq(Links), cond: Nat]
Row == [source: Uploads \cup Links,
        status: {"pending", "ok", "failed"},
        cause: {"none", "database", "limit", "fetch", "extraction", "total"},
        chars: Nat, cond: Nat]
Prep == [at: {"idle", "fetch", "extract", "condense", "recondense", "judge"},
         heard: Nat,           \* utterances read for links
         links: Seq(Links),    \* links left, the head being fetched
         fetched: 0..MaxPages, \* pages fetched, the head included
         pending: Seq(Nat),    \* rows left, the head being read
         used: 0..MaxSessionText, \* text extracted
         sources: SUBSET Nat,  \* candidates left, the longest being condensed
         projected: Int]       \* text the generation will carry

Quiet == [at |-> "idle", heard |-> 0, links |-> <<>>, fetched |-> 0,
          pending |-> <<>>, used |-> 0, sources |-> {}, projected |-> 0]

Pending(source) ==
  [source |-> source, status |-> "pending", cause |-> "none", chars |-> 0, cond |-> 0]
Failed(source, cause) ==
  [source |-> source, status |-> "failed", cause |-> cause, chars |-> 0, cond |-> 0]

----------------------------------------------------------------------------
(* Condensation.  Sources are numbered: the attachments, then the words.    *)

SourceOf(rs, us, k) == IF k <= Len(rs) THEN rs[k] ELSE us[k - Len(rs)]
Carried(source) == IF source.cond # 0 THEN source.cond ELSE source.chars
Readable(rs, us) == {k \in 1..(Len(rs) + Len(us)) : k <= Len(rs) => rs[k].status = "ok"}
Total(rs, us) ==
  AddedUp([k \in 1..(Len(rs) + Len(us)) |->
             IF k \in Readable(rs, us) THEN Carried(SourceOf(rs, us, k)) ELSE 0])

(* not condensed and longer than the target *)
Candidates(rs, us) ==
  {k \in Readable(rs, us) :
     SourceOf(rs, us, k).cond = 0 /\ SourceOf(rs, us, k).chars > Target}

(* the next of them: they are sorted, the longest first *)
Longest(rs, us, sources) ==
  LET chars(k) == SourceOf(rs, us, k).chars
  IN CHOOSE k \in sources :
       \A j \in sources : chars(j) < chars(k) \/ (chars(j) = chars(k) /\ k <= j)

(* the next call for the candidates left, or the judgement *)
Condensing(p, sources, projected) ==
  IF sources # {} /\ projected > Budget
  THEN [Quiet EXCEPT !.at = "condense", !.heard = p.heard,
                     !.sources = sources, !.projected = projected]
  ELSE [Quiet EXCEPT !.at = "judge", !.heard = p.heard]

CondenseLongSources(p, rs, us) == Condensing(p, Candidates(rs, us), Total(rs, us))

----------------------------------------------------------------------------
(* Extraction of the rows not read yet *)

Extracting(p, rs, us, pending, used) ==
  IF pending # <<>>
  THEN [Quiet EXCEPT !.at = "extract", !.heard = p.heard, !.pending = pending, !.used = used]
  ELSE CondenseLongSources(p, rs, us)

PendingOf(rs) == Only([i \in DOMAIN rs |-> i], {i \in DOMAIN rs : rs[i].status = "pending"})

TextOf(rs) == AddedUp([i \in DOMAIN rs |-> rs[i].chars])

(* mutant: the text of earlier rounds is not counted *)
Mut_ExtractPendingAttachments(p, rs, us) ==
  Extracting(p, rs, us, PendingOf(rs), 0)

ExtractPendingAttachments(p, rs, us) ==
  Extracting(p, rs, us, PendingOf(rs), TextOf(rs))

----------------------------------------------------------------------------
(* Ingestion of the links not recorded yet *)

Said(us) == Flat([i \in DOMAIN us |-> us[i].links])
Recorded(rs) == {rs[i].source : i \in DOMAIN rs} \cap Links
Unseen(rs, us) == OnceOf(Said(us), Links \ Recorded(rs))

Fetchable(links, fetched) == {i \in DOMAIN links : links[i] \in Pages /\ fetched < MaxPages}

(* no page is fetched for a database, or beyond the limit: a failed row     *)
Refused(links, fetched) ==
  LET until == IF Fetchable(links, fetched) = {} THEN Len(links)
               ELSE Min(Fetchable(links, fetched)) - 1
  IN [i \in 1..until |-> Failed(links[i], IF links[i] \in Pages THEN "limit" ELSE "database")]

(* mutant: the attachments are listed before the refusals are written *)
Mut_IngestRest(p, rs, us, links, fetched) ==
  LET refused == Refused(links, fetched)
  IN /\ rows' = rs \o refused
     /\ prep' = IF Len(refused) < Len(links)
                THEN [Quiet EXCEPT !.at = "fetch", !.heard = p.heard,
                                   !.links = SubSeq(links, Len(refused) + 1, Len(links)),
                                   !.fetched = fetched + 1]
                ELSE ExtractPendingAttachments(p, rows, us)

(* up to the next fetch *)
IngestRest(p, rs, us, links, fetched) ==
  LET refused == Refused(links, fetched)
  IN /\ rows' = rs \o refused
     /\ prep' = IF Len(refused) < Len(links)
                THEN [Quiet EXCEPT !.at = "fetch", !.heard = p.heard,
                                   !.links = SubSeq(links, Len(refused) + 1, Len(links)),
                                   !.fetched = fetched + 1]
                ELSE ExtractPendingAttachments(p, rs \o refused, us)

(* the preparation of a round, up to its first await *)
Prepare(rs, us) ==
  IngestRest([Quiet EXCEPT !.heard = Len(us)], rs, us, Unseen(rs, us),
             Cardinality({i \in DOMAIN rs : rs[i].source \in Links}))

----------------------------------------------------------------------------
(* A file arrives and passes validation (handleUpload). *)
Stage(u) ==
  /\ u \notin staged /\ \A i \in DOMAIN rows : rows[i].source # u
  /\ staged' = staged \cup {u}
  /\ UNCHANGED <<utterances, rows, documented, unanswered, prep>>

Words(chars, links) == [chars |-> chars, links |-> links, cond |-> 0]

(* attachUploads: all of them or none; fetched pages count, too *)
Attachable(ups) ==
  ups = {} \/ (Len(rows) + Cardinality(ups) <= MaxPerSession /\ ups \subseteq staged)
Promoted(ups) == LET new == SetToSeq(ups) IN [i \in DOMAIN new |-> Pending(new[i])]

(* Words that a round answers.  They are stored before the uploads are      *)
(* looked at: when those are refused the round dies and can be retried.  A  *)
(* refused opening is left out: nobody learns of the session it leaves.     *)
Say(chars, links, ups) ==
  LET us == Append(utterances, Words(chars, links))
  IN /\ prep.at = "idle" /\ Len(utterances) < MaxUtterances
     /\ utterances = <<>> => Attachable(ups)
     /\ utterances' = us /\ unanswered' = TRUE
     /\ IF Attachable(ups)
        THEN staged' = staged \ ups /\ Prepare(rows \o Promoted(ups), us)
        ELSE UNCHANGED <<staged, rows, prep>>
     /\ UNCHANGED documented

(* The words of a document edit are stored while anything runs; the agent   *)
(* answers them at once.                                                     *)
Correct(chars, links) ==
  /\ documented /\ Len(utterances) < MaxUtterances
  /\ utterances' = Append(utterances, Words(chars, links))
  /\ unanswered' = FALSE
  /\ UNCHANGED <<staged, rows, documented, prep>>

Retry ==
  /\ prep.at = "idle" /\ unanswered
  /\ Prepare(rows, utterances)
  /\ UNCHANGED <<staged, utterances, documented, unanswered>>

----------------------------------------------------------------------------
(* The page, or a failure, is recorded. *)
Fetched(ok) ==
  LET page == Head(prep.links)
  IN /\ prep.at = "fetch"
     /\ IngestRest(prep, Append(rows, IF ok THEN Pending(page) ELSE Failed(page, "fetch")),
                   utterances, Tail(prep.links), prep.fetched)
     /\ UNCHANGED <<staged, utterances, documented, unanswered>>

(* The text of a row, unless it takes the session beyond its limit.  A      *)
(* failed extraction is a text of length 0 here.                            *)
Extracted(chars) ==
  LET i == Head(prep.pending)
      fits == prep.used + chars <= MaxSessionText
      row == IF chars = 0 THEN Failed(rows[i].source, "extraction")
             ELSE IF fits THEN [rows[i] EXCEPT !.status = "ok", !.chars = chars]
             ELSE Failed(rows[i].source, "total")
  IN /\ prep.at = "extract"
     /\ rows' = [rows EXCEPT ![i] = row]
     /\ prep' = Extracting(prep, rows', utterances, Tail(prep.pending), prep.used + row.chars)
     /\ UNCHANGED <<staged, utterances, documented, unanswered>>

(* mutant: what a condensation saves is not subtracted *)
Mut_StoreCondensed(chars) ==
  LET k == Longest(rows, utterances, prep.sources)
  IN /\ IF k <= Len(rows)
        THEN rows' = [rows EXCEPT ![k].cond = chars] /\ UNCHANGED utterances
        ELSE utterances' = [utterances EXCEPT ![k - Len(rows)].cond = chars] /\ UNCHANGED rows
     /\ prep' = Condensing(prep, prep.sources \ {k}, prep.projected)

(* A condensed text is stored and takes the place of its source. *)
StoreCondensed(chars) ==
  LET k == Longest(rows, utterances, prep.sources)
      full == SourceOf(rows, utterances, k).chars
  IN /\ IF k <= Len(rows)
        THEN rows' = [rows EXCEPT ![k].cond = chars] /\ UNCHANGED utterances
        ELSE utterances' = [utterances EXCEPT ![k - Len(rows)].cond = chars] /\ UNCHANGED rows
     /\ prep' = Condensing(prep, prep.sources \ {k}, prep.projected - (full - chars))

(* condenseOne: a text beyond the tolerance is asked for again, then cut *)
Condensed(chars) ==
  /\ prep.at = "condense"
  /\ IF chars > Tolerated
     THEN prep' = [prep EXCEPT !.at = "recondense"] /\ UNCHANGED <<rows, utterances>>
     ELSE StoreCondensed(chars)
  /\ UNCHANGED <<staged, documented, unanswered>>

Recondensed(chars) ==
  /\ prep.at = "recondense"
  /\ StoreCondensed(IF chars > Tolerated THEN Tolerated + Mark ELSE chars)
  /\ UNCHANGED <<staged, documented, unanswered>>

(* the full text stays *)
CondenseFails ==
  /\ prep.at \in {"condense", "recondense"}
  /\ prep' = Condensing(prep, prep.sources \ {Longest(rows, utterances, prep.sources)},
                        prep.projected)
  /\ UNCHANGED <<staged, utterances, rows, documented, unanswered>>

(* The round goes on with what was prepared and ends, with a document or not. *)
Answer(document) ==
  /\ prep.at = "judge"
  /\ prep' = Quiet /\ unanswered' = FALSE /\ documented' = (documented \/ document)
  /\ UNCHANGED <<staged, utterances, rows>>

(* The round dies: an LLM call failed, the fetch of a page threw, or the    *)
(* process was restarted.                                                    *)
Die ==
  /\ prep.at # "idle"
  /\ prep' = Quiet
  /\ UNCHANGED <<staged, utterances, rows, documented, unanswered>>

Init ==
  /\ staged = {} /\ utterances = <<>> /\ rows = <<>>
  /\ documented = FALSE /\ unanswered = FALSE /\ prep = Quiet

Next ==
  \/ \E u \in Uploads : Stage(u)
  \/ \E chars \in Lengths, links \in LinkLists :
       (\E ups \in SUBSET Uploads : Say(chars, links, ups)) \/ Correct(chars, links)
  \/ Retry
  \/ \E ok \in BOOLEAN : Fetched(ok)
  \/ \E chars \in Lengths \cup {0} : Extracted(chars)
  \/ \E chars \in Lengths : Condensed(chars) \/ Recondensed(chars)
  \/ CondenseFails
  \/ \E document \in BOOLEAN : Answer(document)
  \/ Die

Spec == Init /\ [][Next]_vars

----------------------------------------------------------------------------
TypeOK ==
  /\ staged \subseteq Uploads
  /\ utterances \in Seq(Utterance) /\ rows \in Seq(Row) /\ prep \in Prep
  /\ documented \in BOOLEAN /\ unanswered \in BOOLEAN

(* The extracted text of a session stays within its limit, over any number  *)
(* of rounds, failures and restarts (extractPendingAttachments).             *)
TextWithinLimit == TextOf(rows) <= MaxSessionText

(* No more pages are fetched than a session may, and none is fetched or     *)
(* refused twice, whatever was interrupted (ingestNotionLinks).              *)
PagesWithinLimit ==
  /\ Cardinality({i \in DOMAIN rows : rows[i].source \in Pages /\ rows[i].cause # "limit"}) <= MaxPages
  /\ \A i, j \in DOMAIN rows : rows[i].source = rows[j].source => i = j

(* A judgement reads every link that was said when its round began and      *)
(* every file: nothing waits to be read (processReply, startClarification). *)
JudgedAllRead ==
  prep.at \in {"condense", "recondense", "judge"} =>
    /\ \A i \in DOMAIN rows : rows[i].status # "pending"
    /\ \A i \in 1..prep.heard : ToSet(utterances[i].links) \subseteq Recorded(rows)

(* An upload is staged or attached, never both, and the attachments of a    *)
(* requester stay within the limit (attachUploads, promoteUploads).          *)
UploadsLandOnce ==
  /\ \A i \in DOMAIN rows : rows[i].source \notin staged
  /\ Cardinality({i \in DOMAIN rows : rows[i].source \in Uploads}) <= MaxPerSession

(* Types; and what a session may hold of text, pages and files is kept at    *)
(* every await.                                                              *)
WithinLimits == TypeOK /\ TextWithinLimit /\ PagesWithinLimit /\ UploadsLandOnce

(* A text is condensed only while the texts of the session exceed what a    *)
(* generation call may carry (condenseLongSources, projected).               *)
CondensedOverBudget ==
  [][(\/ \E i \in DOMAIN rows : rows'[i].cond # rows[i].cond
      \/ \E i \in DOMAIN utterances : utterances'[i].cond # utterances[i].cond)
     => Total(rows, utterances) > Budget]_vars
=============================================================================
