--------------------------- MODULE SourcesProofs ---------------------------
(***************************************************************************)
(* Theorems about the material of a session: what it may hold over any     *)
(* number of rounds, what a judgement has read, and when a text is         *)
(* condensed.                                                               *)
(***************************************************************************)
EXTENDS Sources, ListsProofs, FiniteSetTheorems

PageRows(rs) == {i \in DOMAIN rs : rs[i].source \in Pages /\ rs[i].cause # "limit"}
FileRows(rs) == {i \in DOMAIN rs : rs[i].source \in Uploads}
Waiting(rs)  == {i \in DOMAIN rs : rs[i].status = "pending"}

(* A row that is not read has no text, and one that is beyond the limit of  *)
(* pages is never read.                                                     *)
RowOK(row) ==
  /\ row.status # "ok" => row.chars = 0 /\ row.cond = 0
  /\ row.cause = "limit" => row.status = "failed"

(* The attachments of a session                                             *)
RowsOK(rs) ==
  /\ rs \in Seq(Row)
  /\ \A i \in DOMAIN rs : RowOK(rs[i])
  /\ \A i, j \in DOMAIN rs : rs[i].source = rs[j].source => i = j
  /\ TextOf(rs) <= MaxSessionText
  /\ Cardinality(PageRows(rs)) <= MaxPages
  /\ Cardinality(FileRows(rs)) <= MaxPerSession

(* The links of the first n utterances are recorded, or among those left.   *)
HeardOK(rs, us, n, links) ==
  \A i \in 1 .. n : ToSet(us[i].links) \subseteq Recorded(rs) \cup ToSet(links)

(* What the preparation keeps over its awaits agrees with what is stored.   *)
FetchOK(p, rs, us) ==
  /\ p.links # <<>> /\ Distinct(p.links)
  /\ ToSet(p.links) \cap Recorded(rs) = {}
  /\ Cardinality(PageRows(rs)) < p.fetched
  /\ HeardOK(rs, us, p.heard, p.links)

ExtractOK(p, rs, us) ==
  /\ p.pending # <<>> /\ Distinct(p.pending)
  /\ ToSet(p.pending) = Waiting(rs)
  /\ p.used = TextOf(rs)
  /\ HeardOK(rs, us, p.heard, <<>>)

ReadOK(p, rs, us) ==
  /\ Waiting(rs) = {}
  /\ HeardOK(rs, us, p.heard, <<>>)

CondenseOK(p, rs, us) ==
  /\ p.sources # {}
  /\ \A k \in p.sources : k \in Readable(rs, us) /\ SourceOf(rs, us, k).cond = 0
  /\ p.projected > Budget
  /\ p.projected <= Total(rs, us)

PrepOK(p, rs, us) ==
  /\ p \in Prep /\ p.heard <= Len(us)
  /\ p.at = "fetch" => FetchOK(p, rs, us)
  /\ p.at = "extract" => ExtractOK(p, rs, us)
  /\ p.at \in {"condense", "recondense", "judge"} => ReadOK(p, rs, us)
  /\ p.at \in {"condense", "recondense"} => CondenseOK(p, rs, us)

StagedOK == staged \subseteq Uploads /\ \A i \in DOMAIN rows : rows[i].source \notin staged

SourcesInv ==
  /\ StagedOK /\ documented \in BOOLEAN /\ unanswered \in BOOLEAN
  /\ RowsOK(rows)
  /\ utterances \in Seq(Utterance)
  /\ PrepOK(prep, rows, utterances)

-----------------------------------------------------------------------------
(* Lists and sums of a session                                              *)

LEMMA ToSetIsIn ==
  ASSUME NEW U, NEW list \in Seq(U)
  PROVE  /\ \A x : IsIn(x, list) <=> x \in ToSet(list)
         /\ ToSet(list) \subseteq U
<1>1. DOMAIN list = 1 .. Len(list) /\ \A k \in 1 .. Len(list) : list[k] \in U
  BY LenProperties, ElementOfSeq
<1> QED
  BY <1>1 DEF IsIn, ToSet

LEMMA RowsList ==
  ASSUME NEW rs \in Seq(Row)
  PROVE  /\ Len(rs) \in Nat /\ DOMAIN rs = 1 .. Len(rs)
         /\ \A i \in 1 .. Len(rs) : rs[i] \in Row
BY LenProperties, ElementOfSeq

LEMMA WordsList ==
  ASSUME NEW us \in Seq(Utterance)
  PROVE  /\ Len(us) \in Nat /\ DOMAIN us = 1 .. Len(us)
         /\ \A i \in 1 .. Len(us) : us[i] \in Utterance
BY LenProperties, ElementOfSeq

(* The lengths of the texts of the attachments are numbers.                 *)
Chars(rs) == [i \in DOMAIN rs |-> rs[i].chars]

LEMMA CharsList ==
  ASSUME NEW rs \in Seq(Row)
  PROVE  /\ Chars(rs) \in Seq(Nat) /\ Chars(rs) \in Seq(Int) /\ Len(Chars(rs)) = Len(rs)
         /\ TextOf(rs) = AddedUp(Chars(rs)) /\ TextOf(rs) \in Nat
<1> DEFINE list == Chars(rs)
<1>1. Len(rs) \in Nat /\ DOMAIN rs = 1 .. Len(rs) /\ \A i \in 1 .. Len(rs) : rs[i].chars \in Nat
  BY RowsList DEF Row
<1>2. list \in [1 .. Len(rs) -> Nat]
  BY <1>1 DEF Chars
<1> HIDE DEF list
<1>3. list \in Seq(Nat) /\ DOMAIN list = 1 .. Len(rs)
  BY <1>1, <1>2, SeqDef
<1>4. list \in Seq(Int) /\ Len(list) = Len(rs)
  BY <1>1, <1>3, LenProperties, SeqMonotonic
<1>5. AddedUp(list) \in Nat
  BY <1>3, <1>4, AddedUpType
<1> QED
  BY <1>3, <1>4, <1>5 DEF TextOf, Chars, list

(* Rows without text that are added change nothing about the text.          *)
LEMMA TextOfMore ==
  ASSUME NEW rs \in Seq(Row), NEW new \in Seq(Row), Len(rs) <= Len(new),
         \A i \in 1 .. Len(rs) : new[i] = rs[i],
         \A i \in Len(rs) + 1 .. Len(new) : new[i].chars = 0
  PROVE  TextOf(new) = TextOf(rs)
<1> DEFINE a == Chars(rs)
           b == Chars(new)
<1>1. /\ a \in Seq(Int) /\ b \in Seq(Nat) /\ Len(a) = Len(rs) /\ Len(b) = Len(new)
      /\ TextOf(rs) = AddedUp(a) /\ TextOf(new) = AddedUp(b)
  BY CharsList
<1>2. /\ Len(rs) \in Nat /\ Len(new) \in Nat
      /\ DOMAIN rs = 1 .. Len(rs) /\ DOMAIN new = 1 .. Len(new)
  BY RowsList
<1>3. \A i \in 1 .. Len(rs) : b[i] = a[i]
  BY <1>2 DEF Chars
<1>4. \A i \in Len(rs) + 1 .. Len(new) : b[i] = 0
  BY <1>2 DEF Chars
<1> HIDE DEF a, b
<1> QED
  BY <1>1, <1>3, <1>4, AddedUpGrows

(* The text of a row is replaced.                                           *)
LEMMA TextOfChange ==
  ASSUME NEW rs \in Seq(Row), NEW i \in 1 .. Len(rs), NEW row \in Row
  PROVE  TextOf([rs EXCEPT ![i] = row]) = TextOf(rs) + (row.chars - rs[i].chars)
<1> DEFINE new == [rs EXCEPT ![i] = row]
           a == Chars(rs)
           b == Chars(new)
<1>1. /\ new \in Seq(Row) /\ Len(new) = Len(rs)
      /\ \A j \in 1 .. Len(rs) : new[j] = IF j = i THEN row ELSE rs[j]
  BY ExceptSeq
<1> HIDE DEF new
<1>2. /\ a \in Seq(Int) /\ b \in Seq(Int) /\ Len(a) = Len(rs) /\ Len(b) = Len(rs)
      /\ TextOf(rs) = AddedUp(a) /\ TextOf(new) = AddedUp(b)
  BY <1>1, CharsList
<1>3. DOMAIN rs = 1 .. Len(rs) /\ DOMAIN new = 1 .. Len(rs)
  BY <1>1, RowsList
<1>4. /\ \A j \in 1 .. Len(rs) : j # i => b[j] = a[j]
      /\ b[i] = row.chars /\ a[i] = rs[i].chars
  BY <1>1, <1>3 DEF Chars
<1> HIDE DEF a, b
<1>5. AddedUp(b) = AddedUp(a) + (b[i] - a[i])
  BY <1>2, <1>4, AddedUpChange
<1> QED
  BY <1>2, <1>4, <1>5 DEF new

(* What a generation call would carry of every source.                      *)
Weights(rs, us) ==
  [k \in 1..(Len(rs) + Len(us)) |->
     IF k \in Readable(rs, us) THEN Carried(SourceOf(rs, us, k)) ELSE 0]

LEMMA SourceType ==
  ASSUME NEW rs \in Seq(Row), NEW us \in Seq(Utterance), NEW k \in 1 .. Len(rs) + Len(us)
  PROVE  /\ SourceOf(rs, us, k).chars \in Nat /\ SourceOf(rs, us, k).cond \in Nat
         /\ Carried(SourceOf(rs, us, k)) \in Nat
<1>1. /\ Len(rs) \in Nat /\ \A i \in 1 .. Len(rs) : rs[i].chars \in Nat /\ rs[i].cond \in Nat
      /\ Len(us) \in Nat /\ \A i \in 1 .. Len(us) : us[i].chars \in Nat /\ us[i].cond \in Nat
  BY RowsList, WordsList DEF Row, Utterance
<1>2. CASE k <= Len(rs)
  BY <1>1, <1>2 DEF SourceOf, Carried
<1>3. CASE ~(k <= Len(rs))
  <2>1. k - Len(rs) \in 1 .. Len(us)
    BY <1>1, <1>3
  <2> QED
    BY <1>1, <1>3, <2>1 DEF SourceOf, Carried
<1> QED
  BY <1>2, <1>3

LEMMA WeightsList ==
  ASSUME NEW rs \in Seq(Row), NEW us \in Seq(Utterance)
  PROVE  /\ Weights(rs, us) \in Seq(Nat) /\ Weights(rs, us) \in Seq(Int)
         /\ Len(Weights(rs, us)) = Len(rs) + Len(us)
         /\ Total(rs, us) = AddedUp(Weights(rs, us)) /\ Total(rs, us) \in Nat
<1> DEFINE list == Weights(rs, us)
           len == Len(rs) + Len(us)
<1>1. len \in Nat
  BY RowsList, WordsList
<1>2. list \in [1 .. len -> Nat]
  BY SourceType DEF Weights
<1>3. Total(rs, us) = AddedUp(list)
  BY DEF Total, Weights
<1> HIDE DEF list, len
<1>4. list \in Seq(Nat) /\ DOMAIN list = 1 .. len
  BY <1>1, <1>2, SeqDef
<1>5. list \in Seq(Int) /\ Len(list) = len
  BY <1>1, <1>4, LenProperties, SeqMonotonic
<1>6. AddedUp(list) \in Nat
  BY <1>4, <1>5, AddedUpType
<1> QED
  BY <1>3, <1>4, <1>5, <1>6 DEF list, len

(* Words that are added only add to what is carried.                        *)
LEMMA TotalGrows ==
  ASSUME NEW rs \in Seq(Row), NEW us \in Seq(Utterance), NEW u \in Utterance
  PROVE  /\ Total(rs, us) <= Total(rs, Append(us, u))
         /\ \A k \in Readable(rs, us) :
              k \in Readable(rs, Append(us, u)) /\ SourceOf(rs, Append(us, u), k) = SourceOf(rs, us, k)
<1> DEFINE more == Append(us, u)
           a == Weights(rs, us)
           b == Weights(rs, more)
           len == Len(rs) + Len(us)
<1>1. /\ more \in Seq(Utterance) /\ Len(more) = Len(us) + 1
      /\ \A i \in 1 .. Len(us) : more[i] = us[i]
  BY AppendProperties
<1> HIDE DEF more
<1>2. Len(rs) \in Nat /\ Len(us) \in Nat /\ Len(rs) + Len(more) = len + 1
  BY <1>1, RowsList, WordsList
<1>3. \A k \in 1 .. len : SourceOf(rs, more, k) = SourceOf(rs, us, k)
  <2> TAKE k \in 1 .. len
  <2>1. ~(k <= Len(rs)) => k - Len(rs) \in 1 .. Len(us)
    BY <1>2
  <2> QED
    BY <1>1, <2>1 DEF SourceOf
<1>4. \A k \in 1 .. len : k \in 1 .. len + 1 /\ (k \in Readable(rs, more) <=> k \in Readable(rs, us))
  BY <1>2 DEF Readable
<1>5. \A k \in 1 .. len : b[k] = a[k]
  <2> TAKE k \in 1 .. len
  <2>1. k \in 1 .. Len(rs) + Len(more)
    BY <1>2, <1>4
  <2>2. b[k] = IF k \in Readable(rs, more) THEN Carried(SourceOf(rs, more, k)) ELSE 0
    BY <2>1 DEF Weights
  <2>3. a[k] = IF k \in Readable(rs, us) THEN Carried(SourceOf(rs, us, k)) ELSE 0
    BY DEF Weights
  <2> QED
    BY <1>3, <1>4, <2>2, <2>3
<1>6. /\ a \in Seq(Int) /\ Len(a) = len /\ b \in Seq(Nat) /\ Len(b) = len + 1
      /\ Total(rs, us) = AddedUp(a) /\ Total(rs, more) = AddedUp(b)
  BY <1>1, <1>2, WeightsList
<1>7. AddedUp(a) <= AddedUp(b)
  <2>1. len \in Nat /\ len <= len + 1
    BY <1>2
  <2> HIDE DEF a, b, len
  <2> QED
    BY <1>5, <1>6, <2>1, AddedUpGrows
<1>8. \A k \in Readable(rs, us) : k \in 1 .. len
  BY DEF Readable
<1> QED
  BY <1>3, <1>4, <1>6, <1>7, <1>8 DEF more

(* One readable source is condensed: what it carried is replaced.           *)
LEMMA TotalChange ==
  ASSUME NEW rs \in Seq(Row), NEW us \in Seq(Utterance),
         NEW new \in Seq(Row), NEW words \in Seq(Utterance),
         Len(new) = Len(rs), Len(words) = Len(us),
         NEW k \in Readable(rs, us), Readable(new, words) = Readable(rs, us),
         \A j \in 1 .. Len(rs) + Len(us) : j # k => SourceOf(new, words, j) = SourceOf(rs, us, j)
  PROVE  Total(new, words) =
           Total(rs, us) + (Carried(SourceOf(new, words, k)) - Carried(SourceOf(rs, us, k)))
<1> DEFINE a == Weights(rs, us)
           b == Weights(new, words)
           len == Len(rs) + Len(us)
<1>1. /\ a \in Seq(Int) /\ b \in Seq(Int) /\ Len(a) = len /\ Len(b) = len
      /\ Total(rs, us) = AddedUp(a) /\ Total(new, words) = AddedUp(b)
  BY WeightsList
<1>2. k \in 1 .. len
  BY DEF Readable
<1>3. \A j \in 1 .. len : j # k => b[j] = a[j]
  BY DEF Weights
<1>4. b[k] = Carried(SourceOf(new, words, k)) /\ a[k] = Carried(SourceOf(rs, us, k))
  BY <1>2 DEF Weights
<1> HIDE DEF a, b, len
<1>5. AddedUp(b) = AddedUp(a) + (b[k] - a[k])
  <2>1. Len(a) = Len(b) /\ k \in 1 .. Len(a) /\ \A n \in 1 .. Len(a) : n # k => b[n] = a[n]
    BY <1>1, <1>2, <1>3
  <2>2. a \in Seq(Int) /\ b \in Seq(Int)
    BY <1>1
  <2> QED
    BY <2>1, <2>2, AddedUpChange
<1> QED
  BY <1>1, <1>4, <1>5

-----------------------------------------------------------------------------
(* The preparation                                                          *)

LEMMA QuietOK ==
  ASSUME NEW rs, NEW us \in Seq(Utterance)
  PROVE  PrepOK(Quiet, rs, us) /\ Quiet \in Prep
<1>1. Quiet \in Prep
  BY LimitsAssumption DEF Quiet, Prep
<1>2. Quiet.heard = 0 /\ Quiet.at = "idle" /\ 0 <= Len(us)
  BY WordsList DEF Quiet
<1> QED
  BY <1>1, <1>2 DEF PrepOK

(* To the next condensation, or to the judgement.                           *)
LEMMA CondensingKeeps ==
  ASSUME NEW rs \in Seq(Row), NEW us \in Seq(Utterance),
         NEW p, p.heard \in 0 .. Len(us), ReadOK(p, rs, us),
         NEW sources \in SUBSET Nat, NEW projected \in Int, projected <= Total(rs, us),
         \A k \in sources : k \in Readable(rs, us) /\ SourceOf(rs, us, k).cond = 0
  PROVE  PrepOK(Condensing(p, sources, projected), rs, us)
<1> DEFINE q == Condensing(p, sources, projected)
<1>1. Len(us) \in Nat /\ p.heard \in Nat /\ p.heard <= Len(us)
  BY WordsList
<1>2. CASE sources # {} /\ projected > Budget
  <2>1. q = [at |-> "condense", heard |-> p.heard, links |-> <<>>, fetched |-> 0,
             pending |-> <<>>, used |-> 0, sources |-> sources, projected |-> projected]
    BY <1>2 DEF Condensing, Quiet
  <2>2. q \in Prep
    BY <1>1, <2>1, LimitsAssumption DEF Prep
  <2>3. q.heard = p.heard /\ q.at = "condense" /\ q.sources = sources /\ q.projected = projected
    BY <2>1
  <2> HIDE DEF q
  <2>4. ReadOK(q, rs, us)
    BY <2>3 DEF ReadOK
  <2>5. CondenseOK(q, rs, us)
    BY <1>2, <2>3 DEF CondenseOK
  <2> QED
    BY <1>1, <2>2, <2>3, <2>4, <2>5 DEF PrepOK, q
<1>3. CASE ~(sources # {} /\ projected > Budget)
  <2>1. q = [at |-> "judge", heard |-> p.heard, links |-> <<>>, fetched |-> 0,
             pending |-> <<>>, used |-> 0, sources |-> {}, projected |-> 0]
    BY <1>3 DEF Condensing, Quiet
  <2>2. q \in Prep
    BY <1>1, <2>1, LimitsAssumption DEF Prep
  <2>3. q.heard = p.heard /\ q.at = "judge"
    BY <2>1
  <2> HIDE DEF q
  <2>4. ReadOK(q, rs, us)
    BY <2>3 DEF ReadOK
  <2> QED
    BY <1>1, <2>2, <2>3, <2>4 DEF PrepOK, q
<1> QED
  BY <1>2, <1>3

LEMMA CondenseStarts ==
  ASSUME NEW rs \in Seq(Row), NEW us \in Seq(Utterance),
         NEW p, p.heard \in 0 .. Len(us), ReadOK(p, rs, us)
  PROVE  PrepOK(CondenseLongSources(p, rs, us), rs, us)
<1>1. Candidates(rs, us) \in SUBSET Nat
  BY RowsList, WordsList DEF Candidates, Readable
<1>2. \A k \in Candidates(rs, us) : k \in Readable(rs, us) /\ SourceOf(rs, us, k).cond = 0
  BY DEF Candidates
<1>3. Total(rs, us) \in Int /\ Total(rs, us) <= Total(rs, us)
  BY WeightsList
<1> QED
  BY <1>1, <1>2, <1>3, CondensingKeeps DEF CondenseLongSources

(* To the next extraction, or beyond.                                       *)
LEMMA ExtractingKeeps ==
  ASSUME NEW rs, RowsOK(rs), NEW us \in Seq(Utterance),
         NEW p, p.heard \in 0 .. Len(us), HeardOK(rs, us, p.heard, <<>>),
         NEW pending \in Seq(Nat), Distinct(pending), ToSet(pending) = Waiting(rs),
         NEW used, used = TextOf(rs)
  PROVE  PrepOK(Extracting(p, rs, us, pending, used), rs, us)
<1> DEFINE q == Extracting(p, rs, us, pending, used)
<1>1. Len(us) \in Nat /\ p.heard \in Nat /\ p.heard <= Len(us) /\ rs \in Seq(Row)
  BY WordsList DEF RowsOK
<1>2. CASE pending # <<>>
  <2>1. q = [at |-> "extract", heard |-> p.heard, links |-> <<>>, fetched |-> 0,
             pending |-> pending, used |-> used, sources |-> {}, projected |-> 0]
    BY <1>2 DEF Extracting, Quiet
  <2>2. used \in 0 .. MaxSessionText
    BY <1>1, CharsList, LimitsAssumption DEF RowsOK
  <2>3. q \in Prep
    BY <1>1, <2>1, <2>2, LimitsAssumption DEF Prep
  <2>4. q.heard = p.heard /\ q.at = "extract" /\ q.pending = pending /\ q.used = used
    BY <2>1
  <2> HIDE DEF q
  <2>5. ExtractOK(q, rs, us)
    BY <1>2, <2>4 DEF ExtractOK
  <2> QED
    BY <1>1, <2>3, <2>4, <2>5 DEF PrepOK, q
<1>3. CASE pending = <<>>
  <2>1. q = CondenseLongSources(p, rs, us)
    BY <1>3 DEF Extracting
  <2>2. Waiting(rs) = {}
    <3>1. \A x : ~IsIn(x, pending)
      BY <1>3, EmptySeq DEF IsIn
    <3> QED
      BY <3>1, ToSetIsIn
  <2>3. ReadOK(p, rs, us)
    BY <2>2 DEF ReadOK
  <2> QED
    BY <1>1, <2>1, <2>3, CondenseStarts
<1> QED
  BY <1>2, <1>3

LEMMA ExtractionStarts ==
  ASSUME NEW rs, RowsOK(rs), NEW us \in Seq(Utterance),
         NEW p, p.heard \in 0 .. Len(us), HeardOK(rs, us, p.heard, <<>>)
  PROVE  PrepOK(ExtractPendingAttachments(p, rs, us), rs, us)
<1> DEFINE all == [i \in DOMAIN rs |-> i]
           pending == PendingOf(rs)
<1>1. /\ rs \in Seq(Row) /\ Len(rs) \in Nat /\ DOMAIN rs = 1 .. Len(rs)
  BY RowsList DEF RowsOK
<1>2. all \in Seq(Nat) /\ Len(all) = Len(rs) /\ \A n \in 1 .. Len(rs) : all[n] = n
  <2>1. all \in [1 .. Len(rs) -> Nat]
    BY <1>1
  <2>2. all \in Seq(Nat) /\ DOMAIN all = 1 .. Len(rs)
    BY <1>1, <2>1, SeqDef
  <2> QED
    BY <1>1, <2>2, LenProperties
<1>3. Distinct(all) /\ \A x : IsIn(x, all) <=> x \in DOMAIN rs
  BY <1>1, <1>2 DEF Distinct, IsIn
<1>4. pending = Only(all, {i \in DOMAIN rs : rs[i].status = "pending"})
  BY DEF PendingOf
<1> HIDE DEF all, pending
<1>5. pending = Only(all, Waiting(rs))
  BY <1>4 DEF Waiting
<1>6. /\ pending \in Seq(Nat \cap Waiting(rs)) /\ Distinct(pending)
      /\ \A x : IsIn(x, pending) <=> x \in DOMAIN rs /\ x \in Waiting(rs)
  BY <1>2, <1>3, <1>5, OnlyProperties, OnlyElements
<1>7. pending \in Seq(Nat)
  BY <1>6, SeqMonotonic
<1>8. ToSet(pending) = Waiting(rs)
  BY <1>6, <1>7, ToSetIsIn DEF Waiting
<1> QED
  BY <1>6, <1>7, <1>8, ExtractingKeeps DEF ExtractPendingAttachments, pending

(* The links that are refused before a page can be fetched.                 *)
LEMMA RefusedProperties ==
  ASSUME NEW links \in Seq(Links), NEW fetched \in Nat
  PROVE  /\ Refused(links, fetched) \in Seq(Row)
         /\ Len(Refused(links, fetched)) <= Len(links)
         /\ \A i \in 1 .. Len(Refused(links, fetched)) :
              LET row == Refused(links, fetched)[i]
              IN  /\ row.source = links[i] /\ row.chars = 0 /\ RowOK(row)
                  /\ row.source \in Pages => row.cause = "limit"
         /\ Len(Refused(links, fetched)) < Len(links) =>
              links[Len(Refused(links, fetched)) + 1] \in Pages /\ fetched < MaxPages
<1> DEFINE set == Fetchable(links, fetched)
           until == IF set = {} THEN Len(links) ELSE Min(set) - 1
           cause(i) == IF links[i] \in Pages THEN "limit" ELSE "database"
           list == [i \in 1 .. until |-> Failed(links[i], cause(i))]
<1>1. Len(links) \in Nat /\ DOMAIN links = 1 .. Len(links) /\ \A i \in 1 .. Len(links) : links[i] \in Links
  BY LenProperties, ElementOfSeq
<1>2. until \in 0 .. Len(links) /\ (until < Len(links) => links[until + 1] \in Pages /\ fetched < MaxPages)
  <2>1. CASE set = {}
    BY <1>1, <2>1
  <2>2. CASE set # {}
    <3>1. set \in SUBSET Nat
      BY <1>1 DEF Fetchable
    <3>2. PICK m \in set : \A n \in set : m <= n
      BY <2>2, <3>1, LeastExists
    <3>3. Min(set) \in set
      BY <3>2 DEF Min
    <3>4. Min(set) \in 1 .. Len(links) /\ links[Min(set)] \in Pages /\ fetched < MaxPages
      BY <1>1, <3>3 DEF Fetchable
    <3> QED
      BY <1>1, <2>2, <3>4
  <2> QED
    BY <2>1, <2>2
<1>3. Refused(links, fetched) = list
  BY DEF Refused
<1> HIDE DEF until
<1>4. \A i \in 1 .. until : Failed(links[i], cause(i)) \in Row
  BY <1>1, <1>2 DEF Failed, Row
<1>5. list \in [1 .. until -> Row]
  BY <1>4
<1>8. \A i \in 1 .. until :
        /\ list[i].source = links[i] /\ list[i].chars = 0 /\ RowOK(list[i])
        /\ list[i].source \in Pages => list[i].cause = "limit"
  <2> TAKE i \in 1 .. until
  <2>1. list[i] = [source |-> links[i], status |-> "failed", cause |-> cause(i), chars |-> 0, cond |-> 0]
    BY DEF Failed
  <2> QED
    BY <2>1 DEF RowOK
<1> HIDE DEF list
<1>6. list \in Seq(Row) /\ DOMAIN list = 1 .. until
  BY <1>2, <1>5, SeqDef
<1>7. Len(list) = until
  BY <1>2, <1>6, LenProperties
<1> QED
  BY <1>1, <1>2, <1>3, <1>6, <1>7, <1>8

(* They are recorded: no page is fetched for them, and no file is among     *)
(* them.                                                                    *)
LEMMA RefusedRows ==
  ASSUME NEW rs, RowsOK(rs), NEW links \in Seq(Links), Distinct(links),
         ToSet(links) \cap Recorded(rs) = {}, NEW fetched \in Nat,
         NEW new, new = rs \o Refused(links, fetched)
  PROVE  /\ RowsOK(new) /\ Len(new) = Len(rs) + Len(Refused(links, fetched))
         /\ PageRows(new) = PageRows(rs)
         /\ Recorded(new) = Recorded(rs) \cup {links[i] : i \in 1 .. Len(Refused(links, fetched))}
         /\ \A i \in 1 .. Len(rs) : new[i] = rs[i]
         /\ \A i \in Len(rs) + 1 .. Len(new) : new[i].source \in Links
<1> DEFINE refused == Refused(links, fetched)
           len == Len(rs)
<1>1. /\ rs \in Seq(Row) /\ len \in Nat /\ DOMAIN rs = 1 .. len
      /\ \A i \in 1 .. len : rs[i] \in Row
  BY RowsList DEF RowsOK
<1>2. Len(links) \in Nat /\ DOMAIN links = 1 .. Len(links) /\ \A i \in 1 .. Len(links) : links[i] \in Links
  BY LenProperties, ElementOfSeq
<1>3. /\ refused \in Seq(Row) /\ Len(refused) \in Nat /\ Len(refused) <= Len(links)
      /\ \A i \in 1 .. Len(refused) :
            /\ refused[i].source = links[i] /\ refused[i].chars = 0 /\ RowOK(refused[i])
            /\ refused[i].source \in Pages => refused[i].cause = "limit"
  BY RefusedProperties, RowsList
<1> HIDE DEF refused
<1>4. /\ new \in Seq(Row) /\ Len(new) = len + Len(refused)
      /\ \A i \in 1 .. len + Len(refused) : new[i] = IF i <= len THEN rs[i] ELSE refused[i - len]
  BY <1>1, <1>3, ConcatProperties DEF refused
<1>5. DOMAIN new = 1 .. Len(new) /\ Len(new) \in Nat
  BY <1>4, RowsList
<1>6. \A i \in 1 .. len : i \in 1 .. Len(new) /\ new[i] = rs[i]
  BY <1>1, <1>3, <1>4
<1>7. \A i \in len + 1 .. Len(new) :
        /\ i - len \in 1 .. Len(refused) /\ i \in 1 .. Len(new) /\ new[i] = refused[i - len]
        /\ i - len \in 1 .. Len(links)
  BY <1>1, <1>3, <1>4
<1>8. \A i \in len + 1 .. Len(new) :
        /\ new[i].source = links[i - len] /\ new[i].source \in Links
        /\ new[i].chars = 0 /\ RowOK(new[i])
        /\ new[i].source \in Pages => new[i].cause = "limit"
  <2> TAKE i \in len + 1 .. Len(new)
  <2>1. PICK k \in 1 .. Len(refused) : k = i - len /\ new[i] = refused[k] /\ k \in 1 .. Len(links)
    BY <1>7
  <2>2. /\ refused[k].source = links[k] /\ refused[k].chars = 0 /\ RowOK(refused[k])
        /\ refused[k].source \in Pages => refused[k].cause = "limit"
    BY <1>3
  <2>3. links[k] \in Links
    BY <1>2, <2>1
  <2> QED
    BY <2>1, <2>2, <2>3
<1>9. \A i \in 1 .. Len(new) : i \in 1 .. len \/ i \in len + 1 .. Len(new)
  BY <1>1, <1>4
<1>10. TextOf(new) = TextOf(rs)
  <2>1. Len(rs) <= Len(new)
    BY <1>1, <1>3, <1>4
  <2>2. \A i \in Len(rs) + 1 .. Len(new) : new[i].chars = 0
    BY <1>8
  <2>3. rs \in Seq(Row) /\ new \in Seq(Row) /\ \A i \in 1 .. Len(rs) : new[i] = rs[i]
    BY <1>1, <1>4, <1>6
  <2> QED
    BY <2>1, <2>2, <2>3, TextOfMore
<1>11. PageRows(new) = PageRows(rs)
  BY <1>1, <1>5, <1>6, <1>8, <1>9 DEF PageRows
<1>12. FileRows(new) = FileRows(rs)
  BY <1>1, <1>5, <1>6, <1>8, <1>9, LinksAssumption DEF FileRows
<1>13. Recorded(new) = Recorded(rs) \cup {links[i] : i \in 1 .. Len(refused)}
  <2>1. \A i \in 1 .. Len(refused) :
          /\ i + len \in 1 .. Len(new) /\ links[i] \in Links /\ new[i + len].source = links[i]
    <3> TAKE i \in 1 .. Len(refused)
    <3>1. i + len \in len + 1 .. Len(new) /\ (i + len) - len = i /\ i \in 1 .. Len(links)
      BY <1>1, <1>3, <1>4
    <3>2. new[i + len].source = links[(i + len) - len]
      BY <1>8, <3>1
    <3> QED
      BY <1>2, <1>5, <1>7, <3>1, <3>2
  <2>2. \A x : x \in Recorded(new) => x \in Recorded(rs) \cup {links[i] : i \in 1 .. Len(refused)}
    <3> SUFFICES ASSUME NEW i \in 1 .. Len(new), new[i].source \in Links
                 PROVE  new[i].source \in Recorded(rs) \cup {links[j] : j \in 1 .. Len(refused)}
      BY <1>5 DEF Recorded
    <3>1. CASE i \in 1 .. len
      BY <1>1, <1>6, <3>1 DEF Recorded
    <3>2. CASE i \in len + 1 .. Len(new)
      BY <1>7, <1>8, <3>2
    <3> QED
      BY <1>9, <3>1, <3>2
  <2>3. \A x : x \in Recorded(rs) => x \in Recorded(new)
    BY <1>1, <1>5, <1>6 DEF Recorded
  <2>4. \A i \in 1 .. Len(refused) : links[i] \in Recorded(new)
    BY <1>5, <2>1 DEF Recorded
  <2> QED
    BY <2>2, <2>3, <2>4
<1>14. \A i, j \in DOMAIN new : new[i].source = new[j].source => i = j
  <2>1. \A i, j \in 1 .. len : rs[i].source = rs[j].source => i = j
    BY <1>1 DEF RowsOK
  <2>2. \A i \in 1 .. len, j \in len + 1 .. Len(new) : new[i].source # new[j].source
    <3> SUFFICES ASSUME NEW i \in 1 .. len, NEW j \in len + 1 .. Len(new), new[i].source = new[j].source
                 PROVE  FALSE
      OBVIOUS
    <3>0. rs[i].source = new[j].source /\ new[j].source \in Links
      BY <1>6, <1>8
    <3>1. new[j].source \in Recorded(rs)
      BY <1>1, <3>0 DEF Recorded
    <3>2. new[j].source \in ToSet(links)
      BY <1>2, <1>7, <1>8 DEF ToSet
    <3> QED
      BY <3>1, <3>2
  <2>3. \A i, j \in len + 1 .. Len(new) : new[i].source = new[j].source => i = j
    <3> SUFFICES ASSUME NEW i \in len + 1 .. Len(new), NEW j \in len + 1 .. Len(new),
                        new[i].source = new[j].source
                 PROVE  i = j
      OBVIOUS
    <3>1. links[i - len] = links[j - len] /\ i - len \in 1 .. Len(links) /\ j - len \in 1 .. Len(links)
      BY <1>7, <1>8
    <3>2. i - len = j - len
      BY <3>1 DEF Distinct
    <3> QED
      BY <1>1, <1>4, <3>2
  <2> QED
    BY <1>5, <1>6, <1>9, <2>1, <2>2, <2>3
<1>15. \A i \in DOMAIN new : RowOK(new[i])
  BY <1>1, <1>5, <1>6, <1>8, <1>9 DEF RowsOK
<1>16. RowsOK(new)
  BY <1>4, <1>10, <1>11, <1>12, <1>14, <1>15 DEF RowsOK
<1> QED
  BY <1>4, <1>6, <1>8, <1>11, <1>13, <1>16 DEF refused

(* The links left after the first k of them.                                *)
LEMMA LinksLeft ==
  ASSUME NEW links \in Seq(Links), Distinct(links), NEW k \in 0 .. Len(links) - 1
  PROVE  LET left == SubSeq(links, k + 1, Len(links))
         IN  /\ left \in Seq(Links) /\ left # <<>> /\ Distinct(left)
             /\ ToSet(links) = {links[i] : i \in 1 .. k} \cup ToSet(left)
             /\ {links[i] : i \in 1 .. k} \cap ToSet(left) = {}
<1> DEFINE left == SubSeq(links, k + 1, Len(links))
           size == Len(links) - k
<1>1. Len(links) \in Nat /\ DOMAIN links = 1 .. Len(links) /\ \A i \in 1 .. Len(links) : links[i] \in Links
  BY LenProperties, ElementOfSeq
<1>2. \A i \in k + 1 .. Len(links) : links[i] \in Links
  BY <1>1
<1>3. /\ left \in Seq(Links)
      /\ Len(left) = IF k + 1 <= Len(links) THEN Len(links) - (k + 1) + 1 ELSE 0
      /\ \A i \in 1 .. Len(links) - (k + 1) + 1 : left[i] = links[(k + 1) + i - 1]
  <2>1. k + 1 \in Int /\ Len(links) \in Int
    BY <1>1
  <2> QED
    BY <1>2, <2>1, SubSeqProperties
<1> HIDE DEF left
<1>4. Len(left) = size /\ size \in Nat /\ size > 0 /\ DOMAIN left = 1 .. size
  BY <1>1, <1>3, LenProperties
<1>5. \A i \in 1 .. size : left[i] = links[k + i] /\ k + i \in 1 .. Len(links) /\ ~(k + i <= k)
  BY <1>1, <1>3
<1>6. \A i \in k + 1 .. Len(links) : i - k \in 1 .. size /\ left[i - k] = links[i]
  <2> TAKE i \in k + 1 .. Len(links)
  <2>1. i - k \in 1 .. size /\ k + (i - k) = i
    BY <1>1
  <2> QED
    BY <1>5, <2>1
<1>7. left # <<>>
  BY <1>3, <1>4, EmptySeq
<1>8. Distinct(left)
  <2> SUFFICES ASSUME NEW i \in 1 .. size, NEW j \in 1 .. size, left[i] = left[j] PROVE i = j
    BY <1>4 DEF Distinct
  <2>1. k + i = k + j
    BY <1>5 DEF Distinct
  <2> QED
    BY <1>1, <1>4, <2>1
<1>9. ToSet(left) = {links[i] : i \in k + 1 .. Len(links)}
  <2>1. \A i \in 1 .. size : k + i \in k + 1 .. Len(links)
    BY <1>1
  <2>2. \A x : x \in ToSet(left) => x \in {links[i] : i \in k + 1 .. Len(links)}
    BY <1>4, <1>5, <2>1 DEF ToSet
  <2>3. \A i \in k + 1 .. Len(links) : links[i] \in ToSet(left)
    BY <1>4, <1>6 DEF ToSet
  <2> QED
    BY <2>2, <2>3
<1>10. ToSet(links) = {links[i] : i \in 1 .. Len(links)}
  BY <1>1 DEF ToSet
<1>11. \A i : i \in 1 .. Len(links) <=> i \in 1 .. k \/ i \in k + 1 .. Len(links)
  BY <1>1
<1>12. \A i \in 1 .. k, j \in k + 1 .. Len(links) : links[i] # links[j]
  BY <1>1 DEF Distinct
<1> QED
  BY <1>3, <1>7, <1>8, <1>9, <1>10, <1>11, <1>12 DEF left

(* What is heard stays heard: the links of the words are recorded or left.  *)
LEMMA HeardKeeps ==
  ASSUME NEW rs, NEW new, NEW us \in Seq(Utterance), NEW n \in Nat, NEW links, NEW left,
         HeardOK(rs, us, n, links),
         Recorded(rs) \cup ToSet(links) \subseteq Recorded(new) \cup ToSet(left)
  PROVE  HeardOK(new, us, n, left)
BY DEF HeardOK

(* What is kept over the fetch of a page.                                   *)
Fetching(heard, fetched, links) ==
  [Quiet EXCEPT !.at = "fetch", !.heard = heard, !.links = links, !.fetched = fetched]

LEMMA FetchingType ==
  ASSUME NEW heard \in Nat, NEW fetched \in 0 .. MaxPages, NEW links \in Seq(Links)
  PROVE  LET q == Fetching(heard, fetched, links)
         IN  /\ q \in Prep /\ q.at = "fetch" /\ q.heard = heard
             /\ q.fetched = fetched /\ q.links = links
<1>1. ASSUME NEW q, q = [Quiet EXCEPT !.at = "fetch", !.heard = heard, !.links = links, !.fetched = fetched]
      PROVE  q = [at |-> "fetch", heard |-> heard, links |-> links, fetched |-> fetched,
                  pending |-> <<>>, used |-> 0, sources |-> {}, projected |-> 0]
  BY <1>1 DEF Quiet
<1>2. Fetching(heard, fetched, links)
        = [at |-> "fetch", heard |-> heard, links |-> links, fetched |-> fetched,
           pending |-> <<>>, used |-> 0, sources |-> {}, projected |-> 0]
  BY <1>1 DEF Fetching
<1> QED
  BY <1>2, LimitsAssumption DEF Prep

(* Up to the next fetch, or to the extraction.                              *)
LEMMA IngestRestKeeps ==
  ASSUME NEW p, NEW rs, NEW us \in Seq(Utterance), NEW links \in Seq(Links), NEW fetched \in Nat,
         RowsOK(rs), p.heard \in 0 .. Len(us), Distinct(links),
         ToSet(links) \cap Recorded(rs) = {}, Cardinality(PageRows(rs)) <= fetched,
         HeardOK(rs, us, p.heard, links), IngestRest(p, rs, us, links, fetched)
  PROVE  /\ RowsOK(rows') /\ PrepOK(prep', rows', us)
         /\ Len(rows') >= Len(rs)
         /\ \A i \in 1 .. Len(rs) : rows'[i] = rs[i]
         /\ \A i \in Len(rs) + 1 .. Len(rows') : rows'[i].source \in Links
<1> DEFINE refused == Refused(links, fetched)
           k == Len(refused)
           new == rs \o refused
           left == SubSeq(links, k + 1, Len(links))
           q == Fetching(p.heard, fetched + 1, left)
<1>1. rows' = new /\ prep' = IF k < Len(links) THEN q ELSE ExtractPendingAttachments(p, new, us)
  BY DEF IngestRest, Fetching
<1>2. /\ refused \in Seq(Row) /\ k <= Len(links)
      /\ k < Len(links) => links[k + 1] \in Pages /\ fetched < MaxPages
  BY RefusedProperties
<1>3. Len(links) \in Nat /\ k \in Nat /\ Len(us) \in Nat /\ DOMAIN links = 1 .. Len(links) /\ Len(rs) \in Nat
  BY <1>2, RowsList, WordsList, LenProperties DEF RowsOK
<1>4. /\ RowsOK(new) /\ Len(new) = Len(rs) + k
      /\ PageRows(new) = PageRows(rs)
      /\ Recorded(new) = Recorded(rs) \cup {links[i] : i \in 1 .. k}
      /\ \A i \in 1 .. Len(rs) : new[i] = rs[i]
      /\ \A i \in Len(rs) + 1 .. Len(new) : new[i].source \in Links
  BY RefusedRows
<1> HIDE DEF refused, k, new, left, q
<1>5. CASE k < Len(links)
  <2>1. /\ left \in Seq(Links) /\ left # <<>> /\ Distinct(left)
        /\ ToSet(links) = {links[i] : i \in 1 .. k} \cup ToSet(left)
        /\ {links[i] : i \in 1 .. k} \cap ToSet(left) = {}
    <3>1. k \in 0 .. Len(links) - 1
      BY <1>3, <1>5
    <3> QED
      BY <3>1, LinksLeft DEF left
  <2>3. fetched + 1 \in 0 .. MaxPages
    BY <1>2, <1>5, LimitsAssumption
  <2>4. q \in Prep
    BY <1>3, <2>1, <2>3, FetchingType DEF q
  <2>5. q.at = "fetch" /\ q.heard = p.heard /\ q.links = left /\ q.fetched = fetched + 1
    BY <1>3, <2>1, <2>3, FetchingType DEF q
  <2>6. ToSet(left) \cap Recorded(new) = {}
    BY <1>4, <2>1
  <2>7. HeardOK(new, us, q.heard, left)
    <3>1. Recorded(rs) \cup ToSet(links) \subseteq Recorded(new) \cup ToSet(left)
      BY <1>4, <2>1
    <3>2. p.heard \in Nat
      BY <1>3
    <3> QED
      BY <2>5, <3>1, <3>2, HeardKeeps
  <2>8. Cardinality(PageRows(new)) < q.fetched
    <3>1. Cardinality(PageRows(rs)) \in Nat
      <4>1. PageRows(rs) \in SUBSET (1 .. Len(rs))
        BY RowsList DEF PageRows, RowsOK
      <4>2. IsFiniteSet(1 .. Len(rs))
        BY <1>3, FS_Interval
      <4> QED
        BY <4>1, <4>2, FS_Subset, FS_CardinalityType
    <3> QED
      BY <1>4, <2>5, <3>1
  <2>9. FetchOK(q, new, us)
    BY <2>1, <2>5, <2>6, <2>7, <2>8 DEF FetchOK
  <2>10. PrepOK(q, new, us)
    BY <1>3, <2>4, <2>5, <2>9 DEF PrepOK
  <2> QED
    BY <1>1, <1>3, <1>4, <1>5, <2>10
<1>6. CASE ~(k < Len(links))
  <2>1. k = Len(links)
    <3>1. k <= Len(links)
      BY <1>2
    <3>2. k \in Nat /\ Len(links) \in Nat
      BY <1>3
    <3> QED
      BY <1>6, <3>1, <3>2
  <2>2. ToSet(links) = {links[i] : i \in 1 .. k}
    BY <1>3, <2>1 DEF ToSet
  <2>3. HeardOK(new, us, p.heard, <<>>)
    <3>1. Recorded(rs) \cup ToSet(links) \subseteq Recorded(new) \cup ToSet(<<>>)
      BY <1>4, <2>2
    <3>2. p.heard \in Nat
      BY <1>3
    <3> QED
      BY <3>1, <3>2, HeardKeeps
  <2>4. PrepOK(ExtractPendingAttachments(p, new, us), new, us)
    BY <1>4, <2>3, ExtractionStarts
  <2> QED
    BY <1>1, <1>3, <1>4, <1>6, <2>4
<1> QED
  BY <1>5, <1>6

LEMMA RowsFinite ==
  ASSUME NEW rs \in Seq(Row), NEW set \in SUBSET DOMAIN rs
  PROVE  IsFiniteSet(set) /\ Cardinality(set) \in Nat
<1>1. DOMAIN rs = 1 .. Len(rs) /\ Len(rs) \in Nat
  BY RowsList
<1>2. IsFiniteSet(1 .. Len(rs))
  BY <1>1, FS_Interval
<1> QED
  BY <1>1, <1>2, FS_Subset, FS_CardinalityType

(* A round reads every link of its words that is not recorded, once.        *)
LEMMA UnseenProperties ==
  ASSUME NEW rs, NEW us \in Seq(Utterance)
  PROVE  /\ Unseen(rs, us) \in Seq(Links) /\ Distinct(Unseen(rs, us))
         /\ ToSet(Unseen(rs, us)) \cap Recorded(rs) = {}
         /\ HeardOK(rs, us, Len(us), Unseen(rs, us))
<1> DEFINE lists == [i \in DOMAIN us |-> us[i].links]
           said == Said(us)
           new == Links \ Recorded(rs)
           left == Unseen(rs, us)
<1>1. Len(us) \in Nat /\ DOMAIN us = 1 .. Len(us) /\ \A i \in 1 .. Len(us) : us[i].links \in Seq(Links)
  BY WordsList DEF Utterance
<1>2. lists \in Seq(Seq(Links)) /\ Len(lists) = Len(us) /\ \A i \in 1 .. Len(us) : lists[i] = us[i].links
  <2>1. lists \in [1 .. Len(us) -> Seq(Links)] /\ \A i \in 1 .. Len(us) : lists[i] = us[i].links
    BY <1>1
  <2> HIDE DEF lists
  <2>2. lists \in Seq(Seq(Links)) /\ DOMAIN lists = 1 .. Len(us)
    BY <1>1, <2>1, SeqDef
  <2> QED
    BY <1>1, <2>1, <2>2, LenProperties
<1>3. said = Flat(lists) /\ left = OnceOf(said, new)
  BY DEF Said, Unseen
<1> HIDE DEF lists, said, new, left
<1>4. said \in Seq(Links) /\ \A i \in 1 .. Len(us) : \A x : IsIn(x, us[i].links) => IsIn(x, said)
  BY <1>2, <1>3, FlatProperties
<1>5. /\ left \in Seq(Links \cap new) /\ Distinct(left)
      /\ \A x : IsIn(x, left) <=> IsIn(x, said) /\ x \in new
  BY <1>3, <1>4, OnceProperties
<1>6. left \in Seq(Links)
  BY <1>5, SeqMonotonic
<1>7. \A x : x \in ToSet(left) <=> IsIn(x, said) /\ x \in new
  BY <1>5, <1>6, ToSetIsIn
<1>8. ToSet(left) \cap Recorded(rs) = {}
  BY <1>7 DEF new
<1>9. HeardOK(rs, us, Len(us), left)
  <2> SUFFICES ASSUME NEW i \in 1 .. Len(us), NEW x \in ToSet(us[i].links)
               PROVE  x \in Recorded(rs) \cup ToSet(left)
    BY DEF HeardOK
  <2>1. us[i].links \in Seq(Links)
    BY <1>1
  <2>2. IsIn(x, us[i].links) /\ x \in Links
    BY <2>1, ToSetIsIn
  <2> QED
    BY <1>4, <1>7, <2>2 DEF new
<1> QED
  BY <1>5, <1>6, <1>8, <1>9 DEF left

LEMMA PrepareKeeps ==
  ASSUME NEW rs, NEW us \in Seq(Utterance), RowsOK(rs), Prepare(rs, us)
  PROVE  /\ RowsOK(rows') /\ PrepOK(prep', rows', us)
         /\ Len(rows') >= Len(rs)
         /\ \A i \in 1 .. Len(rs) : rows'[i] = rs[i]
         /\ \A i \in Len(rs) + 1 .. Len(rows') : rows'[i].source \in Links
<1> DEFINE p == [Quiet EXCEPT !.heard = Len(us)]
           links == Unseen(rs, us)
           linked == {i \in DOMAIN rs : rs[i].source \in Links}
           fetched == Cardinality(linked)
<1>1. IngestRest(p, rs, us, links, fetched)
  BY DEF Prepare
<1>2. p.heard = Len(us) /\ Len(us) \in Nat
  BY WordsList DEF Quiet
<1>3. rs \in Seq(Row)
  BY DEF RowsOK
<1>4. fetched \in Nat /\ Cardinality(PageRows(rs)) <= fetched
  <2>1. linked \in SUBSET DOMAIN rs /\ PageRows(rs) \in SUBSET linked
    BY DEF PageRows, Links
  <2> HIDE DEF linked
  <2> QED
    BY <1>3, <2>1, RowsFinite, FS_Subset
<1>5. /\ links \in Seq(Links) /\ Distinct(links) /\ ToSet(links) \cap Recorded(rs) = {}
      /\ HeardOK(rs, us, p.heard, links)
  BY <1>2, UnseenProperties
<1>6. p.heard \in 0 .. Len(us)
  BY <1>2
<1> HIDE DEF p, links, fetched
<1> QED
  BY <1>1, <1>4, <1>5, <1>6, IngestRestKeeps

-----------------------------------------------------------------------------
(* The operations                                                           *)

(* No condensed text of what is there changes.                              *)
CondKept ==
  /\ \A i \in DOMAIN rows : rows'[i].cond = rows[i].cond
  /\ \A i \in DOMAIN utterances : utterances'[i].cond = utterances[i].cond

(* The uploads of an utterance become rows, one each, in some order.        *)
LEMMA PromotedProperties ==
  ASSUME NEW ups \in SUBSET Uploads
  PROVE  /\ Promoted(ups) \in Seq(Row) /\ Len(Promoted(ups)) = Cardinality(ups)
         /\ \A i \in 1 .. Len(Promoted(ups)) :
              Promoted(ups)[i].source \in ups /\ Promoted(ups)[i].chars = 0 /\ RowOK(Promoted(ups)[i])
         /\ \A i, j \in 1 .. Len(Promoted(ups)) :
              Promoted(ups)[i].source = Promoted(ups)[j].source => i = j
<1> DEFINE n == Cardinality(ups)
           new == SetToSeq(ups)
           list == Promoted(ups)
<1>1. n \in Nat /\ ExistsBijection(1 .. n, ups)
  BY LinksAssumption, FS_Subset, FS_CardinalityType
<1>2. \E f \in [1 .. n -> ups] : IsInjective(f)
  <2>1. PICK f : f \in Bijection(1 .. n, ups)
    BY <1>1 DEF ExistsBijection
  <2>2. f \in [1 .. n -> ups] /\ \A a, b \in 1 .. n : f[a] = f[b] => a = b
    BY <2>1 DEF Bijection, Injection, IsInjective
  <2> QED
    BY <2>2 DEF IsInjective
<1>3. new \in [1 .. n -> ups] /\ IsInjective(new)
  BY <1>2 DEF SetToSeq
<1>4. list = [i \in DOMAIN new |-> Pending(new[i])]
  BY DEF Promoted
<1> HIDE DEF n, new, list
<1>5. DOMAIN new = 1 .. n /\ \A i \in 1 .. n : new[i] \in ups
  BY <1>3
<1>6. \A i \in 1 .. n : list[i] = Pending(new[i])
  BY <1>4, <1>5
<1>7. \A i \in 1 .. n : /\ list[i] \in Row /\ list[i].source = new[i]
                        /\ list[i].chars = 0 /\ RowOK(list[i])
  <2> TAKE i \in 1 .. n
  <2>1. list[i] = [source |-> new[i], status |-> "pending", cause |-> "none", chars |-> 0, cond |-> 0]
    BY <1>6 DEF Pending
  <2> QED
    BY <1>5, <2>1 DEF Row, RowOK
<1>8. list \in [1 .. n -> Row]
  BY <1>4, <1>5, <1>7
<1>9. list \in Seq(Row) /\ Len(list) = n
  <2>1. list \in Seq(Row) /\ DOMAIN list = 1 .. n
    BY <1>1, <1>8, SeqDef DEF n
  <2> QED
    BY <1>1, <2>1, LenProperties DEF n
<1>10. \A i, j \in 1 .. n : list[i].source = list[j].source => i = j
  BY <1>3, <1>5, <1>7 DEF IsInjective
<1> QED
  BY <1>5, <1>7, <1>9, <1>10 DEF list, n

LEMMA PromotedRows ==
  ASSUME NEW rs, RowsOK(rs), NEW ups \in SUBSET Uploads,
         \A i \in DOMAIN rs : rs[i].source \notin ups,
         ups = {} \/ Len(rs) + Cardinality(ups) <= MaxPerSession,
         NEW new, new = rs \o Promoted(ups)
  PROVE  /\ RowsOK(new) /\ Len(new) >= Len(rs)
         /\ \A i \in 1 .. Len(rs) : new[i] = rs[i]
         /\ \A i \in Len(rs) + 1 .. Len(new) : new[i].source \in ups
<1> DEFINE more == Promoted(ups)
           len == Len(rs)
<1>1. /\ rs \in Seq(Row) /\ len \in Nat /\ DOMAIN rs = 1 .. len
      /\ \A i \in 1 .. len : rs[i] \in Row
  BY RowsList DEF RowsOK
<1>2. /\ more \in Seq(Row) /\ Len(more) = Cardinality(ups) /\ Len(more) \in Nat
      /\ \A i \in 1 .. Len(more) : more[i].source \in ups /\ more[i].chars = 0 /\ RowOK(more[i])
      /\ \A i, j \in 1 .. Len(more) : more[i].source = more[j].source => i = j
  BY PromotedProperties, RowsList
<1> HIDE DEF more
<1>3. /\ new \in Seq(Row) /\ Len(new) = len + Len(more)
      /\ \A i \in 1 .. len + Len(more) : new[i] = IF i <= len THEN rs[i] ELSE more[i - len]
  BY <1>1, <1>2, ConcatProperties DEF more
<1>4. DOMAIN new = 1 .. Len(new) /\ Len(new) \in Nat /\ len <= Len(new)
  BY <1>1, <1>2, <1>3, RowsList
<1>5. \A i \in 1 .. len : i \in 1 .. Len(new) /\ new[i] = rs[i]
  BY <1>1, <1>2, <1>3
<1>6. \A i \in len + 1 .. Len(new) : i - len \in 1 .. Len(more) /\ i \in 1 .. Len(new) /\ new[i] = more[i - len]
  BY <1>1, <1>2, <1>3
<1>7. \A i \in len + 1 .. Len(new) : new[i].source \in ups /\ new[i].chars = 0 /\ RowOK(new[i])
  BY <1>2, <1>6
<1>8. \A i \in 1 .. Len(new) : i \in 1 .. len \/ i \in len + 1 .. Len(new)
  BY <1>1, <1>4
<1>9. TextOf(new) = TextOf(rs)
  <2>1. \A i \in Len(rs) + 1 .. Len(new) : new[i].chars = 0
    BY <1>7
  <2>2. rs \in Seq(Row) /\ new \in Seq(Row) /\ Len(rs) <= Len(new) /\ \A i \in 1 .. Len(rs) : new[i] = rs[i]
    BY <1>1, <1>3, <1>4, <1>5
  <2> QED
    BY <2>1, <2>2, TextOfMore
<1>10. PageRows(new) = PageRows(rs)
  BY <1>1, <1>4, <1>5, <1>7, <1>8, LinksAssumption DEF PageRows, Links
<1>11. Cardinality(FileRows(new)) <= MaxPerSession
  <2>1. CASE ups = {}
    <3>1. FileRows(new) = FileRows(rs)
      BY <1>1, <1>4, <1>5, <1>7, <1>8, <2>1 DEF FileRows
    <3> QED
      BY <3>1 DEF RowsOK
  <2>2. CASE ups # {}
    <3>1. Len(new) <= MaxPerSession
      BY <1>2, <1>3, <2>2
    <3>2. FileRows(new) \in SUBSET (1 .. Len(new))
      BY <1>4 DEF FileRows
    <3>3. IsFiniteSet(1 .. Len(new)) /\ Cardinality(1 .. Len(new)) = Len(new)
      BY <1>4, FS_Interval
    <3>4. Cardinality(FileRows(new)) <= Len(new) /\ Cardinality(FileRows(new)) \in Nat
      BY <3>2, <3>3, FS_Subset, FS_CardinalityType
    <3> QED
      BY <1>4, <3>1, <3>4, LimitsAssumption
  <2> QED
    BY <2>1, <2>2
<1>12. \A i, j \in DOMAIN new : new[i].source = new[j].source => i = j
  <2>1. \A i, j \in 1 .. len : rs[i].source = rs[j].source => i = j
    BY <1>1 DEF RowsOK
  <2>2. \A i \in 1 .. len, j \in len + 1 .. Len(new) : new[i].source # new[j].source
    BY <1>1, <1>5, <1>7
  <2>3. \A i, j \in len + 1 .. Len(new) : new[i].source = new[j].source => i = j
    <3> SUFFICES ASSUME NEW i \in len + 1 .. Len(new), NEW j \in len + 1 .. Len(new),
                        new[i].source = new[j].source
                 PROVE  i = j
      OBVIOUS
    <3>1. i - len = j - len
      BY <1>2, <1>6
    <3> QED
      BY <1>1, <1>4, <3>1
  <2> QED
    BY <1>4, <1>5, <1>8, <2>1, <2>2, <2>3
<1>13. \A i \in DOMAIN new : RowOK(new[i])
  BY <1>1, <1>4, <1>5, <1>7, <1>8 DEF RowsOK
<1>14. TextOf(new) <= MaxSessionText /\ Cardinality(PageRows(new)) <= MaxPages
  BY <1>9, <1>10 DEF RowsOK
<1>15. RowsOK(new)
  BY <1>3, <1>11, <1>12, <1>13, <1>14 DEF RowsOK
<1> QED
  BY <1>4, <1>5, <1>7, <1>15

(* Words that are said while anything runs.                                 *)
LEMMA MoreWordsKeep ==
  ASSUME NEW rs \in Seq(Row), NEW us \in Seq(Utterance), NEW u \in Utterance,
         NEW p, PrepOK(p, rs, us)
  PROVE  PrepOK(p, rs, Append(us, u))
<1> DEFINE more == Append(us, u)
<1>1. /\ Len(us) \in Nat /\ more \in Seq(Utterance) /\ Len(more) = Len(us) + 1
      /\ \A i \in 1 .. Len(us) : more[i] = us[i]
  BY AppendProperties, WordsList
<1>2. p.heard \in Nat /\ p.heard <= Len(us) /\ p \in Prep /\ p.projected \in Int
  BY DEF PrepOK, Prep
<1>3. \A links : HeardOK(rs, us, p.heard, links) => HeardOK(rs, more, p.heard, links)
  BY <1>1, <1>2 DEF HeardOK
<1>4. CondenseOK(p, rs, us) => CondenseOK(p, rs, more)
  <2>1. /\ Total(rs, us) <= Total(rs, more)
        /\ \A k \in Readable(rs, us) : k \in Readable(rs, more) /\ SourceOf(rs, more, k) = SourceOf(rs, us, k)
    BY TotalGrows
  <2> HIDE DEF more
  <2>2. Total(rs, us) \in Nat /\ Total(rs, more) \in Nat
    BY <1>1, WeightsList
  <2> QED
    BY <1>2, <2>1, <2>2 DEF CondenseOK
<1> HIDE DEF more
<1>5. p.heard <= Len(more)
  BY <1>1, <1>2
<1>6. /\ FetchOK(p, rs, us) => FetchOK(p, rs, more)
      /\ ExtractOK(p, rs, us) => ExtractOK(p, rs, more)
      /\ ReadOK(p, rs, us) => ReadOK(p, rs, more)
  BY <1>3 DEF FetchOK, ExtractOK, ReadOK
<1>7. PrepOK(p, rs, more)
  BY <1>2, <1>4, <1>5, <1>6 DEF PrepOK
<1> QED
  BY <1>7 DEF more

LEMMA WordsType ==
  ASSUME NEW chars \in Lengths, NEW links \in LinkLists
  PROVE  Words(chars, links) \in Utterance
BY LengthsAssumption, LinksAssumption DEF Words, Utterance

LEMMA StageKeeps ==
  ASSUME SourcesInv, NEW u \in Uploads, Stage(u)
  PROVE  SourcesInv' /\ CondKept
<1>1. StagedOK'
  BY DEF SourcesInv, StagedOK, Stage
<1>2. UNCHANGED <<utterances, rows, documented, unanswered, prep>>
  BY DEF Stage
<1> QED
  BY <1>1, <1>2 DEF SourcesInv, CondKept

(* The uploads that are attached leave the staged ones.                     *)
LEMMA SayKeeps ==
  ASSUME SourcesInv, NEW chars \in Lengths, NEW links \in LinkLists, NEW ups \in SUBSET Uploads,
         Say(chars, links, ups)
  PROVE  SourcesInv' /\ CondKept
<1> DEFINE u == Words(chars, links)
           us == Append(utterances, u)
           new == rows \o Promoted(ups)
<1>1. u \in Utterance
  BY WordsType
<1>2. /\ utterances \in Seq(Utterance) /\ rows \in Seq(Row) /\ RowsOK(rows) /\ StagedOK
      /\ PrepOK(prep, rows, utterances)
  BY DEF SourcesInv, RowsOK
<1>3. /\ us \in Seq(Utterance) /\ Len(us) = Len(utterances) + 1
      /\ \A i \in 1 .. Len(utterances) : us[i] = utterances[i]
  BY <1>1, <1>2, AppendProperties
<1>4. /\ utterances' = us /\ unanswered' = TRUE /\ documented' = documented
      /\ IF Attachable(ups)
         THEN staged' = staged \ ups /\ Prepare(new, us)
         ELSE staged' = staged /\ rows' = rows /\ prep' = prep
  BY DEF Say
<1>5. \A i \in DOMAIN utterances : utterances'[i].cond = utterances[i].cond
  BY <1>2, <1>3, <1>4, WordsList
<1>6. DOMAIN rows = 1 .. Len(rows) /\ Len(rows) \in Nat
  BY <1>2, RowsList
<1>7. CASE Attachable(ups)
  <2>1. /\ ups = {} \/ Len(rows) + Cardinality(ups) <= MaxPerSession
        /\ \A i \in DOMAIN rows : rows[i].source \notin ups
    BY <1>2, <1>7 DEF Attachable, StagedOK
  <2>2. /\ RowsOK(new) /\ Len(new) >= Len(rows)
        /\ \A i \in 1 .. Len(rows) : new[i] = rows[i]
        /\ \A i \in Len(rows) + 1 .. Len(new) : new[i].source \in ups
    BY <1>2, <2>1, PromotedRows
  <2> HIDE DEF new, us
  <2>3. /\ RowsOK(rows') /\ PrepOK(prep', rows', us)
        /\ Len(rows') >= Len(new)
        /\ \A i \in 1 .. Len(new) : rows'[i] = new[i]
        /\ \A i \in Len(new) + 1 .. Len(rows') : rows'[i].source \in Links
    BY <1>3, <1>4, <1>7, <2>2, PrepareKeeps
  <2>4. /\ Len(new) \in Nat /\ Len(rows') \in Nat /\ DOMAIN rows' = 1 .. Len(rows')
    BY <2>2, <2>3, RowsList DEF RowsOK
  <2>5. \A i \in 1 .. Len(rows) : rows'[i] = rows[i]
    BY <1>6, <2>2, <2>3, <2>4
  <2>6. \A i \in Len(rows) + 1 .. Len(rows') : rows'[i].source \in ups \cup Links
    <3> TAKE i \in Len(rows) + 1 .. Len(rows')
    <3>1. CASE i \in Len(rows) + 1 .. Len(new)
      BY <1>6, <2>2, <2>3, <2>4, <3>1
    <3>2. CASE i \in Len(new) + 1 .. Len(rows')
      BY <2>3, <3>2
    <3> QED
      BY <1>6, <2>2, <2>4, <3>1, <3>2
  <2>7. \A i \in DOMAIN rows' : rows'[i].source \notin staged \ ups
    <3> TAKE i \in DOMAIN rows'
    <3>1. CASE i \in 1 .. Len(rows)
      BY <1>2, <1>6, <2>5, <3>1 DEF StagedOK
    <3>2. CASE i \in Len(rows) + 1 .. Len(rows')
      BY <1>2, <2>6, <3>2, LinksAssumption DEF StagedOK
    <3> QED
      BY <1>6, <2>4, <3>1, <3>2
  <2>8. StagedOK'
    BY <1>2, <1>4, <1>7, <2>7 DEF StagedOK
  <2>9. CondKept
    BY <1>5, <1>6, <2>5 DEF CondKept
  <2> QED
    BY <1>3, <1>4, <2>3, <2>8, <2>9 DEF SourcesInv
<1>8. CASE ~Attachable(ups)
  <2>1. PrepOK(prep, rows, us)
    BY <1>1, <1>2, MoreWordsKeep
  <2>2. StagedOK'
    BY <1>2, <1>4, <1>8 DEF StagedOK
  <2> HIDE DEF us
  <2> QED
    BY <1>2, <1>3, <1>4, <1>5, <1>8, <2>1, <2>2 DEF SourcesInv, CondKept
<1> QED
  BY <1>7, <1>8

LEMMA CorrectKeeps ==
  ASSUME SourcesInv, NEW chars \in Lengths, NEW links \in LinkLists, Correct(chars, links)
  PROVE  SourcesInv' /\ CondKept
<1> DEFINE u == Words(chars, links)
           us == Append(utterances, u)
<1>1. u \in Utterance
  BY WordsType
<1>2. /\ utterances \in Seq(Utterance) /\ rows \in Seq(Row) /\ RowsOK(rows) /\ StagedOK
      /\ PrepOK(prep, rows, utterances)
  BY DEF SourcesInv, RowsOK
<1>3. /\ us \in Seq(Utterance) /\ Len(us) = Len(utterances) + 1
      /\ \A i \in 1 .. Len(utterances) : us[i] = utterances[i]
  BY <1>1, <1>2, AppendProperties
<1>4. /\ utterances' = us /\ unanswered' = FALSE /\ documented' = documented
      /\ staged' = staged /\ rows' = rows /\ prep' = prep
  BY DEF Correct
<1>5. \A i \in DOMAIN utterances : utterances'[i].cond = utterances[i].cond
  BY <1>2, <1>3, <1>4, WordsList
<1>6. PrepOK(prep, rows, us)
  BY <1>1, <1>2, MoreWordsKeep
<1>7. StagedOK'
  BY <1>2, <1>4 DEF StagedOK
<1> HIDE DEF us
<1> QED
  BY <1>2, <1>3, <1>4, <1>5, <1>6, <1>7 DEF SourcesInv, CondKept

(* Rows of links that are added leave the staged uploads alone.             *)
LEMMA LinkRowsKeep ==
  ASSUME SourcesInv, staged' = staged, rows' \in Seq(Row), Len(rows') >= Len(rows),
         \A i \in 1 .. Len(rows) : rows'[i] = rows[i],
         \A i \in Len(rows) + 1 .. Len(rows') : rows'[i].source \in Links
  PROVE  StagedOK' /\ \A i \in DOMAIN rows : rows'[i].cond = rows[i].cond
<1>1. /\ DOMAIN rows = 1 .. Len(rows) /\ Len(rows) \in Nat
      /\ DOMAIN rows' = 1 .. Len(rows') /\ Len(rows') \in Nat
  BY RowsList DEF SourcesInv, RowsOK
<1>2. \A i \in DOMAIN rows' : rows'[i].source \notin staged
  <2> TAKE i \in DOMAIN rows'
  <2>1. CASE i \in 1 .. Len(rows)
    BY <1>1, <2>1 DEF SourcesInv, StagedOK
  <2>2. CASE i \in Len(rows) + 1 .. Len(rows')
    BY <2>2, LinksAssumption DEF SourcesInv, StagedOK
  <2> QED
    BY <1>1, <2>1, <2>2
<1> QED
  BY <1>1, <1>2 DEF SourcesInv, StagedOK

LEMMA RetryKeeps ==
  ASSUME SourcesInv, Retry
  PROVE  SourcesInv' /\ CondKept
<1>1. utterances \in Seq(Utterance) /\ RowsOK(rows)
  BY DEF SourcesInv
<1>2. /\ Prepare(rows, utterances) /\ staged' = staged /\ utterances' = utterances
      /\ documented' = documented /\ unanswered' = unanswered
  BY DEF Retry
<1>3. /\ RowsOK(rows') /\ PrepOK(prep', rows', utterances) /\ Len(rows') >= Len(rows)
      /\ \A i \in 1 .. Len(rows) : rows'[i] = rows[i]
      /\ \A i \in Len(rows) + 1 .. Len(rows') : rows'[i].source \in Links
  BY <1>1, <1>2, PrepareKeeps
<1>4. StagedOK' /\ \A i \in DOMAIN rows : rows'[i].cond = rows[i].cond
  BY <1>2, <1>3, LinkRowsKeep DEF RowsOK
<1> QED
  BY <1>1, <1>2, <1>3, <1>4 DEF SourcesInv, CondKept

(* The round ends, or dies.                                                 *)
LEMMA QuietKeeps ==
  ASSUME SourcesInv, prep' = Quiet, UNCHANGED <<staged, utterances, rows>>,
         documented' \in BOOLEAN, unanswered' \in BOOLEAN
  PROVE  SourcesInv' /\ CondKept
<1>1. utterances \in Seq(Utterance)
  BY DEF SourcesInv
<1>2. PrepOK(prep', rows, utterances)
  BY <1>1, QuietOK
<1>3. StagedOK'
  BY DEF SourcesInv, StagedOK
<1> QED
  BY <1>2, <1>3 DEF SourcesInv, CondKept

(* The page that was fetched is recorded, or its failure.                   *)
LEMMA FetchedRows ==
  ASSUME NEW rs, RowsOK(rs), NEW row \in Row, RowOK(row), row.chars = 0,
         row.source \in Links, row.source \notin Recorded(rs),
         Cardinality(PageRows(rs)) < MaxPages
  PROVE  LET new == Append(rs, row)
         IN  /\ RowsOK(new) /\ Len(new) = Len(rs) + 1 /\ new[Len(rs) + 1] = row
             /\ \A i \in 1 .. Len(rs) : new[i] = rs[i]
             /\ Recorded(new) = Recorded(rs) \cup {row.source}
             /\ Cardinality(PageRows(new)) <= Cardinality(PageRows(rs)) + 1
<1> DEFINE last == Len(rs) + 1
           new == Append(rs, row)
<1>1. /\ rs \in Seq(Row) /\ Len(rs) \in Nat /\ DOMAIN rs = 1 .. Len(rs)
      /\ \A i \in 1 .. Len(rs) : rs[i] \in Row
  BY RowsList DEF RowsOK
<1>2. /\ new \in Seq(Row) /\ Len(new) = last /\ new[last] = row
      /\ \A i \in 1 .. Len(rs) : new[i] = rs[i]
  BY <1>1, AppendProperties
<1>3. DOMAIN new = 1 .. last /\ \A i \in 1 .. last : i \in 1 .. Len(rs) \/ i = last
  BY <1>1, <1>2, LenProperties
<1>4. last \in 1 .. last /\ last \notin 1 .. Len(rs) /\ \A i \in 1 .. Len(rs) : i \in 1 .. last
  BY <1>1
<1> HIDE DEF last, new
<1>5. TextOf(new) = TextOf(rs)
  <2>1. Len(rs) <= Len(new) /\ \A i \in Len(rs) + 1 .. Len(new) : new[i].chars = 0
    BY <1>1, <1>2 DEF last
  <2>2. rs \in Seq(Row) /\ new \in Seq(Row) /\ \A i \in 1 .. Len(rs) : new[i] = rs[i]
    BY <1>1, <1>2
  <2> QED
    BY <2>1, <2>2, TextOfMore
<1>6. PageRows(new) \in SUBSET (PageRows(rs) \cup {last})
  BY <1>1, <1>2, <1>3 DEF PageRows
<1>7. Cardinality(PageRows(new)) <= Cardinality(PageRows(rs)) + 1 /\ Cardinality(PageRows(rs)) \in Nat
  <2>1. IsFiniteSet(PageRows(rs)) /\ Cardinality(PageRows(rs)) \in Nat
    BY <1>1, RowsFinite DEF PageRows
  <2>2. /\ IsFiniteSet(PageRows(rs) \cup {last})
        /\ Cardinality(PageRows(rs) \cup {last}) <= Cardinality(PageRows(rs)) + 1
    <3> DEFINE old == PageRows(rs)
    <3>1. IsFiniteSet(old) /\ Cardinality(old) \in Nat
      BY <2>1
    <3> HIDE DEF old
    <3>2. IsFiniteSet(old \cup {last})
      BY <3>1, FS_AddElement
    <3>3. Cardinality(old \cup {last}) = IF last \in old THEN Cardinality(old) ELSE Cardinality(old) + 1
      BY <3>1, FS_AddElement
    <3> QED
      BY <3>1, <3>2, <3>3 DEF old
  <2>3. Cardinality(PageRows(new)) <= Cardinality(PageRows(rs) \cup {last})
    BY <1>6, <2>2, FS_Subset
  <2>4. Cardinality(PageRows(new)) \in Nat /\ Cardinality(PageRows(rs) \cup {last}) \in Nat
    BY <1>6, <2>2, FS_Subset, FS_CardinalityType
  <2> QED
    BY <2>1, <2>2, <2>3, <2>4
<1>8. Cardinality(PageRows(new)) <= MaxPages
  <2>1. Cardinality(PageRows(new)) \in Nat
    BY <1>2, RowsFinite DEF PageRows
  <2> QED
    BY <1>7, <2>1, LimitsAssumption
<1>9. FileRows(new) = FileRows(rs)
  BY <1>1, <1>2, <1>3, <1>4, LinksAssumption DEF FileRows
<1>10. Recorded(new) = Recorded(rs) \cup {row.source}
  <2>1. \A x : x \in Recorded(new) => x \in Recorded(rs) \cup {row.source}
    BY <1>1, <1>2, <1>3 DEF Recorded
  <2>2. \A x : x \in Recorded(rs) => x \in Recorded(new)
    BY <1>1, <1>2, <1>3, <1>4 DEF Recorded
  <2>3. row.source \in Recorded(new)
    BY <1>2, <1>3, <1>4 DEF Recorded
  <2> QED
    BY <2>1, <2>2, <2>3
<1>11. \A i, j \in DOMAIN new : new[i].source = new[j].source => i = j
  <2>1. \A i, j \in 1 .. Len(rs) : rs[i].source = rs[j].source => i = j
    BY <1>1 DEF RowsOK
  <2>2. \A i \in 1 .. Len(rs) : rs[i].source # row.source
    BY <1>1 DEF Recorded
  <2> QED
    BY <1>2, <1>3, <2>1, <2>2
<1>12. \A i \in DOMAIN new : RowOK(new[i])
  BY <1>1, <1>2, <1>3 DEF RowsOK
<1>13. RowsOK(new)
  <2>1. TextOf(new) <= MaxSessionText /\ Cardinality(FileRows(new)) <= MaxPerSession
    BY <1>5, <1>9 DEF RowsOK
  <2> QED
    BY <1>2, <1>8, <1>11, <1>12, <2>1 DEF RowsOK
<1> QED
  BY <1>2, <1>7, <1>10, <1>13 DEF last, new

(* What is left of a list without repetitions.                              *)
LEMMA TailKeeps ==
  ASSUME NEW U, NEW list \in Seq(U), list # <<>>, Distinct(list)
  PROVE  /\ Head(list) \in U /\ Head(list) = list[1] /\ Tail(list) \in Seq(U) /\ Distinct(Tail(list))
         /\ ToSet(list) = {Head(list)} \cup ToSet(Tail(list)) /\ Head(list) \notin ToSet(Tail(list))
<1> DEFINE tail == Tail(list)
           head == list[1]
<1>1. Len(list) \in Nat /\ Len(list) > 0 /\ DOMAIN list = 1 .. Len(list)
  BY EmptySeq, LenProperties
<1>2. /\ Head(list) \in U /\ tail \in Seq(U) /\ Len(tail) = Len(list) - 1
      /\ \A i \in 1 .. Len(tail) : tail[i] = list[i + 1]
  BY HeadTailProperties
<1>3. Head(list) = head /\ 1 \in 1 .. Len(list)
  BY <1>1
<1> HIDE DEF tail, head
<1>4. Len(tail) \in Nat /\ DOMAIN tail = 1 .. Len(tail)
  BY <1>2, LenProperties
<1>5. \A i \in 1 .. Len(tail) : i + 1 \in 1 .. Len(list) /\ i + 1 # 1
  BY <1>1, <1>2, <1>4
<1>6. Distinct(tail)
  <2> SUFFICES ASSUME NEW i \in 1 .. Len(tail), NEW j \in 1 .. Len(tail), tail[i] = tail[j] PROVE i = j
    BY DEF Distinct
  <2>1. i + 1 = j + 1
    BY <1>2, <1>5 DEF Distinct
  <2> QED
    BY <1>4, <2>1
<1>7. head \notin ToSet(tail)
  <2> SUFFICES ASSUME NEW i \in 1 .. Len(tail), tail[i] = head PROVE FALSE
    BY <1>4 DEF ToSet
  <2>1. i + 1 = 1
    BY <1>2, <1>3, <1>5 DEF Distinct, head
  <2> QED
    BY <1>5, <2>1
<1>8. \A x : x \in ToSet(list) => x \in {head} \cup ToSet(tail)
  <2> SUFFICES ASSUME NEW i \in 1 .. Len(list) PROVE list[i] \in {head} \cup ToSet(tail)
    BY <1>1 DEF ToSet
  <2>1. CASE i = 1
    BY <2>1 DEF head
  <2>2. CASE i # 1
    <3>1. i - 1 \in 1 .. Len(tail) /\ (i - 1) + 1 = i
      BY <1>1, <1>2, <2>2
    <3>2. tail[i - 1] = list[i]
      BY <1>2, <3>1
    <3> QED
      BY <1>4, <3>1, <3>2 DEF ToSet
  <2> QED
    BY <2>1, <2>2
<1>9. \A x : x \in {head} \cup ToSet(tail) => x \in ToSet(list)
  <2>1. head \in ToSet(list)
    BY <1>1, <1>3 DEF ToSet, head
  <2>2. \A i \in 1 .. Len(tail) : tail[i] \in ToSet(list)
    BY <1>1, <1>2, <1>5 DEF ToSet
  <2> QED
    BY <1>4, <2>1, <2>2 DEF ToSet
<1> QED
  BY <1>2, <1>3, <1>6, <1>7, <1>8, <1>9 DEF tail, head

LEMMA FetchedKeeps ==
  ASSUME SourcesInv, NEW ok \in BOOLEAN, Fetched(ok)
  PROVE  SourcesInv' /\ CondKept
<1> DEFINE page == Head(prep.links)
           left == Tail(prep.links)
           row == IF ok THEN Pending(page) ELSE Failed(page, "fetch")
           new == Append(rows, row)
<1>1. /\ prep.at = "fetch" /\ IngestRest(prep, new, utterances, left, prep.fetched)
      /\ staged' = staged /\ utterances' = utterances
      /\ documented' = documented /\ unanswered' = unanswered
  BY DEF Fetched
<1>2. /\ utterances \in Seq(Utterance) /\ RowsOK(rows) /\ rows \in Seq(Row)
      /\ PrepOK(prep, rows, utterances)
  BY DEF SourcesInv, RowsOK
<1>3. /\ prep \in Prep /\ prep.heard <= Len(utterances) /\ FetchOK(prep, rows, utterances)
      /\ prep.links \in Seq(Links) /\ prep.fetched \in 0 .. MaxPages /\ prep.heard \in Nat
  BY <1>1, <1>2 DEF PrepOK, Prep
<1>4. /\ page \in Links /\ left \in Seq(Links) /\ Distinct(left)
      /\ ToSet(prep.links) = {page} \cup ToSet(left) /\ page \notin ToSet(left)
  BY <1>3, TailKeeps DEF FetchOK
<1> HIDE DEF page, left
<1>5. row \in Row /\ RowOK(row) /\ row.chars = 0 /\ row.source = page
  <2>1. CASE ok
    <3>1. row = [source |-> page, status |-> "pending", cause |-> "none", chars |-> 0, cond |-> 0]
      BY <2>1 DEF Pending
    <3> QED
      BY <1>4, <3>1 DEF Row, RowOK
  <2>2. CASE ~ok
    <3>1. row = [source |-> page, status |-> "failed", cause |-> "fetch", chars |-> 0, cond |-> 0]
      BY <2>2 DEF Failed
    <3> QED
      BY <1>4, <3>1 DEF Row, RowOK
  <2> QED
    BY <2>1, <2>2
<1> HIDE DEF row, new
<1>6. Cardinality(PageRows(rows)) < prep.fetched /\ Cardinality(PageRows(rows)) \in Nat
  BY <1>2, <1>3, RowsFinite DEF FetchOK, PageRows
<1>7. /\ RowsOK(new) /\ Len(new) = Len(rows) + 1 /\ new[Len(rows) + 1] = row
      /\ \A i \in 1 .. Len(rows) : new[i] = rows[i]
      /\ Recorded(new) = Recorded(rows) \cup {page}
      /\ Cardinality(PageRows(new)) <= Cardinality(PageRows(rows)) + 1
  <2>1. row.source \in Links /\ row.source \notin Recorded(rows)
    BY <1>3, <1>4, <1>5 DEF FetchOK
  <2>2. Cardinality(PageRows(rows)) < MaxPages
    BY <1>3, <1>6, LimitsAssumption
  <2> QED
    <3>1. new = Append(rows, row)
      BY DEF new
    <3>2. row \in Row /\ RowOK(row) /\ row.chars = 0 /\ row.source = page
      BY <1>5
    <3>3. RowsOK(rows)
      BY <1>2
    <3> QED
      BY <2>1, <2>2, <3>1, <3>2, <3>3, FetchedRows
<1>8. Cardinality(PageRows(new)) <= prep.fetched
  <2>1. Cardinality(PageRows(new)) \in Nat
    BY <1>7, RowsFinite DEF PageRows, RowsOK
  <2> QED
    BY <1>3, <1>6, <1>7, <2>1, LimitsAssumption
<1>9. ToSet(left) \cap Recorded(new) = {}
  BY <1>3, <1>4, <1>7 DEF FetchOK
<1>10. HeardOK(new, utterances, prep.heard, left)
  <2>1. HeardOK(rows, utterances, prep.heard, prep.links)
    BY <1>3 DEF FetchOK
  <2>2. Recorded(rows) \cup ToSet(prep.links) \subseteq Recorded(new) \cup ToSet(left)
    BY <1>4, <1>7
  <2> QED
    BY <1>2, <1>3, <2>1, <2>2, HeardKeeps
<1>11. /\ RowsOK(rows') /\ PrepOK(prep', rows', utterances) /\ Len(rows') >= Len(new)
       /\ \A i \in 1 .. Len(new) : rows'[i] = new[i]
       /\ \A i \in Len(new) + 1 .. Len(rows') : rows'[i].source \in Links
  <2>1. prep.heard \in 0 .. Len(utterances) /\ prep.fetched \in Nat
    BY <1>2, <1>3, WordsList, LimitsAssumption
  <2> QED
    BY <1>1, <1>2, <1>4, <1>7, <1>8, <1>9, <1>10, <2>1, IngestRestKeeps
<1>12. Len(rows) \in Nat /\ Len(rows') \in Nat /\ rows' \in Seq(Row)
  BY <1>2, <1>11, RowsList DEF RowsOK
<1>13. Len(rows') >= Len(rows) /\ \A i \in 1 .. Len(rows) : rows'[i] = rows[i]
  BY <1>7, <1>11, <1>12
<1>14. \A i \in Len(rows) + 1 .. Len(rows') : rows'[i].source \in Links
  <2> TAKE i \in Len(rows) + 1 .. Len(rows')
  <2>1. CASE i = Len(rows) + 1
    BY <1>4, <1>5, <1>7, <1>11, <1>12, <2>1
  <2>2. CASE i # Len(rows) + 1
    BY <1>7, <1>11, <1>12, <2>2
  <2> QED
    BY <2>1, <2>2
<1>15. StagedOK' /\ \A i \in DOMAIN rows : rows'[i].cond = rows[i].cond
  BY <1>1, <1>12, <1>13, <1>14, LinkRowsKeep
<1> QED
  BY <1>1, <1>2, <1>11, <1>15 DEF SourcesInv, CondKept

(* A row is written again: it keeps its source and its place.               *)
LEMMA ChangedRow ==
  ASSUME NEW rs, RowsOK(rs), NEW i \in 1 .. Len(rs), NEW row \in Row, RowOK(row),
         row.source = rs[i].source, row.cause = "limit" <=> rs[i].cause = "limit",
         TextOf(rs) + (row.chars - rs[i].chars) <= MaxSessionText
  PROVE  LET new == [rs EXCEPT ![i] = row]
         IN  /\ RowsOK(new) /\ Len(new) = Len(rs)
             /\ \A j \in 1 .. Len(rs) : new[j] = IF j = i THEN row ELSE rs[j]
             /\ \A j \in 1 .. Len(rs) : new[j].source = rs[j].source
             /\ TextOf(new) = TextOf(rs) + (row.chars - rs[i].chars)
             /\ Recorded(new) = Recorded(rs)
<1> DEFINE new == [rs EXCEPT ![i] = row]
<1>1. rs \in Seq(Row) /\ DOMAIN rs = 1 .. Len(rs)
  BY RowsList DEF RowsOK
<1>2. /\ new \in Seq(Row) /\ Len(new) = Len(rs)
      /\ \A j \in 1 .. Len(rs) : new[j] = IF j = i THEN row ELSE rs[j]
  BY <1>1, ExceptSeq
<1>3. TextOf(new) = TextOf(rs) + (row.chars - rs[i].chars)
  BY <1>1, TextOfChange
<1> HIDE DEF new
<1>4. DOMAIN new = 1 .. Len(rs)
  BY <1>2, RowsList
<1>5. \A j \in 1 .. Len(rs) :
        new[j].source = rs[j].source /\ (new[j].cause = "limit" <=> rs[j].cause = "limit")
  BY <1>2
<1>6. PageRows(new) = PageRows(rs) /\ FileRows(new) = FileRows(rs) /\ Recorded(new) = Recorded(rs)
  <2>1. \A j : j \in PageRows(new) <=> j \in PageRows(rs)
    BY <1>1, <1>4, <1>5 DEF PageRows
  <2>2. \A j : j \in FileRows(new) <=> j \in FileRows(rs)
    BY <1>1, <1>4, <1>5 DEF FileRows
  <2>3. \A x : x \in Recorded(new) <=> x \in Recorded(rs)
    BY <1>1, <1>4, <1>5 DEF Recorded
  <2>4. PageRows(new) = PageRows(rs)
    BY <2>1 DEF PageRows
  <2>5. FileRows(new) = FileRows(rs)
    BY <2>2 DEF FileRows
  <2>6. Recorded(new) = Recorded(rs)
    BY <2>3
  <2> QED
    BY <2>4, <2>5, <2>6
<1>7. \A j \in DOMAIN new : RowOK(new[j])
  BY <1>1, <1>2, <1>4 DEF RowsOK
<1>8. \A j, k \in DOMAIN new : new[j].source = new[k].source => j = k
  BY <1>1, <1>4, <1>5 DEF RowsOK
<1>9. TextOf(new) <= MaxSessionText
  BY <1>3
<1>10. Cardinality(PageRows(new)) <= MaxPages /\ Cardinality(FileRows(new)) <= MaxPerSession
  BY <1>6 DEF RowsOK
<1>11. RowsOK(new)
  BY <1>2, <1>7, <1>8, <1>9, <1>10 DEF RowsOK
<1> QED
  BY <1>2, <1>3, <1>5, <1>6, <1>11 DEF new

(* The text of a file or a page, or the failure to read it.                 *)
LEMMA ExtractedKeeps ==
  ASSUME SourcesInv, NEW chars \in Lengths \cup {0}, Extracted(chars)
  PROVE  SourcesInv' /\ CondKept
<1> DEFINE i == Head(prep.pending)
           left == Tail(prep.pending)
           old == rows[i]
           row == IF chars = 0 THEN Failed(old.source, "extraction")
                  ELSE IF prep.used + chars <= MaxSessionText
                       THEN [old EXCEPT !.status = "ok", !.chars = chars]
                       ELSE Failed(old.source, "total")
           new == [rows EXCEPT ![i] = row]
<1>1. /\ prep.at = "extract" /\ rows' = new
      /\ prep' = Extracting(prep, rows', utterances, left, prep.used + row.chars)
      /\ staged' = staged /\ utterances' = utterances
      /\ documented' = documented /\ unanswered' = unanswered
  BY DEF Extracted
<1>2. /\ utterances \in Seq(Utterance) /\ RowsOK(rows) /\ rows \in Seq(Row)
      /\ PrepOK(prep, rows, utterances) /\ StagedOK
  BY DEF SourcesInv, RowsOK
<1>3. /\ prep \in Prep /\ prep.heard <= Len(utterances) /\ ExtractOK(prep, rows, utterances)
      /\ prep.pending \in Seq(Nat) /\ prep.heard \in Nat
  BY <1>1, <1>2 DEF PrepOK, Prep
<1>4. /\ left \in Seq(Nat) /\ Distinct(left)
      /\ Waiting(rows) = {i} \cup ToSet(left) /\ i \notin ToSet(left)
  BY <1>3, TailKeeps DEF ExtractOK
<1>5. DOMAIN rows = 1 .. Len(rows) /\ \A j \in 1 .. Len(rows) : rows[j] \in Row /\ RowOK(rows[j])
  BY <1>2, RowsList DEF RowsOK
<1>6. /\ i \in 1 .. Len(rows) /\ old \in Row /\ old.status = "pending"
      /\ old.chars = 0 /\ old.cond = 0 /\ old.cause # "limit"
  BY <1>4, <1>5 DEF Waiting, RowOK
<1>7. prep.used = TextOf(rows) /\ TextOf(rows) \in Nat /\ TextOf(rows) <= MaxSessionText
  BY <1>2, <1>3, CharsList DEF ExtractOK, RowsOK
<1>8. chars \in Nat
  BY LengthsAssumption
<1> HIDE DEF i, left, old
<1>9. /\ row \in Row /\ RowOK(row) /\ row.source = old.source /\ row.status # "pending"
      /\ row.cond = 0 /\ row.cause # "limit" /\ row.chars \in Nat
      /\ TextOf(rows) + row.chars <= MaxSessionText
  <2>1. \A cause \in {"extraction", "total"} :
          LET r == Failed(old.source, cause)
          IN  /\ r \in Row /\ RowOK(r) /\ r.source = old.source /\ r.status # "pending"
              /\ r.cond = 0 /\ r.cause # "limit" /\ r.chars = 0
    <3> SUFFICES ASSUME NEW cause \in {"extraction", "total"}, NEW r, r = Failed(old.source, cause)
                 PROVE  /\ r \in Row /\ RowOK(r) /\ r.source = old.source /\ r.status # "pending"
                        /\ r.cond = 0 /\ r.cause # "limit" /\ r.chars = 0
      OBVIOUS
    <3>1. r = [source |-> old.source, status |-> "failed", cause |-> cause, chars |-> 0, cond |-> 0]
      BY DEF Failed
    <3> QED
      BY <1>6, <3>1 DEF Row, RowOK
  <2>2. LET r == [old EXCEPT !.status = "ok", !.chars = chars]
        IN  /\ r \in Row /\ RowOK(r) /\ r.source = old.source /\ r.status # "pending"
            /\ r.cond = 0 /\ r.cause # "limit" /\ r.chars = chars
    BY <1>6, <1>8 DEF Row, RowOK
  <2>3. CASE chars = 0
    BY <1>7, <2>1, <2>3
  <2>4. CASE chars # 0 /\ prep.used + chars <= MaxSessionText
    BY <1>7, <1>8, <2>2, <2>4
  <2>5. CASE chars # 0 /\ ~(prep.used + chars <= MaxSessionText)
    BY <1>7, <2>1, <2>5
  <2> QED
    BY <2>3, <2>4, <2>5
<1> HIDE DEF row, new
<1>10. /\ RowsOK(new) /\ Len(new) = Len(rows)
       /\ \A j \in 1 .. Len(rows) : new[j] = IF j = i THEN row ELSE rows[j]
       /\ \A j \in 1 .. Len(rows) : new[j].source = rows[j].source
       /\ TextOf(new) = TextOf(rows) + row.chars
       /\ Recorded(new) = Recorded(rows)
  <2>1. row.chars - rows[i].chars = row.chars /\ row.source = rows[i].source
        /\ (row.cause = "limit" <=> rows[i].cause = "limit")
    BY <1>6, <1>9 DEF old
  <2> QED
    BY <1>2, <1>6, <1>9, <2>1, ChangedRow DEF new
<1>11. DOMAIN new = 1 .. Len(rows)
  BY <1>10, RowsList DEF RowsOK
<1>12. ToSet(left) = Waiting(new)
  <2>1. \A j : j \in Waiting(new) <=> j \in Waiting(rows) /\ j # i
    BY <1>5, <1>9, <1>10, <1>11 DEF Waiting
  <2> QED
    BY <1>4, <2>1
<1>13. HeardOK(new, utterances, prep.heard, <<>>)
  BY <1>2, <1>3, <1>10, HeardKeeps DEF ExtractOK
<1>14. PrepOK(Extracting(prep, new, utterances, left, prep.used + row.chars), new, utterances)
  <2>1. prep.heard \in 0 .. Len(utterances)
    BY <1>2, <1>3, WordsList
  <2>2. prep.used + row.chars = TextOf(new)
    BY <1>7, <1>10
  <2> HIDE DEF row
  <2> QED
    BY <1>2, <1>4, <1>10, <1>12, <1>13, <2>1, <2>2, ExtractingKeeps
<1>15. StagedOK'
  BY <1>1, <1>2, <1>5, <1>10, <1>11 DEF StagedOK
<1>16. CondKept
  BY <1>1, <1>5, <1>6, <1>9, <1>10 DEF CondKept, old
<1> QED
  BY <1>1, <1>2, <1>10, <1>14, <1>15, <1>16 DEF SourcesInv

(* No source weighs more than all of them.                                  *)
LEMMA WeightInTotal ==
  ASSUME NEW rs \in Seq(Row), NEW us \in Seq(Utterance), NEW k \in 1 .. Len(rs) + Len(us)
  PROVE  Weights(rs, us)[k] \in Nat /\ Weights(rs, us)[k] <= Total(rs, us)
<1> DEFINE a == Weights(rs, us)
           b == [a EXCEPT ![k] = 0]
<1>1. /\ a \in Seq(Nat) /\ a \in Seq(Int) /\ Len(a) = Len(rs) + Len(us)
      /\ Total(rs, us) = AddedUp(a) /\ Total(rs, us) \in Nat
  BY WeightsList
<1> HIDE DEF a
<1>2. k \in 1 .. Len(a) /\ a[k] \in Nat
  BY <1>1, ElementOfSeq
<1>3. /\ b \in Seq(Nat) /\ Len(b) = Len(a)
      /\ \A j \in 1 .. Len(a) : b[j] = IF j = k THEN 0 ELSE a[j]
  BY <1>1, <1>2, ExceptSeq
<1> HIDE DEF b
<1>4. b \in Seq(Int)
  BY <1>3, SeqMonotonic
<1>5. \A j \in 1 .. Len(a) : j # k => b[j] = a[j]
  BY <1>3
<1>6. AddedUp(b) = AddedUp(a) + (b[k] - a[k])
  BY <1>1, <1>2, <1>3, <1>4, <1>5, AddedUpChange
<1>7. AddedUp(b) \in Nat /\ b[k] = 0
  BY <1>2, <1>3, <1>4, AddedUpType
<1> QED
  BY <1>1, <1>2, <1>6, <1>7 DEF a

(* There is a next candidate while there are candidates.                    *)
LEMMA LongestIn ==
  ASSUME NEW rs \in Seq(Row), NEW us \in Seq(Utterance), NEW S, S # {},
         \A k \in S : k \in Readable(rs, us) /\ SourceOf(rs, us, k).cond = 0
  PROVE  Longest(rs, us, S) \in S
<1> DEFINE all == Total(rs, us)
           chars(k) == SourceOf(rs, us, k).chars
           First(k) == \A j \in S : chars(j) < chars(k) \/ (chars(j) = chars(k) /\ k <= j)
           Rest == {all - chars(k) : k \in S}
<1>1. all \in Nat
  BY WeightsList
<1>2. \A k \in S : k \in Nat /\ chars(k) \in Nat /\ all - chars(k) \in Nat
  <2> TAKE k \in S
  <2>1. k \in Readable(rs, us) /\ SourceOf(rs, us, k).cond = 0 /\ k \in 1 .. Len(rs) + Len(us)
    BY DEF Readable
  <2>2. chars(k) \in Nat
    BY <2>1, SourceType
  <2>3. Weights(rs, us)[k] = chars(k)
    BY <2>1 DEF Weights, Carried
  <2>4. chars(k) <= all
    BY <2>1, <2>3, WeightInTotal
  <2>5. k \in Nat
    BY <2>1, RowsList, WordsList
  <2> HIDE DEF chars, all
  <2> QED
    BY <1>1, <2>2, <2>4, <2>5
<1>3. Longest(rs, us, S) = CHOOSE k \in S : First(k)
  BY DEF Longest
<1> HIDE DEF all, chars
<1>4. Rest \in SUBSET Nat /\ Rest # {}
  BY <1>2
<1>5. PICK r \in Rest : \A n \in Rest : r <= n
  BY <1>4, LeastExists
<1> DEFINE Best == {k \in S : all - chars(k) = r}
<1>6. Best \in SUBSET Nat /\ Best # {}
  BY <1>2, <1>5
<1>7. PICK k \in Best : \A n \in Best : k <= n
  BY <1>6, LeastExists
<1>8. k \in S /\ all - chars(k) = r
  BY <1>7
<1>9. First(k)
  <2> SUFFICES ASSUME NEW j \in S PROVE chars(j) < chars(k) \/ (chars(j) = chars(k) /\ k <= j)
    OBVIOUS
  <2>1. all - chars(k) <= all - chars(j)
    BY <1>5, <1>8
  <2>2. chars(j) \in Nat /\ chars(k) \in Nat
    BY <1>2, <1>8
  <2>3. CASE chars(j) = chars(k)
    <3>1. j \in Best
      BY <1>8, <2>3
    <3> QED
      BY <1>7, <2>3, <3>1
  <2>4. CASE chars(j) # chars(k)
    BY <1>1, <2>1, <2>2, <2>4
  <2> QED
    BY <2>3, <2>4
<1> HIDE DEF First
<1> QED
  BY <1>3, <1>8, <1>9

(* What a stored condensed text leaves as it is, and what it replaces.      *)
Replaced(rs, us, new, words, k, chars) ==
  /\ RowsOK(new) /\ words \in Seq(Utterance) /\ Len(new) = Len(rs) /\ Len(words) = Len(us)
  /\ Recorded(new) = Recorded(rs) /\ Waiting(new) = Waiting(rs)
  /\ Readable(new, words) = Readable(rs, us)
  /\ \A i \in 1 .. Len(rs) : new[i].source = rs[i].source
  /\ \A i \in 1 .. Len(us) : words[i].links = us[i].links
  /\ \A j \in 1 .. Len(rs) + Len(us) : j # k => SourceOf(new, words, j) = SourceOf(rs, us, j)
  /\ SourceOf(new, words, k).chars = SourceOf(rs, us, k).chars
  /\ SourceOf(new, words, k).cond = chars

LEMMA ReplacedRow ==
  ASSUME NEW rs, RowsOK(rs), NEW us \in Seq(Utterance), NEW k \in Readable(rs, us),
         k <= Len(rs), NEW chars \in Nat
  PROVE  Replaced(rs, us, [rs EXCEPT ![k].cond = chars], us, k, chars)
<1> DEFINE row == [rs[k] EXCEPT !.cond = chars]
           new == [rs EXCEPT ![k] = row]
<1>1. /\ rs \in Seq(Row) /\ DOMAIN rs = 1 .. Len(rs) /\ Len(rs) \in Nat /\ Len(us) \in Nat
      /\ \A i \in 1 .. Len(rs) : rs[i] \in Row /\ RowOK(rs[i])
  BY RowsList, WordsList DEF RowsOK
<1>2. k \in 1 .. Len(rs) /\ rs[k].status = "ok" /\ rs[k] \in Row /\ rs[k].cause # "limit"
  BY <1>1 DEF Readable, RowOK
<1>3. /\ row \in Row /\ RowOK(row) /\ row.source = rs[k].source /\ row.status = "ok"
      /\ row.cause # "limit" /\ row.chars = rs[k].chars /\ row.cond = chars
  BY <1>2 DEF Row, RowOK
<1>4. [rs EXCEPT ![k].cond = chars] = new
  OBVIOUS
<1> HIDE DEF row, new
<1>5. /\ RowsOK(new) /\ Len(new) = Len(rs)
      /\ \A j \in 1 .. Len(rs) : new[j] = IF j = k THEN row ELSE rs[j]
      /\ \A j \in 1 .. Len(rs) : new[j].source = rs[j].source
      /\ Recorded(new) = Recorded(rs)
  <2>1. rs[k].chars \in Nat /\ TextOf(rs) \in Nat
    BY <1>1, <1>2, CharsList DEF Row
  <2>2. TextOf(rs) + (row.chars - rs[k].chars) <= MaxSessionText
    BY <1>3, <2>1 DEF RowsOK
  <2> QED
    BY <1>2, <1>3, <2>2, ChangedRow DEF new
<1>6. DOMAIN new = 1 .. Len(rs)
  BY <1>5, RowsList DEF RowsOK
<1>7. \A j \in 1 .. Len(rs) : new[j].status = rs[j].status
  BY <1>2, <1>3, <1>5
<1>8. Waiting(new) = Waiting(rs) /\ Readable(new, us) = Readable(rs, us)
  <2>1. \A j : j \in Waiting(new) <=> j \in Waiting(rs)
    BY <1>1, <1>6, <1>7 DEF Waiting
  <2>2. \A j : j \in Readable(new, us) <=> j \in Readable(rs, us)
    BY <1>1, <1>5, <1>7 DEF Readable
  <2> QED
    BY <2>1, <2>2
<1>9. \A j \in 1 .. Len(rs) + Len(us) : j # k => SourceOf(new, us, j) = SourceOf(rs, us, j)
  BY <1>1, <1>5 DEF SourceOf
<1>10. SourceOf(new, us, k) = row /\ SourceOf(rs, us, k) = rs[k]
  BY <1>2, <1>5 DEF SourceOf
<1> QED
  BY <1>3, <1>4, <1>5, <1>8, <1>9, <1>10 DEF Replaced

LEMMA ReplacedWords ==
  ASSUME NEW rs, RowsOK(rs), NEW us \in Seq(Utterance), NEW k \in Readable(rs, us),
         ~(k <= Len(rs)), NEW chars \in Nat
  PROVE  Replaced(rs, us, rs, [us EXCEPT ![k - Len(rs)].cond = chars], k, chars)
<1> DEFINE n == k - Len(rs)
           said == [us[n] EXCEPT !.cond = chars]
           words == [us EXCEPT ![n] = said]
<1>1. /\ rs \in Seq(Row) /\ Len(rs) \in Nat /\ Len(us) \in Nat
      /\ \A i \in 1 .. Len(us) : us[i] \in Utterance
  BY RowsList, WordsList DEF RowsOK
<1>2. k \in 1 .. Len(rs) + Len(us)
  BY DEF Readable
<1>3. n \in 1 .. Len(us) /\ us[n] \in Utterance
  BY <1>1, <1>2
<1>4. said \in Utterance /\ said.chars = us[n].chars /\ said.links = us[n].links /\ said.cond = chars
  BY <1>3 DEF Utterance
<1>5. [us EXCEPT ![k - Len(rs)].cond = chars] = words
  OBVIOUS
<1>6. SourceOf(rs, us, k) = us[n] /\ SourceOf(rs, words, k) = words[n]
  BY DEF SourceOf
<1> HIDE DEF said
<1>7. /\ words \in Seq(Utterance) /\ Len(words) = Len(us)
      /\ \A i \in 1 .. Len(us) : words[i] = IF i = n THEN said ELSE us[i]
  BY <1>3, <1>4, ExceptSeq
<1> HIDE DEF words
<1>8. \A i \in 1 .. Len(us) : words[i].links = us[i].links
  BY <1>4, <1>7
<1>9. Readable(rs, words) = Readable(rs, us)
  BY <1>7 DEF Readable
<1>10. \A j \in 1 .. Len(rs) + Len(us) : j # k => SourceOf(rs, words, j) = SourceOf(rs, us, j)
  <2> SUFFICES ASSUME NEW j \in 1 .. Len(rs) + Len(us), j # k
               PROVE  SourceOf(rs, words, j) = SourceOf(rs, us, j)
    OBVIOUS
  <2>1. CASE j <= Len(rs)
    BY <2>1 DEF SourceOf
  <2>2. CASE ~(j <= Len(rs))
    <3>1. j - Len(rs) \in 1 .. Len(us) /\ j - Len(rs) # n
      BY <1>1, <1>2, <2>2
    <3>2. words[j - Len(rs)] = us[j - Len(rs)]
      BY <1>7, <3>1
    <3> QED
      BY <2>2, <3>2 DEF SourceOf
  <2> QED
    BY <2>1, <2>2
<1>11. words[n] = said
  BY <1>3, <1>7
<1> HIDE DEF n
<1> QED
  BY <1>4, <1>5, <1>6, <1>7, <1>8, <1>9, <1>10, <1>11 DEF Replaced

(* A condensation runs over its budget.                                     *)
LEMMA CondensingFacts ==
  ASSUME SourcesInv, prep.at \in {"condense", "recondense"}
  PROVE  /\ utterances \in Seq(Utterance) /\ RowsOK(rows) /\ rows \in Seq(Row) /\ StagedOK
         /\ prep \in Prep /\ prep.sources \in SUBSET Nat /\ prep.projected \in Int
         /\ prep.heard \in 0 .. Len(utterances) /\ ReadOK(prep, rows, utterances)
         /\ \A k \in prep.sources :
              k \in Readable(rows, utterances) /\ SourceOf(rows, utterances, k).cond = 0
         /\ prep.projected <= Total(rows, utterances) /\ Total(rows, utterances) > Budget
         /\ Longest(rows, utterances, prep.sources) \in prep.sources
<1>1. /\ utterances \in Seq(Utterance) /\ RowsOK(rows) /\ rows \in Seq(Row) /\ StagedOK
      /\ PrepOK(prep, rows, utterances)
  BY DEF SourcesInv, RowsOK
<1>2. /\ prep \in Prep /\ prep.heard <= Len(utterances)
      /\ ReadOK(prep, rows, utterances) /\ CondenseOK(prep, rows, utterances)
  BY <1>1 DEF PrepOK
<1>3. prep.sources \in SUBSET Nat /\ prep.projected \in Int /\ prep.heard \in Nat
  BY <1>2 DEF Prep
<1>4. prep.heard \in 0 .. Len(utterances)
  BY <1>1, <1>2, <1>3, WordsList
<1>5. /\ prep.sources # {} /\ prep.projected > Budget /\ prep.projected <= Total(rows, utterances)
      /\ \A k \in prep.sources :
           k \in Readable(rows, utterances) /\ SourceOf(rows, utterances, k).cond = 0
  BY <1>2 DEF CondenseOK
<1>6. Total(rows, utterances) > Budget
  <2>1. Total(rows, utterances) \in Nat
    BY <1>1, WeightsList
  <2> QED
    BY <1>3, <1>5, <2>1, LimitsAssumption
<1>7. Longest(rows, utterances, prep.sources) \in prep.sources
  BY <1>1, <1>5, LongestIn
<1> QED
  BY <1>1, <1>2, <1>3, <1>4, <1>5, <1>6, <1>7

LEMMA StoreKeeps ==
  ASSUME SourcesInv, prep.at \in {"condense", "recondense"}, NEW chars \in Nat,
         StoreCondensed(chars), UNCHANGED <<staged, documented, unanswered>>
  PROVE  SourcesInv' /\ Total(rows, utterances) > Budget
<1> DEFINE k == Longest(rows, utterances, prep.sources)
           full == SourceOf(rows, utterances, k).chars
           left == prep.sources \ {k}
           projected == prep.projected - (full - chars)
<1>1. /\ utterances \in Seq(Utterance) /\ RowsOK(rows) /\ rows \in Seq(Row) /\ StagedOK
      /\ prep.sources \in SUBSET Nat /\ prep.projected \in Int
      /\ prep.heard \in 0 .. Len(utterances) /\ ReadOK(prep, rows, utterances)
      /\ \A j \in prep.sources :
           j \in Readable(rows, utterances) /\ SourceOf(rows, utterances, j).cond = 0
      /\ prep.projected <= Total(rows, utterances) /\ Total(rows, utterances) > Budget
      /\ k \in prep.sources
  BY CondensingFacts
<1>2. /\ IF k <= Len(rows)
         THEN rows' = [rows EXCEPT ![k].cond = chars] /\ utterances' = utterances
         ELSE utterances' = [utterances EXCEPT ![k - Len(rows)].cond = chars] /\ rows' = rows
      /\ prep' = Condensing(prep, left, projected)
  BY DEF StoreCondensed
<1>3. k \in Readable(rows, utterances) /\ SourceOf(rows, utterances, k).cond = 0
  BY <1>1
<1> HIDE DEF k
<1>4. Replaced(rows, utterances, rows', utterances', k, chars)
  <2>1. CASE k <= Len(rows)
    <3>1. Replaced(rows, utterances, [rows EXCEPT ![k].cond = chars], utterances, k, chars)
      BY <1>1, <1>3, <2>1, ReplacedRow
    <3> QED
      BY <1>2, <2>1, <3>1
  <2>2. CASE ~(k <= Len(rows))
    <3>1. Replaced(rows, utterances, rows, [utterances EXCEPT ![k - Len(rows)].cond = chars], k, chars)
      BY <1>1, <1>3, <2>2, ReplacedWords
    <3> QED
      BY <1>2, <2>2, <3>1
  <2> QED
    BY <2>1, <2>2
<1>5. ASSUME NEW new, NEW words, Replaced(rows, utterances, new, words, k, chars)
      PROVE  /\ RowsOK(new) /\ words \in Seq(Utterance) /\ PrepOK(Condensing(prep, left, projected), new, words)
             /\ DOMAIN new = DOMAIN rows /\ \A i \in DOMAIN rows : new[i].source = rows[i].source
  <2>1. /\ RowsOK(new) /\ new \in Seq(Row) /\ words \in Seq(Utterance)
        /\ Len(new) = Len(rows) /\ Len(words) = Len(utterances)
        /\ Recorded(new) = Recorded(rows) /\ Waiting(new) = Waiting(rows)
        /\ Readable(new, words) = Readable(rows, utterances)
        /\ \A i \in 1 .. Len(rows) : new[i].source = rows[i].source
        /\ \A i \in 1 .. Len(utterances) : words[i].links = utterances[i].links
        /\ \A j \in 1 .. Len(rows) + Len(utterances) :
             j # k => SourceOf(new, words, j) = SourceOf(rows, utterances, j)
        /\ SourceOf(new, words, k).chars = full /\ SourceOf(new, words, k).cond = chars
    BY <1>5 DEF Replaced, RowsOK
  <2>2. k \in 1 .. Len(rows) + Len(utterances)
    BY <1>3 DEF Readable
  <2>3. full \in Nat
    BY <1>1, <2>2, SourceType
  <2>4. Total(new, words) =
          Total(rows, utterances)
            + (Carried(SourceOf(new, words, k)) - Carried(SourceOf(rows, utterances, k)))
    BY <1>1, <1>3, <2>1, TotalChange
  <2>5. Carried(SourceOf(rows, utterances, k)) = full
    BY <1>3 DEF Carried
  <2>6. Carried(SourceOf(new, words, k)) = IF chars # 0 THEN chars ELSE full
    BY <2>1 DEF Carried
  <2>7. projected \in Int /\ projected <= Total(new, words)
    <3>1. Total(rows, utterances) \in Nat
      BY <1>1, WeightsList
    <3> HIDE DEF full
    <3>2. Total(new, words) = Total(rows, utterances) + ((IF chars # 0 THEN chars ELSE full) - full)
      BY <2>4, <2>5, <2>6
    <3> QED
      BY <1>1, <2>3, <3>1, <3>2
  <2>8. ReadOK(prep, new, words)
    <3>1. prep.heard \in Nat /\ \A i \in 1 .. prep.heard : i \in 1 .. Len(utterances)
      BY <1>1, WordsList
    <3> QED
      BY <1>1, <2>1, <3>1 DEF ReadOK, HeardOK
  <2>9. left \in SUBSET Nat /\ \A j \in left : j \in Readable(new, words) /\ SourceOf(new, words, j).cond = 0
    <3> SUFFICES ASSUME NEW j \in left
                 PROVE  j \in Nat /\ j \in Readable(new, words) /\ SourceOf(new, words, j).cond = 0
      OBVIOUS
    <3>1. j # k /\ j \in Readable(rows, utterances) /\ SourceOf(rows, utterances, j).cond = 0 /\ j \in Nat
      BY <1>1
    <3>2. j \in 1 .. Len(rows) + Len(utterances)
      BY <3>1 DEF Readable
    <3> QED
      BY <2>1, <3>1, <3>2
  <2>10. PrepOK(Condensing(prep, left, projected), new, words)
    <3>1. prep.heard \in 0 .. Len(words)
      BY <1>1, <2>1
    <3> HIDE DEF left, projected
    <3> QED
      BY <2>1, <2>7, <2>8, <2>9, <3>1, CondensingKeeps
  <2>11. DOMAIN new = 1 .. Len(rows) /\ DOMAIN rows = 1 .. Len(rows)
    BY <1>1, <2>1, RowsList
  <2> QED
    BY <2>1, <2>10, <2>11
<1>6. /\ RowsOK(rows') /\ utterances' \in Seq(Utterance) /\ PrepOK(prep', rows', utterances')
      /\ DOMAIN rows' = DOMAIN rows /\ \A i \in DOMAIN rows : rows'[i].source = rows[i].source
  BY <1>2, <1>4, <1>5
<1>7. StagedOK'
  BY <1>1, <1>6 DEF StagedOK
<1> QED
  BY <1>1, <1>6, <1>7 DEF SourcesInv

LEMMA CondensedKeeps ==
  ASSUME SourcesInv, NEW chars \in Lengths, Condensed(chars) \/ Recondensed(chars)
  PROVE  SourcesInv' /\ (CondKept \/ Total(rows, utterances) > Budget)
<1>1. prep.at \in {"condense", "recondense"} /\ UNCHANGED <<staged, documented, unanswered>>
  BY DEF Condensed, Recondensed
<1>2. CASE \E n \in Nat : StoreCondensed(n)
  BY <1>1, <1>2, StoreKeeps
<1>3. CASE prep.at = "condense" /\ prep' = [prep EXCEPT !.at = "recondense"] /\ UNCHANGED <<rows, utterances>>
  <2>1. PrepOK(prep, rows, utterances)
    BY DEF SourcesInv
  <2>2. /\ prep \in Prep /\ prep.heard <= Len(utterances)
        /\ ReadOK(prep, rows, utterances) /\ CondenseOK(prep, rows, utterances)
    BY <1>3, <2>1 DEF PrepOK
  <2>3. /\ prep' \in Prep /\ prep'.at = "recondense" /\ prep'.heard = prep.heard
        /\ prep'.sources = prep.sources /\ prep'.projected = prep.projected
    BY <1>3, <2>2 DEF Prep
  <2>4. ReadOK(prep', rows, utterances) /\ CondenseOK(prep', rows, utterances)
    BY <2>2, <2>3 DEF ReadOK, CondenseOK
  <2>5. PrepOK(prep', rows, utterances)
    BY <2>2, <2>3, <2>4 DEF PrepOK
  <2>6. StagedOK'
    BY <1>1, <1>3 DEF SourcesInv, StagedOK
  <2> QED
    BY <1>1, <1>3, <2>5, <2>6 DEF SourcesInv, CondKept
<1>4. chars \in Nat /\ Tolerated + Mark \in Nat
  BY LengthsAssumption, LimitsAssumption
<1>5. CASE Condensed(chars)
  <2>1. CASE chars > Tolerated
    BY <1>3, <1>5, <2>1 DEF Condensed
  <2>2. CASE ~(chars > Tolerated)
    BY <1>2, <1>4, <1>5, <2>2 DEF Condensed
  <2> QED
    BY <2>1, <2>2
<1>6. CASE Recondensed(chars)
  <2>1. StoreCondensed(IF chars > Tolerated THEN Tolerated + Mark ELSE chars)
    BY <1>6 DEF Recondensed
  <2>2. CASE chars > Tolerated
    BY <1>2, <1>4, <2>1, <2>2
  <2>3. CASE ~(chars > Tolerated)
    BY <1>2, <1>4, <2>1, <2>3
  <2> QED
    BY <2>2, <2>3
<1> QED
  BY <1>5, <1>6

LEMMA CondenseFailsKeeps ==
  ASSUME SourcesInv, CondenseFails
  PROVE  SourcesInv' /\ CondKept
<1> DEFINE left == prep.sources \ {Longest(rows, utterances, prep.sources)}
<1>1. /\ prep.at \in {"condense", "recondense"} /\ prep' = Condensing(prep, left, prep.projected)
      /\ UNCHANGED <<staged, utterances, rows, documented, unanswered>>
  BY DEF CondenseFails
<1>2. /\ utterances \in Seq(Utterance) /\ rows \in Seq(Row)
      /\ prep.sources \in SUBSET Nat /\ prep.projected \in Int
      /\ prep.heard \in 0 .. Len(utterances) /\ ReadOK(prep, rows, utterances)
      /\ \A k \in prep.sources :
           k \in Readable(rows, utterances) /\ SourceOf(rows, utterances, k).cond = 0
      /\ prep.projected <= Total(rows, utterances)
  BY <1>1, CondensingFacts
<1>3. left \in SUBSET Nat /\ \A k \in left : k \in Readable(rows, utterances) /\ SourceOf(rows, utterances, k).cond = 0
  BY <1>2
<1> HIDE DEF left
<1>4. PrepOK(Condensing(prep, left, prep.projected), rows, utterances)
  BY <1>2, <1>3, CondensingKeeps
<1>5. StagedOK'
  BY <1>1 DEF SourcesInv, StagedOK
<1> QED
  BY <1>1, <1>4, <1>5 DEF SourcesInv, CondKept

-----------------------------------------------------------------------------
LEMMA InitSources == Init => SourcesInv
<1> SUFFICES ASSUME Init PROVE SourcesInv
  OBVIOUS
<1>1. /\ staged = {} /\ utterances = <<>> /\ rows = <<>>
      /\ documented = FALSE /\ unanswered = FALSE /\ prep = Quiet
  BY DEF Init
<1>2. rows \in Seq(Row) /\ utterances \in Seq(Utterance) /\ Len(rows) = 0 /\ DOMAIN rows = {}
  BY <1>1, EmptySeq
<1>3. PrepOK(prep, rows, utterances)
  BY <1>1, <1>2, QuietOK
<1>4. TextOf(rows) <= MaxSessionText
  <2>1. Chars(rows) \in Seq(Nat) /\ Chars(rows) \in Seq(Int) /\ Len(Chars(rows)) = 0
        /\ TextOf(rows) = AddedUp(Chars(rows))
    BY <1>2, CharsList
  <2>2. <<>> \in Seq(Int) /\ Len(<<>>) = 0
    BY EmptySeq
  <2>3. PICK sum : Sums(sum, Chars(rows), Len(Chars(rows))) /\ AddedUp(Chars(rows)) = sum[Len(Chars(rows))]
    BY <2>1, AddedUpSums
  <2>4. AddedUp(Chars(rows)) = 0
    BY <2>1, <2>3 DEF Sums
  <2> QED
    BY <2>1, <2>4, LimitsAssumption
<1>5. Cardinality(PageRows(rows)) = 0 /\ Cardinality(FileRows(rows)) = 0
  <2>1. PageRows(rows) = {} /\ FileRows(rows) = {}
    BY <1>2 DEF PageRows, FileRows
  <2> QED
    BY <2>1, FS_EmptySet
<1>6. RowsOK(rows)
  BY <1>2, <1>4, <1>5, LimitsAssumption DEF RowsOK
<1>7. StagedOK
  BY <1>1, <1>2 DEF StagedOK
<1> QED
  BY <1>1, <1>2, <1>3, <1>6, <1>7 DEF SourcesInv

LEMMA NextSources ==
  ASSUME SourcesInv, [Next]_vars
  PROVE  SourcesInv' /\ (CondKept \/ Total(rows, utterances) > Budget)
<1>1. ASSUME NEW u \in Uploads, Stage(u) PROVE SourcesInv' /\ CondKept
  BY <1>1, StageKeeps
<1>2. ASSUME NEW chars \in Lengths, NEW links \in LinkLists, NEW ups \in SUBSET Uploads,
             Say(chars, links, ups)
      PROVE  SourcesInv' /\ CondKept
  BY <1>2, SayKeeps
<1>3. ASSUME NEW chars \in Lengths, NEW links \in LinkLists, Correct(chars, links)
      PROVE  SourcesInv' /\ CondKept
  BY <1>3, CorrectKeeps
<1>4. CASE Retry
  BY <1>4, RetryKeeps
<1>5. ASSUME NEW ok \in BOOLEAN, Fetched(ok) PROVE SourcesInv' /\ CondKept
  BY <1>5, FetchedKeeps
<1>6. ASSUME NEW chars \in Lengths \cup {0}, Extracted(chars) PROVE SourcesInv' /\ CondKept
  BY <1>6, ExtractedKeeps
<1>7. ASSUME NEW chars \in Lengths, Condensed(chars) \/ Recondensed(chars)
      PROVE  SourcesInv' /\ (CondKept \/ Total(rows, utterances) > Budget)
  BY <1>7, CondensedKeeps
<1>8. CASE CondenseFails
  BY <1>8, CondenseFailsKeeps
<1>9. ASSUME NEW document \in BOOLEAN, Answer(document) PROVE SourcesInv' /\ CondKept
  BY <1>9, QuietKeeps DEF Answer, SourcesInv
<1>10. CASE Die
  BY <1>10, QuietKeeps DEF Die, SourcesInv
<1>11. CASE UNCHANGED vars
  BY <1>11 DEF vars, SourcesInv, StagedOK, CondKept
<1> QED
  BY <1>1, <1>2, <1>3, <1>4, <1>5, <1>6, <1>7, <1>8, <1>9, <1>10, <1>11 DEF Next

(* The rows, the words and what the preparation keeps agree at every await. *)
THEOREM SourcesInvariance == Spec => []SourcesInv
<1>1. Init => SourcesInv
  BY InitSources
<1>2. SourcesInv /\ [Next]_vars => SourcesInv'
  BY NextSources
<1> QED
  BY <1>1, <1>2, PTL DEF Spec

(* What a session may hold of text, pages and files is kept, over any       *)
(* number of rounds, failures and restarts, at every await                  *)
(* (ingestNotionLinks, attachUploads, extractPendingAttachments).           *)
THEOREM KeptWithinLimits == Spec => []WithinLimits
<1>1. SourcesInv => WithinLimits
  <2> SUFFICES ASSUME SourcesInv PROVE WithinLimits
    OBVIOUS
  <2>1. TypeOK
    BY DEF SourcesInv, StagedOK, RowsOK, PrepOK, TypeOK
  <2>2. TextWithinLimit
    BY DEF SourcesInv, RowsOK, TextWithinLimit
  <2>3. PagesWithinLimit
    BY DEF SourcesInv, RowsOK, PagesWithinLimit, PageRows
  <2>4. UploadsLandOnce
    BY DEF SourcesInv, StagedOK, RowsOK, UploadsLandOnce, FileRows
  <2> QED
    BY <2>1, <2>2, <2>3, <2>4 DEF WithinLimits
<1> QED
  BY <1>1, SourcesInvariance, PTL

(* A judgement has read every link that was said when its round began and   *)
(* every file (startClarification, processReply).                            *)
THEOREM AllReadIsJudged == Spec => []JudgedAllRead
<1>1. SourcesInv => JudgedAllRead
  <2> SUFFICES ASSUME SourcesInv, prep.at \in {"condense", "recondense", "judge"}
               PROVE  /\ \A i \in DOMAIN rows : rows[i].status # "pending"
                      /\ \A i \in 1 .. prep.heard : ToSet(utterances[i].links) \subseteq Recorded(rows)
    BY DEF JudgedAllRead
  <2>1. ReadOK(prep, rows, utterances)
    BY DEF SourcesInv, PrepOK
  <2>2. ToSet(<<>>) = {}
    BY DEF ToSet
  <2> QED
    BY <2>1, <2>2 DEF ReadOK, HeardOK, Waiting
<1> QED
  BY <1>1, SourcesInvariance, PTL

(* A text is condensed only while the texts of the session exceed what a    *)
(* generation call may carry (condenseLongSources).                          *)
THEOREM OverBudgetIsCondensed == Spec => CondensedOverBudget
<1>1. SourcesInv /\ [Next]_vars =>
        [(\/ \E i \in DOMAIN rows : rows'[i].cond # rows[i].cond
          \/ \E i \in DOMAIN utterances : utterances'[i].cond # utterances[i].cond)
         => Total(rows, utterances) > Budget]_vars
  BY NextSources DEF CondKept
<1> QED
  BY <1>1, SourcesInvariance, PTL DEF Spec, CondensedOverBudget
=============================================================================
