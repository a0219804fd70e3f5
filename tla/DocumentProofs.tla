------------------------------ MODULE DocumentProofs ------------------------------
(***************************************************************************)
(* Theorems about the content of a document: what the code, and not the    *)
(* LLM, sees to in every version of it; and about the card that shows it.   *)
(***************************************************************************)
EXTENDS DocumentCard, ListsProofs, FiniteSetTheorems

-----------------------------------------------------------------------------
(* Texts                                                                    *)

Solid(text) == {i \in DOMAIN text : text[i] # "nl"}

(* A line: it says something, and no line ends in it.                       *)
Plain == {text \in Says : \A i \in DOMAIN text : text[i] # "nl"}

(* Neither end of a text is a line end.                                     *)
Tight(text) == text # <<>> /\ text[1] # "nl" /\ text[Len(text)] # "nl"

LEMMA TextList ==
  ASSUME NEW text \in Text
  PROVE  /\ Len(text) \in Nat /\ DOMAIN text = 1 .. Len(text)
         /\ \A i \in 1 .. Len(text) : text[i] \in Words \cup Marks \cup {"nl"}
         /\ text # <<>> => Len(text) >= 1
         /\ text = <<>> => Len(text) = 0
<1>1. text \in Seq(Words \cup Marks \cup {"nl"})
  BY DEF Text
<1>2. Len(text) \in Nat /\ DOMAIN text = 1 .. Len(text) /\ (text # <<>> => Len(text) # 0)
  BY <1>1, LenProperties, EmptySeq
<1>3. text = <<>> => Len(text) = 0
  BY <1>1, EmptySeq
<1> QED
  BY <1>1, <1>2, <1>3, ElementOfSeq

LEMMA MinIs ==
  ASSUME NEW T \in SUBSET Nat, T # {}
  PROVE  Min(T) \in T /\ \A n \in T : Min(T) <= n
<1>1. \E m \in T : \A n \in T : m <= n
  BY LeastExists
<1> QED
  BY <1>1 DEF Min

LEMMA MaxIs ==
  ASSUME NEW T \in SUBSET Nat, T # {}, NEW bound \in Nat, \A n \in T : n <= bound
  PROVE  Max(T) \in T /\ \A n \in T : n <= Max(T)
<1>1. PICK m \in T : \A n \in T : n <= m
  BY GreatestExists
<1>2. \A n \in T : n \in Nat
  OBVIOUS
<1>3. \E x \in T : \A n \in T : x >= n
  BY <1>1, <1>2
<1>4. Max(T) \in T /\ \A n \in T : Max(T) >= n
  BY <1>3 DEF Max
<1> QED
  BY <1>2, <1>4

(* A part of a text.                                                        *)
LEMMA PartOfText ==
  ASSUME NEW text \in Text, NEW m \in 1 .. Len(text), NEW n \in m .. Len(text)
  PROVE  /\ SubSeq(text, m, n) \in Says
         /\ Len(SubSeq(text, m, n)) = n - m + 1
         /\ DOMAIN SubSeq(text, m, n) = 1 .. n - m + 1
         /\ \A i \in 1 .. n - m + 1 : SubSeq(text, m, n)[i] = text[m + i - 1]
<1> DEFINE part == SubSeq(text, m, n)
<1>1. /\ Len(text) \in Nat /\ \A i \in 1 .. Len(text) : text[i] \in Words \cup Marks \cup {"nl"}
  BY TextList
<1>2. m \in Int /\ n \in Int /\ m <= n /\ \A i \in m .. n : text[i] \in Words \cup Marks \cup {"nl"}
  BY <1>1
<1>3. /\ part \in Text /\ Len(part) = n - m + 1
      /\ \A i \in 1 .. n - m + 1 : part[i] = text[m + i - 1]
  BY <1>2, SubSeqProperties DEF Text
<1> HIDE DEF part
<1>4. part # <<>> /\ DOMAIN part = 1 .. n - m + 1
  BY <1>2, <1>3, TextList
<1> QED
  BY <1>3, <1>4 DEF part, Says

(* trim                                                                     *)
LEMMA TrimProperties ==
  ASSUME NEW text \in Text
  PROVE  /\ Trim(text) \in Text
         /\ Trim(text) # <<>> => Trim(text) \in Says /\ Tight(Trim(text))
         /\ Tight(text) => Trim(text) = text
<1> DEFINE solid == {i \in DOMAIN text : text[i] # "nl"}
           m == Min(solid)
           n == Max(solid)
<1>1. Len(text) \in Nat /\ DOMAIN text = 1 .. Len(text)
  BY TextList
<1>2. CASE solid = {}
  <2>1. Trim(text) = <<>>
    BY <1>2 DEF Trim
  <2>2. <<>> \in Text
    BY EmptySeq DEF Text
  <2>3. ~Tight(text)
    BY <1>1, <1>2, TextList DEF Tight
  <2> QED
    BY <2>1, <2>2, <2>3
<1>3. CASE solid # {}
  <2>1. solid \in SUBSET Nat /\ \A i \in solid : i <= Len(text)
    BY <1>1
  <2>2. /\ m \in solid /\ n \in solid /\ \A i \in solid : m <= i /\ i <= n
    <3> HIDE DEF solid
    <3> QED
      BY <1>1, <1>3, <2>1, MinIs, MaxIs
  <2>3. Trim(text) = SubSeq(text, m, n)
    BY <1>3 DEF Trim
  <2> HIDE DEF m, n
  <2>4. m \in 1 .. Len(text) /\ n \in m .. Len(text) /\ text[m] # "nl" /\ text[n] # "nl"
    BY <1>1, <2>2
  <2> DEFINE t == Trim(text)
  <2>5. /\ t \in Says /\ Len(t) = n - m + 1
        /\ \A i \in 1 .. n - m + 1 : t[i] = text[m + i - 1]
    BY <2>3, <2>4, PartOfText
  <2> HIDE DEF t
  <2>6. t[1] = text[m] /\ t[Len(t)] = text[n]
    <3>1. 1 \in 1 .. n - m + 1 /\ n - m + 1 \in 1 .. n - m + 1 /\ m + 1 - 1 = m /\ m + (n - m + 1) - 1 = n
      BY <1>1, <2>4
    <3> QED
      BY <2>5, <3>1
  <2>7. t # <<>> /\ t \in Text
    BY <2>5 DEF Says
  <2>8. ASSUME Tight(text) PROVE t = text
    <3>1. 1 \in solid /\ Len(text) \in solid
      BY <1>1, <2>8, TextList DEF Tight
    <3>2. m = 1 /\ n = Len(text)
      BY <1>1, <2>2, <2>4, <3>1
    <3> QED
      BY <2>3, <3>2, SubSeqFull DEF t, Text
  <2> QED
    BY <2>4, <2>5, <2>6, <2>7, <2>8 DEF t, Tight
<1> QED
  BY <1>2, <1>3

(* The line that starts at a place.                                         *)
LEMMA LineProperties ==
  ASSUME NEW text \in Text, NEW from \in DOMAIN text, text[from] # "nl"
  PROVE  \E to \in from .. Len(text) :
           /\ Line(text, from) = SubSeq(text, from, to)
           /\ \A i \in from .. to : text[i] # "nl"
           /\ to = Len(text) \/ text[to + 1] = "nl"
           /\ Line(text, from) \in Plain
<1> DEFINE reach == {to \in from .. Len(text) : \A i \in from .. to : text[i] # "nl"}
           to == Max(reach)
<1>1. Len(text) \in Nat /\ DOMAIN text = 1 .. Len(text) /\ from \in 1 .. Len(text)
  BY TextList
<1>2. from \in reach
  BY <1>1
<1>3. reach \in SUBSET Nat /\ reach # {} /\ \A i \in reach : i <= Len(text)
  BY <1>1, <1>2
<1>4. to \in reach /\ \A i \in reach : i <= to
  <2> HIDE DEF reach
  <2> QED
    BY <1>1, <1>3, MaxIs
<1>5. Line(text, from) = SubSeq(text, from, to)
  BY DEF Line
<1> HIDE DEF to
<1>6. to \in from .. Len(text) /\ \A i \in from .. to : text[i] # "nl"
  BY <1>4
<1>7. to = Len(text) \/ text[to + 1] = "nl"
  <2> SUFFICES ASSUME to # Len(text), text[to + 1] # "nl" PROVE FALSE
    OBVIOUS
  <2> DEFINE l == Len(text)
             n == to
  <2>1. l \in Nat /\ from \in 1 .. l /\ n \in from .. l /\ n # l
    BY <1>1, <1>6
  <2> HIDE DEF l
  <2>2. n + 1 \in from .. l /\ ~(n + 1 <= n) /\ \A i \in from .. n + 1 : i \in from .. n \/ i = n + 1
    <3> HIDE DEF n
    <3> QED
      BY <2>1
  <2>3. \A i \in from .. n + 1 : text[i] # "nl"
    BY <1>6, <2>2
  <2>4. n + 1 \in reach
    BY <2>2, <2>3 DEF l
  <2> QED
    BY <1>4, <2>2, <2>4
<1> DEFINE line == Line(text, from)
<1>8. /\ line \in Says /\ DOMAIN line = 1 .. to - from + 1
      /\ \A i \in 1 .. to - from + 1 : line[i] = text[from + i - 1]
  BY <1>1, <1>5, <1>6, PartOfText
<1> HIDE DEF line, reach
<1>9. \A i \in DOMAIN line : line[i] # "nl"
  <2> TAKE i \in DOMAIN line
  <2>1. from + i - 1 \in from .. to
    BY <1>1, <1>6, <1>8
  <2> QED
    BY <1>6, <1>8, <2>1
<1>10. line \in Plain
  BY <1>8, <1>9 DEF Plain
<1> QED
  BY <1>5, <1>6, <1>7, <1>10 DEF line

(* The lines of a text.                                                     *)
LEMMA ItemsProperties ==
  ASSUME NEW text \in Text
  PROVE  /\ Items(text) \in Seq(Plain)
         /\ Items(text) = [k \in 1 .. Len(PlacesTo(Len(text), Starts(text))) |->
                             Line(text, PlacesTo(Len(text), Starts(text))[k])]
<1> DEFINE starts == PlacesTo(Len(text), Starts(text))
           items == Items(text)
<1>1. InOrder(text, Starts(text)) = starts /\ starts \in Seq(Nat \cap Starts(text))
  BY InOrderIs, InOrderProperties DEF Text
<1> HIDE DEF starts
<1>2. Len(starts) \in Nat /\ DOMAIN starts = 1 .. Len(starts) /\ \A k \in 1 .. Len(starts) : starts[k] \in Starts(text)
  BY <1>1, LenProperties, ElementOfSeq
<1>3. items = [k \in 1 .. Len(starts) |-> Line(text, starts[k])]
  BY <1>1, <1>2 DEF Items
<1>4. \A k \in 1 .. Len(starts) : Line(text, starts[k]) \in Plain
  <2> TAKE k \in 1 .. Len(starts)
  <2>1. starts[k] \in DOMAIN text /\ text[starts[k]] # "nl"
    BY <1>2 DEF Starts
  <2> QED
    BY <2>1, LineProperties
<1> HIDE DEF items
<1>5. items \in [1 .. Len(starts) -> Plain]
  BY <1>3, <1>4
<1>6. items \in Seq(Plain)
  BY <1>2, <1>5, SeqDef
<1> QED
  BY <1>3, <1>6 DEF starts, items

(* A line is what it is when it is trimmed.                                 *)
LEMMA PlainIsTrim ==
  ASSUME NEW text \in Plain
  PROVE  text \in Says /\ text \in Text /\ Tight(text) /\ Trim(text) = text
<1>1. text \in Says /\ text \in Text /\ text # <<>> /\ \A i \in DOMAIN text : text[i] # "nl"
  BY DEF Plain, Says
<1>2. 1 \in DOMAIN text /\ Len(text) \in DOMAIN text
  BY <1>1, TextList
<1>3. Tight(text)
  BY <1>1, <1>2 DEF Tight
<1> QED
  BY <1>1, <1>3, TrimProperties

-----------------------------------------------------------------------------
(* Given, When, Then                                                        *)

LEMMA ConcatText ==
  ASSUME NEW a \in Text, NEW b \in Text
  PROVE  /\ a \o b \in Text /\ Len(a \o b) = Len(a) + Len(b)
         /\ \A i \in 1 .. Len(a) + Len(b) :
              (a \o b)[i] = IF i <= Len(a) THEN a[i] ELSE b[i - Len(a)]
         /\ a # <<>> => (a \o b)[1] = a[1] /\ a \o b # <<>>
         /\ b # <<>> => (a \o b)[Len(a \o b)] = b[Len(b)] /\ a \o b # <<>>
<1> DEFINE c == a \o b
           la == Len(a)
           lb == Len(b)
<1>1. /\ c \in Text /\ Len(c) = la + lb
      /\ \A i \in 1 .. la + lb : c[i] = IF i <= la THEN a[i] ELSE b[i - la]
  BY ConcatProperties DEF Text
<1>2. la \in Nat /\ lb \in Nat /\ (a # <<>> => la >= 1) /\ (b # <<>> => lb >= 1)
      /\ (c = <<>> => Len(c) = 0)
  BY <1>1, TextList
<1> HIDE DEF c, la, lb
<1>3. a # <<>> => c[1] = a[1] /\ c # <<>>
  BY <1>1, <1>2
<1>4. b # <<>> => c[Len(c)] = b[lb] /\ c # <<>>
  <2> SUFFICES ASSUME b # <<>> PROVE c[la + lb] = b[lb] /\ c # <<>>
    BY <1>1
  <2>1. la + lb \in 1 .. la + lb /\ ~(la + lb <= la) /\ la + lb - la = lb
    BY <1>2
  <2> QED
    BY <1>1, <1>2, <2>1
<1> QED
  BY <1>1, <1>3, <1>4 DEF c, la, lb

LEMMA TokenText ==
  ASSUME NEW token \in Words \cup Marks \cup {"nl"}
  PROVE  <<token>> \in Text /\ Len(<<token>>) = 1 /\ <<token>>[1] = token /\ <<token>> # <<>>
<1>1. <<token>> \in Text
  BY SeqDef DEF Text
<1> QED
  BY <1>1

LEMMA FormatProperties ==
  ASSUME NEW gwt \in Gwt
  PROVE  /\ FormatGwt(gwt) \in Says
         /\ FormatGwt(gwt)[1] = "Given"
         /\ FormatGwt(gwt)[Len(FormatGwt(gwt))] = gwt.then[Len(gwt.then)]
<1> DEFINE a == <<"Given">>
           b == a \o gwt.given
           c == b \o <<"When">>
           d == c \o gwt.when
           e == d \o <<"Then">>
           f == e \o gwt.then
<1>1. /\ gwt.given \in Text /\ gwt.when \in Text /\ gwt.then \in Text
      /\ gwt.given # <<>> /\ gwt.when # <<>> /\ gwt.then # <<>>
  BY DEF Gwt, Says
<1>2. /\ a \in Text /\ a[1] = "Given" /\ a # <<>>
      /\ <<"When">> \in Text /\ <<"When">> # <<>> /\ <<"Then">> \in Text /\ <<"Then">> # <<>>
  BY TokenText DEF Marks
<1> HIDE DEF a
<1>3. b \in Text /\ b[1] = "Given" /\ b # <<>>
  BY <1>1, <1>2, ConcatText
<1> HIDE DEF b
<1>4. c \in Text /\ c[1] = "Given" /\ c # <<>>
  BY <1>2, <1>3, ConcatText
<1> HIDE DEF c
<1>5. d \in Text /\ d[1] = "Given" /\ d # <<>>
  BY <1>1, <1>4, ConcatText
<1> HIDE DEF d
<1>6. e \in Text /\ e[1] = "Given" /\ e # <<>>
  BY <1>2, <1>5, ConcatText
<1> HIDE DEF e
<1>7. f \in Text /\ f[1] = "Given" /\ f # <<>> /\ f[Len(f)] = gwt.then[Len(gwt.then)]
  BY <1>1, <1>6, ConcatText
<1>8. FormatGwt(gwt) = f
  BY DEF FormatGwt, a, b, c, d, e
<1> HIDE DEF f
<1> QED
  BY <1>7, <1>8 DEF Says

(* The three fields of a text that is cut at two places.                    *)
Field(text, from, to) == Trim(SubSeq(text, from, to))
Fields(text, cut) ==
  [given |-> Field(text, 2, cut[1] - 1), when |-> Field(text, cut[1] + 1, cut[2] - 1),
   then |-> Field(text, cut[2] + 1, Len(text))]

LEMMA CutProperties ==
  ASSUME NEW text \in Text, NEW cut \in Cuts(text)
  PROVE  /\ cut \in (1 .. Len(text)) \X (1 .. Len(text))
         /\ text[1] = "Given" /\ text[cut[1]] = "When" /\ text[cut[2]] = "Then"
         /\ Fields(text, cut).given \in Plain /\ Fields(text, cut).when \in Plain
         /\ Fields(text, cut).then \in Plain
<1> DEFINE c1 == cut[1]
           c2 == cut[2]
           f1 == Field(text, 2, c1 - 1)
           f2 == Field(text, c1 + 1, c2 - 1)
           f3 == Field(text, c2 + 1, Len(text))
<1>1. /\ Len(text) \in Nat /\ DOMAIN text = 1 .. Len(text)
      /\ \A i \in 1 .. Len(text) : text[i] \in Words \cup Marks \cup {"nl"}
  BY TextList
<1>2. /\ cut \in (DOMAIN text) \X (DOMAIN text)
      /\ text[1] = "Given" /\ text[c1] = "When" /\ text[c2] = "Then"
      /\ \A field \in {f1, f2, f3} : field # <<>> /\ "nl" \notin ToSet(field)
  BY DEF Cuts, Field
<1>3. c1 \in 1 .. Len(text) /\ c2 \in 1 .. Len(text)
  BY <1>1, <1>2
<1> HIDE DEF c1, c2
<1>4. ASSUME NEW from \in 1 .. Len(text) + 1, NEW to \in 0 .. Len(text),
             Field(text, from, to) # <<>>, "nl" \notin ToSet(Field(text, from, to))
      PROVE  Field(text, from, to) \in Plain
  <2> DEFINE part == SubSeq(text, from, to)
  <2>1. from \in Int /\ to \in Int /\ \A i \in from .. to : text[i] \in Words \cup Marks \cup {"nl"}
    BY <1>1, <1>4
  <2>2. part \in Text
    BY <2>1, SubSeqProperties DEF Text
  <2> HIDE DEF part
  <2>3. Trim(part) # <<>> => Trim(part) \in Says
    BY <2>2, TrimProperties
  <2> QED
    BY <1>4, <2>3 DEF Field, Plain, ToSet, part
<1>5. /\ 2 \in 1 .. Len(text) + 1 /\ c1 - 1 \in 0 .. Len(text)
      /\ c1 + 1 \in 1 .. Len(text) + 1 /\ c2 - 1 \in 0 .. Len(text)
      /\ c2 + 1 \in 1 .. Len(text) + 1 /\ Len(text) \in 0 .. Len(text)
  BY <1>1, <1>3
<1>6. f1 \in Plain
  BY <1>2, <1>4, <1>5
<1>7. f2 \in Plain
  BY <1>2, <1>4, <1>5
<1>8. f3 \in Plain
  BY <1>2, <1>4, <1>5
<1>9. cut \in (1 .. Len(text)) \X (1 .. Len(text))
  BY <1>1, <1>2
<1> QED
  BY <1>2, <1>6, <1>7, <1>8, <1>9 DEF Fields, c1, c2

(* Of the cuts of a text there is a first.                                  *)
LEMMA ParseCuts ==
  ASSUME NEW text \in Text, Cuts(text) # {}
  PROVE  \E cut \in Cuts(text) : ParseGwt(text) = Fields(text, cut)
<1> DEFINE cuts == Cuts(text)
           heads == {c[1] : c \in cuts}
           m == Min(heads)
           tails == {c[2] : c \in {d \in cuts : d[1] = m}}
           n == Min(tails)
           First(c) == \A d \in cuts : c[1] < d[1] \/ (c[1] = d[1] /\ c[2] <= d[2])
<1>1. Len(text) \in Nat /\ \A c \in cuts : c[1] \in Nat /\ c[2] \in Nat
  <2>1. Len(text) \in Nat
    BY TextList
  <2>2. ASSUME NEW c \in cuts PROVE c[1] \in Nat /\ c[2] \in Nat
    <3>1. c \in (1 .. Len(text)) \X (1 .. Len(text))
      BY CutProperties
    <3> QED
      BY <2>1, <3>1
  <2> QED
    BY <2>1, <2>2
<1> HIDE DEF cuts
<1>2. heads \in SUBSET Nat /\ heads # {}
  BY <1>1 DEF cuts
<1>3. m \in heads /\ \A i \in heads : m <= i
  <2> HIDE DEF heads
  <2> QED
    BY <1>2, MinIs
<1> HIDE DEF m
<1>4. tails \in SUBSET Nat /\ tails # {}
  BY <1>1, <1>3
<1>5. n \in tails /\ \A i \in tails : n <= i
  <2> HIDE DEF tails
  <2> QED
    BY <1>4, MinIs
<1> HIDE DEF n
<1>6. PICK c \in cuts : c[1] = m /\ c[2] = n
  BY <1>5
<1>7. First(c)
  <2> SUFFICES ASSUME NEW d \in cuts, ~(c[1] < d[1]) PROVE c[1] = d[1] /\ c[2] <= d[2]
    OBVIOUS
  <2>1. d[1] \in heads
    OBVIOUS
  <2>2. m <= d[1] /\ m \in Nat /\ d[1] \in Nat
    BY <1>1, <1>3, <1>6, <2>1
  <2>3. d[1] = m
    BY <1>6, <2>2
  <2>4. d[2] \in tails
    BY <2>3
  <2> QED
    BY <1>5, <1>6, <2>3, <2>4
<1> DEFINE chosen == CHOOSE e \in cuts : First(e)
<1>8. chosen \in cuts
  BY <1>6, <1>7
<1>9. ParseGwt(text) = Fields(text, chosen)
  BY DEF ParseGwt, Fields, Field, cuts
<1> HIDE DEF chosen
<1> QED
  BY <1>8, <1>9 DEF cuts

LEMMA ParseProperties ==
  ASSUME NEW text \in Text, Cuts(text) # {}
  PROVE  /\ ParseGwt(text) \in Gwt
         /\ FormatGwt(ParseGwt(text)) \in Says
         /\ Trim(FormatGwt(ParseGwt(text))) = FormatGwt(ParseGwt(text))
<1> DEFINE gwt == ParseGwt(text)
           f == FormatGwt(gwt)
<1>1. PICK cut \in Cuts(text) : gwt = Fields(text, cut)
  BY ParseCuts
<1>2. /\ gwt = [given |-> gwt.given, when |-> gwt.when, then |-> gwt.then]
      /\ gwt.given \in Plain /\ gwt.when \in Plain /\ gwt.then \in Plain
  BY <1>1, CutProperties DEF Fields
<1> HIDE DEF gwt
<1>3. gwt \in Gwt
  BY <1>2, PlainIsTrim DEF Gwt
<1>4. gwt.then[Len(gwt.then)] # "nl"
  BY <1>2, PlainIsTrim DEF Tight
<1>5. f \in Says /\ f[1] = "Given" /\ f[Len(f)] = gwt.then[Len(gwt.then)]
  BY <1>3, FormatProperties
<1> HIDE DEF f
<1>6. f \in Text /\ Tight(f)
  BY <1>4, <1>5 DEF Says, Tight
<1>7. Trim(f) = f
  BY <1>6, TrimProperties
<1> QED
  BY <1>3, <1>5, <1>7 DEF f, gwt

-----------------------------------------------------------------------------
(* Contents                                                                 *)

LEMMA ContentIs ==
  ASSUME NEW content \in Content
  PROVE  /\ content = [problem |-> content.problem, users |-> content.users,
                       issues |-> content.issues, criteria |-> content.criteria]
         /\ content.problem \in Says
         /\ content.users \in Seq(Says) /\ Len(content.users) \in Nat
         /\ DOMAIN content.users = 1 .. Len(content.users)
         /\ \A i \in DOMAIN content.users : content.users[i] \in Says
         /\ content.issues \in Seq(Issue) /\ Len(content.issues) \in Nat
         /\ DOMAIN content.issues = 1 .. Len(content.issues)
         /\ \A i \in DOMAIN content.issues : content.issues[i] \in Issue
         /\ content.criteria \in Seq(Gwt) /\ Len(content.criteria) \in Nat
         /\ DOMAIN content.criteria = 1 .. Len(content.criteria)
         /\ \A i \in DOMAIN content.criteria : content.criteria[i] \in Gwt
<1>1. /\ content = [problem |-> content.problem, users |-> content.users,
                    issues |-> content.issues, criteria |-> content.criteria]
      /\ content.problem \in Says /\ content.users \in Seq(Says)
      /\ content.issues \in Seq(Issue) /\ content.criteria \in Seq(Gwt)
  BY DEF Content
<1>2. /\ Len(content.users) \in Nat /\ DOMAIN content.users = 1 .. Len(content.users)
      /\ \A i \in DOMAIN content.users : content.users[i] \in Says
  BY <1>1, LenProperties, ElementOfSeq
<1>3. /\ Len(content.issues) \in Nat /\ DOMAIN content.issues = 1 .. Len(content.issues)
      /\ \A i \in DOMAIN content.issues : content.issues[i] \in Issue
  BY <1>1, LenProperties, ElementOfSeq
<1>4. /\ Len(content.criteria) \in Nat /\ DOMAIN content.criteria = 1 .. Len(content.criteria)
      /\ \A i \in DOMAIN content.criteria : content.criteria[i] \in Gwt
  BY <1>1, LenProperties, ElementOfSeq
<1> QED
  BY <1>1, <1>2, <1>3, <1>4

(* An element reads as its text.                                            *)
LEMMA ElementReads ==
  ASSUME NEW content \in Content
  PROVE  /\ Read(content, Place("problem", 0)) = content.problem
         /\ \A i \in DOMAIN content.users : Read(content, Place("users", i)) = content.users[i]
         /\ \A i \in DOMAIN content.issues :
              Read(content, Place("issues", i)) = content.issues[i].question
         /\ \A i \in DOMAIN content.criteria :
              Read(content, Place("criteria", i)) = FormatGwt(content.criteria[i])
<1>1. /\ \A i \in DOMAIN content.users : i # 0
      /\ \A i \in DOMAIN content.issues : i # 0
  BY ContentIs
<1> QED
  BY <1>1 DEF Read, Place

(* A text is trimmed, or came as it is.                                     *)
Stands(text) == text = Trim(text) \/ text \in Generated
TextsStand(content) == \A p \in Elements(content) : Stands(Read(content, p))

LEMMA TextsStandIs ==
  ASSUME NEW content \in Content
  PROVE  TextsStand(content) <=>
           /\ Stands(content.problem)
           /\ \A i \in DOMAIN content.users : Stands(content.users[i])
           /\ \A i \in DOMAIN content.issues : Stands(content.issues[i].question)
           /\ \A i \in DOMAIN content.criteria : Stands(FormatGwt(content.criteria[i]))
<1> DEFINE S(p) == Stands(Read(content, p))
<1>1. TextsStand(content) <=>
        /\ S(Place("problem", 0))
        /\ \A i \in DOMAIN content.users : S(Place("users", i))
        /\ \A i \in DOMAIN content.issues : S(Place("issues", i))
        /\ \A i \in DOMAIN content.criteria : S(Place("criteria", i))
  <2> HIDE DEF S
  <2>1. TextsStand(content) <=> \A p \in Elements(content) : S(p)
    BY DEF S, TextsStand
  <2> QED
    BY <2>1 DEF Elements
<1> QED
  BY <1>1, ElementReads

(* What the LLM writes is a content, and is generated.                      *)
LEMMA OutputStands ==
  ASSUME NEW output \in Outputs
  PROVE  output \in Content /\ TextsStand(output)
BY OutputsAssumption DEF TextsStand, Stands, Generated

LEMMA QuestionStands ==
  ASSUME NEW s \in Slots
  PROVE  Question[s] \in Says /\ Stands(Question[s])
BY PathAssumption DEF Stands, Generated

-----------------------------------------------------------------------------
(* Corrections                                                              *)

(* Corrections that are applied: texts, each accepted for its address.      *)
Accepted(corrections) ==
  \A p \in DOMAIN corrections : corrections[p] \in Text /\ Accepts(p, corrections[p])

LEMMA AcceptedText ==
  ASSUME NEW corrections, Accepted(corrections), NEW p \in DOMAIN corrections
  PROVE  /\ corrections[p] \in Text /\ Trim(corrections[p]) \in Says
         /\ Stands(Trim(corrections[p]))
<1>1. corrections[p] \in Text /\ Trim(corrections[p]) # <<>>
  BY DEF Accepted, Accepts
<1>2. /\ Trim(corrections[p]) \in Text /\ Trim(corrections[p]) \in Says
      /\ Tight(Trim(corrections[p]))
  BY <1>1, TrimProperties
<1>3. Trim(Trim(corrections[p])) = Trim(corrections[p])
  BY <1>2, TrimProperties
<1> QED
  BY <1>1, <1>2, <1>3 DEF Stands

LEMMA ItemsStand ==
  ASSUME NEW text \in Text
  PROVE  /\ Items(text) \in Seq(Says) /\ Len(Items(text)) \in Nat
         /\ DOMAIN Items(text) = 1 .. Len(Items(text))
         /\ \A i \in DOMAIN Items(text) : Items(text)[i] \in Says /\ Stands(Items(text)[i])
<1>1. Items(text) \in Seq(Plain)
  BY ItemsProperties
<1>2. /\ Len(Items(text)) \in Nat /\ DOMAIN Items(text) = 1 .. Len(Items(text))
      /\ \A i \in DOMAIN Items(text) : Items(text)[i] \in Plain
  BY <1>1, LenProperties, ElementOfSeq
<1>3. Plain \subseteq Says
  BY DEF Plain
<1>4. Items(text) \in Seq(Says)
  BY <1>1, <1>3, SeqMonotonic
<1> QED
  BY <1>2, <1>4, PlainIsTrim DEF Stands

LEMMA RelinedIs ==
  ASSUME NEW issues \in Seq(Issue), NEW questions \in Seq(Says)
  PROVE  /\ Relined(issues, questions) \in Seq(Issue)
         /\ DOMAIN Relined(issues, questions) = DOMAIN questions
         /\ \A i \in DOMAIN questions : Relined(issues, questions)[i].question = questions[i]
<1> DEFINE now == Relined(issues, questions)
<1>1. /\ DOMAIN questions = 1 .. Len(questions) /\ Len(questions) \in Nat
      /\ \A i \in DOMAIN questions : questions[i] \in Says
  BY LenProperties, ElementOfSeq
<1>2. \A i \in DOMAIN issues : issues[i] \in Issue
  BY LenProperties, ElementOfSeq
<1>3. /\ DOMAIN now = DOMAIN questions
      /\ \A i \in DOMAIN questions :
           now[i] = IF i \in DOMAIN issues THEN [issues[i] EXCEPT !.question = questions[i]]
                    ELSE [slot |-> NoSlot, question |-> questions[i], assignee |-> Nobody]
      /\ now = [i \in DOMAIN questions |-> now[i]]
  BY DEF Relined
<1> HIDE DEF now
<1>4. \A i \in DOMAIN questions : now[i] \in Issue /\ now[i].question = questions[i]
  <2> TAKE i \in DOMAIN questions
  <2>1. CASE i \in DOMAIN issues
    <3>1. issues[i] \in Issue /\ questions[i] \in Says
      BY <1>1, <1>2, <2>1
    <3>2. now[i] = [issues[i] EXCEPT !.question = questions[i]]
      BY <1>3, <2>1
    <3> QED
      BY <3>1, <3>2 DEF Issue
  <2>2. CASE i \notin DOMAIN issues
    BY <1>1, <1>3, <2>2 DEF Issue
  <2> QED
    BY <2>1, <2>2
<1>5. now \in [1 .. Len(questions) -> Issue]
  BY <1>1, <1>3, <1>4
<1>6. now \in Seq(Issue)
  BY <1>1, <1>5, SeqDef
<1> QED
  BY <1>3, <1>4, <1>6 DEF now

(* A corrected content is one, and what is written in it is trimmed.        *)
LEMMA CorrectedIs ==
  ASSUME NEW content \in Content, NEW corrections, Accepted(corrections)
  PROVE  /\ Corrected(content, corrections) \in Content
         /\ TextsStand(content) => TextsStand(Corrected(content, corrections))
<1> DEFINE now == Corrected(content, corrections)
           Here(p) == p \in DOMAIN corrections
           Put(p, old) == IF Here(p) THEN Trim(corrections[p]) ELSE old
           linesAt == Place("users", 0)
           issuesAt == Place("issues", 0)
           Old == TextsStand(content)
<1>o. Old <=> /\ Stands(content.problem)
              /\ \A i \in DOMAIN content.users : Stands(content.users[i])
              /\ \A i \in DOMAIN content.issues : Stands(content.issues[i].question)
              /\ \A i \in DOMAIN content.criteria : Stands(FormatGwt(content.criteria[i]))
  BY TextsStandIs
<1> HIDE DEF Old
<1>p. \A p, old : /\ old \in Says => Put(p, old) \in Says
                  /\ Stands(old) => Stands(Put(p, old))
  BY AcceptedText
<1>1. now = [problem |-> now.problem, users |-> now.users,
             issues |-> now.issues, criteria |-> now.criteria]
  BY DEF Corrected
<1>2. now.problem \in Says /\ (Old => Stands(now.problem))
  <2>1. now.problem = Put(Place("problem", 0), content.problem)
    BY DEF Corrected
  <2> HIDE DEF now, Put
  <2> QED
    BY <1>o, <1>p, <2>1, ContentIs
<1>3. now.users \in Seq(Says) /\ (Old => \A i \in DOMAIN now.users : Stands(now.users[i]))
  <2>1. CASE linesAt \in DOMAIN corrections
    <3>1. now.users = Items(corrections[linesAt]) /\ corrections[linesAt] \in Text
      BY <2>1, AcceptedText DEF Corrected
    <3> HIDE DEF now
    <3> QED
      BY <3>1, ItemsStand
  <2>2. CASE linesAt \notin DOMAIN corrections
    <3> DEFINE users == content.users
               f == [i \in DOMAIN users |-> Put(Place("users", i), users[i])]
    <3>1. now.users = f
      BY <2>2 DEF Corrected
    <3>2. /\ DOMAIN users = 1 .. Len(users) /\ Len(users) \in Nat
          /\ \A i \in DOMAIN users : users[i] \in Says
      BY ContentIs
    <3>3. Old => \A i \in DOMAIN users : Stands(users[i])
      BY <1>o
    <3> HIDE DEF now, Put, users
    <3>4. f \in [1 .. Len(users) -> Says] /\ (Old => \A i \in 1 .. Len(users) : Stands(f[i]))
      BY <1>p, <3>2, <3>3
    <3> HIDE DEF f
    <3>5. f \in Seq(Says) /\ DOMAIN f = 1 .. Len(users)
      BY <3>2, <3>4, SeqDef
    <3> QED
      BY <3>1, <3>4, <3>5
  <2> QED
    BY <2>1, <2>2
<1>4. now.issues \in Seq(Issue) /\ (Old => \A i \in DOMAIN now.issues : Stands(now.issues[i].question))
  <2> DEFINE issues == content.issues
  <2>0. /\ issues \in Seq(Issue) /\ DOMAIN issues = 1 .. Len(issues) /\ Len(issues) \in Nat
        /\ \A i \in DOMAIN issues : issues[i] \in Issue
    BY ContentIs
  <2>1. CASE issuesAt \in DOMAIN corrections
    <3> DEFINE items == Items(corrections[issuesAt])
    <3>1. now.issues = Relined(issues, items) /\ corrections[issuesAt] \in Text
      BY <2>1, AcceptedText DEF Corrected
    <3>2. items \in Seq(Says) /\ \A i \in DOMAIN items : Stands(items[i])
      BY <3>1, ItemsStand
    <3> HIDE DEF items, issues, now
    <3> QED
      BY <2>0, <3>1, <3>2, RelinedIs
  <2>2. CASE issuesAt \notin DOMAIN corrections
    <3> DEFINE Text2(i) == Put(Place("issues", i), issues[i].question)
               f == [i \in DOMAIN issues |-> [issues[i] EXCEPT !.question = Text2(i)]]
    <3>1. now.issues = f
      BY <2>2 DEF Corrected
    <3>2. Old => \A i \in DOMAIN issues : Stands(issues[i].question)
      BY <1>o
    <3> HIDE DEF now, Put, issues
    <3>3. \A i \in DOMAIN issues :
            issues[i].question \in Says /\ Text2(i) \in Says /\ (Old => Stands(Text2(i)))
      BY <1>p, <2>0, <3>2 DEF Issue
    <3> HIDE DEF Text2
    <3>4. \A i \in DOMAIN issues :
            [issues[i] EXCEPT !.question = Text2(i)] \in Issue /\ f[i].question = Text2(i)
      BY <2>0, <3>3 DEF Issue
    <3>5. f \in [1 .. Len(issues) -> Issue] /\ DOMAIN f = DOMAIN issues
      BY <2>0, <3>4
    <3> HIDE DEF f
    <3>6. f \in Seq(Issue)
      BY <2>0, <3>5, SeqDef
    <3> QED
      BY <3>1, <3>3, <3>4, <3>5, <3>6
  <2> QED
    BY <2>1, <2>2
<1>5. now.criteria \in Seq(Gwt) /\ (Old => \A i \in DOMAIN now.criteria : Stands(FormatGwt(now.criteria[i])))
  <2> DEFINE criteria == content.criteria
             at(i) == Place("criteria", i)
             Gwt2(i) == IF Here(at(i)) THEN ParseGwt(Trim(corrections[at(i)])) ELSE criteria[i]
             f == [i \in DOMAIN criteria |-> Gwt2(i)]
  <2>1. now.criteria = f
    BY DEF Corrected
  <2>2. /\ DOMAIN criteria = 1 .. Len(criteria) /\ Len(criteria) \in Nat
        /\ \A i \in DOMAIN criteria : criteria[i] \in Gwt
    BY ContentIs
  <2>3. Old => \A i \in DOMAIN criteria : Stands(FormatGwt(criteria[i]))
    BY <1>o
  <2> HIDE DEF now, criteria
  <2>4. \A i \in DOMAIN criteria : Gwt2(i) \in Gwt /\ (Old => Stands(FormatGwt(Gwt2(i))))
    <3> TAKE i \in DOMAIN criteria
    <3>1. CASE Here(at(i))
      <4>1. Trim(corrections[at(i)]) \in Says /\ at(i).part = "criteria"
        BY <3>1, AcceptedText DEF Place
      <4>2. Cuts(Trim(corrections[at(i)])) # {}
        BY <3>1, <4>1 DEF Accepted, Accepts
      <4>3. Trim(corrections[at(i)]) \in Text
        BY <4>1 DEF Says
      <4>4. Gwt2(i) = ParseGwt(Trim(corrections[at(i)]))
        BY <3>1
      <4> HIDE DEF Gwt2, at
      <4> QED
        BY <4>2, <4>3, <4>4, ParseProperties DEF Stands
    <3>2. CASE ~Here(at(i))
      BY <2>2, <2>3, <3>2
    <3> QED
      BY <3>1, <3>2
  <2> HIDE DEF Gwt2
  <2>5. f \in [1 .. Len(criteria) -> Gwt] /\ \A i \in DOMAIN criteria : f[i] = Gwt2(i)
    BY <2>2, <2>4
  <2> HIDE DEF f
  <2>6. f \in Seq(Gwt) /\ DOMAIN f = DOMAIN criteria
    BY <2>2, <2>5, SeqDef
  <2> QED
    BY <2>1, <2>4, <2>5, <2>6
<1> HIDE DEF now
<1>6. now \in Content
  BY <1>1, <1>2, <1>3, <1>4, <1>5 DEF Content
<1> QED
  BY <1>2, <1>3, <1>4, <1>5, <1>6, TextsStandIs DEF now, Old

-----------------------------------------------------------------------------
(* The assembly of a version                                                *)

PromotedSlots == {s \in Slots : rows[s] # NotPromoted}

(* A slot is listed with the assignee of its row.                           *)
Lists(issues, s) ==
  \E i \in DOMAIN issues : issues[i].slot = s /\ issues[i].assignee = rows[s]

(* The issues that were there stay in their places, with their questions,   *)
(* and those behind them ask what their slots ask.                          *)
Continues(before, after) ==
  /\ DOMAIN before \subseteq DOMAIN after
  /\ \A i \in DOMAIN before :
       after[i].slot = before[i].slot /\ after[i].question = before[i].question
  /\ \A i \in DOMAIN after \ DOMAIN before : \E s \in Slots : after[i].question = Question[s]

(* One promoted slot: it is listed, and nothing else is lost.               *)
LEMMA WithPromotedLists ==
  ASSUME NEW issues \in Seq(Issue), NEW s \in Slots,
         rows \in [Slots -> Assignees \cup {NotPromoted}], rows[s] # NotPromoted
  PROVE  /\ WithPromoted(issues, s) \in Seq(Issue)
         /\ Continues(issues, WithPromoted(issues, s))
         /\ Lists(WithPromoted(issues, s), s)
         /\ \A r \in Slots : Lists(issues, r) => Lists(WithPromoted(issues, s), r)
<1> DEFINE mine == {i \in DOMAIN issues : issues[i].slot = s}
           now == WithPromoted(issues, s)
<1>2. rows[s] \in Assignees
  OBVIOUS
<1>3. /\ Len(issues) \in Nat /\ DOMAIN issues = 1 .. Len(issues)
      /\ \A i \in DOMAIN issues : issues[i] \in Issue
  BY LenProperties, ElementOfSeq
<1>4. CASE mine # {}
  <2> DEFINE m == Min(mine)
  <2>1. m \in mine
    <3>1. mine \in SUBSET Nat
      BY <1>3
    <3>2. \E x \in mine : \A y \in mine : x <= y
      BY <1>4, <3>1, LeastExists
    <3> QED
      BY <3>2 DEF Min
  <2>2. now = [issues EXCEPT ![m].assignee = rows[s]]
    BY <1>4 DEF WithPromoted
  <2>3. m \in DOMAIN issues /\ issues[m].slot = s
    BY <2>1
  <2> HIDE DEF m, mine
  <2>4. [issues[m] EXCEPT !.assignee = rows[s]] \in Issue
    BY <1>2, <1>3, <2>3 DEF Issue
  <2>5. now = [issues EXCEPT ![m] = [issues[m] EXCEPT !.assignee = rows[s]]]
    BY <1>3, <2>2, <2>3
  <2>6. /\ now \in Seq(Issue) /\ DOMAIN now = DOMAIN issues
        /\ \A i \in DOMAIN issues :
             now[i] = IF i = m THEN [issues[m] EXCEPT !.assignee = rows[s]] ELSE issues[i]
    BY <1>3, <2>3, <2>4, <2>5, ExceptSeq, LenProperties
  <2>7. /\ now[m].slot = s /\ now[m].question = issues[m].question /\ now[m].assignee = rows[s]
    BY <1>3, <2>3, <2>6 DEF Issue
  <2> HIDE DEF now
  <2>9. Continues(issues, now)
    BY <2>3, <2>6, <2>7 DEF Continues
  <2>10. Lists(now, s)
    BY <2>3, <2>6, <2>7 DEF Lists
  <2>11. ASSUME NEW r \in Slots, Lists(issues, r) PROVE Lists(now, r)
    <3>1. PICK i \in DOMAIN issues : issues[i].slot = r /\ issues[i].assignee = rows[r]
      BY <2>11 DEF Lists
    <3>2. now[i].slot = r /\ now[i].assignee = rows[r]
      BY <2>3, <2>6, <2>7, <3>1
    <3> QED
      BY <2>6, <3>2 DEF Lists
  <2> QED
    BY <2>6, <2>9, <2>10, <2>11 DEF now
<1>5. CASE mine = {}
  <2> DEFINE issue == [slot |-> s, question |-> Question[s], assignee |-> rows[s]]
  <2>1. now = Append(issues, issue)
    BY <1>5 DEF WithPromoted
  <2>2. issue \in Issue
    BY <1>2, QuestionStands DEF Issue
  <2>4. issue.slot = s /\ issue.assignee = rows[s] /\ issue.question = Question[s]
    OBVIOUS
  <2> HIDE DEF issue
  <2>5. /\ now \in Seq(Issue) /\ Len(now) = Len(issues) + 1
        /\ \A i \in 1 .. Len(issues) : now[i] = issues[i]
        /\ now[Len(issues) + 1] = issue
    BY <2>1, <2>2, AppendProperties
  <2>6. DOMAIN now = 1 .. Len(issues) + 1
    <3> HIDE DEF now
    <3> QED
      BY <2>5, LenProperties
  <2> HIDE DEF now
  <2>8. Continues(issues, now)
    <3>1. \A i \in DOMAIN now \ DOMAIN issues : now[i].question = Question[s]
      BY <1>3, <2>4, <2>5, <2>6
    <3> QED
      BY <1>3, <2>5, <2>6, <3>1 DEF Continues
  <2>9. Lists(now, s)
    <3>1. Len(issues) + 1 \in DOMAIN now
      BY <1>3, <2>6
    <3> QED
      BY <2>4, <2>5, <3>1 DEF Lists
  <2>10. ASSUME NEW r \in Slots, Lists(issues, r) PROVE Lists(now, r)
    <3>1. PICK i \in DOMAIN issues : issues[i].slot = r /\ issues[i].assignee = rows[r]
      BY <2>10 DEF Lists
    <3>2. i \in DOMAIN now /\ now[i] = issues[i]
      BY <1>3, <2>5, <2>6
    <3> QED
      BY <3>1, <3>2 DEF Lists
  <2> QED
    BY <2>5, <2>8, <2>9, <2>10 DEF now
<1> QED
  BY <1>4, <1>5

(* The issues after the first n of the slots, for n up to len.              *)
Step(kept, order, n) == WithPromoted(kept[n - 1], order[n])
Goes(kept, issues, order, len) ==
  /\ kept = [n \in 0 .. len |-> kept[n]]
  /\ kept[0] = issues
  /\ \A n \in 1 .. len : kept[n] = Step(kept, order, n)

(* There is such a list of lists for every length.                          *)
LEMMA GoesExists ==
  ASSUME NEW issues, NEW order, NEW len \in Nat
  PROVE  \E kept : Goes(kept, issues, order, len)
<1> DEFINE Bad == {n \in Nat : ~\E kept : Goes(kept, issues, order, n)}
<1> SUFFICES ASSUME Bad # {} PROVE FALSE
  OBVIOUS
<1>1. PICK m \in Bad : \A n \in Bad : m <= n
  <2>1. Bad \in SUBSET Nat
    OBVIOUS
  <2> HIDE DEF Bad
  <2> QED
    BY <2>1, LeastExists
<1>2. CASE m = 0
  <2> DEFINE first == [n \in 0 .. 0 |-> issues]
  <2>1. Goes(first, issues, order, 0)
    BY DEF Goes
  <2> QED
    BY <1>2, <2>1
<1>3. CASE m # 0
  <2>1. m \in Nat /\ m - 1 \in Nat /\ m - 1 \notin Bad
    BY <1>1, <1>3
  <2>2. PICK kept : Goes(kept, issues, order, m - 1)
    BY <2>1
  <2> DEFINE next == [n \in 0 .. m |-> IF n # m THEN kept[n] ELSE Step(kept, order, m)]
  <2>3. next[0] = issues
    BY <1>3, <2>1, <2>2 DEF Goes
  <2>4. ASSUME NEW n \in 1 .. m PROVE next[n] = Step(next, order, n)
    <3>1. n \in 0 .. m /\ n - 1 \in 0 .. m /\ n - 1 # m
      BY <2>1
    <3>2. next[n - 1] = kept[n - 1]
      BY <3>1
    <3>3. Step(next, order, n) = Step(kept, order, n)
      BY <3>2 DEF Step
    <3>4. CASE n = m
      BY <3>1, <3>3, <3>4
    <3>5. CASE n # m
      <4>1. n \in 1 .. (m - 1)
        BY <2>1, <3>5
      <4>2. next[n] = kept[n]
        BY <3>1, <3>5
      <4> HIDE DEF next
      <4> QED
        BY <2>2, <3>3, <4>1, <4>2 DEF Goes
    <3> QED
      BY <3>4, <3>5
  <2>5. next = [n \in 0 .. m |-> next[n]]
    OBVIOUS
  <2> HIDE DEF next
  <2>6. Goes(next, issues, order, m)
    BY <2>3, <2>4, <2>5 DEF Goes
  <2> QED
    BY <1>1, <2>6
<1> QED
  BY <1>2, <1>3

(* The assembly is what such a list says of all slots.                      *)
LEMMA AssembledGoes ==
  ASSUME NEW content, NEW order, Len(order) \in Nat
  PROVE  \E kept : /\ Goes(kept, content.issues, order, Len(order))
                   /\ Assembled(content, order) = [content EXCEPT !.issues = kept[Len(order)]]
<1> DEFINE issues == content.issues
           Body(kept) == [n \in 0 .. Len(order) |->
                            IF n = 0 THEN issues ELSE WithPromoted(kept[n - 1], order[n])]
           chosen == CHOOSE kept : kept = Body(kept)
<1>1. PICK kept : Goes(kept, issues, order, Len(order))
  BY GoesExists
<1>2. kept = Body(kept)
  <2>1. kept = [n \in 0 .. Len(order) |-> kept[n]]
    BY <1>1 DEF Goes
  <2>2. ASSUME NEW n \in 0 .. Len(order) PROVE kept[n] = Body(kept)[n]
    <3>1. n = 0 \/ n \in 1 .. Len(order)
      OBVIOUS
    <3> QED
      BY <1>1, <3>1 DEF Goes, Step
  <2> QED
    BY <2>1, <2>2
<1>3. chosen = Body(chosen)
  BY <1>2
<1>4. Assembled(content, order) = [content EXCEPT !.issues = chosen[Len(order)]]
  BY DEF Assembled
<1> HIDE DEF chosen
<1>5. Goes(chosen, issues, order, Len(order))
  <2>1. chosen = [n \in 0 .. Len(order) |-> Body(chosen)[n]]
    BY <1>3
  <2>2. \A n \in 0 .. Len(order) : chosen[n] = Body(chosen)[n]
    BY <1>3
  <2>3. chosen = [n \in 0 .. Len(order) |-> chosen[n]]
    BY <2>1, <2>2
  <2>4. chosen[0] = issues
    BY <2>2
  <2>5. ASSUME NEW n \in 1 .. Len(order) PROVE chosen[n] = Step(chosen, order, n)
    <3>1. n \in 0 .. Len(order) /\ n # 0
      OBVIOUS
    <3> QED
      BY <2>2, <3>1 DEF Step
  <2> QED
    BY <2>3, <2>4, <2>5 DEF Goes
<1> QED
  BY <1>4, <1>5

(* On the way no issue is lost, and the slots so far are listed.            *)
LEMMA OnTheWay ==
  ASSUME NEW kept, NEW issues, NEW order, NEW len \in Nat, Goes(kept, issues, order, len),
         issues \in Seq(Issue), rows \in [Slots -> Assignees \cup {NotPromoted}],
         \A n \in 1 .. len : order[n] \in PromotedSlots
  PROVE  \A n \in 0 .. len :
           /\ kept[n] \in Seq(Issue) /\ Continues(issues, kept[n])
           /\ \A k \in 1 .. n : Lists(kept[n], order[k])
<1> DEFINE Good(n) == /\ kept[n] \in Seq(Issue) /\ Continues(issues, kept[n])
                      /\ \A k \in 1 .. n : Lists(kept[n], order[k])
           Bad == {n \in 0 .. len : ~Good(n)}
<1> SUFFICES ASSUME Bad # {} PROVE FALSE
  OBVIOUS
<1>1. PICK m \in Bad : \A n \in Bad : m <= n
  <2>1. Bad \in SUBSET Nat
    OBVIOUS
  <2> HIDE DEF Bad
  <2> QED
    BY <2>1, LeastExists
<1>2. Good(0)
  BY DEF Goes, Continues
<1>3. m \in 1 .. len /\ m - 1 \in 0 .. len /\ Good(m - 1)
  BY <1>1, <1>2
<1>4. kept[m] = WithPromoted(kept[m - 1], order[m]) /\ order[m] \in PromotedSlots
  BY <1>3 DEF Goes, Step
<1>5. /\ kept[m] \in Seq(Issue) /\ Continues(kept[m - 1], kept[m]) /\ Lists(kept[m], order[m])
      /\ \A r \in Slots : Lists(kept[m - 1], r) => Lists(kept[m], r)
  <2>1. kept[m - 1] \in Seq(Issue)
    BY <1>3
  <2> QED
    BY <1>4, <2>1, WithPromotedLists DEF PromotedSlots
<1>6. Continues(issues, kept[m])
  <2>1. Continues(issues, kept[m - 1])
    BY <1>3
  <2> QED
    BY <1>5, <2>1 DEF Continues
<1>7. ASSUME NEW k \in 1 .. m PROVE Lists(kept[m], order[k])
  <2>1. CASE k = m
    BY <1>5, <2>1
  <2>2. CASE k # m
    <3>1. k \in 1 .. m - 1 /\ k \in 1 .. len
      BY <1>3, <2>2
    <3>2. Lists(kept[m - 1], order[k]) /\ order[k] \in Slots
      BY <1>3, <3>1 DEF PromotedSlots
    <3> QED
      BY <1>5, <3>2
  <2> QED
    BY <2>1, <2>2
<1> QED
  BY <1>1, <1>5, <1>6, <1>7

(* A version lists every promoted slot, and loses no issue by it.           *)
LEMMA AssembledLists ==
  ASSUME NEW content \in Content, NEW order \in SetToSeqs(PromotedSlots),
         rows \in [Slots -> Assignees \cup {NotPromoted}]
  PROVE  LET now == Assembled(content, order)
         IN /\ now \in Content
            /\ now.problem = content.problem /\ now.users = content.users
            /\ now.criteria = content.criteria
            /\ Continues(content.issues, now.issues)
            /\ \A s \in PromotedSlots : Lists(now.issues, s)
<1> DEFINE size == Cardinality(PromotedSlots)
           now == Assembled(content, order)
<1>1. IsFiniteSet(PromotedSlots) /\ size \in Nat
  <2>1. PromotedSlots \in SUBSET Slots
    BY DEF PromotedSlots
  <2> QED
    BY <2>1, PathAssumption, FS_Subset, FS_CardinalityType
<1>2. /\ order \in [1 .. size -> PromotedSlots]
      /\ \A i, j \in 1 .. size : i # j => order[i] # order[j]
  BY DEF SetToSeqs
<1>3. order \in Seq(PromotedSlots) /\ Len(order) = size
  <2>1. order \in Seq(PromotedSlots)
    <3> HIDE DEF size
    <3> QED
      BY <1>1, <1>2, SeqDef
  <2>2. DOMAIN order = 1 .. size
    BY <1>2
  <2> HIDE DEF size
  <2> QED
    BY <1>1, <2>1, <2>2
<1>4. \A s \in PromotedSlots : \E n \in 1 .. size : order[n] = s
  <2>1. order \in Injection(1 .. size, PromotedSlots)
    BY <1>2 DEF Injection, IsInjective
  <2>2. Cardinality(1 .. size) = size
    <3> HIDE DEF size
    <3> QED
      BY <1>1, FS_Interval
  <2>3. order \in Surjection(1 .. size, PromotedSlots)
    BY <1>1, <2>1, <2>2, FS_Injection
  <2> QED
    BY <2>3 DEF Surjection
<1> HIDE DEF size
<1>5. PICK kept : /\ Goes(kept, content.issues, order, size)
                  /\ now = [content EXCEPT !.issues = kept[size]]
  BY <1>1, <1>3, AssembledGoes
<1>6. /\ kept[size] \in Seq(Issue) /\ Continues(content.issues, kept[size])
      /\ \A k \in 1 .. size : Lists(kept[size], order[k])
  <2>1. \A n \in 1 .. size : order[n] \in PromotedSlots
    BY <1>2
  <2>2. content.issues \in Seq(Issue)
    BY ContentIs
  <2>3. size \in 0 .. size
    BY <1>1
  <2> QED
    BY <1>1, <1>5, <2>1, <2>2, <2>3, OnTheWay
<1>7. now = [problem |-> content.problem, users |-> content.users,
             issues |-> kept[size], criteria |-> content.criteria]
  BY <1>5, ContentIs
<1> HIDE DEF now
<1>8. /\ now.issues = kept[size] /\ now.problem = content.problem /\ now.users = content.users
      /\ now.criteria = content.criteria
  BY <1>7
<1>9. now \in Content
  BY <1>6, <1>7, ContentIs DEF Content
<1>10. \A s \in PromotedSlots : Lists(now.issues, s)
  BY <1>4, <1>6, <1>8
<1> QED
  BY <1>6, <1>8, <1>9, <1>10 DEF now

(* What is listed anew asks what its slot asks, so its text stands as well. *)
LEMMA AssembledStands ==
  ASSUME NEW content \in Content, TextsStand(content), NEW order \in SetToSeqs(PromotedSlots),
         rows \in [Slots -> Assignees \cup {NotPromoted}]
  PROVE  TextsStand(Assembled(content, order))
<1> DEFINE now == Assembled(content, order)
<1>1. /\ now \in Content /\ now.problem = content.problem /\ now.users = content.users
      /\ now.criteria = content.criteria /\ Continues(content.issues, now.issues)
  BY AssembledLists
<1> HIDE DEF now
<1>2. /\ Stands(content.problem)
      /\ \A i \in DOMAIN content.users : Stands(content.users[i])
      /\ \A i \in DOMAIN content.issues : Stands(content.issues[i].question)
      /\ \A i \in DOMAIN content.criteria : Stands(FormatGwt(content.criteria[i]))
  BY TextsStandIs
<1>3. ASSUME NEW i \in DOMAIN now.issues PROVE Stands(now.issues[i].question)
  <2>1. CASE i \in DOMAIN content.issues
    BY <1>1, <1>2, <2>1 DEF Continues
  <2>2. CASE i \notin DOMAIN content.issues
    <3>1. PICK s \in Slots : now.issues[i].question = Question[s]
      BY <1>1, <1>3, <2>2 DEF Continues
    <3> QED
      BY <3>1, QuestionStands
  <2> QED
    BY <2>1, <2>2
<1>4. TextsStand(now)
  BY <1>1, <1>2, <1>3, TextsStandIs
<1> QED
  BY <1>4 DEF now

(* An element that no correction names, in itself or with its list, is in   *)
(* the version that the corrections end in, and reads as before.            *)
LEMMA OutsideStands ==
  ASSUME NEW content \in Content, NEW corrections, Accepted(corrections),
         NEW paths, DOMAIN corrections \subseteq paths,
         NEW order \in SetToSeqs(PromotedSlots),
         rows \in [Slots -> Assignees \cup {NotPromoted}]
  PROVE  SameOutside(content, paths, Assembled(Corrected(content, corrections), order))
<1> DEFINE middle == Corrected(content, corrections)
           now == Assembled(middle, order)
<1>1. middle \in Content
  BY CorrectedIs
<1> HIDE DEF middle
<1>2. /\ now \in Content /\ now.problem = middle.problem /\ now.users = middle.users
      /\ now.criteria = middle.criteria /\ Continues(middle.issues, now.issues)
  BY <1>1, AssembledLists
<1> HIDE DEF now
<1> SUFFICES ASSUME NEW p \in Elements(content), p \notin paths, Place(p.part, 0) \notin paths
             PROVE  p \in Elements(now) /\ Read(now, p) = Read(content, p)
  BY DEF SameOutside, now, middle
<1>3. p \notin DOMAIN corrections /\ Place(p.part, 0) \notin DOMAIN corrections
  OBVIOUS
<1>4. CASE p = Place("problem", 0)
  <2>1. now.problem = content.problem
    BY <1>2, <1>3, <1>4 DEF middle, Corrected
  <2>2. p \in Elements(now)
    BY <1>4 DEF Elements
  <2> QED
    BY <1>2, <1>4, <2>1, <2>2, ElementReads
<1>5. CASE \E i \in DOMAIN content.users : p = Place("users", i)
  <2>1. PICK i \in DOMAIN content.users : p = Place("users", i)
    BY <1>5
  <2>2. Place("users", 0) \notin DOMAIN corrections /\ Place("users", i) \notin DOMAIN corrections
    BY <1>3, <2>1 DEF Place
  <2>3. DOMAIN middle.users = DOMAIN content.users /\ middle.users[i] = content.users[i]
    BY <2>2 DEF middle, Corrected
  <2>4. p \in Elements(now)
    BY <1>2, <2>1, <2>3 DEF Elements
  <2> QED
    BY <1>2, <2>1, <2>3, <2>4, ElementReads
<1>6. CASE \E i \in DOMAIN content.issues : p = Place("issues", i)
  <2>1. PICK i \in DOMAIN content.issues : p = Place("issues", i)
    BY <1>6
  <2>2. Place("issues", 0) \notin DOMAIN corrections /\ Place("issues", i) \notin DOMAIN corrections
    BY <1>3, <2>1 DEF Place
  <2>3. /\ DOMAIN middle.issues = DOMAIN content.issues
        /\ middle.issues[i] = [content.issues[i] EXCEPT !.question = content.issues[i].question]
    BY <2>2 DEF middle, Corrected
  <2>4. content.issues[i] \in Issue
    BY ContentIs
  <2>5. middle.issues[i].question = content.issues[i].question
    BY <2>3, <2>4 DEF Issue
  <2>6. i \in DOMAIN now.issues /\ now.issues[i].question = content.issues[i].question
    BY <1>2, <2>3, <2>5 DEF Continues
  <2>7. p \in Elements(now)
    BY <2>1, <2>6 DEF Elements
  <2> QED
    BY <1>2, <2>1, <2>6, <2>7, ElementReads
<1>7. CASE \E i \in DOMAIN content.criteria : p = Place("criteria", i)
  <2>1. PICK i \in DOMAIN content.criteria : p = Place("criteria", i)
    BY <1>7
  <2>2. DOMAIN middle.criteria = DOMAIN content.criteria /\ middle.criteria[i] = content.criteria[i]
    BY <1>3, <2>1 DEF middle, Corrected
  <2>3. p \in Elements(now)
    BY <1>2, <2>1, <2>2 DEF Elements
  <2> QED
    BY <1>2, <2>1, <2>2, <2>3, ElementReads
<1> QED
  BY <1>4, <1>5, <1>6, <1>7 DEF Elements

-----------------------------------------------------------------------------
(* What is written                                                          *)

(* The invariant: the latest version and the one an instruction waits with  *)
(* are contents whose texts stand, and one instruction waits at most.       *)
DocInv ==
  /\ rows \in [Slots -> Assignees \cup {NotPromoted}] /\ version \in 1..MaxVersions
  /\ doc \in Content /\ TextsStand(doc)
  /\ \A job \in asked : /\ job.content \in Content /\ TextsStand(job.content)
                        /\ \A p \in job.paths : Exists(job.content, p)
  /\ \A job, other \in asked : job = other

(* A step of the document, with whatever addresses and texts: those of this *)
(* specification's instances and those that the card sends.                 *)
Replacing(replacements) == \A p \in DOMAIN replacements : replacements[p] \in Text
DocStep ==
  \/ \E output \in Outputs : Deliver(output)
  \/ \E table \in [Slots -> Assignees \cup {NotPromoted}] : Judge(table)
  \/ \E paths : \E text \in Text : Edit(paths, text)
  \/ \E paths : Instruct(paths)
  \/ \E replacements : Replacing(replacements) /\ InstructDone(replacements)

LEMMA NextIsDocStep == Next => DocStep
<1> SUFFICES ASSUME Next PROVE DocStep
  OBVIOUS
<1>1. ASSUME NEW paths \in Edits, NEW text \in Texts, Edit(paths, text) PROVE DocStep
  <2>1. text \in Text
    BY PathAssumption
  <2> QED
    BY <1>1, <2>1 DEF DocStep
<1>2. ASSUME NEW paths \in Answers, NEW replacements \in [paths -> Texts], InstructDone(replacements)
      PROVE  DocStep
  <2>1. Replacing(replacements)
    BY PathAssumption DEF Replacing
  <2> QED
    BY <1>2, <2>1 DEF DocStep
<1>3. ASSUME NEW output \in Outputs, Deliver(output) PROVE DocStep
  BY <1>3 DEF DocStep
<1>4. ASSUME NEW table \in [Slots -> Assignees \cup {NotPromoted}], Judge(table) PROVE DocStep
  BY <1>4 DEF DocStep
<1>5. ASSUME NEW paths \in Instructions, Instruct(paths) PROVE DocStep
  BY <1>5 DEF DocStep
<1> QED
  BY <1>1, <1>2, <1>3, <1>4, <1>5 DEF Next

(* A version that is written has the shape of a content and lists the       *)
(* promoted slots.                                                          *)
LEMMA Written ==
  ASSUME DocInv, NEW content \in Content, TextsStand(content), Write(content)
  PROVE  /\ doc' \in Content /\ TextsStand(doc') /\ rows' = rows
         /\ version' = version + 1 /\ version' \in 1..MaxVersions
         /\ \A s \in PromotedSlots : Lists(doc'.issues, s)
<1>1. PICK order \in SetToSeqs(PromotedSlots) : doc' = Assembled(content, order)
  BY DEF Write, PromotedSlots
<1>2. rows' = rows /\ version' = version + 1 /\ version' \in 1..MaxVersions
  BY PathAssumption DEF Write, DocInv
<1>3. rows \in [Slots -> Assignees \cup {NotPromoted}]
  BY DEF DocInv
<1> QED
  BY <1>1, <1>2, <1>3, AssembledLists, AssembledStands

(* An edit writes what it was given, if every address takes it.             *)
LEMMA EditWrites ==
  ASSUME DocInv, NEW paths, NEW text \in Text, Edit(paths, text)
  PROVE  LET corrections == [p \in paths |-> text]
         IN /\ Accepted(corrections) /\ DOMAIN corrections \subseteq paths
            /\ Corrected(doc, corrections) \in Content /\ TextsStand(Corrected(doc, corrections))
            /\ Write(Corrected(doc, corrections)) /\ asked' = asked
            /\ version + Cardinality(asked) < MaxVersions
<1> DEFINE corrections == [p \in paths |-> text]
<1>1. Accepted(corrections) /\ DOMAIN corrections \subseteq paths
  BY DEF Edit, Accepted
<1>2. /\ Write(Corrected(doc, corrections)) /\ asked' = asked
      /\ version + Cardinality(asked) < MaxVersions
  BY DEF Edit
<1> HIDE DEF corrections
<1>3. Corrected(doc, corrections) \in Content /\ TextsStand(Corrected(doc, corrections))
  BY <1>1, CorrectedIs DEF DocInv
<1> QED
  BY <1>1, <1>2, <1>3 DEF corrections

(* What comes back from the LLM is written on the content of its own job,   *)
(* or nothing is.                                                           *)
LEMMA DoneWrites ==
  ASSUME DocInv, NEW replacements, Replacing(replacements), InstructDone(replacements)
  PROVE  /\ asked' = {}
         /\ \E job \in asked :
              LET corrections == Allowed(replacements, job.paths)
              IN \/ UNCHANGED <<doc, version, rows>>
                 \/ /\ Accepted(corrections) /\ DOMAIN corrections \subseteq job.paths
                    /\ Corrected(job.content, corrections) \in Content
                    /\ TextsStand(Corrected(job.content, corrections))
                    /\ Write(Corrected(job.content, corrections))
<1>1. PICK job \in asked :
        LET corrections == Allowed(replacements, job.paths)
        IN /\ asked' = {}
           /\ \/ UNCHANGED <<doc, version, rows>>
              \/ /\ \A p \in DOMAIN corrections : Accepts(p, corrections[p])
                 /\ Write(Corrected(job.content, corrections))
  BY DEF InstructDone
<1> DEFINE corrections == Allowed(replacements, job.paths)
<1>2. CASE UNCHANGED <<doc, version, rows>>
  BY <1>1, <1>2
<1>3. CASE /\ \A p \in DOMAIN corrections : Accepts(p, corrections[p])
           /\ Write(Corrected(job.content, corrections))
  <2>1. /\ DOMAIN corrections = job.paths \cap DOMAIN replacements
        /\ \A p \in DOMAIN corrections : corrections[p] = replacements[p]
    BY DEF Allowed, Restrict
  <2>2. \A p \in DOMAIN corrections : Accepts(p, corrections[p])
    BY <1>3
  <2>3. Write(Corrected(job.content, corrections))
    BY <1>3
  <2> HIDE DEF corrections
  <2>4. Accepted(corrections)
    BY <2>1, <2>2 DEF Accepted, Replacing
  <2>5. job.content \in Content /\ TextsStand(job.content)
    BY DEF DocInv
  <2>6. /\ Corrected(job.content, corrections) \in Content
        /\ TextsStand(Corrected(job.content, corrections))
    BY <2>4, <2>5, CorrectedIs
  <2> QED
    BY <1>1, <2>1, <2>3, <2>4, <2>6 DEF corrections
<1> QED
  BY <1>1, <1>2, <1>3

(* Corrections that are written leave alone what they do not name.          *)
LEMMA WrittenOutside ==
  ASSUME DocInv, NEW content \in Content, NEW corrections, Accepted(corrections),
         NEW paths, DOMAIN corrections \subseteq paths, Write(Corrected(content, corrections))
  PROVE  SameOutside(content, paths, doc')
<1>1. PICK order \in SetToSeqs(PromotedSlots) : doc' = Assembled(Corrected(content, corrections), order)
  BY DEF Write, PromotedSlots
<1>2. SameOutside(content, paths, Assembled(Corrected(content, corrections), order))
  BY OutsideStands DEF DocInv
<1> QED
  BY <1>1, <1>2

LEMMA EditOutside ==
  ASSUME DocInv, NEW paths, NEW text \in Text, Edit(paths, text)
  PROVE  SameOutside(doc, paths, doc')
<1> DEFINE corrections == [p \in paths |-> text]
<1>1. /\ Accepted(corrections) /\ DOMAIN corrections \subseteq paths
      /\ Write(Corrected(doc, corrections))
  BY EditWrites
<1> HIDE DEF corrections
<1> QED
  BY <1>1, WrittenOutside DEF DocInv

LEMMA DocInvInit == Init => DocInv
<1> SUFFICES ASSUME Init PROVE DocInv
  OBVIOUS
<1>1. rows \in [Slots -> Assignees \cup {NotPromoted}] /\ version = 1 /\ asked = {}
  BY DEF Init
<1>2. PICK output \in Outputs, order \in SetToSeqs(PromotedSlots) : doc = Assembled(output, order)
  BY DEF Init, PromotedSlots
<1>3. doc \in Content /\ TextsStand(doc)
  BY <1>1, <1>2, OutputStands, AssembledLists, AssembledStands
<1>4. 1 \in 1..MaxVersions
  BY PathAssumption
<1> QED
  BY <1>1, <1>3, <1>4 DEF DocInv

(* Every step keeps the invariant.                                          *)
LEMMA DocInvNext == DocInv /\ (DocStep \/ UNCHANGED vars) => DocInv'
<1> SUFFICES ASSUME DocInv, DocStep \/ UNCHANGED vars PROVE DocInv'
  OBVIOUS
<1>1. ASSUME NEW output \in Outputs, Deliver(output) PROVE DocInv'
  <2>1. output \in Content /\ TextsStand(output) /\ Write(output) /\ asked' = asked
    BY <1>1, OutputStands DEF Deliver
  <2> QED
    BY <2>1, Written DEF DocInv
<1>2. ASSUME NEW table \in [Slots -> Assignees \cup {NotPromoted}], Judge(table) PROVE DocInv'
  BY <1>2 DEF DocInv, Judge
<1>3. ASSUME NEW paths, NEW text \in Text, Edit(paths, text) PROVE DocInv'
  <2> DEFINE content == Corrected(doc, [p \in paths |-> text])
  <2>1. content \in Content /\ TextsStand(content) /\ Write(content) /\ asked' = asked
    BY <1>3, EditWrites
  <2> HIDE DEF content
  <2> QED
    BY <2>1, Written DEF DocInv
<1>4. ASSUME NEW paths, Instruct(paths) PROVE DocInv'
  <2>1. /\ asked' = {[paths |-> paths, content |-> doc]}
        /\ doc' = doc /\ version' = version /\ rows' = rows
        /\ \A p \in paths : Exists(doc, p)
    BY <1>4 DEF Instruct
  <2> QED
    BY <2>1 DEF DocInv
<1>5. ASSUME NEW replacements, Replacing(replacements), InstructDone(replacements) PROVE DocInv'
  <2>1. PICK job \in asked :
          LET content == Corrected(job.content, Allowed(replacements, job.paths))
          IN \/ UNCHANGED <<doc, version, rows>>
             \/ content \in Content /\ TextsStand(content) /\ Write(content)
    BY <1>5, DoneWrites
  <2>2. asked' = {}
    BY <1>5, DoneWrites
  <2>3. CASE UNCHANGED <<doc, version, rows>>
    BY <2>2, <2>3 DEF DocInv
  <2>4. CASE ~UNCHANGED <<doc, version, rows>>
    <3>1. /\ doc' \in Content /\ TextsStand(doc') /\ rows' = rows
          /\ version' \in 1..MaxVersions
      BY <2>1, <2>4, Written
    <3> QED
      BY <2>2, <3>1 DEF DocInv
  <2> QED
    BY <2>3, <2>4
<1>6. CASE UNCHANGED vars
  BY <1>6 DEF vars, DocInv
<1> QED
  BY <1>1, <1>2, <1>3, <1>4, <1>5, <1>6 DEF DocStep

(* The invariant says the types.                                            *)
LEMMA DocInvTypes == DocInv => TypeOK
BY DEF DocInv, TypeOK, TextsStand, Stands

-----------------------------------------------------------------------------
(* The theorems of the document                                             *)

(* The latest version, and the one an instruction waits with, are contents  *)
(* of non-empty texts, each trimmed or as the LLM or a slot gave it, and one *)
(* instruction waits at most: what the LLM's output, every correction and   *)
(* the assembly preserve.                                                   *)
THEOREM DocInvariance == Spec => []DocInv
<1>1. DocInv /\ [Next]_vars => DocInv'
  BY DocInvNext, NextIsDocStep
<1> QED
  BY <1>1, DocInvInit, PTL DEF Spec

(* No version has an empty text, and what a requester wrote stands trimmed  *)
(* (applyDocumentCorrections, requirementsDocumentSchema).                  *)
THEOREM DocumentTypes == Spec => []TypeOK
BY DocInvariance, DocInvTypes, PTL

(* Every version lists every promoted slot with the assignee of its row,    *)
(* whatever the LLM wrote, whichever lines a correction took out and in     *)
(* whichever order the slots are gone through (assembleRequirementsDocument, *)
(* by code and not by prompt).                                              *)
THEOREM PromotedListed == Spec => PromotedIsListed
<1>1. ASSUME DocInv, DocStep, version' > version, NEW s \in Slots, rows[s] # NotPromoted
      PROVE  \E i \in DOMAIN doc'.issues : /\ doc'.issues[i].slot = s
                                           /\ doc'.issues[i].assignee = rows[s]
  <2>0. version' # version
    BY <1>1 DEF DocInv
  <2>1. \E content \in Content : TextsStand(content) /\ Write(content)
    <3>1. ASSUME NEW output \in Outputs, Deliver(output)
          PROVE  \E content \in Content : TextsStand(content) /\ Write(content)
      BY <3>1, OutputStands DEF Deliver
    <3>2. ASSUME NEW paths, NEW text \in Text, Edit(paths, text)
          PROVE  \E content \in Content : TextsStand(content) /\ Write(content)
      BY <1>1, <3>2, EditWrites
    <3>3. ASSUME NEW replacements, Replacing(replacements), InstructDone(replacements)
          PROVE  \E content \in Content : TextsStand(content) /\ Write(content)
      BY <1>1, <2>0, <3>3, DoneWrites
    <3>4. ~(\E table : Judge(table)) /\ ~(\E paths : Instruct(paths))
      BY <2>0 DEF Judge, Instruct
    <3> QED
      BY <1>1, <3>1, <3>2, <3>3, <3>4 DEF DocStep
  <2>2. Lists(doc'.issues, s)
    BY <1>1, <2>1, Written DEF PromotedSlots
  <2> QED
    BY <2>2 DEF Lists
<1>2. DocInv /\ [Next]_vars =>
        (version' > version =>
           \A s \in Slots : rows[s] # NotPromoted =>
             \E i \in DOMAIN doc'.issues : /\ doc'.issues[i].slot = s
                                           /\ doc'.issues[i].assignee = rows[s])
  <2>1. ASSUME DocInv, [Next]_vars, version' > version PROVE DocStep
    BY <2>1, NextIsDocStep DEF vars, DocInv
  <2> QED
    BY <1>1, <2>1
<1> QED
  BY <1>2, DocInvariance, PTL DEF Spec, PromotedIsListed

(* What stands outside the named addresses reads as before, in the document *)
(* an edit meets and, for an instruction, in the one it was asked for,      *)
(* however many edits came in between (applyDocumentCorrections, ADR-0016). *)
THEOREM OutsideIsKept == Spec => NamedOnly
<1>1. ASSUME DocInv, NEW paths \in Edits, NEW text \in Texts, Edit(paths, text)
      PROVE  SameOutside(doc, paths, doc')
  <2>1. text \in Text
    BY PathAssumption
  <2> QED
    BY <1>1, <2>1, EditOutside
<1>2. ASSUME DocInv, DocStep, version' > version, NEW job \in asked, asked' = {}
      PROVE  SameOutside(job.content, job.paths, doc')
  <2>1. version' # version /\ asked' # asked
    BY <1>2 DEF DocInv
  <2>2. PICK replacements : Replacing(replacements) /\ InstructDone(replacements)
    <3>1. \A output : ~Deliver(output)
      BY <2>1 DEF Deliver
    <3>2. (\A table : ~Judge(table)) /\ (\A ways : ~Instruct(ways))
      BY <2>1 DEF Judge, Instruct
    <3>3. \A ways, text : ~Edit(ways, text)
      BY <2>1 DEF Edit
    <3> QED
      BY <1>2, <3>1, <3>2, <3>3 DEF DocStep
  <2>3. PICK own \in asked :
          LET corrections == Allowed(replacements, own.paths)
          IN \/ UNCHANGED <<doc, version, rows>>
             \/ /\ Accepted(corrections) /\ DOMAIN corrections \subseteq own.paths
                /\ Write(Corrected(own.content, corrections))
    BY <1>2, <2>2, DoneWrites
  <2>4. own = job /\ job.content \in Content
    BY <1>2 DEF DocInv
  <2> DEFINE corrections == Allowed(replacements, job.paths)
  <2>5. /\ Accepted(corrections) /\ DOMAIN corrections \subseteq job.paths
        /\ Write(Corrected(job.content, corrections))
    BY <2>1, <2>3, <2>4
  <2> HIDE DEF corrections
  <2> QED
    BY <1>2, <2>4, <2>5, WrittenOutside
<1>3. DocInv /\ [Next]_vars =>
        (version' > version =>
           /\ \A paths \in Edits, text \in Texts : Edit(paths, text) => SameOutside(doc, paths, doc')
           /\ \A job \in asked : asked' = {} => SameOutside(job.content, job.paths, doc'))
  <2>1. ASSUME DocInv, [Next]_vars, version' > version PROVE DocStep
    BY <2>1, NextIsDocStep DEF vars, DocInv
  <2> QED
    BY <1>1, <1>2, <2>1
<1> QED
  BY <1>3, DocInvariance, PTL DEF Spec, NamedOnly

-----------------------------------------------------------------------------
(* Joined lines                                                             *)

(* The text of the first n items, for n up to len.                          *)
Link(text, items, n) ==
  IF n = 1 THEN items[1] ELSE text[n - 1] \o <<"nl">> \o items[n]
Joins(text, items, len) ==
  /\ text = [n \in 0 .. len |-> text[n]]
  /\ text[0] = <<>>
  /\ \A n \in 1 .. len : text[n] = Link(text, items, n)

LEMMA JoinsExist ==
  ASSUME NEW items, NEW len \in Nat
  PROVE  \E text : Joins(text, items, len)
<1> DEFINE Bad == {n \in Nat : ~\E text : Joins(text, items, n)}
<1> SUFFICES ASSUME Bad # {} PROVE FALSE
  OBVIOUS
<1>1. PICK m \in Bad : \A n \in Bad : m <= n
  <2>1. Bad \in SUBSET Nat
    OBVIOUS
  <2> HIDE DEF Bad
  <2> QED
    BY <2>1, LeastExists
<1>2. CASE m = 0
  <2> DEFINE first == [n \in 0 .. 0 |-> <<>>]
  <2>1. Joins(first, items, 0)
    BY DEF Joins
  <2> QED
    BY <1>2, <2>1
<1>3. CASE m # 0
  <2>1. m \in Nat /\ m - 1 \in Nat /\ m - 1 \notin Bad
    BY <1>1, <1>3
  <2>2. PICK text : Joins(text, items, m - 1)
    BY <2>1
  <2> DEFINE next == [n \in 0 .. m |-> IF n # m THEN text[n] ELSE Link(text, items, m)]
  <2>3. next[0] = <<>>
    BY <1>3, <2>1, <2>2 DEF Joins
  <2>4. ASSUME NEW n \in 1 .. m PROVE next[n] = Link(next, items, n)
    <3>1. n \in 0 .. m /\ n - 1 \in 0 .. m /\ n - 1 # m
      BY <2>1
    <3>2. next[n - 1] = text[n - 1]
      BY <3>1
    <3>3. Link(next, items, n) = Link(text, items, n)
      BY <3>2 DEF Link
    <3>4. CASE n = m
      BY <3>1, <3>3, <3>4
    <3>5. CASE n # m
      <4>1. n \in 1 .. (m - 1)
        BY <2>1, <3>5
      <4>2. next[n] = text[n]
        BY <3>1, <3>5
      <4> HIDE DEF next
      <4> QED
        BY <2>2, <3>3, <4>1, <4>2 DEF Joins
    <3> QED
      BY <3>4, <3>5
  <2>5. next = [n \in 0 .. m |-> next[n]]
    OBVIOUS
  <2> HIDE DEF next
  <2>6. Joins(next, items, m)
    BY <2>3, <2>4, <2>5 DEF Joins
  <2> QED
    BY <1>1, <2>6
<1> QED
  BY <1>2, <1>3

LEMMA JoinedJoins ==
  ASSUME NEW items, Len(items) \in Nat
  PROVE  \E text : Joins(text, items, Len(items)) /\ Joined(items) = text[Len(items)]
<1> DEFINE Body(text) == [n \in 0 .. Len(items) |->
                            IF n = 0 THEN <<>> ELSE IF n = 1 THEN items[1]
                            ELSE text[n - 1] \o <<"nl">> \o items[n]]
           chosen == CHOOSE text : text = Body(text)
<1>1. PICK text : Joins(text, items, Len(items))
  BY JoinsExist
<1>2. text = Body(text)
  <2>1. text = [n \in 0 .. Len(items) |-> text[n]]
    BY <1>1 DEF Joins
  <2>2. ASSUME NEW n \in 0 .. Len(items) PROVE text[n] = Body(text)[n]
    <3>1. n = 0 \/ n \in 1 .. Len(items)
      OBVIOUS
    <3> QED
      BY <1>1, <3>1 DEF Joins, Link
  <2> QED
    BY <2>1, <2>2
<1>3. chosen = Body(chosen)
  BY <1>2
<1>4. Joined(items) = chosen[Len(items)]
  BY DEF Joined
<1> HIDE DEF chosen
<1>5. Joins(chosen, items, Len(items))
  <2>1. chosen = [n \in 0 .. Len(items) |-> Body(chosen)[n]]
    BY <1>3
  <2>2. \A n \in 0 .. Len(items) : chosen[n] = Body(chosen)[n]
    BY <1>3
  <2>3. chosen = [n \in 0 .. Len(items) |-> chosen[n]]
    BY <2>1, <2>2
  <2>4. chosen[0] = <<>>
    BY <2>2
  <2>5. ASSUME NEW n \in 1 .. Len(items) PROVE chosen[n] = Link(chosen, items, n)
    <3>1. n \in 0 .. Len(items) /\ n # 0
      OBVIOUS
    <3> QED
      BY <2>2, <3>1 DEF Link
  <2> QED
    BY <2>3, <2>4, <2>5 DEF Joins
<1> QED
  BY <1>4, <1>5

(* Texts are joined to a text, and one of them is itself.                   *)
LEMMA JoinsText ==
  ASSUME NEW items \in Seq(Text), NEW text, Joins(text, items, Len(items))
  PROVE  \A n \in 0 .. Len(items) : text[n] \in Text
<1> DEFINE Bad == {n \in 0 .. Len(items) : text[n] \notin Text}
<1>0. Len(items) \in Nat /\ \A n \in 1 .. Len(items) : items[n] \in Text
  BY LenProperties, ElementOfSeq
<1> SUFFICES ASSUME Bad # {} PROVE FALSE
  OBVIOUS
<1>1. PICK m \in Bad : \A n \in Bad : m <= n
  <2>1. Bad \in SUBSET Nat
    BY <1>0
  <2> HIDE DEF Bad
  <2> QED
    BY <2>1, LeastExists
<1>2. m # 0
  <2>1. text[0] = <<>>
    BY DEF Joins
  <2>2. <<>> \in Text
    BY EmptySeq DEF Text
  <2> QED
    BY <1>1, <2>1, <2>2
<1>3. m \in 1 .. Len(items) /\ m - 1 \in 0 .. Len(items) /\ text[m - 1] \in Text
  BY <1>0, <1>1, <1>2
<1>4. text[m] = Link(text, items, m) /\ items[m] \in Text
  BY <1>0, <1>3 DEF Joins
<1>5. text[m] \in Text
  <2>1. CASE m = 1
    BY <1>4, <2>1 DEF Link
  <2>2. CASE m # 1
    <3>1. text[m] = text[m - 1] \o <<"nl">> \o items[m]
      BY <1>4, <2>2 DEF Link
    <3>2. <<"nl">> \in Text
      BY TokenText
    <3> QED
      BY <1>3, <1>4, <3>1, <3>2, ConcatText
  <2> QED
    BY <2>1, <2>2
<1> QED
  BY <1>1, <1>5

LEMMA JoinedText ==
  ASSUME NEW items \in Seq(Text)
  PROVE  Joined(items) \in Text /\ (Len(items) = 1 => Joined(items) = items[1])
<1>1. Len(items) \in Nat
  BY LenProperties
<1>2. PICK text : Joins(text, items, Len(items)) /\ Joined(items) = text[Len(items)]
  BY <1>1, JoinedJoins
<1>3. Joined(items) \in Text
  BY <1>1, <1>2, JoinsText
<1>4. Len(items) = 1 => Joined(items) = items[1]
  BY <1>2 DEF Joins, Link
<1> QED
  BY <1>3, <1>4

-----------------------------------------------------------------------------
(* The lines of the card                                                    *)

LEMMA NumberedIs ==
  ASSUME NEW part \in {"problem", "users", "issues", "criteria"}, NEW texts \in Seq(Text)
  PROVE  /\ Numbered(part, texts) \in Seq([text : Text, path : Address])
         /\ Len(Numbered(part, texts)) = Len(texts)
         /\ \A i \in 1 .. Len(texts) :
              Numbered(part, texts)[i] = [text |-> texts[i], path |-> Place(part, i)]
<1>1. Len(texts) \in Nat /\ DOMAIN texts = 1 .. Len(texts) /\ \A i \in 1 .. Len(texts) : texts[i] \in Text
  BY LenProperties, ElementOfSeq
<1> DEFINE f == Numbered(part, texts)
           U == [text : Text, path : Address]
<1>2. /\ DOMAIN f = 1 .. Len(texts) /\ f = [i \in 1 .. Len(texts) |-> f[i]]
      /\ \A i \in 1 .. Len(texts) : f[i] = [text |-> texts[i], path |-> Place(part, i)]
  BY <1>1 DEF Numbered
<1>3. \A i \in 1 .. Len(texts) : Place(part, i) \in Address
  BY <1>1 DEF Place, Address
<1>4. \A i \in 1 .. Len(texts) : f[i] \in U
  <2> HIDE DEF f
  <2> QED
    BY <1>1, <1>2, <1>3
<1> HIDE DEF f, U
<1>5. f \in [1 .. Len(texts) -> U]
  BY <1>2, <1>4
<1>6. f \in Seq(U)
  BY <1>1, <1>5, SeqDef
<1>7. Len(f) = Len(texts)
  BY <1>1, <1>2, <1>6, LenProperties
<1> QED
  BY <1>2, <1>6, <1>7 DEF f, U

(* One list behind another.                                                 *)
LEMMA Behind ==
  ASSUME NEW U, NEW a \in Seq(U), NEW b \in Seq(U)
  PROVE  /\ a \o b \in Seq(U) /\ Len(a) \in Nat /\ Len(b) \in Nat
         /\ Len(a \o b) = Len(a) + Len(b) /\ DOMAIN (a \o b) = 1 .. Len(a) + Len(b)
         /\ \A i \in 1 .. Len(a) : (a \o b)[i] = a[i]
         /\ \A i \in 1 .. Len(b) : (a \o b)[Len(a) + i] = b[i]
<1> DEFINE c == a \o b
           la == Len(a)
           lb == Len(b)
<1>1. /\ c \in Seq(U) /\ Len(c) = la + lb
      /\ \A i \in 1 .. la + lb : c[i] = IF i <= la THEN a[i] ELSE b[i - la]
  BY ConcatProperties
<1>2. la \in Nat /\ lb \in Nat /\ DOMAIN c = 1 .. Len(c)
  BY <1>1, LenProperties
<1> HIDE DEF c, la, lb
<1>3. \A i \in 1 .. la : c[i] = a[i]
  BY <1>1, <1>2
<1>4. ASSUME NEW i \in 1 .. lb PROVE c[la + i] = b[i]
  <2> DEFINE k == la + i
  <2>1. k \in 1 .. la + lb /\ ~(k <= la) /\ k - la = i
    BY <1>2
  <2> HIDE DEF k
  <2>2. c[k] = b[i]
    BY <1>1, <2>1
  <2> QED
    BY <2>2 DEF k
<1> QED
  BY <1>1, <1>2, <1>3, <1>4 DEF c, la, lb

(* The lines of the card are those of four parts: how many a part has, and  *)
(* how many there are before.                                               *)
Parts == {"problem", "users", "criteria", "issues"}
Count(content, part) ==
  CASE part = "problem"  -> 1
    [] part = "users"    -> Len(content.users)
    [] part = "criteria" -> Len(content.criteria)
    [] part = "issues"   -> Len(content.issues)
Before(content, part) ==
  CASE part = "problem"  -> 0
    [] part = "users"    -> 1
    [] part = "criteria" -> 1 + Count(content, "users")
    [] part = "issues"   -> 1 + Count(content, "users") + Count(content, "criteria")
TextAt(content, part, i) ==
  CASE part = "problem"  -> content.problem
    [] part = "users"    -> content.users[i]
    [] part = "criteria" -> FormatGwt(content.criteria[i])
    [] part = "issues"   -> Decorated(content.issues[i])

LEMMA LinesAre ==
  ASSUME NEW content \in Content
  PROVE  LET lines == Lines(content)
             nu == Count(content, "users")
             nc == Count(content, "criteria")
             ni == Count(content, "issues")
         IN /\ nu \in Nat /\ nc \in Nat /\ ni \in Nat
            /\ lines \in Seq([text : Text, path : Address])
            /\ Len(lines) = 1 + nu + nc + ni /\ DOMAIN lines = 1 .. 1 + nu + nc + ni
            /\ lines[1].text = TextAt(content, "problem", 1) /\ lines[1].path = Place("problem", 1)
            /\ \A i \in 1 .. nu : /\ lines[1 + i].text = TextAt(content, "users", i)
                                  /\ lines[1 + i].path = Place("users", i)
            /\ \A i \in 1 .. nc : /\ lines[1 + nu + i].text = TextAt(content, "criteria", i)
                                  /\ lines[1 + nu + i].path = Place("criteria", i)
            /\ \A i \in 1 .. ni : lines[1 + nu + nc + i].path = Place("issues", i)
<1> DEFINE U == [text : Text, path : Address]
           lines == Lines(content)
           nu == Count(content, "users")
           nc == Count(content, "criteria")
           ni == Count(content, "issues")
           gwts == [i \in DOMAIN content.criteria |-> FormatGwt(content.criteria[i])]
           asks == [i \in DOMAIN content.issues |-> Decorated(content.issues[i])]
           a == Numbered("problem", <<content.problem>>)
           b == Numbered("users", content.users)
           c == Numbered("criteria", gwts)
           d == Numbered("issues", asks)
<1>c. /\ nu = Len(content.users) /\ nc = Len(content.criteria) /\ ni = Len(content.issues)
      /\ TextAt(content, "problem", 1) = content.problem
      /\ \A i : TextAt(content, "users", i) = content.users[i]
      /\ \A i : TextAt(content, "criteria", i) = FormatGwt(content.criteria[i])
  BY DEF Count, TextAt
<1> HIDE DEF nu, nc, ni
<1>0. nu \in Nat /\ nc \in Nat /\ ni \in Nat
  BY <1>c, ContentIs
<1>t. Says \subseteq Text
  BY DEF Says
<1>1. a \in Seq(U) /\ Len(a) = 1 /\ a[1] = [text |-> content.problem, path |-> Place("problem", 1)]
  <2> DEFINE one == <<content.problem>>
  <2>1. content.problem \in Text
    BY ContentIs, <1>t
  <2>2. one \in Seq(Text) /\ Len(one) = 1 /\ one[1] = content.problem
    BY <2>1
  <2>3. a = Numbered("problem", one)
    OBVIOUS
  <2> HIDE DEF one, a
  <2>4. /\ a \in Seq(U) /\ Len(a) = Len(one)
        /\ \A i \in 1 .. Len(one) : a[i] = [text |-> one[i], path |-> Place("problem", i)]
    BY <2>2, <2>3, NumberedIs
  <2>5. 1 \in 1 .. Len(one)
    BY <2>2
  <2> QED
    BY <2>2, <2>4, <2>5
<1>2. /\ b \in Seq(U) /\ Len(b) = nu
      /\ \A i \in 1 .. nu : b[i] = [text |-> content.users[i], path |-> Place("users", i)]
  <2>1. content.users \in Seq(Says)
    BY ContentIs
  <2>2. content.users \in Seq(Text)
    BY <1>t, <2>1, SeqMonotonic
  <2> QED
    BY <1>c, <2>2, NumberedIs
<1>3. /\ c \in Seq(U) /\ Len(c) = nc
      /\ \A i \in 1 .. nc : c[i] = [text |-> FormatGwt(content.criteria[i]), path |-> Place("criteria", i)]
  <2>1. DOMAIN content.criteria = 1 .. nc /\ \A i \in 1 .. nc : content.criteria[i] \in Gwt
    BY <1>c, ContentIs
  <2>2. \A i \in 1 .. nc : FormatGwt(content.criteria[i]) \in Text
    BY <1>t, <2>1, FormatProperties
  <2>3. DOMAIN gwts = 1 .. nc /\ \A i \in 1 .. nc : gwts[i] = FormatGwt(content.criteria[i])
    BY <2>1
  <2>4. gwts \in [1 .. nc -> Text]
    BY <2>1, <2>2
  <2> HIDE DEF gwts
  <2>5. gwts \in Seq(Text) /\ Len(gwts) = nc
    BY <1>0, <2>3, <2>4, SeqDef, LenProperties
  <2> QED
    BY <2>3, <2>5, NumberedIs
<1>4. /\ d \in Seq(U) /\ Len(d) = ni
      /\ \A i \in 1 .. ni : d[i].path = Place("issues", i)
  <2>1. DOMAIN content.issues = 1 .. ni /\ \A i \in 1 .. ni : content.issues[i].question \in Text
    BY <1>c, <1>t, ContentIs DEF Issue
  <2>2. ASSUME NEW i \in 1 .. ni PROVE Decorated(content.issues[i]) \in Text
    <3>1. Label \in Words \cup Marks \cup {"nl"} /\ Assigned \in Words \cup Marks \cup {"nl"}
      BY CardAssumption
    <3>2. <<Label>> \in Text /\ <<Assigned>> \in Text /\ content.issues[i].question \in Text
      BY <2>1, <3>1, TokenText
    <3>3. <<Label>> \o content.issues[i].question \in Text
      BY <3>2, ConcatText
    <3>4. (<<Label>> \o content.issues[i].question) \o <<Assigned>> \in Text
      BY <3>2, <3>3, ConcatText
    <3> QED
      BY <3>4 DEF Decorated
  <2>3. DOMAIN asks = 1 .. ni
    BY <2>1
  <2>4. asks \in [1 .. ni -> Text]
    BY <2>1, <2>2
  <2> HIDE DEF asks
  <2>5. asks \in Seq(Text) /\ Len(asks) = ni
    BY <1>0, <2>3, <2>4, SeqDef, LenProperties
  <2> HIDE DEF d
  <2>6. /\ d \in Seq(U) /\ Len(d) = ni
        /\ \A i \in 1 .. ni : d[i] = [text |-> asks[i], path |-> Place("issues", i)]
    BY <2>5, NumberedIs DEF d
  <2> QED
    BY <2>6
<1>5. lines = ((a \o b) \o c) \o d
  BY DEF Lines
<1> HIDE DEF a, b, c, d, U, lines
<1> DEFINE ab == a \o b
           abc == ab \o c
<1>6. /\ ab \in Seq(U) /\ Len(ab) = 1 + nu /\ ab[1] = a[1]
      /\ \A i \in 1 .. nu : ab[1 + i] = b[i]
  <2>1. 1 \in 1 .. Len(a)
    BY <1>1
  <2> QED
    BY <1>1, <1>2, <2>1, Behind
<1> HIDE DEF ab
<1>7. /\ abc \in Seq(U) /\ Len(abc) = 1 + nu + nc
      /\ \A i \in 1 .. 1 + nu : abc[i] = ab[i]
      /\ \A i \in 1 .. nc : abc[1 + nu + i] = c[i]
  <2>1. /\ abc \in Seq(U) /\ Len(abc) = Len(ab) + Len(c)
        /\ \A i \in 1 .. Len(ab) : abc[i] = ab[i]
        /\ \A i \in 1 .. Len(c) : abc[Len(ab) + i] = c[i]
    <3>1. ab \in Seq(U) /\ c \in Seq(U)
      BY <1>3, <1>6
    <3> QED
      BY <3>1, Behind
  <2> HIDE DEF abc
  <2> QED
    BY <1>3, <1>6, <2>1
<1>8. lines = abc \o d
  BY <1>5 DEF abc, ab
<1> HIDE DEF abc
<1>9. /\ lines \in Seq(U) /\ Len(lines) = 1 + nu + nc + ni
      /\ \A i \in 1 .. 1 + nu + nc : lines[i] = abc[i]
      /\ \A i \in 1 .. ni : lines[1 + nu + nc + i] = d[i]
  <2>1. /\ lines \in Seq(U) /\ Len(lines) = Len(abc) + Len(d)
        /\ \A i \in 1 .. Len(abc) : lines[i] = abc[i]
        /\ \A i \in 1 .. Len(d) : lines[Len(abc) + i] = d[i]
    <3>1. abc \in Seq(U) /\ d \in Seq(U)
      BY <1>4, <1>7
    <3> QED
      BY <1>8, <3>1, Behind
  <2> QED
    BY <1>4, <1>7, <2>1
<1>10. lines[1] = a[1]
  <2>1. 1 \in 1 .. 1 + nu /\ 1 \in 1 .. 1 + nu + nc
    BY <1>0
  <2> QED
    BY <1>6, <1>7, <1>9, <2>1
<1>11. ASSUME NEW i \in 1 .. nu PROVE lines[1 + i] = b[i]
  <2>1. 1 + i \in 1 .. 1 + nu /\ 1 + i \in 1 .. 1 + nu + nc
    BY <1>0
  <2> QED
    BY <1>6, <1>7, <1>9, <2>1
<1>12. ASSUME NEW i \in 1 .. nc PROVE lines[1 + nu + i] = c[i]
  <2>1. 1 + nu + i \in 1 .. 1 + nu + nc
    BY <1>0
  <2> QED
    BY <1>7, <1>9, <2>1
<1>13. \A i \in 1 .. ni : lines[1 + nu + nc + i] = d[i]
  BY <1>9
<1>14. DOMAIN lines = 1 .. 1 + nu + nc + ni
  BY <1>9, LenProperties
<1>15. lines \in Seq(U) /\ Len(lines) = 1 + nu + nc + ni
  BY <1>9
<1>16. lines[1].text = TextAt(content, "problem", 1) /\ lines[1].path = Place("problem", 1)
  BY <1>c, <1>1, <1>10
<1>17. \A i \in 1 .. nu : /\ lines[1 + i].text = TextAt(content, "users", i)
                          /\ lines[1 + i].path = Place("users", i)
  <2> TAKE i \in 1 .. nu
  <2>1. lines[1 + i] = b[i] /\ b[i].path = Place("users", i)
    BY <1>2, <1>11
  <2>2. b[i].text = TextAt(content, "users", i)
    <3>1. b[i] = [text |-> content.users[i], path |-> Place("users", i)]
      BY <1>2
    <3>2. TextAt(content, "users", i) = content.users[i]
      BY <1>c
    <3> QED
      BY <3>1, <3>2
  <2> QED
    BY <2>1, <2>2
<1>18. \A i \in 1 .. nc : /\ lines[1 + nu + i].text = TextAt(content, "criteria", i)
                          /\ lines[1 + nu + i].path = Place("criteria", i)
  <2> TAKE i \in 1 .. nc
  <2>1. lines[1 + nu + i] = c[i] /\ c[i].path = Place("criteria", i)
    BY <1>3, <1>12
  <2>2. c[i].text = TextAt(content, "criteria", i)
    <3>1. c[i] = [text |-> FormatGwt(content.criteria[i]), path |-> Place("criteria", i)]
      BY <1>3
    <3>2. TextAt(content, "criteria", i) = FormatGwt(content.criteria[i])
      BY <1>c
    <3> QED
      BY <3>1, <3>2
  <2> QED
    BY <2>1, <2>2
<1>19. \A i \in 1 .. ni : lines[1 + nu + nc + i].path = Place("issues", i)
  BY <1>4, <1>13
<1> QED
  BY <1>0, <1>14, <1>15, <1>16, <1>17, <1>18, <1>19 DEF U, lines, nu, nc, ni

(* The line of a part at a place.                                           *)
LEMMA LineAt ==
  ASSUME NEW content \in Content, NEW part \in Parts
  PROVE  /\ Count(content, part) \in Nat /\ Before(content, part) \in Nat
         /\ Before(content, part) + Count(content, part) <= Len(Lines(content))
         /\ DOMAIN Lines(content) = 1 .. Len(Lines(content)) /\ Len(Lines(content)) \in Nat
         /\ \A i \in 1 .. Count(content, part) :
              /\ Before(content, part) + i \in DOMAIN Lines(content)
              /\ Lines(content)[Before(content, part) + i].path = Place(part, i)
              /\ part # "issues" => Lines(content)[Before(content, part) + i].text = TextAt(content, part, i)
<1> DEFINE lines == Lines(content)
           nu == Count(content, "users")
           nc == Count(content, "criteria")
           ni == Count(content, "issues")
           Fits(before, count, name) ==
             /\ count \in Nat /\ before \in Nat /\ before + count <= Len(lines)
             /\ DOMAIN lines = 1 .. Len(lines) /\ Len(lines) \in Nat
             /\ \A i \in 1 .. count :
                  /\ before + i \in DOMAIN lines
                  /\ lines[before + i].path = Place(name, i)
                  /\ name # "issues" => lines[before + i].text = TextAt(content, name, i)
<1>1. /\ nu \in Nat /\ nc \in Nat /\ ni \in Nat
      /\ Len(lines) = 1 + nu + nc + ni /\ DOMAIN lines = 1 .. 1 + nu + nc + ni
  BY LinesAre
<1>2. lines[1].text = TextAt(content, "problem", 1) /\ lines[1].path = Place("problem", 1)
  BY LinesAre
<1>3. \A i \in 1 .. nu : /\ lines[1 + i].text = TextAt(content, "users", i)
                         /\ lines[1 + i].path = Place("users", i)
  BY LinesAre
<1>4. \A i \in 1 .. nc : /\ lines[1 + nu + i].text = TextAt(content, "criteria", i)
                         /\ lines[1 + nu + i].path = Place("criteria", i)
  BY LinesAre
<1>5. \A i \in 1 .. ni : lines[1 + nu + nc + i].path = Place("issues", i)
  BY LinesAre
<1>6. /\ Before(content, "problem") = 0 /\ Count(content, "problem") = 1
      /\ Before(content, "users") = 1 /\ Before(content, "criteria") = 1 + nu
      /\ Before(content, "issues") = 1 + nu + nc
  BY DEF Before, Count
<1> HIDE DEF lines, nu, nc, ni
<1>7. Fits(0, 1, "problem")
  BY <1>1, <1>2
<1>8. Fits(1, nu, "users")
  BY <1>1, <1>3
<1>9. Fits(1 + nu, nc, "criteria")
  BY <1>1, <1>4
<1>10. Fits(1 + nu + nc, ni, "issues")
  BY <1>1, <1>5
<1> HIDE DEF Fits
<1>11. Fits(Before(content, part), Count(content, part), part)
  BY <1>6, <1>7, <1>8, <1>9, <1>10 DEF Parts, nu, nc, ni
<1> QED
  BY <1>11 DEF Fits, lines

(* Every line is one of them.                                               *)
LEMMA LineKinds ==
  ASSUME NEW content \in Content, NEW j \in DOMAIN Lines(content)
  PROVE  \E part \in Parts : \E i \in 1 .. Count(content, part) : j = Before(content, part) + i
<1> DEFINE nu == Count(content, "users")
           nc == Count(content, "criteria")
           ni == Count(content, "issues")
<1>1. nu \in Nat /\ nc \in Nat /\ ni \in Nat /\ j \in 1 .. 1 + nu + nc + ni
  BY LinesAre
<1>2. /\ Before(content, "problem") = 0 /\ Count(content, "problem") = 1
      /\ Before(content, "users") = 1 /\ Before(content, "criteria") = 1 + nu
      /\ Before(content, "issues") = 1 + nu + nc
  BY DEF Before, Count
<1> SUFFICES \/ \E i \in 1 .. 1 : j = 0 + i
             \/ \E i \in 1 .. nu : j = 1 + i
             \/ \E i \in 1 .. nc : j = 1 + nu + i
             \/ \E i \in 1 .. ni : j = 1 + nu + nc + i
  BY <1>2 DEF Parts
<1> HIDE DEF nu, nc, ni
<1>3. CASE j = 1
  BY <1>3
<1>4. CASE j \in 2 .. 1 + nu
  <2>1. j - 1 \in 1 .. nu /\ j = 1 + (j - 1)
    BY <1>1, <1>4
  <2> QED
    BY <2>1
<1>5. CASE j \in 2 + nu .. 1 + nu + nc
  <2> DEFINE i == j - (1 + nu)
  <2>1. i \in 1 .. nc /\ j = 1 + nu + i
    BY <1>1, <1>5
  <2> HIDE DEF i
  <2> QED
    BY <2>1
<1>6. CASE j \in 2 + nu + nc .. 1 + nu + nc + ni
  <2> DEFINE i == j - (1 + nu + nc)
  <2>1. i \in 1 .. ni /\ j = 1 + nu + nc + i
    BY <1>1, <1>6
  <2> HIDE DEF i
  <2> QED
    BY <2>1
<1> QED
  BY <1>1, <1>3, <1>4, <1>5, <1>6

LEMMA LineExists ==
  ASSUME NEW content \in Content, NEW j \in DOMAIN Lines(content)
  PROVE  /\ Lines(content)[j].text \in Text
         /\ Named(Lines(content)[j].path) \in Address
         /\ Exists(content, Named(Lines(content)[j].path))
<1> DEFINE line == Lines(content)[j]
           p == Named(line.path)
<1>1. line \in [text : Text, path : Address]
  <2> DEFINE lines == Lines(content)
             U == [text : Text, path : Address]
  <2>1. lines \in Seq(U) /\ j \in DOMAIN lines
    BY LinesAre
  <2> HIDE DEF lines, U
  <2>2. lines[j] \in U
    BY <2>1, ElementOfSeq, LenProperties
  <2> QED
    BY <2>2 DEF lines, U
<1>p. PICK part \in Parts : \E i \in 1 .. Count(content, part) : j = Before(content, part) + i
  BY LineKinds
<1>2. PICK i \in 1 .. Count(content, part) : j = Before(content, part) + i
  BY <1>p
<1>3. line.path = Place(part, i) /\ Count(content, part) \in Nat
  BY <1>2, LineAt
<1> HIDE DEF line
<1>4. p = IF part = "problem" THEN Place("problem", 0) ELSE Place(part, i)
  BY <1>3 DEF Named, Place
<1> HIDE DEF p
<1>5. p \in Address
  BY <1>3, <1>4 DEF Place, Address, Parts
<1>6. p.part = part /\ p.at = IF part = "problem" THEN 0 ELSE i
  BY <1>4 DEF Place
<1>7. Exists(content, p)
  <2>1. /\ DOMAIN content.criteria = 1 .. Len(content.criteria)
        /\ Len(content.users) \in Nat /\ Len(content.issues) \in Nat
    BY ContentIs
  <2>2. CASE part = "problem"
    BY <1>6, <2>2 DEF Exists
  <2>3. CASE part = "users"
    BY <1>6, <2>1, <2>3 DEF Exists, Count
  <2>4. CASE part = "issues"
    BY <1>6, <2>1, <2>4 DEF Exists, Count
  <2>5. CASE part = "criteria"
    BY <1>6, <2>1, <2>5 DEF Exists, Count
  <2> QED
    BY <2>2, <2>3, <2>4, <2>5 DEF Parts
<1> QED
  BY <1>1, <1>5, <1>7 DEF p, line

(* The address of a range of lines is in the content.                       *)
LEMMA TargetExists ==
  ASSUME NEW content \in Content, NEW from \in DOMAIN Lines(content),
         NEW to \in DOMAIN Lines(content), from <= to
  PROVE  LET paths == PathsInRange(content, from, to)
             p == EditTarget(content, paths)
         IN /\ paths \subseteq Address
            /\ p \in Address /\ Exists(content, p)
<1> DEFINE lines == Lines(content)
           paths == PathsInRange(content, from, to)
           parts == {p.part : p \in paths}
           p == EditTarget(content, paths)
           Fit(i) == /\ Named(lines[i].path) \in paths
                     /\ \A j \in 1..(i - 1) : Named(lines[j].path) \notin paths
           first == CHOOSE i \in DOMAIN lines : Fit(i)
<1>1. DOMAIN lines \in SUBSET Nat /\ \A i \in DOMAIN lines : 1 .. i \subseteq DOMAIN lines
  <2> DEFINE n == Len(lines)
  <2>1. n \in Nat /\ DOMAIN lines = 1 .. n
    BY LineAt DEF Parts
  <2> HIDE DEF lines, n
  <2> QED
    BY <2>1
<1>2. paths \subseteq Address
  BY LineExists DEF PathsInRange
<1>3. Named(lines[from].path) \in paths
  <2>1. from \in from .. to
    BY <1>1
  <2> QED
    BY <2>1 DEF PathsInRange
<1> HIDE DEF paths
<1>4. \E i \in DOMAIN lines : Fit(i)
  <2> DEFINE T == {i \in DOMAIN lines : Named(lines[i].path) \in paths}
  <2>1. T \in SUBSET Nat /\ T # {}
    BY <1>1, <1>3
  <2> HIDE DEF T
  <2>2. PICK m \in T : \A n \in T : m <= n
    BY <2>1, LeastExists
  <2>3. m \in DOMAIN lines /\ m \in Nat /\ Named(lines[m].path) \in paths
    BY <2>1, <2>2 DEF T
  <2>4. ASSUME NEW j \in 1 .. (m - 1) PROVE Named(lines[j].path) \notin paths
    <3>1. j \in 1 .. m /\ ~(m <= j)
      BY <2>3
    <3>2. j \in DOMAIN lines
      BY <1>1, <2>3, <3>1
    <3> QED
      BY <2>2, <3>1, <3>2 DEF T
  <2> QED
    BY <2>3, <2>4
<1>5. first \in DOMAIN lines
  <2> HIDE DEF lines, Fit
  <2> QED
    BY <1>4
<1>6. CASE \E part \in {"users", "issues"} : parts = {part}
  <2>1. PICK part \in {"users", "issues"} : parts = {part}
    BY <1>6
  <2>2. p = Place(CHOOSE q \in parts : TRUE, 0)
    BY <1>6 DEF EditTarget
  <2>3. p = Place(part, 0)
    BY <2>1, <2>2
  <2>4. Len(content.users) \in Nat /\ Len(content.issues) \in Nat
    BY ContentIs
  <2> HIDE DEF p
  <2>5. p \in Address
    BY <2>3 DEF Place, Address
  <2>6. p.part = part /\ p.at = 0
    BY <2>3 DEF Place
  <2>7. Exists(content, p)
    <3>1. CASE part = "users"
      BY <2>4, <2>6, <3>1 DEF Exists
    <3>2. CASE part = "issues"
      BY <2>4, <2>6, <3>2 DEF Exists
    <3> QED
      BY <3>1, <3>2
  <2> QED
    BY <1>2, <2>5, <2>7 DEF p, paths
<1>7. CASE ~(\E part \in {"users", "issues"} : parts = {part})
  <2>1. p = Named(lines[first].path)
    BY <1>7 DEF EditTarget
  <2> HIDE DEF p, first
  <2>2. p \in Address /\ Exists(content, p)
    BY <1>5, <2>1, LineExists
  <2> QED
    BY <1>2, <2>2 DEF p, paths
<1> QED
  BY <1>6, <1>7

(* What an editor starts from is a text.                                    *)
LEMMA InitialText ==
  ASSUME NEW content \in Content, NEW p
  PROVE  Initial(content, p) \in Text
<1> DEFINE lines == Lines(content)
           U == [text : Text, path : Address]
           at == InOrder(lines, Covered(content, p))
           texts == [i \in DOMAIN at |-> lines[at[i]].text]
<1>1. lines \in Seq(U)
  BY LinesAre
<1>2. at \in Seq(Nat \cap Covered(content, p))
  <2> HIDE DEF lines, U
  <2> QED
    BY <1>1, InOrderProperties
<1>3. /\ Len(at) \in Nat /\ DOMAIN at = 1 .. Len(at)
      /\ \A i \in DOMAIN at : at[i] \in Covered(content, p)
  <2> HIDE DEF at
  <2> QED
    BY <1>2, LenProperties, ElementOfSeq
<1>4. \A i \in DOMAIN at : lines[at[i]].text \in Text
  <2> TAKE i \in DOMAIN at
  <2>1. at[i] \in DOMAIN lines
    BY <1>3 DEF Covered
  <2> HIDE DEF at
  <2> QED
    BY <2>1, LineExists
<1>5. Initial(content, p) = Joined(texts)
  BY DEF Initial
<1> HIDE DEF at, lines
<1>6. texts \in [1 .. Len(at) -> Text]
  BY <1>3, <1>4
<1>7. texts \in Seq(Text)
  BY <1>3, <1>6, SeqDef
<1> QED
  BY <1>5, <1>7, JoinedText

(* An editor that takes the place of successive lines starts from them.     *)
LEMMA InitialOf ==
  ASSUME NEW content \in Content, NEW p, NEW a \in Nat, NEW n \in Nat,
         a + n <= Len(Lines(content)), Covered(content, p) = a + 1 .. a + n,
         NEW items \in Seq(Text), Len(items) = n,
         \A k \in 1 .. n : Lines(content)[a + k].text = items[k]
  PROVE  Initial(content, p) = Joined(items)
<1> DEFINE lines == Lines(content)
           U == [text : Text, path : Address]
           at == InOrder(lines, Covered(content, p))
           texts == [i \in DOMAIN at |-> lines[at[i]].text]
<1>1. lines \in Seq(U) /\ Len(lines) \in Nat /\ a + n <= Len(lines)
  <2>1. lines \in Seq(U)
    BY LinesAre
  <2> HIDE DEF lines, U
  <2> QED
    BY <2>1, LenProperties DEF lines
<1>2. at = PlacesTo(Len(lines), Covered(content, p))
  <2> HIDE DEF lines, U
  <2> QED
    BY <1>1, InOrderIs
<1> HIDE DEF at
<1>3. at = [i \in 1 .. n |-> a + i]
  <2> DEFINE len == Len(lines)
  <2>1. len \in Nat /\ a + n <= len
    BY <1>1
  <2> HIDE DEF len
  <2>2. PlacesTo(len, Covered(content, p)) = [i \in 1 .. n |-> a + i]
    BY <2>1, IntervalInOrder
  <2> QED
    BY <1>2, <2>2 DEF len
<1>4. texts = [i \in 1 .. n |-> items[i]]
  <2>1. DOMAIN at = 1 .. n /\ \A i \in 1 .. n : at[i] = a + i
    BY <1>3
  <2>2. \A i \in 1 .. n : lines[at[i]].text = items[i]
    BY <2>1
  <2> QED
    BY <2>1, <2>2
<1>5. texts = items
  <2>1. DOMAIN items = 1 .. n /\ items = [i \in DOMAIN items |-> items[i]]
    BY LenProperties, SeqDef
  <2> HIDE DEF texts
  <2> QED
    BY <1>4, <2>1
<1>6. Initial(content, p) = Joined(texts)
  BY DEF Initial, at
<1> QED
  BY <1>5, <1>6

(* ... and where it takes the place of one line, from that line.            *)
LEMMA InitialOfLine ==
  ASSUME NEW content \in Content, NEW p, NEW j \in DOMAIN Lines(content),
         \A i : i \in Covered(content, p) <=> i = j
  PROVE  Initial(content, p) = Lines(content)[j].text
<1> DEFINE lines == Lines(content)
           n == Len(lines)
           items == <<lines[j].text>>
<1>1. n \in Nat /\ DOMAIN lines = 1 .. n
  BY LineAt DEF Parts
<1>2. lines[j].text \in Text
  BY LineExists
<1>3. items \in Seq(Text) /\ Len(items) = 1 /\ items[1] = lines[j].text
  BY <1>2
<1>4. j - 1 \in Nat /\ j - 1 + 1 <= n /\ (j - 1) + 1 .. (j - 1) + 1 = {j} /\ (j - 1) + 1 = j
  <2>1. j \in 1 .. n
    BY <1>1
  <2> HIDE DEF lines, n
  <2> QED
    BY <1>1, <2>1
<1>5. \A k \in 1 .. 1 : lines[j - 1 + k].text = items[k]
  <2> TAKE k \in 1 .. 1
  <2>1. k = 1
    OBVIOUS
  <2> HIDE DEF lines, items
  <2> QED
    BY <1>3, <1>4, <2>1
<1> HIDE DEF items
<1>6. Initial(content, p) = Joined(items)
  <2> DEFINE a == j - 1
             one == 1
  <2>1. /\ a \in Nat /\ one \in Nat /\ a + one <= Len(lines)
        /\ Covered(content, p) = a + 1 .. a + one
    BY <1>4
  <2>2. /\ items \in Seq(Text) /\ Len(items) = one
        /\ \A k \in 1 .. one : lines[a + k].text = items[k]
    BY <1>3, <1>5
  <2> HIDE DEF a, one
  <2> QED
    BY <2>1, <2>2, InitialOf
<1> QED
  BY <1>3, <1>6, JoinedText

(* Of what is not an open issue, an editor starts from the addressed text.  *)
LEMMA InitialIsRead ==
  ASSUME NEW content \in Content, NEW p \in Address, Exists(content, p), p.part # "issues"
  PROVE  Initial(content, p) = Read(content, p)
<1> DEFINE part == p.part
           lines == Lines(content)
           Path(j) == Named(lines[j].path)
           before == Before(content, part)
           count == Count(content, part)
<1>1. part \in Parts /\ p.at \in Nat /\ p = Place(part, p.at)
  BY DEF Address, Parts, Place
<1>2. /\ count \in Nat /\ before \in Nat /\ before + count <= Len(lines)
      /\ \A i \in 1 .. count : /\ before + i \in DOMAIN lines
                               /\ lines[before + i].path = Place(part, i)
                               /\ lines[before + i].text = TextAt(content, part, i)
  BY <1>1, LineAt
<1>3. /\ DOMAIN content.users = 1 .. Len(content.users) /\ Len(content.users) \in Nat
      /\ DOMAIN content.criteria = 1 .. Len(content.criteria)
  BY ContentIs
<1>4. \A j : j \in Covered(content, p) <=>
        /\ j \in DOMAIN lines
        /\ Path(j) = p \/ (LineArray(p) /\ Path(j).part = part)
  BY DEF Covered
<1>5. ASSUME NEW j \in DOMAIN lines
      PROVE  /\ Path(j).part = part => \E i \in 1 .. count : j = before + i
             /\ \A i \in 1 .. count :
                  j = before + i => /\ Path(j).part = part
                                    /\ Path(j) = IF part = "problem" THEN Place(part, 0) ELSE Place(part, i)
  <2>q. PICK q \in Parts : \E k \in 1 .. Count(content, q) : j = Before(content, q) + k
    BY LineKinds
  <2>1. PICK k \in 1 .. Count(content, q) : j = Before(content, q) + k
    BY <2>q
  <2>2. lines[j].path = Place(q, k)
    BY <2>1, LineAt
  <2>3. Path(j).part = q
    BY <2>2 DEF Named, Place
  <2>4. ASSUME NEW i \in 1 .. count, j = before + i
        PROVE  /\ Path(j).part = part
               /\ Path(j) = IF part = "problem" THEN Place(part, 0) ELSE Place(part, i)
    <3>1. lines[j].path = Place(part, i)
      BY <1>2, <2>4
    <3> HIDE DEF lines, part
    <3> QED
      BY <3>1 DEF Named, Place
  <2> QED
    BY <2>1, <2>3, <2>4
<1> HIDE DEF lines, Path, before, count
<1>6. CASE ~LineArray(p)
  <2> DEFINE i == IF part = "problem" THEN 1 ELSE p.at
  <2>1. i \in 1 .. count
    <3>1. CASE part = "problem"
      BY <3>1 DEF count, Count
    <3>2. CASE part = "users"
      BY <1>1, <1>3, <1>6, <3>2 DEF Exists, LineArray, count, Count
    <3>3. CASE part = "criteria"
      BY <1>1, <1>3, <3>3 DEF Exists, count, Count
    <3> QED
      BY <1>1, <3>1, <3>2, <3>3 DEF Parts
  <2>2. p = IF part = "problem" THEN Place(part, 0) ELSE Place(part, i)
    BY <1>1 DEF Exists
  <2> HIDE DEF i
  <2>3. ASSUME NEW j \in DOMAIN lines PROVE Path(j) = p <=> j = before + i
    <3>1. ASSUME Path(j) = p PROVE j = before + i
      <4>1. PICK k \in 1 .. count : j = before + k
        BY <1>5, <3>1
      <4>2. part # "problem" => Place(part, k) = Place(part, i)
        BY <1>5, <2>2, <3>1, <4>1
      <4>3. part # "problem" => k = i
        BY <4>2 DEF Place
      <4>4. part = "problem" => k = 1 /\ i = 1
        BY <2>1 DEF count, Count
      <4> QED
        BY <4>1, <4>3, <4>4
    <3>2. ASSUME j = before + i PROVE Path(j) = p
      BY <1>5, <2>1, <2>2, <3>2
    <3> QED
      BY <3>1, <3>2
  <2>4. before + i \in DOMAIN lines /\ lines[before + i].text = TextAt(content, part, i)
    BY <1>2, <2>1
  <2>5. \A j : j \in Covered(content, p) <=> j = before + i
    BY <1>4, <1>6, <2>3, <2>4
  <2>6. Initial(content, p) = TextAt(content, part, i)
    BY <2>4, <2>5, InitialOfLine DEF lines
  <2>7. TextAt(content, part, i) = Read(content, p)
    <3>1. CASE part = "problem"
      BY <3>1 DEF TextAt, Read
    <3>2. CASE part = "users"
      BY <1>6, <3>2 DEF TextAt, Read, LineArray, i
    <3>3. CASE part = "criteria"
      BY <3>3 DEF TextAt, Read, i
    <3> QED
      BY <1>1, <3>1, <3>2, <3>3 DEF Parts
  <2> QED
    BY <2>6, <2>7
<1>7. CASE LineArray(p)
  <2>1. part = "users" /\ p.at = 0
    BY <1>7 DEF LineArray
  <2>2. count = Len(content.users)
    BY <2>1 DEF count, Count
  <2>3. \A j \in DOMAIN lines : Path(j) = p => Path(j).part = part
    OBVIOUS
  <2>4. \A j : j \in Covered(content, p) <=> j \in DOMAIN lines /\ Path(j).part = part
    BY <1>4, <1>7, <2>3
  <2> HIDE DEF part
  <2>5. \A j : j \in Covered(content, p) <=> \E i \in 1 .. count : j = before + i
    BY <1>2, <1>5, <2>4
  <2>6. \A j : (\E i \in 1 .. count : j = before + i) <=> j \in before + 1 .. before + count
    <3>1. ASSUME NEW j \in before + 1 .. before + count PROVE \E i \in 1 .. count : j = before + i
      <4>1. j - before \in 1 .. count /\ j = before + (j - before)
        BY <1>2, <3>1
      <4> QED
        BY <4>1
    <3>2. ASSUME NEW i \in 1 .. count PROVE before + i \in before + 1 .. before + count
      BY <1>2
    <3> QED
      BY <3>1, <3>2
  <2>7. Covered(content, p) = before + 1 .. before + count
    BY <2>5, <2>6
  <2>8. content.users \in Seq(Text) /\ Len(content.users) = count
    <3>1. content.users \in Seq(Says) /\ Says \subseteq Text
      BY ContentIs DEF Says
    <3> QED
      BY <2>2, <3>1, SeqMonotonic
  <2>9. \A k \in 1 .. count : lines[before + k].text = content.users[k]
    BY <1>2, <2>1 DEF TextAt
  <2>10. Initial(content, p) = Joined(content.users)
    BY <1>2, <2>7, <2>8, <2>9, InitialOf DEF lines
  <2>11. Read(content, p) = Joined(content.users)
    BY <2>1 DEF Read, part
  <2> QED
    BY <2>10, <2>11
<1> QED
  BY <1>6, <1>7

-----------------------------------------------------------------------------
(* The card                                                                 *)

(* What an editor takes the place of is in the content.                     *)
LEMMA CoveredExists ==
  ASSUME NEW content \in Content, NEW p \in Address, Covered(content, p) # {}
  PROVE  Exists(content, p)
<1>1. PICK j \in DOMAIN Lines(content) :
        \/ Named(Lines(content)[j].path) = p
        \/ LineArray(p)
  BY DEF Covered
<1>2. CASE Named(Lines(content)[j].path) = p
  BY <1>2, LineExists
<1>3. CASE LineArray(p)
  <2>1. Len(content.users) \in Nat /\ Len(content.issues) \in Nat
    BY ContentIs
  <2>2. p.at = 0 /\ (p.part = "users" \/ p.part = "issues")
    BY <1>3 DEF LineArray
  <2>3. CASE p.part = "users"
    BY <2>1, <2>2, <2>3 DEF Exists
  <2>4. CASE p.part = "issues"
    BY <2>1, <2>2, <2>4 DEF Exists
  <2> QED
    BY <2>2, <2>3, <2>4
<1> QED
  BY <1>1, <1>2, <1>3

(* The version on the screen is one the document had, and the latest one    *)
(* under its number; the addresses of an editor or of a correction that     *)
(* stems from the latest version are in it.                                 *)
ViewOK(view) ==
  /\ view.content \in Content /\ view.number \in 1..version
  /\ view.number = version => view.content = doc
EditOK(edit) ==
  /\ edit = [path |-> edit.path, text |-> edit.text, was |-> edit.was, line |-> edit.line,
             typed |-> edit.typed]
  /\ edit.path \in Address /\ edit.text \in Text /\ edit.was \in 1..version
  /\ edit.was = version => Exists(doc, edit.path)
RequestOK(request) ==
  /\ request.paths \subseteq Address /\ request.text \in Text /\ request.was \in 1..version
  /\ request.mode = "edit" /\ request.was = version => \A p \in request.paths : Exists(doc, p)

CardInv ==
  /\ DocInv
  /\ \A view \in shown : ViewOK(view)
  /\ \A edit \in editor : EditOK(edit)
  /\ \A request \in sent : RequestOK(request)
  /\ \A request, other \in sent : request = other

(* A step leaves the latest version or writes another number.               *)
Moves == (version' = version /\ doc' = doc) \/ version' = version + 1

LEMMA StepsMove == ASSUME DocInv, DocStep \/ UNCHANGED vars PROVE Moves
<1>1. ASSUME NEW output \in Outputs, Deliver(output) PROVE Moves
  BY <1>1 DEF Deliver, Write, Moves
<1>2. ASSUME NEW table \in [Slots -> Assignees \cup {NotPromoted}], Judge(table) PROVE Moves
  BY <1>2 DEF Judge, Moves
<1>3. ASSUME NEW paths, NEW text \in Text, Edit(paths, text) PROVE Moves
  BY <1>3 DEF Edit, Write, Moves
<1>4. ASSUME NEW paths, Instruct(paths) PROVE Moves
  BY <1>4 DEF Instruct, Moves
<1>5. ASSUME NEW replacements, Replacing(replacements), InstructDone(replacements) PROVE Moves
  BY <1>5, DoneWrites DEF Write, Moves
<1>6. CASE UNCHANGED vars
  BY <1>6 DEF vars, Moves
<1> QED
  BY <1>1, <1>2, <1>3, <1>4, <1>5, <1>6 DEF DocStep

(* What the page holds stands over such a step.                             *)
LEMMA PageStands ==
  ASSUME DocInv, Moves
  PROVE  /\ \A view : ViewOK(view) => ViewOK(view)'
         /\ \A edit : EditOK(edit) => EditOK(edit)'
         /\ \A request : RequestOK(request) => RequestOK(request)'
<1>1. version \in Nat /\ version >= 1
  BY DEF DocInv
<1>2. version' \in Nat /\ version' >= version
  BY <1>1 DEF Moves
<1>3. \A n \in 1..version : n \in 1..version' /\ (n = version' => version' = version /\ doc' = doc /\ n = version)
  BY <1>1, <1>2 DEF Moves
<1>4. ASSUME NEW view, ViewOK(view) PROVE ViewOK(view)'
  <2>1. /\ view.content \in Content /\ view.number \in 1..version
        /\ view.number = version => view.content = doc
    BY <1>4 DEF ViewOK
  <2>2. view.number \in 1..version' /\ (view.number = version' => view.content = doc')
    BY <1>3, <2>1
  <2> QED
    BY <2>1, <2>2 DEF ViewOK
<1>5. ASSUME NEW edit, EditOK(edit) PROVE EditOK(edit)'
  <2>1. edit.was \in 1..version /\ (edit.was = version => Exists(doc, edit.path))
    BY <1>5 DEF EditOK
  <2>2. edit.was \in 1..version' /\ (edit.was = version' => Exists(doc', edit.path))
    BY <1>3, <2>1
  <2> QED
    BY <1>5, <2>2 DEF EditOK, Exists
<1>6. ASSUME NEW request, RequestOK(request) PROVE RequestOK(request)'
  <2>1. /\ request.was \in 1..version
        /\ request.mode = "edit" /\ request.was = version => \A p \in request.paths : Exists(doc, p)
    BY <1>6 DEF RequestOK
  <2>2. /\ request.was \in 1..version'
        /\ request.mode = "edit" /\ request.was = version' => \A p \in request.paths : Exists(doc', p)
    BY <1>3, <2>1
  <2> QED
    BY <1>6, <2>2 DEF RequestOK, Exists
<1> QED
  BY <1>4, <1>5, <1>6

(* The card corrects the document by its own kind of steps only.            *)
LEMMA CardIsDocStep ==
  ASSUME CardInv, CardNext
  PROVE  DocStep \/ UNCHANGED vars
<1>1. CASE Receive
  <2>1. PICK request \in sent : Performed(request)
    BY <1>1 DEF Receive
  <2>2. request.text \in Text
    BY DEF CardInv, RequestOK
  <2>3. Edit(request.paths, request.text) \/ Instruct(request.paths)
    BY <2>1 DEF Performed
  <2> QED
    BY <2>2, <2>3 DEF DocStep
<1>2. CASE Elsewhere
  <2>1. CASE Next
    BY <2>1, NextIsDocStep
  <2>2. CASE \E output \in Outputs : version = 1 /\ Deliver(output)
    BY <2>2 DEF DocStep
  <2>3. CASE \E job \in asked : \E p \in job.paths, draft \in Drafts : InstructDone([q \in {p} |-> draft])
    <3>0. PICK job \in asked : \E p \in job.paths, draft \in Drafts : InstructDone([q \in {p} |-> draft])
      BY <2>3
    <3>1. PICK p \in job.paths, draft \in Drafts : InstructDone([q \in {p} |-> draft])
      BY <3>0
    <3>2. Replacing([q \in {p} |-> draft])
      BY CardAssumption DEF Replacing
    <3> QED
      BY <3>1, <3>2 DEF DocStep
  <2>4. CASE \E draft \in Drafts : version = 1 /\ Edit({Place("users", 0)}, draft)
    <3>1. PICK draft \in Drafts : Edit({Place("users", 0)}, draft)
      BY <2>4
    <3>2. draft \in Text
      BY CardAssumption
    <3> QED
      BY <3>1, <3>2 DEF DocStep
  <2> QED
    BY <1>2, <2>1, <2>2, <2>3, <2>4 DEF Elsewhere
<1>3. CASE StartInlineEdit \/ Type \/ Cancel
  BY <1>3 DEF StartInlineEdit, Type, Cancel, Quietly
<1>4. CASE Commit \/ Submit
  BY <1>4 DEF Commit, Submit
<1>5. CASE Reject \/ Refetch \/ Remount
  BY <1>5 DEF Reject, Refetch, Remount
<1> QED
  BY <1>1, <1>2, <1>3, <1>4, <1>5 DEF CardNext

(* An editor, when it starts anew and when something is typed.              *)
Anew(edit, text, was, line, typed) ==
  [edit EXCEPT !.text = text, !.was = was, !.line = line, !.typed = typed]
Typed(edit, typed, text) == [edit EXCEPT !.typed = typed, !.text = text]
Whole(edit) ==
  edit = [path |-> edit.path, text |-> edit.text, was |-> edit.was, line |-> edit.line,
          typed |-> edit.typed]

LEMMA EditChanges ==
  ASSUME NEW edit, NEW text, NEW was, NEW line, NEW typed, Whole(edit)
  PROVE  /\ Anew(edit, text, was, line, typed) =
              [path |-> edit.path, text |-> text, was |-> was, line |-> line, typed |-> typed]
         /\ Typed(edit, typed, text) =
              [path |-> edit.path, text |-> text, was |-> edit.was, line |-> edit.line, typed |-> typed]
<1> DEFINE p == edit.path
           t == edit.text
           w == edit.was
           l == edit.line
           y == edit.typed
<1>1. edit = [path |-> p, text |-> t, was |-> w, line |-> l, typed |-> y]
  BY DEF Whole
<1> HIDE DEF p, t, w, l, y
<1> DEFINE a == [edit EXCEPT !.text = text]
           b == [a EXCEPT !.was = was]
           c == [b EXCEPT !.line = line]
           d == [edit EXCEPT !.typed = typed]
<1>2. [edit EXCEPT !.text = text, !.was = was, !.line = line, !.typed = typed] =
        [path |-> p, text |-> text, was |-> was, line |-> line, typed |-> typed]
  <2>1. [edit EXCEPT !.text = text, !.was = was, !.line = line, !.typed = typed] =
          [c EXCEPT !.typed = typed]
    OBVIOUS
  <2>2. a = [path |-> p, text |-> text, was |-> w, line |-> l, typed |-> y]
    BY <1>1
  <2> HIDE DEF a
  <2>3. b = [path |-> p, text |-> text, was |-> was, line |-> l, typed |-> y]
    BY <2>2
  <2> HIDE DEF b
  <2>4. c = [path |-> p, text |-> text, was |-> was, line |-> line, typed |-> y]
    BY <2>3
  <2> HIDE DEF c
  <2>5. [c EXCEPT !.typed = typed] = [path |-> p, text |-> text, was |-> was, line |-> line, typed |-> typed]
    BY <2>4
  <2> QED
    BY <2>1, <2>5
<1>3. [edit EXCEPT !.typed = typed, !.text = text] =
        [path |-> p, text |-> text, was |-> w, line |-> l, typed |-> typed]
  <2>1. [edit EXCEPT !.typed = typed, !.text = text] = [d EXCEPT !.text = text]
    OBVIOUS
  <2>2. d = [path |-> p, text |-> t, was |-> w, line |-> l, typed |-> typed]
    BY <1>1
  <2> HIDE DEF d
  <2>3. [d EXCEPT !.text = text] = [path |-> p, text |-> text, was |-> w, line |-> l, typed |-> typed]
    BY <2>2
  <2> QED
    BY <2>1, <2>3
<1> QED
  BY <1>2, <1>3 DEF p, t, w, l, y, Anew, Typed

(* Every step of the page keeps what it holds as it should be.              *)
LEMMA CardInvNext == CardInv /\ [CardNext]_cardVars => CardInv'
<1> SUFFICES ASSUME CardInv, [CardNext]_cardVars PROVE CardInv'
  OBVIOUS
<1>1. DocStep \/ UNCHANGED vars
  BY CardIsDocStep DEF cardVars
<1>2. DocInv /\ DocInv' /\ Moves
  BY <1>1, DocInvNext, StepsMove DEF CardInv
<1>3. /\ \A view \in shown : ViewOK(view)'
      /\ \A edit \in editor : EditOK(edit)'
      /\ \A request \in sent : RequestOK(request)'
  BY <1>2, PageStands DEF CardInv
<1> DEFINE Shown == \A view \in shown' : ViewOK(view)'
           Edited == \A edit \in editor' : EditOK(edit)'
           Sent == /\ \A request \in sent' : RequestOK(request)'
                   /\ \A request, other \in sent' : request = other
<1>4. shown' = shown => Shown
  BY <1>3
<1>5. editor' = editor \/ editor' = {} => Edited
  BY <1>3
<1>6. sent' = sent \/ sent' = {} => Sent
  BY <1>3 DEF CardInv
<1> SUFFICES Shown /\ Edited /\ Sent
  BY <1>2 DEF CardInv
<1> HIDE DEF Shown, Edited, Sent
<1>7. CASE StartInlineEdit
  <2>1. PICK view \in shown : \E from, to \in DOMAIN Lines(view.content) :
          LET p == EditTarget(view.content, PathsInRange(view.content, from, to))
          IN /\ from <= to
             /\ editor' = {[path |-> p, text |-> Initial(view.content, p), was |-> view.number,
                            line |-> Min(Covered(view.content, p)), typed |-> FALSE]}
             /\ Quietly
    BY <1>7 DEF StartInlineEdit
  <2>2. PICK from \in DOMAIN Lines(view.content), to \in DOMAIN Lines(view.content) :
          LET p == EditTarget(view.content, PathsInRange(view.content, from, to))
          IN /\ from <= to
             /\ editor' = {[path |-> p, text |-> Initial(view.content, p), was |-> view.number,
                            line |-> Min(Covered(view.content, p)), typed |-> FALSE]}
             /\ Quietly
    BY <2>1
  <2> DEFINE p == EditTarget(view.content, PathsInRange(view.content, from, to))
             edit == [path |-> p, text |-> Initial(view.content, p), was |-> view.number,
                      line |-> Min(Covered(view.content, p)), typed |-> FALSE]
  <2>3. from <= to /\ editor' = {edit} /\ Quietly
    BY <2>2
  <2>4. ViewOK(view)
    BY DEF CardInv
  <2>5. p \in Address /\ Exists(view.content, p) /\ Initial(view.content, p) \in Text
    BY <2>3, <2>4, TargetExists, InitialText DEF ViewOK
  <2> HIDE DEF p
  <2>6. EditOK(edit)
    BY <2>4, <2>5 DEF EditOK, ViewOK
  <2>7. EditOK(edit)'
    BY <1>2, <2>6, PageStands
  <2> HIDE DEF edit
  <2>8. Edited
    BY <2>3, <2>7 DEF Edited
  <2> QED
    BY <1>4, <1>6, <2>3, <2>8 DEF Quietly
<1>8. CASE Type
  <2>1. PICK edit \in editor, draft \in Drafts : \E i \in 1..(Len(Items(edit.text)) + 1) :
          LET items == Items(edit.text)
          IN /\ editor' = {[edit EXCEPT !.typed = TRUE, !.text =
                              Joined(IF i \in DOMAIN items THEN [items EXCEPT ![i] = draft]
                                     ELSE Append(items, draft))]}
             /\ Quietly
    BY <1>8 DEF Type
  <2> DEFINE items == Items(edit.text)
             Now(i) == IF i \in DOMAIN items THEN [items EXCEPT ![i] = draft] ELSE Append(items, draft)
             New(i) == [edit EXCEPT !.typed = TRUE, !.text = Joined(Now(i))]
  <2>2. PICK i \in 1..(Len(items) + 1) : editor' = {New(i)} /\ Quietly
    BY <2>1
  <2>3. EditOK(edit) /\ draft \in Text
    BY CardAssumption DEF CardInv
  <2>4. items \in Seq(Text) /\ DOMAIN items = 1 .. Len(items)
    <3>1. items \in Seq(Says) /\ DOMAIN items = 1 .. Len(items)
      BY <2>3, ItemsStand DEF EditOK
    <3>2. Says \subseteq Text
      BY DEF Says
    <3> HIDE DEF items
    <3> QED
      BY <3>1, <3>2, SeqMonotonic
  <2> HIDE DEF items
  <2>5. Now(i) \in Seq(Text)
    <3>1. CASE i \in DOMAIN items
      BY <2>3, <2>4, <3>1, ExceptSeq
    <3>2. CASE i \notin DOMAIN items
      BY <2>3, <2>4, <3>2, AppendProperties
    <3> QED
      BY <3>1, <3>2
  <2> HIDE DEF Now
  <2>6. Joined(Now(i)) \in Text
    BY <2>5, JoinedText
  <2>7. New(i) = [path |-> edit.path, text |-> Joined(Now(i)), was |-> edit.was, line |-> edit.line,
                  typed |-> TRUE]
    <3> HIDE DEF New
    <3>1. New(i) = Typed(edit, TRUE, Joined(Now(i)))
      BY DEF New, Typed
    <3>2. Whole(edit)
      BY <2>3 DEF EditOK, Whole
    <3> QED
      BY <3>1, <3>2, EditChanges
  <2> HIDE DEF New
  <2>8. EditOK(New(i))
    BY <2>3, <2>6, <2>7 DEF EditOK
  <2>9. Edited
    BY <1>2, <2>2, <2>8, PageStands DEF Edited
  <2> QED
    BY <1>4, <1>6, <2>2, <2>9 DEF Quietly
<1>9. CASE Cancel
  BY <1>4, <1>5, <1>6, <1>9 DEF Cancel, Quietly
<1>10. CASE Commit
  <2>1. PICK edit \in editor :
          /\ editor' = {} /\ shown' = shown
          /\ \/ sent' = sent
             \/ sent' = {[mode |-> "edit", paths |-> {edit.path}, text |-> Trim(edit.text), was |-> edit.was]}
    BY <1>10 DEF Commit
  <2> DEFINE request == [mode |-> "edit", paths |-> {edit.path}, text |-> Trim(edit.text), was |-> edit.was]
  <2>2. EditOK(edit)
    BY DEF CardInv
  <2>3. Trim(edit.text) \in Text
    BY <2>2, TrimProperties DEF EditOK
  <2>4. RequestOK(request)
    BY <2>2, <2>3 DEF EditOK, RequestOK
  <2>5. RequestOK(request)'
    BY <1>2, <2>4, PageStands
  <2> HIDE DEF request
  <2>6. sent' = {request} => Sent
    BY <2>5 DEF Sent
  <2> QED
    BY <1>4, <1>5, <1>6, <2>1, <2>6 DEF request
<1>11. CASE Submit
  <2>1. PICK view \in shown : \E from, to \in DOMAIN Lines(view.content) :
          /\ from <= to
          /\ sent' = {[mode |-> "instruct", paths |-> PathsInRange(view.content, from, to),
                       text |-> NoText, was |-> view.number]}
          /\ editor' = {} /\ shown' = shown
    BY <1>11 DEF Submit
  <2>2. PICK from \in DOMAIN Lines(view.content), to \in DOMAIN Lines(view.content) :
          /\ from <= to
          /\ sent' = {[mode |-> "instruct", paths |-> PathsInRange(view.content, from, to),
                       text |-> NoText, was |-> view.number]}
          /\ editor' = {} /\ shown' = shown
    BY <2>1
  <2> DEFINE request == [mode |-> "instruct", paths |-> PathsInRange(view.content, from, to),
                         text |-> NoText, was |-> view.number]
  <2>3. ViewOK(view)
    BY DEF CardInv
  <2>4. PathsInRange(view.content, from, to) \subseteq Address /\ NoText \in Text
    BY <2>2, <2>3, TargetExists, EmptySeq DEF ViewOK, NoText, Text
  <2>5. RequestOK(request)
    BY <2>3, <2>4 DEF ViewOK, RequestOK
  <2>6. RequestOK(request)'
    BY <1>2, <2>5, PageStands
  <2> HIDE DEF request
  <2>7. sent' = {request} => Sent
    BY <2>6 DEF Sent
  <2> QED
    BY <1>4, <1>5, <2>2, <2>7 DEF request
<1>12. CASE Receive
  BY <1>4, <1>5, <1>6, <1>12 DEF Receive
<1>13. CASE Reject
  BY <1>4, <1>5, <1>6, <1>13 DEF Reject
<1> DEFINE LatestShown == shown' = {Latest} /\ UNCHANGED vars => Shown
<1>14. LatestShown
  <2> SUFFICES ASSUME shown' = {Latest}, UNCHANGED vars PROVE Shown
    OBVIOUS
  <2>1. ViewOK(Latest)
    BY <1>2 DEF ViewOK, Latest, DocInv
  <2>2. ViewOK(Latest)'
    BY <2>1 DEF ViewOK, Latest, vars
  <2>3. Latest' = Latest
    BY DEF Latest, vars
  <2> QED
    BY <1>2, <2>1, PageStands DEF Shown
<1>15. CASE Refetch
  <2>1. /\ shown' = {Latest} /\ UNCHANGED vars /\ sent' = sent
        /\ editor' = {Redrawn(edit, Latest) : edit \in editor}
    BY <1>15 DEF Refetch
  <2>2. ASSUME NEW edit \in editor PROVE EditOK(Redrawn(edit, Latest))
    <3> DEFINE at == Covered(doc, edit.path)
               again == [edit EXCEPT !.text = Initial(doc, edit.path), !.was = version,
                                     !.line = Min(at), !.typed = FALSE]
    <3>1. EditOK(edit) /\ doc \in Content /\ version \in 1..version
      BY <1>2 DEF CardInv, DocInv
    <3>2. /\ at = {} => Redrawn(edit, Latest) = [edit EXCEPT !.line = 0]
          /\ at # {} => Redrawn(edit, Latest) \in {edit, again}
      BY DEF Redrawn, Latest
    <3>3. EditOK([edit EXCEPT !.line = 0])
      <4>1. [edit EXCEPT !.line = 0] =
              [path |-> edit.path, text |-> edit.text, was |-> edit.was, line |-> 0, typed |-> edit.typed]
        BY <3>1 DEF EditOK
      <4> QED
        BY <3>1, <4>1 DEF EditOK
    <3>4. at # {} => EditOK(again)
      <4> SUFFICES ASSUME at # {} PROVE EditOK(again)
        OBVIOUS
      <4>1. again = [path |-> edit.path, text |-> Initial(doc, edit.path), was |-> version,
                     line |-> Min(at), typed |-> FALSE]
        <5> HIDE DEF at, again
        <5>1. again = Anew(edit, Initial(doc, edit.path), version, Min(at), FALSE)
          BY DEF again, Anew, at
        <5>2. Whole(edit)
          BY <3>1 DEF EditOK, Whole
        <5> DEFINE t == Initial(doc, edit.path)
                   l == Min(at)
                   y == FALSE
        <5>3. again = Anew(edit, t, version, l, y)
          BY <5>1
        <5> HIDE DEF t, l, y
        <5>4. Anew(edit, t, version, l, y) =
                [path |-> edit.path, text |-> t, was |-> version, line |-> l, typed |-> y]
          BY <5>2, EditChanges
        <5> QED
          BY <5>3, <5>4 DEF t, l, y
      <4>2. edit.path \in Address /\ Exists(doc, edit.path) /\ Initial(doc, edit.path) \in Text
        BY <3>1, CoveredExists, InitialText DEF EditOK
      <4> HIDE DEF again
      <4> QED
        BY <3>1, <4>1, <4>2 DEF EditOK
    <3> HIDE DEF at, again
    <3> QED
      BY <3>1, <3>2, <3>3, <3>4
  <2>3. Edited
    BY <1>2, <2>1, <2>2, PageStands DEF Edited
  <2> QED
    BY <1>6, <1>14, <2>1, <2>3
<1>16. CASE Remount
  BY <1>5, <1>6, <1>14, <1>16 DEF Remount
<1>17. CASE Elsewhere
  BY <1>4, <1>5, <1>6, <1>17 DEF Elsewhere, card
<1>18. CASE UNCHANGED cardVars
  BY <1>4, <1>5, <1>6, <1>18 DEF cardVars, card
<1> QED
  BY <1>7, <1>8, <1>9, <1>10, <1>11, <1>12, <1>13, <1>15, <1>16, <1>17, <1>18 DEF CardNext

LEMMA CardInvInit == CardInit => CardInv
<1> SUFFICES ASSUME CardInit PROVE CardInv
  OBVIOUS
<1>1. DocInv /\ version = 1
  BY DocInvInit DEF CardInit, Init
<1>2. ViewOK(Latest)
  BY <1>1 DEF ViewOK, Latest, DocInv
<1> QED
  BY <1>1, <1>2 DEF CardInit, CardInv

-----------------------------------------------------------------------------
(* The theorems of the card                                                 *)

(* The page shows a version that the document had, under its number; an     *)
(* editor or a correction that stems from the latest version stands for     *)
(* something in it; and there is one correction on its way at most.         *)
THEOREM CardInvariance == CardSpec => []CardInv
BY CardInvInit, CardInvNext, PTL DEF CardSpec

(* What the card shows, edits and sends are contents, addresses and texts,  *)
(* and the document is one under the corrections of the page as well        *)
(* (document-view.tsx, lib/document.ts).                                    *)
THEOREM CardTypes == CardSpec => []CardTypeOK
<1>1. CardInv => CardTypeOK
  BY DocInvTypes DEF CardInv, CardTypeOK, ViewOK, EditOK, RequestOK
<1> QED
  BY <1>1, CardInvariance, PTL

(* An edit that is sent over the version its editor opened on finds what    *)
(* the screen showed in its place, and leaves every other element alone:    *)
(* whatever range was selected, for every content, and however often the    *)
(* editor was drawn again (commonArrayPath, readDocumentPath).              *)
THEOREM EditsWhatWasShown == CardSpec => EditReplacesWhatWasShown
<1>1. ASSUME CardInv, [CardNext]_cardVars, NEW request \in sent, request.mode = "edit",
             request.was = version, sent' = {}
      PROVE  /\ \A p \in request.paths :
                  Exists(doc, p) /\ (p.part # "issues" => Initial(doc, p) = Read(doc, p))
             /\ version' > version => SameOutside(doc, request.paths, doc')
  <2>1. RequestOK(request) /\ DocInv
    BY <1>1 DEF CardInv
  <2>2. ASSUME NEW p \in request.paths
        PROVE  Exists(doc, p) /\ (p.part # "issues" => Initial(doc, p) = Read(doc, p))
    <3>1. Exists(doc, p) /\ p \in Address /\ doc \in Content
      BY <1>1, <2>1 DEF RequestOK, DocInv
    <3> QED
      BY <3>1, InitialIsRead
  <2>3. ASSUME version' > version PROVE SameOutside(doc, request.paths, doc')
    <3>1. version' # version
      BY <2>1, <2>3 DEF DocInv
    <3>2. Receive
      <4>1. ~(UNCHANGED vars)
        BY <3>1 DEF vars
      <4>2. ~(UNCHANGED card)
        BY <1>1 DEF card
      <4> QED
        BY <1>1, <4>1, <4>2
        DEF CardNext, StartInlineEdit, Type, Cancel, Quietly, Commit, Submit, Reject, Refetch, Remount,
            Elsewhere, cardVars
    <3>3. PICK own \in sent : Performed(own)
      BY <3>2 DEF Receive
    <3>4. own = request
      BY <1>1 DEF CardInv
    <3>5. Edit(request.paths, request.text) /\ request.text \in Text
      BY <1>1, <2>1, <3>3, <3>4 DEF Performed, RequestOK
    <3> QED
      BY <2>1, <3>5, EditOutside
  <2> QED
    BY <2>2, <2>3
<1>2. CardInv /\ [CardNext]_cardVars =>
        (\A request \in sent :
           request.mode = "edit" /\ request.was = version /\ sent' = {} =>
             /\ \A p \in request.paths :
                  Exists(doc, p) /\ (p.part # "issues" => Initial(doc, p) = Read(doc, p))
             /\ version' > version => SameOutside(doc, request.paths, doc'))
  BY <1>1
<1> QED
  BY <1>2, CardInvariance, PTL DEF CardSpec, EditReplacesWhatWasShown

-----------------------------------------------------------------------------
(* Lines of joined texts                                                    *)

(* A line ends where it must.                                               *)
EndsAt(text, from, to) ==
  /\ \A i \in from .. to : text[i] # "nl"
  /\ to = Len(text) \/ text[to + 1] = "nl"

LEMMA LineIs ==
  ASSUME NEW text \in Text, NEW from \in 1 .. Len(text), NEW to \in from .. Len(text),
         EndsAt(text, from, to)
  PROVE  Line(text, from) = SubSeq(text, from, to)
<1>1. Len(text) \in Nat /\ DOMAIN text = 1 .. Len(text)
  BY TextList
<1>2. from \in DOMAIN text /\ text[from] # "nl"
  <2>1. from \in from .. to
    BY <1>1
  <2> QED
    BY <1>1, <2>1 DEF EndsAt
<1>3. PICK end \in from .. Len(text) :
        /\ Line(text, from) = SubSeq(text, from, end)
        /\ EndsAt(text, from, end)
  BY <1>2, LineProperties DEF EndsAt
<1> DEFINE l == Len(text)
<1>4. l \in Nat /\ from \in 1 .. l /\ to \in from .. l /\ end \in from .. l
  BY <1>1
<1> HIDE DEF l
<1>5. ~(to < end)
  <2> SUFFICES ASSUME to < end PROVE FALSE
    OBVIOUS
  <2>1. to + 1 \in from .. end /\ to # l
    BY <1>4
  <2> QED
    BY <1>3, <2>1 DEF l, EndsAt
<1>6. ~(end < to)
  <2> SUFFICES ASSUME end < to PROVE FALSE
    OBVIOUS
  <2>1. end + 1 \in from .. to /\ end # l
    BY <1>4
  <2> QED
    BY <1>3, <2>1 DEF l, EndsAt
<1>7. to = end
  BY <1>4, <1>5, <1>6
<1> QED
  BY <1>3, <1>7

(* A line is its own only item.                                             *)
LEMMA PlainItems ==
  ASSUME NEW text \in Plain
  PROVE  Items(text) \in Seq(Plain) /\ Len(Items(text)) = 1 /\ Items(text)[1] = text
<1> DEFINE l == Len(text)
           S == Starts(text)
<1>1. text \in Text /\ text # <<>> /\ \A i \in DOMAIN text : text[i] # "nl"
  BY PlainIsTrim DEF Plain, Says
<1>2. l \in Nat /\ l >= 1 /\ DOMAIN text = 1 .. l
  BY <1>1, TextList
<1> HIDE DEF l
<1>3. 1 \in S /\ \A i \in 2 .. l : i \notin S
  <2>1. 1 \in S
    BY <1>1, <1>2 DEF Starts
  <2>2. ASSUME NEW i \in 2 .. l PROVE i \notin S
    <3>1. i # 1 /\ i - 1 \in 1 .. l
      BY <1>2
    <3>2. text[i - 1] # "nl"
      BY <1>1, <1>2, <3>1
    <3> QED
      BY <3>1, <3>2 DEF Starts
  <2> QED
    BY <2>1, <2>2
<1> HIDE DEF S
<1>4. PlacesTo(1, S) = <<1>>
  <2>1. PlacesTo(0, S) = <<>> /\ PlacesTo(0 + 1, S) = IF 0 + 1 \in S THEN Append(PlacesTo(0, S), 0 + 1) ELSE PlacesTo(0, S)
    BY PlacesGrow
  <2>2. 0 + 1 = 1
    OBVIOUS
  <2>3. PlacesTo(1, S) = Append(<<>>, 1)
    BY <1>3, <2>1, <2>2
  <2> QED
    BY <2>3
<1>5. PlacesTo(l, S) = <<1>>
  <2>1. \A i \in (1 + 1) .. l : i \notin S
    BY <1>3
  <2>2. PlacesTo(l, S) = PlacesTo(1, S)
    BY <1>2, <2>1, PlacesBeyond
  <2> QED
    BY <1>4, <2>2
<1>6. Line(text, 1) = text
  <2>1. /\ 1 \in 1 .. Len(text) /\ Len(text) \in 1 .. Len(text)
        /\ \A i \in 1 .. Len(text) : text[i] # "nl"
    BY <1>1, <1>2 DEF l
  <2>2. Line(text, 1) = SubSeq(text, 1, Len(text))
    BY <1>1, <2>1, LineIs DEF EndsAt
  <2> QED
    BY <1>1, <2>2, SubSeqFull DEF Text
<1> DEFINE places == PlacesTo(Len(text), Starts(text))
<1>7. places = <<1>>
  BY <1>5 DEF l, S
<1>8. /\ Items(text) \in Seq(Plain)
      /\ Items(text) = [k \in 1 .. Len(places) |-> Line(text, places[k])]
  BY <1>1, ItemsProperties
<1> HIDE DEF places
<1>9. Len(places) = 1 /\ places[1] = 1
  BY <1>7
<1>10. Items(text) = [k \in 1 .. 1 |-> Line(text, places[k])]
  BY <1>8, <1>9
<1>11. DOMAIN Items(text) = 1 .. 1 /\ Items(text)[1] = text
  BY <1>6, <1>9, <1>10
<1>12. DOMAIN Items(text) = 1 .. Len(Items(text)) /\ Len(Items(text)) \in Nat
  BY <1>8, LenProperties
<1>13. Len(Items(text)) = 1
  BY <1>11, <1>12
<1> QED
  BY <1>8, <1>11, <1>13

(* A text behind which another one is written, on the next line.            *)
LEMMA NextLine ==
  ASSUME NEW t \in Text, NEW u \in Text
  PROVE  LET w == t \o <<"nl">> \o u
         IN /\ w \in Text /\ Len(w) = Len(t) + 1 + Len(u)
            /\ \A i \in 1 .. Len(t) : w[i] = t[i]
            /\ w[Len(t) + 1] = "nl"
            /\ \A i \in 1 .. Len(u) : w[Len(t) + 1 + i] = u[i]
<1> DEFINE tn == t \o <<"nl">>
           w == tn \o u
           a == Len(t)
           b == Len(u)
<1>1. a \in Nat /\ b \in Nat
  BY TextList
<1>2. /\ tn \in Text /\ Len(tn) = a + 1
      /\ \A i \in 1 .. a + 1 : tn[i] = IF i <= a THEN t[i] ELSE <<"nl">>[i - a]
  <2>1. <<"nl">> \in Text /\ Len(<<"nl">>) = 1
    BY TokenText
  <2> QED
    BY <2>1, ConcatText
<1> HIDE DEF tn
<1>3. /\ w \in Text /\ Len(w) = Len(tn) + b
      /\ \A i \in 1 .. Len(tn) + b : w[i] = IF i <= Len(tn) THEN tn[i] ELSE u[i - Len(tn)]
  BY <1>2, ConcatText
<1> HIDE DEF w
<1>4. Len(w) = a + 1 + b
  BY <1>2, <1>3
<1>5. ASSUME NEW i \in 1 .. a PROVE w[i] = t[i]
  <2>1. i \in 1 .. a + 1 /\ i \in 1 .. Len(tn) + b /\ i <= a /\ i <= Len(tn)
    BY <1>1, <1>2
  <2> QED
    BY <1>2, <1>3, <2>1
<1>6. w[a + 1] = "nl"
  <2>1. /\ a + 1 \in 1 .. a + 1 /\ a + 1 \in 1 .. Len(tn) + b /\ ~(a + 1 <= a)
        /\ a + 1 <= Len(tn) /\ a + 1 - a = 1
    BY <1>1, <1>2
  <2>2. w[a + 1] = tn[a + 1]
    BY <1>3, <2>1
  <2>3. tn[a + 1] = <<"nl">>[1]
    BY <1>2, <2>1
  <2> QED
    BY <2>2, <2>3
<1>7. ASSUME NEW i \in 1 .. b PROVE w[a + 1 + i] = u[i]
  <2> DEFINE j == a + 1 + i
  <2>1. j \in 1 .. Len(tn) + b /\ ~(j <= Len(tn)) /\ j - Len(tn) = i
    BY <1>1, <1>2
  <2> HIDE DEF j
  <2>2. w[j] = u[i]
    BY <1>3, <2>1
  <2> QED
    BY <2>2 DEF j
<1> QED
  BY <1>3, <1>4, <1>5, <1>6, <1>7 DEF w, tn, a, b

(* It has the same lines in front.                                          *)
LEMMA LinesInFront ==
  ASSUME NEW t \in Text, NEW w \in Text, Len(t) < Len(w),
         \A i \in 1 .. Len(t) : w[i] = t[i], w[Len(t) + 1] = "nl"
  PROVE  /\ \A i \in 1 .. Len(t) : i \in Starts(w) <=> i \in Starts(t)
         /\ \A i \in 1 .. Len(t) : i \in Starts(t) => Line(w, i) = Line(t, i)
<1> DEFINE a == Len(t)
           b == Len(w)
<1>1. a \in Nat /\ b \in Nat /\ DOMAIN t = 1 .. a /\ DOMAIN w = 1 .. b /\ a < b
  BY TextList
<1> HIDE DEF a, b
<1>2. ASSUME NEW i \in 1 .. a PROVE i \in Starts(w) <=> i \in Starts(t)
  <2>1. i \in DOMAIN t /\ i \in DOMAIN w /\ w[i] = t[i]
    BY <1>1 DEF a
  <2>2. i # 1 => w[i - 1] = t[i - 1]
    <3> SUFFICES ASSUME i # 1 PROVE w[i - 1] = t[i - 1]
      OBVIOUS
    <3>1. i - 1 \in 1 .. a
      BY <1>1
    <3> QED
      BY <3>1 DEF a
  <2> QED
    BY <2>1, <2>2 DEF Starts
<1>3. ASSUME NEW i \in 1 .. a, i \in Starts(t) PROVE Line(w, i) = Line(t, i)
  <2>1. i \in DOMAIN t /\ t[i] # "nl"
    BY <1>3 DEF Starts
  <2>2. PICK end \in i .. Len(t) :
          /\ Line(t, i) = SubSeq(t, i, end)
          /\ \A j \in i .. end : t[j] # "nl"
          /\ end = Len(t) \/ t[end + 1] = "nl"
    BY <2>1, LineProperties
  <2>3. end \in i .. a /\ i \in 1 .. b /\ end \in i .. b /\ end # b
    BY <1>1 DEF a
  <2>4. \A j \in i .. end : w[j] # "nl"
    <3> TAKE j \in i .. end
    <3>1. j \in 1 .. a
      BY <1>1, <2>3
    <3> QED
      BY <2>2, <3>1 DEF a
  <2>5. w[end + 1] = "nl"
    <3>1. CASE end = a
      BY <3>1 DEF a
    <3>2. CASE end # a
      <4>1. end + 1 \in 1 .. a
        BY <1>1, <2>3, <3>2
      <4> QED
        BY <2>2, <3>2, <4>1 DEF a
    <3> QED
      BY <3>1, <3>2
  <2>6. Line(w, i) = SubSeq(w, i, end)
    BY <2>3, <2>4, <2>5, LineIs DEF b, EndsAt
  <2> DEFINE p == SubSeq(t, i, end)
             q == SubSeq(w, i, end)
  <2>7. /\ p \in Says /\ Len(p) = end - i + 1
        /\ \A k \in 1 .. end - i + 1 : p[k] = t[i + k - 1]
    BY <2>3, PartOfText DEF a
  <2>8. /\ q \in Says /\ Len(q) = end - i + 1
        /\ \A k \in 1 .. end - i + 1 : q[k] = w[i + k - 1]
    BY <2>3, PartOfText DEF b
  <2> HIDE DEF p, q
  <2>9. ASSUME NEW k \in 1 .. end - i + 1 PROVE q[k] = p[k]
    <3>1. i + k - 1 \in 1 .. a
      BY <1>1, <2>3
    <3> QED
      BY <2>7, <2>8, <3>1 DEF a
  <2>10. p \in Seq(Words \cup Marks \cup {"nl"}) /\ q \in Seq(Words \cup Marks \cup {"nl"})
    BY <2>7, <2>8 DEF Says, Text
  <2>11. q = p
    BY <2>7, <2>8, <2>9, <2>10, SeqEqual
  <2> QED
    BY <2>2, <2>6, <2>11 DEF p, q
<1> QED
  BY <1>2, <1>3 DEF a

(* What one list begins with.                                               *)
Begins(list, longer) ==
  Len(list) <= Len(longer) /\ \A k \in 1 .. Len(list) : longer[k] = list[k]

(* The items of a text come first; a line behind it is one more.            *)
LEMMA NextItems ==
  ASSUME NEW t \in Text, NEW u \in Text
  PROVE  LET w == t \o <<"nl">> \o u
         IN /\ Begins(Items(t), Items(w))
            /\ u \in Plain => /\ Len(Items(w)) = Len(Items(t)) + 1
                              /\ Items(w)[Len(Items(t)) + 1] = u
<1> DEFINE w == t \o <<"nl">> \o u
           a == Len(t)
           b == Len(u)
           S == Starts(w)
           T == Starts(t)
           p == PlacesTo(a, T)
           q == PlacesTo(Len(w), S)
<1>1. /\ w \in Text /\ Len(w) = a + 1 + b
      /\ \A i \in 1 .. a : w[i] = t[i]
      /\ w[a + 1] = "nl"
      /\ \A i \in 1 .. b : w[a + 1 + i] = u[i]
  BY NextLine
<1> HIDE DEF w
<1>2. a \in Nat /\ b \in Nat /\ DOMAIN w = 1 .. a + 1 + b /\ DOMAIN u = 1 .. b
  BY <1>1, TextList
<1>3. /\ \A i \in 1 .. a : i \in S <=> i \in T
      /\ \A i \in 1 .. a : i \in T => Line(w, i) = Line(t, i)
  <2>1. Len(t) < Len(w)
    BY <1>1, <1>2
  <2> QED
    BY <1>1, <2>1, LinesInFront
<1>4. Items(t) \in Seq(Plain) /\ Items(t) = [k \in 1 .. Len(p) |-> Line(t, p[k])]
  BY ItemsProperties
<1>5. Items(w) \in Seq(Plain) /\ Items(w) = [k \in 1 .. Len(q) |-> Line(w, q[k])]
  BY <1>1, ItemsProperties
<1>6. PlacesTo(a, S) = p
  <2> HIDE DEF S, T
  <2> QED
    BY <1>2, <1>3, PlacesAgree
<1>7. p \in Seq(Nat \cap T) /\ \A k \in 1 .. Len(p) : p[k] \in 1 .. a /\ p[k] \in T
  <2>1. p \in Seq(Nat \cap T)
    BY <1>2, PlacesGrow
  <2> HIDE DEF p
  <2>2. ASSUME NEW k \in 1 .. Len(p) PROVE p[k] \in 1 .. a /\ p[k] \in T
    <3>1. p[k] \in Nat \cap T
      BY <2>1, ElementOfSeq
    <3>2. p[k] \in DOMAIN t
      BY <3>1 DEF Starts
    <3> QED
      BY <3>1, <3>2, TextList
  <2> QED
    BY <2>1, <2>2
<1> HIDE DEF S, T
<1>8. q \in Seq(Nat \cap S)
  <2>1. Len(w) \in Nat
    BY <1>1, <1>2
  <2> QED
    BY <2>1, PlacesGrow
<1>9. Len(p) <= Len(q) /\ \A k \in 1 .. Len(p) : q[k] = p[k]
  <2>1. Len(w) \in Nat /\ a <= Len(w)
    BY <1>1, <1>2
  <2>2. /\ Len(PlacesTo(a, S)) <= Len(PlacesTo(Len(w), S))
        /\ \A i \in 1 .. Len(PlacesTo(a, S)) : PlacesTo(Len(w), S)[i] = PlacesTo(a, S)[i]
    BY <1>2, <2>1, PlacesBeyond
  <2> QED
    BY <1>6, <2>2
<1>p. p \in Seq(Nat) /\ Len(p) \in Nat /\ q \in Seq(Nat) /\ Len(q) \in Nat
  BY <1>7, <1>8, LenProperties, SeqMonotonic
<1>10. /\ Len(Items(t)) = Len(p) /\ \A k \in 1 .. Len(p) : Items(t)[k] = Line(t, p[k])
  BY <1>4, <1>p, LenProperties
<1>11. /\ Len(Items(w)) = Len(q) /\ \A k \in 1 .. Len(q) : Items(w)[k] = Line(w, q[k])
  BY <1>5, <1>p, LenProperties
<1>12. Begins(Items(t), Items(w))
  <2> HIDE DEF p, q
  <2>1. ASSUME NEW k \in 1 .. Len(p) PROVE Items(w)[k] = Items(t)[k]
    <3>1. k \in 1 .. Len(q)
      BY <1>9, <1>p
    <3> QED
      BY <1>3, <1>7, <1>9, <1>10, <1>11, <3>1
  <2> QED
    BY <1>9, <1>10, <1>11, <2>1 DEF Begins
<1>13. ASSUME u \in Plain
       PROVE  Len(Items(w)) = Len(Items(t)) + 1 /\ Items(w)[Len(Items(t)) + 1] = u
  <2> DEFINE c == a + 2
  <2>1. u # <<>> /\ b >= 1 /\ \A i \in 1 .. b : u[i] # "nl"
    <3>1. u # <<>> /\ \A i \in 1 .. b : u[i] # "nl"
      BY <1>2, <1>13 DEF Plain, Says
    <3> QED
      BY <3>1, TextList
  <2>2. \A i \in c .. Len(w) : w[i] # "nl"
    <3> TAKE i \in c .. Len(w)
    <3> DEFINE j == i - a - 1
    <3>1. j \in 1 .. b /\ i = a + 1 + j
      BY <1>1, <1>2
    <3> HIDE DEF j
    <3> QED
      BY <1>1, <2>1, <3>1
  <2>3. c \in S
    <3>1. c \in 1 .. a + 1 + b /\ c \in c .. Len(w) /\ c - 1 = a + 1
      BY <1>1, <1>2, <2>1
    <3> QED
      BY <1>1, <1>2, <2>2, <3>1 DEF S, Starts
  <2>4. a + 1 \notin S
    BY <1>1 DEF S, Starts
  <2>5. \A i \in (c + 1) .. Len(w) : i \notin S
    <3> TAKE i \in (c + 1) .. Len(w)
    <3>1. i - 1 \in c .. Len(w) /\ i # 1
      BY <1>1, <1>2
    <3> QED
      BY <2>2, <3>1 DEF S, Starts
  <2>6. PlacesTo(a + 1, S) = p
    <3>1. PlacesTo(a + 1, S) = IF a + 1 \in S THEN Append(PlacesTo(a, S), a + 1) ELSE PlacesTo(a, S)
      BY <1>2, PlacesGrow
    <3> QED
      BY <1>6, <2>4, <3>1
  <2>7. PlacesTo(c, S) = Append(p, c)
    <3>1. a + 1 \in Nat /\ a + 1 + 1 = c
      BY <1>2
    <3>2. PlacesTo(a + 1 + 1, S) =
            IF a + 1 + 1 \in S THEN Append(PlacesTo(a + 1, S), a + 1 + 1) ELSE PlacesTo(a + 1, S)
      <4> DEFINE d == a + 1
      <4> HIDE DEF d
      <4>1. PlacesTo(d + 1, S) = IF d + 1 \in S THEN Append(PlacesTo(d, S), d + 1) ELSE PlacesTo(d, S)
        BY <3>1, PlacesGrow DEF d
      <4> QED
        BY <4>1 DEF d
    <3> QED
      BY <2>3, <2>6, <3>1, <3>2
  <2>8. q = Append(p, c)
    <3>1. c \in Nat /\ Len(w) \in Nat /\ c <= Len(w)
      BY <1>1, <1>2, <2>1
    <3> HIDE DEF c
    <3>2. PlacesTo(Len(w), S) = PlacesTo(c, S)
      BY <2>5, <3>1, PlacesBeyond
    <3> QED
      BY <2>7, <3>2
  <2>9. Line(w, c) = u
    <3> DEFINE end == Len(w)
               part == SubSeq(w, c, end)
    <3>1. c \in 1 .. end /\ end \in c .. end /\ end = a + 1 + b /\ end - c + 1 = b
      BY <1>1, <1>2, <2>1
    <3>2. Line(w, c) = part
      BY <1>1, <2>2, <3>1, LineIs DEF EndsAt
    <3>3. /\ part \in Says /\ Len(part) = end - c + 1
          /\ \A k \in 1 .. end - c + 1 : part[k] = w[c + k - 1]
      BY <1>1, <3>1, PartOfText
    <3> HIDE DEF part, end
    <3>4. ASSUME NEW k \in 1 .. b PROVE part[k] = u[k]
      <4>1. k \in 1 .. end - c + 1 /\ c + k - 1 = a + 1 + k
        BY <1>2, <3>1
      <4> QED
        BY <1>1, <3>3, <4>1
    <3>5. part \in Seq(Words \cup Marks \cup {"nl"}) /\ u \in Seq(Words \cup Marks \cup {"nl"}) /\ Len(part) = Len(u)
      BY <3>1, <3>3 DEF Says, Text
    <3>6. part = u
      BY <3>4, <3>5, SeqEqual
    <3> QED
      BY <3>2, <3>6
  <2>10. Len(q) = Len(p) + 1 /\ q[Len(p) + 1] = c
    <3>1. c \in Nat
      BY <1>2
    <3> HIDE DEF p, q, c
    <3> QED
      BY <1>p, <2>8, <3>1, AppendProperties
  <2> HIDE DEF p, q, c
  <2>11. Len(p) + 1 \in 1 .. Len(q)
    BY <1>p, <2>10
  <2>12. Items(w)[Len(p) + 1] = u
    BY <1>11, <2>9, <2>10, <2>11
  <2> QED
    BY <1>10, <1>11, <2>10, <2>12
<1> QED
  BY <1>12, <1>13 DEF w

(* Lines that are joined are the items they came from, and what follows     *)
(* them, whatever it is, does not change that.                              *)
LEMMA ItemsJoined ==
  ASSUME NEW items \in Seq(Text), NEW first \in Seq(Plain), Begins(first, items)
  PROVE  /\ IsPrefix(first, Items(Joined(items)))
         /\ Len(first) = Len(items) => Items(Joined(items)) = first
<1> DEFINE len == Len(items)
           m == Len(first)
<1>1. len \in Nat /\ m \in Nat /\ m <= len
  BY LenProperties DEF Begins
<1>2. PICK text : Joins(text, items, Len(items)) /\ Joined(items) = text[Len(items)]
  BY <1>1, JoinedJoins
<1>3. /\ \A n \in 0 .. len : text[n] \in Text
      /\ text[0] = <<>> /\ \A n \in 1 .. len : text[n] = Link(text, items, n)
  BY <1>2, JoinsText DEF Joins
<1>4. /\ \A n \in 1 .. len : items[n] \in Text
      /\ \A n \in 1 .. m : items[n] = first[n] /\ items[n] \in Plain
  <2>1. ASSUME NEW n \in 1 .. len PROVE items[n] \in Text
    BY ElementOfSeq
  <2>2. ASSUME NEW n \in 1 .. m PROVE items[n] = first[n] /\ items[n] \in Plain
    BY ElementOfSeq DEF Begins
  <2> QED
    BY <2>1, <2>2
<1> DEFINE its(n) == Items(text[n])
           Good(n) == /\ its(n) \in Seq(Plain)
                      /\ n <= m => Len(its(n)) = n
                      /\ \A k \in 1 .. m : k <= n => k <= Len(its(n)) /\ its(n)[k] = items[k]
           Bad == {n \in 0 .. len : ~Good(n)}
<1> HIDE DEF len, m
<1>5. \A n \in 0 .. len : its(n) \in Seq(Plain)
  BY <1>3, ItemsProperties
<1>6. Good(0)
  <2>1. 0 \in 0 .. len
    BY <1>1
  <2>2. /\ its(0) \in Seq(Plain)
        /\ its(0) = [k \in 1 .. Len(PlacesTo(Len(<<>>), Starts(<<>>))) |->
                       Line(<<>>, PlacesTo(Len(<<>>), Starts(<<>>))[k])]
    BY <1>3, <2>1, ItemsProperties
  <2>3. PlacesTo(Len(<<>>), Starts(<<>>)) = <<>>
    <3>1. Len(<<>>) = 0
      OBVIOUS
    <3> QED
      BY <3>1, PlacesGrow
  <2>4. DOMAIN its(0) = 1 .. 0
    BY <2>2, <2>3
  <2> HIDE DEF its
  <2>5. Len(its(0)) = 0
    <3>1. DOMAIN its(0) = 1 .. Len(its(0)) /\ Len(its(0)) \in Nat
      BY <2>2, LenProperties
    <3> QED
      BY <2>4, <3>1
  <2> QED
    BY <1>1, <2>2, <2>5
<1>7. \A n \in 0 .. len : Good(n)
  <2> SUFFICES ASSUME Bad # {} PROVE FALSE
    OBVIOUS
  <2>1. PICK n \in Bad : \A k \in Bad : n <= k
    <3>1. Bad \in SUBSET Nat
      BY <1>1
    <3> HIDE DEF Bad
    <3> QED
      BY <3>1, LeastExists
  <2>2. n \in 0 .. len /\ ~Good(n)
    BY <2>1
  <2>3. n # 0
    BY <1>6, <2>2
  <2> DEFINE j == n - 1
  <2>4. n \in 1 .. len /\ j \in 0 .. len /\ n = j + 1 /\ j \in Nat /\ ~(n <= j)
    BY <1>1, <2>2, <2>3
  <2>5. text[n] = Link(text, items, n) /\ items[n] \in Text
    BY <1>3, <1>4, <2>4
  <2>6. its(n) \in Seq(Plain)
    BY <1>5, <2>2
  <2>7. CASE n = 1
    <3>1. text[n] = items[1]
      BY <2>5, <2>7 DEF Link
    <3>2. CASE m = 0
      BY <1>1, <2>2, <2>6, <2>7, <3>2
    <3>3. CASE m # 0
      <4>1. 1 \in 1 .. m
        BY <1>1, <3>3
      <4>2. Len(its(n)) = 1 /\ its(n)[1] = items[1]
        BY <1>4, <3>1, <4>1, PlainItems
      <4> HIDE DEF its
      <4>3. \A k \in 1 .. m : k <= n => k = 1
        BY <1>1, <2>7
      <4>4. Good(n)
        BY <2>6, <2>7, <4>2, <4>3
      <4> QED
        BY <2>2, <4>4
    <3> QED
      BY <3>2, <3>3
  <2>8. CASE n # 1
    <3> DEFINE old == its(j)
               now == its(n)
    <3>1. text[n] = text[j] \o <<"nl">> \o items[n]
      BY <2>5, <2>8 DEF Link
    <3>2. text[j] \in Text
      BY <1>3, <2>4
    <3>3. /\ Begins(old, now)
          /\ items[n] \in Plain => Len(now) = Len(old) + 1 /\ now[Len(old) + 1] = items[n]
      BY <2>5, <3>1, <3>2, NextItems
    <3> HIDE DEF j
    <3>4. Good(j)
      <4>1. j \notin Bad
        <5> HIDE DEF Bad
        <5> QED
          BY <2>1, <2>4
      <4> QED
        BY <2>4, <4>1
    <3>5. /\ j <= m => Len(old) = j
          /\ \A k \in 1 .. m : k <= j => k <= Len(old) /\ old[k] = items[k]
      BY <3>4
    <3>6. Len(old) \in Nat /\ Len(now) \in Nat
      <4>1. old \in Seq(Plain) /\ now \in Seq(Plain)
        BY <1>5, <2>4
      <4> HIDE DEF old, now
      <4> QED
        BY <4>1, LenProperties
    <3> HIDE DEF old, now
    <3>7. Len(old) <= Len(now) /\ \A k \in 1 .. Len(old) : now[k] = old[k]
      BY <3>3 DEF Begins
    <3>8. n <= m => Len(now) = n /\ now[n] = items[n]
      <4> SUFFICES ASSUME n <= m PROVE Len(now) = n /\ now[n] = items[n]
        OBVIOUS
      <4>1. n \in 1 .. m /\ j <= m
        BY <1>1, <2>4
      <4>2. items[n] \in Plain /\ Len(old) = j
        BY <1>4, <3>5, <4>1
      <4> QED
        BY <2>4, <3>3, <4>2
    <3>9. ASSUME NEW k \in 1 .. m, k <= n PROVE k <= Len(now) /\ now[k] = items[k]
      <4>1. CASE k = n
        BY <1>1, <2>4, <3>6, <3>8, <3>9, <4>1
      <4>2. CASE k # n
        <5>1. k \in Nat /\ k >= 1 /\ k <= j
          BY <1>1, <2>4, <3>9, <4>2
        <5>2. k <= Len(old) /\ old[k] = items[k]
          BY <3>5, <5>1
        <5>3. k \in 1 .. Len(old)
          BY <3>6, <5>1, <5>2
        <5> QED
          BY <3>6, <3>7, <5>1, <5>2, <5>3
      <4> QED
        BY <4>1, <4>2
    <3>10. Good(n)
      BY <2>6, <3>8, <3>9 DEF now
    <3> QED
      BY <2>2, <3>10
  <2> QED
    BY <2>7, <2>8
<1> DEFINE all == Items(Joined(items))
<1>8. /\ all \in Seq(Plain) /\ (len <= m => Len(all) = len)
      /\ \A k \in 1 .. m : k <= len => k <= Len(all) /\ all[k] = items[k]
  <2>1. len \in 0 .. len
    BY <1>1
  <2>2. Good(len)
    BY <1>7, <2>1
  <2> QED
    BY <1>2, <2>2 DEF len
<1> HIDE DEF all
<1>9. Len(all) \in Nat /\ m <= Len(all) /\ \A k \in 1 .. m : all[k] = first[k]
  <2>1. Len(all) \in Nat
    BY <1>8, LenProperties
  <2>2. ASSUME NEW k \in 1 .. m PROVE k <= Len(all) /\ all[k] = first[k]
    <3>1. k <= len
      BY <1>1
    <3> QED
      BY <1>4, <1>8, <3>1
  <2>3. m <= Len(all)
    <3>1. CASE m = 0
      BY <2>1, <3>1
    <3>2. CASE m # 0
      <4>1. m \in 1 .. m
        BY <1>1, <3>2
      <4> QED
        BY <2>2, <4>1
    <3> QED
      BY <3>1, <3>2
  <2> QED
    BY <2>1, <2>2, <2>3
<1>10. SubSeq(first, 1, m) = SubSeq(all, 1, m)
  <2> DEFINE p == SubSeq(first, 1, m)
             q == SubSeq(all, 1, m)
  <2>1. \A k \in 1 .. m : first[k] \in Plain /\ all[k] \in Plain
    <3> TAKE k \in 1 .. m
    <3>1. first[k] \in Plain
      BY ElementOfSeq DEF m
    <3> QED
      BY <1>9, <3>1
  <2>2. /\ p \in Seq(Plain) /\ Len(p) = IF 1 <= m THEN m - 1 + 1 ELSE 0
        /\ \A k \in 1 .. m - 1 + 1 : p[k] = first[1 + k - 1]
    BY <1>1, <2>1, SubSeqProperties
  <2>3. /\ q \in Seq(Plain) /\ Len(q) = IF 1 <= m THEN m - 1 + 1 ELSE 0
        /\ \A k \in 1 .. m - 1 + 1 : q[k] = all[1 + k - 1]
    BY <1>1, <2>1, SubSeqProperties
  <2> HIDE DEF p, q
  <2>4. Len(p) = m /\ Len(q) = m
    BY <1>1, <2>2, <2>3
  <2>5. ASSUME NEW k \in 1 .. m PROVE p[k] = q[k]
    <3>1. k \in 1 .. m - 1 + 1 /\ 1 + k - 1 = k
      BY <1>1
    <3> QED
      BY <1>9, <2>2, <2>3, <3>1
  <2>6. p = q
    BY <2>2, <2>3, <2>4, <2>5, SeqEqual
  <2> QED
    BY <2>6 DEF p, q
<1>11. IsPrefix(first, all)
  BY <1>9, <1>10 DEF IsPrefix, m
<1>12. m = len => all = first
  <2> SUFFICES ASSUME m = len PROVE all = first
    OBVIOUS
  <2>1. Len(all) = Len(first)
    BY <1>1, <1>8 DEF m
  <2> QED
    BY <1>8, <1>9, <2>1, SeqEqual DEF m
<1> QED
  BY <1>11, <1>12 DEF all, m, len

-----------------------------------------------------------------------------
(* What a text says without its line ends                                   *)

Kept(text) == Only(text, Words \cup Marks)

(* A part, empty perhaps.                                                   *)
LEMMA PartIs ==
  ASSUME NEW text \in Text, NEW m \in 1 .. Len(text) + 1, NEW n \in m - 1 .. Len(text)
  PROVE  /\ SubSeq(text, m, n) \in Text
         /\ Len(SubSeq(text, m, n)) = n - m + 1
         /\ \A i \in 1 .. n - m + 1 : SubSeq(text, m, n)[i] = text[m + i - 1]
<1>1. Len(text) \in Nat /\ \A i \in 1 .. Len(text) : text[i] \in Words \cup Marks \cup {"nl"}
  BY TextList
<1>2. m \in Int /\ n \in Int /\ \A i \in m .. n : text[i] \in Words \cup Marks \cup {"nl"}
  BY <1>1
<1>3. /\ SubSeq(text, m, n) \in Seq(Words \cup Marks \cup {"nl"})
      /\ Len(SubSeq(text, m, n)) = IF m <= n THEN n - m + 1 ELSE 0
      /\ \A i \in 1 .. n - m + 1 : SubSeq(text, m, n)[i] = text[m + i - 1]
  BY <1>2, SubSeqProperties
<1>4. (IF m <= n THEN n - m + 1 ELSE 0) = n - m + 1
  BY <1>1
<1> QED
  BY <1>3, <1>4 DEF Text

LEMMA KeptSplits ==
  ASSUME NEW text \in Text, NEW m \in 1 .. Len(text) + 1,
         NEW k \in m - 1 .. Len(text), NEW n \in k .. Len(text)
  PROVE  Kept(SubSeq(text, m, n)) = Kept(SubSeq(text, m, k)) \o Kept(SubSeq(text, k + 1, n))
<1>1. Len(text) \in Nat
  BY TextList
<1>2. n \in m - 1 .. Len(text) /\ k + 1 \in 1 .. Len(text) + 1 /\ n \in k + 1 - 1 .. Len(text)
  BY <1>1
<1>3. SubSeq(text, m, k) \in Text /\ SubSeq(text, k + 1, n) \in Text
  BY <1>2, PartIs
<1>4. SubSeq(text, m, k) \o SubSeq(text, k + 1, n) = SubSeq(text, m, n)
  BY ConcatAdjacentSubSeq DEF Text
<1> DEFINE a == SubSeq(text, m, k)
           b == SubSeq(text, k + 1, n)
<1> DEFINE U == Words \cup Marks \cup {"nl"}
           W == Words \cup Marks
<1>5. Only(a \o b, W) = Only(a, W) \o Only(b, W)
  <2>1. a \in Seq(U) /\ b \in Seq(U)
    BY <1>3 DEF Text
  <2> HIDE DEF a, b, U, W
  <2> QED
    BY <2>1, OnlyConcat
<1> QED
  BY <1>4, <1>5 DEF Kept

(* Blanks say nothing.                                                      *)
LEMMA KeptBlank ==
  ASSUME NEW text \in Text, \A i \in 1 .. Len(text) : text[i] = "nl"
  PROVE  Kept(text) = <<>>
<1>1. \A i \in 1 .. Len(text) : text[i] \notin Words \cup Marks
  BY PathAssumption
<1> QED
  BY <1>1, OnlyNone DEF Kept, Text

LEMMA KeptTrim ==
  ASSUME NEW text \in Text
  PROVE  Kept(Trim(text)) = Kept(text)
<1> DEFINE solid == {i \in DOMAIN text : text[i] # "nl"}
           m == Min(solid)
           n == Max(solid)
           l == Len(text)
<1>1. l \in Nat /\ DOMAIN text = 1 .. l
  BY TextList
<1>2. Kept(<<>>) = <<>>
  BY OnlyEmpty DEF Kept
<1>3. CASE solid = {}
  <2>1. Trim(text) = <<>>
    BY <1>3 DEF Trim
  <2>2. \A i \in 1 .. Len(text) : text[i] = "nl"
    BY <1>1, <1>3
  <2> QED
    BY <1>2, <2>1, <2>2, KeptBlank
<1>4. CASE solid # {}
  <2>1. solid \in SUBSET Nat /\ \A i \in solid : i <= l
    BY <1>1
  <2>2. /\ m \in solid /\ n \in solid /\ \A i \in solid : m <= i /\ i <= n
    <3> HIDE DEF solid
    <3> QED
      BY <1>1, <1>4, <2>1, MinIs, MaxIs
  <2>3. Trim(text) = SubSeq(text, m, n)
    BY <1>4 DEF Trim
  <2> HIDE DEF m, n
  <2>4. m \in 1 .. l /\ n \in m .. l
    BY <1>1, <2>2
  <2>5. \A i \in 1 .. l : i < m \/ n < i => text[i] = "nl"
    <3> SUFFICES ASSUME NEW i \in 1 .. l, i < m \/ n < i, text[i] # "nl" PROVE FALSE
      OBVIOUS
    <3>1. i \in solid
      BY <1>1
    <3>2. m <= i /\ i <= n
      BY <2>2, <3>1
    <3> QED
      BY <1>1, <2>4, <3>2
  <2> HIDE DEF solid
  <2> DEFINE before == SubSeq(text, 1, m - 1)
             trim == SubSeq(text, m, n)
             after == SubSeq(text, n + 1, l)
  <2>6. Kept(before) = <<>>
    <3>1. 1 \in 1 .. Len(text) + 1 /\ m - 1 \in 1 - 1 .. Len(text) /\ m - 1 - 1 + 1 = m - 1
      BY <1>1, <2>4
    <3>2. /\ before \in Text /\ Len(before) = m - 1 - 1 + 1
          /\ \A i \in 1 .. m - 1 - 1 + 1 : before[i] = text[1 + i - 1]
      BY <3>1, PartIs
    <3> HIDE DEF before
    <3>3. ASSUME NEW i \in 1 .. Len(before) PROVE before[i] = "nl"
      <4>1. i \in 1 .. m - 1 - 1 + 1 /\ 1 + i - 1 = i /\ i \in 1 .. l /\ i < m
        BY <1>1, <2>4, <3>1, <3>2
      <4> QED
        BY <2>5, <3>2, <4>1
    <3> QED
      BY <3>2, <3>3, KeptBlank
  <2>7. Kept(after) = <<>>
    <3>1. n + 1 \in 1 .. Len(text) + 1 /\ l \in n + 1 - 1 .. Len(text)
      BY <1>1, <2>4
    <3>2. /\ after \in Text /\ Len(after) = l - (n + 1) + 1
          /\ \A i \in 1 .. l - (n + 1) + 1 : after[i] = text[n + 1 + i - 1]
      BY <3>1, PartIs
    <3> HIDE DEF after
    <3>3. ASSUME NEW i \in 1 .. Len(after) PROVE after[i] = "nl"
      <4>1. i \in 1 .. l - (n + 1) + 1 /\ n + 1 + i - 1 \in 1 .. l /\ n < n + 1 + i - 1
        BY <1>1, <2>4, <3>2
      <4> QED
        BY <2>5, <3>2, <4>1
    <3> QED
      BY <3>2, <3>3, KeptBlank
  <2>8. Kept(trim) \in Seq(Words \cup Marks \cup {"nl"})
    <3>1. trim \in Seq(Words \cup Marks \cup {"nl"})
      BY <2>4, PartOfText DEF Says, Text
    <3> HIDE DEF trim
    <3>2. Kept(trim) \in Seq((Words \cup Marks \cup {"nl"}) \cap (Words \cup Marks))
      BY <3>1, OnlyProperties DEF Kept
    <3> QED
      BY <3>2, SeqMonotonic
  <2>9. Kept(SubSeq(text, 1, n)) = Kept(before) \o Kept(trim)
    <3>1. 1 \in 1 .. Len(text) + 1 /\ m - 1 \in 1 - 1 .. Len(text) /\ n \in m - 1 .. Len(text) /\ m - 1 + 1 = m
      BY <1>1, <2>4
    <3>2. Kept(SubSeq(text, 1, n)) = Kept(SubSeq(text, 1, m - 1)) \o Kept(SubSeq(text, m - 1 + 1, n))
      BY <3>1, KeptSplits
    <3> QED
      BY <3>1, <3>2
  <2>10. Kept(SubSeq(text, 1, l)) = Kept(SubSeq(text, 1, n)) \o Kept(after)
    <3>1. 1 \in 1 .. Len(text) + 1 /\ n \in 1 - 1 .. Len(text) /\ l \in n .. Len(text)
      BY <1>1, <2>4
    <3> QED
      BY <3>1, KeptSplits
  <2>11. SubSeq(text, 1, l) = text
    BY SubSeqFull DEF Text
  <2> HIDE DEF before, trim, after, l
  <2> DEFINE k == Kept(trim)
  <2>12. Kept(text) = (<<>> \o k) \o <<>>
    BY <2>6, <2>7, <2>9, <2>10, <2>11
  <2>13. <<>> \o k = k /\ k \o <<>> = k
    <3> HIDE DEF k
    <3> QED
      BY <2>8, ConcatEmptySeq DEF k
  <2>14. Kept(text) = k
    <3> HIDE DEF k
    <3> QED
      BY <2>12, <2>13
  <2> QED
    BY <2>3, <2>14 DEF trim
<1> QED
  BY <1>3, <1>4

(* A mark, and a field, are kept.                                           *)
LEMMA KeptMark ==
  ASSUME NEW text \in Text, NEW i \in 1 .. Len(text), text[i] \in Marks
  PROVE  Kept(SubSeq(text, i, i)) = <<text[i]>>
<1> DEFINE part == SubSeq(text, i, i)
           mark == text[i]
<1>1. Len(text) \in Nat /\ i \in i .. Len(text) /\ i - i + 1 = 1 /\ i + 1 - 1 = i
  BY TextList
<1>2. part \in Says /\ Len(part) = i - i + 1 /\ \A k \in 1 .. i - i + 1 : part[k] = text[i + k - 1]
  BY <1>1, PartOfText
<1> HIDE DEF part
<1>3. part \in Text /\ Len(part) = 1 /\ part[1] = mark
  <2>1. 1 \in 1 .. i - i + 1
    BY <1>1
  <2> QED
    BY <1>1, <1>2, <2>1 DEF Says
<1>4. mark \in Words \cup Marks
  OBVIOUS
<1> HIDE DEF mark
<1>5. <<mark>> \in Seq(Words \cup Marks) /\ <<mark>> \in Text
  BY <1>4, SeqDef, TokenText
<1>6. part = <<mark>>
  BY <1>3, <1>5, SeqEqual DEF Text
<1>7. Only(<<mark>>, Words \cup Marks) = <<mark>>
  BY <1>5, OnlyProperties
<1> QED
  BY <1>6, <1>7 DEF Kept, part, mark

LEMMA KeptField ==
  ASSUME NEW text \in Text, NEW from \in 1 .. Len(text) + 1, NEW to \in 0 .. Len(text),
         Field(text, from, to) \in Plain
  PROVE  from <= to /\ Kept(SubSeq(text, from, to)) = Field(text, from, to)
<1> DEFINE part == SubSeq(text, from, to)
<1>0. Len(text) \in Nat
  BY TextList
<1>1. from <= to
  <2> SUFFICES ASSUME to < from PROVE FALSE
    BY <1>0
  <2>1. part = <<>>
    BY <1>0, SubSeqEmpty
  <2>2. Trim(<<>>) = <<>>
    <3>1. {i \in DOMAIN <<>> : <<>>[i] # "nl"} = {}
      OBVIOUS
    <3> QED
      BY <3>1 DEF Trim
  <2> QED
    BY <2>1, <2>2 DEF Field, Plain, Says
<1>2. part \in Text
  <2>1. to \in from - 1 .. Len(text)
    BY <1>0, <1>1
  <2> QED
    BY <2>1, PartIs
<1> HIDE DEF part
<1> DEFINE field == Field(text, from, to)
<1>3. field = Trim(part)
  BY DEF Field, part
<1>4. field \in Text /\ \A i \in DOMAIN field : field[i] # "nl"
  BY PlainIsTrim DEF Plain
<1> HIDE DEF field
<1>5. field \in Seq(Words \cup Marks)
  <2>1. Len(field) \in Nat /\ DOMAIN field = 1 .. Len(field) /\ field \in [1 .. Len(field) -> Words \cup Marks \cup {"nl"}]
    BY <1>4, LenProperties DEF Text
  <2>2. \A i \in 1 .. Len(field) : field[i] \in Words \cup Marks
    BY <1>4, <2>1
  <2>3. field \in [1 .. Len(field) -> Words \cup Marks]
    BY <2>1, <2>2
  <2> QED
    BY <2>1, <2>3, SeqDef
<1>6. Kept(field) = field
  BY <1>5, OnlyProperties DEF Kept
<1>7. Kept(part) = field
  BY <1>2, <1>3, <1>6, KeptTrim
<1> QED
  BY <1>1, <1>7 DEF part, field

(* The parsed text, formatted, is the text but for its line ends: whatever  *)
(* way it was cut.                                                          *)
LEMMA CutKeeps ==
  ASSUME NEW text \in Text, NEW cut \in Cuts(text)
  PROVE  FormatGwt(Fields(text, cut)) = Kept(text)
<1> DEFINE c == cut[1]
           d == cut[2]
           l == Len(text)
           g == Field(text, 2, c - 1)
           w == Field(text, c + 1, d - 1)
           t == Field(text, d + 1, l)
           K(from, to) == Kept(SubSeq(text, from, to))
<1>1. /\ cut \in (1 .. Len(text)) \X (1 .. Len(text))
      /\ text[1] = "Given" /\ text[c] = "When" /\ text[d] = "Then"
      /\ g \in Plain /\ w \in Plain /\ t \in Plain
  BY CutProperties DEF Fields
<1>2. FormatGwt(Fields(text, cut)) =
        <<"Given">> \o g \o <<"When">> \o w \o <<"Then">> \o t
  BY DEF FormatGwt, Fields
<1>3. l \in Nat /\ c \in 1 .. l /\ d \in 1 .. l
  BY <1>1, TextList
<1> HIDE DEF c, d
<1>4. /\ 2 \in 1 .. Len(text) + 1 /\ c - 1 \in 0 .. Len(text)
      /\ c + 1 \in 1 .. Len(text) + 1 /\ d - 1 \in 0 .. Len(text)
      /\ d + 1 \in 1 .. Len(text) + 1 /\ l \in 0 .. Len(text)
  BY <1>3
<1>5. 2 <= c - 1 /\ K(2, c - 1) = g
  BY <1>1, <1>4, KeptField
<1>6. c + 1 <= d - 1 /\ K(c + 1, d - 1) = w
  BY <1>1, <1>4, KeptField
<1>7. d + 1 <= l /\ K(d + 1, l) = t
  BY <1>1, <1>4, KeptField
<1>8. K(1, 1) = <<"Given">> /\ K(c, c) = <<"When">> /\ K(d, d) = <<"Then">>
  <2>1. 1 \in 1 .. Len(text)
    BY <1>3
  <2>2. text[1] \in Marks /\ text[c] \in Marks /\ text[d] \in Marks
    BY <1>1 DEF Marks
  <2> QED
    BY <1>1, <1>3, <2>1, <2>2, KeptMark
<1>9. ASSUME NEW k \in 0 .. l, NEW n \in k .. l PROVE K(1, n) = K(1, k) \o K(k + 1, n)
  <2>1. 1 \in 1 .. Len(text) + 1 /\ k \in 1 - 1 .. Len(text) /\ n \in k .. Len(text)
    BY <1>3, <1>9
  <2> QED
    BY <2>1, KeptSplits
<1>10. Kept(text) = K(1, l)
  BY SubSeqFull DEF Text
<1> HIDE DEF K, g, w, t, l
<1>11. K(1, c - 1) = <<"Given">> \o g
  <2>1. 1 \in 0 .. l /\ c - 1 \in 1 .. l /\ 1 + 1 = 2
    BY <1>3, <1>5
  <2> QED
    BY <1>5, <1>8, <1>9, <2>1
<1>12. K(1, c) = <<"Given">> \o g \o <<"When">>
  <2>1. c - 1 \in 0 .. l /\ c \in c - 1 .. l /\ c - 1 + 1 = c
    BY <1>3
  <2> QED
    BY <1>8, <1>9, <1>11, <2>1
<1>13. K(1, d - 1) = <<"Given">> \o g \o <<"When">> \o w
  <2>1. c \in 0 .. l /\ d - 1 \in c .. l
    BY <1>3, <1>6
  <2> QED
    BY <1>6, <1>9, <1>12, <2>1
<1>14. K(1, d) = <<"Given">> \o g \o <<"When">> \o w \o <<"Then">>
  <2>1. d - 1 \in 0 .. l /\ d \in d - 1 .. l /\ d - 1 + 1 = d
    BY <1>3
  <2> QED
    BY <1>8, <1>9, <1>13, <2>1
<1>15. K(1, l) = <<"Given">> \o g \o <<"When">> \o w \o <<"Then">> \o t
  <2>1. d \in 0 .. l /\ l \in d .. l
    BY <1>3
  <2> QED
    BY <1>7, <1>9, <1>14, <2>1
<1> QED
  BY <1>2, <1>10, <1>15

-----------------------------------------------------------------------------
(* What an edit wrote is read                                               *)

(* How a text is to be read at the address it was written to.               *)
ReadsAs(p, text, read) ==
  CASE p.part = "criteria" -> read = Kept(text)
    [] p.part = "users" /\ LineArray(p) -> Items(read) = Items(text)
    [] p.part = "issues" /\ LineArray(p) -> IsPrefix(Items(text), Items(read))
    [] OTHER -> read = Trim(text)

LEMMA EditReads ==
  ASSUME DocInv, NEW paths \in Edits, NEW text \in Text, Edit(paths, text), NEW p \in paths
  PROVE  ReadsAs(p, text, Read(doc', p))
<1> DEFINE corrections == [q \in paths |-> text]
           middle == Corrected(doc, corrections)
           now == doc'
           at == p.at
           read == Read(now, p)
<1> SUFFICES ReadsAs(p, text, read)
  OBVIOUS
<1>1. /\ p = Place(p.part, at) /\ at \in Nat
      /\ p.part \in {"problem", "users", "issues", "criteria"}
  BY PathAssumption DEF Address, Place
<1>2. ASSUME Place(p.part, 0) \in paths, p.part \in {"users", "issues"} PROVE at = 0
  <2>1. LineArray(Place(p.part, 0)) /\ Place(p.part, 0).part = p.part
    BY <1>2 DEF LineArray, Place
  <2>2. Place(p.part, 0) = p
    BY <1>2, <2>1, PathAssumption
  <2> QED
    BY <2>2 DEF Place
<1>3. Exists(doc, p) /\ Accepts(p, text)
  BY DEF Edit
<1>4. middle \in Content /\ Write(middle)
  BY EditWrites
<1>5. PICK order \in SetToSeqs(PromotedSlots) : now = Assembled(middle, order)
  BY <1>4 DEF Write, PromotedSlots
<1>6. DOMAIN corrections = paths /\ \A q \in paths : corrections[q] = text
  OBVIOUS
<1> HIDE DEF corrections
<1>7. /\ middle.problem = IF Place("problem", 0) \in paths THEN Trim(text) ELSE doc.problem
      /\ middle.users = IF Place("users", 0) \in paths THEN Items(text)
                        ELSE [i \in DOMAIN doc.users |->
                                IF Place("users", i) \in paths THEN Trim(text) ELSE doc.users[i]]
      /\ Place("issues", 0) \in paths => middle.issues = Relined(doc.issues, Items(text))
      /\ Place("issues", 0) \notin paths =>
           \A i \in DOMAIN doc.issues : Place("issues", i) \in paths =>
             i \in DOMAIN middle.issues /\ middle.issues[i] = [doc.issues[i] EXCEPT !.question = Trim(text)]
      /\ \A i \in DOMAIN doc.criteria : Place("criteria", i) \in paths =>
           i \in DOMAIN middle.criteria /\ middle.criteria[i] = ParseGwt(Trim(text))
  BY <1>6 DEF Corrected
<1> HIDE DEF middle
<1>8. /\ now \in Content /\ now.problem = middle.problem /\ now.users = middle.users
      /\ now.criteria = middle.criteria /\ Continues(middle.issues, now.issues)
  BY <1>4, <1>5, AssembledLists DEF DocInv
<1> HIDE DEF now
<1>9. doc \in Content
  BY DEF DocInv
<1>10. CASE p.part = "problem"
  <2>1. at = 0 /\ p = Place("problem", 0)
    BY <1>1, <1>3, <1>10 DEF Exists
  <2>2. read = Trim(text)
    BY <1>7, <1>8, <2>1, ElementReads
  <2> QED
    BY <1>10, <2>2 DEF ReadsAs
<1>11. CASE p.part = "users"
  <2>1. CASE at = 0
    <3>1. p = Place("users", 0) /\ LineArray(p)
      BY <1>1, <1>11, <2>1 DEF LineArray
    <3>2. now.users = Items(text)
      BY <1>7, <1>8, <3>1
    <3>3. read = Joined(Items(text))
      BY <1>11, <2>1, <3>2 DEF Read
    <3>4. Items(text) \in Seq(Plain) /\ Items(text) \in Seq(Text) /\ Begins(Items(text), Items(text))
      <4>1. Items(text) \in Seq(Plain)
        BY ItemsProperties
      <4>2. Plain \subseteq Text
        BY PlainIsTrim
      <4> QED
        BY <4>1, <4>2, SeqMonotonic, LenProperties DEF Begins
    <3> DEFINE items == Items(text)
    <3> HIDE DEF items
    <3>5. Items(Joined(items)) = items
      BY <3>4, ItemsJoined DEF items
    <3> QED
      BY <1>11, <3>1, <3>3, <3>5 DEF ReadsAs, items
  <2>2. CASE at # 0
    <3>1. ~LineArray(p) /\ Place("users", 0) \notin paths
      BY <1>2, <1>11, <2>2 DEF LineArray
    <3>2. at \in DOMAIN doc.users /\ p = Place("users", at)
      <4>1. at \in 0 .. Len(doc.users)
        BY <1>3, <1>11 DEF Exists
      <4>2. DOMAIN doc.users = 1 .. Len(doc.users) /\ Len(doc.users) \in Nat
        BY <1>9, ContentIs
      <4> QED
        BY <1>1, <1>11, <2>2, <4>1, <4>2
    <3>3. at \in DOMAIN now.users /\ now.users[at] = Trim(text)
      BY <1>7, <1>8, <3>1, <3>2
    <3>4. read = Trim(text)
      BY <1>8, <3>2, <3>3, ElementReads
    <3> QED
      BY <1>11, <3>1, <3>4 DEF ReadsAs
  <2> QED
    BY <2>1, <2>2
<1>12. CASE p.part = "issues"
  <2>1. CASE at = 0
    <3> DEFINE questions == [i \in DOMAIN now.issues |-> now.issues[i].question]
               items == Items(text)
    <3>1. p = Place("issues", 0) /\ LineArray(p)
      BY <1>1, <1>12, <2>1 DEF LineArray
    <3>2. read = Joined(questions)
      BY <1>12, <2>1 DEF Read
    <3>3. /\ items \in Seq(Plain) /\ items \in Seq(Says)
          /\ Len(items) \in Nat /\ DOMAIN items = 1 .. Len(items)
      BY ItemsProperties, ItemsStand
    <3> HIDE DEF items
    <3>4. /\ DOMAIN middle.issues = DOMAIN items
          /\ \A i \in DOMAIN items : middle.issues[i].question = items[i]
      <4>1. doc.issues \in Seq(Issue)
        BY <1>9, ContentIs
      <4>2. middle.issues = Relined(doc.issues, items)
        BY <1>7, <3>1 DEF items
      <4> QED
        BY <3>3, <4>1, <4>2, RelinedIs
    <3>5. /\ Len(now.issues) \in Nat /\ DOMAIN now.issues = 1 .. Len(now.issues)
          /\ \A i \in DOMAIN now.issues : now.issues[i].question \in Text
      <4>1. /\ Len(now.issues) \in Nat /\ DOMAIN now.issues = 1 .. Len(now.issues)
            /\ \A i \in DOMAIN now.issues : now.issues[i] \in Issue
        BY <1>8, ContentIs
      <4> QED
        BY <4>1 DEF Issue, Says
    <3>6. questions \in Seq(Text) /\ Len(questions) = Len(now.issues)
      <4>1. questions \in [1 .. Len(now.issues) -> Text]
        BY <3>5
      <4>2. DOMAIN questions = 1 .. Len(now.issues)
        BY <3>5
      <4> HIDE DEF questions
      <4>3. questions \in Seq(Text)
        BY <3>5, <4>1, SeqDef
      <4> QED
        BY <3>5, <4>2, <4>3, LenProperties
    <3>7. Begins(items, questions)
      <4>1. \A i \in 1 .. Len(items) : i \in 1 .. Len(now.issues) /\ questions[i] = items[i]
        BY <1>8, <3>3, <3>4, <3>5 DEF Continues
      <4>2. Len(items) <= Len(now.issues)
        <5>1. CASE Len(items) = 0
          BY <3>5, <5>1
        <5>2. CASE Len(items) # 0
          <6>1. Len(items) \in 1 .. Len(items)
            BY <3>3, <5>2
          <6>2. Len(items) \in 1 .. Len(now.issues)
            BY <4>1, <6>1
          <6> QED
            BY <3>5, <6>2
        <5> QED
          BY <5>1, <5>2
      <4> HIDE DEF questions
      <4> QED
        BY <3>6, <4>1, <4>2 DEF Begins
    <3> HIDE DEF questions
    <3>8. IsPrefix(items, Items(Joined(questions)))
      BY <3>3, <3>6, <3>7, ItemsJoined
    <3> QED
      BY <1>12, <3>1, <3>2, <3>8 DEF ReadsAs, items
  <2>2. CASE at # 0
    <3>1. ~LineArray(p) /\ Place("issues", 0) \notin paths
      BY <1>2, <1>12, <2>2 DEF LineArray
    <3>2. at \in DOMAIN doc.issues /\ p = Place("issues", at) /\ doc.issues[at] \in Issue
      <4>1. at \in 0 .. Len(doc.issues)
        BY <1>3, <1>12 DEF Exists
      <4>2. /\ DOMAIN doc.issues = 1 .. Len(doc.issues) /\ Len(doc.issues) \in Nat
            /\ \A i \in DOMAIN doc.issues : doc.issues[i] \in Issue
        BY <1>9, ContentIs
      <4> QED
        BY <1>1, <1>12, <2>2, <4>1, <4>2
    <3>3. at \in DOMAIN middle.issues /\ middle.issues[at] = [doc.issues[at] EXCEPT !.question = Trim(text)]
      BY <1>7, <3>1, <3>2
    <3>4. middle.issues[at].question = Trim(text)
      BY <3>2, <3>3 DEF Issue
    <3>5. at \in DOMAIN now.issues /\ now.issues[at].question = Trim(text)
      BY <1>8, <3>3, <3>4 DEF Continues
    <3>6. read = Trim(text)
      BY <1>8, <3>2, <3>5, ElementReads
    <3> QED
      BY <1>12, <3>1, <3>6 DEF ReadsAs
  <2> QED
    BY <2>1, <2>2
<1>13. CASE p.part = "criteria"
  <2>1. at \in DOMAIN doc.criteria /\ p = Place("criteria", at)
    BY <1>1, <1>3, <1>13 DEF Exists
  <2>2. at \in DOMAIN now.criteria /\ now.criteria[at] = ParseGwt(Trim(text))
    BY <1>7, <1>8, <2>1
  <2>3. read = FormatGwt(ParseGwt(Trim(text)))
    BY <1>8, <2>1, <2>2, ElementReads
  <2>4. Trim(text) \in Text /\ Cuts(Trim(text)) # {}
    BY <1>3, <1>13, TrimProperties DEF Accepts
  <2> DEFINE trimmed == Trim(text)
  <2> HIDE DEF trimmed
  <2>5. PICK cut \in Cuts(trimmed) : ParseGwt(trimmed) = Fields(trimmed, cut)
    BY <2>4, ParseCuts DEF trimmed
  <2>6. FormatGwt(ParseGwt(trimmed)) = Kept(trimmed)
    BY <2>4, <2>5, CutKeeps DEF trimmed
  <2>7. read = Kept(text)
    BY <2>3, <2>6, KeptTrim DEF trimmed
  <2> QED
    BY <1>13, <2>7 DEF ReadsAs
<1> QED
  BY <1>1, <1>10, <1>11, <1>12, <1>13

(* The text of an edit stands at its address as it was written, but for     *)
(* blank lines: for every text, list of lines and way in which the pattern  *)
(* of criteria may match (applyDocumentCorrections, parseGwt).              *)
THEOREM WrittenIsRead == Spec => WrittenStands
<1>1. ASSUME DocInv, NEW paths \in Edits, NEW text \in Texts, Edit(paths, text), NEW p \in paths
      PROVE  ReadsAs(p, text, Read(doc', p))
  <2>1. text \in Text
    BY PathAssumption
  <2> QED
    BY <1>1, <2>1, EditReads
<1>2. DocInv /\ [Next]_vars =>
        \A paths \in Edits, text \in Texts :
          version' > version /\ Edit(paths, text) =>
            \A p \in paths :
              LET read == Read(doc', p)
                  written == Only(text, Words \cup Marks)
              IN CASE p.part = "criteria" -> read = written
                   [] p.part = "users" /\ LineArray(p) -> Items(read) = Items(text)
                   [] p.part = "issues" /\ LineArray(p) -> IsPrefix(Items(text), Items(read))
                   [] OTHER -> read = Trim(text)
  BY <1>1 DEF ReadsAs, Kept
<1> QED
  BY <1>2, DocInvariance, PTL DEF Spec, WrittenStands
=============================================================================
