---------------------------- MODULE ListsProofs ----------------------------
(***************************************************************************)
(* What filtering a list keeps.  The function it is defined by exists, and *)
(* is what it says, because a set of numbers that is not empty has a least *)
(* element: the first place at which either would fail.                     *)
(***************************************************************************)
EXTENDS Lists, SequenceTheorems, WellFoundedInduction, TLAPS

(* A set of numbers that is not empty has a least one.                      *)
LEMMA LeastExists ==
  ASSUME NEW T \in SUBSET Nat, T # {}
  PROVE  \E m \in T : \A n \in T : m <= n
<1> DEFINE Less == {ss \in Nat \X Nat : ss[1] < ss[2]}
<1>1. IsWellFoundedOn(Less, Nat)
  BY NatLessThanWellFounded DEF OpToRel
<1>2. \A m, n \in Nat : <<n, m>> \in Less <=> n < m
  OBVIOUS
<1> HIDE DEF Less
<1>3. PICK m \in T : \A n \in T : <<n, m>> \notin Less
  BY <1>1, WFMin, Zenon
<1>4. m \in Nat /\ \A n \in T : n \in Nat /\ ~(n < m)
  BY <1>2, <1>3
<1> QED
  BY <1>4

(* One that has a bound has a greatest.                                     *)
LEMMA GreatestExists ==
  ASSUME NEW T \in SUBSET Nat, T # {}, NEW bound \in Nat, \A n \in T : n <= bound
  PROVE  \E m \in T : \A n \in T : n <= m
<1> DEFINE Rest == {bound - n : n \in T}
<1>1. Rest \in SUBSET Nat /\ Rest # {}
  <2>1. \A n \in T : n \in Nat /\ bound - n \in Nat
    OBVIOUS
  <2>2. \A r \in Rest : r \in Nat
    BY <2>1
  <2>3. Rest # {}
    OBVIOUS
  <2> QED
    BY <2>2, <2>3
<1>2. PICK r \in Rest : \A q \in Rest : r <= q
  <2> HIDE DEF Rest
  <2> QED
    BY <1>1, LeastExists
<1>3. PICK m \in T : r = bound - m
  BY <1>2
<1>4. \A n \in T : r <= bound - n
  BY <1>2
<1>5. \A n \in T : n \in Nat
  OBVIOUS
<1> HIDE DEF Rest
<1> QED
  BY <1>3, <1>4, <1>5

(* The list as it is kept up to the n-th element, for n up to its length.   *)
Keeps(kept, list, set, len) ==
  /\ kept = [n \in 0 .. len |-> kept[n]]
  /\ kept[0] = <<>>
  /\ \A n \in 1 .. len :
       kept[n] = IF list[n] \in set THEN Append(kept[n - 1], list[n]) ELSE kept[n - 1]

(* There is such a function for every length.                               *)
LEMMA KeepsExists ==
  ASSUME NEW list, NEW set, NEW len \in Nat
  PROVE  \E kept : Keeps(kept, list, set, len)
<1> DEFINE Bad == {n \in Nat : ~\E kept : Keeps(kept, list, set, n)}
<1> SUFFICES ASSUME Bad # {} PROVE FALSE
  OBVIOUS
<1>1. PICK m \in Bad : \A n \in Bad : m <= n
  <2>1. Bad \in SUBSET Nat
    OBVIOUS
  <2> HIDE DEF Bad
  <2> QED
    BY <2>1, LeastExists
<1>2. CASE m = 0
  <2> DEFINE first == [n \in 0 .. 0 |-> <<>>]
  <2>1. Keeps(first, list, set, 0)
    BY DEF Keeps
  <2> QED
    BY <1>2, <2>1
<1>3. CASE m # 0
  <2>1. m \in Nat /\ m - 1 \in Nat /\ m - 1 \notin Bad
    BY <1>1, <1>3
  <2>2. PICK kept : Keeps(kept, list, set, m - 1)
    BY <2>1
  <2> DEFINE next == [n \in 0 .. m |->
                        IF n # m THEN kept[n]
                        ELSE IF list[m] \in set THEN Append(kept[m - 1], list[m]) ELSE kept[m - 1]]
  <2>3. next[0] = <<>>
    BY <1>3, <2>1, <2>2 DEF Keeps
  <2>4. ASSUME NEW n \in 1 .. m
        PROVE  next[n] = IF list[n] \in set THEN Append(next[n - 1], list[n]) ELSE next[n - 1]
    <3>1. n \in 0 .. m /\ n - 1 \in 0 .. m /\ n - 1 # m
      BY <2>1
    <3>2. next[n - 1] = kept[n - 1]
      BY <3>1
    <3>3. CASE n = m
      BY <3>1, <3>2, <3>3
    <3>4. CASE n # m
      <4>1. n \in 1 .. (m - 1)
        BY <2>1, <3>4
      <4>2. next[n] = kept[n]
        BY <3>1, <3>4
      <4> HIDE DEF next
      <4> QED
        BY <2>2, <3>2, <4>1, <4>2 DEF Keeps
    <3> QED
      BY <3>3, <3>4
  <2>5. next = [n \in 0 .. m |-> next[n]]
    OBVIOUS
  <2> HIDE DEF next
  <2>6. Keeps(next, list, set, m)
    BY <2>3, <2>4, <2>5 DEF Keeps
  <2> QED
    BY <1>1, <2>6
<1> QED
  BY <1>2, <1>3

(* Only is what such a function says of the whole list.                     *)
LEMMA OnlyKeeps ==
  ASSUME NEW U, NEW list \in Seq(U), NEW set
  PROVE  \E kept : Keeps(kept, list, set, Len(list)) /\ Only(list, set) = kept[Len(list)]
<1> DEFINE Body(kept) == [n \in 0 .. Len(list) |->
                           IF n = 0 THEN <<>>
                           ELSE IF list[n] \in set THEN Append(kept[n - 1], list[n])
                           ELSE kept[n - 1]]
           chosen == CHOOSE kept : kept = Body(kept)
<1>1. Len(list) \in Nat
  OBVIOUS
<1>2. PICK kept : Keeps(kept, list, set, Len(list))
  BY <1>1, KeepsExists
<1>3. kept = Body(kept)
  <2>1. kept = [n \in 0 .. Len(list) |-> kept[n]]
    BY <1>2 DEF Keeps
  <2>2. ASSUME NEW n \in 0 .. Len(list) PROVE kept[n] = Body(kept)[n]
    <3>1. n = 0 \/ n \in 1 .. Len(list)
      BY <1>1
    <3> QED
      BY <1>2, <3>1 DEF Keeps
  <2> QED
    BY <2>1, <2>2
<1>4. chosen = Body(chosen)
  BY <1>3
<1>5. Only(list, set) = chosen[Len(list)]
  BY DEF Only
<1> HIDE DEF chosen
<1>6. Keeps(chosen, list, set, Len(list))
  <2>1. chosen = [n \in 0 .. Len(list) |-> Body(chosen)[n]]
    BY <1>4
  <2>2. \A n \in 0 .. Len(list) : chosen[n] = Body(chosen)[n]
    BY <1>4
  <2>3. chosen = [n \in 0 .. Len(list) |-> chosen[n]]
    BY <2>1, <2>2
  <2>4. chosen[0] = <<>>
    BY <1>1, <2>2
  <2>5. ASSUME NEW n \in 1 .. Len(list)
        PROVE  chosen[n] = IF list[n] \in set THEN Append(chosen[n - 1], list[n]) ELSE chosen[n - 1]
    <3>1. n \in 0 .. Len(list) /\ n # 0
      BY <1>1
    <3> QED
      BY <2>2, <3>1
  <2> QED
    BY <2>3, <2>4, <2>5 DEF Keeps
<1> QED
  BY <1>5, <1>6

(* Two such functions agree as far as both go.                              *)
LEMMA KeepsAgree ==
  ASSUME NEW U, NEW list \in Seq(U), NEW x \in U, NEW set, NEW old, NEW new,
         Keeps(old, list, set, Len(list)), Keeps(new, Append(list, x), set, Len(list) + 1)
  PROVE  \A n \in 0 .. Len(list) : old[n] = new[n]
<1> DEFINE Bad == {n \in 0 .. Len(list) : old[n] # new[n]}
<1> SUFFICES ASSUME Bad # {} PROVE FALSE
  OBVIOUS
<1>t. Len(list) \in Nat /\ \A n \in 1 .. Len(list) : Append(list, x)[n] = list[n]
  BY AppendProperties
<1>1. PICK m \in Bad : \A n \in Bad : m <= n
  <2>1. Bad \in SUBSET Nat
    BY <1>t
  <2> HIDE DEF Bad
  <2> QED
    BY <2>1, LeastExists
<1>2. m # 0
  BY <1>t, <1>1 DEF Keeps
<1>3. m \in 1 .. Len(list) /\ m \in 1 .. (Len(list) + 1) /\ m - 1 \in 0 .. Len(list) /\ m - 1 \notin Bad
  BY <1>t, <1>1, <1>2
<1>4. old[m - 1] = new[m - 1] /\ Append(list, x)[m] = list[m]
  BY <1>t, <1>3
<1>5. old[m] = new[m]
  BY <1>3, <1>4 DEF Keeps
<1> QED
  BY <1>1, <1>5

(* Nothing of nothing is kept.                                              *)
LEMMA OnlyEmpty == ASSUME NEW set PROVE Only(<<>>, set) = <<>>
<1>1. <<>> \in Seq({}) /\ Len(<<>>) = 0
  BY EmptySeq
<1>2. PICK kept : Keeps(kept, <<>>, set, Len(<<>>)) /\ Only(<<>>, set) = kept[Len(<<>>)]
  BY <1>1, OnlyKeeps
<1> QED
  BY <1>1, <1>2 DEF Keeps

(* Of a list that grows by an element the element is kept, or not.          *)
LEMMA OnlyAppend ==
  ASSUME NEW U, NEW list \in Seq(U), NEW x \in U, NEW set
  PROVE  Only(Append(list, x), set) =
           IF x \in set THEN Append(Only(list, set), x) ELSE Only(list, set)
<1> DEFINE longer == Append(list, x)
<1>1. /\ longer \in Seq(U) /\ Len(longer) = Len(list) + 1 /\ longer[Len(list) + 1] = x
      /\ Len(list) \in Nat
  BY AppendProperties
<1>2. PICK old : Keeps(old, list, set, Len(list)) /\ Only(list, set) = old[Len(list)]
  BY OnlyKeeps
<1>3. PICK new : Keeps(new, longer, set, Len(longer)) /\ Only(longer, set) = new[Len(longer)]
  BY <1>1, OnlyKeeps
<1>4. old[Len(list)] = new[Len(list)]
  BY <1>1, <1>2, <1>3, KeepsAgree
<1>5. Len(list) + 1 \in 1 .. (Len(list) + 1) /\ (Len(list) + 1) - 1 = Len(list)
  BY <1>1
<1>6. new[Len(list) + 1] = IF x \in set THEN Append(new[Len(list)], x) ELSE new[Len(list)]
  BY <1>1, <1>3, <1>5 DEF Keeps
<1> QED
  BY <1>1, <1>2, <1>3, <1>4, <1>6

(* What is kept are elements of the list that are in the set, and no more   *)
(* than there were; a list of such elements is kept as it is.               *)
LEMMA OnlyProperties ==
  ASSUME NEW U, NEW set, NEW list \in Seq(U)
  PROVE  /\ Only(list, set) \in Seq(U \cap set)
         /\ Len(Only(list, set)) <= Len(list)
         /\ list \in Seq(set) => Only(list, set) = list
<1> DEFINE Good(s) == /\ Only(s, set) \in Seq(U \cap set)
                      /\ Len(Only(s, set)) <= Len(s)
                      /\ s \in Seq(set) => Only(s, set) = s
           Bad == {n \in Nat : \E s \in Seq(U) : Len(s) = n /\ ~Good(s)}
<1> SUFFICES ASSUME Bad # {} PROVE FALSE
  <2>1. Len(list) \in Nat
    OBVIOUS
  <2> QED
    BY <2>1
<1>1. PICK m \in Bad : \A n \in Bad : m <= n
  <2>1. Bad \in SUBSET Nat
    OBVIOUS
  <2> HIDE DEF Bad
  <2> QED
    BY <2>1, LeastExists
<1>2. PICK s \in Seq(U) : Len(s) = m /\ ~Good(s)
  BY <1>1
<1>3. CASE s = <<>>
  <2>1. <<>> \in Seq(U \cap set) /\ Len(<<>>) = 0
    BY EmptySeq
  <2> QED
    BY <1>2, <1>3, <2>1, OnlyEmpty
<1>4. CASE s # <<>>
  <2>1. PICK t \in Seq(U), x \in U : s = Append(t, x)
    BY <1>4, SequenceEmptyOrAppend
  <2>2. Len(s) = Len(t) + 1 /\ Len(t) \in Nat /\ m \in Nat
    BY <1>1, <2>1, AppendProperties
  <2>3. Len(t) \notin Bad
    <3> HIDE DEF Bad
    <3>1. ~(m <= Len(t))
      BY <1>2, <2>2
    <3> QED
      BY <1>1, <3>1
  <2>4. Good(t)
    BY <2>2, <2>3
  <2>5. Only(s, set) = IF x \in set THEN Append(Only(t, set), x) ELSE Only(t, set)
    BY <2>1, OnlyAppend
  <2>6. ASSUME s \in Seq(set) PROVE t \in Seq(set) /\ x \in set
    <3>1. \A i \in 1 .. Len(s) : s[i] \in set
      BY <2>6, ElementOfSeq
    <3>2. \A i \in 1 .. Len(t) : s[i] = t[i] /\ i \in 1 .. Len(s)
      BY <2>1, <2>2, AppendProperties
    <3>3. s[Len(t) + 1] = x /\ Len(t) + 1 \in 1 .. Len(s)
      BY <2>1, <2>2, AppendProperties
    <3>4. \A i \in 1 .. Len(t) : t[i] \in set
      BY <3>1, <3>2
    <3>5. x \in set
      BY <3>1, <3>3
    <3>6. SubSeq(t, 1, Len(t)) \in Seq(set)
      BY <2>2, <3>4, SubSeqProperties
    <3>7. SubSeq(t, 1, Len(t)) = t
      BY SubSeqFull
    <3> QED
      BY <3>5, <3>6, <3>7
  <2>7. CASE x \in set
    <3>1. x \in U \cap set
      BY <2>7
    <3>2. /\ Append(Only(t, set), x) \in Seq(U \cap set)
          /\ Len(Append(Only(t, set), x)) = Len(Only(t, set)) + 1
      BY <2>4, <3>1, AppendProperties
    <3>3. Len(Only(t, set)) \in Nat
      BY <2>4
    <3> QED
      BY <1>2, <2>1, <2>2, <2>4, <2>5, <2>6, <2>7, <3>2, <3>3
  <2>8. CASE x \notin set
    <3>1. Len(Only(t, set)) \in Nat
      BY <2>4
    <3> QED
      BY <1>2, <2>1, <2>2, <2>4, <2>5, <2>6, <2>8, <3>1
  <2> QED
    BY <2>7, <2>8
<1> QED
  BY <1>3, <1>4

-----------------------------------------------------------------------------
(* Sums                                                                     *)

(* The sums of the first n numbers of a list, for n up to len.              *)
Sums(sum, list, len) ==
  /\ sum = [n \in 0 .. len |-> sum[n]]
  /\ sum[0] = 0
  /\ \A n \in 1 .. len : sum[n] = sum[n - 1] + list[n]

LEMMA SumsExist ==
  ASSUME NEW list, NEW len \in Nat
  PROVE  \E sum : Sums(sum, list, len)
<1> DEFINE Bad == {n \in Nat : ~\E sum : Sums(sum, list, n)}
<1> SUFFICES ASSUME Bad # {} PROVE FALSE
  OBVIOUS
<1>1. PICK m \in Bad : \A n \in Bad : m <= n
  <2>1. Bad \in SUBSET Nat
    OBVIOUS
  <2> HIDE DEF Bad
  <2> QED
    BY <2>1, LeastExists
<1>2. CASE m = 0
  <2> DEFINE first == [n \in 0 .. 0 |-> 0]
  <2>1. Sums(first, list, 0)
    BY DEF Sums
  <2> QED
    BY <1>2, <2>1
<1>3. CASE m # 0
  <2>1. m \in Nat /\ m - 1 \in Nat /\ m - 1 \notin Bad
    BY <1>1, <1>3
  <2>2. PICK sum : Sums(sum, list, m - 1)
    BY <2>1
  <2> DEFINE next == [n \in 0 .. m |-> IF n # m THEN sum[n] ELSE sum[m - 1] + list[m]]
  <2>3. next[0] = 0
    BY <1>3, <2>1, <2>2 DEF Sums
  <2>4. ASSUME NEW n \in 1 .. m PROVE next[n] = next[n - 1] + list[n]
    <3>1. n \in 0 .. m /\ n - 1 \in 0 .. m /\ n - 1 # m
      BY <2>1
    <3>2. next[n - 1] = sum[n - 1]
      BY <3>1
    <3>3. CASE n = m
      BY <3>1, <3>2, <3>3
    <3>4. CASE n # m
      <4>1. n \in 1 .. (m - 1)
        BY <2>1, <3>4
      <4>2. next[n] = sum[n]
        BY <3>1, <3>4
      <4> HIDE DEF next
      <4> QED
        BY <2>2, <3>2, <4>1, <4>2 DEF Sums
    <3> QED
      BY <3>3, <3>4
  <2>5. next = [n \in 0 .. m |-> next[n]]
    OBVIOUS
  <2> HIDE DEF next
  <2>6. Sums(next, list, m)
    BY <2>3, <2>4, <2>5 DEF Sums
  <2> QED
    BY <1>1, <2>6
<1> QED
  BY <1>2, <1>3

LEMMA AddedUpSums ==
  ASSUME NEW list, Len(list) \in Nat
  PROVE  \E sum : Sums(sum, list, Len(list)) /\ AddedUp(list) = sum[Len(list)]
<1> DEFINE Body(sum) == [n \in 0 .. Len(list) |-> IF n = 0 THEN 0 ELSE sum[n - 1] + list[n]]
           chosen == CHOOSE sum : sum = Body(sum)
<1>1. PICK sum : Sums(sum, list, Len(list))
  BY SumsExist
<1>2. sum = Body(sum)
  <2>1. sum = [n \in 0 .. Len(list) |-> sum[n]]
    BY <1>1 DEF Sums
  <2>2. ASSUME NEW n \in 0 .. Len(list) PROVE sum[n] = Body(sum)[n]
    <3>1. n = 0 \/ n \in 1 .. Len(list)
      OBVIOUS
    <3> QED
      BY <1>1, <3>1 DEF Sums
  <2> QED
    BY <2>1, <2>2
<1>3. chosen = Body(chosen)
  BY <1>2
<1>4. AddedUp(list) = chosen[Len(list)]
  BY DEF AddedUp
<1> HIDE DEF chosen
<1>5. Sums(chosen, list, Len(list))
  <2>1. chosen = [n \in 0 .. Len(list) |-> Body(chosen)[n]]
    BY <1>3
  <2>2. \A n \in 0 .. Len(list) : chosen[n] = Body(chosen)[n]
    BY <1>3
  <2>3. chosen = [n \in 0 .. Len(list) |-> chosen[n]]
    BY <2>1, <2>2
  <2>4. chosen[0] = 0
    BY <2>2
  <2>5. ASSUME NEW n \in 1 .. Len(list) PROVE chosen[n] = chosen[n - 1] + list[n]
    <3>1. n \in 0 .. Len(list) /\ n # 0
      OBVIOUS
    <3> QED
      BY <2>2, <3>1
  <2> QED
    BY <2>3, <2>4, <2>5 DEF Sums
<1> QED
  BY <1>4, <1>5

(* A sum of integers is one, and one of naturals is not negative.           *)
LEMMA AddedUpType ==
  ASSUME NEW list \in Seq(Int)
  PROVE  AddedUp(list) \in Int /\ (list \in Seq(Nat) => AddedUp(list) \in Nat)
<1>1. Len(list) \in Nat /\ \A n \in 1 .. Len(list) : list[n] \in Int
  BY ElementOfSeq
<1>2. PICK sum : Sums(sum, list, Len(list)) /\ AddedUp(list) = sum[Len(list)]
  BY <1>1, AddedUpSums
<1>3. \A n \in 0 .. Len(list) : sum[n] \in Int
  <2> DEFINE Bad == {n \in 0 .. Len(list) : sum[n] \notin Int}
  <2>1. Bad = {}
    <3> SUFFICES ASSUME Bad # {} PROVE FALSE
      OBVIOUS
    <3>1. PICK m \in Bad : \A n \in Bad : m <= n
      <4>1. Bad \in SUBSET Nat
        OBVIOUS
      <4> HIDE DEF Bad
      <4> QED
        BY <4>1, LeastExists
    <3>2. m # 0
      BY <1>2, <3>1 DEF Sums
    <3>3. m \in 1 .. Len(list) /\ m - 1 \in 0 .. Len(list) /\ m - 1 \notin Bad
      BY <1>1, <3>1, <3>2
    <3>4. sum[m] = sum[m - 1] + list[m] /\ sum[m - 1] \in Int
      BY <1>2, <3>3 DEF Sums
    <3> QED
      BY <1>1, <3>1, <3>3, <3>4
  <2> QED
    BY <2>1
<1>4. ASSUME list \in Seq(Nat) PROVE AddedUp(list) \in Nat
  <2> DEFINE Bad == {n \in 0 .. Len(list) : sum[n] < 0}
  <2>1. \A n \in 1 .. Len(list) : list[n] \in Nat
    BY <1>4, ElementOfSeq
  <2>2. Bad = {}
    <3> SUFFICES ASSUME Bad # {} PROVE FALSE
      OBVIOUS
    <3>1. PICK m \in Bad : \A n \in Bad : m <= n
      <4>1. Bad \in SUBSET Nat
        OBVIOUS
      <4> HIDE DEF Bad
      <4> QED
        BY <4>1, LeastExists
    <3>2. m \in 1 .. Len(list) /\ m - 1 \in 0 .. Len(list) /\ m - 1 \notin Bad
      BY <1>2, <3>1 DEF Sums
    <3>3. sum[m] = sum[m - 1] + list[m] /\ sum[m - 1] \in Int /\ list[m] \in Nat
      BY <1>2, <1>3, <2>1, <3>2 DEF Sums
    <3> QED
      BY <3>1, <3>2, <3>3
  <2>3. Len(list) \in 0 .. Len(list)
    BY <1>1
  <2> QED
    BY <1>2, <1>3, <2>2, <2>3
<1>5. Len(list) \in 0 .. Len(list)
  BY <1>1
<1> QED
  BY <1>2, <1>3, <1>4, <1>5

(* One number is replaced: the sum changes by the difference.               *)
LEMMA AddedUpChange ==
  ASSUME NEW a \in Seq(Int), NEW b \in Seq(Int), Len(a) = Len(b), NEW at \in 1 .. Len(a),
         \A n \in 1 .. Len(a) : n # at => b[n] = a[n]
  PROVE  AddedUp(b) = AddedUp(a) + (b[at] - a[at])
<1>1. Len(a) \in Nat /\ \A n \in 1 .. Len(a) : a[n] \in Int /\ b[n] \in Int
  BY ElementOfSeq
<1>2. PICK s : Sums(s, a, Len(a)) /\ AddedUp(a) = s[Len(a)]
  BY <1>1, AddedUpSums
<1>3. PICK t : Sums(t, b, Len(a)) /\ AddedUp(b) = t[Len(a)]
  BY <1>1, AddedUpSums
<1> DEFINE more == b[at] - a[at]
           len == Len(a)
<1>4. more \in Int /\ at \in Nat /\ len \in Nat
  BY <1>1
<1>5. /\ \A n \in 1 .. len : a[n] \in Int
      /\ \A n \in 1 .. len : b[n] = a[n] + (IF n = at THEN more ELSE 0)
  BY <1>1
<1>6. Sums(s, a, len) /\ Sums(t, b, len)
  BY <1>2, <1>3
<1> HIDE DEF more, len
<1>7. \A n \in 0 .. len : s[n] \in Int /\ t[n] = s[n] + (IF at \in 1 .. n THEN more ELSE 0)
  <2> DEFINE Good(n) == s[n] \in Int /\ t[n] = s[n] + (IF at \in 1 .. n THEN more ELSE 0)
             Bad == {n \in 0 .. len : ~Good(n)}
  <2> SUFFICES ASSUME Bad # {} PROVE FALSE
    OBVIOUS
  <2>1. PICK m \in Bad : \A n \in Bad : m <= n
    <3>1. Bad \in SUBSET Nat
      OBVIOUS
    <3> HIDE DEF Bad
    <3> QED
      BY <3>1, LeastExists
  <2>2. Good(0)
    BY <1>6 DEF Sums
  <2>3. m \in 1 .. len /\ m - 1 \in 0 .. len /\ Good(m - 1)
    BY <1>4, <2>1, <2>2
  <2>4. s[m] = s[m - 1] + a[m] /\ t[m] = t[m - 1] + b[m] /\ a[m] \in Int
    BY <1>5, <1>6, <2>3 DEF Sums
  <2>5. CASE at = m
    <3>1. at \notin 1 .. m - 1 /\ at \in 1 .. m
      BY <2>3, <2>5
    <3>2. b[m] = a[m] + more
      BY <1>5, <2>3, <2>5
    <3>3. s[m - 1] \in Int /\ t[m - 1] = s[m - 1]
      BY <2>3, <3>1
    <3>4. s[m] \in Int
      BY <2>4, <3>3
    <3>5. t[m] = s[m - 1] + (a[m] + more)
      BY <2>4, <3>2, <3>3
    <3>6. t[m] = s[m] + more
      BY <1>4, <2>4, <3>3, <3>5
    <3> QED
      BY <2>1, <3>1, <3>4, <3>6
  <2>6. CASE at # m
    <3>1. at \in 1 .. m - 1 <=> at \in 1 .. m
      BY <2>3, <2>6
    <3>2. b[m] = a[m]
      BY <1>5, <2>3, <2>4, <2>6
    <3> DEFINE plus == IF at \in 1 .. m - 1 THEN more ELSE 0
    <3>3. plus \in Int /\ t[m - 1] = s[m - 1] + plus /\ s[m - 1] \in Int
      BY <1>4, <2>3
    <3>4. plus = IF at \in 1 .. m THEN more ELSE 0
      BY <3>1
    <3> HIDE DEF plus
    <3>5. s[m] \in Int /\ t[m] = (s[m - 1] + plus) + a[m]
      BY <2>4, <3>2, <3>3
    <3> DEFINE u == s[m - 1]
               x == a[m]
    <3>u. u \in Int /\ x \in Int /\ s[m] = u + x /\ t[m] = (u + plus) + x
      BY <2>4, <3>3, <3>5
    <3> HIDE DEF u, x
    <3>6. t[m] = s[m] + plus
      BY <3>3, <3>u
    <3> QED
      BY <2>1, <3>4, <3>5, <3>6
  <2> QED
    BY <2>5, <2>6
<1>8. len \in 0 .. len /\ at \in 1 .. len
  BY <1>1 DEF len
<1> QED
  BY <1>2, <1>3, <1>7, <1>8 DEF more, len

(* Numbers are added at the end: the sum does not become less, and stays    *)
(* the same if they are zeros.                                              *)
LEMMA AddedUpGrows ==
  ASSUME NEW a \in Seq(Int), NEW b \in Seq(Nat), Len(a) <= Len(b),
         \A n \in 1 .. Len(a) : b[n] = a[n]
  PROVE  /\ AddedUp(a) <= AddedUp(b)
         /\ (\A n \in Len(a) + 1 .. Len(b) : b[n] = 0) => AddedUp(b) = AddedUp(a)
<1>1. /\ Len(a) \in Nat /\ Len(b) \in Nat
      /\ \A n \in 1 .. Len(a) : a[n] \in Int
      /\ \A n \in 1 .. Len(b) : b[n] \in Nat
  BY ElementOfSeq
<1>2. PICK s : Sums(s, a, Len(a)) /\ AddedUp(a) = s[Len(a)]
  BY <1>1, AddedUpSums
<1>3. PICK t : Sums(t, b, Len(b)) /\ AddedUp(b) = t[Len(b)]
  BY <1>1, AddedUpSums
<1>4. t[Len(a)] = s[Len(a)] /\ s[Len(a)] \in Int
  <2> DEFINE Bad == {n \in 0 .. Len(a) : ~(t[n] = s[n] /\ s[n] \in Int)}
  <2>1. Bad = {}
    <3> SUFFICES ASSUME Bad # {} PROVE FALSE
      OBVIOUS
    <3>1. PICK m \in Bad : \A n \in Bad : m <= n
      <4>1. Bad \in SUBSET Nat
        BY <1>1
      <4> HIDE DEF Bad
      <4> QED
        BY <4>1, LeastExists
    <3>2. m # 0
      BY <1>2, <1>3, <3>1 DEF Sums
    <3>3. m \in 1 .. Len(a) /\ m \in 1 .. Len(b) /\ m - 1 \in 0 .. Len(a) /\ m - 1 \notin Bad
      BY <1>1, <3>1, <3>2
    <3>4. s[m] = s[m - 1] + a[m] /\ t[m] = t[m - 1] + b[m] /\ a[m] = b[m] /\ a[m] \in Int
      BY <1>1, <1>2, <1>3, <3>3 DEF Sums
    <3> QED
      BY <3>1, <3>3, <3>4
  <2>2. Len(a) \in 0 .. Len(a)
    BY <1>1
  <2> QED
    BY <2>1, <2>2
<1> DEFINE Rest == Len(a) + 1 .. Len(b)
           Good(n) == /\ t[n] \in Int /\ t[Len(a)] <= t[n]
                      /\ (\A k \in Rest : b[k] = 0) => t[n] = t[Len(a)]
           Bad == {n \in Len(a) .. Len(b) : ~Good(n)}
<1>5. Bad = {}
  <2> SUFFICES ASSUME Bad # {} PROVE FALSE
    OBVIOUS
  <2>1. PICK m \in Bad : \A n \in Bad : m <= n
    <3>1. Bad \in SUBSET Nat
      BY <1>1
    <3> HIDE DEF Bad
    <3> QED
      BY <3>1, LeastExists
  <2>2. m # Len(a)
    BY <1>4, <2>1
  <2>3. /\ m \in Rest /\ m \in 1 .. Len(b) /\ m - 1 \in Len(a) .. Len(b)
        /\ m - 1 \notin Bad
    <3>1. m \in Len(a) .. Len(b)
      BY <2>1
    <3>2. m \in Nat /\ m - 1 \in Len(a) .. Len(b) /\ m \in Rest /\ m \in 1 .. Len(b) /\ ~(m <= m - 1)
      BY <1>1, <2>2, <3>1
    <3> HIDE DEF Bad
    <3> QED
      BY <2>1, <3>2
  <2>4. Good(m - 1)
    BY <2>3
  <2>5. t[m] = t[m - 1] + b[m] /\ b[m] \in Nat
    BY <1>1, <1>3, <2>3 DEF Sums
  <2>6. t[m] \in Int /\ t[Len(a)] <= t[m]
    BY <1>4, <2>4, <2>5
  <2>7. ASSUME \A k \in Rest : b[k] = 0 PROVE t[m] = t[Len(a)]
    BY <1>4, <2>3, <2>4, <2>5, <2>7
  <2> QED
    BY <2>1, <2>6, <2>7
<1>6. Len(b) \in Len(a) .. Len(b)
  BY <1>1
<1>7. Good(Len(b))
  BY <1>5, <1>6
<1> QED
  BY <1>2, <1>3, <1>4, <1>7

-----------------------------------------------------------------------------
(* Lists of lists                                                           *)

(* The elements of the first n lists, for n up to len.                      *)
Flattens(all, lists, len) ==
  /\ all = [n \in 0 .. len |-> all[n]]
  /\ all[0] = <<>>
  /\ \A n \in 1 .. len : all[n] = all[n - 1] \o lists[n]

LEMMA FlattensExist ==
  ASSUME NEW lists, NEW len \in Nat
  PROVE  \E all : Flattens(all, lists, len)
<1> DEFINE Bad == {n \in Nat : ~\E all : Flattens(all, lists, n)}
<1> SUFFICES ASSUME Bad # {} PROVE FALSE
  OBVIOUS
<1>1. PICK m \in Bad : \A n \in Bad : m <= n
  <2>1. Bad \in SUBSET Nat
    OBVIOUS
  <2> HIDE DEF Bad
  <2> QED
    BY <2>1, LeastExists
<1>2. CASE m = 0
  <2> DEFINE first == [n \in 0 .. 0 |-> <<>>]
  <2>1. Flattens(first, lists, 0)
    BY DEF Flattens
  <2> QED
    BY <1>2, <2>1
<1>3. CASE m # 0
  <2>1. m \in Nat /\ m - 1 \in Nat /\ m - 1 \notin Bad
    BY <1>1, <1>3
  <2>2. PICK all : Flattens(all, lists, m - 1)
    BY <2>1
  <2> DEFINE next == [n \in 0 .. m |-> IF n # m THEN all[n] ELSE all[m - 1] \o lists[m]]
  <2>3. next[0] = <<>>
    BY <1>3, <2>1, <2>2 DEF Flattens
  <2>4. ASSUME NEW n \in 1 .. m PROVE next[n] = next[n - 1] \o lists[n]
    <3>1. n \in 0 .. m /\ n - 1 \in 0 .. m /\ n - 1 # m
      BY <2>1
    <3>2. next[n - 1] = all[n - 1]
      BY <3>1
    <3>3. CASE n = m
      BY <3>1, <3>2, <3>3
    <3>4. CASE n # m
      <4>1. n \in 1 .. (m - 1)
        BY <2>1, <3>4
      <4>2. next[n] = all[n]
        BY <3>1, <3>4
      <4> HIDE DEF next
      <4> QED
        BY <2>2, <3>2, <4>1, <4>2 DEF Flattens
    <3> QED
      BY <3>3, <3>4
  <2>5. next = [n \in 0 .. m |-> next[n]]
    OBVIOUS
  <2> HIDE DEF next
  <2>6. Flattens(next, lists, m)
    BY <2>3, <2>4, <2>5 DEF Flattens
  <2> QED
    BY <1>1, <2>6
<1> QED
  BY <1>2, <1>3

LEMMA FlatFlattens ==
  ASSUME NEW lists, Len(lists) \in Nat
  PROVE  \E all : Flattens(all, lists, Len(lists)) /\ Flat(lists) = all[Len(lists)]
<1> DEFINE Body(all) == [n \in 0 .. Len(lists) |-> IF n = 0 THEN <<>> ELSE all[n - 1] \o lists[n]]
           chosen == CHOOSE all : all = Body(all)
<1>1. PICK all : Flattens(all, lists, Len(lists))
  BY FlattensExist
<1>2. all = Body(all)
  <2>1. all = [n \in 0 .. Len(lists) |-> all[n]]
    BY <1>1 DEF Flattens
  <2>2. ASSUME NEW n \in 0 .. Len(lists) PROVE all[n] = Body(all)[n]
    <3>1. n = 0 \/ n \in 1 .. Len(lists)
      OBVIOUS
    <3> QED
      BY <1>1, <3>1 DEF Flattens
  <2> QED
    BY <2>1, <2>2
<1>3. chosen = Body(chosen)
  BY <1>2
<1>4. Flat(lists) = chosen[Len(lists)]
  BY DEF Flat
<1> HIDE DEF chosen
<1>5. Flattens(chosen, lists, Len(lists))
  <2>1. chosen = [n \in 0 .. Len(lists) |-> Body(chosen)[n]]
    BY <1>3
  <2>2. \A n \in 0 .. Len(lists) : chosen[n] = Body(chosen)[n]
    BY <1>3
  <2>3. chosen = [n \in 0 .. Len(lists) |-> chosen[n]]
    BY <2>1, <2>2
  <2>4. chosen[0] = <<>>
    BY <2>2
  <2>5. ASSUME NEW n \in 1 .. Len(lists) PROVE chosen[n] = chosen[n - 1] \o lists[n]
    <3>1. n \in 0 .. Len(lists) /\ n # 0
      OBVIOUS
    <3> QED
      BY <2>2, <3>1
  <2> QED
    BY <2>3, <2>4, <2>5 DEF Flattens
<1> QED
  BY <1>4, <1>5

(* x is an element of the list.                                             *)
IsIn(x, list) == \E k \in 1 .. Len(list) : list[k] = x

(* Every element of every list is there, and is one of their type.          *)
LEMMA FlatProperties ==
  ASSUME NEW U, NEW lists \in Seq(Seq(U))
  PROVE  /\ Flat(lists) \in Seq(U)
         /\ \A i \in 1 .. Len(lists) : \A x : IsIn(x, lists[i]) => IsIn(x, Flat(lists))
<1> DEFINE len == Len(lists)
<1>1. len \in Nat /\ \A n \in 1 .. len : lists[n] \in Seq(U)
  BY ElementOfSeq
<1>2. PICK all : Flattens(all, lists, len) /\ Flat(lists) = all[len]
  BY <1>1, FlatFlattens
<1> HIDE DEF len
<1> DEFINE Good(n) == /\ all[n] \in Seq(U)
                      /\ \A i \in 1 .. n : \A x : IsIn(x, lists[i]) => IsIn(x, all[n])
           Bad == {n \in 0 .. len : ~Good(n)}
<1>3. Bad = {}
  <2> SUFFICES ASSUME Bad # {} PROVE FALSE
    OBVIOUS
  <2>1. PICK m \in Bad : \A n \in Bad : m <= n
    <3>1. Bad \in SUBSET Nat
      OBVIOUS
    <3> HIDE DEF Bad
    <3> QED
      BY <3>1, LeastExists
  <2>2. Good(0)
    <3>1. all[0] = <<>>
      BY <1>2 DEF Flattens
    <3>2. all[0] \in Seq(U)
      BY <3>1
    <3> QED
      BY <3>2
  <2> HIDE DEF Good
  <2>3. m \in 1 .. len /\ m - 1 \in 0 .. len /\ Good(m - 1)
    <3>1. m # 0
      BY <2>1, <2>2
    <3>2. m \in 1 .. len /\ m - 1 \in 0 .. len /\ ~(m <= m - 1)
      BY <1>1, <2>1, <3>1
    <3>3. m - 1 \notin Bad
      BY <2>1, <3>2
    <3> QED
      BY <3>2, <3>3
  <2> USE DEF Good
  <2>4. all[m] = all[m - 1] \o lists[m] /\ lists[m] \in Seq(U) /\ all[m - 1] \in Seq(U)
    BY <1>1, <1>2, <2>3 DEF Flattens
  <2> DEFINE a == all[m - 1]
             b == lists[m]
             c == all[m]
  <2>5. /\ c \in Seq(U) /\ Len(c) = Len(a) + Len(b) /\ Len(a) \in Nat /\ Len(b) \in Nat
        /\ \A i \in 1 .. Len(a) + Len(b) : c[i] = IF i <= Len(a) THEN a[i] ELSE b[i - Len(a)]
    <3>1. a \in Seq(U) /\ b \in Seq(U) /\ c = a \o b
      BY <2>4
    <3> HIDE DEF a, b, c
    <3>2. Len(a) \in Nat /\ Len(b) \in Nat
      BY <3>1, LenProperties
    <3> QED
      BY <3>1, <3>2, ConcatProperties
  <2> HIDE DEF a, b, c
  <2>6. \A x : IsIn(x, a) => IsIn(x, c)
    BY <2>5 DEF IsIn
  <2>7. ASSUME NEW x, IsIn(x, b) PROVE IsIn(x, c)
    <3>1. PICK k \in 1 .. Len(b) : b[k] = x
      BY <2>7 DEF IsIn
    <3>2. /\ Len(a) + k \in 1 .. Len(a) + Len(b) /\ ~(Len(a) + k <= Len(a))
          /\ (Len(a) + k) - Len(a) = k
      BY <2>5, <3>1
    <3>3. c[Len(a) + k] = x
      BY <2>5, <3>1, <3>2
    <3> QED
      BY <2>5, <3>2, <3>3 DEF IsIn
  <2>8. ASSUME NEW i \in 1 .. m, NEW x, IsIn(x, lists[i]) PROVE IsIn(x, c)
    <3>1. CASE i = m
      BY <2>7, <2>8, <3>1 DEF b
    <3>2. CASE i # m
      <4>1. i \in 1 .. m - 1
        BY <2>3, <3>2
      <4>2. IsIn(x, a)
        BY <2>3, <2>8, <4>1 DEF a
      <4> QED
        BY <2>6, <4>2
    <3> QED
      BY <3>1, <3>2
  <2> QED
    BY <2>1, <2>5, <2>8 DEF c
<1>4. len \in 0 .. len
  BY <1>1
<1> QED
  BY <1>2, <1>3, <1>4 DEF len

-----------------------------------------------------------------------------
(* What is kept, element by element                                         *)

(* No element stands twice.                                                 *)
Distinct(list) == \A i, j \in 1 .. Len(list) : list[i] = list[j] => i = j

(* The elements kept are those of the list that are in the set; of a list   *)
(* without repetitions none is kept twice.                                  *)
LEMMA OnlyElements ==
  ASSUME NEW U, NEW set, NEW list \in Seq(U)
  PROVE  /\ \A x : IsIn(x, Only(list, set)) <=> IsIn(x, list) /\ x \in set
         /\ Distinct(list) => Distinct(Only(list, set))
<1> DEFINE Good(s) == /\ \A x : IsIn(x, Only(s, set)) <=> IsIn(x, s) /\ x \in set
                      /\ Distinct(s) => Distinct(Only(s, set))
           Bad == {n \in Nat : \E s \in Seq(U) : Len(s) = n /\ ~Good(s)}
<1> SUFFICES ASSUME Bad # {} PROVE FALSE
  <2>1. Len(list) \in Nat
    OBVIOUS
  <2> QED
    BY <2>1
<1>1. PICK m \in Bad : \A n \in Bad : m <= n
  <2>1. Bad \in SUBSET Nat
    OBVIOUS
  <2> HIDE DEF Bad
  <2> QED
    BY <2>1, LeastExists
<1>2. PICK s \in Seq(U) : Len(s) = m /\ ~Good(s)
  BY <1>1
<1>3. CASE s = <<>>
  <2>1. Len(<<>>) = 0
    BY EmptySeq
  <2> QED
    BY <1>2, <1>3, <2>1, OnlyEmpty DEF IsIn, Distinct
<1>4. CASE s # <<>>
  <2>1. PICK t \in Seq(U), x \in U : s = Append(t, x)
    BY <1>4, SequenceEmptyOrAppend
  <2>2. Len(s) = Len(t) + 1 /\ Len(t) \in Nat /\ m \in Nat
    BY <1>1, <2>1, AppendProperties
  <2>3. Len(t) \notin Bad
    <3> HIDE DEF Bad
    <3>1. ~(m <= Len(t))
      BY <1>2, <2>2
    <3> QED
      BY <1>1, <3>1
  <2>4. Good(t)
    BY <2>2, <2>3
  <2> DEFINE o == Only(t, set)
             p == Only(s, set)
  <2>5. p = IF x \in set THEN Append(o, x) ELSE o
    BY <2>1, OnlyAppend
  <2>6. o \in Seq(U \cap set) /\ Len(o) \in Nat
    BY OnlyProperties, LenProperties
  <2>7. \A i \in 1 .. Len(t) : s[i] = t[i]
    BY <2>1, AppendProperties
  <2>8. s[Len(t) + 1] = x
    BY <2>1, AppendProperties
  <2> HIDE DEF o, p
  <2>9. \A y : IsIn(y, s) <=> IsIn(y, t) \/ y = x
    <3>1. ASSUME NEW y, IsIn(y, s) PROVE IsIn(y, t) \/ y = x
      <4>1. PICK k \in 1 .. Len(s) : s[k] = y
        BY <3>1 DEF IsIn
      <4>2. k \in 1 .. Len(t) \/ k = Len(t) + 1
        BY <2>2
      <4> QED
        BY <2>7, <2>8, <4>1, <4>2 DEF IsIn
    <3>2. ASSUME NEW y, IsIn(y, t) PROVE IsIn(y, s)
      <4>1. PICK k \in 1 .. Len(t) : t[k] = y
        BY <3>2 DEF IsIn
      <4>2. k \in 1 .. Len(s) /\ s[k] = y
        BY <2>2, <2>7, <4>1
      <4> QED
        BY <4>2 DEF IsIn
    <3>3. IsIn(x, s)
      <4>1. Len(t) + 1 \in 1 .. Len(s)
        BY <2>2
      <4> QED
        BY <2>8, <4>1 DEF IsIn
    <3> QED
      BY <3>1, <3>2, <3>3
  <2>10. Distinct(s) => Distinct(t) /\ ~IsIn(x, t)
    <3> SUFFICES ASSUME Distinct(s) PROVE Distinct(t) /\ ~IsIn(x, t)
      OBVIOUS
    <3>1. ASSUME NEW i \in 1 .. Len(t), NEW j \in 1 .. Len(t), t[i] = t[j] PROVE i = j
      <4>1. i \in 1 .. Len(s) /\ j \in 1 .. Len(s) /\ s[i] = s[j]
        BY <2>2, <2>7, <3>1
      <4> QED
        BY <4>1 DEF Distinct
    <3>2. ASSUME NEW i \in 1 .. Len(t), t[i] = x PROVE FALSE
      <4>1. i \in 1 .. Len(s) /\ Len(t) + 1 \in 1 .. Len(s) /\ s[i] = s[Len(t) + 1] /\ i # Len(t) + 1
        BY <2>2, <2>7, <2>8, <3>2
      <4> QED
        BY <4>1 DEF Distinct
    <3> QED
      BY <3>1, <3>2 DEF Distinct, IsIn
  <2>11. CASE x \in set
    <3>1. p = Append(o, x) /\ x \in U \cap set
      BY <2>5, <2>11
    <3>2. /\ Len(p) = Len(o) + 1 /\ p[Len(o) + 1] = x
          /\ \A i \in 1 .. Len(o) : p[i] = o[i]
      BY <2>6, <3>1, AppendProperties
    <3>3. \A y : IsIn(y, p) <=> IsIn(y, o) \/ y = x
      <4>1. ASSUME NEW y, IsIn(y, p) PROVE IsIn(y, o) \/ y = x
        <5>1. PICK k \in 1 .. Len(p) : p[k] = y
          BY <4>1 DEF IsIn
        <5>2. k \in 1 .. Len(o) \/ k = Len(o) + 1
          BY <2>6, <3>2
        <5> QED
          BY <3>2, <5>1, <5>2 DEF IsIn
      <4>2. ASSUME NEW y, IsIn(y, o) PROVE IsIn(y, p)
        <5>1. PICK k \in 1 .. Len(o) : o[k] = y
          BY <4>2 DEF IsIn
        <5>2. k \in 1 .. Len(p) /\ p[k] = y
          BY <2>6, <3>2, <5>1
        <5> QED
          BY <5>2 DEF IsIn
      <4>3. IsIn(x, p)
        <5>1. Len(o) + 1 \in 1 .. Len(p)
          BY <2>6, <3>2
        <5> QED
          BY <3>2, <5>1 DEF IsIn
      <4> QED
        BY <4>1, <4>2, <4>3
    <3>4. ASSUME Distinct(s) PROVE Distinct(p)
      <4>1. Distinct(o) /\ ~IsIn(x, o)
        BY <2>4, <2>10, <3>4 DEF o
      <4>2. ASSUME NEW i \in 1 .. Len(p), NEW j \in 1 .. Len(p), p[i] = p[j] PROVE i = j
        <5>1. (i \in 1 .. Len(o) \/ i = Len(o) + 1) /\ (j \in 1 .. Len(o) \/ j = Len(o) + 1)
          BY <2>6, <3>2
        <5>2. \A k \in 1 .. Len(o) : o[k] # x
          BY <4>1 DEF IsIn
        <5>3. \A k, l \in 1 .. Len(o) : o[k] = o[l] => k = l
          BY <4>1 DEF Distinct
        <5> QED
          BY <3>2, <4>2, <5>1, <5>2, <5>3
      <4> QED
        BY <4>2 DEF Distinct
    <3>5. \A y : IsIn(y, p) <=> IsIn(y, s) /\ y \in set
      BY <2>4, <2>9, <2>11, <3>3 DEF o
    <3> QED
      BY <1>2, <3>4, <3>5 DEF p
  <2>12. CASE x \notin set
    <3>1. p = o
      BY <2>5, <2>12
    <3>2. \A y : IsIn(y, p) <=> IsIn(y, s) /\ y \in set
      BY <2>4, <2>9, <2>12, <3>1 DEF o
    <3>3. Distinct(s) => Distinct(p)
      BY <2>4, <2>10, <3>1 DEF o
    <3> QED
      BY <1>2, <3>2, <3>3 DEF p
  <2> QED
    BY <2>11, <2>12
<1> QED
  BY <1>3, <1>4

(* Each element in the set stands once in the list that is left.            *)
LEMMA OnceProperties ==
  ASSUME NEW U, NEW set, NEW list \in Seq(U)
  PROVE  /\ OnceOf(list, set) \in Seq(U \cap set)
         /\ \A x : IsIn(x, OnceOf(list, set)) <=> IsIn(x, list) /\ x \in set
         /\ Distinct(OnceOf(list, set))
<1> DEFINE all == [n \in DOMAIN list |-> n]
           fit == {n \in FirstPlaces(list) : list[n] \in set}
           places == Only(all, fit)
           once == OnceOf(list, set)
<1>1. Len(list) \in Nat /\ DOMAIN list = 1 .. Len(list) /\ \A n \in 1 .. Len(list) : list[n] \in U
  BY LenProperties, ElementOfSeq
<1>2. /\ all \in Seq(Nat) /\ Len(all) = Len(list) /\ \A n \in 1 .. Len(list) : all[n] = n
  <2>1. all \in [1 .. Len(list) -> Nat]
    BY <1>1
  <2>2. all \in Seq(Nat) /\ DOMAIN all = 1 .. Len(list)
    BY <1>1, <2>1, SeqDef
  <2> QED
    BY <1>1, <2>2, LenProperties
<1>3. Distinct(all) /\ \A x : IsIn(x, all) <=> x \in 1 .. Len(list)
  BY <1>2 DEF Distinct, IsIn
<1> HIDE DEF all
<1>4. /\ places \in Seq(Nat \cap fit) /\ Distinct(places)
      /\ \A x : IsIn(x, places) <=> x \in 1 .. Len(list) /\ x \in fit
  BY <1>2, <1>3, OnlyProperties, OnlyElements
<1>5. once = [i \in DOMAIN places |-> list[places[i]]]
  BY DEF OnceOf, InOrder, all
<1> HIDE DEF places, once
<1>6. /\ Len(places) \in Nat /\ DOMAIN places = 1 .. Len(places)
      /\ \A i \in 1 .. Len(places) : places[i] \in fit
  BY <1>4, LenProperties, ElementOfSeq
<1>7. \A n \in fit : /\ n \in 1 .. Len(list) /\ list[n] \in U \cap set
                     /\ \A m \in 1 .. n - 1 : list[m] # list[n]
  BY <1>1 DEF FirstPlaces
<1>8. once \in Seq(U \cap set) /\ Len(once) = Len(places)
  <2>1. once \in [1 .. Len(places) -> U \cap set]
    BY <1>5, <1>6, <1>7
  <2>2. once \in Seq(U \cap set) /\ DOMAIN once = 1 .. Len(places)
    BY <1>6, <2>1, SeqDef
  <2> QED
    BY <1>6, <2>2, LenProperties
<1>9. \A i \in 1 .. Len(places) : once[i] = list[places[i]]
  BY <1>5, <1>6
<1>10. ASSUME NEW x, IsIn(x, once) PROVE IsIn(x, list) /\ x \in set
  BY <1>6, <1>7, <1>8, <1>9, <1>10 DEF IsIn
<1>11. ASSUME NEW x, IsIn(x, list), x \in set PROVE IsIn(x, once)
  <2> DEFINE Here == {n \in 1 .. Len(list) : list[n] = x}
  <2>1. Here # {} /\ Here \in SUBSET Nat
    BY <1>11 DEF IsIn
  <2>2. PICK n \in Here : \A m \in Here : n <= m
    <3> HIDE DEF Here
    <3> QED
      BY <2>1, LeastExists
  <2>3. \A m \in 1 .. n - 1 : list[m] # list[n]
    <3> SUFFICES ASSUME NEW m \in 1 .. n - 1, list[m] = list[n] PROVE FALSE
      OBVIOUS
    <3>1. n \in 1 .. Len(list) /\ list[n] = x
      BY <2>2
    <3>2. m \in 1 .. Len(list) /\ ~(n <= m)
      BY <1>1, <3>1
    <3>3. m \in Here
      BY <3>1, <3>2
    <3> QED
      BY <2>2, <3>2, <3>3
  <2>4. n \in fit /\ n \in 1 .. Len(list)
    BY <1>1, <1>11, <2>2, <2>3 DEF FirstPlaces
  <2>5. PICK k \in 1 .. Len(places) : places[k] = n
    BY <1>4, <2>4 DEF IsIn
  <2>6. once[k] = x
    BY <1>9, <2>2, <2>5
  <2> QED
    BY <1>8, <2>6 DEF IsIn
<1>12. Distinct(once)
  <2> SUFFICES ASSUME NEW i \in 1 .. Len(places), NEW j \in 1 .. Len(places), once[i] = once[j]
               PROVE  i = j
    BY <1>8 DEF Distinct
  <2> DEFINE a == places[i]
             b == places[j]
  <2>1. a \in fit /\ b \in fit /\ list[a] = list[b]
    BY <1>6, <1>9
  <2>2. (a = b) => (i = j)
    BY <1>4 DEF Distinct
  <2> HIDE DEF a, b, fit
  <2>3. /\ a \in Nat /\ b \in Nat /\ a \in 1 .. Len(list) /\ b \in 1 .. Len(list)
        /\ a \notin 1 .. b - 1 /\ b \notin 1 .. a - 1
    BY <1>1, <1>7, <2>1
  <2>4. a = b
    BY <1>1, <2>3
  <2> QED
    BY <2>2, <2>4
<1> QED
  BY <1>8, <1>10, <1>11, <1>12 DEF once

-----------------------------------------------------------------------------
(* Places of a list in their order                                          *)

Numbers(n) == [i \in 1 .. n |-> i]

LEMMA NumbersList ==
  ASSUME NEW n \in Nat
  PROVE  /\ Numbers(n) \in Seq(Nat) /\ Len(Numbers(n)) = n
         /\ \A i \in 1 .. n : Numbers(n)[i] = i
<1>1. Numbers(n) \in [1 .. n -> Nat]
  BY DEF Numbers
<1>2. Numbers(n) \in Seq(Nat)
  BY <1>1, SeqDef
<1> QED
  BY <1>1, <1>2, LenProperties DEF Numbers

LEMMA NumbersGrow ==
  ASSUME NEW n \in Nat
  PROVE  Numbers(n + 1) = Append(Numbers(n), n + 1)
<1> DEFINE a == Numbers(n + 1)
           b == Append(Numbers(n), n + 1)
<1>1. a \in Seq(Nat) /\ Len(a) = n + 1 /\ \A i \in 1 .. n + 1 : a[i] = i
  BY NumbersList
<1>2. /\ b \in Seq(Nat) /\ Len(b) = n + 1 /\ b[n + 1] = n + 1
      /\ \A i \in 1 .. n : b[i] = i
  BY NumbersList, AppendProperties
<1> HIDE DEF a, b
<1>3. \A i \in 1 .. Len(a) : a[i] = b[i]
  <2> TAKE i \in 1 .. Len(a)
  <2>1. i \in 1 .. n \/ i = n + 1
    BY <1>1
  <2> QED
    BY <1>1, <1>2, <2>1
<1>4. a = b
  BY <1>1, <1>2, <1>3, SeqEqual
<1> QED
  BY <1>4 DEF a, b

(* The places in a set up to n, one by one.                                 *)
PlacesTo(n, set) == Only(Numbers(n), set)

LEMMA PlacesGrow ==
  ASSUME NEW set
  PROVE  /\ PlacesTo(0, set) = <<>>
         /\ \A n \in Nat : /\ PlacesTo(n, set) \in Seq(Nat \cap set)
                           /\ PlacesTo(n + 1, set) = IF n + 1 \in set THEN Append(PlacesTo(n, set), n + 1)
                                                 ELSE PlacesTo(n, set)
<1>1. PlacesTo(0, set) = <<>>
  <2>1. Numbers(0) = <<>>
    BY NumbersList, EmptySeq
  <2> QED
    BY <2>1, OnlyEmpty DEF PlacesTo
<1>2. ASSUME NEW n \in Nat
      PROVE  /\ PlacesTo(n, set) \in Seq(Nat \cap set)
             /\ PlacesTo(n + 1, set) = IF n + 1 \in set THEN Append(PlacesTo(n, set), n + 1) ELSE PlacesTo(n, set)
  <2>1. Numbers(n) \in Seq(Nat) /\ n + 1 \in Nat
    BY NumbersList
  <2>2. Only(Numbers(n), set) \in Seq(Nat \cap set)
    BY <2>1, OnlyProperties
  <2>3. Only(Append(Numbers(n), n + 1), set) =
          IF n + 1 \in set THEN Append(Only(Numbers(n), set), n + 1) ELSE Only(Numbers(n), set)
    BY <2>1, OnlyAppend
  <2> QED
    BY <2>2, <2>3, NumbersGrow DEF PlacesTo
<1> QED
  BY <1>1, <1>2

LEMMA InOrderIs ==
  ASSUME NEW U, NEW list \in Seq(U), NEW places
  PROVE  InOrder(list, places) = PlacesTo(Len(list), places)
<1>1. DOMAIN list = 1 .. Len(list)
  BY LenProperties
<1>2. [n \in DOMAIN list |-> n] = Numbers(Len(list))
  BY <1>1 DEF Numbers
<1> QED
  BY <1>2 DEF InOrder, PlacesTo

(* They are places of the list, in the set.                                 *)
LEMMA InOrderProperties ==
  ASSUME NEW U, NEW list \in Seq(U), NEW places
  PROVE  /\ InOrder(list, places) \in Seq(Nat \cap places)
         /\ \A x : IsIn(x, InOrder(list, places)) <=> x \in (1 .. Len(list)) \cap places
         /\ Distinct(InOrder(list, places))
<1>1. Len(list) \in Nat
  BY LenProperties
<1>2. /\ Numbers(Len(list)) \in Seq(Nat) /\ Len(Numbers(Len(list))) = Len(list)
      /\ \A i \in 1 .. Len(list) : Numbers(Len(list))[i] = i
  BY <1>1, NumbersList
<1>3. /\ Distinct(Numbers(Len(list)))
      /\ \A x : IsIn(x, Numbers(Len(list))) <=> x \in 1 .. Len(list)
  BY <1>2 DEF Distinct, IsIn
<1>4. /\ \A x : IsIn(x, PlacesTo(Len(list), places)) <=> x \in (1 .. Len(list)) \cap places
      /\ Distinct(PlacesTo(Len(list), places))
  BY <1>2, <1>3, OnlyElements DEF PlacesTo
<1>5. InOrder(list, places) = PlacesTo(Len(list), places)
  BY InOrderIs
<1>6. PlacesTo(Len(list), places) \in Seq(Nat \cap places)
  BY <1>1, PlacesGrow
<1> QED
  BY <1>4, <1>5, <1>6

(* Places beside each other are listed one after the other.                 *)
LEMMA IntervalInOrder ==
  ASSUME NEW a \in Nat, NEW n \in Nat, NEW len \in Nat, a + n <= len,
         NEW set, set = a + 1 .. a + n
  PROVE  PlacesTo(len, set) = [i \in 1 .. n |-> a + i]
<1> DEFINE Size(k) == IF k <= a THEN 0 ELSE IF k <= a + n THEN k - a ELSE n
           Goal(k) == [i \in 1 .. Size(k) |-> a + i]
           Bad == {k \in Nat : PlacesTo(k, set) # Goal(k)}
<1>1. Bad = {}
  <2> SUFFICES ASSUME Bad # {} PROVE FALSE
    OBVIOUS
  <2>1. PICK m \in Bad : \A k \in Bad : m <= k
    <3>1. Bad \in SUBSET Nat
      OBVIOUS
    <3> HIDE DEF Bad
    <3> QED
      BY <3>1, LeastExists
  <2>2. \A k \in Nat : /\ Size(k) \in Nat /\ Goal(k) \in Seq(Nat) /\ Len(Goal(k)) = Size(k)
                        /\ \A i \in 1 .. Size(k) : Goal(k)[i] = a + i
    <3> TAKE k \in Nat
    <3>1. Size(k) \in Nat
      OBVIOUS
    <3> HIDE DEF Size
    <3>2. Goal(k) \in [1 .. Size(k) -> Nat] /\ \A i \in 1 .. Size(k) : Goal(k)[i] = a + i
      BY <3>1
    <3> HIDE DEF Goal
    <3> QED
      BY <3>1, <3>2, SeqDef, LenProperties
  <2>3. CASE m = 0
    <3>1. Size(0) = 0
      OBVIOUS
    <3>2. Goal(0) = <<>>
      BY <2>2, <3>1, EmptySeq
    <3> QED
      BY <2>1, <2>3, <3>2, PlacesGrow
  <2>4. CASE m # 0
    <3> DEFINE k == m - 1
    <3>1. k \in Nat /\ m = k + 1 /\ k \notin Bad
      BY <2>1, <2>4
    <3>2. PlacesTo(k, set) = Goal(k)
      BY <3>1
    <3> HIDE DEF k
    <3>3. PlacesTo(m, set) = IF m \in set THEN Append(Goal(k), m) ELSE Goal(k)
      BY <3>1, <3>2, PlacesGrow
    <3>4. CASE m \in set
      <4>1. Size(m) = Size(k) + 1 /\ m = a + Size(m)
        BY <3>1, <3>4
      <4>2. /\ Append(Goal(k), m) \in Seq(Nat) /\ Len(Append(Goal(k), m)) = Size(m)
            /\ \A i \in 1 .. Size(k) : Append(Goal(k), m)[i] = a + i
            /\ Append(Goal(k), m)[Size(m)] = m
        <5>1. Goal(k) \in Seq(Nat) /\ m \in Nat /\ Len(Goal(k)) = Size(k)
          BY <2>1, <2>2, <3>1
        <5>2. \A i \in 1 .. Size(k) : Goal(k)[i] = a + i
          BY <2>2, <3>1
        <5> DEFINE g == Goal(k)
        <5>3. g \in Seq(Nat) /\ m \in Nat /\ Len(g) = Size(k) /\ \A i \in 1 .. Size(k) : g[i] = a + i
          BY <5>1, <5>2
        <5>4. Len(g) + 1 = Size(m)
          BY <4>1, <5>3
        <5> HIDE DEF g, Goal, Size
        <5>5. /\ Append(g, m) \in Seq(Nat) /\ Len(Append(g, m)) = Len(g) + 1
              /\ \A i \in 1 .. Len(g) : Append(g, m)[i] = g[i]
              /\ Append(g, m)[Len(g) + 1] = m
          BY <5>3, AppendProperties
        <5> QED
          BY <5>3, <5>4, <5>5 DEF g
      <4>3. \A i \in 1 .. Size(m) : Append(Goal(k), m)[i] = Goal(m)[i]
        <5> TAKE i \in 1 .. Size(m)
        <5>1. (i \in 1 .. Size(k) \/ i = Size(m)) /\ Goal(m)[i] = a + i
          <6>1. Size(k) \in Nat /\ Size(m) \in Nat /\ Goal(m)[i] = a + i
            BY <2>1, <2>2, <3>1
          <6> HIDE DEF Goal, Size
          <6> QED
            BY <4>1, <6>1
        <5> HIDE DEF Goal, Size
        <5> QED
          BY <4>1, <4>2, <5>1
      <4>4. Goal(m) \in Seq(Nat) /\ Len(Goal(m)) = Size(m)
        BY <2>1, <2>2
      <4> HIDE DEF Goal, Size
      <4>5. Append(Goal(k), m) = Goal(m)
        BY <4>2, <4>3, <4>4, SeqEqual
      <4>6. PlacesTo(m, set) = Goal(m)
        BY <3>3, <3>4, <4>5
      <4> QED
        BY <2>1, <4>6
    <3>5. CASE m \notin set
      <4>1. Size(m) = Size(k)
        BY <3>1, <3>5
      <4>2. Goal(m) = Goal(k)
        BY <4>1
      <4> HIDE DEF Goal, Size
      <4> QED
        BY <2>1, <3>3, <3>5, <4>2
    <3> QED
      BY <3>4, <3>5
  <2> QED
    BY <2>3, <2>4
<1>2. PlacesTo(len, set) = Goal(len)
  BY <1>1
<1>3. Size(len) = n
  OBVIOUS
<1> QED
  BY <1>2, <1>3

(* An element behind two lists is behind the second.                        *)
LEMMA AppendBehind ==
  ASSUME NEW U, NEW a \in Seq(U), NEW b \in Seq(U), NEW x \in U
  PROVE  a \o Append(b, x) = Append(a \o b, x)
<1> DEFINE longer == Append(b, x)
           ab == a \o b
           left == a \o longer
           right == Append(ab, x)
           la == Len(a)
           lb == Len(b)
<1>1. la \in Nat /\ lb \in Nat
  BY LenProperties
<1>2. /\ longer \in Seq(U) /\ Len(longer) = lb + 1 /\ longer[lb + 1] = x
      /\ \A i \in 1 .. lb : longer[i] = b[i]
  BY AppendProperties
<1>3. /\ ab \in Seq(U) /\ Len(ab) = la + lb
      /\ \A i \in 1 .. la + lb : ab[i] = IF i <= la THEN a[i] ELSE b[i - la]
  BY ConcatProperties
<1> HIDE DEF longer, ab
<1>4. /\ left \in Seq(U) /\ Len(left) = la + Len(longer)
      /\ \A i \in 1 .. la + Len(longer) : left[i] = IF i <= la THEN a[i] ELSE longer[i - la]
  BY <1>2, ConcatProperties
<1>5. /\ right \in Seq(U) /\ Len(right) = Len(ab) + 1 /\ right[Len(ab) + 1] = x
      /\ \A i \in 1 .. Len(ab) : right[i] = ab[i]
  <2>1. ab \in Seq(U)
    BY <1>3
  <2> QED
    BY <2>1, AppendProperties
<1> HIDE DEF left, right, la, lb
<1>6. Len(left) = la + lb + 1 /\ Len(right) = la + lb + 1
  BY <1>1, <1>2, <1>3, <1>4, <1>5
<1>7. ASSUME NEW i \in 1 .. la + lb + 1 PROVE left[i] = right[i]
  <2>1. CASE i <= la
    <3>1. i \in 1 .. la + lb /\ i \in 1 .. la + Len(longer)
      BY <1>1, <1>2, <2>1
    <3> QED
      BY <1>3, <1>4, <1>5, <2>1, <3>1
  <2>2. CASE i = la + lb + 1
    <3>1. i \in 1 .. la + Len(longer) /\ ~(i <= la) /\ i - la = lb + 1 /\ i = Len(ab) + 1
      BY <1>1, <1>2, <1>3, <2>2
    <3> QED
      BY <1>2, <1>4, <1>5, <3>1
  <2>3. CASE ~(i <= la) /\ i # la + lb + 1
    <3>1. /\ i \in 1 .. la + Len(longer) /\ ~(i <= la) /\ i - la \in 1 .. lb
          /\ i \in 1 .. la + lb /\ i \in 1 .. Len(ab)
      BY <1>1, <1>2, <1>3, <2>3
    <3> QED
      BY <1>2, <1>3, <1>4, <1>5, <3>1
  <2> QED
    BY <2>1, <2>2, <2>3
<1>8. left = right
  BY <1>4, <1>5, <1>6, <1>7, SeqEqual
<1> QED
  BY <1>8 DEF left, right, longer, ab

(* What is kept of two lists, one behind the other.                         *)
LEMMA OnlyConcat ==
  ASSUME NEW U, NEW set, NEW a \in Seq(U), NEW b \in Seq(U)
  PROVE  Only(a \o b, set) = Only(a, set) \o Only(b, set)
<1> DEFINE Good(s) == Only(a \o s, set) = Only(a, set) \o Only(s, set)
           Bad == {n \in Nat : \E s \in Seq(U) : Len(s) = n /\ ~Good(s)}
<1> SUFFICES ASSUME Bad # {} PROVE FALSE
  <2>1. Len(b) \in Nat
    BY LenProperties
  <2>2. ~Good(b) => Len(b) \in Bad
    BY <2>1
  <2> QED
    BY <2>2
<1>1. PICK m \in Bad : \A n \in Bad : m <= n
  <2>1. Bad \in SUBSET Nat
    OBVIOUS
  <2> HIDE DEF Bad
  <2> QED
    BY <2>1, LeastExists
<1>2. PICK s \in Seq(U) : Len(s) = m /\ ~Good(s)
  BY <1>1
<1> DEFINE V == U \cap set
           p == Only(a, set)
<1>3. p \in Seq(V)
  BY OnlyProperties
<1>4. CASE s = <<>>
  <2>1. a \o <<>> = a
    BY ConcatEmptySeq
  <2>2. p \o <<>> = p
    <3> HIDE DEF p, V
    <3> QED
      BY <1>3, ConcatEmptySeq
  <2> QED
    BY <1>2, <1>4, <2>1, <2>2, OnlyEmpty
<1>5. CASE s # <<>>
  <2>1. PICK t \in Seq(U) : \E x \in U : s = Append(t, x)
    BY <1>5, SequenceEmptyOrAppend
  <2>2. PICK x \in U : s = Append(t, x)
    BY <2>1
  <2> DEFINE l == Len(t)
             q == Only(t, set)
             at == a \o t
  <2>3. l \in Nat /\ m = l + 1
    BY <1>2, <2>2, AppendProperties, LenProperties
  <2>4. Good(t)
    <3>1. l \notin Bad
      <4> HIDE DEF Bad, l
      <4>1. ~(m <= l)
        BY <2>3
      <4> QED
        BY <1>1, <4>1
    <3> QED
      BY <2>3, <3>1
  <2>5. q \in Seq(V)
    BY OnlyProperties
  <2>6. at \in Seq(U) /\ a \o s = Append(at, x)
    BY <2>2, AppendBehind, ConcatProperties
  <2>7. Only(s, set) = IF x \in set THEN Append(q, x) ELSE q
    BY <2>2, OnlyAppend
  <2>8. Only(at, set) = p \o q
    BY <2>4
  <2> HIDE DEF at
  <2>9. Only(a \o s, set) = IF x \in set THEN Append(Only(at, set), x) ELSE Only(at, set)
    BY <2>6, OnlyAppend
  <2>10. p \o Append(q, x) = Append(p \o q, x)
    <3>1. p \in Seq(U) /\ q \in Seq(U)
      BY <1>3, <2>5, SeqMonotonic
    <3> HIDE DEF p, q, Bad
    <3> QED
      BY <3>1, AppendBehind
  <2>11. Only(a \o s, set) = p \o Only(s, set)
    <3> HIDE DEF p, q
    <3> QED
      BY <2>7, <2>8, <2>9, <2>10
  <2> QED
    BY <1>2, <2>11
<1> QED
  BY <1>4, <1>5

(* Of a list without an element of the set nothing is kept.                 *)
LEMMA OnlyNone ==
  ASSUME NEW U, NEW set, NEW list \in Seq(U), \A i \in 1 .. Len(list) : list[i] \notin set
  PROVE  Only(list, set) = <<>>
<1> DEFINE kept == Only(list, set)
<1>1. kept \in Seq(U \cap set)
  BY OnlyProperties
<1>2. \A x : ~IsIn(x, list) \/ x \notin set
  BY DEF IsIn
<1>3. \A x : ~IsIn(x, kept)
  BY <1>2, OnlyElements
<1> HIDE DEF kept
<1>4. Len(kept) \in Nat /\ (kept # <<>> => Len(kept) # 0)
  BY <1>1, LenProperties, EmptySeq
<1>5. kept # <<>> => 1 \in 1 .. Len(kept)
  BY <1>4
<1>6. kept = <<>>
  BY <1>3, <1>5 DEF IsIn
<1> QED
  BY <1>6 DEF kept

(* Sets that agree up to n have the same places up to n.                    *)
LEMMA PlacesAgree ==
  ASSUME NEW n \in Nat, NEW S, NEW T, \A i \in 1 .. n : i \in S <=> i \in T
  PROVE  PlacesTo(n, S) = PlacesTo(n, T)
<1> DEFINE Bad == {k \in 0 .. n : PlacesTo(k, S) # PlacesTo(k, T)}
<1> SUFFICES ASSUME Bad # {} PROVE FALSE
  OBVIOUS
<1>1. PICK m \in Bad : \A k \in Bad : m <= k
  <2>1. Bad \in SUBSET Nat
    OBVIOUS
  <2> HIDE DEF Bad
  <2> QED
    BY <2>1, LeastExists
<1>2. m # 0 /\ m \in 0 .. n
  BY <1>1, PlacesGrow
<1> DEFINE k == m - 1
<1>3. k \in Nat /\ k \in 0 .. n /\ m = k + 1 /\ m \in 1 .. n /\ ~(m <= k)
  BY <1>2
<1> HIDE DEF k
<1>4. PlacesTo(k, S) = PlacesTo(k, T)
  <2>1. k \notin Bad
    <3> HIDE DEF Bad
    <3> QED
      BY <1>1, <1>3
  <2> QED
    BY <1>3, <2>1
<1>5. PlacesTo(m, S) = PlacesTo(m, T)
  BY <1>3, <1>4, PlacesGrow
<1> QED
  BY <1>1, <1>5

(* Beyond a place the list of places only gets longer, and by nothing if    *)
(* there is nothing.                                                        *)
LEMMA PlacesBeyond ==
  ASSUME NEW a \in Nat, NEW S
  PROVE  \A n \in Nat : a <= n =>
           /\ (\A i \in (a + 1) .. n : i \notin S) => PlacesTo(n, S) = PlacesTo(a, S)
           /\ Len(PlacesTo(a, S)) <= Len(PlacesTo(n, S))
           /\ \A i \in 1 .. Len(PlacesTo(a, S)) : PlacesTo(n, S)[i] = PlacesTo(a, S)[i]
<1> DEFINE p == PlacesTo(a, S)
           Good(q, n) == /\ (\A i \in (a + 1) .. n : i \notin S) => q = p
                         /\ Len(p) <= Len(q)
                         /\ \A i \in 1 .. Len(p) : q[i] = p[i]
           Bad == {n \in Nat : a <= n /\ ~Good(PlacesTo(n, S), n)}
<1> SUFFICES ASSUME Bad # {} PROVE FALSE
  OBVIOUS
<1>1. PICK m \in Bad : \A k \in Bad : m <= k
  <2>1. Bad \in SUBSET Nat
    OBVIOUS
  <2> HIDE DEF Bad
  <2> QED
    BY <2>1, LeastExists
<1>2. m \in Nat /\ a <= m /\ ~Good(PlacesTo(m, S), m)
  BY <1>1
<1>3. p \in Seq(Nat \cap S)
  BY PlacesGrow
<1> HIDE DEF p
<1>4. Len(p) \in Nat
  BY <1>3, LenProperties
<1>5. m # a
  BY <1>2, <1>4 DEF p
<1> DEFINE k == m - 1
<1>6. k \in Nat /\ m = k + 1 /\ a <= k /\ ~(m <= k)
  BY <1>2, <1>5
<1> DEFINE q == PlacesTo(k, S)
<1> HIDE DEF k
<1>7. k \notin Bad
  <2> HIDE DEF Bad
  <2> QED
    BY <1>1, <1>6
<1>8. Good(q, k) /\ q \in Seq(Nat \cap S)
  BY <1>6, <1>7, PlacesGrow
<1>9. PlacesTo(m, S) = IF m \in S THEN Append(q, m) ELSE q
  BY <1>6, PlacesGrow
<1> HIDE DEF q
<1>10. CASE m \notin S
  <2>1. \A i \in (a + 1) .. k : i \in (a + 1) .. m
    BY <1>6
  <2>2. Good(q, m)
    BY <1>8, <2>1
  <2> QED
    BY <1>2, <1>9, <1>10, <2>2
<1>11. CASE m \in S
  <2> DEFINE r == Append(q, m)
  <2>1. m \in Nat \cap S /\ m \in (a + 1) .. m
    BY <1>2, <1>6, <1>11
  <2>2. Len(r) = Len(q) + 1 /\ Len(q) \in Nat /\ \A i \in 1 .. Len(q) : r[i] = q[i]
    BY <1>8, <2>1, AppendProperties, LenProperties
  <2> HIDE DEF r
  <2>3. Len(p) <= Len(r) /\ \A i \in 1 .. Len(p) : i \in 1 .. Len(q)
    BY <1>4, <1>8, <2>2
  <2>4. Good(r, m)
    BY <1>8, <1>11, <2>1, <2>2, <2>3
  <2> QED
    BY <1>2, <1>9, <1>11, <2>4 DEF r
<1> QED
  BY <1>10, <1>11
=============================================================================
