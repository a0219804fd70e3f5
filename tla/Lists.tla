------------------------------- MODULE Lists -------------------------------
(***************************************************************************)
(* Loops over JavaScript's arrays, as recursive functions: SelectSeq is     *)
(* built into the provers without its definition and the folds of the       *)
(* library take an operator, and nothing can be proved of either.           *)
(***************************************************************************)
EXTENDS Integers, Sequences

(* the elements of a list that are in a set, in their order *)
Only(list, set) ==
  LET kept[n \in 0..Len(list)] ==
        IF n = 0 THEN <<>>
        ELSE IF list[n] \in set THEN Append(kept[n - 1], list[n])
        ELSE kept[n - 1]
  IN  kept[Len(list)]

(* the sum of a list of numbers *)
AddedUp(list) ==
  LET sum[n \in 0..Len(list)] == IF n = 0 THEN 0 ELSE sum[n - 1] + list[n]
  IN  sum[Len(list)]

(* the elements of the lists of a list *)
Flat(lists) ==
  LET all[n \in 0..Len(lists)] == IF n = 0 THEN <<>> ELSE all[n - 1] \o lists[n]
  IN  all[Len(lists)]

(* the places of a list at which an element stands for the first time *)
FirstPlaces(list) == {n \in DOMAIN list : \A m \in 1..(n - 1) : list[m] # list[n]}

(* places of a list in their order *)
InOrder(list, places) == Only([n \in DOMAIN list |-> n], places)

(* the elements of a list that are in a set, each once, where it is first *)
OnceOf(list, set) ==
  LET places == InOrder(list, {n \in FirstPlaces(list) : list[n] \in set})
  IN  [i \in DOMAIN places |-> list[places[i]]]
=============================================================================
