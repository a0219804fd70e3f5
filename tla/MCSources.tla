----------------------------- MODULE MCSources -----------------------------
(* Instances of the preparation of sources for TLC. *)
EXTENDS Sources

CONSTANTS p1, p2, d1

(* words without a link, with a page, with that page, a database and another page *)
MCLinkLists == {<<>>, <<p1>>, <<p1, d1, p2>>}

(* uploads are told apart by nothing *)
Symmetry == Permutations(Uploads)
=============================================================================
