--------------------------- MODULE BoundedService ---------------------------
(***************************************************************************)
(* What the callers of complete() in src/gateway/gateway.ts may rely on:   *)
(* at most Max of them are served at a time, one that finds room is served *)
(* at once, and room is never left unused while somebody waits.            *)
(***************************************************************************)
EXTENDS Naturals, FiniteSets

CONSTANTS Callers, Max

VARIABLE phase   \* of each caller: "idle", "queued" or "served"

Served == {c \in Callers : phase[c] = "served"}
Room   == Cardinality(Served) < Max

Move(c, from, to) == phase[c] = from /\ phase' = [phase EXCEPT ![c] = to]

Enter(c) == Room /\ (Move(c, "idle", "served") \/ Move(c, "queued", "served"))
Queue(c) == ~Room /\ Move(c, "idle", "queued")
Leave(c) == Move(c, "served", "idle")

(* somebody who waits is served *)
Admit == \E c \in Callers : Room /\ Move(c, "queued", "served")

Init == phase = [c \in Callers |-> "idle"]
Next == \E c \in Callers : Enter(c) \/ Queue(c) \/ Leave(c)
Spec == Init /\ [][Next]_phase

FairSpec == Spec /\ WF_phase(Admit) /\ \A c \in Callers : WF_phase(Leave(c))
=============================================================================
