---------------------------- MODULE ServerProofs ----------------------------
(***************************************************************************)
(* What the process of the server keeps in memory for all its operations:  *)
(* the gateway holds its limit, loses no wake-up and is a bounded service,  *)
(* for every set of callers, limit and attempt budget; and broadcast meets  *)
(* open streams, and no page is told too early that an operation has ended. *)
(* The two components share no state.                                        *)
(***************************************************************************)
EXTENDS LlmGateway, EventStreams, FiniteSetTheorems, SequenceTheorems, TLAPS

-----------------------------------------------------------------------------
(* The gateway                                                              *)

(* The queue holds sleeping callers, each of them once: waking its head     *)
(* takes exactly one caller out of it.                                      *)
QueueOK ==
  /\ \A i \in DOMAIN waiters : pc[waiters[i]] = "waiting"
  /\ \A i, j \in DOMAIN waiters : waiters[i] = waiters[j] => i = j

IInv == TypeOK /\ WithinLimit /\ QueueOK /\ NoLostWakeup

(* The sets of callers that the invariant counts are finite.                *)
LEMMA CountsAreFinite ==
         /\ IsFiniteSet(Running) /\ Cardinality(Running) \in Nat
         /\ IsFiniteSet(Woken) /\ Cardinality(Woken) \in Nat
<1>1. Running \in SUBSET Callers /\ Woken \in SUBSET Callers
  BY DEF Running, Woken
<1>2. IsFiniteSet(Callers)
  BY GatewayAssumption
<1> QED
  BY <1>1, <1>2, FS_Subset, FS_CardinalityType

(* A call that starts, or a waiter that resumes, keeps the invariant: it    *)
(* enters below the limit, or joins the queue while every slot is taken.    *)
LEMMA AcquireKeeps ==
  ASSUME IInv, NEW c \in Callers,
         pc[c] \in {"idle", "woken"}, Acquire(c),
         calls' \in [Callers -> Nat]
  PROVE  IInv'
<1> USE DEF IInv
<1>0. TypeOK /\ WithinLimit /\ QueueOK /\ NoLostWakeup
  OBVIOUS
<1>f. IsFiniteSet(Running) /\ Cardinality(Running) \in Nat
      /\ IsFiniteSet(Woken) /\ Cardinality(Woken) \in Nat
  BY CountsAreFinite
<1>1. CASE active < Max /\ active' = active + 1 /\ waiters' = waiters
           /\ pc' = [pc EXCEPT ![c] = "running"]
           /\ attempt' = [attempt EXCEPT ![c] = 1]
  <2>1. TypeOK'
    BY <1>0, <1>1, GatewayAssumption DEF TypeOK
  <2>2. Running' = Running \cup {c} /\ c \notin Running
    BY <1>0, <1>1 DEF TypeOK, Running
  <2>3. Cardinality(Running') = Cardinality(Running) + 1
    BY <1>f, <2>2, FS_AddElement
  <2>4. WithinLimit'
    BY <1>0, <1>1, <1>f, <2>3, GatewayAssumption DEF WithinLimit
  <2>5. QueueOK'
    BY <1>0, <1>1 DEF QueueOK, TypeOK
  <2>6. Woken' = Woken \ {c}
    BY <1>0, <1>1 DEF TypeOK, Woken
  <2>7. IsFiniteSet(Woken \ {c})
        /\ Cardinality(Woken \ {c}) = IF c \in Woken THEN Cardinality(Woken) - 1 ELSE Cardinality(Woken)
    BY <1>f, FS_RemoveElement
  <2>k. Cardinality(Woken \ {c}) \in Nat
    BY <2>7, FS_CardinalityType
  <2>8. Cardinality(Woken') \in Nat /\ Cardinality(Woken') + 1 >= Cardinality(Woken)
    BY <1>f, <2>6, <2>7, <2>k
  <2>9. active \in Nat /\ Max \in Nat /\ active' = active + 1 /\ waiters' = waiters
    BY <1>0, <1>1, GatewayAssumption DEF TypeOK
  <2>10. NoLostWakeup'
    BY <1>0, <1>f, <2>8, <2>9 DEF NoLostWakeup
  <2> QED
    BY <2>1, <2>4, <2>5, <2>10
<1>2. CASE active >= Max /\ waiters' = Append(waiters, c) /\ active' = active
           /\ pc' = [pc EXCEPT ![c] = "waiting"] /\ attempt' = attempt
  <2>1. TypeOK'
    BY <1>0, <1>2 DEF TypeOK
  <2>2. Running' = Running
    BY <1>0, <1>2 DEF TypeOK, Running
  <2>3. WithinLimit'
    BY <1>0, <1>2, <2>2 DEF WithinLimit
  <2>w. waiters \in Seq(Callers) /\ waiters' = Append(waiters, c)
    BY <1>0, <1>2 DEF TypeOK
  <2>4. /\ Len(waiters') = Len(waiters) + 1 /\ DOMAIN waiters' = 1 .. (Len(waiters) + 1)
        /\ DOMAIN waiters = 1 .. Len(waiters) /\ Len(waiters) \in Nat
        /\ \A i \in DOMAIN waiters : waiters'[i] = waiters[i]
        /\ waiters'[Len(waiters) + 1] = c
    BY <2>w, AppendProperties
  <2>5. \A i \in DOMAIN waiters : waiters[i] # c /\ waiters[i] \in Callers
    BY <1>0 DEF QueueOK, TypeOK
  <2>6. QueueOK'
    <3>1. \A i \in DOMAIN waiters' : i \in DOMAIN waiters \/ i = Len(waiters) + 1
      BY <2>4
    <3>2. \A i \in DOMAIN waiters : pc'[waiters'[i]] = "waiting" /\ waiters'[i] # c
      BY <1>0, <1>2, <2>4, <2>5 DEF QueueOK, TypeOK
    <3>3. pc'[c] = "waiting"
      BY <1>0, <1>2 DEF TypeOK
    <3>4. \A i \in DOMAIN waiters' : pc'[waiters'[i]] = "waiting"
      BY <2>4, <3>1, <3>2, <3>3
    <3>5. \A i, j \in DOMAIN waiters' : waiters'[i] = waiters'[j] => i = j
      BY <1>0, <2>4, <3>1, <3>2 DEF QueueOK
    <3> QED
      BY <3>4, <3>5 DEF QueueOK
  <2>7. Woken' = Woken \ {c}
    BY <1>0, <1>2 DEF TypeOK, Woken
  <2>8. Cardinality(Woken') \in Nat
    BY <1>f, <2>7, FS_RemoveElement, FS_CardinalityType
  <2>9. NoLostWakeup'
    BY <1>0, <1>2, <2>8, GatewayAssumption DEF NoLostWakeup, TypeOK
  <2> QED
    BY <2>1, <2>3, <2>6, <2>9
<1> QED
  BY <1>1, <1>2 DEF Acquire

(* A call that ends keeps the invariant: its slot is free or is promised to *)
(* the oldest waiter.                                                       *)
LEMMA ReleaseKeeps ==
  ASSUME IInv, NEW c \in Callers, pc[c] = "running", Release(c),
         attempt' = attempt, calls' = calls
  PROVE  IInv'
<1> USE DEF IInv
<1>0. TypeOK /\ WithinLimit /\ QueueOK /\ NoLostWakeup
  OBVIOUS
<1>f. IsFiniteSet(Running) /\ Cardinality(Running) \in Nat
      /\ IsFiniteSet(Woken) /\ Cardinality(Woken) \in Nat
  BY CountsAreFinite
<1>1. c \in Running /\ active' = active - 1
  BY DEF Running, Release
<1>2. Cardinality(Running \ {c}) = Cardinality(Running) - 1 /\ Cardinality(Running \ {c}) \in Nat
  BY <1>1, <1>f, FS_RemoveElement, FS_CardinalityType
<1>3. active' \in Nat /\ active' = Cardinality(Running \ {c}) /\ active' <= Max /\ Max \in Nat
  BY <1>0, <1>1, <1>2, <1>f, GatewayAssumption DEF WithinLimit, TypeOK
<1>4. CASE waiters = <<>>
  <2>1. pc' = [pc EXCEPT ![c] = "idle"] /\ waiters' = <<>>
    BY <1>4 DEF Release
  <2>2. TypeOK'
    BY <1>0, <1>3, <2>1 DEF TypeOK
  <2>3. Running' = Running \ {c}
    BY <1>0, <2>1 DEF TypeOK, Running
  <2>4. WithinLimit' /\ QueueOK' /\ NoLostWakeup'
    BY <1>3, <2>1, <2>3 DEF WithinLimit, QueueOK, NoLostWakeup
  <2> QED
    BY <2>2, <2>4
<1>5. CASE waiters # <<>>
  <2> DEFINE h == Head(waiters)
  <2>1. pc' = [pc EXCEPT ![c] = "idle", ![h] = "woken"] /\ waiters' = Tail(waiters)
    BY <1>5 DEF Release
  <2>t. waiters \in Seq(Callers) /\ waiters' = Tail(waiters) /\ waiters' \in Seq(Callers)
    BY <1>0, <1>5, <2>1, HeadTailProperties DEF TypeOK
  <2>2. /\ Len(waiters) \in Nat /\ Len(waiters) > 0 /\ 1 \in DOMAIN waiters /\ h = waiters[1]
        /\ h \in Callers /\ waiters' \in Seq(Callers)
        /\ DOMAIN waiters = 1 .. Len(waiters)
        /\ DOMAIN waiters' = 1 .. (Len(waiters) - 1)
        /\ \A i \in DOMAIN waiters' : waiters'[i] = waiters[i + 1] /\ waiters'[i] \in Callers
    <3>1. Len(waiters) \in Nat /\ DOMAIN waiters = 1 .. Len(waiters) /\ DOMAIN waiters' = 1 .. Len(waiters')
      BY <2>t, LenProperties
    <3>2. Len(waiters) > 0
      BY <1>5, <2>t
    <3>3. h = waiters[1] /\ h \in Callers /\ Len(waiters') = Len(waiters) - 1
      BY <1>5, <2>t, HeadTailProperties
    <3>4. \A i \in DOMAIN waiters' : waiters'[i] = waiters[i + 1]
      BY <1>5, <2>t, <3>1, HeadTailProperties
    <3>5. \A i \in DOMAIN waiters' : waiters'[i] \in Callers
      BY <2>t
    <3> QED
      BY <2>t, <3>1, <3>2, <3>3, <3>4, <3>5
  <2>3. pc[h] = "waiting" /\ h # c
    BY <1>0, <2>2 DEF QueueOK
  <2>4. TypeOK'
    BY <1>0, <1>3, <2>1, <2>2 DEF TypeOK
  <2>5. Running' = Running \ {c} /\ Woken' = Woken \cup {h} /\ h \notin Woken
    BY <1>0, <2>1, <2>2, <2>3 DEF TypeOK, Running, Woken
  <2>6. WithinLimit'
    BY <1>3, <2>5 DEF WithinLimit
  <2>7. \A i \in DOMAIN waiters' : i + 1 \in DOMAIN waiters /\ i + 1 # 1
    BY <2>2
  <2>8. \A i \in DOMAIN waiters' : waiters'[i] # h /\ waiters'[i] # c /\ pc[waiters'[i]] = "waiting"
    BY <1>0, <2>2, <2>3, <2>7 DEF QueueOK
  <2>9. \A i, j \in DOMAIN waiters' : waiters'[i] = waiters'[j] => i = j
    BY <1>0, <2>2, <2>7 DEF QueueOK
  <2>10. QueueOK'
    BY <1>0, <2>1, <2>2, <2>8, <2>9 DEF QueueOK, TypeOK
  <2>11. Cardinality(Woken') = Cardinality(Woken) + 1
    BY <1>f, <2>5, FS_AddElement
  <2>12. NoLostWakeup'
    BY <1>0, <1>1, <1>3, <1>5, <1>f, <2>11 DEF NoLostWakeup, TypeOK
  <2> QED
    BY <2>4, <2>6, <2>10, <2>12
<1> QED
  BY <1>4, <1>5

-----------------------------------------------------------------------------
(* The invariant holds before the first call.                               *)
LEMMA InitHolds == Init => IInv
<1> SUFFICES ASSUME Init PROVE IInv
  OBVIOUS
<1>1. TypeOK
  BY GatewayAssumption DEF Init, TypeOK
<1>2. Running = {}
  BY DEF Init, Running
<1>3. Cardinality(Running) = 0
  BY <1>2, FS_EmptySet
<1>4. WithinLimit /\ QueueOK /\ NoLostWakeup
  BY <1>3, GatewayAssumption DEF Init, WithinLimit, QueueOK, NoLostWakeup
<1> QED
  BY <1>1, <1>4 DEF IInv

(* Every step of complete() keeps the invariant.                            *)
LEMMA NextKeeps == IInv /\ [Next]_vars => IInv'
<1> SUFFICES ASSUME IInv, [Next]_vars PROVE IInv'
  OBVIOUS
<1>t. TypeOK
  BY DEF IInv
<1>1. ASSUME NEW c \in Callers, Complete(c) PROVE IInv'
  <2>1. calls' \in [Callers -> Nat]
    BY <1>t, <1>1 DEF Complete, TypeOK
  <2> QED
    BY <1>1, <2>1, AcquireKeeps DEF Complete
<1>2. ASSUME NEW c \in Callers, Resume(c) PROVE IInv'
  <2>1. calls' \in [Callers -> Nat]
    BY <1>t, <1>2 DEF Resume, TypeOK
  <2> QED
    BY <1>2, <2>1, AcquireKeeps DEF Resume
<1>3. ASSUME NEW c \in Callers, Settle(c) PROVE IInv'
  BY <1>t, <1>3, ReleaseKeeps DEF Settle, TypeOK
<1>5. ASSUME NEW c \in Callers, Invalid(c) PROVE IInv'
  <2>1. calls' = calls
    BY <1>5 DEF Invalid
  <2>2. CASE attempt[c] < Attempts
    <3>1. UNCHANGED <<pc, active, waiters>> /\ attempt' = [attempt EXCEPT ![c] = @ + 1]
      BY <1>5, <2>2 DEF Invalid
    <3>2. TypeOK'
      BY <1>t, <2>1, <2>2, <3>1, GatewayAssumption DEF TypeOK
    <3>3. WithinLimit' /\ QueueOK' /\ NoLostWakeup'
      BY <3>1 DEF IInv, WithinLimit, QueueOK, NoLostWakeup, Running, Woken
    <3> QED
      BY <3>2, <3>3 DEF IInv
  <2>3. CASE ~(attempt[c] < Attempts)
    BY <1>5, <2>1, <2>3, ReleaseKeeps DEF Invalid
  <2> QED
    BY <2>2, <2>3
<1>6. ASSUME UNCHANGED vars PROVE IInv'
  BY <1>6 DEF vars, IInv, TypeOK, WithinLimit, QueueOK, NoLostWakeup, Running, Woken
<1> QED
  BY <1>1, <1>2, <1>3, <1>5, <1>6 DEF Next, Ends

(* The inductive invariant of complete(), acquire() and release().          *)
THEOREM Invariance == Spec => []IInv
  BY InitHolds, NextKeeps, PTL DEF Spec

(* Counters, queue and attempts keep their types, and no call is run more   *)
(* than maxParseRetries + 1 times.                                          *)
THEOREM TypesHold == Spec => []TypeOK
<1>1. IInv => TypeOK
  BY DEF IInv
<1> QED
  BY <1>1, Invariance, PTL

(* Never more than maxConcurrency calls past acquire, whatever the limit,   *)
(* and the counter is exact on every path through release.                  *)
THEOREM LimitHolds == Spec => []WithinLimit
<1>1. IInv => WithinLimit
  BY DEF IInv
<1> QED
  BY <1>1, Invariance, PTL

(* A waiter never sleeps beside a slot that is free and promised to nobody. *)
THEOREM WakeupsHold == Spec => []NoLostWakeup
<1>1. IInv => NoLostWakeup
  BY DEF IInv
<1> QED
  BY <1>1, Invariance, PTL

-----------------------------------------------------------------------------
(* The abstract service has room exactly when the counter is below the      *)
(* limit.                                                                   *)
LEMMA RoomIsCounted == IInv => (Service!Room <=> active < Max)
<1> SUFFICES ASSUME IInv PROVE Service!Room <=> active < Max
  OBVIOUS
<1>1. Service!Served = Running
  BY DEF Service!Served, Phase, Running, IInv, TypeOK
<1>2. Service!Cardinality(Running) = Cardinality(Running)
  BY DEF Service!Cardinality, Cardinality
<1> QED
  BY <1>1, <1>2 DEF Service!Room, IInv, WithinLimit

(* What each place in complete() is to the service.                         *)
LEMMA PhaseOf ==
  ASSUME TypeOK, NEW x \in Callers
  PROVE  /\ pc[x] = "idle" => Phase[x] = "idle"
         /\ pc[x] = "running" => Phase[x] = "served"
         /\ pc[x] \in {"waiting", "woken"} => Phase[x] = "queued"
  BY DEF Phase, TypeOK

(* A step that changes the phase of one caller only is a move of it.        *)
LEMMA OneMoves ==
  ASSUME NEW c \in Callers, NEW to, Phase'[c] = to,
         \A x \in Callers \ {c} : Phase'[x] = Phase[x]
  PROVE  Phase' = [Phase EXCEPT ![c] = to]
<1>1. Phase' = [x \in Callers |-> Phase'[x]] /\ Phase = [x \in Callers |-> Phase[x]]
  BY DEF Phase
<1> QED
  BY <1>1

(* Taking a slot or queueing is a step of the service.                      *)
LEMMA AcquireIsServed ==
  ASSUME IInv, IInv', NEW c \in Callers, pc[c] \in {"idle", "woken"}, Acquire(c)
  PROVE  Service!Next \/ Phase' = Phase
<1>1. TypeOK /\ TypeOK' /\ (Service!Room <=> active < Max)
  BY RoomIsCounted DEF IInv
<1>2. \A x \in Callers \ {c} : pc'[x] = pc[x]
  BY <1>1 DEF Acquire, TypeOK
<1>3. \A x \in Callers \ {c} : Phase'[x] = Phase[x]
  BY <1>2 DEF Phase
<1>4. CASE active < Max /\ pc' = [pc EXCEPT ![c] = "running"]
  <2>1. pc'[c] = "running"
    BY <1>1, <1>4 DEF TypeOK
  <2>2. Phase'[c] = "served"
    BY <2>1 DEF Phase
  <2>3. Phase' = [Phase EXCEPT ![c] = "served"]
    BY <1>3, <2>2, OneMoves
  <2>4. Phase[c] \in {"idle", "queued"}
    BY <1>1, PhaseOf
  <2>5. Service!Enter(c)
    BY <1>1, <1>4, <2>3, <2>4 DEF Service!Enter, Service!Move
  <2> QED
    BY <2>5 DEF Service!Next
<1>5. CASE active >= Max /\ pc' = [pc EXCEPT ![c] = "waiting"]
  <2>1. pc'[c] = "waiting" /\ ~(active < Max)
    BY <1>1, <1>5, GatewayAssumption DEF TypeOK
  <2>2. Phase'[c] = "queued"
    BY <2>1 DEF Phase
  <2>3. Phase' = [Phase EXCEPT ![c] = "queued"]
    BY <1>3, <2>2, OneMoves
  <2>4. CASE pc[c] = "idle"
    <3>1. Service!Queue(c)
      BY <1>1, <2>1, <2>3, <2>4, PhaseOf DEF Service!Queue, Service!Move
    <3> QED
      BY <3>1 DEF Service!Next
  <2>5. CASE pc[c] = "woken"
    <3>1. Phase[c] = "queued"
      BY <1>1, <2>5, PhaseOf
    <3>2. Phase = [x \in Callers |-> Phase[x]]
      BY DEF Phase
    <3> QED
      BY <2>3, <3>1, <3>2
  <2> QED
    BY <2>4, <2>5
<1> QED
  BY <1>4, <1>5 DEF Acquire

(* Giving the slot back is a step of the service; the woken waiter stays    *)
(* queued for it.                                                           *)
LEMMA ReleaseIsServed ==
  ASSUME IInv, IInv', NEW c \in Callers, pc[c] = "running", Release(c)
  PROVE  Service!Next
<1>1. TypeOK /\ TypeOK' /\ QueueOK
  BY DEF IInv
<1>2. pc'[c] = "idle" /\ \A x \in Callers \ {c} :
        pc'[x] = pc[x] \/ (pc[x] = "waiting" /\ pc'[x] = "woken")
  <2>1. CASE waiters = <<>>
    BY <1>1, <2>1 DEF Release, TypeOK
  <2>2. CASE waiters # <<>>
    <3>1. waiters \in Seq(Callers) /\ Head(waiters) \in Callers
          /\ 1 \in DOMAIN waiters /\ Head(waiters) = waiters[1]
      BY <1>1, <2>2, HeadTailProperties, LenProperties DEF TypeOK
    <3>2. pc[Head(waiters)] = "waiting" /\ Head(waiters) # c
      BY <1>1, <3>1 DEF QueueOK
    <3> QED
      BY <1>1, <2>2, <3>1, <3>2 DEF Release, TypeOK
  <2> QED
    BY <2>1, <2>2
<1>3. Phase'[c] = "idle" /\ \A x \in Callers \ {c} : Phase'[x] = Phase[x]
  BY <1>2 DEF Phase
<1>4. Phase' = [Phase EXCEPT ![c] = "idle"]
  BY <1>3, OneMoves
<1>5. Service!Leave(c)
  BY <1>1, <1>4, PhaseOf DEF Service!Leave, Service!Move
<1> QED
  BY <1>5 DEF Service!Next

(* Every step of the gateway is a step of the service or changes nothing    *)
(* that the service shows.                                                  *)
LEMMA StepIsServed == IInv /\ IInv' /\ [Next]_vars => [Service!Next]_Phase
<1> SUFFICES ASSUME IInv, IInv', [Next]_vars PROVE Service!Next \/ Phase' = Phase
  OBVIOUS
<1>1. ASSUME NEW c \in Callers, Complete(c) PROVE Service!Next \/ Phase' = Phase
  BY <1>1, AcquireIsServed DEF Complete
<1>2. ASSUME NEW c \in Callers, Resume(c) PROVE Service!Next \/ Phase' = Phase
  BY <1>2, AcquireIsServed DEF Resume
<1>3. ASSUME NEW c \in Callers, Ends(c) PROVE Service!Next \/ Phase' = Phase
  <2>1. pc[c] = "running" /\ (Release(c) \/ pc' = pc)
    BY <1>3 DEF Ends, Settle, Invalid
  <2>2. CASE pc' = pc
    BY <2>2 DEF Phase
  <2> QED
    BY <2>1, <2>2, ReleaseIsServed
<1>4. ASSUME UNCHANGED vars PROVE Phase' = Phase
  BY <1>4 DEF vars, Phase
<1> QED
  BY <1>1, <1>2, <1>3, <1>4 DEF Next

(* The gateway implements the safety of the bounded service: a caller that  *)
(* finds room is served, and nobody is served without room.                 *)
THEOREM Refinement == Spec => Service!Spec
<1>1. Init => Service!Init
  BY DEF Init, Service!Init, Phase
<1> QED
  BY <1>1, Invariance, StepIsServed, PTL DEF Spec, Service!Spec

-----------------------------------------------------------------------------
(* The event streams of a session                                           *)

Events == {"running", "idle", "failed"}

(* The map holds a set for the operation that runs, and only with streams   *)
(* in it that are open.                                                     *)
CurrentOK ==
  current # None => running /\ Members(current) # {} /\ \A s \in Members(current) : ~streams[s].ended

(* While the operation that a page waits for runs, nothing on its way to    *)
(* the page says otherwise.                                                  *)
NoEnd(wire) == \A i \in 1 .. Len(wire) : wire[i] = "running"
WaitsOK ==
  \A p \in Pages : pages[p].due =>
    running /\ (pages[p].conn # None => NoEnd(streams[pages[p].conn].wire))

StreamsInv == StreamsTypeOK /\ CurrentOK /\ WaitsOK

-----------------------------------------------------------------------------
(* Sets are enough: a stream that joins finds the set of the map, or one    *)
(* nobody is in.                                                             *)
LEMMA SetsSuffice ==
  ASSUME StreamsTypeOK, NEW s \in Streams, streams[s].set = None, current = None
  PROVE  Joined \in Sets /\ Members(Joined) = {}
<1>1. \E set \in Sets : Unused(set)
  <2> SUFFICES ASSUME \A set \in Sets : ~Unused(set) PROVE FALSE
    OBVIOUS
  <2> DEFINE first == [set \in Sets |-> CHOOSE x \in Streams : streams[x].set = set]
  <2>1. \A set \in Sets : first[set] \in Streams \ {s} /\ streams[first[set]].set = set
    <3> SUFFICES ASSUME NEW set \in Sets
                 PROVE  first[set] \in Streams \ {s} /\ streams[first[set]].set = set
      OBVIOUS
    <3>1. set # None
      BY StreamsAssumption
    <3>2. \E x \in Streams : streams[x].set = set
      BY <3>1 DEF Unused, Members
    <3> QED
      BY <3>1, <3>2
  <2>2. first \in [Sets -> Streams \ {s}]
    BY <2>1
  <2>3. /\ IsFiniteSet(Sets) /\ IsFiniteSet(Streams \ {s})
        /\ Cardinality(Streams \ {s}) < Cardinality(Sets)
    <3>1. IsFiniteSet(Streams) /\ IsFiniteSet(Sets) /\ Cardinality(Streams) <= Cardinality(Sets)
      BY StreamsAssumption
    <3>2. Cardinality(Streams) \in Nat /\ Cardinality(Sets) \in Nat
      BY <3>1, FS_CardinalityType
    <3>3. IsFiniteSet(Streams \ {s}) /\ Cardinality(Streams \ {s}) = Cardinality(Streams) - 1
      BY <3>1, FS_RemoveElement
    <3> QED
      BY <3>1, <3>2, <3>3
  <2> HIDE DEF first
  <2>4. \E x, y \in Sets : x # y /\ first[x] = first[y]
    BY <2>2, <2>3, FS_PigeonHole
  <2> QED
    BY <2>1, <2>4
<1> QED
  BY <1>1 DEF Joined, Unused

(* The set a stream joins is one of the sets, and its members are open.     *)
LEMMA JoinedFits ==
  ASSUME StreamsTypeOK, CurrentOK, NEW s \in Streams, streams[s].set = None
  PROVE  /\ Joined \in Sets /\ Joined # None
         /\ \A x \in Members(Joined) : ~streams[x].ended
<1>1. CASE current = None
  BY <1>1, SetsSuffice, StreamsAssumption
<1>2. CASE current # None
  BY <1>2 DEF Joined, StreamsTypeOK, CurrentOK
<1> QED
  BY <1>1, <1>2

(* Letting go of a stream loses what is on its way, and nothing else.       *)
LEMMA DroppedKeeps ==
  ASSUME StreamsTypeOK, NEW p \in Pages
  PROVE  /\ Dropped(p) \in [Streams -> Stream]
         /\ \A s \in Streams : /\ Dropped(p)[s].set = streams[s].set
                               /\ Dropped(p)[s].ended = streams[s].ended
                               /\ NoEnd(streams[s].wire) => NoEnd(Dropped(p)[s].wire)
<1> SUFFICES ASSUME NEW s \in Streams
             PROVE  /\ Dropped(p)[s] \in Stream
                    /\ Dropped(p)[s].set = streams[s].set
                    /\ Dropped(p)[s].ended = streams[s].ended
                    /\ NoEnd(streams[s].wire) => NoEnd(Dropped(p)[s].wire)
  BY DEF Dropped
<1>1. streams[s] \in Stream /\ <<>> \in Seq({"running", "idle", "failed"})
  BY EmptySeq DEF StreamsTypeOK
<1>2. NoEnd(<<>>)
  BY DEF NoEnd
<1> QED
  BY <1>1, <1>2 DEF Dropped, Stream

(* The streams that hear the last events are those of the set of the map.   *)
LEMMA ClosingTells ==
  ASSUME StreamsTypeOK, NEW news \in Seq(Events), CloseSubscribers(news)
  PROVE  /\ streams' \in [Streams -> Stream] /\ current' = None
<1> SUFFICES ASSUME NEW s \in Streams PROVE streams'[s] \in Stream
  BY DEF CloseSubscribers
<1>1. streams[s] \in Stream /\ <<>> \in Seq(Events) /\ streams[s].wire \o news \in Seq(Events)
  BY EmptySeq, ConcatProperties DEF StreamsTypeOK, Stream, Events
<1> QED
  BY <1>1 DEF CloseSubscribers, Stream, Events

(* A stream that is opened holds one status.                                *)
LEMMA OpeningFits ==
  ASSUME StreamsTypeOK, CurrentOK, NEW s \in Streams, streams[s].set = None, HandleEvents(s)
  PROVE  /\ streams' \in [Streams -> Stream] /\ current' \in Sets \cup {None}
         /\ \A x \in Streams \ {s} : streams'[x] = streams[x]
         /\ streams'[s].wire = IF running THEN <<"running">> ELSE <<"idle">>
<1>1. <<"running">> \in Seq(Events) /\ <<"idle">> \in Seq(Events)
  BY DEF Events
<1>2. CASE running
  <2> DEFINE new == [set |-> Joined, ended |-> FALSE, wire |-> <<"running">>]
  <2>1. new \in Stream
    BY <1>1, JoinedFits DEF Stream, Events
  <2>2. streams' = [streams EXCEPT ![s] = new] /\ current' = Joined
    BY <1>2 DEF HandleEvents
  <2>3. new.wire = <<"running">>
    OBVIOUS
  <2> HIDE DEF new
  <2> QED
    BY <1>2, <2>1, <2>2, <2>3, JoinedFits DEF StreamsTypeOK
<1>3. CASE ~running
  <2> DEFINE new == [set |-> None, ended |-> TRUE, wire |-> <<"idle">>]
  <2>1. new \in Stream
    BY <1>1 DEF Stream, Events
  <2>2. streams' = [streams EXCEPT ![s] = new] /\ current' = current
    BY <1>3 DEF HandleEvents
  <2>3. new.wire = <<"idle">>
    OBVIOUS
  <2> HIDE DEF new
  <2> QED
    BY <1>3, <2>1, <2>2, <2>3 DEF StreamsTypeOK
<1> QED
  BY <1>2, <1>3

-----------------------------------------------------------------------------
(* Streams that keep their sets keep what the map says of them.             *)
LEMMA SetsKept ==
  ASSUME CurrentOK, UNCHANGED <<running, current>>,
         \A s \in Streams : streams'[s].set = streams[s].set /\ streams'[s].ended = streams[s].ended
  PROVE  CurrentOK'
<1>1. \A set : Members(set)' = Members(set)
  BY DEF Members
<1> QED
  BY <1>1 DEF CurrentOK, Members

(* A page still waits for the same end when it keeps its stream, or lets    *)
(* go of it, and nothing comes onto the wire.                               *)
LEMMA WaitsKept ==
  ASSUME StreamsTypeOK, WaitsOK, running' = running,
         \A s \in Streams : NoEnd(streams[s].wire) => NoEnd(streams'[s].wire),
         \A p \in Pages : pages'[p].due => pages[p].due /\ pages'[p].conn \in {pages[p].conn, None}
  PROVE  WaitsOK'
<1> SUFFICES ASSUME NEW p \in Pages, pages'[p].due
             PROVE  running' /\ (pages'[p].conn # None => NoEnd(streams'[pages'[p].conn].wire))
  BY DEF WaitsOK, NoEnd
<1>1. running /\ (pages[p].conn # None => NoEnd(streams[pages[p].conn].wire))
  BY DEF WaitsOK
<1>2. pages[p].conn \in Streams \cup {None}
  BY DEF StreamsTypeOK, Page
<1> QED
  BY <1>1, <1>2

(* A wait that ends keeps the invariant: whatever was on its way is lost.   *)
LEMMA FinishStep ==
  ASSUME StreamsInv, NEW p \in Pages, pages[p].phase = "watch", Finish(p), UNCHANGED <<running, ops, current>>
  PROVE  StreamsInv'
<1>t. StreamsTypeOK /\ streams' = Dropped(p) /\ pages[p] \in Page
  BY DEF StreamsInv, StreamsTypeOK, Finish
<1>1. /\ streams' \in [Streams -> Stream]
      /\ \A s \in Streams : /\ streams'[s].set = streams[s].set /\ streams'[s].ended = streams[s].ended
                            /\ NoEnd(streams[s].wire) => NoEnd(streams'[s].wire)
  BY <1>t, DroppedKeeps
<1>2. /\ pages' \in [Pages -> Page]
      /\ pages'[p].phase = "refetch" /\ pages'[p].conn = None /\ ~pages'[p].polling /\ ~pages'[p].due
      /\ \A q \in Pages \ {p} : pages'[q] = pages[q]
  BY <1>t DEF Finish, StreamsTypeOK, Page
<1>3. StreamsTypeOK'
  BY <1>t, <1>1, <1>2 DEF StreamsTypeOK
<1>4. CurrentOK'
  BY <1>1, SetsKept DEF StreamsInv
<1>5. WaitsOK'
  BY <1>t, <1>1, <1>2, WaitsKept DEF StreamsInv, Finish
<1> QED
  BY <1>3, <1>4, <1>5 DEF StreamsInv

(* A lost connection keeps what the page waits for.                         *)
LEMMA LostStep == ASSUME StreamsInv, NEW p \in Pages, Lost(p) PROVE StreamsInv'
<1>t. StreamsTypeOK /\ streams' = Dropped(p) /\ pages[p] \in Page /\ UNCHANGED <<running, ops, current>>
  BY DEF StreamsInv, StreamsTypeOK, Lost
<1>1. /\ streams' \in [Streams -> Stream]
      /\ \A s \in Streams : /\ streams'[s].set = streams[s].set /\ streams'[s].ended = streams[s].ended
                            /\ NoEnd(streams[s].wire) => NoEnd(streams'[s].wire)
  BY <1>t, DroppedKeeps
<1>2. /\ pages' \in [Pages -> Page]
      /\ pages'[p].phase = "watch" /\ pages'[p].conn = None /\ pages'[p].due = pages[p].due
      /\ \A q \in Pages \ {p} : pages'[q] = pages[q]
  BY <1>t DEF Lost, StreamsTypeOK, Page
<1>3. StreamsTypeOK'
  BY <1>t, <1>1, <1>2 DEF StreamsTypeOK
<1>4. CurrentOK'
  BY <1>t, <1>1, SetsKept DEF StreamsInv
<1>5. WaitsOK'
  BY <1>t, <1>1, <1>2, WaitsKept DEF StreamsInv
<1> QED
  BY <1>3, <1>4, <1>5 DEF StreamsInv

(* A page that is opened waits for what runs then, and follows no stream.   *)
LEMMA MountStep == ASSUME StreamsInv, NEW p \in Pages, Mount(p) PROVE StreamsInv'
<1>t. StreamsTypeOK /\ streams' = Dropped(p) /\ pages[p] \in Page /\ UNCHANGED <<running, ops, current>>
  BY DEF StreamsInv, StreamsTypeOK, Mount
<1>1. /\ streams' \in [Streams -> Stream]
      /\ \A s \in Streams : /\ streams'[s].set = streams[s].set /\ streams'[s].ended = streams[s].ended
                            /\ NoEnd(streams[s].wire) => NoEnd(streams'[s].wire)
  BY <1>t, DroppedKeeps
<1>2. /\ pages' \in [Pages -> Page]
      /\ pages'[p].conn = None /\ ~pages'[p].polling /\ pages'[p].due = running
      /\ \A q \in Pages \ {p} : pages'[q] = pages[q]
  BY <1>t DEF Mount, StreamsTypeOK, Page
<1>3. StreamsTypeOK'
  BY <1>t, <1>1, <1>2 DEF StreamsTypeOK
<1>4. CurrentOK'
  BY <1>t, <1>1, SetsKept DEF StreamsInv
<1>5. WaitsOK'
  <2> SUFFICES ASSUME NEW q \in Pages, pages'[q].due
               PROVE  running' /\ (pages'[q].conn # None => NoEnd(streams'[pages'[q].conn].wire))
    BY DEF WaitsOK, NoEnd
  <2>1. CASE q = p
    BY <1>t, <1>2, <2>1
  <2>2. CASE q # p
    <3>1. running /\ (pages[q].conn # None => NoEnd(streams[pages[q].conn].wire))
      BY <1>2, <2>2 DEF StreamsInv, WaitsOK
    <3>2. pages[q].conn \in Streams \cup {None}
      BY <1>t DEF StreamsTypeOK, Page
    <3> QED
      BY <1>t, <1>1, <1>2, <2>2, <3>1, <3>2
  <2> QED
    BY <2>1, <2>2
<1> QED
  BY <1>3, <1>4, <1>5 DEF StreamsInv

(* A request that is taken lets the page wait for the operation it begins,  *)
(* and one that is refused, or a session fetched anew, shows what runs.     *)
LEMMA AskStep ==
  ASSUME StreamsInv, NEW p \in Pages, Act(p) \/ ActRefused(p) \/ Refetch(p)
  PROVE  StreamsInv'
<1>t. /\ StreamsTypeOK /\ pages[p] \in Page /\ UNCHANGED <<current, streams>> /\ pages[p].phase # "watch"
      /\ pages[p].conn = None /\ ~pages[p].polling
  BY DEF StreamsInv, StreamsTypeOK, Act, ActRefused, Refetch
<1>1. running' \in BOOLEAN /\ (running => running') /\ ops' \in 0 .. MaxOps
  <2>1. CASE Act(p)
    <3>1. ops \in 0 .. MaxOps /\ ops < MaxOps /\ ops' = ops + 1 /\ running' = TRUE
      BY <1>t, <2>1 DEF Act, StreamsTypeOK
    <3> QED
      BY <3>1, StreamsAssumption
  <2>2. CASE ActRefused(p) \/ Refetch(p)
    BY <1>t, <2>2 DEF ActRefused, Refetch, StreamsTypeOK
  <2> QED
    BY <2>1, <2>2
<1>2. /\ pages' \in [Pages -> Page]
      /\ pages'[p].conn = None /\ ~pages'[p].polling
      /\ pages'[p].due => pages[p].due \/ running'
      /\ \A q \in Pages \ {p} : pages'[q] = pages[q]
  <2>1. CASE Act(p)
    BY <1>t, <2>1 DEF Act, StreamsTypeOK, Page
  <2>2. CASE ActRefused(p)
    BY <1>t, <2>2 DEF ActRefused, StreamsTypeOK, Page
  <2>3. CASE Refetch(p)
    BY <1>t, <2>3 DEF Refetch, StreamsTypeOK, Page
  <2> QED
    BY <2>1, <2>2, <2>3
<1>3. StreamsTypeOK'
  BY <1>t, <1>1, <1>2 DEF StreamsTypeOK
<1>4. CurrentOK'
  BY <1>t, <1>1 DEF StreamsInv, CurrentOK, Members
<1>5. WaitsOK'
  <2> SUFFICES ASSUME NEW q \in Pages, pages'[q].due
               PROVE  running' /\ (pages'[q].conn # None => NoEnd(streams'[pages'[q].conn].wire))
    BY DEF WaitsOK, NoEnd
  <2>1. pages[q].due => running /\ (pages[q].conn # None => NoEnd(streams[pages[q].conn].wire))
    BY DEF StreamsInv, WaitsOK
  <2> QED
    BY <1>t, <1>1, <1>2, <2>1
<1> QED
  BY <1>3, <1>4, <1>5 DEF StreamsInv

(* A page that connects joins the set of the operation that runs, or hears  *)
(* that none does.                                                           *)
LEMMA ConnectStep == ASSUME StreamsInv, NEW p \in Pages, Connect(p) PROVE StreamsInv'
<1>t. /\ StreamsTypeOK /\ CurrentOK /\ WaitsOK /\ pages[p] \in Page /\ UNCHANGED <<running, ops>>
      /\ pages[p].phase = "watch" /\ pages[p].conn = None
  BY DEF StreamsInv, StreamsTypeOK, Connect
<1>1. PICK s \in Streams : /\ streams[s].set = None /\ ~Followed(s) /\ HandleEvents(s)
                           /\ pages' = [pages EXCEPT ![p].conn = s]
  BY DEF Connect
<1>2. /\ streams' \in [Streams -> Stream] /\ current' \in Sets \cup {None}
      /\ \A x \in Streams \ {s} : streams'[x] = streams[x]
      /\ streams'[s].wire = IF running THEN <<"running">> ELSE <<"idle">>
  BY <1>t, <1>1, OpeningFits
<1>3. /\ pages' \in [Pages -> Page]
      /\ pages'[p].phase = "watch" /\ pages'[p].conn = s /\ pages'[p].due = pages[p].due
      /\ \A q \in Pages \ {p} : pages'[q] = pages[q]
  BY <1>t, <1>1 DEF StreamsTypeOK, Page
<1>4. StreamsTypeOK'
  BY <1>t, <1>2, <1>3 DEF StreamsTypeOK
<1>5. CurrentOK'
  <2>1. CASE running
    <3>1. Joined \in Sets /\ Joined # None /\ \A x \in Members(Joined) : ~streams[x].ended
      BY <1>t, <1>1, JoinedFits
    <3>2. current' = Joined
      BY <1>1, <2>1 DEF HandleEvents
    <3>3. streams'[s].set = Joined /\ ~streams'[s].ended
      BY <1>1, <1>t, <2>1 DEF HandleEvents, StreamsTypeOK
    <3> QED
      BY <1>t, <1>2, <2>1, <3>1, <3>2, <3>3 DEF CurrentOK, Members
  <2>2. CASE ~running
    BY <1>t, <1>1, <2>2 DEF HandleEvents, CurrentOK
  <2> QED
    BY <2>1, <2>2
<1>6. WaitsOK'
  <2> SUFFICES ASSUME NEW q \in Pages, pages'[q].due
               PROVE  running' /\ (pages'[q].conn # None => NoEnd(streams'[pages'[q].conn].wire))
    BY DEF WaitsOK, NoEnd
  <2>1. running /\ (pages[q].conn # None => NoEnd(streams[pages[q].conn].wire))
    BY <1>t, <1>3 DEF WaitsOK
  <2>2. NoEnd(<<"running">>)
    BY DEF NoEnd
  <2>3. pages[q].conn \in Streams \cup {None} /\ pages[q].conn # s
    BY <1>t, <1>1 DEF StreamsTypeOK, Page, Followed
  <2> QED
    BY <1>t, <1>2, <1>3, <2>1, <2>2, <2>3
<1> QED
  BY <1>4, <1>5, <1>6 DEF StreamsInv

(* An event that says the operation still runs leaves the page waiting.     *)
LEMMA ReceiveStep == ASSUME StreamsInv, NEW p \in Pages, Receive(p) PROVE StreamsInv'
<1> DEFINE s == pages[p].conn
<1>t. /\ StreamsTypeOK /\ s \in Streams /\ UNCHANGED <<running, ops, current>> /\ pages[p].phase = "watch"
      /\ streams[s] \in Stream /\ streams[s].wire # <<>>
  BY DEF StreamsInv, StreamsTypeOK, Receive, Page
<1>1. CASE Finish(p)
  BY <1>t, <1>1, FinishStep
<1>2. CASE streams' = [streams EXCEPT ![s].wire = Tail(@)] /\ UNCHANGED pages
  <2> HIDE DEF s
  <2>1. Tail(streams[s].wire) \in Seq(Events) /\ (NoEnd(streams[s].wire) => NoEnd(Tail(streams[s].wire)))
    <3> DEFINE wire == streams[s].wire
    <3>1. wire \in Seq(Events) /\ wire # <<>>
      BY <1>t DEF Stream, Events
    <3> HIDE DEF wire
    <3>2. /\ Tail(wire) \in Seq(Events) /\ Len(Tail(wire)) = Len(wire) - 1 /\ Len(wire) \in Nat
          /\ \A i \in 1 .. Len(Tail(wire)) : Tail(wire)[i] = wire[i + 1]
      BY <3>1, HeadTailProperties, LenProperties
    <3>3. NoEnd(wire) => NoEnd(Tail(wire))
      BY <3>2 DEF NoEnd
    <3> QED
      BY <3>2, <3>3 DEF wire
  <2>2. /\ streams' \in [Streams -> Stream]
        /\ \A x \in Streams : /\ streams'[x].set = streams[x].set /\ streams'[x].ended = streams[x].ended
                              /\ NoEnd(streams[x].wire) => NoEnd(streams'[x].wire)
    BY <1>t, <1>2, <2>1 DEF StreamsTypeOK, Stream, Events
  <2>3. StreamsTypeOK'
    BY <1>t, <1>2, <2>2 DEF StreamsTypeOK
  <2>4. CurrentOK'
    BY <1>t, <2>2, SetsKept DEF StreamsInv
  <2>5. WaitsOK'
    BY <1>t, <1>2, <2>2, WaitsKept DEF StreamsInv
  <2> QED
    BY <2>3, <2>4, <2>5 DEF StreamsInv
<1> QED
  BY <1>1, <1>2 DEF Receive

(* The end of an operation finds every wait for it over, and the map empty. *)
LEMMA EndStep == ASSUME StreamsInv, NEW ok \in BOOLEAN, End(ok) PROVE StreamsInv'
<1> DEFINE news == IF ok THEN <<"idle">> ELSE <<"failed", "idle">>
<1>t. StreamsTypeOK /\ running' = FALSE /\ ops' = ops /\ CloseSubscribers(news) /\ Ended
  BY DEF StreamsInv, End
<1>1. news \in Seq(Events)
  <2>1. <<"idle">> \in Seq(Events) /\ <<"failed", "idle">> \in Seq(Events)
    BY DEF Events
  <2> QED
    BY <2>1
<1> HIDE DEF news
<1>2. streams' \in [Streams -> Stream] /\ current' = None
  BY <1>t, <1>1, ClosingTells
<1>3. /\ pages' \in [Pages -> Page]
      /\ \A p \in Pages : /\ ~pages'[p].due /\ pages'[p].conn = pages[p].conn
                          /\ pages'[p].phase = pages[p].phase /\ pages'[p].polling = pages[p].polling
  BY <1>t DEF Ended, StreamsTypeOK, Page
<1>4. StreamsTypeOK'
  BY <1>t, <1>2, <1>3 DEF StreamsTypeOK
<1>5. CurrentOK' /\ WaitsOK'
  BY <1>2, <1>3 DEF CurrentOK, WaitsOK
<1> QED
  BY <1>4, <1>5 DEF StreamsInv

(* A restart forgets the streams, and the operation with its waits.         *)
LEMMA RestartStep == ASSUME StreamsInv, Restart PROVE StreamsInv'
<1>t. StreamsTypeOK
  BY DEF StreamsInv
<1>1. [set |-> None, ended |-> TRUE, wire |-> <<>>] \in Stream
  BY EmptySeq DEF Stream
<1>2. streams' \in [Streams -> Stream] /\ current' = None /\ running' = FALSE /\ ops' = ops
  BY <1>1 DEF Restart
<1>3. /\ pages' \in [Pages -> Page]
      /\ \A p \in Pages : /\ ~pages'[p].due /\ pages'[p].conn = None /\ pages'[p].phase = pages[p].phase
                          /\ pages'[p].polling => pages[p].polling \/ pages[p].conn # None
  <2> DEFINE left(p) == [pages[p] EXCEPT !.due = FALSE, !.conn = None,
                                         !.polling = @ \/ pages[p].conn # None]
  <2>1. ASSUME NEW p \in Pages
        PROVE  /\ left(p) \in Page /\ ~left(p).due /\ left(p).conn = None /\ left(p).phase = pages[p].phase
               /\ left(p).polling => pages[p].polling \/ pages[p].conn # None
    <3>1. pages[p] \in Page
      BY <1>t DEF StreamsTypeOK
    <3>2. (pages[p].polling \/ pages[p].conn # None) \in BOOLEAN
      OBVIOUS
    <3> QED
      BY <3>1, <3>2 DEF Page
  <2>2. pages' = [p \in Pages |-> left(p)]
    BY DEF Restart
  <2> HIDE DEF left
  <2> QED
    BY <2>1, <2>2
<1>4. StreamsTypeOK'
  BY <1>t, <1>2, <1>3 DEF StreamsTypeOK
<1>5. CurrentOK' /\ WaitsOK'
  BY <1>2, <1>3 DEF CurrentOK, WaitsOK
<1> QED
  BY <1>4, <1>5 DEF StreamsInv

(* A stream that leaves its set takes no member of the set of the map with  *)
(* it, or the map forgets the set.                                          *)
LEMMA ClosedStep == ASSUME StreamsInv, NEW s \in Streams, Closed(s) PROVE StreamsInv'
<1>t. StreamsTypeOK /\ CurrentOK /\ WaitsOK /\ UNCHANGED <<running, ops, pages>> /\ streams[s] \in Stream
      /\ streams[s].set # None
  BY DEF StreamsInv, StreamsTypeOK, Closed
<1>1. /\ streams' \in [Streams -> Stream]
      /\ streams'[s].set = None /\ streams'[s].wire = streams[s].wire
      /\ \A x \in Streams \ {s} : streams'[x] = streams[x]
  BY <1>t DEF Closed, StreamsTypeOK, Stream
<1>2. StreamsTypeOK'
  BY <1>t, <1>1 DEF Closed, StreamsTypeOK
<1>3. CurrentOK'
  <2> DEFINE Left == {x \in Streams : streams'[x].set = current'}
  <2>s. SUFFICES ASSUME current' # None
                 PROVE  running' /\ Left # {} /\ \A x \in Left : ~streams'[x].ended
    BY DEF CurrentOK, Members
  <2>1. current' = current /\ Members(streams[s].set) # {s}
    BY <2>s DEF Closed
  <2>2. running /\ Members(current) # {} /\ \A x \in Members(current) : ~streams[x].ended
    BY <1>t, <2>s, <2>1 DEF CurrentOK
  <2>3. PICK x \in Members(current) : x # s
    BY <1>t, <2>1, <2>2 DEF Members
  <2>4. x \in Left
    BY <1>1, <2>1, <2>3 DEF Members
  <2>5. ASSUME NEW y \in Left PROVE ~streams'[y].ended
    <3>1. y # s
      BY <1>1, <2>s
    <3> QED
      BY <1>1, <2>1, <2>2, <3>1 DEF Members
  <2> QED
    BY <1>t, <2>2, <2>4, <2>5
<1>4. WaitsOK'
  BY <1>t, <1>1, WaitsKept
<1> QED
  BY <1>2, <1>3, <1>4 DEF StreamsInv

-----------------------------------------------------------------------------
(* A session that was just opened has no stream yet.                        *)
LEMMA StreamsBegin == StreamsInit => StreamsInv
<1> SUFFICES ASSUME StreamsInit PROVE StreamsInv
  OBVIOUS
<1>1. [set |-> None, ended |-> TRUE, wire |-> <<>>] \in Stream
  BY EmptySeq DEF Stream
<1>2. [phase |-> "watch", shown |-> TRUE, conn |-> None, polling |-> FALSE, due |-> TRUE] \in Page
  BY DEF Page
<1>3. streams \in [Streams -> Stream] /\ pages \in [Pages -> Page] /\ ops \in 0 .. MaxOps
  BY <1>1, <1>2, StreamsAssumption DEF StreamsInit
<1>4. StreamsTypeOK
  BY <1>3 DEF StreamsInit, StreamsTypeOK
<1>5. CurrentOK /\ WaitsOK
  BY DEF StreamsInit, CurrentOK, WaitsOK
<1> QED
  BY <1>4, <1>5 DEF StreamsInv

(* No step leaves a waiting page without a stream that will tell it.        *)
LEMMA StreamsKept == StreamsInv /\ [StreamsNext]_streamsVars => StreamsInv'
<1> SUFFICES ASSUME StreamsInv, [StreamsNext]_streamsVars PROVE StreamsInv'
  OBVIOUS
<1>1. ASSUME NEW p \in Pages, Poll(p) \/ PollFails(p) \/ Cap(p) PROVE StreamsInv'
  BY <1>1, FinishStep DEF Poll, PollFails, Cap
<1>2. CASE UNCHANGED streamsVars
  BY <1>2 DEF streamsVars, StreamsInv, StreamsTypeOK, CurrentOK, WaitsOK, Members
<1> QED
  BY <1>1, <1>2, EndStep, ClosedStep, RestartStep, MountStep, AskStep, ConnectStep, ReceiveStep,
     LostStep DEF StreamsNext

(* Over every interleaving of operations, restarts, lost connections and    *)
(* requests that close late, the map never holds a set without an operation *)
(* or with a stream that has ended, and no wait is left behind.             *)
THEOREM StreamsInvariance == StreamsSpec => []StreamsInv
<1> QED
  BY StreamsBegin, StreamsKept, PTL DEF StreamsSpec

(* broadcast and closeSubscribers meet open streams of the operation that   *)
(* runs, and nobody else.                                                    *)
THEOREM SubscribersServed == StreamsSpec => []SubscribersAreServed
<1>1. StreamsInv => SubscribersAreServed
  BY DEF StreamsInv, CurrentOK, SubscribersAreServed
<1> QED
  BY <1>1, StreamsInvariance, PTL

(* An event or a poll that ends a wait says so after the operation has      *)
(* ended that the page waits for.                                            *)
THEOREM WordIsNotEarly == StreamsSpec => NoEarlyWord
<1> DEFINE Told == \A p \in Pages :
                     (Receive(p) \/ Poll(p)) /\ pages'[p].phase = "refetch" => ~pages[p].due
<1>1. StreamsInv => Told
  <2> SUFFICES ASSUME StreamsInv, NEW p \in Pages, pages'[p].phase = "refetch", pages[p].due,
                      Receive(p) \/ Poll(p)
               PROVE  FALSE
    OBVIOUS
  <2> DEFINE wire == streams[pages[p].conn].wire
  <2>1. running /\ (pages[p].conn # None => NoEnd(wire))
    BY DEF StreamsInv, WaitsOK
  <2>2. Receive(p) /\ pages[p].conn \in Streams /\ wire # <<>> /\ pages[p].phase = "watch"
    BY <2>1 DEF Poll, Receive, StreamsInv, StreamsTypeOK, Page
  <2>3. wire \in Seq(Events)
    BY <2>2 DEF StreamsInv, StreamsTypeOK, Stream, Events
  <2>4. pages' = pages \/ Head(wire) # "running"
    BY <2>2 DEF Receive
  <2> HIDE DEF wire
  <2>5. Len(wire) \in Nat \ {0} /\ Head(wire) = wire[1]
    BY <2>2, <2>3, EmptySeq
  <2>6. Head(wire) = "running"
    BY <2>1, <2>2, <2>5, StreamsAssumption DEF NoEnd
  <2> QED
    BY <2>2, <2>4, <2>6
<1>2. StreamsInv /\ [StreamsNext]_streamsVars => [Told]_streamsVars
  BY <1>1
<1> QED
  BY <1>2, StreamsInvariance, PTL DEF StreamsSpec, NoEarlyWord

=============================================================================
