----------------------------- MODULE LlmGateway -----------------------------
(***************************************************************************)
(* The concurrency limit and the attempts of src/gateway/gateway.ts.       *)
(*                                                                         *)
(* complete() takes a slot (acquire), runs the backend up to Attempts      *)
(* times, and gives the slot back (release), which wakes the oldest        *)
(* waiter.  The woken waiter runs in a later microtask and tests the limit *)
(* again: another call may have taken the slot meanwhile, and then it      *)
(* queues at the end.  A step is what runs between two awaits.  The usage   *)
(* log, which no decision reads, is left out.                              *)
(***************************************************************************)
EXTENDS Integers, Sequences, FiniteSets

CONSTANTS
  Callers,    \* operations that share the gateway
  Max,        \* maxConcurrency
  Attempts,   \* maxParseRetries + 1
  MaxCalls    \* bound of an instance: calls a caller makes

ASSUME GatewayAssumption ==
  /\ IsFiniteSet(Callers)
  /\ Max \in Nat \ {0} /\ Attempts \in Nat \ {0} /\ MaxCalls \in Nat

VARIABLES
  pc,       \* of each caller: "idle", "waiting", "woken" or "running"
  active,   \* the counter the limit is tested against
  waiters,  \* callers whose promise waits to be resolved, oldest first
  attempt,  \* backend runs of the caller's latest call
  calls     \* calls the caller has made

vars == <<pc, active, waiters, attempt, calls>>

Running == {c \in Callers : pc[c] = "running"}
Woken   == {c \in Callers : pc[c] = "woken"}

(* acquire: take the slot and start the first run, or queue *)
Acquire(c) ==
  \/ /\ active < Max
     /\ active' = active + 1
     /\ pc' = [pc EXCEPT ![c] = "running"]
     /\ attempt' = [attempt EXCEPT ![c] = 1]
     /\ UNCHANGED waiters
  \/ /\ active >= Max
     /\ waiters' = Append(waiters, c)
     /\ pc' = [pc EXCEPT ![c] = "waiting"]
     /\ UNCHANGED <<active, attempt>>

Complete(c) ==
  /\ pc[c] = "idle" /\ calls[c] < MaxCalls
  /\ calls' = [calls EXCEPT ![c] = @ + 1]
  /\ Acquire(c)

(* mutant: the woken waiter takes the slot without testing the limit again *)
Mut_Resume(c) ==
  /\ pc[c] = "woken"
  /\ active' = active + 1
  /\ pc' = [pc EXCEPT ![c] = "running"]
  /\ attempt' = [attempt EXCEPT ![c] = 1]
  /\ UNCHANGED <<waiters, calls>>

Resume(c) == pc[c] = "woken" /\ Acquire(c) /\ UNCHANGED calls

(* mutant: the slot is given back and nobody is told *)
Mut_Release(c) ==
  /\ active' = active - 1
  /\ pc' = [pc EXCEPT ![c] = "idle"]
  /\ UNCHANGED waiters

Release(c) ==
  /\ active' = active - 1
  /\ IF waiters = <<>>
     THEN pc' = [pc EXCEPT ![c] = "idle"] /\ UNCHANGED waiters
     ELSE /\ pc' = [pc EXCEPT ![c] = "idle", ![Head(waiters)] = "woken"]
          /\ waiters' = Tail(waiters)

(* an answer that parses, or an error of the backend: never retried *)
Settle(c) ==
  /\ pc[c] = "running"
  /\ Release(c)
  /\ UNCHANGED <<attempt, calls>>

(* an answer that does not parse: the next attempt keeps the slot *)
Invalid(c) ==
  /\ pc[c] = "running"
  /\ IF attempt[c] < Attempts
     THEN attempt' = [attempt EXCEPT ![c] = @ + 1] /\ UNCHANGED <<pc, active, waiters>>
     ELSE Release(c) /\ UNCHANGED attempt
  /\ UNCHANGED calls

Init ==
  /\ pc = [c \in Callers |-> "idle"]
  /\ active = 0 /\ waiters = <<>>
  /\ attempt = [c \in Callers |-> 0]
  /\ calls = [c \in Callers |-> 0]

Ends(c) == Settle(c) \/ Invalid(c)
Next == \E c \in Callers : Complete(c) \/ Resume(c) \/ Ends(c)

Spec == Init /\ [][Next]_vars

(* Promise callbacks run, and a backend run ends: the timer of              *)
(* runWithTimeout sees to that.                                             *)
FairSpec == Spec /\ \A c \in Callers : WF_vars(Resume(c)) /\ WF_vars(Ends(c))

-----------------------------------------------------------------------------
(* Properties *)

TypeOK ==
  /\ pc \in [Callers -> {"idle", "waiting", "woken", "running"}]
  /\ active \in Nat
  /\ waiters \in Seq(Callers)
  /\ attempt \in [Callers -> 0..Attempts]
  /\ calls \in [Callers -> Nat]

(* No more than maxConcurrency calls are past acquire, although a slot may  *)
(* be taken between a waiter's waking and its resuming; and the counter     *)
(* neither leaks nor is given back twice on any path out of complete().     *)
WithinLimit == active = Cardinality(Running) /\ Cardinality(Running) <= Max

(* A waiter sleeps only while every slot is taken or promised to one that   *)
(* was woken: no wake-up is lost when the woken one queues again.           *)
NoLostWakeup == waiters # <<>> => active + Cardinality(Woken) >= Max

(* The gateway is the bounded service: waiting, or woken and not resumed    *)
(* yet, is being queued.                                                    *)
Phase == [c \in Callers |-> CASE pc[c] = "idle" -> "idle"
                              [] pc[c] = "running" -> "served"
                              [] OTHER -> "queued"]
Service == INSTANCE BoundedService WITH phase <- Phase
ServiceSpec == Service!FairSpec
=============================================================================
