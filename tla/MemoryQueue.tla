---------------------------- MODULE MemoryQueue ----------------------------
(***************************************************************************)
(* MemoryQueueService: one topic's messages, ready or leased.              *)
(*                                                                         *)
(* A leased message comes back to the queue when it is nacked, or when its *)
(* visibility timeout passed before it was settled and a later lease       *)
(* sweeps it up.  The queue delivers a message at least once: nothing      *)
(* counts the attempts.  A message is its id; ids are numbered in the      *)
(* order of created_at, and every message the backend sends has the same   *)
(* priority, so the least ready id is the head of the priority queue.      *)
(***************************************************************************)
EXTENDS Integers, Sequences, SequencesExt, FiniteSetsExt

CONSTANT Requests   \* the ids, in the order their messages are created

ASSUME RequestsAssumption == Requests \subseteq Nat

VARIABLES
  ready,     \* the ids in the topic's PriorityQueue
  leased,    \* the ids that are leased, in the order they were
  expired    \* the leased ids whose visibility timeout has passed

queueVars == <<ready, leased, expired>>

QueueTypeOK ==
  /\ ready \subseteq Requests
  /\ leased \in Seq(Requests)
  /\ expired \subseteq Range(leased)

QueueInit == ready = {} /\ leased = << >> /\ expired = {}

Leased      == Range(leased)
Unsettled   == ready \cup Leased
Without(S)  == FlattenSeq([i \in DOMAIN leased |->
                             IF leased[i] \in S THEN << >> ELSE <<leased[i]>>])
Head1       == Min(ready)

Enqueue(m) ==
  /\ ready' = ready \cup {m}
  /\ UNCHANGED <<leased, expired>>

\* The first thing a lease does: what expired goes back to the queue.
Sweep ==
  /\ ready' = ready \cup expired
  /\ leased' = Without(expired)
  /\ expired' = {}

\* Mutant: the message is gone once it is delivered.
TakeForGood ==
  /\ ready # {}
  /\ ready' = ready \ {Head1}
  /\ UNCHANGED <<leased, expired>>

\* One round of the lease's loop, when the queue has a message.
Take ==
  /\ ready # {}
  /\ ready' = ready \ {Head1}
  /\ leased' = Append(leased, Head1)
  /\ UNCHANGED expired

\* Mutant: what is acked stays leased.
SettleNacked(acked, nacked) ==
  /\ ready' = ready \cup (nacked \cap Leased)
  /\ leased' = Without(nacked)
  /\ expired' = expired \ nacked

\* ack(acked), then nack(nacked): an id that is no longer leased is ignored.
Settle(acked, nacked) ==
  /\ ready' = ready \cup (nacked \cap (Leased \ acked))
  /\ leased' = Without(acked \cup nacked)
  /\ expired' = expired \ (acked \cup nacked)

\* Time passes.  Every lease lasts as long, so they expire in lease order.
Expire(m) ==
  /\ m \in Leased \ expired
  /\ Head(Without(expired)) = m
  /\ expired' = expired \cup {m}
  /\ UNCHANGED <<ready, leased>>
=============================================================================
