------------------------------ MODULE EventBus ------------------------------
(***************************************************************************)
(* One stream and one consumer group of src/src/betdoc/application/         *)
(* event_bus.py.  A consumer quarantines what was delivered too often,      *)
(* claims what others left pending, reads what is new only when there was   *)
(* nothing to claim, and acknowledges an entry when its caller comes back   *)
(* for the next one.                                                        *)
(*                                                                         *)
(* Entries are handed over in the order of their ids.  Which of the pending *)
(* ones have been idle for claim_min_idle_ms, a setting from 1 s up, is     *)
(* open, so any of them may be claimed, from a process that is still at     *)
(* work on it as well.  The stream's and the dead letters' MAXLEN are not   *)
(* reached.                                                                 *)
(***************************************************************************)
EXTENDS Naturals, FiniteSets, FiniteSetsExt

CONSTANTS
  BusReaders,     \* the group's consumers, one in a process
  BusEvents,      \* bound on the entries published
  Garbled,        \* the entries that a consumer's envelope model may refuse
  MaxDeliveries   \* max_delivery_attempts

BusEntries == 1..BusEvents

ASSUME BusAssumption ==
  /\ {BusEvents, MaxDeliveries} \subseteq Nat \ {0}
  /\ Garbled \subseteq BusEntries

VARIABLES
  lastRead,     \* the group has been given 1..lastRead
  pending,      \* delivered and not acknowledged
  deliveries,   \* per entry: times_delivered
  letters,      \* the entries whose payload is in the dead letter stream
  reading,      \* per reader: where its consume() is
  readBatch     \* per reader: the entries it has still to hand over, or to
                \* quarantine

busVars == <<lastRead, pending, deliveries, letters, reading, readBatch>>

\* A first entry may have killed every earlier process that was given it.
BusInit ==
  /\ lastRead \in 0..1
  /\ pending = 1..lastRead
  /\ deliveries = [e \in BusEntries |-> IF e <= lastRead THEN MaxDeliveries + 1 ELSE 0]
  /\ letters = {}
  /\ reading = [r \in BusReaders |-> "quarantine"]
  /\ readBatch = [r \in BusReaders |-> {}]

MovesTo(r, place) == reading' = [reading EXCEPT ![r] = place]

-----------------------------------------------------------------------------
(* The top of the loop: XPENDING, XAUTOCLAIM, XREADGROUP. *)

FindPoison(r) ==
  /\ reading[r] = "quarantine"
  /\ LET over == {e \in pending : deliveries[e] > MaxDeliveries}
     IN  /\ readBatch' = [readBatch EXCEPT ![r] = over]
         /\ MovesTo(r, IF over = {} THEN "reclaim" ELSE "poison")
  /\ UNCHANGED <<lastRead, pending, deliveries, letters>>

\* times_delivered is counted up to the first number over the limit.
Deliver(r, entries) ==
  /\ deliveries' = [e \in BusEntries |->
       IF e \in entries /\ deliveries[e] <= MaxDeliveries
       THEN deliveries[e] + 1 ELSE deliveries[e]]
  /\ readBatch' = [readBatch EXCEPT ![r] = entries]

Reclaim(r) ==
  /\ reading[r] = "reclaim"
  /\ \E entries \in SUBSET pending :
       /\ Deliver(r, entries)
       /\ MovesTo(r, IF entries = {} THEN "read" ELSE "deliver")
  /\ UNCHANGED <<lastRead, pending, letters>>

\* Whatever has been published and fits into a batch.
ReadNew(r) ==
  /\ reading[r] = "read"
  /\ \E last \in lastRead..BusEvents :
       LET new == (lastRead + 1)..last
       IN  /\ Deliver(r, new)
           /\ pending' = pending \cup new
           /\ lastRead' = last
           /\ MovesTo(r, IF new = {} THEN "quarantine" ELSE "deliver")
  /\ UNCHANGED letters

-----------------------------------------------------------------------------
(* The batch, entry by entry; and dead letters: XADD, then XACK. *)

First(r) == Min(readBatch[r])

\* The quarantine claims the entry from whoever has it; if it has been
\* acknowledged since, the claim is empty and so is the letter.
PostPoison(r) ==
  /\ reading[r] = "poison"
  /\ letters' = letters \cup ({First(r)} \cap pending)
  /\ MovesTo(r, "poisoned")
  /\ UNCHANGED <<lastRead, pending, deliveries, readBatch>>

PostGarbled(r) ==
  /\ reading[r] = "deliver" /\ First(r) \in Garbled
  /\ letters' = letters \cup {First(r)}
  /\ MovesTo(r, "acknowledge")
  /\ UNCHANGED <<lastRead, pending, deliveries, readBatch>>

\* XACK of a dead letter, or of an entry whose caller has come back.
AckEntry(r) ==
  /\ reading[r] \in {"poisoned", "acknowledge"}
  /\ pending' = pending \ {First(r)}
  /\ readBatch' = [readBatch EXCEPT ![r] = @ \ {Min(@)}]
  /\ MovesTo(r, CASE readBatch'[r] # {} /\ reading[r] = "poisoned"    -> "poison"
               [] readBatch'[r] = {} /\ reading[r] = "poisoned"    -> "reclaim"
               [] readBatch'[r] # {} /\ reading[r] = "acknowledge" -> "deliver"
               [] readBatch'[r] = {} /\ reading[r] = "acknowledge" -> "quarantine")
  /\ UNCHANGED <<lastRead, deliveries, letters>>

BusPlaces == {"quarantine", "poison", "poisoned", "reclaim", "read", "deliver",
              "acknowledge", "closed"}

\* Every variable stays in its domain.
BusTypeOK ==
  /\ lastRead \in 0..BusEvents
  /\ pending \subseteq 1..lastRead
  /\ deliveries \in [BusEntries -> 0..(MaxDeliveries + 1)]
  /\ letters \subseteq 1..lastRead
  /\ reading \in [BusReaders -> BusPlaces]
  /\ readBatch \in [BusReaders -> SUBSET (1..lastRead)]
=============================================================================
