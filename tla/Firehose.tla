------------------------------ MODULE Firehose ------------------------------
(***************************************************************************)
(* The tick firehose of workers/nalanda_firehose.py: a Redis stream read   *)
(* in batches through a consumer group, the ghost-spike filter that may    *)
(* hold a tick back until its cell's next price (nalanda_cleanser.py), the *)
(* insert of the decided ticks, and the acknowledgement of the entries     *)
(* that have none held.  A lease makes one process the consumer; nothing   *)
(* ends a step whose lease has run out.                                    *)
(*                                                                         *)
(* An entry is a frame of ticks, at most one in a cell.  When prices revert *)
(* and holds run out is open, and so is how long a pending entry has been  *)
(* idle, so any of them may be claimed.                                    *)
(***************************************************************************)
EXTENDS Naturals, FiniteSets

CONSTANTS
  Entries,      \* entries of the stream, 1..Entries in its order
  Cells,        \* fixture, market, selection, source and bookmaker
  Frames,       \* per entry: the cells it has a tick in
  Consumers,    \* processes that may consume
  BadSteps      \* bound on the crashes, the calls that fail, and the
                \* leases that run out during a step

ASSUME FirehoseAssumption ==
  Entries \in Nat /\ BadSteps \in Nat /\ Frames \in [1..Entries -> SUBSET Cells]

VARIABLES
  delivered,    \* the entries read so far, 1..delivered
  acked,        \* the entries acknowledged
  leading,      \* who has the lease, or "nobody"
  step,         \* per consumer: where it is in its step
  consumed,     \* per consumer: the entries of its batch
  decided,      \* per consumer: the ticks it is about to store
  held,         \* per consumer: the ticks in its filter
  heldEntries,  \* per consumer: _held, as of its last acknowledgement
  lake,         \* the ticks stored
  unstored,     \* history: ticks whose insert failed, or was cancelled, while
                \* their entry had a tick held
  badSteps

fhVars == <<delivered, acked, leading, step, consumed, decided, held,
            heldEntries, lake, unstored, badSteps>>

Stream == 1..Entries
Ticks == Stream \X Cells
TicksOf(es) == {t \in es \X Cells : t[2] \in Frames[t[1]]}
EntriesOf(ts) == {t[1] : t \in ts}

FirehoseInit ==
  /\ delivered = 0
  /\ acked = {}
  /\ leading = "nobody"
  /\ step = [c \in Consumers |-> "idle"]
  /\ consumed = [c \in Consumers |-> {}]
  /\ decided = [c \in Consumers |-> {}]
  /\ held = [c \in Consumers |-> {}]
  /\ heldEntries = [c \in Consumers |-> {}]
  /\ lake = {}
  /\ unstored = {}
  /\ badSteps = 0

GoesWrong == badSteps < BadSteps /\ badSteps' = badSteps + 1

-----------------------------------------------------------------------------
(* lead(): SET NX with a time to live, renewed at the start of every step.  *)
(* Nothing looks at it again before the step ends.                          *)

Leads(c) == leading \in {"nobody", c} /\ leading' = c

LeaseRunsOut ==
  /\ leading # "nobody"
  /\ leading' = "nobody"
  /\ IF step[leading] = "idle" THEN UNCHANGED badSteps ELSE GoesWrong
  /\ UNCHANGED <<delivered, acked, step, consumed, decided, held, heldEntries,
                 lake, unstored>>

-----------------------------------------------------------------------------
(* One step: read, cleanse; store; acknowledge. *)

Pending == (1..delivered) \ acked

\* What the filter makes of the batch: a tick may be decided by itself (the
\* quote is suspended), with those held in its cell (back to normal), or stay
\* with them; and a cell's held ticks may be released, the hold run out.
Decisions(inFilter, batch) ==
  {ts \in SUBSET (inFilter \cup batch) :
     \A x \in Cells :
       LET inCell(S) == {t \in S : t[2] = x} IN
         \/ inCell(ts) \subseteq inCell(batch)
         \/ inCell(inFilter) \subseteq ts}

\* Claims pending entries that are not held here, and takes new ones.
Read(c) ==
  /\ step[c] = "idle"
  /\ Leads(c)
  /\ \E claimed \in SUBSET (Pending \ heldEntries[c]), upTo \in delivered..Entries :
       LET batch == claimed \cup (delivered + 1)..upTo IN
       /\ delivered' = upTo
       /\ consumed' = [consumed EXCEPT ![c] = batch]
       /\ \E ts \in Decisions(held[c], TicksOf(batch)) :
            /\ decided' = [decided EXCEPT ![c] = ts]
            /\ held' = [held EXCEPT ![c] = (@ \cup TicksOf(batch)) \ ts]
  /\ step' = [step EXCEPT ![c] = "storing"]
  /\ UNCHANGED <<acked, heldEntries, lake, unstored, badSteps>>

\* The decided ticks and the archive records, in one transaction.
Store(c) ==
  /\ step[c] = "storing"
  /\ lake' = lake \cup decided[c]
  /\ decided' = [decided EXCEPT ![c] = {}]
  /\ step' = [step EXCEPT ![c] = "acknowledging"]
  /\ UNCHANGED <<delivered, acked, leading, consumed, held, heldEntries,
                 unstored, badSteps>>

\* Mutant: an entry is acknowledged when it was read.
HeldByNobody(c) == {}

StillHeld(c) == EntriesOf(held[c])

OfHeldEntry(c, entries) == {t \in decided[c] : t[1] \in entries}

\* It fails: the batch is forgotten, and so are its ticks, which the filter no
\* longer has.  An entry none of whose ticks is or was held is read again.
StoreFails(c) ==
  /\ step[c] = "storing"
  /\ GoesWrong
  /\ unstored' = unstored \cup OfHeldEntry(c, heldEntries[c] \cup StillHeld(c))
  /\ decided' = [decided EXCEPT ![c] = {}]
  /\ consumed' = [consumed EXCEPT ![c] = {}]
  /\ step' = [step EXCEPT ![c] = "idle"]
  /\ UNCHANGED <<delivered, acked, leading, held, heldEntries, lake>>

\* Of the batch and of the entries held before, those with no tick held now.
Done(c) == (consumed[c] \cup heldEntries[c]) \ StillHeld(c)

\* XACK may fail; what is held has been noted by then.
Acknowledge(c) ==
  /\ step[c] = "acknowledging"
  /\ \/ acked' = acked \cup Done(c) /\ UNCHANGED badSteps
     \/ GoesWrong /\ UNCHANGED acked
  /\ heldEntries' = [heldEntries EXCEPT ![c] = StillHeld(c)]
  /\ consumed' = [consumed EXCEPT ![c] = {}]
  /\ step' = [step EXCEPT ![c] = "idle"]
  /\ UNCHANGED <<delivered, leading, decided, held, lake, unstored>>

-----------------------------------------------------------------------------
(* Ends of a process; another takes its place. *)

Restarted(c) ==
  /\ step' = [step EXCEPT ![c] = "idle"]
  /\ consumed' = [consumed EXCEPT ![c] = {}]
  /\ decided' = [decided EXCEPT ![c] = {}]
  /\ held' = [held EXCEPT ![c] = {}]
  /\ heldEntries' = [heldEntries EXCEPT ![c] = {}]

Crash(c) ==
  /\ GoesWrong
  /\ Restarted(c)
  /\ UNCHANGED <<delivered, acked, leading, lake, unstored>>

\* A shutdown cancels the step, wherever it is, and stores what the filter
\* holds as ordinary prices; entries held before count as decided then.
Drain(c) ==
  /\ GoesWrong
  /\ lake' = lake \cup held[c]
  /\ acked' = acked \cup heldEntries[c]
  /\ unstored' = unstored \cup OfHeldEntry(c, heldEntries[c])
  /\ Restarted(c)
  /\ UNCHANGED <<delivered, leading>>

FirehoseNext ==
  \/ \E c \in Consumers :
       \/ Read(c) \/ Store(c) \/ StoreFails(c) \/ Acknowledge(c)
       \/ Crash(c) \/ Drain(c)
  \/ LeaseRunsOut

FirehoseSpec == FirehoseInit /\ [][FirehoseNext]_fhVars

-----------------------------------------------------------------------------
\* Every variable stays in its domain.
FirehoseTypeOK ==
  /\ delivered \in 0..Entries
  /\ acked \subseteq Stream
  /\ leading \in Consumers \cup {"nobody"}
  /\ step \in [Consumers -> {"idle", "storing", "acknowledging"}]
  /\ consumed \in [Consumers -> SUBSET Stream]
  /\ decided \in [Consumers -> SUBSET Ticks]
  /\ held \in [Consumers -> SUBSET Ticks]
  /\ heldEntries \in [Consumers -> SUBSET Stream]
  /\ lake \subseteq Ticks
  /\ unstored \subseteq Ticks
  /\ badSteps \in 0..BadSteps

\* An entry is acknowledged only when each of its ticks is in the lake, through
\* crashes, shutdowns, failed acknowledgements, claims, and two processes that
\* consume at once because a lease ran out.  The exception is one tick at a time,
\* and contradicts "at least once, never lost" (nalanda_firehose.py:19-20): a
\* tick whose insert failed, or was cancelled, while a tick of its entry was held
\* before the step or is held after it, may never be stored.
AckedTicksAreStored ==
  \A e \in acked : TicksOf({e}) \subseteq lake \cup unstored
=============================================================================
