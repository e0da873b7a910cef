---------------------------- MODULE MirrorSweep -----------------------------
(***************************************************************************)
(* The ledger mirror of services/nalanda_mirror.py: every minute a sweep   *)
(* reads the rows of a source table that were committed since its last     *)
(* pass, a page at a time, and appends them to the hash chain of           *)
(* services/nalanda_chain.py, whose head lock it keeps from its first page *)
(* to its commit.  The housekeeper, the Celery beat and the API sweep at   *)
(* the same time.                                                          *)
(*                                                                         *)
(* A row is stamped when its transaction writes it and is visible when     *)
(* that commits; the watermark follows the stamps, so the sweep re-reads   *)
(* an overlap behind it.  What the overlap has to cover is the longest     *)
(* transaction and the longest sweep together (OverlapAssumption).         *)
(***************************************************************************)
EXTENDS Integers, FiniteSets

CONSTANTS
  Rows,         \* the ids of the source rows, numbers in their order
  Sweepers,     \* sweeps that may run at once
  LastTime,     \* bound on the clock
  CommitLag,    \* how long a transaction may take after it wrote a row
  SweepSpan,    \* how long a sweep may take
  Overlap,      \* NALANDA_MIRROR_OVERLAP_SECONDS
  Page,         \* NALANDA_MIRROR_BATCH
  MaxPages      \* max_pages

ASSUME MirrorAssumption ==
  /\ Rows \subseteq Nat \ {0} /\ IsFiniteSet(Rows)
  /\ {LastTime, CommitLag, SweepSpan, Overlap} \subseteq Nat
  /\ {Page, MaxPages} \subseteq Nat \ {0}

ASSUME OverlapAssumption == CommitLag + SweepSpan <= Overlap

VARIABLES
  clock,        \* from 1
  stamp,        \* per row: when it was written, 0 before
  txn,          \* per row: "none", "open" or "committed"
  watermark,    \* the cursor, 0 for none
  archive,      \* the rows in the chain
  headLock,     \* the sweep that has the head's row, or "free"
  sweep         \* per sweeper: its session

mirVars == <<clock, stamp, txn, watermark, archive, headLock, sweep>>

\* No sweep: phase is where it is, since what it reads from, after the last row
\* of the pages it read (0 for none), seen the watermark as its session has it,
\* moved whether it changed that, mine what it has appended, batch the page in
\* hand.
Asleep == [phase |-> "asleep", began |-> 0, since |-> 0, after |-> 0, seen |-> 0,
           moved |-> FALSE, pages |-> 0, batch |-> {}, mine |-> {}]

MirrorInit ==
  /\ clock = 1
  /\ stamp = [r \in Rows |-> 0]
  /\ txn = [r \in Rows |-> "none"]
  /\ watermark = 0
  /\ archive = {}
  /\ headLock = "free"
  /\ sweep = [s \in Sweepers |-> Asleep]

-----------------------------------------------------------------------------
(* The ledger's transactions, and time. *)

Committed == {r \in Rows : txn[r] = "committed"}

WriteRow(r) ==
  /\ txn[r] = "none"
  /\ txn' = [txn EXCEPT ![r] = "open"]
  /\ stamp' = [stamp EXCEPT ![r] = clock]
  /\ UNCHANGED <<clock, watermark, archive, headLock, sweep>>

\* It commits, or rolls back and is as if never written.
EndRow(r) ==
  /\ txn[r] = "open"
  /\ \/ txn' = [txn EXCEPT ![r] = "committed"] /\ UNCHANGED stamp
     \/ txn' = [txn EXCEPT ![r] = "none"] /\ stamp' = [stamp EXCEPT ![r] = 0]
  /\ UNCHANGED <<clock, watermark, archive, headLock, sweep>>

\* Transactions and sweeps end within their spans.
TimePasses ==
  /\ clock < LastTime
  /\ \A r \in Rows : txn[r] = "open" => clock < stamp[r] + CommitLag
  /\ \A s \in Sweepers : sweep[s].phase # "asleep" => clock < sweep[s].began + SweepSpan
  /\ clock' = clock + 1
  /\ UNCHANGED <<stamp, txn, watermark, archive, headLock, sweep>>

-----------------------------------------------------------------------------
(* sweep_source *)

\* Mutant: the sweep starts at its watermark.
SinceWatermark(mark) == mark

Since(mark) == IF mark = 0 THEN 0 ELSE mark - Overlap

BeginSweep(s) ==
  /\ sweep[s].phase = "asleep"
  /\ sweep' = [sweep EXCEPT ![s] =
       [phase |-> "reading", began |-> clock, since |-> Since(watermark), after |-> 0,
        seen |-> watermark, moved |-> FALSE, pages |-> 0, batch |-> {}, mine |-> {}]]
  /\ UNCHANGED <<clock, stamp, txn, watermark, archive, headLock>>

\* Keyset order: by stamp, then id.
Before(q, r) == stamp[q] < stamp[r] \/ (stamp[q] = stamp[r] /\ q < r)

Unread(s) == {r \in Committed : IF sweep[s].after = 0
                                THEN stamp[r] >= sweep[s].since
                                ELSE Before(sweep[s].after, r)}

PageOf(rows) == {r \in rows : Cardinality({q \in rows : Before(q, r)}) < Page}

ReadPage(s) ==
  /\ sweep[s].phase = "reading"
  /\ sweep' = [sweep EXCEPT ![s] =
       [phase |-> IF Unread(s) = {} THEN "committing" ELSE "appending",
        began |-> sweep[s].began, since |-> sweep[s].since, after |-> sweep[s].after,
        seen |-> sweep[s].seen, moved |-> sweep[s].moved, pages |-> sweep[s].pages,
        batch |-> PageOf(Unread(s)), mine |-> sweep[s].mine]]
  /\ UNCHANGED <<clock, stamp, txn, watermark, archive, headLock>>

LastOf(rows) == CHOOSE r \in rows : \A q \in rows \ {r} : Before(q, r)

\* append_records under the head lock; the rows in the index are skipped.
AppendPage(s) ==
  /\ sweep[s].phase = "appending"
  /\ headLock \in {"free", s}
  /\ headLock' = s
  /\ LET last == LastOf(sweep[s].batch)
         further == sweep[s].seen = 0 \/ stamp[last] > sweep[s].seen
         full == Cardinality(sweep[s].batch) = Page /\ sweep[s].pages + 1 < MaxPages IN
     sweep' = [sweep EXCEPT ![s] =
       [phase |-> IF full THEN "reading" ELSE "committing",
        began |-> sweep[s].began, since |-> sweep[s].since, after |-> last,
        seen  |-> IF further THEN stamp[last] ELSE sweep[s].seen,
        moved |-> sweep[s].moved \/ further, pages |-> sweep[s].pages + 1,
        batch |-> {}, mine |-> sweep[s].mine \cup (sweep[s].batch \ archive)]]
  /\ UNCHANGED <<clock, stamp, txn, watermark, archive>>

Wakes(s) ==
  /\ sweep' = [sweep EXCEPT ![s] = Asleep]
  /\ headLock' = IF headLock = s THEN "free" ELSE headLock

\* The cursor is written when this session moved it, over whatever another
\* sweep has made of it.
CommitSweep(s) ==
  /\ sweep[s].phase = "committing"
  /\ archive' = archive \cup sweep[s].mine
  /\ watermark' = IF sweep[s].moved THEN sweep[s].seen ELSE watermark
  /\ Wakes(s)
  /\ UNCHANGED <<clock, stamp, txn>>

\* A query fails, or the process ends: the transaction rolls back.
SweepFails(s) ==
  /\ sweep[s].phase # "asleep"
  /\ Wakes(s)
  /\ UNCHANGED <<clock, stamp, txn, watermark, archive>>

MirrorNext ==
  \/ \E r \in Rows : WriteRow(r) \/ EndRow(r)
  \/ TimePasses
  \/ \E s \in Sweepers :
       BeginSweep(s) \/ ReadPage(s) \/ AppendPage(s) \/ CommitSweep(s) \/ SweepFails(s)

MirrorSpec == MirrorInit /\ [][MirrorNext]_mirVars

-----------------------------------------------------------------------------
\* Every variable stays in its domain, and a row has a stamp when it is there.
MirrorTypeOK ==
  /\ clock \in Nat
  /\ stamp \in [Rows -> Nat]
  /\ txn \in [Rows -> {"none", "open", "committed"}]
  /\ watermark \in Nat
  /\ archive \subseteq Rows
  /\ headLock \in Sweepers \cup {"free"}
  /\ sweep \in [Sweepers ->
       [phase : {"asleep", "reading", "appending", "committing"}, began : Nat,
        since : Int, after : Rows \cup {0}, seen : Nat, moved : BOOLEAN,
        pages : Nat, batch : SUBSET Rows, mine : SUBSET Rows]]

\* "A transaction that committed late is never skipped" (nalanda_mirror.py:5):
\* what the next sweep will not read again is archived, whatever the sweeps
\* before it overlapped with, failed, or wrote over one another's cursor.
NoFactSkipped ==
  \A r \in Committed : stamp[r] < Since(watermark) => r \in archive
=============================================================================
