----------------------------- MODULE CfoLedger -----------------------------
(***************************************************************************)
(* The CFO ledger (backend/app/services/cfo_ledger.py): what one posting   *)
(* does to a bankroll account.  A "book" is everything one database        *)
(* transaction over the account can read and write:                        *)
(*                                                                         *)
(*   available, exposure, peak   the BankrollAccount row                   *)
(*   row[k]                      the PhantomLedger row of order k          *)
(*   legs[k]                     the LedgerEntry legs that carry k's       *)
(*                               ledger_id, summed per ledger account, and *)
(*                               the pnl_inr its SETTLED audit rows carry  *)
(*                                                                         *)
(* The functions of the code never commit: they map a book to a book, and  *)
(* CfoExecution decides when the result is committed.  Amounts are whole   *)
(* rupees.                                                                 *)
(***************************************************************************)
EXTENDS Integers

CONSTANT Keys   \* idempotency keys, one per order: the ledger's unique key

OpenStatuses == {"PENDING", "REQUIRES_MANUAL_INTERVENTION"}
GradedStatuses == {"WON", "LOST", "VOID"}
ClosedStatuses == GradedStatuses \cup {"REJECTED"}

\* remote: the bookmaker's bet id is known; reconcile: reconcile_required.
Rows == [status    : OpenStatuses \cup ClosedStatuses \cup {"NONE"},
         stake     : Nat,
         profit    : Nat,
         reconcile : BOOLEAN,
         remote    : BOOLEAN,
         attempts  : Nat]

NoRow == [status |-> "NONE", stake |-> 0, profit |-> 0,
          reconcile |-> FALSE, remote |-> FALSE, attempts |-> 0]

Legs == [available : Int, exposure : Int, pnl : Int, audited : Int]

NoLegs == [available |-> 0, exposure |-> 0, pnl |-> 0, audited |-> 0]

Books == [available : Nat, exposure : Nat, peak : Nat,
          row : [Keys -> Rows], legs : [Keys -> Legs]]

\* An account just opened with a balance (the OPEN posting).
OpenBook(balance) ==
  [available |-> balance, exposure |-> 0, peak |-> balance,
   row  |-> [k \in Keys |-> NoRow],
   legs |-> [k \in Keys |-> NoLegs]]

Equity(b) == b.available + b.exposure

IsOpen(b, k) == b.row[k].status \in OpenStatuses

(***************************************************************************)
(* Postings.  The PNL leg is what is left: the legs sum to zero.  A posting*)
(* that would take a balance below zero raises: CanPost is its guard.      *)
(***************************************************************************)
CanPost(b, available, exposure) ==
  /\ b.available + available >= 0
  /\ b.exposure + exposure >= 0

Post(b, k, available, exposure, row, audited) ==
  LET old == b.legs[k] IN
  [available |-> b.available + available,
   exposure  |-> b.exposure + exposure,
   peak      |-> b.peak,
   row       |-> [b.row EXCEPT ![k] = row],
   legs      |-> [b.legs EXCEPT ![k] =
                    [available |-> old.available + available,
                     exposure  |-> old.exposure + exposure,
                     pnl       |-> old.pnl - available - exposure,
                     audited   |-> old.audited + audited]]]

\* Mutant: the duplicate check is left to the 60 s Redis claim alone.
CanReserveTwice(b, k, stake) == stake > 0 /\ stake <= b.available

\* reserve: the stake moves AVAILABLE -> EXPOSURE and the bet is PENDING.
CanReserve(b, k, stake) ==
  /\ stake > 0
  /\ stake <= b.available
  /\ b.row[k].status = "NONE"

\* Mutant: the legs of the reservation have their signs swapped.
ReserveBackwards(b, k, stake, profit) ==
  Post(b, k, stake, -stake,
       [status |-> "PENDING", stake |-> stake, profit |-> profit,
        reconcile |-> FALSE, remote |-> FALSE, attempts |-> 0], 0)

Reserve(b, k, stake, profit) ==
  Post(b, k, -stake, stake,
       [status |-> "PENDING", stake |-> stake, profit |-> profit,
        reconcile |-> FALSE, remote |-> FALSE, attempts |-> 0], 0)

\* An entry that only changes its own columns posts nothing.
Amend(b, k, row) ==
  [available |-> b.available, exposure |-> b.exposure, peak |-> b.peak,
   row |-> [b.row EXCEPT ![k] = row], legs |-> b.legs]

\* Mutant: the unmatched part goes back and the bet keeps its stake.
ReduceToFillKeepsStake(b, k, filled, profit) ==
  LET unfilled == b.row[k].stake - filled
  IN  Post(b, k, unfilled, -unfilled, [b.row[k] EXCEPT !.profit = profit], 0)

\* reduce_to_fill: the unmatched part goes back and the bet is what matched.
ReduceToFill(b, k, filled, profit) ==
  LET entry    == b.row[k]
      unfilled == entry.stake - filled
  IN  Post(b, k, unfilled, -unfilled,
           [entry EXCEPT !.stake = filled, !.profit = profit], 0)

\* release: a stake goes back whole (REJECTED: never struck; VOID: void).
Release(b, k, status) ==
  LET entry == b.row[k] IN
  Post(b, k, entry.stake, -entry.stake,
       [entry EXCEPT !.status = status, !.reconcile = FALSE], 0)

\* Mutant: a loss is audited as the stake, not as minus the stake.
SettleAuditsStake(b, k, won) ==
  LET entry == b.row[k] IN
  IF won
  THEN Post(b, k, entry.stake + entry.profit, -entry.stake,
            [entry EXCEPT !.status = "WON"], entry.profit)
  ELSE Post(b, k, 0, -entry.stake,
            [entry EXCEPT !.status = "LOST"], entry.stake)

\* settle: WON credits stake + profit, LOST books the stake to PNL; the
\* caller writes the SETTLED audit row with the same P&L.
Settle(b, k, won) ==
  LET entry == b.row[k] IN
  IF won
  THEN Post(b, k, entry.stake + entry.profit, -entry.stake,
            [entry EXCEPT !.status = "WON"], entry.profit)
  ELSE Post(b, k, 0, -entry.stake,
            [entry EXCEPT !.status = "LOST"], -entry.stake)

MarkPeak(b) ==
  [b EXCEPT !.peak = IF Equity(b) > b.peak THEN Equity(b) ELSE b.peak]

\* Mutant: the peak is marked after each bet instead of after the batch.
GradeMarksPeak(b, k, grade) ==
  MarkPeak(IF grade = "VOID" THEN Release(b, k, "VOID")
           ELSE Settle(b, k, grade = "WON"))

\* _grade_entry
Grade(b, k, grade) ==
  IF grade = "VOID" THEN Release(b, k, "VOID") ELSE Settle(b, k, grade = "WON")

CanClose(b, k) == IsOpen(b, k) /\ CanPost(b, 0, -b.row[k].stake)

\* Each bet's own legs tell its story: a stake out once, back once or booked to
\* PNL once, and the P&L the drawdown guard sums from the SETTLED audit rows is
\* the P&L the journal booked.
BetJournal(b, k) ==
  LET entry == b.row[k]
      legs  == b.legs[k]
  IN
  /\ entry.status \in OpenStatuses =>
       legs = [available |-> -entry.stake, exposure |-> entry.stake,
               pnl |-> 0, audited |-> 0]
  /\ entry.status \in {"NONE", "REJECTED", "VOID"} => legs = NoLegs
  /\ entry.status = "WON" =>
       legs = [available |-> entry.profit, exposure |-> 0,
               pnl |-> -entry.profit, audited |-> entry.profit]
  /\ entry.status = "LOST" =>
       legs = [available |-> -entry.stake, exposure |-> 0,
               pnl |-> entry.stake, audited |-> -entry.stake]
=============================================================================
