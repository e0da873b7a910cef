----------------------------- MODULE SmartRouter -----------------------------
(***************************************************************************)
(* The smart order router: orders split into slices over bookmaker         *)
(* accounts, each slice's stake held in the Vault while it may be bet.     *)
(*                                                                         *)
(*   orders      SmartOrderRouter.route, one process per order             *)
(*   executor    CfoSliceExecutor under the dispatcher's timeout, reduced  *)
(*               to the answers and ledger rows CfoExecution shows         *)
(*   sweepers    sweep_router, as the beat task runs it                    *)
(*   operators   release_orphan and the breaker's reset                    *)
(*   the Vault   release_finished                                          *)
(*                                                                         *)
(* Nobody holds a lock from one transaction to the next: every write is a  *)
(* compare-and-set on a status that was read earlier.                      *)
(***************************************************************************)
EXTENDS SlicePlan

CONSTANTS
  Orders, Sweepers, Operators,
  Venues,              \* one active Vault account each
  Balance, LeastStake, Odds, Priority, \* per venue
  Desired,             \* [Orders -> Nat], desired_total_stake
  Failures,            \* ROUTER_BREAKER_FAILURES
  Mortal               \* the routes and sweeps that may die half-way

Agents == Orders \cup Sweepers \cup Operators

ASSUME RouterAssumption ==
  /\ IsFiniteSet(Orders) /\ IsFiniteSet(Venues)
  /\ Venues \subseteq Nat
  /\ Balance \in [Venues -> Nat]
  /\ LeastStake \in [Venues -> Nat \ {0}]
  /\ Odds \in [Venues -> Nat]
  /\ Priority \in [Venues -> Nat]
  /\ Desired \in [Orders -> Nat \ {0}]
  /\ Failures \in Nat \ {0}
  /\ Mortal \subseteq Orders \cup Sweepers
  /\ Orders \cap Sweepers = {}
  /\ Operators \cap (Orders \cup Sweepers) = {}

VARIABLES
  order,     \* RoutedOrder rows: status and filled stake
  slice,     \* RoutedSlice rows: status, stake and filled stake
  hold,      \* the open Vault hold of each slice, 0 if none
  reserved,  \* VaultBookmakerAccount.reserved
  breaker,   \* VenueCircuitBreaker rows
  shot,      \* what became of a slice sent to its venue
  row,       \* the slice's PhantomLedger row
  pc,        \* where each order's process is
  todo,      \* venues whose answers a process has not recorded yet
  trips,     \* breakers a process has tripped and not acted upon yet
  agenda,    \* orders an agent is about to finish
  seen,      \* what an agent's finish has read
  found,     \* ledger rows a sweep has read
  target     \* the slice an operator is releasing

rows == <<order, slice, hold, reserved>>
venueside == <<breaker, shot, row>>
local == <<pc, todo, trips>>
helpers == <<found, target>>
vars == <<rows, venueside, local, agenda, seen, helpers>>

----------------------------------------------------------------------------
(***************************************************************************)
(* Data                                                                    *)
(***************************************************************************)
TerminalStatuses == {"FILLED", "PARTIAL", "REJECTED", "ABORTED"}
OrderStatuses == TerminalStatuses \cup
  {"NONE", "ROUTING", "RESERVED", "DISPATCHING", "UNCONFIRMED"}

FilledStatuses == {"FILLED", "PARTIAL"}
Unanswered == {"DISPATCHED", "UNKNOWN"}
SliceStatuses == FilledStatuses \cup Unanswered \cup
  {"NONE", "RESERVED", "REJECTED", "RELEASED"}

Answers == {"NONE", "FILLED", "PARTIAL", "REJECTED", "UNKNOWN"}

\* PENDING rows are told apart by reconcile_required.
RowStatuses == {"NONE", "UNCONFIRMED", "PENDING", "REJECTED", "SETTLED",
                "REQUIRES_MANUAL_INTERVENTION"}
OpenRows == {"UNCONFIRMED", "PENDING", "REQUIRES_MANUAL_INTERVENTION"}

NoSlice == [status |-> "NONE", stake |-> 0, filled |-> 0]
NotSent == [state |-> "none", answer |-> "NONE", filled |-> 0,
            fault |-> FALSE, struck |-> FALSE]
NoRow == [status |-> "NONE", stake |-> 0]
Nothing == [order |-> "NONE"]

\* What finish() has read of an order, and made of it.
Findings == [order : Orders, read : OrderStatuses, next : OrderStatuses,
             filled : Nat]

Init ==
  /\ order = [o \in Orders |-> [status |-> "NONE", filled |-> 0]]
  /\ slice = [o \in Orders |-> [v \in Venues |-> NoSlice]]
  /\ hold = [o \in Orders |-> [v \in Venues |-> 0]]
  /\ reserved = [v \in Venues |-> 0]
  /\ breaker \in [Venues ->                    \* as earlier orders left them
       [failures : 0 .. Failures - 1, paused : BOOLEAN]]
  /\ shot = [o \in Orders |-> [v \in Venues |-> NotSent]]
  /\ row = [o \in Orders |-> [v \in Venues |-> NoRow]]
  /\ pc = [o \in Orders |-> "new"]
  /\ todo = [o \in Orders |-> {}]
  /\ trips = [o \in Orders |-> {}]
  /\ agenda = [a \in Agents |-> {}]
  /\ seen = [a \in Agents |-> Nothing]
  /\ found = [s \in Sweepers |-> {}]
  /\ target = [p \in Operators |-> <<>>]

----------------------------------------------------------------------------
(***************************************************************************)
(* Rows                                                                    *)
(***************************************************************************)
Minus(a, b) == IF a >= b THEN a - b ELSE 0

\* Mutant: a shrunk hold gives back all it held.
GiveBackWhole(h) ==
  /\ hold' = h
  /\ reserved' = [v \in Venues |-> Minus(reserved[v],
       SumFunctionOnSet([o \in Orders |-> hold[o][v]],
                        {o \in Orders : h[o][v] < hold[o][v]}))]

\* account_rotator.release and shrink: the holds become h, no larger than
\* they were, and the accounts' reserved falls by what was given back.
GiveBack(h) ==
  /\ hold' = h
  /\ reserved' = [v \in Venues |-> Minus(reserved[v],
       SumFunctionOnSet([o \in Orders |-> hold[o][v] - h[o][v]], Orders))]

\* Mutant: the amount is taken off, not kept.
KeptLess(h, o, v, amount) ==
  [h EXCEPT ![o][v] = @ - amount]

Kept(h, o, v, amount) == [h EXCEPT ![o][v] = Min({@, amount})]

\* Mutant: released without a compare-and-set.
ReleasableSent(S) ==
  {p \in S : slice[p[1]][p[2]].status \in {"RESERVED", "DISPATCHED"}}

\* release_slices: RESERVED slices among S become RELEASED, their holds end.
Releasable(S) == {p \in S : slice[p[1]][p[2]].status = "RESERVED"}

Released(S) ==
  [o \in Orders |-> [v \in Venues |->
     IF <<o, v>> \in Releasable(S)
     THEN [slice[o][v] EXCEPT !.status = "RELEASED"] ELSE slice[o][v]]]

HoldsWithout(S) ==
  [o \in Orders |-> [v \in Venues |-> IF <<o, v>> \in S THEN 0 ELSE hold[o][v]]]

\* _cas_order
CasOrder(o, expect, status) ==
  order' = IF order[o].status \in expect
           THEN [order EXCEPT ![o].status = status] ELSE order

SlicesOf(o) == {v \in Venues : slice[o][v].status # "NONE"}

----------------------------------------------------------------------------
(***************************************************************************)
(* route: claim, reserve, guard                                            *)
(***************************************************************************)
Step(o, from, to) == pc[o] = from /\ pc' = [pc EXCEPT ![o] = to]

\* _claim.  A second submission of the order only reads it (_existing).
Claim(o) ==
  /\ Step(o, "new", "claimed")
  /\ order' = [order EXCEPT ![o].status = "ROUTING"]
  /\ UNCHANGED <<slice, hold, reserved, venueside, todo, trips, agenda, seen, helpers>>

FreeFunds(v) == Minus(Balance[v], reserved[v])

\* _capacities: the venues whose quotes passed the guard, less the paused
\* and the poor.
Fleet(quoted) ==
  [v \in {w \in quoted : ~breaker[w].paused /\ FreeFunds(w) >= LeastStake[w]} |->
     [capacity |-> FreeFunds(v), least |-> LeastStake[v],
      odds |-> Odds[v], priority |-> Priority[v]]]

\* _reserve_once: one transaction under the accounts' row locks.
Reserve(o) ==
  /\ Step(o, "claimed", "reserved")
  /\ order[o].status = "ROUTING"
  /\ \E quoted \in SUBSET Venues :
       LET plan == Plan(Fleet(quoted), Desired[o])
           stake(v) == IF v \in DOMAIN plan THEN plan[v] ELSE 0
       IN /\ plan # Deficit
          /\ slice' = [slice EXCEPT ![o] = [v \in Venues |->
               IF v \in DOMAIN plan
               THEN [status |-> "RESERVED", stake |-> plan[v], filled |-> 0]
               ELSE NoSlice]]
          /\ hold' = [hold EXCEPT ![o] = [v \in Venues |-> stake(v)]]
          /\ reserved' = [v \in Venues |-> reserved[v] + stake(v)]
  /\ order' = [order EXCEPT ![o].status = "RESERVED"]
  /\ UNCHANGED <<venueside, todo, trips, agenda, seen, helpers>>

\* A deficit, no venue with an acceptable price, or accounts that stayed
\* contended for RESERVE_ATTEMPTS: refused with nothing held.
Refuse(o) ==
  /\ Step(o, "claimed", "done")
  /\ CasOrder(o, {"ROUTING"}, "REJECTED")
  /\ UNCHANGED <<slice, hold, reserved, venueside, todo, trips, agenda, seen, helpers>>

\* _abort: the slippage guard said no.
Abort(o) ==
  LET S == Releasable({o} \X Venues)
  IN /\ Step(o, "reserved", "done")
     /\ slice' = Released(S)
     /\ GiveBack(HoldsWithout(S))
     /\ CasOrder(o, {"RESERVED"}, "ABORTED")
     /\ UNCHANGED <<venueside, todo, trips, agenda, seen, helpers>>

----------------------------------------------------------------------------
(***************************************************************************)
(* route: dispatch, apply, breakers                                        *)
(***************************************************************************)
\* Mutant: whatever was planned goes out.
SendableReleased(o) ==
  {v \in SlicesOf(o) : ~breaker[v].paused}

\* _dispatch up to its commit: slices of paused venues are released, those
\* still RESERVED go out.
Sendable(o) == {v \in Venues : slice[o][v].status = "RESERVED" /\ ~breaker[v].paused}

Dispatch(o) ==
  LET S == Releasable({o} \X {v \in Venues : breaker[v].paused})
      go == Sendable(o)
  IN /\ Step(o, "reserved", "dispatched")
     /\ slice' = [Released(S) EXCEPT ![o] = [v \in Venues |->
          IF v \in go THEN [slice[o][v] EXCEPT !.status = "DISPATCHED"] ELSE @[v]]]
     /\ GiveBack(HoldsWithout(S))
     /\ shot' = [shot EXCEPT ![o] = [v \in Venues |->
          IF v \in go THEN [@[v] EXCEPT !.state = "sent"] ELSE @[v]]]
     /\ CasOrder(o, {"RESERVED"}, "DISPATCHING")
     /\ UNCHANGED <<breaker, row, todo, trips, agenda, seen, helpers>>

\* The executor has come to an end.  Its answer counts unless the dispatcher
\* has timed the slice out before.
Answer(o, v, kind, filled, fault, struck) ==
  /\ shot[o][v].state = "sent"
  /\ shot' = [shot EXCEPT ![o][v] =
       IF @.answer = "NONE"
       THEN [state |-> "over", answer |-> kind, filled |-> filled,
             fault |-> fault, struck |-> struck]
       ELSE [@ EXCEPT !.state = "over", !.struck = struck]]

\* A guard or the bookmaker refused: no bet, no row.  The sniper gives the
\* hold back itself when it routed the order to a Vault account.
Refused(o, v) ==
  /\ \E fault, released \in BOOLEAN :
       /\ Answer(o, v, "REJECTED", 0, fault, FALSE)
       /\ IF released THEN GiveBack(HoldsWithout({<<o, v>>}))
          ELSE UNCHANGED <<hold, reserved>>
  /\ UNCHANGED <<order, slice, breaker, row, local, agenda, seen, helpers>>

Accepted(o, v) ==
  /\ \E f \in 1 .. slice[o][v].stake :
       /\ Answer(o, v, IF f < slice[o][v].stake THEN "PARTIAL" ELSE "FILLED",
                 f, FALSE, TRUE)
       /\ row' = [row EXCEPT ![o][v] = [status |-> "PENDING", stake |-> f]]
  /\ UNCHANGED <<rows, breaker, local, agenda, seen, helpers>>

\* The bookmaker did not confirm: a row that asks for reconciliation.
Unconfirmed(o, v) ==
  /\ \E struck \in BOOLEAN : Answer(o, v, "UNKNOWN", 0, TRUE, struck)
  /\ row' = [row EXCEPT ![o][v] =
               [status |-> "UNCONFIRMED", stake |-> slice[o][v].stake]]
  /\ UNCHANGED <<rows, breaker, local, agenda, seen, helpers>>

\* LEDGER_COMMIT_FAILED is a CfoError, so it is classified as a refusal; any
\* other exception, and a key that was submitted before, is UNKNOWN.  Neither
\* leaves a row.
CommitFails(o, v) ==
  /\ \E struck \in BOOLEAN : Answer(o, v, "REJECTED", 0, TRUE, struck)
  /\ UNCHANGED <<rows, breaker, row, local, agenda, seen, helpers>>

ExecutorRaises(o, v) ==
  /\ \E struck \in BOOLEAN : Answer(o, v, "UNKNOWN", 0, FALSE, struck)
  /\ UNCHANGED <<rows, breaker, row, local, agenda, seen, helpers>>

\* ROUTER_SLICE_TIMEOUT_SECONDS.  The locked section runs on (shielded).
TimesOut(o, v) ==
  /\ shot[o][v].state = "sent"
  /\ shot[o][v].answer = "NONE"
  /\ shot' = [shot EXCEPT ![o][v].answer = "UNKNOWN", ![o][v].fault = TRUE]
  /\ UNCHANGED <<rows, breaker, row, local, agenda, seen, helpers>>

Tickets(o) == {v \in Venues : shot[o][v].state # "none"}

\* _apply: every answer that still finds its slice DISPATCHED.
Applied(o, v) ==
  LET s == slice[o][v] IN
  IF v \notin Tickets(o) \/ s.status # "DISPATCHED" THEN s
  ELSE [s EXCEPT !.status = shot[o][v].answer,
                 !.filled = CASE shot[o][v].answer = "FILLED" -> s.stake
                              [] shot[o][v].answer = "PARTIAL" -> shot[o][v].filled
                              [] OTHER -> 0]

\* Mutant: an unanswered slice's hold is released.
HoldAppliedUnknown(o, v) ==
  IF v \notin Tickets(o) \/ slice[o][v].status # "DISPATCHED" THEN hold[o][v]
  ELSE Min({hold[o][v], shot[o][v].filled})

HoldApplied(o, v) ==
  IF v \notin Tickets(o) \/ slice[o][v].status # "DISPATCHED" THEN hold[o][v]
  ELSE CASE shot[o][v].answer = "PARTIAL" -> Min({hold[o][v], shot[o][v].filled})
         [] shot[o][v].answer = "REJECTED" -> 0
         [] OTHER -> hold[o][v]

Apply(o) ==
  /\ Step(o, "dispatched", "applied")
  /\ \A v \in Tickets(o) : shot[o][v].answer # "NONE"
  /\ slice' = [slice EXCEPT ![o] = [v \in Venues |-> Applied(o, v)]]
  /\ GiveBack([hold EXCEPT ![o] = [v \in Venues |-> HoldApplied(o, v)]])
  /\ todo' = [todo EXCEPT ![o] = Tickets(o)]
  /\ agenda' = [agenda EXCEPT ![o] = {o}]
  /\ UNCHANGED <<order, venueside, trips, seen, helpers>>

\* record_failure: the new count.  The streak starts again when its first
\* failure is older than the window.
Streaks(v) ==
  {1} \cup (IF breaker[v].failures > 0 THEN {breaker[v].failures + 1} ELSE {})

Counted(v, n) ==
  IF n >= Failures /\ ~breaker[v].paused
  THEN [failures |-> 0, paused |-> TRUE]
  ELSE [breaker[v] EXCEPT !.failures = n]

\* One turn of the loop in _breakers, a transaction of its own.
Record(o, v) ==
  /\ todo[o] # {} /\ v = Min(todo[o])
  /\ \/ /\ shot[o][v].answer \in FilledStatuses
        /\ breaker' = [breaker EXCEPT ![v].failures = 0]
        /\ UNCHANGED trips
     \/ /\ shot[o][v].answer \notin FilledStatuses
        /\ shot[o][v].fault
        /\ \E n \in Streaks(v) :
             /\ breaker' = [breaker EXCEPT ![v] = Counted(v, n)]
             /\ trips' = IF ~breaker[v].paused /\ n >= Failures
                         THEN [trips EXCEPT ![o] = @ \cup {v}] ELSE trips
     \/ /\ shot[o][v].answer \notin FilledStatuses
        /\ ~shot[o][v].fault
        /\ UNCHANGED <<breaker, trips>>
  /\ todo' = [todo EXCEPT ![o] = @ \ {v}]
  /\ shot' = [shot EXCEPT ![o][v].answer = "UNKNOWN", ![o][v].filled = 0,
                          ![o][v].fault = FALSE]  \* not looked at again
  /\ UNCHANGED <<rows, row, pc, agenda, seen, helpers>>

\* on_trip: whatever waits to go to the venue, of any order, is released.
OnTrip(o, v) ==
  LET S == Releasable(Orders \X {v})
  IN /\ todo[o] = {} /\ trips[o] # {} /\ v = Min(trips[o])
     /\ slice' = Released(S)
     /\ GiveBack(HoldsWithout(S))
     /\ trips' = [trips EXCEPT ![o] = @ \ {v}]
     /\ UNCHANGED <<order, venueside, pc, todo, agenda, seen, helpers>>

\* The process dies.  What it sent may have been struck; nothing is recorded.
Die(o) ==
  /\ o \in Mortal
  /\ \/ pc[o] \notin {"new", "done", "dead"}
     \/ pc[o] = "done" /\ \E v \in Venues : shot[o][v].state = "sent"
  /\ pc' = [pc EXCEPT ![o] = "dead"]
  /\ \E struck \in SUBSET {v \in Venues : shot[o][v].state = "sent"} :
       shot' = [shot EXCEPT ![o] = [v \in Venues |->
         IF @[v].state = "none" THEN @[v]
         ELSE [NotSent EXCEPT !.state = "over", !.answer = "UNKNOWN",
                              !.struck = shot[o][v].struck \/ v \in struck]]]
  /\ todo' = [todo EXCEPT ![o] = {}]
  /\ trips' = [trips EXCEPT ![o] = {}]
  /\ agenda' = [agenda EXCEPT ![o] = {}]
  /\ seen' = [seen EXCEPT ![o] = Nothing]
  /\ UNCHANGED <<rows, breaker, row, helpers>>

----------------------------------------------------------------------------
(***************************************************************************)
(* finish: by the order's own process, by a sweep, by an operator          *)
(***************************************************************************)
FilledOf(o) ==
  SumFunctionOnSet([v \in Venues |-> slice[o][v].filled],
                   {v \in Venues : slice[o][v].status \in FilledStatuses})

\* Mutant: UNKNOWN counts as an answer.
StatusOfAnswered(o) ==
  IF \E v \in Venues : slice[o][v].status = "DISPATCHED" THEN "UNCONFIRMED"
  ELSE IF FilledOf(o) >= Desired[o] THEN "FILLED"
  ELSE IF FilledOf(o) > 0 THEN "PARTIAL"
  ELSE "REJECTED"

StatusOf(o) ==
  IF \E v \in Venues : slice[o][v].status \in Unanswered THEN "UNCONFIRMED"
  ELSE IF FilledOf(o) >= Desired[o] THEN "FILLED"
  ELSE IF FilledOf(o) > 0 THEN "PARTIAL"
  ELSE "REJECTED"

MayFinish(a) ==
  /\ a \in Orders => todo[a] = {} /\ trips[a] = {}
  /\ a \in Sweepers => found[a] = {}

Leave(a, o) ==
  /\ agenda' = [agenda EXCEPT ![a] = @ \ {o}]
  /\ pc' = IF a \in Orders THEN [pc EXCEPT ![a] = "done"] ELSE pc

\* Mutant: a status forgotten.
UnfinishedOnly == {"UNCONFIRMED"}

Unfinished == {"DISPATCHING", "UNCONFIRMED"}

\* The unlocked read of the order and its slices; a closed order is left.
FinishRead(a, o) ==
  /\ o \in agenda[a] /\ seen[a] = Nothing /\ MayFinish(a)
  /\ \/ /\ order[o].status \in Unfinished
        /\ seen' = [seen EXCEPT ![a] =
             [order |-> o, read |-> order[o].status, next |-> StatusOf(o),
              filled |-> FilledOf(o)]]
        /\ UNCHANGED <<agenda, pc>>
     \/ /\ order[o].status \notin Unfinished
        /\ Leave(a, o)
        /\ UNCHANGED seen
  /\ UNCHANGED <<rows, venueside, todo, trips, helpers>>

\* The compare-and-set on the status that was read.
FinishWrite(a) ==
  /\ seen[a] # Nothing
  /\ LET f == seen[a] IN
       /\ order' = IF order[f.order].status = f.read
                   THEN [order EXCEPT ![f.order] =
                           [status |-> f.next, filled |-> f.filled]]
                   ELSE order
       /\ Leave(a, f.order)
  /\ seen' = [seen EXCEPT ![a] = Nothing]
  /\ UNCHANGED <<slice, hold, reserved, venueside, todo, trips, helpers>>

----------------------------------------------------------------------------
(***************************************************************************)
(* sweep_router, the Vault's sweep, operators, the ledger                  *)
(***************************************************************************)
\* 1. a RESERVED slice whose hold the Vault gave back follows it.
HoldExpired ==
  LET S == {p \in Releasable(Orders \X Venues) : hold[p[1]][p[2]] = 0}
  IN /\ S # {}
     /\ slice' = Released(S)
     /\ UNCHANGED <<order, hold, reserved, venueside, local, agenda, seen, helpers>>

\* Sent longer ago than the slice timeout: answered, or its process is gone.
Overdue(o, v) ==
  /\ slice[o][v].status \in Unanswered
  /\ shot[o][v].answer # "NONE" \/ pc[o] = "dead"

Confirming == {"UNCONFIRMED", "PENDING", "SETTLED"}

\* 2. the ledger rows of unanswered slices, less the two statuses skipped.
SweepRead(s) ==
  LET hits == {p \in Orders \X Venues :
                 Overdue(p[1], p[2]) /\ row[p[1]][p[2]].status \in Confirming}
      F == {[order |-> p[1], venue |-> p[2], stake |-> row[p[1]][p[2]].stake] : p \in hits}
  IN /\ found[s] = {} /\ agenda[s] = {}
     /\ F # {}
     /\ found' = [found EXCEPT ![s] = F]
     /\ UNCHANGED <<rows, venueside, local, agenda, seen, target>>

\* Each is filled by what was read, if it is still unanswered.
SweepConfirm(s) ==
  /\ \E f \in found[s] :
       LET o == f.order
           v == f.venue
           s0 == slice[o][v]
           filled == Min({f.stake, s0.stake})
       IN /\ found' = [found EXCEPT ![s] = @ \ {f}]
          /\ IF s0.status \in Unanswered
             THEN /\ slice' = [slice EXCEPT ![o][v] =
                       [s0 EXCEPT !.status = IF filled < s0.stake THEN "PARTIAL" ELSE "FILLED",
                                  !.filled = filled]]
                  /\ GiveBack(Kept(hold, o, v, filled))
                  /\ agenda' = [agenda EXCEPT ![s] = @ \cup {o}]
             ELSE UNCHANGED <<slice, hold, reserved, agenda>>
  /\ UNCHANGED <<order, venueside, local, seen, target>>

SweepStops(s) ==
  /\ s \in Mortal
  /\ found[s] # {} \/ agenda[s] # {}
  /\ found' = [found EXCEPT ![s] = {}]
  /\ agenda' = [agenda EXCEPT ![s] = {}]
  /\ seen' = [seen EXCEPT ![s] = Nothing]
  /\ UNCHANGED <<rows, venueside, local, target>>

\* 3. an order claimed and never planned.
RoutingAbandoned(o) ==
  /\ order[o].status = "ROUTING" /\ SlicesOf(o) = {}
  /\ order' = [order EXCEPT ![o].status = "REJECTED"]
  /\ UNCHANGED <<slice, hold, reserved, venueside, local, agenda, seen, helpers>>

\* A pause is a point in time (paused_until): it ends by itself.  The reset
\* of an operator ends it too, and the streak.
PauseEnds(v) ==
  /\ breaker[v].paused
  /\ breaker' = [breaker EXCEPT ![v].paused = FALSE]
  /\ UNCHANGED <<rows, shot, row, local, agenda, seen, helpers>>

Reset(v) ==
  /\ breaker' = [breaker EXCEPT ![v] = [failures |-> 0, paused |-> FALSE]]
  /\ UNCHANGED <<rows, shot, row, local, agenda, seen, helpers>>

\* release_finished: holds of closed ledger rows, and holds with no row when
\* VAULT_RESERVATION_TTL_MINUTES have passed, longer than any route lives.
Outlived(o, v) == pc[o] \in {"done", "dead"} /\ shot[o][v].state # "sent"

ReleaseFinished(o, v) ==
  /\ hold[o][v] > 0
  /\ \/ row[o][v].status \in {"REJECTED", "SETTLED"}
     \/ row[o][v].status = "NONE" /\ Outlived(o, v)
  /\ GiveBack(HoldsWithout({<<o, v>>}))
  /\ UNCHANGED <<order, slice, venueside, local, agenda, seen, helpers>>

\* release_orphan: the operator's read of the slice, then the release, which
\* ends the order when nothing of it is left.
OperatorLooks(p, o, v) ==
  /\ target[p] = <<>> /\ agenda[p] = {}
  /\ slice[o][v].status = "RESERVED"
  /\ target' = [target EXCEPT ![p] = <<o, v>>]
  /\ UNCHANGED <<rows, venueside, local, agenda, seen, found>>

OperatorReleases(p) ==
  /\ target[p] # <<>>
  /\ LET o == target[p][1]
         S == Releasable({target[p]})
         over == \A v \in SlicesOf(o) : Released(S)[o][v].status = "RELEASED"
     IN /\ slice' = Released(S)
        /\ GiveBack(HoldsWithout(S))
        /\ IF over THEN CasOrder(o, {"RESERVED", "ROUTING"}, "ABORTED")
           ELSE UNCHANGED order
        /\ agenda' = IF order[o].status = "DISPATCHING"
                     THEN [agenda EXCEPT ![p] = {o}] ELSE agenda
  /\ target' = [target EXCEPT ![p] = <<>>]
  /\ UNCHANGED <<venueside, local, seen, found>>

\* What the router's world does is what the executor promises its callers:
\* one order of ExecutorContract for each slice.
Slices == Orders \X Venues

Contract ==
  INSTANCE ExecutorContract WITH
    Keys   <- Slices,
    row    <- [p \in Slices |-> row[p[1]][p[2]]],
    asked  <- [p \in Slices |-> slice[p[1]][p[2]].stake],
    open   <- {p \in Slices : shot[p[1]][p[2]].state # "over"},
    struck <- {p \in Slices : shot[p[1]][p[2]].struck}

\* Executions, rows and strikes as the router meets them are the contract's.
VenuesKeepContract == Contract!Spec

\* What the resolver, the settlement sweep and a person make of a row.
Rulings(o, v) == Contract!NextStatuses(row[o][v].status, shot[o][v].struck)

LedgerMoves(o, v) ==
  /\ \E s \in Rulings(o, v) : row' = [row EXCEPT ![o][v].status = s]
  /\ UNCHANGED <<rows, breaker, shot, local, agenda, seen, helpers>>

----------------------------------------------------------------------------
Route(o) == Claim(o) \/ Reserve(o) \/ Refuse(o) \/ Abort(o) \/ Dispatch(o) \/ Apply(o)

Execute(o, v) ==
  Refused(o, v) \/ Accepted(o, v) \/ Unconfirmed(o, v) \/ CommitFails(o, v)
    \/ ExecutorRaises(o, v) \/ TimesOut(o, v)

Breakers(o, v) == Record(o, v) \/ OnTrip(o, v)

Sweep(s) == SweepRead(s) \/ SweepConfirm(s) \/ SweepStops(s)

Next ==
  \/ \E o \in Orders : Route(o) \/ Die(o) \/ RoutingAbandoned(o)
  \/ \E o \in Orders, v \in Venues :
       Execute(o, v) \/ Breakers(o, v) \/ ReleaseFinished(o, v) \/ LedgerMoves(o, v)
  \/ \E a \in Agents : FinishWrite(a) \/ \E o \in Orders : FinishRead(a, o)
  \/ \E s \in Sweepers : Sweep(s)
  \/ HoldExpired
  \/ \E v \in Venues : PauseEnds(v) \/ Reset(v)
  \/ \E p \in Operators :
       OperatorReleases(p) \/ \E o \in Orders, v \in Venues : OperatorLooks(p, o, v)

Spec == Init /\ [][Next]_vars

----------------------------------------------------------------------------
(***************************************************************************)
(* Properties                                                              *)
(***************************************************************************)
\* Every row, answer and reading has its type; no amount is negative.
TypeOK ==
  /\ order \in [Orders -> [status : OrderStatuses, filled : Nat]]
  /\ slice \in [Orders -> [Venues ->
       [status : SliceStatuses, stake : Nat, filled : Nat]]]
  /\ hold \in [Orders -> [Venues -> Nat]]
  /\ reserved \in [Venues -> Nat]
  /\ breaker \in [Venues -> [failures : Nat, paused : BOOLEAN]]
  /\ shot \in [Orders -> [Venues ->
       [state : {"none", "sent", "over"}, answer : Answers, filled : Nat,
        fault : BOOLEAN, struck : BOOLEAN]]]
  /\ row \in [Orders -> [Venues -> [status : RowStatuses, stake : Nat]]]
  /\ pc \in [Orders -> {"new", "claimed", "reserved", "dispatched", "applied",
                        "done", "dead"}]
  /\ todo \in [Orders -> SUBSET Venues]
  /\ trips \in [Orders -> SUBSET Venues]
  /\ agenda \in [Agents -> SUBSET Orders]
  /\ seen \in [Agents -> Findings \cup {Nothing}]
  /\ found \in [Sweepers -> SUBSET [order : Orders, venue : Venues, stake : Nat]]
  /\ target \in [Operators -> (Orders \X Venues) \cup {<<>>}]

\* An account's reserved is the sum of its open holds and never more than its
\* balance, whoever gives holds back, and however often (account_rotator.py).
ReservedIsTheOpenHolds ==
  \A v \in Venues :
    /\ reserved[v] = SumFunctionOnSet([o \in Orders |-> hold[o][v]], Orders)
    /\ reserved[v] <= Balance[v]

\* A slice is released or sent, never both: dispatch, a tripped breaker, an
\* operator and the sweep race for it with compare-and-sets.
ReleasedIsNeverSent ==
  \A o \in Orders, v \in Venues :
    slice[o][v].status = "RELEASED" =>
      shot[o][v].state = "none" /\ row[o][v] = NoRow /\ hold[o][v] = 0

\* While the ledger counts a stake as open, at least as much is held on the
\* account it was bet from, so no other order is offered the money.
OpenBetIsHeld ==
  \A o \in Orders, v \in Venues :
    row[o][v].status \in OpenRows => hold[o][v] >= row[o][v].stake

\* What a closed order says is what its slices say, and none of them is open;
\* a refused or aborted one holds nothing.
ClosedOrderAddsUp ==
  \A o \in Orders :
    order[o].status \in TerminalStatuses =>
      /\ \A v \in Venues : slice[o][v].status \notin Unanswered \cup {"RESERVED"}
      /\ order[o].filled = FilledOf(o)
      /\ order[o].status = "FILLED" <=> FilledOf(o) = Desired[o]
      /\ order[o].status = "PARTIAL" <=> FilledOf(o) \in 1 .. Desired[o] - 1
      /\ order[o].status \in {"REJECTED", "ABORTED"} =>
           \A v \in Venues : hold[o][v] = 0

\* A route that has answered its caller leaves no order between two steps,
\* though a sweep or an operator may have finished the order before it.
RouteLeavesNothingHalfway ==
  \A o \in Orders :
    pc[o] = "done" => order[o].status \in TerminalStatuses \cup {"UNCONFIRMED"}

\* The slices of an order add up to what was asked, each at least its
\* venue's minimum (plan_slices).
PlanCoversTheOrder ==
  \A o \in Orders :
    SlicesOf(o) # {} =>
      /\ SumFunctionOnSet([v \in Venues |-> slice[o][v].stake], SlicesOf(o)) = Desired[o]
      /\ \A v \in SlicesOf(o) : slice[o][v].stake >= LeastStake[v]

\* How far along a status is.
OrderRank ==
  [NONE |-> 0, ROUTING |-> 1, RESERVED |-> 2, DISPATCHING |-> 3,
   UNCONFIRMED |-> 4, FILLED |-> 5, PARTIAL |-> 5, REJECTED |-> 5, ABORTED |-> 5]

SliceRank ==
  [NONE |-> 0, RESERVED |-> 1, DISPATCHED |-> 2, UNKNOWN |-> 3,
   FILLED |-> 4, PARTIAL |-> 4, REJECTED |-> 4, RELEASED |-> 4]

\* Every status moves forward only (models/execution_router.py:10), and a
\* closed row is final, stale readers or not.
StatusesMoveForward ==
  [][\A o \in Orders :
       /\ \/ OrderRank[order[o].status] < OrderRank[order'[o].status]
          \/ order[o].status = order'[o].status
       /\ OrderRank[order[o].status] = 5 => order'[o] = order[o]
       /\ \A v \in Venues :
            \/ SliceRank[slice[o][v].status] < SliceRank[slice'[o][v].status]
            \/ slice'[o][v] = slice[o][v]]_vars

----------------------------------------------------------------------------
(***************************************************************************)
(* What the code's own documents say and the code does not do              *)
(***************************************************************************)
\* "FILLED / PARTIAL: the venue holds the bet" (execution_dispatcher.py:6):
\* also of a slice that the sweep fills because it found a ledger row.
FilledMeansBet ==
  \A o \in Orders, v \in Venues :
    slice[o][v].status \in FilledStatuses => shot[o][v].struck

\* "REJECTED: the bet does not exist" (execution_dispatcher.py:7), whose hold
\* is therefore given back at once.
RejectedMeansNoBet ==
  \A o \in Orders, v \in Venues :
    slice[o][v].status = "REJECTED" => ~shot[o][v].struck

\* Slices the ledger has since confirmed "are filled and their orders
\* finished" (execution_dispatcher.py:17): an order with no open slice is
\* finished, or somebody is about to finish it.
AnsweredOrderIsFinished ==
  \A o \in Orders :
    order[o].status = "UNCONFIRMED" =>
      \/ \E v \in Venues : slice[o][v].status \in Unanswered
      \/ \E a \in Agents : o \in agenda[a]
=============================================================================
