---------------------------- MODULE CfoExecution ----------------------------
(***************************************************************************)
(* Two-phase trade execution over one bankroll account, with everything    *)
(* that races it: the bookmaker, the settlement sweep, the order resolver  *)
(* and a person's rulings.                                                 *)
(*                                                                         *)
(*   requests    TradeExecutor._execute / _locked / _conclude, one process *)
(*               per HTTP request; several requests may carry one key      *)
(*   venue       the bookmaker's own record of each client reference       *)
(*               (external: modelled from adapters/execution/factory.py)   *)
(*   resolvers   OrderResolver.run, then settle_markets with its grades    *)
(*   sweepers    settle_markets as the beat task runs it                   *)
(*                                                                         *)
(* Every transaction that moves money takes the bankroll row FOR UPDATE    *)
(* NOWAIT ("lock") and works on an uncommitted copy of the book ("work").  *)
(* A transaction with no call to the outside is one step; the executor's,  *)
(* which waits for the bookmaker, and the sweep's, which grades bet after  *)
(* bet, are several.                                                       *)
(***************************************************************************)
EXTENDS CfoLedger, FiniteSets, Functions

CONSTANTS
  Requests,            \* executions submitted
  Resolvers, Sweepers, \* resolver runs and settlement sweeps that may overlap
  KeyOf,               \* [Requests -> Keys], the request's idempotency key
  Stake,               \* [Keys -> Nat], stake_inr
  Markets, MarketOf,   \* the market (and fixture) an order is on
  Selections, Pick,    \* what the order backs
  Prices,              \* profit per rupee staked a venue may strike at
  AskedPrice,          \* the one the order asks for
  Fills,               \* amounts a venue may match
  Opening,             \* the account's opening balance
  MarketPct, StakePct, \* max_market_exposure_pct; max_stake_pct, clamped
  MaxFailures,         \* SNIPER_RESOLVE_MAX_FAILURES
  ErrorsAreFinal,      \* an error response means that no bet exists
  Nobody

Workers == Resolvers \cup Sweepers

ASSUME ConstantsAssumption ==
  /\ IsFiniteSet(Keys) /\ Keys # {} /\ IsFiniteSet(Requests)
  /\ KeyOf \in [Requests -> Keys]
  /\ Stake \in [Keys -> Nat \ {0}]
  /\ MarketOf \in [Keys -> Markets]
  /\ Pick \in [Keys -> Selections]
  /\ Prices \subseteq Nat \ {0}
  /\ AskedPrice \in Prices
  /\ Fills \subseteq Nat \ {0}
  /\ Opening \in Nat
  /\ MarketPct \in Nat /\ StakePct \in Nat
  /\ MaxFailures \in Nat \ {0}
  /\ ErrorsAreFinal \in BOOLEAN
  /\ Resolvers \cap Sweepers = {}
  /\ Requests \cap Workers = {}
  /\ Nobody \notin Requests \cup Workers
  /\ Selections \cap {"NONE", "VOID"} = {}

VARIABLES
  book,     \* the committed ledger
  work,     \* the lock holder's uncommitted ledger
  lock,     \* who holds the bankroll row, or Nobody
  pc,       \* where each request is
  trail,    \* the audit events committed on behalf of each request
  claimed,  \* idempotency keys present in Redis (SET NX EX)
  venue,    \* what the bookmaker knows of each client reference
  result,   \* MarketResult per market
  run       \* what each resolver or sweeper run has read so far

vars == <<book, work, lock, pc, trail, claimed, venue, result, run>>

----------------------------------------------------------------------------
(***************************************************************************)
(* Data                                                                    *)
(***************************************************************************)
Outcomes == {"EXECUTED", "EXECUTION_UNKNOWN", "BOOKMAKER_REJECTED",
             "COMMIT_FAILED"}
Events == Outcomes \cup {"EXECUTION_ATTEMPT", "BLOCKED"}

Stages == Outcomes \cup
  {"start", "claimed", "attempted", "reserved", "sent", "done", "dead"}

Known == {"struck"} \cup GradedStatuses      \* the venue holds, or held, the bet
VenueStates == Known \cup {"absent", "pending", "refused"}
Bets == [state : VenueStates, matched : Nat, price : Nat]
NoBet == [state |-> "absent", matched |-> 0, price |-> 0]

Statements == GradedStatuses \cup
  {"NONE", "UNAVAILABLE", "NOT_FOUND", "REJECTED", "OPEN"}

Runs == [pc        : {"idle", "polled", "graded", "read", "locked"},
         key       : Keys,
         reconcile : BOOLEAN,
         attempts  : Nat,
         said      : Statements,
         due       : SUBSET Keys]

AnyKey == CHOOSE k \in Keys : TRUE
Idle == [pc |-> "idle", key |-> AnyKey, reconcile |-> FALSE, attempts |-> 0,
         said |-> "NONE", due |-> {}]

Init ==
  /\ book = OpenBook(Opening)
  /\ work = OpenBook(0)
  /\ lock = Nobody
  /\ pc = [r \in Requests |-> "start"]
  /\ trail = [r \in Requests |-> {}]
  /\ claimed = [k \in Keys |-> FALSE]
  /\ venue = [k \in Keys |-> NoBet]
  /\ result = [m \in Markets |-> "NONE"]
  /\ run = [w \in Workers |-> Idle]

----------------------------------------------------------------------------
(***************************************************************************)
(* Transactions                                                            *)
(***************************************************************************)
\* The rows a lock holder reads FOR UPDATE, or inserts.
RowsOf(h) ==
  IF h \in Requests THEN {KeyOf[h]}
  ELSE IF h \in Workers THEN run[h].due ELSE {}

\* An UPDATE of a row waits for the transaction that holds it.
RowIsFree(k) == k \notin RowsOf(lock)

\* What the holder's commit makes of the committed book: only its own rows.
Committed(h, b) ==
  [available |-> b.available, exposure |-> b.exposure, peak |-> b.peak,
   row  |-> [k \in Keys |-> IF k \in RowsOf(h) THEN b.row[k] ELSE book.row[k]],
   legs |-> [k \in Keys |-> IF k \in RowsOf(h) THEN b.legs[k] ELSE book.legs[k]]]

Lock(h, b) == lock = Nobody /\ lock' = h /\ work' = b

Unlock == lock' = Nobody /\ work' = OpenBook(0)

Commit(h, b) == book' = Committed(h, b) /\ Unlock

Rollback == UNCHANGED book /\ Unlock

----------------------------------------------------------------------------
(***************************************************************************)
(* The executor                                                            *)
(***************************************************************************)
\* potential_profit, whose rounding whole amounts never meet
Profit(stake, price) == stake * price

Goto(r, stage) == pc' = [pc EXCEPT ![r] = stage]

Record(r, event) == trail' = [trail EXCEPT ![r] = @ \cup {event}]

\* An audit row that is not required: losing it is logged and ignored.
TryRecord(r, event) == Record(r, event) \/ UNCHANGED trail

\* Pillar 4 and the stake cap.  PENDING stakes of the fixture plus this one
\* against a share of equity; amounts are whole rupees and percentages whole,
\* so the code's two decimals lose nothing.
Stakes(b) == [k \in Keys |-> b.row[k].stake]

OpenOnMarket(b, k) ==
  SumFunctionOnSet(Stakes(b), {j \in Keys : /\ MarketOf[j] = MarketOf[k]
                                            /\ b.row[j].status = "PENDING"})

WithinMarketCap(b, k) ==
  100 * (OpenOnMarket(b, k) + Stake[k]) <= MarketPct * Equity(b)

WithinStakeCap(b, k) == 100 * Stake[k] <= StakePct * Equity(b)

\* _claim: SET NX; a key already there refuses the click.
Claim(r) ==
  LET k == KeyOf[r] IN
  /\ pc[r] = "start"
  /\ IF claimed[k]
     THEN Goto(r, "done") /\ TryRecord(r, "BLOCKED") /\ UNCHANGED claimed
     ELSE /\ Goto(r, "claimed")
          /\ claimed' = [claimed EXCEPT ![k] = TRUE]
          /\ UNCHANGED trail
  /\ UNCHANGED <<book, work, lock, venue, result, run>>

ClaimExpires(k) ==
  /\ claimed[k]
  /\ claimed' = [claimed EXCEPT ![k] = FALSE]
  /\ UNCHANGED <<book, work, lock, pc, trail, venue, result, run>>

\* The guards on an unlocked read, the route, then the required audit row.
Attempt(r) ==
  /\ pc[r] = "claimed"
  /\ WithinMarketCap(book, KeyOf[r])
  /\ Goto(r, "attempted")
  /\ Record(r, "EXECUTION_ATTEMPT")
  /\ UNCHANGED <<book, work, lock, claimed, venue, result, run>>

\* Any refusal before the attempt: Redis, an expired signal, a guard, a limit,
\* the price floor, no route, no audit trail.
Block(r) ==
  /\ pc[r] = "claimed"
  /\ Goto(r, "done")
  /\ TryRecord(r, "BLOCKED")
  /\ UNCHANGED <<book, work, lock, claimed, venue, result, run>>

\* Mutant: the market pillar is not run again under the lock.
MayReserveUnchecked(b, k) == WithinStakeCap(b, k) /\ CanReserve(b, k, Stake[k])

\* recheck_locked, the caps on locked equity and reserve's own checks.
MayReserve(b, k) ==
  /\ WithinMarketCap(b, k)
  /\ WithinStakeCap(b, k)
  /\ CanReserve(b, k, Stake[k])

LockAndReserve(r) ==
  LET k == KeyOf[r] IN
  /\ pc[r] = "attempted"
  /\ MayReserve(book, k)
  /\ Lock(r, Reserve(book, k, Stake[k], Profit(Stake[k], AskedPrice)))
  /\ Goto(r, "reserved")
  /\ UNCHANGED <<book, trail, claimed, venue, result, run>>

\* A refusal under the lock rolls back; so does a lock never obtained, and a
\* pillar the model leaves out (drawdown).
BlockAtLock(r) ==
  /\ pc[r] = "attempted"
  /\ Goto(r, "done")
  /\ TryRecord(r, "BLOCKED")
  /\ UNCHANGED <<book, work, lock, claimed, venue, result, run>>

\* The POST goes out, and reaches the venue or is lost on the way.  A client
\* reference the venue already holds is the same order (Idempotency-Key).
Send(r) ==
  LET k == KeyOf[r] IN
  /\ pc[r] = "reserved"
  /\ Goto(r, "sent")
  /\ \/ /\ venue[k].state \in {"absent", "refused"}
        /\ venue' = [venue EXCEPT ![k] = [NoBet EXCEPT !.state = "pending"]]
     \/ UNCHANGED venue
  /\ UNCHANGED <<book, work, lock, trail, claimed, result, run>>

\* No session, no outbound token, no connection: the request never left.
NotSent(r) ==
  /\ pc[r] = "reserved"
  /\ Rollback
  /\ Goto(r, "BOOKMAKER_REJECTED")
  /\ UNCHANGED <<trail, claimed, venue, result, run>>

\* ACCEPTED: the bet as struck, its fill and its price.
Accepted(r, b) ==
  LET k    == KeyOf[r]
      bet  == venue[k]
      shot == Amend(b, k, [b.row[k] EXCEPT !.remote = TRUE,
                                           !.profit = Profit(Stake[k], bet.price)])
  IN  IF bet.matched < Stake[k]
      THEN ReduceToFill(shot, k, bet.matched, Profit(bet.matched, bet.price))
      ELSE shot

Accept(r) ==
  LET bet == venue[KeyOf[r]] IN
  /\ pc[r] = "sent"
  /\ bet.state \in Known
  /\ bet.matched <= Stake[KeyOf[r]]
  /\ Commit(r, Accepted(r, work))
  /\ Goto(r, "EXECUTED")
  /\ UNCHANGED <<trail, claimed, venue, result, run>>

\* REJECTED: the venue's answer says no bet exists.  An error response says
\* so too, and is believed, whatever became of the order behind it.
SaysRejected(k) ==
  \/ venue[k].state = "refused"
  \/ ~ErrorsAreFinal

Reject(r) ==
  /\ pc[r] = "sent"
  /\ SaysRejected(KeyOf[r])
  /\ Rollback
  /\ Goto(r, "BOOKMAKER_REJECTED")
  /\ UNCHANGED <<trail, claimed, venue, result, run>>

\* Mutant: the reservation is committed without reconcile_required.
UnconfirmedUnflagged(r, b) == b

\* Mutant: a timeout is taken for a rejection.
TimeOutRollsBack(r) ==
  /\ pc[r] = "sent"
  /\ Rollback
  /\ Goto(r, "EXECUTION_UNKNOWN")
  /\ UNCHANGED <<trail, claimed, venue, result, run>>

\* UNKNOWN: a timeout, a cut connection, an answer without a bet id or with
\* more matched than was asked.  The reservation is committed as it stands.
Unconfirmed(r, b) ==
  Amend(b, KeyOf[r], [b.row[KeyOf[r]] EXCEPT !.reconcile = TRUE])

TimeOut(r) ==
  /\ pc[r] = "sent"
  /\ Commit(r, Unconfirmed(r, work))
  /\ Goto(r, "EXECUTION_UNKNOWN")
  /\ UNCHANGED <<trail, claimed, venue, result, run>>

\* The bookmaker answered (or did not) and the ledger could not commit.
CommitFails(r) ==
  /\ pc[r] = "sent"
  /\ Rollback
  /\ Goto(r, "COMMIT_FAILED")
  /\ UNCHANGED <<trail, claimed, venue, result, run>>

\* _conclude: the outcome row, written after the transaction.
Conclude(r) ==
  /\ pc[r] \in Outcomes
  /\ Goto(r, "done")
  /\ TryRecord(r, pc[r])
  /\ UNCHANGED <<book, work, lock, claimed, venue, result, run>>

\* The process dies: the database rolls its transaction back.
Die(r) ==
  /\ pc[r] \notin {"start", "done", "dead"}
  /\ Goto(r, "dead")
  /\ IF lock = r THEN Rollback ELSE UNCHANGED <<book, work, lock>>
  /\ UNCHANGED <<trail, claimed, venue, result, run>>

----------------------------------------------------------------------------
(***************************************************************************)
(* The bookmaker and the market (external)                                 *)
(***************************************************************************)
\* A delivered order is struck, wholly or in part, or refused.
Strike(k) ==
  /\ venue[k].state = "pending"
  /\ \E matched \in Fills, price \in Prices :
       venue' = [venue EXCEPT ![k] = [state |-> "struck", matched |-> matched,
                                      price |-> price]]
  /\ UNCHANGED <<book, work, lock, pc, trail, claimed, result, run>>

RefuseOrder(k) ==
  /\ venue[k].state = "pending"
  /\ venue' = [venue EXCEPT ![k].state = "refused"]
  /\ UNCHANGED <<book, work, lock, pc, trail, claimed, result, run>>

GradeBet(k) ==
  /\ venue[k].state = "struck"
  /\ \E grade \in GradedStatuses : venue' = [venue EXCEPT ![k].state = grade]
  /\ UNCHANGED <<book, work, lock, pc, trail, claimed, result, run>>

\* record_result: a market is graded once; another result is a conflict.
RecordResult(m) ==
  /\ result[m] = "NONE"
  /\ \E how \in Selections \cup {"VOID"} : result' = [result EXCEPT ![m] = how]
  /\ UNCHANGED <<book, work, lock, pc, trail, claimed, venue, run>>

\* What "my bets" answers about one order; the venue may be unreachable.
VenueSays(k) ==
  CASE venue[k].state \in {"absent", "pending"} -> "NOT_FOUND"
    [] venue[k].state = "refused"               -> "REJECTED"
    [] venue[k].state = "struck"                -> "OPEN"
    [] OTHER                                    -> venue[k].state

----------------------------------------------------------------------------
(***************************************************************************)
(* Rulings: resolve_manually, for the resolver and for a person            *)
(***************************************************************************)
\* A confirmed pending bet has nothing to reconcile.
MayRule(k, outcome) ==
  /\ IsOpen(book, k)
  /\ ~ /\ book.row[k].status = "PENDING"
       /\ ~book.row[k].reconcile
       /\ outcome \in {"NOT_PLACED", "OPEN"}
  /\ outcome # "OPEN" => CanPost(book, 0, -book.row[k].stake)

Ruled(k, outcome) ==
  LET b     == CASE outcome = "NOT_PLACED" -> Release(book, k, "REJECTED")
                 [] outcome = "OPEN" ->
                      Amend(book, k, [book.row[k] EXCEPT !.status = "PENDING",
                                                         !.attempts = 0,
                                                         !.remote = TRUE])
                 [] OTHER -> Grade(book, k, outcome)
      entry == [b.row[k] EXCEPT !.reconcile = FALSE]
  IN  MarkPeak(Amend(b, k, entry))

Rule(k, outcome) ==
  /\ lock = Nobody
  /\ MayRule(k, outcome)
  /\ book' = Ruled(k, outcome)
  /\ UNCHANGED <<work, lock>>

\* A person rules from the bookmaker's own records.
Truthful(k, outcome) ==
  CASE outcome = "NOT_PLACED" -> venue[k].state \in {"absent", "refused"}
    [] outcome = "OPEN"       -> venue[k].state = "struck"
    [] OTHER                  -> venue[k].state = outcome

ManualRuling(k) ==
  /\ \E outcome \in GradedStatuses \cup {"NOT_PLACED", "OPEN"} :
       Truthful(k, outcome) /\ Rule(k, outcome)
  /\ UNCHANGED <<pc, trail, claimed, venue, result, run>>

----------------------------------------------------------------------------
(***************************************************************************)
(* The order resolver                                                      *)
(***************************************************************************)
SetRun(w, state) == run' = [run EXCEPT ![w] = state]

\* Mutant: the update does not look at the status again.
UpdateStale(k, row) ==
  /\ RowIsFree(k)
  /\ book' = Amend(book, k, row)
  /\ UNCHANGED <<work, lock>>

\* An update of the resolver's own columns: only WHERE status = PENDING.
UpdatePending(k, row) ==
  /\ RowIsFree(k)
  /\ book' = IF book.row[k].status = "PENDING" THEN Amend(book, k, row) ELSE book
  /\ UNCHANGED <<work, lock>>

DeadLetter(k, attempts) ==
  UpdatePending(k, [book.row[k] EXCEPT !.status = "REQUIRES_MANUAL_INTERVENTION",
                                       !.attempts = attempts])

\* One due order is read, and the venue asked about it.  The run keeps what it
\* read; the row may change before the answer is applied.
Poll(w, k) ==
  /\ w \in Resolvers
  /\ run[w].pc = "idle"
  /\ book.row[k].status = "PENDING"
  /\ \E said \in {"UNAVAILABLE", VenueSays(k)} :
       SetRun(w, [pc |-> "polled", key |-> k,
                  reconcile |-> book.row[k].reconcile,
                  attempts  |-> book.row[k].attempts,
                  said |-> said, due |-> {}])
  /\ UNCHANGED <<book, work, lock, pc, trail, claimed, venue, result>>

Polled(w) == run[w].pc = "polled"

Unanswered(w) == run[w].said \in {"UNAVAILABLE", "NOT_FOUND"}

\* Mutant: a failed poll is not counted.
PollFailedUncounted(w) ==
  LET k == run[w].key IN
  /\ Polled(w)
  /\ Unanswered(w)
  /\ UpdatePending(k, [book.row[k] EXCEPT !.attempts = run[w].attempts])
  /\ SetRun(w, Idle)
  /\ UNCHANGED <<pc, trail, claimed, venue, result>>

\* _failed: one more failed poll; too many, or past the deadline, and the
\* order leaves the rotation.
PollFailed(w) ==
  LET k        == run[w].key
      attempts == run[w].attempts + 1
  IN
  /\ Polled(w)
  /\ Unanswered(w)
  /\ \/ DeadLetter(k, attempts)
     \/ /\ attempts < MaxFailures
        /\ UpdatePending(k, [book.row[k] EXCEPT !.attempts = attempts])
  /\ SetRun(w, Idle)
  /\ UNCHANGED <<pc, trail, claimed, venue, result>>

\* A confirmed bet still open: on time it is polled again, late it is not.
StillOpen(w) ==
  LET k == run[w].key IN
  /\ Polled(w)
  /\ ~run[w].reconcile /\ run[w].said = "OPEN"
  /\ \/ DeadLetter(k, run[w].attempts)
     \/ UpdatePending(k, [book.row[k] EXCEPT !.attempts = 0])
  /\ SetRun(w, Idle)
  /\ UNCHANGED <<pc, trail, claimed, venue, result>>

\* Mutant: an order that is no longer open counts as never placed.
FindingOpenOnly(w) ==
  IF run[w].said = "OPEN" THEN "OPEN" ELSE "NOT_PLACED"

\* An unconfirmed order the venue knows is confirmed; one it refused returns.
Finding(w) ==
  IF run[w].said = "REJECTED" THEN "NOT_PLACED" ELSE "OPEN"

Resolve(w) ==
  /\ Polled(w)
  /\ run[w].reconcile /\ ~Unanswered(w)
  /\ Rule(run[w].key, Finding(w))
  /\ SetRun(w, Idle)
  /\ UNCHANGED <<pc, trail, claimed, venue, result>>

\* The bankroll is mid-execution, or the bet was ruled on meanwhile.
ResolveLater(w) ==
  /\ Polled(w)
  /\ run[w].reconcile /\ ~Unanswered(w)
  /\ lock # Nobody \/ ~MayRule(run[w].key, Finding(w))
  /\ SetRun(w, Idle)
  /\ UNCHANGED <<book, work, lock, pc, trail, claimed, venue, result>>

\* The bookmaker states how a confirmed bet ended (a cancelled bet is void).
Stated(w) ==
  /\ Polled(w)
  /\ ~run[w].reconcile
  /\ run[w].said \in GradedStatuses \cup {"REJECTED"}
  /\ SetRun(w, [run[w] EXCEPT !.pc = "graded",
                   !.said = IF @ = "REJECTED" THEN "VOID" ELSE @])
  /\ UNCHANGED <<book, work, lock, pc, trail, claimed, venue, result>>

----------------------------------------------------------------------------
(***************************************************************************)
(* settle_markets                                                          *)
(***************************************************************************)
\* Mutant: every pending bet on a graded market is due.
DueUnconfirmed(w) ==
  {k \in Keys : /\ book.row[k].status = "PENDING"
                /\ \/ result[MarketOf[k]] # "NONE"
                   \/ run[w].pc = "graded" /\ run[w].key = k}

\* A bet whose placement is unconfirmed is never due.
Due(w) ==
  {k \in Keys : /\ book.row[k].status = "PENDING"
                /\ ~book.row[k].reconcile
                /\ \/ result[MarketOf[k]] # "NONE"
                   \/ run[w].pc = "graded" /\ run[w].key = k}

\* The bookmaker's statement wins over the market's result.
GradeFor(w, k) ==
  IF run[w].said \in GradedStatuses /\ run[w].key = k THEN run[w].said
  ELSE IF result[MarketOf[k]] = "VOID" THEN "VOID"
  ELSE IF result[MarketOf[k]] = Pick[k] THEN "WON" ELSE "LOST"

\* The beat task starts from nothing, a resolver run from its grade.
SweepStarts(w) ==
  \/ w \in Sweepers /\ run[w].pc = "idle"
  \/ run[w].pc = "graded"

SweepRead(w) ==
  /\ SweepStarts(w)
  /\ IF Due(w) = {}
     THEN run[w].pc = "graded" /\ SetRun(w, Idle)
     ELSE SetRun(w, [run[w] EXCEPT !.pc = "read", !.due = Due(w)])
  /\ UNCHANGED <<book, work, lock, pc, trail, claimed, venue, result>>

\* Under the lock the rows are read again, still pending.
StillDue(w) == {k \in run[w].due : book.row[k].status = "PENDING"}

SweepLock(w) ==
  /\ run[w].pc = "read"
  /\ Lock(w, book)
  /\ SetRun(w, [run[w] EXCEPT !.pc = "locked", !.due = StillDue(w)])
  /\ UNCHANGED <<book, pc, trail, claimed, venue, result>>

SweepSkip(w) ==
  /\ run[w].pc = "read"
  /\ lock # Nobody
  /\ SetRun(w, Idle)
  /\ UNCHANGED <<book, work, lock, pc, trail, claimed, venue, result>>

SweepSettle(w, k) ==
  /\ lock = w
  /\ k \in run[w].due
  /\ work.row[k].status = "PENDING"
  /\ CanClose(work, k)
  /\ work' = Grade(work, k, GradeFor(w, k))
  /\ UNCHANGED <<book, lock, pc, trail, claimed, venue, result, run>>

SweepCommit(w) ==
  /\ lock = w
  /\ \A k \in run[w].due : work.row[k].status # "PENDING"
  /\ Commit(w, MarkPeak(work))
  /\ SetRun(w, Idle)
  /\ UNCHANGED <<pc, trail, claimed, venue, result>>

\* A run raises or its process dies: the transaction is rolled back and the
\* next run starts over.
RunStops(w) ==
  /\ run[w].pc # "idle"
  /\ SetRun(w, Idle)
  /\ IF lock = w THEN Rollback ELSE UNCHANGED <<book, work, lock>>
  /\ UNCHANGED <<pc, trail, claimed, venue, result>>

----------------------------------------------------------------------------
Execute(r) ==
  \/ Claim(r) \/ Attempt(r) \/ Block(r)
  \/ LockAndReserve(r) \/ BlockAtLock(r)
  \/ Send(r) \/ NotSent(r)
  \/ Accept(r) \/ Reject(r) \/ TimeOut(r) \/ CommitFails(r)
  \/ Conclude(r) \/ Die(r)

Work(w) ==
  \/ \E k \in Keys : Poll(w, k)
  \/ PollFailed(w) \/ StillOpen(w) \/ Resolve(w) \/ ResolveLater(w) \/ Stated(w)
  \/ SweepRead(w) \/ SweepLock(w) \/ SweepSkip(w) \/ SweepCommit(w) \/ RunStops(w)
  \/ \E k \in Keys : SweepSettle(w, k)

Environment ==
  \/ \E k \in Keys : \/ Strike(k) \/ RefuseOrder(k) \/ GradeBet(k)
                     \/ ClaimExpires(k) \/ ManualRuling(k)
  \/ \E m \in Markets : RecordResult(m)

Next ==
  \/ \E r \in Requests : Execute(r)
  \/ \E w \in Workers : Work(w)
  \/ Environment

Spec == Init /\ [][Next]_vars

(***************************************************************************)
(* Fairness.  The locked section runs to completion (_run_to_completion)   *)
(* or its process dies; a worker's run goes on or stops; beat runs the     *)
(* resolver again and again, over every due order, so no order is left out *)
(* for ever and not every run is stopped or finds the bankroll locked.     *)
(***************************************************************************)
InLockedSection(r) == pc[r] \in {"reserved", "sent"} /\ Execute(r)

Fairness ==
  /\ \A r \in Requests : WF_vars(InLockedSection(r))
  /\ \A w \in Workers : WF_vars(Work(w))
  /\ \A w \in Resolvers :
       /\ \A k \in Keys : SF_vars(Poll(w, k))
       /\ SF_vars(PollFailed(w)) /\ SF_vars(Resolve(w))

FairSpec == Spec /\ Fairness

----------------------------------------------------------------------------
(***************************************************************************)
(* Properties                                                              *)
(***************************************************************************)
\* Every variable has its type; the lock holder is where a holder can be.
TypeOK ==
  /\ book \in Books
  /\ work \in Books
  /\ lock \in Requests \cup Workers \cup {Nobody}
  /\ pc \in [Requests -> Stages]
  /\ trail \in [Requests -> SUBSET Events]
  /\ claimed \in [Keys -> BOOLEAN]
  /\ venue \in [Keys -> Bets]
  /\ result \in [Markets -> Selections \cup {"NONE", "VOID"}]
  /\ run \in [Workers -> Runs]

\* The bankroll row agrees with the bets behind it, whatever interleaving of
\* executions, sweeps, rulings and crashes led here: exposure is the stakes of
\* the open bets, available what the journal's legs left of the opening
\* balance (verify_account, cfo_ledger.py).
LedgerExplainsBalances ==
  /\ book.exposure =
       SumFunctionOnSet(Stakes(book), {k \in Keys : IsOpen(book, k)})
  /\ book.available =
       Opening + SumFunctionOnSet([k \in Keys |-> book.legs[k].available], Keys)

\* Every bet's legs tell its story, and no payout, return or loss is booked
\* twice or audited differently from the journal, whoever raced to close it.
JournalTellsEveryBet == \A k \in Keys : BetJournal(book, k)

\* The drawdown limit is a share of the peak: the peak is the highest equity
\* any transaction left behind, and no order of settling the bets of one sweep
\* mints one in between (mark_peak, cfo_ledger.py).
PeakIsHighWaterMark ==
  [][book'.peak =
       IF Equity(book') > book.peak THEN Equity(book') ELSE book.peak]_vars

\* A bet alive at the bookmaker is never out of sight: its stake is in the
\* ledger, or an EXECUTION_ATTEMPT without an outcome or a COMMIT_FAILED row
\* points at it ("exactly what reconciliation looks for", cfo_execution.py).
OpenAttempt(r) ==
  "EXECUTION_ATTEMPT" \in trail[r] /\ trail[r] \cap (Outcomes \cup {"BLOCKED"}) = {}

Traced(k) ==
  \E r \in Requests : KeyOf[r] = k /\ (OpenAttempt(r) \/ "COMMIT_FAILED" \in trail[r])

LiveBetIsInSight ==
  \A k \in Keys :
    venue[k].state = "struck" =>
      book.row[k].status \notin {"NONE", "REJECTED"} \/ Traced(k)

\* Nothing is paid out, or booked as lost, on a bet that was never struck,
\* even when the market is graded while the placement is still unconfirmed.
NeverGradesAnUnstruckBet ==
  \A k \in Keys :
    book.row[k].status \in {"WON", "LOST"} => venue[k].state \in Known

\* Orders racing through their unlocked guards cannot together exceed the
\* fixture's share of equity: at the bookmaker call the reservation is inside.
MarketCapHolds ==
  \A r \in Requests :
    lock = r => 100 * OpenOnMarket(work, KeyOf[r]) <= MarketPct * Equity(work)

\* Of all requests that carry one idempotency key, before and after the Redis
\* claim expires, at most one ends with a bet in the ledger.
Executed(r) ==
  \/ pc[r] \in {"EXECUTED", "EXECUTION_UNKNOWN"}
  \/ trail[r] \cap {"EXECUTED", "EXECUTION_UNKNOWN"} # {}

OneExecutionPerKey ==
  \A r, s \in Requests :
    KeyOf[r] = KeyOf[s] /\ Executed(r) /\ Executed(s) => r = s

\* A closed bet never moves again: no second payout, no reopening, no matter
\* which stale reads the sweep, the resolver and a person act on.
ClosedIsFinal ==
  [][\A k \in Keys : book.row[k].status \in ClosedStatuses =>
       book'.row[k] = book.row[k] /\ book'.legs[k] = book.legs[k]]_vars

\* The committed ledger and the bookmaker's records implement the promise of
\* BetEscrow: every bet's money moves out once, back at most once, and never
\* as a win or a loss without a struck bet.
StageOf(status) ==
  CASE status = "NONE" -> "none"
    [] status \in OpenStatuses -> "held"
    [] status \in {"REJECTED", "VOID"} -> "returned"
    [] status = "WON" -> "won"
    [] status = "LOST" -> "lost"

Escrow ==
  INSTANCE BetEscrow WITH
    bet    <- [k \in Keys |-> [stage |-> StageOf(book.row[k].status),
                               held  |-> book.legs[k].exposure,
                               net   |-> book.legs[k].available]],
    struck <- {k \in Keys : venue[k].state \in Known}

ImplementsEscrow == Escrow!Spec

\* What a caller sees of an order: its row, and whether a request for it may
\* still reach the ledger.
RowSeen(k) ==
  LET entry == book.row[k] IN
  [status |-> CASE entry.status = "PENDING" /\ entry.reconcile -> "UNCONFIRMED"
                [] entry.status \in GradedStatuses -> "SETTLED"
                [] OTHER -> entry.status,
   stake |-> entry.stake]

Over == Outcomes \cup {"done", "dead"}

Underway(k) == \E r \in Requests : KeyOf[r] = k /\ pc[r] \notin Over

\* The executor and all that moves its rows afterwards keep the contract on
\* which callers build (the smart router: dispatcher timeouts, a sweep that
\* reads rows): an execution that has ended, or died, leaves no row later, a
\* row in doubt holds the whole stake, a returned one was never struck.
Contract ==
  INSTANCE ExecutorContract WITH
    row    <- [k \in Keys |-> RowSeen(k)],
    asked  <- Stake,
    open   <- {k \in Keys : Underway(k)},
    struck <- {k \in Keys : venue[k].state \in Known}

KeepsContract == Contract!Spec

\* An order the bookmaker never confirmed does not stay unresolved: it is
\* confirmed, returned, ruled on or handed to a person.
InDoubt(k) == book.row[k].status = "PENDING" /\ book.row[k].reconcile

DoubtEnds == \A k \in Keys : InDoubt(k) ~> ~InDoubt(k)

\* A dead-lettered order: "nothing retries it until a person resolves it"
\* (models/cfo_vault.py).
DeadLetterWaitsForAPerson ==
  [][\A k \in Keys :
       /\ book.row[k].status = "REQUIRES_MANUAL_INTERVENTION"
       /\ book'.row[k].status # "REQUIRES_MANUAL_INTERVENTION"
       => ManualRuling(k)]_vars
=============================================================================
