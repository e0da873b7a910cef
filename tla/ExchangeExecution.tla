------------------------- MODULE ExchangeExecution -------------------------
(***************************************************************************)
(* The exchange execution of services/execution_service.py and the admin's *)
(* reconciliation of services/reconciliation_service.py, on the rows of    *)
(* bet_ledger: a request reserves exposure under its user's mandate lock,  *)
(* calls the exchange with no lock held, and writes what it learnt.        *)
(*                                                                         *)
(* The unit of time is EXCHANGE_TIMEOUT_SECONDS.  wait_for ends the call   *)
(* after one unit; that a database step takes no longer than that either   *)
(* is an assumption, the one the gap of the sweep rests on.                *)
(***************************************************************************)
EXTENDS Naturals, FiniteSets, Functions

CONSTANTS
  ExRequests,   \* calls of execute_bet
  ExUsers,
  ExKeys,       \* idempotency keys
  ExOrders,     \* what the requests may ask: functions into ExOrder
  MaxExposure,  \* max_daily_exposure of every mandate
  MaxStake      \* max_stake_per_bet of every mandate

ExOrder == [user : ExUsers, key : ExKeys, stake : Nat \ {0}]

ASSUME ExAssumption ==
  /\ IsFiniteSet(ExRequests) /\ IsFiniteSet(ExKeys)
  /\ "free" \notin ExRequests       \* stands for no holder of a lock
  /\ ExOrders \subseteq [ExRequests -> ExOrder]
  /\ MaxExposure \in Nat /\ MaxStake \in Nat

\* Mutant: the sweep rules before the adapter's timeout.
StaleAtOnce == 2

StaleAfter == 6     \* STALE_AFTER_SECONDS

VARIABLES
  exOrder,      \* what each request asks for
  stage,        \* where each request is
  since,        \* time in this stage
  outcome,      \* what a request is about to write
  mandate,      \* per user: who holds the row lock of its mandate
  exRow,        \* per key: the committed row of bet_ledger
  placedAgo,    \* per key: the age of that row, up to where nobody asks
  atVenue,      \* per request: its bet at the exchange
  sent          \* history: per key, how often a bet was sent

exVars == <<exOrder, stage, since, outcome, mandate, exRow, placedAgo,
            atVenue, sent>>

NoBet == [by |-> "nobody", status |-> "NONE"]
ExposureStatuses == {"PENDING_NETWORK", "ACCEPTED", "UNKNOWN"}

ExInit ==
  /\ exOrder \in ExOrders
  /\ stage = [r \in ExRequests |-> "preflight"]
  /\ since = [r \in ExRequests |-> 0]
  /\ outcome = [r \in ExRequests |-> "NONE"]
  /\ mandate = [u \in ExUsers |-> "free"]
  /\ exRow = [k \in ExKeys |-> NoBet]
  /\ placedAgo = [k \in ExKeys |-> 0]
  /\ atVenue = [r \in ExRequests |-> "nothing"]
  /\ sent = [k \in ExKeys |-> 0]

UserOf(r) == exOrder[r].user
KeyOf(r) == exOrder[r].key
StakeOf(r) == exOrder[r].stake

Enters(r, s) ==
  /\ stage' = [stage EXCEPT ![r] = s]
  /\ since' = [since EXCEPT ![r] = 0]

-----------------------------------------------------------------------------
(* Phase 1: under the lock of the mandate. *)

\* No account, no credentials, a halt, a stake or odds out of bounds; or, under
\* the lock, no mandate or a stop-loss.
Refused(r) ==
  /\ stage[r] \in {"preflight", "waiting"}
  /\ stage[r] = "waiting" => mandate[UserOf(r)] = "free"
  /\ Enters(r, "answered")
  /\ UNCHANGED <<exOrder, outcome, mandate, exRow, placedAgo, atVenue, sent>>

Preflight(r) ==
  /\ stage[r] = "preflight"
  /\ Enters(r, "waiting")
  /\ UNCHANGED <<exOrder, outcome, mandate, exRow, placedAgo, atVenue, sent>>

\* Another transaction has inserted the same key and not committed yet: the
\* unique index makes this one wait.
Inserting(k) == \E q \in ExRequests : stage[q] = "inserted" /\ KeyOf(q) = k

\* Mutant: a key may be used again after a rejection.
KeyTakenByALiveBet(k) == exRow[k].status \notin {"NONE", "REJECTED"}

\* The key has a row: replayed to its own user, 409 to another's.
KeyTaken(k) == exRow[k].status # "NONE"

Counted(k, u) == exRow[k].status \in ExposureStatuses /\ UserOf(exRow[k].by) = u

Exposure(u) ==
  LET counted == {k \in ExKeys : Counted(k, u)}
  IN  SumFunctionOnSet([k \in counted |-> StakeOf(exRow[k].by)], counted)

\* Mutant: the mandate is read without FOR UPDATE.
MandateUnlocked(r) == TRUE

MandateFree(r) == mandate[UserOf(r)] = "free"

Reserve(r) ==
  /\ stage[r] = "waiting"
  /\ MandateFree(r)
  /\ ~Inserting(KeyOf(r))
  /\ IF \/ KeyTaken(KeyOf(r))
        \/ StakeOf(r) > MaxStake
        \/ Exposure(UserOf(r)) + StakeOf(r) > MaxExposure
     THEN Enters(r, "answered") /\ UNCHANGED mandate
     ELSE Enters(r, "inserted") /\ mandate' = [mandate EXCEPT ![UserOf(r)] = r]
  /\ UNCHANGED <<exOrder, outcome, exRow, placedAgo, atVenue, sent>>

\* The row is visible and the lock is free; placed_at was set by the flush.
CommitRow(r) ==
  /\ stage[r] = "inserted"
  /\ exRow' = [exRow EXCEPT ![KeyOf(r)] = [by |-> r, status |-> "PENDING_NETWORK"]]
  /\ placedAgo' = [placedAgo EXCEPT ![KeyOf(r)] = since[r]]
  /\ mandate' = [mandate EXCEPT ![UserOf(r)] = "free"]
  /\ Enters(r, "saved")
  /\ UNCHANGED <<exOrder, outcome, atVenue, sent>>

-----------------------------------------------------------------------------
(* Phase 2: the call, no lock held; and the exchange. *)

Send(r) ==
  /\ stage[r] = "saved"
  /\ Enters(r, "calling")
  /\ atVenue' = [atVenue EXCEPT ![r] = "on the wire"]
  /\ sent' = [sent EXCEPT ![KeyOf(r)] = @ + 1]
  /\ UNCHANGED <<exOrder, outcome, mandate, exRow, placedAgo>>

\* The exchange strikes it or refuses it, or never sees it; perhaps after the
\* caller has given up.
Arrive(r) ==
  /\ atVenue[r] = "on the wire"
  /\ \E v \in {"live", "refused", "lost"} : atVenue' = [atVenue EXCEPT ![r] = v]
  /\ UNCHANGED <<exOrder, stage, since, outcome, mandate, exRow, placedAgo, sent>>

\* Mutant: a timeout is taken for a rejection.
InDoubtIsRejected == "REJECTED"

\* A timeout, a cancelled request, or any other failure of the adapter.
InDoubt == "UNKNOWN"

Answered(r, status) ==
  /\ stage[r] = "calling"
  /\ Enters(r, "writing")
  /\ outcome' = [outcome EXCEPT ![r] = status]
  /\ UNCHANGED <<exOrder, mandate, exRow, placedAgo, atVenue, sent>>

Accepted(r) == atVenue[r] = "live" /\ Answered(r, "ACCEPTED")
Rejected(r) == atVenue[r] = "refused" /\ Answered(r, "REJECTED")
Doubt(r) == Answered(r, InDoubt)

-----------------------------------------------------------------------------
(* Phase 3: an update of the row by its id, whatever it holds by now. *)

Finalize(r) ==
  /\ stage[r] = "writing"
  /\ exRow' = [exRow EXCEPT ![KeyOf(r)].status = outcome[r]]
  /\ Enters(r, "answered")
  /\ UNCHANGED <<exOrder, outcome, mandate, placedAgo, atVenue, sent>>

\* The commit fails, or the process dies: what was committed stays, and the
\* lock goes with the connection.
Strand(r) ==
  /\ stage[r] \in {"waiting", "inserted", "saved", "calling", "writing"}
  /\ mandate' = [u \in ExUsers |-> IF mandate[u] = r THEN "free" ELSE mandate[u]]
  /\ Enters(r, "answered")
  /\ UNCHANGED <<exOrder, outcome, exRow, placedAgo, atVenue, sent>>

-----------------------------------------------------------------------------
(* The admin: the sweep of stranded calls, and a ruling on a doubt. *)

Stranded(k) == exRow[k].status = "PENDING_NETWORK" /\ placedAgo[k] > StaleAfter

SweepStaleBets ==
  /\ \E k \in ExKeys : Stranded(k)
  /\ exRow' = [k \in ExKeys |-> IF Stranded(k) THEN [exRow[k] EXCEPT !.status = "UNKNOWN"]
                                ELSE exRow[k]]
  /\ UNCHANGED <<exOrder, stage, since, outcome, mandate, placedAgo, atVenue, sent>>

\* The admin rules as the exchange has it, once it has it.
ResolveUnknownBet(k) ==
  /\ exRow[k].status = "UNKNOWN"
  /\ atVenue[exRow[k].by] # "on the wire"
  /\ exRow' = [exRow EXCEPT ![k].status =
                 IF atVenue[exRow[k].by] = "live" THEN "ACCEPTED" ELSE "REJECTED"]
  /\ UNCHANGED <<exOrder, stage, since, outcome, mandate, placedAgo, atVenue, sent>>

\* Between the flush of the row and the end of the request no step takes more
\* than a unit.
Timed == {"inserted", "saved", "calling", "writing"}

ExTick ==
  /\ \A r \in ExRequests : stage[r] \in Timed => since[r] = 0
  /\ \E k \in ExKeys : exRow[k].status = "PENDING_NETWORK" /\ placedAgo[k] <= StaleAfter
  /\ since' = [r \in ExRequests |-> IF stage[r] \in Timed THEN 1 ELSE 0]
  /\ placedAgo' = [k \in ExKeys |->
       IF exRow[k].status = "PENDING_NETWORK" /\ placedAgo[k] <= StaleAfter
       THEN placedAgo[k] + 1 ELSE placedAgo[k]]
  /\ UNCHANGED <<exOrder, stage, outcome, mandate, exRow, atVenue, sent>>

ExNext ==
  \/ \E r \in ExRequests :
       \/ Refused(r) \/ Preflight(r) \/ Reserve(r) \/ CommitRow(r) \/ Send(r)
       \/ Arrive(r) \/ Accepted(r) \/ Rejected(r) \/ Doubt(r) \/ Finalize(r)
       \/ Strand(r)
  \/ SweepStaleBets
  \/ \E k \in ExKeys : ResolveUnknownBet(k)
  \/ ExTick

ExSpec == ExInit /\ [][ExNext]_exVars

-----------------------------------------------------------------------------
ExStages == {"preflight", "waiting", "inserted", "saved", "calling", "writing",
             "answered"}
ExStatuses == ExposureStatuses \cup {"REJECTED"}

\* Every variable stays in its domain.
ExTypeOK ==
  /\ exOrder \in [ExRequests -> ExOrder]
  /\ stage \in [ExRequests -> ExStages]
  /\ since \in [ExRequests -> 0..1]
  /\ outcome \in [ExRequests -> {"NONE"} \cup ExStatuses]
  /\ mandate \in [ExUsers -> ExRequests \cup {"free"}]
  /\ exRow \in [ExKeys -> {NoBet} \cup [by : ExRequests, status : ExStatuses]]
  /\ placedAgo \in [ExKeys -> 0..(StaleAfter + 1)]
  /\ atVenue \in [ExRequests -> {"nothing", "on the wire", "live", "refused", "lost"}]
  /\ sent \in [ExKeys -> Nat]

\* The mandate is never exceeded, however many requests of one user check it
\* at once and whatever is still unconfirmed (execution_service.py:187-203).
ExposureWithinMandate == \A u \in ExUsers : Exposure(u) <= MaxExposure

\* A bet that is live at the exchange is always in its user's exposure, after
\* timeouts, cancellations, crashes, failed writes, sweeps and rulings.
LiveBetIsCounted ==
  \A r \in ExRequests : atVenue[r] = "live" =>
    /\ Counted(KeyOf(r), UserOf(r))
    /\ exRow[KeyOf(r)].by = r

\* "NEVER re-send it to the exchange" (execution_service.py:175): one bet per
\* idempotency key, also for a retry that races the first request, or follows
\* a crash, a timeout or a refusal, and for another user's use of the key.
OneSendPerKey == \A k \in ExKeys : sent[k] <= 1

\* What is settled between the exchange and the ledger stays: no late write of
\* a request lands on a row that an admin has ruled on, because the sweep
\* never reaches a bet that is still in its call ("the time gap is the only
\* guard", reconciliation_service.py:22).
RulingStands ==
  [][\A k \in ExKeys : exRow[k].status \in {"ACCEPTED", "REJECTED"} =>
       exRow'[k] = exRow[k]]_exVars
=============================================================================
