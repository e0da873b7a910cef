------------------------------ MODULE HiveMerge ------------------------------
(***************************************************************************)
(* The bots of one owner on one market (services/hive_engine.py and        *)
(* workers/hive_worker.py): signals that fire an order or plan a sliced    *)
(* one, the Celery tasks that run the slices, the Redis lock with a time   *)
(* to live that makes them take turns, and the check for a wash trade      *)
(* under it.                                                               *)
(*                                                                         *)
(* Work is numbered by pairs: <<0, n>> is signal n, <<i, d>> delivery d of *)
(* the task of slice i.  Signal 1 is for a bot that slices its orders.     *)
(* There is no clock: the lock of a turn and the executor's claim on a key *)
(* run out at any time.  Nothing in the code keeps a turn shorter than     *)
(* HIVE_MERGE_LOCK_MS, and a task that is delivered again comes later than *)
(* CFO_IDEMPOTENCY_TTL_SECONDS.                                            *)
(***************************************************************************)
EXTENDS Integers, FiniteSets

CONSTANTS
  Signals,      \* signals 1..Signals
  Slices,       \* slices of the plan, 1..Slices
  Redeliveries  \* bound on the tasks that are delivered twice

ASSUME HiveAssumption ==
  /\ Signals \in Nat \ {0} /\ Slices \in Nat \ {0}
  /\ Redeliveries \in Nat

VARIABLES
  mergeLock,    \* who holds the merge lock, or NoOne
  turn,         \* per piece of work: where it is
  verdict,      \* what it will write to the plan
  selection,    \* per signal: the outcome it backs
  plan,         \* status of the plan and of its slices
  claimed,      \* the executor's idempotency keys in Redis
  open,         \* the open positions on the ledger, by their key
  struck,       \* history: how often each bet was struck
  lost,         \* history: how often its row was rolled back all the same
  overrun       \* history: a lock has run out in its holder's turn

hiveVars == <<mergeLock, turn, verdict, selection, plan,
              claimed, open, struck, lost, overrun>>

SignalWork == {<<0, n>> : n \in 1..Signals}
SliceWork == (1..Slices) \X {1, 2}
Work == SignalWork \cup SliceWork

IsSlice(a) == a[1] > 0
NoOne == <<0, 0>>
HalfDone == {"locked", "clear", "claimed", "placing", "releasing"}   \* holding the turn

\* Mutant: a slice fires under a key of its attempt.
SliceKeyOfAttempt(a) == a

\* uuid5 of the bot and the signal, or of the plan and the slice's index: every
\* delivery of a slice has the same key.
SliceKey(a) == <<a[1], 0>>
Key(a) == IF IsSlice(a) THEN SliceKey(a) ELSE a
Keys == {Key(a) : a \in Work}

\* The bet a delivery is for: the signal's, or the slice's.
BetOf(a) == IF IsSlice(a) THEN <<a[1], 0>> ELSE a
Bets == {BetOf(a) : a \in Work}

Backs(a) == selection[IF IsSlice(a) THEN 1 ELSE a[2]]

HiveInit ==
  /\ mergeLock = NoOne
  /\ turn = [a \in Work |-> IF IsSlice(a) THEN "unscheduled" ELSE "queued"]
  /\ verdict = [a \in Work |-> "NONE"]
  /\ selection \in {f \in [1..Signals -> {"home", "away"}] : f[1] = "home"}
  /\ plan = [status |-> "NONE", slices |-> [i \in 1..Slices |-> "SCHEDULED"]]
  /\ claimed = {}
  /\ open = {}
  /\ struck = [b \in Bets |-> 0]
  /\ lost = [b \in Bets |-> 0]
  /\ overrun = FALSE

Goes(a, to) == turn' = [turn EXCEPT ![a] = to]

bets == <<open, struck, lost>>
executor == <<claimed, bets, overrun>>

-----------------------------------------------------------------------------
(* _update_plan, under the lock of the plan's row. *)

Outcome(i, status) ==
  LET rest == status # "FIRED"
      after == [j \in 1..Slices |->
                  IF j = i THEN status
                  ELSE IF rest /\ j > i /\ plan.slices[j] = "SCHEDULED" THEN "CANCELLED"
                  ELSE plan.slices[j]]
      final == \A j \in 1..Slices : after[j] # "SCHEDULED"
  IN  plan' = [status |-> IF ~final THEN "RUNNING" ELSE IF rest THEN "CANCELLED"
                          ELSE "COMPLETE",
               slices |-> after]

\* A signal gives up; a slice cancels itself and the rest first.
GivesUp(a, to) ==
  /\ Goes(a, to)
  /\ IF IsSlice(a) THEN Outcome(a[1], "CANCELLED") ELSE UNCHANGED plan

-----------------------------------------------------------------------------
(* Before the turn. *)

\* run_slice reads the plan; a cancelled one ends the task.
LoadPlan(a) ==
  /\ IsSlice(a) /\ turn[a] = "queued"
  /\ Goes(a, IF plan.status = "CANCELLED" THEN "done" ELSE "loaded")
  /\ UNCHANGED <<mergeLock, verdict, selection, plan, executor>>

Ready(a) == turn[a] = IF IsSlice(a) THEN "loaded" ELSE "queued"

\* Halted, or the halt flag unreadable; no proposal; the bot paused, the edge
\* gone, no gateway for its mode.
NothingToFire(a) ==
  /\ Ready(a)
  /\ GivesUp(a, "done")
  /\ UNCHANGED <<mergeLock, verdict, selection, executor>>

\* Mutant: SET without NX.
TakeTurnFromHolder(a) ==
  /\ Ready(a)
  /\ mergeLock' = a
  /\ Goes(a, "locked")
  /\ UNCHANGED <<verdict, selection, plan, executor>>

\* SET NX: a busy market is not waited for.
TakeTurn(a) ==
  /\ Ready(a)
  /\ IF mergeLock = NoOne
     THEN mergeLock' = a /\ Goes(a, "locked") /\ UNCHANGED plan
     ELSE GivesUp(a, "done") /\ UNCHANGED mergeLock
  /\ UNCHANGED <<verdict, selection, executor>>

-----------------------------------------------------------------------------
(* The turn. *)

Opposed(a) ==
  \E k \in open : selection[IF k[1] > 0 THEN 1 ELSE k[2]] # Backs(a)

WashTrade(a) ==
  /\ turn[a] = "locked"
  /\ IF Opposed(a) THEN GivesUp(a, "releasing") ELSE Goes(a, "clear") /\ UNCHANGED plan
  /\ UNCHANGED <<mergeLock, verdict, selection, executor>>

\* A velocity or drawdown breaker trips, and suspends the bot.
Breaker(a) ==
  /\ turn[a] = "clear"
  /\ GivesUp(a, "releasing")
  /\ UNCHANGED <<mergeLock, verdict, selection, executor>>

\* _plan: the plan is committed, then its tasks are queued; a process that dies
\* in between leaves the later ones out.
PlanSlices(a) ==
  /\ a = <<0, 1>> /\ turn[a] = "clear"
  /\ plan' = [plan EXCEPT !.status = "SCHEDULED"]
  /\ \E queued \in 0..Slices :
       turn' = [b \in Work |->
         IF b = a THEN IF queued = Slices THEN "releasing" ELSE "done"
         ELSE IF IsSlice(b) /\ b[1] <= queued /\ b[2] = 1 THEN "queued" ELSE turn[b]]
  /\ UNCHANGED <<mergeLock, verdict, selection, executor>>

\* execute_leg refuses: what a slice writes to the plan then.
LegRefused(a) ==
  /\ Goes(a, "releasing")
  /\ verdict' = [verdict EXCEPT ![a] = IF IsSlice(a) THEN "FAILED" ELSE @]

\* _claim: SET NX EX.
Execute(a) ==
  /\ turn[a] = "clear" /\ a # <<0, 1>>
  /\ IF Key(a) \in claimed
     THEN LegRefused(a) /\ UNCHANGED claimed
     ELSE /\ Goes(a, "claimed")
          /\ claimed' = claimed \cup {Key(a)}
          /\ UNCHANGED verdict
  /\ UNCHANGED <<mergeLock, selection, plan, bets, overrun>>

\* _locked, up to the call: the bankroll lock, which an earlier delivery gives
\* back only after the bookmaker's answer, and the reservation; the ledger's
\* unique key refuses one that is there already.
ReserveBet(a) ==
  /\ turn[a] = "claimed"
  /\ \A b \in Work : turn[b] = "placing" => Key(b) # Key(a)
  /\ IF Key(a) \in open THEN LegRefused(a) ELSE Goes(a, "placing") /\ UNCHANGED verdict
  /\ UNCHANGED <<mergeLock, selection, plan, executor>>

\* A guard, a locked bankroll or the bookmaker refuses.
NotPlaced(a) ==
  /\ turn[a] \in {"claimed", "placing"}
  /\ LegRefused(a)
  /\ UNCHANGED <<mergeLock, selection, plan, executor>>

\* The bookmaker has struck the bet, and the row is committed: it is there when
\* the bookmaker has answered, not before.
Placed(a) ==
  /\ turn[a] = "placing"
  /\ open' = open \cup {Key(a)}
  /\ struck' = [struck EXCEPT ![BetOf(a)] = @ + 1]
  /\ Goes(a, "releasing")
  /\ verdict' = [verdict EXCEPT ![a] = IF IsSlice(a) THEN "FIRED" ELSE @]
  /\ UNCHANGED <<mergeLock, selection, plan, claimed, lost, overrun>>

\* The bookmaker has struck the bet, and its row is rolled back.
StruckAndLost(a) ==
  /\ struck' = [struck EXCEPT ![BetOf(a)] = @ + 1]
  /\ lost' = [lost EXCEPT ![BetOf(a)] = @ + 1]

\* The commit fails: LEDGER_COMMIT_FAILED.
CommitFails(a) ==
  /\ turn[a] = "placing"
  /\ StruckAndLost(a)
  /\ LegRefused(a)
  /\ UNCHANGED <<mergeLock, selection, plan, claimed, open, overrun>>

\* Compare and delete; what a slice has done is written after that.
EndTurn(a) ==
  /\ turn[a] = "releasing"
  /\ mergeLock' = IF mergeLock = a THEN NoOne ELSE mergeLock
  /\ Goes(a, IF IsSlice(a) /\ verdict[a] # "NONE" THEN "reporting" ELSE "done")
  /\ UNCHANGED <<verdict, selection, plan, executor>>

Report(a) ==
  /\ turn[a] = "reporting"
  /\ Outcome(a[1], verdict[a])
  /\ Goes(a, "done")
  /\ verdict' = [verdict EXCEPT ![a] = "NONE"]
  /\ UNCHANGED <<mergeLock, selection, executor>>

-----------------------------------------------------------------------------
(* Faults and time. *)

\* The process dies, its lock stays; the bet it was placing may be struck.
WorkDies(a) ==
  /\ turn[a] \in HalfDone \cup {"loaded", "reporting"}
  /\ Goes(a, "done")
  /\ verdict' = [verdict EXCEPT ![a] = "NONE"]
  /\ \/ UNCHANGED <<struck, lost>>
     \/ turn[a] = "placing" /\ StruckAndLost(a)
  /\ UNCHANGED <<mergeLock, selection, plan, claimed, open, overrun>>

\* acks_late: a task that was not acknowledged in time is delivered again, and
\* the first delivery may still be running.
Redelivered ==
  Cardinality({i \in 1..Slices : turn[<<i, 2>>] # "unscheduled"})

Redeliver(i) ==
  /\ turn[<<i, 1>>] # "unscheduled"
  /\ turn[<<i, 2>>] = "unscheduled"
  /\ Redelivered < Redeliveries
  /\ Goes(<<i, 2>>, "queued")
  /\ UNCHANGED <<mergeLock, verdict, selection, plan, executor>>

\* The time to live of the merge lock, whatever its holder is doing.
MergeLockRunsOut ==
  /\ mergeLock # NoOne
  /\ mergeLock' = NoOne
  /\ overrun' = (overrun \/ turn[mergeLock] \in HalfDone)
  /\ UNCHANGED <<turn, verdict, selection, plan, claimed, bets>>

ClaimRunsOut(k) ==
  /\ k \in claimed
  /\ claimed' = claimed \ {k}
  /\ UNCHANGED <<mergeLock, turn, verdict, selection, plan, bets, overrun>>

HiveNext ==
  \/ \E a \in Work :
       \/ LoadPlan(a) \/ NothingToFire(a) \/ TakeTurn(a)
       \/ WashTrade(a) \/ Breaker(a) \/ PlanSlices(a)
       \/ Execute(a) \/ ReserveBet(a) \/ NotPlaced(a) \/ Placed(a) \/ CommitFails(a)
       \/ EndTurn(a) \/ Report(a) \/ WorkDies(a)
  \/ \E i \in 1..Slices : Redeliver(i)
  \/ MergeLockRunsOut
  \/ \E k \in claimed : ClaimRunsOut(k)

HiveSpec == HiveInit /\ [][HiveNext]_hiveVars

-----------------------------------------------------------------------------
SliceStatus == {"SCHEDULED", "FIRED", "FAILED", "CANCELLED"}

\* Every variable stays in its domain.
HiveTypeOK ==
  /\ mergeLock \in Work \cup {NoOne}
  /\ turn \in [Work -> HalfDone \cup {"unscheduled", "queued", "loaded", "reporting", "done"}]
  /\ verdict \in [Work -> {"NONE", "FIRED", "FAILED"}]
  /\ selection \in [1..Signals -> {"home", "away"}]
  /\ plan \in [status : {"NONE", "SCHEDULED", "RUNNING", "COMPLETE", "CANCELLED"},
               slices : [1..Slices -> SliceStatus]]
  /\ claimed \subseteq Keys
  /\ open \subseteq Keys
  /\ struck \in [Bets -> Nat]
  /\ lost \in [Bets -> Nat]
  /\ overrun \in BOOLEAN

\* No wash trade, as long as no turn has outlived its lock: on the ledger the
\* owner's bots never hold positions on two outcomes of one market, although the
\* row a bot checks for appears only when the bookmaker has answered, a worker
\* may die holding the lock, and slices run minutes after their signal
\* (hive_engine.py:425-457).  hive_engine.py:9 and config.py:167 say it of every
\* turn; nothing ends a turn before its lock does.
NoWashTrade ==
  ~overrun =>
    \A j, k \in open : selection[IF j[1] > 0 THEN 1 ELSE j[2]]
                         = selection[IF k[1] > 0 THEN 1 ELSE k[2]]

\* A slice is sent again only when its bet is not on the ledger: whether its
\* task is delivered twice, the second time perhaps while the first still runs,
\* whether the lock of the turn or the claim on its key has run out, a bet is
\* struck at most once more than its row was rolled back.  What stops the second
\* bet then is the bookmaker's own check of the key, which the model leaves out.
SecondBetNeedsALostRow == \A b \in Bets : struck[b] <= lost[b] + 1
=============================================================================
