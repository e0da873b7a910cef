-------------------------- MODULE ExecutorContract --------------------------
(***************************************************************************)
(* What whoever hands orders to the two-phase executor may rely on: the    *)
(* rows it can leave in the ledger, when, and what the resolver, the       *)
(* settlement sweep and a person make of them afterwards.  CfoExecution,   *)
(* with its locks, stale reads and crashes, implements this specification; *)
(* it is all that SmartRouter knows of it.                                 *)
(*                                                                         *)
(* A bet whose answer was lost may still be struck, so a caller sees only  *)
(* in hindsight whether it was.  SmartRouter chooses it when the execution *)
(* ends: until a late strike the one move of such a row is the hand-over   *)
(* to a person, which a struck bet may make as well.                       *)
(***************************************************************************)
EXTENDS Integers

CONSTANT Keys   \* orders

VARIABLES
  row,      \* each order's row: PENDING is told apart by reconcile_required
  asked,    \* the stake each order asks for, 0 while that is open
  open,     \* the orders of which an execution may still be running
  struck    \* the orders the bookmaker struck

vars == <<row, asked, open, struck>>

NoRow == [status |-> "NONE", stake |-> 0]

Init ==
  /\ row = [k \in Keys |-> NoRow]
  /\ struck = {}

\* The rows an execution may leave, besides none: a confirmed bet, matched
\* whole or in part, or one in doubt that holds the whole stake.
Leavings(stake) ==
  {[status |-> "PENDING", stake |-> matched] : matched \in 1..stake} \cup
  {[status |-> "UNCONFIRMED", stake |-> stake]}

\* What a person, or the venue's later answer, makes of a doubtful row.
Rulings(isStruck) == IF isStruck THEN {"PENDING", "SETTLED"} ELSE {"REJECTED"}

\* What a row may become: one in doubt is ruled on, or goes to a person who
\* rules on it; a confirmed bet is settled, or goes to a person when it is late.
NextStatuses(status, isStruck) ==
  CASE status = "UNCONFIRMED" ->
         {"REQUIRES_MANUAL_INTERVENTION"} \cup Rulings(isStruck)
    [] status = "REQUIRES_MANUAL_INTERVENTION" -> Rulings(isStruck)
    [] status = "PENDING" -> {"REQUIRES_MANUAL_INTERVENTION", "SETTLED"}
    [] OTHER -> {}

Leave(k) ==
  /\ k \in open
  /\ row[k].status = "NONE"
  /\ row'[k] \in Leavings(asked[k])
  /\ row'[k].status = "PENDING" => k \in struck'

Rule(k) ==
  \E status \in NextStatuses(row[k].status, k \in struck') :
    row'[k] = [row[k] EXCEPT !.status = status]

\* One transaction moves any number of rows, each by one step; an execution
\* that has ended does not begin again, a struck bet stays struck, and no
\* bet is struck whose row says that there was none.
Next ==
  /\ \A k \in Keys : row'[k] = row[k] \/ Leave(k) \/ Rule(k)
  /\ \A k \in Keys : asked'[k] = asked[k] \/ asked[k] = 0
  /\ open' \subseteq open
  /\ struck \subseteq struck'
  /\ \A k \in Keys : row'[k].status = "REJECTED" => k \notin struck'

Spec == Init /\ [][Next]_vars
=============================================================================
