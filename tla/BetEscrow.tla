------------------------------ MODULE BetEscrow ------------------------------
(***************************************************************************)
(* What the CFO ledger promises about each bet, whatever happens between   *)
(* the click and the payout: its stake leaves the balance at most once,    *)
(* comes back or is booked as lost at most once, and it is paid out or     *)
(* lost only if the bookmaker really struck it, at a price the bookmaker   *)
(* can strike at.  CfoExecution implements this specification.             *)
(***************************************************************************)
EXTENDS Integers

CONSTANTS Keys,    \* orders
          Stake,   \* [Keys -> Nat], the stake each order asks for
          Prices   \* profit per rupee staked

VARIABLES
  bet,      \* each order's stage, the stake held, what it made of the balance
  struck    \* the orders the bookmaker struck

vars == <<bet, struck>>

Init ==
  /\ bet = [k \in Keys |-> [stage |-> "none", held |-> 0, net |-> 0]]
  /\ struck = {}

Strike(k) ==
  /\ k \notin struck
  /\ struck' = struck \cup {k}
  /\ UNCHANGED bet

\* The stake, or the part of it that was matched, leaves the balance.
Hold(k) ==
  /\ bet[k].stage = "none"
  /\ \E amount \in 1..Stake[k] :
       bet'[k] = [stage |-> "held", held |-> amount, net |-> -amount]

\* Never struck, or void: it comes back whole.
Return(k) ==
  /\ bet[k].stage = "held"
  /\ bet'[k] = [stage |-> "returned", held |-> 0, net |-> 0]

Win(k) ==
  /\ bet[k].stage = "held"
  /\ k \in struck
  /\ \E price \in Prices :
       bet'[k] = [stage |-> "won", held |-> 0, net |-> bet[k].held * price]

Lose(k) ==
  /\ bet[k].stage = "held"
  /\ k \in struck
  /\ bet'[k] = [stage |-> "lost", held |-> 0, net |-> -bet[k].held]

\* One committed transaction moves any number of bets, each by one step.
Transaction ==
  /\ UNCHANGED struck
  /\ \A k \in Keys :
       bet'[k] = bet[k] \/ Hold(k) \/ Return(k) \/ Win(k) \/ Lose(k)

Next == Transaction \/ \E k \in Keys : Strike(k)

Spec == Init /\ [][Next]_vars
=============================================================================
