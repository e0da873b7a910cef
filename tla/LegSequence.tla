---------------------------- MODULE LegSequence ----------------------------
(***************************************************************************)
(* An arbitrage through services/leg_executor.py: the legs of one market   *)
(* fire one after the other, each as an order of its own with a price      *)
(* floor, and what one fills re-sizes those that follow                    *)
(* (domain/math/arbitrage_calc.py).                                        *)
(*                                                                         *)
(* Odds are in 1/Unit; a stake unit is the paisa.  Every leg is in rupees  *)
(* and without commission: rupee odds are the raw odds.  Legs are numbered *)
(* in the order they fire.  A bookmaker may match any stake up to the one  *)
(* asked, at any of the prices in Matched that the floor admits.           *)
(***************************************************************************)
EXTENDS Integers, FiniteSetsExt

CONSTANTS
  Legs,         \* how many outcomes the market has
  Unit,         \* odds of 1
  Prices,       \* the prices that are asked, above Unit
  Matched,      \* the prices the bookmakers may match at
  Totals        \* total_stake_inr of the request

ASSUME LegAssumption ==
  /\ Legs \in Nat \ {0, 1} /\ Unit \in Nat \ {0}
  /\ \A p \in Prices \cup Matched : p \in Nat /\ p > Unit
  /\ Totals \subseteq Nat \ {0}

VARIABLES
  price,        \* per leg: the odds the user saw and the order asks for
  toStake,      \* per leg: the stake planned, re-sized before it fires
  fill,         \* per leg: what its receipt says was matched
  legStatus,
  next,         \* the leg whose turn it is
  target,       \* what every outcome should pay, in 1/Unit; 0 before a fill
  group         \* status of the whole order

legVars == <<price, toStake, fill, legStatus, next, target, group>>

LegIds == 1..Legs
NoFill == [stake |-> 0, odds |-> 0]
Min2(x, y) == IF x < y THEN x ELSE y

-----------------------------------------------------------------------------
(* Pricing. *)

Product(odds, S) ==
  FoldFunctionOnSet(LAMBDA x, y : x * y, 1, odds, S)

\* The sum of Unit/odds over S, in 1/Product(odds, S).
Book(odds, S) ==
  Unit * SumFunctionOnSet([i \in S |-> Product(odds, S \ {i})], S)

Sum(stakes, S) == SumFunctionOnSet(stakes, S)

\* stake_arbitrage: proportional to 1/odds, rounded down to the paisa.
Planned(odds, total) ==
  [i \in LegIds |->
     (total * Unit * Product(odds, LegIds \ {i})) \div Book(odds, LegIds)]

\* It is an arbitrage, and a profit is left after the rounding.
Arbitrage(odds, stakes) ==
  /\ Book(odds, LegIds) < Product(odds, LegIds)
  /\ \A i \in LegIds : /\ stakes[i] > 0
                       /\ (stakes[i] * odds[i]) \div Unit > Sum(stakes, LegIds)

LegInit ==
  /\ \E total \in Totals :
       /\ price \in [LegIds -> Prices]
       /\ toStake = Planned(price, total)
       /\ Arbitrage(price, toStake)
  \* exchange legs first, which without commission is the longest price first
  /\ \A i, j \in LegIds : i < j => price[i] >= price[j]
  /\ fill = [i \in LegIds |-> NoFill]
  /\ legStatus = [i \in LegIds |-> "ABORTED"]
  /\ next = 1
  /\ target = 0
  /\ group = "RUNNING"

\* book_profits, in 1/Unit.
Profit(fills, i) ==
  fills[i].stake * fills[i].odds
    - Unit * Sum([j \in LegIds |-> fills[j].stake], LegIds)

-----------------------------------------------------------------------------
(* One leg after the other. *)

Fired == {i \in LegIds : fill[i].stake > 0}
Later == (next + 1)..Legs
StakedSoFar == Sum([i \in LegIds |-> fill[i].stake], LegIds)

\* Mutant: the re-sized stake is rounded up.
ResizedUp == IF Fired = {} THEN toStake[next] ELSE (target + price[next] - 1) \div price[next]

\* What the leg is staked when its turn comes: the first as planned, a later
\* one to pay what the fills before it pay.
Resized == IF Fired = {} THEN toStake[next] ELSE target \div price[next]

Stakes(s) == [toStake EXCEPT ![next] = s]

Ends(status, legEnd) ==
  /\ group' = status
  /\ legStatus' = [legStatus EXCEPT ![next] = legEnd]
  /\ UNCHANGED <<price, fill, next, target>>

SkipLeg ==
  /\ group = "RUNNING"
  /\ Resized = 0
  /\ Ends("LEGGED", "SKIPPED")
  /\ toStake' = Stakes(0)

\* Mutant: any price is accepted after the first leg.
CoversAnyhow(odds, stake) == TRUE

\* The rest re-size to this leg's payout: at the floor, its outcome still
\* returns all that is staked before, on it and after it.
Covers(odds, stake) ==
  odds * stake * (Product(price, Later) - Book(price, Later))
    >= Unit * (StakedSoFar + stake) * Product(price, Later)

\* The floor is never above the price asked.
Acceptable(odds, stake) == odds >= price[next] \/ Covers(odds, stake)

RoomLeft == Book(price, Later) < Product(price, Later)

\* Filled, in full or in part: what it pays is the new target if it is less.
FireLeg(stake, odds) ==
  LET wanted == Resized
      pays == stake * odds
  IN  /\ group = "RUNNING"
      /\ wanted > 0 /\ RoomLeft
      /\ stake \in 1..wanted
      /\ Acceptable(odds, wanted)
      /\ toStake' = Stakes(wanted)
      /\ fill' = [fill EXCEPT ![next] = [stake |-> stake, odds |-> odds]]
      /\ legStatus' = [legStatus EXCEPT
                         ![next] = IF stake < wanted THEN "PARTIAL" ELSE "FILLED"]
      /\ target' = IF target = 0 THEN pays ELSE Min2(target, pays)
      /\ IF next < Legs THEN next' = next + 1 /\ UNCHANGED group
         ELSE /\ group' = IF \A i \in LegIds : Profit(fill', i) >= 0
                          THEN "COMPLETE" ELSE "LEGGED"
              /\ UNCHANGED next
      /\ UNCHANGED price

\* Refused, blocked, too low a price: nothing else fires.
LegFails ==
  /\ group = "RUNNING"
  /\ Resized > 0
  /\ Ends(IF Fired = {} THEN "ABORTED" ELSE "LEGGED", "FAILED")
  /\ toStake' = Stakes(Resized)

\* It may have been placed: a bet that may not exist is not hedged.
LegUnconfirmed ==
  /\ group = "RUNNING"
  /\ Resized > 0 /\ RoomLeft
  /\ Ends("LEGGED", "UNCONFIRMED")
  /\ toStake' = Stakes(Resized)

LegNext ==
  \/ SkipLeg \/ LegFails \/ LegUnconfirmed
  \/ \E odds \in Matched, stake \in 1..Resized : FireLeg(stake, odds)

LegSpec == LegInit /\ [][LegNext]_legVars

-----------------------------------------------------------------------------
\* Every variable stays in its domain.
LegTypeOK ==
  /\ price \in [LegIds -> Prices]
  /\ toStake \in [LegIds -> Nat]
  /\ fill \in [LegIds -> [stake : Nat, odds : Matched \cup {0}]]
  /\ legStatus \in [LegIds -> {"ABORTED", "SKIPPED", "FILLED", "PARTIAL",
                               "FAILED", "UNCONFIRMED"}]
  /\ next \in LegIds
  /\ target \in Nat
  /\ group \in {"RUNNING", "COMPLETE", "LEGGED", "ABORTED"}

\* "A slipped fill can never turn the arbitrage into a loss"
\* (leg_executor.py:18-20): when every leg is filled, the first perhaps in
\* part, at whatever prices at or above the floors, each outcome returns every
\* stake, up to what the rounding of the re-sized legs to the paisa costs.
SlippedFillsCover ==
  (Fired = LegIds /\ \A i \in 2..Legs : legStatus[i] = "FILLED") =>
     \A i \in LegIds :
       Profit(fill, i) > -Sum(price, 2..Legs)

\* "A leg that would be blocked is found here, not after Leg A is already live"
\* (leg_executor.py:9-11): while no bookmaker matches above the price asked, no
\* leg is re-sized past the stake the pre-flight checked.
StakesStayChecked ==
  [][(\A i \in LegIds : fill[i].odds <= price[i]) =>
       \A i \in LegIds : toStake'[i] <= toStake[i]]_legVars
=============================================================================
