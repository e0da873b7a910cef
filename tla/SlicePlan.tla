------------------------------ MODULE SlicePlan ------------------------------
(***************************************************************************)
(* How the smart order router splits a stake over venues: plan_slices of   *)
(* smart_router.py.  A fleet is a function from the venues that may take   *)
(* the order to what each offers; a plan is a function from the venues     *)
(* that get a slice to its stake.  A Deficit is the plan without slices.   *)
(* Amounts are multiples of ROUTER_STAKE_QUANTUM, and venue ids are        *)
(* numbers because only their order matters.                               *)
(***************************************************************************)
EXTENDS Integers, FiniteSets, FiniteSetsExt

\* VenueCapacity: capacity is the least of free funds, stake cap and venue
\* maximum, odds are net of commission.
Offers == [capacity : Nat, least : Nat, odds : Nat, priority : Nat]

Deficit == [v \in {} |-> 0]

Total(fleet, A) == SumFunctionOnSet([v \in A |-> fleet[v].capacity], A)

\* The two orders venues are sorted in; only the first asks for priority.
PaysMore(a, b) == a.odds > b.odds \/ (a.odds = b.odds /\ a.capacity > b.capacity)

SamePay(a, b) == a.odds = b.odds /\ a.capacity = b.capacity

Before(fleet, v, w) ==
  \/ PaysMore(fleet[v], fleet[w])
  \/ SamePay(fleet[v], fleet[w]) /\ v < w

ByPrice(fleet, v, w) ==
  \/ PaysMore(fleet[v], fleet[w])
  \/ /\ SamePay(fleet[v], fleet[w])
     /\ \/ fleet[v].priority < fleet[w].priority
        \/ fleet[v].priority = fleet[w].priority /\ v < w

Best(fleet, A) == CHOOSE v \in A : \A w \in A \ {v} : ByPrice(fleet, v, w)

Smallest(fleet, A) ==
  CHOOSE v \in A : \A w \in A \ {v} :
    \/ fleet[v].capacity < fleet[w].capacity
    \/ fleet[v].capacity = fleet[w].capacity /\ v < w

\* A venue's proportional share, rounded down.
Share(fleet, A, desired, v) ==
  (desired * fleet[v].capacity) \div Total(fleet, A)

Short(fleet, A, desired) ==
  {v \in A : Share(fleet, A, desired, v) < fleet[v].least}

\* The venues left once no share is too small for its venue: as long as one
\* is, the smallest such venue is dropped and the stake split again.
Remaining(fleet, U, desired) ==
  LET left[A \in SUBSET U] ==
        IF \/ A = {}
           \/ Total(fleet, A) < desired
           \/ Short(fleet, A, desired) = {}
        THEN A
        ELSE left[A \ {Smallest(fleet, Short(fleet, A, desired))}]
  IN left[U]

\* What the rounding left over goes to the best prices, as far as they can
\* carry it.
Rest(fleet, A, desired) ==
  desired - SumFunctionOnSet([v \in A |-> Share(fleet, A, desired, v)], A)

Room(fleet, A, desired, v) == fleet[v].capacity - Share(fleet, A, desired, v)

\* Mutant: what rounding left is lost.
ExtraForgotten(fleet, A, desired, v) == 0

Extra(fleet, A, desired, v) ==
  LET taken == SumFunctionOnSet([w \in A |-> Room(fleet, A, desired, w)],
                                {w \in A : Before(fleet, w, v)})
  IN Min({Room(fleet, A, desired, v),
          Max({0, Rest(fleet, A, desired) - taken})})

Split(fleet, A, desired) ==
  IF A = {} \/ Total(fleet, A) < desired THEN Deficit
  ELSE [v \in A |-> Share(fleet, A, desired, v) + Extra(fleet, A, desired, v)]

Usable(fleet) ==
  {v \in DOMAIN fleet :
     fleet[v].capacity >= fleet[v].least /\ fleet[v].capacity > 0}

Plan(fleet, desired) ==
  LET U == Usable(fleet)
      best == Best(fleet, U)
      alone == fleet[best].capacity >= desired /\ desired >= fleet[best].least
  IN IF U = {} \/ Total(fleet, U) < desired THEN Deficit
     ELSE IF alone THEN [v \in {best} |-> desired]
     ELSE Split(fleet, Remaining(fleet, U, desired), desired)
=============================================================================
