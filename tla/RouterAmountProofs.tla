------------------------- MODULE RouterAmountProofs -------------------------
(***************************************************************************)
(* Theorems about the amounts of SmartRouter: stakes, holds, what is       *)
(* reserved and what is filled.  They rest on the statuses of              *)
(* SmartRouterProofs and on the sums of SumFacts.                          *)
(***************************************************************************)
EXTENDS SmartRouterProofs, SumFacts
-----------------------------------------------------------------------------
(***************************************************************************)
(* SlicePlan, for every fleet: a plan gives each of its venues no less     *)
(* than its minimum and no more than it can carry, and its slices add up   *)
(* to what was asked.                                                      *)
(***************************************************************************)

LEMMA MinOfTwo ==
  ASSUME NEW a \in Int, NEW b \in Int
  PROVE  Min({a, b}) = Lesser(a, b)
<1>1. \E x \in {a, b} : \A y \in {a, b} : x <= y
  <2>1. CASE a <= b
    BY <2>1
  <2>2. CASE b <= a
    BY <2>2
  <2> QED BY <2>1, <2>2
<1>2. Min({a, b}) \in {a, b} /\ \A y \in {a, b} : Min({a, b}) <= y
  BY <1>1 DEF Min
<1> QED BY <1>2 DEF Lesser

LEMMA MaxOfTwo ==
  ASSUME NEW a \in Int
  PROVE  Max({0, a}) = AtLeast0(a)
<1>1. \E x \in {0, a} : \A y \in {0, a} : x >= y
  <2>1. CASE a <= 0
    BY <2>1
  <2>2. CASE 0 <= a
    BY <2>2
  <2> QED BY <2>1, <2>2
<1>2. Max({0, a}) \in {0, a} /\ \A y \in {0, a} : Max({0, a}) >= y
  BY <1>1 DEF Max
<1> QED BY <1>2 DEF AtLeast0

LEMMA BestIsIn ==
  ASSUME NEW A, IsFiniteSet(A), A # {}, NEW fleet,
         \A v \in A : v \in Nat /\ fleet[v] \in Offers
  PROVE  Best(fleet, A) \in A
<1> DEFINE Q == {p \in A \X A : p[1] # p[2] /\ ByPrice(fleet, p[1], p[2])}
<1>1. \A v, w \in A : <<v, w>> \in Q <=> v # w /\ ByPrice(fleet, v, w)
  OBVIOUS
<1> HIDE DEF Q
<1>2. Ordered(A, Q)
  <2>1. \A v, w \in A : v # w => <<v, w>> \in Q \/ <<w, v>> \in Q
    BY <1>1 DEF ByPrice, PaysMore, SamePay, Offers
  <2>2. \A v, w \in A : <<v, w>> \in Q => <<w, v>> \notin Q
    BY <1>1 DEF ByPrice, PaysMore, SamePay, Offers
  <2>3. \A u, v, w \in A : <<u, v>> \in Q /\ <<v, w>> \in Q => <<u, w>> \in Q
    BY <1>1 DEF ByPrice, PaysMore, SamePay, Offers
  <2> QED BY <2>1, <2>2, <2>3 DEF Ordered
<1>3. \E v \in A : \A w \in A \ {v} : <<v, w>> \in Q
  BY <1>2, FirstExists
<1>4. \E v \in A : \A w \in A \ {v} : ByPrice(fleet, v, w)
  BY <1>1, <1>3
<1> QED BY <1>4 DEF Best

LEMMA SmallestIsIn ==
  ASSUME NEW A, IsFiniteSet(A), A # {}, NEW fleet,
         \A v \in A : v \in Nat /\ fleet[v] \in Offers
  PROVE  Smallest(fleet, A) \in A
<1> DEFINE Less(v, w) == \/ fleet[v].capacity < fleet[w].capacity
                         \/ fleet[v].capacity = fleet[w].capacity /\ v < w
           Q == {p \in A \X A : Less(p[1], p[2])}
<1>1. \A v, w \in A : <<v, w>> \in Q <=> Less(v, w)
  OBVIOUS
<1> HIDE DEF Q
<1>2. \A v \in A : fleet[v].capacity \in Nat /\ v \in Nat
  BY DEF Offers
<1>3. Ordered(A, Q)
  BY <1>1, <1>2 DEF Ordered
<1>4. \E v \in A : \A w \in A \ {v} : <<v, w>> \in Q
  BY <1>3, FirstExists
<1>5. \E v \in A : \A w \in A \ {v} : Less(v, w)
  BY <1>1, <1>4
<1> QED BY <1>5 DEF Smallest

LEMMA TotalFacts ==
  ASSUME NEW A, IsFiniteSet(A), NEW fleet, \A v \in A : fleet[v] \in Offers
  PROVE  Total(fleet, A) \in Nat
<1> DEFINE f == [v \in A |-> fleet[v].capacity]
<1>1. \A v \in A : f[v] \in Nat
  BY DEF Offers
<1> HIDE DEF f
<1>2. SumFunctionOnSet(f, A) \in Nat
  BY <1>1, SumSubset
<1> QED BY <1>2 DEF Total, f

\* The venues that stay: none, too few to carry the stake, or none too small
\* for its share.
LEMMA RemainingFacts ==
  ASSUME NEW U, IsFiniteSet(U), NEW fleet, \A v \in U : v \in Nat /\ fleet[v] \in Offers,
         NEW desired
  PROVE  LET A == Remaining(fleet, U, desired)
         IN  /\ A \in SUBSET U
             /\ A = {} \/ Total(fleet, A) < desired \/ Short(fleet, A, desired) = {}
<1> DEFINE Stop == {A \in SUBSET U : \/ A = {} \/ Total(fleet, A) < desired
                                     \/ Short(fleet, A, desired) = {}}
           out == [A \in SUBSET U |-> Smallest(fleet, Short(fleet, A, desired))]
           step(f) == [A \in SUBSET U |->
                         IF A = {} \/ Total(fleet, A) < desired \/ Short(fleet, A, desired) = {}
                         THEN A ELSE f[A \ {Smallest(fleet, Short(fleet, A, desired))}]]
           left == CHOOSE f : f = step(f)
<1>1. Remaining(fleet, U, desired) = left[U]
  BY DEF Remaining
<1>2. ASSUME NEW A \in SUBSET U, A \notin Stop PROVE out[A] \in A
  <2>1. Short(fleet, A, desired) # {} /\ Short(fleet, A, desired) \in SUBSET A
    BY <1>2 DEF Short
  <2>2. IsFiniteSet(Short(fleet, A, desired))
    BY <2>1, FS_Subset
  <2> QED BY <2>1, <2>2, SmallestIsIn
<1>3. ASSUME NEW f PROVE f = step(f) <=> Thins(f, U, Stop, out)
  <2>1. step(f) = [A \in SUBSET U |-> IF A \in Stop THEN A ELSE f[A \ {out[A]}]]
    OBVIOUS
  <2> QED BY <2>1 DEF Thins
<1> HIDE DEF Stop, out, step
<1>4. \E f : f = step(f)
  BY <1>2, <1>3, ThinningExists
<1>5. left = step(left)
  BY <1>4
<1> HIDE DEF left
<1>6. left[U] \in SUBSET U /\ left[U] \in Stop
  BY <1>2, <1>3, <1>5, ThinningEnds
<1> QED BY <1>1, <1>6 DEF Stop

\* A share is within what its venue carries, and the shares within the stake.
LEMMA ShareFacts ==
  ASSUME NEW A, IsFiniteSet(A), NEW fleet, \A v \in A : fleet[v] \in Offers,
         NEW desired \in Nat \ {0}, Total(fleet, A) >= desired
  PROVE  /\ \A v \in A : /\ fleet[v].capacity \in Nat
                         /\ Share(fleet, A, desired, v) \in Nat
                         /\ Share(fleet, A, desired, v) <= fleet[v].capacity
         /\ SumFunctionOnSet([v \in A |-> Share(fleet, A, desired, v)], A) <= desired
<1> DEFINE total == Total(fleet, A)
           cap == [v \in A |-> fleet[v].capacity]
           share == [v \in A |-> Share(fleet, A, desired, v)]
           much == [v \in A |-> desired * cap[v]]
           part == [v \in A |-> total * share[v]]
<1>1. total \in Nat /\ total > 0 /\ total >= desired
  BY TotalFacts
<1>2. \A v \in A : fleet[v].capacity \in Nat
  BY DEF Offers
<1>3. ASSUME NEW c \in Nat
      PROVE  /\ (desired * c) \div total \in Nat
             /\ (desired * c) \div total <= c
             /\ total * ((desired * c) \div total) <= desired * c
  <2> DEFINE d == (desired * c) \div total
  <2>1. desired * c \in Nat
    OBVIOUS
  <2>2. d \in Int /\ total * d <= desired * c /\ desired * c < total * (d + 1)
    <3>1. \A a \in Nat, b \in Nat : b > 0 => /\ a \div b \in Int
                                             /\ b * (a \div b) <= a
                                             /\ a < b * ((a \div b) + 1)
      OBVIOUS
    <3> HIDE DEF total
    <3> QED BY <1>1, <2>1, <3>1
  <2> HIDE DEF d, total
  <2>3. d >= 0
    <3>1. SUFFICES ASSUME d < 0 PROVE FALSE
      BY <2>2
    <3>2. d + 1 <= 0
      BY <2>2, <3>1
    <3>3. total * (d + 1) <= 0
      BY <1>1, <2>2, <3>2
    <3> QED BY <1>1, <2>1, <2>2, <3>3
  <2>4. d <= c
    <3>1. SUFFICES ASSUME c < d PROVE FALSE
      BY <2>2
    <3>2. total * d >= total * (c + 1)
      BY <1>1, <2>2, <3>1
    <3>3. total * (c + 1) = total * c + total
      BY <1>1
    <3>4. desired * c <= total * c
      BY <1>1
    <3>5. total * d \in Int /\ total * c \in Int
      BY <1>1, <2>2
    <3> QED BY <1>1, <2>1, <2>2, <3>2, <3>3, <3>4, <3>5
  <2> QED BY <2>2, <2>3, <2>4 DEF d
<1>4. ASSUME NEW v \in A
      PROVE  /\ Share(fleet, A, desired, v) \in Nat
             /\ Share(fleet, A, desired, v) <= fleet[v].capacity
             /\ total * Share(fleet, A, desired, v) <= desired * fleet[v].capacity
  <2>1. Share(fleet, A, desired, v) = (desired * fleet[v].capacity) \div total
    BY DEF Share
  <2> HIDE DEF total
  <2> QED BY <1>2, <1>3, <2>1
<1>5. /\ \A v \in A : cap[v] = fleet[v].capacity /\ cap[v] \in Int
      /\ \A v \in A : share[v] = Share(fleet, A, desired, v) /\ share[v] \in Nat
  BY <1>2, <1>4
<1> HIDE DEF cap, share, total
<1>6. \A v \in A : cap[v] \in Int /\ much[v] = desired * cap[v]
  BY <1>5
<1>7. \A v \in A : share[v] \in Int /\ part[v] = total * share[v]
  BY <1>5
<1>8. \A v \in A : part[v] \in Int /\ much[v] \in Int /\ part[v] <= much[v]
  <2> SUFFICES ASSUME NEW v \in A PROVE part[v] \in Int /\ much[v] \in Int /\ part[v] <= much[v]
    OBVIOUS
  <2>1. part[v] = total * share[v] /\ much[v] = desired * cap[v]
    BY <1>6, <1>7
  <2>2. total * share[v] <= desired * cap[v]
    BY <1>4, <1>5
  <2> HIDE DEF part, much
  <2> QED BY <1>1, <1>5, <2>1, <2>2
<1> HIDE DEF part, much
<1>9. SumFunctionOnSet(much, A) = desired * SumFunctionOnSet(cap, A)
  BY <1>6, SumTimes
<1>10. SumFunctionOnSet(part, A) = total * SumFunctionOnSet(share, A)
  BY <1>1, <1>7, SumTimes
<1>11. SumFunctionOnSet(part, A) <= SumFunctionOnSet(much, A)
  BY <1>8, SumAtMost
<1>12. SumFunctionOnSet(cap, A) = total
  BY DEF Total, total, cap
<1>13. SumFunctionOnSet(share, A) \in Nat
  BY <1>5, SumSubset
<1>14. SumFunctionOnSet(share, A) <= desired
  <2> DEFINE s == SumFunctionOnSet(share, A)
  <2>1. total * s <= desired * total /\ s \in Nat
    BY <1>9, <1>10, <1>11, <1>12, <1>13
  <2> HIDE DEF s
  <2>2. SUFFICES ASSUME s > desired PROVE FALSE
    BY <2>1 DEF s
  <2>3. total * s >= total * (desired + 1)
    BY <1>1, <2>1, <2>2
  <2>4. total * (desired + 1) = desired * total + total
    BY <1>1
  <2>5. total * s \in Int /\ desired * total \in Int
    BY <1>1, <2>1
  <2> QED BY <1>1, <2>1, <2>3, <2>4, <2>5
<1> QED BY <1>2, <1>4, <1>14 DEF share

\* A split gives out the whole stake.
LEMMA SplitFacts ==
  ASSUME NEW A, IsFiniteSet(A), A # {}, NEW fleet,
         \A v \in A : v \in Nat /\ fleet[v] \in Offers,
         NEW desired \in Nat \ {0}, Total(fleet, A) >= desired
  PROVE  LET p == Split(fleet, A, desired)
         IN  /\ p \in [A -> Nat]
             /\ \A v \in A : /\ Share(fleet, A, desired, v) <= p[v]
                             /\ p[v] <= fleet[v].capacity
             /\ SumFunctionOnSet(p, A) = desired
<1> DEFINE Q == {p \in A \X A : Before(fleet, p[1], p[2])}
           cap == [v \in A |-> fleet[v].capacity]
           share == [v \in A |-> Share(fleet, A, desired, v)]
           room == [v \in A |-> Room(fleet, A, desired, v)]
           extra == [v \in A |-> Extra(fleet, A, desired, v)]
           p == [v \in A |-> Share(fleet, A, desired, v) + Extra(fleet, A, desired, v)]
           rest == Rest(fleet, A, desired)
           given == SumFunctionOnSet(share, A)
           total == SumFunctionOnSet(cap, A)
<1>1. Split(fleet, A, desired) = p
  <2>1. Total(fleet, A) \in Nat
    BY TotalFacts
  <2> HIDE DEF p
  <2>2. ~(A = {} \/ Total(fleet, A) < desired)
    BY <2>1
  <2> QED BY <2>2 DEF Split, p
<1>2. \A v, w \in A : <<v, w>> \in Q <=> Before(fleet, v, w)
  OBVIOUS
<1> HIDE DEF Q
<1>3. Ordered(A, Q)
  <2>1. \A v \in A : v \in Nat /\ fleet[v].odds \in Nat /\ fleet[v].capacity \in Nat
    BY DEF Offers
  <2>2. \A v, w \in A : v # w => <<v, w>> \in Q \/ <<w, v>> \in Q
    BY <1>2, <2>1 DEF Before, PaysMore, SamePay
  <2>3. \A v, w \in A : <<v, w>> \in Q => <<w, v>> \notin Q
    BY <1>2, <2>1 DEF Before, PaysMore, SamePay
  <2>4. \A u, v, w \in A : <<u, v>> \in Q /\ <<v, w>> \in Q => <<u, w>> \in Q
    BY <1>2, <2>1 DEF Before, PaysMore, SamePay
  <2> QED BY <2>2, <2>3, <2>4 DEF Ordered
<1>4. /\ \A v \in A : /\ fleet[v].capacity \in Nat
                      /\ Share(fleet, A, desired, v) \in Nat
                      /\ Share(fleet, A, desired, v) <= fleet[v].capacity
      /\ given <= desired
  BY ShareFacts
<1>5. \A v \in A : /\ cap[v] = fleet[v].capacity /\ cap[v] \in Nat
                   /\ share[v] = Share(fleet, A, desired, v) /\ share[v] \in Nat
                   /\ share[v] <= cap[v]
                   /\ room[v] = cap[v] - share[v]
                   /\ room[v] = Room(fleet, A, desired, v)
  BY <1>4 DEF Room
<1>6. rest = desired - given
  BY DEF Rest
<1>7. total = Total(fleet, A)
  BY DEF Total
<1> HIDE DEF cap, share
<1>8. given \in Nat /\ rest \in Nat
  <2>1. given \in Nat
    BY <1>5, SumSubset
  <2> HIDE DEF given, rest
  <2> QED BY <1>4, <1>6, <2>1
<1>9. \A v \in A : room[v] \in Nat
  BY <1>5
<1>10. ASSUME NEW v \in A
       PROVE  extra[v] = FillOf(A, Q, room, rest, v) /\ extra[v] \in Nat
  <2>1. EarlierIn(A, Q, v) = {w \in A : Before(fleet, w, v)}
    BY <1>2 DEF EarlierIn
  <2> DEFINE taken == SumFunctionOnSet(room, EarlierIn(A, Q, v))
  <2>2. extra[v] = Min({Room(fleet, A, desired, v), Max({0, rest - taken})})
    BY <2>1 DEF Extra
  <2>3. taken \in Nat
    <3>1. EarlierIn(A, Q, v) \in SUBSET A
      BY DEF EarlierIn
    <3> HIDE DEF room
    <3> QED BY <1>9, <3>1, SumSubset
  <2> HIDE DEF extra, taken, rest
  <2>4. Max({0, rest - taken}) = AtLeast0(rest - taken)
    BY <1>8, <2>3, MaxOfTwo
  <2>5. AtLeast0(rest - taken) \in Nat
    BY <1>8, <2>3 DEF AtLeast0
  <2>6. room[v] = Room(fleet, A, desired, v) /\ room[v] \in Nat
    BY <1>5, <1>9
  <2> HIDE DEF room
  <2>7. Min({room[v], AtLeast0(rest - taken)}) = Lesser(room[v], AtLeast0(rest - taken))
    BY <2>5, <2>6, MinOfTwo
  <2>8. extra[v] = Lesser(room[v], AtLeast0(rest - taken))
    BY <2>2, <2>4, <2>6, <2>7
  <2> QED BY <2>5, <2>6, <2>8 DEF FillOf, taken, Lesser
<1>11. \A v \in A : p[v] = share[v] + extra[v] /\ extra[v] \in Nat /\ extra[v] <= room[v]
  <2> SUFFICES ASSUME NEW v \in A
               PROVE  p[v] = share[v] + extra[v] /\ extra[v] \in Nat /\ extra[v] <= room[v]
    OBVIOUS
  <2>1. p[v] = share[v] + extra[v]
    BY <1>5
  <2>2. extra[v] = FillOf(A, Q, room, rest, v) /\ extra[v] \in Nat
    BY <1>10
  <2> HIDE DEF p, extra, room, rest
  <2>3. Lesser(room[v], AtLeast0(rest - SumFunctionOnSet(room, EarlierIn(A, Q, v)))) \in Nat
    BY <2>2 DEF FillOf
  <2>4. extra[v] <= room[v]
    <3> DEFINE b == AtLeast0(rest - SumFunctionOnSet(room, EarlierIn(A, Q, v)))
    <3>1. extra[v] = Lesser(room[v], b)
      BY <2>2 DEF FillOf
    <3> HIDE DEF b
    <3> QED BY <1>9, <2>2, <3>1 DEF Lesser
  <2> QED BY <2>1, <2>2, <2>4
<1>12. p \in [A -> Nat]
  <2>1. \A v \in A : p[v] \in Nat
    <3> HIDE DEF p, extra
    <3> QED BY <1>5, <1>11
  <2> QED BY <2>1
<1> HIDE DEF p, extra, room, rest
<1>13. \A v \in A : Share(fleet, A, desired, v) <= p[v] /\ p[v] <= fleet[v].capacity
  <2> SUFFICES ASSUME NEW v \in A
               PROVE  Share(fleet, A, desired, v) <= p[v] /\ p[v] <= fleet[v].capacity
    OBVIOUS
  <2>1. p[v] = share[v] + extra[v] /\ extra[v] \in Nat /\ extra[v] <= room[v]
    BY <1>11
  <2>2. /\ cap[v] = fleet[v].capacity /\ cap[v] \in Nat
        /\ share[v] = Share(fleet, A, desired, v) /\ share[v] \in Nat
        /\ room[v] = cap[v] - share[v]
    BY <1>5
  <2> QED BY <2>1, <2>2
<1>14. SumFunctionOnSet(extra, A) = Lesser(rest, SumFunctionOnSet(room, A))
  <2>1. \A v \in A : extra[v] = FillOf(A, Q, room, rest, v)
    BY <1>10
  <2> QED BY <1>3, <1>8, <1>9, <2>1, FillsUp
<1>15. SumFunctionOnSet(room, A) = total - given /\ total \in Int
  <2>1. \A v \in A : cap[v] \in Int /\ share[v] \in Int /\ room[v] = cap[v] - share[v]
    BY <1>5
  <2> QED BY <2>1, SumMinus
<1>16. /\ SumFunctionOnSet(share, A) = SumFunctionOnSet(p, A) - SumFunctionOnSet(extra, A)
       /\ SumFunctionOnSet(p, A) \in Int /\ SumFunctionOnSet(extra, A) \in Int
  <2>1. \A v \in A : p[v] \in Int /\ extra[v] \in Int /\ share[v] = p[v] - extra[v]
    <3> SUFFICES ASSUME NEW v \in A
                 PROVE  p[v] \in Int /\ extra[v] \in Int /\ share[v] = p[v] - extra[v]
      OBVIOUS
    <3>1. p[v] = share[v] + extra[v] /\ extra[v] \in Nat /\ share[v] \in Nat
      BY <1>5, <1>11
    <3> QED BY <3>1
  <2> QED BY <2>1, SumMinus
<1>17. SumFunctionOnSet(p, A) = desired
  <2> DEFINE P1 == SumFunctionOnSet(p, A)
             E1 == SumFunctionOnSet(extra, A)
             R1 == SumFunctionOnSet(room, A)
  <2>1. /\ given = P1 - E1 /\ P1 \in Int /\ E1 \in Int
        /\ E1 = Lesser(rest, R1) /\ R1 = total - given /\ total \in Int
        /\ rest = desired - given /\ given \in Nat /\ total >= desired
    BY <1>6, <1>7, <1>8, <1>14, <1>15, <1>16
  <2> HIDE DEF P1, E1, R1, given, total
  <2>2. P1 = desired
    BY <2>1 DEF Lesser
  <2> QED BY <2>2 DEF P1
<1> QED BY <1>1, <1>12, <1>13, <1>17

\* For every fleet and stake that smart_router.plan_slices finds a plan for:
\* each slice lies between its venue's minimum and capacity, and together they
\* are the stake.
THEOREM PlanFacts ==
  ASSUME NEW S, IsFiniteSet(S), NEW fleet, DOMAIN fleet = S,
         \A v \in S : v \in Nat /\ fleet[v] \in Offers,
         NEW desired \in Nat \ {0}, Plan(fleet, desired) # Deficit
  PROVE  LET p == Plan(fleet, desired)
         IN  /\ DOMAIN p \in SUBSET S /\ p \in [DOMAIN p -> Nat]
             /\ \A v \in DOMAIN p : fleet[v].least <= p[v] /\ p[v] <= fleet[v].capacity
             /\ SumFunctionOnSet(p, DOMAIN p) = desired
<1> DEFINE U == Usable(fleet)
           best == Best(fleet, U)
           A == Remaining(fleet, U, desired)
<1>1. U \in SUBSET S /\ IsFiniteSet(U)
  <2>1. U \in SUBSET S
    BY DEF Usable
  <2> QED BY <2>1, FS_Subset
<1>2. \A v \in U : v \in Nat /\ fleet[v] \in Offers
  BY <1>1
<1> HIDE DEF U
<1>3. U # {}
  BY DEF Plan, U
<1>4. best \in U
  BY <1>1, <1>2, <1>3, BestIsIn
<1>5. CASE fleet[best].capacity >= desired /\ desired >= fleet[best].least
  <2> DEFINE p == [v \in {best} |-> desired]
  <2>1. Plan(fleet, desired) = p
    BY <1>5 DEF Plan, U
  <2>2. DOMAIN p = {best} /\ p[best] = desired
    OBVIOUS
  <2>3. fleet[best] \in Offers
    BY <1>2, <1>4
  <2>4. p \in [{best} -> Nat] /\ {best} \in SUBSET S
    BY <1>1, <1>4
  <2> HIDE DEF p, best
  <2>5. SumFunctionOnSet(p, {best}) = desired
    <3>1. SumFunctionOnSet(p, {} \cup {best}) = p[best] + SumFunctionOnSet(p, {})
      <4>1. IsFiniteSet({}) /\ best \notin {} /\ \A i \in {} \cup {best} : p[i] \in Int
        BY <2>2, FS_EmptySet
      <4> QED BY <4>1, SumAdd
    <3>2. {} \cup {best} = {best}
      OBVIOUS
    <3>3. SumFunctionOnSet(p, {}) = 0
      BY SumEmpty
    <3>4. SumFunctionOnSet(p, {best}) = p[best] + 0
      BY <3>1, <3>2, <3>3
    <3> QED BY <2>2, <3>4
  <2>6. \A v \in {best} : fleet[v].least <= p[v] /\ p[v] <= fleet[v].capacity
    BY <1>5, <2>2, <2>3 DEF Offers
  <2> QED BY <2>1, <2>2, <2>4, <2>5, <2>6
<1>6. CASE ~(fleet[best].capacity >= desired /\ desired >= fleet[best].least)
  <2>1. Plan(fleet, desired) = Split(fleet, A, desired)
    BY <1>6 DEF Plan, U
  <2>2. A \in SUBSET U /\ (A = {} \/ Total(fleet, A) < desired \/ Short(fleet, A, desired) = {})
    BY <1>1, <1>2, RemainingFacts
  <2> HIDE DEF A
  <2>3. A # {} /\ ~(Total(fleet, A) < desired)
    BY <2>1 DEF Split
  <2>4. IsFiniteSet(A)
    BY <1>1, <2>2, FS_Subset
  <2>5. \A v \in A : v \in Nat /\ fleet[v] \in Offers
    BY <1>2, <2>2
  <2>6. Total(fleet, A) \in Nat
    BY <2>4, <2>5, TotalFacts
  <2> DEFINE p == Split(fleet, A, desired)
  <2>7. /\ p \in [A -> Nat]
        /\ \A v \in A : Share(fleet, A, desired, v) <= p[v] /\ p[v] <= fleet[v].capacity
        /\ SumFunctionOnSet(p, A) = desired
    BY <2>3, <2>4, <2>5, <2>6, SplitFacts
  <2>8. \A v \in A : /\ fleet[v].least <= Share(fleet, A, desired, v)
                     /\ fleet[v].least \in Nat /\ Share(fleet, A, desired, v) \in Nat
    <3>1. \A v \in A : Share(fleet, A, desired, v) \in Nat
      <4>1. Total(fleet, A) >= desired /\ \A v \in A : fleet[v] \in Offers
        BY <2>3, <2>5, <2>6
      <4> QED BY <2>4, <4>1, ShareFacts
    <3>2. \A v \in A : ~(Share(fleet, A, desired, v) < fleet[v].least)
      BY <2>2, <2>3 DEF Short
    <3> QED BY <2>5, <3>1, <3>2 DEF Offers
  <2> HIDE DEF p
  <2>9. \A v \in A : fleet[v].least <= p[v]
    <3> SUFFICES ASSUME NEW v \in A PROVE fleet[v].least <= p[v]
      OBVIOUS
    <3>1. p[v] \in Nat
      BY <2>7
    <3> QED BY <2>7, <2>8, <3>1
  <2>10. DOMAIN p = A
    BY <2>7
  <2> QED BY <1>1, <2>1, <2>2, <2>7, <2>9, <2>10 DEF p
<1> QED BY <1>5, <1>6

-----------------------------------------------------------------------------
(***************************************************************************)
(* What a step may do to one slice of an order, with its hold, its shot    *)
(* and its ledger row.                                                     *)
(***************************************************************************)
OrderRows == [status : OrderStatuses, filled : Nat]
SliceRows == [status : SliceStatuses, stake : Nat, filled : Nat]
Shots == [state : {"none", "sent", "over"}, answer : Answers, filled : Nat,
          fault : BOOLEAN, struck : BOOLEAN]
LedgerRows == [status : RowStatuses, stake : Nat]

With(s, status) == [s EXCEPT !.status = status]

Untouched(o, v) ==
  /\ slice'[o][v] = slice[o][v] /\ hold'[o][v] = hold[o][v]
  /\ shot'[o][v] = shot[o][v] /\ row'[o][v] = row[o][v]

LetGo(o, v) ==
  /\ slice[o][v].status = "RESERVED"
  /\ slice'[o][v] = With(slice[o][v], "RELEASED")
  /\ hold'[o][v] = 0
  /\ shot'[o][v] = shot[o][v] /\ row'[o][v] = row[o][v]

GoesOut(o, v) ==
  /\ pc[o] = "reserved" /\ slice[o][v].status = "RESERVED"
  /\ slice'[o][v] = With(slice[o][v], "DISPATCHED")
  /\ shot'[o][v] = [shot[o][v] EXCEPT !.state = "sent"]
  /\ hold'[o][v] = hold[o][v] /\ row'[o][v] = row[o][v]
  /\ order[o].status = "RESERVED" => order'[o].status = "DISPATCHING"

EndsWithoutRow(o, v) ==
  /\ shot[o][v].state = "sent" /\ shot'[o][v].state = "over"
  /\ shot'[o][v].answer \in {"REJECTED", "UNKNOWN"}
  /\ hold'[o][v] \in {hold[o][v], 0}
  /\ slice'[o][v] = slice[o][v] /\ row'[o][v] = row[o][v]

EndsWithRow(o, v) ==
  /\ shot[o][v].state = "sent" /\ shot'[o][v].state = "over"
  /\ row'[o][v].status \in OpenRows
  /\ row'[o][v].stake >= 1 /\ row'[o][v].stake <= slice[o][v].stake
  /\ \/ shot'[o][v].answer \in {"FILLED", "UNKNOWN"}
     \/ shot'[o][v].answer = "PARTIAL" /\ shot'[o][v].filled = row'[o][v].stake
  /\ slice'[o][v] = slice[o][v] /\ hold'[o][v] = hold[o][v]

Unheard(o, v) ==
  /\ \/ shot'[o][v].state = shot[o][v].state
     \/ shot[o][v].state # "none" /\ shot'[o][v].state = "over"
  /\ shot'[o][v].answer = "UNKNOWN"
  /\ slice'[o][v] = slice[o][v] /\ hold'[o][v] = hold[o][v] /\ row'[o][v] = row[o][v]

\* What an answer makes of a slice.
Heard(s, status, filled) == [s EXCEPT !.status = status, !.filled = filled]

Became(o, v, status, filled, held) ==
  /\ slice'[o][v] = Heard(slice[o][v], status, filled)
  /\ hold'[o][v] = held

TakesAnswer(o, v) ==
  /\ slice[o][v].status = "DISPATCHED" /\ shot[o][v].state # "none"
  /\ \/ shot[o][v].answer = "FILLED" /\ Became(o, v, "FILLED", slice[o][v].stake, hold[o][v])
     \/ /\ shot[o][v].answer = "PARTIAL"
        /\ Became(o, v, "PARTIAL", shot[o][v].filled, Lesser(hold[o][v], shot[o][v].filled))
     \/ shot[o][v].answer = "REJECTED" /\ Became(o, v, "REJECTED", 0, 0)
     \/ shot[o][v].answer = "UNKNOWN" /\ Became(o, v, "UNKNOWN", 0, hold[o][v])
  /\ shot'[o][v] = shot[o][v] /\ row'[o][v] = row[o][v]

FoundInLedger(o, v) ==
  /\ slice[o][v].status \in Unanswered /\ row[o][v].status # "NONE"
  /\ \E s \in FilledStatuses :
       Became(o, v, s, row[o][v].stake, Lesser(hold[o][v], row[o][v].stake))
  /\ shot'[o][v] = shot[o][v] /\ row'[o][v] = row[o][v]

GivenBack(o, v) ==
  /\ \/ row[o][v].status \in {"REJECTED", "SETTLED"}
     \/ row[o][v].status = "NONE" /\ Outlived(o, v)
  /\ hold'[o][v] = 0
  /\ slice'[o][v] = slice[o][v] /\ shot'[o][v] = shot[o][v] /\ row'[o][v] = row[o][v]

Ruled(o, v) ==
  /\ row[o][v].status \in OpenRows /\ row'[o][v].stake = row[o][v].stake
  /\ row'[o][v].status # "NONE"
  /\ slice'[o][v] = slice[o][v] /\ hold'[o][v] = hold[o][v] /\ shot'[o][v] = shot[o][v]

Change(o, v) ==
  \/ Untouched(o, v) \/ LetGo(o, v) \/ GoesOut(o, v) \/ EndsWithoutRow(o, v)
  \/ EndsWithRow(o, v) \/ Unheard(o, v) \/ TakesAnswer(o, v) \/ FoundInLedger(o, v)
  \/ GivenBack(o, v) \/ Ruled(o, v)

\* A slice of the plan, or none.
GetsSlice(o, v) ==
  /\ slice[o][v] = NoSlice /\ hold[o][v] = 0
  /\ \/ slice'[o][v] = NoSlice /\ hold'[o][v] = 0
     \/ /\ slice'[o][v].status = "RESERVED" /\ slice'[o][v].filled = 0
        /\ slice'[o][v].stake >= LeastStake[v]
        /\ hold'[o][v] = slice'[o][v].stake
  /\ shot'[o][v] = shot[o][v] /\ row'[o][v] = row[o][v]

GetsPlan(o) ==
  /\ order[o].status = "ROUTING" /\ order'[o] = [order[o] EXCEPT !.status = "RESERVED"]
  /\ \A v \in Venues : GetsSlice(o, v)
  /\ SumFunctionOnSet([v \in Venues |-> slice'[o][v].stake],
                      {v \in Venues : slice'[o][v].status # "NONE"}) = Desired[o]

Over == {"done", "dead"}

\* What a step may do to an order's row.
RowBecomes(o, status) == order'[o] = [order[o] EXCEPT !.status = status]

Finished(o) ==
  \E a \in Agents :
    /\ seen[a] # Nothing /\ seen[a].order = o
    /\ order'[o] = [status |-> seen[a].next, filled |-> seen[a].filled]

OrderRow(o) ==
  \/ order'[o] = order[o]
  \/ order[o].status = "NONE" /\ RowBecomes(o, "ROUTING")
  \/ order[o].status = "ROUTING" /\ RowBecomes(o, "REJECTED")
  \/ /\ order[o].status \in {"ROUTING", "RESERVED"} /\ RowBecomes(o, "ABORTED")
     /\ \A v \in Venues : slice'[o][v].status \in {"NONE", "RELEASED"}
  \/ /\ order[o].status = "RESERVED" /\ RowBecomes(o, "DISPATCHING")
     /\ \A v \in Venues : slice'[o][v].status # "RESERVED"
  \/ order[o].status \in Unfinished /\ Finished(o)

\* One step, for every order.
OrderChange(o) ==
  /\ \/ GetsPlan(o)
     \/ (\A v \in Venues : Change(o, v)) /\ OrderRow(o)
  /\ pc[o] \in Over => pc'[o] \in Over

\* What a step may do to a reading.
SeenChange(a) ==
  \/ seen'[a] \in {seen[a], Nothing}
  \/ \E o \in Orders :
       /\ order[o].status \in Unfinished
       /\ seen'[a] = [order |-> o, read |-> order[o].status, next |-> StatusOf(o),
                      filled |-> FilledOf(o)]
       /\ UNCHANGED <<order, slice>>

InLedger(f) ==
  row[f.order][f.venue].status # "NONE" /\ row[f.order][f.venue].stake = f.stake

FoundChange(s) ==
  \/ found'[s] \subseteq found[s]
  \/ row' = row /\ \A f \in found'[s] : InLedger(f)

StepFacts ==
  /\ TypeOK' /\ ReservedIsTheOpenHolds'
  /\ \A o \in Orders : OrderChange(o)
  /\ \A a \in Agents : SeenChange(a)
  /\ \A s \in Sweepers : FoundChange(s)

\* The amounts of one slice.  A slice that may still go out, or is out, is
\* held in full; a row is within the stake and, while it is open, within the
\* hold; an answer tells what the row says.
SliceAmounts(o, v) ==
  /\ slice[o][v].status = "RESERVED" /\ pc[o] \notin Over => hold[o][v] = slice[o][v].stake
  /\ shot[o][v].state = "none" => shot[o][v].answer \in {"NONE", "UNKNOWN"}
  /\ shot[o][v].state = "sent" =>
       /\ row[o][v].status = "NONE" /\ hold[o][v] >= slice[o][v].stake
       /\ shot[o][v].answer \in {"NONE", "UNKNOWN"}
  /\ row[o][v].status # "NONE" =>
       /\ shot[o][v].state = "over"
       /\ row[o][v].stake >= 1 /\ row[o][v].stake <= slice[o][v].stake
  /\ row[o][v].status \in OpenRows => hold[o][v] >= row[o][v].stake
  /\ shot[o][v].answer = "PARTIAL" =>
       row[o][v].status # "NONE" /\ row[o][v].stake = shot[o][v].filled
  /\ shot[o][v].answer = "REJECTED" => row[o][v].status = "NONE"
  /\ slice[o][v].status # "NONE" => slice[o][v].stake >= 1
  /\ slice[o][v].filled <= slice[o][v].stake
  /\ slice[o][v].status \in FilledStatuses => slice[o][v].filled >= 1
  /\ slice[o][v].status = "REJECTED" => hold[o][v] = 0

FoundIsInLedger ==
  \A s \in Sweepers : \A f \in found[s] : InLedger(f)

\* A closed order, or a reading that will close it: its slices are over, and
\* status and amount are what they say.
Closed(o, status, filled) ==
  /\ \A v \in Venues : slice[o][v].status \notin Unanswered \cup {"RESERVED"}
  /\ filled = FilledOf(o) /\ status = StatusOf(o)

PlanOf(o) ==
  SlicesOf(o) # {} =>
    /\ SumFunctionOnSet([v \in Venues |-> slice[o][v].stake], SlicesOf(o)) = Desired[o]
    /\ \A v \in SlicesOf(o) : slice[o][v].stake >= LeastStake[v]

OrderAmounts(o) ==
  /\ order[o].status \in {"NONE", "ROUTING"} => \A v \in Venues : slice[o][v] = NoSlice
  /\ order[o].status = "RESERVED" => \A v \in Venues : slice[o][v].status \in Unsent
  /\ order[o].status = "ABORTED" =>
       \A v \in Venues : slice[o][v].status \in {"NONE", "RELEASED"}
  /\ order[o].status \in Sent => \A v \in Venues : slice[o][v].status # "RESERVED"
  /\ order[o].status \in {"NONE", "ROUTING", "RESERVED", "ABORTED"} => order[o].filled = 0
  /\ order[o].status \in {"FILLED", "PARTIAL", "REJECTED"} =>
       Closed(o, order[o].status, order[o].filled)
  /\ PlanOf(o)

SeenAmounts(a) ==
  seen[a] # Nothing /\ seen[a].next # "UNCONFIRMED" =>
    Closed(seen[a].order, seen[a].next, seen[a].filled)

AmountInv ==
  /\ RouterInv /\ TypeOK /\ ReservedIsTheOpenHolds
  /\ \A o \in Orders, v \in Venues : SliceAmounts(o, v)
  /\ \A o \in Orders : OrderAmounts(o)
  /\ \A a \in Agents : SeenAmounts(a)
  /\ FoundIsInLedger

LEMMA SliceAmountsStay ==
  ASSUME AmountInv, NEW o \in Orders, NEW v \in Venues, Change(o, v), TypeOK',
         pc[o] \in Over => pc'[o] \in Over
  PROVE  SliceAmounts(o, v)'
<1> DEFINE s == slice[o][v]
           h == hold[o][v]
           t == shot[o][v]
           r == row[o][v]
           s1 == slice'[o][v]
           h1 == hold'[o][v]
           t1 == shot'[o][v]
           r1 == row'[o][v]
<1>1. /\ s \in SliceRows /\ h \in Nat /\ t \in Shots /\ r \in LedgerRows
      /\ s1 \in SliceRows /\ h1 \in Nat /\ t1 \in Shots /\ r1 \in LedgerRows
  BY DEF AmountInv, TypeOK, SliceRows, Shots, LedgerRows
<1>2. /\ SliceAmounts(o, v)
      /\ s.status \in Unsent => t.state = "none"
      /\ r.status # "NONE" => t.state # "none"
  BY DEF AmountInv, RouterInv, SliceInv, NoRow
<1>3. CASE Untouched(o, v)
  BY <1>2, <1>3 DEF Untouched, SliceAmounts
<1>4. CASE LetGo(o, v)
  BY <1>1, <1>2, <1>4 DEF LetGo, With, SliceAmounts, SliceRows, FilledStatuses, OpenRows, Unsent
<1>5. CASE GoesOut(o, v)
  BY <1>1, <1>2, <1>5 DEF GoesOut, With, SliceAmounts, SliceRows, Shots, FilledStatuses, OpenRows, Unsent, Over
<1>6. CASE EndsWithoutRow(o, v)
  BY <1>1, <1>2, <1>6 DEF EndsWithoutRow, SliceAmounts, SliceRows, Unsent, FilledStatuses, OpenRows
<1>7. CASE EndsWithRow(o, v)
  BY <1>1, <1>2, <1>7 DEF EndsWithRow, SliceAmounts, SliceRows, LedgerRows, OpenRows, Unsent
<1>8. CASE Unheard(o, v)
  BY <1>1, <1>2, <1>8 DEF Unheard, SliceAmounts, Unsent
<1>9. CASE TakesAnswer(o, v)
  <2>1. /\ s.status = "DISPATCHED" /\ t.state # "none" /\ t1 = t /\ r1 = r
        /\ s1 = [s EXCEPT !.status = s1.status, !.filled = s1.filled]
        /\ s1.stake = s.stake
    BY <1>1, <1>9 DEF TakesAnswer, Became, Heard, SliceRows
  <2>2. /\ s1.stake >= 1 /\ s1.status \notin {"NONE", "RESERVED"}
        /\ s1.filled <= s1.stake
        /\ s1.status \in FilledStatuses => s1.filled >= 1
        /\ s1.status = "REJECTED" => h1 = 0
        /\ t.answer # "REJECTED" /\ t.state = "sent" => h1 = h
        /\ r.status \in OpenRows => h1 >= r.stake
    <3>1. CASE t.answer = "FILLED" /\ Became(o, v, "FILLED", s.stake, h)
      BY <1>1, <1>2, <2>1, <3>1 DEF Became, Heard, SliceAmounts, SliceRows, LedgerRows, FilledStatuses
    <3>2. CASE t.answer = "PARTIAL" /\ Became(o, v, "PARTIAL", t.filled, Lesser(h, t.filled))
      BY <1>1, <1>2, <2>1, <3>2 DEF Became, Heard, Lesser, SliceAmounts, SliceRows, Shots, LedgerRows, FilledStatuses
    <3>3. CASE t.answer = "REJECTED" /\ Became(o, v, "REJECTED", 0, 0)
      BY <1>1, <1>2, <2>1, <3>3 DEF Became, Heard, SliceAmounts, SliceRows, LedgerRows, FilledStatuses, OpenRows
    <3>4. CASE t.answer = "UNKNOWN" /\ Became(o, v, "UNKNOWN", 0, h)
      BY <1>1, <1>2, <2>1, <3>4 DEF Became, Heard, SliceAmounts, SliceRows, LedgerRows, FilledStatuses
    <3> QED BY <1>9, <3>1, <3>2, <3>3, <3>4 DEF TakesAnswer
  <2> QED BY <1>1, <1>2, <2>1, <2>2 DEF SliceAmounts
<1>10. CASE FoundInLedger(o, v)
  BY <1>1, <1>2, <1>10 DEF FoundInLedger, Became, Heard, Lesser, SliceAmounts, SliceRows, LedgerRows, FilledStatuses, OpenRows, Unanswered
<1>11. CASE GivenBack(o, v)
  BY <1>1, <1>2, <1>11 DEF GivenBack, Outlived, SliceAmounts, OpenRows, Unsent, Over
<1>12. CASE Ruled(o, v)
  BY <1>1, <1>2, <1>12 DEF Ruled, SliceAmounts, OpenRows, LedgerRows
<1> QED
  BY <1>3, <1>4, <1>5, <1>6, <1>7, <1>8, <1>9, <1>10, <1>11, <1>12 DEF Change

-----------------------------------------------------------------------------
(***************************************************************************)
(* The amounts from one state to the next                                  *)
(***************************************************************************)
LEMMA AmountsOf ==
  ASSUME TypeOK, NEW o \in Orders
  PROVE  /\ order[o] \in OrderRows
         /\ \A v \in Venues :
              /\ slice[o][v] \in SliceRows /\ hold[o][v] \in Nat
              /\ shot[o][v] \in Shots /\ row[o][v] \in LedgerRows
         /\ slice[o] \in [Venues -> SliceRows]
BY DEF TypeOK, OrderRows, SliceRows, Shots, LedgerRows

LEMMA SliceAmountsStart ==
  ASSUME AmountInv, NEW o \in Orders, NEW v \in Venues, GetsPlan(o), TypeOK'
  PROVE  SliceAmounts(o, v)'
<1>1. /\ GetsSlice(o, v) /\ SliceAmounts(o, v) /\ SliceInv(o, v)
      /\ LeastStake[v] \in Nat /\ LeastStake[v] >= 1
  BY RouterAssumption DEF GetsPlan, AmountInv, RouterInv
<1>2. /\ slice[o][v] = NoSlice /\ slice'[o][v] \in SliceRows /\ slice[o][v].status = "NONE"
      /\ hold'[o][v] \in Nat /\ shot[o][v].state = "none" /\ row[o][v] = NoRow
      /\ shot'[o][v] = shot[o][v] /\ row'[o][v] = row[o][v]
  <2>1. slice'[o][v] \in SliceRows /\ hold'[o][v] \in Nat
    BY DEF TypeOK, SliceRows
  <2> QED BY <1>1, <2>1 DEF GetsSlice, SliceInv, NoSlice, Unsent
<1>3. CASE slice'[o][v] = NoSlice /\ hold'[o][v] = 0
  BY <1>1, <1>2, <1>3 DEF SliceAmounts, NoSlice, NoRow, OpenRows, FilledStatuses
<1>4. CASE /\ slice'[o][v].status = "RESERVED" /\ slice'[o][v].filled = 0
           /\ slice'[o][v].stake >= LeastStake[v]
           /\ hold'[o][v] = slice'[o][v].stake
  BY <1>1, <1>2, <1>4 DEF SliceAmounts, NoRow, OpenRows, FilledStatuses, SliceRows
<1> QED BY <1>1, <1>3, <1>4 DEF GetsSlice

\* What a closed order says of itself does not change.
LEMMA ClosedStays ==
  ASSUME NEW o \in Orders, NEW status, NEW filled, Closed(o, status, filled),
         slice'[o] = slice[o]
  PROVE  Closed(o, status, filled)'
<1> DEFINE F(s) == SumFunctionOnSet([v \in Venues |-> s[v].filled],
                                    {v \in Venues : s[v].status \in FilledStatuses})
<1>1. FilledOf(o) = F(slice[o]) /\ FilledOf(o)' = F(slice'[o])
  BY DEF FilledOf
<1>2. F(slice'[o]) = F(slice[o])
  <2> HIDE DEF F
  <2> QED BY SMT
<1>3. FilledOf(o)' = FilledOf(o)
  <2> HIDE DEF F
  <2> QED BY <1>1, <1>2
<1>4. StatusOf(o)' = StatusOf(o)
  BY <1>3 DEF StatusOf
<1> QED BY <1>3, <1>4 DEF Closed

\* Slices that are over stay as they are.
LEMMA OverStays ==
  ASSUME TypeOK, TypeOK', NEW o \in Orders, \A v \in Venues : Change(o, v),
         \A v \in Venues : slice[o][v].status \notin Unanswered \cup {"RESERVED"}
  PROVE  slice'[o] = slice[o]
<1>1. ASSUME NEW v \in Venues PROVE slice'[o][v] = slice[o][v]
  BY <1>1 DEF Change, Untouched, LetGo, GoesOut, EndsWithoutRow, EndsWithRow, Unheard,
     TakesAnswer, FoundInLedger, GivenBack, Ruled, Unanswered
<1>2. slice[o] \in [Venues -> SliceRows] /\ slice'[o] \in [Venues -> SliceRows]
  BY DEF TypeOK, SliceRows
<1> QED BY <1>1, <1>2

LEMMA PlanStays ==
  ASSUME TypeOK, TypeOK', NEW o \in Orders, \A v \in Venues : Change(o, v), PlanOf(o)
  PROVE  PlanOf(o)'
<1> DEFINE f == [v \in Venues |-> slice[o][v].stake]
           g == [v \in Venues |-> slice'[o][v].stake]
           A == {v \in Venues : slice[o][v].status # "NONE"}
           B == {v \in Venues : slice'[o][v].status # "NONE"}
<1>1. ASSUME NEW v \in Venues
      PROVE  /\ slice'[o][v].stake = slice[o][v].stake
             /\ slice'[o][v].status # "NONE" <=> slice[o][v].status # "NONE"
  <2>1. slice[o][v] \in SliceRows /\ slice'[o][v] \in SliceRows
    BY DEF TypeOK, SliceRows
  <2>2. slice'[o][v] = slice[o][v] =>
             /\ slice'[o][v].stake = slice[o][v].stake
             /\ slice'[o][v].status # "NONE" <=> slice[o][v].status # "NONE"
    OBVIOUS
  <2>3. CASE LetGo(o, v)
    BY <2>1, <2>3 DEF LetGo, With, SliceRows
  <2>4. CASE GoesOut(o, v)
    BY <2>1, <2>4 DEF GoesOut, With, SliceRows
  <2>5. CASE TakesAnswer(o, v)
    BY <2>1, <2>5 DEF TakesAnswer, Became, Heard, SliceRows
  <2>6. CASE FoundInLedger(o, v)
    BY <2>1, <2>6 DEF FoundInLedger, Became, Heard, SliceRows, Unanswered, FilledStatuses
  <2> QED
    BY <2>2, <2>3, <2>4, <2>5, <2>6 DEF Change, Untouched, EndsWithoutRow, EndsWithRow,
       Unheard, GivenBack, Ruled
<1>2. A = B
  BY <1>1
<1>3. f = g
  BY <1>1
<1>4. /\ SlicesOf(o) = A /\ SlicesOf(o)' = B
      /\ PlanOf(o) <=> (A # {} => SumFunctionOnSet(f, A) = Desired[o]
                                  /\ \A v \in A : slice[o][v].stake >= LeastStake[v])
      /\ PlanOf(o)' <=> (B # {} => SumFunctionOnSet(g, B) = Desired[o]
                                  /\ \A v \in B : slice'[o][v].stake >= LeastStake[v])
  BY DEF SlicesOf, PlanOf
<1>5. \A v \in A : slice'[o][v].stake = slice[o][v].stake
  BY <1>1
<1> HIDE DEF f, g, A, B
<1> QED BY <1>2, <1>3, <1>4, <1>5

LEMMA PlanStarts ==
  ASSUME TypeOK', NEW o \in Orders, GetsPlan(o)
  PROVE  PlanOf(o)'
<1> DEFINE g == [v \in Venues |-> slice'[o][v].stake]
           B == {v \in Venues : slice'[o][v].status # "NONE"}
<1>1. SumFunctionOnSet(g, B) = Desired[o]
  BY DEF GetsPlan
<1>2. \A v \in B : slice'[o][v].stake >= LeastStake[v]
  BY DEF GetsPlan, GetsSlice, NoSlice
<1>3. PlanOf(o)' <=> (B # {} => SumFunctionOnSet(g, B) = Desired[o]
                                /\ \A v \in B : slice'[o][v].stake >= LeastStake[v])
  BY DEF SlicesOf, PlanOf
<1> HIDE DEF g, B
<1> QED BY <1>1, <1>2, <1>3
-----------------------------------------------------------------------------
LEMMA FilledFacts ==
  ASSUME TypeOK, NEW o \in Orders
  PROVE  /\ FilledOf(o) \in Nat
         /\ (\A v \in Venues : slice[o][v].status \notin FilledStatuses) => FilledOf(o) = 0
         /\ \A v \in Venues : slice[o][v].status \in FilledStatuses =>
              slice[o][v].filled <= FilledOf(o)
<1> DEFINE f == [v \in Venues |-> slice[o][v].filled]
           A == {v \in Venues : slice[o][v].status \in FilledStatuses}
<1>1. FilledOf(o) = SumFunctionOnSet(f, A)
  BY DEF FilledOf
<1>2. \A v \in A : f[v] = slice[o][v].filled /\ f[v] \in Nat
  BY AmountsOf DEF SliceRows
<1>3. IsFiniteSet(A)
  <2>1. A \in SUBSET Venues
    OBVIOUS
  <2> QED BY <2>1, RouterAssumption, FS_Subset
<1>4. \A v \in Venues : v \in A <=> slice[o][v].status \in FilledStatuses
  OBVIOUS
<1>5. (\A v \in Venues : slice[o][v].status \notin FilledStatuses) => A = {}
  OBVIOUS
<1> HIDE DEF f, A
<1>6. SumFunctionOnSet(f, A) \in Nat
  BY <1>2, <1>3, SumSubset
<1>7. A = {} => SumFunctionOnSet(f, A) = 0
  BY SumEmpty
<1>8. \A v \in A : f[v] <= SumFunctionOnSet(f, A)
  BY <1>2, <1>3, SumAtLeast
<1> QED BY <1>1, <1>2, <1>4, <1>5, <1>6, <1>7, <1>8

LEMMA FilledWithin ==
  ASSUME TypeOK, NEW o \in Orders, PlanOf(o), \A v \in Venues : SliceAmounts(o, v)
  PROVE  FilledOf(o) <= Desired[o]
<1> DEFINE f == [v \in Venues |-> slice[o][v].filled]
           g == [v \in Venues |-> slice[o][v].stake]
           A == {v \in Venues : slice[o][v].status \in FilledStatuses}
           B == {v \in Venues : slice[o][v].status # "NONE"}
<1>1. FilledOf(o) = SumFunctionOnSet(f, A) /\ SlicesOf(o) = B
  BY DEF FilledOf, SlicesOf
<1>2. \A v \in B : f[v] \in Nat /\ g[v] \in Nat /\ f[v] <= g[v]
  BY AmountsOf DEF SliceRows, SliceAmounts
<1>3. A \in SUBSET B /\ IsFiniteSet(B)
  <2>1. A \in SUBSET B
    BY DEF FilledStatuses
  <2>2. B \in SUBSET Venues
    OBVIOUS
  <2> QED BY <2>1, <2>2, RouterAssumption, FS_Subset
<1>4. B # {} => SumFunctionOnSet(g, B) = Desired[o]
  BY DEF PlanOf, SlicesOf
<1>5. Desired[o] \in Nat
  BY RouterAssumption
<1> HIDE DEF f, g, A, B
<1>6. CASE B = {}
  <2>1. A = {}
    BY <1>3, <1>6
  <2> QED BY <1>1, <1>5, <2>1, SumEmpty
<1>7. CASE B # {}
  <2>1. /\ SumFunctionOnSet(f, A) <= SumFunctionOnSet(f, B)
        /\ SumFunctionOnSet(f, A) \in Nat /\ SumFunctionOnSet(f, B) \in Nat
    BY <1>2, <1>3, SumSubset
  <2>2. SumFunctionOnSet(f, B) <= SumFunctionOnSet(g, B)
    <3>1. \A v \in B : f[v] \in Int /\ g[v] \in Int /\ f[v] <= g[v]
      BY <1>2
    <3> QED BY <1>3, <3>1, SumAtMost
  <2>3. SumFunctionOnSet(g, B) = Desired[o]
    BY <1>4, <1>7
  <2> QED BY <1>1, <1>5, <2>1, <2>2, <2>3
<1> QED BY <1>6, <1>7

LEMMA OrderAmountsStay ==
  ASSUME AmountInv, RouterInv', TypeOK', NEW o \in Orders, OrderChange(o)
  PROVE  OrderAmounts(o)'
<1> USE DEF OrderStatuses
<1>1. /\ OrderAmounts(o) /\ order[o].status \in OrderStatuses
      /\ order[o] \in OrderRows /\ order'[o] \in OrderRows
      /\ \A v \in Venues : slice[o][v] \in SliceRows
      /\ \A v \in Venues : slice'[o][v] \in SliceRows
  BY DEF AmountInv, RouterInv, OrderInv, TypeOK, OrderRows, SliceRows
<1>2. CASE GetsPlan(o)
  <2>1. order'[o].status = "RESERVED" /\ order'[o].filled = 0
    BY <1>1, <1>2 DEF GetsPlan, OrderRows, OrderAmounts
  <2>2. \A v \in Venues : slice'[o][v].status \in Unsent
    BY <1>2 DEF GetsPlan, GetsSlice, NoSlice, Unsent
  <2>3. PlanOf(o)'
    BY <1>2, PlanStarts
  <2> QED BY <2>1, <2>2, <2>3 DEF OrderAmounts, Sent, Unfinished, TerminalStatuses
<1>3. CASE (\A v \in Venues : Change(o, v)) /\ OrderRow(o)
  <2>1. PlanOf(o)'
    BY <1>1, <1>3, PlanStays DEF AmountInv, OrderAmounts
  <2>2. ASSUME NEW v \in Venues, slice[o][v].status # "RESERVED"
        PROVE  slice'[o][v].status # "RESERVED"
    <3>1. Change(o, v)
      BY <1>3
    <3>2. CASE slice'[o][v] = slice[o][v]
      BY <2>2, <3>2
    <3>3. CASE TakesAnswer(o, v)
      BY <1>1, <3>3 DEF TakesAnswer, Became, Heard, SliceRows
    <3>4. CASE FoundInLedger(o, v)
      BY <1>1, <3>4 DEF FoundInLedger, Became, Heard, SliceRows, FilledStatuses
    <3> QED BY <2>2, <3>1, <3>2, <3>3, <3>4 DEF Change, Untouched, LetGo, GoesOut,
       EndsWithoutRow, EndsWithRow, Unheard, GivenBack, Ruled
  <2>3. ASSUME NEW v \in Venues, slice[o][v].status \in {"NONE", "RELEASED"}
        PROVE  slice'[o][v] = slice[o][v]
    <3>1. Change(o, v)
      BY <1>3
    <3> QED BY <2>3, <3>1 DEF Change, Untouched, LetGo, GoesOut, EndsWithoutRow,
       EndsWithRow, Unheard, TakesAnswer, FoundInLedger, GivenBack, Ruled, Unanswered
  <2>4. ASSUME NEW v \in Venues, order[o].status = "RESERVED", order'[o].status = "RESERVED",
               slice[o][v].status \in Unsent
        PROVE  slice'[o][v].status \in Unsent
    <3>1. Change(o, v)
      BY <1>3
    <3>2. CASE LetGo(o, v)
      BY <1>1, <3>2 DEF LetGo, With, SliceRows, Unsent
    <3>3. CASE slice'[o][v] = slice[o][v]
      BY <2>4, <3>3
    <3> QED BY <2>4, <3>1, <3>2, <3>3 DEF Change, Untouched, GoesOut, EndsWithoutRow,
       EndsWithRow, Unheard, TakesAnswer, FoundInLedger, GivenBack, Ruled, Unanswered, Unsent
  <2>5. CASE order'[o] = order[o]
    <3>1. ASSUME order[o].status \in {"FILLED", "PARTIAL", "REJECTED"}
          PROVE  Closed(o, order[o].status, order[o].filled)'
      <4>1. Closed(o, order[o].status, order[o].filled)
        BY <1>1, <3>1 DEF OrderAmounts
      <4>2. slice'[o] = slice[o]
        BY <1>3, <4>1, OverStays DEF AmountInv, Closed
      <4> SUFFICES ASSUME NEW x, NEW y, x = order[o].status, y = order[o].filled
                   PROVE  Closed(o, x, y)'
        BY <2>5
      <4> QED BY <4>1, <4>2, ClosedStays
    <3>2. order'[o].status \in {"FILLED", "PARTIAL", "REJECTED"} =>
            Closed(o, order[o].status, order[o].filled)'
      BY <2>5, <3>1
    <3>3. order'[o].status \in {"NONE", "ROUTING"} => \A v \in Venues : slice'[o][v] = NoSlice
      BY <1>1, <2>3, <2>5 DEF OrderAmounts, NoSlice
    <3>4. order'[o].status = "RESERVED" => \A v \in Venues : slice'[o][v].status \in Unsent
      BY <1>1, <2>4, <2>5 DEF OrderAmounts
    <3>5. order'[o].status = "ABORTED" =>
            \A v \in Venues : slice'[o][v].status \in {"NONE", "RELEASED"}
      BY <1>1, <2>3, <2>5 DEF OrderAmounts
    <3>6. order'[o].status \in Sent => \A v \in Venues : slice'[o][v].status # "RESERVED"
      BY <1>1, <2>2, <2>5 DEF OrderAmounts
    <3>7. order'[o].status \in {"NONE", "ROUTING", "RESERVED", "ABORTED"} => order'[o].filled = 0
      BY <1>1, <2>5 DEF OrderAmounts
    <3> QED BY <2>1, <3>2, <3>3, <3>4, <3>5, <3>6, <3>7 DEF OrderAmounts
  <2>6. CASE order[o].status = "NONE" /\ RowBecomes(o, "ROUTING")
    <3>1. order'[o].status = "ROUTING" /\ order'[o].filled = 0
      BY <1>1, <2>6 DEF RowBecomes, OrderRows, OrderAmounts
    <3>2. \A v \in Venues : slice'[o][v] = NoSlice
      BY <1>1, <2>3, <2>6 DEF OrderAmounts, NoSlice
    <3> QED BY <2>1, <3>1, <3>2 DEF OrderAmounts, Sent, Unfinished, TerminalStatuses
  <2>7. CASE order[o].status = "ROUTING" /\ RowBecomes(o, "REJECTED")
    <3>1. order'[o].status = "REJECTED" /\ order'[o].filled = 0
      BY <1>1, <2>7 DEF RowBecomes, OrderRows, OrderAmounts
    <3>2. \A v \in Venues : slice'[o][v] = NoSlice
      BY <1>1, <2>3, <2>7 DEF OrderAmounts, NoSlice
    <3>3. \A v \in Venues : slice'[o][v].status = "NONE"
      BY <3>2 DEF NoSlice
    <3>4. FilledOf(o)' = 0
      <4> DEFINE g == [v \in Venues |-> slice'[o][v].filled]
                 B == {v \in Venues : slice'[o][v].status \in FilledStatuses}
      <4>1. FilledOf(o)' = SumFunctionOnSet(g, B)
        BY DEF FilledOf
      <4>2. B = {}
        BY <3>3 DEF FilledStatuses
      <4> HIDE DEF g, B
      <4> QED BY <4>1, <4>2, SumEmpty
    <3>5. StatusOf(o)' = "REJECTED"
      <4>1. Desired[o] \in Nat \ {0}
        BY RouterAssumption
      <4> QED BY <3>3, <3>4, <4>1 DEF StatusOf, Unanswered
    <3>6. Closed(o, "REJECTED", 0)'
      BY <3>3, <3>4, <3>5 DEF Closed, Unanswered
    <3> QED BY <2>1, <3>1, <3>3, <3>6 DEF OrderAmounts, Sent
  <2>8. CASE /\ order[o].status \in {"ROUTING", "RESERVED"} /\ RowBecomes(o, "ABORTED")
             /\ \A v \in Venues : slice'[o][v].status \in {"NONE", "RELEASED"}
    <3>1. order'[o].status = "ABORTED" /\ order'[o].filled = 0
      BY <1>1, <2>8 DEF RowBecomes, OrderRows, OrderAmounts
    <3> QED BY <2>1, <2>8, <3>1 DEF OrderAmounts
  <2>9. CASE /\ order[o].status = "RESERVED" /\ RowBecomes(o, "DISPATCHING")
             /\ \A v \in Venues : slice'[o][v].status # "RESERVED"
    <3>1. order'[o].status = "DISPATCHING"
      BY <1>1, <2>9 DEF RowBecomes, OrderRows
    <3> QED BY <2>1, <2>9, <3>1 DEF OrderAmounts
  <2>10. CASE order[o].status \in Unfinished /\ Finished(o)
    <3>1. PICK a \in Agents : /\ seen[a] # Nothing /\ seen[a].order = o
                              /\ order'[o] = [status |-> seen[a].next, filled |-> seen[a].filled]
      BY <2>10 DEF Finished
    <3>2. /\ SeenAmounts(a) /\ seen[a].next \in Ends
          /\ order'[o].status = seen[a].next /\ order'[o].filled = seen[a].filled
      BY <3>1 DEF AmountInv, RouterInv, AgentInv
    <3>3. \A v \in Venues : slice'[o][v].status # "RESERVED"
      BY <1>1, <2>2, <2>10 DEF OrderAmounts, Sent
    <3>4. ASSUME NEW x, NEW y, x = seen[a].next, y = seen[a].filled, x # "UNCONFIRMED"
          PROVE  Closed(o, x, y)'
      <4>1. Closed(o, x, y)
        BY <3>1, <3>2, <3>4 DEF SeenAmounts
      <4>2. slice'[o] = slice[o]
        BY <1>3, <4>1, OverStays DEF AmountInv, Closed
      <4> QED BY <3>2, <3>4, <4>1, <4>2, ClosedStays
    <3>5. order'[o].status \in {"FILLED", "PARTIAL", "REJECTED"} =>
            Closed(o, order[o].status, order[o].filled)'
      <4> SUFFICES ASSUME NEW x, NEW y, x = order'[o].status, y = order'[o].filled,
                          x # "UNCONFIRMED"
                   PROVE  Closed(o, x, y)'
        OBVIOUS
      <4> QED BY <3>2, <3>4
    <3> QED BY <2>1, <3>2, <3>3, <3>5 DEF OrderAmounts, Ends
  <2> QED BY <1>3, <2>5, <2>6, <2>7, <2>8, <2>9, <2>10 DEF OrderRow
<1> QED BY <1>2, <1>3 DEF OrderChange

LEMMA SeenAmountsStay ==
  ASSUME AmountInv, RouterInv', TypeOK', NEW a \in Agents, SeenChange(a),
         \A o \in Orders : OrderChange(o)
  PROVE  SeenAmounts(a)'
<1> SUFFICES ASSUME NEW u, u = seen'[a], u # Nothing, u.next # "UNCONFIRMED"
             PROVE  Closed(u.order, u.next, u.filled)'
  BY DEF SeenAmounts
<1>1. CASE seen[a] = u
  <2> DEFINE o == u.order
  <2>1. o \in Orders /\ order[o].status \in Sent
    BY <1>1 DEF AmountInv, RouterInv, AgentInv
  <2>2. Closed(o, u.next, u.filled)
    BY <1>1 DEF AmountInv, SeenAmounts
  <2>3. ~GetsPlan(o)
    BY <2>1 DEF GetsPlan, Sent, Unfinished, TerminalStatuses
  <2>4. slice'[o] = slice[o]
    BY <2>1, <2>2, <2>3, OverStays DEF AmountInv, Closed, OrderChange
  <2> QED BY <2>1, <2>2, <2>4, ClosedStays
<1>2. CASE \E o \in Orders :
             /\ order[o].status \in Unfinished
             /\ u = [order |-> o, read |-> order[o].status, next |-> StatusOf(o),
                     filled |-> FilledOf(o)]
             /\ UNCHANGED <<order, slice>>
  <2>1. PICK o \in Orders :
             /\ order[o].status \in Unfinished
             /\ u.order = o /\ u.next = StatusOf(o) /\ u.filled = FilledOf(o)
             /\ slice' = slice
    BY <1>2
  <2>2. \A v \in Venues : slice[o][v].status # "RESERVED"
    BY <2>1 DEF AmountInv, OrderAmounts, Sent
  <2>3. \A v \in Venues : slice[o][v].status \notin Unanswered
    BY <2>1 DEF StatusOf
  <2>4. Closed(o, u.next, u.filled)
    BY <2>1, <2>2, <2>3 DEF Closed
  <2>5. slice'[o] = slice[o]
    BY <2>1
  <2> QED BY <2>1, <2>4, <2>5, ClosedStays
<1> QED BY <1>1, <1>2 DEF SeenChange

LEMMA FoundStays ==
  ASSUME AmountInv, TypeOK', \A o \in Orders : OrderChange(o),
         \A s \in Sweepers : FoundChange(s)
  PROVE  FoundIsInLedger'
<1> SUFFICES ASSUME NEW s \in Sweepers, NEW f \in found'[s]
             PROVE  InLedger(f)'
  BY DEF FoundIsInLedger
<1>1. CASE row' = row /\ InLedger(f)
  BY <1>1 DEF InLedger
<1>2. CASE f \in found[s]
  <2> DEFINE o == f.order
             v == f.venue
  <2>1. o \in Orders /\ v \in Venues /\ InLedger(f)
    BY <1>2 DEF AmountInv, RouterInv, HelperInv, FoundIsInLedger
  <2>2. row[o][v].status # "NONE" /\ row[o][v].stake = f.stake
    BY <2>1 DEF InLedger
  <2>3. SliceAmounts(o, v) /\ OrderChange(o)
    BY <2>1 DEF AmountInv
  <2> HIDE DEF o, v
  <2>4. CASE GetsPlan(o)
    <3>1. row'[o][v] = row[o][v]
      BY <2>1, <2>4 DEF GetsPlan, GetsSlice
    <3> QED BY <2>2, <3>1 DEF InLedger, o, v
  <2>5. CASE Change(o, v)
    <3>1. row'[o][v].status # "NONE" /\ row'[o][v].stake = row[o][v].stake
      BY <2>2, <2>3, <2>5 DEF SliceAmounts, Change, Untouched, LetGo, GoesOut, EndsWithoutRow,
         EndsWithRow, Unheard, TakesAnswer, FoundInLedger, GivenBack, Ruled
    <3> QED BY <2>2, <3>1 DEF InLedger, o, v
  <2> QED BY <2>1, <2>3, <2>4, <2>5 DEF OrderChange
<1> QED BY <1>1, <1>2 DEF FoundChange

LEMMA AmountsStay ==
  ASSUME AmountInv, RouterInv', StepFacts
  PROVE  AmountInv'
<1>1. ASSUME NEW o \in Orders, NEW v \in Venues PROVE SliceAmounts(o, v)'
  <2>1. OrderChange(o) /\ TypeOK'
    BY DEF StepFacts
  <2> QED BY <2>1, SliceAmountsStart, SliceAmountsStay DEF OrderChange
<1>2. \A o \in Orders : OrderAmounts(o)'
  BY OrderAmountsStay DEF StepFacts
<1>3. \A a \in Agents : SeenAmounts(a)'
  BY SeenAmountsStay DEF StepFacts
<1>4. FoundIsInLedger'
  BY FoundStays DEF StepFacts
<1> QED BY <1>1, <1>2, <1>3, <1>4 DEF AmountInv, StepFacts

LEMMA ClosedAddsUp ==
  AmountInv => ClosedOrderAddsUp
<1> SUFFICES ASSUME AmountInv, NEW o \in Orders, order[o].status \in TerminalStatuses
             PROVE  /\ \A v \in Venues : slice[o][v].status \notin Unanswered \cup {"RESERVED"}
                    /\ order[o].filled = FilledOf(o)
                    /\ order[o].status = "FILLED" <=> FilledOf(o) = Desired[o]
                    /\ order[o].status = "PARTIAL" <=> FilledOf(o) \in 1 .. Desired[o] - 1
                    /\ order[o].status \in {"REJECTED", "ABORTED"} =>
                         \A v \in Venues : hold[o][v] = 0
  BY DEF ClosedOrderAddsUp
<1>1. /\ OrderAmounts(o) /\ PlanOf(o) /\ \A v \in Venues : SliceAmounts(o, v) /\ SliceInv(o, v)
      /\ FilledOf(o) \in Nat /\ Desired[o] \in Nat \ {0}
  BY FilledFacts, RouterAssumption DEF AmountInv, OrderAmounts, RouterInv
<1>2. FilledOf(o) <= Desired[o]
  BY <1>1, FilledWithin DEF AmountInv
<1>3. CASE order[o].status = "ABORTED"
  <2>1. /\ \A v \in Venues : slice[o][v].status \in {"NONE", "RELEASED"}
        /\ order[o].filled = 0
    BY <1>1, <1>3 DEF OrderAmounts
  <2>2. \A v \in Venues : slice[o][v].status \notin FilledStatuses \cup Unanswered \cup {"RESERVED"}
    BY <2>1 DEF FilledStatuses, Unanswered
  <2>3. FilledOf(o) = 0
    BY <2>2, FilledFacts DEF AmountInv
  <2>4. \A v \in Venues : hold[o][v] = 0
    BY <1>1, <2>1 DEF SliceInv
  <2> QED BY <1>1, <1>3, <2>1, <2>2, <2>3, <2>4
<1>4. CASE order[o].status \in {"FILLED", "PARTIAL", "REJECTED"}
  <2>1. Closed(o, order[o].status, order[o].filled)
    BY <1>1, <1>4 DEF OrderAmounts
  <2>2. /\ \A v \in Venues : slice[o][v].status \notin Unanswered \cup {"RESERVED"}
        /\ order[o].filled = FilledOf(o)
        /\ order[o].status = StatusOf(o)
    BY <2>1 DEF Closed
  <2>3. StatusOf(o) = IF FilledOf(o) >= Desired[o] THEN "FILLED"
                      ELSE IF FilledOf(o) > 0 THEN "PARTIAL" ELSE "REJECTED"
    BY <2>2 DEF StatusOf
  <2>4. order[o].status = "FILLED" <=> FilledOf(o) = Desired[o]
    BY <1>1, <1>2, <2>2, <2>3
  <2>5. order[o].status = "PARTIAL" <=> FilledOf(o) \in 1 .. Desired[o] - 1
    BY <1>1, <1>2, <2>2, <2>3
  <2>6. ASSUME order[o].status = "REJECTED", NEW v \in Venues
        PROVE  hold[o][v] = 0
    <3>1. FilledOf(o) = 0
      BY <1>1, <1>2, <2>2, <2>3, <2>6
    <3>2. slice[o][v].status \notin FilledStatuses
      <4>1. slice[o][v].status \in FilledStatuses => slice[o][v].filled <= FilledOf(o)
        BY FilledFacts DEF AmountInv
      <4>2. slice[o][v].status \in FilledStatuses => slice[o][v].filled >= 1
        BY <1>1 DEF SliceAmounts
      <4>3. slice[o][v].filled \in Nat
        BY AmountsOf DEF AmountInv, SliceRows
      <4> QED BY <3>1, <4>1, <4>2, <4>3
    <3>3. slice[o][v].status \in {"NONE", "RELEASED", "REJECTED"}
      BY <1>1, <2>2, <3>2 DEF SliceInv, SliceStatuses
    <3> QED BY <1>1, <3>3 DEF SliceInv, SliceAmounts
  <2> QED BY <1>4, <2>2, <2>4, <2>5, <2>6
<1> QED BY <1>3, <1>4 DEF TerminalStatuses
-----------------------------------------------------------------------------
(***************************************************************************)
(* Giving back                                                             *)
(***************************************************************************)
HoldTyped == hold \in [Orders -> [Venues -> Nat]] /\ reserved \in [Venues -> Nat]

LEMMA GiveBackFacts ==
  ASSUME HoldTyped, ReservedIsTheOpenHolds,
         NEW h \in [Orders -> [Venues -> Nat]], GiveBack(h),
         \A o \in Orders, v \in Venues : h[o][v] <= hold[o][v]
  PROVE  HoldTyped' /\ ReservedIsTheOpenHolds' /\ hold' = h
<1>1. /\ hold' = h
      /\ reserved' = [v \in Venues |-> Minus(reserved[v],
           SumFunctionOnSet([o \in Orders |-> hold[o][v] - h[o][v]], Orders))]
  BY DEF GiveBack
<1>2. ASSUME NEW v \in Venues
      PROVE  /\ reserved'[v] = SumFunctionOnSet([o \in Orders |-> h[o][v]], Orders)
             /\ reserved'[v] \in Nat /\ reserved'[v] <= Balance[v]
  <2> DEFINE f == [o \in Orders |-> hold[o][v]]
             g == [o \in Orders |-> h[o][v]]
             d == [o \in Orders |-> hold[o][v] - h[o][v]]
  <2>1. \A o \in Orders : /\ f[o] \in Nat /\ g[o] \in Nat /\ g[o] <= f[o] /\ d[o] = f[o] - g[o]
    BY DEF HoldTyped
  <2>2. reserved[v] = SumFunctionOnSet(f, Orders) /\ reserved[v] <= Balance[v]
    BY DEF ReservedIsTheOpenHolds
  <2>3. reserved'[v] = Minus(reserved[v], SumFunctionOnSet(d, Orders))
    BY <1>1
  <2>4. Balance[v] \in Nat /\ reserved[v] \in Nat /\ IsFiniteSet(Orders)
    BY RouterAssumption DEF HoldTyped
  <2> HIDE DEF f, g, d
  <2>5. SumFunctionOnSet(d, Orders) = SumFunctionOnSet(f, Orders) - SumFunctionOnSet(g, Orders)
    <3>1. \A o \in Orders : f[o] \in Int /\ g[o] \in Int /\ d[o] = f[o] - g[o]
      BY <2>1
    <3> QED BY <2>4, <3>1, SumMinus
  <2>6. SumFunctionOnSet(g, Orders) \in Nat
    BY <2>1, <2>4, SumSubset
  <2>7. SumFunctionOnSet(g, Orders) <= SumFunctionOnSet(f, Orders)
    <3>1. \A o \in Orders : g[o] \in Int /\ f[o] \in Int /\ g[o] <= f[o]
      BY <2>1
    <3> QED BY <2>4, <3>1, SumAtMost
  <2>8. reserved'[v] = SumFunctionOnSet(g, Orders)
    BY <2>2, <2>3, <2>4, <2>5, <2>6, <2>7 DEF Minus
  <2> QED BY <2>2, <2>4, <2>6, <2>7, <2>8 DEF g
<1>3. reserved' \in [Venues -> Nat]
  <2>1. DOMAIN reserved' = Venues /\ reserved' = [v \in Venues |-> reserved'[v]]
    BY <1>1
  <2> QED BY <1>2, <2>1
<1> QED BY <1>1, <1>2, <1>3 DEF HoldTyped, ReservedIsTheOpenHolds

LEMMA HoldsAsWere ==
  ASSUME HoldTyped, ReservedIsTheOpenHolds, UNCHANGED <<hold, reserved>>
  PROVE  HoldTyped' /\ ReservedIsTheOpenHolds'
<1>1. ASSUME NEW v \in Venues
      PROVE  SumFunctionOnSet([o \in Orders |-> hold'[o][v]], Orders) =
               SumFunctionOnSet([o \in Orders |-> hold[o][v]], Orders)
  <2> DEFINE T(h) == SumFunctionOnSet([o \in Orders |-> h[o][v]], Orders)
  <2>1. T(hold') = T(hold)
    <3> HIDE DEF T
    <3> QED BY SMT
  <2> QED BY <2>1
<1> QED BY <1>1 DEF HoldTyped, ReservedIsTheOpenHolds

LEMMA WithoutFacts ==
  ASSUME HoldTyped, ReservedIsTheOpenHolds, NEW S, GiveBack(HoldsWithout(S))
  PROVE  /\ HoldTyped' /\ ReservedIsTheOpenHolds'
         /\ \A o \in Orders, v \in Venues :
              hold'[o][v] = IF <<o, v>> \in S THEN 0 ELSE hold[o][v]
<1>1. HoldsWithout(S) \in [Orders -> [Venues -> Nat]]
  BY DEF HoldsWithout, HoldTyped
<1>2. \A o \in Orders, v \in Venues :
        /\ HoldsWithout(S)[o][v] = IF <<o, v>> \in S THEN 0 ELSE hold[o][v]
        /\ HoldsWithout(S)[o][v] <= hold[o][v]
  BY DEF HoldsWithout, HoldTyped
<1> HIDE DEF HoldsWithout
<1> QED BY <1>1, <1>2, GiveBackFacts

\* One cell of a table.
LEMMA Put ==
  ASSUME NEW D, NEW f \in [Orders -> [Venues -> D]], NEW o \in Orders, NEW v \in Venues,
         NEW x \in D, NEW g, g = [f EXCEPT ![o][v] = x]
  PROVE  /\ g \in [Orders -> [Venues -> D]] /\ g[o][v] = x
         /\ \A p \in Orders, w \in Venues : p # o \/ w # v => g[p][w] = f[p][w]
OBVIOUS

-----------------------------------------------------------------------------
(***************************************************************************)
(* What each action does                                                   *)
(***************************************************************************)
OrderTyped == order \in [Orders -> OrderRows]
SliceTyped == slice \in [Orders -> [Venues -> SliceRows]]
BreakerTyped == breaker \in [Venues -> [failures : Nat, paused : BOOLEAN]]
ShotTyped == shot \in [Orders -> [Venues -> Shots]]
RowTyped == row \in [Orders -> [Venues -> LedgerRows]]
Places == {"new", "claimed", "reserved", "dispatched", "applied", "done", "dead"}
PcTyped == pc \in [Orders -> Places]
WorkTyped == todo \in [Orders -> SUBSET Venues] /\ trips \in [Orders -> SUBSET Venues]
AgendaTyped == agenda \in [Agents -> SUBSET Orders]
SeenTyped == seen \in [Agents -> Findings \cup {Nothing}]
FoundTyped == found \in [Sweepers -> SUBSET [order : Orders, venue : Venues, stake : Nat]]
TargetTyped == target \in [Operators -> (Orders \X Venues) \cup {<<>>}]

LEMMA TypeParts ==
  /\ TypeOK => /\ OrderTyped /\ SliceTyped /\ HoldTyped /\ BreakerTyped /\ ShotTyped
               /\ RowTyped /\ PcTyped /\ WorkTyped /\ AgendaTyped /\ SeenTyped
               /\ FoundTyped /\ TargetTyped
  /\ OrderTyped' /\ SliceTyped' /\ HoldTyped' /\ BreakerTyped' /\ ShotTyped'
     /\ RowTyped' /\ PcTyped' /\ WorkTyped' /\ AgendaTyped' /\ SeenTyped'
     /\ FoundTyped' /\ TargetTyped' => TypeOK'
BY DEF TypeOK, OrderTyped, SliceTyped, HoldTyped, BreakerTyped, ShotTyped, RowTyped, PcTyped,
   WorkTyped, AgendaTyped, SeenTyped, FoundTyped, TargetTyped, OrderRows, SliceRows, Shots,
   LedgerRows, Places

LEMMA TypesKept ==
  ASSUME TypeOK
  PROVE  /\ order' = order => OrderTyped'
         /\ slice' = slice => SliceTyped'
         /\ hold' = hold /\ reserved' = reserved => HoldTyped'
         /\ breaker' = breaker => BreakerTyped'
         /\ shot' = shot => ShotTyped'
         /\ row' = row => RowTyped'
         /\ pc' = pc => PcTyped'
         /\ todo' = todo /\ trips' = trips => WorkTyped'
         /\ agenda' = agenda => AgendaTyped'
         /\ seen' = seen => SeenTyped'
         /\ found' = found => FoundTyped'
         /\ target' = target => TargetTyped'
BY TypeParts DEF OrderTyped, SliceTyped, HoldTyped, BreakerTyped, ShotTyped, RowTyped, PcTyped,
   WorkTyped, AgendaTyped, SeenTyped, FoundTyped, TargetTyped

\* What a step that leaves something alone owes.
LEMMA LeftAlone ==
  ASSUME AmountInv
  PROVE  /\ hold' = hold /\ reserved' = reserved => ReservedIsTheOpenHolds'
         /\ \A o \in Orders :
              /\ slice' = slice /\ hold' = hold /\ shot' = shot /\ row' = row =>
                   \A v \in Venues : Change(o, v)
              /\ order' = order => OrderRow(o)
              /\ pc' = pc => (pc[o] \in Over => pc'[o] \in Over)
         /\ \A a \in Agents : seen' = seen => SeenChange(a)
         /\ \A s \in Sweepers : found' = found => FoundChange(s)
<1>1. hold' = hold /\ reserved' = reserved => ReservedIsTheOpenHolds'
  BY HoldsAsWere, TypeParts DEF AmountInv
<1>2. ASSUME slice' = slice, hold' = hold, shot' = shot, row' = row,
             NEW o \in Orders, NEW v \in Venues
      PROVE  Change(o, v)
  BY <1>2 DEF Change, Untouched
<1>3. order' = order => \A o \in Orders : OrderRow(o)
  BY DEF OrderRow
<1>4. seen' = seen => \A a \in Agents : SeenChange(a)
  BY DEF SeenChange
<1>5. found' = found => \A s \in Sweepers : FoundChange(s)
  BY DEF FoundChange
<1> QED BY <1>1, <1>2, <1>3, <1>4, <1>5

LEMMA Cas ==
  ASSUME OrderTyped, NEW o \in Orders, NEW expect, NEW status \in OrderStatuses,
         CasOrder(o, expect, status)
  PROVE  /\ OrderTyped'
         /\ \A p \in Orders \ {o} : order'[p] = order[p]
         /\ order[o].status \in expect => RowBecomes(o, status)
         /\ order[o].status \notin expect => order'[o] = order[o]
<1>1. [order[o] EXCEPT !.status = status] \in OrderRows
  BY DEF OrderTyped, OrderRows
<1> QED BY <1>1 DEF OrderTyped, CasOrder, RowBecomes

LEMMA StepTo ==
  ASSUME PcTyped, NEW o \in Orders, NEW from, NEW to \in Places, Step(o, from, to),
         from \notin Over
  PROVE  /\ PcTyped' /\ pc[o] = from /\ pc'[o] = to
         /\ \A p \in Orders \ {o} : pc'[p] = pc[p]
         /\ \A p \in Orders : pc[p] \in Over => pc'[p] \in Over
BY DEF PcTyped, Step

LEMMA ReleasedFacts ==
  ASSUME SliceTyped, NEW S, S = Releasable(S)
  PROVE  /\ Released(S) \in [Orders -> [Venues -> SliceRows]]
         /\ \A o \in Orders, v \in Venues :
              /\ <<o, v>> \in S => /\ slice[o][v].status = "RESERVED"
                                   /\ Released(S)[o][v] = With(slice[o][v], "RELEASED")
                                   /\ Released(S)[o][v].status = "RELEASED"
              /\ <<o, v>> \notin S => Released(S)[o][v] = slice[o][v]
<1> DEFINE R == Released(S)
<1>1. \A o \in Orders, v \in Venues : <<o, v>> \in S => slice[o][v].status = "RESERVED"
  BY DEF Releasable
<1>2. ASSUME NEW o \in Orders, NEW v \in Venues
      PROVE  /\ R[o][v] = IF <<o, v>> \in S THEN With(slice[o][v], "RELEASED") ELSE slice[o][v]
             /\ R[o][v] \in SliceRows
             /\ <<o, v>> \in S => R[o][v].status = "RELEASED"
  <2>1. R[o][v] = IF <<o, v>> \in S THEN With(slice[o][v], "RELEASED") ELSE slice[o][v]
    BY DEF Released, With
  <2>2. slice[o][v] \in SliceRows
    BY DEF SliceTyped
  <2> QED BY <2>1, <2>2 DEF SliceRows, SliceStatuses, With
<1>3. R \in [Orders -> [Venues -> SliceRows]]
  <2>1. R = [o \in Orders |-> [v \in Venues |-> R[o][v]]]
    BY DEF Released
  <2> QED BY <1>2, <2>1
<1> QED BY <1>1, <1>2, <1>3

LEMMA ReleaseFacts ==
  ASSUME SliceTyped, HoldTyped, ReservedIsTheOpenHolds,
         NEW S, S = Releasable(S), slice' = Released(S), GiveBack(HoldsWithout(S))
  PROVE  /\ SliceTyped' /\ HoldTyped' /\ ReservedIsTheOpenHolds'
         /\ \A o \in Orders, v \in Venues :
              /\ <<o, v>> \in S => /\ slice[o][v].status = "RESERVED"
                                   /\ slice'[o][v] = With(slice[o][v], "RELEASED")
                                   /\ slice'[o][v].status = "RELEASED" /\ hold'[o][v] = 0
              /\ <<o, v>> \notin S => slice'[o][v] = slice[o][v] /\ hold'[o][v] = hold[o][v]
<1>1. /\ SliceTyped'
      /\ \A o \in Orders, v \in Venues :
              /\ <<o, v>> \in S => /\ slice[o][v].status = "RESERVED"
                                   /\ slice'[o][v] = With(slice[o][v], "RELEASED")
                                   /\ slice'[o][v].status = "RELEASED"
              /\ <<o, v>> \notin S => slice'[o][v] = slice[o][v]
  BY ReleasedFacts DEF SliceTyped
<1>2. HoldTyped' /\ ReservedIsTheOpenHolds' /\ \A o \in Orders, v \in Venues :
        hold'[o][v] = IF <<o, v>> \in S THEN 0 ELSE hold[o][v]
  BY WithoutFacts
<1> QED BY <1>1, <1>2

\* The change of a slice that a release found, or did not find.
LEMMA ReleaseChange ==
  ASSUME NEW o \in Orders, NEW v \in Venues,
         shot'[o][v] = shot[o][v], row'[o][v] = row[o][v],
         \/ /\ slice[o][v].status = "RESERVED" /\ hold'[o][v] = 0
            /\ slice'[o][v] = With(slice[o][v], "RELEASED")
         \/ slice'[o][v] = slice[o][v] /\ hold'[o][v] = hold[o][v]
  PROVE  Change(o, v)
BY DEF Change, Untouched, LetGo
-----------------------------------------------------------------------------
LEMMA ClaimFacts ==
  ASSUME AmountInv, NEW o \in Orders, Claim(o)
  PROVE  StepFacts
<1>1. /\ Step(o, "new", "claimed") /\ order' = [order EXCEPT ![o].status = "ROUTING"]
      /\ UNCHANGED <<slice, hold, reserved, breaker, shot, row, todo, trips, agenda, seen, found, target>>
  BY DEF Claim, venueside, helpers
<1>2. order[o].status = "NONE"
  BY <1>1 DEF AmountInv, RouterInv, OrderInv, Step
<1>3. CasOrder(o, {"NONE"}, "ROUTING")
  BY <1>1, <1>2 DEF CasOrder
<1>4. /\ OrderTyped' /\ \A p \in Orders \ {o} : order'[p] = order[p]
      /\ RowBecomes(o, "ROUTING")
  <2>1. OrderTyped /\ "ROUTING" \in OrderStatuses
    BY TypeParts DEF AmountInv, OrderStatuses
  <2> QED BY <1>2, <1>3, <2>1, Cas
<1>5. PcTyped' /\ \A p \in Orders : pc[p] \in Over => pc'[p] \in Over
  <2>1. PcTyped /\ "claimed" \in Places /\ "new" \notin Over
    BY TypeParts DEF AmountInv, Places, Over
  <2> QED BY <1>1, <2>1, StepTo
<1>6. TypeOK'
  BY <1>1, <1>4, <1>5, TypesKept, TypeParts DEF AmountInv
<1>7. \A p \in Orders : OrderRow(p)
  BY <1>2, <1>4 DEF OrderRow
<1> QED BY <1>1, <1>5, <1>6, <1>7, LeftAlone DEF StepFacts, OrderChange

LEMMA RefuseFacts ==
  ASSUME AmountInv, NEW o \in Orders, Refuse(o)
  PROVE  StepFacts
<1>1. /\ Step(o, "claimed", "done") /\ CasOrder(o, {"ROUTING"}, "REJECTED")
      /\ UNCHANGED <<slice, hold, reserved, breaker, shot, row, todo, trips, agenda, seen, found, target>>
  BY DEF Refuse, venueside, helpers
<1>2. /\ OrderTyped' /\ \A p \in Orders \ {o} : order'[p] = order[p]
      /\ order[o].status = "ROUTING" => RowBecomes(o, "REJECTED")
      /\ order[o].status # "ROUTING" => order'[o] = order[o]
  <2>1. OrderTyped /\ "REJECTED" \in OrderStatuses
    BY TypeParts DEF AmountInv, OrderStatuses, TerminalStatuses
  <2> QED BY <1>1, <2>1, Cas
<1>3. PcTyped' /\ \A p \in Orders : pc[p] \in Over => pc'[p] \in Over
  <2>1. PcTyped /\ "done" \in Places /\ "claimed" \notin Over
    BY TypeParts DEF AmountInv, Places, Over
  <2> QED BY <1>1, <2>1, StepTo
<1>4. TypeOK'
  BY <1>1, <1>2, <1>3, TypesKept, TypeParts DEF AmountInv
<1>5. \A p \in Orders : OrderRow(p)
  BY <1>2 DEF OrderRow
<1> QED BY <1>1, <1>3, <1>4, <1>5, LeftAlone DEF StepFacts, OrderChange

LEMMA AbandonedFacts ==
  ASSUME AmountInv, NEW o \in Orders, RoutingAbandoned(o)
  PROVE  StepFacts
<1>1. /\ order[o].status = "ROUTING" /\ CasOrder(o, {"ROUTING"}, "REJECTED")
      /\ UNCHANGED <<slice, hold, reserved, breaker, shot, row, pc, todo, trips, agenda, seen, found, target>>
  BY DEF RoutingAbandoned, venueside, local, helpers, CasOrder
<1>2. /\ OrderTyped' /\ \A p \in Orders \ {o} : order'[p] = order[p]
      /\ RowBecomes(o, "REJECTED")
  <2>1. OrderTyped /\ "REJECTED" \in OrderStatuses
    BY TypeParts DEF AmountInv, OrderStatuses, TerminalStatuses
  <2> QED BY <1>1, <2>1, Cas
<1>4. TypeOK'
  BY <1>1, <1>2, TypesKept, TypeParts DEF AmountInv
<1>5. \A p \in Orders : OrderRow(p)
  BY <1>1, <1>2 DEF OrderRow
<1> QED BY <1>1, <1>4, <1>5, LeftAlone DEF StepFacts, OrderChange

LEMMA AbortFacts ==
  ASSUME AmountInv, NEW o \in Orders, Abort(o)
  PROVE  StepFacts
<1>0. PICK S : S = Releasable({o} \X Venues)
  OBVIOUS
<1>1. /\ Step(o, "reserved", "done") /\ CasOrder(o, {"RESERVED"}, "ABORTED")
      /\ slice' = Released(S) /\ GiveBack(HoldsWithout(S))
      /\ UNCHANGED <<breaker, shot, row, todo, trips, agenda, seen, found, target>>
  BY <1>0 DEF Abort, venueside, helpers
<1>2. /\ OrderTyped' /\ \A p \in Orders \ {o} : order'[p] = order[p]
      /\ order[o].status = "RESERVED" => RowBecomes(o, "ABORTED")
      /\ order[o].status # "RESERVED" => order'[o] = order[o]
  <2>1. OrderTyped /\ "ABORTED" \in OrderStatuses
    BY TypeParts DEF AmountInv, OrderStatuses, TerminalStatuses
  <2> QED BY <1>1, <2>1, Cas
<1>3. PcTyped' /\ \A p \in Orders : pc[p] \in Over => pc'[p] \in Over
  <2>1. PcTyped /\ "done" \in Places /\ "reserved" \notin Over
    BY TypeParts DEF AmountInv, Places, Over
  <2> QED BY <1>1, <2>1, StepTo
<1>4. \A v \in Venues : slice[o][v].status = "RESERVED" => <<o, v>> \in S
  BY <1>0 DEF Releasable
<1>4a. SliceTyped /\ HoldTyped /\ ReservedIsTheOpenHolds
  BY TypeParts DEF AmountInv
<1>4b. S = Releasable(S)
  BY <1>0 DEF Releasable
<1>5. SliceTyped' /\ HoldTyped' /\ ReservedIsTheOpenHolds'
  BY <1>1, <1>4a, <1>4b, ReleaseFacts
<1>5a. ASSUME NEW p \in Orders, NEW v \in Venues
      PROVE  /\ <<p, v>> \in S => /\ slice[p][v].status = "RESERVED" /\ hold'[p][v] = 0
                                  /\ slice'[p][v] = With(slice[p][v], "RELEASED")
                                  /\ slice'[p][v].status = "RELEASED"
             /\ <<p, v>> \notin S => slice'[p][v] = slice[p][v] /\ hold'[p][v] = hold[p][v]
  <2>1. slice' = Released(S) /\ GiveBack(HoldsWithout(S))
    BY <1>1
  <2> QED BY <1>4a, <1>4b, <2>1, ReleaseFacts
<1>5b. ASSUME NEW p \in Orders, NEW v \in Venues PROVE Change(p, v)
  <2>1. shot'[p][v] = shot[p][v] /\ row'[p][v] = row[p][v]
    BY <1>1
  <2> QED BY <1>5a, <2>1, ReleaseChange
<1>6. TypeOK'
  BY <1>1, <1>2, <1>3, <1>5, TypesKept, TypeParts DEF AmountInv
<1>7. ASSUME order[o].status = "RESERVED", NEW v \in Venues
      PROVE  slice'[o][v].status \in {"NONE", "RELEASED"}
  <2>1. slice[o][v].status \in Unsent
    BY <1>7 DEF AmountInv, OrderAmounts
  <2> QED BY <1>4, <1>5a, <2>1 DEF Unsent
<1>8. \A p \in Orders : OrderRow(p)
  BY <1>2, <1>7 DEF OrderRow
<1> QED BY <1>1, <1>3, <1>5, <1>5b, <1>6, <1>8, LeftAlone DEF StepFacts, OrderChange

LEMMA DispatchFacts ==
  ASSUME AmountInv, NEW o \in Orders, Dispatch(o)
  PROVE  StepFacts
<1>0. PICK S : S = Releasable({o} \X {v \in Venues : breaker[v].paused})
  OBVIOUS
<1> DEFINE go == Sendable(o)
<1>1. /\ Step(o, "reserved", "dispatched") /\ CasOrder(o, {"RESERVED"}, "DISPATCHING")
      /\ slice' = [Released(S) EXCEPT ![o] = [v \in Venues |->
           IF v \in go THEN With(slice[o][v], "DISPATCHED") ELSE Released(S)[o][v]]]
      /\ GiveBack(HoldsWithout(S))
      /\ shot' = [shot EXCEPT ![o] = [v \in Venues |->
           IF v \in go THEN [shot[o][v] EXCEPT !.state = "sent"] ELSE shot[o][v]]]
      /\ UNCHANGED <<breaker, row, todo, trips, agenda, seen, found, target>>
  BY <1>0 DEF Dispatch, helpers, With
<1>2. S = Releasable(S) /\ \A p \in Orders, v \in Venues :
        <<p, v>> \in S <=> p = o /\ breaker[v].paused /\ slice[o][v].status = "RESERVED"
  BY <1>0 DEF Releasable
<1>3. \A v \in Venues : v \in go <=> slice[o][v].status = "RESERVED" /\ ~breaker[v].paused
  BY DEF Sendable
<1> HIDE DEF go
<1>4. SliceTyped /\ HoldTyped /\ ReservedIsTheOpenHolds /\ ShotTyped
  BY TypeParts DEF AmountInv
<1>5. /\ Released(S) \in [Orders -> [Venues -> SliceRows]]
      /\ \A p \in Orders, v \in Venues :
           /\ <<p, v>> \in S => /\ Released(S)[p][v] = With(slice[p][v], "RELEASED")
                                /\ Released(S)[p][v].status = "RELEASED"
           /\ <<p, v>> \notin S => Released(S)[p][v] = slice[p][v]
  BY <1>2, <1>4, ReleasedFacts
<1>6. \A v \in Venues : /\ With(slice[o][v], "DISPATCHED") \in SliceRows
                        /\ With(slice[o][v], "DISPATCHED").status = "DISPATCHED"
                        /\ [shot[o][v] EXCEPT !.state = "sent"] \in Shots
  <2>1. ASSUME NEW v \in Venues
        PROVE  slice[o][v] \in SliceRows /\ shot[o][v] \in Shots
    BY <1>4 DEF SliceTyped, ShotTyped
  <2>2. ASSUME NEW v \in Venues
        PROVE  With(slice[o][v], "DISPATCHED") \in SliceRows
               /\ With(slice[o][v], "DISPATCHED").status = "DISPATCHED"
    BY <2>1 DEF SliceRows, SliceStatuses, Unanswered, With
  <2>3. ASSUME NEW v \in Venues
        PROVE  [shot[o][v] EXCEPT !.state = "sent"] \in Shots
    BY <2>1 DEF Shots
  <2> QED BY <2>2, <2>3
<1>7. SliceTyped' /\ ShotTyped'
  <2>1. SliceTyped'
    <3> HIDE DEF With
    <3> QED BY <1>1, <1>5, <1>6 DEF SliceTyped
  <2>2. ShotTyped'
    <3> DEFINE x(v) == [shot[o][v] EXCEPT !.state = "sent"]
    <3>1. \A v \in Venues : x(v) \in Shots
      BY <1>6
    <3>2. shot' = [shot EXCEPT ![o] = [v \in Venues |-> IF v \in go THEN x(v) ELSE shot[o][v]]]
      BY <1>1
    <3> HIDE DEF x
    <3> QED BY <1>4, <3>1, <3>2 DEF ShotTyped
  <2> QED BY <2>1, <2>2
<1>8. HoldTyped' /\ ReservedIsTheOpenHolds' /\ \A p \in Orders, v \in Venues :
        hold'[p][v] = IF <<p, v>> \in S THEN 0 ELSE hold[p][v]
  BY <1>1, <1>4, WithoutFacts
<1>9. /\ OrderTyped' /\ \A p \in Orders \ {o} : order'[p] = order[p]
      /\ order[o].status = "RESERVED" => RowBecomes(o, "DISPATCHING") /\ order'[o].status = "DISPATCHING"
      /\ order[o].status # "RESERVED" => order'[o] = order[o]
  <2>1. OrderTyped /\ "DISPATCHING" \in OrderStatuses
    BY TypeParts DEF AmountInv, OrderStatuses
  <2>2. order[o] \in OrderRows
    BY <2>1 DEF OrderTyped
  <2> QED BY <1>1, <2>1, <2>2, Cas DEF RowBecomes, OrderRows
<1>10. /\ PcTyped' /\ \A p \in Orders : pc[p] \in Over => pc'[p] \in Over
       /\ pc[o] = "reserved"
  <2>1. PcTyped /\ "dispatched" \in Places /\ "reserved" \notin Over
    BY TypeParts DEF AmountInv, Places, Over
  <2> QED BY <1>1, <2>1, StepTo
<1>11. TypeOK'
  BY <1>1, <1>7, <1>8, <1>9, <1>10, TypesKept, TypeParts DEF AmountInv
<1>12. ASSUME NEW p \in Orders \ {o}, NEW v \in Venues PROVE Change(p, v)
  <2>1. slice'[p] = Released(S)[p] /\ shot'[p] = shot[p]
    BY <1>1, <1>4, <1>5 DEF ShotTyped
  <2>2. <<p, v>> \notin S
    BY <1>2
  <2>3. slice'[p][v] = slice[p][v] /\ hold'[p][v] = hold[p][v]
    BY <1>5, <1>8, <2>1, <2>2
  <2>4. shot'[p][v] = shot[p][v] /\ row'[p][v] = row[p][v]
    BY <1>1, <2>1
  <2> QED BY <2>3, <2>4, ReleaseChange
<1>13. ASSUME NEW v \in Venues
       PROVE  Change(o, v) /\ (slice'[o][v].status # "RESERVED")
  <2>1. slice'[o][v] = IF v \in go THEN With(slice[o][v], "DISPATCHED") ELSE Released(S)[o][v]
    <3> HIDE DEF With
    <3> QED BY <1>1, <1>5
  <2>2. row'[o][v] = row[o][v] /\ hold'[o][v] = IF <<o, v>> \in S THEN 0 ELSE hold[o][v]
    BY <1>1, <1>8
  <2>3. CASE v \in go
    <3>1. shot'[o][v] = [shot[o][v] EXCEPT !.state = "sent"]
      BY <1>1, <1>4, <2>3 DEF ShotTyped
    <3>2. hold'[o][v] = hold[o][v] /\ slice[o][v].status = "RESERVED"
      BY <1>2, <1>3, <2>2, <2>3
    <3>3. GoesOut(o, v)
      BY <1>9, <1>10, <2>1, <2>2, <2>3, <3>1, <3>2 DEF GoesOut
    <3> QED BY <1>6, <2>1, <2>3, <3>3 DEF Change
  <2>4. CASE v \notin go
    <3>1. shot'[o][v] = shot[o][v]
      BY <1>1, <1>4, <2>4 DEF ShotTyped
    <3>2. CASE <<o, v>> \in S
      <4>1. slice[o][v].status = "RESERVED" /\ slice'[o][v] = With(slice[o][v], "RELEASED")
            /\ slice'[o][v].status = "RELEASED" /\ hold'[o][v] = 0
        BY <1>2, <1>5, <2>1, <2>2, <2>4, <3>2
      <4> QED BY <2>2, <3>1, <4>1, ReleaseChange
    <3>3. CASE <<o, v>> \notin S
      <4>1. slice'[o][v] = slice[o][v] /\ hold'[o][v] = hold[o][v]
        BY <1>5, <2>1, <2>2, <2>4, <3>3
      <4>2. slice[o][v].status # "RESERVED"
        BY <1>2, <1>3, <2>4, <3>3
      <4> QED BY <2>2, <3>1, <4>1, <4>2, ReleaseChange
    <3> QED BY <3>2, <3>3
  <2> QED BY <2>3, <2>4
<1>14. \A p \in Orders : OrderRow(p)
  BY <1>9, <1>13 DEF OrderRow
<1>15. \A p \in Orders, v \in Venues : Change(p, v)
  BY <1>12, <1>13
<1> QED BY <1>1, <1>8, <1>10, <1>11, <1>14, <1>15, LeftAlone DEF StepFacts, OrderChange

LEMMA OnTripFacts ==
  ASSUME AmountInv, NEW o \in Orders, NEW v \in Venues, OnTrip(o, v)
  PROVE  StepFacts
<1>0. PICK S : S = Releasable(Orders \X {v})
  OBVIOUS
<1>1. /\ slice' = Released(S) /\ GiveBack(HoldsWithout(S))
      /\ trips' = [trips EXCEPT ![o] = @ \ {v}]
      /\ UNCHANGED <<order, breaker, shot, row, pc, todo, agenda, seen, found, target>>
  BY <1>0 DEF OnTrip, venueside, helpers
<1>2. S = Releasable(S)
  BY <1>0 DEF Releasable
<1>3. SliceTyped /\ HoldTyped /\ ReservedIsTheOpenHolds /\ WorkTyped
  BY TypeParts DEF AmountInv
<1>4. /\ SliceTyped' /\ HoldTyped' /\ ReservedIsTheOpenHolds'
      /\ \A p \in Orders, w \in Venues :
           /\ <<p, w>> \in S => /\ slice[p][w].status = "RESERVED"
                                /\ slice'[p][w] = With(slice[p][w], "RELEASED")
                                /\ hold'[p][w] = 0
           /\ <<p, w>> \notin S => slice'[p][w] = slice[p][w] /\ hold'[p][w] = hold[p][w]
  <2>1. slice' = Released(S) /\ GiveBack(HoldsWithout(S))
    BY <1>1
  <2> QED BY <1>2, <1>3, <2>1, ReleaseFacts
<1>5. ASSUME NEW p \in Orders, NEW w \in Venues PROVE Change(p, w)
  <2>1. shot'[p][w] = shot[p][w] /\ row'[p][w] = row[p][w]
    BY <1>1
  <2> QED BY <1>4, <2>1, ReleaseChange
<1>6. WorkTyped'
  BY <1>1, <1>3 DEF WorkTyped
<1>7. TypeOK'
  BY <1>1, <1>4, <1>6, TypesKept, TypeParts DEF AmountInv
<1> QED BY <1>1, <1>4, <1>5, <1>7, LeftAlone DEF StepFacts, OrderChange

LEMMA HoldExpiredFacts ==
  ASSUME AmountInv, HoldExpired
  PROVE  StepFacts
<1>0. PICK S : S = {p \in Releasable(Orders \X Venues) : hold[p[1]][p[2]] = 0}
  OBVIOUS
<1>1. /\ slice' = Released(S)
      /\ UNCHANGED <<order, hold, reserved, breaker, shot, row, pc, todo, trips, agenda, seen, found, target>>
  BY <1>0 DEF HoldExpired, venueside, local, helpers
<1>2. /\ S = Releasable(S)
      /\ \A p \in Orders, w \in Venues :
           <<p, w>> \in S => hold[p][w] = 0 /\ slice[p][w].status = "RESERVED"
  BY <1>0 DEF Releasable
<1>3. SliceTyped
  BY TypeParts DEF AmountInv
<1>4. /\ SliceTyped'
      /\ \A p \in Orders, w \in Venues :
           /\ <<p, w>> \in S => slice'[p][w] = With(slice[p][w], "RELEASED")
           /\ <<p, w>> \notin S => slice'[p][w] = slice[p][w]
  <2>1. slice' = Released(S)
    BY <1>1
  <2> QED BY <1>2, <1>3, <2>1, ReleasedFacts DEF SliceTyped
<1>5. ASSUME NEW p \in Orders, NEW w \in Venues PROVE Change(p, w)
  <2>1. shot'[p][w] = shot[p][w] /\ row'[p][w] = row[p][w] /\ hold'[p][w] = hold[p][w]
    BY <1>1
  <2>2. <<p, w>> \in S => slice[p][w].status = "RESERVED" /\ hold'[p][w] = 0
    BY <1>2, <2>1
  <2> QED BY <1>4, <2>1, <2>2, ReleaseChange
<1>6. TypeOK'
  BY <1>1, <1>4, TypesKept, TypeParts DEF AmountInv
<1> QED BY <1>1, <1>5, <1>6, LeftAlone DEF StepFacts, OrderChange

LEMMA OperatorLooksFacts ==
  ASSUME AmountInv, NEW p \in Operators, NEW o \in Orders, NEW v \in Venues,
         OperatorLooks(p, o, v)
  PROVE  StepFacts
<1>1. /\ target' = [target EXCEPT ![p] = <<o, v>>]
      /\ UNCHANGED <<order, slice, hold, reserved, breaker, shot, row, pc, todo, trips, agenda, seen, found>>
  BY DEF OperatorLooks, rows, venueside, local
<1>2. TargetTyped'
  <2>1. TargetTyped
    BY TypeParts DEF AmountInv
  <2> QED BY <1>1, <2>1 DEF TargetTyped
<1>3. TypeOK'
  BY <1>1, <1>2, TypesKept, TypeParts DEF AmountInv
<1> QED BY <1>1, <1>3, LeftAlone DEF StepFacts, OrderChange

LEMMA OperatorReleasesFacts ==
  ASSUME AmountInv, NEW p \in Operators, OperatorReleases(p)
  PROVE  StepFacts
<1> DEFINE o == target[p][1]
           over == \A v \in SlicesOf(o) : Released(Releasable({target[p]}))[o][v].status = "RELEASED"
<1>0. PICK S : S = Releasable({target[p]})
  OBVIOUS
<1>1. /\ target[p] # <<>>
      /\ slice' = Released(S) /\ GiveBack(HoldsWithout(S))
      /\ over => CasOrder(o, {"RESERVED", "ROUTING"}, "ABORTED")
      /\ ~over => order' = order
      /\ agenda' = IF order[o].status = "DISPATCHING" THEN [agenda EXCEPT ![p] = {o}] ELSE agenda
      /\ target' = [target EXCEPT ![p] = <<>>]
      /\ UNCHANGED <<breaker, shot, row, pc, todo, trips, seen, found>>
  BY <1>0 DEF OperatorReleases, venueside, local
<1>2. S = Releasable(S) /\ o \in Orders /\ p \in Agents
  BY <1>0, <1>1 DEF Releasable, AmountInv, RouterInv, HelperInv, Agents
<1>3. SliceTyped /\ HoldTyped /\ ReservedIsTheOpenHolds /\ AgendaTyped /\ TargetTyped /\ OrderTyped
  BY TypeParts DEF AmountInv
<1>4. /\ SliceTyped' /\ HoldTyped' /\ ReservedIsTheOpenHolds'
      /\ \A q \in Orders, w \in Venues :
           /\ <<q, w>> \in S => /\ slice[q][w].status = "RESERVED"
                                /\ slice'[q][w] = With(slice[q][w], "RELEASED")
                                /\ hold'[q][w] = 0
           /\ <<q, w>> \notin S => slice'[q][w] = slice[q][w] /\ hold'[q][w] = hold[q][w]
  <2>1. slice' = Released(S) /\ GiveBack(HoldsWithout(S))
    BY <1>1
  <2> QED BY <1>2, <1>3, <2>1, ReleaseFacts
<1>5. ASSUME NEW q \in Orders, NEW w \in Venues PROVE Change(q, w)
  <2>1. shot'[q][w] = shot[q][w] /\ row'[q][w] = row[q][w]
    BY <1>1
  <2> QED BY <1>4, <2>1, ReleaseChange
<1>6. AgendaTyped' /\ TargetTyped'
  BY <1>1, <1>2, <1>3 DEF AgendaTyped, TargetTyped
<1>7. ASSUME over, NEW w \in Venues PROVE slice'[o][w].status \in {"NONE", "RELEASED"}
  <2>1. CASE w \in SlicesOf(o)
    BY <1>0, <1>1, <1>7, <2>1
  <2>2. CASE slice[o][w].status = "NONE"
    <3>1. <<o, w>> \notin S
      BY <1>2, <1>4, <2>2
    <3> QED BY <1>2, <1>4, <2>2, <3>1
  <2> QED BY <2>1, <2>2 DEF SlicesOf
<1> HIDE DEF over
<1>8. /\ OrderTyped' /\ \A q \in Orders \ {o} : order'[q] = order[q]
      /\ over /\ order[o].status \in {"RESERVED", "ROUTING"} => RowBecomes(o, "ABORTED")
      /\ ~(over /\ order[o].status \in {"RESERVED", "ROUTING"}) => order'[o] = order[o]
  <2>1. "ABORTED" \in OrderStatuses
    BY DEF OrderStatuses, TerminalStatuses
  <2>2. CASE over
    <3>1. CasOrder(o, {"RESERVED", "ROUTING"}, "ABORTED")
      BY <1>1, <2>2
    <3> HIDE DEF o
    <3> QED BY <1>2, <1>3, <2>1, <2>2, <3>1, Cas
  <2>3. CASE ~over
    BY <1>1, <1>3, <2>3 DEF OrderTyped
  <2> QED BY <2>2, <2>3
<1>9. ASSUME NEW q \in Orders PROVE OrderRow(q)
  <2>1. CASE q = o
    BY <1>7, <1>8, <2>1 DEF OrderRow
  <2>2. CASE q # o
    BY <1>8, <2>2 DEF OrderRow
  <2> QED BY <2>1, <2>2
<1>10. TypeOK'
  BY <1>1, <1>4, <1>6, <1>8, TypesKept, TypeParts DEF AmountInv
<1> QED BY <1>1, <1>4, <1>5, <1>9, <1>10, LeftAlone DEF StepFacts, OrderChange

LEMMA ReleaseFinishedFacts ==
  ASSUME AmountInv, NEW o \in Orders, NEW v \in Venues, ReleaseFinished(o, v)
  PROVE  StepFacts
<1>1. /\ \/ row[o][v].status \in {"REJECTED", "SETTLED"}
         \/ row[o][v].status = "NONE" /\ Outlived(o, v)
      /\ GiveBack(HoldsWithout({<<o, v>>}))
      /\ UNCHANGED <<order, slice, breaker, shot, row, pc, todo, trips, agenda, seen, found, target>>
  BY DEF ReleaseFinished, venueside, local, helpers
<1>2. HoldTyped /\ ReservedIsTheOpenHolds
  BY TypeParts DEF AmountInv
<1>3. HoldTyped' /\ ReservedIsTheOpenHolds' /\ \A p \in Orders, w \in Venues :
        hold'[p][w] = IF <<p, w>> \in {<<o, v>>} THEN 0 ELSE hold[p][w]
  BY <1>1, <1>2, WithoutFacts
<1>4. ASSUME NEW p \in Orders, NEW w \in Venues PROVE Change(p, w)
  <2>1. slice'[p][w] = slice[p][w] /\ shot'[p][w] = shot[p][w] /\ row'[p][w] = row[p][w]
    BY <1>1
  <2>2. CASE p = o /\ w = v
    <3>1. hold'[p][w] = 0
      BY <1>3, <2>2
    <3>2. GivenBack(p, w)
      BY <1>1, <2>1, <2>2, <3>1 DEF GivenBack
    <3> QED BY <3>2 DEF Change
  <2>3. CASE p # o \/ w # v
    <3>1. hold'[p][w] = hold[p][w]
      BY <1>3, <2>3
    <3> QED BY <2>1, <3>1 DEF Change, Untouched
  <2> QED BY <2>2, <2>3
<1>5. TypeOK'
  BY <1>1, <1>3, TypesKept, TypeParts DEF AmountInv
<1> QED BY <1>1, <1>3, <1>4, <1>5, LeftAlone DEF StepFacts, OrderChange

\* The executor's answer, whatever it says of the venue and the bet.
Answered(o, v, kind, filled) ==
  \E fault, struck \in BOOLEAN : Answer(o, v, kind, filled, fault, struck)

LEMMA AnswerFacts ==
  ASSUME ShotTyped, NEW o \in Orders, NEW v \in Venues, NEW kind \in Answers,
         NEW filled \in Nat, Answered(o, v, kind, filled)
  PROVE  /\ ShotTyped' /\ shot[o][v].state = "sent" /\ shot'[o][v].state = "over"
         /\ shot[o][v].answer = "NONE" => shot'[o][v].answer = kind /\ shot'[o][v].filled = filled
         /\ shot[o][v].answer # "NONE" => shot'[o][v].answer = shot[o][v].answer
         /\ \A p \in Orders, w \in Venues : p # o \/ w # v => shot'[p][w] = shot[p][w]
<1>0. PICK fault \in BOOLEAN, struck \in BOOLEAN : Answer(o, v, kind, filled, fault, struck)
  BY DEF Answered
<1> DEFINE x == IF shot[o][v].answer = "NONE"
                THEN [state |-> "over", answer |-> kind, filled |-> filled,
                      fault |-> fault, struck |-> struck]
                ELSE [shot[o][v] EXCEPT !.state = "over", !.struck = struck]
<1>1. shot' = [shot EXCEPT ![o][v] = x] /\ shot[o][v].state = "sent"
  BY <1>0 DEF Answer
<1>2. shot[o][v] \in Shots
  BY DEF ShotTyped
<1>3. x \in Shots /\ x.state = "over"
  BY <1>2 DEF Shots
<1>4. /\ shot[o][v].answer = "NONE" => x.answer = kind /\ x.filled = filled
      /\ shot[o][v].answer # "NONE" => x.answer = shot[o][v].answer
  BY <1>2 DEF Shots
<1>5. PICK y : y = x
  OBVIOUS
<1> HIDE DEF x
<1>6. /\ shot' \in [Orders -> [Venues -> Shots]] /\ shot'[o][v] = y
      /\ \A p \in Orders, w \in Venues : p # o \/ w # v => shot'[p][w] = shot[p][w]
  BY <1>1, <1>3, <1>5, Put DEF ShotTyped
<1> QED BY <1>1, <1>3, <1>4, <1>5, <1>6 DEF ShotTyped

\* A slice that is out has a stake and has heard at most that it timed out.
LEMMA OutFacts ==
  ASSUME AmountInv, NEW o \in Orders, NEW v \in Venues, shot[o][v].state = "sent"
  PROVE  /\ shot[o][v].answer \in {"NONE", "UNKNOWN"}
         /\ slice[o][v].stake \in Nat /\ slice[o][v].stake >= 1
<1>1. SliceAmounts(o, v) /\ SliceInv(o, v) /\ slice[o][v] \in SliceRows
  BY AmountsOf DEF AmountInv, RouterInv
<1>2. slice[o][v].status # "NONE"
  BY <1>1 DEF SliceInv, Unsent
<1> QED BY <1>1, <1>2 DEF SliceAmounts, SliceRows

\* The other slices' part of a step of one.
LEMMA OneChange ==
  ASSUME NEW o \in Orders, NEW v \in Venues, Change(o, v), slice' = slice,
         \A p \in Orders, w \in Venues : p # o \/ w # v =>
           shot'[p][w] = shot[p][w] /\ row'[p][w] = row[p][w] /\ hold'[p][w] = hold[p][w],
         NEW p \in Orders, NEW w \in Venues
  PROVE  Change(p, w)
<1>1. CASE p = o /\ w = v
  BY <1>1
<1>2. CASE p # o \/ w # v
  BY <1>2 DEF Change, Untouched
<1> QED BY <1>1, <1>2

LEMMA RefusedFacts ==
  ASSUME AmountInv, NEW o \in Orders, NEW v \in Venues, Refused(o, v)
  PROVE  StepFacts
<1>1. PICK released \in BOOLEAN :
        /\ Answered(o, v, "REJECTED", 0)
        /\ released => GiveBack(HoldsWithout({<<o, v>>}))
        /\ ~released => UNCHANGED <<hold, reserved>>
  BY DEF Refused, Answered
<1>2. UNCHANGED <<order, slice, breaker, row, pc, todo, trips, agenda, seen, found, target>>
  BY DEF Refused, local, helpers
<1>3. ShotTyped /\ HoldTyped /\ ReservedIsTheOpenHolds /\ "REJECTED" \in Answers
  BY TypeParts DEF AmountInv, Answers
<1>4. /\ ShotTyped' /\ shot[o][v].state = "sent" /\ shot'[o][v].state = "over"
      /\ shot[o][v].answer = "NONE" => shot'[o][v].answer = "REJECTED"
      /\ shot[o][v].answer # "NONE" => shot'[o][v].answer = shot[o][v].answer
      /\ \A p \in Orders, w \in Venues : p # o \/ w # v => shot'[p][w] = shot[p][w]
  BY <1>1, <1>3, AnswerFacts
<1>5. /\ HoldTyped' /\ ReservedIsTheOpenHolds'
      /\ \A p \in Orders, w \in Venues : p # o \/ w # v => hold'[p][w] = hold[p][w]
      /\ hold'[o][v] \in {hold[o][v], 0}
  <2>1. CASE released
    <3>1. GiveBack(HoldsWithout({<<o, v>>}))
      BY <1>1, <2>1
    <3>2. HoldTyped' /\ ReservedIsTheOpenHolds' /\ \A p \in Orders, w \in Venues :
            hold'[p][w] = IF <<p, w>> \in {<<o, v>>} THEN 0 ELSE hold[p][w]
      BY <1>3, <3>1, WithoutFacts
    <3> QED BY <3>2
  <2>2. CASE ~released
    <3>1. UNCHANGED <<hold, reserved>>
      BY <1>1, <2>2
    <3> QED BY <1>3, <3>1, HoldsAsWere
  <2> QED BY <2>1, <2>2
<1>6. EndsWithoutRow(o, v)
  BY <1>2, <1>4, <1>5, OutFacts DEF EndsWithoutRow
<1>7. ASSUME NEW p \in Orders, NEW w \in Venues PROVE Change(p, w)
  <2>1. Change(o, v)
    BY <1>6 DEF Change
  <2> QED BY <1>2, <1>4, <1>5, <2>1, OneChange
<1>8. TypeOK'
  BY <1>2, <1>4, <1>5, TypesKept, TypeParts DEF AmountInv
<1> QED BY <1>2, <1>5, <1>7, <1>8, LeftAlone DEF StepFacts, OrderChange

\* The executor ends with a row.
LEMMA RowedFacts ==
  ASSUME AmountInv, NEW o \in Orders, NEW v \in Venues, NEW kind \in Answers,
         NEW filled \in Nat, kind \in {"FILLED", "UNKNOWN", "PARTIAL"},
         NEW status \in OpenRows, NEW stake \in Nat, 1 <= stake, stake <= slice[o][v].stake,
         kind = "PARTIAL" => filled = stake,
         Answered(o, v, kind, filled),
         row' = [row EXCEPT ![o][v] = [status |-> status, stake |-> stake]],
         UNCHANGED <<rows, breaker, local, agenda, seen, helpers>>
  PROVE  StepFacts
<1>1. UNCHANGED <<order, slice, hold, reserved, breaker, pc, todo, trips, agenda, seen, found, target>>
  BY DEF rows, local, helpers
<1>2. ShotTyped /\ RowTyped /\ status \in RowStatuses
  BY TypeParts DEF AmountInv, OpenRows, RowStatuses
<1>3. /\ ShotTyped' /\ shot[o][v].state = "sent" /\ shot'[o][v].state = "over"
      /\ shot[o][v].answer = "NONE" => shot'[o][v].answer = kind /\ shot'[o][v].filled = filled
      /\ shot[o][v].answer # "NONE" => shot'[o][v].answer = shot[o][v].answer
      /\ \A p \in Orders, w \in Venues : p # o \/ w # v => shot'[p][w] = shot[p][w]
  BY <1>2, AnswerFacts
<1>4. /\ RowTyped' /\ row'[o][v].status = status /\ row'[o][v].stake = stake
      /\ \A p \in Orders, w \in Venues : p # o \/ w # v => row'[p][w] = row[p][w]
  <2>1. PICK x : x = [status |-> status, stake |-> stake]
    OBVIOUS
  <2>2. x \in LedgerRows /\ x.status = status /\ x.stake = stake
    BY <1>2, <2>1 DEF LedgerRows
  <2>3. row' = [row EXCEPT ![o][v] = x]
    BY <2>1
  <2> QED BY <1>2, <2>2, <2>3, Put DEF RowTyped
<1>5. EndsWithRow(o, v)
  <2>1. shot[o][v].answer \in {"NONE", "UNKNOWN"}
    BY <1>3, OutFacts
  <2>2. \/ shot'[o][v].answer \in {"FILLED", "UNKNOWN"}
        \/ shot'[o][v].answer = "PARTIAL" /\ shot'[o][v].filled = row'[o][v].stake
    BY <1>3, <1>4, <2>1
  <2> QED BY <1>1, <1>3, <1>4, <2>2 DEF EndsWithRow
<1>6. ASSUME NEW p \in Orders, NEW w \in Venues PROVE Change(p, w)
  <2>1. Change(o, v)
    BY <1>5 DEF Change
  <2> QED BY <1>1, <1>3, <1>4, <2>1, OneChange
<1>7. TypeOK'
  BY <1>1, <1>3, <1>4, TypesKept, TypeParts DEF AmountInv
<1> QED BY <1>1, <1>6, <1>7, LeftAlone DEF StepFacts, OrderChange

\* The executor ends without one.
LEMMA RowlessFacts ==
  ASSUME AmountInv, NEW o \in Orders, NEW v \in Venues, NEW kind \in {"REJECTED", "UNKNOWN"},
         Answered(o, v, kind, 0),
         UNCHANGED <<rows, breaker, row, local, agenda, seen, helpers>>
  PROVE  StepFacts
<1>1. UNCHANGED <<order, slice, hold, reserved, breaker, row, pc, todo, trips, agenda, seen, found, target>>
  BY DEF rows, local, helpers
<1>2. ShotTyped /\ kind \in Answers /\ 0 \in Nat
  BY TypeParts DEF AmountInv, Answers
<1>3. /\ ShotTyped' /\ shot[o][v].state = "sent" /\ shot'[o][v].state = "over"
      /\ shot[o][v].answer = "NONE" => shot'[o][v].answer = kind
      /\ shot[o][v].answer # "NONE" => shot'[o][v].answer = shot[o][v].answer
      /\ \A p \in Orders, w \in Venues : p # o \/ w # v => shot'[p][w] = shot[p][w]
  BY <1>2, AnswerFacts
<1>4. EndsWithoutRow(o, v)
  BY <1>1, <1>3, OutFacts DEF EndsWithoutRow
<1>5. ASSUME NEW p \in Orders, NEW w \in Venues PROVE Change(p, w)
  <2>1. Change(o, v)
    BY <1>4 DEF Change
  <2> QED BY <1>1, <1>3, <2>1, OneChange
<1>6. TypeOK'
  BY <1>1, <1>3, TypesKept, TypeParts DEF AmountInv
<1> QED BY <1>1, <1>5, <1>6, LeftAlone DEF StepFacts, OrderChange

LEMMA ExecuteFacts ==
  ASSUME AmountInv, NEW o \in Orders, NEW v \in Venues, Execute(o, v)
  PROVE  StepFacts
<1>1. CASE Refused(o, v)
  BY <1>1, RefusedFacts
<1>2. CASE Accepted(o, v)
  <2>1. PICK f \in 1 .. slice[o][v].stake :
          /\ Answer(o, v, IF f < slice[o][v].stake THEN "PARTIAL" ELSE "FILLED", f, FALSE, TRUE)
          /\ row' = [row EXCEPT ![o][v] = [status |-> "PENDING", stake |-> f]]
    BY <1>2 DEF Accepted
  <2>2. PICK kind : kind = IF f < slice[o][v].stake THEN "PARTIAL" ELSE "FILLED"
    OBVIOUS
  <2>3. /\ kind \in Answers /\ kind \in {"FILLED", "PARTIAL"} /\ "PENDING" \in OpenRows
        /\ Answered(o, v, kind, f)
        /\ UNCHANGED <<rows, breaker, local, agenda, seen, helpers>>
    BY <1>2, <2>1, <2>2 DEF Accepted, Answers, OpenRows, Answered
  <2>4. f \in Nat /\ 1 <= f /\ f <= slice[o][v].stake
    <3>1. slice[o][v].stake \in Nat
      BY AmountsOf DEF AmountInv, SliceRows
    <3> QED BY <3>1
  <2>5. kind \in {"FILLED", "UNKNOWN", "PARTIAL"} /\ (kind = "PARTIAL" => f = f)
    BY <2>3
  <2> QED BY <2>1, <2>3, <2>4, <2>5, RowedFacts
<1>3. CASE Unconfirmed(o, v)
  <2>1. Answered(o, v, "UNKNOWN", 0)
    BY <1>3 DEF Unconfirmed, Answered
  <2>2. shot[o][v].state = "sent"
    BY <2>1 DEF Answered, Answer
  <2>3. slice[o][v].stake \in Nat /\ 1 <= slice[o][v].stake /\ slice[o][v].stake <= slice[o][v].stake
    BY <2>2, OutFacts
  <2>4. PICK stake \in Nat : stake = slice[o][v].stake
    BY <2>3
  <2>5. /\ row' = [row EXCEPT ![o][v] = [status |-> "UNCONFIRMED", stake |-> stake]]
        /\ UNCHANGED <<rows, breaker, local, agenda, seen, helpers>>
    BY <1>3, <2>4 DEF Unconfirmed
  <2>6. PICK kind, status : kind = "UNKNOWN" /\ status = "UNCONFIRMED"
    OBVIOUS
  <2>7. /\ kind \in Answers /\ status \in OpenRows /\ kind \in {"FILLED", "UNKNOWN", "PARTIAL"}
        /\ kind # "PARTIAL" /\ 0 \in Nat
    BY <2>6 DEF Answers, OpenRows
  <2>8. /\ Answered(o, v, kind, 0)
        /\ row' = [row EXCEPT ![o][v] = [status |-> status, stake |-> stake]]
        /\ 1 <= stake /\ stake <= slice[o][v].stake
    BY <2>1, <2>3, <2>4, <2>5, <2>6
  <2> QED BY <2>5, <2>7, <2>8, RowedFacts
<1>4. CASE CommitFails(o, v)
  BY <1>4, RowlessFacts DEF CommitFails, Answered
<1>5. CASE ExecutorRaises(o, v)
  BY <1>5, RowlessFacts DEF ExecutorRaises, Answered
<1>6. CASE TimesOut(o, v)
  <2>1. /\ shot' = [shot EXCEPT ![o][v].answer = "UNKNOWN", ![o][v].fault = TRUE]
        /\ UNCHANGED <<order, slice, hold, reserved, breaker, row, pc, todo, trips, agenda, seen, found, target>>
    BY <1>6 DEF TimesOut, rows, local, helpers
  <2>2. shot \in [Orders -> [Venues -> Shots]]
    BY TypeParts DEF AmountInv, ShotTyped
  <2>3. PICK x : x = [shot[o][v] EXCEPT !.answer = "UNKNOWN", !.fault = TRUE]
    OBVIOUS
  <2>4. x \in Shots /\ x.answer = "UNKNOWN" /\ x.state = shot[o][v].state
    <3>1. shot[o][v] \in Shots
      BY <2>2
    <3> QED BY <2>3, <3>1 DEF Shots, Answers
  <2>5. shot' = [shot EXCEPT ![o][v] = x]
    BY <2>1, <2>2, <2>3
  <2>6. /\ ShotTyped' /\ shot'[o][v] = x
        /\ \A p \in Orders, w \in Venues : p # o \/ w # v => shot'[p][w] = shot[p][w]
    BY <2>2, <2>4, <2>5, Put DEF ShotTyped
  <2>7. Unheard(o, v)
    BY <2>1, <2>4, <2>6 DEF Unheard
  <2>8. ASSUME NEW p \in Orders, NEW w \in Venues PROVE Change(p, w)
    <3>1. Change(o, v)
      BY <2>7 DEF Change
    <3>2. slice' = slice /\ row' = row /\ hold' = hold
      BY <2>1
    <3> QED BY <2>6, <3>1, <3>2, OneChange
  <2>9. TypeOK'
    BY <2>1, <2>6, TypesKept, TypeParts DEF AmountInv
  <2> QED BY <2>1, <2>8, <2>9, LeftAlone DEF StepFacts, OrderChange
<1> QED BY <1>1, <1>2, <1>3, <1>4, <1>5, <1>6 DEF Execute

LEMMA RecordFacts ==
  ASSUME AmountInv, NEW o \in Orders, NEW v \in Venues, Record(o, v)
  PROVE  StepFacts
<1>1. UNCHANGED <<order, slice, hold, reserved, row, pc, agenda, seen, found, target>>
  BY DEF Record, rows, helpers
<1>2. /\ breaker \in [Venues -> [failures : Nat, paused : BOOLEAN]]
      /\ todo \in [Orders -> SUBSET Venues] /\ trips \in [Orders -> SUBSET Venues]
      /\ shot \in [Orders -> [Venues -> Shots]]
  BY TypeParts DEF AmountInv, BreakerTyped, WorkTyped, ShotTyped
<1>3. /\ \/ breaker' = [breaker EXCEPT ![v].failures = 0]
         \/ \E n \in Streaks(v) : breaker' = [breaker EXCEPT ![v] = Counted(v, n)]
         \/ breaker' = breaker
      /\ trips' = trips \/ trips' = [trips EXCEPT ![o] = @ \cup {v}]
      /\ todo' = [todo EXCEPT ![o] = @ \ {v}]
      /\ shot' = [shot EXCEPT ![o][v].answer = "UNKNOWN", ![o][v].filled = 0,
                              ![o][v].fault = FALSE]
  BY DEF Record
<1>4. BreakerTyped'
  <2>1. breaker[v] \in [failures : Nat, paused : BOOLEAN]
    BY <1>2
  <2>2. CASE breaker' = [breaker EXCEPT ![v].failures = 0]
    BY <1>2, <2>1, <2>2 DEF BreakerTyped
  <2>3. ASSUME NEW n \in Streaks(v), breaker' = [breaker EXCEPT ![v] = Counted(v, n)]
        PROVE  BreakerTyped'
    <3>1. n \in Nat
      BY <2>1 DEF Streaks
    <3>2. Counted(v, n) \in [failures : Nat, paused : BOOLEAN]
      BY <2>1, <3>1 DEF Counted
    <3> QED BY <1>2, <2>3, <3>2 DEF BreakerTyped
  <2>4. CASE breaker' = breaker
    BY <1>2, <2>4 DEF BreakerTyped
  <2> QED BY <1>3, <2>2, <2>3, <2>4
<1>5. WorkTyped'
  BY <1>2, <1>3 DEF WorkTyped
<1>6. PICK x : x = [shot[o][v] EXCEPT !.answer = "UNKNOWN", !.filled = 0, !.fault = FALSE]
  OBVIOUS
<1>7. x \in Shots /\ x.answer = "UNKNOWN" /\ x.state = shot[o][v].state
  <2>1. shot[o][v] \in Shots
    BY <1>2
  <2> QED BY <1>6, <2>1 DEF Shots, Answers
<1>8. shot' = [shot EXCEPT ![o][v] = x]
  BY <1>2, <1>3, <1>6
<1>9. /\ ShotTyped' /\ shot'[o][v] = x
      /\ \A p \in Orders, w \in Venues : p # o \/ w # v => shot'[p][w] = shot[p][w]
  BY <1>2, <1>7, <1>8, Put DEF ShotTyped
<1>10. Change(o, v)
  BY <1>1, <1>7, <1>9 DEF Unheard, Change
<1>11. ASSUME NEW p \in Orders, NEW w \in Venues PROVE Change(p, w)
  BY <1>1, <1>9, <1>10, OneChange
<1>12. TypeOK'
  BY <1>1, <1>4, <1>5, <1>9, TypesKept, TypeParts DEF AmountInv
<1> QED BY <1>1, <1>11, <1>12, LeftAlone DEF StepFacts, OrderChange

LEMMA LedgerFacts ==
  ASSUME AmountInv, NEW o \in Orders, NEW v \in Venues, LedgerMoves(o, v)
  PROVE  StepFacts
<1>1. UNCHANGED <<order, slice, hold, reserved, breaker, shot, pc, todo, trips, agenda, seen, found, target>>
  BY DEF LedgerMoves, rows, local, helpers
<1>2. PICK s \in Rulings(o, v) : row' = [row EXCEPT ![o][v].status = s]
  BY DEF LedgerMoves
<1>3. /\ row[o][v].status \in OpenRows /\ s \in RowStatuses /\ s # "NONE"
  BY DEF Rulings, Contract!NextStatuses, Contract!Rulings, OpenRows, RowStatuses
<1>4. row \in [Orders -> [Venues -> LedgerRows]]
  BY TypeParts DEF AmountInv, RowTyped
<1>5. PICK x : x = [row[o][v] EXCEPT !.status = s]
  OBVIOUS
<1>6. x \in LedgerRows /\ x.status = s /\ x.stake = row[o][v].stake
  <2>1. row[o][v] \in LedgerRows
    BY <1>4
  <2> QED BY <1>3, <1>5, <2>1 DEF LedgerRows
<1>7. row' = [row EXCEPT ![o][v] = x]
  BY <1>2, <1>4, <1>5
<1>8. /\ RowTyped' /\ row'[o][v] = x
      /\ \A p \in Orders, w \in Venues : p # o \/ w # v => row'[p][w] = row[p][w]
  BY <1>4, <1>6, <1>7, Put DEF RowTyped
<1>9. Change(o, v)
  BY <1>1, <1>3, <1>6, <1>8 DEF Ruled, Change
<1>10. ASSUME NEW p \in Orders, NEW w \in Venues PROVE Change(p, w)
  BY <1>1, <1>8, <1>9, OneChange
<1>11. TypeOK'
  BY <1>1, <1>8, TypesKept, TypeParts DEF AmountInv
<1> QED BY <1>1, <1>10, <1>11, LeftAlone DEF StepFacts, OrderChange

LEMMA BreakerFacts ==
  ASSUME AmountInv, NEW v \in Venues, PauseEnds(v) \/ Reset(v)
  PROVE  StepFacts
<1>1. UNCHANGED <<order, slice, hold, reserved, shot, row, pc, todo, trips, agenda, seen, found, target>>
  BY DEF PauseEnds, Reset, rows, local, helpers
<1>2. BreakerTyped'
  <2>1. BreakerTyped
    BY TypeParts DEF AmountInv
  <2>2. breaker[v] \in [failures : Nat, paused : BOOLEAN]
    BY <2>1 DEF BreakerTyped
  <2>3. \/ breaker' = [breaker EXCEPT ![v].paused = FALSE]
        \/ breaker' = [breaker EXCEPT ![v] = [failures |-> 0, paused |-> FALSE]]
    BY DEF PauseEnds, Reset
  <2>4. CASE breaker' = [breaker EXCEPT ![v].paused = FALSE]
    BY <2>1, <2>2, <2>4 DEF BreakerTyped
  <2>5. CASE breaker' = [breaker EXCEPT ![v] = [failures |-> 0, paused |-> FALSE]]
    <3>1. [failures |-> 0, paused |-> FALSE] \in [failures : Nat, paused : BOOLEAN]
      OBVIOUS
    <3> QED BY <2>1, <2>5, <3>1 DEF BreakerTyped
  <2> QED BY <2>3, <2>4, <2>5
<1>3. TypeOK'
  BY <1>1, <1>2, TypesKept, TypeParts DEF AmountInv
<1> QED BY <1>1, <1>3, LeftAlone DEF StepFacts, OrderChange

LEMMA DieFacts ==
  ASSUME AmountInv, NEW o \in Orders, Die(o)
  PROVE  StepFacts
<1>1. UNCHANGED <<order, slice, hold, reserved, breaker, row, found, target>>
  BY DEF Die, rows, helpers
<1>2. PICK struck \in SUBSET {v \in Venues : shot[o][v].state = "sent"} :
       shot' = [shot EXCEPT ![o] = [v \in Venues |->
         IF shot[o][v].state = "none" THEN shot[o][v]
         ELSE [NotSent EXCEPT !.state = "over", !.answer = "UNKNOWN",
                              !.struck = shot[o][v].struck \/ v \in struck]]]
  BY DEF Die
<1>3. /\ pc' = [pc EXCEPT ![o] = "dead"]
      /\ todo' = [todo EXCEPT ![o] = {}] /\ trips' = [trips EXCEPT ![o] = {}]
      /\ agenda' = [agenda EXCEPT ![o] = {}] /\ seen' = [seen EXCEPT ![o] = Nothing]
  BY DEF Die
<1>4. /\ ShotTyped /\ PcTyped /\ WorkTyped /\ AgendaTyped /\ SeenTyped
  BY TypeParts DEF AmountInv
<1>5. PcTyped' /\ \A p \in Orders : pc[p] \in Over => pc'[p] \in Over
  BY <1>3, <1>4 DEF PcTyped, Places, Over
<1>6. WorkTyped'
  BY <1>3, <1>4 DEF WorkTyped
<1>7. AgendaTyped' /\ SeenTyped'
  BY <1>3, <1>4 DEF AgendaTyped, SeenTyped
<1>8. \A a \in Agents : SeenChange(a)
  BY <1>3, <1>4 DEF SeenTyped, SeenChange
<1> DEFINE new(v) == IF shot[o][v].state = "none" THEN shot[o][v]
         ELSE [NotSent EXCEPT !.state = "over", !.answer = "UNKNOWN",
                              !.struck = shot[o][v].struck \/ v \in struck]
<1>9. ASSUME NEW v \in Venues
      PROVE  /\ new(v) \in Shots
             /\ new(v) = shot[o][v] \/ (shot[o][v].state # "none" /\ new(v).state = "over"
                                          /\ new(v).answer = "UNKNOWN")
  <2>1. CASE shot[o][v].state = "none"
    BY <1>4, <2>1 DEF ShotTyped
  <2>2. CASE shot[o][v].state # "none"
    <3>1. shot[o][v].struck \in BOOLEAN
      BY <1>4 DEF ShotTyped, Shots
    <3>2. PICK b \in BOOLEAN : b = (shot[o][v].struck \/ v \in struck)
      OBVIOUS
    <3>3. new(v) = [state |-> "over", answer |-> "UNKNOWN", filled |-> 0, fault |-> FALSE, struck |-> b]
      BY <2>2, <3>2 DEF NotSent
    <3> HIDE DEF new
    <3> QED BY <2>2, <3>3 DEF Shots, Answers
  <2> QED BY <2>1, <2>2
<1>10. shot' = [shot EXCEPT ![o] = [v \in Venues |-> new(v)]]
  BY <1>2
<1> HIDE DEF new
<1>11. /\ ShotTyped' /\ \A v \in Venues : shot'[o][v] = new(v)
       /\ \A p \in Orders \ {o} : shot'[p] = shot[p]
  BY <1>4, <1>9, <1>10 DEF ShotTyped
<1>12. ASSUME NEW p \in Orders, NEW v \in Venues PROVE Change(p, v)
  <2>1. slice'[p][v] = slice[p][v] /\ hold'[p][v] = hold[p][v] /\ row'[p][v] = row[p][v]
    BY <1>1
  <2>2. CASE shot'[p][v] = shot[p][v]
    BY <2>1, <2>2 DEF Change, Untouched
  <2>3. CASE shot[p][v].state # "none" /\ shot'[p][v].state = "over" /\ shot'[p][v].answer = "UNKNOWN"
    BY <2>1, <2>3 DEF Change, Unheard
  <2> QED BY <1>9, <1>11, <2>2, <2>3
<1>13. TypeOK'
  BY <1>1, <1>5, <1>6, <1>7, <1>11, TypesKept, TypeParts DEF AmountInv
<1> QED BY <1>1, <1>5, <1>8, <1>12, <1>13, LeftAlone DEF StepFacts, OrderChange

LEMMA ApplyFacts ==
  ASSUME AmountInv, NEW o \in Orders, Apply(o)
  PROVE  StepFacts
<1>1. /\ Step(o, "dispatched", "applied")
      /\ \A v \in Tickets(o) : shot[o][v].answer # "NONE"
      /\ slice' = [slice EXCEPT ![o] = [v \in Venues |-> Applied(o, v)]]
      /\ GiveBack([hold EXCEPT ![o] = [v \in Venues |-> HoldApplied(o, v)]])
      /\ todo' = [todo EXCEPT ![o] = Tickets(o)] /\ agenda' = [agenda EXCEPT ![o] = {o}]
  BY DEF Apply
<1>2. UNCHANGED <<order, breaker, shot, row, trips, seen, found, target>>
  BY DEF Apply, venueside, helpers
<1>3. /\ SliceTyped /\ HoldTyped /\ ReservedIsTheOpenHolds /\ WorkTyped /\ AgendaTyped /\ PcTyped
  BY TypeParts DEF AmountInv
<1>4. PcTyped' /\ \A p \in Orders : pc[p] \in Over => pc'[p] \in Over
  <2>1. "applied" \in Places /\ "dispatched" \notin Over
    BY DEF Places, Over
  <2> QED BY <1>1, <1>3, <2>1, StepTo
<1>5. WorkTyped' /\ AgendaTyped'
  <2>1. Tickets(o) \in SUBSET Venues /\ o \in Agents
    BY DEF Tickets, Agents
  <2> QED BY <1>1, <1>2, <1>3, <2>1 DEF WorkTyped, AgendaTyped
<1>6. ASSUME NEW v \in Venues
      PROVE  /\ Applied(o, v) \in SliceRows /\ HoldApplied(o, v) \in Nat
             /\ HoldApplied(o, v) <= hold[o][v]
             /\ \/ Applied(o, v) = slice[o][v] /\ HoldApplied(o, v) = hold[o][v]
                \/ /\ slice[o][v].status = "DISPATCHED" /\ shot[o][v].state # "none"
                   /\ \/ /\ shot[o][v].answer = "FILLED"
                         /\ Applied(o, v) = Heard(slice[o][v], "FILLED", slice[o][v].stake)
                         /\ HoldApplied(o, v) = hold[o][v]
                      \/ /\ shot[o][v].answer = "PARTIAL"
                         /\ Applied(o, v) = Heard(slice[o][v], "PARTIAL", shot[o][v].filled)
                         /\ HoldApplied(o, v) = Lesser(hold[o][v], shot[o][v].filled)
                      \/ /\ shot[o][v].answer = "REJECTED"
                         /\ Applied(o, v) = Heard(slice[o][v], "REJECTED", 0)
                         /\ HoldApplied(o, v) = 0
                      \/ /\ shot[o][v].answer = "UNKNOWN"
                         /\ Applied(o, v) = Heard(slice[o][v], "UNKNOWN", 0)
                         /\ HoldApplied(o, v) = hold[o][v]
  <2> DEFINE s == slice[o][v]
             t == shot[o][v]
             h == hold[o][v]
  <2>1. s \in SliceRows /\ t \in Shots /\ h \in Nat
    BY AmountsOf DEF AmountInv
  <2>2. CASE v \notin Tickets(o) \/ s.status # "DISPATCHED"
    BY <2>1, <2>2 DEF Applied, HoldApplied
  <2>3. CASE v \in Tickets(o) /\ s.status = "DISPATCHED"
    <3>1. t.answer \in {"FILLED", "PARTIAL", "REJECTED", "UNKNOWN"} /\ t.state # "none"
      BY <1>1, <2>1, <2>3 DEF Tickets, Shots, Answers
    <3>2. CASE t.answer = "FILLED"
      <4>1. Applied(o, v) = Heard(s, "FILLED", s.stake) /\ HoldApplied(o, v) = h
        BY <2>3, <3>2 DEF Applied, HoldApplied, Heard
      <4>2. Heard(s, "FILLED", s.stake) \in SliceRows
        BY <2>1 DEF Heard, SliceRows, SliceStatuses, FilledStatuses
      <4> QED BY <2>1, <2>3, <3>1, <3>2, <4>1, <4>2
    <3>3. CASE t.answer = "PARTIAL"
      <4>1. Applied(o, v) = Heard(s, "PARTIAL", t.filled) /\ HoldApplied(o, v) = Min({h, t.filled})
        BY <2>3, <3>3 DEF Applied, HoldApplied, Heard
      <4>2. Heard(s, "PARTIAL", t.filled) \in SliceRows /\ t.filled \in Nat
        BY <2>1 DEF Heard, SliceRows, SliceStatuses, FilledStatuses, Shots
      <4>3. Min({h, t.filled}) = Lesser(h, t.filled)
        BY <2>1, <4>2, MinOfTwo
      <4>4. Lesser(h, t.filled) \in Nat /\ Lesser(h, t.filled) <= h
        BY <2>1, <4>2 DEF Lesser
      <4> QED BY <2>1, <2>3, <3>1, <3>3, <4>1, <4>2, <4>3, <4>4
    <3>4. CASE t.answer = "REJECTED"
      <4>1. Applied(o, v) = Heard(s, "REJECTED", 0) /\ HoldApplied(o, v) = 0
        BY <2>3, <3>4 DEF Applied, HoldApplied, Heard
      <4>2. Heard(s, "REJECTED", 0) \in SliceRows
        BY <2>1 DEF Heard, SliceRows, SliceStatuses
      <4> QED BY <2>1, <2>3, <3>1, <3>4, <4>1, <4>2
    <3>5. CASE t.answer = "UNKNOWN"
      <4>1. Applied(o, v) = Heard(s, "UNKNOWN", 0) /\ HoldApplied(o, v) = h
        BY <2>3, <3>5 DEF Applied, HoldApplied, Heard
      <4>2. Heard(s, "UNKNOWN", 0) \in SliceRows
        BY <2>1 DEF Heard, SliceRows, SliceStatuses, Unanswered
      <4> QED BY <2>1, <2>3, <3>1, <3>5, <4>1, <4>2
    <3> QED BY <3>1, <3>2, <3>3, <3>4, <3>5
  <2> QED BY <2>2, <2>3
<1>7. /\ SliceTyped' /\ \A v \in Venues : slice'[o][v] = Applied(o, v)
      /\ \A p \in Orders \ {o} : slice'[p] = slice[p]
  BY <1>1, <1>3, <1>6 DEF SliceTyped
<1>8. PICK h : h = [hold EXCEPT ![o] = [v \in Venues |-> HoldApplied(o, v)]]
  OBVIOUS
<1>9. /\ h \in [Orders -> [Venues -> Nat]]
      /\ \A v \in Venues : h[o][v] = HoldApplied(o, v)
      /\ \A p \in Orders \ {o} : h[p] = hold[p]
  BY <1>3, <1>6, <1>8 DEF HoldTyped
<1>10. \A p \in Orders, v \in Venues : h[p][v] <= hold[p][v]
  <2>1. \A p \in Orders, v \in Venues : hold[p][v] \in Nat
    BY <1>3 DEF HoldTyped
  <2> QED BY <1>6, <1>9, <2>1
<1>11. HoldTyped' /\ ReservedIsTheOpenHolds' /\ hold' = h
  BY <1>1, <1>3, <1>8, <1>9, <1>10, GiveBackFacts
<1>12. ASSUME NEW p \in Orders, NEW v \in Venues PROVE Change(p, v)
  <2>1. shot'[p][v] = shot[p][v] /\ row'[p][v] = row[p][v]
    BY <1>2
  <2>2. CASE p # o
    BY <1>7, <1>9, <1>11, <2>1, <2>2 DEF Change, Untouched
  <2>3. CASE p = o
    <3>1. slice'[o][v] = Applied(o, v) /\ hold'[o][v] = HoldApplied(o, v)
      BY <1>7, <1>9, <1>11
    <3>2. CASE Applied(o, v) = slice[o][v] /\ HoldApplied(o, v) = hold[o][v]
      BY <2>1, <2>3, <3>1, <3>2 DEF Change, Untouched
    <3>3. CASE ~(Applied(o, v) = slice[o][v] /\ HoldApplied(o, v) = hold[o][v])
      <4>1. TakesAnswer(o, v)
        BY <1>6, <2>1, <2>3, <3>1, <3>3 DEF TakesAnswer, Became
      <4> QED BY <2>3, <4>1 DEF Change
    <3> QED BY <3>2, <3>3
  <2> QED BY <2>2, <2>3
<1>13. TypeOK'
  BY <1>2, <1>4, <1>5, <1>7, <1>11, TypesKept, TypeParts DEF AmountInv
<1> QED BY <1>2, <1>4, <1>11, <1>12, <1>13, LeftAlone DEF StepFacts, OrderChange

LEMMA LeaveFacts ==
  ASSUME PcTyped, AgendaTyped, NEW a \in Agents, NEW o \in Orders, Leave(a, o)
  PROVE  /\ PcTyped' /\ AgendaTyped'
         /\ \A p \in Orders : pc[p] \in Over => pc'[p] \in Over
<1>1. agenda' = [agenda EXCEPT ![a] = @ \ {o}]
  BY DEF Leave
<1>2. AgendaTyped'
  BY <1>1 DEF AgendaTyped
<1>3. CASE a \in Orders
  <2>1. pc' = [pc EXCEPT ![a] = "done"]
    BY <1>3 DEF Leave
  <2> QED BY <1>2, <2>1 DEF PcTyped, Places, Over
<1>4. CASE a \notin Orders
  <2>1. pc' = pc
    BY <1>4 DEF Leave
  <2> QED BY <1>2, <2>1 DEF PcTyped
<1> QED BY <1>3, <1>4

LEMMA FinishReadFacts ==
  ASSUME AmountInv, NEW a \in Agents, NEW o \in Orders, FinishRead(a, o)
  PROVE  StepFacts
<1>1. UNCHANGED <<order, slice, hold, reserved, breaker, shot, row, todo, trips, found, target>>
  BY DEF FinishRead, rows, venueside, helpers
<1>2. PcTyped /\ AgendaTyped /\ SeenTyped
  BY TypeParts DEF AmountInv
<1>3. CASE /\ order[o].status \in Unfinished
           /\ seen' = [seen EXCEPT ![a] =
                [order |-> o, read |-> order[o].status, next |-> StatusOf(o),
                 filled |-> FilledOf(o)]]
           /\ UNCHANGED <<agenda, pc>>
  <2>1. PICK f : f = [order |-> o, read |-> order[o].status, next |-> StatusOf(o),
                      filled |-> FilledOf(o)]
    OBVIOUS
  <2>2. f \in Findings
    <3>1. FilledOf(o) \in Nat
      BY FilledFacts DEF AmountInv
    <3>2. order[o].status \in OrderStatuses
      BY DEF AmountInv, RouterInv, OrderInv
    <3>3. StatusOf(o) \in OrderStatuses
      BY DEF StatusOf, OrderStatuses, TerminalStatuses
    <3> QED BY <2>1, <3>1, <3>2, <3>3 DEF Findings
  <2>3. seen' = [seen EXCEPT ![a] = f]
    BY <1>3, <2>1
  <2>4. SeenTyped' /\ seen'[a] = f /\ \A b \in Agents \ {a} : seen'[b] = seen[b]
    BY <1>2, <2>2, <2>3 DEF SeenTyped
  <2>5. ASSUME NEW b \in Agents PROVE SeenChange(b)
    <3>1. CASE b = a
      <4>1. UNCHANGED <<order, slice>>
        BY <1>1
      <4> QED BY <1>3, <2>1, <2>4, <3>1, <4>1 DEF SeenChange
    <3>2. CASE b # a
      BY <2>4, <3>2 DEF SeenChange
    <3> QED BY <3>1, <3>2
  <2>6. TypeOK'
    BY <1>1, <1>3, <2>4, TypesKept, TypeParts DEF AmountInv
  <2> QED BY <1>1, <1>3, <2>5, <2>6, LeftAlone DEF StepFacts, OrderChange
<1>4. CASE Leave(a, o) /\ UNCHANGED seen
  <2>1. PcTyped' /\ AgendaTyped' /\ \A p \in Orders : pc[p] \in Over => pc'[p] \in Over
    BY <1>2, <1>4, LeaveFacts
  <2>2. TypeOK'
    BY <1>1, <1>4, <2>1, TypesKept, TypeParts DEF AmountInv
  <2> QED BY <1>1, <1>4, <2>1, <2>2, LeftAlone DEF StepFacts, OrderChange
<1> QED BY <1>3, <1>4 DEF FinishRead

LEMMA FinishWriteFacts ==
  ASSUME AmountInv, NEW a \in Agents, FinishWrite(a)
  PROVE  StepFacts
<1> DEFINE f == seen[a]
           o == f.order
<1>1. UNCHANGED <<slice, hold, reserved, breaker, shot, row, todo, trips, found, target>>
  BY DEF FinishWrite, venueside, helpers
<1>2. /\ seen[a] # Nothing /\ Leave(a, o) /\ seen' = [seen EXCEPT ![a] = Nothing]
      /\ order' = IF order[o].status = f.read
                  THEN [order EXCEPT ![o] = [status |-> f.next, filled |-> f.filled]]
                  ELSE order
  BY DEF FinishWrite
<1>3. PcTyped /\ AgendaTyped /\ SeenTyped /\ OrderTyped
  BY TypeParts DEF AmountInv
<1>4. f \in Findings /\ f.read \in Unfinished
  BY <1>2, <1>3 DEF SeenTyped, AmountInv, RouterInv, AgentInv
<1>5. o \in Orders /\ f.next \in OrderStatuses /\ f.filled \in Nat
  BY <1>4 DEF Findings
<1>6. PICK x : x = [status |-> f.next, filled |-> f.filled]
  OBVIOUS
<1>7. x \in OrderRows
  BY <1>5, <1>6 DEF OrderRows
<1>8. /\ OrderTyped' /\ \A p \in Orders \ {o} : order'[p] = order[p]
      /\ order'[o] = order[o] \/ (order[o].status \in Unfinished /\ order'[o] = x)
  <2>1. order' = IF order[o].status = f.read THEN [order EXCEPT ![o] = x] ELSE order
    BY <1>2, <1>6
  <2> QED BY <1>3, <1>4, <1>5, <1>7, <2>1 DEF OrderTyped
<1>9. PcTyped' /\ AgendaTyped' /\ \A p \in Orders : pc[p] \in Over => pc'[p] \in Over
  BY <1>2, <1>3, <1>5, LeaveFacts
<1>10. SeenTyped' /\ \A b \in Agents : SeenChange(b)
  BY <1>2, <1>3 DEF SeenTyped, SeenChange
<1>11. ASSUME NEW p \in Orders PROVE OrderRow(p)
  <2>1. CASE order'[p] = order[p]
    BY <2>1 DEF OrderRow
  <2>2. CASE p = o /\ order[o].status \in Unfinished /\ order'[o] = x
    <3>1. Finished(p)
      BY <1>2, <1>6, <2>2 DEF Finished
    <3> QED BY <2>2, <3>1 DEF OrderRow
  <2> QED BY <1>8, <2>1, <2>2
<1>12. TypeOK'
  BY <1>1, <1>8, <1>9, <1>10, TypesKept, TypeParts DEF AmountInv
<1> QED BY <1>1, <1>9, <1>10, <1>11, <1>12, LeftAlone DEF StepFacts, OrderChange

LEMMA SweepFacts ==
  ASSUME AmountInv, NEW s \in Sweepers, Sweep(s)
  PROVE  StepFacts
<1>1. FoundTyped /\ AgendaTyped /\ SeenTyped /\ s \in Agents
  BY TypeParts DEF AmountInv, Agents
<1>2. CASE SweepRead(s)
  <2> DEFINE hits == {p \in Orders \X Venues :
                 Overdue(p[1], p[2]) /\ row[p[1]][p[2]].status \in Confirming}
  <2>1. PICK F : F = {[order |-> p[1], venue |-> p[2], stake |-> row[p[1]][p[2]].stake] : p \in hits}
    OBVIOUS
  <2>2. /\ found' = [found EXCEPT ![s] = F]
        /\ UNCHANGED <<order, slice, hold, reserved, breaker, shot, row, pc, todo, trips, agenda, seen, target>>
    BY <1>2, <2>1 DEF SweepRead, rows, venueside, local
  <2>3. ASSUME NEW f \in F
        PROVE  f \in [order : Orders, venue : Venues, stake : Nat] /\ InLedger(f)
    <3>1. PICK p \in hits : f = [order |-> p[1], venue |-> p[2], stake |-> row[p[1]][p[2]].stake]
      BY <2>1
    <3>2. p[1] \in Orders /\ p[2] \in Venues /\ row[p[1]][p[2]].status \in Confirming
      BY <3>1
    <3>3. row[p[1]][p[2]].stake \in Nat
      BY <3>2, AmountsOf DEF AmountInv, LedgerRows
    <3> QED BY <3>1, <3>2, <3>3 DEF InLedger, Confirming
  <2>4. FoundTyped'
    BY <1>1, <2>2, <2>3 DEF FoundTyped
  <2>5. ASSUME NEW z \in Sweepers PROVE FoundChange(z)
    <3>1. CASE z = s
      <4>1. found'[z] = F /\ row' = row
        BY <1>1, <2>2, <3>1 DEF FoundTyped
      <4> QED BY <2>3, <4>1 DEF FoundChange
    <3>2. CASE z # s
      <4>1. found'[z] = found[z]
        BY <1>1, <2>2, <3>2 DEF FoundTyped
      <4> QED BY <4>1 DEF FoundChange
    <3> QED BY <3>1, <3>2
  <2>6. TypeOK'
    BY <2>2, <2>4, TypesKept, TypeParts DEF AmountInv
  <2> QED BY <2>2, <2>5, <2>6, LeftAlone DEF StepFacts, OrderChange
<1>3. CASE SweepConfirm(s)
  <2>1. PICK f \in found[s] :
       LET o == f.order
           v == f.venue
           s0 == slice[o][v]
           filled == Min({f.stake, s0.stake})
       IN /\ found' = [found EXCEPT ![s] = @ \ {f}]
          /\ IF s0.status \in Unanswered
             THEN /\ slice' = [slice EXCEPT ![o][v] =
                       [s0 EXCEPT !.status = IF filled < s0.stake THEN "PARTIAL" ELSE "FILLED",
                                  !.filled = filled]]
                  /\ GiveBack(Kept(hold, o, v, filled))
                  /\ agenda' = [agenda EXCEPT ![s] = @ \cup {o}]
             ELSE UNCHANGED <<slice, hold, reserved, agenda>>
    BY <1>3 DEF SweepConfirm
  <2>2. UNCHANGED <<order, breaker, shot, row, pc, todo, trips, seen, target>>
    BY <1>3 DEF SweepConfirm, venueside, local
  <2>3. PICK o, v : o = f.order /\ v = f.venue
    OBVIOUS
  <2>4. o \in Orders /\ v \in Venues /\ InLedger(f)
    BY <2>3 DEF AmountInv, RouterInv, HelperInv, FoundIsInLedger
  <2>5. PICK s0 : s0 = slice[o][v]
    OBVIOUS
  <2>6. /\ s0 \in SliceRows /\ SliceAmounts(o, v)
        /\ row[o][v].status # "NONE" /\ row[o][v].stake = f.stake /\ f.stake \in Nat
    BY <2>3, <2>4, <2>5, AmountsOf DEF AmountInv, InLedger, LedgerRows
  <2>7. f.stake <= s0.stake /\ s0.stake \in Nat
    BY <2>5, <2>6 DEF SliceAmounts, SliceRows
  <2>8. Min({f.stake, s0.stake}) = f.stake
    BY <2>6, <2>7, MinOfTwo DEF Lesser
  <2>9. FoundTyped' /\ \A z \in Sweepers : FoundChange(z)
    <3>1. found' = [found EXCEPT ![s] = @ \ {f}]
      BY <2>1
    <3> QED BY <1>1, <3>1 DEF FoundTyped, FoundChange
  <2>10. CASE s0.status \notin Unanswered
    <3>1. UNCHANGED <<slice, hold, reserved, agenda>>
      BY <2>1, <2>3, <2>5, <2>10
    <3>2. TypeOK'
      BY <2>2, <2>9, <3>1, TypesKept, TypeParts DEF AmountInv
    <3> QED BY <2>2, <2>9, <3>1, <3>2, LeftAlone DEF StepFacts, OrderChange
  <2>11. CASE s0.status \in Unanswered
    <3>1. PICK status : status = IF f.stake < s0.stake THEN "PARTIAL" ELSE "FILLED"
      OBVIOUS
    <3>2. /\ slice' = [slice EXCEPT ![o][v] = Heard(s0, status, f.stake)]
          /\ GiveBack(Kept(hold, o, v, f.stake))
          /\ agenda' = [agenda EXCEPT ![s] = @ \cup {o}]
      BY <2>1, <2>3, <2>5, <2>8, <2>11, <3>1 DEF Heard
    <3>3. Heard(s0, status, f.stake) \in SliceRows /\ status \in FilledStatuses
      BY <2>6, <3>1 DEF Heard, SliceRows, SliceStatuses, FilledStatuses
    <3>4. SliceTyped /\ HoldTyped /\ ReservedIsTheOpenHolds
      BY TypeParts DEF AmountInv
    <3>5. /\ SliceTyped' /\ slice'[o][v] = Heard(s0, status, f.stake)
          /\ \A p \in Orders, w \in Venues : p # o \/ w # v => slice'[p][w] = slice[p][w]
      BY <2>4, <3>2, <3>3, <3>4, Put DEF SliceTyped
    <3>6. PICK h : h = [hold EXCEPT ![o][v] = Lesser(hold[o][v], f.stake)]
      OBVIOUS
    <3>7. hold \in [Orders -> [Venues -> Nat]] /\ hold[o][v] \in Nat
      BY <2>4, <3>4 DEF HoldTyped
    <3>8. Lesser(hold[o][v], f.stake) \in Nat /\ Lesser(hold[o][v], f.stake) <= hold[o][v]
      BY <2>6, <3>7 DEF Lesser
    <3>9. Kept(hold, o, v, f.stake) = h
      <4>1. Min({hold[o][v], f.stake}) = Lesser(hold[o][v], f.stake)
        BY <2>6, <3>7, MinOfTwo
      <4> QED BY <3>6, <4>1 DEF Kept
    <3>10. /\ h \in [Orders -> [Venues -> Nat]] /\ h[o][v] = Lesser(hold[o][v], f.stake)
           /\ \A p \in Orders, w \in Venues : p # o \/ w # v => h[p][w] = hold[p][w]
      BY <2>4, <3>6, <3>7, <3>8, Put
    <3>11. \A p \in Orders, w \in Venues : h[p][w] <= hold[p][w]
      <4>1. \A p \in Orders, w \in Venues : hold[p][w] \in Nat
        BY <3>7
      <4> QED BY <3>8, <3>10, <4>1
    <3>12. GiveBack(h)
      BY <3>2, <3>9
    <3>13. HoldTyped' /\ ReservedIsTheOpenHolds' /\ hold' = h
      BY <3>4, <3>10, <3>11, <3>12, GiveBackFacts
    <3>14. ASSUME NEW p \in Orders, NEW w \in Venues PROVE Change(p, w)
      <4>1. shot'[p][w] = shot[p][w] /\ row'[p][w] = row[p][w]
        BY <2>2
      <4>2. CASE p = o /\ w = v
        <5>1. Became(o, v, status, row[o][v].stake, Lesser(hold[o][v], row[o][v].stake))
          BY <2>5, <2>6, <3>5, <3>10, <3>13 DEF Became
        <5>2. FoundInLedger(o, v)
          BY <2>5, <2>6, <2>11, <3>3, <4>1, <4>2, <5>1 DEF FoundInLedger
        <5> QED BY <4>2, <5>2 DEF Change
      <4>3. CASE p # o \/ w # v
        BY <3>5, <3>10, <3>13, <4>1, <4>3 DEF Change, Untouched
      <4> QED BY <4>2, <4>3
    <3>15. AgendaTyped'
      BY <1>1, <2>4, <3>2 DEF AgendaTyped
    <3>16. TypeOK'
      BY <2>2, <2>9, <3>5, <3>13, <3>15, TypesKept, TypeParts DEF AmountInv
    <3> QED BY <2>2, <2>9, <3>13, <3>14, <3>16, LeftAlone DEF StepFacts, OrderChange
  <2> QED BY <2>10, <2>11
<1>4. CASE SweepStops(s)
  <2>1. /\ found' = [found EXCEPT ![s] = {}] /\ agenda' = [agenda EXCEPT ![s] = {}]
        /\ seen' = [seen EXCEPT ![s] = Nothing]
    BY <1>4 DEF SweepStops
  <2>2. UNCHANGED <<order, slice, hold, reserved, breaker, shot, row, pc, todo, trips, target>>
    BY <1>4 DEF SweepStops, rows, venueside, local
  <2>3. FoundTyped' /\ \A z \in Sweepers : FoundChange(z)
    BY <1>1, <2>1 DEF FoundTyped, FoundChange
  <2>4. AgendaTyped'
    BY <1>1, <2>1 DEF AgendaTyped
  <2>5. SeenTyped' /\ \A b \in Agents : SeenChange(b)
    BY <1>1, <2>1 DEF SeenTyped, SeenChange
  <2>6. TypeOK'
    BY <2>2, <2>3, <2>4, <2>5, TypesKept, TypeParts DEF AmountInv
  <2> QED BY <2>2, <2>3, <2>5, <2>6, LeftAlone DEF StepFacts, OrderChange
<1> QED BY <1>2, <1>3, <1>4 DEF Sweep

\* What a reservation gives the venues: the plan for a fleet on offer.
LEMMA FleetFacts ==
  ASSUME HoldTyped, BreakerTyped, NEW quoted \in SUBSET Venues, NEW o \in Orders,
         NEW plan, plan = Plan(Fleet(quoted), Desired[o]), plan # Deficit
  PROVE  /\ DOMAIN plan \in SUBSET Venues /\ plan \in [DOMAIN plan -> Nat]
         /\ \A v \in DOMAIN plan : LeastStake[v] <= plan[v] /\ plan[v] <= FreeFunds(v)
         /\ SumFunctionOnSet(plan, DOMAIN plan) = Desired[o]
<1> DEFINE S == {w \in quoted : ~breaker[w].paused /\ FreeFunds(w) >= LeastStake[w]}
           fleet == Fleet(quoted)
<1>1. /\ fleet = [v \in S |-> [capacity |-> FreeFunds(v), least |-> LeastStake[v],
                               odds |-> Odds[v], priority |-> Priority[v]]]
      /\ DOMAIN fleet = S /\ S \in SUBSET Venues
  BY DEF Fleet
<1> HIDE DEF S, fleet
<1>2. IsFiniteSet(S)
  BY <1>1, RouterAssumption, FS_Subset
<1>3. ASSUME NEW v \in S
      PROVE  /\ v \in Nat /\ fleet[v] \in Offers
             /\ fleet[v].capacity = FreeFunds(v) /\ fleet[v].least = LeastStake[v]
  <2>1. v \in Venues /\ v \in Nat
    BY <1>1, RouterAssumption
  <2>2. FreeFunds(v) \in Nat
    BY <2>1, RouterAssumption DEF FreeFunds, Minus, HoldTyped
  <2>3. LeastStake[v] \in Nat /\ Odds[v] \in Nat /\ Priority[v] \in Nat
    BY <2>1, RouterAssumption
  <2>4. fleet[v] = [capacity |-> FreeFunds(v), least |-> LeastStake[v],
                    odds |-> Odds[v], priority |-> Priority[v]]
    BY <1>1
  <2> QED BY <2>1, <2>2, <2>3, <2>4 DEF Offers
<1>4. Desired[o] \in Nat \ {0}
  BY RouterAssumption
<1>5. plan = Plan(fleet, Desired[o])
  BY DEF fleet
<1>6. /\ DOMAIN plan \in SUBSET S /\ plan \in [DOMAIN plan -> Nat]
      /\ \A v \in DOMAIN plan : fleet[v].least <= plan[v] /\ plan[v] <= fleet[v].capacity
      /\ SumFunctionOnSet(plan, DOMAIN plan) = Desired[o]
  <2>1. PICK d \in Nat \ {0} : d = Desired[o]
    BY <1>4
  <2>2. PICK f : f = fleet
    OBVIOUS
  <2>3. DOMAIN f = S /\ Plan(f, d) # Deficit /\ plan = Plan(f, d)
    BY <1>1, <1>5, <2>1, <2>2
  <2>4. \A v \in S : v \in Nat /\ f[v] \in Offers
    BY <1>3, <2>2
  <2>5. /\ DOMAIN plan \in SUBSET S /\ plan \in [DOMAIN plan -> Nat]
        /\ \A v \in DOMAIN plan : f[v].least <= plan[v] /\ plan[v] <= f[v].capacity
        /\ SumFunctionOnSet(plan, DOMAIN plan) = d
    BY <1>2, <2>3, <2>4, PlanFacts
  <2> QED BY <2>1, <2>2, <2>5
<1> QED BY <1>1, <1>3, <1>6

\* Reserving what is free keeps the books of the accounts.
LEMMA ReservedFacts ==
  ASSUME HoldTyped, ReservedIsTheOpenHolds, NEW o \in Orders, NEW give \in [Venues -> Nat],
         \A v \in Venues : hold[o][v] = 0 /\ give[v] <= FreeFunds(v),
         hold' = [hold EXCEPT ![o] = give],
         reserved' = [v \in Venues |-> reserved[v] + give[v]]
  PROVE  HoldTyped' /\ ReservedIsTheOpenHolds'
<1>1. hold' \in [Orders -> [Venues -> Nat]] /\ reserved' \in [Venues -> Nat]
  BY DEF HoldTyped
<1>2. ASSUME NEW v \in Venues
      PROVE  /\ reserved'[v] = SumFunctionOnSet([p \in Orders |-> hold'[p][v]], Orders)
             /\ reserved'[v] <= Balance[v]
  <2> DEFINE f == [p \in Orders |-> hold[p][v]]
             g == [p \in Orders |-> hold'[p][v]]
  <2>1. /\ \A p \in Orders : f[p] \in Int /\ g[p] \in Int
        /\ \A p \in Orders \ {o} : g[p] = f[p]
        /\ f[o] = 0 /\ g[o] = give[v]
    BY <1>1 DEF HoldTyped
  <2>2. reserved[v] = SumFunctionOnSet(f, Orders) /\ reserved[v] <= Balance[v]
    BY DEF ReservedIsTheOpenHolds
  <2>3. /\ reserved'[v] = reserved[v] + give[v] /\ give[v] \in Nat /\ reserved[v] \in Nat
        /\ Balance[v] \in Nat /\ give[v] <= FreeFunds(v) /\ IsFiniteSet(Orders)
    BY RouterAssumption DEF HoldTyped
  <2> HIDE DEF f, g
  <2>4. SumFunctionOnSet(g, Orders) = SumFunctionOnSet(f, Orders) - f[o] + g[o]
    <3>1. IsFiniteSet(Orders) /\ \A p \in Orders : f[p] \in Int /\ g[p] \in Int
      BY <2>1, <2>3
    <3>2. \A p \in Orders \ {o} : g[p] = f[p]
      BY <2>1
    <3> QED BY <3>1, <3>2, SumChange
  <2>4a. SumFunctionOnSet(f, Orders) \in Int
    BY <2>1, <2>3, SumType
  <2>5. reserved'[v] = SumFunctionOnSet(g, Orders)
    BY <2>1, <2>2, <2>3, <2>4, <2>4a
  <2>6. reserved'[v] <= Balance[v]
    BY <2>2, <2>3 DEF FreeFunds, Minus
  <2> QED BY <2>5, <2>6 DEF g
<1> QED BY <1>1, <1>2 DEF HoldTyped, ReservedIsTheOpenHolds

LEMMA ReserveFacts ==
  ASSUME AmountInv, NEW o \in Orders, Reserve(o)
  PROVE  StepFacts
<1>1. /\ Step(o, "claimed", "reserved") /\ order[o].status = "ROUTING"
      /\ order' = [order EXCEPT ![o].status = "RESERVED"]
      /\ UNCHANGED <<breaker, shot, row, todo, trips, agenda, seen, found, target>>
  BY DEF Reserve, venueside, helpers
<1>2. PICK quoted \in SUBSET Venues :
        LET p == Plan(Fleet(quoted), Desired[o])
            stake(v) == IF v \in DOMAIN p THEN p[v] ELSE 0
        IN /\ p # Deficit
           /\ slice' = [slice EXCEPT ![o] = [v \in Venues |->
                IF v \in DOMAIN p
                THEN [status |-> "RESERVED", stake |-> p[v], filled |-> 0]
                ELSE NoSlice]]
           /\ hold' = [hold EXCEPT ![o] = [v \in Venues |-> stake(v)]]
           /\ reserved' = [v \in Venues |-> reserved[v] + stake(v)]
  BY DEF Reserve
<1>2a. PICK plan : plan = Plan(Fleet(quoted), Desired[o])
  OBVIOUS
<1>2b. PICK give : give = [v \in Venues |-> IF v \in DOMAIN plan THEN plan[v] ELSE 0]
  OBVIOUS
<1>3. /\ plan = Plan(Fleet(quoted), Desired[o]) /\ plan # Deficit
      /\ give = [v \in Venues |-> IF v \in DOMAIN plan THEN plan[v] ELSE 0]
      /\ slice' = [slice EXCEPT ![o] = [v \in Venues |->
             IF v \in DOMAIN plan
             THEN [status |-> "RESERVED", stake |-> plan[v], filled |-> 0]
             ELSE NoSlice]]
      /\ hold' = [hold EXCEPT ![o] = give]
      /\ reserved' = [v \in Venues |-> reserved[v] + give[v]]
  <2>1. \A v \in Venues : give[v] = IF v \in DOMAIN plan THEN plan[v] ELSE 0
    BY <1>2b
  <2>2. [v \in Venues |-> reserved[v] + give[v]] =
          [v \in Venues |-> reserved[v] + (IF v \in DOMAIN plan THEN plan[v] ELSE 0)]
    BY <2>1
  <2> QED BY <1>2, <1>2a, <1>2b, <2>2
<1>4. /\ OrderTyped /\ SliceTyped /\ HoldTyped /\ BreakerTyped /\ PcTyped
      /\ TypeOK /\ ReservedIsTheOpenHolds
  BY TypeParts DEF AmountInv
<1>5. /\ DOMAIN plan \in SUBSET Venues /\ plan \in [DOMAIN plan -> Nat]
      /\ \A v \in DOMAIN plan : LeastStake[v] <= plan[v] /\ plan[v] <= FreeFunds(v)
      /\ SumFunctionOnSet(plan, DOMAIN plan) = Desired[o]
  BY <1>3, <1>4, FleetFacts
<1>6. ASSUME NEW v \in Venues
      PROVE  slice[o][v] = NoSlice /\ hold[o][v] = 0
  BY <1>1 DEF AmountInv, OrderAmounts, RouterInv, SliceInv, NoSlice
<1>7. ASSUME NEW v \in Venues
      PROVE  /\ LeastStake[v] \in Nat /\ LeastStake[v] >= 1
             /\ give[v] \in Nat /\ give[v] <= FreeFunds(v)
             /\ v \in DOMAIN plan => give[v] = plan[v] /\ give[v] >= LeastStake[v]
             /\ v \notin DOMAIN plan => give[v] = 0
  <2>1. LeastStake[v] \in Nat /\ LeastStake[v] >= 1 /\ FreeFunds(v) \in Nat
    BY <1>4, RouterAssumption DEF FreeFunds, Minus, HoldTyped
  <2>2. give[v] = IF v \in DOMAIN plan THEN plan[v] ELSE 0
    BY <1>3
  <2>3. v \in DOMAIN plan => /\ plan[v] \in Nat /\ LeastStake[v] <= plan[v]
                             /\ plan[v] <= FreeFunds(v)
    BY <1>5
  <2> QED BY <2>1, <2>2, <2>3
<1>8. give \in [Venues -> Nat]
  <2>1. give = [v \in Venues |-> give[v]]
    BY <1>3
  <2> QED BY <1>7, <2>1
<1>9. HoldTyped' /\ ReservedIsTheOpenHolds'
  <2>1. \A v \in Venues : hold[o][v] = 0 /\ give[v] <= FreeFunds(v)
    BY <1>6, <1>7
  <2> QED BY <1>3, <1>4, <1>8, <2>1, ReservedFacts
<1>10. ASSUME NEW v \in Venues
       PROVE  /\ slice'[o][v] = IF v \in DOMAIN plan
                                THEN [status |-> "RESERVED", stake |-> plan[v], filled |-> 0]
                                ELSE NoSlice
              /\ hold'[o][v] = give[v]
              /\ slice'[o][v].stake = give[v] /\ slice'[o][v].filled = 0
              /\ v \in DOMAIN plan <=> slice'[o][v].status # "NONE"
              /\ v \in DOMAIN plan => slice'[o][v].status = "RESERVED"
              /\ slice'[o][v] \in SliceRows
  <2>1. /\ slice'[o][v] = IF v \in DOMAIN plan
                          THEN [status |-> "RESERVED", stake |-> plan[v], filled |-> 0]
                          ELSE NoSlice
        /\ hold'[o][v] = give[v]
    BY <1>3, <1>4, <1>8 DEF SliceTyped, HoldTyped
  <2>2. plan[v] \in Nat \/ v \notin DOMAIN plan
    BY <1>5
  <2> QED BY <1>7, <2>1, <2>2 DEF NoSlice, SliceRows, SliceStatuses
<1>11. \A p \in Orders \ {o}, v \in Venues : slice'[p][v] = slice[p][v] /\ hold'[p][v] = hold[p][v]
  BY <1>3, <1>4 DEF SliceTyped, HoldTyped
<1>12. SliceTyped'
  <2> DEFINE new == [v \in Venues |->
               IF v \in DOMAIN plan
               THEN [status |-> "RESERVED", stake |-> plan[v], filled |-> 0]
               ELSE NoSlice]
  <2>1. \A v \in Venues : new[v] \in SliceRows
    BY <1>10
  <2>2. new \in [Venues -> SliceRows]
    BY <2>1
  <2>3. slice' = [slice EXCEPT ![o] = new]
    BY <1>3
  <2> HIDE DEF new
  <2> QED BY <1>4, <2>2, <2>3 DEF SliceTyped
<1>13. \A v \in Venues : GetsSlice(o, v)
  <2> SUFFICES ASSUME NEW v \in Venues PROVE GetsSlice(o, v)
    OBVIOUS
  <2>1. shot'[o][v] = shot[o][v] /\ row'[o][v] = row[o][v]
    BY <1>1
  <2>2. v \notin DOMAIN plan => slice'[o][v] = NoSlice /\ hold'[o][v] = 0
    BY <1>7, <1>10
  <2> QED BY <1>6, <1>7, <1>10, <2>1, <2>2 DEF GetsSlice
<1>14. SumFunctionOnSet([v \in Venues |-> slice'[o][v].stake],
                        {v \in Venues : slice'[o][v].status # "NONE"}) = Desired[o]
  <2> DEFINE f == [v \in Venues |-> slice'[o][v].stake]
             A == {v \in Venues : slice'[o][v].status # "NONE"}
  <2>1. A = DOMAIN plan
    BY <1>5, <1>10
  <2>2. \A v \in DOMAIN plan : plan[v] \in Int /\ f[v] = plan[v]
    <3> SUFFICES ASSUME NEW v \in DOMAIN plan PROVE plan[v] \in Int /\ f[v] = plan[v]
      OBVIOUS
    <3>1. v \in Venues /\ plan[v] \in Nat
      BY <1>5
    <3>2. slice'[o][v].stake = give[v] /\ give[v] = plan[v]
      BY <1>7, <1>10, <3>1
    <3>3. f[v] = slice'[o][v].stake
      BY <3>1
    <3> QED BY <3>1, <3>2, <3>3
  <2>3. IsFiniteSet(DOMAIN plan)
    BY <1>5, RouterAssumption, FS_Subset
  <2> HIDE DEF f, A
  <2>4. SumFunctionOnSet(f, DOMAIN plan) = SumFunctionOnSet(plan, DOMAIN plan)
    BY <2>2, <2>3, SumSame
  <2>5. SumFunctionOnSet(f, A) = Desired[o]
    BY <1>5, <2>1, <2>4
  <2> QED BY <2>5 DEF f, A
<1>15. order'[o] = [order[o] EXCEPT !.status = "RESERVED"] /\ OrderTyped'
       /\ \A p \in Orders \ {o} : order'[p] = order[p]
  <2>1. [order[o] EXCEPT !.status = "RESERVED"] \in OrderRows
    BY <1>4 DEF OrderTyped, OrderRows, OrderStatuses
  <2> QED BY <1>1, <1>4, <2>1 DEF OrderTyped
<1>16. GetsPlan(o)
  BY <1>1, <1>13, <1>14, <1>15 DEF GetsPlan
<1>17. ASSUME NEW p \in Orders \ {o}
       PROVE  (\A v \in Venues : Change(p, v)) /\ OrderRow(p)
  <2>1. ASSUME NEW v \in Venues PROVE Change(p, v)
    <3>1. shot'[p][v] = shot[p][v] /\ row'[p][v] = row[p][v]
      BY <1>1
    <3> QED BY <1>11, <3>1 DEF Change, Untouched
  <2> QED BY <1>15, <2>1 DEF OrderRow
<1>18. PcTyped' /\ \A p \in Orders : pc[p] \in Over => pc'[p] \in Over
  <2>1. "reserved" \in Places /\ "claimed" \notin Over
    BY DEF Places, Over
  <2> QED BY <1>1, <1>4, <2>1, StepTo
<1>19. TypeOK'
  BY <1>1, <1>4, <1>9, <1>12, <1>15, <1>18, TypesKept, TypeParts
<1>20. \A p \in Orders : OrderChange(p)
  BY <1>16, <1>17, <1>18 DEF OrderChange
<1> QED BY <1>1, <1>9, <1>19, <1>20, LeftAlone DEF StepFacts

-----------------------------------------------------------------------------
(***************************************************************************)
(* The invariant                                                           *)
(***************************************************************************)
LEMMA AmountStarts ==
  Init => AmountInv
<1> SUFFICES ASSUME Init PROVE AmountInv
  OBVIOUS
<1>1. /\ order = [o \in Orders |-> [status |-> "NONE", filled |-> 0]]
      /\ slice = [o \in Orders |-> [v \in Venues |-> NoSlice]]
      /\ hold = [o \in Orders |-> [v \in Venues |-> 0]]
      /\ reserved = [v \in Venues |-> 0]
      /\ breaker \in [Venues -> [failures : 0 .. Failures - 1, paused : BOOLEAN]]
      /\ shot = [o \in Orders |-> [v \in Venues |-> NotSent]]
      /\ row = [o \in Orders |-> [v \in Venues |-> NoRow]]
      /\ pc = [o \in Orders |-> "new"]
      /\ todo = [o \in Orders |-> {}]
      /\ trips = [o \in Orders |-> {}]
      /\ agenda = [a \in Agents |-> {}]
      /\ seen = [a \in Agents |-> Nothing]
      /\ found = [s \in Sweepers |-> {}]
      /\ target = [p \in Operators |-> <<>>]
  BY DEF Init
<1>2. RouterInv
  BY RouterStarts
<1>3. TypeOK
  <2>1. OrderTyped /\ SliceTyped /\ HoldTyped
    BY <1>1 DEF OrderTyped, SliceTyped, HoldTyped, OrderRows, SliceRows, OrderStatuses,
       SliceStatuses, NoSlice
  <2>2. BreakerTyped
    <3>1. Failures \in Nat
      BY RouterAssumption
    <3>2. \A v \in Venues : breaker[v] \in [failures : Nat, paused : BOOLEAN]
      BY <1>1, <3>1
    <3> QED BY <1>1, <3>2 DEF BreakerTyped
  <2>3. ShotTyped /\ RowTyped
    BY <1>1 DEF ShotTyped, RowTyped, Shots, LedgerRows, Answers, RowStatuses, NotSent, NoRow
  <2>4. PcTyped /\ WorkTyped /\ AgendaTyped
    BY <1>1 DEF PcTyped, WorkTyped, AgendaTyped, Places
  <2>5. SeenTyped /\ FoundTyped /\ TargetTyped
    BY <1>1 DEF SeenTyped, FoundTyped, TargetTyped
  <2> QED BY <2>1, <2>2, <2>3, <2>4, <2>5 DEF TypeOK, OrderTyped, SliceTyped, HoldTyped,
     BreakerTyped, ShotTyped, RowTyped, PcTyped, WorkTyped, AgendaTyped, SeenTyped, FoundTyped,
     TargetTyped, OrderRows, SliceRows, Shots, LedgerRows, Places
<1>4. ReservedIsTheOpenHolds
  <2> SUFFICES ASSUME NEW v \in Venues
               PROVE  /\ reserved[v] = SumFunctionOnSet([o \in Orders |-> hold[o][v]], Orders)
                      /\ reserved[v] <= Balance[v]
    BY DEF ReservedIsTheOpenHolds
  <2> DEFINE f == [o \in Orders |-> hold[o][v]]
  <2>1. \A o \in Orders : f[o] = 0
    BY <1>1
  <2> HIDE DEF f
  <2>2. SumFunctionOnSet(f, Orders) = SumFunctionOnSet(f, {})
    <3>1. IsFiniteSet(Orders) /\ {} \in SUBSET Orders
      BY RouterAssumption
    <3>2. (\A o \in {} : f[o] \in Int) /\ \A o \in Orders \ {} : f[o] = 0
      BY <2>1
    <3> QED BY <3>1, <3>2, SumSupport
  <2>3. SumFunctionOnSet(f, Orders) = 0
    BY <2>2, SumEmpty
  <2>4. reserved[v] = 0 /\ Balance[v] \in Nat
    BY <1>1, RouterAssumption
  <2> QED BY <2>3, <2>4 DEF f
<1>5. ASSUME NEW o \in Orders, NEW v \in Venues PROVE SliceAmounts(o, v)
  <2>1. /\ slice[o][v] = NoSlice /\ hold[o][v] = 0 /\ shot[o][v] = NotSent /\ row[o][v] = NoRow
    BY <1>1
  <2> QED BY <2>1 DEF SliceAmounts, NoSlice, NotSent, NoRow, OpenRows, FilledStatuses
<1>6. ASSUME NEW o \in Orders PROVE OrderAmounts(o)
  <2>1. order[o].status = "NONE" /\ order[o].filled = 0 /\ \A v \in Venues : slice[o][v] = NoSlice
    BY <1>1
  <2>2. PlanOf(o)
    BY <2>1 DEF PlanOf, SlicesOf, NoSlice
  <2> QED BY <2>1, <2>2 DEF OrderAmounts, Sent, Unfinished, TerminalStatuses
<1>7. \A a \in Agents : SeenAmounts(a)
  BY <1>1 DEF SeenAmounts
<1>8. FoundIsInLedger
  BY <1>1 DEF FoundIsInLedger
<1> QED BY <1>2, <1>3, <1>4, <1>5, <1>6, <1>7, <1>8 DEF AmountInv

LEMMA EveryStep ==
  ASSUME AmountInv, [Next]_vars
  PROVE  StepFacts
<1>1. CASE UNCHANGED vars
  <2>1. UNCHANGED <<order, slice, hold, reserved, breaker, shot, row, pc, todo, trips,
                    agenda, seen, found, target>>
    BY <1>1 DEF vars, rows, venueside, local, helpers
  <2>2. TypeOK'
    BY <2>1, TypesKept, TypeParts DEF AmountInv
  <2> QED BY <2>1, <2>2, LeftAlone DEF StepFacts, OrderChange
<1>2. ASSUME NEW o \in Orders, Route(o) \/ Die(o) \/ RoutingAbandoned(o)
      PROVE  StepFacts
  BY <1>2, ClaimFacts, ReserveFacts, RefuseFacts, AbortFacts, DispatchFacts, ApplyFacts,
     DieFacts, AbandonedFacts DEF Route
<1>3. ASSUME NEW o \in Orders, NEW v \in Venues,
             Execute(o, v) \/ Breakers(o, v) \/ ReleaseFinished(o, v) \/ LedgerMoves(o, v)
      PROVE  StepFacts
  BY <1>3, ExecuteFacts, RecordFacts, OnTripFacts, ReleaseFinishedFacts, LedgerFacts
     DEF Breakers
<1>4. ASSUME NEW a \in Agents, FinishWrite(a) \/ \E o \in Orders : FinishRead(a, o)
      PROVE  StepFacts
  BY <1>4, FinishReadFacts, FinishWriteFacts
<1>5. ASSUME NEW s \in Sweepers, Sweep(s)
      PROVE  StepFacts
  BY <1>5, SweepFacts
<1>6. ASSUME HoldExpired
      PROVE  StepFacts
  BY <1>6, HoldExpiredFacts
<1>7. ASSUME NEW v \in Venues, PauseEnds(v) \/ Reset(v)
      PROVE  StepFacts
  BY <1>7, BreakerFacts
<1>8. ASSUME NEW p \in Operators,
             OperatorReleases(p) \/ \E o \in Orders, v \in Venues : OperatorLooks(p, o, v)
      PROVE  StepFacts
  BY <1>8, OperatorLooksFacts, OperatorReleasesFacts
<1> QED
  BY <1>1, <1>2, <1>3, <1>4, <1>5, <1>6, <1>7, <1>8 DEF Next

LEMMA AmountSteps ==
  AmountInv /\ [Next]_vars => AmountInv'
BY RouterSteps, EveryStep, AmountsStay DEF AmountInv

\* Stakes, holds, ledger rows, fills and what is reserved always fit together,
\* for any number of orders, accounts, sweeps and operators
\* (services/execution_router.py, services/account_rotator.py).
THEOREM AmountInvariant == Spec => []AmountInv
<1> QED
  BY AmountStarts, AmountSteps, PTL DEF Spec

\* Every row, answer and reading of the router keeps its type, and no amount
\* goes below zero (models/execution_router.py).
THEOREM RouterTypes == Spec => []TypeOK
<1>1. AmountInv => TypeOK
  BY DEF AmountInv
<1> QED
  BY <1>1, AmountInvariant, PTL

\* What an account has reserved is the sum of its open holds and never more
\* than its balance, though dispatch, a tripped breaker, an expiry, the sweep
\* and an operator may each give the same hold back (account_rotator.release).
THEOREM ReservedAddsUp == Spec => []ReservedIsTheOpenHolds
<1>1. AmountInv => ReservedIsTheOpenHolds
  BY DEF AmountInv
<1> QED
  BY <1>1, AmountInvariant, PTL

\* As long as the ledger counts a stake as open, at least as much is held on
\* its account, so the router never offers that money to another order
\* (execution_router._apply, account_rotator.shrink).
THEOREM OpenBetsAreHeld == Spec => []OpenBetIsHeld
<1>1. AmountInv => OpenBetIsHeld
  BY DEF AmountInv, SliceAmounts, OpenBetIsHeld
<1> QED
  BY <1>1, AmountInvariant, PTL

\* However the fleet, its prices and its minima lie, the slices of an order add
\* up to its stake, each at least the minimum of its venue
\* (smart_router.plan_slices).
THEOREM PlanCovers == Spec => []PlanCoversTheOrder
<1>1. AmountInv => PlanCoversTheOrder
  BY DEF AmountInv, OrderAmounts, PlanOf, PlanCoversTheOrder
<1> QED
  BY <1>1, AmountInvariant, PTL

\* An order that is closed says what its slices say, none of them is open, and
\* a refused or aborted one holds nothing, whoever closed it and however old
\* the reading it was closed from (execution_router.finish).
THEOREM ClosedOrdersAddUp == Spec => []ClosedOrderAddsUp
<1> QED
  BY ClosedAddsUp, AmountInvariant, PTL
-----------------------------------------------------------------------------
(***************************************************************************)
(* The venues' side of the router is the executor's contract               *)
(*                                                                         *)
(* What a step does to a slice's execution and to its ledger row.          *)
(***************************************************************************)
GoesOn(o, v) ==
  /\ row'[o][v] = row[o][v] /\ shot'[o][v].struck = shot[o][v].struck
  /\ \/ shot'[o][v].state = shot[o][v].state
     \/ shot[o][v].state = "none" /\ shot'[o][v].state = "sent"

LeavesRow(o, v) ==
  /\ row'[o][v] \in Contract!Leavings(slice[o][v].stake)
  /\ row'[o][v].status = "PENDING" => shot'[o][v].struck

ComesToAnEnd(o, v) ==
  /\ shot[o][v].state = "sent" /\ shot'[o][v].state = "over"
  /\ row'[o][v] = row[o][v] \/ LeavesRow(o, v)

IsRuledOn(o, v) ==
  /\ shot'[o][v] = shot[o][v]
  /\ \E s \in Rulings(o, v) : row'[o][v] = [row[o][v] EXCEPT !.status = s]

VenueMove(o, v) == GoesOn(o, v) \/ ComesToAnEnd(o, v) \/ IsRuledOn(o, v)

VenueMoves == \A o \in Orders, v \in Venues : VenueMove(o, v)

\* Nothing is struck before an execution ends, and nothing that the ledger
\* gives back was.
Strikes ==
  \A o \in Orders, v \in Venues :
    /\ shot[o][v].state # "over" => ~shot[o][v].struck
    /\ row[o][v].status = "REJECTED" => ~shot[o][v].struck

LEMMA VenuesWait ==
  ASSUME UNCHANGED <<shot, row>>
  PROVE  VenueMoves
BY DEF VenueMoves, VenueMove, GoesOn

\* One slice moves.
LEMMA OneVenueMoves ==
  ASSUME NEW o \in Orders, NEW v \in Venues, VenueMove(o, v),
         \A p \in Orders, w \in Venues : p # o \/ w # v =>
           shot'[p][w] = shot[p][w] /\ row'[p][w] = row[p][w]
  PROVE  VenueMoves
<1>1. ASSUME NEW p \in Orders, NEW w \in Venues
      PROVE  VenueMove(p, w)
  <2>1. CASE p = o /\ w = v
    BY <2>1
  <2>2. CASE p # o \/ w # v
    BY <2>2 DEF VenueMove, GoesOn
  <2> QED BY <2>1, <2>2
<1> QED BY <1>1 DEF VenueMoves

LEMMA EndMove ==
  ASSUME ShotTyped, NEW o \in Orders, NEW v \in Venues, NEW kind \in Answers,
         NEW filled \in Nat, Answered(o, v, kind, filled), row' = row
  PROVE  VenueMoves
<1>1. /\ shot[o][v].state = "sent" /\ shot'[o][v].state = "over"
      /\ \A p \in Orders, w \in Venues : p # o \/ w # v => shot'[p][w] = shot[p][w]
  BY AnswerFacts
<1>2. VenueMove(o, v)
  BY <1>1 DEF VenueMove, ComesToAnEnd
<1> QED BY <1>1, <1>2, OneVenueMoves

LEMMA RowMove ==
  ASSUME ShotTyped, RowTyped, NEW o \in Orders, NEW v \in Venues, NEW kind \in Answers,
         NEW filled \in Nat, Answered(o, v, kind, filled),
         NEW r \in Contract!Leavings(slice[o][v].stake),
         r.status = "PENDING" => shot'[o][v].struck,
         row' = [row EXCEPT ![o][v] = r]
  PROVE  VenueMoves
<1>1. /\ shot[o][v].state = "sent" /\ shot'[o][v].state = "over"
      /\ \A p \in Orders, w \in Venues : p # o \/ w # v => shot'[p][w] = shot[p][w]
  BY AnswerFacts
<1>2. /\ row'[o][v] = r
      /\ \A p \in Orders, w \in Venues : p # o \/ w # v => row'[p][w] = row[p][w]
  BY DEF RowTyped
<1>3. VenueMove(o, v)
  BY <1>1, <1>2 DEF VenueMove, ComesToAnEnd, LeavesRow
<1> QED BY <1>1, <1>2, <1>3, OneVenueMoves

LEMMA ExecuteMove ==
  ASSUME AmountInv, NEW o \in Orders, NEW v \in Venues, Execute(o, v)
  PROVE  VenueMoves
<1>0. /\ ShotTyped /\ RowTyped /\ slice[o][v].stake \in Nat
      /\ {"FILLED", "PARTIAL", "REJECTED", "UNKNOWN"} \subseteq Answers
  BY TypeParts, AmountsOf DEF AmountInv, Answers, SliceRows
<1>1. CASE Refused(o, v)
  BY <1>0, <1>1, EndMove DEF Refused, Answered
<1>2. CASE Accepted(o, v)
  <2>1. PICK f \in 1 .. slice[o][v].stake :
          /\ Answer(o, v, IF f < slice[o][v].stake THEN "PARTIAL" ELSE "FILLED", f, FALSE, TRUE)
          /\ row' = [row EXCEPT ![o][v] = [status |-> "PENDING", stake |-> f]]
    BY <1>2 DEF Accepted
  <2>2. PICK kind \in Answers : kind = IF f < slice[o][v].stake THEN "PARTIAL" ELSE "FILLED"
    BY <1>0
  <2>3. PICK r : r = [status |-> "PENDING", stake |-> f]
    OBVIOUS
  <2>4. r \in Contract!Leavings(slice[o][v].stake)
    BY <2>3 DEF Contract!Leavings
  <2>5. Answer(o, v, kind, f, FALSE, TRUE)
    BY <2>1, <2>2
  <2>6. row' = [row EXCEPT ![o][v] = r]
    BY <2>1, <2>3
  <2>7. Answered(o, v, kind, f)
    BY <2>5 DEF Answered
  <2>8. f \in Nat
    BY <1>0
  <2>9. shot'[o][v].struck
    <3>1. shot[o][v] \in Shots
      BY <1>0 DEF ShotTyped
    <3>2. PICK x : x = IF shot[o][v].answer = "NONE"
                       THEN [state |-> "over", answer |-> kind, filled |-> f,
                             fault |-> FALSE, struck |-> TRUE]
                       ELSE [shot[o][v] EXCEPT !.state = "over", !.struck = TRUE]
      OBVIOUS
    <3>3. x.struck
      BY <3>1, <3>2 DEF Shots
    <3>4. shot' = [shot EXCEPT ![o][v] = x]
      BY <2>5, <3>2 DEF Answer
    <3> QED BY <1>0, <3>3, <3>4 DEF ShotTyped
  <2> QED BY <1>0, <2>4, <2>6, <2>7, <2>8, <2>9, RowMove
<1>3. CASE Unconfirmed(o, v)
  <2>1. Answered(o, v, "UNKNOWN", 0)
    BY <1>3 DEF Unconfirmed, Answered
  <2>2. PICK r : r = [status |-> "UNCONFIRMED", stake |-> slice[o][v].stake]
    OBVIOUS
  <2>3. r \in Contract!Leavings(slice[o][v].stake) /\ r.status # "PENDING"
    BY <2>2 DEF Contract!Leavings
  <2>4. row' = [row EXCEPT ![o][v] = r]
    BY <1>3, <2>2 DEF Unconfirmed
  <2>5. "UNKNOWN" \in Answers /\ 0 \in Nat
    BY <1>0
  <2> QED BY <1>0, <2>1, <2>3, <2>4, <2>5, RowMove
<1>4. CASE CommitFails(o, v)
  BY <1>0, <1>4, EndMove DEF CommitFails, Answered
<1>5. CASE ExecutorRaises(o, v)
  BY <1>0, <1>5, EndMove DEF ExecutorRaises, Answered
<1>6. CASE TimesOut(o, v)
  <2>1. /\ shot' = [shot EXCEPT ![o][v].answer = "UNKNOWN", ![o][v].fault = TRUE]
        /\ row' = row
    BY <1>6 DEF TimesOut
  <2>2. ASSUME NEW p \in Orders, NEW w \in Venues
        PROVE  shot'[p][w].state = shot[p][w].state /\ shot'[p][w].struck = shot[p][w].struck
    BY <1>0, <2>1 DEF ShotTyped, Shots
  <2> QED BY <2>1, <2>2 DEF VenueMoves, VenueMove, GoesOn
<1> QED BY <1>1, <1>2, <1>3, <1>4, <1>5, <1>6 DEF Execute

LEMMA RecordMove ==
  ASSUME AmountInv, NEW o \in Orders, NEW v \in Venues, Record(o, v)
  PROVE  VenueMoves
<1>1. /\ shot' = [shot EXCEPT ![o][v].answer = "UNKNOWN", ![o][v].filled = 0,
                              ![o][v].fault = FALSE]
      /\ row' = row
  BY DEF Record
<1>2. ShotTyped
  BY TypeParts DEF AmountInv
<1>3. ASSUME NEW p \in Orders, NEW w \in Venues
      PROVE  shot'[p][w].state = shot[p][w].state /\ shot'[p][w].struck = shot[p][w].struck
  BY <1>1, <1>2 DEF ShotTyped, Shots
<1> QED BY <1>1, <1>3 DEF VenueMoves, VenueMove, GoesOn

LEMMA LedgerMove ==
  ASSUME AmountInv, NEW o \in Orders, NEW v \in Venues, LedgerMoves(o, v)
  PROVE  VenueMoves
<1>1. PICK s \in Rulings(o, v) : row' = [row EXCEPT ![o][v].status = s]
  BY DEF LedgerMoves
<1>2. RowTyped /\ shot' = shot
  BY TypeParts DEF AmountInv, LedgerMoves
<1>3. /\ row'[o][v] = [row[o][v] EXCEPT !.status = s]
      /\ \A p \in Orders, w \in Venues : p # o \/ w # v => row'[p][w] = row[p][w]
  BY <1>1, <1>2 DEF RowTyped
<1>4. VenueMove(o, v)
  BY <1>2, <1>3 DEF VenueMove, IsRuledOn
<1> QED BY <1>2, <1>3, <1>4, OneVenueMoves

LEMMA DispatchMove ==
  ASSUME AmountInv, NEW o \in Orders, Dispatch(o)
  PROVE  VenueMoves
<1>1. /\ Step(o, "reserved", "dispatched") /\ row' = row
      /\ shot' = [shot EXCEPT ![o] = [v \in Venues |->
           IF v \in Sendable(o) THEN [shot[o][v] EXCEPT !.state = "sent"] ELSE shot[o][v]]]
  BY DEF Dispatch
<1>2. ShotTyped /\ \A v \in Venues : v \in Sendable(o) => slice[o][v].status = "RESERVED"
  BY TypeParts DEF AmountInv, Sendable
<1>3. ASSUME NEW v \in Venues
      PROVE  VenueMove(o, v)
  <2>1. CASE v \in Sendable(o)
    <3>1. shot[o][v] \in Shots /\ shot'[o][v] = [shot[o][v] EXCEPT !.state = "sent"]
      BY <1>1, <1>2, <2>1 DEF ShotTyped
    <3>2. shot[o][v].state = "none"
      BY <1>2, <2>1 DEF AmountInv, RouterInv, SliceInv, Unsent
    <3> QED BY <1>1, <3>1, <3>2 DEF Shots, VenueMove, GoesOn
  <2>2. CASE v \notin Sendable(o)
    BY <1>1, <1>2, <2>2 DEF ShotTyped, VenueMove, GoesOn
  <2> QED BY <2>1, <2>2
<1>4. ASSUME NEW p \in Orders \ {o}, NEW v \in Venues
      PROVE  VenueMove(p, v)
  BY <1>1, <1>2 DEF ShotTyped, VenueMove, GoesOn
<1> QED BY <1>3, <1>4 DEF VenueMoves

LEMMA DieMove ==
  ASSUME AmountInv, NEW o \in Orders, Die(o)
  PROVE  VenueMoves
<1>1. PICK struck \in SUBSET {v \in Venues : shot[o][v].state = "sent"} :
       shot' = [shot EXCEPT ![o] = [v \in Venues |->
         IF shot[o][v].state = "none" THEN shot[o][v]
         ELSE [NotSent EXCEPT !.state = "over", !.answer = "UNKNOWN",
                              !.struck = shot[o][v].struck \/ v \in struck]]]
  BY DEF Die
<1>2. row' = row
  BY DEF Die
<1>3. shot \in [Orders -> [Venues -> Shots]]
  BY TypeParts DEF AmountInv, ShotTyped
<1> DEFINE new(v) == IF shot[o][v].state = "none" THEN shot[o][v]
         ELSE [NotSent EXCEPT !.state = "over", !.answer = "UNKNOWN",
                              !.struck = shot[o][v].struck \/ v \in struck]
<1>4. ASSUME NEW v \in Venues
      PROVE  /\ shot[o][v].state = "none" => new(v) = shot[o][v]
             /\ shot[o][v].state # "none" => new(v).state = "over"
             /\ shot[o][v].state = "over" => new(v).struck = shot[o][v].struck
  <2>1. PICK b \in BOOLEAN : b = (shot[o][v].struck \/ v \in struck)
    OBVIOUS
  <2>2. shot[o][v].state # "none" =>
          new(v) = [state |-> "over", answer |-> "UNKNOWN", filled |-> 0, fault |-> FALSE,
                    struck |-> b]
    BY <2>1 DEF NotSent
  <2>3. shot[o][v].state = "over" => b = shot[o][v].struck
    <3>1. shot[o][v].struck \in BOOLEAN
      BY <1>3 DEF Shots
    <3>2. shot[o][v].state = "over" => v \notin struck
      OBVIOUS
    <3> QED BY <2>1, <3>1, <3>2
  <2>4. shot[o][v].state = "none" => new(v) = shot[o][v]
    OBVIOUS
  <2> HIDE DEF new
  <2> QED BY <2>2, <2>3, <2>4
<1>5. shot' = [shot EXCEPT ![o] = [v \in Venues |-> new(v)]]
  BY <1>1
<1> HIDE DEF new
<1>6. /\ \A v \in Venues : shot'[o][v] = new(v)
      /\ \A p \in Orders \ {o} : shot'[p] = shot[p]
  BY <1>3, <1>5
<1>7. ASSUME NEW v \in Venues
      PROVE  VenueMove(o, v)
  <2>1. shot[o][v].state \in {"none", "sent", "over"}
    BY <1>3 DEF Shots
  <2>2. CASE shot[o][v].state = "sent"
    BY <1>2, <1>4, <1>6, <2>2 DEF VenueMove, ComesToAnEnd
  <2>3. CASE shot[o][v].state # "sent"
    BY <1>2, <1>4, <1>6, <2>1, <2>3 DEF VenueMove, GoesOn
  <2> QED BY <2>2, <2>3
<1>8. ASSUME NEW p \in Orders \ {o}, NEW v \in Venues
      PROVE  VenueMove(p, v)
  BY <1>2, <1>6 DEF VenueMove, GoesOn
<1> QED BY <1>7, <1>8 DEF VenueMoves

LEMMA VenueSteps ==
  ASSUME AmountInv, [Next]_vars
  PROVE  VenueMoves
<1>1. CASE UNCHANGED vars
  BY <1>1, VenuesWait DEF vars, venueside
<1>2. ASSUME NEW o \in Orders, Route(o) \/ Die(o) \/ RoutingAbandoned(o)
      PROVE  VenueMoves
  BY <1>2, VenuesWait, DispatchMove, DieMove
     DEF Route, Claim, Reserve, Refuse, Abort, Apply, RoutingAbandoned, venueside
<1>3. ASSUME NEW o \in Orders, NEW v \in Venues,
             Execute(o, v) \/ Breakers(o, v) \/ ReleaseFinished(o, v) \/ LedgerMoves(o, v)
      PROVE  VenueMoves
  BY <1>3, VenuesWait, ExecuteMove, RecordMove, LedgerMove
     DEF Breakers, OnTrip, ReleaseFinished, venueside
<1>4. ASSUME NEW a \in Agents, FinishWrite(a) \/ \E o \in Orders : FinishRead(a, o)
      PROVE  VenueMoves
  BY <1>4, VenuesWait DEF FinishWrite, FinishRead, venueside
<1>5. ASSUME NEW s \in Sweepers, Sweep(s)
      PROVE  VenueMoves
  BY <1>5, VenuesWait DEF Sweep, SweepRead, SweepConfirm, SweepStops, venueside
<1>6. CASE HoldExpired
  BY <1>6, VenuesWait DEF HoldExpired, venueside
<1>7. ASSUME NEW v \in Venues, PauseEnds(v) \/ Reset(v)
      PROVE  VenueMoves
  BY <1>7, VenuesWait DEF PauseEnds, Reset
<1>8. ASSUME NEW p \in Operators,
             OperatorReleases(p) \/ \E o \in Orders, v \in Venues : OperatorLooks(p, o, v)
      PROVE  VenueMoves
  BY <1>8, VenuesWait DEF OperatorReleases, OperatorLooks, venueside
<1> QED BY <1>1, <1>2, <1>3, <1>4, <1>5, <1>6, <1>7, <1>8 DEF Next

LEMMA StrikesStart == Init => Strikes
BY DEF Init, Strikes, NotSent, NoRow

LEMMA StrikesStay ==
  ASSUME AmountInv, AmountInv', Strikes, VenueMoves
  PROVE  Strikes'
<1>1. ASSUME NEW o \in Orders, NEW v \in Venues
      PROVE  /\ shot'[o][v].state # "over" => ~shot'[o][v].struck
             /\ row'[o][v].status = "REJECTED" => ~shot'[o][v].struck
  <2>0. /\ shot[o][v].state # "over" => ~shot[o][v].struck
        /\ row[o][v].status = "REJECTED" => ~shot[o][v].struck
        /\ shot[o][v].state = "sent" => row[o][v].status = "NONE"
        /\ row[o][v] \in LedgerRows
    BY AmountsOf DEF Strikes, AmountInv, SliceAmounts
  <2>1. CASE GoesOn(o, v)
    BY <2>0, <2>1 DEF GoesOn
  <2>2. CASE ComesToAnEnd(o, v)
    BY <2>0, <2>2 DEF ComesToAnEnd, LeavesRow, Contract!Leavings
  <2>3. CASE IsRuledOn(o, v)
    <3>1. PICK s \in Rulings(o, v) : row'[o][v] = [row[o][v] EXCEPT !.status = s]
      BY <2>3 DEF IsRuledOn
    <3>2. row'[o][v].status = s
      BY <2>0, <3>1 DEF LedgerRows
    <3>3. s = "REJECTED" => ~shot[o][v].struck
      BY DEF Rulings, Contract!NextStatuses, Contract!Rulings
    <3> QED BY <2>0, <2>3, <3>2, <3>3 DEF IsRuledOn
  <2> QED BY <2>1, <2>2, <2>3 DEF VenueMoves, VenueMove
<1> QED BY <1>1 DEF Strikes

\* A slice's stake, once it has one.
LEMMA StakeStays ==
  ASSUME AmountInv, StepFacts, NEW o \in Orders, NEW v \in Venues
  PROVE  slice'[o][v].stake = slice[o][v].stake \/ slice[o][v].stake = 0
<1>1. slice[o][v] \in SliceRows
  BY AmountsOf DEF AmountInv
<1>2. CASE GetsPlan(o)
  BY <1>2 DEF GetsPlan, GetsSlice, NoSlice
<1>3. CASE Change(o, v)
  BY <1>1, <1>3 DEF Change, Untouched, LetGo, GoesOut, EndsWithoutRow, EndsWithRow, Unheard,
     TakesAnswer, FoundInLedger, GivenBack, Ruled, With, Became, Heard, SliceRows
<1> QED BY <1>2, <1>3 DEF StepFacts, OrderChange

LEMMA ContractStarts == Init => Contract!Init
BY DEF Init, Contract!Init, Contract!NoRow, NoRow, NotSent, Slices

LEMMA ContractSteps ==
  AmountInv /\ Strikes /\ [Next]_vars => [Contract!Next]_(Contract!vars)
<1> SUFFICES ASSUME AmountInv, Strikes, [Next]_vars
             PROVE  Contract!Next
  BY DEF Contract!Next
<1> DEFINE led == [p \in Slices |-> row[p[1]][p[2]]]
           asked == [p \in Slices |-> slice[p[1]][p[2]].stake]
           open == {p \in Slices : shot[p[1]][p[2]].state # "over"}
           struck == {p \in Slices : shot[p[1]][p[2]].struck}
<1>0. AmountInv' /\ StepFacts /\ VenueMoves /\ Strikes'
  BY AmountSteps, EveryStep, VenueSteps, StrikesStay
<1>1. ASSUME NEW k \in Slices
      PROVE  \E o \in Orders, v \in Venues : k = <<o, v>> /\ k[1] = o /\ k[2] = v
  BY DEF Slices
<1>2. open' \subseteq open
  <2>1. ASSUME NEW o \in Orders, NEW v \in Venues, shot[o][v].state = "over"
        PROVE  shot'[o][v].state = "over"
    BY <1>0, <2>1 DEF VenueMoves, VenueMove, GoesOn, ComesToAnEnd, IsRuledOn
  <2> QED BY <1>1, <2>1
<1>3. struck \subseteq struck'
  <2>1. ASSUME NEW o \in Orders, NEW v \in Venues, shot[o][v].struck
        PROVE  shot'[o][v].struck
    BY <1>0, <2>1 DEF Strikes, VenueMoves, VenueMove, GoesOn, ComesToAnEnd, IsRuledOn
  <2> QED BY <1>1, <2>1
<1>4. ASSUME NEW k \in Slices
      PROVE  asked'[k] = asked[k] \/ asked[k] = 0
  BY <1>0, <1>1, StakeStays
<1>5. ASSUME NEW k \in Slices, led'[k].status = "REJECTED"
      PROVE  k \notin struck'
  BY <1>0, <1>1, <1>5 DEF Strikes
<1>6. ASSUME NEW k \in Slices
      PROVE  led'[k] = led[k] \/ Contract!Leave(k) \/ Contract!Rule(k)
  <2>1. PICK o \in Orders, v \in Venues : k = <<o, v>> /\ k[1] = o /\ k[2] = v
    BY <1>1
  <2>2. /\ led[k] = row[o][v] /\ led'[k] = row'[o][v]
        /\ asked[k] = slice[o][v].stake
        /\ k \in open <=> shot[o][v].state # "over"
        /\ k \in struck <=> shot[o][v].struck
        /\ k \in struck' <=> shot'[o][v].struck
    BY <2>1
  <2>3. CASE GoesOn(o, v)
    BY <2>2, <2>3 DEF GoesOn
  <2>4. CASE ComesToAnEnd(o, v)
    <3>1. row[o][v].status = "NONE"
      BY <2>4 DEF ComesToAnEnd, AmountInv, SliceAmounts
    <3> QED BY <2>2, <2>4, <3>1 DEF ComesToAnEnd, LeavesRow, Contract!Leave
  <2>5. CASE IsRuledOn(o, v)
    <3>1. (k \in struck') = shot[o][v].struck
      <4>1. shot'[o][v].struck = shot[o][v].struck /\ shot[o][v].struck \in BOOLEAN
        BY <2>5, AmountsOf DEF IsRuledOn, AmountInv, Shots
      <4> QED BY <2>2, <4>1
    <3>2. PICK s \in Rulings(o, v) : row'[o][v] = [row[o][v] EXCEPT !.status = s]
      BY <2>5 DEF IsRuledOn
    <3>3. s \in Contract!NextStatuses(led[k].status, k \in struck')
      BY <2>2, <3>1, <3>2 DEF Rulings
    <3> QED BY <2>2, <3>2, <3>3 DEF Contract!Rule
  <2> QED BY <1>0, <2>3, <2>4, <2>5 DEF VenueMoves, VenueMove
<1> QED BY <1>2, <1>3, <1>4, <1>5, <1>6 DEF Contract!Next

\* What the router's world does to its slices is what the executor promises
\* its callers, and what CfoEscrowProofs proves that it keeps: whatever the
\* router tells no bet, a lost answer or a settled row apart by can happen
\* (services/execution_dispatcher.py, services/cfo_executor.py).
THEOREM VenueSideIsContract == Spec => VenuesKeepContract
<1>1. AmountInv /\ Strikes /\ [Next]_vars => Strikes'
  BY AmountSteps, VenueSteps, StrikesStay
<1>2. Spec => [](AmountInv /\ Strikes)
  BY <1>1, AmountStarts, AmountSteps, StrikesStart, PTL DEF Spec
<1> QED
  BY <1>2, ContractStarts, ContractSteps, PTL DEF Spec, VenuesKeepContract, Contract!Spec
=============================================================================
