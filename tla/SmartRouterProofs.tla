-------------------------- MODULE SmartRouterProofs --------------------------
(***************************************************************************)
(* Theorems about SmartRouter, for every set of orders, venues, sweepers   *)
(* and operators.  The invariant says of each slice which statuses go with *)
(* a shot, a ledger row and a hold, of each order which statuses go with   *)
(* where its process is, and of each agent what its reading of an order    *)
(* may have missed.  Amounts play no part: the plan is any function.       *)
(***************************************************************************)
EXTENDS SmartRouter, TLAPS

\* The tables have a row for everything they are asked about.
Shaped ==
  /\ DOMAIN order = Orders /\ DOMAIN slice = Orders /\ DOMAIN hold = Orders
  /\ DOMAIN shot = Orders /\ DOMAIN row = Orders /\ DOMAIN pc = Orders
  /\ DOMAIN agenda = Agents /\ DOMAIN seen = Agents
  /\ DOMAIN found = Sweepers /\ DOMAIN target = Operators
  /\ \A o \in Orders :
       /\ DOMAIN slice[o] = Venues /\ DOMAIN hold[o] = Venues
       /\ DOMAIN shot[o] = Venues /\ DOMAIN row[o] = Venues
       /\ "status" \in DOMAIN order[o]
       /\ \A v \in Venues :
            /\ "status" \in DOMAIN slice[o][v]
            /\ {"state", "answer"} \subseteq DOMAIN shot[o][v]

Unsent == {"NONE", "RESERVED", "RELEASED"}

\* A slice that was not sent has no bet, one that is over has no hold, and
\* nothing is planned before the order's process has reserved.
SliceInv(o, v) ==
  /\ slice[o][v].status \in SliceStatuses
  /\ shot[o][v].state \in {"none", "sent", "over"}
  /\ shot[o][v].answer \in Answers
  /\ slice[o][v].status \in Unsent => shot[o][v].state = "none"
  /\ row[o][v] # NoRow => shot[o][v].state # "none"
  /\ slice[o][v].status \in {"NONE", "RELEASED"} => hold[o][v] = 0
  /\ pc[o] \in {"new", "claimed"} => slice[o][v] = NoSlice

Sent == Unfinished \cup TerminalStatuses
Ends == {"UNCONFIRMED", "FILLED", "PARTIAL", "REJECTED"}

\* Where an order is while its process is somewhere.
OrderInv(o) ==
  /\ order[o].status \in OrderStatuses
  /\ pc[o] \in {"new", "claimed", "reserved", "dispatched", "applied", "done", "dead"}
  /\ pc[o] = "new" => order[o].status = "NONE"
  /\ pc[o] = "claimed" => order[o].status \in {"ROUTING", "REJECTED", "ABORTED"}
  /\ pc[o] = "reserved" => order[o].status \in {"RESERVED", "ABORTED"}
  /\ pc[o] \in {"dispatched", "applied"} => order[o].status \in Sent
  /\ pc[o] = "done" => order[o].status \in TerminalStatuses \cup {"UNCONFIRMED"}

\* What an agent has read of an order is where it is or where it was.
AgentInv(a) ==
  /\ agenda[a] \subseteq Orders
  /\ a \in Orders /\ agenda[a] # {} => agenda[a] = {a} /\ pc[a] = "applied"
  /\ seen[a] # Nothing =>
       /\ seen[a].order \in agenda[a]
       /\ seen[a].read \in Unfinished
       /\ seen[a].next \in Ends
       /\ order[seen[a].order].status \in Sent
       /\ seen[a].read = "UNCONFIRMED" => order[seen[a].order].status # "DISPATCHING"

HelperInv ==
  /\ \A s \in Sweepers : \A f \in found[s] : f.order \in Orders /\ f.venue \in Venues
  /\ \A p \in Operators :
       target[p] # <<>> => target[p] \in Orders \X Venues /\ agenda[p] = {}

RouterInv ==
  /\ Shaped
  /\ \A o \in Orders, v \in Venues : SliceInv(o, v)
  /\ \A o \in Orders : OrderInv(o)
  /\ \A a \in Agents : AgentInv(a)
  /\ HelperInv

----------------------------------------------------------------------------
(***************************************************************************)
(* What a step may do to a status                                          *)
(***************************************************************************)
OrderMove(o) ==
  \/ order'[o] = order[o]
  \/ order[o].status = "NONE" /\ order'[o].status = "ROUTING"
  \/ order[o].status = "ROUTING" /\ order'[o].status \in {"RESERVED", "REJECTED", "ABORTED"}
  \/ order[o].status = "RESERVED" /\ order'[o].status \in {"DISPATCHING", "ABORTED"}
  \/ order[o].status \in Unfinished /\ order'[o].status \in Ends

SliceMove(o, v) ==
  \/ slice'[o][v] = slice[o][v]
  \/ slice[o][v].status = "NONE" /\ slice'[o][v].status = "RESERVED"
  \/ slice[o][v].status = "RESERVED" /\ slice'[o][v].status \in {"RELEASED", "DISPATCHED"}
  \/ slice[o][v].status = "DISPATCHED" /\ slice'[o][v].status \in {"UNKNOWN", "FILLED", "PARTIAL", "REJECTED"}
  \/ slice[o][v].status = "UNKNOWN" /\ slice'[o][v].status \in FilledStatuses

Moves ==
  \A o \in Orders : OrderMove(o) /\ \A v \in Venues : SliceMove(o, v)

\* The step formula of StatusesMoveForward.
Forward ==
  \A o \in Orders :
       /\ \/ OrderRank[order[o].status] < OrderRank[order'[o].status]
          \/ order[o].status = order'[o].status
       /\ OrderRank[order[o].status] = 5 => order'[o] = order[o]
       /\ \A v \in Venues :
            \/ SliceRank[slice[o][v].status] < SliceRank[slice'[o][v].status]
            \/ slice'[o][v] = slice[o][v]

LEMMA MovesGoForward ==
  ASSUME Moves
  PROVE  Forward
<1>1. ASSUME NEW o \in Orders
      PROVE  /\ \/ OrderRank[order[o].status] < OrderRank[order'[o].status]
                \/ order[o].status = order'[o].status
             /\ OrderRank[order[o].status] = 5 => order'[o] = order[o]
  BY DEF Moves, OrderMove, OrderRank, Unfinished, Ends
<1>2. ASSUME NEW o \in Orders, NEW v \in Venues
      PROVE  \/ SliceRank[slice[o][v].status] < SliceRank[slice'[o][v].status]
             \/ slice'[o][v] = slice[o][v]
  BY DEF Moves, SliceMove, SliceRank, FilledStatuses
<1> QED
  BY <1>1, <1>2 DEF Forward
----------------------------------------------------------------------------
(***************************************************************************)
(* Parts of the invariant that most steps leave alone                      *)
(***************************************************************************)
LEMMA GiveBackHolds ==
  ASSUME NEW h, GiveBack(h)
  PROVE  hold' = h
BY DEF GiveBack

LEMMA AgentsApart ==
  /\ Agents = Orders \cup Sweepers \cup Operators
  /\ Orders \cap Sweepers = {} /\ Orders \cap Operators = {}
  /\ Sweepers \cap Operators = {}
BY RouterAssumption DEF Agents

\* An order may move on under what somebody has read of it.
LEMMA AgentKept ==
  ASSUME RouterInv, NEW a \in Agents,
         \A o \in Orders : OrderMove(o),
         agenda'[a] = agenda[a], seen'[a] = seen[a],
         a \in Orders /\ pc[a] = "applied" => pc'[a] = "applied"
  PROVE  AgentInv(a)'
<1>1. AgentInv(a)
  BY DEF RouterInv
<1>2. agenda[a] \subseteq Orders
  BY <1>1 DEF AgentInv
<1>3. a \in Orders /\ agenda[a] # {} => pc'[a] = "applied"
  BY <1>1 DEF AgentInv
<1>4. ASSUME seen[a] # Nothing
      PROVE  /\ order'[seen[a].order].status \in Sent
             /\ seen[a].read = "UNCONFIRMED" => order'[seen[a].order].status # "DISPATCHING"
  <2>1. seen[a].order \in Orders
    BY <1>1, <1>2, <1>4 DEF AgentInv
  <2> QED
    BY <1>1, <1>4, <2>1 DEF AgentInv, OrderMove, Sent, Ends, Unfinished, TerminalStatuses
<1> QED
  BY <1>1, <1>2, <1>3, <1>4 DEF AgentInv

LEMMA AgentsKept ==
  ASSUME RouterInv,
         \A o \in Orders : OrderMove(o),
         UNCHANGED <<agenda, seen>>,
         \A o \in Orders : pc[o] = "applied" => pc'[o] = "applied"
  PROVE  \A a \in Agents : AgentInv(a)'
BY AgentKept

LEMMA HelpersKept ==
  ASSUME RouterInv, UNCHANGED <<agenda, helpers>>
  PROVE  HelperInv'
BY DEF RouterInv, HelperInv, helpers

\* Slices of orders whose rows, shots and holds a step does not change.
LEMMA SliceKept ==
  ASSUME RouterInv, NEW o \in Orders, NEW v \in Venues,
         slice'[o][v] = slice[o][v], shot'[o][v] = shot[o][v],
         row'[o][v] = row[o][v],
         hold'[o][v] = hold[o][v] \/ hold'[o][v] = 0,
         pc'[o] = pc[o] \/ pc'[o] \notin {"new", "claimed"} \/ pc[o] = "new"
  PROVE  SliceInv(o, v)'
BY DEF RouterInv, SliceInv

LEMMA OrderKept ==
  ASSUME RouterInv, NEW o \in Orders, pc'[o] = pc[o], order'[o] = order[o]
  PROVE  OrderInv(o)'
BY DEF RouterInv, OrderInv

\* What release_slices does to one slice.
LEMMA ReleasedSlice ==
  ASSUME RouterInv, NEW S, NEW o \in Orders, NEW v \in Venues
  PROVE  /\ <<o, v>> \in Releasable(S) =>
              /\ slice[o][v].status = "RESERVED"
              /\ Released(S)[o][v].status = "RELEASED"
              /\ "status" \in DOMAIN Released(S)[o][v]
         /\ <<o, v>> \notin Releasable(S) => Released(S)[o][v] = slice[o][v]
BY DEF RouterInv, Shaped, Released, Releasable

----------------------------------------------------------------------------
(***************************************************************************)
(* One lemma per action                                                    *)
(***************************************************************************)
LEMMA ClaimStep ==
  ASSUME RouterInv, NEW o \in Orders, Claim(o)
  PROVE  RouterInv' /\ Moves
<1>1. /\ order[o].status = "NONE" /\ order'[o].status = "ROUTING"
      /\ \A p \in Orders \ {o} : order'[p] = order[p]
      /\ pc[o] = "new" /\ pc'[o] = "claimed"
      /\ \A p \in Orders \ {o} : pc'[p] = pc[p]
      /\ UNCHANGED <<slice, hold, shot, row, agenda, seen, found, target>>
  BY DEF Claim, Step, RouterInv, Shaped, OrderInv, venueside, helpers
<1>2. Shaped'
  BY <1>1 DEF Claim, Step, RouterInv, Shaped
<1>3. Moves
  BY <1>1 DEF Moves, OrderMove, SliceMove
<1>4. ASSUME NEW p \in Orders, NEW v \in Venues PROVE SliceInv(p, v)'
  BY <1>1, <1>4, SliceKept
<1>5. ASSUME NEW p \in Orders PROVE OrderInv(p)'
  <2>1. CASE p = o
    BY <1>1, <2>1 DEF OrderInv, OrderStatuses
  <2>2. CASE p # o
    BY <1>1, <2>2, OrderKept
  <2> QED
    BY <2>1, <2>2
<1>6. \A a \in Agents : AgentInv(a)'
  BY <1>1, <1>3, AgentsKept DEF Moves
<1>7. HelperInv'
  BY <1>1, HelpersKept DEF helpers
<1> QED
  BY <1>2, <1>3, <1>4, <1>5, <1>6, <1>7 DEF RouterInv

LEMMA ReserveStep ==
  ASSUME RouterInv, NEW o \in Orders, Reserve(o)
  PROVE  RouterInv' /\ Moves
<1>1. PICK quoted \in SUBSET Venues :
        LET plan == Plan(Fleet(quoted), Desired[o])
            stake(v) == IF v \in DOMAIN plan THEN plan[v] ELSE 0
        IN /\ slice' = [slice EXCEPT ![o] = [v \in Venues |->
               IF v \in DOMAIN plan
               THEN [status |-> "RESERVED", stake |-> plan[v], filled |-> 0]
               ELSE NoSlice]]
           /\ hold' = [hold EXCEPT ![o] = [v \in Venues |-> stake(v)]]
  BY DEF Reserve
<1> DEFINE plan == Plan(Fleet(quoted), Desired[o])
<1>2. /\ slice' = [slice EXCEPT ![o] = [v \in Venues |->
           IF v \in DOMAIN plan
           THEN [status |-> "RESERVED", stake |-> plan[v], filled |-> 0]
           ELSE NoSlice]]
      /\ hold' = [hold EXCEPT ![o] = [v \in Venues |->
           IF v \in DOMAIN plan THEN plan[v] ELSE 0]]
  BY <1>1
<1> HIDE DEF plan
<1>3. /\ order[o].status = "ROUTING" /\ order'[o].status = "RESERVED"
      /\ pc[o] = "claimed" /\ pc'[o] = "reserved"
      /\ \A p \in Orders \ {o} : order'[p] = order[p] /\ pc'[p] = pc[p]
      /\ UNCHANGED <<shot, row, agenda, seen, found, target>>
  BY DEF Reserve, Step, RouterInv, Shaped, venueside, helpers
<1>4. \A p \in Orders \ {o} : slice'[p] = slice[p] /\ hold'[p] = hold[p]
  BY <1>2 DEF RouterInv, Shaped
<1>5. \A v \in Venues :
        \/ slice'[o][v] = NoSlice /\ hold'[o][v] = 0
        \/ slice'[o][v].status = "RESERVED" /\ "status" \in DOMAIN slice'[o][v]
  BY <1>2 DEF RouterInv, Shaped
<1>6. \A v \in Venues : slice[o][v] = NoSlice /\ SliceInv(o, v)
  BY <1>3 DEF RouterInv, SliceInv
<1>7. Shaped'
  <2>1. DOMAIN slice' = Orders /\ DOMAIN hold' = Orders /\ DOMAIN order' = Orders /\ DOMAIN pc' = Orders
    BY <1>2 DEF RouterInv, Shaped, Reserve, Step
  <2>2. DOMAIN slice'[o] = Venues /\ DOMAIN hold'[o] = Venues
    BY <1>2 DEF RouterInv, Shaped
  <2>3. \A p \in Orders : "status" \in DOMAIN order'[p]
    BY DEF RouterInv, Shaped, Reserve
  <2>4. \A v \in Venues : "status" \in DOMAIN slice'[o][v]
    BY <1>5 DEF NoSlice
  <2> QED
    BY <1>3, <1>4, <2>1, <2>2, <2>3, <2>4 DEF RouterInv, Shaped
<1>8. Moves
  BY <1>3, <1>4, <1>5, <1>6 DEF Moves, OrderMove, SliceMove, NoSlice
<1>9. ASSUME NEW p \in Orders, NEW v \in Venues PROVE SliceInv(p, v)'
  <2>1. CASE p = o
    BY <1>3, <1>5, <1>6, <2>1 DEF SliceInv, SliceStatuses, NoSlice, Unsent
  <2>2. CASE p # o
    BY <1>3, <1>4, <2>2, SliceKept
  <2> QED
    BY <2>1, <2>2
<1>10. ASSUME NEW p \in Orders PROVE OrderInv(p)'
  <2>1. CASE p = o
    BY <1>3, <2>1 DEF OrderInv, OrderStatuses
  <2>2. CASE p # o
    BY <1>3, <2>2, OrderKept
  <2> QED
    BY <2>1, <2>2
<1>11. \A a \in Agents : AgentInv(a)'
  BY <1>3, <1>8, AgentsKept DEF Moves
<1>12. HelperInv'
  BY <1>3, HelpersKept DEF helpers
<1> QED
  BY <1>7, <1>8, <1>9, <1>10, <1>11, <1>12 DEF RouterInv

LEMMA RefuseStep ==
  ASSUME RouterInv, NEW o \in Orders, Refuse(o)
  PROVE  RouterInv' /\ Moves
<1>1. /\ \/ order[o].status = "ROUTING" /\ order'[o].status = "REJECTED"
         \/ order[o].status # "ROUTING" /\ order'[o] = order[o]
      /\ pc[o] = "claimed" /\ pc'[o] = "done"
      /\ \A p \in Orders \ {o} : order'[p] = order[p] /\ pc'[p] = pc[p]
      /\ UNCHANGED <<slice, hold, shot, row, agenda, seen, found, target>>
  BY DEF Refuse, Step, CasOrder, RouterInv, Shaped, venueside, helpers
<1>2. Shaped'
  BY <1>1 DEF Refuse, Step, CasOrder, RouterInv, Shaped
<1>3. Moves
  BY <1>1 DEF Moves, OrderMove, SliceMove
<1>4. ASSUME NEW p \in Orders, NEW v \in Venues PROVE SliceInv(p, v)'
  BY <1>1, <1>4, SliceKept
<1>5. ASSUME NEW p \in Orders PROVE OrderInv(p)'
  <2>1. CASE p = o
    BY <1>1, <2>1 DEF OrderInv, OrderStatuses, RouterInv, TerminalStatuses
  <2>2. CASE p # o
    BY <1>1, <2>2, OrderKept
  <2> QED
    BY <2>1, <2>2
<1>6. \A a \in Agents : AgentInv(a)'
  BY <1>1, <1>3, AgentsKept DEF Moves
<1>7. HelperInv'
  BY <1>1, HelpersKept DEF helpers
<1> QED
  BY <1>2, <1>3, <1>4, <1>5, <1>6, <1>7 DEF RouterInv

\* A slice that release_slices may have released.
ReleaseMove(o, v) ==
  \/ slice'[o][v] = slice[o][v] /\ hold'[o][v] = hold[o][v]
  \/ /\ slice[o][v].status = "RESERVED" /\ slice'[o][v].status = "RELEASED"
     /\ hold'[o][v] = 0

SlicesShaped ==
  /\ DOMAIN slice' = Orders /\ DOMAIN hold' = Orders
  /\ \A o \in Orders :
       /\ DOMAIN slice'[o] = Venues /\ DOMAIN hold'[o] = Venues
       /\ \A v \in Venues : "status" \in DOMAIN slice'[o][v]

LEMMA ReleaseSlices ==
  ASSUME RouterInv, NEW X, NEW S, S = Releasable(X),
         slice' = Released(S),
         \/ hold' = HoldsWithout(S)
         \/ hold' = hold /\ \A p \in S : hold[p[1]][p[2]] = 0
  PROVE  /\ \A o \in Orders, v \in Venues : ReleaseMove(o, v)
         /\ SlicesShaped
<1>1. S = Releasable(S)
  BY DEF Releasable
<1>2. ASSUME NEW o \in Orders, NEW v \in Venues PROVE ReleaseMove(o, v)
  <2>1. CASE <<o, v>> \in S
    <3>1. hold'[o][v] = 0
      BY <2>1 DEF HoldsWithout
    <3> QED
      BY <1>1, <2>1, <3>1, ReleasedSlice DEF ReleaseMove
  <2>2. CASE <<o, v>> \notin S
    <3>1. hold'[o][v] = hold[o][v]
      BY <2>2 DEF HoldsWithout
    <3> QED
      BY <1>1, <2>2, <3>1, ReleasedSlice DEF ReleaseMove
  <2> QED
    BY <2>1, <2>2
<1>3. SlicesShaped
  <2>1. DOMAIN slice' = Orders /\ \A o \in Orders : DOMAIN slice'[o] = Venues
    BY DEF Released
  <2>2. DOMAIN hold' = Orders /\ \A o \in Orders : DOMAIN hold'[o] = Venues
    BY DEF HoldsWithout, RouterInv, Shaped
  <2>3. ASSUME NEW o \in Orders, NEW v \in Venues PROVE "status" \in DOMAIN slice'[o][v]
    BY ReleasedSlice DEF RouterInv, Shaped
  <2> QED
    BY <2>1, <2>2, <2>3 DEF SlicesShaped
<1> QED
  BY <1>2, <1>3

LEMMA ReleaseKeeps ==
  ASSUME RouterInv, NEW o \in Orders, NEW v \in Venues, ReleaseMove(o, v),
         shot'[o][v] = shot[o][v], row'[o][v] = row[o][v],
         pc'[o] = pc[o] \/ pc'[o] \notin {"new", "claimed"}
  PROVE  SliceInv(o, v)' /\ SliceMove(o, v)
BY DEF RouterInv, SliceInv, ReleaseMove, SliceMove, NoSlice, SliceStatuses, Unsent

LEMMA AbortStep ==
  ASSUME RouterInv, NEW o \in Orders, Abort(o)
  PROVE  RouterInv' /\ Moves
<1> DEFINE S == Releasable({o} \X Venues)
<1>1. /\ \/ order[o].status = "RESERVED" /\ order'[o].status = "ABORTED"
         \/ order[o].status # "RESERVED" /\ order'[o] = order[o]
      /\ pc[o] = "reserved" /\ pc'[o] = "done"
      /\ \A p \in Orders \ {o} : order'[p] = order[p] /\ pc'[p] = pc[p]
      /\ UNCHANGED <<shot, row, agenda, seen, found, target>>
  BY DEF Abort, Step, CasOrder, RouterInv, Shaped, venueside, helpers
<1>2. slice' = Released(S) /\ hold' = HoldsWithout(S)
  BY GiveBackHolds DEF Abort
<1>3. /\ \A p \in Orders, v \in Venues : ReleaseMove(p, v)
      /\ SlicesShaped
  BY <1>2, ReleaseSlices
<1>4. Shaped'
  <2>1. DOMAIN order' = Orders /\ DOMAIN pc' = Orders
    BY DEF Abort, Step, CasOrder, RouterInv, Shaped
  <2>2. \A p \in Orders : "status" \in DOMAIN order'[p]
    BY DEF Abort, CasOrder, RouterInv, Shaped
  <2> QED
    BY <1>1, <1>3, <2>1, <2>2 DEF RouterInv, Shaped, SlicesShaped
<1>5. ASSUME NEW p \in Orders, NEW v \in Venues
      PROVE  SliceInv(p, v)' /\ SliceMove(p, v)
  BY <1>1, <1>3, ReleaseKeeps
<1>6. Moves
  BY <1>1, <1>5 DEF Moves, OrderMove
<1>7. ASSUME NEW p \in Orders PROVE OrderInv(p)'
  <2>1. CASE p = o
    BY <1>1, <2>1 DEF OrderInv, OrderStatuses, RouterInv, TerminalStatuses
  <2>2. CASE p # o
    BY <1>1, <2>2, OrderKept
  <2> QED
    BY <2>1, <2>2
<1>8. \A a \in Agents : AgentInv(a)'
  BY <1>1, <1>6, AgentsKept DEF Moves
<1>9. HelperInv'
  BY <1>1, HelpersKept DEF helpers
<1> QED
  BY <1>4, <1>5, <1>6, <1>7, <1>8, <1>9 DEF RouterInv

LEMMA OnTripStep ==
  ASSUME RouterInv, NEW o \in Orders, NEW w \in Venues, OnTrip(o, w)
  PROVE  RouterInv' /\ Moves
<1> DEFINE S == Releasable(Orders \X {w})
<1>1. UNCHANGED <<order, shot, row, pc, agenda, seen, found, target>>
  BY DEF OnTrip, venueside, helpers
<1>2. slice' = Released(S) /\ hold' = HoldsWithout(S)
  BY GiveBackHolds DEF OnTrip
<1>3. /\ \A p \in Orders, v \in Venues : ReleaseMove(p, v)
      /\ SlicesShaped
  BY <1>2, ReleaseSlices
<1>4. Shaped'
  BY <1>1, <1>3 DEF RouterInv, Shaped, SlicesShaped
<1>5. ASSUME NEW p \in Orders, NEW v \in Venues
      PROVE  SliceInv(p, v)' /\ SliceMove(p, v)
  BY <1>1, <1>3, ReleaseKeeps
<1>6. Moves
  BY <1>1, <1>5 DEF Moves, OrderMove
<1>7. \A p \in Orders : OrderInv(p)'
  BY <1>1, OrderKept
<1>8. \A a \in Agents : AgentInv(a)'
  BY <1>1, <1>6, AgentsKept DEF Moves
<1>9. HelperInv'
  BY <1>1, HelpersKept DEF helpers
<1> QED
  BY <1>4, <1>5, <1>6, <1>7, <1>8, <1>9 DEF RouterInv

\* A step that touches shots, rows and holds, and no status.
ShotsKept ==
  /\ DOMAIN shot' = Orders
  /\ \A o \in Orders :
       /\ DOMAIN shot'[o] = Venues
       /\ \A v \in Venues :
            /\ {"state", "answer"} \subseteq DOMAIN shot'[o][v]
            /\ shot'[o][v].state \in {"none", "sent", "over"}
            /\ shot'[o][v].answer \in Answers
            /\ shot'[o][v].state = "none" <=> shot[o][v].state = "none"

RowsKept ==
  /\ DOMAIN row' = Orders
  /\ \A o \in Orders :
       /\ DOMAIN row'[o] = Venues
       /\ \A v \in Venues :
            row'[o][v] # NoRow => row[o][v] # NoRow \/ shot[o][v].state # "none"

HoldsKept ==
  /\ DOMAIN hold' = Orders
  /\ \A o \in Orders :
       /\ DOMAIN hold'[o] = Venues
       /\ \A v \in Venues : hold'[o][v] = hold[o][v] \/ hold'[o][v] = 0

LEMMA NothingMoved ==
  ASSUME RouterInv
  PROVE  /\ shot' = shot => ShotsKept
         /\ row' = row => RowsKept
         /\ hold' = hold => HoldsKept
BY DEF RouterInv, Shaped, SliceInv, ShotsKept, RowsKept, HoldsKept

LEMMA HoldReleased ==
  ASSUME RouterInv, NEW S, hold' = HoldsWithout(S)
  PROVE  HoldsKept
BY DEF HoldsWithout, HoldsKept

LEMMA VenueSideStep ==
  ASSUME RouterInv, ShotsKept, RowsKept, HoldsKept,
         UNCHANGED <<order, slice, pc, agenda, seen, found, target>>
  PROVE  RouterInv' /\ Moves
<1>1. Shaped'
  BY DEF RouterInv, Shaped, ShotsKept, RowsKept, HoldsKept
<1>2. ASSUME NEW o \in Orders, NEW v \in Venues PROVE SliceInv(o, v)'
  BY DEF RouterInv, SliceInv, ShotsKept, RowsKept, HoldsKept
<1>3. Moves
  BY DEF Moves, OrderMove, SliceMove
<1>4. \A o \in Orders : OrderInv(o)'
  BY OrderKept
<1>5. \A a \in Agents : AgentInv(a)'
  BY <1>3, AgentsKept DEF Moves
<1>6. HelperInv'
  BY HelpersKept DEF helpers
<1> QED
  BY <1>1, <1>2, <1>3, <1>4, <1>5, <1>6 DEF RouterInv

LEMMA AnswerKeeps ==
  ASSUME RouterInv, NEW o \in Orders, NEW v \in Venues,
         NEW kind \in Answers, NEW filled, NEW fault, NEW struck,
         Answer(o, v, kind, filled, fault, struck)
  PROVE  ShotsKept /\ shot[o][v].state = "sent"
<1> DEFINE after ==
      IF shot[o][v].answer = "NONE"
      THEN [state |-> "over", answer |-> kind, filled |-> filled,
            fault |-> fault, struck |-> struck]
      ELSE [shot[o][v] EXCEPT !.state = "over", !.struck = struck]
<1>1. shot[o][v].state = "sent" /\ shot' = [shot EXCEPT ![o][v] = after]
  BY DEF Answer
<1>2. {"state", "answer"} \subseteq DOMAIN shot[o][v] /\ shot[o][v].answer \in Answers
  BY DEF RouterInv, Shaped, SliceInv
<1>3. /\ {"state", "answer"} \subseteq DOMAIN after
      /\ after.state = "over" /\ after.answer \in Answers
  BY <1>2
<1> HIDE DEF after
<1>4. shot'[o][v] = after
  BY <1>1 DEF RouterInv, Shaped
<1>5. \A p \in Orders, w \in Venues : <<p, w>> # <<o, v>> => shot'[p][w] = shot[p][w]
  BY <1>1 DEF RouterInv, Shaped
<1>6. DOMAIN shot' = Orders /\ \A p \in Orders : DOMAIN shot'[p] = Venues
  BY <1>1 DEF RouterInv, Shaped
<1>7. ASSUME NEW p \in Orders, NEW w \in Venues
      PROVE  /\ {"state", "answer"} \subseteq DOMAIN shot'[p][w]
             /\ shot'[p][w].state \in {"none", "sent", "over"}
             /\ shot'[p][w].answer \in Answers
             /\ shot'[p][w].state = "none" <=> shot[p][w].state = "none"
  <2>1. CASE p = o /\ w = v
    BY <1>1, <1>3, <1>4, <2>1
  <2>2. CASE ~(p = o /\ w = v)
    BY <1>5, <2>2 DEF RouterInv, Shaped, SliceInv
  <2> QED
    BY <2>1, <2>2
<1> QED
  BY <1>1, <1>6, <1>7 DEF ShotsKept

LEMMA RowWritten ==
  ASSUME RouterInv, NEW o \in Orders, NEW v \in Venues, NEW r,
         row' = [row EXCEPT ![o][v] = r], shot[o][v].state # "none"
  PROVE  RowsKept
BY DEF RouterInv, Shaped, RowsKept

LEMMA ExecuteStep ==
  ASSUME RouterInv, NEW o \in Orders, NEW v \in Venues, Execute(o, v)
  PROVE  RouterInv' /\ Moves
<1> DEFINE Quiet == UNCHANGED <<order, slice, pc, agenda, seen, found, target>>
<1>1. CASE Refused(o, v)
  <2>1. PICK fault \in BOOLEAN, released \in BOOLEAN :
          /\ Answer(o, v, "REJECTED", 0, fault, FALSE)
          /\ IF released THEN GiveBack(HoldsWithout({<<o, v>>}))
             ELSE UNCHANGED <<hold, reserved>>
    BY <1>1 DEF Refused
  <2>2. ShotsKept
    BY <2>1, AnswerKeeps DEF Answers
  <2>3. HoldsKept
    BY <2>1, GiveBackHolds, HoldReleased, NothingMoved
  <2>4. RowsKept /\ Quiet
    BY <1>1, NothingMoved DEF Refused, local, helpers
  <2> QED
    BY <2>2, <2>3, <2>4, VenueSideStep
<1>2. CASE Accepted(o, v)
  <2>1. PICK f \in 1 .. slice[o][v].stake :
          /\ Answer(o, v, IF f < slice[o][v].stake THEN "PARTIAL" ELSE "FILLED",
                    f, FALSE, TRUE)
          /\ row' = [row EXCEPT ![o][v] = [status |-> "PENDING", stake |-> f]]
    BY <1>2 DEF Accepted
  <2>2. ShotsKept /\ shot[o][v].state = "sent"
    BY <2>1, AnswerKeeps DEF Answers
  <2>3. RowsKept
    BY <2>1, <2>2, RowWritten
  <2>4. HoldsKept /\ Quiet
    BY <1>2, NothingMoved DEF Accepted, rows, local, helpers
  <2> QED
    BY <2>2, <2>3, <2>4, VenueSideStep
<1>3. CASE Unconfirmed(o, v)
  <2>1. PICK struck \in BOOLEAN : Answer(o, v, "UNKNOWN", 0, TRUE, struck)
    BY <1>3 DEF Unconfirmed
  <2>2. ShotsKept /\ shot[o][v].state = "sent"
    BY <2>1, AnswerKeeps DEF Answers
  <2>3. RowsKept
    BY <1>3, <2>2, RowWritten DEF Unconfirmed
  <2>4. HoldsKept /\ Quiet
    BY <1>3, NothingMoved DEF Unconfirmed, rows, local, helpers
  <2> QED
    BY <2>2, <2>3, <2>4, VenueSideStep
<1>4. CASE CommitFails(o, v)
  <2>1. PICK struck \in BOOLEAN : Answer(o, v, "REJECTED", 0, TRUE, struck)
    BY <1>4 DEF CommitFails
  <2>2. ShotsKept
    BY <2>1, AnswerKeeps DEF Answers
  <2>3. RowsKept /\ HoldsKept /\ Quiet
    BY <1>4, NothingMoved DEF CommitFails, rows, local, helpers
  <2> QED
    BY <2>2, <2>3, VenueSideStep
<1>5. CASE ExecutorRaises(o, v)
  <2>1. PICK struck \in BOOLEAN : Answer(o, v, "UNKNOWN", 0, FALSE, struck)
    BY <1>5 DEF ExecutorRaises
  <2>2. ShotsKept
    BY <2>1, AnswerKeeps DEF Answers
  <2>3. RowsKept /\ HoldsKept /\ Quiet
    BY <1>5, NothingMoved DEF ExecutorRaises, rows, local, helpers
  <2> QED
    BY <2>2, <2>3, VenueSideStep
<1>6. CASE TimesOut(o, v)
  <2>1. shot' = [shot EXCEPT ![o][v].answer = "UNKNOWN", ![o][v].fault = TRUE]
    BY <1>6 DEF TimesOut
  <2>2. ShotsKept
    BY <2>1 DEF ShotsKept, Answers, RouterInv, Shaped, SliceInv
  <2>3. RowsKept /\ HoldsKept /\ Quiet
    BY <1>6, NothingMoved DEF TimesOut, rows, local, helpers
  <2> QED
    BY <2>2, <2>3, VenueSideStep
<1> QED
  BY <1>1, <1>2, <1>3, <1>4, <1>5, <1>6 DEF Execute

LEMMA DispatchStep ==
  ASSUME RouterInv, NEW o \in Orders, Dispatch(o)
  PROVE  RouterInv' /\ Moves
<1> DEFINE S == Releasable({o} \X {v \in Venues : breaker[v].paused})
           go == Sendable(o)
<1>1. /\ \/ order[o].status = "RESERVED" /\ order'[o].status = "DISPATCHING"
         \/ order[o].status # "RESERVED" /\ order'[o] = order[o]
      /\ pc[o] = "reserved" /\ pc'[o] = "dispatched"
      /\ \A p \in Orders \ {o} : order'[p] = order[p] /\ pc'[p] = pc[p]
      /\ UNCHANGED <<row, agenda, seen, found, target>>
  BY DEF Dispatch, Step, CasOrder, RouterInv, Shaped, helpers
<1>2. /\ slice' = [Released(S) EXCEPT ![o] = [v \in Venues |->
           IF v \in go THEN [slice[o][v] EXCEPT !.status = "DISPATCHED"] ELSE @[v]]]
      /\ hold' = HoldsWithout(S)
      /\ shot' = [shot EXCEPT ![o] = [v \in Venues |->
           IF v \in go THEN [@[v] EXCEPT !.state = "sent"] ELSE @[v]]]
  BY GiveBackHolds DEF Dispatch
<1>3. /\ S = Releasable(S)
      /\ \A v \in go : <<o, v>> \notin S /\ slice[o][v].status = "RESERVED"
      /\ \A p \in Orders \ {o}, v \in Venues : <<p, v>> \notin S
  BY DEF Releasable, Sendable
<1>4. DOMAIN Released(S) = Orders /\ \A p \in Orders : DOMAIN Released(S)[p] = Venues
  BY DEF Released
<1> HIDE DEF S, go
<1>5. \A p \in Orders \ {o}, v \in Venues :
        slice'[p][v] = slice[p][v] /\ hold'[p][v] = hold[p][v] /\ shot'[p][v] = shot[p][v]
  <2> SUFFICES ASSUME NEW p \in Orders \ {o}, NEW v \in Venues
               PROVE  slice'[p][v] = slice[p][v] /\ hold'[p][v] = hold[p][v] /\ shot'[p][v] = shot[p][v]
    OBVIOUS
  <2>1. slice'[p][v] = Released(S)[p][v]
    BY <1>2, <1>4
  <2>2. Released(S)[p][v] = slice[p][v]
    BY <1>3, ReleasedSlice
  <2>3. hold'[p][v] = hold[p][v]
    BY <1>2, <1>3 DEF HoldsWithout
  <2> QED
    BY <1>2, <2>1, <2>2, <2>3 DEF RouterInv, Shaped
<1>6. ASSUME NEW v \in Venues, v \in go
      PROVE  /\ slice[o][v].status = "RESERVED" /\ slice'[o][v].status = "DISPATCHED"
             /\ "status" \in DOMAIN slice'[o][v]
             /\ hold'[o][v] = hold[o][v]
             /\ shot'[o][v].state = "sent" /\ shot'[o][v].answer = shot[o][v].answer
             /\ {"state", "answer"} \subseteq DOMAIN shot'[o][v]
  <2>1. slice'[o][v] = [slice[o][v] EXCEPT !.status = "DISPATCHED"]
    BY <1>2, <1>4, <1>6
  <2>2. shot'[o][v] = [shot[o][v] EXCEPT !.state = "sent"]
    BY <1>2, <1>6 DEF RouterInv, Shaped
  <2>3. hold'[o][v] = hold[o][v]
    BY <1>2, <1>3, <1>6 DEF HoldsWithout
  <2> QED
    BY <1>3, <1>6, <2>1, <2>2, <2>3 DEF RouterInv, Shaped
<1>7. ASSUME NEW v \in Venues, v \notin go
      PROVE  /\ ReleaseMove(o, v)
             /\ "status" \in DOMAIN slice'[o][v]
             /\ shot'[o][v] = shot[o][v]
  <2>1. slice'[o][v] = Released(S)[o][v]
    BY <1>2, <1>4, <1>7
  <2>2. shot'[o][v] = shot[o][v]
    BY <1>2, <1>7 DEF RouterInv, Shaped
  <2>3. <<o, v>> \in S => hold'[o][v] = 0
    BY <1>2 DEF HoldsWithout
  <2>4. <<o, v>> \notin S => hold'[o][v] = hold[o][v]
    BY <1>2 DEF HoldsWithout
  <2> QED
    BY <1>3, <2>1, <2>2, <2>3, <2>4, ReleasedSlice DEF ReleaseMove, RouterInv, Shaped
<1>8. Shaped'
  <2>1. DOMAIN order' = Orders /\ DOMAIN pc' = Orders
    BY DEF Dispatch, Step, CasOrder, RouterInv, Shaped
  <2>2. \A p \in Orders : "status" \in DOMAIN order'[p]
    BY DEF Dispatch, CasOrder, RouterInv, Shaped
  <2>3. DOMAIN slice' = Orders /\ \A p \in Orders : DOMAIN slice'[p] = Venues
    BY <1>2, <1>4
  <2>4. DOMAIN hold' = Orders /\ \A p \in Orders : DOMAIN hold'[p] = Venues
    BY <1>2 DEF HoldsWithout
  <2>5. DOMAIN shot' = Orders /\ \A p \in Orders : DOMAIN shot'[p] = Venues
    BY <1>2 DEF RouterInv, Shaped
  <2>6. ASSUME NEW p \in Orders, NEW v \in Venues
        PROVE  /\ "status" \in DOMAIN slice'[p][v]
               /\ {"state", "answer"} \subseteq DOMAIN shot'[p][v]
    BY <1>5, <1>6, <1>7 DEF RouterInv, Shaped
  <2> QED
    BY <1>1, <2>1, <2>2, <2>3, <2>4, <2>5, <2>6 DEF RouterInv, Shaped
<1>9. ASSUME NEW p \in Orders, NEW v \in Venues
      PROVE  SliceInv(p, v)' /\ SliceMove(p, v)
  <2>1. CASE p # o
    BY <1>1, <1>5, <2>1, SliceKept DEF SliceMove
  <2>2. CASE p = o /\ v \in go
    <3>1. SliceInv(o, v)
      BY DEF RouterInv
    <3> QED
      BY <1>1, <1>6, <2>2, <3>1 DEF SliceInv, SliceMove, SliceStatuses, Unanswered, Unsent
  <2>3. CASE p = o /\ v \notin go
    BY <1>1, <1>7, <2>3, ReleaseKeeps
  <2> QED
    BY <2>1, <2>2, <2>3
<1>10. Moves
  BY <1>1, <1>9 DEF Moves, OrderMove
<1>11. ASSUME NEW p \in Orders PROVE OrderInv(p)'
  <2>1. CASE p = o
    BY <1>1, <2>1 DEF OrderInv, OrderStatuses, RouterInv, TerminalStatuses, Sent, Unfinished
  <2>2. CASE p # o
    BY <1>1, <2>2, OrderKept
  <2> QED
    BY <2>1, <2>2
<1>12. \A a \in Agents : AgentInv(a)'
  BY <1>1, <1>10, AgentsKept DEF Moves
<1>13. HelperInv'
  BY <1>1, HelpersKept DEF helpers
<1> QED
  BY <1>8, <1>9, <1>10, <1>11, <1>12, <1>13 DEF RouterInv

LEMMA RecordStep ==
  ASSUME RouterInv, NEW o \in Orders, NEW v \in Venues, Record(o, v)
  PROVE  RouterInv' /\ Moves
<1>1. shot' = [shot EXCEPT ![o][v].answer = "UNKNOWN", ![o][v].filled = 0,
                           ![o][v].fault = FALSE]
  BY DEF Record
<1>2. ShotsKept
  BY <1>1 DEF ShotsKept, Answers, RouterInv, Shaped, SliceInv
<1>3. /\ RowsKept /\ HoldsKept
      /\ UNCHANGED <<order, slice, pc, agenda, seen, found, target>>
  BY NothingMoved DEF Record, rows, helpers
<1> QED
  BY <1>2, <1>3, VenueSideStep

LEMMA LedgerStep ==
  ASSUME RouterInv, NEW o \in Orders, NEW v \in Venues,
         LedgerMoves(o, v) \/ ReleaseFinished(o, v)
  PROVE  RouterInv' /\ Moves
<1>1. CASE LedgerMoves(o, v)
  <2>1. PICK s \in Rulings(o, v) : row' = [row EXCEPT ![o][v].status = s]
    BY <1>1 DEF LedgerMoves
  <2>2. row[o][v].status # "NONE"
    BY <2>1 DEF Rulings, Contract!NextStatuses
  <2>3. row[o][v] # NoRow
    BY <2>2 DEF NoRow
  <2>4. RowsKept
    BY <2>1, <2>3 DEF RowsKept, RouterInv, Shaped
  <2>5. /\ ShotsKept /\ HoldsKept
        /\ UNCHANGED <<order, slice, pc, agenda, seen, found, target>>
    BY <1>1, NothingMoved DEF LedgerMoves, rows, local, helpers
  <2> QED
    BY <2>4, <2>5, VenueSideStep
<1>2. CASE ReleaseFinished(o, v)
  <2>1. HoldsKept
    BY <1>2, GiveBackHolds, HoldReleased DEF ReleaseFinished
  <2>2. /\ ShotsKept /\ RowsKept
        /\ UNCHANGED <<order, slice, pc, agenda, seen, found, target>>
    BY <1>2, NothingMoved DEF ReleaseFinished, venueside, local, helpers
  <2> QED
    BY <2>1, <2>2, VenueSideStep
<1> QED
  BY <1>1, <1>2

LEMMA BreakerStep ==
  ASSUME RouterInv, NEW v \in Venues, PauseEnds(v) \/ Reset(v)
  PROVE  RouterInv' /\ Moves
<1>1. /\ ShotsKept /\ RowsKept /\ HoldsKept
      /\ UNCHANGED <<order, slice, pc, agenda, seen, found, target>>
  BY NothingMoved DEF PauseEnds, Reset, rows, local, helpers
<1> QED
  BY <1>1, VenueSideStep

LEMMA ApplyStep ==
  ASSUME RouterInv, NEW o \in Orders, Apply(o)
  PROVE  RouterInv' /\ Moves
<1>1. /\ pc[o] = "dispatched" /\ pc'[o] = "applied"
      /\ \A p \in Orders \ {o} : pc'[p] = pc[p]
      /\ DOMAIN pc' = Orders
      /\ UNCHANGED <<order, shot, row, seen, found, target>>
  BY DEF Apply, Step, RouterInv, Shaped, venueside, helpers
<1>2. /\ slice' = [slice EXCEPT ![o] = [v \in Venues |-> Applied(o, v)]]
      /\ hold' = [hold EXCEPT ![o] = [v \in Venues |-> HoldApplied(o, v)]]
  BY GiveBackHolds DEF Apply
<1>3. agenda' = [agenda EXCEPT ![o] = {o}]
  BY DEF Apply
<1>4. /\ \A p \in Orders \ {o} : slice'[p] = slice[p] /\ hold'[p] = hold[p]
      /\ \A v \in Venues : slice'[o][v] = Applied(o, v) /\ hold'[o][v] = HoldApplied(o, v)
      /\ DOMAIN slice' = Orders /\ \A p \in Orders : DOMAIN slice'[p] = Venues
      /\ DOMAIN hold' = Orders /\ \A p \in Orders : DOMAIN hold'[p] = Venues
  BY <1>2 DEF RouterInv, Shaped
<1>5. ASSUME NEW v \in Venues
      PROVE  /\ "status" \in DOMAIN slice'[o][v]
             /\ \/ slice'[o][v] = slice[o][v] /\ hold'[o][v] = hold[o][v]
                \/ /\ slice[o][v].status = "DISPATCHED"
                   /\ slice'[o][v].status \in {"UNKNOWN", "FILLED", "PARTIAL", "REJECTED"}
  <2>1. CASE v \notin Tickets(o) \/ slice[o][v].status # "DISPATCHED"
    <3>1. Applied(o, v) = slice[o][v]
      BY <2>1 DEF Applied
    <3>2. HoldApplied(o, v) = hold[o][v]
      BY <2>1, Zenon DEF HoldApplied
    <3> QED
      BY <1>4, <3>1, <3>2 DEF RouterInv, Shaped
  <2>2. CASE v \in Tickets(o) /\ slice[o][v].status = "DISPATCHED"
    <3> DEFINE filled ==
          CASE shot[o][v].answer = "FILLED" -> slice[o][v].stake
            [] shot[o][v].answer = "PARTIAL" -> shot[o][v].filled
            [] OTHER -> 0
    <3>1. Applied(o, v) = [slice[o][v] EXCEPT !.status = shot[o][v].answer, !.filled = filled]
      BY <2>2, Zenon DEF Applied
    <3> HIDE DEF filled
    <3>2. shot[o][v].answer \in {"UNKNOWN", "FILLED", "PARTIAL", "REJECTED"}
      BY <2>2 DEF Apply, RouterInv, SliceInv, Answers
    <3> QED
      BY <1>4, <2>2, <3>1, <3>2 DEF RouterInv, Shaped
  <2> QED
    BY <2>1, <2>2
<1>6. Shaped'
  BY <1>1, <1>3, <1>4, <1>5 DEF RouterInv, Shaped
<1>7. ASSUME NEW p \in Orders, NEW v \in Venues
      PROVE  SliceInv(p, v)' /\ SliceMove(p, v)
  <2>1. CASE p # o
    BY <1>1, <1>4, <2>1, SliceKept DEF SliceMove
  <2>2. CASE p = o
    <3>1. SliceInv(o, v)
      BY DEF RouterInv
    <3> QED
      BY <1>1, <1>5, <2>2, <3>1 DEF SliceInv, SliceMove, SliceStatuses, FilledStatuses, Unanswered, Unsent
  <2> QED
    BY <2>1, <2>2
<1>8. Moves
  BY <1>1, <1>7 DEF Moves, OrderMove
<1>9. ASSUME NEW p \in Orders PROVE OrderInv(p)'
  <2>1. CASE p = o
    BY <1>1, <2>1 DEF OrderInv, RouterInv
  <2>2. CASE p # o
    BY <1>1, <2>2, OrderKept
  <2> QED
    BY <2>1, <2>2
<1>10. ASSUME NEW a \in Agents PROVE AgentInv(a)'
  <2>1. AgentInv(a)
    BY DEF RouterInv
  <2>2. CASE a = o
    <3>1. agenda'[o] = {o} /\ seen'[o] = seen[o]
      BY <1>1, <1>3, <2>2 DEF RouterInv, Shaped
    <3>2. seen[o] = Nothing
      BY <1>1, <2>1, <2>2 DEF AgentInv
    <3> QED
      BY <1>1, <2>2, <3>1, <3>2 DEF AgentInv
  <2>3. CASE a # o
    <3>1. agenda'[a] = agenda[a] /\ seen'[a] = seen[a] /\ (a \in Orders => pc'[a] = pc[a])
      BY <1>1, <1>3, <2>3 DEF RouterInv, Shaped
    <3> QED
      BY <1>1, <2>1, <3>1 DEF AgentInv
  <2> QED
    BY <2>2, <2>3
<1>11. HelperInv'
  <2>1. \A p \in Operators : agenda'[p] = agenda[p]
    BY <1>3, AgentsApart DEF RouterInv, Shaped
  <2> QED
    BY <1>1, <2>1 DEF RouterInv, HelperInv
<1> QED
  BY <1>6, <1>7, <1>8, <1>9, <1>10, <1>11 DEF RouterInv

LEMMA DieStep ==
  ASSUME RouterInv, NEW o \in Orders, Die(o)
  PROVE  RouterInv' /\ Moves
<1>1. /\ pc[o] \notin {"new"} /\ pc' = [pc EXCEPT ![o] = "dead"]
      /\ agenda' = [agenda EXCEPT ![o] = {}]
      /\ seen' = [seen EXCEPT ![o] = Nothing]
      /\ UNCHANGED <<order, slice, hold, row, found, target>>
  BY DEF Die, rows, helpers
<1>2. PICK struck \in SUBSET {v \in Venues : shot[o][v].state = "sent"} :
        shot' = [shot EXCEPT ![o] = [v \in Venues |->
          IF @[v].state = "none" THEN @[v]
          ELSE [NotSent EXCEPT !.state = "over", !.answer = "UNKNOWN",
                               !.struck = shot[o][v].struck \/ v \in struck]]]
  BY DEF Die
<1>3. ASSUME NEW v \in Venues
      PROVE  \/ shot[o][v].state = "none" /\ shot'[o][v] = shot[o][v]
             \/ /\ shot[o][v].state # "none"
                /\ shot'[o][v].state = "over" /\ shot'[o][v].answer = "UNKNOWN"
                /\ {"state", "answer"} \subseteq DOMAIN shot'[o][v]
  <2> DEFINE b == shot[o][v].struck \/ v \in struck
  <2>1. shot'[o][v] = IF shot[o][v].state = "none" THEN shot[o][v]
                      ELSE [NotSent EXCEPT !.state = "over", !.answer = "UNKNOWN", !.struck = b]
    BY <1>2 DEF RouterInv, Shaped
  <2> HIDE DEF b
  <2> QED
    BY <2>1 DEF NotSent
<1>4. /\ \A p \in Orders \ {o} : shot'[p] = shot[p] /\ pc'[p] = pc[p]
      /\ DOMAIN shot' = Orders /\ \A p \in Orders : DOMAIN shot'[p] = Venues
      /\ pc'[o] = "dead" /\ DOMAIN pc' = Orders
      /\ DOMAIN agenda' = Agents /\ DOMAIN seen' = Agents
  BY <1>1, <1>2 DEF RouterInv, Shaped
<1>5. Shaped'
  BY <1>1, <1>3, <1>4 DEF RouterInv, Shaped
<1>6. ASSUME NEW p \in Orders, NEW v \in Venues PROVE SliceInv(p, v)'
  <2>1. CASE p # o
    BY <1>1, <1>4, <2>1, SliceKept
  <2>2. CASE p = o
    <3>1. SliceInv(o, v)
      BY DEF RouterInv
    <3> QED
      BY <1>1, <1>3, <1>4, <2>2, <3>1 DEF SliceInv, Answers
  <2> QED
    BY <2>1, <2>2
<1>7. Moves
  BY <1>1 DEF Moves, OrderMove, SliceMove
<1>8. ASSUME NEW p \in Orders PROVE OrderInv(p)'
  <2>1. CASE p = o
    BY <1>1, <1>4, <2>1 DEF OrderInv, RouterInv
  <2>2. CASE p # o
    BY <1>1, <1>4, <2>2, OrderKept
  <2> QED
    BY <2>1, <2>2
<1>9. ASSUME NEW a \in Agents PROVE AgentInv(a)'
  <2>1. AgentInv(a)
    BY DEF RouterInv
  <2>2. CASE a = o
    <3>1. agenda'[o] = {} /\ seen'[o] = Nothing
      BY <1>1, <2>2 DEF RouterInv, Shaped
    <3> QED
      BY <2>2, <3>1 DEF AgentInv
  <2>3. CASE a # o
    <3>1. agenda'[a] = agenda[a] /\ seen'[a] = seen[a] /\ (a \in Orders => pc'[a] = pc[a])
      BY <1>1, <1>4, <2>3 DEF RouterInv, Shaped
    <3> QED
      BY <1>1, <2>1, <3>1 DEF AgentInv
  <2> QED
    BY <2>2, <2>3
<1>10. HelperInv'
  <2>1. \A p \in Operators : agenda'[p] = agenda[p]
    BY <1>1, AgentsApart DEF RouterInv, Shaped
  <2> QED
    BY <1>1, <2>1 DEF RouterInv, HelperInv
<1> QED
  BY <1>5, <1>6, <1>7, <1>8, <1>9, <1>10 DEF RouterInv

LEMMA StatusOfEnds ==
  ASSUME NEW o \in Orders
  PROVE  StatusOf(o) \in Ends
BY DEF StatusOf, Ends

LEMMA FinishReadStep ==
  ASSUME RouterInv, NEW a \in Agents, NEW o \in Orders, FinishRead(a, o)
  PROVE  RouterInv' /\ Moves
<1>1. /\ o \in agenda[a] /\ seen[a] = Nothing /\ AgentInv(a)
      /\ UNCHANGED <<order, slice, hold, shot, row, found, target>>
  BY DEF FinishRead, RouterInv, rows, venueside, helpers
<1>2. Moves
  BY <1>1 DEF Moves, OrderMove, SliceMove
<1>3. CASE order[o].status \in Unfinished
  <2>1. /\ seen' = [seen EXCEPT ![a] =
             [order |-> o, read |-> order[o].status, next |-> StatusOf(o),
              filled |-> FilledOf(o)]]
        /\ UNCHANGED <<agenda, pc>>
    BY <1>3 DEF FinishRead
  <2>2. Shaped'
    BY <1>1, <2>1 DEF RouterInv, Shaped
  <2>3. ASSUME NEW b \in Agents PROVE AgentInv(b)'
    <3>1. CASE b = a
      <4>1. /\ seen'[a].order = o /\ seen'[a].read = order[o].status
            /\ seen'[a].next = StatusOf(o)
        BY <2>1 DEF RouterInv, Shaped
      <4> QED
        BY <1>1, <1>3, <2>1, <3>1, <4>1, StatusOfEnds DEF AgentInv, Sent
    <3>2. CASE b # a
      <4>1. agenda'[b] = agenda[b] /\ seen'[b] = seen[b]
        BY <2>1, <3>2 DEF RouterInv, Shaped
      <4> QED
        BY <1>2, <2>1, <4>1, AgentKept DEF Moves
    <3> QED
      BY <3>1, <3>2
  <2>4. \A p \in Orders : OrderInv(p)'
    BY <1>1, <2>1, OrderKept
  <2>5. \A p \in Orders, v \in Venues : SliceInv(p, v)'
    BY <1>1, <2>1, SliceKept
  <2>6. HelperInv'
    BY <1>1, <2>1, HelpersKept DEF helpers
  <2> QED
    BY <1>2, <2>2, <2>3, <2>4, <2>5, <2>6 DEF RouterInv
<1>4. CASE order[o].status \notin Unfinished
  <2>1. Leave(a, o) /\ seen' = seen
    BY <1>4 DEF FinishRead
  <2>2. agenda' = [agenda EXCEPT ![a] = @ \ {o}]
    BY <2>1 DEF Leave
  <2>3. pc' = IF a \in Orders THEN [pc EXCEPT ![a] = "done"] ELSE pc
    BY <2>1 DEF Leave
  <2>4. a \in Orders => o = a /\ pc[a] = "applied"
    BY <1>1 DEF AgentInv
  <2>5. Shaped'
    BY <1>1, <2>1, <2>2, <2>3 DEF RouterInv, Shaped
  <2>6. ASSUME NEW b \in Agents PROVE AgentInv(b)'
    <3>1. CASE b = a
      <4>1. agenda'[a] = agenda[a] \ {o} /\ seen'[a] = Nothing
        BY <1>1, <2>1, <2>2 DEF RouterInv, Shaped
      <4>2. a \in Orders => agenda'[a] = {}
        BY <1>1, <2>4, <4>1 DEF AgentInv
      <4> QED
        BY <1>1, <3>1, <4>1, <4>2 DEF AgentInv
    <3>2. CASE b # a
      <4>1. agenda'[b] = agenda[b] /\ seen'[b] = seen[b] /\ (b \in Orders => pc'[b] = pc[b])
        BY <2>1, <2>2, <2>3, <3>2 DEF RouterInv, Shaped
      <4> QED
        BY <1>2, <4>1, AgentKept DEF Moves
    <3> QED
      BY <3>1, <3>2
  <2>7. ASSUME NEW p \in Orders PROVE OrderInv(p)'
    <3>1. CASE p = a
      <4>1. pc'[p] = "done" /\ order'[p] = order[p] /\ p = o /\ OrderInv(p)
        BY <1>1, <2>3, <2>4, <3>1 DEF RouterInv, Shaped
      <4>2. order[p].status \in TerminalStatuses
        BY <1>4, <2>4, <3>1, <4>1 DEF OrderInv, Sent
      <4> QED
        BY <4>1, <4>2 DEF OrderInv
    <3>2. CASE p # a
      <4>1. pc'[p] = pc[p]
        BY <2>3, <3>2 DEF RouterInv, Shaped
      <4> QED
        BY <1>1, <4>1, OrderKept
    <3> QED
      BY <3>1, <3>2
  <2>8. ASSUME NEW p \in Orders, NEW v \in Venues PROVE SliceInv(p, v)'
    <3>1. pc'[p] = pc[p] \/ pc'[p] = "done"
      BY <2>3 DEF RouterInv, Shaped
    <3> QED
      BY <1>1, <3>1, SliceKept
  <2>9. HelperInv'
    <3>1. \A p \in Operators : agenda[p] = {} => agenda'[p] = {}
      BY <2>2 DEF RouterInv, Shaped, Agents
    <3> QED
      BY <1>1, <3>1 DEF RouterInv, HelperInv
  <2> QED
    BY <1>2, <2>5, <2>6, <2>7, <2>8, <2>9 DEF RouterInv
<1> QED
  BY <1>3, <1>4

LEMMA FinishWriteStep ==
  ASSUME RouterInv, NEW a \in Agents, FinishWrite(a)
  PROVE  RouterInv' /\ Moves
<1> DEFINE o == seen[a].order
<1>1. /\ seen[a] # Nothing /\ AgentInv(a)
      /\ UNCHANGED <<slice, hold, shot, row, found, target>>
  BY DEF FinishWrite, RouterInv, venueside, helpers
<1>2. /\ o \in agenda[a] /\ o \in Orders
      /\ seen[a].read \in Unfinished /\ seen[a].next \in Ends
      /\ order[o].status \in Sent
      /\ seen[a].read = "UNCONFIRMED" => order[o].status # "DISPATCHING"
  BY <1>1 DEF AgentInv
<1>3. order' = IF order[o].status = seen[a].read
               THEN [order EXCEPT ![o] =
                       [status |-> seen[a].next, filled |-> seen[a].filled]]
               ELSE order
  BY DEF FinishWrite
<1>4. seen' = [seen EXCEPT ![a] = Nothing] /\ Leave(a, o)
  BY DEF FinishWrite
<1>5. agenda' = [agenda EXCEPT ![a] = @ \ {o}]
  BY <1>4 DEF Leave
<1>6. pc' = IF a \in Orders THEN [pc EXCEPT ![a] = "done"] ELSE pc
  BY <1>4 DEF Leave
<1> HIDE DEF o
<1>7. a \in Orders => o = a /\ pc[a] = "applied"
  BY <1>1, <1>2 DEF AgentInv
<1>8. /\ \A p \in Orders \ {o} : order'[p] = order[p]
      /\ \/ order'[o] = order[o] /\ order[o].status # seen[a].read
         \/ order[o].status \in Unfinished /\ order'[o].status \in Ends
  BY <1>2, <1>3 DEF RouterInv, Shaped
<1>9. Moves
  BY <1>1, <1>8 DEF Moves, OrderMove, SliceMove
<1>10. Shaped'
  <2>1. DOMAIN order' = Orders /\ \A p \in Orders : "status" \in DOMAIN order'[p]
    BY <1>2, <1>3 DEF RouterInv, Shaped
  <2> QED
    BY <1>1, <1>4, <1>5, <1>6, <2>1 DEF RouterInv, Shaped
<1>11. ASSUME NEW b \in Agents PROVE AgentInv(b)'
  <2>1. CASE b = a
    <3>1. agenda'[a] = agenda[a] \ {o} /\ seen'[a] = Nothing
      BY <1>4, <1>5 DEF RouterInv, Shaped
    <3>2. a \in Orders => agenda'[a] = {}
      BY <1>1, <1>2, <1>7, <3>1 DEF AgentInv
    <3> QED
      BY <1>1, <2>1, <3>1, <3>2 DEF AgentInv
  <2>2. CASE b # a
    <3>1. agenda'[b] = agenda[b] /\ seen'[b] = seen[b] /\ (b \in Orders => pc'[b] = pc[b])
      BY <1>4, <1>5, <1>6, <2>2 DEF RouterInv, Shaped
    <3> QED
      BY <1>9, <3>1, AgentKept DEF Moves
  <2> QED
    BY <2>1, <2>2
<1>12. ASSUME NEW p \in Orders PROVE OrderInv(p)'
  <2>1. OrderInv(p)
    BY DEF RouterInv
  <2>2. CASE p = a
    <3>1. pc'[p] = "done" /\ p = o
      BY <1>6, <1>7, <2>2 DEF RouterInv, Shaped
    <3>2. order'[o].status \in TerminalStatuses \cup {"UNCONFIRMED"}
      BY <1>2, <1>8 DEF Sent, Unfinished, Ends, TerminalStatuses
    <3> QED
      BY <3>1, <3>2 DEF OrderInv, OrderStatuses, TerminalStatuses
  <2>3. CASE p # a
    <3>1. pc'[p] = pc[p]
      BY <1>6, <2>3 DEF RouterInv, Shaped
    <3>2. CASE order'[p] = order[p]
      BY <3>1, <3>2, OrderKept
    <3>3. CASE order[p].status \in Unfinished /\ order'[p].status \in Ends
      BY <2>1, <3>1, <3>3 DEF OrderInv, Unfinished, Ends, Sent, OrderStatuses, TerminalStatuses
    <3> QED
      BY <1>8, <3>2, <3>3
  <2> QED
    BY <2>2, <2>3
<1>13. ASSUME NEW p \in Orders, NEW v \in Venues PROVE SliceInv(p, v)'
  <2>1. pc'[p] = pc[p] \/ pc'[p] = "done"
    BY <1>6 DEF RouterInv, Shaped
  <2> QED
    BY <1>1, <2>1, SliceKept
<1>14. HelperInv'
  <2>1. \A p \in Operators : agenda[p] = {} => agenda'[p] = {}
    BY <1>5 DEF RouterInv, Shaped, Agents
  <2> QED
    BY <1>1, <2>1 DEF RouterInv, HelperInv
<1> QED
  BY <1>9, <1>10, <1>11, <1>12, <1>13, <1>14 DEF RouterInv

LEMMA HoldExpiredStep ==
  ASSUME RouterInv, HoldExpired
  PROVE  RouterInv' /\ Moves
<1> DEFINE X == {p \in Releasable(Orders \X Venues) : hold[p[1]][p[2]] = 0}
<1>1. /\ slice' = Released(X)
      /\ UNCHANGED <<order, hold, shot, row, pc, agenda, seen, found, target>>
  BY DEF HoldExpired, venueside, local, helpers
<1>2. X = Releasable(X) /\ \A p \in X : hold[p[1]][p[2]] = 0
  BY DEF Releasable
<1> HIDE DEF X
<1>3. /\ \A p \in Orders, v \in Venues : ReleaseMove(p, v)
      /\ SlicesShaped
  BY <1>1, <1>2, ReleaseSlices
<1>4. Shaped'
  BY <1>1, <1>3 DEF RouterInv, Shaped, SlicesShaped
<1>5. ASSUME NEW p \in Orders, NEW v \in Venues
      PROVE  SliceInv(p, v)' /\ SliceMove(p, v)
  BY <1>1, <1>3, ReleaseKeeps
<1>6. Moves
  BY <1>1, <1>5 DEF Moves, OrderMove
<1>7. \A p \in Orders : OrderInv(p)'
  BY <1>1, OrderKept
<1>8. \A a \in Agents : AgentInv(a)'
  BY <1>1, <1>6, AgentsKept DEF Moves
<1>9. HelperInv'
  BY <1>1, HelpersKept DEF helpers
<1> QED
  BY <1>4, <1>5, <1>6, <1>7, <1>8, <1>9 DEF RouterInv

LEMMA RoutingAbandonedStep ==
  ASSUME RouterInv, NEW o \in Orders, RoutingAbandoned(o)
  PROVE  RouterInv' /\ Moves
<1>1. /\ order[o].status = "ROUTING" /\ order'[o].status = "REJECTED"
      /\ \A p \in Orders \ {o} : order'[p] = order[p]
      /\ UNCHANGED <<slice, hold, shot, row, pc, agenda, seen, found, target>>
  BY DEF RoutingAbandoned, RouterInv, Shaped, venueside, local, helpers
<1>2. Shaped'
  <2>1. DOMAIN order' = Orders /\ \A p \in Orders : "status" \in DOMAIN order'[p]
    BY DEF RoutingAbandoned, RouterInv, Shaped
  <2> QED
    BY <1>1, <2>1 DEF RouterInv, Shaped
<1>3. Moves
  BY <1>1 DEF Moves, OrderMove, SliceMove
<1>4. \A p \in Orders, v \in Venues : SliceInv(p, v)'
  BY <1>1, SliceKept
<1>5. ASSUME NEW p \in Orders PROVE OrderInv(p)'
  <2>1. CASE p = o
    BY <1>1, <2>1 DEF OrderInv, OrderStatuses, RouterInv, TerminalStatuses, Sent, Unfinished
  <2>2. CASE p # o
    BY <1>1, <2>2, OrderKept
  <2> QED
    BY <2>1, <2>2
<1>6. \A a \in Agents : AgentInv(a)'
  BY <1>1, <1>3, AgentsKept DEF Moves
<1>7. HelperInv'
  BY <1>1, HelpersKept DEF helpers
<1> QED
  BY <1>2, <1>3, <1>4, <1>5, <1>6, <1>7 DEF RouterInv

\* A sweep changes slices and holds only by filling what is unanswered, and
\* its agenda only by orders.
LEMMA SweepStep ==
  ASSUME RouterInv, NEW s \in Sweepers, Sweep(s)
  PROVE  RouterInv' /\ Moves
<1> s \in Agents /\ s \notin Orders /\ s \notin Operators
  BY AgentsApart
<1> DEFINE FoundTyped == \A f \in found'[s] : f.order \in Orders /\ f.venue \in Venues
           FillMove(p, v) ==
             \/ slice'[p][v] = slice[p][v] /\ hold'[p][v] = hold[p][v]
             \/ slice[p][v].status \in Unanswered /\ slice'[p][v].status \in FilledStatuses
<1>1. /\ UNCHANGED <<order, shot, row, pc, target>>
      /\ DOMAIN found' = Sweepers /\ DOMAIN agenda' = Agents /\ DOMAIN seen' = Agents
      /\ \A t \in Sweepers \ {s} : found'[t] = found[t]
      /\ \A a \in Agents \ {s} : agenda'[a] = agenda[a] /\ seen'[a] = seen[a]
      /\ FoundTyped
      /\ \/ agenda'[s] = {} /\ seen'[s] = Nothing
         \/ agenda[s] \subseteq agenda'[s] /\ agenda'[s] \subseteq Orders /\ seen'[s] = seen[s]
      /\ SlicesShaped
      /\ \A p \in Orders, v \in Venues : FillMove(p, v)
  <2>1. CASE SweepRead(s)
    <3>1. UNCHANGED <<order, slice, hold, shot, row, pc, agenda, seen, target>>
      BY <2>1 DEF SweepRead, rows, venueside, local
    <3> DEFINE hits == {p \in Orders \X Venues :
                          Overdue(p[1], p[2]) /\ row[p[1]][p[2]].status \in Confirming}
               F == {[order |-> p[1], venue |-> p[2], stake |-> row[p[1]][p[2]].stake] :
                       p \in hits}
    <3>2. found' = [found EXCEPT ![s] = F]
      BY <2>1, Zenon DEF SweepRead
    <3>3. ASSUME NEW f \in F PROVE f.order \in Orders /\ f.venue \in Venues
      <4>1. PICK p \in hits :
              f = [order |-> p[1], venue |-> p[2], stake |-> row[p[1]][p[2]].stake]
        OBVIOUS
      <4>2. p \in Orders \X Venues
        OBVIOUS
      <4> QED
        BY <4>1, <4>2
    <3> HIDE DEF hits, F
    <3>4. found'[s] = F /\ FoundTyped
      BY <3>2, <3>3 DEF RouterInv, Shaped
    <3> QED
      BY <3>1, <3>2, <3>4 DEF RouterInv, Shaped, AgentInv, SlicesShaped
  <2>2. CASE SweepConfirm(s)
    <3>1. UNCHANGED <<order, shot, row, pc, seen, target>>
      BY <2>2 DEF SweepConfirm, venueside, local
    <3>2. PICK f \in found[s] :
            /\ found' = [found EXCEPT ![s] = @ \ {f}]
            /\ IF slice[f.order][f.venue].status \in Unanswered
               THEN /\ slice' = [slice EXCEPT ![f.order][f.venue] =
                         [slice[f.order][f.venue] EXCEPT
                            !.status = IF Min({f.stake, slice[f.order][f.venue].stake})
                                          < slice[f.order][f.venue].stake
                                       THEN "PARTIAL" ELSE "FILLED",
                            !.filled = Min({f.stake, slice[f.order][f.venue].stake})]]
                    /\ GiveBack(Kept(hold, f.order, f.venue,
                                     Min({f.stake, slice[f.order][f.venue].stake})))
                    /\ agenda' = [agenda EXCEPT ![s] = @ \cup {f.order}]
               ELSE UNCHANGED <<slice, hold, reserved, agenda>>
      BY <2>2 DEF SweepConfirm
    <3>3. f.order \in Orders /\ f.venue \in Venues /\ FoundTyped
      BY <3>2 DEF RouterInv, HelperInv, Shaped
    <3>4. /\ DOMAIN found' = Sweepers
          /\ \A t \in Sweepers \ {s} : found'[t] = found[t]
      BY <3>2 DEF RouterInv, Shaped
    <3>5. agenda[s] \subseteq Orders
      BY DEF RouterInv, AgentInv
    <3>6. CASE slice[f.order][f.venue].status \in Unanswered
      <4> DEFINE o == f.order
                 v == f.venue
                 filled == Min({f.stake, slice[o][v].stake})
                 kind == IF filled < slice[o][v].stake THEN "PARTIAL" ELSE "FILLED"
      <4>1. /\ slice' = [slice EXCEPT ![o][v] =
                 [slice[o][v] EXCEPT !.status = kind, !.filled = filled]]
            /\ hold' = Kept(hold, o, v, filled)
            /\ agenda' = [agenda EXCEPT ![s] = @ \cup {o}]
        BY <3>2, <3>6, GiveBackHolds
      <4>2. kind \in FilledStatuses
        BY DEF FilledStatuses
      <4> HIDE DEF kind, filled
      <4>3. /\ slice'[o][v].status = kind /\ "status" \in DOMAIN slice'[o][v]
            /\ \A p \in Orders, w \in Venues :
                 <<p, w>> # <<o, v>> => slice'[p][w] = slice[p][w] /\ hold'[p][w] = hold[p][w]
        BY <3>3, <4>1 DEF RouterInv, Shaped, Kept
      <4>4. /\ DOMAIN slice' = Orders /\ DOMAIN hold' = Orders
            /\ \A p \in Orders : DOMAIN slice'[p] = Venues /\ DOMAIN hold'[p] = Venues
        BY <4>1 DEF RouterInv, Shaped, Kept
      <4>5. SlicesShaped
        <5> SUFFICES ASSUME NEW p \in Orders, NEW w \in Venues
                     PROVE  "status" \in DOMAIN slice'[p][w]
          BY <4>4 DEF SlicesShaped
        <5>1. CASE p = o /\ w = v
          BY <4>3, <5>1
        <5>2. CASE ~(p = o /\ w = v)
          BY <4>3, <5>2 DEF RouterInv, Shaped
        <5> QED
          BY <5>1, <5>2
      <4>6. ASSUME NEW p \in Orders, NEW w \in Venues PROVE FillMove(p, w)
        BY <3>6, <4>2, <4>3
      <4>7. /\ DOMAIN agenda' = Agents /\ agenda'[s] = agenda[s] \cup {o}
            /\ \A a \in Agents \ {s} : agenda'[a] = agenda[a]
        BY <4>1 DEF RouterInv, Shaped
      <4> QED
        BY <3>1, <3>3, <3>4, <3>5, <4>5, <4>6, <4>7 DEF RouterInv, Shaped
    <3>7. CASE slice[f.order][f.venue].status \notin Unanswered
      <4>1. UNCHANGED <<slice, hold, agenda>>
        BY <3>2, <3>7
      <4> QED
        BY <3>1, <3>3, <3>4, <3>5, <4>1 DEF RouterInv, Shaped, SlicesShaped
    <3> QED
      BY <3>6, <3>7
  <2>3. CASE SweepStops(s)
    <3>1. UNCHANGED <<order, slice, hold, shot, row, pc, target>>
      BY <2>3 DEF SweepStops, rows, venueside, local
    <3>2. /\ found' = [found EXCEPT ![s] = {}]
          /\ agenda' = [agenda EXCEPT ![s] = {}]
          /\ seen' = [seen EXCEPT ![s] = Nothing]
      BY <2>3 DEF SweepStops
    <3> QED
      BY <3>1, <3>2 DEF RouterInv, Shaped, SlicesShaped
  <2> QED
    BY <2>1, <2>2, <2>3 DEF Sweep
<1>2. Shaped'
  BY <1>1 DEF RouterInv, Shaped, SlicesShaped
<1>3. ASSUME NEW p \in Orders, NEW v \in Venues
      PROVE  SliceInv(p, v)' /\ SliceMove(p, v)
  <2>1. FillMove(p, v)
    BY <1>1
  <2> HIDE DEF FillMove
  <2>2. CASE slice'[p][v] = slice[p][v] /\ hold'[p][v] = hold[p][v]
    BY <1>1, <2>2, SliceKept DEF SliceMove
  <2>3. CASE slice[p][v].status \in Unanswered /\ slice'[p][v].status \in FilledStatuses
    <3>1. SliceInv(p, v)
      BY DEF RouterInv
    <3> QED
      BY <1>1, <2>3, <3>1 DEF SliceInv, SliceMove, NoSlice, SliceStatuses, FilledStatuses, Unanswered, Unsent
  <2> QED
    BY <2>1, <2>2, <2>3 DEF FillMove
<1>4. Moves
  BY <1>1, <1>3 DEF Moves, OrderMove
<1>5. \A p \in Orders : OrderInv(p)'
  BY <1>1, OrderKept
<1>6. ASSUME NEW a \in Agents PROVE AgentInv(a)'
  <2>1. CASE a = s
    BY <1>1, <2>1 DEF RouterInv, AgentInv
  <2>2. CASE a # s
    BY <1>1, <1>4, <2>2, AgentKept DEF Moves
  <2> QED
    BY <2>1, <2>2
<1>7. HelperInv'
  <2>1. \A p \in Operators : agenda'[p] = agenda[p]
    BY <1>1 DEF Agents
  <2>2. \A t \in Sweepers : \A f \in found'[t] : f.order \in Orders /\ f.venue \in Venues
    BY <1>1 DEF RouterInv, HelperInv
  <2> QED
    BY <1>1, <2>1, <2>2 DEF RouterInv, HelperInv
<1> QED
  BY <1>2, <1>3, <1>4, <1>5, <1>6, <1>7 DEF RouterInv

LEMMA OperatorLooksStep ==
  ASSUME RouterInv, NEW p \in Operators, NEW o \in Orders, NEW v \in Venues,
         OperatorLooks(p, o, v)
  PROVE  RouterInv' /\ Moves
<1>1. /\ agenda[p] = {}
      /\ target' = [target EXCEPT ![p] = <<o, v>>]
      /\ UNCHANGED <<order, slice, hold, shot, row, pc, agenda, seen, found>>
  BY DEF OperatorLooks, rows, venueside, local
<1>2. Shaped'
  BY <1>1 DEF RouterInv, Shaped
<1>3. Moves
  BY <1>1 DEF Moves, OrderMove, SliceMove
<1>4. \A q \in Orders, w \in Venues : SliceInv(q, w)'
  BY <1>1, SliceKept
<1>5. \A q \in Orders : OrderInv(q)'
  BY <1>1, OrderKept
<1>6. \A a \in Agents : AgentInv(a)'
  BY <1>1, <1>3, AgentsKept DEF Moves
<1>7. HelperInv'
  <2>1. ASSUME NEW q \in Operators, target'[q] # <<>>
        PROVE  target'[q] \in Orders \X Venues /\ agenda'[q] = {}
    <3>1. CASE q = p
      BY <1>1, <3>1 DEF RouterInv, Shaped
    <3>2. CASE q # p
      BY <1>1, <2>1, <3>2 DEF RouterInv, Shaped, HelperInv
    <3> QED
      BY <3>1, <3>2
  <2> QED
    BY <1>1, <2>1 DEF RouterInv, HelperInv
<1> QED
  BY <1>2, <1>3, <1>4, <1>5, <1>6, <1>7 DEF RouterInv

LEMMA OperatorReleasesStep ==
  ASSUME RouterInv, NEW p \in Operators, OperatorReleases(p)
  PROVE  RouterInv' /\ Moves
<1> p \in Agents /\ p \notin Orders /\ p \notin Sweepers
  BY AgentsApart
<1> DEFINE o == target[p][1]
           S == Releasable({target[p]})
<1>1. o \in Orders /\ agenda[p] = {} /\ seen[p] = Nothing
  <2>1. target[p] \in Orders \X Venues /\ agenda[p] = {}
    BY DEF OperatorReleases, RouterInv, HelperInv
  <2>2. AgentInv(p)
    BY DEF RouterInv
  <2> QED
    BY <2>1, <2>2 DEF AgentInv
<1>2. /\ slice' = Released(S) /\ hold' = HoldsWithout(S)
      /\ target' = [target EXCEPT ![p] = <<>>]
      /\ UNCHANGED <<shot, row, pc, seen, found>>
  BY GiveBackHolds DEF OperatorReleases, venueside, local
<1>3. agenda' = agenda \/ agenda' = [agenda EXCEPT ![p] = {o}]
  BY DEF OperatorReleases
<1>4. order' = order \/ CasOrder(o, {"RESERVED", "ROUTING"}, "ABORTED")
  BY DEF OperatorReleases
<1>5. /\ \A q \in Orders, v \in Venues : ReleaseMove(q, v)
      /\ SlicesShaped
  BY <1>2, ReleaseSlices
<1> HIDE DEF o, S
<1>6. /\ DOMAIN order' = Orders /\ \A q \in Orders : "status" \in DOMAIN order'[q]
      /\ \A q \in Orders :
           \/ order'[q] = order[q]
           \/ order[q].status \in {"RESERVED", "ROUTING"} /\ order'[q].status = "ABORTED"
  BY <1>1, <1>4 DEF CasOrder, RouterInv, Shaped
<1>7. /\ DOMAIN agenda' = Agents /\ \A a \in Agents \ {p} : agenda'[a] = agenda[a]
      /\ agenda'[p] \subseteq Orders
      /\ DOMAIN target' = Operators /\ target'[p] = <<>>
      /\ \A q \in Operators \ {p} : target'[q] = target[q]
  BY <1>1, <1>2, <1>3 DEF RouterInv, Shaped
<1>8. Shaped'
  BY <1>2, <1>5, <1>6, <1>7 DEF RouterInv, Shaped, SlicesShaped
<1>9. ASSUME NEW q \in Orders, NEW v \in Venues
      PROVE  SliceInv(q, v)' /\ SliceMove(q, v)
  BY <1>2, <1>5, ReleaseKeeps
<1>10. Moves
  BY <1>6, <1>9 DEF Moves, OrderMove
<1>11. ASSUME NEW q \in Orders PROVE OrderInv(q)'
  <2>1. CASE order'[q] = order[q]
    BY <1>2, <2>1, OrderKept
  <2>2. CASE order[q].status \in {"RESERVED", "ROUTING"} /\ order'[q].status = "ABORTED"
    <3>1. OrderInv(q)
      BY DEF RouterInv
    <3> QED
      BY <1>2, <2>2, <3>1 DEF OrderInv, OrderStatuses, Sent, Unfinished, TerminalStatuses
  <2> QED
    BY <1>6, <2>1, <2>2
<1>12. ASSUME NEW a \in Agents PROVE AgentInv(a)'
  <2>1. CASE a = p
    BY <1>1, <1>2, <1>7, <2>1 DEF AgentInv
  <2>2. CASE a # p
    BY <1>2, <1>7, <1>10, <2>2, AgentKept DEF Moves
  <2> QED
    BY <2>1, <2>2
<1>13. HelperInv'
  <2>1. ASSUME NEW q \in Operators, target'[q] # <<>>
        PROVE  target'[q] \in Orders \X Venues /\ agenda'[q] = {}
    BY <1>7, <2>1 DEF RouterInv, HelperInv, Agents
  <2> QED
    BY <1>2, <2>1 DEF RouterInv, HelperInv
<1> QED
  BY <1>8, <1>9, <1>10, <1>11, <1>12, <1>13 DEF RouterInv

----------------------------------------------------------------------------
(***************************************************************************)
(* The invariant                                                           *)
(***************************************************************************)
LEMMA RouterStarts ==
  Init => RouterInv
<1> SUFFICES ASSUME Init PROVE RouterInv
  OBVIOUS
<1>1. /\ order = [o \in Orders |-> [status |-> "NONE", filled |-> 0]]
      /\ slice = [o \in Orders |-> [v \in Venues |-> NoSlice]]
      /\ hold = [o \in Orders |-> [v \in Venues |-> 0]]
      /\ shot = [o \in Orders |-> [v \in Venues |-> NotSent]]
      /\ row = [o \in Orders |-> [v \in Venues |-> NoRow]]
      /\ pc = [o \in Orders |-> "new"]
      /\ agenda = [a \in Agents |-> {}]
      /\ seen = [a \in Agents |-> Nothing]
      /\ found = [s \in Sweepers |-> {}]
      /\ target = [p \in Operators |-> <<>>]
  BY DEF Init
<1>2. Shaped
  BY <1>1 DEF Shaped, NoSlice, NotSent
<1>3. ASSUME NEW o \in Orders, NEW v \in Venues PROVE SliceInv(o, v)
  BY <1>1 DEF SliceInv, NoSlice, NotSent, SliceStatuses, Answers, Unsent
<1>4. ASSUME NEW o \in Orders PROVE OrderInv(o)
  BY <1>1 DEF OrderInv, OrderStatuses
<1>5. ASSUME NEW a \in Agents PROVE AgentInv(a)
  BY <1>1 DEF AgentInv
<1>6. HelperInv
  BY <1>1 DEF HelperInv
<1> QED
  BY <1>2, <1>3, <1>4, <1>5, <1>6 DEF RouterInv

LEMMA RouterSteps ==
  RouterInv /\ [Next]_vars => RouterInv' /\ Moves
<1> SUFFICES ASSUME RouterInv, [Next]_vars PROVE RouterInv' /\ Moves
  OBVIOUS
<1>1. CASE UNCHANGED vars
  <2>1. UNCHANGED <<order, slice, hold, shot, row, pc, agenda, seen, found, target>>
    BY <1>1 DEF vars, rows, venueside, local, helpers
  <2> QED
    BY <2>1, VenueSideStep, NothingMoved
<1>2. ASSUME NEW o \in Orders, Route(o) \/ Die(o) \/ RoutingAbandoned(o)
      PROVE  RouterInv' /\ Moves
  BY <1>2, ClaimStep, ReserveStep, RefuseStep, AbortStep, DispatchStep, ApplyStep,
     DieStep, RoutingAbandonedStep DEF Route
<1>3. ASSUME NEW o \in Orders, NEW v \in Venues,
             Execute(o, v) \/ Breakers(o, v) \/ ReleaseFinished(o, v) \/ LedgerMoves(o, v)
      PROVE  RouterInv' /\ Moves
  BY <1>3, ExecuteStep, RecordStep, OnTripStep, LedgerStep DEF Breakers
<1>4. ASSUME NEW a \in Agents, FinishWrite(a) \/ \E o \in Orders : FinishRead(a, o)
      PROVE  RouterInv' /\ Moves
  BY <1>4, FinishReadStep, FinishWriteStep
<1>5. ASSUME NEW s \in Sweepers, Sweep(s)
      PROVE  RouterInv' /\ Moves
  BY <1>5, SweepStep
<1>6. ASSUME HoldExpired
      PROVE  RouterInv' /\ Moves
  BY <1>6, HoldExpiredStep
<1>7. ASSUME NEW v \in Venues, PauseEnds(v) \/ Reset(v)
      PROVE  RouterInv' /\ Moves
  BY <1>7, BreakerStep
<1>8. ASSUME NEW p \in Operators,
             OperatorReleases(p) \/ \E o \in Orders, v \in Venues : OperatorLooks(p, o, v)
      PROVE  RouterInv' /\ Moves
  BY <1>8, OperatorLooksStep, OperatorReleasesStep
<1> QED
  BY <1>1, <1>2, <1>3, <1>4, <1>5, <1>6, <1>7, <1>8 DEF Next

\* The statuses of slices and orders, the shots, rows and holds that go with
\* them and what every route, sweep and operator has read always fit together
\* (services/execution_router.py, services/execution_dispatcher.py).
THEOREM RouterInvariant == Spec => []RouterInv
<1> QED
  BY RouterStarts, RouterSteps, PTL DEF Spec

\* Whatever the race between dispatch, a tripped breaker, an operator and the
\* sweep, a released slice was never sent, has no ledger row and holds nothing.
THEOREM ReleasedNeverSent == Spec => []ReleasedIsNeverSent
<1>1. RouterInv => ReleasedIsNeverSent
  BY DEF RouterInv, SliceInv, Unsent, ReleasedIsNeverSent
<1> QED
  BY <1>1, RouterInvariant, PTL

\* A route that has answered its caller leaves its order closed or waiting for
\* the ledger, whoever else was finishing it.
THEOREM NothingHalfway == Spec => []RouteLeavesNothingHalfway
<1>1. RouterInv => RouteLeavesNothingHalfway
  BY DEF RouterInv, OrderInv, RouteLeavesNothingHalfway
<1> QED
  BY <1>1, RouterInvariant, PTL

\* No process, however stale its reading, moves the status of an order or a
\* slice back or touches a closed one (models/execution_router.py:10).
THEOREM ForwardOnly == Spec => StatusesMoveForward
<1>1. RouterInv /\ [Next]_vars => [Forward]_vars
  BY RouterSteps, MovesGoForward
<1>2. [][Forward]_vars => StatusesMoveForward
  BY DEF StatusesMoveForward, Forward
<1> QED
  BY <1>1, <1>2, RouterInvariant, PTL DEF Spec
=============================================================================
