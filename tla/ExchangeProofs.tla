--------------------------- MODULE ExchangeProofs ---------------------------
(***************************************************************************)
(* Proofs about the two services that place bets of their own:             *)
(* ExchangeExecution, for any requests, users, keys, orders and mandate,   *)
(* and LegSequence, for any number of legs, odds and stakes.               *)
(***************************************************************************)
EXTENDS ExchangeExecution, LegSequence, SumFacts
-----------------------------------------------------------------------------
(***************************************************************************)
(* ExchangeExecution.                                                      *)
(*                                                                         *)
(* No lock is held over the call and the last write of a request does not  *)
(* look at its row.  What makes both right is that a request between its   *)
(* first commit and its last one still owns a pending row (OwnsItsRow),    *)
(* and that the row is then too young for the sweep (Young).               *)
(***************************************************************************)

StatusOf(r) == exRow[KeyOf(r)].status

OneInserts ==
  \A q, r \in ExRequests :
    stage[q] = "inserted" /\ stage[r] = "inserted" /\ KeyOf(q) = KeyOf(r) => q = r

\* The key is free until the commit; from then on it is this request's row, as
\* it wrote it, to the end of its call.
OwnsItsRow(r) ==
  /\ stage[r] = "inserted" => StatusOf(r) = "NONE"
  /\ stage[r] \in {"saved", "calling", "writing"} =>
       exRow[KeyOf(r)].by = r /\ StatusOf(r) = "PENDING_NETWORK"
  /\ stage[r] = "saved" => sent[KeyOf(r)] = 0

\* One unit for each step since the flush, and the one it is in.
Young(r) ==
  /\ stage[r] = "saved" => placedAgo[KeyOf(r)] <= 1 + since[r]
  /\ stage[r] = "calling" => placedAgo[KeyOf(r)] <= 2 + since[r]
  /\ stage[r] = "writing" => placedAgo[KeyOf(r)] <= 3 + since[r]

\* A bet at the exchange is the one of the key's row; it is only given up when
\* the exchange has refused it.
BetIsRows(r) ==
  /\ atVenue[r] # "nothing" =>
       /\ exRow[KeyOf(r)].by = r /\ StatusOf(r) # "NONE"
       /\ stage[r] \in {"calling", "writing", "answered"}
  /\ stage[r] = "writing" =>
       /\ outcome[r] # "NONE"
       /\ outcome[r] = "REJECTED" => atVenue[r] = "refused"

RowIsBets(k) ==
  /\ sent[k] \in {0, 1}
  /\ sent[k] = 1 => exRow[k].status # "NONE"
  /\ exRow[k].status # "NONE" =>
       /\ exRow[k].by \in ExRequests /\ KeyOf(exRow[k].by) = k
       /\ stage[exRow[k].by] \in {"saved", "calling", "writing", "answered"}
  /\ exRow[k].status = "REJECTED" =>
       /\ stage[exRow[k].by] = "answered"
       /\ atVenue[exRow[k].by] \notin {"on the wire", "live"}

ExInv ==
  /\ ExTypeOK
  /\ OneInserts
  /\ \A r \in ExRequests : OwnsItsRow(r) /\ Young(r) /\ BetIsRows(r)
  /\ \A k \in ExKeys : RowIsBets(k)

ExRows == {NoBet} \cup [by : ExRequests, status : ExStatuses]

-----------------------------------------------------------------------------
LEMMA ExFacts ==
  ASSUME ExTypeOK
  PROVE  /\ \A r \in ExRequests : KeyOf(r) \in ExKeys /\ UserOf(r) \in ExUsers
         /\ \A k \in ExKeys : exRow[k] \in ExRows
         /\ \A k \in ExKeys : exRow[k].status \in ExStatuses \cup {"NONE"}
         /\ \A k \in ExKeys : exRow[k].status # "NONE" =>
              exRow[k] \in [by : ExRequests, status : ExStatuses]
         /\ "NONE" \notin ExStatuses
  <1>1. \A r \in ExRequests : exOrder[r] \in ExOrder
    BY DEF ExTypeOK
  <1>2. \A r \in ExRequests : KeyOf(r) \in ExKeys /\ UserOf(r) \in ExUsers
    BY <1>1 DEF ExOrder, KeyOf, UserOf
  <1>3. \A k \in ExKeys : exRow[k] \in ExRows
    BY DEF ExTypeOK, ExRows
  <1>4. NoBet.status = "NONE" /\ "NONE" \notin ExStatuses
    BY DEF NoBet, ExStatuses, ExposureStatuses
  <1>5. QED  BY <1>2, <1>3, <1>4 DEF ExRows

\* What the proofs use of a request's place in the state.
LEMMA RequestFacts ==
  ASSUME ExInv, NEW r \in ExRequests
  PROVE  /\ KeyOf(r) \in ExKeys /\ UserOf(r) \in ExUsers
         /\ stage[r] \in ExStages /\ since[r] \in 0..1
         /\ placedAgo[KeyOf(r)] \in 0..(StaleAfter + 1)
         /\ exRow[KeyOf(r)] \in ExRows
         /\ OwnsItsRow(r) /\ Young(r) /\ BetIsRows(r) /\ RowIsBets(KeyOf(r))
  BY ExFacts DEF ExInv, ExTypeOK

\* A request goes on to another stage.
LEMMA OneMoves ==
  ASSUME ExInv, NEW r \in ExRequests, NEW s \in ExStages, Enters(r, s), exOrder' = exOrder
  PROVE  /\ stage' \in [ExRequests -> ExStages] /\ since' \in [ExRequests -> 0..1]
         /\ stage'[r] = s /\ since'[r] = 0
         /\ \A q \in ExRequests \ {r} : stage'[q] = stage[q] /\ since'[q] = since[q]
         /\ \A q \in ExRequests : KeyOf(q)' = KeyOf(q)
         /\ s # "inserted" => OneInserts'
  <1>1. /\ stage' = [stage EXCEPT ![r] = s] /\ since' = [since EXCEPT ![r] = 0]
        /\ stage \in [ExRequests -> ExStages] /\ since \in [ExRequests -> 0..1]
    BY DEF Enters, ExInv, ExTypeOK
  <1>2. /\ stage' \in [ExRequests -> ExStages] /\ stage'[r] = s
        /\ \A q \in ExRequests \ {r} : stage'[q] = stage[q]
    BY <1>1
  <1>3. /\ since' \in [ExRequests -> 0..1] /\ since'[r] = 0
        /\ \A q \in ExRequests \ {r} : since'[q] = since[q]
    BY <1>1
  <1>4. \A q \in ExRequests : KeyOf(q)' = KeyOf(q)
    BY DEF KeyOf
  <1>5. s # "inserted" => OneInserts'
    BY <1>2, <1>4 DEF ExInv, OneInserts
  <1>6. QED  BY <1>2, <1>3, <1>4, <1>5

\* A request of which nothing that concerns it changes.
LEMMA RequestStays ==
  ASSUME ExInv, NEW q \in ExRequests, KeyOf(q)' = KeyOf(q),
         stage'[q] = stage[q], since'[q] = since[q], outcome'[q] = outcome[q],
         atVenue'[q] = atVenue[q], exRow'[KeyOf(q)] = exRow[KeyOf(q)],
         placedAgo'[KeyOf(q)] = placedAgo[KeyOf(q)], sent'[KeyOf(q)] = sent[KeyOf(q)]
  PROVE  (OwnsItsRow(q) /\ Young(q) /\ BetIsRows(q))'
  BY DEF ExInv, OwnsItsRow, Young, BetIsRows, StatusOf

Late == {"saved", "calling", "writing", "answered"}

\* A row that stays; its request was not answered, or stays so.
LEMMA RowStays ==
  ASSUME ExInv, NEW k \in ExKeys, exRow'[k] = exRow[k], sent'[k] = sent[k],
         \A q \in ExRequests : KeyOf(q)' = KeyOf(q),
         \A q \in ExRequests : stage[q] \in Late => stage'[q] \in Late,
         \A q \in ExRequests : stage[q] = "answered" =>
            stage'[q] = "answered" /\ (atVenue'[q] = atVenue[q] \/ atVenue[q] = "on the wire")
  PROVE  RowIsBets(k)'
  <1>1. RowIsBets(k)
    BY DEF ExInv
  <1>2. /\ sent'[k] \in {0, 1} /\ (sent'[k] = 1 => exRow'[k].status # "NONE")
    BY <1>1 DEF RowIsBets
  <1>3. ASSUME exRow[k].status # "NONE"
        PROVE  /\ exRow[k].by \in ExRequests /\ KeyOf(exRow[k].by)' = k
               /\ stage'[exRow[k].by] \in Late
    BY <1>1, <1>3 DEF RowIsBets, Late
  <1>4. ASSUME exRow[k].status = "REJECTED"
        PROVE  /\ stage'[exRow[k].by] = "answered"
               /\ atVenue'[exRow[k].by] \notin {"on the wire", "live"}
    BY <1>1, <1>3, <1>4 DEF RowIsBets
  <1>5. QED  BY <1>2, <1>3, <1>4 DEF RowIsBets, Late

LEMMA ExInvInit == ExInit => ExInv
  <1> SUFFICES ASSUME ExInit PROVE ExInv
    OBVIOUS
  <1>1. ExTypeOK
    <2>1. /\ exOrder \in [ExRequests -> ExOrder]
          /\ placedAgo \in [ExKeys -> 0..(StaleAfter + 1)]
      BY ExAssumption DEF ExAssumption, ExInit, StaleAfter
    <2>2. QED  BY <2>1 DEF ExInit, ExTypeOK, ExStages
  <1>2. \A k \in ExKeys : exRow[k].status = "NONE" /\ sent[k] = 0
    BY DEF ExInit, NoBet
  <1>3. \A r \in ExRequests : stage[r] = "preflight" /\ atVenue[r] = "nothing"
    BY DEF ExInit
  <1>4. ASSUME NEW k \in ExKeys PROVE RowIsBets(k)
    <2>1. exRow[k].status = "NONE" /\ sent[k] = 0
      BY <1>2
    <2>2. sent[k] \in {0, 1} /\ sent[k] # 1 /\ exRow[k].status # "REJECTED"
      BY <2>1
    <2>3. QED  BY <2>1, <2>2, Zenon DEF RowIsBets
  <1>5. \A r \in ExRequests : OwnsItsRow(r) /\ Young(r) /\ BetIsRows(r)
    BY <1>3 DEF OwnsItsRow, Young, BetIsRows
  <1>6. QED  BY <1>1, <1>3, <1>4, <1>5 DEF ExInv, OneInserts

-----------------------------------------------------------------------------
(* Phase 1. *)

\* A request is answered before it has a row, goes to wait for the lock, or is
\* stranded: what it has at the exchange and in the ledger stays as it is.
LEMMA LeavingKeeps ==
  ASSUME ExInv, NEW r \in ExRequests, NEW s \in {"waiting", "answered"}, Enters(r, s),
         s = "waiting" => stage[r] = "preflight",
         UNCHANGED <<exOrder, outcome, exRow, placedAgo, atVenue, sent>>,
         mandate' \in [ExUsers -> ExRequests \cup {"free"}]
  PROVE  ExInv'
  <1>1. s \in ExStages
    BY DEF ExStages
  <1>2. ExTypeOK'
    BY <1>1, OneMoves DEF ExInv, ExTypeOK
  <1>3. OneInserts'
    BY <1>1, OneMoves
  <1>4. ASSUME NEW q \in ExRequests PROVE (OwnsItsRow(q) /\ Young(q) /\ BetIsRows(q))'
    <2>1. CASE q = r
      <3>1. OwnsItsRow(r)' /\ Young(r)'
        BY <1>1, OneMoves DEF OwnsItsRow, Young
      <3>2. BetIsRows(r)'
        BY <1>1, OneMoves, RequestFacts DEF BetIsRows, StatusOf
      <3>3. QED  BY <2>1, <3>1, <3>2
    <2>2. CASE q # r
      BY <1>1, <2>2, OneMoves, RequestStays
    <2>3. QED  BY <2>1, <2>2
  <1>5. ASSUME NEW k \in ExKeys PROVE RowIsBets(k)'
    <2>1. \A q \in ExRequests :
               /\ stage[q] \in Late => stage'[q] \in Late
               /\ stage[q] = "answered" => stage'[q] = "answered"
      BY <1>1, OneMoves DEF Late
    <2>2. QED  BY <1>1, <2>1, OneMoves, RowStays
  <1>6. QED  BY <1>2, <1>3, <1>4, <1>5 DEF ExInv

LEMMA ReserveKeeps == ASSUME ExInv, NEW r \in ExRequests, Reserve(r) PROVE ExInv'
  <1>1. /\ stage[r] = "waiting"
        /\ UNCHANGED <<exOrder, outcome, exRow, placedAgo, atVenue, sent>>
        /\ \/ Enters(r, "answered") /\ mandate' = mandate
           \/ /\ Enters(r, "inserted") /\ mandate' = [mandate EXCEPT ![UserOf(r)] = r]
              /\ StatusOf(r) = "NONE"
              /\ \A q \in ExRequests : stage[q] = "inserted" => KeyOf(q) # KeyOf(r)
    BY DEF Reserve, KeyTaken, Inserting, StatusOf
  <1>2. CASE Enters(r, "answered") /\ mandate' = mandate
    BY <1>1, <1>2, LeavingKeeps DEF ExInv, ExTypeOK
  <1>3. CASE /\ Enters(r, "inserted") /\ mandate' = [mandate EXCEPT ![UserOf(r)] = r]
             /\ StatusOf(r) = "NONE"
             /\ \A q \in ExRequests : stage[q] = "inserted" => KeyOf(q) # KeyOf(r)
    <2>1. "inserted" \in ExStages
      BY DEF ExStages
    <2>2. ExTypeOK'
      <3>1. mandate' \in [ExUsers -> ExRequests \cup {"free"}]
        BY <1>3, RequestFacts DEF ExInv, ExTypeOK
      <3>2. QED  BY <1>1, <1>3, <2>1, <3>1, OneMoves DEF ExInv, ExTypeOK
    <2>3. OneInserts'
      BY <1>1, <1>3, <2>1, OneMoves DEF ExInv, OneInserts
    <2>4. ASSUME NEW q \in ExRequests PROVE (OwnsItsRow(q) /\ Young(q) /\ BetIsRows(q))'
      <3>1. CASE q = r
        <4>1. atVenue[r] = "nothing"
          BY <1>1, RequestFacts DEF BetIsRows
        <4>2. QED
          BY <1>1, <1>3, <2>1, <3>1, <4>1, OneMoves DEF OwnsItsRow, Young, BetIsRows, StatusOf
      <3>2. CASE q # r
        BY <1>1, <1>3, <2>1, <3>2, OneMoves, RequestStays
      <3>3. QED  BY <3>1, <3>2
    <2>5. ASSUME NEW k \in ExKeys PROVE RowIsBets(k)'
      <3>1. \A q \in ExRequests :
               /\ stage[q] \in Late => stage'[q] \in Late
               /\ stage[q] = "answered" => stage'[q] = "answered"
        BY <1>1, <1>3, <2>1, OneMoves DEF Late
      <3>2. QED  BY <1>1, <1>3, <2>1, <3>1, OneMoves, RowStays
    <2>6. QED  BY <2>2, <2>3, <2>4, <2>5 DEF ExInv
  <1>4. QED  BY <1>1, <1>2, <1>3

LEMMA CommitRowKeeps == ASSUME ExInv, NEW r \in ExRequests, CommitRow(r) PROVE ExInv'
  <1> DEFINE k == KeyOf(r)
             row == [by |-> r, status |-> "PENDING_NETWORK"]
  <1>1. /\ stage[r] = "inserted" /\ Enters(r, "saved")
        /\ exRow' = [exRow EXCEPT ![k] = row]
        /\ placedAgo' = [placedAgo EXCEPT ![k] = since[r]]
        /\ mandate' = [mandate EXCEPT ![UserOf(r)] = "free"]
        /\ UNCHANGED <<exOrder, outcome, atVenue, sent>>
    BY DEF CommitRow
  <1>2. /\ row \in ExRows /\ row.by = r /\ row.status = "PENDING_NETWORK"
    BY DEF ExRows, ExStatuses, ExposureStatuses
  <1>3. /\ k \in ExKeys /\ UserOf(r) \in ExUsers /\ exRow[k].status = "NONE"
        /\ since[r] \in 0..1 /\ since[r] \in 0..(StaleAfter + 1)
    BY <1>1, RequestFacts DEF OwnsItsRow, StatusOf, StaleAfter
  <1> HIDE DEF row
  <1>4. /\ exRow'[k] = row /\ exRow' \in [ExKeys -> ExRows]
        /\ \A j \in ExKeys \ {k} : exRow'[j] = exRow[j]
    BY <1>1, <1>2, <1>3 DEF ExInv, ExTypeOK, ExRows
  <1>5. /\ placedAgo'[k] = since[r] /\ placedAgo' \in [ExKeys -> 0..(StaleAfter + 1)]
        /\ \A j \in ExKeys \ {k} : placedAgo'[j] = placedAgo[j]
    BY <1>1, <1>3 DEF ExInv, ExTypeOK
  <1>6. "saved" \in ExStages
    BY DEF ExStages
  <1>7. ExTypeOK'
    <2>1. mandate' \in [ExUsers -> ExRequests \cup {"free"}]
      BY <1>1, <1>3 DEF ExInv, ExTypeOK
    <2>2. QED  BY <1>1, <1>4, <1>5, <1>6, <2>1, OneMoves DEF ExInv, ExTypeOK, ExRows
  <1>8. OneInserts'
    BY <1>1, <1>6, OneMoves
  <1>9. sent[k] = 0 /\ atVenue[r] = "nothing"
    <2>1. BetIsRows(r) /\ RowIsBets(k)
      BY RequestFacts
    <2>2. sent[k] = 0
      BY <1>3, <2>1 DEF RowIsBets
    <2>3. atVenue[r] = "nothing"
      BY <1>1, <2>1 DEF BetIsRows
    <2>4. QED  BY <2>2, <2>3
  <1>10. ASSUME NEW q \in ExRequests PROVE (OwnsItsRow(q) /\ Young(q) /\ BetIsRows(q))'
    <2>1. CASE q = r
      BY <1>1, <1>2, <1>3, <1>4, <1>5, <1>6, <1>9, <2>1, OneMoves
      DEF OwnsItsRow, Young, BetIsRows, StatusOf
    <2>2. CASE q # r /\ KeyOf(q) = k
      <3>1. /\ stage[q] \notin {"inserted", "saved", "calling", "writing"}
            /\ atVenue[q] = "nothing"
        BY <1>1, <1>3, <2>2, RequestFacts DEF OwnsItsRow, BetIsRows, StatusOf, ExInv, OneInserts
      <3>2. QED
        BY <1>1, <1>6, <2>2, <3>1, OneMoves DEF OwnsItsRow, Young, BetIsRows
    <2>3. CASE q # r /\ KeyOf(q) # k
      BY <1>1, <1>4, <1>5, <1>6, <2>3, OneMoves, RequestStays, RequestFacts
    <2>4. QED  BY <2>1, <2>2, <2>3
  <1>11. ASSUME NEW j \in ExKeys PROVE RowIsBets(j)'
    <2>1. CASE j = k
      BY <1>1, <1>2, <1>4, <1>6, <1>9, <2>1, OneMoves DEF RowIsBets
    <2>2. CASE j # k
      <3>1. \A q \in ExRequests :
               /\ stage[q] \in Late => stage'[q] \in Late
               /\ stage[q] = "answered" => stage'[q] = "answered"
        BY <1>1, <1>6, OneMoves DEF Late
      <3>2. QED  BY <1>1, <1>4, <1>6, <2>2, <3>1, OneMoves, RowStays
    <2>3. QED  BY <2>1, <2>2
  <1>12. QED  BY <1>7, <1>8, <1>10, <1>11 DEF ExInv

-----------------------------------------------------------------------------
(* Phase 2, and the exchange. *)

LEMMA SendKeeps == ASSUME ExInv, NEW r \in ExRequests, Send(r) PROVE ExInv'
  <1> DEFINE k == KeyOf(r)
  <1>1. /\ stage[r] = "saved" /\ Enters(r, "calling")
        /\ atVenue' = [atVenue EXCEPT ![r] = "on the wire"]
        /\ sent' = [sent EXCEPT ![k] = sent[k] + 1]
        /\ UNCHANGED <<exOrder, outcome, mandate, exRow, placedAgo>>
    BY DEF Send
  <1>2. /\ k \in ExKeys /\ exRow[k].by = r /\ StatusOf(r) = "PENDING_NETWORK"
        /\ sent[k] = 0 /\ placedAgo[k] <= 1 + since[r]
        /\ since[r] \in 0..1 /\ placedAgo[k] \in 0..(StaleAfter + 1)
    BY <1>1, RequestFacts DEF OwnsItsRow, Young
  <1>3. /\ atVenue'[r] = "on the wire"
        /\ atVenue' \in [ExRequests -> {"nothing", "on the wire", "live", "refused", "lost"}]
        /\ \A q \in ExRequests \ {r} : atVenue'[q] = atVenue[q]
    BY <1>1 DEF ExInv, ExTypeOK
  <1>4. /\ sent'[k] = 1 /\ sent' \in [ExKeys -> Nat]
        /\ \A j \in ExKeys \ {k} : sent'[j] = sent[j]
    <2>1. sent[k] + 1 = 1 /\ k \in ExKeys
      BY <1>2
    <2>2. sent' = [sent EXCEPT ![k] = 1] /\ sent \in [ExKeys -> Nat]
      BY <1>1, <2>1 DEF ExInv, ExTypeOK
    <2>3. QED  BY <2>1, <2>2
  <1>5. "calling" \in ExStages
    BY DEF ExStages
  <1>6. ExTypeOK'
    BY <1>1, <1>3, <1>4, <1>5, OneMoves DEF ExInv, ExTypeOK
  <1>7. OneInserts'
    BY <1>1, <1>5, OneMoves
  <1>8. ASSUME NEW q \in ExRequests PROVE (OwnsItsRow(q) /\ Young(q) /\ BetIsRows(q))'
    <2>1. CASE q = r
      <3>1. placedAgo'[k] <= 2 + since'[r]
        <4>1. since'[r] = 0 /\ placedAgo' = placedAgo
          BY <1>1, <1>5, OneMoves
        <4>2. placedAgo[k] <= 2
          BY <1>2 DEF StaleAfter
        <4>3. QED  BY <4>1, <4>2
      <3>2. QED
        BY <1>1, <1>2, <1>3, <1>5, <2>1, <3>1, OneMoves
        DEF OwnsItsRow, Young, BetIsRows, StatusOf
    <2>2. CASE q # r /\ KeyOf(q) = k
      <3>1. stage[q] \notin {"saved", "calling", "writing"} /\ atVenue[q] = "nothing"
        BY <1>2, <2>2, RequestFacts DEF OwnsItsRow, BetIsRows
      <3>2. stage[q] # "inserted"
        BY <1>2, <2>2, RequestFacts DEF OwnsItsRow, StatusOf
      <3>3. QED
        BY <1>1, <1>3, <1>5, <2>2, <3>1, <3>2, OneMoves DEF OwnsItsRow, Young, BetIsRows
    <2>3. CASE q # r /\ KeyOf(q) # k
      BY <1>1, <1>3, <1>4, <1>5, <2>3, OneMoves, RequestStays, RequestFacts
    <2>4. QED  BY <2>1, <2>2, <2>3
  <1>9. ASSUME NEW j \in ExKeys PROVE RowIsBets(j)'
    <2>0. stage'[r] = "calling" /\ \A q \in ExRequests \ {r} : stage'[q] = stage[q]
      BY <1>1, <1>5, OneMoves
    <2>1. CASE j = k
      <3>1. /\ exRow'[k].status = "PENDING_NETWORK" /\ exRow'[k].by = r
            /\ KeyOf(r)' = k /\ sent'[k] = 1
        BY <1>1, <1>2, <1>4 DEF StatusOf, KeyOf
      <3>2. QED  BY <2>0, <2>1, <3>1 DEF RowIsBets
    <2>2. CASE j # k
      <3>1. \A q \in ExRequests :
               /\ stage[q] \in Late => stage'[q] \in Late
               /\ stage[q] = "answered" =>
                    stage'[q] = "answered" /\ atVenue'[q] = atVenue[q]
        BY <1>1, <1>3, <2>0 DEF Late
      <3>2. QED  BY <1>1, <1>4, <1>5, <2>2, <3>1, OneMoves, RowStays
    <2>3. QED  BY <2>1, <2>2
  <1>10. QED  BY <1>6, <1>7, <1>8, <1>9 DEF ExInv

LEMMA ArriveKeeps == ASSUME ExInv, NEW r \in ExRequests, Arrive(r) PROVE ExInv'
  <1>1. /\ atVenue[r] = "on the wire"
        /\ \E v \in {"live", "refused", "lost"} : atVenue' = [atVenue EXCEPT ![r] = v]
        /\ UNCHANGED <<exOrder, stage, since, outcome, mandate, exRow, placedAgo, sent>>
    BY DEF Arrive
  <1>2. /\ atVenue' \in [ExRequests -> {"nothing", "on the wire", "live", "refused", "lost"}]
        /\ atVenue'[r] # "nothing"
        /\ \A q \in ExRequests \ {r} : atVenue'[q] = atVenue[q]
    BY <1>1 DEF ExInv, ExTypeOK
  <1>3. ExTypeOK' /\ OneInserts' /\ \A q \in ExRequests : KeyOf(q)' = KeyOf(q)
    BY <1>1, <1>2 DEF ExInv, ExTypeOK, OneInserts, KeyOf
  <1>4. ASSUME NEW q \in ExRequests PROVE (OwnsItsRow(q) /\ Young(q) /\ BetIsRows(q))'
    <2>1. CASE q = r
      BY <1>1, <1>2, <1>3, <2>1, RequestFacts DEF OwnsItsRow, Young, BetIsRows, StatusOf
    <2>2. CASE q # r
      BY <1>1, <1>2, <1>3, <2>2, RequestStays
    <2>3. QED  BY <2>1, <2>2
  <1>5. ASSUME NEW k \in ExKeys PROVE RowIsBets(k)'
    <2>1. \A q \in ExRequests : atVenue'[q] = atVenue[q] \/ atVenue[q] = "on the wire"
      BY <1>1, <1>2
    <2>2. QED  BY <1>1, <1>3, <2>1, RowStays
  <1>6. QED  BY <1>3, <1>4, <1>5 DEF ExInv

LEMMA AnsweredKeeps ==
  ASSUME ExInv, NEW r \in ExRequests, Accepted(r) \/ Rejected(r) \/ Doubt(r)
  PROVE  ExInv'
  <1> DEFINE k == KeyOf(r)
  <1>1. PICK status \in {"ACCEPTED", "REJECTED", "UNKNOWN"} :
          /\ stage[r] = "calling" /\ Enters(r, "writing")
          /\ outcome' = [outcome EXCEPT ![r] = status]
          /\ status = "REJECTED" => atVenue[r] = "refused"
          /\ UNCHANGED <<exOrder, mandate, exRow, placedAgo, atVenue, sent>>
    BY DEF Accepted, Rejected, Doubt, InDoubt, Answered
  <1>2. /\ outcome' \in [ExRequests -> {"NONE"} \cup ExStatuses] /\ outcome'[r] = status
        /\ \A q \in ExRequests \ {r} : outcome'[q] = outcome[q]
    BY <1>1 DEF ExInv, ExTypeOK, ExStatuses, ExposureStatuses
  <1>3. "writing" \in ExStages
    BY DEF ExStages
  <1>4. ExTypeOK'
    BY <1>1, <1>2, <1>3, OneMoves DEF ExInv, ExTypeOK
  <1>5. OneInserts'
    BY <1>1, <1>3, OneMoves
  <1>6. ASSUME NEW q \in ExRequests PROVE (OwnsItsRow(q) /\ Young(q) /\ BetIsRows(q))'
    <2>1. CASE q = r
      <3>1. OwnsItsRow(r)'
        BY <1>1, <1>3, OneMoves, RequestFacts DEF OwnsItsRow, StatusOf
      <3>2. Young(r)'
        <4>1. /\ placedAgo[k] <= 2 + since[r] /\ since[r] \in 0..1
              /\ placedAgo[k] \in 0..(StaleAfter + 1)
          BY <1>1, RequestFacts DEF Young
        <4>2. placedAgo'[k] <= 3 + since'[r]
          BY <1>1, <1>3, <4>1, OneMoves DEF StaleAfter
        <4>3. QED  BY <1>1, <1>3, <4>2, OneMoves DEF Young
      <3>3. BetIsRows(r)'
        BY <1>1, <1>2, <1>3, OneMoves, RequestFacts DEF BetIsRows, StatusOf
      <3>4. QED  BY <2>1, <3>1, <3>2, <3>3
    <2>2. CASE q # r
      BY <1>1, <1>2, <1>3, <2>2, OneMoves, RequestStays
    <2>3. QED  BY <2>1, <2>2
  <1>7. ASSUME NEW j \in ExKeys PROVE RowIsBets(j)'
    <2>1. \A q \in ExRequests :
               /\ stage[q] \in Late => stage'[q] \in Late
               /\ stage[q] = "answered" => stage'[q] = "answered"
      BY <1>1, <1>3, OneMoves DEF Late
    <2>2. QED  BY <1>1, <1>3, <2>1, OneMoves, RowStays
  <1>8. QED  BY <1>4, <1>5, <1>6, <1>7 DEF ExInv

-----------------------------------------------------------------------------
(* Phase 3, and the admin. *)

LEMMA FinalizeKeeps == ASSUME ExInv, NEW r \in ExRequests, Finalize(r) PROVE ExInv'
  <1> DEFINE k == KeyOf(r)
             row == [by |-> r, status |-> outcome[r]]
  <1>1. /\ stage[r] = "writing" /\ Enters(r, "answered")
        /\ exRow' = [exRow EXCEPT ![k].status = outcome[r]]
        /\ UNCHANGED <<exOrder, outcome, mandate, placedAgo, atVenue, sent>>
    BY DEF Finalize
  <1>2. /\ k \in ExKeys /\ exRow[k].by = r /\ exRow[k].status = "PENDING_NETWORK"
        /\ outcome[r] \in ExStatuses
        /\ outcome[r] = "REJECTED" => atVenue[r] = "refused"
    <2>1. OwnsItsRow(r) /\ BetIsRows(r) /\ k \in ExKeys
      BY RequestFacts
    <2>2. outcome[r] \in {"NONE"} \cup ExStatuses
      BY DEF ExInv, ExTypeOK
    <2>3. QED  BY <1>1, <2>1, <2>2 DEF OwnsItsRow, BetIsRows, StatusOf
  <1>3. row \in [by : ExRequests, status : ExStatuses] /\ row.by = r /\ row.status = outcome[r]
    BY <1>2
  <1>4. exRow' = [exRow EXCEPT ![k] = row]
    <2>1. exRow[k] \in [by : ExRequests, status : ExStatuses]
      BY <1>2, ExFacts DEF ExInv
    <2>2. [exRow[k] EXCEPT !.status = outcome[r]] = row
      BY <1>2, <2>1
    <2>3. exRow' = [exRow EXCEPT ![k] = [exRow[k] EXCEPT !.status = outcome[r]]]
      BY <1>1
    <2>4. QED  BY <2>2, <2>3
  <1> HIDE DEF row
  <1>5. /\ exRow'[k] = row /\ exRow' \in [ExKeys -> {NoBet} \cup [by : ExRequests, status : ExStatuses]]
        /\ \A j \in ExKeys \ {k} : exRow'[j] = exRow[j]
    BY <1>2, <1>3, <1>4 DEF ExInv, ExTypeOK
  <1>6. "answered" \in ExStages
    BY DEF ExStages
  <1>7. ExTypeOK'
    BY <1>1, <1>5, <1>6, OneMoves DEF ExInv, ExTypeOK
  <1>8. OneInserts'
    BY <1>1, <1>6, OneMoves
  <1>9. /\ stage'[r] = "answered" /\ \A q \in ExRequests \ {r} : stage'[q] = stage[q]
        /\ \A q \in ExRequests : KeyOf(q)' = KeyOf(q)
    BY <1>1, <1>6, OneMoves
  <1>10. outcome[r] # "NONE" /\ exRow'[k].status # "NONE"
    <2>1. "NONE" \notin ExStatuses
      BY DEF ExStatuses, ExposureStatuses
    <2>2. QED  BY <1>2, <1>3, <1>5, <2>1
  <1>11. ASSUME NEW q \in ExRequests PROVE (OwnsItsRow(q) /\ Young(q) /\ BetIsRows(q))'
    <2>1. CASE q = r
      <3>1. exRow'[KeyOf(r)'].by = r /\ exRow'[KeyOf(r)'].status # "NONE"
        BY <1>3, <1>5, <1>9, <1>10
      <3>2. OwnsItsRow(r)' /\ Young(r)'
        BY <1>9 DEF OwnsItsRow, Young
      <3>3. BetIsRows(r)'
        BY <1>9, <3>1 DEF BetIsRows, StatusOf
      <3>4. QED  BY <2>1, <3>2, <3>3
    <2>2. CASE q # r /\ KeyOf(q) = k
      <3>1. /\ stage[q] \notin {"inserted", "saved", "calling", "writing"}
            /\ atVenue[q] = "nothing"
        BY <1>2, <2>2, RequestFacts DEF OwnsItsRow, BetIsRows, StatusOf
      <3>2. QED
        BY <1>1, <1>9, <2>2, <3>1 DEF OwnsItsRow, Young, BetIsRows
    <2>3. CASE q # r /\ KeyOf(q) # k
      BY <1>1, <1>5, <1>6, <2>3, OneMoves, RequestStays, RequestFacts
    <2>4. QED  BY <2>1, <2>2, <2>3
  <1>12. ASSUME NEW j \in ExKeys PROVE RowIsBets(j)'
    <2>1. CASE j = k
      <3>1. sent'[k] \in {0, 1}
        BY <1>1, RequestFacts DEF RowIsBets
      <3>2. outcome[r] = "REJECTED" => atVenue'[r] \notin {"on the wire", "live"}
        BY <1>1, <1>2
      <3>3. exRow'[k].by = r /\ exRow'[k].status = outcome[r] /\ KeyOf(r)' = k
        BY <1>3, <1>5, <1>9
      <3>4. QED  BY <1>9, <1>10, <2>1, <3>1, <3>2, <3>3 DEF RowIsBets
    <2>2. CASE j # k
      <3>1. \A q \in ExRequests :
               /\ stage[q] \in Late => stage'[q] \in Late
               /\ stage[q] = "answered" => stage'[q] = "answered"
        BY <1>9 DEF Late
      <3>2. QED  BY <1>1, <1>5, <1>9, <2>2, <3>1, RowStays
    <2>3. QED  BY <2>1, <2>2
  <1>13. QED  BY <1>7, <1>8, <1>11, <1>12 DEF ExInv

LEMMA StrandKeeps == ASSUME ExInv, NEW r \in ExRequests, Strand(r) PROVE ExInv'
  <1>1. mandate' \in [ExUsers -> ExRequests \cup {"free"}]
    BY DEF Strand, ExInv, ExTypeOK
  <1>2. QED  BY <1>1, LeavingKeeps DEF Strand

\* The row of a request in its call is too young for the sweep.
LEMMA SweptIsOver ==
  ASSUME ExInv, NEW r \in ExRequests, Stranded(KeyOf(r))
  PROVE  stage[r] \notin {"inserted", "saved", "calling", "writing"}
  <1>1. /\ since[r] \in 0..1 /\ placedAgo[KeyOf(r)] \in 0..(StaleAfter + 1)
        /\ OwnsItsRow(r) /\ Young(r)
    BY RequestFacts
  <1>2. StatusOf(r) = "PENDING_NETWORK" /\ ~(placedAgo[KeyOf(r)] <= 3 + since[r])
        /\ ~(placedAgo[KeyOf(r)] <= 2 + since[r]) /\ ~(placedAgo[KeyOf(r)] <= 1 + since[r])
    BY <1>1 DEF Stranded, StatusOf, StaleAfter
  <1>3. QED  BY <1>1, <1>2 DEF OwnsItsRow, Young

\* An admin changes rows of requests that are not in their call.
LEMMA RulingKeeps ==
  ASSUME ExInv, UNCHANGED <<exOrder, stage, since, outcome, mandate, placedAgo, atVenue, sent>>,
         exRow' \in [ExKeys -> {NoBet} \cup [by : ExRequests, status : ExStatuses]],
         \A k \in ExKeys :
           \/ exRow'[k] = exRow[k]
           \/ /\ exRow[k].status # "NONE" /\ exRow'[k].status # "NONE"
              /\ exRow'[k].by = exRow[k].by
              /\ \A r \in ExRequests : KeyOf(r) = k =>
                   stage[r] \notin {"inserted", "saved", "calling", "writing"}
              /\ exRow'[k].status = "REJECTED" => atVenue[exRow[k].by] \notin {"on the wire", "live"}
  PROVE  ExInv'
  <1>1. ExTypeOK' /\ OneInserts' /\ \A q \in ExRequests : KeyOf(q)' = KeyOf(q)
    BY DEF ExInv, ExTypeOK, OneInserts, KeyOf
  <1>2. ASSUME NEW q \in ExRequests PROVE (OwnsItsRow(q) /\ Young(q) /\ BetIsRows(q))'
    <2>1. KeyOf(q) \in ExKeys
      BY RequestFacts
    <2>2. CASE exRow'[KeyOf(q)] = exRow[KeyOf(q)]
      BY <1>1, <2>2, RequestStays
    <2>3. CASE exRow'[KeyOf(q)] # exRow[KeyOf(q)]
      <3>1. /\ stage[q] \notin {"inserted", "saved", "calling", "writing"}
            /\ exRow'[KeyOf(q)].by = exRow[KeyOf(q)].by /\ exRow'[KeyOf(q)].status # "NONE"
        BY <2>1, <2>3
      <3>2. BetIsRows(q)
        BY RequestFacts
      <3>3. BetIsRows(q)'
        BY <1>1, <3>1, <3>2 DEF BetIsRows, StatusOf
      <3>4. QED  BY <3>1, <3>3 DEF OwnsItsRow, Young
    <2>4. QED  BY <2>2, <2>3
  <1>3. ASSUME NEW k \in ExKeys PROVE RowIsBets(k)'
    <2>1. CASE exRow'[k] = exRow[k]
      BY <1>1, <2>1, RowStays
    <2>2. CASE exRow'[k] # exRow[k]
      <3>1. /\ exRow[k].status # "NONE" /\ exRow'[k].status # "NONE"
            /\ exRow'[k].by = exRow[k].by
            /\ exRow'[k].status = "REJECTED" => atVenue[exRow[k].by] \notin {"on the wire", "live"}
            /\ \A r \in ExRequests : KeyOf(r) = k =>
                 stage[r] \notin {"inserted", "saved", "calling", "writing"}
        BY <2>2
      <3>2. RowIsBets(k)
        BY DEF ExInv
      <3>3. /\ exRow[k].by \in ExRequests /\ KeyOf(exRow[k].by) = k
            /\ stage[exRow[k].by] = "answered" /\ sent[k] \in {0, 1}
        BY <3>1, <3>2 DEF RowIsBets
      <3>4. QED  BY <1>1, <3>1, <3>3 DEF RowIsBets
    <2>3. QED  BY <2>1, <2>2
  <1>4. QED  BY <1>1, <1>2, <1>3 DEF ExInv

LEMMA SweepKeeps == ASSUME ExInv, SweepStaleBets PROVE ExInv'
  <1>1. /\ exRow' = [k \in ExKeys |-> IF Stranded(k) THEN [exRow[k] EXCEPT !.status = "UNKNOWN"]
                                      ELSE exRow[k]]
        /\ UNCHANGED <<exOrder, stage, since, outcome, mandate, placedAgo, atVenue, sent>>
    BY DEF SweepStaleBets
  <1>2. ASSUME NEW k \in ExKeys, Stranded(k)
        PROVE  /\ exRow'[k] \in [by : ExRequests, status : ExStatuses]
               /\ exRow[k].status # "NONE"
               /\ exRow'[k].status = "UNKNOWN" /\ exRow'[k].by = exRow[k].by
    <2>1. exRow[k] \in [by : ExRequests, status : ExStatuses] /\ exRow[k].status # "NONE"
      BY <1>2, ExFacts DEF ExInv, Stranded
    <2>2. exRow'[k] = [exRow[k] EXCEPT !.status = "UNKNOWN"]
      BY <1>1, <1>2
    <2>3. "UNKNOWN" \in ExStatuses
      BY DEF ExStatuses, ExposureStatuses
    <2>4. QED  BY <2>1, <2>2, <2>3
  <1>3. ASSUME NEW k \in ExKeys, ~Stranded(k) PROVE exRow'[k] = exRow[k]
    BY <1>1, <1>3
  <1>4. exRow' \in [ExKeys -> {NoBet} \cup [by : ExRequests, status : ExStatuses]]
    <2>1. ASSUME NEW k \in ExKeys
          PROVE  exRow'[k] \in {NoBet} \cup [by : ExRequests, status : ExStatuses]
      BY <1>2, <1>3 DEF ExInv, ExTypeOK
    <2>2. exRow' = [k \in ExKeys |-> exRow'[k]]
      BY <1>1
    <2>3. QED  BY <2>1, <2>2
  <1>5. \A r \in ExRequests, k \in ExKeys : Stranded(k) /\ KeyOf(r) = k =>
          stage[r] \notin {"inserted", "saved", "calling", "writing"}
    BY SweptIsOver
  <1>6. QED  BY <1>1, <1>2, <1>3, <1>4, <1>5, RulingKeeps

LEMMA ResolveKeeps == ASSUME ExInv, NEW k \in ExKeys, ResolveUnknownBet(k) PROVE ExInv'
  <1> DEFINE b == exRow[k].by
             s == IF atVenue[b] = "live" THEN "ACCEPTED" ELSE "REJECTED"
  <1>1. /\ exRow[k].status = "UNKNOWN" /\ atVenue[b] # "on the wire"
        /\ exRow' = [exRow EXCEPT ![k].status = s]
        /\ UNCHANGED <<exOrder, stage, since, outcome, mandate, placedAgo, atVenue, sent>>
    BY DEF ResolveUnknownBet
  <1>2. exRow[k] \in [by : ExRequests, status : ExStatuses] /\ exRow[k].status # "NONE"
    BY <1>1, ExFacts DEF ExInv
  <1>3. s \in ExStatuses /\ s # "NONE" /\ (s = "REJECTED" => atVenue[b] # "live")
    BY DEF ExStatuses, ExposureStatuses
  <1> HIDE DEF s
  <1>4. /\ exRow'[k] \in [by : ExRequests, status : ExStatuses]
        /\ exRow'[k].status = s /\ exRow'[k].by = exRow[k].by
    <2>1. exRow'[k] = [exRow[k] EXCEPT !.status = s]
      BY <1>1 DEF ExInv, ExTypeOK
    <2>2. QED  BY <1>2, <1>3, <2>1
  <1>5. \A j \in ExKeys \ {k} : exRow'[j] = exRow[j]
    BY <1>1 DEF ExInv, ExTypeOK
  <1>6. exRow' \in [ExKeys -> {NoBet} \cup [by : ExRequests, status : ExStatuses]]
    <2>1. ASSUME NEW j \in ExKeys
          PROVE  exRow'[j] \in {NoBet} \cup [by : ExRequests, status : ExStatuses]
      BY <1>4, <1>5 DEF ExInv, ExTypeOK
    <2>2. exRow' = [j \in ExKeys |-> exRow'[j]]
      BY <1>1 DEF ExInv, ExTypeOK
    <2>3. QED  BY <2>1, <2>2
  <1>7. ASSUME NEW r \in ExRequests, KeyOf(r) = k
        PROVE  stage[r] \notin {"inserted", "saved", "calling", "writing"}
    BY <1>1, <1>7, RequestFacts DEF OwnsItsRow, StatusOf
  <1>8. QED  BY <1>1, <1>2, <1>3, <1>4, <1>5, <1>6, <1>7, RulingKeeps

LEMMA ExTickKeeps == ASSUME ExInv, ExTick PROVE ExInv'
  <1>1. /\ \A r \in ExRequests : stage[r] \in Timed => since[r] = 0
        /\ since' = [r \in ExRequests |-> IF stage[r] \in Timed THEN 1 ELSE 0]
        /\ placedAgo' = [k \in ExKeys |->
              IF exRow[k].status = "PENDING_NETWORK" /\ placedAgo[k] <= StaleAfter
              THEN placedAgo[k] + 1 ELSE placedAgo[k]]
        /\ UNCHANGED <<exOrder, stage, outcome, mandate, exRow, atVenue, sent>>
    BY DEF ExTick
  <1>2. ASSUME NEW k \in ExKeys
        PROVE  placedAgo'[k] \in 0..(StaleAfter + 1) /\ placedAgo'[k] <= placedAgo[k] + 1
    <2>1. placedAgo[k] \in 0..(StaleAfter + 1)
      BY DEF ExInv, ExTypeOK
    <2>2. placedAgo'[k] = IF exRow[k].status = "PENDING_NETWORK" /\ placedAgo[k] <= StaleAfter
                          THEN placedAgo[k] + 1 ELSE placedAgo[k]
      BY <1>1
    <2>3. QED  BY <2>1, <2>2 DEF StaleAfter
  <1>3. placedAgo' \in [ExKeys -> 0..(StaleAfter + 1)]
    <2>1. placedAgo' = [k \in ExKeys |-> placedAgo'[k]]
      BY <1>1
    <2>2. QED  BY <1>2, <2>1
  <1>4. since' \in [ExRequests -> 0..1]
    BY <1>1
  <1>5. ExTypeOK' /\ OneInserts' /\ \A q \in ExRequests : KeyOf(q)' = KeyOf(q)
    BY <1>1, <1>3, <1>4 DEF ExInv, ExTypeOK, OneInserts, KeyOf
  <1>6. ASSUME NEW q \in ExRequests PROVE (OwnsItsRow(q) /\ Young(q) /\ BetIsRows(q))'
    <2>1. OwnsItsRow(q) /\ Young(q) /\ BetIsRows(q) /\ KeyOf(q) \in ExKeys
      BY RequestFacts
    <2>2. OwnsItsRow(q)' /\ BetIsRows(q)'
      BY <1>1, <1>5, <2>1 DEF OwnsItsRow, BetIsRows, StatusOf
    <2>3. Young(q)'
      <3>1. CASE stage[q] \in Timed
        <4>1. since[q] = 0 /\ since'[q] = 1 /\ stage' = stage
          BY <1>1, <3>1
        <4>2. /\ placedAgo[KeyOf(q)] \in 0..(StaleAfter + 1)
              /\ placedAgo'[KeyOf(q)] \in 0..(StaleAfter + 1)
              /\ placedAgo'[KeyOf(q)] <= placedAgo[KeyOf(q)] + 1
          BY <1>2, <2>1, RequestFacts
        <4>3. /\ placedAgo[KeyOf(q)] <= 1 + 0 => placedAgo'[KeyOf(q)] <= 1 + 1
              /\ placedAgo[KeyOf(q)] <= 2 + 0 => placedAgo'[KeyOf(q)] <= 2 + 1
              /\ placedAgo[KeyOf(q)] <= 3 + 0 => placedAgo'[KeyOf(q)] <= 3 + 1
          BY <4>2 DEF StaleAfter
        <4>4. QED  BY <1>5, <2>1, <4>1, <4>3 DEF Young
      <3>2. CASE stage[q] \notin Timed
        BY <1>1, <3>2 DEF Young, Timed
      <3>3. QED  BY <3>1, <3>2
    <2>4. QED  BY <2>2, <2>3
  <1>7. ASSUME NEW k \in ExKeys PROVE RowIsBets(k)'
    BY <1>1, <1>5, RowStays
  <1>8. QED  BY <1>5, <1>6, <1>7 DEF ExInv

-----------------------------------------------------------------------------
LEMMA ExInvNext == ExInv /\ [ExNext]_exVars => ExInv'
  <1> SUFFICES ASSUME ExInv, [ExNext]_exVars PROVE ExInv'
    OBVIOUS
  <1>1. ASSUME NEW r \in ExRequests, Refused(r) PROVE ExInv'
    BY <1>1, LeavingKeeps DEF Refused, ExInv, ExTypeOK
  <1>2. ASSUME NEW r \in ExRequests, Preflight(r) PROVE ExInv'
    BY <1>2, LeavingKeeps DEF Preflight, ExInv, ExTypeOK
  <1>3. ASSUME NEW r \in ExRequests,
               Accepted(r) \/ Rejected(r) \/ Doubt(r)
        PROVE  ExInv'
    BY <1>3, AnsweredKeeps
  <1>4. CASE UNCHANGED exVars
    <2>1. ExTypeOK' /\ OneInserts'
      BY <1>4 DEF exVars, ExInv, ExTypeOK, OneInserts, KeyOf
    <2>2. \A q \in ExRequests : (OwnsItsRow(q) /\ Young(q) /\ BetIsRows(q))'
      BY <1>4 DEF exVars, ExInv, OwnsItsRow, Young, BetIsRows, StatusOf, KeyOf
    <2>3. \A k \in ExKeys : RowIsBets(k)'
      BY <1>4 DEF exVars, ExInv, RowIsBets, KeyOf
    <2>4. QED  BY <2>1, <2>2, <2>3 DEF ExInv
  <1>5. QED
    BY <1>1, <1>2, <1>3, <1>4, ReserveKeeps, CommitRowKeeps, SendKeeps, ArriveKeeps,
       FinalizeKeeps, StrandKeeps, SweepKeeps, ResolveKeeps, ExTickKeeps
    DEF ExNext

LEMMA ExInvariant == ExSpec => []ExInv
  BY ExInvInit, ExInvNext, PTL DEF ExSpec

\* Requests, locks, rows, ages and bets stay in their domains.
THEOREM ExTypeCorrect == ExSpec => []ExTypeOK
  <1>1. ExInv => ExTypeOK
    BY DEF ExInv
  <1>2. QED  BY ExInvariant, <1>1, PTL

\* One idempotency key never sends two bets to the exchange, whoever asks with
\* it and however the first request ends (execution_service.py:175).
THEOREM OneKeySendsOnce == ExSpec => []OneSendPerKey
  <1>1. ExInv => OneSendPerKey
    <2>1. ASSUME ExInv, NEW k \in ExKeys PROVE sent[k] <= 1
      <3>1. sent[k] = 0 \/ sent[k] = 1
        BY <2>1 DEF ExInv, RowIsBets
      <3>2. QED  BY <3>1
    <2>2. QED  BY <2>1 DEF OneSendPerKey
  <1>2. QED  BY ExInvariant, <1>1, PTL

\* A bet the exchange holds is in its user's exposure, whatever became of the
\* request that placed it (execution_service.py:56, reconciliation_service.py).
THEOREM NoLiveBetIsForgotten == ExSpec => []LiveBetIsCounted
  <1>1. ExInv => LiveBetIsCounted
    <2>1. ASSUME ExInv, NEW r \in ExRequests, atVenue[r] = "live"
          PROVE  Counted(KeyOf(r), UserOf(r)) /\ exRow[KeyOf(r)].by = r
      <3>1. BetIsRows(r) /\ RowIsBets(KeyOf(r)) /\ KeyOf(r) \in ExKeys
        BY <2>1, RequestFacts
      <3>2. exRow[KeyOf(r)].by = r /\ exRow[KeyOf(r)].status # "NONE"
        BY <2>1, <3>1 DEF BetIsRows, StatusOf
      <3>3. exRow[KeyOf(r)].status # "REJECTED"
        BY <2>1, <3>1, <3>2 DEF RowIsBets
      <3>4. exRow[KeyOf(r)].status \in ExStatuses \cup {"NONE"}
        BY <2>1, <3>1, ExFacts DEF ExInv
      <3>5. QED  BY <3>2, <3>3, <3>4 DEF Counted, ExStatuses
    <2>2. QED  BY <2>1 DEF LiveBetIsCounted
  <1>2. QED  BY ExInvariant, <1>1, PTL

\* No step changes a row that an answer or an admin has settled
\* (reconciliation_service.py:22).
THEOREM NoLateWriteOverARuling == ExSpec => RulingStands
  <1> DEFINE Fixed(k) == exRow[k].status \in {"ACCEPTED", "REJECTED"} => exRow'[k] = exRow[k]
  <1>1. ASSUME ExInv, [ExNext]_exVars, NEW k \in ExKeys PROVE Fixed(k)
    <2>1. ASSUME NEW r \in ExRequests, CommitRow(r) \/ Finalize(r) PROVE Fixed(k)
      <3>1. /\ OwnsItsRow(r) /\ stage[r] \in {"inserted", "writing"}
            /\ exRow \in [ExKeys -> {NoBet} \cup [by : ExRequests, status : ExStatuses]]
        BY <1>1, <2>1, RequestFacts DEF CommitRow, Finalize, ExInv, ExTypeOK
      <3>2. exRow[KeyOf(r)].status \notin {"ACCEPTED", "REJECTED"}
        BY <3>1 DEF OwnsItsRow, StatusOf
      <3>3. k # KeyOf(r) => exRow'[k] = exRow[k]
        BY <1>1, <2>1, <3>1 DEF CommitRow, Finalize
      <3>4. QED  BY <3>2, <3>3
    <2>2. CASE SweepStaleBets
      BY <1>1, <2>2 DEF SweepStaleBets, Stranded
    <2>3. ASSUME NEW j \in ExKeys, ResolveUnknownBet(j) PROVE Fixed(k)
      BY <1>1, <2>3 DEF ResolveUnknownBet, ExInv, ExTypeOK
    <2>4. ASSUME NEW r \in ExRequests,
                 \/ Refused(r) \/ Preflight(r) \/ Reserve(r) \/ Send(r) \/ Arrive(r)
                 \/ Accepted(r) \/ Rejected(r) \/ Doubt(r) \/ Strand(r)
          PROVE  Fixed(k)
      BY <2>4 DEF Refused, Preflight, Reserve, Send, Arrive, Accepted, Rejected, Doubt,
                  Answered, Strand
    <2>5. CASE ExTick \/ UNCHANGED exVars
      BY <2>5 DEF ExTick, exVars
    <2>6. QED  BY <1>1, <2>1, <2>2, <2>3, <2>4, <2>5 DEF ExNext
  <1>2. ExInv /\ [ExNext]_exVars =>
          [\A k \in ExKeys : exRow[k].status \in {"ACCEPTED", "REJECTED"} =>
              exRow'[k] = exRow[k]]_exVars
    BY <1>1
  <1>3. QED  BY ExInvariant, <1>2, PTL DEF ExSpec, RulingStands

-----------------------------------------------------------------------------
(***************************************************************************)
(* ExposureWithinMandate is about a sum over the rows that count.  A row    *)
(* comes to count only when it is committed, and the request that commits  *)
(* it still has the mandate under which it compared that sum with the      *)
(* limit (CheckedUnderLock); every other step leaves the sum as it is or   *)
(* takes a row out of it.                                                  *)
(***************************************************************************)

CountedIn(row, u) == {k \in ExKeys : row[k].status \in ExposureStatuses /\ UserOf(row[k].by) = u}
StakesIn(row, u) == [k \in CountedIn(row, u) |-> StakeOf(row[k].by)]
ExposureIn(row, u) == SumFunctionOnSet(StakesIn(row, u), CountedIn(row, u))

CheckedUnderLock ==
  \A r \in ExRequests : stage[r] = "inserted" =>
    /\ mandate[UserOf(r)] = r
    /\ Exposure(UserOf(r)) + StakeOf(r) <= MaxExposure

MandateInv == ExInv /\ CheckedUnderLock /\ ExposureWithinMandate

LEMMA ExposureIs ==
  /\ \A u : Exposure(u) = ExposureIn(exRow, u)
  /\ exOrder' = exOrder => \A u : Exposure(u)' = ExposureIn(exRow', u)
  BY DEF Exposure, ExposureIn, StakesIn, CountedIn, Counted, StakeOf, UserOf

LEMMA CountedFacts ==
  ASSUME ExTypeOK, NEW row \in [ExKeys -> ExRows], NEW u
  PROVE  /\ IsFiniteSet(CountedIn(row, u))
         /\ \A k \in CountedIn(row, u) : /\ k \in ExKeys /\ row[k].by \in ExRequests
                                         /\ StakesIn(row, u)[k] = StakeOf(row[k].by)
                                         /\ StakesIn(row, u)[k] \in Nat
         /\ ExposureIn(row, u) \in Nat
  <1>1. IsFiniteSet(CountedIn(row, u))
    BY ExAssumption, FS_Subset DEF CountedIn
  <1>2. \A r \in ExRequests : StakeOf(r) \in Nat
    BY DEF ExTypeOK, ExOrder, StakeOf
  <1>3. \A k \in CountedIn(row, u) : k \in ExKeys /\ row[k].by \in ExRequests
    BY DEF CountedIn, ExRows, NoBet, ExposureStatuses
  <1>4. \A k \in CountedIn(row, u) : /\ StakesIn(row, u)[k] = StakeOf(row[k].by)
                                    /\ StakesIn(row, u)[k] \in Nat
    BY <1>2, <1>3 DEF StakesIn
  <1>5. ExposureIn(row, u) \in Nat
    BY <1>1, <1>4, SumSubset DEF ExposureIn
  <1> QED BY <1>1, <1>3, <1>4, <1>5

\* When no row comes to count, the exposure does not grow.
LEMMA ExposureShrinks ==
  ASSUME ExTypeOK, NEW row \in [ExKeys -> ExRows], NEW later \in [ExKeys -> ExRows], NEW u,
         \A k \in CountedIn(later, u) : k \in CountedIn(row, u) /\ later[k].by = row[k].by
  PROVE  ExposureIn(later, u) <= ExposureIn(row, u)
  <1> DEFINE S == CountedIn(row, u)
             T == CountedIn(later, u)
             f == StakesIn(row, u)
             g == StakesIn(later, u)
  <1>1. /\ IsFiniteSet(S) /\ \A k \in S : f[k] = StakeOf(row[k].by) /\ f[k] \in Nat
        /\ IsFiniteSet(T) /\ \A k \in T : g[k] = StakeOf(later[k].by) /\ g[k] \in Nat
    BY CountedFacts
  <1>2. T \in SUBSET S /\ \A k \in T : g[k] = f[k] /\ f[k] \in Int
    BY <1>1
  <1>3. ExposureIn(row, u) = SumFunctionOnSet(f, S) /\ ExposureIn(later, u) = SumFunctionOnSet(g, T)
    BY DEF ExposureIn
  <1> HIDE DEF S, T, f, g
  <1>4. SumFunctionOnSet(g, T) = SumFunctionOnSet(f, T)
    BY <1>1, <1>2, SumSame
  <1>5. SumFunctionOnSet(f, T) <= SumFunctionOnSet(f, S)
    BY <1>1, <1>2, SumSubset
  <1> QED BY <1>3, <1>4, <1>5

\* A new row adds its stake.
LEMMA ExposureOfNewRow ==
  ASSUME ExTypeOK, NEW row \in [ExKeys -> ExRows], NEW later \in [ExKeys -> ExRows],
         NEW r \in ExRequests, NEW k \in ExKeys, row[k].status = "NONE",
         later[k].by = r, later[k].status \in ExposureStatuses,
         \A j \in ExKeys \ {k} : later[j] = row[j]
  PROVE  ExposureIn(later, UserOf(r)) = ExposureIn(row, UserOf(r)) + StakeOf(r)
  <1> DEFINE u == UserOf(r)
             S == CountedIn(row, u)
             T == CountedIn(later, u)
             f == StakesIn(row, u)
             g == StakesIn(later, u)
  <1>1. /\ IsFiniteSet(S) /\ \A j \in S : f[j] = StakeOf(row[j].by) /\ f[j] \in Nat
        /\ IsFiniteSet(T) /\ \A j \in T : g[j] = StakeOf(later[j].by) /\ g[j] \in Nat
        /\ ExposureIn(row, u) \in Nat
    BY CountedFacts
  <1>2. k \notin S /\ T = S \cup {k}
    BY DEF CountedIn, ExposureStatuses
  <1>3. \A j \in S : g[j] = f[j]
    BY <1>1, <1>2 DEF CountedIn
  <1>4. g[k] = StakeOf(r)
    BY <1>1, <1>2
  <1>5. ExposureIn(row, u) = SumFunctionOnSet(f, S) /\ ExposureIn(later, u) = SumFunctionOnSet(g, T)
    BY DEF ExposureIn
  <1> HIDE DEF S, T, f, g
  <1>6. \A j \in S \cup {k} : g[j] \in Int
    BY <1>1, <1>2
  <1>7. SumFunctionOnSet(g, S \cup {k}) = g[k] + SumFunctionOnSet(g, S)
    BY <1>1, <1>2, <1>6, SumAdd
  <1>8. SumFunctionOnSet(g, S) = SumFunctionOnSet(f, S)
    BY <1>1, <1>3, SumSame
  <1>9. g[k] \in Nat
    BY <1>1, <1>2
  <1>10. ExposureIn(later, u) = g[k] + ExposureIn(row, u)
    BY <1>2, <1>5, <1>7, <1>8
  <1> QED BY <1>1, <1>4, <1>9, <1>10

\* The mandates stand when no row comes to count and nobody's lock is given away.
LEMMA MandateStays ==
  ASSUME MandateInv, ExInv', exOrder' = exOrder,
         \A u \in ExUsers : \A k \in CountedIn(exRow', u) :
           k \in CountedIn(exRow, u) /\ exRow'[k].by = exRow[k].by,
         \A r \in ExRequests : stage'[r] = "inserted" =>
           /\ mandate'[UserOf(r)] = r
           /\ Exposure(UserOf(r)) + StakeOf(r) <= MaxExposure
  PROVE  MandateInv'
  <1>1. exRow \in [ExKeys -> ExRows] /\ exRow' \in [ExKeys -> ExRows] /\ ExTypeOK
    BY DEF MandateInv, ExInv, ExTypeOK, ExRows
  <1>2. \A u \in ExUsers : /\ Exposure(u)' <= Exposure(u)
                           /\ Exposure(u)' \in Nat /\ Exposure(u) \in Nat
    <2> SUFFICES ASSUME NEW u \in ExUsers
                 PROVE  /\ ExposureIn(exRow', u) <= ExposureIn(exRow, u)
                        /\ ExposureIn(exRow', u) \in Nat /\ ExposureIn(exRow, u) \in Nat
      BY ExposureIs
    <2>1. ExposureIn(exRow', u) <= ExposureIn(exRow, u)
      BY <1>1, ExposureShrinks
    <2>2. ExposureIn(exRow', u) \in Nat /\ ExposureIn(exRow, u) \in Nat
      BY <1>1, CountedFacts
    <2> QED BY <2>1, <2>2
  <1>3. MaxExposure \in Nat
    BY ExAssumption
  <1>4. \A r \in ExRequests : /\ UserOf(r)' = UserOf(r) /\ StakeOf(r)' = StakeOf(r)
                              /\ UserOf(r) \in ExUsers /\ StakeOf(r) \in Nat
    BY <1>1 DEF UserOf, StakeOf, ExTypeOK, ExOrder
  <1>5. ExposureWithinMandate'
    <2> SUFFICES ASSUME NEW u \in ExUsers PROVE Exposure(u)' <= MaxExposure
      BY DEF ExposureWithinMandate
    <2>1. Exposure(u) <= MaxExposure
      BY DEF MandateInv, ExposureWithinMandate
    <2> QED BY <1>2, <1>3, <2>1
  <1>6. CheckedUnderLock'
    <2> SUFFICES ASSUME NEW r \in ExRequests, stage'[r] = "inserted"
                 PROVE  /\ mandate'[UserOf(r)] = r
                        /\ Exposure(UserOf(r))' + StakeOf(r) <= MaxExposure
      BY <1>4 DEF CheckedUnderLock, Exposure, Counted, UserOf, StakeOf
    <2>1. mandate'[UserOf(r)] = r /\ Exposure(UserOf(r)) + StakeOf(r) <= MaxExposure
      OBVIOUS
    <2>2. /\ Exposure(UserOf(r))' <= Exposure(UserOf(r))
          /\ Exposure(UserOf(r))' \in Nat /\ Exposure(UserOf(r)) \in Nat /\ StakeOf(r) \in Nat
      BY <1>2, <1>4
    <2> QED BY <1>3, <2>1, <2>2
  <1> QED BY <1>5, <1>6 DEF MandateInv

LEMMA MandateInvInit == ExInit => MandateInv
  <1> SUFFICES ASSUME ExInit PROVE MandateInv
    OBVIOUS
  <1>1. ExInv
    BY ExInvInit
  <1>2. CheckedUnderLock
    BY DEF ExInit, CheckedUnderLock
  <1>3. ASSUME NEW u \in ExUsers PROVE Exposure(u) <= MaxExposure
    <2>1. CountedIn(exRow, u) = {}
      BY DEF ExInit, CountedIn, NoBet, ExposureStatuses
    <2>2. Exposure(u) = 0
      BY <2>1, ExposureIs, SumEmpty DEF ExposureIn
    <2> QED BY <2>2, ExAssumption
  <1> QED BY <1>1, <1>2, <1>3 DEF MandateInv, ExposureWithinMandate

\* Every step that leaves the rows and the locks alone and inserts nothing.
LEMMA MandateUntouched ==
  ASSUME MandateInv, ExInv', UNCHANGED <<exOrder, exRow, mandate>>,
         \A r \in ExRequests : stage'[r] = "inserted" => stage[r] = "inserted"
  PROVE  MandateInv'
  <1>1. \A r \in ExRequests : stage'[r] = "inserted" =>
           /\ mandate'[UserOf(r)] = r
           /\ Exposure(UserOf(r)) + StakeOf(r) <= MaxExposure
    BY DEF MandateInv, CheckedUnderLock
  <1> QED BY <1>1, MandateStays

\* A step that rules on rows that count already; who placed them stays.
LEMMA RulingKeepsMandate ==
  ASSUME MandateInv, ExInv', UNCHANGED <<exOrder, mandate>>,
         \A r \in ExRequests : stage'[r] = "inserted" => stage[r] = "inserted",
         \A k \in ExKeys : exRow'[k] # exRow[k] => /\ exRow[k].status \in ExposureStatuses
                                                   /\ exRow'[k].by = exRow[k].by
  PROVE  MandateInv'
  <1>1. \A u \in ExUsers : \A k \in CountedIn(exRow', u) :
           k \in CountedIn(exRow, u) /\ exRow'[k].by = exRow[k].by
    BY DEF CountedIn
  <1>2. \A r \in ExRequests : stage'[r] = "inserted" =>
           /\ mandate'[UserOf(r)] = r
           /\ Exposure(UserOf(r)) + StakeOf(r) <= MaxExposure
    BY DEF MandateInv, CheckedUnderLock
  <1> QED BY <1>1, <1>2, MandateStays

LEMMA ReserveKeepsMandate ==
  ASSUME MandateInv, NEW r \in ExRequests, Reserve(r)
  PROVE  MandateInv'
  <1> ExInv'
    BY ReserveKeeps DEF MandateInv
  <1>1. /\ mandate[UserOf(r)] = "free"
        /\ UNCHANGED <<exOrder, exRow>>
        /\ \/ Enters(r, "answered") /\ mandate' = mandate
           \/ /\ Enters(r, "inserted") /\ mandate' = [mandate EXCEPT ![UserOf(r)] = r]
              /\ ~(Exposure(UserOf(r)) + StakeOf(r) > MaxExposure)
    BY DEF Reserve, MandateFree
  <1>2. /\ ExInv /\ stage \in [ExRequests -> ExStages]
        /\ mandate \in [ExUsers -> ExRequests \cup {"free"}]
        /\ \A q \in ExRequests : UserOf(q) \in ExUsers
        /\ exRow \in [ExKeys -> ExRows] /\ ExTypeOK
    BY ExFacts DEF MandateInv, ExInv, ExTypeOK, ExRows
  <1>3. CASE Enters(r, "answered") /\ mandate' = mandate
    <2>1. \A q \in ExRequests : stage'[q] = "inserted" => stage[q] = "inserted"
      BY <1>2, <1>3 DEF Enters
    <2> QED BY <1>1, <1>3, <2>1, MandateUntouched
  <1>4. CASE /\ Enters(r, "inserted") /\ mandate' = [mandate EXCEPT ![UserOf(r)] = r]
             /\ ~(Exposure(UserOf(r)) + StakeOf(r) > MaxExposure)
    <2>1. Exposure(UserOf(r)) \in Nat /\ StakeOf(r) \in Nat /\ MaxExposure \in Nat
      <3>1. Exposure(UserOf(r)) \in Nat
        BY <1>2, ExposureIs, CountedFacts
      <3>2. StakeOf(r) \in Nat
        BY <1>2 DEF ExTypeOK, ExOrder, StakeOf
      <3> QED BY <3>1, <3>2, ExAssumption
    <2>2. ASSUME NEW q \in ExRequests, stage'[q] = "inserted"
          PROVE  /\ mandate'[UserOf(q)] = q
                 /\ Exposure(UserOf(q)) + StakeOf(q) <= MaxExposure
      <3>1. CASE q = r
        BY <1>2, <1>4, <2>1, <3>1
      <3>2. CASE q # r
        <4>1. stage[q] = "inserted"
          BY <1>2, <1>4, <2>2, <3>2 DEF Enters
        <4>2. mandate[UserOf(q)] = q /\ Exposure(UserOf(q)) + StakeOf(q) <= MaxExposure
          BY <4>1 DEF MandateInv, CheckedUnderLock
        <4>3. UserOf(q) # UserOf(r)
          BY <1>1, <4>2, ExAssumption
        <4> QED BY <1>2, <1>4, <4>2, <4>3
      <3> QED BY <3>1, <3>2
    <2> QED BY <1>1, <2>2, MandateStays
  <1> QED BY <1>1, <1>3, <1>4

LEMMA StrandKeepsMandate ==
  ASSUME MandateInv, NEW r \in ExRequests, Strand(r)
  PROVE  MandateInv'
  <1> ExInv'
    BY StrandKeeps DEF MandateInv
  <1>1. /\ UNCHANGED <<exOrder, exRow>> /\ Enters(r, "answered")
        /\ mandate' = [u \in ExUsers |-> IF mandate[u] = r THEN "free" ELSE mandate[u]]
        /\ stage \in [ExRequests -> ExStages]
        /\ \A q \in ExRequests : UserOf(q) \in ExUsers
    BY ExFacts DEF Strand, MandateInv, ExInv, ExTypeOK
  <1>2. ASSUME NEW q \in ExRequests, stage'[q] = "inserted"
        PROVE  /\ mandate'[UserOf(q)] = q
               /\ Exposure(UserOf(q)) + StakeOf(q) <= MaxExposure
    <2>1. stage[q] = "inserted" /\ q # r
      BY <1>1, <1>2 DEF Enters
    <2> QED BY <1>1, <2>1 DEF MandateInv, CheckedUnderLock
  <1> QED BY <1>1, <1>2, MandateStays

\* Only r's row comes to count, and r's user has nobody else past the check.
LEMMA CommitRowKeepsMandate ==
  ASSUME MandateInv, NEW r \in ExRequests, CommitRow(r)
  PROVE  MandateInv'
  <1> DEFINE k == KeyOf(r)
             mine == UserOf(r)
             row == [by |-> r, status |-> "PENDING_NETWORK"]
  <1>0. ExInv'
    BY CommitRowKeeps DEF MandateInv
  <1>1. /\ stage[r] = "inserted" /\ Enters(r, "saved") /\ exOrder' = exOrder
        /\ exRow' = [exRow EXCEPT ![k] = row]
        /\ mandate' = [mandate EXCEPT ![mine] = "free"]
    BY DEF CommitRow
  <1>2. /\ ExInv /\ ExTypeOK /\ stage \in [ExRequests -> ExStages]
        /\ exRow \in [ExKeys -> ExRows] /\ exRow' \in [ExKeys -> ExRows]
        /\ mandate \in [ExUsers -> ExRequests \cup {"free"}]
    BY <1>0 DEF MandateInv, ExInv, ExTypeOK, ExRows
  <1>3. /\ row.by = r /\ row.status \in ExposureStatuses
        /\ k \in ExKeys /\ mine \in ExUsers /\ exRow[k].status = "NONE"
    BY <1>1, <1>2, RequestFacts DEF OwnsItsRow, StatusOf, ExposureStatuses
  <1> HIDE DEF row
  <1>4. /\ exRow'[k].by = r /\ exRow'[k].status \in ExposureStatuses
        /\ \A j \in ExKeys \ {k} : exRow'[j] = exRow[j]
    BY <1>1, <1>2, <1>3
  <1>5. Exposure(mine) + StakeOf(r) <= MaxExposure /\ mandate[mine] = r
    BY <1>1 DEF MandateInv, CheckedUnderLock
  <1>6. ExposureIn(exRow', mine) = ExposureIn(exRow, mine) + StakeOf(r)
    BY <1>2, <1>3, <1>4, ExposureOfNewRow
  <1>7. ASSUME NEW u \in ExUsers, u # mine
        PROVE  ExposureIn(exRow', u) <= ExposureIn(exRow, u)
    <2>1. \A j \in CountedIn(exRow', u) : j \in CountedIn(exRow, u) /\ exRow'[j].by = exRow[j].by
      BY <1>3, <1>4, <1>7 DEF CountedIn
    <2> QED BY <1>2, <2>1, ExposureShrinks
  <1>8. \A u \in ExUsers : /\ Exposure(u) \in Nat /\ Exposure(u)' \in Nat
                           /\ Exposure(u) = ExposureIn(exRow, u)
                           /\ Exposure(u)' = ExposureIn(exRow', u)
                           /\ ExposureIn(exRow, u) \in Nat /\ ExposureIn(exRow', u) \in Nat
    <2> SUFFICES ASSUME NEW u \in ExUsers
                 PROVE  ExposureIn(exRow, u) \in Nat /\ ExposureIn(exRow', u) \in Nat
      BY <1>1, ExposureIs
    <2> QED BY <1>2, CountedFacts
  <1>9. ExposureWithinMandate'
    <2> SUFFICES ASSUME NEW u \in ExUsers PROVE Exposure(u)' <= MaxExposure
      BY DEF ExposureWithinMandate
    <2>1. CASE u = mine
      BY <1>3, <1>5, <1>6, <1>8, <2>1
    <2>2. CASE u # mine
      <3>1. Exposure(u) <= MaxExposure
        BY DEF MandateInv, ExposureWithinMandate
      <3>2. Exposure(u)' <= Exposure(u)
        BY <1>7, <1>8, <2>2
      <3> QED BY <1>8, <3>1, <3>2, ExAssumption
    <2> QED BY <2>1, <2>2
  <1>10. ASSUME NEW q \in ExRequests, stage'[q] = "inserted"
         PROVE  /\ mandate'[UserOf(q)] = q
                /\ ExposureIn(exRow', UserOf(q)) + StakeOf(q) <= MaxExposure
    <2>1. stage[q] = "inserted" /\ q # r /\ UserOf(q) \in ExUsers
      BY <1>1, <1>2, <1>10, ExFacts DEF Enters
    <2>2. mandate[UserOf(q)] = q /\ Exposure(UserOf(q)) + StakeOf(q) <= MaxExposure
      BY <2>1 DEF MandateInv, CheckedUnderLock
    <2>3. UserOf(q) # mine
      BY <1>5, <2>1, <2>2
    <2>4. mandate'[UserOf(q)] = q
      BY <1>1, <1>2, <1>3, <2>1, <2>2, <2>3
    <2>5. ExposureIn(exRow', UserOf(q)) <= Exposure(UserOf(q))
      BY <1>7, <1>8, <2>1, <2>3
    <2>6. StakeOf(q) \in Nat
      BY <1>2 DEF ExTypeOK, ExOrder, StakeOf
    <2>7. Exposure(UserOf(q)) \in Nat /\ ExposureIn(exRow', UserOf(q)) \in Nat
      BY <1>8, <2>1
    <2> QED BY <2>2, <2>4, <2>5, <2>6, <2>7, ExAssumption
  <1>11. \A q \in ExRequests : UserOf(q)' = UserOf(q) /\ StakeOf(q)' = StakeOf(q)
    BY <1>1 DEF UserOf, StakeOf
  <1>12. CheckedUnderLock'
    <2>1. exOrder' = exOrder
      BY <1>1
    <2> QED BY <1>10, <1>11, <2>1
            DEF CheckedUnderLock, Exposure, Counted, ExposureIn, StakesIn, CountedIn, UserOf, StakeOf
  <1> QED BY <1>0, <1>9, <1>12 DEF MandateInv

LEMMA MandateInvNext == MandateInv /\ [ExNext]_exVars => MandateInv'
  <1> SUFFICES ASSUME MandateInv, [ExNext]_exVars PROVE MandateInv'
    OBVIOUS
  <1>1. ExInv /\ ExInv' /\ stage \in [ExRequests -> ExStages]
    BY ExInvNext DEF MandateInv, ExInv, ExTypeOK
  <1>2. ASSUME NEW r \in ExRequests, Refused(r) \/ Preflight(r) \/ Send(r) \/ Arrive(r)
                 \/ Accepted(r) \/ Rejected(r) \/ Doubt(r)
        PROVE  MandateInv'
    <2>1. UNCHANGED <<exOrder, exRow, mandate>>
      BY <1>2 DEF Refused, Preflight, Send, Arrive, Accepted, Rejected, Doubt, Answered
    <2>2. \A q \in ExRequests : stage'[q] = "inserted" => stage[q] = "inserted"
      BY <1>1, <1>2
      DEF Refused, Preflight, Send, Arrive, Accepted, Rejected, Doubt, Answered, Enters
    <2> QED BY <1>1, <2>1, <2>2, MandateUntouched
  <1>3. ASSUME NEW r \in ExRequests, Finalize(r) PROVE MandateInv'
    <2>1. /\ UNCHANGED <<exOrder, mandate>>
          /\ \A q \in ExRequests : stage'[q] = "inserted" => stage[q] = "inserted"
      BY <1>1, <1>3 DEF Finalize, Enters
    <2>2. /\ exRow' = [exRow EXCEPT ![KeyOf(r)] = [exRow[KeyOf(r)] EXCEPT !.status = outcome[r]]]
          /\ exRow[KeyOf(r)].status = "PENDING_NETWORK" /\ KeyOf(r) \in ExKeys
          /\ exRow[KeyOf(r)] \in ExRows /\ exRow \in [ExKeys -> ExRows]
      BY <1>1, <1>3, RequestFacts DEF Finalize, OwnsItsRow, StatusOf, ExInv, ExTypeOK, ExRows
    <2>3. exRow'[KeyOf(r)].by = exRow[KeyOf(r)].by
      BY <2>2 DEF ExRows, NoBet
    <2>4. \A k \in ExKeys : exRow'[k] # exRow[k] => /\ exRow[k].status \in ExposureStatuses
                                                    /\ exRow'[k].by = exRow[k].by
      BY <2>2, <2>3 DEF ExposureStatuses
    <2> QED BY <1>1, <2>1, <2>4, RulingKeepsMandate
  <1>4. CASE SweepStaleBets
    <2>1. UNCHANGED <<exOrder, mandate, stage>>
      BY <1>4 DEF SweepStaleBets
    <2>2. ASSUME NEW k \in ExKeys
          PROVE  exRow'[k] # exRow[k] => /\ exRow[k].status \in ExposureStatuses
                                          /\ exRow'[k].by = exRow[k].by
      <3>1. exRow'[k] = IF Stranded(k) THEN [exRow[k] EXCEPT !.status = "UNKNOWN"] ELSE exRow[k]
        BY <1>4 DEF SweepStaleBets
      <3>2. exRow[k] \in ExRows
        BY <1>1 DEF ExInv, ExTypeOK, ExRows
      <3> QED BY <3>1, <3>2 DEF Stranded, ExRows, NoBet, ExposureStatuses
    <2> QED BY <1>1, <2>1, <2>2, RulingKeepsMandate
  <1>5. ASSUME NEW j \in ExKeys, ResolveUnknownBet(j) PROVE MandateInv'
    <2> DEFINE s == IF atVenue[exRow[j].by] = "live" THEN "ACCEPTED" ELSE "REJECTED"
    <2>1. /\ UNCHANGED <<exOrder, mandate, stage>> /\ exRow[j].status = "UNKNOWN"
          /\ exRow' = [exRow EXCEPT ![j] = [exRow[j] EXCEPT !.status = s]]
      BY <1>5 DEF ResolveUnknownBet
    <2> HIDE DEF s
    <2>2. ASSUME NEW k \in ExKeys
          PROVE  exRow'[k] # exRow[k] => /\ exRow[k].status \in ExposureStatuses
                                          /\ exRow'[k].by = exRow[k].by
      <3>1. exRow[k] \in ExRows /\ exRow \in [ExKeys -> ExRows]
        BY <1>1 DEF ExInv, ExTypeOK, ExRows
      <3> QED BY <2>1, <3>1 DEF ExRows, NoBet, ExposureStatuses
    <2> QED BY <1>1, <2>1, <2>2, RulingKeepsMandate
  <1>6. CASE ExTick \/ UNCHANGED exVars
    <2>1. UNCHANGED <<exOrder, exRow, mandate, stage>>
      BY <1>6 DEF ExTick, exVars
    <2> QED BY <1>1, <2>1, MandateUntouched
  <1> QED
    BY <1>2, <1>3, <1>4, <1>5, <1>6, ReserveKeepsMandate, CommitRowKeepsMandate,
       StrandKeepsMandate DEF ExNext

\* The unsettled stakes of a user never exceed the daily mandate, however many
\* of its requests compare themselves with it at once
\* (execution_service.py:187-203).
THEOREM MandateNeverExceeded == ExSpec => []ExposureWithinMandate
  <1>1. MandateInv => ExposureWithinMandate
    BY DEF MandateInv
  <1> QED BY MandateInvInit, MandateInvNext, <1>1, PTL DEF ExSpec

-----------------------------------------------------------------------------
(***************************************************************************)
(* LegSequence.                                                            *)
(*                                                                         *)
(* Write P and B for the product and the book of the legs that have not    *)
(* fired.  Paying target, in 1/Unit, whichever of them wins costs          *)
(* target * B / P, so target * (P - B) against what is staked so far,      *)
(* times P, says whether the arbitrage still holds (Cover).  A leg more is *)
(* a factor of P and a term of B (BookAdd), and its price floor is the     *)
(* next Cover; re-sizing it rounds a stake down, which costs less than its *)
(* price.                                                                  *)
(***************************************************************************)

LEMMA Quotient ==
  ASSUME NEW a \in Nat, NEW b \in Nat \ {0}
  PROVE  a \div b \in Nat /\ (a \div b) * b <= a /\ a < (a \div b) * b + b
OBVIOUS

LEMMA QuotientIsMost ==
  ASSUME NEW a \in Nat, NEW b \in Nat \ {0}, NEW q \in Nat, q * b <= a
  PROVE  q <= a \div b
<1>1. PICK d : d = a \div b
  OBVIOUS
<1>2. d \in Nat /\ a < d * b + b
  BY <1>1, Quotient
<1>3. ASSUME q >= d + 1 PROVE FALSE
  <2>1. q * b >= (d + 1) * b
    BY <1>2, <1>3
  <2>2. (d + 1) * b = d * b + b
    BY <1>2
  <2>3. q * b \in Nat /\ d * b \in Nat
    BY <1>2
  <2> QED BY <1>2, <2>1, <2>2, <2>3
<1> QED BY <1>1, <1>2, <1>3

\* What the arithmetic of a leg comes to.
LEMMA CoverKeeps ==
  ASSUME NEW T \in Nat, NEW S \in Nat, NEW Sig \in Nat, NEW w \in Nat,
         NEW D1 \in Int, NEW P1 \in Nat, NEW p \in Nat, NEW u \in Nat,
         p > 0, p * w <= T,
         (u * S - Sig) * (p * P1) <= T * (p * D1 - u * P1)
  PROVE  (u * (S + w) - Sig) * P1 <= T * D1
<1> DEFINE X == (u * (S + w) - Sig) * P1
           Y == T * D1
<1>1. T * (p * D1 - u * P1) = p * (T * D1) - T * (u * P1)
  OBVIOUS
<1>2. (u * S - Sig) * (p * P1) = p * ((u * (S + w) - Sig) * P1) - (p * w) * (u * P1)
  OBVIOUS
<1>3. (p * w) * (u * P1) <= T * (u * P1)
  <2>1. u * P1 \in Nat /\ p * w \in Nat
    OBVIOUS
  <2>2. \A a, b, c \in Nat : a <= b => a * c <= b * c
    OBVIOUS
  <2> QED BY <2>1, <2>2
<1>4. X \in Int /\ Y \in Int /\ (p * w) * (u * P1) \in Int /\ T * (u * P1) \in Int
  OBVIOUS
<1>5. p * X <= p * Y
  <2>1. p * X \in Int /\ p * Y \in Int
    BY <1>4
  <2> QED BY <1>1, <1>2, <1>3, <1>4, <2>1
<1>6. \A a, b \in Int : p * a <= p * b => a <= b
  OBVIOUS
<1> HIDE DEF X, Y
<1>7. X <= Y
  BY <1>4, <1>5, <1>6
<1> QED BY <1>7 DEF X, Y

LEMMA NextLegCovers ==
  ASSUME NEW T \in Nat, NEW pays \in Nat, NEW U \in Nat, NEW Sig \in Nat, NEW p \in Nat,
         NEW D1 \in Nat, NEW P1 \in Nat, p > 0, D1 > 0, D1 <= P1,
         (U - Sig) * P1 <= T * D1,
         pays + p > T \/ U * P1 <= pays * D1,
         NEW m \in {T, pays}
  PROVE  (U - (Sig + p)) * P1 < m * D1
<1> DEFINE X == (U - (Sig + p)) * P1
<1>1. (U - Sig) * P1 = X + p * P1
  OBVIOUS
<1>2. p * P1 \in Nat /\ p * P1 > 0 /\ p * D1 \in Nat /\ p * D1 <= p * P1
  <2>1. \A a, b, c \in Nat : a <= b => c * a <= c * b
    OBVIOUS
  <2>2. \A a, b \in Nat : a > 0 /\ b > 0 => a * b > 0 /\ a * b \in Nat
    OBVIOUS
  <2>3. P1 > 0
    OBVIOUS
  <2> QED BY <2>1, <2>2, <2>3
<1>3. X \in Int /\ T * D1 \in Int /\ pays * D1 \in Int
  OBVIOUS
<1>4. X + p * P1 <= T * D1
  BY <1>1
<1>5. X < T * D1
  <2> HIDE DEF X
  <2> QED BY <1>2, <1>3, <1>4
<1>6. CASE pays + p > T
  <2>1. (pays + p) * D1 > T * D1
    <3>1. \A a, b, c \in Nat : a > b /\ c > 0 => a * c > b * c
      OBVIOUS
    <3> QED BY <1>6, <3>1
  <2>2. (pays + p) * D1 = pays * D1 + p * D1
    OBVIOUS
  <2>3. X < pays * D1
    <3> HIDE DEF X
    <3> QED BY <1>2, <1>3, <1>4, <2>1, <2>2
  <2> QED BY <1>5, <2>3
<1>7. CASE U * P1 <= pays * D1
  <2>1. U * P1 = X + (Sig + p) * P1
    OBVIOUS
  <2>2. (Sig + p) * P1 = Sig * P1 + p * P1 /\ Sig * P1 \in Nat
    OBVIOUS
  <2>3. X < pays * D1
    <3> HIDE DEF X
    <3> QED BY <1>2, <1>3, <1>7, <2>1, <2>2
  <2> QED BY <1>5, <2>3
<1> QED BY <1>6, <1>7

LEMMA FirstLegCovers ==
  ASSUME NEW odds \in Nat, NEW asked \in Nat, NEW stake \in Nat, NEW wanted \in Nat, NEW u \in Nat,
         NEW D1 \in Nat, NEW P1 \in Nat, wanted > 0, asked * D1 - u * P1 > 0,
         odds >= asked \/ (u * wanted) * P1 <= (odds * wanted) * D1
  PROVE  (u * stake) * P1 <= (stake * odds) * D1
<1>1. u * P1 \in Nat /\ odds * D1 \in Nat /\ asked * D1 \in Nat
  OBVIOUS
<1>2. \A a, b, c \in Nat : a <= b => a * c <= b * c
  OBVIOUS
<1>3. u * P1 <= odds * D1
  <2>1. CASE odds >= asked
    BY <1>1, <1>2, <2>1
  <2>2. CASE (u * wanted) * P1 <= (odds * wanted) * D1
    <3>1. (u * wanted) * P1 = wanted * (u * P1) /\ (odds * wanted) * D1 = wanted * (odds * D1)
      OBVIOUS
    <3>2. \A a, b, c \in Nat : c > 0 /\ c * a <= c * b => a <= b
      OBVIOUS
    <3> QED BY <1>1, <2>2, <3>1, <3>2
  <2> QED BY <2>1, <2>2
<1>4. (u * P1) * stake <= (odds * D1) * stake
  BY <1>1, <1>2, <1>3
<1>5. (u * P1) * stake = (u * stake) * P1 /\ (odds * D1) * stake = (stake * odds) * D1
  OBVIOUS
<1> QED BY <1>4, <1>5

\* The pre-flight's stake of a leg is at least what the first leg's pays there.
LEMMA ResizeWithin ==
  ASSUME NEW T \in Nat, NEW s1 \in Nat, NEW p1 \in Nat, NEW pk \in Nat \ {0},
         NEW B \in Nat \ {0}, NEW c1 \in Nat, NEW ck \in Nat,
         T <= s1 * p1, s1 = c1 \div B, p1 * c1 = pk * ck
  PROVE  T \div pk <= ck \div B
<1>1. PICK r : r = T \div pk
  OBVIOUS
<1>2. r \in Nat /\ r * pk <= T
  BY <1>1, Quotient
<1>3. s1 * B <= c1
  BY Quotient
<1>4. \A a, b, c \in Nat : a <= b => a * c <= b * c
  OBVIOUS
<1>5. (r * pk) * B <= (s1 * p1) * B
  <2>1. r * pk \in Nat /\ s1 * p1 \in Nat /\ B \in Nat
    BY <1>2
  <2>2. r * pk <= s1 * p1
    BY <1>2, <2>1
  <2> QED BY <1>4, <2>1, <2>2
<1>6. (s1 * B) * p1 <= c1 * p1
  <2>1. s1 * B \in Nat
    OBVIOUS
  <2> QED BY <1>3, <1>4, <2>1
<1>7. /\ (s1 * p1) * B = (s1 * B) * p1 /\ c1 * p1 = pk * ck
      /\ (r * pk) * B = pk * (r * B)
  BY <1>2
<1>8. pk * (r * B) <= pk * ck
  <2>1. (s1 * B) * p1 \in Nat /\ c1 * p1 \in Nat /\ (r * pk) * B \in Nat
    BY <1>2
  <2> QED BY <1>5, <1>6, <1>7, <2>1
<1>9. r * B <= ck
  <2>1. r * B \in Nat
    BY <1>2
  <2>2. \A a, b, c \in Nat : c > 0 /\ c * a <= c * b => a <= b
    OBVIOUS
  <2> QED BY <1>8, <2>1, <2>2
<1> QED BY <1>1, <1>2, <1>9, QuotientIsMost

-----------------------------------------------------------------------------
LEMMA ProductFacts ==
  ASSUME NEW S, IsFiniteSet(S), NEW odds, \A i \in S : odds[i] \in Nat \ {0}
  PROVE  /\ Product(odds, S) \in Nat \ {0}
         /\ \A x \in S : Product(odds, S) = odds[x] * Product(odds, S \ {x})
         /\ S = {} => Product(odds, S) = 1
<1>1. \A A : Product(odds, A) = Times(odds, A)
  BY DEF Product, Times
<1>2. Times(odds, S) \in Nat \ {0}
  BY ProductPositive
<1>3. \A i \in S : odds[i] \in Int
  OBVIOUS
<1>4. \A x \in S : Times(odds, S) = odds[x] * Times(odds, S \ {x})
  BY <1>3, ProductRemove
<1> QED BY <1>1, <1>2, <1>4, ProductOne

\* One leg more: its own share, and the others' at its odds.
LEMMA BookAdd ==
  ASSUME NEW S, IsFiniteSet(S), NEW odds, NEW x \in S, \A i \in S : odds[i] \in Nat \ {0}
  PROVE  /\ Book(odds, S) = Unit * Product(odds, S \ {x}) + odds[x] * Book(odds, S \ {x})
         /\ Book(odds, S) \in Nat \ {0} /\ Book(odds, S \ {x}) \in Nat
<1> DEFINE R == S \ {x}
           f == [i \in S |-> Product(odds, S \ {i})]
           g == [i \in R |-> Product(odds, R \ {i})]
<1>1. /\ IsFiniteSet(R) /\ \A i \in R : odds[i] \in Nat \ {0}
      /\ \A i \in S : IsFiniteSet(S \ {i}) /\ \A j \in S \ {i} : odds[j] \in Nat \ {0}
      /\ \A i \in R : IsFiniteSet(R \ {i}) /\ \A j \in R \ {i} : odds[j] \in Nat \ {0}
  BY FS_Subset
<1>2. /\ \A i \in S : Product(odds, S \ {i}) \in Nat \ {0}
      /\ \A i \in R : Product(odds, R \ {i}) \in Nat \ {0}
  BY <1>1, ProductFacts
<1>3. /\ \A i \in S : f[i] \in Nat \ {0} /\ f[i] \in Int /\ f[i] \in Nat
      /\ \A i \in R : g[i] \in Nat \ {0} /\ g[i] \in Int /\ g[i] \in Nat
      /\ f[x] = Product(odds, R)
  BY <1>2
<1>4. \A i \in R : f[i] = odds[x] * g[i]
  <2> SUFFICES ASSUME NEW i \in R PROVE f[i] = odds[x] * g[i]
    OBVIOUS
  <2>1. x \in S \ {i} /\ (S \ {i}) \ {x} = R \ {i}
    OBVIOUS
  <2>2. Product(odds, S \ {i}) = odds[x] * Product(odds, (S \ {i}) \ {x})
    BY <1>1, <2>1, ProductFacts
  <2> QED BY <2>1, <2>2
<1>5. /\ Book(odds, S) = Unit * SumFunctionOnSet(f, S)
      /\ Book(odds, R) = Unit * SumFunctionOnSet(g, R)
  BY DEF Book
<1> HIDE DEF f, g, R
<1>6. SumFunctionOnSet(f, S) = f[x] + SumFunctionOnSet(f, R)
  BY <1>3, SumRemove DEF R
<1>7. SumFunctionOnSet(f, R) = odds[x] * SumFunctionOnSet(g, R)
  <2>1. odds[x] \in Int /\ \A i \in R : g[i] \in Int /\ f[i] = odds[x] * g[i]
    BY <1>3, <1>4
  <2> QED BY <1>1, <2>1, SumTimes
<1>8. SumFunctionOnSet(g, R) \in Nat /\ SumFunctionOnSet(f, S) \in Nat
  BY <1>1, <1>3, SumSubset
<1>9. SumFunctionOnSet(f, S) >= f[x] /\ f[x] \in Nat \ {0}
  BY <1>3, SumAtLeast
<1>10. Unit \in Nat \ {0} /\ odds[x] \in Nat
  BY LegAssumption
<1>11. \A u, p, o, s \in Nat : u * (p + o * s) = u * p + o * (u * s) /\ u * s \in Nat
  OBVIOUS
<1>12. \A u, p \in Nat \ {0} : u * p \in Nat \ {0}
  OBVIOUS
<1>13. Book(odds, S) = Unit * f[x] + odds[x] * Book(odds, R)
  BY <1>5, <1>6, <1>7, <1>8, <1>9, <1>10, <1>11
<1>14. SumFunctionOnSet(f, S) \in Nat \ {0}
  BY <1>8, <1>9
<1>15. Book(odds, S) \in Nat \ {0} /\ Book(odds, R) \in Nat
  BY <1>5, <1>8, <1>10, <1>11, <1>12, <1>14
<1> QED BY <1>3, <1>13, <1>15 DEF R

LEMMA BookEmpty ==
  ASSUME NEW odds
  PROVE  Book(odds, {}) = 0
BY SumEmpty, LegAssumption DEF Book

-----------------------------------------------------------------------------
Unfired == LegIds \ Fired
InFull == \A i \in Fired \ {1} : legStatus[i] = "FILLED"

\* What the fills so far pay, less what they cost, for the legs that have not
\* fired; each re-sizing after the first may have cost a stake unit.
Cover ==
  InFull /\ Fired # {} =>
    LET left  == target * (Product(price, Unfired) - Book(price, Unfired))
        spent == Unit * StakedSoFar - Sum(price, Fired \ {1})
    IN  /\ spent * Product(price, Unfired) <= left
        /\ Fired # {1} => spent * Product(price, Unfired) < left

AsPlanned(i) == i = 1 \/ i > next \/ (i = next /\ group = "RUNNING")

LegInv ==
  /\ LegTypeOK
  /\ Book(price, LegIds) < Product(price, LegIds)
  /\ \E total \in Totals :
       \A i \in LegIds : AsPlanned(i) => toStake[i] = Planned(price, total)[i]
  /\ \/ Fired = 1..(next - 1)
     \/ Fired = LegIds /\ next = Legs /\ group # "RUNNING"
  /\ target = 0 <=> Fired = {}
  /\ \A i \in Fired : target <= fill[i].stake * fill[i].odds
  /\ 1 \in Fired => fill[1].stake <= toStake[1]
  /\ Cover

-----------------------------------------------------------------------------
LEMMA LegNumbers ==
  /\ Legs \in Nat /\ Legs > 1 /\ Unit \in Nat \ {0} /\ 1 \in LegIds
  /\ IsFiniteSet(LegIds) /\ \A S \in SUBSET LegIds : IsFiniteSet(S)
  /\ \A i \in LegIds : i \in Nat /\ i >= 1 /\ i <= Legs
  /\ \A p \in Prices \cup Matched : p \in Nat \ {0}
  /\ Totals \subseteq Nat \ {0}
<1>1. Legs \in Nat /\ Legs > 1 /\ Unit \in Nat \ {0}
  BY LegAssumption
<1>2. IsFiniteSet(1..Legs)
  BY <1>1, FS_Interval
<1>3. \A S \in SUBSET (1..Legs) : IsFiniteSet(S)
  BY <1>2, FS_Subset
<1>4. \A p \in Prices \cup Matched : p \in Nat \ {0}
  BY LegAssumption
<1> QED BY <1>1, <1>2, <1>3, <1>4, LegAssumption DEF LegIds

LEMMA LegParts ==
  ASSUME LegInv
  PROVE  /\ price \in [LegIds -> Prices] /\ \A i \in LegIds : price[i] \in Nat \ {0}
         /\ toStake \in [LegIds -> Nat]
         /\ fill \in [LegIds -> [stake : Nat, odds : Matched \cup {0}]]
         /\ \A i \in LegIds : fill[i].stake \in Nat /\ fill[i].odds \in Nat
         /\ next \in LegIds /\ target \in Nat
         /\ Fired \in SUBSET LegIds /\ Unfired \in SUBSET LegIds /\ Later \in SUBSET LegIds
<1>1. LegTypeOK
  BY DEF LegInv
<1>2. \A i \in LegIds : price[i] \in Nat \ {0}
  BY <1>1, LegNumbers DEF LegTypeOK
<1>3. \A i \in LegIds : fill[i].stake \in Nat /\ fill[i].odds \in Nat
  <2>1. \A o \in Matched \cup {0} : o \in Nat
    BY LegNumbers
  <2> QED BY <1>1, <2>1 DEF LegTypeOK
<1>4. Later \in SUBSET LegIds
  <2>1. next \in LegIds /\ Legs \in Nat
    BY <1>1, LegNumbers DEF LegTypeOK
  <2> QED BY <2>1 DEF Later, LegIds
<1> QED BY <1>1, <1>2, <1>3, <1>4 DEF LegTypeOK, Fired, Unfired

\* Whose turn it is, and what it is staked.
LEMMA TurnIs ==
  ASSUME LegInv, group = "RUNNING"
  PROVE  /\ next \in Nat /\ Fired = 1..(next - 1)
         /\ next \notin Fired /\ next \in Unfired /\ Unfired \ {next} = Later
         /\ fill[next].stake = 0
         /\ \A i \in Later : i > next
         /\ next = 1 => Fired = {} /\ Unfired = LegIds /\ target = 0 /\ Resized = toStake[1]
         /\ next # 1 => 1 \in Fired /\ target > 0 /\ Resized = target \div price[next]
         /\ Resized \in Nat
<1>1. next \in Nat /\ next >= 1 /\ next <= Legs /\ Legs \in Nat /\ next \in LegIds
  BY LegParts, LegNumbers
<1>2. Fired = 1..(next - 1)
  BY DEF LegInv
<1>3. next \notin Fired /\ next \in Unfired /\ Unfired \ {next} = Later /\ \A i \in Later : i > next
  BY <1>1, <1>2 DEF Unfired, Later, LegIds
<1>4. fill[next].stake = 0
  <2>1. fill[next].stake \in Nat
    BY <1>1, LegParts
  <2> QED BY <1>1, <1>3, <2>1 DEF Fired
<1>5. next = 1 => Fired = {} /\ Unfired = LegIds
  BY <1>1, <1>2 DEF Unfired
<1>6. next # 1 => 1 \in Fired
  BY <1>1, <1>2
<1>7. next = 1 => target = 0 /\ Resized = toStake[1]
  BY <1>5 DEF LegInv, Resized
<1>8. next # 1 => target > 0 /\ Resized = target \div price[next]
  <2>1. target \in Nat
    BY LegParts
  <2> QED BY <1>6, <2>1 DEF LegInv, Resized
<1>9. Resized \in Nat
  <2>1. CASE next = 1
    <3>1. toStake[1] \in Nat
      BY LegParts, LegNumbers
    <3> QED BY <1>7, <2>1, <3>1
  <2>2. CASE next # 1
    <3>1. target \in Nat /\ price[next] \in Nat \ {0}
      BY <1>1, LegParts
    <3> QED BY <1>8, <2>2, <3>1, Quotient
  <2> QED BY <2>1, <2>2
<1> QED BY <1>1, <1>2, <1>3, <1>4, <1>5, <1>6, <1>7, <1>8, <1>9

\* A leg that does not fire leaves the fills and the target as they are.
LEMMA EndsKeeps ==
  ASSUME LegInv, group = "RUNNING", toStake' = Stakes(Resized),
         group' \in {"LEGGED", "ABORTED"},
         NEW legEnd \in {"SKIPPED", "FAILED", "UNCONFIRMED"},
         legStatus' = [legStatus EXCEPT ![next] = legEnd],
         UNCHANGED <<price, fill, next, target>>
  PROVE  LegInv'
<1>1. price' = price /\ fill' = fill /\ next' = next /\ target' = target
  OBVIOUS
<1>2. Fired' = Fired /\ Unfired' = Unfired /\ StakedSoFar' = StakedSoFar
  BY <1>1 DEF Fired, Unfired, StakedSoFar
<1>3. /\ toStake' \in [LegIds -> Nat] /\ toStake'[1] = toStake[1]
      /\ \A i \in LegIds \ {next} : toStake'[i] = toStake[i]
  <2>1. /\ toStake \in [LegIds -> Nat] /\ next \in LegIds /\ 1 \in LegIds
    BY LegParts, LegNumbers
  <2>2. PICK s : s = Resized
    OBVIOUS
  <2>3. s \in Nat /\ (next = 1 => s = toStake[1])
    BY <2>2, TurnIs
  <2>4. toStake' = [toStake EXCEPT ![next] = s]
    BY <2>2 DEF Stakes
  <2> QED BY <2>1, <2>3, <2>4
<1>4. LegTypeOK'
  <2>1. LegTypeOK
    BY DEF LegInv
  <2>2. legStatus' \in [LegIds -> {"ABORTED", "SKIPPED", "FILLED", "PARTIAL", "FAILED", "UNCONFIRMED"}]
    BY <2>1 DEF LegTypeOK
  <2> QED BY <1>1, <1>3, <2>1, <2>2 DEF LegTypeOK
<1>5. \A i \in Fired : legStatus'[i] = legStatus[i]
  <2>1. next \notin Fired /\ Fired \subseteq LegIds /\ LegTypeOK
    BY TurnIs, LegParts DEF LegInv
  <2> QED BY <2>1 DEF LegTypeOK
<1>6. Cover'
  <2>1. InFull' <=> InFull
    BY <1>2, <1>5 DEF InFull
  <2>2. Cover
    BY DEF LegInv
  <2> QED BY <1>1, <1>2, <2>1, <2>2 DEF Cover
<1>7. \E total \in Totals :
        \A i \in LegIds : AsPlanned(i)' => toStake'[i] = Planned(price, total)[i]
  <2>1. PICK total \in Totals :
          \A i \in LegIds : AsPlanned(i) => toStake[i] = Planned(price, total)[i]
    BY DEF LegInv
  <2>2. \A i \in LegIds : AsPlanned(i)' => AsPlanned(i) /\ (i = 1 \/ i # next)
    <3>1. next \in Nat /\ \A i \in LegIds : i \in Nat
      BY TurnIs, LegNumbers
    <3> QED BY <1>1, <3>1 DEF AsPlanned
  <2> QED BY <1>3, <2>1, <2>2
<1>8. /\ Book(price, LegIds) < Product(price, LegIds)
      /\ Fired = 1..(next - 1)
      /\ target = 0 <=> Fired = {}
      /\ \A i \in Fired : target <= fill[i].stake * fill[i].odds
      /\ 1 \in Fired => fill[1].stake <= toStake'[1]
  BY <1>3, TurnIs DEF LegInv
<1> QED BY <1>1, <1>2, <1>4, <1>6, <1>7, <1>8 DEF LegInv

\* What the legs that follow and the one whose turn it is come to.
LEMMA LaterIs ==
  ASSUME LegInv, group = "RUNNING"
  PROVE  /\ Product(price, Later) \in Nat \ {0} /\ Book(price, Later) \in Nat
         /\ Product(price, Unfired) = price[next] * Product(price, Later)
         /\ Book(price, Unfired)
              = Unit * Product(price, Later) + price[next] * Book(price, Later)
         /\ Product(price, Unfired) - Book(price, Unfired)
              = price[next] * (Product(price, Later) - Book(price, Later))
                  - Unit * Product(price, Later)
<1>1. /\ next \in Unfired /\ Unfired \ {next} = Later
      /\ IsFiniteSet(Unfired) /\ IsFiniteSet(Later)
      /\ \A i \in Unfired : price[i] \in Nat \ {0}
      /\ \A i \in Later : price[i] \in Nat \ {0}
  BY TurnIs, LegParts, LegNumbers
<1>2. /\ Product(price, Later) \in Nat \ {0}
      /\ Product(price, Unfired) = price[next] * Product(price, Later)
  BY <1>1, ProductFacts
<1>3. /\ Book(price, Unfired) = Unit * Product(price, Later) + price[next] * Book(price, Later)
      /\ Book(price, Later) \in Nat
  BY <1>1, BookAdd
<1>4. \A p, a, b, u \in Nat : p * a - (u * a + p * b) = p * (a - b) - u * a
  OBVIOUS
<1>5. price[next] \in Nat /\ Unit \in Nat
  BY <1>1, LegNumbers
<1> QED BY <1>2, <1>3, <1>4, <1>5

LEMMA FireKeeps ==
  ASSUME LegInv, NEW odds \in Matched, NEW stake \in 1..Resized, FireLeg(stake, odds)
  PROVE  LegInv'
<1> DEFINE w == Resized
           p == price[next]
           pays == stake * odds
           P1 == Product(price, Later)
           B1 == Book(price, Later)
           U == Unit * (StakedSoFar + stake)
           sig == Sum(price, Fired \ {1})
<1>1. /\ group = "RUNNING" /\ B1 < P1
      /\ odds >= p \/ Covers(odds, w)
      /\ toStake' = Stakes(w)
      /\ fill' = [fill EXCEPT ![next] = [stake |-> stake, odds |-> odds]]
      /\ legStatus' = [legStatus EXCEPT ![next] = IF stake < w THEN "PARTIAL" ELSE "FILLED"]
      /\ target' = IF target = 0 THEN pays ELSE Min2(target, pays)
      /\ price' = price
  BY DEF FireLeg, RoomLeft, Acceptable
<1>2. \/ next < Legs /\ next' = next + 1 /\ group' = group
      \/ ~(next < Legs) /\ next' = next /\ group' \in {"COMPLETE", "LEGGED"}
  BY DEF FireLeg
<1>3. /\ w \in Nat /\ stake \in Nat /\ stake > 0 /\ stake <= w
      /\ odds \in Nat \ {0} /\ p \in Nat \ {0}
      /\ next \in LegIds /\ next \in Nat /\ Legs \in Nat /\ next <= Legs /\ next >= 1
      /\ Unit \in Nat \ {0} /\ target \in Nat
  BY <1>1, TurnIs, LegParts, LegNumbers
<1>4. pays \in Nat \ {0}
  <2>1. \A a, b \in Nat \ {0} : a * b \in Nat \ {0}
    OBVIOUS
  <2> QED BY <1>3, <2>1
<1>5. /\ P1 \in Nat \ {0} /\ B1 \in Nat
      /\ Product(price, Unfired) = p * P1
      /\ Product(price, Unfired) - Book(price, Unfired) = p * (P1 - B1) - Unit * P1
  BY <1>1, LaterIs
<1>6. Covers(odds, w) => Unit * (StakedSoFar + w) * P1 <= odds * w * (P1 - B1)
  BY <1>3, <1>5 DEF Covers
<1> HIDE DEF w, pays, P1, B1
<1>7. /\ target' \in Nat /\ target' # 0 /\ target' \in {target, pays} /\ target' <= pays
      /\ target # 0 => target' <= target
      /\ target = 0 => target' = pays
  BY <1>1, <1>3, <1>4 DEF Min2
<1>8. /\ \A i \in LegIds \ {next} : fill'[i] = fill[i]
      /\ fill'[next] = [stake |-> stake, odds |-> odds]
      /\ fill' \in [LegIds -> [stake : Nat, odds : Matched \cup {0}]]
      /\ fill'[next].stake = stake /\ fill'[next].odds = odds
  <2>1. fill \in [LegIds -> [stake : Nat, odds : Matched \cup {0}]]
    BY LegParts
  <2>2. [stake |-> stake, odds |-> odds] \in [stake : Nat, odds : Matched \cup {0}]
    BY <1>3
  <2> QED BY <1>1, <1>3, <2>1, <2>2
<1>9. /\ toStake' \in [LegIds -> Nat] /\ toStake'[next] = w
      /\ \A i \in LegIds \ {next} : toStake'[i] = toStake[i]
      /\ next = 1 => w = toStake[1]
  <2>1. toStake \in [LegIds -> Nat]
    BY LegParts
  <2>2. next = 1 => w = toStake[1]
    BY <1>1, TurnIs DEF w
  <2> QED BY <1>1, <1>3, <2>1, <2>2 DEF Stakes
<1>10. /\ legStatus' \in [LegIds -> {"ABORTED", "SKIPPED", "FILLED", "PARTIAL", "FAILED", "UNCONFIRMED"}]
       /\ legStatus'[next] = "FILLED" => stake = w
       /\ \A i \in LegIds \ {next} : legStatus'[i] = legStatus[i]
  <2>1. legStatus \in [LegIds -> {"ABORTED", "SKIPPED", "FILLED", "PARTIAL", "FAILED", "UNCONFIRMED"}]
    BY DEF LegInv, LegTypeOK
  <2>2. PICK ending : ending = IF stake < w THEN "PARTIAL" ELSE "FILLED"
    OBVIOUS
  <2>3. ending \in {"PARTIAL", "FILLED"} /\ (ending = "FILLED" => stake = w)
    BY <1>3, <2>2
  <2> QED BY <1>1, <1>3, <2>1, <2>2, <2>3
<1>11. LegTypeOK'
  <2>1. LegTypeOK
    BY DEF LegInv
  <2>2. next' \in LegIds /\ group' \in {"RUNNING", "COMPLETE", "LEGGED", "ABORTED"}
    BY <1>1, <1>2, <1>3 DEF LegIds
  <2> QED BY <1>1, <1>7, <1>8, <1>9, <1>10, <2>1, <2>2 DEF LegTypeOK
\* Where the legs stand.
<1>12. /\ Fired = 1..(next - 1) /\ next \notin Fired /\ next \in Unfired
       /\ Unfired \ {next} = Later /\ Fired \in SUBSET LegIds /\ fill[next].stake = 0
  BY <1>1, TurnIs, LegParts
<1>13. Fired' = Fired \cup {next} /\ Unfired' = Later
  <2>1. Fired' = Fired \cup {next}
    BY <1>3, <1>8, <1>12 DEF Fired
  <2> QED BY <1>12, <2>1 DEF Unfired
<1>14. \/ Fired' = 1..(next' - 1)
       \/ Fired' = LegIds /\ next' = Legs /\ group' # "RUNNING"
  <2>1. Fired' = 1..next
    BY <1>3, <1>12, <1>13
  <2>2. CASE next < Legs /\ next' = next + 1
    BY <1>3, <2>1, <2>2
  <2>3. CASE ~(next < Legs) /\ next' = next /\ group' \in {"COMPLETE", "LEGGED"}
    BY <1>3, <2>1, <2>3 DEF LegIds
  <2> QED BY <1>2, <2>2, <2>3
<1>15. \A i \in Fired' : target' <= fill'[i].stake * fill'[i].odds
  <2> SUFFICES ASSUME NEW i \in Fired' PROVE target' <= fill'[i].stake * fill'[i].odds
    OBVIOUS
  <2>1. CASE i = next
    BY <1>7, <1>8, <2>1 DEF pays
  <2>2. CASE i # next
    <3>1. i \in Fired /\ i \in LegIds /\ fill'[i] = fill[i]
      BY <1>8, <1>12, <1>13, <2>2
    <3>2. target <= fill[i].stake * fill[i].odds /\ target # 0
      BY <3>1 DEF LegInv
    <3>3. fill[i].stake * fill[i].odds \in Nat
      <4>1. fill[i].stake \in Nat /\ fill[i].odds \in Nat
        BY <3>1, LegParts
      <4> QED BY <4>1
    <3> QED BY <1>3, <1>7, <3>1, <3>2, <3>3
  <2> QED BY <2>1, <2>2
<1>16. 1 \in Fired' => fill'[1].stake <= toStake'[1]
  <2>1. CASE next = 1
    BY <1>3, <1>8, <1>9, <2>1
  <2>2. CASE next # 1
    <3>1. 1 \in Fired /\ 1 \in LegIds /\ fill[1].stake <= toStake[1]
      BY <1>1, <2>2, TurnIs, LegNumbers DEF LegInv
    <3> QED BY <1>8, <1>9, <2>2, <3>1
  <2> QED BY <2>1, <2>2
<1>17. \E total \in Totals :
         \A i \in LegIds : AsPlanned(i)' => toStake'[i] = Planned(price, total)[i]
  <2>1. PICK total \in Totals :
          \A i \in LegIds : AsPlanned(i) => toStake[i] = Planned(price, total)[i]
    BY DEF LegInv
  <2>2. \A i \in LegIds : AsPlanned(i)' => AsPlanned(i) /\ (i = 1 \/ i # next)
    <3>1. \A i \in LegIds : i \in Nat
      BY LegNumbers
    <3> QED BY <1>1, <1>2, <1>3, <3>1 DEF AsPlanned
  <2> QED BY <1>9, <2>1, <2>2
<1>18. StakedSoFar \in Nat /\ StakedSoFar' = StakedSoFar + stake
  <2> DEFINE f == [i \in LegIds |-> fill[i].stake]
             g == [i \in LegIds |-> fill'[i].stake]
  <2>1. \A i \in LegIds : f[i] \in Nat /\ f[i] \in Int
    BY LegParts
  <2>2. /\ \A i \in LegIds \ {next} : g[i] = f[i]
        /\ f[next] = 0 /\ g[next] = stake
    BY <1>3, <1>8, <1>12
  <2>3. \A i \in LegIds : g[i] \in Int
    BY <1>3, <2>1, <2>2
  <2>4. StakedSoFar = SumFunctionOnSet(f, LegIds) /\ StakedSoFar' = SumFunctionOnSet(g, LegIds)
    BY DEF StakedSoFar, Sum
  <2> HIDE DEF f, g
  <2>5. SumFunctionOnSet(f, LegIds) \in Nat
    BY <2>1, LegNumbers, SumSubset
  <2>6. SumFunctionOnSet(g, LegIds) = SumFunctionOnSet(f, LegIds) - f[next] + g[next]
    <3>1. next \in LegIds /\ IsFiniteSet(LegIds)
      BY <1>3, LegNumbers
    <3>2. \A i \in LegIds : f[i] \in Int /\ g[i] \in Int
      BY <2>1, <2>3
    <3>3. \A i \in LegIds \ {next} : g[i] = f[i]
      BY <2>2
    <3> QED BY <3>1, <3>2, <3>3, SumChange
  <2> QED BY <1>3, <2>2, <2>4, <2>5, <2>6
<1>19. sig \in Nat /\ (next # 1 => Sum(price, Fired' \ {1}) = sig + p)
  <2>1. IsFiniteSet(Fired \ {1}) /\ \A i \in LegIds : price[i] \in Nat /\ price[i] \in Int
    <3>1. Fired \ {1} \in SUBSET LegIds
      BY <1>12
    <3> QED BY <3>1, LegParts, LegNumbers
  <2>2. \A i \in (Fired \ {1}) \cup {next} : price[i] \in Int
    BY <1>3, <1>12, <2>1
  <2>3. sig \in Nat
    BY <1>12, <2>1, SumSubset DEF Sum
  <2>4. ASSUME next # 1 PROVE Sum(price, Fired' \ {1}) = sig + p
    <3>1. Fired' \ {1} = (Fired \ {1}) \cup {next} /\ next \notin Fired \ {1}
      BY <1>12, <1>13, <2>4
    <3>2. SumFunctionOnSet(price, (Fired \ {1}) \cup {next}) = p + SumFunctionOnSet(price, Fired \ {1})
      BY <2>1, <2>2, <3>1, SumAdd
    <3> QED BY <1>3, <2>3, <3>1, <3>2 DEF Sum
  <2> QED BY <2>3, <2>4
<1>20. P1 - B1 \in Nat /\ P1 - B1 > 0 /\ P1 - B1 <= P1 /\ U \in Nat
  BY <1>1, <1>3, <1>5, <1>18
<1>21. Cover'
  <2>1. /\ Product(price, Unfired)' = P1 /\ Book(price, Unfired)' = B1
    BY <1>1, <1>13 DEF P1, B1
  <2>2. CASE next = 1
    <3>1. /\ Fired' = {1} /\ Fired' \ {1} = {} /\ target' = pays
          /\ Sum(price, {}) = 0
      BY <1>1, <1>7, <1>13, <2>2, TurnIs, SumEmpty DEF Sum
    <3>2. StakedSoFar = 0
      <4> DEFINE f == [i \in LegIds |-> fill[i].stake]
      <4>1. \A i \in LegIds : f[i] = 0
        <5>1. Fired = {}
          BY <1>1, <2>2, TurnIs
        <5>2. \A i \in LegIds : fill[i].stake \in Nat /\ i \notin Fired
          BY <5>1, LegParts
        <5> QED BY <5>2 DEF Fired
      <4>2. StakedSoFar = SumFunctionOnSet(f, LegIds)
        BY DEF StakedSoFar, Sum
      <4> HIDE DEF f
      <4>3. IsFiniteSet(LegIds) /\ {} \in SUBSET LegIds /\ \A i \in LegIds \ {} : f[i] = 0
        BY <4>1, LegNumbers
      <4>4. SumFunctionOnSet(f, LegIds) = SumFunctionOnSet(f, {})
        BY <4>3, SumSupport
      <4> QED BY <4>2, <4>4, SumEmpty
    <3>3. p * (P1 - B1) - Unit * P1 > 0
      <4>1. Unfired = LegIds
        BY <1>1, <2>2, TurnIs
      <4>2. Book(price, LegIds) < Product(price, LegIds) /\ Product(price, LegIds) = p * P1
        BY <1>5, <4>1 DEF LegInv
      <4>3. Product(price, LegIds) - Book(price, LegIds) = p * (P1 - B1) - Unit * P1
        BY <1>5, <4>1
      <4>4. Book(price, LegIds) \in Int /\ Product(price, LegIds) \in Int
        <5>1. \A i \in LegIds : price[i] \in Nat \ {0}
          BY LegParts
        <5>2. IsFiniteSet(LegIds) /\ 1 \in LegIds
          BY LegNumbers
        <5>3. Book(price, LegIds) \in Nat \ {0}
          BY <5>1, <5>2, BookAdd
        <5>4. Product(price, LegIds) \in Nat \ {0}
          BY <5>1, <5>2, ProductFacts
        <5> QED BY <5>3, <5>4
      <4> QED BY <4>2, <4>3, <4>4
    <3>4. odds >= p \/ (Unit * w) * P1 <= (odds * w) * (P1 - B1)
      BY <1>1, <1>3, <1>6, <3>2 DEF w
    <3>5. (Unit * stake) * P1 <= (stake * odds) * (P1 - B1)
      <4>1. /\ odds \in Nat /\ p \in Nat /\ stake \in Nat /\ w \in Nat /\ w > 0 /\ Unit \in Nat
            /\ P1 - B1 \in Nat /\ P1 \in Nat
        BY <1>3, <1>5, <1>20
      <4> HIDE DEF p
      <4> QED BY <3>3, <3>4, <4>1, FirstLegCovers
    <3>6. StakedSoFar' = stake
      BY <1>3, <1>18, <3>2
    <3>7. Unit * StakedSoFar' - 0 = Unit * stake
      BY <1>3, <3>6
    <3> QED BY <1>1, <2>1, <3>1, <3>5, <3>7 DEF Cover, pays
  <2>3. CASE next # 1
    <3> SUFFICES ASSUME InFull'
                 PROVE  (Unit * StakedSoFar' - Sum(price, Fired' \ {1})) * P1 < target' * (P1 - B1)
      <4>1. (Unit * StakedSoFar' - Sum(price, Fired' \ {1})) * P1 \in Int
            /\ target' * (P1 - B1) \in Int
        BY <1>3, <1>5, <1>7, <1>18, <1>19, <1>20, <2>3
      <4> QED BY <1>1, <2>1, <4>1 DEF Cover
    <3>1. InFull /\ stake = w
      <4>1. \A i \in Fired \ {1} : i # next /\ i \in LegIds /\ i \in Fired' \ {1}
        BY <1>12, <1>13
      <4>2. next \in Fired' \ {1}
        BY <1>13, <2>3
      <4>3. \A i \in Fired' \ {1} : legStatus'[i] = "FILLED"
        BY DEF InFull
      <4> QED BY <1>10, <4>1, <4>2, <4>3 DEF InFull
    <3>2. /\ target > 0 /\ w = target \div p /\ Fired # {}
      BY <1>1, <2>3, TurnIs DEF w
    <3>3. w * p <= target /\ target < w * p + p
      BY <1>3, <3>2, Quotient
    <3>4. (Unit * StakedSoFar - sig) * (p * P1) <= target * (p * (P1 - B1) - Unit * P1)
      <4>1. (Unit * StakedSoFar - sig) * Product(price, Unfired)
              <= target * (Product(price, Unfired) - Book(price, Unfired))
        BY <3>1, <3>2 DEF LegInv, Cover
      <4> QED BY <1>5, <4>1
    <3> HIDE DEF p, sig
    <3>5. (U - sig) * P1 <= target * (P1 - B1)
      <4>1. p * w <= target /\ p > 0 /\ p \in Nat /\ Unit \in Nat
        BY <1>3, <3>3
      <4>2. (Unit * (StakedSoFar + w) - sig) * P1 <= target * (P1 - B1)
        BY <1>3, <1>5, <1>18, <1>19, <1>20, <3>4, <4>1, CoverKeeps
      <4> QED BY <3>1, <4>2
    <3>6. pays + p > target \/ U * P1 <= pays * (P1 - B1)
      <4>1. CASE odds >= p
        <5>1. w * odds >= w * p
          <6>1. \A a, b, c \in Nat : a >= b => c * a >= c * b
            OBVIOUS
          <6> QED BY <1>3, <4>1, <6>1
        <5>2. pays = w * odds /\ w * p \in Nat /\ w * odds \in Nat
          BY <1>3, <3>1 DEF pays
        <5> QED BY <1>3, <3>3, <5>1, <5>2
      <4>2. CASE Covers(odds, w)
        <5>1. odds * w = pays
          BY <1>3, <3>1 DEF pays
        <5> QED BY <1>6, <3>1, <4>2, <5>1
      <4> QED BY <1>1, <4>1, <4>2 DEF p, w
    <3>7. (U - (sig + p)) * P1 < target' * (P1 - B1)
      <4>1. /\ target \in Nat /\ pays \in Nat /\ p \in Nat /\ p > 0 /\ P1 \in Nat
        BY <1>3, <1>4, <1>5
      <4>2. target' \in {target, pays}
        BY <1>7
      <4> HIDE DEF U
      <4> QED BY <1>19, <1>20, <3>5, <3>6, <4>1, <4>2, NextLegCovers
    <3>8. Sum(price, Fired' \ {1}) = sig + p /\ Unit * StakedSoFar' = U
      BY <1>18, <1>19, <2>3 DEF p, sig
    <3> QED BY <3>7, <3>8
  <2> QED BY <2>2, <2>3
<1>22. Book(price, LegIds) < Product(price, LegIds)
  BY DEF LegInv
<1>23. target' = 0 <=> Fired' = {}
  BY <1>7, <1>13
<1> QED BY <1>1, <1>11, <1>14, <1>15, <1>16, <1>17, <1>21, <1>22, <1>23 DEF LegInv

LEMMA LegInvInit == LegInit => LegInv
<1> SUFFICES ASSUME LegInit PROVE LegInv
  OBVIOUS
<1>1. PICK total \in Totals :
        /\ price \in [LegIds -> Prices]
        /\ toStake = Planned(price, total)
        /\ Arbitrage(price, toStake)
  BY DEF LegInit
<1>2. /\ fill = [i \in LegIds |-> NoFill]
      /\ legStatus = [i \in LegIds |-> "ABORTED"]
      /\ next = 1 /\ target = 0 /\ group = "RUNNING"
  BY DEF LegInit
<1>3. /\ IsFiniteSet(LegIds) /\ 1 \in LegIds /\ total \in Nat /\ Unit \in Nat
      /\ \A i \in LegIds : price[i] \in Nat \ {0}
      /\ \A i \in LegIds : IsFiniteSet(LegIds \ {i}) /\ \A j \in LegIds \ {i} : price[j] \in Nat \ {0}
  <2>1. \A i \in LegIds : LegIds \ {i} \in SUBSET LegIds
    OBVIOUS
  <2> QED BY <1>1, <2>1, LegNumbers
<1>4. Book(price, LegIds) \in Nat \ {0}
  BY <1>3, BookAdd
<1>5. \A i \in LegIds : Product(price, LegIds \ {i}) \in Nat \ {0}
  BY <1>3, ProductFacts
<1>6. toStake \in [LegIds -> Nat]
  <2>1. ASSUME NEW i \in LegIds
        PROVE  (total * Unit * Product(price, LegIds \ {i})) \div Book(price, LegIds) \in Nat
    <3>1. total * Unit * Product(price, LegIds \ {i}) \in Nat
      <4>1. \A a, b, c \in Nat : a * b * c \in Nat
        OBVIOUS
      <4> QED BY <1>3, <1>5, <4>1
    <3> QED BY <1>4, <3>1, Quotient
  <2> QED BY <1>1, <2>1 DEF Planned
<1>7. fill \in [LegIds -> [stake : Nat, odds : Matched \cup {0}]] /\ Fired = {}
  BY <1>2 DEF NoFill, Fired
<1>8. LegTypeOK
  BY <1>1, <1>2, <1>3, <1>6, <1>7 DEF LegTypeOK
<1>9. Book(price, LegIds) < Product(price, LegIds)
  BY <1>1 DEF Arbitrage
<1>10. Cover /\ Fired = 1..(next - 1)
  BY <1>2, <1>7 DEF Cover
<1> QED BY <1>1, <1>2, <1>7, <1>8, <1>9, <1>10 DEF LegInv

\* Every step leaves the leg whose turn it is with the stake it was re-sized to.
LEMMA StepIs ==
  ASSUME LegInv, LegNext
  PROVE  /\ group = "RUNNING" /\ toStake' = Stakes(Resized)
         /\ \/ \E odds \in Matched, stake \in 1..Resized : FireLeg(stake, odds)
            \/ \E status \in {"LEGGED", "ABORTED"},
                  legEnd \in {"SKIPPED", "FAILED", "UNCONFIRMED"} : Ends(status, legEnd)
<1>1. CASE SkipLeg
  BY <1>1 DEF SkipLeg
<1>2. CASE LegFails
  BY <1>2 DEF LegFails
<1>3. CASE LegUnconfirmed
  BY <1>3 DEF LegUnconfirmed
<1>4. CASE \E odds \in Matched, stake \in 1..Resized : FireLeg(stake, odds)
  BY <1>4 DEF FireLeg
<1> QED BY <1>1, <1>2, <1>3, <1>4 DEF LegNext

LEMMA LegInvNext == LegInv /\ [LegNext]_legVars => LegInv'
<1> SUFFICES ASSUME LegInv, [LegNext]_legVars PROVE LegInv'
  OBVIOUS
<1>1. ASSUME LegNext PROVE LegInv'
  <2>1. CASE \E odds \in Matched, stake \in 1..Resized : FireLeg(stake, odds)
    BY <2>1, FireKeeps
  <2>2. ASSUME NEW status \in {"LEGGED", "ABORTED"},
               NEW legEnd \in {"SKIPPED", "FAILED", "UNCONFIRMED"}, Ends(status, legEnd)
        PROVE  LegInv'
    <3>1. /\ group' \in {"LEGGED", "ABORTED"}
          /\ legStatus' = [legStatus EXCEPT ![next] = legEnd]
          /\ UNCHANGED <<price, fill, next, target>>
      BY <2>2 DEF Ends
    <3>2. group = "RUNNING" /\ toStake' = Stakes(Resized)
      BY <1>1, StepIs
    <3> QED BY <3>1, <3>2, EndsKeeps
  <2> QED BY <1>1, <2>1, <2>2, StepIs
<1>2. CASE UNCHANGED legVars
  <2>1. /\ price' = price /\ toStake' = toStake /\ fill' = fill /\ legStatus' = legStatus
        /\ next' = next /\ target' = target /\ group' = group
    BY <1>2 DEF legVars
  <2>2. Fired' = Fired /\ Unfired' = Unfired /\ StakedSoFar' = StakedSoFar
    BY <2>1 DEF Fired, Unfired, StakedSoFar
  <2>3. LegTypeOK' /\ (InFull' <=> InFull) /\ \A i : AsPlanned(i)' <=> AsPlanned(i)
    BY <2>1, <2>2 DEF LegInv, LegTypeOK, InFull, AsPlanned
  <2>4. Cover'
    BY <2>1, <2>2, <2>3 DEF LegInv, Cover
  <2> QED BY <2>1, <2>2, <2>3, <2>4 DEF LegInv
<1> QED BY <1>1, <1>2

\* The inductive invariant of the legs holds.
THEOREM LegInvariant == LegSpec => []LegInv
BY LegInvInit, LegInvNext, PTL DEF LegSpec

\* LegTypeOK: every variable of the leg executor stays in its domain.
THEOREM LegTypes == LegSpec => []LegTypeOK
<1>1. LegInv => LegTypeOK
  BY DEF LegInv
<1> QED BY <1>1, LegInvariant, PTL

\* SlippedFillsCover (leg_executor.py:18): legs that all fill, at whatever
\* prices their floors admit, lose at most what the re-sizing rounds off.
THEOREM SlippedFillsAreCovered == LegSpec => []SlippedFillsCover
<1>1. LegInv => SlippedFillsCover
  <2> SUFFICES ASSUME LegInv, Fired = LegIds, \A i \in 2..Legs : legStatus[i] = "FILLED",
                      NEW i \in LegIds
               PROVE  Profit(fill, i) > -Sum(price, 2..Legs)
    BY DEF SlippedFillsCover
  <2>1. Fired \ {1} = 2..Legs /\ Fired # {1} /\ Fired # {} /\ Unfired = {}
    <3>1. Legs \in Nat /\ Legs > 1
      BY LegNumbers
    <3>2. 2 \in LegIds
      BY <3>1 DEF LegIds
    <3>3. (1..Legs) \ {1} = 2..Legs
      BY <3>1
    <3> QED BY <3>2, <3>3 DEF Unfired, LegIds
  <2>2. InFull
    BY <2>1 DEF InFull
  <2>3. Product(price, {}) = 1 /\ Book(price, {}) = 0
    <3>1. \A x \in {} : price[x] \in Nat \ {0}
      OBVIOUS
    <3> QED BY <3>1, ProductFacts, BookEmpty, FS_EmptySet
  <2>4. (Unit * StakedSoFar - Sum(price, 2..Legs)) * 1 < target * (1 - 0)
    BY <2>1, <2>2, <2>3 DEF LegInv, Cover
  <2>5. target <= fill[i].stake * fill[i].odds
    BY DEF LegInv
  <2>6. Profit(fill, i) = fill[i].stake * fill[i].odds - Unit * StakedSoFar
    BY DEF Profit, StakedSoFar
  <2>7. /\ target \in Nat /\ fill[i].stake * fill[i].odds \in Int /\ Unit * StakedSoFar \in Int
        /\ Sum(price, 2..Legs) \in Int
    <3>1. target \in Nat /\ fill[i].stake \in Nat /\ fill[i].odds \in Nat /\ Unit \in Nat
      BY LegParts, LegNumbers
    <3>2. StakedSoFar \in Int
      <4>1. \A j \in LegIds : [k \in LegIds |-> fill[k].stake][j] \in Int
        BY LegParts
      <4> QED BY <4>1, LegNumbers, SumType DEF StakedSoFar, Sum
    <3>3. Sum(price, 2..Legs) \in Int
      <4>1. 2..Legs \in SUBSET LegIds
        BY <2>1
      <4>2. IsFiniteSet(2..Legs)
        <5>1. \A S \in SUBSET LegIds : IsFiniteSet(S)
          BY LegNumbers
        <5> QED BY <4>1, <5>1
      <4>3. \A j \in 2..Legs : price[j] \in Int
        <5>1. \A j \in LegIds : price[j] \in Int
          BY LegParts
        <5> QED BY <4>1, <5>1
      <4> QED BY <4>2, <4>3, SumType DEF Sum
    <3> QED BY <3>1, <3>2, <3>3
  <2> QED BY <2>4, <2>5, <2>6, <2>7
<1> QED BY <1>1, LegInvariant, PTL

\* StakesStayChecked (leg_executor.py:9): while nothing was matched above the
\* price asked, no leg is re-sized past the stake the pre-flight checked.
THEOREM StakesAreChecked == LegSpec => StakesStayChecked
<1>1. LegInv /\ [LegNext]_legVars =>
        [(\A i \in LegIds : fill[i].odds <= price[i]) =>
           \A i \in LegIds : toStake'[i] <= toStake[i]]_legVars
  <2> SUFFICES ASSUME LegInv, LegNext, \A i \in LegIds : fill[i].odds <= price[i],
                      NEW i \in LegIds
               PROVE  toStake'[i] <= toStake[i]
    OBVIOUS
  <2>1. group = "RUNNING" /\ toStake' = [toStake EXCEPT ![next] = Resized]
    BY StepIs DEF Stakes
  <2>2. toStake \in [LegIds -> Nat] /\ next \in LegIds /\ 1 \in LegIds
    BY LegParts, LegNumbers
  <2>3. CASE i # next
    BY <2>1, <2>2, <2>3
  <2>4. CASE i = next /\ next = 1
    BY <2>1, <2>2, <2>4, TurnIs
  <2>5. CASE i = next /\ next # 1
    <3>1. toStake'[i] = target \div price[next] /\ 1 \in Fired
      BY <2>1, <2>2, <2>5, TurnIs
    <3>2. PICK total \in Totals :
            \A j \in LegIds : AsPlanned(j) => toStake[j] = Planned(price, total)[j]
      BY DEF LegInv
    <3> DEFINE c1 == total * Unit * Product(price, LegIds \ {1})
               ck == total * Unit * Product(price, LegIds \ {next})
               B  == Book(price, LegIds)
    <3>3. toStake[1] = c1 \div B /\ toStake[next] = ck \div B
      <4>1. AsPlanned(1) /\ AsPlanned(next)
        BY <2>1 DEF AsPlanned
      <4> QED BY <2>2, <3>2, <4>1 DEF Planned
    <3>4. /\ IsFiniteSet(LegIds) /\ total \in Nat /\ Unit \in Nat
          /\ \A j \in LegIds : price[j] \in Nat \ {0}
          /\ IsFiniteSet(LegIds \ {1}) /\ \A j \in LegIds \ {1} : price[j] \in Nat \ {0}
          /\ IsFiniteSet(LegIds \ {next}) /\ \A j \in LegIds \ {next} : price[j] \in Nat \ {0}
      <4>1. LegIds \ {1} \in SUBSET LegIds /\ LegIds \ {next} \in SUBSET LegIds
        OBVIOUS
      <4> QED BY <4>1, LegNumbers, LegParts
    <3>5. B \in Nat \ {0}
      BY <2>2, <3>4, BookAdd
    <3>6. /\ Product(price, LegIds \ {1}) \in Nat /\ Product(price, LegIds \ {next}) \in Nat
          /\ price[1] * Product(price, LegIds \ {1}) = price[next] * Product(price, LegIds \ {next})
      <4>1. /\ Product(price, LegIds) = price[1] * Product(price, LegIds \ {1})
            /\ Product(price, LegIds) = price[next] * Product(price, LegIds \ {next})
        BY <2>2, <3>4, ProductFacts
      <4>2. Product(price, LegIds \ {1}) \in Nat \ {0} /\ Product(price, LegIds \ {next}) \in Nat \ {0}
        BY <3>4, ProductFacts
      <4> QED BY <4>1, <4>2
    <3>7. price[1] * c1 = price[next] * ck /\ c1 \in Nat /\ ck \in Nat
      <4>1. \A a, b, c, d \in Nat : c * (a * b * d) = (a * b) * (c * d) /\ a * b * d \in Nat
        OBVIOUS
      <4>2. price[1] \in Nat /\ price[next] \in Nat
        BY <2>2, <3>4
      <4>3. /\ price[1] * c1 = (total * Unit) * (price[1] * Product(price, LegIds \ {1}))
            /\ price[next] * ck = (total * Unit) * (price[next] * Product(price, LegIds \ {next}))
            /\ c1 \in Nat /\ ck \in Nat
        BY <3>4, <3>6, <4>1, <4>2
      <4> QED BY <3>6, <4>3
    <3> HIDE DEF c1, ck, B
    <3>8. target <= toStake[1] * price[1]
      <4>1. target <= fill[1].stake * fill[1].odds /\ fill[1].stake <= toStake[1]
        BY <3>1 DEF LegInv
      <4>2. fill[1].odds <= price[1]
        BY <2>2
      <4>3. /\ fill[1].stake \in Nat /\ fill[1].odds \in Nat /\ toStake[1] \in Nat /\ price[1] \in Nat
            /\ target \in Nat
        BY <2>2, <3>4, LegParts
      <4>4. \A a, b, c, d \in Nat : a <= c /\ b <= d => a * b <= c * d
        <5> SUFFICES ASSUME NEW a \in Nat, NEW b \in Nat, NEW c \in Nat, NEW d \in Nat, a <= c, b <= d
                     PROVE  a * b <= c * d
          OBVIOUS
        <5>1. a * b <= c * b
          OBVIOUS
        <5>2. c * b <= c * d
          OBVIOUS
        <5>3. a * b \in Nat /\ c * b \in Nat /\ c * d \in Nat
          OBVIOUS
        <5> QED BY <5>1, <5>2, <5>3
      <4>5. fill[1].stake * fill[1].odds <= toStake[1] * price[1]
        BY <4>1, <4>2, <4>3, <4>4
      <4>6. fill[1].stake * fill[1].odds \in Nat /\ toStake[1] * price[1] \in Nat
        BY <4>3
      <4> QED BY <4>1, <4>3, <4>5, <4>6
    <3>9. target \div price[next] <= ck \div B
      <4>1. /\ target \in Nat /\ toStake[1] \in Nat /\ price[1] \in Nat /\ price[next] \in Nat \ {0}
        BY <2>2, <3>4, LegParts
      <4> QED BY <3>3, <3>5, <3>7, <3>8, <4>1, ResizeWithin
    <3> QED BY <2>5, <3>1, <3>3, <3>9
  <2> QED BY <2>3, <2>4, <2>5
<1> QED BY <1>1, LegInvariant, PTL DEF LegSpec, StakesStayChecked
=============================================================================
