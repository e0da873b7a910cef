-------------------------- MODULE CfoEscrowProofs --------------------------
(***************************************************************************)
(* Theorems about CfoExecution that relate the ledger to the bookmaker.    *)
(* The invariant BetInv says what each row may rely on: an open row that   *)
(* is not in doubt, and a graded one, has a struck bet behind it, and a    *)
(* returned one has none; and what each run of a resolver or a sweep has   *)
(* read stays true until it is used.  Every step is then one of a few      *)
(* moves of single rows (RowMoves), which are the moves BetEscrow allows.  *)
(***************************************************************************)
EXTENDS CfoExecutionProofs

\* The bookmaker holds, or held, the bet of order k.
Struck(k) == venue[k].state \in Known

\* What the bookmaker holds was matched and priced by it.
VenueInv ==
  \A k \in Keys :
    Struck(k) => venue[k].matched \in Fills /\ venue[k].price \in Prices

\* A bet of no more than the stake asked for, at a price the venue may strike.
Priced(row, k) ==
  row.stake \in 1..Stake[k] /\ \E p \in Prices : row.profit = row.stake * p

\* What the ledger says of an order is what the bookmaker made of it.
RowInv(k) ==
  LET row == book.row[k] IN
  /\ row.status # "NONE" => Priced(row, k)
  /\ row.status \in OpenStatuses /\ ~row.reconcile => Struck(k)
  /\ row.status \in {"WON", "LOST"} => Struck(k)
  /\ row.status = "REJECTED" => venue[k].state \in {"absent", "refused"}

RowsInv == \A k \in Keys : RowInv(k)

\* What a run has read, and will act on, is still so.
RunInv(w) ==
  /\ \A k \in run[w].due : Struck(k)
  /\ run[w].pc = "polled" =>
       LET k == run[w].key IN
       /\ book.row[k].status # "NONE"
       /\ run[w].said # "NONE"
       /\ run[w].said \in GradedStatuses \cup {"OPEN"} => Struck(k)
       /\ run[w].said = "REJECTED" => venue[k].state = "refused"

RunsInv == \A w \in Workers : RunInv(w)

\* A sweep changes nothing of its bets but how they ended.
GradesInv ==
  \A w \in Workers : lock = w =>
    \A k \in run[w].due :
      /\ work.row[k].status \in {"PENDING"} \cup GradedStatuses
      /\ work.row[k].stake = book.row[k].stake
      /\ work.row[k].profit = book.row[k].profit

BetInv == VenueInv /\ RowsInv /\ RunsInv /\ GradesInv

----------------------------------------------------------------------------
LEMMA StepKeepsInv ==
  ASSUME IInv, [Next]_vars
  PROVE  IInv' /\ TypeOK /\ TypeOK'
BY NextStep DEF IInv

\* The bookmaker acts on one order at a time.
OneOrderMoves ==
  \E k \in Keys : \A j \in Keys \ {k} : venue'[j] = venue[j]

\* A struck bet stays struck, and a known order the venue refused stays so.
VenueKept(k) ==
  /\ Struck(k) => Struck(k)'
  /\ book.row[k].status # "NONE" /\ venue[k].state \in {"absent", "refused"} =>
       venue'[k] = venue[k]

LEMMA VenueStep ==
  ASSUME IInv, VenueInv, [Next]_vars
  PROVE  VenueInv' /\ OneOrderMoves /\ \A k \in Keys : VenueKept(k)
<1>0. venue \in [Keys -> Bets]
  BY DEF IInv, TypeOK
<1>1. CASE UNCHANGED venue
  BY <1>1, ConstantsAssumption DEF VenueInv, VenueKept, Struck, OneOrderMoves
<1>2. ASSUME NEW k \in Keys, NEW bet, venue' = [venue EXCEPT ![k] = bet],
             Struck(k) => bet.state \in Known,
             bet.state \in Known => bet.matched \in Fills /\ bet.price \in Prices,
             venue[k].state \in {"absent", "refused"} => book.row[k].status = "NONE"
      PROVE  VenueInv' /\ OneOrderMoves /\ \A j \in Keys : VenueKept(j)
  <2>1. venue'[k] = bet /\ \A j \in Keys \ {k} : venue'[j] = venue[j]
    BY <1>0, <1>2
  <2> QED
    BY <1>2, <2>1 DEF VenueInv, VenueKept, Struck, OneOrderMoves
<1>3. ASSUME NEW r \in Requests, Send(r), venue' # venue
      PROVE  VenueInv' /\ OneOrderMoves /\ \A j \in Keys : VenueKept(j)
  <2>1. KeyOf[r] \in Keys /\ book.row[KeyOf[r]].status = "NONE"
    BY <1>3, HeldFacts DEF Send, Held
  <2>2. /\ venue[KeyOf[r]].state \in {"absent", "refused"}
        /\ venue' = [venue EXCEPT ![KeyOf[r]] = [NoBet EXCEPT !.state = "pending"]]
    BY <1>3 DEF Send
  <2>3. [NoBet EXCEPT !.state = "pending"].state \notin Known
    BY DEF NoBet, Known, GradedStatuses
  <2> HIDE DEF NoBet
  <2>4. ~Struck(KeyOf[r])
    BY <2>2 DEF Struck, Known, GradedStatuses
  <2> QED
    BY <1>2, <2>1, <2>2, <2>3, <2>4
<1>4. ASSUME NEW k \in Keys, Strike(k)
      PROVE  VenueInv' /\ OneOrderMoves /\ \A j \in Keys : VenueKept(j)
  <2>1. PICK matched \in Fills, price \in Prices :
          venue' = [venue EXCEPT ![k] = [state |-> "struck", matched |-> matched,
                                         price |-> price]]
    BY <1>4 DEF Strike
  <2> QED
    BY <1>2, <1>4, <2>1 DEF Strike, Known
<1>5. ASSUME NEW k \in Keys, RefuseOrder(k)
      PROVE  VenueInv' /\ OneOrderMoves /\ \A j \in Keys : VenueKept(j)
  <2>1. /\ venue[k].state = "pending" /\ venue[k] \in Bets
        /\ venue' = [venue EXCEPT ![k] = [venue[k] EXCEPT !.state = "refused"]]
    BY <1>0, <1>5 DEF RefuseOrder
  <2>2. [venue[k] EXCEPT !.state = "refused"].state = "refused"
    BY <2>1 DEF Bets
  <2> QED
    BY <1>2, <2>1, <2>2 DEF Struck, Known, GradedStatuses
<1>6. ASSUME NEW k \in Keys, GradeBet(k)
      PROVE  VenueInv' /\ OneOrderMoves /\ \A j \in Keys : VenueKept(j)
  <2>1. PICK grade \in GradedStatuses :
          venue' = [venue EXCEPT ![k] = [venue[k] EXCEPT !.state = grade]]
    BY <1>6 DEF GradeBet
  <2>2. venue[k].state = "struck" /\ venue[k] \in Bets
    BY <1>0, <1>6 DEF GradeBet
  <2> DEFINE bet == [venue[k] EXCEPT !.state = grade]
  <2>3. bet.state = grade /\ bet.matched = venue[k].matched /\ bet.price = venue[k].price
    BY <2>2 DEF Bets
  <2>4. bet.matched \in Fills /\ bet.price \in Prices
    BY <2>2, <2>3 DEF VenueInv, Struck, Known
  <2>5. venue' = [venue EXCEPT ![k] = bet]
    BY <2>1
  <2> HIDE DEF bet
  <2> QED
    BY <1>2, <2>2, <2>3, <2>4, <2>5 DEF Known
<1>7. ASSUME NEW r \in Requests, Execute(r), venue' # venue
      PROVE  Send(r)
  BY <1>7 DEF Execute, Claim, Attempt, Block, LockAndReserve, BlockAtLock,
              NotSent, Accept, Reject, TimeOut, CommitFails, Conclude, Die
<1>8. ASSUME NEW w \in Workers, Work(w)
      PROVE  UNCHANGED venue
  BY <1>8 DEF Work, Poll, PollFailed, StillOpen, Resolve, ResolveLater, Stated,
              SweepRead, SweepLock, SweepSkip, SweepCommit, RunStops, SweepSettle
<1>9. ASSUME Environment, venue' # venue
      PROVE  \E k \in Keys : Strike(k) \/ RefuseOrder(k) \/ GradeBet(k)
  BY <1>9 DEF Environment, ClaimExpires, ManualRuling, RecordResult
<1> QED
  BY <1>1, <1>3, <1>4, <1>5, <1>6, <1>7, <1>8, <1>9 DEF Next, vars
----------------------------------------------------------------------------
\* What a grade or a release leaves of the bet's row.
LEMMA GradeRow ==
  ASSUME NEW b \in Books, NEW k \in Keys, NEW grade \in GradedStatuses
  PROVE  LET row == Grade(b, k, grade).row[k] IN
         /\ row.status = grade
         /\ row.stake = b.row[k].stake /\ row.profit = b.row[k].profit
         /\ Grade(b, k, grade).row \in [Keys -> Rows]
<1> DEFINE row == IF grade = "VOID"
                  THEN [b.row[k] EXCEPT !.status = "VOID", !.reconcile = FALSE]
                  ELSE [b.row[k] EXCEPT !.status = grade]
<1>1. b.row \in [Keys -> Rows]
  BY DEF Books
<1>2. /\ row \in Rows /\ row.status = grade
      /\ row.stake = b.row[k].stake /\ row.profit = b.row[k].profit
  BY <1>1 DEF Rows, ClosedStatuses, GradedStatuses
<1>3. Grade(b, k, grade).row = [b.row EXCEPT ![k] = row]
  BY DEF Grade, Release, Settle, Post, GradedStatuses
<1> HIDE DEF row
<1> QED
  BY <1>1, <1>2, <1>3

LEMMA RuledRow ==
  ASSUME NEW k \in Keys, NEW outcome \in Rulings, book \in Books
  PROVE  LET row == Ruled(k, outcome).row[k] IN
         /\ row.stake = book.row[k].stake /\ row.profit = book.row[k].profit
         /\ row.reconcile = FALSE
         /\ outcome = "NOT_PLACED" => row.status = "REJECTED"
         /\ outcome = "OPEN" => row.status = "PENDING"
         /\ outcome \in GradedStatuses => row.status = outcome
<1> DEFINE b == CASE outcome = "NOT_PLACED" -> Release(book, k, "REJECTED")
                  [] outcome = "OPEN" ->
                       Amend(book, k, [book.row[k] EXCEPT !.status = "PENDING",
                                                          !.attempts = 0,
                                                          !.remote = TRUE])
                  [] OTHER -> Grade(book, k, outcome)
           entry == [b.row[k] EXCEPT !.reconcile = FALSE]
<1>1. book.row \in [Keys -> Rows]
  BY DEF Books
<1>2. Ruled(k, outcome) = MarkPeak(Amend(b, k, entry))
  BY DEF Ruled
<1>3. /\ b.row \in [Keys -> Rows]
      /\ b.row[k].stake = book.row[k].stake /\ b.row[k].profit = book.row[k].profit
      /\ outcome = "NOT_PLACED" => b.row[k].status = "REJECTED"
      /\ outcome = "OPEN" => b.row[k].status = "PENDING"
      /\ outcome \in GradedStatuses => b.row[k].status = outcome
  <2>1. CASE outcome = "NOT_PLACED"
    BY <1>1, <2>1 DEF Release, Post, Rows, ClosedStatuses, GradedStatuses
  <2>2. CASE outcome = "OPEN"
    BY <1>1, <2>2 DEF Amend, Rows, OpenStatuses, GradedStatuses
  <2>3. CASE outcome \in GradedStatuses
    <3>1. b = Grade(book, k, outcome)
      BY <2>3 DEF GradedStatuses
    <3> HIDE DEF b
    <3> QED
      BY <2>3, <3>1, GradeRow DEF GradedStatuses
  <2> QED
    BY <2>1, <2>2, <2>3 DEF Rulings
<1> HIDE DEF b
<1>4. /\ entry.stake = b.row[k].stake /\ entry.profit = b.row[k].profit
      /\ entry.reconcile = FALSE /\ entry.status = b.row[k].status
  BY <1>3 DEF Rows
<1> HIDE DEF entry
<1>5. MarkPeak(Amend(b, k, entry)).row[k] = entry
  BY <1>3 DEF MarkPeak, Amend
<1> QED
  BY <1>2, <1>3, <1>4, <1>5

\* The row an accepted bet is committed with: what was matched, as struck.
LEMMA AcceptedRow ==
  ASSUME IInv, VenueInv, NEW r \in Requests, Held(r), Struck(KeyOf[r]),
         venue[KeyOf[r]].matched <= Stake[KeyOf[r]]
  PROVE  LET row == Accepted(r, work).row[KeyOf[r]] IN
         row.status = "PENDING" /\ row.reconcile = FALSE /\ Priced(row, KeyOf[r])
<1> DEFINE k == KeyOf[r]
           bet == venue[k]
<1>1. /\ k \in Keys /\ work.row \in [Keys -> Rows] /\ Stake[k] \in Nat
      /\ work.row[k].status = "PENDING" /\ work.row[k].stake = Stake[k]
      /\ Stake[k] > 0 /\ lock = r
  BY HeldFacts DEF Books
<1>0. work.row[k].reconcile = FALSE
  <2>1. work.row[k] = [status |-> "PENDING", stake |-> Stake[k],
                       profit |-> Profit(Stake[k], AskedPrice),
                       reconcile |-> FALSE, remote |-> FALSE, attempts |-> 0]
    BY <1>1 DEF IInv, ReservationInv
  <2> QED
    BY <2>1
<1>2. /\ bet.matched \in Fills /\ bet.price \in Prices
      /\ bet.matched \in Nat /\ bet.matched > 0
      /\ bet.matched <= Stake[k]
  <2>1. bet.matched \in Fills /\ bet.price \in Prices
    BY <1>1 DEF VenueInv
  <2>2. \A n \in Fills : n \in Nat /\ n > 0
    BY ConstantsAssumption
  <2> HIDE DEF bet
  <2>3. bet.matched \in Nat /\ bet.matched > 0
    BY <2>1, <2>2
  <2>4. bet.matched <= Stake[k]
    BY DEF bet
  <2> QED
    BY <2>1, <2>3, <2>4
<1> DEFINE shot0 == [work.row[k] EXCEPT !.remote = TRUE,
                                        !.profit = Profit(Stake[k], bet.price)]
           shot  == Amend(work, k, shot0)
<1>3. /\ shot0.status = "PENDING" /\ shot0.reconcile = FALSE /\ shot0.stake = Stake[k]
      /\ shot0.profit = Stake[k] * bet.price
      /\ shot0 = [shot0 EXCEPT !.stake = @]
  BY <1>0, <1>1 DEF Rows, Profit
<1>4. shot.row = [work.row EXCEPT ![k] = shot0] /\ shot.row[k] = shot0
  BY <1>1 DEF Amend
<1>5. Accepted(r, work) =
        IF bet.matched < Stake[k]
        THEN ReduceToFill(shot, k, bet.matched, Profit(bet.matched, bet.price))
        ELSE shot
  BY DEF Accepted
<1>6. CASE bet.matched < Stake[k]
  <2> DEFINE row == [shot0 EXCEPT !.stake = bet.matched,
                                  !.profit = Profit(bet.matched, bet.price)]
  <2>1. row.status = "PENDING" /\ row.reconcile = FALSE /\ row.stake = bet.matched
        /\ row.profit = bet.matched * bet.price
    BY <1>0, <1>1 DEF Rows, Profit
  <2>2. ReduceToFill(shot, k, bet.matched, Profit(bet.matched, bet.price)).row
          = [shot.row EXCEPT ![k] = row]
    BY <1>4 DEF ReduceToFill, Post
  <2>3. Accepted(r, work).row[k] = row
    BY <1>1, <1>4, <1>5, <1>6, <2>2
  <2> HIDE DEF row, bet, k
  <2> QED
    BY <1>1, <1>2, <2>1, <2>3 DEF Priced, k
<1>7. CASE ~(bet.matched < Stake[k])
  <2>1. Accepted(r, work).row[k] = shot0
    BY <1>4, <1>5, <1>7
  <2> HIDE DEF shot0, bet, k
  <2> QED
    BY <1>1, <1>2, <1>3, <2>1 DEF Priced, k
<1> QED
  BY <1>6, <1>7

\* The row an unconfirmed bet is committed with: the reservation, in doubt.
LEMMA UnconfirmedRow ==
  ASSUME IInv, NEW r \in Requests, Held(r)
  PROVE  LET row == Unconfirmed(r, work).row[KeyOf[r]] IN
         /\ row.status = "PENDING" /\ row.reconcile = TRUE
         /\ row.stake = Stake[KeyOf[r]] /\ Priced(row, KeyOf[r])
<1> DEFINE k == KeyOf[r]
           row == [work.row[k] EXCEPT !.reconcile = TRUE]
<1>1. /\ k \in Keys /\ work.row \in [Keys -> Rows] /\ Stake[k] \in Nat
      /\ Stake[k] > 0 /\ lock = r
  BY HeldFacts DEF Books
<1>2. work.row[k] = [status |-> "PENDING", stake |-> Stake[k],
                     profit |-> Profit(Stake[k], AskedPrice),
                     reconcile |-> FALSE, remote |-> FALSE, attempts |-> 0]
  BY <1>1 DEF IInv, ReservationInv
<1>3. /\ row.status = "PENDING" /\ row.reconcile = TRUE /\ row.stake = Stake[k]
      /\ row.profit = Stake[k] * AskedPrice
  BY <1>2 DEF Profit
<1>4. Unconfirmed(r, work).row[k] = row
  BY <1>1 DEF Unconfirmed, Amend
<1>5. AskedPrice \in Prices
  BY ConstantsAssumption
<1> HIDE DEF row
<1> QED
  BY <1>1, <1>3, <1>4, <1>5 DEF Priced
----------------------------------------------------------------------------
(***************************************************************************)
(* What one step may do to the committed row of one order                  *)
(***************************************************************************)
SameMoney(old, new) == new.stake = old.stake /\ new.profit = old.profit

Updated(old, new) ==
  /\ old.status = "PENDING" /\ new.status \in OpenStatuses
  /\ SameMoney(old, new) /\ new.reconcile = old.reconcile

Taken(k, old, new) ==
  /\ old.status = "NONE" /\ new.status = "PENDING"
  /\ Priced(new, k) /\ Underway(k)
  /\ IF new.reconcile THEN new.stake = Stake[k] ELSE Struck(k)

Confirmed(k, old, new) ==
  /\ old.status \in OpenStatuses /\ new.status = "PENDING"
  /\ SameMoney(old, new) /\ Struck(k) /\ ~new.reconcile

Returned(k, old, new) ==
  /\ old.status \in OpenStatuses /\ new.status = "REJECTED"
  /\ SameMoney(old, new) /\ venue[k].state \in {"absent", "refused"}

Graded(k, old, new) ==
  /\ old.status \in OpenStatuses /\ new.status \in GradedStatuses
  /\ SameMoney(old, new) /\ Struck(k)

RowMove(k) ==
  \/ book'.row[k] = book.row[k]
  \/ Updated(book.row[k], book'.row[k])
  \/ Taken(k, book.row[k], book'.row[k])
  \/ Confirmed(k, book.row[k], book'.row[k])
  \/ Returned(k, book.row[k], book'.row[k])
  \/ Graded(k, book.row[k], book'.row[k])

RowMoves == UNCHANGED book \/ (UNCHANGED venue /\ \A k \in Keys : RowMove(k))

LEMMA UpdateMoves ==
  ASSUME IInv, NEW k \in Keys, NEW row, UpdatePending(k, row), UNCHANGED venue,
         row.status \in OpenStatuses, SameMoney(book.row[k], row),
         row.reconcile = book.row[k].reconcile
  PROVE  RowMoves
<1>1. CASE book.row[k].status # "PENDING"
  BY <1>1 DEF UpdatePending, RowMoves
<1>2. CASE book.row[k].status = "PENDING"
  <2>1. book' = Amend(book, k, row) /\ book.row \in [Keys -> Rows]
    BY <1>2 DEF UpdatePending, IInv, TypeOK, Books
  <2>2. book'.row[k] = row /\ \A j \in Keys \ {k} : book'.row[j] = book.row[j]
    BY <2>1 DEF Amend
  <2> QED
    BY <1>2, <2>2 DEF RowMoves, RowMove, Updated
<1> QED
  BY <1>1, <1>2

LEMMA RuleMoves ==
  ASSUME IInv, NEW k \in Keys, NEW outcome \in Rulings, Rule(k, outcome),
         UNCHANGED venue,
         outcome = "NOT_PLACED" => venue[k].state \in {"absent", "refused"},
         outcome # "NOT_PLACED" => Struck(k)
  PROVE  RowMoves
<1>1. book \in Books /\ book' = Ruled(k, outcome) /\ MayRule(k, outcome)
  BY DEF Rule, IInv, TypeOK
<1>2. OthersKept(book, book', k)
  BY <1>1, RuledEffect
<1>3. book.row[k].status \in OpenStatuses
  BY <1>1 DEF MayRule, IsOpen
<1>4. /\ SameMoney(book.row[k], book'.row[k])
      /\ outcome = "NOT_PLACED" => book'.row[k].status = "REJECTED"
      /\ outcome = "OPEN" => book'.row[k].status = "PENDING" /\ ~book'.row[k].reconcile
      /\ outcome \in GradedStatuses => book'.row[k].status = outcome
  BY <1>1, RuledRow DEF SameMoney
<1>5. RowMove(k)
  <2>1. CASE outcome = "NOT_PLACED"
    BY <1>3, <1>4, <2>1 DEF RowMove, Returned
  <2>2. CASE outcome = "OPEN"
    BY <1>3, <1>4, <2>2 DEF RowMove, Confirmed
  <2>3. CASE outcome \in GradedStatuses
    BY <1>3, <1>4, <2>3 DEF RowMove, Graded, GradedStatuses
  <2> QED
    BY <2>1, <2>2, <2>3 DEF Rulings
<1> QED
  BY <1>2, <1>5 DEF RowMoves, RowMove, OthersKept, SameBet

\* A request that commits its reservation takes one order and no other.
LEMMA TakeMoves ==
  ASSUME IInv, NEW r \in Requests, Held(r), NEW b, Commit(r, b), UNCHANGED venue,
         b.row[KeyOf[r]].status = "PENDING", Priced(b.row[KeyOf[r]], KeyOf[r]),
         IF b.row[KeyOf[r]].reconcile THEN b.row[KeyOf[r]].stake = Stake[KeyOf[r]]
         ELSE Struck(KeyOf[r])
  PROVE  RowMoves
<1>1. /\ RowsOf(r) = {KeyOf[r]} /\ KeyOf[r] \in Keys
      /\ book.row[KeyOf[r]].status = "NONE"
  BY HeldFacts
<1>2. \A k \in Keys : book'.row[k] = IF k = KeyOf[r] THEN b.row[k] ELSE book.row[k]
  BY <1>1 DEF Commit, Committed
<1>3. Underway(KeyOf[r])
  BY DEF Underway, Held, Over, Outcomes
<1> QED
  BY <1>1, <1>2, <1>3 DEF RowMoves, RowMove, Taken

LEMMA SweepMoves ==
  ASSUME IInv, BetInv, NEW w \in Workers, SweepCommit(w)
  PROVE  RowMoves
<1>1. /\ lock = w /\ UNCHANGED venue /\ run[w].due \subseteq Keys
      /\ book' = Committed(w, MarkPeak(work)) /\ work \in Books
      /\ \A k \in run[w].due : work.row[k].status # "PENDING"
  BY DEF SweepCommit, Commit, IInv, TypeOK, Runs
<1>2. MarkPeak(work).row = work.row
  BY <1>1, MarkPeakEffect
<1>3. \A k \in Keys :
        book'.row[k] = IF k \in run[w].due THEN work.row[k] ELSE book.row[k]
  BY <1>1, <1>2, RowsOfWorker DEF Committed
<1>4. ASSUME NEW k \in run[w].due
      PROVE  RowMove(k)
  <2>1. /\ work.row[k].status \in GradedStatuses
        /\ SameMoney(book.row[k], work.row[k])
    BY <1>1 DEF BetInv, GradesInv, SameMoney
  <2>2. book.row[k].status \in OpenStatuses
    BY <1>1 DEF IInv, SweepInv, OpenStatuses
  <2>3. Struck(k)
    BY DEF BetInv, RunsInv, RunInv
  <2> QED
    BY <1>1, <1>3, <2>1, <2>2, <2>3 DEF RowMove, Graded
<1> QED
  BY <1>1, <1>3, <1>4 DEF RowMoves, RowMove

LEMMA ExecuteMoves ==
  ASSUME IInv, BetInv, NEW r \in Requests, Execute(r)
  PROVE  RowMoves
<1>1. CASE Accept(r)
  <2>1. /\ Held(r) /\ Struck(KeyOf[r]) /\ UNCHANGED venue
        /\ venue[KeyOf[r]].matched <= Stake[KeyOf[r]]
        /\ Commit(r, Accepted(r, work))
    BY <1>1 DEF Accept, Held, Struck
  <2> QED
    BY <2>1, AcceptedRow, TakeMoves DEF BetInv
<1>2. CASE TimeOut(r)
  <2>1. Held(r) /\ UNCHANGED venue /\ Commit(r, Unconfirmed(r, work))
    BY <1>2 DEF TimeOut, Held
  <2> QED
    BY <2>1, UnconfirmedRow, TakeMoves
<1>3. CASE ~Accept(r) /\ ~TimeOut(r)
  BY <1>3 DEF Execute, Claim, Attempt, Block, LockAndReserve, BlockAtLock, Send,
              NotSent, Reject, CommitFails, Conclude, Die, Rollback, RowMoves
<1> QED
  BY <1>1, <1>2, <1>3

LEMMA WorkMoves ==
  ASSUME IInv, BetInv, NEW w \in Workers, Work(w)
  PROVE  RowMoves
<1> DEFINE k == run[w].key
           row == book.row[k]
<1>0. k \in Keys /\ row \in Rows
  BY DEF IInv, TypeOK, Runs, Books
<1>1. ASSUME NEW n, UNCHANGED venue, DeadLetter(k, n)
      PROVE  RowMoves
  <2> DEFINE new == [row EXCEPT !.status = "REQUIRES_MANUAL_INTERVENTION",
                                !.attempts = n]
  <2>1. /\ new.status \in OpenStatuses /\ SameMoney(row, new)
        /\ new.reconcile = row.reconcile
    BY <1>0 DEF Rows, OpenStatuses, SameMoney
  <2>2. UpdatePending(k, new)
    BY <1>1 DEF DeadLetter
  <2> HIDE DEF new
  <2> QED
    BY <1>0, <1>1, <2>1, <2>2, UpdateMoves
<1>2. ASSUME NEW n, UNCHANGED venue, UpdatePending(k, [row EXCEPT !.attempts = n])
      PROVE  RowMoves
  <2> DEFINE new == [row EXCEPT !.attempts = n]
  <2>1. /\ new.status = row.status /\ SameMoney(row, new)
        /\ new.reconcile = row.reconcile
    BY <1>0 DEF Rows, SameMoney
  <2>2. UpdatePending(k, new)
    BY <1>2
  <2>3. CASE row.status = "PENDING"
    <3> HIDE DEF new
    <3> QED
      BY <1>0, <1>2, <2>1, <2>2, <2>3, UpdateMoves DEF OpenStatuses
  <2>4. CASE row.status # "PENDING"
    BY <2>2, <2>4 DEF UpdatePending, RowMoves
  <2> QED
    BY <2>3, <2>4
<1>3. CASE PollFailed(w) \/ StillOpen(w)
  BY <1>1, <1>2, <1>3 DEF PollFailed, StillOpen
<1>4. CASE Resolve(w)
  <2>1. /\ Rule(k, Finding(w)) /\ Finding(w) \in Rulings /\ UNCHANGED venue
        /\ Finding(w) = IF run[w].said = "REJECTED" THEN "NOT_PLACED" ELSE "OPEN"
        /\ run[w].pc = "polled" /\ ~Unanswered(w)
    BY <1>4 DEF Resolve, Polled, Finding, Rulings
  <2>2. run[w].said # "NONE" /\ run[w].said \in Statements
    BY <2>1 DEF IInv, TypeOK, Runs, BetInv, RunsInv, RunInv, Unanswered
  <2>3. /\ run[w].said = "REJECTED" => venue[k].state \in {"absent", "refused"}
        /\ run[w].said # "REJECTED" => Struck(k)
    BY <2>1, <2>2 DEF BetInv, RunsInv, RunInv, Unanswered, Statements
  <2> QED
    BY <1>0, <2>1, <2>3, RuleMoves
<1>5. CASE SweepCommit(w)
  BY <1>5, SweepMoves
<1>6. CASE ~(PollFailed(w) \/ StillOpen(w) \/ Resolve(w) \/ SweepCommit(w))
  BY <1>6 DEF Work, Poll, ResolveLater, Stated, SweepRead, SweepLock, SweepSkip,
              RunStops, Rollback, SweepSettle, RowMoves
<1> QED
  BY <1>3, <1>4, <1>5, <1>6

LEMMA EnvironmentMoves ==
  ASSUME IInv, BetInv, Environment
  PROVE  RowMoves
<1>1. ASSUME NEW k \in Keys, ManualRuling(k)
      PROVE  RowMoves
  <2>1. PICK outcome \in Rulings : Truthful(k, outcome) /\ Rule(k, outcome)
    BY <1>1 DEF ManualRuling, Rulings
  <2>2. /\ outcome = "NOT_PLACED" => venue[k].state \in {"absent", "refused"}
        /\ outcome # "NOT_PLACED" => Struck(k)
    BY <2>1 DEF Truthful, Struck, Known, Rulings, GradedStatuses
  <2>3. UNCHANGED venue
    BY <1>1 DEF ManualRuling
  <2> QED
    BY <2>1, <2>2, <2>3, RuleMoves
<1>2. CASE UNCHANGED book
  BY <1>2 DEF RowMoves
<1> QED
  BY <1>1, <1>2 DEF Environment, Strike, RefuseOrder, GradeBet, ClaimExpires,
                    RecordResult

LEMMA StepMoves ==
  ASSUME IInv, BetInv, [Next]_vars
  PROVE  RowMoves
<1>1. CASE UNCHANGED vars
  BY <1>1 DEF vars, RowMoves
<1> QED
  BY <1>1, ExecuteMoves, WorkMoves, EnvironmentMoves DEF Next
----------------------------------------------------------------------------
(***************************************************************************)
(* The bets and the bookmaker agree                                        *)
(***************************************************************************)
\* An order the ledger knows it keeps knowing, and what it is worth stays.
LEMMA RowKept ==
  ASSUME RowMoves, NEW k \in Keys, book.row[k].status # "NONE"
  PROVE  book'.row[k].status # "NONE" /\ SameMoney(book.row[k], book'.row[k])
<1>1. CASE UNCHANGED book
  BY <1>1 DEF SameMoney
<1>2. CASE RowMove(k)
  BY <1>2 DEF RowMove, Updated, Taken, Confirmed, Returned, Graded, SameMoney,
              OpenStatuses, GradedStatuses
<1> QED
  BY <1>1, <1>2 DEF RowMoves

LEMMA RowsStep ==
  ASSUME BetInv, RowMoves, \A k \in Keys : VenueKept(k)
  PROVE  RowsInv'
<1> SUFFICES ASSUME NEW k \in Keys
             PROVE  RowInv(k)'
  BY DEF RowsInv
<1>0. RowInv(k) /\ VenueKept(k)
  BY DEF BetInv, RowsInv
<1>1. CASE UNCHANGED book
  BY <1>0, <1>1 DEF RowInv, VenueKept, Priced
<1>2. CASE UNCHANGED venue /\ RowMove(k)
  <2>1. CASE book'.row[k] = book.row[k]
    BY <1>0, <1>2, <2>1 DEF RowInv, Struck
  <2>2. CASE Updated(book.row[k], book'.row[k])
    BY <1>0, <1>2, <2>2 DEF RowInv, Struck, Updated, SameMoney, Priced, OpenStatuses
  <2>3. CASE Taken(k, book.row[k], book'.row[k])
    BY <1>2, <2>3 DEF RowInv, Struck, Taken
  <2>4. CASE Confirmed(k, book.row[k], book'.row[k])
    BY <1>0, <1>2, <2>4 DEF RowInv, Struck, Confirmed, SameMoney, Priced, OpenStatuses
  <2>5. CASE Returned(k, book.row[k], book'.row[k])
    BY <1>0, <1>2, <2>5 DEF RowInv, Struck, Returned, SameMoney, Priced, OpenStatuses
  <2>6. CASE Graded(k, book.row[k], book'.row[k])
    BY <1>0, <1>2, <2>6 DEF RowInv, Struck, Graded, SameMoney, Priced,
                            OpenStatuses, GradedStatuses
  <2> QED
    BY <1>2, <2>1, <2>2, <2>3, <2>4, <2>5, <2>6 DEF RowMove
<1> QED
  BY <1>1, <1>2 DEF RowMoves

\* What a run may newly know, in the state it learns it.
SoundRun(s) ==
  /\ \A k \in s.due : Struck(k)
  /\ s.pc = "polled" =>
       /\ book.row[s.key].status # "NONE"
       /\ s.said # "NONE"
       /\ s.said \in GradedStatuses \cup {"OPEN"} => Struck(s.key)
       /\ s.said = "REJECTED" => venue[s.key].state = "refused"

LEMMA RunMoves ==
  ASSUME IInv, BetInv, [Next]_vars
  PROVE  \/ UNCHANGED run
         \/ \E w \in Workers, s \in Runs : SetRun(w, s) /\ SoundRun(s)
<1>1. ASSUME NEW r \in Requests, Execute(r)
      PROVE  UNCHANGED run
  BY <1>1 DEF Execute, Claim, Attempt, Block, LockAndReserve, BlockAtLock, Send,
              NotSent, Accept, Reject, TimeOut, CommitFails, Conclude, Die
<1>2. ASSUME Environment
      PROVE  UNCHANGED run
  BY <1>2 DEF Environment, Strike, RefuseOrder, GradeBet, ClaimExpires,
              ManualRuling, RecordResult
<1>3. ASSUME NEW w \in Workers, Work(w)
      PROVE  UNCHANGED run \/ \E s \in Runs : SetRun(w, s) /\ SoundRun(s)
  <2>0. /\ run[w] \in Runs /\ RunInv(w) /\ RowsInv /\ venue \in [Keys -> Bets]
        /\ book.row \in [Keys -> Rows]
    BY DEF IInv, TypeOK, BetInv, RunsInv, Books
  <2>1. Idle \in Runs /\ SoundRun(Idle)
    BY IdleType, ConstantsAssumption DEF Idle, SoundRun
  <2>2. ASSUME NEW k \in Keys, Poll(w, k)
        PROVE  \E s \in Runs : SetRun(w, s) /\ SoundRun(s)
    <3> DEFINE State(said) == [pc |-> "polled", key |-> k,
                               reconcile |-> book.row[k].reconcile,
                               attempts  |-> book.row[k].attempts,
                               said |-> said, due |-> {}]
    <3>1. PICK said \in {"UNAVAILABLE", VenueSays(k)} : SetRun(w, State(said))
      BY <2>2 DEF Poll
    <3>2. said \in Statements
      BY VenueAnswers DEF Statements, IInv
    <3>3. State(said) \in Runs
      BY <2>0, <3>2 DEF Runs, Rows
    <3>4. /\ said # "NONE"
          /\ said \in GradedStatuses \cup {"OPEN"} => Struck(k)
          /\ said = "REJECTED" => venue[k].state = "refused"
      BY <2>0, <3>1 DEF VenueSays, Struck, Known, GradedStatuses, Bets, VenueStates
    <3>5. SoundRun(State(said))
      BY <2>2, <3>4 DEF SoundRun, Poll
    <3> HIDE DEF State
    <3> QED
      BY <3>1, <3>3, <3>5
  <2>3. CASE PollFailed(w) \/ StillOpen(w) \/ Resolve(w) \/ ResolveLater(w)
               \/ SweepSkip(w) \/ SweepCommit(w) \/ RunStops(w)
    BY <2>1, <2>3 DEF PollFailed, StillOpen, Resolve, ResolveLater, SweepSkip,
                      SweepCommit, RunStops
  <2>4. CASE Stated(w)
    <3> DEFINE s == [run[w] EXCEPT !.pc = "graded",
                       !.said = IF @ = "REJECTED" THEN "VOID" ELSE @]
    <3>1. s \in Runs /\ s.due = run[w].due /\ s.pc = "graded"
      BY <2>0 DEF Runs, Statements, GradedStatuses
    <3>2. SetRun(w, s)
      BY <2>4 DEF Stated
    <3> HIDE DEF s
    <3> QED
      BY <2>0, <3>1, <3>2 DEF SoundRun, RunInv
  <2>5. CASE SweepRead(w)
    <3> DEFINE s == [run[w] EXCEPT !.pc = "read", !.due = Due(w)]
    <3>1. s \in Runs /\ s.due = Due(w) /\ s.pc = "read"
      BY <2>0 DEF Runs, Due
    <3>2. SetRun(w, s) \/ SetRun(w, Idle)
      BY <2>5 DEF SweepRead
    <3>3. \A k \in Due(w) : Struck(k)
      BY <2>0 DEF Due, RowsInv, RowInv, OpenStatuses
    <3> HIDE DEF s
    <3> QED
      BY <2>1, <3>1, <3>2, <3>3 DEF SoundRun
  <2>6. CASE SweepLock(w)
    <3> DEFINE s == [run[w] EXCEPT !.pc = "locked", !.due = StillDue(w)]
    <3>1. s \in Runs /\ s.due \subseteq run[w].due /\ s.pc = "locked"
      BY <2>0 DEF Runs, StillDue
    <3>2. SetRun(w, s)
      BY <2>6 DEF SweepLock
    <3> HIDE DEF s
    <3> QED
      BY <2>0, <3>1, <3>2 DEF SoundRun, RunInv
  <2>7. ASSUME NEW k \in Keys, SweepSettle(w, k)
        PROVE  UNCHANGED run
    BY <2>7 DEF SweepSettle
  <2> QED
    BY <1>3, <2>1, <2>2, <2>3, <2>4, <2>5, <2>6, <2>7 DEF Work
<1> QED
  BY <1>1, <1>2, <1>3 DEF Next, vars

\* The same, of what a run knows after the step.
StillSound(s) ==
  /\ \A k \in s.due : venue'[k].state \in Known
  /\ s.pc = "polled" =>
       /\ book'.row[s.key].status # "NONE"
       /\ s.said # "NONE"
       /\ s.said \in GradedStatuses \cup {"OPEN"} => venue'[s.key].state \in Known
       /\ s.said = "REJECTED" => venue'[s.key].state = "refused"

LEMMA RunsStep ==
  ASSUME IInv, BetInv, RowMoves, \A k \in Keys : VenueKept(k), [Next]_vars
  PROVE  RunsInv'
<1>0. run \in [Workers -> Runs]
  BY DEF IInv, TypeOK
<1>1. ASSUME NEW s \in Runs, SoundRun(s)
      PROVE  StillSound(s)
  <2>1. s.due \subseteq Keys /\ s.key \in Keys
    BY DEF Runs
  <2>2. s.pc = "polled" => book'.row[s.key].status # "NONE"
    BY <1>1, <2>1, RowKept DEF SoundRun
  <2> QED
    BY <1>1, <2>1, <2>2 DEF SoundRun, StillSound, VenueKept, Struck
<1>2. \A w \in Workers : SoundRun(run[w]) /\ run[w] \in Runs
  BY <1>0 DEF SoundRun, BetInv, RunsInv, RunInv
<1>3. \A w \in Workers : StillSound(run'[w])
  <2>1. CASE UNCHANGED run
    BY <1>1, <1>2, <2>1
  <2>2. ASSUME NEW v \in Workers, NEW s \in Runs, SetRun(v, s), SoundRun(s)
        PROVE  \A w \in Workers : StillSound(run'[w])
    <3>1. \A w \in Workers : run'[w] = s \/ run'[w] = run[w]
      BY <1>0, <2>2 DEF SetRun
    <3> QED
      BY <1>1, <1>2, <2>2, <3>1
  <2> QED
    BY <2>1, <2>2, RunMoves
<1> QED
  BY <1>3 DEF StillSound, RunsInv, RunInv, Struck

\* How a worker comes to hold the lock, and what it does while it holds it.
LEMMA LockMoves ==
  ASSUME IInv, [Next]_vars, NEW w \in Workers, lock' = w
  PROVE  \/ SweepLock(w)
         \/ /\ lock = w /\ run'[w] = run[w]
            /\ (UNCHANGED work \/ \E k \in Keys : SweepSettle(w, k))
<1>0. /\ run \in [Workers -> Runs] /\ w \notin Requests /\ w # Nobody
      /\ lock = w => run[w].pc = "locked"
  BY ConstantsAssumption DEF IInv, TypeOK, LockInv
<1>1. ASSUME NEW r \in Requests, Execute(r)
      PROVE  lock = w /\ UNCHANGED <<run, work>>
  <2>1. CASE UNCHANGED <<work, lock>>
    BY <1>1, <2>1 DEF Execute, Claim, Attempt, Block, LockAndReserve, BlockAtLock,
         Send, NotSent, Accept, Reject, TimeOut, CommitFails, Conclude, Die
  <2>2. CASE ~UNCHANGED <<work, lock>>
    <3>1. lock' = r \/ lock' = Nobody
      BY <1>1, <2>2 DEF Execute, Claim, Attempt, Block, LockAndReserve, BlockAtLock,
           Send, NotSent, Accept, Reject, TimeOut, CommitFails, Conclude, Die,
           Lock, Commit, Rollback, Unlock
    <3> QED
      BY <1>0, <3>1
  <2> QED
    BY <2>1, <2>2
<1>2. ASSUME Environment
      PROVE  lock = w /\ UNCHANGED <<run, work>>
  BY <1>2 DEF Environment, Strike, RefuseOrder, GradeBet, ClaimExpires,
              ManualRuling, Rule, RecordResult
<1>3. ASSUME NEW v \in Workers, v # w, Work(v)
      PROVE  lock = w /\ UNCHANGED <<run[w], work>>
  <2>1. run'[w] = run[w]
    BY <1>0, <1>3 DEF Work, Poll, PollFailed, StillOpen, Resolve, ResolveLater,
         Stated, SweepRead, SweepLock, SweepSkip, SweepCommit, RunStops,
         SweepSettle, SetRun
  <2>2. CASE UNCHANGED <<work, lock>>
    BY <2>1, <2>2
  <2>3. CASE ~UNCHANGED <<work, lock>> /\ lock' # v
    <3>1. lock' = Nobody
      BY <1>3, <2>3 DEF Work, Poll, PollFailed, StillOpen, Resolve, ResolveLater,
         Stated, SweepRead, SweepLock, SweepSkip, SweepCommit, RunStops,
         SweepSettle, UpdatePending, DeadLetter, Rule, Lock, Commit, Rollback, Unlock
    <3> QED
      BY <1>0, <3>1
  <2> QED
    BY <1>3, <2>2, <2>3
<1>4. ASSUME Work(w), ~SweepLock(w)
      PROVE  lock = w /\ run'[w] = run[w]
             /\ (UNCHANGED work \/ \E k \in Keys : SweepSettle(w, k))
  <2>1. ASSUME NEW k \in Keys, SweepSettle(w, k)
        PROVE  lock = w /\ UNCHANGED run
    BY <2>1 DEF SweepSettle
  <2>2. CASE SweepCommit(w)
    BY <1>0, <2>2 DEF SweepCommit, Commit, Unlock
  <2>3. CASE RunStops(w) /\ lock = w
    BY <1>0, <2>3 DEF RunStops, Rollback, Unlock
  <2>4. ASSUME NEW k \in Keys, Poll(w, k)
        PROVE  FALSE
    BY <1>0, <2>4 DEF Poll
  <2>5. CASE PollFailed(w) \/ StillOpen(w) \/ Resolve(w) \/ ResolveLater(w)
               \/ Stated(w) \/ SweepRead(w) \/ SweepSkip(w)
               \/ (RunStops(w) /\ lock # w)
    <3>1. UNCHANGED lock /\ (run[w].pc # "locked" \/ lock # w)
      BY <2>5 DEF PollFailed, StillOpen, Resolve, ResolveLater, Stated, Polled,
                  SweepRead, SweepStarts, SweepSkip, RunStops, UpdatePending,
                  DeadLetter, Rule
    <3> QED
      BY <1>0, <3>1
  <2> QED
    BY <1>4, <2>1, <2>2, <2>3, <2>4, <2>5 DEF Work
<1> QED
  BY <1>1, <1>2, <1>3, <1>4 DEF Next, vars

LEMMA GradesStep ==
  ASSUME IInv, IInv', BetInv, RowMoves, [Next]_vars
  PROVE  GradesInv'
<1> SUFFICES ASSUME NEW w \in Workers, lock' = w, NEW k \in run'[w].due
             PROVE  /\ work'.row[k].status \in {"PENDING"} \cup GradedStatuses
                    /\ SameMoney(book'.row[k], work'.row[k])
  BY DEF GradesInv, SameMoney
<1>0. k \in Keys
  BY DEF IInv, TypeOK, Runs
<1>1. CASE SweepLock(w)
  <2>1. work' = book /\ UNCHANGED book
    BY <1>1 DEF SweepLock, Lock
  <2>2. book'.row[k].status = "PENDING"
    BY DEF IInv, SweepInv
  <2> QED
    BY <2>1, <2>2 DEF SameMoney
<1>2. ASSUME lock = w, run'[w] = run[w]
      PROVE  /\ SameMoney(book'.row[k], work.row[k])
             /\ work.row[k].status \in {"PENDING"} \cup GradedStatuses
  <2>1. book.row[k].status # "NONE"
    BY <1>2 DEF IInv, SweepInv
  <2>2. SameMoney(book.row[k], book'.row[k])
    BY <1>0, <2>1, RowKept
  <2> QED
    BY <1>2, <2>2 DEF BetInv, GradesInv, SameMoney
<1>3. ASSUME lock = w, run'[w] = run[w], NEW j \in Keys, SweepSettle(w, j)
      PROVE  /\ SameMoney(work.row[k], work'.row[k])
             /\ work'.row[k].status \in {"PENDING"} \cup GradedStatuses
  <2>1. /\ work \in Books /\ work' = Grade(work, j, GradeFor(w, j))
        /\ GradeFor(w, j) \in GradedStatuses
    BY <1>3 DEF SweepSettle, IInv, TypeOK, GradeFor, GradedStatuses
  <2>2. CASE k = j
    BY <1>3, <2>1, <2>2, GradeRow DEF SameMoney
  <2>3. CASE k # j
    <3>1. work'.row[k] = work.row[k]
      BY <1>0, <2>1, <2>3 DEF Grade, Release, Settle, Post, Books
    <3> QED
      BY <1>2, <1>3, <3>1 DEF SameMoney
  <2> QED
    BY <2>2, <2>3
<1> QED
  BY <1>1, <1>2, <1>3, LockMoves DEF SameMoney

LEMMA BetStep ==
  IInv /\ BetInv /\ [Next]_vars => BetInv' /\ RowMoves
<1> SUFFICES ASSUME IInv, BetInv, [Next]_vars
             PROVE  BetInv' /\ RowMoves
  OBVIOUS
<1>1. VenueInv' /\ \A k \in Keys : VenueKept(k)
  BY VenueStep DEF BetInv
<1>2. RowMoves
  BY StepMoves
<1>3. RowsInv' /\ RunsInv' /\ GradesInv'
  BY <1>1, <1>2, RowsStep, RunsStep, GradesStep, StepKeepsInv
<1> QED
  BY <1>1, <1>2, <1>3 DEF BetInv

LEMMA InitBets == Init => BetInv
<1> SUFFICES ASSUME Init
             PROVE  BetInv
  OBVIOUS
<1>1. VenueInv
  BY DEF Init, VenueInv, Struck, NoBet, Known, GradedStatuses
<1>2. RowsInv
  BY DEF Init, RowsInv, RowInv, OpenBook, NoRow, OpenStatuses
<1>3. RunsInv
  BY DEF Init, RunsInv, RunInv, Idle
<1>4. GradesInv
  BY ConstantsAssumption DEF Init, GradesInv
<1> QED
  BY <1>1, <1>2, <1>3, <1>4 DEF BetInv

\* The invariant of the ledger and the bookmaker together.
THEOREM BetInvariant == Spec => [](IInv /\ BetInv)
BY Invariant, InitBets, BetStep, PTL DEF Spec

\* No bet is paid out or booked as lost unless the bookmaker really held it,
\* however the placement, the grading and the resolver interleave.
THEOREM NoUnstruckGrade == Spec => []NeverGradesAnUnstruckBet
<1>1. BetInv => NeverGradesAnUnstruckBet
  BY DEF BetInv, RowsInv, RowInv, Struck, NeverGradesAnUnstruckBet
<1> QED
  BY <1>1, BetInvariant, PTL
----------------------------------------------------------------------------
(***************************************************************************)
(* One execution per idempotency key                                       *)
(***************************************************************************)
\* An executed request left a row behind, which bars every other with its key.
OnceInv ==
  /\ \A r \in Requests : Executed(r) => book.row[KeyOf[r]].status # "NONE"
  /\ OneExecutionPerKey

LEMMA CommitTakes ==
  ASSUME IInv, BetInv, NEW r \in Requests, Accept(r) \/ TimeOut(r)
  PROVE  /\ lock = r
         /\ book.row[KeyOf[r]].status = "NONE"
         /\ book'.row[KeyOf[r]].status # "NONE"
<1>1. Held(r)
  BY DEF Accept, TimeOut, Held
<1>2. /\ RowsOf(r) = {KeyOf[r]} /\ KeyOf[r] \in Keys /\ lock = r
      /\ book.row[KeyOf[r]].status = "NONE"
  BY <1>1, HeldFacts
<1>3. ASSUME NEW b, Commit(r, b), b.row[KeyOf[r]].status = "PENDING"
      PROVE  book'.row[KeyOf[r]].status # "NONE"
  BY <1>2, <1>3 DEF Commit, Committed
<1>4. CASE Accept(r)
  <2>1. /\ Struck(KeyOf[r]) /\ Commit(r, Accepted(r, work))
        /\ venue[KeyOf[r]].matched <= Stake[KeyOf[r]]
    BY <1>4 DEF Accept, Struck
  <2> QED
    BY <1>1, <1>2, <1>3, <2>1, AcceptedRow DEF BetInv
<1>5. CASE TimeOut(r)
  BY <1>1, <1>2, <1>3, <1>5, UnconfirmedRow DEF TimeOut
<1> QED
  BY <1>2, <1>4, <1>5

\* A request is executed by its commit and by nothing else.
LEMMA ExecutedMoves ==
  ASSUME IInv, [Next]_vars, NEW r \in Requests, Executed(r)'
  PROVE  Executed(r) \/ Accept(r) \/ TimeOut(r)
<1>0. pc \in [Requests -> Stages] /\ trail \in [Requests -> SUBSET Events]
  BY DEF IInv, TypeOK
<1>1. CASE UNCHANGED <<pc, trail>>
  BY <1>1 DEF Executed
<1>2. ASSUME NEW s \in Requests, Execute(s), s # r
      PROVE  UNCHANGED <<pc[r], trail[r]>>
  BY <1>0, <1>2 DEF Execute, Claim, Attempt, Block, LockAndReserve, BlockAtLock,
         Send, NotSent, Accept, Reject, TimeOut, CommitFails, Conclude, Die,
         Goto, Record, TryRecord
<1>3. ASSUME Execute(r), ~Accept(r), ~TimeOut(r)
      PROVE  Executed(r)
  <2>1. CASE Conclude(r)
    BY <1>0, <2>1 DEF Conclude, Goto, TryRecord, Record, Executed
  <2>2. CASE ~Conclude(r)
    BY <1>0, <1>3, <2>2 DEF Execute, Claim, Attempt, Block, LockAndReserve,
         BlockAtLock, Send, NotSent, Reject, CommitFails, Die,
         Goto, TryRecord, Record, Executed
  <2> QED
    BY <2>1, <2>2
<1>4. ASSUME NEW w \in Workers, Work(w)
      PROVE  UNCHANGED <<pc, trail>>
  BY <1>4 DEF Work, Poll, PollFailed, StillOpen, Resolve, ResolveLater, Stated,
              SweepRead, SweepLock, SweepSkip, SweepCommit, RunStops, SweepSettle
<1>5. ASSUME Environment
      PROVE  UNCHANGED <<pc, trail>>
  BY <1>5 DEF Environment, Strike, RefuseOrder, GradeBet, ClaimExpires,
              ManualRuling, RecordResult
<1> QED
  BY <1>1, <1>2, <1>3, <1>4, <1>5 DEF Next, vars, Executed

LEMMA OnceStep ==
  IInv /\ BetInv /\ OnceInv /\ [Next]_vars => OnceInv'
<1> SUFFICES ASSUME IInv, BetInv, OnceInv, [Next]_vars
             PROVE  OnceInv'
  OBVIOUS
<1>0. RowMoves /\ KeyOf \in [Requests -> Keys]
  BY BetStep, ConstantsAssumption
<1>1. ASSUME NEW r \in Requests, Executed(r)'
      PROVE  book'.row[KeyOf[r]].status # "NONE"
  <2>1. CASE Executed(r)
    BY <1>0, <2>1, RowKept DEF OnceInv
  <2> QED
    BY <1>1, <2>1, ExecutedMoves, CommitTakes
<1>2. ASSUME NEW r \in Requests, NEW s \in Requests, KeyOf[r] = KeyOf[s],
             Executed(r)', Executed(s)', ~Executed(r)
      PROVE  r = s
  <2>1. lock = r /\ book.row[KeyOf[s]].status = "NONE"
    BY <1>2, ExecutedMoves, CommitTakes
  <2>2. ~Executed(s)
    BY <2>1 DEF OnceInv
  <2> QED
    BY <1>2, <2>1, <2>2, ExecutedMoves, CommitTakes
<1>3. OneExecutionPerKey'
  BY <1>2 DEF OneExecutionPerKey, OnceInv
<1> QED
  BY <1>1, <1>3 DEF OnceInv

LEMMA InitOnce == Init => OnceInv
BY DEF Init, OnceInv, OneExecutionPerKey, Executed

\* However often a key's Redis claim expires and is taken again, at most one of
\* the requests that carry the key leaves a bet in the ledger.
THEOREM ExecutedOnce == Spec => []OneExecutionPerKey
<1>1. OnceInv => OneExecutionPerKey
  BY DEF OnceInv
<1> QED
  BY <1>1, BetInvariant, InitOnce, OnceStep, PTL DEF Spec
----------------------------------------------------------------------------
(***************************************************************************)
(* No live bet out of sight                                                *)
(***************************************************************************)
\* What points at the order of a request that reached the bookmaker.
Trace(r) ==
  \/ "COMMIT_FAILED" \in trail[r]
  \/ OpenAttempt(r) /\ pc[r] \in {"sent", "COMMIT_FAILED", "done", "dead"}

\* The attempt is on the audit trail before anything leaves for the bookmaker.
AuditInv ==
  \A r \in Requests :
    /\ pc[r] \in {"start", "claimed"} => trail[r] = {}
    /\ pc[r] \in {"attempted", "reserved", "sent"} \cup Outcomes => OpenAttempt(r)

\* What the bookmaker may have taken is in the ledger or traced.
TraceInv ==
  \A k \in Keys :
    venue[k].state \notin {"absent", "refused"} =>
      \/ book.row[k].status # "NONE"
      \/ \E r \in Requests : KeyOf[r] = k /\ Trace(r)

LEMMA AuditStep ==
  ASSUME IInv, AuditInv, [Next]_vars
  PROVE  AuditInv'
<1> SUFFICES ASSUME NEW r \in Requests
             PROVE  /\ pc'[r] \in {"start", "claimed"} => trail'[r] = {}
                    /\ pc'[r] \in {"attempted", "reserved", "sent"} \cup Outcomes =>
                         OpenAttempt(r)'
  BY DEF AuditInv
<1>0. /\ pc \in [Requests -> Stages] /\ trail \in [Requests -> SUBSET Events]
      /\ pc[r] \in {"start", "claimed"} => trail[r] = {}
      /\ pc[r] \in {"attempted", "reserved", "sent"} \cup Outcomes => OpenAttempt(r)
  BY DEF IInv, TypeOK, AuditInv
<1>1. CASE UNCHANGED <<pc[r], trail[r]>>
  BY <1>0, <1>1 DEF OpenAttempt
<1>2. ASSUME NEW s \in Requests, Execute(s), s # r
      PROVE  UNCHANGED <<pc[r], trail[r]>>
  BY <1>0, <1>2 DEF Execute, Claim, Attempt, Block, LockAndReserve, BlockAtLock,
         Send, NotSent, Accept, Reject, TimeOut, CommitFails, Conclude, Die,
         Goto, Record, TryRecord
<1>3. CASE Execute(r)
  <2>1. CASE Claim(r)
    BY <1>0, <2>1 DEF Claim, Goto, Outcomes
  <2>2. CASE Attempt(r)
    BY <1>0, <2>2 DEF Attempt, Goto, Record, OpenAttempt, Outcomes
  <2>3. CASE Block(r) \/ BlockAtLock(r) \/ Conclude(r) \/ Die(r)
    BY <1>0, <2>3 DEF Block, BlockAtLock, Conclude, Die, Goto, Outcomes
  <2>4. CASE LockAndReserve(r) \/ Send(r) \/ NotSent(r) \/ Accept(r)
               \/ Reject(r) \/ TimeOut(r) \/ CommitFails(r)
    BY <1>0, <2>4 DEF LockAndReserve, Send, NotSent, Accept, Reject, TimeOut,
         CommitFails, Goto, Outcomes, OpenAttempt
  <2> QED
    BY <1>3, <2>1, <2>2, <2>3, <2>4 DEF Execute
<1>4. ASSUME NEW w \in Workers, Work(w)
      PROVE  UNCHANGED <<pc, trail>>
  BY <1>4 DEF Work, Poll, PollFailed, StillOpen, Resolve, ResolveLater, Stated,
              SweepRead, SweepLock, SweepSkip, SweepCommit, RunStops, SweepSettle
<1>5. ASSUME Environment
      PROVE  UNCHANGED <<pc, trail>>
  BY <1>5 DEF Environment, Strike, RefuseOrder, GradeBet, ClaimExpires,
              ManualRuling, RecordResult
<1> QED
  BY <1>1, <1>2, <1>3, <1>4, <1>5 DEF Next, vars

\* A trace is lost only with the doubt: the bet is in the ledger, or refused.
LEMMA TraceKept ==
  ASSUME ErrorsAreFinal, IInv, BetInv, AuditInv, [Next]_vars,
         NEW r \in Requests, Trace(r)
  PROVE  \/ Trace(r)'
         \/ book'.row[KeyOf[r]].status # "NONE"
         \/ venue'[KeyOf[r]].state = "refused"
<1>0. pc \in [Requests -> Stages] /\ trail \in [Requests -> SUBSET Events]
  BY DEF IInv, TypeOK
<1>1. CASE UNCHANGED <<pc[r], trail[r]>>
  BY <1>1 DEF Trace, OpenAttempt
<1>2. ASSUME NEW s \in Requests, Execute(s), s # r
      PROVE  UNCHANGED <<pc[r], trail[r]>>
  BY <1>0, <1>2 DEF Execute, Claim, Attempt, Block, LockAndReserve, BlockAtLock,
         Send, NotSent, Accept, Reject, TimeOut, CommitFails, Conclude, Die,
         Goto, Record, TryRecord
<1>3. CASE Execute(r)
  <2>1. CASE "COMMIT_FAILED" \in trail[r]
    <3>1. trail[r] \subseteq trail'[r]
      BY <1>0, <1>3 DEF Execute, Claim, Attempt, Block, LockAndReserve, BlockAtLock,
         Send, NotSent, Accept, Reject, TimeOut, CommitFails, Conclude, Die,
         Goto, Record, TryRecord
    <3> QED
      BY <2>1, <3>1 DEF Trace
  <2>2. CASE OpenAttempt(r) /\ pc[r] = "sent"
    <3>1. CASE Accept(r) \/ TimeOut(r)
      BY <3>1, CommitTakes
    <3>2. CASE Reject(r)
      BY <3>2 DEF Reject, SaysRejected
    <3>3. CASE CommitFails(r) \/ Die(r)
      BY <1>0, <2>2, <3>3 DEF CommitFails, Die, Goto, Trace, OpenAttempt
    <3> QED
      BY <1>3, <2>2, <3>1, <3>2, <3>3 DEF Execute, Claim, Attempt, Block,
         LockAndReserve, BlockAtLock, Send, NotSent, Conclude, Outcomes
  <2>3. CASE OpenAttempt(r) /\ pc[r] = "COMMIT_FAILED"
    <3>1. CASE Conclude(r)
      BY <1>0, <2>3, <3>1 DEF Conclude, Goto, TryRecord, Record, Trace, OpenAttempt
    <3>2. CASE Die(r)
      BY <1>0, <2>3, <3>2 DEF Die, Goto, Trace, OpenAttempt
    <3> QED
      BY <1>3, <2>3, <3>1, <3>2 DEF Execute, Claim, Attempt, Block,
         LockAndReserve, BlockAtLock, Send, NotSent, Accept, TimeOut, Reject,
         CommitFails
  <2>4. CASE pc[r] \in {"done", "dead"}
    BY <1>3, <2>4 DEF Execute, Claim, Attempt, Block, LockAndReserve, BlockAtLock,
         Send, NotSent, Accept, Reject, TimeOut, CommitFails, Conclude, Die, Outcomes
  <2> QED
    BY <2>1, <2>2, <2>3, <2>4 DEF Trace
<1>4. ASSUME NEW w \in Workers, Work(w)
      PROVE  UNCHANGED <<pc, trail>>
  BY <1>4 DEF Work, Poll, PollFailed, StillOpen, Resolve, ResolveLater, Stated,
              SweepRead, SweepLock, SweepSkip, SweepCommit, RunStops, SweepSettle
<1>5. ASSUME Environment
      PROVE  UNCHANGED <<pc, trail>>
  BY <1>5 DEF Environment, Strike, RefuseOrder, GradeBet, ClaimExpires,
              ManualRuling, RecordResult
<1> QED
  BY <1>1, <1>2, <1>3, <1>4, <1>5 DEF Next, vars

\* An order reaches the bookmaker by the hand of a request that is then traced.
LEMMA OrderIsTraced ==
  ASSUME IInv, AuditInv, [Next]_vars, NEW k \in Keys,
         venue[k].state \in {"absent", "refused"},
         venue'[k].state \notin {"absent", "refused"}
  PROVE  \E r \in Requests : KeyOf[r] = k /\ Trace(r)'
<1>0. /\ pc \in [Requests -> Stages] /\ venue \in [Keys -> Bets]
  BY DEF IInv, TypeOK
<1>1. ASSUME NEW r \in Requests, Send(r)
      PROVE  KeyOf[r] = k /\ Trace(r)'
  <2>1. KeyOf[r] = k
    BY <1>0, <1>1 DEF Send
  <2>2. pc'[r] = "sent" /\ trail'[r] = trail[r] /\ OpenAttempt(r)
    BY <1>0, <1>1 DEF Send, Goto, AuditInv
  <2> QED
    BY <2>1, <2>2 DEF Trace, OpenAttempt
<1>2. ASSUME NEW r \in Requests, Execute(r)
      PROVE  Send(r)
  BY <1>2 DEF Execute, Claim, Attempt, Block, LockAndReserve, BlockAtLock,
              NotSent, Accept, Reject, TimeOut, CommitFails, Conclude, Die
<1>3. ASSUME NEW w \in Workers, Work(w)
      PROVE  UNCHANGED venue
  BY <1>3 DEF Work, Poll, PollFailed, StillOpen, Resolve, ResolveLater, Stated,
              SweepRead, SweepLock, SweepSkip, SweepCommit, RunStops, SweepSettle
<1>4. ASSUME Environment
      PROVE  FALSE
  <2>1. ASSUME NEW j \in Keys, Strike(j) \/ GradeBet(j) \/ RefuseOrder(j)
        PROVE  FALSE
    <3>1. venue'[k] = venue[k] \/ j = k
      BY <1>0, <2>1 DEF Strike, GradeBet, RefuseOrder
    <3> QED
      BY <2>1, <3>1 DEF Strike, GradeBet, RefuseOrder
  <2> QED
    BY <1>4, <2>1 DEF Environment, ClaimExpires, ManualRuling, RecordResult
<1> QED
  BY <1>1, <1>2, <1>3, <1>4 DEF Next, vars

LEMMA TraceStep ==
  ASSUME ErrorsAreFinal, IInv, BetInv, AuditInv, TraceInv, [Next]_vars
  PROVE  TraceInv'
<1> SUFFICES ASSUME NEW k \in Keys, venue'[k].state \notin {"absent", "refused"},
                    book'.row[k].status = "NONE"
             PROVE  \E r \in Requests : KeyOf[r] = k /\ Trace(r)'
  BY DEF TraceInv
<1>1. book.row[k].status = "NONE"
  BY BetStep, RowKept
<1>2. CASE venue[k].state \in {"absent", "refused"}
  BY <1>2, OrderIsTraced
<1>3. CASE venue[k].state \notin {"absent", "refused"}
  <2>1. PICK r \in Requests : KeyOf[r] = k /\ Trace(r)
    BY <1>1, <1>3 DEF TraceInv
  <2> QED
    BY <2>1, TraceKept
<1> QED
  BY <1>2, <1>3

LEMMA InitTrace == Init => AuditInv /\ TraceInv
BY DEF Init, AuditInv, TraceInv, NoBet, Outcomes

\* If an error response means that no bet exists, then whatever times out,
\* crashes or fails to commit, the ledger or the audit trail points at every
\* bet that is alive at the bookmaker.
THEOREM BetInSight ==
  ASSUME ErrorsAreFinal
  PROVE  Spec => []LiveBetIsInSight
<1>1. IInv /\ BetInv /\ AuditInv /\ TraceInv /\ [Next]_vars => AuditInv' /\ TraceInv'
  BY AuditStep, TraceStep
<1>2. BetInv /\ TraceInv => LiveBetIsInSight
  BY DEF BetInv, RowsInv, RowInv, TraceInv, LiveBetIsInSight, Traced, Trace
<1> QED
  BY <1>1, <1>2, BetInvariant, InitTrace, PTL DEF Spec
----------------------------------------------------------------------------
(***************************************************************************)
(* The escrow                                                              *)
(***************************************************************************)
\* What the escrow knows of a bet.
BetNow(k) ==
  [stage |-> StageOf(book.row[k].status),
   held  |-> book.legs[k].exposure,
   net   |-> book.legs[k].available]

\* The legs of a bet that tells its story are those its row implies.
LEMMA BetOfRow ==
  ASSUME NEW k \in Keys, BetJournal(book, k), book.row[k] \in Rows
  PROVE  LET row == book.row[k] IN
         /\ row.status = "NONE" =>
              BetNow(k) = [stage |-> "none", held |-> 0, net |-> 0]
         /\ row.status \in OpenStatuses =>
              BetNow(k) = [stage |-> "held", held |-> row.stake, net |-> -row.stake]
         /\ row.status \in {"REJECTED", "VOID"} =>
              BetNow(k) = [stage |-> "returned", held |-> 0, net |-> 0]
         /\ row.status = "WON" =>
              BetNow(k) = [stage |-> "won", held |-> 0, net |-> row.profit]
         /\ row.status = "LOST" =>
              BetNow(k) = [stage |-> "lost", held |-> 0, net |-> -row.stake]
BY DEF BetNow, BetJournal, NoLegs, StageOf, OpenStatuses

\* The moves the escrow allows a bet.
BetMove(k) ==
  \/ BetNow(k)' = BetNow(k)
  \/ /\ BetNow(k).stage = "none"
     /\ \E amount \in 1..Stake[k] :
          BetNow(k)' = [stage |-> "held", held |-> amount, net |-> -amount]
  \/ /\ BetNow(k).stage = "held"
     /\ BetNow(k)' = [stage |-> "returned", held |-> 0, net |-> 0]
  \/ /\ BetNow(k).stage = "held" /\ Struck(k)
     /\ \E price \in Prices :
          BetNow(k)' = [stage |-> "won", held |-> 0, net |-> BetNow(k).held * price]
  \/ /\ BetNow(k).stage = "held" /\ Struck(k)
     /\ BetNow(k)' = [stage |-> "lost", held |-> 0, net |-> -BetNow(k).held]

LEMMA RowMoveIsBetMove ==
  ASSUME IInv, IInv', BetInv, NEW k \in Keys, RowMove(k)
  PROVE  BetMove(k)
<1> DEFINE old == book.row[k]
           new == book'.row[k]
<1>1. /\ BetJournal(book, k) /\ old \in Rows
      /\ BetJournal(book', k) /\ new \in Rows
  BY DEF IInv, JournalTellsEveryBet, TypeOK, Books
<1>2. /\ old.status = "NONE" =>
           BetNow(k) = [stage |-> "none", held |-> 0, net |-> 0]
      /\ old.status \in OpenStatuses =>
           BetNow(k) = [stage |-> "held", held |-> old.stake, net |-> -old.stake]
      /\ old.status \in {"REJECTED", "VOID"} =>
           BetNow(k) = [stage |-> "returned", held |-> 0, net |-> 0]
      /\ old.status = "WON" =>
           BetNow(k) = [stage |-> "won", held |-> 0, net |-> old.profit]
      /\ old.status = "LOST" =>
           BetNow(k) = [stage |-> "lost", held |-> 0, net |-> -old.stake]
  BY <1>1, BetOfRow
<1>3. /\ new.status = "NONE" =>
           BetNow(k)' = [stage |-> "none", held |-> 0, net |-> 0]
      /\ new.status \in OpenStatuses =>
           BetNow(k)' = [stage |-> "held", held |-> new.stake, net |-> -new.stake]
      /\ new.status \in {"REJECTED", "VOID"} =>
           BetNow(k)' = [stage |-> "returned", held |-> 0, net |-> 0]
      /\ new.status = "WON" =>
           BetNow(k)' = [stage |-> "won", held |-> 0, net |-> new.profit]
      /\ new.status = "LOST" =>
           BetNow(k)' = [stage |-> "lost", held |-> 0, net |-> -new.stake]
  BY <1>1 DEF BetNow, BetJournal, NoLegs, StageOf, OpenStatuses
<1>4. old.status \in OpenStatuses \cup ClosedStatuses \cup {"NONE"}
  BY <1>1 DEF Rows
<1>5. CASE new = old
  BY <1>2, <1>3, <1>4, <1>5 DEF BetMove, ClosedStatuses, GradedStatuses
<1>6. CASE Updated(old, new)
  BY <1>2, <1>3, <1>6 DEF BetMove, Updated, SameMoney, OpenStatuses
<1>7. CASE Taken(k, old, new)
  <2>1. /\ BetNow(k) = [stage |-> "none", held |-> 0, net |-> 0]
        /\ BetNow(k)' = [stage |-> "held", held |-> new.stake, net |-> -new.stake]
        /\ new.stake \in 1..Stake[k]
    BY <1>2, <1>3, <1>7 DEF Taken, Priced, OpenStatuses
  <2> HIDE DEF new, old
  <2> QED
    BY <2>1 DEF BetMove
<1>8. CASE Confirmed(k, old, new)
  BY <1>2, <1>3, <1>8 DEF BetMove, Confirmed, SameMoney, OpenStatuses
<1>9. CASE Returned(k, old, new)
  BY <1>2, <1>3, <1>9 DEF BetMove, Returned
<1>10. CASE Graded(k, old, new)
  <2>1. /\ BetNow(k) = [stage |-> "held", held |-> old.stake, net |-> -old.stake]
        /\ Struck(k) /\ new.stake = old.stake /\ new.profit = old.profit
        /\ new.status \in {"WON", "LOST", "VOID"}
    BY <1>2, <1>10 DEF Graded, SameMoney, GradedStatuses
  <2>2. PICK price \in Prices : old.profit = old.stake * price
    BY <1>10 DEF BetInv, RowsInv, RowInv, Priced, Graded, OpenStatuses
  <2>3. CASE new.status = "WON"
    <3>1. BetNow(k)' = [stage |-> "won", held |-> 0, net |-> old.stake * price]
      BY <1>3, <2>1, <2>2, <2>3
    <3>2. BetNow(k).stage = "held" /\ BetNow(k).held = old.stake
      BY <2>1
    <3> HIDE DEF old, new
    <3> QED
      BY <2>1, <3>1, <3>2 DEF BetMove
  <2>4. CASE new.status = "LOST"
    BY <1>3, <2>1, <2>4 DEF BetMove
  <2>5. CASE new.status = "VOID"
    BY <1>3, <2>1, <2>5 DEF BetMove
  <2> QED
    BY <2>1, <2>3, <2>4, <2>5
<1> QED
  BY <1>5, <1>6, <1>7, <1>8, <1>9, <1>10 DEF RowMove

LEMMA InitEscrow == Init => Escrow!Init
<1> SUFFICES ASSUME Init
             PROVE  Escrow!Init
  OBVIOUS
<1>1. [k \in Keys |-> [stage |-> StageOf(book.row[k].status),
                       held  |-> book.legs[k].exposure,
                       net   |-> book.legs[k].available]]
        = [k \in Keys |-> [stage |-> "none", held |-> 0, net |-> 0]]
  <2>1. \A k \in Keys : /\ book.row[k].status = "NONE"
                        /\ book.legs[k].exposure = 0 /\ book.legs[k].available = 0
    BY DEF Init, OpenBook, NoRow, NoLegs
  <2>2. StageOf("NONE") = "none"
    BY DEF StageOf, OpenStatuses
  <2> QED
    BY <2>1, <2>2
<1>2. {k \in Keys : venue[k].state \in Known} = {}
  BY DEF Init, NoBet, Known, GradedStatuses
<1> QED
  BY <1>1, <1>2 DEF Escrow!Init

LEMMA StepEscrow ==
  IInv /\ BetInv /\ [Next]_vars => [Escrow!Next]_(Escrow!vars)
<1> SUFFICES ASSUME IInv, BetInv, [Next]_vars
             PROVE  [Escrow!Next]_(Escrow!vars)
  OBVIOUS
<1> DEFINE struck == {k \in Keys : venue[k].state \in Known}
           bet == [k \in Keys |-> BetNow(k)]
<1>0. /\ IInv' /\ RowMoves /\ OneOrderMoves
      /\ \A k \in Keys : VenueKept(k)
  BY StepKeepsInv, StepMoves, VenueStep DEF BetInv
<1>1. CASE UNCHANGED book
  <2>1. UNCHANGED bet
    BY <1>1 DEF BetNow
  <2>2. PICK k \in Keys : \A j \in Keys \ {k} : venue'[j] = venue[j]
    BY <1>0 DEF OneOrderMoves
  <2>3. CASE k \in struck' /\ k \notin struck
    <3>1. struck' = struck \cup {k}
      BY <2>2, <2>3
    <3>2. Escrow!Strike(k)
      BY <2>1, <2>3, <3>1 DEF Escrow!Strike, BetNow
    <3> QED
      BY <3>2 DEF Escrow!Next
  <2>4. CASE ~(k \in struck' /\ k \notin struck)
    <3>1. struck' = struck
      BY <1>0, <2>2, <2>4 DEF VenueKept, Struck
    <3> QED
      BY <2>1, <3>1 DEF Escrow!vars, BetNow
  <2> QED
    BY <2>3, <2>4
<1>2. CASE UNCHANGED venue /\ \A k \in Keys : RowMove(k)
  <2>1. \A k \in Keys : BetMove(k)
    BY <1>0, <1>2, RowMoveIsBetMove
  <2>2. UNCHANGED struck
    BY <1>2
  <2>3. Escrow!Transaction
    BY <2>1, <2>2 DEF Escrow!Transaction, Escrow!Hold, Escrow!Return, Escrow!Win,
                      Escrow!Lose, BetMove, BetNow, Struck
  <2> QED
    BY <2>3 DEF Escrow!Next
<1> QED
  BY <1>0, <1>1, <1>2 DEF RowMoves

\* The execution protocol implements the escrow: every bet's money moves out
\* once and back at most once, and is won or lost only on a struck bet.
THEOREM EscrowImplemented == Spec => ImplementsEscrow
BY BetInvariant, InitEscrow, StepEscrow, PTL DEF Spec, ImplementsEscrow, Escrow!Spec
----------------------------------------------------------------------------
(***************************************************************************)
(* CfoExecution keeps ExecutorContract                                     *)
(***************************************************************************)
\* A request that is over stays over.
LEMMA OverStays ==
  ASSUME IInv, [Next]_vars, NEW k \in Keys, Underway(k)'
  PROVE  Underway(k)
<1>1. PICK r \in Requests : KeyOf[r] = k /\ pc'[r] \notin Over
  BY DEF Underway
<1>2. pc \in [Requests -> Stages]
  BY DEF IInv, TypeOK
<1>3. CASE UNCHANGED pc
  BY <1>1, <1>3 DEF Underway
<1>4. ASSUME NEW s \in Requests, Execute(s)
      PROVE  pc[r] \notin Over
  <2>1. CASE s = r
    <3>1. ASSUME pc[r] \in Over
          PROVE  pc'[r] \in Over
      BY <1>2, <1>4, <2>1, <3>1
         DEF Execute, Claim, Attempt, Block, LockAndReserve, BlockAtLock, Send,
             NotSent, Accept, Reject, TimeOut, CommitFails, Conclude, Die, Goto,
             Over, Outcomes
    <3> QED
      BY <1>1, <3>1
  <2>2. CASE s # r
    <3>1. pc'[r] = pc[r]
      BY <1>2, <1>4, <2>2
         DEF Execute, Claim, Attempt, Block, LockAndReserve, BlockAtLock, Send,
             NotSent, Accept, Reject, TimeOut, CommitFails, Conclude, Die, Goto
    <3> QED
      BY <1>1, <3>1
  <2> QED
    BY <2>1, <2>2
<1>5. ASSUME NEW w \in Workers, Work(w)
      PROVE  UNCHANGED pc
  BY <1>5 DEF Work, Poll, PollFailed, StillOpen, Resolve, ResolveLater, Stated,
              SweepRead, SweepLock, SweepSkip, SweepCommit, RunStops, SweepSettle
<1>6. ASSUME Environment
      PROVE  UNCHANGED pc
  BY <1>6 DEF Environment, Strike, RefuseOrder, GradeBet, ClaimExpires,
              ManualRuling, RecordResult
<1> QED
  BY <1>1, <1>3, <1>4, <1>5, <1>6 DEF Next, vars, Underway

\* What a caller sees of a row, and ExecutorContract's moves of it.
StatusSeen(entry) ==
  IF entry.status = "PENDING" /\ entry.reconcile THEN "UNCONFIRMED"
  ELSE IF entry.status \in GradedStatuses THEN "SETTLED" ELSE entry.status

Seen(entry) == [status |-> StatusSeen(entry), stake |-> entry.stake]

CallerMove(k, old, new) ==
  \/ new = old
  \/ /\ Underway(k) /\ old.status = "NONE" /\ new \in Contract!Leavings(Stake[k])
     /\ new.status = "PENDING" => Struck(k)
  \/ \E status \in Contract!NextStatuses(old.status, Struck(k)) :
       new = [old EXCEPT !.status = status]

LEMMA RowSeenIsSeen ==
  /\ \A k \in Keys : RowSeen(k) = Seen(book.row[k])
  /\ \A k \in Keys : RowSeen(k)' = Seen(book'.row[k])
BY DEF RowSeen, Seen, StatusSeen, GradedStatuses

\* Where a row in one of the contract's statuses may go.
LEMMA RulingsAllowed ==
  ASSUME NEW k \in Keys, NEW old, NEW new, new.stake = old.stake,
         \/ /\ StatusSeen(old) \in {"UNCONFIRMED", "PENDING"}
            /\ StatusSeen(new) = "REQUIRES_MANUAL_INTERVENTION"
         \/ /\ StatusSeen(old) \in {"UNCONFIRMED", "REQUIRES_MANUAL_INTERVENTION"}
            /\ IF Struck(k) THEN StatusSeen(new) \in {"PENDING", "SETTLED"}
               ELSE StatusSeen(new) = "REJECTED"
         \/ StatusSeen(old) = "PENDING" /\ StatusSeen(new) = "SETTLED"
  PROVE  CallerMove(k, Seen(old), Seen(new))
<1>1. Seen(new) = [Seen(old) EXCEPT !.status = StatusSeen(new)]
  BY DEF Seen
<1>2. Seen(old).status = StatusSeen(old)
  BY DEF Seen
<1>3. StatusSeen(new) \in Contract!NextStatuses(StatusSeen(old), Struck(k))
  BY DEF Contract!NextStatuses, Contract!Rulings
<1> QED
  BY <1>1, <1>2, <1>3 DEF CallerMove

LEMMA RowMoveIsCallerMove ==
  ASSUME NEW k \in Keys, NEW old, NEW new,
         old.status \in OpenStatuses /\ ~old.reconcile => Struck(k),
         \/ new = old
         \/ Updated(old, new) \/ Taken(k, old, new) \/ Confirmed(k, old, new)
         \/ Returned(k, old, new) \/ Graded(k, old, new)
  PROVE  CallerMove(k, Seen(old), Seen(new))
<1>1. old.status \in OpenStatuses /\ ~old.reconcile => Struck(k)
  OBVIOUS
<1>2. CASE new = old
  BY <1>2 DEF CallerMove
<1>3. CASE Updated(old, new)
  <2>1. /\ StatusSeen(old) \in {"UNCONFIRMED", "PENDING"} /\ new.stake = old.stake
        /\ StatusSeen(new) \in {StatusSeen(old), "REQUIRES_MANUAL_INTERVENTION"}
    BY <1>3 DEF Updated, SameMoney, StatusSeen, OpenStatuses, GradedStatuses
  <2>2. CASE StatusSeen(new) = StatusSeen(old)
    BY <2>1, <2>2 DEF Seen, CallerMove
  <2> QED
    BY <2>1, <2>2, RulingsAllowed
<1>4. CASE Taken(k, old, new)
  <2>1. /\ Underway(k) /\ StatusSeen(old) = "NONE" /\ new.stake \in 1..Stake[k]
        /\ IF new.reconcile THEN new.stake = Stake[k] ELSE Struck(k)
        /\ StatusSeen(new) = IF new.reconcile THEN "UNCONFIRMED" ELSE "PENDING"
    BY <1>4 DEF Taken, Priced, StatusSeen, GradedStatuses
  <2>2. Seen(new) \in Contract!Leavings(Stake[k])
    BY <2>1 DEF Seen, Contract!Leavings
  <2> QED
    BY <2>1, <2>2 DEF Seen, CallerMove
<1>5. CASE Confirmed(k, old, new)
  <2>1. /\ StatusSeen(old) \in {"UNCONFIRMED", "PENDING", "REQUIRES_MANUAL_INTERVENTION"}
        /\ StatusSeen(new) = "PENDING" /\ new.stake = old.stake /\ Struck(k)
    BY <1>5 DEF Confirmed, SameMoney, StatusSeen, OpenStatuses, GradedStatuses
  <2>2. CASE StatusSeen(old) = "PENDING"
    BY <2>1, <2>2 DEF Seen, CallerMove
  <2> QED
    BY <2>1, <2>2, RulingsAllowed
<1>6. CASE Returned(k, old, new)
  <2>1. /\ StatusSeen(old) \in {"UNCONFIRMED", "REQUIRES_MANUAL_INTERVENTION"}
        /\ StatusSeen(new) = "REJECTED" /\ new.stake = old.stake /\ ~Struck(k)
    BY <1>1, <1>6 DEF Returned, SameMoney, StatusSeen, OpenStatuses, GradedStatuses,
                      Struck, Known
  <2> QED
    BY <2>1, RulingsAllowed
<1>7. CASE Graded(k, old, new)
  <2>1. /\ StatusSeen(old) \in {"UNCONFIRMED", "PENDING", "REQUIRES_MANUAL_INTERVENTION"}
        /\ StatusSeen(new) = "SETTLED" /\ new.stake = old.stake /\ Struck(k)
    BY <1>7 DEF Graded, SameMoney, StatusSeen, OpenStatuses, GradedStatuses
  <2> QED
    BY <2>1, RulingsAllowed
<1> QED
  BY <1>2, <1>3, <1>4, <1>5, <1>6, <1>7

LEMMA InitContract == Init => Contract!Init
<1> SUFFICES ASSUME Init
             PROVE  Contract!Init
  OBVIOUS
<1>1. \A k \in Keys : book.row[k].status = "NONE" /\ book.row[k].stake = 0
  BY DEF Init, OpenBook, NoRow
<1>2. \A k \in Keys : RowSeen(k) = Contract!NoRow
  BY <1>1 DEF RowSeen, Contract!NoRow, GradedStatuses
<1>3. {k \in Keys : venue[k].state \in Known} = {}
  BY DEF Init, NoBet, Known, GradedStatuses
<1> QED
  BY <1>2, <1>3 DEF Contract!Init

LEMMA StepContract ==
  IInv /\ BetInv /\ [Next]_vars => [Contract!Next]_(Contract!vars)
<1> SUFFICES ASSUME IInv, BetInv, [Next]_vars
             PROVE  Contract!Next
  BY DEF Contract!Next
<1> DEFINE row == [k \in Keys |-> RowSeen(k)]
           open == {k \in Keys : Underway(k)}
           struck == {k \in Keys : venue[k].state \in Known}
<1>0. /\ IInv' /\ BetInv' /\ RowMoves
      /\ \A k \in Keys : VenueKept(k)
  BY StepKeepsInv, BetStep, VenueStep DEF BetInv
<1>1. open' \subseteq open
  BY OverStays
<1>2. struck \subseteq struck'
  BY <1>0 DEF VenueKept, Struck
<1>3. ASSUME NEW k \in Keys
      PROVE  CallerMove(k, row[k], row'[k])
  <2>1. row[k] = Seen(book.row[k]) /\ row'[k] = Seen(book'.row[k])
    BY RowSeenIsSeen
  <2>2. CASE UNCHANGED book
    BY <2>1, <2>2 DEF CallerMove
  <2>3. CASE RowMove(k)
    <3>1. book.row[k].status \in OpenStatuses /\ ~book.row[k].reconcile => Struck(k)
      BY DEF BetInv, RowsInv, RowInv
    <3>2. CallerMove(k, Seen(book.row[k]), Seen(book'.row[k]))
      BY <2>3, <3>1, RowMoveIsCallerMove DEF RowMove
    <3> QED
      BY <2>1, <3>2
  <2> QED
    BY <1>0, <2>2, <2>3 DEF RowMoves
<1>4. ASSUME NEW k \in Keys, row'[k].status = "REJECTED"
      PROVE  k \notin struck'
  <2>1. book'.row[k].status = "REJECTED"
    BY <1>4, RowSeenIsSeen DEF Seen, StatusSeen
  <2>2. venue'[k].state \in {"absent", "refused"}
    BY <1>0, <2>1 DEF BetInv, RowsInv, RowInv
  <2> QED
    BY <2>2 DEF Known, GradedStatuses
<1>5. ASSUME NEW k \in Keys
      PROVE  row'[k] = row[k] \/ Contract!Leave(k) \/ Contract!Rule(k)
  <2>0. row'[k] # row[k] => UNCHANGED venue
    <3>1. CASE UNCHANGED book
      BY <3>1, RowSeenIsSeen
    <3> QED
      BY <1>0, <3>1 DEF RowMoves
  <2> QED
    BY <1>3, <2>0 DEF CallerMove, Contract!Leave, Contract!Rule, Struck
<1> QED
  BY <1>1, <1>2, <1>4, <1>5 DEF Contract!Next

\* The executor keeps its promise to its callers, whatever they do with its
\* answers: no row after the end, no confirmed row without a bet, no
\* returned row with one, and the whole stake in a row in doubt.
THEOREM ContractKept == Spec => KeepsContract
BY BetInvariant, InitContract, StepContract, PTL DEF Spec, KeepsContract, Contract!Spec
=============================================================================
