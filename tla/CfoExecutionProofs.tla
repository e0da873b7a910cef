------------------------ MODULE CfoExecutionProofs ------------------------
(***************************************************************************)
(* Theorems about CfoExecution, for every set of requests, keys, resolvers *)
(* and sweepers.  The invariant that carries them ties the uncommitted     *)
(* book to the committed one: while an execution holds the lock, "work" is *)
(* "book" with one reservation more; while a sweep holds it, every bet it  *)
(* read is still pending in "book", and in "work" tells its whole story.   *)
(***************************************************************************)
EXTENDS CfoExecution, SumFacts

----------------------------------------------------------------------------
(***************************************************************************)
(* What each posting of CfoLedger does to a book of the right type: it     *)
(* stays one, it moves one bet and no other, and the bet's legs still tell *)
(* its story (BetJournal).                                                 *)
(***************************************************************************)
\* Everything about order j is the same in both books.
SameBet(b, c, j) == c.row[j] = b.row[j] /\ c.legs[j] = b.legs[j]

OthersKept(b, c, k) == \A j \in Keys \ {k} : SameBet(b, c, j)

\* The product of a stake and a price is an amount.
LEMMA ProductIsNat ==
  ASSUME NEW m \in Nat, NEW n \in Nat
  PROVE  m * n \in Nat
OBVIOUS

\* A posting whose balances stay above zero makes a book of a book.
LEMMA PostType ==
  ASSUME NEW b \in Books, NEW k \in Keys,
         NEW a \in Int, NEW e \in Int, NEW row \in Rows, NEW audited \in Int,
         CanPost(b, a, e)
  PROVE  Post(b, k, a, e, row, audited) \in Books
<1>1. b.legs[k] \in Legs
  BY DEF Books
<1>2. [available |-> b.legs[k].available + a,
       exposure  |-> b.legs[k].exposure + e,
       pnl       |-> b.legs[k].pnl - a - e,
       audited   |-> b.legs[k].audited + audited] \in Legs
  BY <1>1 DEF Legs
<1>3. b.available + a \in Nat /\ b.exposure + e \in Nat
  BY DEF CanPost, Books
<1> QED
  BY <1>2, <1>3 DEF Post, Books

\* A posting moves the balances by its legs, and the order it is about.
LEMMA PostEffect ==
  ASSUME NEW b \in Books, NEW k \in Keys,
         NEW a, NEW e, NEW row, NEW audited
  PROVE  LET c == Post(b, k, a, e, row, audited) IN
         /\ c.available = b.available + a
         /\ c.exposure = b.exposure + e
         /\ c.peak = b.peak
         /\ c.row[k] = row
         /\ c.legs[k] = [available |-> b.legs[k].available + a,
                         exposure  |-> b.legs[k].exposure + e,
                         pnl       |-> b.legs[k].pnl - a - e,
                         audited   |-> b.legs[k].audited + audited]
         /\ OthersKept(b, c, k)
BY DEF Post, Books, OthersKept, SameBet

\* A reservation opens a bet whose legs are its stake, out and held.
LEMMA ReserveEffect ==
  ASSUME NEW b \in Books, NEW k \in Keys, NEW s \in Nat, NEW p \in Nat,
         CanReserve(b, k, s), BetJournal(b, k)
  PROVE  LET c == Reserve(b, k, s, p) IN
         /\ c \in Books
         /\ c.available = b.available - s /\ c.exposure = b.exposure + s
         /\ c.peak = b.peak
         /\ c.row[k] = [status |-> "PENDING", stake |-> s, profit |-> p,
                        reconcile |-> FALSE, remote |-> FALSE, attempts |-> 0]
         /\ c.legs[k] = [available |-> -s, exposure |-> s, pnl |-> 0, audited |-> 0]
         /\ OthersKept(b, c, k)
<1> DEFINE row == [status |-> "PENDING", stake |-> s, profit |-> p,
                   reconcile |-> FALSE, remote |-> FALSE, attempts |-> 0]
<1>1. row \in Rows
  BY DEF Rows, OpenStatuses
<1>2. CanPost(b, -s, s)
  BY DEF CanReserve, CanPost, Books
<1>3. b.legs[k] = NoLegs
  BY DEF BetJournal, CanReserve, NoLegs
<1>4. Reserve(b, k, s, p) = Post(b, k, -s, s, row, 0)
  BY DEF Reserve
<1>5. Post(b, k, -s, s, row, 0) \in Books
  BY <1>1, <1>2, PostType
<1>6. /\ b.available \in Nat /\ b.exposure \in Nat
  BY DEF Books
<1> HIDE DEF row
<1>7. LET c == Post(b, k, -s, s, row, 0) IN
      /\ c.available = b.available - s /\ c.exposure = b.exposure + s
      /\ c.peak = b.peak
      /\ c.row[k] = row
      /\ c.legs[k] = [available |-> -s, exposure |-> s, pnl |-> 0, audited |-> 0]
      /\ OthersKept(b, c, k)
  BY <1>3, <1>6, PostEffect DEF NoLegs
<1> QED
  BY <1>4, <1>5, <1>7 DEF row

\* Closing a bet, either way, keeps the book a book and the bet's legs its story.
LEMMA ReleaseEffect ==
  ASSUME NEW b \in Books, NEW k \in Keys, NEW status \in {"REJECTED", "VOID"},
         IsOpen(b, k), CanPost(b, 0, -b.row[k].stake), BetJournal(b, k)
  PROVE  LET c == Release(b, k, status) IN
         /\ c \in Books
         /\ c.peak = b.peak
         /\ c.row[k].status = status
         /\ c.row[k].stake = b.row[k].stake
         /\ c.row[k].profit = b.row[k].profit
         /\ BetJournal(c, k)
         /\ OthersKept(b, c, k)
<1> DEFINE row == [b.row[k] EXCEPT !.status = status, !.reconcile = FALSE]
           stake == b.row[k].stake
<1>1. b.row[k] \in Rows /\ stake \in Nat
  BY DEF Books, Rows
<1>2. /\ row \in Rows /\ row.status = status
      /\ row.stake = stake /\ row.profit = b.row[k].profit
  BY <1>1 DEF Rows, ClosedStatuses, GradedStatuses
<1>3. b.legs[k] = [available |-> -stake, exposure |-> stake, pnl |-> 0, audited |-> 0]
  BY DEF BetJournal, IsOpen
<1>4. CanPost(b, stake, -stake)
  BY <1>1 DEF CanPost, Books
<1>5. Release(b, k, status) = Post(b, k, stake, -stake, row, 0)
  BY DEF Release
<1> HIDE DEF row, stake
<1>6. Post(b, k, stake, -stake, row, 0) \in Books
  BY <1>1, <1>2, <1>4, PostType
<1>7. LET c == Post(b, k, stake, -stake, row, 0) IN
      /\ c.peak = b.peak
      /\ c.row[k] = row
      /\ c.legs[k] = NoLegs
      /\ OthersKept(b, c, k)
  BY <1>1, <1>3, PostEffect DEF NoLegs
<1>8. BetJournal(Release(b, k, status), k)
  BY <1>2, <1>5, <1>7 DEF BetJournal, OpenStatuses
<1> QED
  BY <1>2, <1>5, <1>6, <1>7, <1>8 DEF stake

LEMMA SettleEffect ==
  ASSUME NEW b \in Books, NEW k \in Keys, NEW won \in BOOLEAN,
         IsOpen(b, k), CanPost(b, 0, -b.row[k].stake), BetJournal(b, k)
  PROVE  LET c == Settle(b, k, won) IN
         /\ c \in Books
         /\ c.peak = b.peak
         /\ c.row[k].status = IF won THEN "WON" ELSE "LOST"
         /\ c.row[k].stake = b.row[k].stake
         /\ c.row[k].profit = b.row[k].profit
         /\ BetJournal(c, k)
         /\ OthersKept(b, c, k)
<1> DEFINE row == [b.row[k] EXCEPT !.status = IF won THEN "WON" ELSE "LOST"]
           stake == b.row[k].stake
           profit == b.row[k].profit
<1>1. b.row[k] \in Rows /\ stake \in Nat /\ profit \in Nat
  BY DEF Books, Rows
<1>2. /\ row \in Rows /\ row.stake = stake /\ row.profit = profit
      /\ row.status = IF won THEN "WON" ELSE "LOST"
  BY <1>1 DEF Rows, ClosedStatuses, GradedStatuses
<1>3. b.legs[k] = [available |-> -stake, exposure |-> stake, pnl |-> 0, audited |-> 0]
  BY DEF BetJournal, IsOpen
<1>4. b.available \in Nat /\ b.exposure \in Nat /\ b.exposure - stake >= 0
  BY <1>1 DEF CanPost, Books
<1>5. CASE won
  <2>1. Settle(b, k, won) = Post(b, k, stake + profit, -stake, row, profit)
    BY <1>5 DEF Settle
  <2>2. CanPost(b, stake + profit, -stake)
    BY <1>1, <1>4 DEF CanPost
  <2> HIDE DEF row, stake, profit
  <2>3. Post(b, k, stake + profit, -stake, row, profit) \in Books
    BY <1>1, <1>2, <2>2, PostType
  <2>4. LET c == Post(b, k, stake + profit, -stake, row, profit) IN
        /\ c.peak = b.peak
        /\ c.row[k] = row
        /\ c.legs[k] = [available |-> profit, exposure |-> 0,
                        pnl |-> -profit, audited |-> profit]
        /\ OthersKept(b, c, k)
    BY <1>1, <1>3, PostEffect
  <2>5. BetJournal(Settle(b, k, won), k)
    BY <1>2, <1>5, <2>1, <2>4 DEF BetJournal, OpenStatuses
  <2> QED
    BY <1>2, <1>5, <2>1, <2>3, <2>4, <2>5 DEF stake, profit
<1>6. CASE ~won
  <2>1. Settle(b, k, won) = Post(b, k, 0, -stake, row, -stake)
    BY <1>6 DEF Settle
  <2>2. CanPost(b, 0, -stake)
    BY <1>1, <1>4 DEF CanPost
  <2> HIDE DEF row, stake, profit
  <2>3. Post(b, k, 0, -stake, row, -stake) \in Books
    <3>1. 0 \in Int /\ -stake \in Int /\ row \in Rows
      BY <1>1, <1>2
    <3> QED
      BY <2>2, <3>1, PostType
  <2>4. LET c == Post(b, k, 0, -stake, row, -stake) IN
        /\ c.peak = b.peak
        /\ c.row[k] = row
        /\ c.legs[k] = [available |-> -stake, exposure |-> 0,
                        pnl |-> stake, audited |-> -stake]
        /\ OthersKept(b, c, k)
    BY <1>1, <1>3, PostEffect
  <2>5. BetJournal(Settle(b, k, won), k)
    BY <1>2, <1>6, <2>1, <2>4 DEF BetJournal, OpenStatuses
  <2> QED
    BY <1>2, <1>6, <2>1, <2>3, <2>4, <2>5 DEF stake, profit
<1> QED
  BY <1>5, <1>6

LEMMA GradeEffect ==
  ASSUME NEW b \in Books, NEW k \in Keys, NEW grade \in GradedStatuses,
         IsOpen(b, k), CanPost(b, 0, -b.row[k].stake), BetJournal(b, k)
  PROVE  LET c == Grade(b, k, grade) IN
         /\ c \in Books
         /\ c.peak = b.peak
         /\ c.row[k].status = grade
         /\ c.row[k].stake = b.row[k].stake
         /\ c.row[k].profit = b.row[k].profit
         /\ BetJournal(c, k)
         /\ OthersKept(b, c, k)
<1>1. CASE grade = "VOID"
  BY <1>1, ReleaseEffect DEF Grade
<1>2. CASE grade # "VOID"
  <2> DEFINE won == grade = "WON"
  <2>1. won \in BOOLEAN /\ grade = IF won THEN "WON" ELSE "LOST"
    BY <1>2 DEF GradedStatuses
  <2>2. Grade(b, k, grade) = Settle(b, k, won)
    BY <1>2 DEF Grade
  <2> HIDE DEF won
  <2> QED
    BY <2>1, <2>2, SettleEffect
<1> QED
  BY <1>1, <1>2

\* An amended row posts nothing.
LEMMA AmendEffect ==
  ASSUME NEW b \in Books, NEW k \in Keys, NEW row \in Rows
  PROVE  LET c == Amend(b, k, row) IN
         /\ c \in Books
         /\ c.available = b.available /\ c.exposure = b.exposure /\ c.peak = b.peak
         /\ c.row[k] = row
         /\ c.legs = b.legs
         /\ OthersKept(b, c, k)
BY DEF Amend, Books, OthersKept, SameBet

\* The story a bet's legs tell depends on its status, stake and profit only.
LEMMA JournalOfRow ==
  ASSUME NEW b, NEW c, NEW k,
         BetJournal(b, k),
         c.legs[k] = b.legs[k],
         c.row[k].status = b.row[k].status
           \/ (c.row[k].status \in OpenStatuses /\ b.row[k].status \in OpenStatuses),
         c.row[k].stake = b.row[k].stake,
         c.row[k].profit = b.row[k].profit
  PROVE  BetJournal(c, k)
BY DEF BetJournal, OpenStatuses

LEMMA MarkPeakEffect ==
  ASSUME NEW b \in Books
  PROVE  LET c == MarkPeak(b) IN
         /\ c \in Books
         /\ c.available = b.available /\ c.exposure = b.exposure
         /\ c.row = b.row /\ c.legs = b.legs
         /\ c.peak = IF Equity(b) > b.peak THEN Equity(b) ELSE b.peak
BY DEF MarkPeak, Equity, Books

----------------------------------------------------------------------------
(***************************************************************************)
(* The invariant                                                           *)
(***************************************************************************)

Held(r) == pc[r] \in {"reserved", "sent"}

\* Exactly the process whose program counter says so holds the bankroll row.
LockInv ==
  /\ \A r \in Requests : Held(r) <=> lock = r
  /\ \A w \in Workers : run[w].pc = "locked" <=> lock = w

\* The uncommitted book of an execution is the committed one and a reservation.
ReservationInv ==
  \A r \in Requests : lock = r =>
    LET k == KeyOf[r] IN
    /\ book.row[k].status = "NONE"
    /\ Stake[k] <= book.available
    /\ work.available = book.available - Stake[k]
    /\ work.exposure = book.exposure + Stake[k]
    /\ work.peak = book.peak
    /\ work.row[k] = [status |-> "PENDING", stake |-> Stake[k],
                      profit |-> Profit(Stake[k], AskedPrice),
                      reconcile |-> FALSE, remote |-> FALSE, attempts |-> 0]
    /\ work.legs[k] = [available |-> -Stake[k], exposure |-> Stake[k],
                       pnl |-> 0, audited |-> 0]

\* What a sweep has locked nobody else closes, and its own work is consistent.
SweepInv ==
  \A w \in Workers : lock = w =>
    /\ work.peak = book.peak
    /\ \A k \in run[w].due :
         book.row[k].status = "PENDING" /\ BetJournal(work, k)

PeakInv == Equity(book) <= book.peak

IInv ==
  /\ TypeOK
  /\ JournalTellsEveryBet
  /\ PeakInv
  /\ LockInv
  /\ ReservationInv
  /\ SweepInv

\* What one step may do to the committed book.
ClosedKept ==
  \A k \in Keys : book.row[k].status \in ClosedStatuses =>
    book'.row[k] = book.row[k] /\ book'.legs[k] = book.legs[k]

PeakMarked ==
  book'.peak = IF Equity(book') > book.peak THEN Equity(book') ELSE book.peak

----------------------------------------------------------------------------
LEMMA EquityIsInt ==
  ASSUME NEW b \in Books
  PROVE  Equity(b) \in Nat /\ b.peak \in Nat
BY DEF Books, Equity

LEMMA OpenBookType ==
  ASSUME NEW balance \in Nat
  PROVE  OpenBook(balance) \in Books
BY DEF OpenBook, Books, NoRow, NoLegs, Rows, Legs

LEMMA KeysOfRequests ==
  ASSUME NEW r \in Requests
  PROVE  /\ KeyOf[r] \in Keys /\ Stake[KeyOf[r]] \in Nat
         /\ Stake[KeyOf[r]] > 0
         /\ Profit(Stake[KeyOf[r]], AskedPrice) \in Nat
         /\ RowsOf(r) = {KeyOf[r]}
<1>1. KeyOf[r] \in Keys /\ Stake[KeyOf[r]] \in Nat /\ Stake[KeyOf[r]] > 0
  BY ConstantsAssumption
<1>2. AskedPrice \in Nat
  BY ConstantsAssumption
<1>3. Profit(Stake[KeyOf[r]], AskedPrice) \in Nat
  BY <1>1, <1>2, ProductIsNat DEF Profit
<1>4. RowsOf(r) = {KeyOf[r]}
  BY DEF RowsOf
<1> QED
  BY <1>1, <1>3, <1>4

LEMMA RowsOfWorker ==
  ASSUME NEW w \in Workers
  PROVE  RowsOf(w) = run[w].due
BY ConstantsAssumption DEF RowsOf

\* A commit takes the balances of the uncommitted book and its holder's rows.
LEMMA CommittedEffect ==
  ASSUME NEW h, NEW b \in Books, book \in Books
  PROVE  LET c == Committed(h, b) IN
         /\ c \in Books
         /\ c.available = b.available /\ c.exposure = b.exposure /\ c.peak = b.peak
         /\ \A k \in Keys :
              /\ k \in RowsOf(h) => SameBet(b, c, k)
              /\ k \notin RowsOf(h) => SameBet(book, c, k)
BY DEF Committed, Books, SameBet

LEMMA JournalOfSameBet ==
  ASSUME NEW b, NEW c, NEW k, SameBet(b, c, k), BetJournal(b, k)
  PROVE  BetJournal(c, k)
BY DEF SameBet, BetJournal

----------------------------------------------------------------------------
(***************************************************************************)
(* Steps that leave the ledger and its lock alone                          *)
(***************************************************************************)
LEMMA QuietStep ==
  ASSUME IInv, TypeOK', UNCHANGED <<book, work, lock>>,
         \A r \in Requests : Held(r)' <=> Held(r),
         \A w \in Workers : /\ run'[w].pc = "locked" <=> run[w].pc = "locked"
                            /\ run[w].pc = "locked" => run'[w].due = run[w].due
  PROVE  IInv' /\ ClosedKept /\ PeakMarked
<1>1. LockInv'
  BY DEF IInv, LockInv
<1>2. ReservationInv'
  BY DEF IInv, ReservationInv
<1>3. SweepInv'
  BY DEF IInv, SweepInv, LockInv, BetJournal
<1>4. JournalTellsEveryBet' /\ PeakInv'
  BY DEF IInv, JournalTellsEveryBet, BetJournal, PeakInv, Equity
<1>5. ClosedKept
  BY DEF ClosedKept
<1>6. PeakMarked
  BY EquityIsInt DEF PeakMarked, IInv, PeakInv, TypeOK, Equity
<1> QED
  BY <1>1, <1>2, <1>3, <1>4, <1>5, <1>6 DEF IInv

----------------------------------------------------------------------------
(***************************************************************************)
(* The resolver's own columns                                              *)
(***************************************************************************)
LEMMA UpdateStep ==
  ASSUME IInv, TypeOK', NEW k \in Keys, NEW row \in Rows,
         UpdatePending(k, row),
         row.status \in OpenStatuses,
         row.stake = book.row[k].stake, row.profit = book.row[k].profit,
         UNCHANGED pc,
         \A w \in Workers : /\ run'[w].pc = "locked" <=> run[w].pc = "locked"
                            /\ run[w].pc = "locked" => run'[w].due = run[w].due
  PROVE  IInv' /\ ClosedKept /\ PeakMarked
<1>1. CASE book.row[k].status # "PENDING"
  <2>1. UNCHANGED <<book, work, lock>>
    BY <1>1 DEF UpdatePending
  <2> QED
    BY <2>1, QuietStep DEF Held
<1>2. CASE book.row[k].status = "PENDING"
  <2>1. book \in Books /\ book' = Amend(book, k, row)
    BY <1>2 DEF UpdatePending, IInv, TypeOK
  <2>2. /\ book'.available = book.available /\ book'.exposure = book.exposure
        /\ book'.peak = book.peak
        /\ book'.row[k] = row /\ book'.legs = book.legs
        /\ OthersKept(book, book', k)
    BY <2>1, AmendEffect
  <2>3. UNCHANGED <<work, lock>> /\ k \notin RowsOf(lock)
    BY DEF UpdatePending, RowIsFree
  <2>4. LockInv'
    BY <2>3 DEF IInv, LockInv, Held
  <2>5. ReservationInv'
    <3> SUFFICES ASSUME NEW r \in Requests, lock = r
                 PROVE  book'.row[KeyOf[r]] = book.row[KeyOf[r]]
      BY <2>2, <2>3 DEF IInv, ReservationInv
    <3>1. KeyOf[r] \in Keys \ {k}
      BY <2>3, KeysOfRequests
    <3> QED
      BY <2>2, <3>1 DEF OthersKept, SameBet
  <2>6. SweepInv'
    <3> SUFFICES ASSUME NEW w \in Workers, lock = w, NEW j \in run[w].due
                 PROVE  book'.row[j].status = "PENDING" /\ BetJournal(work, j)
      BY <2>2, <2>3 DEF IInv, SweepInv, LockInv, BetJournal
    <3>1. j \in Keys \ {k}
      BY <2>3, RowsOfWorker DEF IInv, TypeOK, Runs
    <3> QED
      BY <2>2, <3>1 DEF OthersKept, SameBet, IInv, SweepInv
  <2>7. JournalTellsEveryBet'
    <3> SUFFICES ASSUME NEW j \in Keys PROVE BetJournal(book', j)
      BY DEF JournalTellsEveryBet
    <3>1. BetJournal(book, j)
      BY DEF IInv, JournalTellsEveryBet
    <3>2. CASE j = k
      BY <1>2, <2>2, <3>1, <3>2, JournalOfRow DEF OpenStatuses
    <3>3. CASE j # k
      BY <2>2, <3>1, <3>3, JournalOfSameBet DEF OthersKept
    <3> QED
      BY <3>2, <3>3
  <2>8. PeakInv' /\ PeakMarked
    BY <2>1, <2>2, EquityIsInt DEF IInv, PeakInv, PeakMarked, Equity
  <2>9. ClosedKept
    BY <1>2, <2>2 DEF ClosedKept, OthersKept, SameBet, ClosedStatuses, GradedStatuses
  <2> QED
    BY <2>4, <2>5, <2>6, <2>7, <2>8, <2>9 DEF IInv
<1> QED
  BY <1>1, <1>2

----------------------------------------------------------------------------
(***************************************************************************)
(* The end of a transaction                                                *)
(***************************************************************************)
\* What the invariant needs to know of an unlocked state.
LEMMA UnlockedStep ==
  ASSUME TypeOK', lock' = Nobody,
         \A r \in Requests : ~Held(r)',
         \A w \in Workers : run'[w].pc # "locked",
         JournalTellsEveryBet', PeakInv'
  PROVE  IInv'
<1>1. LockInv' /\ ReservationInv' /\ SweepInv'
  BY ConstantsAssumption DEF LockInv, ReservationInv, SweepInv
<1> QED
  BY <1>1 DEF IInv

\* Only the holder of the lock is in a locked section.
LEMMA HolderIsAlone ==
  ASSUME IInv, NEW h \in Requests \cup Workers, lock = h
  PROVE  /\ \A r \in Requests \ {h} : ~Held(r)
         /\ \A w \in Workers \ {h} : run[w].pc # "locked"
         /\ h \in Requests => Held(h) /\ h \notin Workers
         /\ h \in Workers => run[h].pc = "locked" /\ h \notin Requests
BY ConstantsAssumption DEF IInv, LockInv

\* A rollback leaves the committed book as it was.
LEMMA RollbackStep ==
  ASSUME IInv, TypeOK', UNCHANGED book, lock' = Nobody,
         \A r \in Requests : ~Held(r)',
         \A w \in Workers : run'[w].pc # "locked"
  PROVE  IInv' /\ ClosedKept /\ PeakMarked
<1>1. JournalTellsEveryBet' /\ PeakInv'
  BY DEF IInv, JournalTellsEveryBet, BetJournal, PeakInv, Equity
<1>2. IInv'
  BY <1>1, UnlockedStep
<1>3. ClosedKept
  BY DEF ClosedKept
<1>4. PeakMarked
  BY EquityIsInt DEF PeakMarked, IInv, PeakInv, TypeOK, Equity
<1> QED
  BY <1>2, <1>3, <1>4

\* A commit of the holder's rows, each of which was not closed before and tells
\* its story after, and of a peak no lower than the equity.
LEMMA CommitStep ==
  ASSUME IInv, TypeOK', NEW h, NEW b \in Books, Commit(h, b),
         \A k \in RowsOf(h) : /\ k \in Keys
                              /\ book.row[k].status \notin ClosedStatuses
                              /\ BetJournal(b, k),
         b.peak = IF Equity(b) > book.peak THEN Equity(b) ELSE book.peak,
         \A r \in Requests : ~Held(r)',
         \A w \in Workers : run'[w].pc # "locked"
  PROVE  IInv' /\ ClosedKept /\ PeakMarked
<1>1. book \in Books /\ lock' = Nobody /\ book' = Committed(h, b)
  BY DEF IInv, TypeOK, Commit, Unlock
<1>2. /\ book'.available = b.available /\ book'.exposure = b.exposure
      /\ book'.peak = b.peak
      /\ \A k \in Keys :
           /\ k \in RowsOf(h) => /\ book'.row[k] = b.row[k]
                                 /\ book'.legs[k] = b.legs[k]
           /\ k \notin RowsOf(h) => UNCHANGED <<book.row[k], book.legs[k]>>
  BY <1>1, CommittedEffect DEF SameBet
<1>3. JournalTellsEveryBet'
  <2> SUFFICES ASSUME NEW k \in Keys PROVE BetJournal(book', k)
    BY DEF JournalTellsEveryBet
  <2>1. CASE k \in RowsOf(h)
    <3>1. SameBet(b, book', k)
      BY <1>2, <2>1 DEF SameBet
    <3>2. BetJournal(b, k)
      BY <2>1
    <3> QED
      BY <3>1, <3>2, JournalOfSameBet
  <2>2. CASE k \notin RowsOf(h)
    <3>1. SameBet(book, book', k) /\ BetJournal(book, k)
      BY <1>2, <2>2 DEF IInv, JournalTellsEveryBet, SameBet
    <3> QED
      BY <3>1, JournalOfSameBet
  <2> QED
    BY <2>1, <2>2
<1>4. Equity(book') = Equity(b)
  BY <1>2 DEF Equity
<1>5. PeakInv' /\ PeakMarked
  BY <1>1, <1>2, <1>4, EquityIsInt DEF PeakInv, PeakMarked
<1>6. ClosedKept
  BY <1>2 DEF ClosedKept, SameBet
<1>7. IInv'
  BY <1>1, <1>3, <1>5, UnlockedStep
<1> QED
  BY <1>5, <1>6, <1>7

----------------------------------------------------------------------------
(***************************************************************************)
(* The executor's steps                                                    *)
(***************************************************************************)
\* A request that moves outside its locked section changes nobody's lock.
LEMMA OutsideStep ==
  ASSUME IInv, TypeOK', UNCHANGED <<book, work, lock, run>>,
         NEW r \in Requests, NEW stage, pc' = [pc EXCEPT ![r] = stage],
         Held(r) <=> stage \in {"reserved", "sent"}
  PROVE  IInv' /\ ClosedKept /\ PeakMarked
<1>1. \A s \in Requests : Held(s)' <=> Held(s)
  BY DEF Held, IInv, TypeOK
<1> QED
  BY <1>1, QuietStep

LEMMA LockAndReserveStep ==
  ASSUME IInv, TypeOK', NEW r \in Requests, LockAndReserve(r)
  PROVE  IInv' /\ ClosedKept /\ PeakMarked
<1> DEFINE k == KeyOf[r]
           profit == Profit(Stake[k], AskedPrice)
<1>1. /\ k \in Keys /\ Stake[k] \in Nat /\ profit \in Nat
      /\ CanReserve(book, k, Stake[k])
      /\ lock = Nobody /\ lock' = r
      /\ work' = Reserve(book, k, Stake[k], profit)
      /\ book \in Books /\ UNCHANGED <<book, run>>
      /\ pc' = [pc EXCEPT ![r] = "reserved"]
  BY KeysOfRequests DEF LockAndReserve, MayReserve, Lock, Goto, IInv, TypeOK
<1>2. BetJournal(book, k)
  BY <1>1 DEF IInv, JournalTellsEveryBet
<1> HIDE DEF k, profit
<1>3. /\ work'.available = book.available - Stake[k]
      /\ work'.exposure = book.exposure + Stake[k]
      /\ work'.peak = book.peak
      /\ work'.row[k] = [status |-> "PENDING", stake |-> Stake[k],
                         profit |-> profit, reconcile |-> FALSE,
                         remote |-> FALSE, attempts |-> 0]
      /\ work'.legs[k] = [available |-> -Stake[k], exposure |-> Stake[k],
                          pnl |-> 0, audited |-> 0]
  BY <1>1, <1>2, ReserveEffect
<1>4. LockInv'
  BY <1>1, ConstantsAssumption DEF IInv, LockInv, Held, TypeOK
<1>5. ReservationInv'
  BY <1>1, <1>3 DEF ReservationInv, CanReserve, k, profit
<1>6. SweepInv'
  BY <1>1, ConstantsAssumption DEF SweepInv
<1>7. JournalTellsEveryBet' /\ PeakInv' /\ ClosedKept
  BY <1>1 DEF IInv, JournalTellsEveryBet, BetJournal, PeakInv, Equity, ClosedKept
<1>8. PeakMarked
  BY <1>1, EquityIsInt DEF PeakMarked, IInv, PeakInv, Equity
<1> QED
  BY <1>4, <1>5, <1>6, <1>7, <1>8 DEF IInv

\* The facts a request in its locked section starts from.
LEMMA HeldFacts ==
  ASSUME IInv, NEW r \in Requests, Held(r)
  PROVE  LET k == KeyOf[r] IN
         /\ lock = r /\ k \in Keys /\ RowsOf(r) = {k}
         /\ book \in Books /\ work \in Books
         /\ book.row[k].status = "NONE"
         /\ Stake[k] \in Nat /\ Stake[k] > 0 /\ Stake[k] <= book.available
         /\ work.available = book.available - Stake[k]
         /\ work.exposure = book.exposure + Stake[k]
         /\ work.peak = book.peak
         /\ work.row[k].status = "PENDING" /\ work.row[k].stake = Stake[k]
         /\ work.legs[k] = [available |-> -Stake[k], exposure |-> Stake[k],
                            pnl |-> 0, audited |-> 0]
         /\ BetJournal(work, k)
<1>1. lock = r
  BY DEF IInv, LockInv
<1>2. /\ KeyOf[r] \in Keys /\ Stake[KeyOf[r]] \in Nat /\ Stake[KeyOf[r]] > 0
      /\ RowsOf(r) = {KeyOf[r]}
  BY KeysOfRequests
<1> DEFINE k == KeyOf[r]
           reserved == [status |-> "PENDING", stake |-> Stake[k],
                        profit |-> Profit(Stake[k], AskedPrice),
                        reconcile |-> FALSE, remote |-> FALSE, attempts |-> 0]
<1>3. /\ book.row[k].status = "NONE"
      /\ Stake[k] <= book.available
      /\ work.available = book.available - Stake[k]
      /\ work.exposure = book.exposure + Stake[k]
      /\ work.peak = book.peak
      /\ work.row[k] = reserved
      /\ work.legs[k] = [available |-> -Stake[k], exposure |-> Stake[k],
                         pnl |-> 0, audited |-> 0]
  BY <1>1 DEF IInv, ReservationInv
<1>4. reserved.status = "PENDING" /\ reserved.stake = Stake[k]
  OBVIOUS
<1> HIDE DEF reserved
<1>5. BetJournal(work, k)
  BY <1>3, <1>4 DEF BetJournal, OpenStatuses
<1> QED
  BY <1>1, <1>2, <1>3, <1>4, <1>5 DEF IInv, TypeOK

\* A request that leaves its locked section by rolling back.
LEMMA GiveUpStep ==
  ASSUME IInv, TypeOK', NEW r \in Requests, Held(r), Rollback, UNCHANGED run,
         NEW stage, stage \notin {"reserved", "sent"},
         pc' = [pc EXCEPT ![r] = stage]
  PROVE  IInv' /\ ClosedKept /\ PeakMarked
<1>1. lock = r /\ lock' = Nobody /\ UNCHANGED book
  BY HeldFacts DEF Rollback, Unlock
<1>2. \A s \in Requests : ~Held(s)'
  BY <1>1, HolderIsAlone DEF Held, IInv, TypeOK
<1>3. \A w \in Workers : run'[w].pc # "locked"
  BY <1>1, HolderIsAlone
<1> QED
  BY <1>1, <1>2, <1>3, RollbackStep

\* A request that leaves it by committing its reservation, as it is or reduced.
LEMMA CommitReservationStep ==
  ASSUME IInv, TypeOK', NEW r \in Requests, Held(r), UNCHANGED run,
         NEW b \in Books, Commit(r, b),
         b.peak = book.peak, Equity(b) = Equity(book), BetJournal(b, KeyOf[r]),
         NEW stage, stage \notin {"reserved", "sent"},
         pc' = [pc EXCEPT ![r] = stage]
  PROVE  IInv' /\ ClosedKept /\ PeakMarked
<1>1. /\ lock = r /\ RowsOf(r) = {KeyOf[r]} /\ KeyOf[r] \in Keys
      /\ book.row[KeyOf[r]].status = "NONE" /\ book \in Books
  BY HeldFacts
<1>2. \A s \in Requests : ~Held(s)'
  BY <1>1, HolderIsAlone DEF Held, IInv, TypeOK
<1>3. \A w \in Workers : run'[w].pc # "locked"
  BY <1>1, HolderIsAlone
<1>4. \A k \in RowsOf(r) : /\ k \in Keys
                           /\ book.row[k].status \notin ClosedStatuses
                           /\ BetJournal(b, k)
  BY <1>1 DEF ClosedStatuses, GradedStatuses
<1>5. b.peak = IF Equity(b) > book.peak THEN Equity(b) ELSE book.peak
  BY <1>1, EquityIsInt DEF IInv, PeakInv
<1> QED
  BY <1>2, <1>3, <1>4, <1>5, CommitStep

\* The bet as struck: its price, and no more of its stake than was matched.
LEMMA AcceptedEffect ==
  ASSUME IInv, NEW r \in Requests, Held(r),
         venue[KeyOf[r]].state \in Known, venue[KeyOf[r]].matched \in Nat,
         venue[KeyOf[r]].price \in Nat
  PROVE  LET b == Accepted(r, work) IN
         /\ b \in Books
         /\ b.peak = book.peak
         /\ Equity(b) = Equity(book)
         /\ BetJournal(b, KeyOf[r])
<1> DEFINE k     == KeyOf[r]
           bet   == venue[k]
           shot0 == [work.row[k] EXCEPT !.remote = TRUE,
                                        !.profit = Profit(Stake[k], bet.price)]
           shot  == Amend(work, k, shot0)
           rest  == Stake[k] - bet.matched
           row   == [shot.row[k] EXCEPT !.stake = bet.matched,
                                        !.profit = Profit(bet.matched, bet.price)]
<1>1. /\ k \in Keys /\ work \in Books /\ book \in Books /\ Stake[k] \in Nat
      /\ Stake[k] <= book.available
      /\ work.available = book.available - Stake[k]
      /\ work.exposure = book.exposure + Stake[k]
      /\ work.peak = book.peak
      /\ work.row[k].status = "PENDING" /\ work.row[k].stake = Stake[k]
      /\ work.legs[k] = [available |-> -Stake[k], exposure |-> Stake[k],
                         pnl |-> 0, audited |-> 0]
  BY HeldFacts
<1>2. bet.matched \in Nat /\ bet.price \in Nat
  OBVIOUS
<1>3. Profit(Stake[k], bet.price) \in Nat /\ Profit(bet.matched, bet.price) \in Nat
  BY <1>1, <1>2, ProductIsNat DEF Profit
<1>4. /\ shot0 \in Rows /\ shot0.status = "PENDING" /\ shot0.stake = Stake[k]
  <2> DEFINE gain == Profit(Stake[k], bet.price)
  <2> HIDE DEF bet, gain
  <2>1. /\ work.row[k] \in Rows
        /\ work.row[k].status = "PENDING" /\ work.row[k].stake = Stake[k]
        /\ gain \in Nat
        /\ shot0 = [work.row[k] EXCEPT !.remote = TRUE, !.profit = gain]
    BY <1>1, <1>3 DEF Books, gain
  <2> HIDE DEF k, shot0
  <2> QED
    BY <2>1 DEF Rows
<1> HIDE DEF shot0
<1>5. /\ shot \in Books
      /\ shot.available = work.available /\ shot.exposure = work.exposure
      /\ shot.peak = work.peak /\ shot.row[k] = shot0 /\ shot.legs = work.legs
  BY <1>1, <1>4, AmendEffect
<1>6. Accepted(r, work) =
        IF bet.matched < Stake[k]
        THEN ReduceToFill(shot, k, bet.matched, Profit(bet.matched, bet.price))
        ELSE shot
  BY DEF Accepted, shot0
<1> HIDE DEF shot
<1>7. CASE bet.matched < Stake[k]
  <2>1. /\ row \in Rows /\ row.status = "PENDING" /\ row.stake = bet.matched
    BY <1>2, <1>3, <1>4, <1>5 DEF Rows
  <2>2. Accepted(r, work) = Post(shot, k, rest, -rest, row, 0)
    BY <1>4, <1>5, <1>6, <1>7 DEF ReduceToFill
  <2> HIDE DEF row
  <2>3. rest \in Nat /\ CanPost(shot, rest, -rest)
    BY <1>1, <1>2, <1>5, <1>7 DEF CanPost, Books
  <2>4. Post(shot, k, rest, -rest, row, 0) \in Books
    BY <1>1, <1>5, <2>1, <2>3, PostType
  <2> DEFINE c == Post(shot, k, rest, -rest, row, 0)
  <2>5. /\ c.available = shot.available + rest /\ c.exposure = shot.exposure - rest
        /\ c.peak = shot.peak /\ c.row[k] = row
        /\ c.legs[k] = [available |-> -bet.matched, exposure |-> bet.matched,
                        pnl |-> 0, audited |-> 0]
    <3>1. /\ c.available = shot.available + rest
          /\ c.exposure = shot.exposure + (-rest)
          /\ c.peak = shot.peak /\ c.row[k] = row
          /\ c.legs[k] = [available |-> shot.legs[k].available + rest,
                          exposure  |-> shot.legs[k].exposure + (-rest),
                          pnl       |-> shot.legs[k].pnl - rest - (-rest),
                          audited   |-> shot.legs[k].audited + 0]
      BY <1>1, <1>5, PostEffect
    <3>2. /\ shot.legs[k].available + rest = -bet.matched
          /\ shot.legs[k].exposure + (-rest) = bet.matched
          /\ shot.legs[k].pnl - rest - (-rest) = 0
          /\ shot.legs[k].audited + 0 = 0
      BY <1>1, <1>2, <1>5
    <3>3. shot.exposure + (-rest) = shot.exposure - rest
      BY <1>5, <2>3 DEF Books
    <3> QED
      BY <3>1, <3>2, <3>3
  <2>6. BetJournal(Accepted(r, work), k)
    BY <2>1, <2>2, <2>5 DEF BetJournal, OpenStatuses
  <2>7. Equity(Accepted(r, work)) = Equity(book)
    BY <1>1, <1>2, <1>5, <2>2, <2>3, <2>5 DEF Equity, Books
  <2> QED
    BY <1>1, <1>5, <2>2, <2>4, <2>5, <2>6, <2>7
<1>8. CASE ~(bet.matched < Stake[k])
  <2>1. Accepted(r, work) = shot
    BY <1>6, <1>8
  <2>2. BetJournal(shot, k)
    BY <1>1, <1>4, <1>5 DEF BetJournal, OpenStatuses
  <2>3. Equity(shot) = Equity(book)
    BY <1>1, <1>5 DEF Equity, Books
  <2> QED
    BY <1>1, <1>5, <2>1, <2>2, <2>3
<1> QED
  BY <1>7, <1>8

LEMMA UnconfirmedEffect ==
  ASSUME IInv, NEW r \in Requests, Held(r)
  PROVE  LET b == Unconfirmed(r, work) IN
         /\ b \in Books
         /\ b.peak = book.peak
         /\ Equity(b) = Equity(book)
         /\ BetJournal(b, KeyOf[r])
<1> DEFINE k   == KeyOf[r]
           row == [work.row[k] EXCEPT !.reconcile = TRUE]
           b   == Amend(work, k, row)
<1>1. /\ k \in Keys /\ work \in Books /\ book \in Books /\ Stake[k] \in Nat
      /\ work.available = book.available - Stake[k]
      /\ work.exposure = book.exposure + Stake[k]
      /\ work.peak = book.peak
      /\ work.row[k].status = "PENDING" /\ work.row[k].stake = Stake[k]
      /\ work.legs[k] = [available |-> -Stake[k], exposure |-> Stake[k],
                         pnl |-> 0, audited |-> 0]
  BY HeldFacts
<1>2. row \in Rows /\ row.status = "PENDING" /\ row.stake = Stake[k]
  BY <1>1 DEF Books, Rows
<1>3. Unconfirmed(r, work) = b
  BY DEF Unconfirmed
<1> HIDE DEF row
<1>4. /\ b \in Books
      /\ b.available = work.available /\ b.exposure = work.exposure
      /\ b.peak = work.peak /\ b.row[k] = row /\ b.legs = work.legs
  BY <1>1, <1>2, AmendEffect
<1> HIDE DEF b
<1>5. BetJournal(b, k)
  BY <1>1, <1>2, <1>4 DEF BetJournal, OpenStatuses
<1>6. Equity(b) = Equity(book)
  BY <1>1, <1>4 DEF Equity, Books
<1> QED
  BY <1>1, <1>3, <1>4, <1>5, <1>6

----------------------------------------------------------------------------
(***************************************************************************)
(* Rulings and sweeps                                                      *)
(***************************************************************************)
Rulings == GradedStatuses \cup {"NOT_PLACED", "OPEN"}

\* A ruling is one transaction: it closes an open bet or puts it back in play.
LEMMA RuledEffect ==
  ASSUME IInv, NEW k \in Keys, NEW outcome \in Rulings, MayRule(k, outcome)
  PROVE  LET c == Ruled(k, outcome) IN
         /\ c \in Books
         /\ BetJournal(c, k)
         /\ OthersKept(book, c, k)
         /\ c.peak = IF Equity(c) > book.peak THEN Equity(c) ELSE book.peak
<1> DEFINE opened == [book.row[k] EXCEPT !.status = "PENDING", !.attempts = 0,
                                         !.remote = TRUE]
           b == CASE outcome = "NOT_PLACED" -> Release(book, k, "REJECTED")
                  [] outcome = "OPEN" -> Amend(book, k, opened)
                  [] OTHER -> Grade(book, k, outcome)
           entry == [b.row[k] EXCEPT !.reconcile = FALSE]
           d == Amend(b, k, entry)
<1>1. /\ book \in Books /\ book.row[k] \in Rows /\ BetJournal(book, k) /\ IsOpen(book, k)
      /\ outcome # "OPEN" => CanPost(book, 0, -book.row[k].stake)
  BY DEF IInv, TypeOK, JournalTellsEveryBet, MayRule, Books
<1>2. Ruled(k, outcome) = MarkPeak(d)
  BY DEF Ruled
<1>3. /\ b \in Books /\ b.peak = book.peak /\ BetJournal(b, k)
      /\ OthersKept(book, b, k)
  <2>1. CASE outcome = "NOT_PLACED"
    BY <1>1, <2>1, ReleaseEffect
  <2>2. CASE outcome = "OPEN"
    <3>1. /\ opened \in Rows /\ opened.status \in OpenStatuses
          /\ opened.stake = book.row[k].stake /\ opened.profit = book.row[k].profit
      BY <1>1 DEF Rows, OpenStatuses
    <3> HIDE DEF opened
    <3>2. b = Amend(book, k, opened)
      BY <2>2
    <3> HIDE DEF b
    <3>3. /\ b \in Books /\ b.peak = book.peak /\ b.row[k] = opened
          /\ b.legs = book.legs /\ OthersKept(book, b, k)
      BY <1>1, <3>1, <3>2, AmendEffect
    <3>4. BetJournal(b, k)
      BY <1>1, <3>1, <3>3, JournalOfRow DEF IsOpen
    <3> QED
      BY <3>3, <3>4
  <2>3. CASE outcome \notin {"NOT_PLACED", "OPEN"}
    <3>1. outcome \in GradedStatuses /\ b = Grade(book, k, outcome)
      BY <2>3 DEF Rulings
    <3> HIDE DEF b
    <3> QED
      BY <1>1, <2>3, <3>1, GradeEffect
  <2> QED
    BY <2>1, <2>2, <2>3
<1> HIDE DEF b
<1>4. /\ entry \in Rows /\ entry.status = b.row[k].status
      /\ entry.stake = b.row[k].stake /\ entry.profit = b.row[k].profit
  BY <1>3 DEF Books, Rows
<1> HIDE DEF entry
<1>5. /\ d \in Books /\ d.peak = b.peak /\ d.row[k] = entry /\ d.legs = b.legs
      /\ OthersKept(b, d, k)
  BY <1>3, <1>4, AmendEffect
<1> HIDE DEF d
<1>6. BetJournal(d, k)
  BY <1>3, <1>4, <1>5, JournalOfRow
<1> DEFINE c == MarkPeak(d)
<1>7. /\ c \in Books /\ c.row = d.row /\ c.legs = d.legs
      /\ c.available = d.available /\ c.exposure = d.exposure
      /\ c.peak = IF Equity(d) > d.peak THEN Equity(d) ELSE d.peak
  BY <1>5, MarkPeakEffect
<1> HIDE DEF c
<1>8. BetJournal(c, k)
  BY <1>6, <1>7 DEF BetJournal
<1>9. OthersKept(book, c, k)
  BY <1>3, <1>5, <1>7 DEF OthersKept, SameBet
<1>10. c.peak = IF Equity(c) > book.peak THEN Equity(c) ELSE book.peak
  BY <1>3, <1>5, <1>7 DEF Equity
<1> QED
  BY <1>2, <1>7, <1>8, <1>9, <1>10 DEF c

LEMMA RuleStep ==
  ASSUME IInv, TypeOK', NEW k \in Keys, NEW outcome \in Rulings, Rule(k, outcome),
         UNCHANGED pc,
         \A w \in Workers : run'[w].pc = "locked" => run[w].pc = "locked"
  PROVE  IInv' /\ ClosedKept /\ PeakMarked
<1>1. /\ lock = Nobody /\ lock' = Nobody /\ book' = Ruled(k, outcome)
      /\ MayRule(k, outcome)
  BY DEF Rule
<1>2. /\ book' \in Books /\ BetJournal(book', k) /\ OthersKept(book, book', k)
      /\ book'.peak = IF Equity(book') > book.peak THEN Equity(book') ELSE book.peak
  BY <1>1, RuledEffect
<1>3. /\ \A r \in Requests : ~Held(r)'
      /\ \A w \in Workers : run'[w].pc # "locked"
  BY <1>1, ConstantsAssumption DEF IInv, LockInv, Held
<1>4. JournalTellsEveryBet'
  <2> SUFFICES ASSUME NEW j \in Keys, j # k PROVE BetJournal(book', j)
    BY <1>2 DEF JournalTellsEveryBet
  <2>1. SameBet(book, book', j) /\ BetJournal(book, j)
    BY <1>2 DEF OthersKept, IInv, JournalTellsEveryBet
  <2> QED
    BY <2>1, JournalOfSameBet
<1>5. PeakInv' /\ PeakMarked
  BY <1>2, EquityIsInt DEF PeakInv, PeakMarked, IInv, TypeOK
<1>6. ClosedKept
  BY <1>1, <1>2 DEF ClosedKept, OthersKept, SameBet, MayRule, IsOpen,
                    OpenStatuses, ClosedStatuses, GradedStatuses
<1>7. IInv'
  BY <1>1, <1>3, <1>4, <1>5, UnlockedStep
<1> QED
  BY <1>5, <1>6, <1>7

LEMMA SweepLockStep ==
  ASSUME IInv, TypeOK', NEW w \in Workers, SweepLock(w)
  PROVE  IInv' /\ ClosedKept /\ PeakMarked
<1>1. /\ lock = Nobody /\ lock' = w /\ work' = book /\ UNCHANGED <<book, pc>>
      /\ run' = [run EXCEPT ![w] = [run[w] EXCEPT !.pc = "locked",
                                                  !.due = StillDue(w)]]
      /\ run \in [Workers -> Runs] /\ book \in Books
  BY DEF SweepLock, Lock, SetRun, IInv, TypeOK
<1>2. /\ run'[w].pc = "locked" /\ run'[w].due = StillDue(w)
      /\ \A v \in Workers \ {w} : run'[v] = run[v]
  BY <1>1 DEF Runs
<1>3. LockInv'
  BY <1>1, <1>2, ConstantsAssumption DEF IInv, LockInv, Held
<1>4. ReservationInv'
  BY <1>1, ConstantsAssumption DEF ReservationInv
<1>5. StillDue(w) \subseteq Keys
  BY <1>1 DEF StillDue, Runs
<1>6. SweepInv'
  <2> SUFFICES ASSUME NEW k \in StillDue(w)
               PROVE  book.row[k].status = "PENDING" /\ BetJournal(book, k)
    BY <1>1, <1>2 DEF SweepInv, BetJournal
  <2> QED
    BY <1>5 DEF StillDue, IInv, JournalTellsEveryBet
<1>7. JournalTellsEveryBet' /\ PeakInv' /\ ClosedKept
  BY <1>1 DEF IInv, JournalTellsEveryBet, BetJournal, PeakInv, Equity, ClosedKept
<1>8. PeakMarked
  BY <1>1, EquityIsInt DEF PeakMarked, IInv, PeakInv, Equity
<1> QED
  BY <1>3, <1>4, <1>6, <1>7, <1>8 DEF IInv

LEMMA SweepSettleStep ==
  ASSUME IInv, TypeOK', NEW w \in Workers, NEW k \in Keys, SweepSettle(w, k)
  PROVE  IInv' /\ ClosedKept /\ PeakMarked
<1>1. /\ lock = w /\ k \in run[w].due /\ CanClose(work, k)
      /\ work' = Grade(work, k, GradeFor(w, k))
      /\ UNCHANGED <<book, lock, pc, run>>
      /\ work \in Books /\ book \in Books /\ run[w].due \subseteq Keys
  BY DEF SweepSettle, IInv, TypeOK, Runs
<1>2. GradeFor(w, k) \in GradedStatuses
  BY DEF GradeFor, GradedStatuses
<1>3. BetJournal(work, k)
  BY <1>1 DEF IInv, SweepInv
<1>4. work'.peak = work.peak /\ BetJournal(work', k) /\ OthersKept(work, work', k)
  BY <1>1, <1>2, <1>3, GradeEffect DEF CanClose
<1>5. LockInv'
  BY <1>1 DEF IInv, LockInv, Held
<1>6. ReservationInv'
  BY <1>1, ConstantsAssumption DEF ReservationInv
<1>7. SweepInv'
  <2> SUFFICES ASSUME NEW j \in run[w].due, j # k PROVE BetJournal(work', j)
    BY <1>1, <1>4 DEF IInv, SweepInv
  <2>1. SameBet(work, work', j) /\ BetJournal(work, j)
    BY <1>1, <1>4 DEF OthersKept, IInv, SweepInv
  <2> QED
    BY <2>1, JournalOfSameBet
<1>8. JournalTellsEveryBet' /\ PeakInv' /\ ClosedKept
  BY <1>1 DEF IInv, JournalTellsEveryBet, BetJournal, PeakInv, Equity, ClosedKept
<1>9. PeakMarked
  BY <1>1, EquityIsInt DEF PeakMarked, IInv, PeakInv, Equity
<1> QED
  BY <1>5, <1>6, <1>7, <1>8, <1>9 DEF IInv

LEMMA SweepCommitStep ==
  ASSUME IInv, TypeOK', NEW w \in Workers, SweepCommit(w)
  PROVE  IInv' /\ ClosedKept /\ PeakMarked
<1> DEFINE b == MarkPeak(work)
<1>1. /\ lock = w /\ Commit(w, b) /\ UNCHANGED pc
      /\ run' = [run EXCEPT ![w] = Idle]
      /\ work \in Books /\ run \in [Workers -> Runs]
  BY DEF SweepCommit, SetRun, IInv, TypeOK
<1>2. /\ b \in Books /\ b.row = work.row /\ b.legs = work.legs
      /\ b.peak = IF Equity(b) > book.peak THEN Equity(b) ELSE book.peak
  BY <1>1, MarkPeakEffect DEF IInv, SweepInv, Equity
<1> HIDE DEF b
<1>3. \A k \in RowsOf(w) : /\ k \in Keys
                           /\ book.row[k].status \notin ClosedStatuses
                           /\ BetJournal(b, k)
  BY <1>1, <1>2, RowsOfWorker
  DEF IInv, SweepInv, Runs, ClosedStatuses, GradedStatuses, BetJournal
<1>4. \A r \in Requests : ~Held(r)'
  BY <1>1, HolderIsAlone, ConstantsAssumption DEF Held
<1>5. \A v \in Workers : run'[v].pc # "locked"
  BY <1>1, HolderIsAlone DEF Idle
<1> QED
  BY <1>1, <1>2, <1>3, <1>4, <1>5, CommitStep

LEMMA RunStopsStep ==
  ASSUME IInv, TypeOK', NEW w \in Workers, RunStops(w)
  PROVE  IInv' /\ ClosedKept /\ PeakMarked
<1>1. /\ run' = [run EXCEPT ![w] = Idle] /\ UNCHANGED pc
      /\ run \in [Workers -> Runs]
  BY DEF RunStops, SetRun, IInv, TypeOK
<1>2. run'[w].pc # "locked" /\ \A v \in Workers \ {w} : run'[v] = run[v]
  BY <1>1 DEF Idle
<1>3. CASE lock = w
  <2>1. lock' = Nobody /\ UNCHANGED book
    BY <1>3 DEF RunStops, Rollback, Unlock
  <2>2. \A r \in Requests : ~Held(r)'
    BY <1>1, <1>3, HolderIsAlone, ConstantsAssumption DEF Held
  <2>3. \A v \in Workers : run'[v].pc # "locked"
    BY <1>2, <1>3, HolderIsAlone
  <2> QED
    BY <2>1, <2>2, <2>3, RollbackStep
<1>4. CASE lock # w
  <2>1. UNCHANGED <<book, work, lock>> /\ run[w].pc # "locked"
    BY <1>4 DEF RunStops, IInv, LockInv
  <2> QED
    BY <1>1, <1>2, <2>1, QuietStep DEF Held
<1> QED
  BY <1>3, <1>4

----------------------------------------------------------------------------
(***************************************************************************)
(* Types                                                                   *)
(***************************************************************************)
LEMMA IdleType ==
  ASSUME Keys # {}
  PROVE  Idle \in Runs
<1>1. AnyKey \in Keys
  BY DEF AnyKey
<1> QED
  BY <1>1 DEF Idle, Runs, Statements

LEMMA CommitType ==
  ASSUME TypeOK, NEW h, NEW b \in Books, Commit(h, b)
  PROVE  book' \in Books /\ work' \in Books /\ lock' = Nobody
<1>1. book' \in Books
  BY CommittedEffect DEF Commit, TypeOK
<1>2. work' \in Books /\ lock' = Nobody
  BY OpenBookType DEF Commit, Unlock
<1> QED
  BY <1>1, <1>2

LEMMA RollbackType ==
  ASSUME TypeOK, Rollback
  PROVE  book' \in Books /\ work' \in Books /\ lock' = Nobody
BY OpenBookType DEF Rollback, Unlock, TypeOK

LEMMA MarksType ==
  ASSUME TypeOK, NEW r \in Requests, NEW stage \in Stages, Goto(r, stage)
  PROVE  pc' \in [Requests -> Stages]
BY DEF TypeOK, Goto

LEMMA TrailType ==
  ASSUME TypeOK, NEW r \in Requests, NEW event \in Events, TryRecord(r, event)
  PROVE  trail' \in [Requests -> SUBSET Events]
BY DEF TypeOK, TryRecord, Record

LEMMA RunType ==
  ASSUME TypeOK, NEW w \in Workers, NEW state \in Runs, SetRun(w, state)
  PROVE  run' \in [Workers -> Runs]
BY DEF TypeOK, SetRun

\* A resolver's own update writes a row that differs in status and attempts.
LEMMA UpdateType ==
  ASSUME TypeOK, NEW k \in Keys, NEW row \in Rows, UpdatePending(k, row)
  PROVE  book' \in Books /\ work' \in Books
           /\ lock' \in Requests \cup Workers \cup {Nobody}
BY AmendEffect DEF UpdatePending, TypeOK

LEMMA VenueAnswers ==
  ASSUME TypeOK, NEW k \in Keys
  PROVE  VenueSays(k) \in Statements
<1>1. venue[k].state \in VenueStates
  BY DEF TypeOK, Bets
<1> QED
  BY <1>1 DEF VenueSays, VenueStates, Known, Statements, GradedStatuses

LEMMA ExecuteType ==
  ASSUME IInv, NEW r \in Requests, Execute(r)
  PROVE  TypeOK'
<1> DEFINE k == KeyOf[r]
<1>0. TypeOK /\ k \in Keys
  BY KeysOfRequests DEF IInv
<1>1. CASE Claim(r)
  <2>1. pc' \in [Requests -> Stages]
    BY <1>0, <1>1, MarksType DEF Claim, Stages
  <2>2. trail' \in [Requests -> SUBSET Events]
    BY <1>0, <1>1, TrailType DEF Claim, Events, TypeOK
  <2> QED
    BY <1>0, <1>1, <2>1, <2>2 DEF Claim, TypeOK
<1>2. CASE Attempt(r)
  <2>1. pc' \in [Requests -> Stages]
    BY <1>0, <1>2, MarksType DEF Attempt, Stages
  <2>2. trail' \in [Requests -> SUBSET Events]
    BY <1>0, <1>2, TrailType DEF Attempt, TryRecord, Events
  <2> QED
    BY <1>0, <1>2, <2>1, <2>2 DEF Attempt, TypeOK
<1>3. CASE Block(r) \/ BlockAtLock(r)
  <2>1. pc' \in [Requests -> Stages]
    BY <1>0, <1>3, MarksType DEF Block, BlockAtLock, Stages
  <2>2. trail' \in [Requests -> SUBSET Events]
    BY <1>0, <1>3, TrailType DEF Block, BlockAtLock, Events
  <2> QED
    BY <1>0, <1>3, <2>1, <2>2 DEF Block, BlockAtLock, TypeOK
<1>4. CASE LockAndReserve(r)
  <2>1. pc' \in [Requests -> Stages]
    BY <1>0, <1>4, MarksType DEF LockAndReserve, Stages
  <2>2. BetJournal(book, k) /\ book \in Books
    BY <1>0 DEF IInv, JournalTellsEveryBet, TypeOK
  <2>3. work' \in Books
    BY <1>0, <1>4, <2>2, KeysOfRequests, ReserveEffect
    DEF LockAndReserve, Lock, MayReserve
  <2> QED
    BY <1>0, <1>4, <2>1, <2>3 DEF LockAndReserve, Lock, TypeOK
<1>5. CASE Send(r)
  <2>1. pc' \in [Requests -> Stages]
    BY <1>0, <1>5, MarksType DEF Send, Stages
  <2>2. [NoBet EXCEPT !.state = "pending"] \in Bets
    BY DEF NoBet, Bets, VenueStates
  <2>3. venue' \in [Keys -> Bets]
    BY <1>0, <1>5, <2>2 DEF Send, TypeOK
  <2> QED
    BY <1>0, <1>5, <2>1, <2>3 DEF Send, TypeOK
<1>6. CASE NotSent(r) \/ Reject(r) \/ CommitFails(r)
  <2>1. pc' \in [Requests -> Stages]
    BY <1>0, <1>6, MarksType DEF NotSent, Reject, CommitFails, Stages, Outcomes
  <2>2. book' \in Books /\ work' \in Books /\ lock' = Nobody
    BY <1>0, <1>6, RollbackType DEF NotSent, Reject, CommitFails
  <2> QED
    BY <1>0, <1>6, <2>1, <2>2 DEF NotSent, Reject, CommitFails, TypeOK
<1>7. CASE Accept(r)
  <2>1. pc' \in [Requests -> Stages]
    BY <1>0, <1>7, MarksType DEF Accept, Stages, Outcomes
  <2>2. Held(r) /\ venue[k].state \in Known
        /\ venue[k].matched \in Nat /\ venue[k].price \in Nat
    BY <1>0, <1>7 DEF Accept, Held, TypeOK, Bets
  <2>3. Accepted(r, work) \in Books
    BY <2>2, AcceptedEffect
  <2>4. book' \in Books /\ work' \in Books /\ lock' = Nobody
    BY <1>0, <1>7, <2>3, CommitType DEF Accept
  <2> QED
    BY <1>0, <1>7, <2>1, <2>4 DEF Accept, TypeOK
<1>8. CASE TimeOut(r)
  <2>1. pc' \in [Requests -> Stages]
    BY <1>0, <1>8, MarksType DEF TimeOut, Stages, Outcomes
  <2>2. Unconfirmed(r, work) \in Books
    BY <1>8, UnconfirmedEffect DEF TimeOut, Held
  <2>3. book' \in Books /\ work' \in Books /\ lock' = Nobody
    BY <1>0, <1>8, <2>2, CommitType DEF TimeOut
  <2> QED
    BY <1>0, <1>8, <2>1, <2>3 DEF TimeOut, TypeOK
<1>9. CASE Conclude(r)
  <2>1. pc' \in [Requests -> Stages]
    BY <1>0, <1>9, MarksType DEF Conclude, Stages
  <2>2. trail' \in [Requests -> SUBSET Events]
    BY <1>0, <1>9, TrailType DEF Conclude, Events
  <2> QED
    BY <1>0, <1>9, <2>1, <2>2 DEF Conclude, TypeOK
<1>10. CASE Die(r)
  <2>1. pc' \in [Requests -> Stages]
    BY <1>0, <1>10, MarksType DEF Die, Stages
  <2>2. /\ book' \in Books /\ work' \in Books
        /\ lock' \in Requests \cup Workers \cup {Nobody}
    BY <1>0, <1>10, RollbackType DEF Die, TypeOK
  <2> QED
    BY <1>0, <1>10, <2>1, <2>2 DEF Die, TypeOK
<1> QED
  BY <1>1, <1>2, <1>3, <1>4, <1>5, <1>6, <1>7, <1>8, <1>9, <1>10 DEF Execute

LEMMA WorkType ==
  ASSUME IInv, NEW w \in Workers, Work(w)
  PROVE  TypeOK'
<1> DEFINE key == run[w].key
<1>0. /\ TypeOK /\ run[w] \in Runs /\ key \in Keys /\ run[w].attempts \in Nat
      /\ book.row[key] \in Rows
  BY DEF IInv, TypeOK, Runs, Books
<1>1. Idle \in Runs
  BY <1>0, IdleType
<1>2. ASSUME NEW k \in Keys, Poll(w, k) PROVE TypeOK'
  <2>1. book.row[k] \in Rows
    BY <1>0 DEF TypeOK, Books
  <2>2. PICK said \in {"UNAVAILABLE", VenueSays(k)} :
          SetRun(w, [pc |-> "polled", key |-> k,
                     reconcile |-> book.row[k].reconcile,
                     attempts  |-> book.row[k].attempts,
                     said |-> said, due |-> {}])
    BY <1>2 DEF Poll
  <2>3. said \in Statements
    BY <1>0, VenueAnswers DEF Statements
  <2>4. run' \in [Workers -> Runs]
    BY <1>0, <2>1, <2>2, <2>3, RunType DEF Runs, Rows
  <2> QED
    BY <1>0, <1>2, <2>4 DEF Poll, TypeOK
<1>3. CASE PollFailed(w) \/ StillOpen(w)
  <2>1. run' \in [Workers -> Runs]
    BY <1>0, <1>1, <1>3, RunType DEF PollFailed, StillOpen
  <2>2. \A n \in Nat :
          /\ [book.row[key] EXCEPT !.attempts = n] \in Rows
          /\ [book.row[key] EXCEPT !.status = "REQUIRES_MANUAL_INTERVENTION",
                                   !.attempts = n] \in Rows
    BY <1>0 DEF Rows, OpenStatuses
  <2>4. ASSUME NEW n \in Nat, DeadLetter(key, n)
        PROVE  /\ book' \in Books /\ work' \in Books
               /\ lock' \in Requests \cup Workers \cup {Nobody}
    BY <1>0, <2>2, <2>4, UpdateType DEF DeadLetter
  <2>5. ASSUME NEW n \in Nat,
               UpdatePending(key, [book.row[key] EXCEPT !.attempts = n])
        PROVE  /\ book' \in Books /\ work' \in Books
               /\ lock' \in Requests \cup Workers \cup {Nobody}
    BY <1>0, <2>2, <2>5, UpdateType
  <2>3. /\ book' \in Books /\ work' \in Books
        /\ lock' \in Requests \cup Workers \cup {Nobody}
    BY <1>0, <1>3, <2>4, <2>5 DEF PollFailed, StillOpen
  <2> QED
    BY <1>0, <1>3, <2>1, <2>3 DEF PollFailed, StillOpen, TypeOK
<1>4. CASE Resolve(w)
  <2>1. run' \in [Workers -> Runs]
    BY <1>0, <1>1, <1>4, RunType DEF Resolve
  <2>2. book' \in Books
    BY <1>0, <1>4, RuledEffect DEF Resolve, Rule, Finding, Rulings
  <2> QED
    BY <1>0, <1>4, <2>1, <2>2 DEF Resolve, Rule, TypeOK
<1>5. CASE ResolveLater(w) \/ SweepSkip(w)
  <2>1. run' \in [Workers -> Runs]
    BY <1>0, <1>1, <1>5, RunType DEF ResolveLater, SweepSkip
  <2> QED
    BY <1>0, <1>5, <2>1 DEF ResolveLater, SweepSkip, TypeOK
<1>6. CASE Stated(w)
  <2>1. run' \in [Workers -> Runs]
    BY <1>0, <1>6 DEF Stated, SetRun, TypeOK, Runs, Statements, GradedStatuses
  <2> QED
    BY <1>0, <1>6, <2>1 DEF Stated, TypeOK
<1>7. CASE SweepRead(w)
  <2>1. Due(w) \subseteq Keys
    BY DEF Due
  <2>3. [run[w] EXCEPT !.pc = "read", !.due = Due(w)] \in Runs
    BY <1>0, <2>1 DEF Runs
  <2>2. run' \in [Workers -> Runs]
    BY <1>0, <1>1, <1>7, <2>3, RunType DEF SweepRead
  <2> QED
    BY <1>0, <1>7, <2>2 DEF SweepRead, TypeOK
<1>8. CASE SweepLock(w)
  <2>1. StillDue(w) \subseteq Keys
    BY <1>0 DEF StillDue, Runs
  <2>2. run' \in [Workers -> Runs]
    BY <1>0, <1>8, <2>1 DEF SweepLock, SetRun, TypeOK, Runs
  <2> QED
    BY <1>0, <1>8, <2>2 DEF SweepLock, Lock, TypeOK
<1>9. CASE SweepCommit(w)
  <2>1. run' \in [Workers -> Runs]
    BY <1>0, <1>1, <1>9, RunType DEF SweepCommit
  <2>2. MarkPeak(work) \in Books
    BY <1>0, MarkPeakEffect DEF TypeOK
  <2>3. book' \in Books /\ work' \in Books /\ lock' = Nobody
    BY <1>0, <1>9, <2>2, CommitType DEF SweepCommit
  <2> QED
    BY <1>0, <1>9, <2>1, <2>3 DEF SweepCommit, TypeOK
<1>10. CASE RunStops(w)
  <2>1. run' \in [Workers -> Runs]
    BY <1>0, <1>1, <1>10, RunType DEF RunStops
  <2>2. /\ book' \in Books /\ work' \in Books
        /\ lock' \in Requests \cup Workers \cup {Nobody}
    BY <1>0, <1>10, RollbackType DEF RunStops, TypeOK
  <2> QED
    BY <1>0, <1>10, <2>1, <2>2 DEF RunStops, TypeOK
<1>11. ASSUME NEW k \in Keys, SweepSettle(w, k) PROVE TypeOK'
  <2>1. GradeFor(w, k) \in GradedStatuses
    BY DEF GradeFor, GradedStatuses
  <2>2. BetJournal(work, k)
    BY <1>11 DEF SweepSettle, IInv, SweepInv
  <2>3. work' \in Books
    BY <1>0, <1>11, <2>1, <2>2, GradeEffect DEF SweepSettle, CanClose, TypeOK
  <2> QED
    BY <1>0, <1>11, <2>3 DEF SweepSettle, TypeOK
<1> QED
  BY <1>2, <1>3, <1>4, <1>5, <1>6, <1>7, <1>8, <1>9, <1>10, <1>11 DEF Work

LEMMA EnvironmentType ==
  ASSUME IInv, Environment
  PROVE  TypeOK'
<1>0. TypeOK
  BY DEF IInv
<1>1. ASSUME NEW k \in Keys, Strike(k) \/ RefuseOrder(k) \/ GradeBet(k) PROVE TypeOK'
  <2>0. \A state \in VenueStates : [venue[k] EXCEPT !.state = state] \in Bets
    BY <1>0 DEF TypeOK, Bets
  <2>2. ASSUME Strike(k) PROVE venue' \in [Keys -> Bets]
    <3>1. PICK matched \in Fills, price \in Prices :
            venue' = [venue EXCEPT ![k] = [state |-> "struck", matched |-> matched,
                                           price |-> price]]
      BY <2>2 DEF Strike
    <3>2. matched \in Nat /\ price \in Nat
      BY ConstantsAssumption
    <3> QED
      BY <1>0, <3>1, <3>2 DEF TypeOK, Bets, VenueStates, Known
  <2>3. ASSUME RefuseOrder(k) \/ GradeBet(k) PROVE venue' \in [Keys -> Bets]
    <3>1. PICK state \in VenueStates :
            venue' = [venue EXCEPT ![k] = [venue[k] EXCEPT !.state = state]]
      BY <2>3 DEF RefuseOrder, GradeBet, VenueStates, Known
    <3> QED
      BY <1>0, <2>0, <3>1 DEF TypeOK
  <2>1. venue' \in [Keys -> Bets]
    BY <1>1, <2>2, <2>3
  <2> QED
    BY <1>0, <1>1, <2>1 DEF Strike, RefuseOrder, GradeBet, TypeOK
<1>2. ASSUME NEW k \in Keys, ClaimExpires(k) PROVE TypeOK'
  BY <1>0, <1>2 DEF ClaimExpires, TypeOK
<1>3. ASSUME NEW k \in Keys, ManualRuling(k) PROVE TypeOK'
  <2>1. PICK outcome \in Rulings : Rule(k, outcome)
    BY <1>3 DEF ManualRuling, Rulings
  <2>2. book' \in Books
    BY <2>1, RuledEffect DEF Rule
  <2> QED
    BY <1>0, <1>3, <2>1, <2>2 DEF ManualRuling, Rule, TypeOK
<1>4. ASSUME NEW m \in Markets, RecordResult(m) PROVE TypeOK'
  BY <1>0, <1>4 DEF RecordResult, TypeOK
<1> QED
  BY <1>1, <1>2, <1>3, <1>4 DEF Environment

----------------------------------------------------------------------------
(***************************************************************************)
(* The invariant and its theorems                                          *)
(***************************************************************************)
LEMMA InitInv == Init => IInv
<1> SUFFICES ASSUME Init PROVE IInv
  OBVIOUS
<1>1. OpenBook(Opening) \in Books /\ OpenBook(0) \in Books /\ Opening \in Nat
  BY OpenBookType, ConstantsAssumption
<1>2. Idle \in Runs /\ NoBet \in Bets
  BY IdleType, ConstantsAssumption DEF NoBet, Bets, VenueStates
<1>3. TypeOK
  BY <1>1, <1>2 DEF Init, TypeOK, Stages
<1>4. JournalTellsEveryBet
  BY DEF Init, JournalTellsEveryBet, BetJournal, OpenBook, NoRow, OpenStatuses
<1>5. PeakInv
  BY <1>1 DEF Init, PeakInv, Equity, OpenBook
<1>6. LockInv /\ ReservationInv /\ SweepInv
  BY ConstantsAssumption
  DEF Init, LockInv, ReservationInv, SweepInv, Held, Idle
<1> QED
  BY <1>3, <1>4, <1>5, <1>6 DEF IInv

LEMMA ExecuteStep ==
  ASSUME IInv, NEW r \in Requests, Execute(r)
  PROVE  IInv' /\ ClosedKept /\ PeakMarked
<1>0. TypeOK' /\ TypeOK
  BY ExecuteType DEF IInv
<1>1. CASE Claim(r)
  <2>1. PICK stage \in {"done", "claimed"} : pc' = [pc EXCEPT ![r] = stage]
    BY <1>1 DEF Claim, Goto
  <2> QED
    BY <1>0, <1>1, <2>1, OutsideStep DEF Claim, Held
<1>2. CASE Attempt(r)
  BY <1>0, <1>2, OutsideStep DEF Attempt, Goto, Held
<1>3. CASE Block(r) \/ BlockAtLock(r)
  BY <1>0, <1>3, OutsideStep DEF Block, BlockAtLock, Goto, Held
<1>4. CASE LockAndReserve(r)
  BY <1>0, <1>4, LockAndReserveStep
<1>5. CASE Send(r)
  BY <1>0, <1>5, OutsideStep DEF Send, Goto, Held
<1>6. CASE NotSent(r) \/ Reject(r)
  BY <1>0, <1>6, GiveUpStep DEF NotSent, Reject, Goto, Held
<1>7. CASE CommitFails(r)
  BY <1>0, <1>7, GiveUpStep DEF CommitFails, Goto, Held
<1>8. CASE Accept(r)
  <2>1. Held(r) /\ KeyOf[r] \in Keys
    BY <1>8, KeysOfRequests DEF Accept, Held
  <2>2. /\ venue[KeyOf[r]].state \in Known /\ venue[KeyOf[r]].matched \in Nat
        /\ venue[KeyOf[r]].price \in Nat
    BY <1>0, <1>8, <2>1 DEF Accept, TypeOK, Bets
  <2>3. Commit(r, Accepted(r, work)) /\ UNCHANGED run /\ Goto(r, "EXECUTED")
    BY <1>8 DEF Accept
  <2>4. /\ Accepted(r, work) \in Books /\ Accepted(r, work).peak = book.peak
        /\ Equity(Accepted(r, work)) = Equity(book)
        /\ BetJournal(Accepted(r, work), KeyOf[r])
    BY <2>1, <2>2, AcceptedEffect
  <2> QED
    BY <1>0, <2>1, <2>3, <2>4, CommitReservationStep DEF Goto
<1>9. CASE TimeOut(r)
  <2>1. Held(r) /\ Commit(r, Unconfirmed(r, work)) /\ UNCHANGED run
        /\ Goto(r, "EXECUTION_UNKNOWN")
    BY <1>9 DEF TimeOut, Held
  <2>2. /\ Unconfirmed(r, work) \in Books /\ Unconfirmed(r, work).peak = book.peak
        /\ Equity(Unconfirmed(r, work)) = Equity(book)
        /\ BetJournal(Unconfirmed(r, work), KeyOf[r])
    BY <2>1, UnconfirmedEffect
  <2> QED
    BY <1>0, <2>1, <2>2, CommitReservationStep DEF Goto
<1>10. CASE Conclude(r)
  BY <1>0, <1>10, OutsideStep DEF Conclude, Goto, Held, Outcomes
<1>11. CASE Die(r)
  <2>1. CASE lock = r
    <3>1. Held(r)
      BY <2>1 DEF IInv, LockInv
    <3> QED
      BY <1>0, <1>11, <2>1, <3>1, GiveUpStep DEF Die, Goto
  <2>2. CASE lock # r
    <3>1. ~Held(r)
      BY <2>2 DEF IInv, LockInv
    <3> QED
      BY <1>0, <1>11, <2>2, <3>1, OutsideStep DEF Die, Goto
  <2> QED
    BY <2>1, <2>2
<1> QED
  BY <1>1, <1>2, <1>3, <1>4, <1>5, <1>6, <1>7, <1>8, <1>9, <1>10, <1>11 DEF Execute

LEMMA WorkStep ==
  ASSUME IInv, NEW w \in Workers, Work(w)
  PROVE  IInv' /\ ClosedKept /\ PeakMarked
<1> DEFINE key == run[w].key
           row == book.row[key]
<1>0. /\ TypeOK' /\ TypeOK /\ run[w] \in Runs /\ key \in Keys /\ row \in Rows
      /\ run[w].attempts \in Nat /\ run \in [Workers -> Runs]
  BY WorkType DEF IInv, TypeOK, Runs, Books
\* A worker that holds no lock before or after changes nobody's lock.
<1>1. ASSUME NEW state, run[w].pc # "locked", state.pc # "locked", SetRun(w, state)
      PROVE  \A v \in Workers :
               /\ run'[v].pc = "locked" <=> run[v].pc = "locked"
               /\ run[v].pc = "locked" => run'[v].due = run[v].due
  BY <1>0, <1>1 DEF SetRun
<1>2. Idle.pc # "locked"
  BY DEF Idle
<1>3. ASSUME NEW k \in Keys, Poll(w, k) PROVE IInv' /\ ClosedKept /\ PeakMarked
  <2>1. PICK said :
          SetRun(w, [pc |-> "polled", key |-> k,
                     reconcile |-> book.row[k].reconcile,
                     attempts  |-> book.row[k].attempts,
                     said |-> said, due |-> {}])
    BY <1>3 DEF Poll
  <2>2. run[w].pc # "locked" /\ UNCHANGED <<book, work, lock, pc>>
    BY <1>3 DEF Poll
  <2> QED
    BY <1>0, <1>1, <2>1, <2>2, QuietStep DEF Held
<1>4. CASE PollFailed(w) \/ StillOpen(w)
  <2>1. /\ run[w].pc # "locked" /\ SetRun(w, Idle) /\ UNCHANGED pc
    BY <1>4 DEF PollFailed, StillOpen, Polled
  <2>2. \A n \in Nat :
          LET retried == [row EXCEPT !.attempts = n]
              dead == [row EXCEPT !.status = "REQUIRES_MANUAL_INTERVENTION",
                                  !.attempts = n]
          IN  /\ retried \in Rows /\ dead \in Rows
              /\ retried.status = row.status /\ dead.status \in OpenStatuses
              /\ retried.stake = row.stake /\ retried.profit = row.profit
              /\ dead.stake = row.stake /\ dead.profit = row.profit
    BY <1>0 DEF Rows, OpenStatuses
  <2>3. ASSUME NEW n \in Nat, DeadLetter(key, n)
        PROVE  IInv' /\ ClosedKept /\ PeakMarked
    BY <1>0, <1>1, <1>2, <2>1, <2>2, <2>3, UpdateStep DEF DeadLetter
  <2>4. ASSUME NEW n \in Nat, UpdatePending(key, [row EXCEPT !.attempts = n])
        PROVE  IInv' /\ ClosedKept /\ PeakMarked
    <3>1. CASE row.status = "PENDING"
      BY <1>0, <1>1, <1>2, <2>1, <2>2, <2>4, <3>1, UpdateStep DEF OpenStatuses
    <3>2. CASE row.status # "PENDING"
      <4>1. UNCHANGED <<book, work, lock>>
        BY <2>4, <3>2 DEF UpdatePending
      <4> QED
        BY <1>0, <1>1, <1>2, <2>1, <4>1, QuietStep DEF Held
    <3> QED
      BY <3>1, <3>2
  <2> QED
    BY <1>0, <1>4, <2>3, <2>4 DEF PollFailed, StillOpen
<1>5. CASE Resolve(w)
  <2>1. /\ run[w].pc # "locked" /\ SetRun(w, Idle) /\ UNCHANGED pc
        /\ Rule(key, Finding(w)) /\ Finding(w) \in Rulings
    BY <1>5 DEF Resolve, Polled, Finding, Rulings
  <2>2. \A v \in Workers : run'[v].pc = "locked" => run[v].pc = "locked"
    BY <1>1, <1>2, <2>1
  <2> QED
    BY <1>0, <2>1, <2>2, RuleStep
<1>6. CASE ResolveLater(w) \/ SweepSkip(w)
  <2>1. /\ run[w].pc # "locked" /\ SetRun(w, Idle)
        /\ UNCHANGED <<book, work, lock, pc>>
    BY <1>6 DEF ResolveLater, SweepSkip, Polled
  <2> QED
    BY <1>0, <1>1, <1>2, <2>1, QuietStep DEF Held
<1>7. CASE Stated(w)
  <2> DEFINE state == [run[w] EXCEPT !.pc = "graded",
                         !.said = IF @ = "REJECTED" THEN "VOID" ELSE @]
  <2>1. /\ run[w].pc # "locked" /\ SetRun(w, state)
        /\ UNCHANGED <<book, work, lock, pc>>
    BY <1>7 DEF Stated, Polled
  <2>2. state.pc # "locked"
    BY <1>0 DEF Runs
  <2> HIDE DEF state
  <2> QED
    BY <1>0, <1>1, <2>1, <2>2, QuietStep DEF Held
<1>8. CASE SweepRead(w)
  <2> DEFINE state == [run[w] EXCEPT !.pc = "read", !.due = Due(w)]
  <2>1. /\ run[w].pc # "locked" /\ UNCHANGED <<book, work, lock, pc>>
        /\ SetRun(w, Idle) \/ SetRun(w, state)
    BY <1>8 DEF SweepRead, SweepStarts
  <2>2. state.pc # "locked"
    BY <1>0 DEF Runs
  <2> HIDE DEF state
  <2> QED
    BY <1>0, <1>1, <1>2, <2>1, <2>2, QuietStep DEF Held
<1>9. CASE SweepLock(w)
  BY <1>0, <1>9, SweepLockStep
<1>10. CASE SweepCommit(w)
  BY <1>0, <1>10, SweepCommitStep
<1>11. CASE RunStops(w)
  BY <1>0, <1>11, RunStopsStep
<1>12. ASSUME NEW k \in Keys, SweepSettle(w, k)
       PROVE  IInv' /\ ClosedKept /\ PeakMarked
  BY <1>0, <1>12, SweepSettleStep
<1> QED
  BY <1>3, <1>4, <1>5, <1>6, <1>7, <1>8, <1>9, <1>10, <1>11, <1>12 DEF Work

LEMMA EnvironmentStep ==
  ASSUME IInv, Environment
  PROVE  IInv' /\ ClosedKept /\ PeakMarked
<1>0. TypeOK'
  BY EnvironmentType
<1>1. ASSUME NEW k \in Keys, ManualRuling(k) PROVE IInv' /\ ClosedKept /\ PeakMarked
  <2>1. PICK outcome \in Rulings : Rule(k, outcome)
    BY <1>1 DEF ManualRuling, Rulings
  <2> QED
    BY <1>0, <1>1, <2>1, RuleStep DEF ManualRuling
<1>2. ASSUME UNCHANGED <<book, work, lock, pc, run>>
      PROVE  IInv' /\ ClosedKept /\ PeakMarked
  BY <1>0, <1>2, QuietStep DEF Held
<1> QED
  BY <1>1, <1>2 DEF Environment, Strike, RefuseOrder, GradeBet, ClaimExpires,
                    RecordResult

LEMMA StutterStep ==
  ASSUME IInv, UNCHANGED vars
  PROVE  IInv' /\ ClosedKept /\ PeakMarked
<1>1. TypeOK'
  BY DEF IInv, TypeOK, vars
<1> QED
  BY <1>1, QuietStep DEF Held, vars

\* Every step keeps the invariant, every closed bet and the peak.
LEMMA NextStep ==
  IInv /\ [Next]_vars => IInv' /\ ClosedKept /\ PeakMarked
BY ExecuteStep, WorkStep, EnvironmentStep, StutterStep DEF Next

\* Every reachable state satisfies the strengthened invariant: one lock holder,
\* whose uncommitted book is the committed one with only its own rows changed.
THEOREM Invariant == Spec => []IInv
BY InitInv, NextStep, PTL DEF Spec

\* Every variable of the execution protocol keeps its type: in particular the
\* bankroll's balances never go below zero (the code's raise in _post).
THEOREM TypeCorrect == Spec => []TypeOK
<1>1. IInv => TypeOK
  BY DEF IInv
<1> QED
  BY <1>1, Invariant, PTL

\* For every number of requests, orders, resolvers and sweeps, each bet's legs
\* tell its story: the stake out once, back once or booked once, and audited
\* as booked.
THEOREM JournalCorrect == Spec => []JournalTellsEveryBet
<1>1. IInv => JournalTellsEveryBet
  BY DEF IInv
<1> QED
  BY <1>1, Invariant, PTL

\* A bet that is closed stays as it was closed, whoever acts on a stale read.
THEOREM ClosedForever == Spec => ClosedIsFinal
<1>1. IInv /\ [Next]_vars =>
        [\A k \in Keys : book.row[k].status \in ClosedStatuses =>
           book'.row[k] = book.row[k] /\ book'.legs[k] = book.legs[k]]_vars
  BY NextStep DEF ClosedKept
<1> QED
  BY <1>1, Invariant, PTL DEF Spec, ClosedIsFinal

\* The peak is the high-water mark of committed equity, at every transaction.
THEOREM PeakCorrect == Spec => PeakIsHighWaterMark
<1>1. IInv /\ [Next]_vars =>
        [book'.peak =
           IF Equity(book') > book.peak THEN Equity(book') ELSE book.peak]_vars
  BY NextStep DEF PeakMarked
<1> QED
  BY <1>1, Invariant, PTL DEF Spec, PeakIsHighWaterMark

-----------------------------------------------------------------------------
(***************************************************************************)
(* The amounts that are sums: the balances the journal explains and the    *)
(* stakes the market cap limits. Both the committed book and the lock      *)
(* holder's are explained by their own legs, and outside the holder's rows *)
(* the two agree (BalanceInv): that is why a commit, which takes the       *)
(* balances of one and the other rows of the other, is explained again.    *)
(***************************************************************************)

\* What order k's legs took from the two balances.
Out(b) == [k \in Keys |-> b.legs[k].available]
Inside(b) == [k \in Keys |-> b.legs[k].exposure]

\* The journal explains the two balances of a book.
Explained(b) ==
  /\ b.exposure = SumFunctionOnSet(Inside(b), Keys)
  /\ b.available = Opening + SumFunctionOnSet(Out(b), Keys)

\* Between two books, the balances moved by what the legs of order k moved by.
Posted(b, c, k) ==
  /\ c.available - b.available = c.legs[k].available - b.legs[k].available
  /\ c.exposure - b.exposure = c.legs[k].exposure - b.legs[k].exposure
  /\ \A j \in Keys \ {k} : c.legs[j] = b.legs[j]

\* Two books of the same balances and legs.
SameMoneyIn(b, c) ==
  /\ c.available = b.available /\ c.exposure = b.exposure
  /\ \A j \in Keys : c.legs[j] = b.legs[j]

\* The committed book is explained; so is the lock holder's, and they differ in
\* the holder's rows only.
BalanceInv ==
  /\ Explained(book)
  /\ \A h \in Requests \cup Workers : lock = h =>
       /\ Explained(work)
       /\ \A k \in Keys \ RowsOf(h) : work.legs[k] = book.legs[k]

----------------------------------------------------------------------------
LEMMA LegsAreInts ==
  ASSUME NEW b \in Books
  PROVE  /\ b.available \in Nat /\ b.exposure \in Nat
         /\ \A k \in Keys : /\ b.legs[k].available \in Int
                            /\ b.legs[k].exposure \in Int
                            /\ Out(b)[k] = b.legs[k].available
                            /\ Inside(b)[k] = b.legs[k].exposure
BY DEF Books, Legs, Out, Inside

LEMMA SameMoneyExplained ==
  ASSUME NEW b \in Books, NEW c \in Books, SameMoneyIn(b, c), Explained(b)
  PROVE  Explained(c)
<1>1. Inside(c) = Inside(b) /\ Out(c) = Out(b)
  BY DEF SameMoneyIn, Inside, Out
<1> QED
  BY <1>1 DEF Explained, SameMoneyIn

LEMMA PostedExplained ==
  ASSUME NEW b \in Books, NEW c \in Books, NEW k \in Keys, Posted(b, c, k),
         Explained(b)
  PROVE  Explained(c)
<1>0. IsFiniteSet(Keys) /\ Opening \in Nat
  BY ConstantsAssumption
<1>1. /\ \A j \in Keys : Out(b)[j] \in Int /\ Out(c)[j] \in Int
      /\ \A j \in Keys \ {k} : Out(c)[j] = Out(b)[j]
      /\ \A j \in Keys : Inside(b)[j] \in Int /\ Inside(c)[j] \in Int
      /\ \A j \in Keys \ {k} : Inside(c)[j] = Inside(b)[j]
  BY LegsAreInts DEF Posted
<1>2. SumFunctionOnSet(Out(c), Keys)
        = SumFunctionOnSet(Out(b), Keys) - Out(b)[k] + Out(c)[k]
  BY <1>0, <1>1, SumChange
<1>3. SumFunctionOnSet(Inside(c), Keys)
        = SumFunctionOnSet(Inside(b), Keys) - Inside(b)[k] + Inside(c)[k]
  BY <1>0, <1>1, SumChange
<1>4. SumFunctionOnSet(Out(b), Keys) \in Int /\ SumFunctionOnSet(Inside(b), Keys) \in Int
  BY <1>0, <1>1, SumType
<1>5. /\ c.available - b.available = Out(c)[k] - Out(b)[k]
      /\ c.exposure - b.exposure = Inside(c)[k] - Inside(b)[k]
  BY LegsAreInts DEF Posted
<1>6. /\ b.available \in Nat /\ b.exposure \in Nat
      /\ c.available \in Nat /\ c.exposure \in Nat
  BY LegsAreInts
<1> QED
  BY <1>0, <1>1, <1>2, <1>3, <1>4, <1>5, <1>6 DEF Explained

LEMMA PostPosts ==
  ASSUME NEW b \in Books, NEW k \in Keys, NEW a \in Int, NEW e \in Int,
         NEW row, NEW audited
  PROVE  Posted(b, Post(b, k, a, e, row, audited), k)
<1> DEFINE c == Post(b, k, a, e, row, audited)
<1>1. /\ c.available = b.available + a /\ c.exposure = b.exposure + e
      /\ c.legs[k].available = b.legs[k].available + a
      /\ c.legs[k].exposure = b.legs[k].exposure + e
      /\ \A j \in Keys \ {k} : c.legs[j] = b.legs[j]
  BY DEF Post, Books
<1> HIDE DEF c
<1>2. Posted(b, c, k)
  BY <1>1, LegsAreInts DEF Posted
<1> QED
  BY <1>2 DEF c

LEMMA GradePosts ==
  ASSUME NEW b \in Books, NEW k \in Keys, NEW grade
  PROVE  Posted(b, Grade(b, k, grade), k)
<1>1. b.row[k].stake \in Int /\ b.row[k].profit \in Int
  BY DEF Books, Rows
<1>2. /\ b.row[k].stake + b.row[k].profit \in Int /\ 0 \in Int
      /\ -b.row[k].stake \in Int
  BY <1>1
<1>3. Grade(b, k, grade) =
        IF grade = "VOID" THEN Release(b, k, "VOID") ELSE Settle(b, k, grade = "WON")
  BY DEF Grade
<1>4. Posted(b, Release(b, k, "VOID"), k)
  BY <1>1, <1>2, PostPosts DEF Release
<1>5. Posted(b, Settle(b, k, grade = "WON"), k)
  BY <1>1, <1>2, PostPosts DEF Settle
<1> QED
  BY <1>3, <1>4, <1>5

LEMMA RuledPosts ==
  ASSUME book \in Books, NEW k \in Keys, NEW outcome
  PROVE  Posted(book, Ruled(k, outcome), k)
<1> DEFINE b == CASE outcome = "NOT_PLACED" -> Release(book, k, "REJECTED")
                  [] outcome = "OPEN" ->
                       Amend(book, k, [book.row[k] EXCEPT !.status = "PENDING",
                                                          !.attempts = 0,
                                                          !.remote = TRUE])
                  [] OTHER -> Grade(book, k, outcome)
           entry == [b.row[k] EXCEPT !.reconcile = FALSE]
           c == MarkPeak(Amend(b, k, entry))
<1>1. Ruled(k, outcome) = c
  BY DEF Ruled
<1>2. c.available = b.available /\ c.exposure = b.exposure /\ c.legs = b.legs
  BY DEF MarkPeak, Amend
<1>3. Posted(book, b, k)
  <2>1. CASE outcome = "NOT_PLACED"
    <3>1. book.row[k].stake \in Int /\ -book.row[k].stake \in Int
      BY DEF Books, Rows
    <3>2. b = Release(book, k, "REJECTED")
      BY <2>1
    <3> HIDE DEF b
    <3> QED
      BY <3>1, <3>2, PostPosts DEF Release
  <2>2. CASE outcome = "OPEN"
    <3>1. b.available = book.available /\ b.exposure = book.exposure /\ b.legs = book.legs
      BY <2>2 DEF Amend
    <3> HIDE DEF b
    <3> QED
      BY <3>1, LegsAreInts DEF Posted
  <2>3. CASE outcome \notin {"NOT_PLACED", "OPEN"}
    <3>1. b = Grade(book, k, outcome)
      BY <2>3
    <3> HIDE DEF b
    <3> QED
      BY <3>1, GradePosts
  <2> QED
    BY <2>1, <2>2, <2>3
<1> HIDE DEF b, c
<1> QED
  BY <1>1, <1>2, <1>3 DEF Posted

LEMMA AcceptedPosts ==
  ASSUME IInv, NEW r \in Requests, Held(r), venue[KeyOf[r]].matched \in Nat
  PROVE  Posted(work, Accepted(r, work), KeyOf[r])
<1> DEFINE k == KeyOf[r]
           bet == venue[k]
           row == [work.row[k] EXCEPT !.remote = TRUE,
                                      !.profit = Profit(Stake[k], bet.price)]
           shot == Amend(work, k, row)
<1>1. /\ k \in Keys /\ work \in Books /\ work.row \in [Keys -> Rows]
      /\ work.row[k].stake \in Nat
  BY HeldFacts DEF Books, Rows
<1>2. /\ shot.available = work.available /\ shot.exposure = work.exposure
      /\ shot.legs = work.legs /\ shot.row[k].stake = work.row[k].stake
  BY <1>1 DEF Amend, Rows
<1>3. Posted(work, shot, k)
  <2> HIDE DEF shot, k
  <2> QED
    BY <1>1, <1>2, LegsAreInts DEF Posted
<1>4. ASSUME NEW profit
      PROVE  Posted(work, ReduceToFill(shot, k, bet.matched, profit), k)
  <2> DEFINE a == shot.row[k].stake - bet.matched
             c == ReduceToFill(shot, k, bet.matched, profit)
  <2>1. a \in Int
    BY <1>1, <1>2
  <2>2. /\ c.available = work.available + a /\ c.exposure = work.exposure + (-a)
        /\ c.legs = [work.legs EXCEPT ![k] =
                       [available |-> work.legs[k].available + a,
                        exposure  |-> work.legs[k].exposure + (-a),
                        pnl       |-> work.legs[k].pnl - a - (-a),
                        audited   |-> work.legs[k].audited + 0]]
    <3> HIDE DEF bet, k
    <3> QED
      BY <1>2 DEF ReduceToFill, Post
  <2>3. /\ c.legs[k].available = work.legs[k].available + a
        /\ c.legs[k].exposure = work.legs[k].exposure + (-a)
        /\ \A j \in Keys \ {k} : c.legs[j] = work.legs[j]
    <3> HIDE DEF c, a, k
    <3> QED
      BY <1>1, <2>2 DEF Books
  <2> HIDE DEF c, a, k
  <2>4. Posted(work, c, k)
    BY <1>1, <2>1, <2>2, <2>3, LegsAreInts DEF Posted
  <2> QED
    BY <2>4 DEF c
<1>5. Accepted(r, work) = IF bet.matched < Stake[k]
                          THEN ReduceToFill(shot, k, bet.matched, Profit(bet.matched, bet.price))
                          ELSE shot
  BY DEF Accepted
<1> HIDE DEF shot
<1> QED
  BY <1>3, <1>4, <1>5
----------------------------------------------------------------------------
(***************************************************************************)
(* Each kind of step keeps the balances explained                          *)
(***************************************************************************)
\* The committed book keeps its money, and the lock holder its rows.
LEMMA KeptMoney ==
  ASSUME IInv, IInv', BalanceInv, UNCHANGED <<work, lock>>,
         SameMoneyIn(book, book'),
         \A w \in Workers : lock = w => run'[w].due = run[w].due
  PROVE  BalanceInv'
<1>1. book \in Books /\ book' \in Books
  BY DEF IInv, TypeOK
<1>2. Explained(book')
  BY <1>1, SameMoneyExplained DEF BalanceInv
<1>3. ASSUME NEW h \in Requests \cup Workers, lock' = h
      PROVE  /\ Explained(work')
             /\ \A k \in Keys \ RowsOf(h)' : work'.legs[k] = book'.legs[k]
  <2>1. RowsOf(h)' = RowsOf(h)
    BY <1>3, ConstantsAssumption DEF RowsOf
  <2>2. Explained(work) /\ \A k \in Keys \ RowsOf(h) : work.legs[k] = book.legs[k]
    BY <1>3 DEF BalanceInv
  <2> QED
    BY <2>1, <2>2 DEF SameMoneyIn
<1> QED
  BY <1>2, <1>3 DEF BalanceInv

\* No one holds the lock after the step.
LEMMA UnlockedMoney ==
  ASSUME Explained(book'), lock' = Nobody
  PROVE  BalanceInv'
BY ConstantsAssumption DEF BalanceInv

LEMMA RolledBackMoney ==
  ASSUME BalanceInv, Rollback
  PROVE  BalanceInv'
<1>1. Explained(book') /\ lock' = Nobody
  BY DEF Rollback, Unlock, BalanceInv, Explained, Inside, Out
<1> QED
  BY <1>1, UnlockedMoney

\* The holder commits its uncommitted book, or that book with its own rows moved.
LEMMA CommittedMoney ==
  ASSUME IInv, BalanceInv, NEW h \in Requests \cup Workers, lock = h,
         NEW b \in Books, Commit(h, b),
         SameMoneyIn(work, b) \/ \E k \in RowsOf(h) \cap Keys : Posted(work, b, k)
  PROVE  BalanceInv'
<1>1. /\ work \in Books /\ book \in Books /\ Explained(work)
      /\ \A k \in Keys \ RowsOf(h) : work.legs[k] = book.legs[k]
      /\ book' = Committed(h, b) /\ lock' = Nobody
  BY DEF IInv, TypeOK, BalanceInv, Commit, Unlock
<1>2. Explained(b)
  BY <1>1, SameMoneyExplained, PostedExplained
<1>3. \A k \in Keys \ RowsOf(h) : b.legs[k] = book.legs[k]
  BY <1>1 DEF SameMoneyIn, Posted
<1>4. book' \in Books /\ SameMoneyIn(b, book')
  BY <1>1, <1>3, CommittedEffect DEF SameMoneyIn, SameBet
<1>5. Explained(book')
  BY <1>2, <1>4, SameMoneyExplained
<1> QED
  BY <1>1, <1>5, UnlockedMoney

LEMMA RuledMoney ==
  ASSUME IInv, IInv', BalanceInv, NEW k \in Keys, NEW outcome, Rule(k, outcome)
  PROVE  BalanceInv'
<1>1. /\ book \in Books /\ book' \in Books /\ lock' = Nobody /\ Explained(book)
      /\ book' = Ruled(k, outcome)
  BY DEF Rule, IInv, TypeOK, BalanceInv
<1>2. Explained(book')
  BY <1>1, RuledPosts, PostedExplained
<1> QED
  BY <1>1, <1>2, UnlockedMoney

LEMMA UpdatedMoney ==
  ASSUME IInv, IInv', BalanceInv, NEW k \in Keys, NEW row, UpdatePending(k, row),
         NEW w \in Workers, run[w].pc # "locked", NEW state, SetRun(w, state)
  PROVE  BalanceInv'
<1>1. SameMoneyIn(book, book')
  BY DEF UpdatePending, Amend, SameMoneyIn
<1>2. \A v \in Workers : lock = v => run'[v].due = run[v].due
  BY DEF SetRun, IInv, TypeOK, LockInv
<1> QED
  BY <1>1, <1>2, KeptMoney DEF UpdatePending

LEMMA ReservedMoney ==
  ASSUME IInv, IInv', BalanceInv, NEW r \in Requests, LockAndReserve(r)
  PROVE  BalanceInv'
<1> DEFINE k == KeyOf[r]
           profit == Profit(Stake[k], AskedPrice)
<1>1. /\ k \in Keys /\ Stake[k] \in Int /\ -Stake[k] \in Int
      /\ RowsOf(r) = {k}
      /\ book \in Books /\ work' \in Books /\ UNCHANGED book /\ lock' = r
      /\ work' = Reserve(book, k, Stake[k], profit)
      /\ Explained(book)
  BY KeysOfRequests DEF LockAndReserve, Lock, IInv, TypeOK, BalanceInv
<1>2. Posted(book, work', k)
  <2> HIDE DEF k, profit
  <2> QED
    BY <1>1, PostPosts DEF Reserve
<1>3. Explained(work') /\ \A j \in Keys \ {k} : work'.legs[j] = book.legs[j]
  BY <1>1, <1>2, PostedExplained DEF Posted
<1>4. Explained(book')
  BY <1>1
<1>5. ASSUME NEW h \in Requests \cup Workers, lock' = h
      PROVE  /\ Explained(work')
             /\ \A j \in Keys \ RowsOf(h)' : work'.legs[j] = book'.legs[j]
  <2>1. h = r /\ RowsOf(h)' = {k}
    BY <1>1, <1>5 DEF RowsOf
  <2> QED
    BY <1>1, <1>3, <2>1
<1> QED
  BY <1>4, <1>5 DEF BalanceInv

LEMMA SweepLockedMoney ==
  ASSUME BalanceInv, NEW w \in Workers, SweepLock(w)
  PROVE  BalanceInv'
BY DEF SweepLock, Lock, BalanceInv, Explained, Inside, Out

LEMMA SettledMoney ==
  ASSUME IInv, IInv', BalanceInv, NEW w \in Workers, NEW k \in Keys, SweepSettle(w, k)
  PROVE  BalanceInv'
<1>1. /\ lock = w /\ lock' = w /\ k \in run[w].due /\ UNCHANGED <<book, run>>
      /\ work' = Grade(work, k, GradeFor(w, k))
      /\ work \in Books /\ work' \in Books
      /\ Explained(book) /\ Explained(work)
      /\ \A j \in Keys \ RowsOf(w) : work.legs[j] = book.legs[j]
  BY DEF SweepSettle, IInv, TypeOK, BalanceInv
<1>2. Posted(work, work', k)
  BY <1>1, GradePosts
<1>3. Explained(work') /\ \A j \in Keys \ RowsOf(w) : work'.legs[j] = book.legs[j]
  BY <1>1, <1>2, PostedExplained, RowsOfWorker DEF Posted
<1>4. RowsOf(w)' = RowsOf(w)
  BY <1>1 DEF RowsOf
<1>5. Explained(book')
  BY <1>1
<1> QED
  BY <1>1, <1>3, <1>4, <1>5 DEF BalanceInv

----------------------------------------------------------------------------
LEMMA ExecuteMoney ==
  ASSUME IInv, IInv', BalanceInv, NEW r \in Requests, Execute(r)
  PROVE  BalanceInv'
<1>1. CASE LockAndReserve(r)
  BY <1>1, ReservedMoney
<1>2. CASE Accept(r)
  <2>1. /\ Held(r) /\ venue[KeyOf[r]].matched \in Nat /\ venue[KeyOf[r]].price \in Nat
        /\ venue[KeyOf[r]].state \in Known
        /\ Commit(r, Accepted(r, work))
    BY <1>2, KeysOfRequests DEF Accept, Held, IInv, TypeOK, Bets
  <2>2. lock = r /\ KeyOf[r] \in RowsOf(r) \cap Keys
    BY <2>1, HeldFacts
  <2>3. Accepted(r, work) \in Books
    BY <2>1, AcceptedEffect
  <2> QED
    BY <2>1, <2>2, <2>3, AcceptedPosts, CommittedMoney
<1>3. CASE TimeOut(r)
  <2>1. Held(r) /\ Commit(r, Unconfirmed(r, work))
    BY <1>3 DEF TimeOut, Held
  <2>2. lock = r
    BY <2>1, HeldFacts
  <2>3. Unconfirmed(r, work) \in Books
    BY <2>1, UnconfirmedEffect
  <2>4. SameMoneyIn(work, Unconfirmed(r, work))
    BY DEF SameMoneyIn, Unconfirmed, Amend
  <2> QED
    BY <2>1, <2>2, <2>3, <2>4, CommittedMoney
<1>4. CASE NotSent(r) \/ Reject(r) \/ CommitFails(r) \/ (Die(r) /\ lock = r)
  BY <1>4, RolledBackMoney DEF NotSent, Reject, CommitFails, Die
<1>5. CASE UNCHANGED <<book, work, lock, run>>
  BY <1>5, KeptMoney DEF SameMoneyIn
<1> QED
  BY <1>1, <1>2, <1>3, <1>4, <1>5 DEF Execute, Claim, Attempt, Block,
     BlockAtLock, Send, Conclude, Die

LEMMA WorkMoney ==
  ASSUME IInv, IInv', BalanceInv, NEW w \in Workers, Work(w)
  PROVE  BalanceInv'
<1>0. /\ run[w].key \in Keys /\ run \in [Workers -> Runs]
      /\ run[w].pc # "locked" => lock # w
  BY DEF IInv, TypeOK, Runs, LockInv
<1>1. ASSUME run[w].pc # "locked", NEW state, SetRun(w, state),
             UNCHANGED <<book, work, lock>>
      PROVE  BalanceInv'
  <2>1. \A v \in Workers : lock = v => run'[v].due = run[v].due
    BY <1>0, <1>1 DEF SetRun
  <2> QED
    BY <1>1, <2>1, KeptMoney DEF SameMoneyIn
<1>2. ASSUME NEW k \in Keys, Poll(w, k)
      PROVE  BalanceInv'
  BY <1>1, <1>2 DEF Poll
<1>3. CASE PollFailed(w) \/ StillOpen(w)
  BY <1>0, <1>3, UpdatedMoney DEF PollFailed, StillOpen, DeadLetter, Polled
<1>4. CASE Resolve(w)
  BY <1>0, <1>4, RuledMoney DEF Resolve
<1>5. CASE ResolveLater(w) \/ SweepSkip(w) \/ Stated(w)
  BY <1>1, <1>5 DEF ResolveLater, SweepSkip, Stated, Polled
<1>6. CASE SweepRead(w)
  BY <1>1, <1>6 DEF SweepRead, SweepStarts
<1>7. CASE SweepLock(w)
  BY <1>7, SweepLockedMoney
<1>8. CASE SweepCommit(w)
  <2>1. lock = w /\ Commit(w, MarkPeak(work)) /\ work \in Books
    BY <1>8 DEF SweepCommit, IInv, TypeOK
  <2>2. MarkPeak(work) \in Books /\ SameMoneyIn(work, MarkPeak(work))
    BY <2>1, MarkPeakEffect DEF SameMoneyIn
  <2> QED
    BY <2>1, <2>2, CommittedMoney
<1>9. CASE RunStops(w)
  <2>1. CASE lock = w
    BY <1>9, <2>1, RolledBackMoney DEF RunStops
  <2>2. CASE lock # w
    <3>1. run[w].pc # "locked"
      BY <2>2 DEF IInv, LockInv
    <3> QED
      BY <1>1, <1>9, <2>2, <3>1 DEF RunStops
  <2> QED
    BY <2>1, <2>2
<1>10. ASSUME NEW k \in Keys, SweepSettle(w, k)
       PROVE  BalanceInv'
  BY <1>10, SettledMoney
<1> QED
  BY <1>2, <1>3, <1>4, <1>5, <1>6, <1>7, <1>8, <1>9, <1>10 DEF Work

LEMMA EnvironmentMoney ==
  ASSUME IInv, IInv', BalanceInv, Environment
  PROVE  BalanceInv'
<1>1. ASSUME NEW k \in Keys, ManualRuling(k)
      PROVE  BalanceInv'
  BY <1>1, RuledMoney DEF ManualRuling
<1>2. CASE UNCHANGED <<book, work, lock, run>>
  BY <1>2, KeptMoney DEF SameMoneyIn
<1> QED
  BY <1>1, <1>2 DEF Environment, Strike, RefuseOrder, GradeBet, ClaimExpires,
                    RecordResult

LEMMA BalanceStep == IInv /\ BalanceInv /\ [Next]_vars => BalanceInv'
<1> SUFFICES ASSUME IInv, BalanceInv, [Next]_vars
             PROVE  BalanceInv'
  OBVIOUS
<1>0. IInv'
  BY NextStep
<1>1. CASE UNCHANGED vars
  BY <1>0, <1>1, KeptMoney DEF vars, SameMoneyIn
<1> QED
  BY <1>0, <1>1, ExecuteMoney, WorkMoney, EnvironmentMoney DEF Next

LEMMA InitBalance == Init => BalanceInv
<1> SUFFICES ASSUME Init
             PROVE  BalanceInv
  OBVIOUS
<1>1. /\ book.available = Opening /\ book.exposure = 0 /\ lock = Nobody
      /\ \A k \in Keys : Inside(book)[k] = 0 /\ Out(book)[k] = 0
  BY DEF Init, OpenBook, NoLegs, Inside, Out
<1>2. IsFiniteSet(Keys) /\ Opening \in Nat
  BY ConstantsAssumption
<1>3. SumFunctionOnSet(Inside(book), {}) = 0 /\ SumFunctionOnSet(Out(book), {}) = 0
  BY SumEmpty
<1>4. SumFunctionOnSet(Inside(book), Keys) = 0
  BY <1>1, <1>2, <1>3, SumSupport
<1>5. SumFunctionOnSet(Out(book), Keys) = 0
  BY <1>1, <1>2, <1>3, SumSupport
<1>6. Explained(book)
  BY <1>1, <1>2, <1>4, <1>5 DEF Explained
<1> QED
  BY <1>1, <1>6, ConstantsAssumption DEF BalanceInv

LEMMA ExplainedBalances == IInv /\ BalanceInv => LedgerExplainsBalances
<1> SUFFICES ASSUME IInv, BalanceInv
             PROVE  LedgerExplainsBalances
  OBVIOUS
<1> DEFINE Open == {k \in Keys : IsOpen(book, k)}
<1>1. /\ IsFiniteSet(Keys) /\ Open \in SUBSET Keys /\ IsFiniteSet(Open)
  BY ConstantsAssumption, FS_Subset
<1>2. book \in Books /\ \A k \in Keys : BetJournal(book, k)
  BY DEF IInv, TypeOK, JournalTellsEveryBet
<1>3. ASSUME NEW k \in Keys \ Open
      PROVE  Inside(book)[k] = 0
  <2>1. /\ BetJournal(book, k) /\ book.row[k] \in Rows
        /\ book.row[k].status \notin OpenStatuses
    BY <1>2 DEF IsOpen, Books
  <2>2. book.row[k].status \in {"NONE", "REJECTED", "VOID", "WON", "LOST"}
    BY <2>1 DEF Rows, ClosedStatuses, GradedStatuses
  <2>3. book.legs[k].exposure = 0
    BY <2>1, <2>2 DEF BetJournal, NoLegs
  <2> QED
    BY <2>3 DEF Inside
<1>4. ASSUME NEW k \in Open
      PROVE  Inside(book)[k] \in Int /\ Stakes(book)[k] = Inside(book)[k]
  <2>0. k \in Keys /\ book.row[k].status \in OpenStatuses /\ BetJournal(book, k)
    BY <1>2 DEF IsOpen
  <2>1. book.legs[k].exposure = book.row[k].stake /\ k \in Keys
    <3> HIDE DEF Open
    <3> QED
      BY <2>0 DEF BetJournal
  <2>2. Inside(book)[k] \in Int /\ Inside(book)[k] = book.legs[k].exposure
    BY <1>2, <2>1, LegsAreInts
  <2> HIDE DEF Open
  <2> QED
    BY <2>1, <2>2 DEF Stakes
<1>5. SumFunctionOnSet(Inside(book), Keys) = SumFunctionOnSet(Inside(book), Open)
  <2> HIDE DEF Open
  <2> QED
    BY <1>1, <1>3, <1>4, SumSupport
<1>6. SumFunctionOnSet(Stakes(book), Open) = SumFunctionOnSet(Inside(book), Open)
  <2> HIDE DEF Open
  <2> QED
    BY <1>1, <1>4, SumSame
<1> QED
  BY <1>5, <1>6 DEF BalanceInv, Explained, LedgerExplainsBalances, Out

\* Exposure is the stakes of the open bets and available the opening balance
\* and every leg booked against it, after any interleaving of executions,
\* sweeps, rulings and crashes.
THEOREM BalancesExplained == Spec => []LedgerExplainsBalances
BY Invariant, InitBalance, BalanceStep, ExplainedBalances, PTL DEF Spec

----------------------------------------------------------------------------
(***************************************************************************)
(* The market cap                                                          *)
(***************************************************************************)
\* The reservation is inside the sum the cap was checked with.
LEMMA ReservedOnMarket ==
  ASSUME IInv, NEW k \in Keys, Stake[k] \in Nat, NEW profit, NEW c,
         c = Reserve(book, k, Stake[k], profit),
         book.row[k].status = "NONE", WithinMarketCap(book, k)
  PROVE  100 * OpenOnMarket(c, k) <= MarketPct * Equity(c)
<1> DEFINE Open == {j \in Keys : MarketOf[j] = MarketOf[k] /\ book.row[j].status = "PENDING"}
<1>0. book \in Books /\ book.row \in [Keys -> Rows] /\ IsFiniteSet(Keys)
  BY ConstantsAssumption DEF IInv, TypeOK, Books
<1>1. /\ c.row[k].status = "PENDING" /\ c.row[k].stake = Stake[k]
      /\ \A j \in Keys \ {k} : c.row[j] = book.row[j]
      /\ c.available = book.available - Stake[k]
      /\ c.exposure = book.exposure + Stake[k]
  BY <1>0 DEF Reserve, Post
<1>2. IsFiniteSet(Open) /\ k \notin Open /\ Open \subseteq Keys
  BY <1>0, FS_Subset
<1>3. {j \in Keys : MarketOf[j] = MarketOf[k] /\ c.row[j].status = "PENDING"}
        = Open \cup {k}
  BY <1>1
<1>4. /\ \A j \in Open : /\ Stakes(book)[j] \in Int
                         /\ Stakes(c)[j] = Stakes(book)[j]
      /\ Stakes(c)[k] = Stake[k]
      /\ \A j \in Open \cup {k} : Stakes(c)[j] \in Int
  <2>1. \A j \in Keys : /\ Stakes(book)[j] = book.row[j].stake
                        /\ Stakes(c)[j] = c.row[j].stake
                        /\ book.row[j].stake \in Int
    BY <1>0 DEF Stakes, Rows
  <2> HIDE DEF Open
  <2>2. \A j \in Open : j \in Keys /\ c.row[j] = book.row[j]
    BY <1>1, <1>2
  <2> QED
    BY <1>1, <2>1, <2>2
<1>5. OpenOnMarket(c, k) = SumFunctionOnSet(Stakes(c), Open \cup {k})
  BY <1>3 DEF OpenOnMarket
<1>6. OpenOnMarket(book, k) = SumFunctionOnSet(Stakes(book), Open)
  BY DEF OpenOnMarket
<1> HIDE DEF Open
<1>7. SumFunctionOnSet(Stakes(c), Open \cup {k}) = Stakes(c)[k] + SumFunctionOnSet(Stakes(c), Open)
  BY <1>2, <1>4, SumAdd
<1>8. SumFunctionOnSet(Stakes(c), Open) = SumFunctionOnSet(Stakes(book), Open)
  BY <1>2, <1>4, SumSame
<1>9. SumFunctionOnSet(Stakes(book), Open) \in Int
  BY <1>2, <1>4, SumType
<1>10. OpenOnMarket(c, k) = OpenOnMarket(book, k) + Stake[k]
  BY <1>4, <1>5, <1>6, <1>7, <1>8, <1>9
<1>11. Equity(c) = Equity(book)
  BY <1>0, <1>1 DEF Equity, Books
<1> QED
  BY <1>10, <1>11 DEF WithinMarketCap

\* A request comes to the lock by its reservation, and then works on nothing else.
LEMMA RequestLocks ==
  ASSUME IInv, [Next]_vars, NEW r \in Requests, lock' = r
  PROVE  LockAndReserve(r) \/ (lock = r /\ UNCHANGED work)
<1>0. r \notin Workers /\ r # Nobody
  BY ConstantsAssumption
<1>1. ASSUME NEW s \in Requests, Execute(s), ~LockAndReserve(s)
      PROVE  UNCHANGED <<work, lock>> \/ lock' = Nobody
  BY <1>1 DEF Execute, Claim, Attempt, Block, BlockAtLock, Send, NotSent, Accept,
         Reject, TimeOut, CommitFails, Conclude, Die, Commit, Rollback, Unlock
<1>2. ASSUME NEW s \in Requests, LockAndReserve(s)
      PROVE  s = r
  BY <1>2 DEF LockAndReserve, Lock
<1>3. ASSUME NEW w \in Workers, Work(w)
      PROVE  UNCHANGED <<work, lock>>
  <2>1. UNCHANGED <<work, lock>> \/ lock' = w \/ lock' = Nobody
    BY <1>3 DEF Work, Poll, PollFailed, StillOpen, Resolve, ResolveLater, Stated,
         SweepRead, SweepLock, SweepSkip, SweepCommit, RunStops, SweepSettle,
         UpdatePending, DeadLetter, Rule, Lock, Commit, Rollback, Unlock
  <2> QED
    BY <1>0, <2>1
<1>4. ASSUME Environment
      PROVE  UNCHANGED <<work, lock>>
  BY <1>4 DEF Environment, Strike, RefuseOrder, GradeBet, ClaimExpires,
              ManualRuling, Rule, RecordResult
<1> QED
  BY <1>0, <1>1, <1>2, <1>3, <1>4 DEF Next, vars

LEMMA CapStep == IInv /\ MarketCapHolds /\ [Next]_vars => MarketCapHolds'
<1> SUFFICES ASSUME IInv, MarketCapHolds, [Next]_vars, NEW r \in Requests, lock' = r
             PROVE  100 * OpenOnMarket(work', KeyOf[r]) <= MarketPct * Equity(work')
  BY DEF MarketCapHolds
<1>1. CASE LockAndReserve(r)
  <2>1. /\ WithinMarketCap(book, KeyOf[r]) /\ book.row[KeyOf[r]].status = "NONE"
        /\ work' = Reserve(book, KeyOf[r], Stake[KeyOf[r]],
                           Profit(Stake[KeyOf[r]], AskedPrice))
    BY <1>1 DEF LockAndReserve, MayReserve, CanReserve, Lock
  <2> QED
    BY <2>1, KeysOfRequests, ReservedOnMarket
<1>2. CASE lock = r /\ UNCHANGED work
  BY <1>2 DEF MarketCapHolds
<1> QED
  BY <1>1, <1>2, RequestLocks

\* At every bookmaker call the fixture's open stakes, this one included, are
\* within their share of equity, whatever passed the unlocked guards together.
THEOREM MarketCapped == Spec => []MarketCapHolds
<1>1. Init => MarketCapHolds
  BY ConstantsAssumption DEF Init, MarketCapHolds
<1> QED
  BY <1>1, Invariant, CapStep, PTL DEF Spec
=============================================================================
