---------------------------- MODULE StreamProofs ----------------------------
(***************************************************************************)
(* Proofs about the services that read a log at least once and move a mark *)
(* behind what they have done: InferenceDaemon and the offset it commits,  *)
(* MirrorSweep and its cursor, Firehose and OpportunityFeed and their      *)
(* acknowledgements.  Nothing is shared by them but the form of the        *)
(* argument: where the mark stands says what has been done, and a reader's *)
(* position says what it has in hand.                                      *)
(***************************************************************************)
EXTENDS InferenceDaemon, MirrorSweep, Firehose, OpportunityFeed,
        FiniteSetTheorems, SequenceTheorems, WellFoundedInduction, TLAPS
-----------------------------------------------------------------------------
(***************************************************************************)
(* Proofs about InferenceDaemon, for any number of members, records,       *)
(* crashes and failed commits, and any size of batch.                      *)
(*                                                                         *)
(* CommittedIsHandled is not inductive: that the offset a member commits   *)
(* is handled follows from where its batch began, and that from where the  *)
(* broker let its owner fetch.  BatchFollows and FetchFollows say that.    *)
(***************************************************************************)

\* The records before offset p were run or dead-lettered.
HandledBefore(p) == 0 .. p - 1 \subseteq handled

\* All the records before the one in hand, and that one when it is to be
\* committed.
BatchFollows(m) ==
  /\ member[m].phase = "handling" => HandledBefore(member[m].next)
  /\ member[m].phase = "committing" => HandledBefore(member[m].next + 1)

\* What the owner will fetch next comes after what is handled, up to the rest
\* of its own batch; a batch kept from an earlier assignment does not matter.
FetchFollows(m) ==
  owner = m =>
    /\ member[m].phase # "down"
    /\ member[m].phase = "polling" => HandledBefore(position)
    /\ member[m].phase \in {"handling", "committing"} =>
         0 .. position - 1 \subseteq handled \cup member[m].next .. member[m].upTo

DmInv ==
  /\ DmTypeOK
  /\ CommittedIsHandled
  /\ \A m \in Members : /\ BatchFollows(m)
                        /\ FetchFollows(m)
                        /\ member[m].next <= member[m].upTo

Places == [phase : {"polling", "handling", "committing", "leaving", "down"},
           stop : BOOLEAN, next : 0..Last, upTo : 0..Last]

\* One member moves to another place, the others stay where they are.
LEMMA OneMoves ==
  ASSUME NEW n \in Members, NEW s \in Places, DmTypeOK,
         member' = [member EXCEPT ![n] = s]
  PROVE  /\ member' \in [Members -> Places]
         /\ member'[n] = s
         /\ \A m \in Members \ {n} : member'[m] = member[m]
  BY DEF DmTypeOK, Places

\* What a member's place, and who owns the partition, make of the two.
LEMMA BatchFollowsAfter ==
  ASSUME NEW n \in Members, NEW s \in Places, DmInv,
         member' = [member EXCEPT ![n] = s], handled \subseteq handled',
         s.phase = "handling" => 0 .. s.next - 1 \subseteq handled',
         s.phase = "committing" => 0 .. s.next \subseteq handled'
  PROVE  \A m \in Members : BatchFollows(m)'
  <1> TAKE m \in Members
  <1>1. CASE m = n
    <2>1. s.next + 1 - 1 = s.next
      BY DaemonAssumption DEF Places, DaemonAssumption
    <2>2. member'[m] = s
      BY <1>1, OneMoves DEF DmInv
    <2>3. s.next \in Int
      BY DaemonAssumption DEF Places, DaemonAssumption
    <2>4. QED  BY <2>1, <2>2, <2>3 DEF BatchFollows, HandledBefore
  <1>2. CASE m # n
    BY <1>2, OneMoves DEF DmInv, BatchFollows, HandledBefore
  <1>3. QED  BY <1>1, <1>2

\* Members that own nothing, and those that stay, need no more than before.
LEMMA FetchFollowsAfter ==
  ASSUME NEW n \in Members, NEW s \in Places, DmInv,
         member' = [member EXCEPT ![n] = s], handled \subseteq handled',
         owner' = owner, owner # n => position' = position,
         owner = n => s.phase # "down",
         owner = n /\ s.phase = "polling" => 0 .. position' - 1 \subseteq handled',
         owner = n /\ s.phase \in {"handling", "committing"} =>
           0 .. position' - 1 \subseteq handled' \cup s.next .. s.upTo
  PROVE  \A m \in Members : FetchFollows(m)'
  <1> TAKE m \in Members
  <1>1. CASE m = n
    BY <1>1, OneMoves DEF DmInv, FetchFollows, HandledBefore
  <1>2. CASE m # n
    BY <1>2, OneMoves DEF DmInv, FetchFollows, HandledBefore
  <1>3. QED  BY <1>1, <1>2

-----------------------------------------------------------------------------
\* The invariant holds at the start.
LEMMA DmInvInit == DmInit => DmInv
  BY DaemonAssumption
  DEF DaemonAssumption, DmInit, DmInv, DmTypeOK, CommittedIsHandled, BatchFollows,
      FetchFollows, HandledBefore, Booted, EmptyHanded

\* The coordinator gives the partition to somebody, at the committed offset.
LEMMA DmInvAssign == ASSUME NEW n \in Members, DmInv, Assign(n) PROVE DmInv'
  BY DaemonAssumption
  DEF DaemonAssumption, Assign, DmInv, DmTypeOK, CommittedIsHandled, BatchFollows,
      FetchFollows, HandledBefore

\* The owner's next batch begins after what is handled.
LEMMA DmInvFetch == ASSUME NEW n \in Members, DmInv, Fetch(n) PROVE DmInv'
  <1> USE DaemonAssumption DEF DaemonAssumption
  <1>1. PICK upTo \in position .. Last :
          /\ position' = upTo + 1
          /\ member' = [member EXCEPT ![n] = [phase |-> "handling", stop |-> FALSE,
                                              next |-> position, upTo |-> upTo]]
    BY DEF Fetch
  <1> DEFINE s == [phase |-> "handling", stop |-> FALSE, next |-> position, upTo |-> upTo]
  <1>2. /\ s \in Places /\ s.phase = "handling" /\ s.next = position /\ s.upTo = upTo
        /\ s.next <= s.upTo
    BY DEF DmInv, DmTypeOK, Places
  <1>3. member' = [member EXCEPT ![n] = s]
    BY <1>1
  <1>4. owner = n /\ 0 .. position - 1 \subseteq handled /\ UNCHANGED <<committed, owner, handled, troubles>>
    BY DEF Fetch, DmInv, FetchFollows, HandledBefore
  <1> HIDE DEF s
  <1>5. 0 .. position' - 1 \subseteq handled' \cup s.next .. s.upTo
    BY <1>1, <1>2, <1>4 DEF DmInv, DmTypeOK
  <1>6. \A m \in Members : BatchFollows(m)' /\ FetchFollows(m)'
    BY <1>2, <1>3, <1>4, <1>5, BatchFollowsAfter, FetchFollowsAfter
  <1>7. \A m \in Members : member'[m].next <= member'[m].upTo
    BY <1>2, <1>3, OneMoves DEF DmInv
  <1>8. DmTypeOK' /\ CommittedIsHandled'
    BY <1>1, <1>2, <1>3, <1>4, OneMoves DEF DmInv, DmTypeOK, CommittedIsHandled, Places
  <1>9. QED  BY <1>6, <1>7, <1>8 DEF DmInv

\* A record is handled.
LEMMA DmInvHandle == ASSUME NEW n \in Members, DmInv, Handle(n) PROVE DmInv'
  <1> USE DaemonAssumption DEF DaemonAssumption
  <1> DEFINE s == [member[n] EXCEPT !.phase = "committing"]
  <1>1. /\ s \in Places /\ s.phase = "committing"
        /\ s.next = member[n].next /\ s.upTo = member[n].upTo
    BY DEF DmInv, DmTypeOK, Places
  <1>2. member' = [member EXCEPT ![n] = s]
    BY DEF Handle
  <1>3. /\ handled' = handled \cup {s.next}
        /\ 0 .. s.next - 1 \subseteq handled
        /\ UNCHANGED <<committed, owner, position, troubles>>
    BY <1>1 DEF Handle, DmInv, BatchFollows, HandledBefore
  <1>4. owner = n => 0 .. position - 1 \subseteq handled \cup s.next .. s.upTo
    BY <1>1 DEF Handle, DmInv, FetchFollows
  <1>5. s.next \in 0..Last /\ s.next <= s.upTo
    BY <1>1 DEF DmInv, Places
  <1> HIDE DEF s
  <1>6. 0 .. s.next \subseteq handled'
    BY <1>3, <1>5
  <1>7. \A m \in Members : BatchFollows(m)' /\ FetchFollows(m)'
    BY <1>1, <1>2, <1>3, <1>4, <1>6, BatchFollowsAfter, FetchFollowsAfter
  <1>8. \A m \in Members : member'[m].next <= member'[m].upTo
    BY <1>1, <1>2, <1>5, OneMoves DEF DmInv
  <1>9. DmTypeOK' /\ CommittedIsHandled'
    BY <1>1, <1>2, <1>3, <1>5, OneMoves DEF DmInv, DmTypeOK, CommittedIsHandled, Places
  <1>10. QED  BY <1>7, <1>8, <1>9 DEF DmInv

\* The offset behind a handled record is committed, or not, and the member goes
\* on with the batch, leaves it, or asks for the next.
LEMMA DmInvCommit == ASSUME NEW n \in Members, DmInv, Commit(n) PROVE DmInv'
  <1> USE DaemonAssumption DEF DaemonAssumption
  <1> DEFINE p == member[n]
             s == Onward(p)
  <1>1. p \in Places /\ p.next <= p.upTo /\ p.phase = "committing"
    BY DEF DmInv, DmTypeOK, Places, Commit
  <1>2. 0 .. p.next \subseteq handled
    BY <1>1 DEF DmInv, BatchFollows, HandledBefore, Places
  <1>3. owner = n => 0 .. position - 1 \subseteq handled \cup p.next .. p.upTo
    BY <1>1 DEF DmInv, FetchFollows
  <1>4. /\ member' = [member EXCEPT ![n] = s]
        /\ UNCHANGED <<owner, position, handled>>
        /\ committed' \in {committed, p.next + 1}
        /\ troubles' \in 0 .. Troubles
    BY DEF Commit, CommitOffset, Trouble, DmInv, DmTypeOK
  <1>5. /\ s \in Places /\ s.next <= s.upTo
        /\ s.phase \in {"polling", "leaving", "handling"}
        /\ s.phase = "polling" => p.next = p.upTo
        /\ s.phase = "handling" => s.next = p.next + 1 /\ s.upTo = p.upTo
    <2>1. CASE p.next = p.upTo
      BY <1>1, <2>1 DEF Onward, Booted, EmptyHanded, Places
    <2>2. CASE p.next # p.upTo /\ p.stop
      <3>1. s = [phase |-> "leaving", stop |-> TRUE, next |-> 0, upTo |-> 0]
        BY <2>2 DEF Onward, EmptyHanded
      <3>2. QED  BY <1>1, <3>1 DEF Places
    <2>3. CASE p.next # p.upTo /\ ~p.stop
      <3>1. s = [p EXCEPT !.phase = "handling", !.next = p.next + 1]
        BY <2>3 DEF Onward
      <3>2. p.next + 1 \in 0 .. Last /\ p.next + 1 <= p.upTo
        BY <1>1, <2>3 DEF Places
      <3>3. QED  BY <1>1, <3>1, <3>2 DEF Places
    <2>4. QED  BY <2>1, <2>2, <2>3
  <1> HIDE DEF s
  <1>6. /\ s.phase = "handling" => 0 .. s.next - 1 \subseteq handled
        /\ owner = n /\ s.phase = "polling" => 0 .. position - 1 \subseteq handled
        /\ owner = n /\ s.phase = "handling" =>
             0 .. position - 1 \subseteq handled \cup s.next .. s.upTo
    BY <1>1, <1>2, <1>3, <1>5 DEF Places
  <1>7. \A m \in Members : BatchFollows(m)' /\ FetchFollows(m)'
    BY <1>4, <1>5, <1>6, BatchFollowsAfter, FetchFollowsAfter
  <1>8. \A m \in Members : member'[m].next <= member'[m].upTo
    BY <1>4, <1>5, OneMoves DEF DmInv
  <1>9. CommittedIsHandled' /\ committed' \in 0 .. Last + 1
    <2>1. p.next \in 0 .. Last /\ p.next + 1 - 1 = p.next
      BY <1>1 DEF Places
    <2>2. 0 .. committed' - 1 \subseteq handled
      BY <1>2, <1>4, <2>1 DEF DmInv, CommittedIsHandled
    <2>3. committed' \in 0 .. Last + 1
      BY <1>4, <2>1 DEF DmInv, DmTypeOK
    <2>4. QED  BY <1>4, <2>2, <2>3 DEF CommittedIsHandled
  <1>10. DmTypeOK'
    BY <1>4, <1>5, <1>9, OneMoves DEF DmInv, DmTypeOK, Places
  <1>11. QED  BY <1>7, <1>8, <1>9, <1>10 DEF DmInv

\* A stop is asked for: the batch stays what it was.
LEMMA DmInvRequestStop == ASSUME NEW n \in Members, DmInv, RequestStop(n) PROVE DmInv'
  <1> USE DaemonAssumption DEF DaemonAssumption
  <1> DEFINE s == [member[n] EXCEPT !.stop = TRUE]
  <1>1. /\ s \in Places /\ s.phase = member[n].phase
        /\ s.next = member[n].next /\ s.upTo = member[n].upTo
    BY DEF DmInv, DmTypeOK, Places
  <1>2. /\ member' = [member EXCEPT ![n] = s] /\ troubles' \in 0 .. Troubles
        /\ UNCHANGED <<committed, owner, position, handled>>
    BY DEF RequestStop, Trouble, DmInv, DmTypeOK
  <1> HIDE DEF s
  <1>3. \A m \in Members : /\ member'[m].phase = member[m].phase
                           /\ member'[m].next = member[m].next
                           /\ member'[m].upTo = member[m].upTo
    BY <1>1, <1>2, OneMoves DEF DmInv
  <1>4. DmTypeOK' /\ CommittedIsHandled'
    BY <1>1, <1>2, OneMoves DEF DmInv, DmTypeOK, CommittedIsHandled, Places
  <1>5. QED  BY <1>2, <1>3, <1>4 DEF DmInv, BatchFollows, FetchFollows, HandledBefore

\* A member that leaves or starts has no batch, and owns nothing.
LEMMA DmInvEmptyHanded ==
  ASSUME NEW n \in Members, NEW s \in Places, DmInv, s.phase \in {"down", "polling"},
         s.next <= s.upTo, owner' # n, owner' \in {owner, "nobody"},
         member' = [member EXCEPT ![n] = s], troubles' \in 0 .. Troubles,
         UNCHANGED <<committed, position, handled>>
  PROVE  DmInv'
  <1>1. \A m \in Members : BatchFollows(m)'
    BY BatchFollowsAfter
  <1>2. ASSUME NEW m \in Members PROVE FetchFollows(m)'
    BY OneMoves, DaemonAssumption
    DEF DaemonAssumption, DmInv, FetchFollows, HandledBefore
  <1>3. \A m \in Members : member'[m].next <= member'[m].upTo
    BY OneMoves DEF DmInv
  <1>4. DmTypeOK' /\ CommittedIsHandled'
    BY OneMoves DEF DmInv, DmTypeOK, CommittedIsHandled, Places
  <1>5. QED  BY <1>1, <1>2, <1>3, <1>4 DEF DmInv

\* A member stops for good, or crashes: the partition is nobody's.
LEMMA DmInvDown ==
  ASSUME NEW n \in Members, DmInv, Shutdown(n) \/ MemberCrash(n) PROVE DmInv'
  <1> DEFINE s == EmptyHanded("down", FALSE)
  <1>1. s \in Places /\ s.phase = "down" /\ s.next <= s.upTo
    BY DaemonAssumption DEF DaemonAssumption, EmptyHanded, Places
  <1>2. /\ member' = [member EXCEPT ![n] = s]
        /\ UNCHANGED <<committed, position, handled>>
        /\ owner' = IF owner = n THEN "nobody" ELSE owner
    BY DEF Shutdown, MemberCrash, Down
  <1>3. troubles' \in 0 .. Troubles
    BY DaemonAssumption DEF DaemonAssumption, Shutdown, MemberCrash, Trouble, DmInv, DmTypeOK
  <1>4. owner' # n /\ owner' \in {owner, "nobody"}
    BY <1>2, DaemonAssumption DEF DaemonAssumption
  <1> HIDE DEF s
  <1>5. QED  BY <1>1, <1>2, <1>3, <1>4, DmInvEmptyHanded

\* It starts again, with nothing in hand.
LEMMA DmInvBoot == ASSUME NEW n \in Members, DmInv, Boot(n) PROVE DmInv'
  <1>1. Booted \in Places /\ Booted.phase = "polling" /\ Booted.next <= Booted.upTo
    BY DaemonAssumption DEF DaemonAssumption, Booted, EmptyHanded, Places
  <1>2. owner # n
    BY DEF Boot, DmInv, FetchFollows
  <1>3. QED  BY <1>1, <1>2, DmInvEmptyHanded DEF Boot, DmInv, DmTypeOK

-----------------------------------------------------------------------------
\* Every reachable state satisfies the invariant.
THEOREM DaemonInvariant == DmSpec => []DmInv
  <1>1. DmInit => DmInv
    BY DmInvInit
  <1>2. DmInv /\ [DmNext]_dmVars => DmInv'
    <2> SUFFICES ASSUME DmInv, [DmNext]_dmVars PROVE DmInv'
      OBVIOUS
    <2>1. CASE UNCHANGED dmVars
      BY <2>1 DEF dmVars, DmInv, DmTypeOK, CommittedIsHandled, BatchFollows, FetchFollows,
                  HandledBefore
    <2>2. CASE DmNext
      BY <2>2, DmInvAssign, DmInvFetch, DmInvHandle, DmInvCommit,
         DmInvRequestStop, DmInvDown, DmInvBoot DEF DmNext
    <2>3. QED  BY <2>1, <2>2
  <1>3. QED  BY <1>1, <1>2, PTL DEF DmSpec

\* Nothing the group's offset is past was left undone, whoever of however many
\* members committed it and whatever crashed, stopped or was reassigned.
THEOREM DaemonCommitsHandled == DmSpec => []CommittedIsHandled
  BY DaemonInvariant, PTL DEF DmInv

\* Type correctness.
THEOREM DaemonTypeCorrect == DmSpec => []DmTypeOK
  BY DaemonInvariant, PTL DEF DmInv

-----------------------------------------------------------------------------
(***************************************************************************)
(* Proofs about MirrorSweep, for any number of rows and sweeps, any page   *)
(* size and any spans that the overlap covers.                             *)
(*                                                                         *)
(* NoFactSkipped is not inductive.  What a sweep adds is that each row     *)
(* committed for certain when it began (Settled) is in the chain, or among *)
(* what it has appended or holds, or still ahead of it; a row committed    *)
(* later is not yet behind the overlap when the sweep moves the cursor.    *)
(***************************************************************************)

-----------------------------------------------------------------------------
(* A finite set with a strict total order has a least element. *)

LEMMA LeastOfOrder ==
  ASSUME NEW S, IsFiniteSet(S), NEW x \in S, NEW R,
         \A p \in S : <<p, p>> \notin R,
         \A p, q, r \in S : <<p, q>> \in R /\ <<q, r>> \in R => <<p, r>> \in R,
         \A p, q \in S : p # q => <<p, q>> \in R \/ <<q, p>> \in R
  PROVE  \E m \in S : \A q \in S \ {m} : <<m, q>> \in R
  <1> DEFINE below(r) == {q \in S : <<q, r>> \in R}
             belows == {below(r) : r \in S}
  <1>1. \A r \in S : below(r) \in FiniteSubsetsOf(S)
    BY FS_Subset DEF FiniteSubsetsOf
  <1>2. belows \subseteq FiniteSubsetsOf(S) /\ belows # {}
    <2> HIDE DEF below
    <2>1. below(x) \in belows
      OBVIOUS
    <2>2. QED  BY <1>1, <2>1
  <1>3. PICK least \in belows :
          \A b \in belows : <<b, least>> \notin StrictSubsetOrdering(S)
    <2> HIDE DEF belows
    <2>1. QED  BY <1>2, FS_StrictSubsetOrderingWellFounded, WFMin
  <1>4. PICK m \in S : \A r \in S : <<below(r), below(m)>> \notin StrictSubsetOrdering(S)
    <2> HIDE DEF below
    <2>1. PICK m \in S : least = below(m)
      OBVIOUS
    <2>2. \A r \in S : below(r) \in belows
      OBVIOUS
    <2>3. QED  BY <1>3, <2>1, <2>2
  <1>5. ASSUME NEW q \in S \ {m}, <<q, m>> \in R PROVE FALSE
    <2>1. below(q) \subseteq below(m) /\ q \in below(m) /\ q \notin below(q)
      BY <1>5
    <2>2. below(q) \in SUBSET S /\ below(m) \in SUBSET S /\ below(q) # below(m)
      BY <2>1
    <2>3. <<below(q), below(m)>> \in StrictSubsetOrdering(S)
      <3> HIDE DEF below
      <3>1. QED  BY <2>1, <2>2 DEF StrictSubsetOrdering
    <2>4. QED  BY <1>4, <2>3
  <1>6. QED  BY <1>5

-----------------------------------------------------------------------------
(* Keyset order, and the page a query with a LIMIT returns. *)

Stamped == stamp \in [Rows -> Nat]

LEMMA BeforeIsOrder ==
  ASSUME Stamped
  PROVE  /\ \A p \in Rows : ~Before(p, p)
         /\ \A p, q, r \in Rows : Before(p, q) /\ Before(q, r) => Before(p, r)
         /\ \A p, q \in Rows : p # q => Before(p, q) \/ Before(q, p)
  BY MirrorAssumption DEF MirrorAssumption, Stamped, Before

LEMMA FirstExists ==
  ASSUME Stamped, NEW S \in SUBSET Rows, NEW x \in S
  PROVE  \E m \in S : \A q \in S \ {m} : Before(m, q)
  <1> DEFINE R == {e \in S \X S : Before(e[1], e[2])}
  <1>1. \A p, q \in S : <<p, q>> \in R <=> Before(p, q)
    OBVIOUS
  <1>2. IsFiniteSet(S)
    BY MirrorAssumption, FS_Subset DEF MirrorAssumption
  <1> HIDE DEF R
  <1>3. \E m \in S : \A q \in S \ {m} : <<m, q>> \in R
    BY <1>1, <1>2, BeforeIsOrder, LeastOfOrder
  <1>4. QED  BY <1>1, <1>3

LEMMA LastOfIs ==
  ASSUME Stamped, NEW S \in SUBSET Rows, S # {}
  PROVE  LastOf(S) \in S /\ \A q \in S \ {LastOf(S)} : Before(q, LastOf(S))
  <1> DEFINE R == {e \in S \X S : Before(e[2], e[1])}
  <1>1. \A p, q \in S : <<p, q>> \in R <=> Before(q, p)
    OBVIOUS
  <1>2. IsFiniteSet(S)
    BY MirrorAssumption, FS_Subset DEF MirrorAssumption
  <1> HIDE DEF R
  <1>3. PICK x \in S : TRUE
    OBVIOUS
  <1>4. \E m \in S : \A q \in S \ {m} : <<m, q>> \in R
    <2>1. \A p \in S : <<p, p>> \notin R
      BY <1>1, BeforeIsOrder
    <2>2. \A p, q, r \in S : <<p, q>> \in R /\ <<q, r>> \in R => <<p, r>> \in R
      BY <1>1, BeforeIsOrder
    <2>3. \A p, q \in S : p # q => <<p, q>> \in R \/ <<q, p>> \in R
      BY <1>1, BeforeIsOrder
    <2>4. QED  BY <1>2, <1>3, <2>1, <2>2, <2>3, LeastOfOrder
  <1>5. \E m \in S : \A q \in S \ {m} : Before(q, m)
    BY <1>1, <1>4
  <1>6. QED  BY <1>5 DEF LastOf

\* A query over rows that are there returns some.
LEMMA PageIsNotEmpty ==
  ASSUME Stamped, NEW rows \in SUBSET Rows, rows # {}
  PROVE  PageOf(rows) # {}
  <1>1. PICK m \in rows : \A q \in rows \ {m} : Before(m, q)
    BY FirstExists
  <1>2. {q \in rows : Before(q, m)} = {}
    BY <1>1, BeforeIsOrder
  <1>3. Cardinality({q \in rows : Before(q, m)}) = 0
    BY <1>2, FS_EmptySet
  <1>4. 0 < Page
    BY MirrorAssumption DEF MirrorAssumption
  <1>5. QED  BY <1>3, <1>4 DEF PageOf

\* What it leaves out comes after what it returns.
LEMMA PageIsPrefix ==
  ASSUME Stamped, NEW rows \in SUBSET Rows,
         NEW b \in PageOf(rows), NEW r \in rows \ PageOf(rows)
  PROVE  Before(b, r)
  <1> DEFINE below(x) == {q \in rows : Before(q, x)}
  <1>1. b \in rows /\ b # r
    BY DEF PageOf
  <1>2. Cardinality(below(b)) < Page /\ ~(Cardinality(below(r)) < Page)
    BY DEF PageOf
  <1>3. \A x \in Rows : IsFiniteSet(below(x)) /\ Cardinality(below(x)) \in Nat
    BY MirrorAssumption, FS_Subset, FS_CardinalityType DEF MirrorAssumption
  <1>4. ASSUME Before(r, b) PROVE FALSE
    <2>1. below(r) \subseteq below(b)
      BY <1>1, <1>4, BeforeIsOrder
    <2>2. below(r) \in SUBSET below(b) /\ IsFiniteSet(below(b))
      BY <1>1, <1>3, <2>1
    <2> HIDE DEF below
    <2>3. Cardinality(below(r)) <= Cardinality(below(b))
      BY <2>2, FS_Subset
    <2>4. r \in Rows /\ b \in Rows
      BY <1>1
    <2>5. QED  BY <1>2, <1>3, <2>3, <2>4, MirrorAssumption DEF MirrorAssumption
  <1>5. QED  BY <1>1, <1>4, BeforeIsOrder

-----------------------------------------------------------------------------
(* The invariant. *)

Awake(s) == sweep[s].phase # "asleep"

\* Rows and the clock.
Timely ==
  /\ clock >= 1 /\ watermark <= clock
  /\ \A r \in Rows :
       /\ txn[r] # "none" => stamp[r] >= 1 /\ stamp[r] <= clock
       /\ txn[r] = "open" => clock <= stamp[r] + CommitLag

\* Committed before the sweep began, for certain.
Settled(s, r) == r \in Committed /\ stamp[r] + CommitLag < sweep[s].began

\* Still to be read by it.
Ahead(s, r) ==
  IF sweep[s].phase = "appending" THEN \A b \in sweep[s].batch : Before(b, r)
  ELSE IF sweep[s].after = 0 THEN stamp[r] >= sweep[s].since
  ELSE Before(sweep[s].after, r)

InHand(s, r) == r \in archive \cup sweep[s].mine \cup sweep[s].batch

Sweeping(s) ==
  /\ sweep[s].began <= clock /\ clock <= sweep[s].began + SweepSpan
  /\ sweep[s].seen <= clock
  /\ sweep[s].after # 0 => sweep[s].after \in Committed
  /\ sweep[s].moved => sweep[s].after # 0 /\ sweep[s].seen <= stamp[sweep[s].after]
  /\ sweep[s].batch \subseteq Committed
  /\ sweep[s].phase # "appending" => sweep[s].batch = {}
  /\ sweep[s].phase = "appending" =>
       /\ sweep[s].batch # {}
       /\ sweep[s].after # 0 => \A b \in sweep[s].batch : Before(sweep[s].after, b)
  /\ \A r \in Rows : Settled(s, r) => InHand(s, r) \/ Ahead(s, r)

MirrorInv ==
  /\ MirrorTypeOK
  /\ Timely
  /\ NoFactSkipped
  /\ \A s \in Sweepers : Awake(s) => Sweeping(s)

LEMMA MirrorInvInit == MirrorInit => MirrorInv
  <1> SUFFICES ASSUME MirrorInit PROVE MirrorInv
    OBVIOUS
  <1>1. MirrorTypeOK
    BY DEF MirrorInit, MirrorTypeOK, Asleep
  <1>2. Timely
    BY DEF MirrorInit, Timely
  <1>3. NoFactSkipped
    BY DEF MirrorInit, NoFactSkipped, Committed
  <1>4. \A s \in Sweepers : ~Awake(s)
    BY DEF MirrorInit, Awake, Asleep
  <1>5. QED  BY <1>1, <1>2, <1>3, <1>4 DEF MirrorInv

-----------------------------------------------------------------------------
(* Sweeps of which a step leaves the session alone. *)

\* A step of the ledger's transactions, or another sweep's: what is committed
\* stays so, with its stamp, and a row that is committed now was too late for
\* the sweep to have been settled.
LEMMA SweepingStays ==
  ASSUME MirrorInv, NEW s \in Sweepers, Awake(s), sweep'[s] = sweep[s],
         Committed \subseteq Committed',
         \A r \in Committed : stamp'[r] = stamp[r],
         \A r \in Committed' \ Committed : clock <= stamp'[r] + CommitLag,
         stamp' \in [Rows -> Nat],
         archive \subseteq archive',
         clock' \in Nat, clock <= clock', clock' <= sweep[s].began + SweepSpan
  PROVE  Sweeping(s)'
  <1>1. /\ clock \in Nat /\ stamp \in [Rows -> Nat] /\ Committed \subseteq Rows
        /\ sweep[s].began \in Nat /\ sweep[s].seen \in Nat /\ sweep[s].since \in Int
        /\ sweep[s].after \in Rows \cup {0} /\ sweep[s].batch \subseteq Rows
        /\ CommitLag \in Nat /\ SweepSpan \in Nat
    BY MirrorAssumption DEF MirrorAssumption, MirrorInv, MirrorTypeOK, Committed
  <1>2. Sweeping(s)
    BY DEF MirrorInv
  <1>3. \A p, q \in Committed : Before(p, q)' <=> Before(p, q)
    BY DEF Before
  <1>4. ASSUME NEW r \in Rows, Settled(s, r)' PROVE (InHand(s, r) \/ Ahead(s, r))'
    <2>1. r \in Committed' /\ stamp'[r] + CommitLag < sweep[s].began /\ stamp'[r] \in Nat
      BY <1>4 DEF Settled
    <2>2. sweep[s].began <= clock
      BY <1>2 DEF Sweeping
    <2>3. r \in Committed
      <3>1. ASSUME r \notin Committed PROVE clock <= stamp'[r] + CommitLag
        BY <2>1, <3>1
      <3>2. QED  BY <1>1, <2>1, <2>2, <3>1
    <2>4. Settled(s, r)
      BY <2>1, <2>3 DEF Settled
    <2>5. CASE InHand(s, r)
      BY <2>5 DEF InHand
    <2>6. CASE Ahead(s, r)
      <3>1. sweep[s].batch \subseteq Committed
        BY <1>2 DEF Sweeping
      <3>2. sweep[s].after # 0 => sweep[s].after \in Committed
        BY <1>2 DEF Sweeping
      <3>3. stamp'[r] = stamp[r]
        BY <2>3
      <3>4. Ahead(s, r)'
        BY <1>3, <2>3, <2>6, <3>1, <3>2, <3>3 DEF Ahead
      <3>5. QED  BY <3>4
    <2>7. QED  BY <1>2, <2>4, <2>5, <2>6 DEF Sweeping
  <1>5. /\ sweep'[s].began <= clock' /\ clock' <= sweep'[s].began + SweepSpan
        /\ sweep'[s].seen <= clock'
    BY <1>1, <1>2 DEF Sweeping
  <1>6. /\ sweep'[s].after # 0 => sweep'[s].after \in Committed'
        /\ sweep'[s].moved => sweep'[s].after # 0 /\ sweep'[s].seen <= stamp'[sweep'[s].after]
    BY <1>2 DEF Sweeping
  <1>7. /\ sweep'[s].batch \subseteq Committed'
        /\ sweep'[s].phase # "appending" => sweep'[s].batch = {}
    BY <1>2 DEF Sweeping
  <1>8. sweep'[s].phase = "appending" =>
          /\ sweep'[s].batch # {}
          /\ sweep'[s].after # 0 =>
               \A b \in sweep'[s].batch : Before(sweep[s].after, b)'
    BY <1>2, <1>3 DEF Sweeping
  <1>9. QED  BY <1>4, <1>5, <1>6, <1>7, <1>8 DEF Sweeping

\* One sweep goes on; the others, the rows and the clock stay.
LEMMA OneSweeps ==
  ASSUME MirrorInv, NEW s \in Sweepers, NEW t,
         sweep' = [sweep EXCEPT ![s] = t],
         UNCHANGED <<clock, stamp, txn>>,
         archive \subseteq archive',
         MirrorTypeOK', watermark' <= clock, NoFactSkipped',
         t.phase # "asleep" => Sweeping(s)'
  PROVE  MirrorInv'
  <1>1. /\ sweep'[s] = t /\ \A q \in Sweepers \ {s} : sweep'[q] = sweep[q]
        /\ Committed' = Committed /\ stamp' \in [Rows -> Nat] /\ clock' \in Nat
    BY DEF MirrorInv, MirrorTypeOK, Committed
  <1>2. Timely'
    BY DEF MirrorInv, Timely
  <1>3. ASSUME NEW q \in Sweepers \ {s}, Awake(q)' PROVE Sweeping(q)'
    <2>1. Awake(q) /\ Sweeping(q)
      BY <1>1, <1>3 DEF Awake, MirrorInv
    <2>2. clock <= sweep[q].began + SweepSpan /\ clock' = clock /\ clock <= clock
      BY <1>1, <2>1 DEF Sweeping, MirrorInv, MirrorTypeOK
    <2>3. QED
      BY <1>1, <2>1, <2>2, SweepingStays
  <1>4. Awake(s)' => Sweeping(s)'
    BY <1>1 DEF Awake
  <1>5. QED  BY <1>2, <1>3, <1>4 DEF MirrorInv

\* The rows change, or the clock; every sweep stays where it is.
LEMMA LedgerSteps ==
  ASSUME MirrorInv, UNCHANGED <<watermark, archive, headLock, sweep>>,
         MirrorTypeOK', Timely', clock <= clock',
         Committed \subseteq Committed',
         \A r \in Committed : stamp'[r] = stamp[r],
         \A r \in Committed' \ Committed : clock <= stamp'[r] + CommitLag,
         \A s \in Sweepers : Awake(s) => clock' <= sweep[s].began + SweepSpan
  PROVE  MirrorInv'
  <1>1. \A s \in Sweepers : Awake(s)' => Sweeping(s)'
    <2> TAKE s \in Sweepers
    <2>1. SUFFICES ASSUME Awake(s) PROVE Sweeping(s)'
      BY DEF Awake
    <2>2. stamp' \in [Rows -> Nat] /\ clock' \in Nat
      BY DEF MirrorTypeOK
    <2>3. QED  BY <2>1, <2>2, SweepingStays
  <1>2. NoFactSkipped'
    <2>1. SUFFICES ASSUME NEW r \in Committed', stamp'[r] < Since(watermark)
          PROVE  r \in archive
      BY DEF NoFactSkipped, Since
    <2>2. CASE r \in Committed
      BY <2>1, <2>2 DEF MirrorInv, NoFactSkipped
    <2>3. CASE r \notin Committed
      <3>1. clock <= stamp'[r] + CommitLag
        BY <2>3
      <3>2. /\ clock \in Nat /\ watermark \in Nat /\ watermark <= clock /\ stamp'[r] \in Nat
        BY DEF MirrorInv, MirrorTypeOK, Timely, Committed
      <3>3. /\ CommitLag \in Nat /\ SweepSpan \in Nat /\ Overlap \in Nat
            /\ CommitLag + SweepSpan <= Overlap
        BY MirrorAssumption, OverlapAssumption DEF MirrorAssumption, OverlapAssumption
      <3>4. QED  BY <2>1, <3>1, <3>2, <3>3 DEF Since
    <2>4. QED  BY <2>2, <2>3
  <1>3. QED  BY <1>1, <1>2 DEF MirrorInv

-----------------------------------------------------------------------------
(* The ledger's transactions, and time. *)

LEMMA WriteRowKeeps == ASSUME MirrorInv, NEW r \in Rows, WriteRow(r) PROVE MirrorInv'
  <1>1. /\ txn \in [Rows -> {"none", "open", "committed"}] /\ stamp \in [Rows -> Nat]
        /\ clock \in Nat /\ Timely /\ CommitLag \in Nat
    BY MirrorAssumption DEF MirrorAssumption, MirrorInv, MirrorTypeOK
  <1>2. /\ txn' = [txn EXCEPT ![r] = "open"] /\ stamp' = [stamp EXCEPT ![r] = clock]
        /\ txn[r] = "none" /\ clock' = clock
        /\ UNCHANGED <<watermark, archive, headLock, sweep>>
    BY DEF WriteRow
  <1>3. /\ Committed' = Committed
        /\ \A q \in Committed : stamp'[q] = stamp[q]
    BY <1>1, <1>2 DEF Committed
  <1>4. MirrorTypeOK'
    BY <1>1, <1>2 DEF MirrorInv, MirrorTypeOK
  <1>5. Timely'
    BY <1>1, <1>2 DEF Timely
  <1>6. \A s \in Sweepers : Awake(s) => clock' <= sweep[s].began + SweepSpan
    BY <1>2 DEF MirrorInv, Sweeping
  <1>7. QED  BY <1>1, <1>2, <1>3, <1>4, <1>5, <1>6, LedgerSteps

LEMMA EndRowKeeps == ASSUME MirrorInv, NEW r \in Rows, EndRow(r) PROVE MirrorInv'
  <1>1. /\ txn \in [Rows -> {"none", "open", "committed"}] /\ stamp \in [Rows -> Nat]
        /\ clock \in Nat /\ Timely
    BY DEF MirrorInv, MirrorTypeOK
  <1>2. /\ txn[r] = "open" /\ clock' = clock
        /\ UNCHANGED <<watermark, archive, headLock, sweep>>
        /\ \/ txn' = [txn EXCEPT ![r] = "committed"] /\ stamp' = stamp
           \/ txn' = [txn EXCEPT ![r] = "none"] /\ stamp' = [stamp EXCEPT ![r] = 0]
    BY DEF EndRow
  <1>3. /\ Committed \subseteq Committed' /\ Committed' \subseteq Committed \cup {r}
        /\ \A q \in Committed : stamp'[q] = stamp[q]
        /\ r \in Committed' => stamp'[r] = stamp[r]
    BY <1>1, <1>2 DEF Committed
  <1>4. clock <= stamp[r] + CommitLag
    BY <1>1, <1>2 DEF Timely
  <1>5. MirrorTypeOK'
    BY <1>1, <1>2 DEF MirrorInv, MirrorTypeOK
  <1>6. Timely'
    BY <1>1, <1>2 DEF Timely
  <1>7. \A s \in Sweepers : Awake(s) => clock' <= sweep[s].began + SweepSpan
    BY <1>2 DEF MirrorInv, Sweeping
  <1>8. QED  BY <1>1, <1>2, <1>3, <1>4, <1>5, <1>6, <1>7, LedgerSteps

LEMMA TimePassesKeeps == ASSUME MirrorInv, TimePasses PROVE MirrorInv'
  <1>1. /\ txn \in [Rows -> {"none", "open", "committed"}] /\ stamp \in [Rows -> Nat]
        /\ clock \in Nat /\ watermark \in Nat /\ Timely /\ CommitLag \in Nat
        /\ SweepSpan \in Nat /\ \A s \in Sweepers : sweep[s].began \in Nat
    BY MirrorAssumption DEF MirrorAssumption, MirrorInv, MirrorTypeOK
  <1>2. /\ clock' = clock + 1 /\ stamp' = stamp /\ txn' = txn
        /\ UNCHANGED <<watermark, archive, headLock, sweep>>
        /\ \A q \in Rows : txn[q] = "open" => clock < stamp[q] + CommitLag
        /\ \A s \in Sweepers : Awake(s) => clock < sweep[s].began + SweepSpan
    BY DEF TimePasses, Awake
  <1>3. Committed' = Committed
    BY <1>2 DEF Committed
  <1>4. MirrorTypeOK'
    BY <1>1, <1>2 DEF MirrorInv, MirrorTypeOK
  <1>5. Timely'
    BY <1>1, <1>2 DEF Timely
  <1>6. \A s \in Sweepers : Awake(s) => clock' <= sweep[s].began + SweepSpan
    BY <1>1, <1>2
  <1>7. QED  BY <1>1, <1>2, <1>3, <1>4, <1>5, <1>6, LedgerSteps

-----------------------------------------------------------------------------
(* The sweeps. *)

Sessions ==
  [phase : {"asleep", "reading", "appending", "committing"}, began : Nat,
   since : Int, after : Rows \cup {0}, seen : Nat, moved : BOOLEAN,
   pages : Nat, batch : SUBSET Rows, mine : SUBSET Rows]

\* What the proofs of the sweep's steps use of the state before.
LEMMA SweepFacts ==
  ASSUME MirrorInv, NEW s \in Sweepers
  PROVE  /\ clock \in Nat /\ watermark \in Nat /\ watermark <= clock /\ clock >= 1
         /\ Stamped /\ Committed \subseteq Rows /\ archive \subseteq Rows
         /\ \A r \in Committed : stamp[r] >= 1 /\ stamp[r] <= clock
         /\ sweep \in [Sweepers -> Sessions] /\ sweep[s] \in Sessions
         /\ sweep[s].mine \subseteq Rows /\ sweep[s].batch \subseteq Rows
         /\ headLock \in Sweepers \cup {"free"}
         /\ CommitLag \in Nat /\ SweepSpan \in Nat /\ Overlap \in Nat
         /\ CommitLag + SweepSpan <= Overlap /\ 0 \notin Rows /\ Rows \subseteq Nat
         /\ Awake(s) => Sweeping(s)
  <1>1. /\ CommitLag \in Nat /\ SweepSpan \in Nat /\ Overlap \in Nat
        /\ CommitLag + SweepSpan <= Overlap /\ 0 \notin Rows /\ Rows \subseteq Nat
    BY MirrorAssumption, OverlapAssumption DEF MirrorAssumption, OverlapAssumption
  <1>2. sweep \in [Sweepers -> Sessions] /\ sweep[s] \in Sessions
    BY DEF MirrorInv, MirrorTypeOK, Sessions
  <1>3. sweep[s].mine \subseteq Rows /\ sweep[s].batch \subseteq Rows
    BY <1>2 DEF Sessions
  <1>4. QED
    BY <1>1, <1>2, <1>3 DEF MirrorInv, MirrorTypeOK, Timely, Committed, Stamped

LEMMA BeginSweepKeeps == ASSUME MirrorInv, NEW s \in Sweepers, BeginSweep(s) PROVE MirrorInv'
  <1> DEFINE t == [phase |-> "reading", began |-> clock, since |-> Since(watermark),
                   after |-> 0, seen |-> watermark, moved |-> FALSE, pages |-> 0,
                   batch |-> {}, mine |-> {}]
  <1>1. /\ sweep' = [sweep EXCEPT ![s] = t]
        /\ UNCHANGED <<clock, stamp, txn, watermark, archive, headLock>>
    BY DEF BeginSweep
  <1>2. Since(watermark) \in Int
    BY SweepFacts DEF Since
  <1>3. t \in Sessions
    BY <1>2, SweepFacts DEF Sessions
  <1>4. /\ t.phase = "reading" /\ t.began = clock /\ t.since = Since(watermark)
        /\ t.after = 0 /\ t.seen = watermark /\ t.moved = FALSE /\ t.batch = {}
    OBVIOUS
  <1> HIDE DEF t
  <1>5. sweep'[s] = t /\ MirrorTypeOK'
    BY <1>1, <1>3, SweepFacts DEF MirrorInv, MirrorTypeOK, Sessions
  <1>6. Committed' = Committed /\ NoFactSkipped' /\ NoFactSkipped
    BY <1>1 DEF MirrorInv, NoFactSkipped, Committed
  <1>7. ASSUME NEW r \in Rows, Settled(s, r)' PROVE (InHand(s, r) \/ Ahead(s, r))'
    <2>1. r \in Committed /\ stamp[r] \in Nat
      BY <1>1, <1>6, <1>7, SweepFacts DEF Settled, Stamped
    <2>2. CASE stamp[r] < Since(watermark)
      BY <1>1, <1>6, <2>1, <2>2 DEF NoFactSkipped, InHand
    <2>3. CASE stamp[r] >= Since(watermark)
      BY <1>1, <1>4, <1>5, <2>3 DEF Ahead
    <2>4. QED  BY <1>2, <2>1, <2>2, <2>3
  <1>8. Sweeping(s)'
    <2>1. /\ t.began <= clock /\ clock <= t.began + SweepSpan /\ t.seen <= clock
      BY <1>4, SweepFacts
    <2>2. QED  BY <1>1, <1>4, <1>5, <1>7, <2>1 DEF Sweeping
  <1>9. QED  BY <1>1, <1>5, <1>6, <1>8, SweepFacts, OneSweeps

LEMMA ReadPageKeeps == ASSUME MirrorInv, NEW s \in Sweepers, ReadPage(s) PROVE MirrorInv'
  <1> DEFINE t == [phase |-> IF Unread(s) = {} THEN "committing" ELSE "appending",
                   began |-> sweep[s].began, since |-> sweep[s].since,
                   after |-> sweep[s].after, seen |-> sweep[s].seen,
                   moved |-> sweep[s].moved, pages |-> sweep[s].pages,
                   batch |-> PageOf(Unread(s)), mine |-> sweep[s].mine]
  <1>1. /\ sweep' = [sweep EXCEPT ![s] = t] /\ sweep[s].phase = "reading"
        /\ UNCHANGED <<clock, stamp, txn, watermark, archive, headLock>>
    BY DEF ReadPage
  <1>2. Unread(s) \subseteq Committed /\ PageOf(Unread(s)) \subseteq Unread(s)
    BY DEF Unread, PageOf
  <1>3. t \in Sessions
    <2>1. PageOf(Unread(s)) \in SUBSET Rows
      BY <1>2, SweepFacts
    <2>2. QED  BY <2>1, SweepFacts DEF Sessions
  <1>4. /\ t.phase = IF Unread(s) = {} THEN "committing" ELSE "appending"
        /\ t.began = sweep[s].began /\ t.since = sweep[s].since /\ t.after = sweep[s].after
        /\ t.seen = sweep[s].seen /\ t.moved = sweep[s].moved
        /\ t.batch = PageOf(Unread(s)) /\ t.mine = sweep[s].mine
    OBVIOUS
  <1> HIDE DEF t
  <1>5. sweep'[s] = t /\ MirrorTypeOK'
    BY <1>1, <1>3, SweepFacts DEF MirrorInv, MirrorTypeOK, Sessions
  <1>6. Committed' = Committed /\ NoFactSkipped'
    BY <1>1 DEF MirrorInv, NoFactSkipped, Committed
  <1>7. Awake(s) /\ Sweeping(s)
    BY <1>1, SweepFacts DEF Awake
  <1>8. \A p, q \in Rows : Before(p, q)' <=> Before(p, q)
    BY <1>1 DEF Before
  <1>9. ASSUME NEW r \in Rows, Settled(s, r)' PROVE (InHand(s, r) \/ Ahead(s, r))'
    <2>1. Settled(s, r) /\ r \in Committed
      BY <1>1, <1>4, <1>5, <1>6, <1>9 DEF Settled
    <2>2. CASE r \in archive \cup sweep[s].mine
      BY <1>1, <1>4, <1>5, <2>2 DEF InHand
    <2>3. CASE r \notin archive \cup sweep[s].mine
      <3>1. Ahead(s, r)
        BY <1>1, <1>7, <2>1, <2>3 DEF Sweeping, InHand
      <3>2. r \in Unread(s)
        BY <1>1, <2>1, <3>1 DEF Ahead, Unread
      <3>3. CASE r \in PageOf(Unread(s))
        BY <1>4, <1>5, <3>3 DEF InHand
      <3>4. CASE r \notin PageOf(Unread(s))
        <4>1. \A b \in PageOf(Unread(s)) : Before(b, r)
          BY <1>2, <3>2, <3>4, SweepFacts, PageIsPrefix
        <4>2. t.phase = "appending" /\ \A b \in t.batch : b \in Rows /\ Before(b, r)
          BY <1>2, <1>4, <3>2, <4>1, SweepFacts
        <4>3. QED  BY <1>5, <1>8, <4>2 DEF Ahead
      <3>5. QED  BY <3>3, <3>4
    <2>4. QED  BY <2>2, <2>3
  <1>10. t.phase = "appending" =>
           /\ t.batch # {}
           /\ t.after # 0 => \A b \in t.batch : b \in Rows /\ Before(t.after, b)
    <2>1. ASSUME t.phase = "appending" PROVE PageOf(Unread(s)) # {}
      BY <1>2, <1>4, <2>1, SweepFacts, PageIsNotEmpty
    <2>2. sweep[s].after # 0 => \A b \in Unread(s) : b \in Rows /\ Before(sweep[s].after, b)
      BY <1>2, SweepFacts DEF Unread
    <2>3. QED  BY <1>2, <1>4, <2>1, <2>2
  <1>11. t.phase # "appending" => t.batch = {}
    BY <1>2, <1>4
  <1>12. /\ t.began <= clock /\ clock <= t.began + SweepSpan /\ t.seen <= clock
         /\ t.after # 0 => t.after \in Committed
         /\ t.moved => t.after # 0 /\ t.seen <= stamp[t.after]
         /\ t.batch \subseteq Committed
    BY <1>2, <1>4, <1>7 DEF Sweeping
  <1>13. Sweeping(s)'
    <2>1. (sweep[s].phase = "appending" /\ sweep[s].after # 0 =>
             \A b \in sweep[s].batch : Before(sweep[s].after, b))'
      <3>1. ASSUME t.phase = "appending", t.after # 0, NEW b \in t.batch
            PROVE  stamp[t.after] < stamp[b] \/ (stamp[t.after] = stamp[b] /\ t.after < b)
        BY <1>10, <3>1 DEF Before
      <3>2. QED  BY <1>1, <1>5, <3>1 DEF Before
    <2>2. QED
      BY <1>1, <1>5, <1>6, <1>9, <1>10, <1>11, <1>12, <2>1 DEF Sweeping
  <1>14. QED  BY <1>1, <1>5, <1>6, <1>13, SweepFacts, OneSweeps

LEMMA AppendPageKeeps == ASSUME MirrorInv, NEW s \in Sweepers, AppendPage(s) PROVE MirrorInv'
  <1> DEFINE batch == sweep[s].batch
             last == LastOf(batch)
             further == sweep[s].seen = 0 \/ stamp[last] > sweep[s].seen
             full == Cardinality(batch) = Page /\ sweep[s].pages + 1 < MaxPages
             t == [phase |-> IF full THEN "reading" ELSE "committing",
                   began |-> sweep[s].began, since |-> sweep[s].since, after |-> last,
                   seen |-> IF further THEN stamp[last] ELSE sweep[s].seen,
                   moved |-> sweep[s].moved \/ further, pages |-> sweep[s].pages + 1,
                   batch |-> {}, mine |-> sweep[s].mine \cup (batch \ archive)]
  <1>1. /\ sweep' = [sweep EXCEPT ![s] = t] /\ sweep[s].phase = "appending"
        /\ headLock' = s /\ UNCHANGED <<clock, stamp, txn, watermark, archive>>
    BY DEF AppendPage
  <1>2. Awake(s) /\ Sweeping(s)
    BY <1>1, SweepFacts DEF Awake
  <1>3. /\ batch # {} /\ batch \subseteq Committed
        /\ sweep[s].after # 0 =>
             sweep[s].after \in Committed /\ \A b \in batch : Before(sweep[s].after, b)
    BY <1>1, <1>2 DEF Sweeping
  <1>4. /\ last \in batch /\ last \in Committed /\ last \in Rows /\ last # 0
        /\ \A b \in batch \ {last} : Before(b, last)
    <2>1. batch \in SUBSET Rows
      BY SweepFacts
    <2>2. last \in batch /\ \A b \in batch \ {last} : Before(b, last)
      BY <1>3, <2>1, SweepFacts, LastOfIs
    <2>3. QED  BY <1>3, <2>2, SweepFacts
  <1>5. stamp[last] \in Nat /\ stamp[last] >= 1 /\ stamp[last] <= clock
    BY <1>4, SweepFacts DEF Stamped
  <1>6. /\ sweep[s].began \in Nat /\ sweep[s].since \in Int /\ sweep[s].seen \in Nat
        /\ sweep[s].moved \in BOOLEAN /\ sweep[s].pages \in Nat
        /\ sweep[s].mine \in SUBSET Rows /\ batch \in SUBSET Rows
        /\ sweep[s].after \in Rows \cup {0}
    BY SweepFacts DEF Sessions
  <1>7. /\ t.began = sweep[s].began /\ t.since = sweep[s].since /\ t.after = last
        /\ t.seen = (IF further THEN stamp[last] ELSE sweep[s].seen)
        /\ t.moved = (sweep[s].moved \/ further) /\ t.batch = {}
        /\ t.mine = sweep[s].mine \cup (batch \ archive)
        /\ t.phase \in {"reading", "committing"}
    OBVIOUS
  <1>8. t \in Sessions
    <2> HIDE DEF last, full, batch
    <2>1. further \in BOOLEAN /\ (sweep[s].moved \/ further) \in BOOLEAN
      OBVIOUS
    <2> HIDE DEF further
    <2>2. QED  BY <1>4, <1>5, <1>6, <2>1 DEF Sessions
  <1> HIDE DEF t
  <1>9. sweep'[s] = t /\ MirrorTypeOK'
    BY <1>1, <1>8, SweepFacts DEF MirrorInv, MirrorTypeOK, Sessions
  <1>10. Committed' = Committed /\ NoFactSkipped'
    BY <1>1 DEF MirrorInv, NoFactSkipped, Committed
  <1>11. t.moved => t.seen <= stamp[t.after]
    <2>1. CASE further
      BY <1>5, <1>7, <2>1
    <2>2. CASE ~further /\ sweep[s].moved
      <3>1. sweep[s].after # 0 /\ sweep[s].seen <= stamp[sweep[s].after]
        BY <1>2, <2>2 DEF Sweeping
      <3>2. stamp[sweep[s].after] <= stamp[last] /\ stamp[sweep[s].after] \in Nat
        BY <1>3, <1>4, <1>5, <1>6, <3>1, SweepFacts DEF Before, Stamped
      <3>3. QED  BY <1>5, <1>6, <1>7, <2>2, <3>1, <3>2
    <2>3. QED  BY <1>7, <2>1, <2>2
  <1>12. ASSUME NEW r \in Rows, Settled(s, r)' PROVE (InHand(s, r) \/ Ahead(s, r))'
    <2>1. Settled(s, r)
      BY <1>1, <1>7, <1>9, <1>10, <1>12 DEF Settled
    <2>2. InHand(s, r) \/ Ahead(s, r)
      BY <1>2, <2>1 DEF Sweeping
    <2>3. CASE InHand(s, r)
      BY <1>1, <1>7, <1>9, <2>3 DEF InHand
    <2>4. CASE Ahead(s, r)
      <3>1. Before(last, r)
        BY <1>1, <1>4, <2>4 DEF Ahead
      <3>2. QED  BY <1>1, <1>4, <1>7, <1>9, <3>1 DEF Ahead, Before
    <2>5. QED  BY <2>2, <2>3, <2>4
  <1>13. /\ t.began <= clock /\ clock <= t.began + SweepSpan /\ t.seen <= clock
    BY <1>2, <1>5, <1>7 DEF Sweeping
  <1>14. Sweeping(s)'
    BY <1>1, <1>4, <1>7, <1>9, <1>10, <1>11, <1>12, <1>13 DEF Sweeping
  <1>15. QED  BY <1>1, <1>9, <1>10, <1>14, SweepFacts, OneSweeps

LEMMA CommitSweepKeeps == ASSUME MirrorInv, NEW s \in Sweepers, CommitSweep(s) PROVE MirrorInv'
  <1>1. /\ sweep' = [sweep EXCEPT ![s] = Asleep] /\ sweep[s].phase = "committing"
        /\ archive' = archive \cup sweep[s].mine
        /\ watermark' = IF sweep[s].moved THEN sweep[s].seen ELSE watermark
        /\ headLock' = IF headLock = s THEN "free" ELSE headLock
        /\ UNCHANGED <<clock, stamp, txn>>
    BY DEF CommitSweep, Wakes
  <1>2. Awake(s) /\ Sweeping(s)
    BY <1>1, SweepFacts DEF Awake
  <1>3. /\ sweep[s].seen \in Nat /\ sweep[s].seen <= clock /\ sweep[s].began \in Nat
        /\ clock <= sweep[s].began + SweepSpan
        /\ sweep[s].batch = {}
    BY <1>1, <1>2, SweepFacts DEF Sweeping, Sessions
  <1>4. MirrorTypeOK'
    <2>1. Asleep \in Sessions
      BY DEF Asleep, Sessions
    <2>2. archive' \subseteq Rows /\ watermark' \in Nat /\ headLock' \in Sweepers \cup {"free"}
      BY <1>1, <1>3, SweepFacts
    <2>3. QED  BY <1>1, <2>1, <2>2, SweepFacts DEF MirrorInv, MirrorTypeOK, Sessions
  <1>5. watermark' <= clock
    BY <1>1, <1>3, SweepFacts
  <1>6. Committed' = Committed
    BY <1>1 DEF Committed
  <1>7. NoFactSkipped'
    <2>1. SUFFICES ASSUME NEW r \in Committed, stamp[r] < Since(watermark')
          PROVE  r \in archive'
      BY <1>1, <1>6 DEF NoFactSkipped, Since
    <2>2. stamp[r] \in Nat /\ r \in Rows
      BY SweepFacts DEF Stamped
    <2>3. CASE ~sweep[s].moved
      BY <1>1, <2>1, <2>3 DEF MirrorInv, NoFactSkipped
    <2>4. CASE sweep[s].moved
      <3>1. /\ sweep[s].after # 0 /\ sweep[s].seen <= stamp[sweep[s].after]
            /\ sweep[s].after \in Committed /\ stamp[sweep[s].after] \in Nat
        BY <1>2, <2>4, SweepFacts DEF Sweeping, Stamped
      <3>2. stamp[r] < sweep[s].seen - Overlap
        BY <1>1, <1>3, <2>1, <2>2, <2>4 DEF Since
      <3>3. Settled(s, r)
        BY <1>3, <2>2, <3>2, SweepFacts DEF Settled
      <3>4. ~Ahead(s, r)
        BY <1>1, <1>3, <2>2, <3>1, <3>2, SweepFacts DEF Ahead, Before
      <3>5. r \in archive \cup sweep[s].mine
        BY <1>2, <1>3, <2>2, <3>3, <3>4 DEF Sweeping, InHand
      <3>6. QED  BY <1>1, <3>5
    <2>5. QED  BY <2>3, <2>4
  <1>8. Asleep.phase = "asleep"
    BY DEF Asleep
  <1>9. QED  BY <1>1, <1>4, <1>5, <1>7, <1>8, OneSweeps

LEMMA SweepFailsKeeps == ASSUME MirrorInv, NEW s \in Sweepers, SweepFails(s) PROVE MirrorInv'
  <1>1. /\ sweep' = [sweep EXCEPT ![s] = Asleep]
        /\ headLock' = IF headLock = s THEN "free" ELSE headLock
        /\ UNCHANGED <<clock, stamp, txn, watermark, archive>>
    BY DEF SweepFails, Wakes
  <1>2. Asleep \in Sessions /\ Asleep.phase = "asleep"
    BY DEF Asleep, Sessions
  <1>3. MirrorTypeOK'
    BY <1>1, <1>2, SweepFacts DEF MirrorInv, MirrorTypeOK, Sessions
  <1>4. NoFactSkipped'
    BY <1>1 DEF MirrorInv, NoFactSkipped, Committed
  <1>5. QED  BY <1>1, <1>2, <1>3, <1>4, SweepFacts, OneSweeps

-----------------------------------------------------------------------------
\* The invariant of the specification.
LEMMA MirrorInvariant == MirrorSpec => []MirrorInv
  <1>1. MirrorInit => MirrorInv
    BY MirrorInvInit
  <1>2. MirrorInv /\ [MirrorNext]_mirVars => MirrorInv'
    <2> SUFFICES ASSUME MirrorInv, [MirrorNext]_mirVars PROVE MirrorInv'
      OBVIOUS
    <2>1. CASE UNCHANGED mirVars
      <3>1. \A s \in Sweepers : Awake(s) => clock <= sweep[s].began + SweepSpan
        BY DEF MirrorInv, Sweeping
      <3>2. MirrorTypeOK' /\ Timely' /\ Committed' = Committed
        BY <2>1 DEF mirVars, MirrorInv, MirrorTypeOK, Timely, Committed
      <3>3. clock \in Nat /\ UNCHANGED <<clock, stamp, watermark, archive, headLock, sweep>>
        BY <2>1 DEF mirVars, MirrorInv, MirrorTypeOK
      <3>4. QED  BY <3>1, <3>2, <3>3, LedgerSteps
    <2>2. QED
      BY <2>1, WriteRowKeeps, EndRowKeeps, TimePassesKeeps, BeginSweepKeeps, ReadPageKeeps,
         AppendPageKeeps, CommitSweepKeeps, SweepFailsKeeps DEF MirrorNext
  <1>3. QED  BY <1>1, <1>2, PTL DEF MirrorSpec

\* The sweeps and the ledger keep every variable in its domain.
THEOREM MirrorTypeCorrect == MirrorSpec => []MirrorTypeOK
  <1>1. MirrorInv => MirrorTypeOK
    BY DEF MirrorInv
  <1>2. QED  BY <1>1, MirrorInvariant, PTL

\* No committed row is left behind the cursor's overlap outside the chain, with
\* sweeps that overlap, fail and overwrite one another's cursor, as long as the
\* overlap covers the longest transaction and the longest sweep.
THEOREM MirrorSkipsNothing == MirrorSpec => []NoFactSkipped
  <1>1. MirrorInv => NoFactSkipped
    BY DEF MirrorInv
  <1>2. QED  BY <1>1, MirrorInvariant, PTL

-----------------------------------------------------------------------------
(***************************************************************************)
(* Firehose, for any stream, frames, consumers and faults.                 *)
(*                                                                         *)
(* AckedTicksAreStored needs to know of every entry a consumer may yet      *)
(* acknowledge where its ticks are: stored, about to be, held, or told off  *)
(* as unstored (NothingMislaid).  Those are the entries of its batch, those it noted as *)
(* held, and those its filter has a tick of: a failed insert forgets the    *)
(* batch but not what the filter holds.                                     *)
(***************************************************************************)

MayAcknowledge(c) == consumed[c] \cup heldEntries[c] \cup StillHeld(c)

NothingMislaid ==
  \A c \in Consumers : \A e \in MayAcknowledge(c) :
    TicksOf({e}) \subseteq lake \cup decided[c] \cup held[c] \cup unstored

DecidedToStore == \A c \in Consumers : step[c] # "storing" => decided[c] = {}

FirehoseInv == FirehoseTypeOK /\ NothingMislaid /\ DecidedToStore /\ AckedTicksAreStored

LEMMA TicksAre ==
  /\ \A es, t : t \in TicksOf(es) <=> t \in es \X Cells /\ t[2] \in Frames[t[1]]
  /\ \A e, t : t \in TicksOf({e}) => t[1] = e
  /\ \A es : \A e \in es : TicksOf({e}) \subseteq TicksOf(es)
  /\ \A es \in SUBSET Stream : TicksOf(es) \subseteq Ticks
  /\ \A ts \in SUBSET Ticks : EntriesOf(ts) \subseteq Stream
  /\ \A ts : \A t \in ts : t[1] \in EntriesOf(ts)
  BY DEF TicksOf, Ticks, EntriesOf

LEMMA FirehoseInvInit == FirehoseInit => FirehoseInv
  <1> SUFFICES ASSUME FirehoseInit PROVE FirehoseInv
    OBVIOUS
  <1>1. FirehoseTypeOK
    BY FirehoseAssumption DEF FirehoseInit, FirehoseTypeOK
  <1>2. \A c \in Consumers : MayAcknowledge(c) = {}
    BY DEF FirehoseInit, MayAcknowledge, StillHeld, EntriesOf
  <1> QED BY <1>1, <1>2 
      DEF FirehoseInit, FirehoseInv, NothingMislaid, DecidedToStore, AckedTicksAreStored

\* Only the step of one consumer is at stake: for the others the lake and the
\* unstored can only grow.
LEMMA ConsumerKeeps ==
  ASSUME FirehoseInv, NEW c \in Consumers, FirehoseTypeOK',
         lake \subseteq lake', unstored \subseteq unstored',
         \A d \in Consumers \ {c} : /\ step'[d] = step[d] /\ consumed'[d] = consumed[d]
                                    /\ decided'[d] = decided[d] /\ held'[d] = held[d]
                                    /\ heldEntries'[d] = heldEntries[d],
         step'[c] # "storing" => decided'[c] = {},
         \A e \in MayAcknowledge(c)' :
           TicksOf({e}) \subseteq lake' \cup decided'[c] \cup held'[c] \cup unstored',
         \A e \in acked' \ acked : TicksOf({e}) \subseteq lake' \cup unstored'
  PROVE  FirehoseInv'
  <1>1. NothingMislaid'
    <2> SUFFICES ASSUME NEW d \in Consumers, NEW e \in MayAcknowledge(d)'
                 PROVE  TicksOf({e}) \subseteq lake' \cup decided'[d] \cup held'[d] \cup unstored'
      BY DEF NothingMislaid, TicksOf
    <2>1. CASE d = c BY <2>1
    <2>2. CASE d # c
      <3>1. e \in MayAcknowledge(d)
        BY <2>2 DEF MayAcknowledge, StillHeld
      <3> QED BY <2>2, <3>1 DEF FirehoseInv, NothingMislaid
    <2> QED BY <2>1, <2>2
  <1>2. DecidedToStore'
    BY DEF FirehoseInv, DecidedToStore
  <1>3. AckedTicksAreStored'
    BY DEF FirehoseInv, AckedTicksAreStored, TicksOf
  <1> QED BY <1>1, <1>2, <1>3 DEF FirehoseInv

LEMMA GoesWrongType == ASSUME FirehoseTypeOK, GoesWrong PROVE badSteps' \in 0..BadSteps
  BY FirehoseAssumption DEF FirehoseTypeOK, GoesWrong

\* A batch is decided or held, and nothing that was held gets lost in between.
LEMMA ReadKeeps == ASSUME FirehoseInv, NEW c \in Consumers, Read(c) PROVE FirehoseInv'
  <1>1. PICK claimed \in SUBSET (Pending \ heldEntries[c]), upTo \in delivered..Entries :
          LET batch == claimed \cup (delivered + 1)..upTo IN
          /\ delivered' = upTo
          /\ consumed' = [consumed EXCEPT ![c] = batch]
          /\ \E ts \in Decisions(held[c], TicksOf(batch)) :
               /\ decided' = [decided EXCEPT ![c] = ts]
               /\ held' = [held EXCEPT ![c] = (held[c] \cup TicksOf(batch)) \ ts]
    BY DEF Read
  <1> DEFINE batch == claimed \cup (delivered + 1)..upTo
  <1>2. PICK ts \in Decisions(held[c], TicksOf(batch)) :
               /\ decided' = [decided EXCEPT ![c] = ts]
               /\ held' = [held EXCEPT ![c] = (held[c] \cup TicksOf(batch)) \ ts]
    BY <1>1
  <1>3. delivered' = upTo /\ consumed' = [consumed EXCEPT ![c] = batch]
    BY <1>1
  <1>4. /\ step[c] = "idle" /\ step' = [step EXCEPT ![c] = "storing"] /\ leading' = c
        /\ UNCHANGED <<acked, heldEntries, lake, unstored, badSteps>>
    BY DEF Read, Leads
  <1>5. batch \subseteq Stream /\ upTo \in 0..Entries
    BY FirehoseAssumption DEF FirehoseInv, FirehoseTypeOK, Pending, Stream
  <1>6. ts \subseteq held[c] \cup TicksOf(batch) /\ held[c] \subseteq Ticks
        /\ TicksOf(batch) \subseteq Ticks
    BY <1>5, TicksAre DEF Decisions, FirehoseInv, FirehoseTypeOK
  <1> HIDE DEF batch
  <1>7. FirehoseTypeOK'
    BY <1>2, <1>3, <1>4, <1>5, <1>6 DEF FirehoseInv, FirehoseTypeOK
  <1>8. /\ consumed'[c] = batch /\ decided'[c] = ts /\ step'[c] = "storing"
        /\ held'[c] = (held[c] \cup TicksOf(batch)) \ ts /\ heldEntries'[c] = heldEntries[c]
    BY <1>2, <1>3, <1>4 DEF FirehoseInv, FirehoseTypeOK
  <1>9. decided[c] = {}
    BY <1>4 DEF FirehoseInv, DecidedToStore
  <1>10. \A e \in MayAcknowledge(c)' :
           TicksOf({e}) \subseteq lake' \cup decided'[c] \cup held'[c] \cup unstored'
    <2> SUFFICES ASSUME NEW e \in MayAcknowledge(c)', NEW t \in TicksOf({e})
                 PROVE  t \in lake' \cup decided'[c] \cup held'[c] \cup unstored'
      OBVIOUS
    <2>1. e \in MayAcknowledge(c) \/ e \in batch
      <3>1. CASE e \in consumed'[c] BY <1>8, <3>1
      <3>2. CASE e \in heldEntries'[c] BY <1>8, <3>2 DEF MayAcknowledge
      <3>3. CASE e \in StillHeld(c)'
        <4>1. PICK u \in held'[c] : e = u[1]
          BY <3>3 DEF StillHeld, EntriesOf
        <4>2. u \in held[c] \/ u \in TicksOf(batch)
          BY <1>8, <4>1
        <4>3. CASE u \in held[c]
          BY <4>1, <4>3 DEF MayAcknowledge, StillHeld, EntriesOf
        <4>4. CASE u \in TicksOf(batch)
          BY <4>1, <4>4, TicksAre
        <4> QED BY <4>2, <4>3, <4>4
      <3> QED BY <3>1, <3>2, <3>3 DEF MayAcknowledge
    <2>2. CASE e \in batch
      BY <1>8, <2>2, TicksAre
    <2>3. CASE e \in MayAcknowledge(c)
      <3>1. t \in lake \cup held[c] \cup unstored
        BY <1>4, <1>9, <2>3 DEF FirehoseInv, NothingMislaid
      <3> QED BY <1>4, <1>8, <3>1
    <2> QED BY <2>1, <2>2, <2>3
  <1>11. \A d \in Consumers \ {c} : /\ step'[d] = step[d] /\ consumed'[d] = consumed[d]
                                    /\ decided'[d] = decided[d] /\ held'[d] = held[d]
                                    /\ heldEntries'[d] = heldEntries[d]
    BY <1>2, <1>3, <1>4 DEF FirehoseInv, FirehoseTypeOK
  <1> QED BY <1>4, <1>7, <1>8, <1>10, <1>11, ConsumerKeeps

LEMMA StoreKeeps == ASSUME FirehoseInv, NEW c \in Consumers, Store(c) PROVE FirehoseInv'
  <1>1. /\ lake' = lake \cup decided[c] /\ decided' = [decided EXCEPT ![c] = {}]
        /\ step' = [step EXCEPT ![c] = "acknowledging"]
        /\ UNCHANGED <<delivered, acked, leading, consumed, held, heldEntries, unstored, badSteps>>
    BY DEF Store
  <1>2. FirehoseTypeOK'
    BY <1>1 DEF FirehoseInv, FirehoseTypeOK
  <1>3. /\ decided'[c] = {} /\ held'[c] = held[c] /\ MayAcknowledge(c)' = MayAcknowledge(c)
        /\ \A d \in Consumers \ {c} : /\ step'[d] = step[d] /\ consumed'[d] = consumed[d]
                                      /\ decided'[d] = decided[d] /\ held'[d] = held[d]
                                      /\ heldEntries'[d] = heldEntries[d]
    BY <1>1 DEF FirehoseInv, FirehoseTypeOK, MayAcknowledge, StillHeld
  <1>4. \A e \in MayAcknowledge(c)' :
          TicksOf({e}) \subseteq lake' \cup decided'[c] \cup held'[c] \cup unstored'
    BY <1>1, <1>3 DEF FirehoseInv, NothingMislaid
  <1>5. lake \subseteq lake' /\ unstored \subseteq unstored' /\ acked' = acked
    BY <1>1
  <1> QED BY <1>2, <1>3, <1>4, <1>5, ConsumerKeeps

\* The ticks that were decided are gone; those of entries that had or have one
\* held are unstored, and the others' entries are not this consumer's any more.
LEMMA StoreFailsKeeps ==
  ASSUME FirehoseInv, NEW c \in Consumers, StoreFails(c) PROVE FirehoseInv'
  <1>1. /\ unstored' = unstored \cup OfHeldEntry(c, heldEntries[c] \cup StillHeld(c))
        /\ decided' = [decided EXCEPT ![c] = {}]
        /\ consumed' = [consumed EXCEPT ![c] = {}] /\ step' = [step EXCEPT ![c] = "idle"]
        /\ UNCHANGED <<delivered, acked, leading, held, heldEntries, lake>> /\ GoesWrong
    BY DEF StoreFails
  <1>2. FirehoseTypeOK'
    BY <1>1, GoesWrongType DEF FirehoseInv, FirehoseTypeOK, OfHeldEntry
  <1>3. /\ decided'[c] = {} /\ held'[c] = held[c]
        /\ MayAcknowledge(c)' = heldEntries[c] \cup StillHeld(c)
        /\ MayAcknowledge(c)' \subseteq MayAcknowledge(c)
        /\ \A d \in Consumers \ {c} : /\ step'[d] = step[d] /\ consumed'[d] = consumed[d]
                                      /\ decided'[d] = decided[d] /\ held'[d] = held[d]
                                      /\ heldEntries'[d] = heldEntries[d]
    BY <1>1 DEF FirehoseInv, FirehoseTypeOK, MayAcknowledge, StillHeld
  <1>4. \A e \in MayAcknowledge(c)' :
          TicksOf({e}) \subseteq lake' \cup decided'[c] \cup held'[c] \cup unstored'
    <2> SUFFICES ASSUME NEW e \in MayAcknowledge(c)', NEW t \in TicksOf({e})
                 PROVE  t \in lake \cup held[c] \cup unstored'
      BY <1>1, <1>3
    <2>1. t \in lake \cup decided[c] \cup held[c] \cup unstored
      BY <1>3 DEF FirehoseInv, NothingMislaid
    <2>2. t[1] = e /\ e \in heldEntries[c] \cup StillHeld(c)
      BY <1>3, TicksAre
    <2>3. t \in decided[c] => t \in unstored'
      BY <1>1, <2>2 DEF OfHeldEntry
    <2> QED BY <1>1, <2>1, <2>3
  <1>5. lake \subseteq lake' /\ unstored \subseteq unstored' /\ acked' = acked
    BY <1>1
  <1> QED BY <1>2, <1>3, <1>4, <1>5, ConsumerKeeps

LEMMA AcknowledgeKeeps ==
  ASSUME FirehoseInv, NEW c \in Consumers, Acknowledge(c) PROVE FirehoseInv'
  <1>1. /\ acked' \in {acked, acked \cup Done(c)} /\ badSteps' \in 0..BadSteps
        /\ heldEntries' = [heldEntries EXCEPT ![c] = StillHeld(c)]
        /\ consumed' = [consumed EXCEPT ![c] = {}] /\ step' = [step EXCEPT ![c] = "idle"]
        /\ step[c] = "acknowledging"
        /\ UNCHANGED <<delivered, leading, decided, held, lake, unstored>>
    BY GoesWrongType DEF Acknowledge, FirehoseInv, FirehoseTypeOK
  <1>2. StillHeld(c) \subseteq Stream /\ decided[c] = {}
    BY <1>1, TicksAre DEF StillHeld, FirehoseInv, FirehoseTypeOK, DecidedToStore
  <1>3. FirehoseTypeOK'
    BY <1>1, <1>2 DEF FirehoseInv, FirehoseTypeOK, Done
  <1>4. /\ decided'[c] = {} /\ held'[c] = held[c] /\ MayAcknowledge(c)' = StillHeld(c)
        /\ \A d \in Consumers \ {c} : /\ step'[d] = step[d] /\ consumed'[d] = consumed[d]
                                      /\ decided'[d] = decided[d] /\ held'[d] = held[d]
                                      /\ heldEntries'[d] = heldEntries[d]
    BY <1>1, <1>2 DEF FirehoseInv, FirehoseTypeOK, MayAcknowledge, StillHeld
  <1>5. \A e \in MayAcknowledge(c) : TicksOf({e}) \subseteq lake \cup held[c] \cup unstored
    BY <1>2 DEF FirehoseInv, NothingMislaid
  <1>6. \A e \in MayAcknowledge(c)' :
          TicksOf({e}) \subseteq lake' \cup decided'[c] \cup held'[c] \cup unstored'
    BY <1>1, <1>4, <1>5 DEF MayAcknowledge
  <1>7. \A e \in acked' \ acked : TicksOf({e}) \subseteq lake' \cup unstored'
    <2> SUFFICES ASSUME NEW e \in Done(c), NEW t \in TicksOf({e})
                 PROVE  t \in lake \cup unstored
      BY <1>1
    <2>1. e \in MayAcknowledge(c) /\ e \notin StillHeld(c)
      BY DEF Done, MayAcknowledge
    <2>2. t \in lake \cup held[c] \cup unstored /\ t[1] = e
      BY <1>5, <2>1, TicksAre
    <2> QED BY <2>1, <2>2, TicksAre DEF StillHeld
  <1>8. lake \subseteq lake' /\ unstored \subseteq unstored'
    BY <1>1
  <1> QED BY <1>3, <1>4, <1>6, <1>7, <1>8, ConsumerKeeps

\* A new process knows nothing and may acknowledge nothing.
LEMMA RestartedIs ==
  ASSUME FirehoseInv, NEW c \in Consumers, Restarted(c)
  PROVE  /\ step' \in [Consumers -> {"idle", "storing", "acknowledging"}]
         /\ consumed' \in [Consumers -> SUBSET Stream]
         /\ decided' \in [Consumers -> SUBSET Ticks]
         /\ held' \in [Consumers -> SUBSET Ticks]
         /\ heldEntries' \in [Consumers -> SUBSET Stream]
         /\ decided'[c] = {} /\ MayAcknowledge(c)' = {}
         /\ \A d \in Consumers \ {c} : /\ step'[d] = step[d] /\ consumed'[d] = consumed[d]
                                       /\ decided'[d] = decided[d] /\ held'[d] = held[d]
                                       /\ heldEntries'[d] = heldEntries[d]
  <1>1. /\ step' = [step EXCEPT ![c] = "idle"] /\ consumed' = [consumed EXCEPT ![c] = {}]
        /\ decided' = [decided EXCEPT ![c] = {}] /\ held' = [held EXCEPT ![c] = {}]
        /\ heldEntries' = [heldEntries EXCEPT ![c] = {}]
    BY DEF Restarted
  <1>2. consumed'[c] = {} /\ held'[c] = {} /\ heldEntries'[c] = {}
    BY <1>1 DEF FirehoseInv, FirehoseTypeOK
  <1>3. MayAcknowledge(c)' = {}
    BY <1>2 DEF MayAcknowledge, StillHeld, EntriesOf
  <1> QED BY <1>1, <1>3 DEF FirehoseInv, FirehoseTypeOK

LEMMA CrashKeeps == ASSUME FirehoseInv, NEW c \in Consumers, Crash(c) PROVE FirehoseInv'
  <1>1. Restarted(c) /\ GoesWrong /\ UNCHANGED <<delivered, acked, leading, lake, unstored>>
    BY DEF Crash
  <1>2. FirehoseTypeOK'
    BY <1>1, GoesWrongType, RestartedIs DEF FirehoseInv, FirehoseTypeOK
  <1> QED BY <1>1, <1>2, RestartedIs, ConsumerKeeps

\* What the filter held is stored, and so all that its entries still lacked.
LEMMA DrainKeeps == ASSUME FirehoseInv, NEW c \in Consumers, Drain(c) PROVE FirehoseInv'
  <1>1. /\ lake' = lake \cup held[c] /\ acked' = acked \cup heldEntries[c]
        /\ unstored' = unstored \cup OfHeldEntry(c, heldEntries[c])
        /\ Restarted(c) /\ GoesWrong /\ UNCHANGED <<delivered, leading>>
    BY DEF Drain
  <1>2. FirehoseTypeOK'
    <2>1. lake' \subseteq Ticks /\ acked' \subseteq Stream /\ unstored' \subseteq Ticks
      BY <1>1 DEF FirehoseInv, FirehoseTypeOK, OfHeldEntry
    <2> QED BY <1>1, <2>1, GoesWrongType, RestartedIs DEF FirehoseInv, FirehoseTypeOK
  <1>3. \A e \in acked' \ acked : TicksOf({e}) \subseteq lake' \cup unstored'
    <2> SUFFICES ASSUME NEW e \in heldEntries[c], NEW t \in TicksOf({e})
                 PROVE  t \in lake' \cup unstored'
      BY <1>1
    <2>1. t \in lake \cup decided[c] \cup held[c] \cup unstored
      BY DEF FirehoseInv, NothingMislaid, MayAcknowledge
    <2>2. t \in decided[c] => t \in unstored'
      BY <1>1, TicksAre DEF OfHeldEntry
    <2> QED BY <1>1, <2>1, <2>2
  <1>4. lake \subseteq lake' /\ unstored \subseteq unstored'
    BY <1>1
  <1> QED BY <1>1, <1>2, <1>3, <1>4, RestartedIs, ConsumerKeeps

LEMMA FirehoseInvNext == ASSUME FirehoseInv, [FirehoseNext]_fhVars PROVE FirehoseInv'
  <1>1. CASE LeaseRunsOut
    <2>1. badSteps' \in 0..BadSteps
      BY <1>1, GoesWrongType DEF LeaseRunsOut, FirehoseInv, FirehoseTypeOK
    <2>2. /\ leading' = "nobody"
          /\ UNCHANGED <<delivered, acked, step, consumed, decided, held, heldEntries, lake, unstored>>
      BY <1>1 DEF LeaseRunsOut
    <2> QED BY <2>1, <2>2
        DEF FirehoseInv, FirehoseTypeOK, NothingMislaid, MayAcknowledge, StillHeld,
            DecidedToStore, AckedTicksAreStored
  <1>2. CASE UNCHANGED fhVars
    BY <1>2
    DEF fhVars, FirehoseInv, FirehoseTypeOK, NothingMislaid, MayAcknowledge, StillHeld,
        DecidedToStore, AckedTicksAreStored
  <1>3. CASE \E c \in Consumers : \/ Read(c) \/ Store(c) \/ StoreFails(c) \/ Acknowledge(c)
                                  \/ Crash(c) \/ Drain(c)
    BY <1>3, ReadKeeps, StoreKeeps, StoreFailsKeeps, AcknowledgeKeeps, CrashKeeps, DrainKeeps
  <1> QED BY <1>1, <1>2, <1>3 DEF FirehoseNext

\* The inductive invariant of the consumers.
THEOREM FirehoseInvariant == FirehoseSpec => []FirehoseInv
  <1>1. FirehoseInit => FirehoseInv
    BY FirehoseInvInit
  <1>2. FirehoseInv /\ [FirehoseNext]_fhVars => FirehoseInv'
    BY FirehoseInvNext
  <1> QED BY <1>1, <1>2, PTL DEF FirehoseSpec

\* The streams, the consumers and the store keep their types.
THEOREM FirehoseTypeCorrect == FirehoseSpec => []FirehoseTypeOK
  <1>1. FirehoseInv => FirehoseTypeOK
    BY DEF FirehoseInv
  <1> QED BY <1>1, FirehoseInvariant, PTL

\* An acknowledged entry has each of its ticks in the lake, but for those whose
\* own insert failed or was cancelled while their entry had a tick held
\* (workers/nalanda_firehose.py).
THEOREM AcknowledgedIsStored == FirehoseSpec => []AckedTicksAreStored
  <1>1. FirehoseInv => AckedTicksAreStored
    BY DEF FirehoseInv
  <1> QED BY <1>1, FirehoseInvariant, PTL

-----------------------------------------------------------------------------
(***************************************************************************)
(* Proofs about OpportunityFeed, for any number of processes, quotes,      *)
(* deaths and limits.                                                      *)
(*                                                                         *)
(* An entry is acknowledged after its process has put it into its queue or *)
(* passed it over, and from there a quote leaves the process's buffers     *)
(* accounted for.  Only a process that has died, or stood down, keeps what *)
(* it holds.                                                               *)
(***************************************************************************)

Elems(q) == {q[i] : i \in DOMAIN q}

FeedShape ==
  /\ queue \in [BusReaders -> Seq(BusEntries)]
  /\ collected \in [BusReaders -> SUBSET BusEntries]
  /\ sessions \in [BusReaders -> SUBSET SUBSET BusEntries]

\* What shows that a quote has not been lost.
Accounted(e) ==
  \/ e \in letters \cup accounted
  \/ \E r \in BusReaders :
       e \in Held(r) /\ (process[r] # "ended" \/ dispatching[r] = "standing down")

\* What is about to be acknowledged is accounted for.
ReaderInv(r) ==
  /\ reading[r] \in {"poison", "poisoned", "deliver", "acknowledge"} => readBatch[r] # {}
  /\ reading[r] \in {"acknowledge", "poisoned"} => Accounted(First(r))
  /\ dispatching[r] = "draining" => stopping[r] /\ queue[r] = <<>> /\ collected[r] = {}

FeedInv ==
  /\ FeedTypeOK /\ FeedShape
  /\ \A r \in BusReaders : ReaderInv(r)
  /\ \A e \in 1..lastRead : e \in pending \/ Accounted(e)

-----------------------------------------------------------------------------
LEMMA HeldIs ==
  ASSUME NEW r \in BusReaders
  PROVE  Held(r) = Elems(queue[r]) \cup collected[r] \cup UNION sessions[r]
BY DEF Held, Elems

LEMMA QueueGrows ==
  ASSUME NEW S, NEW q \in Seq(S), NEW e \in S
  PROVE  /\ Append(q, e) \in Seq(S) /\ Len(Append(q, e)) = Len(q) + 1
         /\ Elems(Append(q, e)) = Elems(q) \cup {e}
<1> DEFINE a == Append(q, e)
           n == Len(q)
<1>1. /\ a \in Seq(S) /\ Len(a) = n + 1 /\ n \in Nat /\ DOMAIN q = 1..n
      /\ \A i \in 1..n : a[i] = q[i]
      /\ a[n + 1] = e
  BY AppendProperties
<1>2. DOMAIN a = 1..(n + 1) /\ 1..(n + 1) = 1..n \cup {n + 1}
  BY <1>1
<1> HIDE DEF a, n
<1>3. Elems(a) = Elems(q) \cup {e}
  BY <1>1, <1>2 DEF Elems
<1> QED BY <1>1, <1>3 DEF a, n

LEMMA QueueShrinks ==
  ASSUME NEW S, NEW q \in Seq(S), q # <<>>
  PROVE  /\ Tail(q) \in Seq(S) /\ Head(q) \in S /\ Len(q) \in Nat
         /\ Len(Tail(q)) = Len(q) - 1
         /\ Elems(q) = Elems(Tail(q)) \cup {Head(q)}
<1> DEFINE t == Tail(q)
           n == Len(q)
<1>1. /\ t \in Seq(S) /\ Head(q) \in S /\ Len(t) = n - 1
      /\ \A i \in 1..Len(t) : t[i] = q[i + 1]
  BY HeadTailProperties
<1>2. n \in Nat /\ n >= 1 /\ DOMAIN q = 1..n /\ DOMAIN t = 1..(n - 1) /\ Head(q) = q[1]
  BY <1>1
<1> HIDE DEF t, n
<1>3. \A i \in 1..n : i = 1 \/ (i - 1 \in 1..(n - 1) /\ t[i - 1] = q[i])
  BY <1>1, <1>2
<1>4. \A i \in 1..(n - 1) : i + 1 \in 1..n /\ t[i] = q[i + 1]
  BY <1>1, <1>2
<1>5. Elems(q) = Elems(t) \cup {Head(q)}
  <2>1. 1 \in 1..n
    BY <1>2
  <2>2. ASSUME NEW x \in Elems(q) PROVE x \in Elems(t) \cup {Head(q)}
    <3>1. PICK i \in 1..n : x = q[i]
      BY <1>2 DEF Elems
    <3> QED BY <1>2, <1>3, <3>1 DEF Elems
  <2>3. ASSUME NEW x \in Elems(t) PROVE x \in Elems(q)
    <3>1. PICK i \in 1..(n - 1) : x = t[i]
      BY <1>2 DEF Elems
    <3> QED BY <1>2, <1>4, <3>1 DEF Elems
  <2>4. Head(q) \in Elems(q)
    BY <1>2, <2>1 DEF Elems
  <2> QED BY <2>2, <2>3, <2>4
<1> QED BY <1>1, <1>2, <1>5 DEF t, n

\* The least entry of a batch is one of its entries.
LEMMA FirstIs ==
  ASSUME FeedInv, NEW r \in BusReaders, readBatch[r] # {}
  PROVE  First(r) \in readBatch[r] /\ First(r) \in 1..lastRead /\ First(r) \in BusEntries
<1>1. lastRead \in Nat /\ BusEvents \in Nat /\ lastRead <= BusEvents /\ readBatch[r] \in SUBSET (1..lastRead)
  <2>1. BusTypeOK
    BY DEF FeedInv, FeedTypeOK
  <2>2. BusEvents \in Nat
    BY BusAssumption
  <2> QED BY <2>1, <2>2 DEF BusTypeOK
<1>2. readBatch[r] \in SUBSET Nat /\ 1..lastRead \in SUBSET BusEntries
  BY <1>1 DEF BusEntries
<1>3. IsFiniteSet(readBatch[r])
  BY <1>1, FS_Interval, FS_Subset
<1> DEFINE S == readBatch[r]
           R == {p \in S \X S : p[1] < p[2]}
<1>4. \A x, y \in S : <<x, y>> \in R <=> x < y
  OBVIOUS
<1> HIDE DEF R
<1>5. PICK x \in S : TRUE
  OBVIOUS
<1>6. /\ \A p \in S : <<p, p>> \notin R
      /\ \A p, q, s \in S : <<p, q>> \in R /\ <<q, s>> \in R => <<p, s>> \in R
      /\ \A p, q \in S : p # q => <<p, q>> \in R \/ <<q, p>> \in R
  BY <1>2, <1>4
<1>7. PICK m \in S : \A q \in S \ {m} : <<m, q>> \in R
  <2> HIDE DEF S
  <2>1. IsFiniteSet(S)
    BY <1>3 DEF S
  <2> QED BY <1>6, <2>1, <1>5, LeastOfOrder
<1>8. \A q \in S : m <= q
  <2>1. S \in SUBSET Nat
    BY <1>2
  <2> HIDE DEF S
  <2> SUFFICES ASSUME NEW q \in S PROVE m <= q
    OBVIOUS
  <2>2. q # m => <<m, q>> \in R
    BY <1>7
  <2>3. q # m => m < q
    BY <1>4, <2>2
  <2>4. m \in Nat /\ q \in Nat
    BY <2>1
  <2> QED BY <2>3, <2>4
<1>9. Min(S) \in S
  BY <1>8 DEF Min
<1> QED BY <1>1, <1>2, <1>9 DEF First

LEMMA BuffersStay ==
  ASSUME NEW q \in BusReaders,
         queue'[q] = queue[q], collected'[q] = collected[q], sessions'[q] = sessions[q]
  PROVE  Held(q)' = Held(q)
BY DEF Held

-----------------------------------------------------------------------------
\* A step of a reader on the bus.
LEMMA BusKeeps ==
  ASSUME FeedInv, NEW r \in BusReaders, UNCHANGED orchVars, FeedTypeOK',
         lastRead <= lastRead', letters \subseteq letters',
         \A q \in BusReaders \ {r} : reading'[q] = reading[q] /\ readBatch'[q] = readBatch[q],
         reading'[r] \in {"poison", "poisoned", "deliver", "acknowledge"} => readBatch'[r] # {},
         reading'[r] \in {"acknowledge", "poisoned"} =>
           \E e : e = First(r)' /\ (e \in letters' \/ Accounted(e)),
         \A e \in 1..lastRead' :
           e \in pending' \/ e \in letters' \/ (e \in 1..lastRead /\ Accounted(e))
  PROVE  FeedInv'
<1>1. /\ process' = process /\ stopping' = stopping /\ queue' = queue
      /\ dispatching' = dispatching /\ collected' = collected /\ sessions' = sessions
      /\ accounted' = accounted
  BY DEF orchVars
<1>2. \A q \in BusReaders : Held(q)' = Held(q)
  BY <1>1, BuffersStay
<1>3. FeedShape'
  BY <1>1 DEF FeedInv, FeedShape
<1>4. \A q \in BusReaders \ {r} : First(q)' = First(q)
  BY DEF First
<1>5. \A e : Accounted(e) => Accounted(e)'
  <2> SUFFICES ASSUME NEW e, Accounted(e) PROVE Accounted(e)'
    OBVIOUS
  <2>1. CASE e \in letters \cup accounted
    BY <1>1, <2>1 DEF Accounted
  <2>2. CASE \E q \in BusReaders :
               e \in Held(q) /\ (process[q] # "ended" \/ dispatching[q] = "standing down")
    BY <1>1, <1>2, <2>2 DEF Accounted
  <2> QED BY <2>1, <2>2 DEF Accounted
<1>6. ASSUME NEW q \in BusReaders PROVE ReaderInv(q)'
  <2>1. ReaderInv(q)
    BY DEF FeedInv
  <2>2. dispatching'[q] = "draining" => stopping'[q] /\ queue'[q] = <<>> /\ collected'[q] = {}
    BY <1>1, <2>1 DEF ReaderInv
  <2>3. CASE q = r
    <3>1. ASSUME NEW e, e \in letters' PROVE Accounted(e)'
      BY <3>1 DEF Accounted
    <3>2. ASSUME reading'[r] \in {"acknowledge", "poisoned"} PROVE \E e : e = First(r)' /\ Accounted(e)'
      BY <1>5, <3>1, <3>2
    <3>3. reading'[r] \in {"acknowledge", "poisoned"} => Accounted(First(r))'
      BY <3>2 DEF Accounted
    <3> QED BY <2>2, <2>3, <3>3 DEF ReaderInv
  <2>4. CASE q # r
    <3>1. reading'[q] = reading[q] /\ readBatch'[q] = readBatch[q] /\ First(q)' = First(q)
      BY <1>4, <2>4
    <3>2. Accounted(First(q)) => Accounted(First(q))'
      <4> SUFFICES ASSUME NEW e, e = First(q), Accounted(e) PROVE Accounted(First(q))'
        OBVIOUS
      <4>1. Accounted(e)' /\ e = First(q)'
        BY <1>5, <3>1
      <4> QED BY <4>1 DEF Accounted
    <3> QED BY <2>1, <2>2, <3>1, <3>2 DEF ReaderInv
  <2> QED BY <2>3, <2>4
<1>7. ASSUME NEW e \in 1..lastRead' PROVE e \in pending' \/ Accounted(e)'
  <2>1. e \in letters' => Accounted(e)'
    BY DEF Accounted
  <2> QED BY <1>5, <2>1
<1> QED BY <1>3, <1>6, <1>7 DEF FeedInv

\* What the type invariant says, part by part.
LEMMA BusParts ==
  ASSUME FeedInv
  PROVE  /\ lastRead \in Nat /\ lastRead <= BusEvents /\ BusEvents \in Nat
         /\ MaxDeliveries \in Nat
         /\ pending \subseteq 1..lastRead /\ letters \subseteq 1..lastRead
         /\ deliveries \in [BusEntries -> 0..(MaxDeliveries + 1)]
         /\ reading \in [BusReaders -> BusPlaces]
         /\ readBatch \in [BusReaders -> SUBSET (1..lastRead)]
         /\ lastRead \in 0..BusEvents
<1>1. BusTypeOK
  BY DEF FeedInv, FeedTypeOK
<1>2. BusEvents \in Nat /\ MaxDeliveries \in Nat
  BY BusAssumption
<1> QED BY <1>1, <1>2 DEF BusTypeOK

LEMMA OrchTypes ==
  ASSUME FeedInv, BusTypeOK', UNCHANGED orchVars, lastRead <= lastRead'
  PROVE  FeedTypeOK'
<1>1. /\ process' = process /\ stopping' = stopping /\ queue' = queue /\ old' = old
      /\ dispatching' = dispatching /\ collected' = collected /\ sessions' = sessions
      /\ failures' = failures /\ accounted' = accounted
  BY DEF orchVars
<1>2. /\ FeedTypeOK /\ lastRead \in Nat /\ lastRead' \in Nat
  <2>1. BusEvents \in Nat
    BY BusAssumption
  <2> QED BY <2>1, BusParts DEF FeedInv, BusTypeOK
<1>3. 1..lastRead \subseteq 1..lastRead'
  BY <1>2
<1>4. \A r \in BusReaders : Held(r)' = Held(r)
  BY <1>1, BuffersStay
<1> QED BY <1>1, <1>2, <1>3, <1>4 DEF FeedTypeOK

\* One reader's part of a variable changes.
LEMMA Updated ==
  ASSUME NEW T, NEW f \in [BusReaders -> T], NEW r \in BusReaders, NEW v \in T,
         NEW g, g = [f EXCEPT ![r] = v]
  PROVE  /\ g \in [BusReaders -> T] /\ g[r] = v
         /\ \A q \in BusReaders \ {r} : g[q] = f[q]
OBVIOUS

LEMMA PoisonKeeps ==
  ASSUME FeedInv, NEW r \in BusReaders, FindPoison(r), UNCHANGED orchVars
  PROVE  FeedInv'
<1>1. PICK over : over = {e \in pending : deliveries[e] > MaxDeliveries}
  OBVIOUS
<1>2. PICK place : place = IF over = {} THEN "reclaim" ELSE "poison"
  OBVIOUS
<1>3. /\ readBatch' = [readBatch EXCEPT ![r] = over] /\ reading' = [reading EXCEPT ![r] = place]
      /\ UNCHANGED <<lastRead, pending, deliveries, letters>>
  BY <1>1, <1>2 DEF FindPoison, MovesTo
<1>4. over \in SUBSET (1..lastRead) /\ place \in BusPlaces
  BY <1>1, <1>2, BusParts DEF BusPlaces
<1>5. /\ reading' \in [BusReaders -> BusPlaces] /\ reading'[r] = place
      /\ \A q \in BusReaders \ {r} : reading'[q] = reading[q]
  BY <1>3, <1>4, Updated, BusParts
<1>6. /\ readBatch' \in [BusReaders -> SUBSET (1..lastRead)] /\ readBatch'[r] = over
      /\ \A q \in BusReaders \ {r} : readBatch'[q] = readBatch[q]
  BY <1>3, <1>4, Updated, BusParts
<1>7. BusTypeOK'
  BY <1>3, <1>5, <1>6, BusParts DEF BusTypeOK
<1>8. /\ lastRead <= lastRead' /\ lastRead' = lastRead
  BY <1>3, BusParts
<1>9. FeedTypeOK'
  BY <1>7, <1>8, OrchTypes
<1>10. \A e \in 1..lastRead' : e \in pending' \/ e \in letters' \/ (e \in 1..lastRead /\ Accounted(e))
  BY <1>3 DEF FeedInv
<1> QED BY <1>2, <1>3, <1>5, <1>6, <1>8, <1>9, <1>10, BusKeeps

\* What reading a batch does to it.
LEMMA DeliverFacts ==
  ASSUME FeedInv, NEW r \in BusReaders, NEW batch, Deliver(r, batch)
  PROVE  /\ deliveries' \in [BusEntries -> 0..(MaxDeliveries + 1)]
         /\ readBatch' = [readBatch EXCEPT ![r] = batch]
<1>1. deliveries' = [e \in BusEntries |->
        IF e \in batch /\ deliveries[e] <= MaxDeliveries THEN deliveries[e] + 1 ELSE deliveries[e]]
  BY DEF Deliver
<1>2. ASSUME NEW e \in BusEntries PROVE deliveries'[e] \in 0..(MaxDeliveries + 1)
  <2>1. deliveries[e] \in 0..(MaxDeliveries + 1) /\ MaxDeliveries \in Nat
    BY BusParts
  <2>2. deliveries'[e] \in {deliveries[e], deliveries[e] + 1}
        /\ (deliveries'[e] = deliveries[e] + 1 => deliveries'[e] = deliveries[e]
                                                  \/ deliveries[e] <= MaxDeliveries)
    BY <1>1
  <2> QED BY <2>1, <2>2
<1> QED BY <1>1, <1>2 DEF Deliver

LEMMA ReclaimKeeps ==
  ASSUME FeedInv, NEW r \in BusReaders, Reclaim(r), UNCHANGED orchVars
  PROVE  FeedInv'
<1>1. PICK batch \in SUBSET pending :
        /\ Deliver(r, batch)
        /\ MovesTo(r, IF batch = {} THEN "read" ELSE "deliver")
  BY DEF Reclaim
<1>2. PICK place : place = IF batch = {} THEN "read" ELSE "deliver"
  OBVIOUS
<1>3. /\ readBatch' = [readBatch EXCEPT ![r] = batch] /\ reading' = [reading EXCEPT ![r] = place]
      /\ deliveries' \in [BusEntries -> 0..(MaxDeliveries + 1)]
      /\ UNCHANGED <<lastRead, pending, letters>>
  BY <1>1, <1>2, DeliverFacts DEF Reclaim, MovesTo
<1>4. batch \in SUBSET (1..lastRead) /\ place \in BusPlaces
  BY <1>1, <1>2, BusParts DEF BusPlaces
<1>5. /\ reading' \in [BusReaders -> BusPlaces] /\ reading'[r] = place
      /\ \A q \in BusReaders \ {r} : reading'[q] = reading[q]
  BY <1>3, <1>4, Updated, BusParts
<1>6. /\ readBatch' \in [BusReaders -> SUBSET (1..lastRead)] /\ readBatch'[r] = batch
      /\ \A q \in BusReaders \ {r} : readBatch'[q] = readBatch[q]
  BY <1>3, <1>4, Updated, BusParts
<1>7. BusTypeOK'
  BY <1>3, <1>5, <1>6, BusParts DEF BusTypeOK
<1>8. /\ lastRead <= lastRead' /\ lastRead' = lastRead
  BY <1>3, BusParts
<1>9. FeedTypeOK'
  BY <1>7, <1>8, OrchTypes
<1>10. \A e \in 1..lastRead' : e \in pending' \/ e \in letters' \/ (e \in 1..lastRead /\ Accounted(e))
  BY <1>3 DEF FeedInv
<1> QED BY <1>2, <1>3, <1>5, <1>6, <1>8, <1>9, <1>10, BusKeeps

LEMMA ReadNewKeeps ==
  ASSUME FeedInv, NEW r \in BusReaders, ReadNew(r), UNCHANGED orchVars
  PROVE  FeedInv'
<1>1. PICK last \in lastRead..BusEvents :
        LET batch == (lastRead + 1)..last
        IN  /\ Deliver(r, batch)
            /\ pending' = pending \cup batch
            /\ lastRead' = last
            /\ MovesTo(r, IF batch = {} THEN "quarantine" ELSE "deliver")
  BY DEF ReadNew
<1>2. PICK batch : batch = (lastRead + 1)..last
  OBVIOUS
<1>3. PICK place : place = IF batch = {} THEN "quarantine" ELSE "deliver"
  OBVIOUS
<1>4. /\ readBatch' = [readBatch EXCEPT ![r] = batch] /\ reading' = [reading EXCEPT ![r] = place]
      /\ deliveries' \in [BusEntries -> 0..(MaxDeliveries + 1)]
      /\ pending' = pending \cup batch /\ lastRead' = last
      /\ letters' = letters
  <2>1. Deliver(r, batch) /\ pending' = pending \cup batch /\ lastRead' = last
        /\ MovesTo(r, place) /\ letters' = letters
    BY <1>1, <1>2, <1>3 DEF ReadNew
  <2> QED BY <2>1, DeliverFacts DEF MovesTo
<1>5. /\ batch \in SUBSET (1..lastRead') /\ place \in BusPlaces
      /\ lastRead <= lastRead' /\ lastRead' \in 0..BusEvents /\ lastRead' \in Nat
      /\ 1..lastRead \subseteq 1..lastRead'
      /\ \A e \in 1..lastRead' : e \in 1..lastRead \/ e \in batch
  <2>1. lastRead \in Nat /\ BusEvents \in Nat /\ last \in Nat /\ lastRead <= last /\ last <= BusEvents
    BY BusParts
  <2> QED BY <1>2, <1>3, <1>4, <2>1 DEF BusPlaces
<1>6. /\ reading' \in [BusReaders -> BusPlaces] /\ reading'[r] = place
      /\ \A q \in BusReaders \ {r} : reading'[q] = reading[q]
  BY <1>4, <1>5, Updated, BusParts
<1>7. /\ readBatch' \in [BusReaders -> SUBSET (1..lastRead')] /\ readBatch'[r] = batch
      /\ \A q \in BusReaders \ {r} : readBatch'[q] = readBatch[q]
  <2>1. readBatch \in [BusReaders -> SUBSET (1..lastRead')]
    BY <1>5, BusParts
  <2> QED BY <1>4, <1>5, <2>1, Updated
<1>8. BusTypeOK'
  <2>1. pending' \subseteq 1..lastRead' /\ letters' \subseteq 1..lastRead'
    BY <1>4, <1>5, BusParts
  <2> QED BY <1>4, <1>5, <1>6, <1>7, <2>1 DEF BusTypeOK
<1>9. FeedTypeOK'
  BY <1>5, <1>8, OrchTypes
<1>10. \A e \in 1..lastRead' : e \in pending' \/ e \in letters' \/ (e \in 1..lastRead /\ Accounted(e))
  BY <1>4, <1>5 DEF FeedInv
<1> QED BY <1>3, <1>4, <1>5, <1>6, <1>7, <1>9, <1>10, BusKeeps

\* A letter is posted: of what is pending, or of an entry that was refused.
LEMMA PostKeeps ==
  ASSUME FeedInv, NEW r \in BusReaders, PostPoison(r) \/ PostGarbled(r), UNCHANGED orchVars
  PROVE  FeedInv'
<1>1. PICK place : place = IF reading[r] = "poison" THEN "poisoned" ELSE "acknowledge"
  OBVIOUS
<1>2. /\ reading' = [reading EXCEPT ![r] = place] /\ readBatch' = readBatch
      /\ \/ reading[r] = "poison" /\ letters' = letters \cup ({First(r)} \cap pending)
         \/ reading[r] = "deliver" /\ letters' = letters \cup {First(r)}
      /\ UNCHANGED <<lastRead, pending, deliveries>>
  BY <1>1 DEF PostPoison, PostGarbled, MovesTo
<1>3. readBatch[r] # {}
  BY <1>2 DEF FeedInv, ReaderInv
<1>4. First(r) \in readBatch[r] /\ First(r) \in 1..lastRead
  BY <1>3, FirstIs
<1>5. /\ reading' \in [BusReaders -> BusPlaces] /\ reading'[r] = place
      /\ \A q \in BusReaders \ {r} : reading'[q] = reading[q]
  <2>1. place \in BusPlaces
    BY <1>1 DEF BusPlaces
  <2> QED BY <1>2, <2>1, Updated, BusParts
<1>6. letters' \subseteq 1..lastRead /\ letters \subseteq letters'
  BY <1>2, <1>4, BusParts
<1>7. BusTypeOK'
  BY <1>2, <1>5, <1>6, BusParts DEF BusTypeOK
<1>8. /\ lastRead <= lastRead' /\ lastRead' = lastRead
  BY <1>2, BusParts
<1>9. FeedTypeOK'
  BY <1>7, <1>8, OrchTypes
<1>10. \A e \in 1..lastRead' : e \in pending' \/ e \in letters' \/ (e \in 1..lastRead /\ Accounted(e))
  BY <1>2 DEF FeedInv
<1>11. \E e : e = First(r)' /\ (e \in letters' \/ Accounted(e))
  <2>1. First(r)' = First(r)
    BY <1>2 DEF First
  <2>2. PICK e : e = First(r)
    OBVIOUS
  <2>3. e \in letters' \/ Accounted(e)
    BY <1>2, <1>4, <2>2 DEF FeedInv
  <2> QED BY <2>1, <2>2, <2>3
<1> QED BY <1>2, <1>3, <1>5, <1>6, <1>8, <1>9, <1>10, <1>11, BusKeeps

LEMMA AckKeeps ==
  ASSUME FeedInv, NEW r \in BusReaders, AckEntry(r), UNCHANGED orchVars
  PROVE  FeedInv'
<1>1. PICK batch : batch = readBatch[r] \ {First(r)}
  OBVIOUS
<1>2. PICK place : place = CASE batch # {} /\ reading[r] = "poisoned"    -> "poison"
                             [] batch = {} /\ reading[r] = "poisoned"    -> "reclaim"
                             [] batch # {} /\ reading[r] = "acknowledge" -> "deliver"
                             [] batch = {} /\ reading[r] = "acknowledge" -> "quarantine"
  OBVIOUS
<1>3. /\ reading[r] \in {"poisoned", "acknowledge"}
      /\ pending' = pending \ {First(r)}
      /\ readBatch' = [readBatch EXCEPT ![r] = batch]
      /\ UNCHANGED <<lastRead, deliveries, letters>>
  BY <1>1 DEF AckEntry, First
<1>4. readBatch[r] # {} /\ Accounted(First(r))
  BY <1>3 DEF FeedInv, ReaderInv
<1>5. First(r) \in readBatch[r] /\ First(r) \in 1..lastRead
  BY <1>4, FirstIs
<1>6. /\ readBatch' \in [BusReaders -> SUBSET (1..lastRead)] /\ readBatch'[r] = batch
      /\ \A q \in BusReaders \ {r} : readBatch'[q] = readBatch[q]
  <2>1. batch \in SUBSET (1..lastRead)
    BY <1>1, BusParts
  <2> QED BY <1>3, <2>1, Updated, BusParts
<1>7. place \in BusPlaces /\ place \in {"poison", "reclaim", "deliver", "quarantine"}
      /\ (place \in {"poison", "deliver"} => batch # {})
  BY <1>2, <1>3 DEF BusPlaces
<1>8. reading' = [reading EXCEPT ![r] = place]
  BY <1>2, <1>6 DEF AckEntry, MovesTo
<1>9. /\ reading' \in [BusReaders -> BusPlaces] /\ reading'[r] = place
      /\ \A q \in BusReaders \ {r} : reading'[q] = reading[q]
  BY <1>7, <1>8, Updated, BusParts
<1>10. BusTypeOK'
  <2>1. pending' \subseteq 1..lastRead
    BY <1>3, BusParts
  <2> QED BY <1>3, <1>6, <1>9, <2>1, BusParts DEF BusTypeOK
<1>11. /\ lastRead <= lastRead' /\ lastRead' = lastRead
  BY <1>3, BusParts
<1>12. FeedTypeOK'
  BY <1>10, <1>11, OrchTypes
<1>13. \A e \in 1..lastRead' : e \in pending' \/ e \in letters' \/ (e \in 1..lastRead /\ Accounted(e))
  <2> SUFFICES ASSUME NEW e \in 1..lastRead, e \notin pending' PROVE Accounted(e)
    BY <1>11
  <2>1. e # First(r) => e \notin pending
    BY <1>3
  <2>2. PICK f : f = First(r)
    OBVIOUS
  <2>3. Accounted(f)
    BY <1>4, <2>2
  <2> QED BY <2>1, <2>2, <2>3 DEF FeedInv
<1> QED BY <1>3, <1>6, <1>7, <1>9, <1>11, <1>12, <1>13, BusKeeps

\* Quotes age, or nothing happens.
LEMMA AgesKeeps ==
  ASSUME FeedInv, Ages \/ UNCHANGED feedVars
  PROVE  FeedInv'
<1>1. /\ old' \in 0..BusEvents
      /\ UNCHANGED <<lastRead, pending, deliveries, letters, reading, readBatch>>
      /\ process' = process /\ stopping' = stopping /\ queue' = queue
      /\ dispatching' = dispatching /\ collected' = collected /\ sessions' = sessions
      /\ failures' = failures /\ accounted' = accounted
  <2>1. old \in 0..BusEvents /\ BusEvents \in Nat
    BY BusAssumption DEF FeedInv, FeedTypeOK
  <2>2. CASE Ages
    BY <2>1, <2>2 DEF Ages, busVars
  <2>3. CASE UNCHANGED feedVars
    BY <2>1, <2>3 DEF feedVars, busVars, orchVars
  <2> QED BY <2>2, <2>3
<1>2. \A q \in BusReaders : Held(q)' = Held(q) /\ First(q)' = First(q)
  BY <1>1, BuffersStay DEF First
<1>3. FeedTypeOK' /\ FeedShape'
  <2>1. BusTypeOK'
    BY <1>1 DEF FeedInv, FeedTypeOK, BusTypeOK
  <2> QED BY <1>1, <1>2, <2>1 DEF FeedInv, FeedTypeOK, FeedShape
<1>4. \A e : Accounted(e) => Accounted(e)'
  BY <1>1, <1>2 DEF Accounted
<1>5. ASSUME NEW q \in BusReaders PROVE ReaderInv(q)'
  <2>1. ReaderInv(q)
    BY DEF FeedInv
  <2>2. Accounted(First(q)) => Accounted(First(q))'
    <3> SUFFICES ASSUME NEW e, e = First(q), Accounted(e) PROVE Accounted(First(q))'
      OBVIOUS
    <3>1. Accounted(e)' /\ e = First(q)'
      BY <1>2, <1>4
    <3> QED BY <3>1 DEF Accounted
  <2> QED BY <1>1, <2>1, <2>2 DEF ReaderInv
<1>6. \A e \in 1..lastRead' : e \in pending' \/ Accounted(e)'
  BY <1>1, <1>4 DEF FeedInv
<1> QED BY <1>3, <1>5, <1>6 DEF FeedInv

-----------------------------------------------------------------------------
OrchTyped ==
  /\ process' \in [BusReaders -> {"up", "ended", "died"}]
  /\ stopping' \in [BusReaders -> BOOLEAN]
  /\ dispatching' \in [BusReaders -> {"batches", "draining", "standing down"}]
  /\ failures' \in [BusReaders -> 0..MaxFailures]
  /\ old' = old

\* A step of process r leaves the others and, of the bus, all but r's place.
BusStays(r) ==
  /\ lastRead' = lastRead /\ pending' = pending /\ deliveries' = deliveries
  /\ letters' = letters /\ readBatch' = readBatch
  /\ reading' \in [BusReaders -> BusPlaces]

OthersStay(r) ==
  \A q \in BusReaders \ {r} :
    /\ queue'[q] = queue[q] /\ collected'[q] = collected[q] /\ sessions'[q] = sessions[q]
    /\ process'[q] = process[q] /\ dispatching'[q] = dispatching[q]
    /\ stopping'[q] = stopping[q] /\ reading'[q] = reading[q]

\* Quotes come into its buffers from its batch and leave them accounted for,
\* all of them if the process has ended in order.
GoesOut(r) ==
  /\ \A e \in Held(r)' : e \in Held(r) \/ e \in readBatch[r]
  /\ \A e \in Held(r) : e \in Held(r)' \/ e \in accounted'
  /\ \A e \in accounted : e \in accounted'
  /\ accounted' \subseteq 1..lastRead
  /\ \/ process'[r] # "ended" \/ dispatching'[r] = "standing down"
     \/ \A e : e \notin Held(r)'

\* It goes on to acknowledge the quote it has put in its queue or passed over.
GoesOn(r) ==
  /\ \/ reading'[r] = reading[r]
     \/ /\ reading[r] = "deliver" /\ reading'[r] \in {"closed", "acknowledge"}
        /\ reading'[r] = "acknowledge" =>
             \E e : e = First(r) /\ (e \in accounted' \/ e \in Held(r)')
        /\ process'[r] # "ended"
  /\ dispatching'[r] = "draining" => stopping'[r] /\ queue'[r] = <<>> /\ collected'[r] = {}

LEMMA ProcessKeeps ==
  ASSUME FeedInv, NEW r \in BusReaders,
         FeedShape', OrchTyped, Len(queue'[r]) <= QueueMax[r],
         BusStays(r), OthersStay(r), GoesOut(r), GoesOn(r)
  PROVE  FeedInv'
<1>1. \A q \in BusReaders \ {r} : Held(q)' = Held(q)
  BY BuffersStay DEF OthersStay
<1>2. /\ lastRead' = lastRead /\ pending' = pending /\ deliveries' = deliveries
      /\ letters' = letters /\ readBatch' = readBatch
      /\ reading' \in [BusReaders -> BusPlaces]
  BY DEF BusStays
<1>3. \A q \in BusReaders : Held(q) \subseteq 1..lastRead /\ readBatch[q] \subseteq 1..lastRead
  <2>1. \A q \in BusReaders : readBatch[q] \subseteq 1..lastRead
    BY BusParts
  <2> QED BY <2>1 DEF FeedInv, FeedTypeOK
<1>4. /\ \A e \in Held(r)' : e \in Held(r) \/ e \in readBatch[r]
      /\ \A e \in Held(r) : e \in Held(r)' \/ e \in accounted'
      /\ \A e \in accounted : e \in accounted'
      /\ accounted' \subseteq 1..lastRead
  BY DEF GoesOut
<1>5. FeedTypeOK'
  <2>1. BusTypeOK'
    BY <1>2, BusParts DEF BusTypeOK
  <2>2. \A q \in BusReaders : Len(queue'[q]) <= QueueMax[q]
    BY DEF FeedInv, FeedTypeOK, OthersStay
  <2>3. \A q \in BusReaders : Held(q)' \subseteq 1..lastRead
    <3> SUFFICES ASSUME NEW q \in BusReaders, NEW e \in Held(q)' PROVE e \in 1..lastRead
      OBVIOUS
    <3>1. CASE q = r
      BY <1>3, <1>4, <3>1
    <3>2. CASE q # r
      BY <1>1, <1>3, <3>2
    <3> QED BY <3>1, <3>2
  <2>4. old' \in 0..BusEvents
    BY DEF FeedInv, FeedTypeOK, OrchTyped
  <2> QED BY <1>2, <1>4, <2>1, <2>2, <2>3, <2>4 DEF FeedTypeOK, OrchTyped
\* What was accounted for is.
<1>6. ASSUME NEW e, Accounted(e) PROVE Accounted(e)'
  <2>1. CASE e \in letters \cup accounted
    BY <1>2, <1>4, <2>1 DEF Accounted
  <2>2. ASSUME NEW q \in BusReaders, e \in Held(q),
               process[q] # "ended" \/ dispatching[q] = "standing down"
        PROVE  Accounted(e)'
    <3>1. CASE q # r
      <4>1. e \in Held(q)' /\ (process'[q] # "ended" \/ dispatching'[q] = "standing down")
        BY <1>1, <2>2, <3>1 DEF OthersStay
      <4> QED BY <4>1 DEF Accounted
    <3>2. CASE q = r /\ e \in Held(r)'
      <4>1. process'[r] # "ended" \/ dispatching'[r] = "standing down"
        BY <3>2 DEF GoesOut
      <4> QED BY <3>2, <4>1 DEF Accounted
    <3>3. CASE q = r /\ e \notin Held(r)'
      <4>1. e \in accounted'
        BY <1>4, <2>2, <3>3
      <4> QED BY <4>1 DEF Accounted
    <3> QED BY <3>1, <3>2, <3>3
  <2> QED BY <1>6, <2>1, <2>2 DEF Accounted
<1>7. \A q \in BusReaders : First(q)' = First(q) /\ ReaderInv(q)
  BY <1>2 DEF First, FeedInv
<1>8. ASSUME NEW q \in BusReaders, reading[q] \in {"acknowledge", "poisoned"}
      PROVE  Accounted(First(q))'
  <2>1. PICK e : e = First(q)
    OBVIOUS
  <2>2. Accounted(e)
    BY <1>7, <1>8, <2>1 DEF ReaderInv
  <2>3. Accounted(e)' /\ e = First(q)'
    BY <1>6, <1>7, <2>1, <2>2
  <2> QED BY <2>3 DEF Accounted
<1>9. ASSUME NEW q \in BusReaders PROVE ReaderInv(q)'
  <2>1. CASE q # r
    <3>1. /\ reading'[q] = reading[q] /\ readBatch'[q] = readBatch[q]
          /\ dispatching'[q] = dispatching[q] /\ stopping'[q] = stopping[q]
          /\ queue'[q] = queue[q] /\ collected'[q] = collected[q]
      BY <1>2, <2>1 DEF OthersStay
    <3> QED BY <1>7, <1>8, <3>1 DEF ReaderInv
  <2>2. dispatching'[r] = "draining" => stopping'[r] /\ queue'[r] = <<>> /\ collected'[r] = {}
    BY DEF GoesOn
  <2>3. CASE q = r /\ reading'[r] = reading[r]
    BY <1>2, <1>7, <1>8, <2>2, <2>3 DEF ReaderInv
  <2>4. CASE /\ q = r /\ reading[r] = "deliver" /\ reading'[r] \in {"closed", "acknowledge"}
             /\ reading'[r] = "acknowledge" =>
                  \E e : e = First(r) /\ (e \in accounted' \/ e \in Held(r)')
             /\ process'[r] # "ended"
    <3>1. reading'[r] = "acknowledge" => Accounted(First(r))'
      <4> SUFFICES ASSUME reading'[r] = "acknowledge" PROVE Accounted(First(r))'
        OBVIOUS
      <4>1. PICK e : e = First(r) /\ (e \in accounted' \/ e \in Held(r)')
        BY <2>4
      <4>2. e = First(r)'
        BY <1>7, <4>1
      <4>3. Accounted(e)'
        BY <2>4, <4>1 DEF Accounted
      <4> QED BY <4>2, <4>3 DEF Accounted
    <3>2. readBatch'[r] # {}
      BY <1>2, <1>7, <2>4 DEF ReaderInv
    <3> QED BY <2>2, <2>4, <3>1, <3>2 DEF ReaderInv
  <2> QED BY <2>1, <2>3, <2>4 DEF GoesOn
<1>10. ASSUME NEW e \in 1..lastRead' PROVE e \in pending' \/ Accounted(e)'
  <2>1. e \in pending \/ Accounted(e)
    BY <1>2 DEF FeedInv
  <2> QED BY <1>2, <1>6, <2>1
<1> QED BY <1>5, <1>9, <1>10 DEF FeedInv

LEMMA OrchParts ==
  ASSUME FeedInv
  PROVE  /\ process \in [BusReaders -> {"up", "ended", "died"}]
         /\ stopping \in [BusReaders -> BOOLEAN]
         /\ dispatching \in [BusReaders -> {"batches", "draining", "standing down"}]
         /\ failures \in [BusReaders -> 0..MaxFailures]
         /\ accounted \subseteq 1..lastRead
         /\ queue \in [BusReaders -> Seq(BusEntries)]
         /\ collected \in [BusReaders -> SUBSET BusEntries]
         /\ sessions \in [BusReaders -> SUBSET SUBSET BusEntries]
         /\ QueueMax \in [BusReaders -> Nat \ {0}]
         /\ MaxFailures \in Nat \ {0}
         /\ \A r \in BusReaders : Len(queue[r]) <= QueueMax[r]
         /\ \A r \in BusReaders : Held(r) \subseteq 1..lastRead
         /\ \A r \in BusReaders : ReaderInv(r)
BY FeedAssumption DEF FeedInv, FeedTypeOK, FeedShape

\* A step that leaves the bus and the reader's place alone.
LEMMA LocalKeeps ==
  ASSUME FeedInv, NEW r \in BusReaders, UNCHANGED busVars,
         FeedShape', OrchTyped, Len(queue'[r]) <= QueueMax[r],
         OthersStay(r), GoesOut(r),
         dispatching'[r] = "draining" => stopping'[r] /\ queue'[r] = <<>> /\ collected'[r] = {}
  PROVE  FeedInv'
<1>1. /\ lastRead' = lastRead /\ pending' = pending /\ deliveries' = deliveries
      /\ letters' = letters /\ readBatch' = readBatch /\ reading' = reading
  BY DEF busVars
<1>2. BusStays(r)
  BY <1>1, BusParts DEF BusStays
<1>3. GoesOn(r)
  BY <1>1 DEF GoesOn
<1> QED BY <1>2, <1>3, ProcessKeeps

LEMMA ShutdownKeeps ==
  ASSUME FeedInv, NEW r \in BusReaders,
         RequestShutdown(r) \/ StopCollecting(r) \/ RunReturns(r) \/ ProcessDies(r)
  PROVE  FeedInv'
<1>1. /\ UNCHANGED busVars /\ queue' = queue /\ collected' = collected /\ sessions' = sessions
      /\ failures' = failures /\ accounted' = accounted /\ old' = old
  BY DEF RequestShutdown, StopCollecting, RunReturns, ProcessDies
<1>2. /\ Held(r)' = Held(r) /\ FeedShape' /\ Len(queue'[r]) <= QueueMax[r]
  BY <1>1, BuffersStay, OrchParts DEF FeedShape
<1>3. OrchTyped
  BY <1>1, OrchParts DEF OrchTyped, RequestShutdown, StopCollecting, RunReturns, ProcessDies
<1>4. \A q \in BusReaders \ {r} : process'[q] = process[q] /\ dispatching'[q] = dispatching[q]
                                 /\ stopping'[q] = stopping[q]
  BY OrchParts DEF RequestShutdown, StopCollecting, RunReturns, ProcessDies
<1>5. reading' = reading /\ lastRead' = lastRead
  BY <1>1 DEF busVars
<1>6. OthersStay(r)
  BY <1>1, <1>4, <1>5 DEF OthersStay
<1>7. dispatching'[r] = "draining" => stopping'[r] /\ queue'[r] = <<>> /\ collected'[r] = {}
  <2>1. dispatching[r] = "draining" => stopping[r] /\ queue[r] = <<>> /\ collected[r] = {}
    BY OrchParts DEF ReaderInv
  <2>2. CASE RequestShutdown(r)
    BY <1>1, <2>1, <2>2, OrchParts DEF RequestShutdown
  <2>3. CASE StopCollecting(r)
    BY <1>1, <2>3, OrchParts DEF StopCollecting, MayEnd
  <2>4. CASE RunReturns(r) \/ ProcessDies(r)
    BY <1>1, <2>1, <2>4 DEF RunReturns, ProcessDies
  <2> QED BY <2>2, <2>3, <2>4
\* A process that has shut down, and has not stood down, holds nothing.
<1>8. process'[r] # "ended" \/ dispatching'[r] = "standing down" \/ \A e : e \notin Held(r)'
  <2>1. CASE RunReturns(r)
    <3>1. /\ sessions[r] = {} /\ dispatching[r] # "batches" /\ dispatching' = dispatching
      BY <2>1 DEF RunReturns
    <3>2. dispatching[r] = "standing down" \/ (queue[r] = <<>> /\ collected[r] = {})
      BY <3>1, OrchParts DEF ReaderInv
    <3>3. CASE queue[r] = <<>> /\ collected[r] = {}
      <4>1. Elems(queue[r]) = {}
        BY <3>3 DEF Elems
      <4> QED BY <1>2, <3>1, <3>3, <4>1, HeldIs
    <3> QED BY <3>1, <3>2, <3>3
  <2>2. CASE RequestShutdown(r) \/ StopCollecting(r)
    BY <2>2 DEF RequestShutdown, StopCollecting, Dispatches
  <2>3. CASE ProcessDies(r)
    BY <2>3, OrchParts DEF ProcessDies
  <2> QED BY <2>1, <2>2, <2>3
<1>9. GoesOut(r)
  BY <1>1, <1>2, <1>5, <1>8, OrchParts DEF GoesOut
<1> QED BY <1>1, <1>2, <1>3, <1>6, <1>7, <1>9, LocalKeeps

LEMMA RunBatchKeeps ==
  ASSUME FeedInv, NEW r \in BusReaders, RunBatch(r)
  PROVE  FeedInv'
<1>1. PICK brake : brake = (failures[r] >= MaxFailures)
  OBVIOUS
<1>2. PICK batch : batch = collected[r]
  OBVIOUS
<1>3. PICK stop : stop = (stopping[r] \/ brake)
  OBVIOUS
<1>4. PICK place : place = IF brake THEN "standing down" ELSE dispatching[r]
  OBVIOUS
<1>5. /\ process[r] = "up" /\ dispatching[r] = "batches"
      /\ sessions' = [sessions EXCEPT ![r] = sessions[r] \cup {batch}]
      /\ collected' = [collected EXCEPT ![r] = {}]
      /\ stopping' = [stopping EXCEPT ![r] = stop]
      /\ dispatching' = [dispatching EXCEPT ![r] = place]
      /\ UNCHANGED busVars /\ process' = process /\ queue' = queue /\ failures' = failures
      /\ accounted' = accounted /\ old' = old
  BY <1>1, <1>2, <1>3, <1>4 DEF RunBatch, Dispatches
<1>6. /\ stop \in BOOLEAN /\ place \in {"batches", "standing down"}
      /\ sessions[r] \cup {batch} \in SUBSET SUBSET BusEntries
  <2>1. stop \in BOOLEAN
    BY <1>3
  <2>2. place \in {"batches", "standing down"}
    BY <1>4, <1>5
  <2>3. batch \in SUBSET BusEntries /\ sessions[r] \in SUBSET SUBSET BusEntries
    BY <1>2, OrchParts
  <2> QED BY <2>1, <2>2, <2>3
<1>7. /\ sessions' \in [BusReaders -> SUBSET SUBSET BusEntries]
      /\ sessions'[r] = sessions[r] \cup {batch}
      /\ \A q \in BusReaders \ {r} : sessions'[q] = sessions[q]
  BY <1>5, <1>6, OrchParts, Updated
<1>8. /\ collected' \in [BusReaders -> SUBSET BusEntries] /\ collected'[r] = {}
      /\ \A q \in BusReaders \ {r} : collected'[q] = collected[q]
  <2>1. {} \in SUBSET BusEntries
    OBVIOUS
  <2> QED BY <1>5, <2>1, OrchParts, Updated
<1>9. /\ stopping' \in [BusReaders -> BOOLEAN]
      /\ \A q \in BusReaders \ {r} : stopping'[q] = stopping[q]
  BY <1>5, <1>6, OrchParts, Updated
<1>10. /\ dispatching' \in [BusReaders -> {"batches", "draining", "standing down"}]
       /\ dispatching'[r] = place
       /\ \A q \in BusReaders \ {r} : dispatching'[q] = dispatching[q]
  <2>1. place \in {"batches", "draining", "standing down"}
    BY <1>6
  <2> QED BY <1>5, <2>1, OrchParts, Updated
<1>11. FeedShape' /\ OrchTyped /\ Len(queue'[r]) <= QueueMax[r]
  BY <1>5, <1>7, <1>8, <1>9, <1>10, OrchParts DEF FeedShape, OrchTyped
<1>12. reading' = reading /\ lastRead' = lastRead
  BY <1>5 DEF busVars
<1>13. OthersStay(r)
  BY <1>5, <1>7, <1>8, <1>9, <1>10, <1>12 DEF OthersStay
<1>14. \A e : e \in Held(r)' <=> e \in Held(r)
  <2>1. Held(r)' = Elems(queue[r]) \cup {} \cup UNION (sessions[r] \cup {batch})
    BY <1>5, <1>7, <1>8 DEF Held, Elems
  <2> QED BY <1>2, <2>1, HeldIs
<1>15. GoesOut(r)
  <2>1. process'[r] # "ended"
    BY <1>5
  <2> QED BY <1>5, <1>12, <1>14, <2>1, OrchParts DEF GoesOut
<1>16. dispatching'[r] # "draining"
  BY <1>6, <1>10
<1> QED BY <1>5, <1>11, <1>13, <1>15, <1>16, LocalKeeps

LEMMA EvaluateKeeps ==
  ASSUME FeedInv, NEW r \in BusReaders, NEW session \in sessions[r], EvaluateBatch(r, session)
  PROVE  FeedInv'
<1>1. /\ process[r] = "up"
      /\ sessions' = [sessions EXCEPT ![r] = sessions[r] \ {session}]
      /\ UNCHANGED busVars /\ process' = process /\ stopping' = stopping /\ queue' = queue
      /\ dispatching' = dispatching /\ collected' = collected /\ old' = old
      /\ accounted' = accounted \cup session
  BY DEF EvaluateBatch
<1>2. \/ failures' = [failures EXCEPT ![r] = 0]
      \/ failures' = [failures EXCEPT ![r] = Min({failures[r] + 1, MaxFailures})]
      \/ failures' = failures
  BY DEF EvaluateBatch
<1>3. /\ sessions' \in [BusReaders -> SUBSET SUBSET BusEntries]
      /\ sessions'[r] = sessions[r] \ {session}
      /\ \A q \in BusReaders \ {r} : sessions'[q] = sessions[q]
  <2>1. sessions[r] \ {session} \in SUBSET SUBSET BusEntries
    BY OrchParts
  <2> QED BY <1>1, <2>1, OrchParts, Updated
<1>4. failures' \in [BusReaders -> 0..MaxFailures]
  <2>1. MaxFailures \in Nat /\ failures[r] \in 0..MaxFailures /\ 0 \in 0..MaxFailures
    <3>1. MaxFailures \in Nat /\ failures[r] \in 0..MaxFailures
      BY OrchParts
    <3> QED BY <3>1
  <2>2. Min({failures[r] + 1, MaxFailures}) \in 0..MaxFailures
    <3>1. PICK f : f = failures[r] + 1
      OBVIOUS
    <3>2. f \in Nat /\ (f <= MaxFailures \/ MaxFailures <= f)
      BY <2>1, <3>1
    <3>3. Min({f, MaxFailures}) \in {x \in {f, MaxFailures} : \A y \in {f, MaxFailures} : x <= y}
      BY <2>1, <3>2 DEF Min
    <3>4. Min({f, MaxFailures}) \in Nat /\ Min({f, MaxFailures}) <= MaxFailures
      BY <2>1, <3>2, <3>3
    <3> QED BY <2>1, <3>1, <3>4
  <2>3. CASE failures' = [failures EXCEPT ![r] = 0]
    BY <2>1, <2>3, OrchParts, Updated
  <2>4. CASE failures' = [failures EXCEPT ![r] = Min({failures[r] + 1, MaxFailures})]
    BY <2>2, <2>4, OrchParts, Updated
  <2>5. CASE failures' = failures
    BY <2>5, OrchParts
  <2> QED BY <1>2, <2>3, <2>4, <2>5
<1>5. FeedShape' /\ OrchTyped /\ Len(queue'[r]) <= QueueMax[r]
  BY <1>1, <1>3, <1>4, OrchParts DEF FeedShape, OrchTyped
<1>6. reading' = reading /\ lastRead' = lastRead
  BY <1>1 DEF busVars
<1>7. OthersStay(r)
  BY <1>1, <1>3, <1>6 DEF OthersStay
\* No quote leaves but the session's.
<1>8. /\ \A e \in session : e \in Held(r)
      /\ \A e \in Held(r)' : e \in Held(r)
      /\ \A e \in Held(r) : e \in Held(r)' \/ e \in session
  <2>1. Held(r)' = Elems(queue[r]) \cup collected[r] \cup UNION (sessions[r] \ {session})
    BY <1>1, <1>3 DEF Held, Elems
  <2>2. Held(r) = Elems(queue[r]) \cup collected[r] \cup UNION sessions[r]
    BY HeldIs
  <2> QED BY <2>1, <2>2
<1>9. GoesOut(r)
  <2>1. process'[r] # "ended"
    BY <1>1
  <2>2. accounted' \subseteq 1..lastRead
    BY <1>1, <1>8, OrchParts
  <2> QED BY <1>1, <1>6, <1>8, <2>1, <2>2 DEF GoesOut
<1>10. dispatching'[r] = "draining" => stopping'[r] /\ queue'[r] = <<>> /\ collected'[r] = {}
  BY <1>1, OrchParts DEF ReaderInv
<1> QED BY <1>1, <1>5, <1>7, <1>9, <1>10, LocalKeeps

LEMMA CollectKeeps ==
  ASSUME FeedInv, NEW r \in BusReaders, Collect(r)
  PROVE  FeedInv'
<1>1. PICK e : e = Head(queue[r])
  OBVIOUS
<1>2. PICK gone : gone = {c \in collected[r] : OpportunityOf[c] = OpportunityOf[e]}
  OBVIOUS
<1>3. PICK rest : rest = Tail(queue[r])
  OBVIOUS
<1>4. PICK batch : batch = (collected[r] \ gone) \cup {e}
  OBVIOUS
<1>5. /\ process[r] = "up" /\ dispatching[r] = "batches" /\ queue[r] # <<>>
      /\ collected' = [collected EXCEPT ![r] = batch]
      /\ accounted' = accounted \cup gone
      /\ queue' = [queue EXCEPT ![r] = rest]
      /\ UNCHANGED busVars /\ process' = process /\ stopping' = stopping
      /\ dispatching' = dispatching /\ sessions' = sessions /\ failures' = failures
      /\ old' = old
  BY <1>1, <1>2, <1>3, <1>4 DEF Collect, Dispatches
<1>6. /\ rest \in Seq(BusEntries) /\ e \in BusEntries
      /\ Len(rest) = Len(queue[r]) - 1 /\ Len(queue[r]) \in Nat
      /\ Elems(queue[r]) = Elems(rest) \cup {e}
  <2>1. queue[r] \in Seq(BusEntries)
    BY OrchParts
  <2> QED BY <1>1, <1>3, <1>5, <2>1, QueueShrinks
<1>7. /\ collected' \in [BusReaders -> SUBSET BusEntries] /\ collected'[r] = batch
      /\ \A q \in BusReaders \ {r} : collected'[q] = collected[q]
  <2>1. batch \in SUBSET BusEntries
    BY <1>4, <1>6, OrchParts
  <2> QED BY <1>5, <2>1, OrchParts, Updated
<1>8. /\ queue' \in [BusReaders -> Seq(BusEntries)] /\ queue'[r] = rest
      /\ \A q \in BusReaders \ {r} : queue'[q] = queue[q]
  BY <1>5, <1>6, OrchParts, Updated
<1>9. Len(queue'[r]) <= QueueMax[r]
  <2>1. QueueMax[r] \in Nat /\ Len(queue[r]) <= QueueMax[r]
    BY OrchParts
  <2>2. Len(queue'[r]) = Len(queue[r]) - 1 /\ Len(queue[r]) \in Nat
    BY <1>6, <1>8
  <2> QED BY <2>1, <2>2
<1>10. FeedShape' /\ OrchTyped
  BY <1>5, <1>7, <1>8, OrchParts DEF FeedShape, OrchTyped
<1>11. reading' = reading /\ lastRead' = lastRead
  BY <1>5 DEF busVars
<1>12. OthersStay(r)
  BY <1>5, <1>7, <1>8, <1>11 DEF OthersStay
<1>13. /\ \A x \in gone : x \in Held(r)
       /\ \A x \in Held(r)' : x \in Held(r)
       /\ \A x \in Held(r) : x \in Held(r)' \/ x \in gone
  <2>1. Held(r)' = Elems(rest) \cup batch \cup UNION sessions[r]
    BY <1>5, <1>7, <1>8 DEF Held, Elems
  <2>2. Held(r) = Elems(queue[r]) \cup collected[r] \cup UNION sessions[r]
    BY HeldIs
  <2>3. gone \subseteq collected[r]
    BY <1>2
  <2> QED BY <1>4, <1>6, <2>1, <2>2, <2>3
<1>14. GoesOut(r)
  <2>1. accounted' \subseteq 1..lastRead
    BY <1>5, <1>13, OrchParts
  <2>2. process'[r] # "ended"
    BY <1>5
  <2> QED BY <1>5, <1>11, <1>13, <2>1, <2>2 DEF GoesOut
<1>15. dispatching'[r] # "draining"
  BY <1>5
<1> QED BY <1>5, <1>9, <1>10, <1>12, <1>14, <1>15, LocalKeeps

LEMMA HandleKeeps ==
  ASSUME FeedInv, NEW r \in BusReaders, HandleMessage(r)
  PROVE  FeedInv'
<1>1. PICK e : e = First(r)
  OBVIOUS
<1>2. PICK full : full = (Len(queue[r]) = QueueMax[r])
  OBVIOUS
<1>3. PICK room : room = IF full THEN Tail(queue[r]) ELSE queue[r]
  OBVIOUS
<1>4. PICK shed : shed = IF full THEN {Head(queue[r])} ELSE {}
  OBVIOUS
<1>5. /\ process[r] = "up" /\ reading[r] = "deliver"
      /\ lastRead' = lastRead /\ pending' = pending /\ deliveries' = deliveries
      /\ letters' = letters /\ readBatch' = readBatch /\ old' = old
      /\ process' = process /\ stopping' = stopping /\ dispatching' = dispatching
      /\ collected' = collected /\ sessions' = sessions /\ failures' = failures
  BY DEF HandleMessage
<1>6. \/ /\ reading' = [reading EXCEPT ![r] = "closed"]
         /\ queue' = queue /\ accounted' = accounted
      \/ /\ ~stopping[r]
         /\ queue' = [queue EXCEPT ![r] = Append(room, e)] /\ accounted' = accounted \cup shed
         /\ reading' = [reading EXCEPT ![r] = "acknowledge"]
      \/ /\ accounted' = accounted \cup {e}
         /\ queue' = queue /\ reading' = [reading EXCEPT ![r] = "acknowledge"]
  BY <1>1, <1>2, <1>3, <1>4 DEF HandleMessage, MovesTo, Offer
<1>7. ReaderInv(r)
  BY OrchParts
<1>8. e \in readBatch[r] /\ e \in 1..lastRead /\ e \in BusEntries
  <2>1. readBatch[r] # {}
    BY <1>5, <1>7 DEF ReaderInv
  <2> QED BY <1>1, <2>1, FirstIs
<1>9. reading' \in [BusReaders -> BusPlaces] /\ reading'[r] \in {"closed", "acknowledge"}
      /\ \A q \in BusReaders \ {r} : reading'[q] = reading[q]
  <2>1. "closed" \in BusPlaces /\ "acknowledge" \in BusPlaces
    BY DEF BusPlaces
  <2>2. CASE reading' = [reading EXCEPT ![r] = "closed"]
    BY <2>1, <2>2, BusParts, Updated
  <2>3. CASE reading' = [reading EXCEPT ![r] = "acknowledge"]
    BY <2>1, <2>3, BusParts, Updated
  <2> QED BY <1>6, <2>2, <2>3
<1>10. BusStays(r) /\ OrchTyped
  BY <1>5, <1>9, OrchParts DEF BusStays, OrchTyped
<1>11. dispatching[r] = "draining" => stopping[r] /\ queue[r] = <<>> /\ collected[r] = {}
  BY <1>7 DEF ReaderInv
\* A quote that is dropped, or left pending at the shutdown.
<1>12. CASE /\ queue' = queue
            /\ \/ accounted' = accounted /\ reading'[r] = "closed"
               \/ accounted' = accounted \cup {e}
  <2>1. Held(r)' = Held(r)
    BY <1>5, <1>12, BuffersStay
  <2>2. FeedShape' /\ Len(queue'[r]) <= QueueMax[r]
    BY <1>5, <1>12, OrchParts DEF FeedShape
  <2>3. OthersStay(r)
    BY <1>5, <1>9, <1>12 DEF OthersStay
  <2>4. GoesOut(r)
    <3>1. accounted' \subseteq 1..lastRead /\ \A x \in accounted : x \in accounted'
      BY <1>8, <1>12, OrchParts
    <3> QED BY <1>5, <2>1, <3>1 DEF GoesOut
  <2>5. GoesOn(r)
    <3>1. reading'[r] = "acknowledge" => \E x : x = First(r) /\ x \in accounted'
      BY <1>1, <1>12
    <3> QED BY <1>5, <1>9, <1>11, <1>12, <3>1 DEF GoesOn
  <2> QED BY <1>10, <2>2, <2>3, <2>4, <2>5, ProcessKeeps
\* A quote that is offered.
<1>13. CASE /\ ~stopping[r]
            /\ queue' = [queue EXCEPT ![r] = Append(room, e)] /\ accounted' = accounted \cup shed
            /\ reading' = [reading EXCEPT ![r] = "acknowledge"]
  <2>1. queue[r] \in Seq(BusEntries) /\ QueueMax[r] \in Nat \ {0} /\ Len(queue[r]) <= QueueMax[r]
    BY OrchParts
  <2>2. full => queue[r] # <<>>
    BY <1>2, <2>1
  <2>3. /\ room \in Seq(BusEntries) /\ Len(room) + 1 <= QueueMax[r]
        /\ Elems(queue[r]) = Elems(room) \cup shed
    <3>1. CASE full
      <4>1. /\ room = Tail(queue[r]) /\ shed = {Head(queue[r])} /\ Len(queue[r]) = QueueMax[r]
        BY <1>2, <1>3, <1>4, <3>1
      <4>2. /\ Tail(queue[r]) \in Seq(BusEntries) /\ Len(Tail(queue[r])) = Len(queue[r]) - 1
            /\ Elems(queue[r]) = Elems(Tail(queue[r])) \cup {Head(queue[r])}
        BY <2>1, <2>2, <3>1, QueueShrinks
      <4>3. Len(room) + 1 <= QueueMax[r]
        BY <2>1, <4>1, <4>2
      <4> QED BY <4>1, <4>2, <4>3
    <3>2. CASE ~full
      <4>1. room = queue[r] /\ shed = {} /\ Len(queue[r]) # QueueMax[r]
        BY <1>2, <1>3, <1>4, <3>2
      <4>2. Len(queue[r]) \in Nat
        BY <2>1, LenProperties
      <4>3. Len(room) + 1 <= QueueMax[r]
        BY <2>1, <4>1, <4>2
      <4> QED BY <2>1, <4>1, <4>3
    <3> QED BY <3>1, <3>2
  <2>4. PICK grown : grown = Append(room, e)
    OBVIOUS
  <2>5. /\ grown \in Seq(BusEntries) /\ Len(grown) = Len(room) + 1
        /\ Elems(grown) = Elems(room) \cup {e}
    BY <1>8, <2>3, <2>4, QueueGrows
  <2>6. /\ queue' \in [BusReaders -> Seq(BusEntries)] /\ queue'[r] = grown
        /\ \A q \in BusReaders \ {r} : queue'[q] = queue[q]
    <3>1. queue \in [BusReaders -> Seq(BusEntries)]
      BY OrchParts
    <3> QED BY <1>13, <2>4, <2>5, <3>1, Updated
  <2>7. FeedShape' /\ Len(queue'[r]) <= QueueMax[r]
    BY <1>5, <2>3, <2>5, <2>6, OrchParts DEF FeedShape
  <2>8. OthersStay(r)
    BY <1>5, <1>9, <2>6 DEF OthersStay
  <2>9. /\ \A x \in shed : x \in Held(r)
        /\ \A x \in Held(r)' : x \in Held(r) \/ x = e
        /\ \A x \in Held(r) : x \in Held(r)' \/ x \in shed
        /\ e \in Held(r)'
    <3>1. Held(r)' = Elems(grown) \cup collected[r] \cup UNION sessions[r]
      BY <1>5, <2>6 DEF Held, Elems
    <3>2. Held(r) = Elems(queue[r]) \cup collected[r] \cup UNION sessions[r]
      BY HeldIs
    <3> QED BY <2>3, <2>5, <3>1, <3>2
  <2>10. GoesOut(r)
    <3>1. accounted' \subseteq 1..lastRead
      BY <1>13, <2>9, OrchParts
    <3> QED BY <1>5, <1>8, <1>13, <2>9, <3>1 DEF GoesOut
  <2>11. GoesOn(r)
    <3>1. reading'[r] = "acknowledge"
      BY <1>13, BusParts
    <3>2. dispatching'[r] # "draining"
      BY <1>5, <1>11, <1>13
    <3> QED BY <1>1, <1>5, <2>9, <3>1, <3>2 DEF GoesOn
  <2> QED BY <1>10, <2>7, <2>8, <2>10, <2>11, ProcessKeeps
<1> QED BY <1>6, <1>9, <1>12, <1>13

LEMMA FeedInvInit == FeedInit => FeedInv
<1> SUFFICES ASSUME FeedInit PROVE FeedInv
  OBVIOUS
<1>1. BusInit /\ BusEvents \in Nat /\ MaxDeliveries \in Nat
  BY BusAssumption DEF FeedInit
<1>2. /\ process = [r \in BusReaders |-> "up"] /\ old = 0
      /\ stopping = [r \in BusReaders |-> FALSE]
      /\ queue = [r \in BusReaders |-> <<>>]
      /\ dispatching = [r \in BusReaders |-> "batches"]
      /\ collected = [r \in BusReaders |-> {}]
      /\ sessions = [r \in BusReaders |-> {}]
      /\ failures = [r \in BusReaders |-> 0]
      /\ accounted = {}
  BY DEF FeedInit
<1>3. BusTypeOK
  <2>1. lastRead \in 0..BusEvents /\ pending \subseteq 1..lastRead /\ letters = {}
    BY <1>1, BusAssumption DEF BusInit
  <2>2. deliveries \in [BusEntries -> 0..(MaxDeliveries + 1)]
    BY <1>1 DEF BusInit
  <2>3. reading \in [BusReaders -> BusPlaces] /\ readBatch \in [BusReaders -> SUBSET (1..lastRead)]
    BY <1>1 DEF BusInit, BusPlaces
  <2> QED BY <2>1, <2>2, <2>3 DEF BusTypeOK
<1>4. \A r \in BusReaders : Held(r) = {}
  <2> SUFFICES ASSUME NEW r \in BusReaders PROVE Held(r) = {}
    OBVIOUS
  <2>1. Elems(queue[r]) = {}
    BY <1>2 DEF Elems
  <2> QED BY <1>2, <2>1, HeldIs
<1>5. FeedShape
  BY <1>2 DEF FeedShape
<1>6. FeedTypeOK
  <2>1. MaxFailures \in Nat /\ \A r \in BusReaders : Len(queue[r]) <= QueueMax[r]
    BY <1>2, FeedAssumption
  <2> QED BY <1>1, <1>2, <1>3, <1>4, <2>1 DEF FeedTypeOK
<1>7. ASSUME NEW r \in BusReaders PROVE ReaderInv(r)
  <2>1. reading[r] = "quarantine" /\ dispatching[r] = "batches"
    BY <1>1, <1>2 DEF BusInit
  <2> QED BY <2>1 DEF ReaderInv
<1>8. \A e \in 1..lastRead : e \in pending
  BY <1>1 DEF BusInit
<1> QED BY <1>5, <1>6, <1>7, <1>8 DEF FeedInv

LEMMA FeedInvNext == FeedInv /\ [FeedNext]_feedVars => FeedInv'
<1> SUFFICES ASSUME FeedInv, [FeedNext]_feedVars PROVE FeedInv'
  OBVIOUS
<1>1. ASSUME Ages \/ UNCHANGED feedVars PROVE FeedInv'
  BY <1>1, AgesKeeps
<1>2. ASSUME NEW r \in BusReaders, BusStep(r) PROVE FeedInv'
  BY <1>2, PoisonKeeps, ReclaimKeeps, ReadNewKeeps, PostKeeps, AckKeeps DEF BusStep
<1>3. ASSUME NEW r \in BusReaders, HandleMessage(r) PROVE FeedInv'
  BY <1>3, HandleKeeps
<1>4. ASSUME NEW r \in BusReaders, Collect(r) PROVE FeedInv'
  BY <1>4, CollectKeeps
<1>5. ASSUME NEW r \in BusReaders, RunBatch(r) PROVE FeedInv'
  BY <1>5, RunBatchKeeps
<1>6. ASSUME NEW r \in BusReaders, NEW session \in sessions[r], EvaluateBatch(r, session)
      PROVE  FeedInv'
  BY <1>6, EvaluateKeeps
<1>7. ASSUME NEW r \in BusReaders,
             RequestShutdown(r) \/ StopCollecting(r) \/ RunReturns(r) \/ ProcessDies(r)
      PROVE  FeedInv'
  BY <1>7, ShutdownKeeps
<1> QED BY <1>1, <1>2, <1>3, <1>4, <1>5, <1>6, <1>7 DEF FeedNext

\* The invariant of the feed holds.
THEOREM FeedInvariant == FeedSpec => []FeedInv
BY FeedInvInit, FeedInvNext, PTL DEF FeedSpec

\* ShutdownLosesNoQuote (orchestrator.py:332): what has been acknowledged was
\* evaluated or passed over, is a dead letter, or is in a buffer, and not in that
\* of a process that has ended after draining.
THEOREM ShutdownIsClean == FeedSpec => []ShutdownLosesNoQuote
<1>1. FeedInv => ShutdownLosesNoQuote
  <2> SUFFICES ASSUME FeedInv, NEW e \in 1..lastRead
               PROVE  \/ e \in pending \cup letters \cup accounted
                      \/ \E r \in BusReaders :
                           /\ e \in Held(r)
                           /\ process[r] # "ended" \/ dispatching[r] = "standing down"
    BY DEF ShutdownLosesNoQuote
  <2>1. e \in pending \/ Accounted(e)
    BY DEF FeedInv
  <2> QED BY <2>1 DEF Accounted
<1> QED BY <1>1, FeedInvariant, PTL

\* FeedTypeOK: every variable of the feed stays in its domain.
THEOREM FeedTypeCorrect == FeedSpec => []FeedTypeOK
<1>1. FeedInv => FeedTypeOK
  BY DEF FeedInv
<1> QED BY <1>1, FeedInvariant, PTL
=============================================================================
