---------------------------- MODULE ControlProofs ----------------------------
(***************************************************************************)
(* Proofs about the services that decide whether an order may leave, and   *)
(* with what: KillSwitch, BotCapital, SessionCache and HiveMerge.  They    *)
(* share no state; each has its part below.                                *)
(***************************************************************************)
EXTENDS KillSwitch, BotCapital, SessionCache, HiveMerge, SequenceTheorems, TLAPS
-----------------------------------------------------------------------------
(***************************************************************************)
(* Proofs about KillSwitch, for any number of requests, chats, orders,     *)
(* limits and failing calls.                                               *)
(*                                                                         *)
(* A stop can only be ended by a commit whose new limit differs from the   *)
(* one its session loaded, which is a PATCH of that field or a /resume;    *)
(* LiftsAreConfirmed adds that a /resume on its way to its commit carries  *)
(* a code.  BarredIsStopped is what an order that met a stop waits behind. *)
(***************************************************************************)

BarredIsStopped == \A o \in KsOrders : barred[o] => settings.limit = 0

LiftsAreConfirmed ==
  \A h \in KsHandlers :
    desk[h].op = "resume" /\ desk[h].pc \in {"code", "burn", "load", "commit"} =>
      desk[h].code # 0

KsInv ==
  /\ KsTypeOK
  /\ BarredIsStopped
  /\ StopBarsOrders
  /\ LiftsAreConfirmed

\* What a handler keeps when it goes on, or is done.
Confirmed(d) ==
  d.op = "resume" /\ d.pc \in {"code", "burn", "load", "commit"} => d.code # 0

-----------------------------------------------------------------------------
LEMMA FreeIs ==
  /\ NoSnap \in KsRows /\ Free \in KsDesks
  /\ Free.op = "none"
  BY KsAssumption DEF KsAssumption, NoSnap, Free, KsRows, KsDesks, KsOps, KsPcs

\* One desk changes, to one that is in its domain and confirmed.
LEMMA DeskMoves ==
  ASSUME KsInv, NEW h \in KsHandlers, NEW d \in KsDesks, Confirmed(d),
         desk' = [desk EXCEPT ![h] = d]
  PROVE  desk' \in [KsHandlers -> KsDesks] /\ LiftsAreConfirmed'
  <1>1. desk \in [KsHandlers -> KsDesks]
    BY DEF KsInv, KsTypeOK
  <1>2. desk' \in [KsHandlers -> KsDesks] /\ desk'[h] = d
    BY <1>1
  <1>3. \A g \in KsHandlers \ {h} : desk'[g] = desk[g]
    BY <1>1
  <1>4. LiftsAreConfirmed'
    BY <1>2, <1>3 DEF KsInv, LiftsAreConfirmed, Confirmed
  <1>5. QED  BY <1>2, <1>4

LEMMA SitsKeeps ==
  ASSUME KsInv, NEW h \in KsHandlers, NEW pc \in KsPcs, NEW row \in KsRows,
         NEW snap \in KsRows, NEW code \in Nat, Sits(h, pc, row, snap, code),
         desk[h].op = "resume" /\ pc \in {"code", "burn", "load", "commit"} => code # 0
  PROVE  desk' \in [KsHandlers -> KsDesks] /\ LiftsAreConfirmed'
  <1> DEFINE d == [op |-> desk[h].op, pc |-> pc, chat |-> desk[h].chat, row |-> row,
                   snap |-> snap, fields |-> desk[h].fields, code |-> code]
  <1>1. desk[h] \in KsDesks
    BY DEF KsInv, KsTypeOK
  <1>2. d \in KsDesks
    BY <1>1 DEF KsDesks
  <1>3. Confirmed(d)
    BY DEF Confirmed
  <1>4. desk' = [desk EXCEPT ![h] = d]
    BY DEF Sits
  <1> HIDE DEF d
  <1>5. QED  BY <1>2, <1>3, <1>4, DeskMoves

LEMMA GotoKeeps ==
  ASSUME KsInv, NEW h \in KsHandlers, NEW pc \in KsPcs, Goto(h, pc),
         desk[h].op = "resume" /\ pc \in {"code", "burn", "load", "commit"} => desk[h].code # 0
  PROVE  desk' \in [KsHandlers -> KsDesks] /\ LiftsAreConfirmed'
  <1>1. desk[h].row \in KsRows /\ desk[h].snap \in KsRows /\ desk[h].code \in Nat
    BY DEF KsInv, KsTypeOK, KsDesks
  <1>2. CASE pc \in Over
    <2>1. [Free EXCEPT !.pc = pc] \in KsDesks /\ Confirmed([Free EXCEPT !.pc = pc])
      BY FreeIs DEF KsDesks, Confirmed
    <2>2. desk' = [desk EXCEPT ![h] = [Free EXCEPT !.pc = pc]]
      BY <1>2 DEF Goto
    <2>3. QED  BY <2>1, <2>2, DeskMoves
  <1>3. CASE pc = "refresh"
    <2>1. PICK snap \in KsRows : Sits(h, pc, NoSnap, snap, 0)
      BY <1>1, <1>3, FreeIs DEF Goto, Over
    <2>2. QED  BY <1>3, <2>1, FreeIs, SitsKeeps, 0 \in Nat
  <1>4. CASE pc \notin Over \cup {"refresh"}
    <2>1. Sits(h, pc, desk[h].row, desk[h].snap, desk[h].code)
      BY <1>4 DEF Goto
    <2>2. QED  BY <1>1, <2>1, SitsKeeps
  <1>5. QED  BY <1>2, <1>3, <1>4

\* What a commit leaves in the row is of its domain.
LEMMA FlushIs ==
  ASSUME KsInv, NEW loaded \in KsRows, NEW new \in KsRows
  PROVE  /\ Flush(loaded, new) \in KsRows
         /\ Flush(loaded, new).limit = IF new.limit # loaded.limit THEN new.limit
                                       ELSE settings.limit
  BY DEF KsInv, KsTypeOK, KsRows, Flush

\* A commit that lets no order past the stop it met.
LEMMA UnbarKeeps ==
  ASSUME KsInv, Unbar, settings' \in KsRows, gate' = gate
  PROVE  /\ barred' \in [KsOrders -> BOOLEAN]
         /\ BarredIsStopped' /\ StopBarsOrders'
  BY DEF KsInv, KsTypeOK, BarredIsStopped, StopBarsOrders, Unbar

\* The rest of the state, when a step leaves the row and the orders alone.
LEMMA RestKeeps ==
  ASSUME KsInv, UNCHANGED <<settings, guard>>,
         desk' \in [KsHandlers -> KsDesks], LiftsAreConfirmed',
         killFlag' \in BOOLEAN, haltSnap' \in KsRows, haltLog' \in KsRows,
         resumeCode' \in [by : Nat, chat : KsChats \cup {"none"}],
         losses' \in 0..KsLosses
  PROVE  KsInv'
  BY DEF KsInv, KsTypeOK, BarredIsStopped, StopBarsOrders, guard

LEMMA KsInvInit == KsInit => KsInv
  <1> SUFFICES ASSUME KsInit PROVE KsInv
    OBVIOUS
  <1> USE KsAssumption DEF KsAssumption
  <1>1. settings \in KsRows
    BY DEF KsInit, KsRows
  <1>2. /\ haltSnap \in KsRows /\ haltLog \in KsRows
        /\ desk = [h \in KsHandlers |-> Free] /\ desk \in [KsHandlers -> KsDesks]
    BY FreeIs DEF KsInit
  <1>3. resumeCode \in [by : Nat, chat : KsChats \cup {"none"}]
    BY DEF KsInit, NoCode
  <1>4. /\ gate = [o \in KsOrders |-> "idle"]
        /\ barred = [o \in KsOrders |-> FALSE]
        /\ losses = 0
    BY DEF KsInit
  <1>9. killFlag \in BOOLEAN
    BY Zenon DEF KsInit
  <1>5. KsTypeOK
    <2>1. gate \in [KsOrders -> {"idle", "row", "passed"}] /\ barred \in [KsOrders -> BOOLEAN]
      BY <1>4
    <2>2. QED  BY <1>1, <1>2, <1>3, <1>4, <1>9, <2>1 DEF KsTypeOK
  <1>6. LiftsAreConfirmed
    BY <1>2, FreeIs DEF LiftsAreConfirmed
  <1>7. BarredIsStopped /\ StopBarsOrders
    BY <1>4 DEF BarredIsStopped, StopBarsOrders
  <1>8. QED  BY <1>5, <1>6, <1>7 DEF KsInv

-----------------------------------------------------------------------------
\* A request arrives.
LEMMA Arriving ==
  ASSUME KsInv, NEW h \in KsHandlers,
         \/ PanelStop(h)
         \/ \E c \in KsChats : HaltBegin(h, c)
         \/ \E c \in KsChats, code \in 0..h-1 : ResumeBegin(h, c, code)
         \/ \E fields \in {{"limit"}, {"bots"}}, l \in KsLimits, b \in BOOLEAN :
              PatchBegin(h, fields, IF "limit" \in fields THEN l ELSE 0,
                         "bots" \in fields /\ b)
  PROVE  KsInv' /\ UNCHANGED settings
  <1> DEFINE Rest == UNCHANGED <<settings, killFlag, halts, resumeCode, guard, losses>>
             Sat(d) == d \in KsDesks /\ Confirmed(d) /\ desk' = [desk EXCEPT ![h] = d]
  <1>1. settings \in KsRows /\ NoSnap \in KsRows
    BY FreeIs DEF KsInv, KsTypeOK
  <1>2. ASSUME PanelStop(h) PROVE Rest /\ \E d : Sat(d)
    <2> DEFINE d == [op |-> "stop", pc |-> "load", chat |-> "none", row |-> NoSnap,
                     snap |-> NoSnap, fields |-> {}, code |-> 0]
    <2>1. d \in KsDesks /\ Confirmed(d)
      BY <1>1 DEF KsDesks, KsOps, KsPcs, Confirmed
    <2>2. Rest /\ desk' = [desk EXCEPT ![h] = d]
      BY <1>2 DEF PanelStop
    <2>3. QED  BY <2>1, <2>2
  <1>3. ASSUME NEW c \in KsChats, HaltBegin(h, c) PROVE Rest /\ \E d : Sat(d)
    <2> DEFINE snap == IF settings.limit = 0 THEN NoSnap ELSE [settings EXCEPT !.stamp = 0]
               d == [op |-> "halt", pc |-> "load", chat |-> c, row |-> NoSnap,
                     snap |-> snap, fields |-> {}, code |-> 0]
    <2>1. snap \in KsRows
      BY <1>1 DEF KsRows
    <2>2. d \in KsDesks /\ Confirmed(d)
      BY <1>1, <2>1 DEF KsDesks, KsOps, KsPcs, Confirmed
    <2>3. Rest /\ desk' = [desk EXCEPT ![h] = d]
      BY <1>3 DEF HaltBegin
    <2>4. QED  BY <2>2, <2>3
  <1>4. ASSUME NEW c \in KsChats, NEW code \in 0..h-1, ResumeBegin(h, c, code)
        PROVE  Rest /\ \E d : Sat(d)
    <2> DEFINE d == [op |-> "resume", pc |-> "switch", chat |-> c, row |-> settings,
                     snap |-> NoSnap, fields |-> {}, code |-> code]
    <2>1. code \in Nat
      BY DEF KsHandlers
    <2>2. d \in KsDesks /\ Confirmed(d)
      BY <1>1, <2>1 DEF KsDesks, KsOps, KsPcs, Confirmed
    <2>3. Rest /\ desk' = [desk EXCEPT ![h] = d]
      BY <1>4 DEF ResumeBegin
    <2>4. QED  BY <2>2, <2>3
  <1>5. ASSUME NEW fields \in {{"limit"}, {"bots"}}, NEW l \in KsLimits, NEW b \in BOOLEAN,
               PatchBegin(h, fields, IF "limit" \in fields THEN l ELSE 0,
                          "bots" \in fields /\ b)
        PROVE  Rest /\ \E d : Sat(d)
    <2> DEFINE snap == [limit |-> IF "limit" \in fields THEN l ELSE 0,
                        bots |-> "bots" \in fields /\ b, stamp |-> 0]
               d == [op |-> "patch", pc |-> "load", chat |-> "none", row |-> NoSnap,
                     snap |-> snap, fields |-> fields, code |-> 0]
    <2>1. snap \in KsRows
      BY KsAssumption DEF KsAssumption, KsRows
    <2>2. d \in KsDesks /\ Confirmed(d)
      BY <1>1, <2>1 DEF KsDesks, KsOps, KsPcs, Confirmed
    <2>3. Rest /\ desk' = [desk EXCEPT ![h] = d]
      BY <1>5 DEF PatchBegin
    <2>4. QED  BY <2>2, <2>3
  <1>6. ASSUME Rest, NEW d, Sat(d) PROVE KsInv' /\ UNCHANGED settings
    <2>1. desk' \in [KsHandlers -> KsDesks] /\ LiftsAreConfirmed'
      BY <1>6, DeskMoves
    <2>2. QED  BY <1>6, <2>1, RestKeeps DEF halts, KsInv, KsTypeOK
  <1> HIDE DEF Rest, Sat
  <1>7. QED  BY <1>2, <1>3, <1>4, <1>5, <1>6

\* A handler reads, writes Redis or the log, or is answered.
LEMMA Serving ==
  ASSUME KsInv, NEW h \in KsHandlers,
         \/ LoadRow(h) \/ StopRefresh(h) \/ StopFlag(h) \/ HaltSave(h) \/ HaltLog(h)
         \/ PatchRefresh(h) \/ PatchFlag(h)
         \/ ResumeSwitch(h) \/ ResumeCheck(h) \/ IssueCode(h) \/ CheckCode(h) \/ BurnCode(h)
         \/ ResumeRefresh(h) \/ ResumeFlag(h) \/ ResumeForget(h) \/ ResumeError(h)
  PROVE  KsInv' /\ UNCHANGED settings
  <1> USE KsAssumption DEF KsAssumption
  <1>1. /\ settings \in KsRows /\ desk[h] \in KsDesks /\ losses \in 0..KsLosses
        /\ desk[h].row \in KsRows /\ desk[h].snap \in KsRows /\ desk[h].code \in Nat
        /\ desk[h].chat \in KsChats \cup {"none"} /\ NoSnap \in KsRows
        /\ haltSnap \in KsRows /\ haltLog \in KsRows /\ h \in Nat
    BY FreeIs DEF KsInv, KsTypeOK, KsDesks, KsHandlers
  <1>2. /\ desk[h].op = "resume" /\ desk[h].pc \in {"code", "burn", "load", "commit"} =>
             desk[h].code # 0
    BY DEF KsInv, LiftsAreConfirmed
  <1>3. UNCHANGED <<settings, guard>>
    BY DEF LoadRow, StopRefresh, StopFlag, HaltSave, HaltLog, PatchRefresh, PatchFlag,
           ResumeSwitch, ResumeCheck, IssueCode, CheckCode, BurnCode, ResumeRefresh,
           ResumeFlag, ResumeForget, ResumeError
  <1>4. killFlag' \in BOOLEAN
    BY DEF LoadRow, StopRefresh, StopFlag, HaltSave, HaltLog, PatchRefresh, PatchFlag,
           ResumeSwitch, ResumeCheck, IssueCode, CheckCode, BurnCode, ResumeRefresh,
           ResumeFlag, ResumeForget, ResumeError, KsInv, KsTypeOK, Lost
  <1>5. losses' \in 0..KsLosses
    BY <1>1 DEF LoadRow, StopRefresh, StopFlag, HaltSave, HaltLog, PatchRefresh, PatchFlag,
           ResumeSwitch, ResumeCheck, IssueCode, CheckCode, BurnCode, ResumeRefresh,
           ResumeFlag, ResumeForget, ResumeError, Lost
  <1>6. [desk[h].snap EXCEPT !.stamp = desk[h].row.stamp] \in KsRows
    BY <1>1 DEF KsRows
  <1>7. haltSnap' \in KsRows /\ haltLog' \in KsRows
    BY <1>1, <1>6 DEF LoadRow, StopRefresh, StopFlag, HaltSave, HaltLog, PatchRefresh,
           PatchFlag, ResumeSwitch, ResumeCheck, IssueCode, CheckCode, BurnCode,
           ResumeRefresh, ResumeFlag, ResumeForget, ResumeError, halts
  <1>8. resumeCode' \in [by : Nat, chat : KsChats \cup {"none"}]
    BY <1>1 DEF LoadRow, StopRefresh, StopFlag, HaltSave, HaltLog, PatchRefresh,
           PatchFlag, ResumeSwitch, ResumeCheck, IssueCode, CheckCode, BurnCode,
           ResumeRefresh, ResumeFlag, ResumeForget, ResumeError, NoCode, KsInv, KsTypeOK
  <1>9. desk' \in [KsHandlers -> KsDesks] /\ LiftsAreConfirmed'
    <2> USE DEF KsPcs
    <2>1. CASE LoadRow(h)
      BY <1>1, <1>2, <2>1, SitsKeeps DEF LoadRow
    <2>2. CASE StopRefresh(h) \/ PatchRefresh(h) \/ ResumeRefresh(h)
      BY <1>1, <2>2, SitsKeeps DEF StopRefresh, PatchRefresh, ResumeRefresh
    <2>3. CASE HaltSave(h)
      BY <1>1, <1>6, <2>3, SitsKeeps DEF HaltSave
    <2>4. CASE ResumeCheck(h)
      <3>1. CASE SameStop(h)
        BY <1>1, <2>4, <3>1, SitsKeeps DEF ResumeCheck, Snapshot
      <3>2. CASE ~SameStop(h)
        BY <2>4, <3>2, GotoKeeps DEF ResumeCheck
      <3>3. QED  BY <3>1, <3>2
    <2>5. CASE StopFlag(h) \/ HaltLog(h) \/ PatchFlag(h) \/ ResumeSwitch(h)
      BY <2>5, GotoKeeps DEF StopFlag, HaltLog, PatchFlag, ResumeSwitch
    <2>6. CASE CheckCode(h) \/ BurnCode(h)
      BY <1>2, <2>6, GotoKeeps DEF CheckCode, BurnCode
    <2>7. CASE IssueCode(h) \/ ResumeFlag(h) \/ ResumeForget(h) \/ ResumeError(h)
      BY <2>7, GotoKeeps DEF IssueCode, ResumeFlag, ResumeForget, ResumeError
    <2>8. QED  BY <2>1, <2>2, <2>3, <2>4, <2>5, <2>6, <2>7
  <1>10. QED  BY <1>3, <1>4, <1>5, <1>7, <1>8, <1>9, RestKeeps

\* The three commits: what they do to the row, and what barred orders make of it.
LEMMA Committing ==
  ASSUME KsInv, NEW h \in KsHandlers,
         StopCommit(h) \/ PatchCommit(h) \/ ResumeCommit(h)
  PROVE  /\ KsInv'
         /\ desk'[h].pc = "refresh"
         /\ settings.limit = 0 /\ settings'.limit > 0 =>
              \/ desk[h].op = "patch" /\ "limit" \in desk[h].fields
              \/ desk[h].op = "resume" /\ desk[h].code # 0
  <1>1. /\ settings \in KsRows /\ desk[h].row \in KsRows /\ desk[h].snap \in KsRows
        /\ desk[h].pc = "commit" /\ desk \in [KsHandlers -> KsDesks]
    BY DEF KsInv, KsTypeOK, KsDesks, StopCommit, PatchCommit, ResumeCommit
  <1>2. /\ Unbar /\ Goto(h, "refresh")
        /\ UNCHANGED <<killFlag, halts, resumeCode, gate, losses>>
    BY DEF StopCommit, PatchCommit, ResumeCommit
  <1>3. /\ settings' \in KsRows
        /\ settings.limit = 0 /\ settings'.limit > 0 =>
             \/ desk[h].op = "patch" /\ "limit" \in desk[h].fields
             \/ desk[h].op = "resume" /\ desk[h].code # 0
    <2>1. CASE StopCommit(h)
      <3> DEFINE new == [limit |-> 0, bots |-> FALSE, stamp |-> settings.stamp + 1]
      <3>1. new \in KsRows /\ new.limit = 0
        BY <1>1, KsAssumption DEF KsAssumption, KsRows
      <3>2. settings' = Flush(desk[h].row, new)
        BY <2>1 DEF StopCommit
      <3> HIDE DEF new
      <3>3. QED  BY <1>1, <3>1, <3>2, FlushIs
    <2>2. CASE PatchCommit(h)
      <3> DEFINE new == [limit |-> IF "limit" \in desk[h].fields THEN desk[h].snap.limit
                                   ELSE desk[h].row.limit,
                         bots |-> IF "bots" \in desk[h].fields THEN desk[h].snap.bots
                                  ELSE desk[h].row.bots,
                         stamp |-> desk[h].row.stamp]
      <3>1. /\ new \in KsRows
            /\ "limit" \notin desk[h].fields => new.limit = desk[h].row.limit
        BY <1>1 DEF KsRows
      <3>2. settings' = Flush(desk[h].row, new) /\ desk[h].op = "patch"
        BY <2>2 DEF PatchCommit, Patched
      <3> HIDE DEF new
      <3>3. QED  BY <1>1, <3>1, <3>2, FlushIs
    <2>3. CASE ResumeCommit(h)
      <3>1. [desk[h].snap EXCEPT !.stamp = desk[h].row.stamp] \in KsRows
        BY <1>1 DEF KsRows
      <3>2. settings' \in KsRows
        BY <1>1, <2>3, <3>1, FlushIs DEF ResumeCommit
      <3>3. desk[h].op = "resume" /\ desk[h].code # 0
        BY <1>1, <2>3 DEF ResumeCommit, KsInv, LiftsAreConfirmed
      <3>4. QED  BY <3>2, <3>3
    <2>4. QED  BY <2>1, <2>2, <2>3
  <1>4. desk'[h].pc = "refresh"
    BY <1>1, <1>2 DEF Goto, Sits, Over
  <1>5. desk' \in [KsHandlers -> KsDesks] /\ LiftsAreConfirmed'
    BY <1>2, GotoKeeps DEF KsPcs
  <1>6. barred' \in [KsOrders -> BOOLEAN] /\ BarredIsStopped' /\ StopBarsOrders'
    BY <1>2, <1>3, UnbarKeeps
  <1>7. QED
    BY <1>2, <1>3, <1>4, <1>5, <1>6 DEF KsInv, KsTypeOK, halts

\* An order passes only the row of a system that is not stopped.
LEMMA Guarding ==
  ASSUME KsInv, NEW o \in KsOrders, GuardFlag(o) \/ GuardRow(o)
  PROVE  KsInv' /\ UNCHANGED settings
  <1>1. UNCHANGED <<settings, killFlag, halts, resumeCode, desk, losses>>
    BY DEF GuardFlag, GuardRow
  <1>2. /\ gate' \in [KsOrders -> {"idle", "row", "passed"}]
        /\ barred' \in [KsOrders -> BOOLEAN]
        /\ BarredIsStopped' /\ StopBarsOrders'
    BY DEF GuardFlag, GuardRow, RowStops, KsInv, KsTypeOK, BarredIsStopped, StopBarsOrders
  <1>3. QED
    BY <1>1, <1>2 DEF KsInv, KsTypeOK, LiftsAreConfirmed, halts

LEMMA Expiring == ASSUME KsInv, CodeExpires PROVE KsInv' /\ UNCHANGED settings
  <1>1. resumeCode' \in [by : Nat, chat : KsChats \cup {"none"}]
    BY DEF CodeExpires, NoCode
  <1>2. QED
    BY <1>1 DEF CodeExpires, KsInv, KsTypeOK, LiftsAreConfirmed, BarredIsStopped, StopBarsOrders,
                halts, guard

\* A step that is no commit leaves the row alone.
LEMMA KsInvNext ==
  ASSUME KsInv, [KsNext]_ksVars
  PROVE  /\ KsInv'
         /\ \/ UNCHANGED settings
            \/ \E h \in KsHandlers : StopCommit(h) \/ PatchCommit(h) \/ ResumeCommit(h)
  <1>1. ASSUME NEW h \in KsHandlers, KsHandler(h)
        PROVE  KsInv' /\ (UNCHANGED settings \/
                          StopCommit(h) \/ PatchCommit(h) \/ ResumeCommit(h))
    <2>1. CASE StopCommit(h) \/ PatchCommit(h) \/ ResumeCommit(h)
      BY <2>1, Committing
    <2>2. CASE ~(StopCommit(h) \/ PatchCommit(h) \/ ResumeCommit(h))
      BY <1>1, <2>2, Arriving, Serving DEF KsHandler
    <2>3. QED  BY <2>1, <2>2
  <1>2. CASE UNCHANGED ksVars
    BY <1>2 DEF ksVars, KsInv, KsTypeOK, LiftsAreConfirmed, BarredIsStopped, StopBarsOrders,
                halts, guard
  <1>3. QED  BY <1>1, <1>2, Guarding, Expiring DEF KsNext

-----------------------------------------------------------------------------
\* The invariant of the specification.
LEMMA KsInvariant == KsSpec => []KsInv
  <1>1. KsInit => KsInv
    BY KsInvInit
  <1>2. KsInv /\ [KsNext]_ksVars => KsInv'
    BY KsInvNext
  <1>3. QED  BY <1>1, <1>2, PTL DEF KsSpec

\* The panel's row, what is cached of it and the requests keep their types
\* (api/v1/control_panel.py).
THEOREM KsTypeCorrect == KsSpec => []KsTypeOK
  <1>1. KsInv => KsTypeOK
    BY DEF KsInv
  <1> QED BY <1>1, KsInvariant, PTL

\* An order that reached the guard of a stopped system passes only after
\* somebody has lifted that stop, whatever the Redis flag says.
THEOREM NoOrderPassesAStop == KsSpec => []StopBarsOrders
  <1>1. KsInv => StopBarsOrders
    BY DEF KsInv
  <1>2. QED  BY <1>1, KsInvariant, PTL

\* No stale session of the Control Panel or of Telegram ends a stop: only a
\* PATCH of the limit, or a /resume with its code.
THEOREM StopsEndOnPurpose == KsSpec => OnlyALiftEndsAStop
  <1> DEFINE Lifts ==
        settings.limit = 0 /\ settings'.limit > 0 =>
          \E h \in KsHandlers :
            /\ desk[h].pc = "commit"
            /\ desk'[h].pc = "refresh"
            /\ \/ desk[h].op = "patch" /\ "limit" \in desk[h].fields
               \/ desk[h].op = "resume" /\ desk[h].code # 0
  <1>1. ASSUME KsInv, [KsNext]_ksVars PROVE Lifts
    <2>1. CASE UNCHANGED settings
      BY <1>1, <2>1 DEF KsInv, KsTypeOK, KsRows
    <2>2. ASSUME NEW h \in KsHandlers, StopCommit(h) \/ PatchCommit(h) \/ ResumeCommit(h)
          PROVE  Lifts
      <3>1. desk[h].pc = "commit"
        BY <2>2 DEF StopCommit, PatchCommit, ResumeCommit
      <3>2. QED  BY <1>1, <2>2, <3>1, Committing
    <2>3. QED  BY <1>1, <2>1, <2>2, KsInvNext
  <1>2. KsInv /\ [KsNext]_ksVars => [Lifts]_ksVars
    BY <1>1
  <1>3. QED  BY <1>2, KsInvariant, PTL DEF KsSpec, OnlyALiftEndsAStop

-----------------------------------------------------------------------------
(***************************************************************************)
(* Proofs about BotCapital, for any deposit, targets and number of bets.   *)
(*                                                                         *)
(* Books ties every account to the bets open on it and needs nothing else. *)
(* Funds is about whose money it is, as the rows tell it: what a request   *)
(* found when it took the bot's row is still so when it commits, as an     *)
(* empty account cannot bet.                                               *)
(***************************************************************************)

\* What an account with n open bets looks like: no equity is above its peak.
Sound(a, n) == a \in Money /\ a.exposure = n * Stake /\ Equity(a) <= a.peak

OpenOnMain == IF mainBet THEN 1 ELSE 0
OpenOnSub  == IF botBet = "none" THEN 0 ELSE 1

Books ==
  /\ CapTypeOK
  /\ Sound(mainAcc, OpenOnMain)
  /\ Sound(subAcc, OpenOnSub)

\* An account with money is funded in the mode on its bot's row; what a request
\* found when it took the row is still so.
Funds ==
  /\ FundsMatchMode
  /\ ArchivedBotIsEmpty
  /\ asked.op = "capital" => asked.probe = funding
  /\ asked.op \in {"mode", "archive"} => Equity(subAcc) = 0
  /\ bot.status = "ARCHIVED" => asked = NoRequest

-----------------------------------------------------------------------------
\* What each posting makes of a sound account.
LEMMA Postings ==
  ASSUME NEW a, NEW n \in 0..1, NEW cash \in Nat, Sound(a, n)
  PROVE  /\ /\ Sound(MovedIn(a, cash), n)
            /\ Equity(MovedIn(a, cash)) = Equity(a) + cash
            /\ Drawdown(MovedIn(a, cash)) = Drawdown(a)
         /\ cash <= a.available =>
              /\ Sound(MovedOut(a, cash), n)
              /\ Equity(MovedOut(a, cash)) = Equity(a) - cash
              /\ Drawdown(MovedOut(a, cash)) = Drawdown(a)
         /\ a.available >= Stake /\ n = 0 =>
              /\ Sound(Staked(a), 1)
              /\ Equity(Staked(a)) = Equity(a)
         /\ n = 1 =>
              /\ Sound(Settled(a, cash), 0)
              /\ Equity(Settled(a, cash)) = Equity(a) + cash - Stake
         /\ Equity(a) \in Nat
         /\ Equity(a) >= a.available
         /\ Equity(a) = 0 => n = 0 /\ a.available = 0
  BY DEF Sound, Money, MovedIn, MovedOut, Staked, Settled, Posted, Equity, Drawdown,
         Higher, Stake

\* The accounts of a sound state, ready for Postings.
LEMMA SoundAccounts ==
  ASSUME Books
  PROVE  /\ mainAcc \in Money /\ subAcc \in Money
         /\ OpenOnMain \in 0..1 /\ OpenOnSub \in 0..1
         /\ Sound(mainAcc, OpenOnMain) /\ Sound(subAcc, OpenOnSub)
         /\ Equity(mainAcc) \in Nat /\ Equity(subAcc) \in Nat
         /\ Equity(subAcc) = 0 => botBet = "none" /\ subAcc.available = 0
  <1>1. OpenOnMain \in 0..1 /\ OpenOnSub \in 0..1
    BY DEF OpenOnMain, OpenOnSub
  <1>2. Sound(mainAcc, OpenOnMain) /\ Sound(subAcc, OpenOnSub)
    BY DEF Books
  <1>3. /\ Equity(mainAcc) \in Nat /\ Equity(subAcc) \in Nat
        /\ Equity(subAcc) = 0 => OpenOnSub = 0 /\ subAcc.available = 0
    BY <1>1, <1>2, Postings, 0 \in Nat
  <1>4. QED  BY <1>1, <1>2, <1>3 DEF Sound, OpenOnSub

LEMMA FundsInit == CapInit => Books /\ Funds
  <1> SUFFICES ASSUME CapInit PROVE Books /\ Funds
    OBVIOUS
  <1> USE CapAssumption DEF CapAssumption
  <1>1. bot.cap = 0 /\ bot.status = "PAUSED" /\ bot.mode \in Modes /\ bot \in BotRows
    BY DEF CapInit, BotRows, CapStatuses
  <1>2. /\ mainAcc \in Money /\ subAcc \in Money
        /\ mainAcc.exposure = 0 /\ mainAcc.peak = Deposit
        /\ Equity(subAcc) = 0 /\ Equity(mainAcc) = Deposit
        /\ subAcc.exposure = 0 /\ subAcc.peak = 0
    BY DEF CapInit, Money, NoMoney, Equity
  <1>3. /\ asked = NoRequest /\ NoRequest.op = "none"
        /\ believed = [mode |-> bot.mode, status |-> bot.status]
    BY DEF CapInit, NoRequest
  <1>0. /\ botBet = "none" /\ funding = "NONE" /\ mainBet = FALSE
        /\ realPnl = 0 /\ shadowPnl = 0 /\ betsMade = 0
    BY DEF CapInit
  <1>4. asked \in [op : {"none", "capital", "mode", "archive"}, target : Nat,
                  mode : Modes, probe : Fundings]
    BY <1>3 DEF NoRequest, Modes, Fundings
  <1>5. believed \in [mode : Modes, status : CapStatuses]
    BY <1>1, <1>3 DEF CapStatuses
  <1>6. CapTypeOK
    <2>1. mainBet \in BOOLEAN
      BY <1>0
    <2>2. /\ botBet \in {"none", "paper", "real"} /\ funding \in Fundings
          /\ realPnl \in Int /\ shadowPnl \in Int /\ betsMade \in 0..BetBound
      BY <1>0 DEF Fundings
    <2>3. QED  BY <1>1, <1>2, <1>4, <1>5, <2>1, <2>2 DEF CapTypeOK
  <1>7. Books
    BY <1>0, <1>2, <1>6 DEF Books, Sound, OpenOnMain, OpenOnSub, Stake
  <1>8. Funds
    <2>1. FundsMatchMode /\ ArchivedBotIsEmpty
      BY <1>1, <1>2 DEF FundsMatchMode, ArchivedBotIsEmpty
    <2>2. QED
      BY <1>1, <1>3, <2>1 DEF Funds
  <1>9. QED  BY <1>7, <1>8

-----------------------------------------------------------------------------
\* A request moves capital into the sub-account.
LEMMA AllocateKeeps ==
  ASSUME Books, NEW cash \in Nat, Allocate(cash), UNCHANGED betting
  PROVE  /\ Sound(mainAcc, OpenOnMain)' /\ Sound(subAcc, OpenOnSub)'
         /\ funding' = FundingOf(bot.mode)
         /\ Drawdown(mainAcc)' = Drawdown(mainAcc)
         /\ Drawdown(subAcc)' = Drawdown(subAcc)
         /\ Equity(subAcc)' = Equity(subAcc) + cash
         /\ funding' # funding => Equity(subAcc) = 0
         /\ Equity(mainAcc)' = IF funding' = "TRANSFER" THEN Equity(mainAcc) - cash
                                ELSE Equity(mainAcc)
  <1>1. OpenOnMain' = OpenOnMain /\ OpenOnSub' = OpenOnSub
    BY DEF betting, OpenOnMain, OpenOnSub
  <1>2. /\ subAcc' = MovedIn(subAcc, cash)
        /\ funding' = FundingOf(bot.mode)
        /\ funding' # funding => Equity(subAcc) = 0
    BY DEF Allocate, Equity
  <1>3. /\ Sound(subAcc, OpenOnSub)'
        /\ Drawdown(subAcc)' = Drawdown(subAcc)
        /\ Equity(subAcc)' = Equity(subAcc) + cash
    BY <1>1, <1>2, SoundAccounts, Postings DEF Sound, Equity, Drawdown
  <1>4. CASE funding' = "TRANSFER"
    <2>1. cash <= mainAcc.available /\ mainAcc' = MovedOut(mainAcc, cash)
      BY <1>2, <1>4 DEF Allocate
    <2>2. /\ Sound(mainAcc, OpenOnMain)'
          /\ Drawdown(mainAcc)' = Drawdown(mainAcc)
          /\ Equity(mainAcc)' = Equity(mainAcc) - cash
      BY <1>1, <2>1, SoundAccounts, Postings DEF Sound, Equity, Drawdown
    <2>3. QED  BY <1>2, <1>3, <1>4, <2>2
  <1>5. CASE funding' # "TRANSFER"
    <2>1. mainAcc' = mainAcc
      BY <1>2, <1>5 DEF Allocate
    <2>2. /\ Sound(mainAcc, OpenOnMain)'
          /\ Drawdown(mainAcc)' = Drawdown(mainAcc)
          /\ Equity(mainAcc)' = Equity(mainAcc)
      BY <1>1, <2>1, SoundAccounts DEF Sound, Equity, Drawdown
    <2>3. QED  BY <1>2, <1>3, <1>5, <2>2
  <1>6. QED  BY <1>4, <1>5

\* A request moves capital out of it, to where the probe says.
LEMMA DeallocateKeeps ==
  ASSUME Books, NEW cash \in Nat, Deallocate(cash), UNCHANGED betting
  PROVE  /\ Sound(mainAcc, OpenOnMain)' /\ Sound(subAcc, OpenOnSub)'
         /\ funding' = funding
         /\ Drawdown(mainAcc)' = Drawdown(mainAcc)
         /\ Drawdown(subAcc)' = Drawdown(subAcc)
         /\ cash <= Equity(subAcc)
         /\ Equity(subAcc)' = Equity(subAcc) - cash
         /\ Equity(mainAcc)' = IF asked.probe = "TRANSFER" THEN Equity(mainAcc) + cash
                                ELSE Equity(mainAcc)
  <1>1. OpenOnMain' = OpenOnMain /\ OpenOnSub' = OpenOnSub
    BY DEF betting, OpenOnMain, OpenOnSub
  <1>2. /\ cash <= subAcc.available /\ subAcc' = MovedOut(subAcc, cash)
        /\ funding' = funding
        /\ mainAcc' = IF asked.probe = "TRANSFER" THEN MovedIn(mainAcc, cash) ELSE mainAcc
    BY DEF Deallocate
  <1>3. /\ Sound(subAcc, OpenOnSub)'
        /\ Drawdown(subAcc)' = Drawdown(subAcc)
        /\ Equity(subAcc)' = Equity(subAcc) - cash
        /\ subAcc.available <= Equity(subAcc)
    BY <1>1, <1>2, SoundAccounts, Postings DEF Sound, Equity, Drawdown
  <1>4. cash <= Equity(subAcc)
    BY <1>2, <1>3, SoundAccounts DEF Money
  <1>5. CASE asked.probe = "TRANSFER"
    <2>1. /\ Sound(mainAcc, OpenOnMain)'
          /\ Drawdown(mainAcc)' = Drawdown(mainAcc)
          /\ Equity(mainAcc)' = Equity(mainAcc) + cash
      BY <1>1, <1>2, <1>5, SoundAccounts, Postings DEF Sound, Equity, Drawdown
    <2>2. QED  BY <1>2, <1>3, <1>4, <1>5, <2>1
  <1>6. CASE asked.probe # "TRANSFER"
    <2>1. mainAcc' = mainAcc
      BY <1>2, <1>6
    <2>2. /\ Sound(mainAcc, OpenOnMain)'
          /\ Drawdown(mainAcc)' = Drawdown(mainAcc)
          /\ Equity(mainAcc)' = Equity(mainAcc)
      BY <1>1, <2>1, SoundAccounts DEF Sound, Equity, Drawdown
    <2>3. QED  BY <1>2, <1>3, <1>4, <1>6, <2>2
  <1>7. QED  BY <1>5, <1>6

-----------------------------------------------------------------------------
(* Each step keeps the books. *)

\* The requests change the accounts only when they commit capital.
LEMMA SetCapitalBooks ==
  ASSUME Books, SetCapital
  PROVE  /\ Books'
         /\ Drawdown(mainAcc)' = Drawdown(mainAcc)
         /\ Drawdown(subAcc)' = Drawdown(subAcc)
  <1>0. /\ bot.cap \in Nat /\ asked.target \in Nat
        /\ bot' = [bot EXCEPT !.cap = asked.target] /\ bot' \in BotRows
        /\ asked' = NoRequest
        /\ UNCHANGED betting /\ UNCHANGED believed
    BY DEF SetCapital, Books, CapTypeOK, BotRows
  <1>1. /\ Sound(mainAcc, OpenOnMain)' /\ Sound(subAcc, OpenOnSub)'
        /\ Drawdown(mainAcc)' = Drawdown(mainAcc)
        /\ Drawdown(subAcc)' = Drawdown(subAcc)
        /\ funding' \in Fundings
    <2>1. CASE bot.mode = "SHADOW" \/ asked.target = bot.cap
      <3>1. UNCHANGED accounts
        BY <2>1, <1>0 DEF SetCapital
      <3>2. QED
        BY <1>0, <3>1, SoundAccounts
        DEF accounts, betting, Sound, OpenOnMain, OpenOnSub, Equity, Drawdown, Books, CapTypeOK
    <2>2. CASE bot.mode # "SHADOW" /\ asked.target > bot.cap
      <3>1. Allocate(asked.target - bot.cap) /\ asked.target - bot.cap \in Nat
        BY <2>2, <1>0 DEF SetCapital
      <3>2. QED  BY <1>0, <3>1, AllocateKeeps DEF FundingOf, Fundings
    <2>3. CASE bot.mode # "SHADOW" /\ asked.target < bot.cap
      <3>1. Deallocate(bot.cap - asked.target) /\ bot.cap - asked.target \in Nat
        BY <2>3, <1>0 DEF SetCapital
      <3>2. QED  BY <1>0, <3>1, DeallocateKeeps DEF Books, CapTypeOK
    <2>4. QED  BY <1>0, <2>1, <2>2, <2>3
  <1>2. CapTypeOK'
    BY <1>0, <1>1 DEF Books, CapTypeOK, Sound, betting, NoRequest, Modes, Fundings
  <1>3. QED  BY <1>1, <1>2 DEF Books

LEMMA RequestBooks ==
  ASSUME Books,
         \/ \E t \in Targets : AskCapital(t)
         \/ \E m \in Modes : AskMode(m)
         \/ AskArchive \/ RequestFails \/ SetMode \/ Archive \/ Activate
         \/ StopBot("PAUSED") \/ StopBot("SUSPENDED") \/ RefreshBots
  PROVE  Books' /\ UNCHANGED <<accounts, betting>>
  <1> USE CapAssumption DEF CapAssumption
  <1>1. UNCHANGED <<accounts, betting>>
    BY DEF AskCapital, AskMode, AskArchive, Takes, RequestFails, SetMode, Archive, Activate,
           StopBot, RefreshBots
  <1>2. /\ bot.mode \in Modes /\ bot.status \in CapStatuses /\ bot.cap \in Nat
        /\ asked.mode \in Modes /\ funding \in Fundings
    BY DEF Books, CapTypeOK, BotRows
  <1>3. bot' \in BotRows
    BY <1>2 DEF AskCapital, AskMode, AskArchive, Takes, RequestFails, SetMode, Archive, Activate,
           StopBot, RefreshBots, Books, CapTypeOK, BotRows, CapStatuses
  <1>4. asked' \in [op : {"none", "capital", "mode", "archive"}, target : Nat,
                    mode : Modes, probe : Fundings]
    BY <1>2 DEF AskCapital, AskMode, AskArchive, Takes, RequestFails, SetMode, Archive, Activate,
           StopBot, RefreshBots, Books, CapTypeOK, Modes, Fundings, NoRequest
  <1>5. believed' \in [mode : Modes, status : CapStatuses]
    BY <1>2 DEF AskCapital, AskMode, AskArchive, Takes, RequestFails, SetMode, Archive, Activate,
           StopBot, RefreshBots, Books, CapTypeOK
  <1>6. CapTypeOK'
    BY <1>1, <1>3, <1>4, <1>5 DEF Books, CapTypeOK, accounts, betting
  <1>7. QED
    BY <1>1, <1>6, SoundAccounts
    DEF Books, accounts, betting, Sound, OpenOnMain, OpenOnSub, Equity

LEMMA BetBooks ==
  ASSUME Books,
         BotBets \/ BotBetSettles \/ ShadowBets \/ MainBets \/ MainBetSettles
  PROVE  Books' /\ UNCHANGED <<bot, funding, asked, believed>>
  <1> USE CapAssumption DEF CapAssumption
  <1>0. /\ Payouts \subseteq Nat /\ Stake \in Nat
        /\ \A pays \in Payouts, x \in Int : x + pays - Stake \in Int
    BY DEF Payouts, Stake
  <1>1. CASE BotBets
    <2>1. OpenOnSub = 0 /\ OpenOnSub' = 1 /\ OpenOnMain' = OpenOnMain
      BY <1>1 DEF BotBets, OpenOnSub, OpenOnMain
    <2>2. Sound(subAcc, OpenOnSub)'
      BY <1>1, <2>1, SoundAccounts, Postings, 0 \in Nat DEF BotBets, Sound, Equity
    <2>3. Sound(mainAcc, OpenOnMain)'
      BY <1>1, <2>1, SoundAccounts DEF BotBets, Sound, Equity
    <2>4. CapTypeOK'
      BY <1>1, <2>2 DEF BotBets, Books, CapTypeOK, Sound
    <2>5. QED  BY <1>1, <2>2, <2>3, <2>4 DEF Books, BotBets
  <1>2. CASE BotBetSettles
    <2>1. OpenOnSub = 1 /\ OpenOnSub' = 0 /\ OpenOnMain' = OpenOnMain
      BY <1>2 DEF BotBetSettles, OpenOnSub, OpenOnMain
    <2>2. PICK pays \in Payouts :
            /\ subAcc' = Settled(subAcc, pays)
            /\ realPnl' = IF botBet = "real" THEN realPnl + pays - Stake ELSE realPnl
      BY <1>2 DEF BotBetSettles
    <2>3. Sound(subAcc, OpenOnSub)'
      BY <1>0, <2>1, <2>2, SoundAccounts, Postings DEF Sound, Equity
    <2>4. Sound(mainAcc, OpenOnMain)'
      BY <1>2, <2>1, SoundAccounts DEF BotBetSettles, Sound, Equity
    <2>5. CapTypeOK'
      BY <1>0, <1>2, <2>2, <2>3 DEF BotBetSettles, Books, CapTypeOK, Sound
    <2>6. QED  BY <1>2, <2>3, <2>4, <2>5 DEF Books, BotBetSettles
  <1>3. CASE ShadowBets
    <2>1. CapTypeOK'
      BY <1>0, <1>3 DEF ShadowBets, Books, CapTypeOK, accounts
    <2>2. QED
      BY <1>3, <2>1, SoundAccounts
      DEF ShadowBets, Books, accounts, Sound, OpenOnMain, OpenOnSub, Equity
  <1>4. CASE MainBets
    <2>1. OpenOnMain = 0 /\ OpenOnMain' = 1 /\ OpenOnSub' = OpenOnSub
      BY <1>4 DEF MainBets, OpenOnSub, OpenOnMain
    <2>2. Sound(mainAcc, OpenOnMain)'
      BY <1>4, <2>1, SoundAccounts, Postings, 0 \in Nat DEF MainBets, Sound, Equity
    <2>3. Sound(subAcc, OpenOnSub)'
      BY <1>4, <2>1, SoundAccounts DEF MainBets, Sound, Equity
    <2>4. CapTypeOK'
      BY <1>4, <2>2 DEF MainBets, Books, CapTypeOK, Sound
    <2>5. QED  BY <1>4, <2>2, <2>3, <2>4 DEF Books, MainBets
  <1>5. CASE MainBetSettles
    <2>1. OpenOnMain = 1 /\ OpenOnMain' = 0 /\ OpenOnSub' = OpenOnSub
      BY <1>5 DEF MainBetSettles, OpenOnSub, OpenOnMain
    <2>2. PICK pays \in Payouts : /\ mainAcc' = Settled(mainAcc, pays)
                                  /\ realPnl' = realPnl + pays - Stake
      BY <1>5 DEF MainBetSettles
    <2>3. Sound(mainAcc, OpenOnMain)'
      BY <1>0, <2>1, <2>2, SoundAccounts, Postings DEF Sound, Equity
    <2>4. Sound(subAcc, OpenOnSub)'
      BY <1>5, <2>1, SoundAccounts DEF MainBetSettles, Sound, Equity
    <2>5. CapTypeOK'
      BY <1>0, <1>5, <2>2, <2>3 DEF MainBetSettles, Books, CapTypeOK, Sound
    <2>6. QED  BY <1>5, <2>3, <2>4, <2>5 DEF Books, MainBetSettles
  <1>6. QED  BY <1>1, <1>2, <1>3, <1>4, <1>5

-----------------------------------------------------------------------------
(* Each step keeps track of whose money it is. *)

LEMMA SetCapitalFunds ==
  ASSUME Books, Funds, SetCapital
  PROVE  Funds' /\ RealMoney' = RealMoney
  <1>1. /\ bot.cap \in Nat /\ asked.target \in Nat
        /\ asked.op = "capital" /\ asked.probe = funding /\ bot.status # "ARCHIVED"
    BY DEF SetCapital, Books, CapTypeOK, BotRows, Funds, NoRequest
  <1>2. /\ bot'.mode = bot.mode /\ bot'.status = bot.status
        /\ asked' = NoRequest /\ asked'.op = "none"
        /\ UNCHANGED betting /\ UNCHANGED believed
    BY DEF SetCapital, Books, CapTypeOK, BotRows, NoRequest
  <1>3. RealMoney' = RealMoney /\ FundsMatchMode'
    <2>1. CASE bot.mode = "SHADOW" \/ asked.target = bot.cap
      <3>1. UNCHANGED accounts
        BY <2>1, <1>1 DEF SetCapital
      <3>2. QED
        BY <1>2, <3>1 DEF accounts, Funds, RealMoney, FundsMatchMode, Equity, FundingOf
    <2>2. CASE bot.mode # "SHADOW" /\ asked.target > bot.cap
      <3>1. Allocate(asked.target - bot.cap) /\ asked.target - bot.cap \in Nat
        BY <2>2, <1>1 DEF SetCapital
      <3>2. RealMoney' = RealMoney
        <4>1. RealMoney' = Equity(mainAcc)'
                             + (IF funding' = "TRANSFER" THEN Equity(subAcc)' ELSE 0)
          BY DEF RealMoney
        <4>2. QED
          BY <1>2, <3>1, <4>1, SoundAccounts, AllocateKeeps DEF RealMoney
      <3>3. FundsMatchMode'
        BY <1>2, <2>2, <3>1, AllocateKeeps DEF FundsMatchMode
      <3>4. QED  BY <3>2, <3>3
    <2>3. CASE bot.mode # "SHADOW" /\ asked.target < bot.cap
      <3>1. Deallocate(bot.cap - asked.target) /\ bot.cap - asked.target \in Nat
        BY <2>3, <1>1 DEF SetCapital
      <3>2. RealMoney' = RealMoney
        <4>1. RealMoney' = Equity(mainAcc)'
                             + (IF funding' = "TRANSFER" THEN Equity(subAcc)' ELSE 0)
          BY DEF RealMoney
        <4>2. /\ funding' = funding /\ asked.probe = funding
              /\ asked.target <= bot.cap /\ bot.cap - asked.target \in Nat
              /\ Equity(mainAcc) \in Nat /\ Equity(subAcc) \in Nat
              /\ Equity(subAcc)' = Equity(subAcc) - (bot.cap - asked.target)
              /\ Equity(mainAcc)' = IF asked.probe = "TRANSFER"
                                    THEN Equity(mainAcc) + (bot.cap - asked.target)
                                    ELSE Equity(mainAcc)
          BY <1>1, <1>2, <2>3, <3>1, SoundAccounts, DeallocateKeeps
        <4>3. QED
          BY <1>1, <4>1, <4>2 DEF RealMoney
      <3>3. FundsMatchMode'
        BY <1>2, <2>3, <3>1, SoundAccounts, DeallocateKeeps DEF Funds, FundsMatchMode
      <3>4. QED  BY <3>2, <3>3
    <2>4. QED  BY <1>1, <2>1, <2>2, <2>3
  <1>4. ArchivedBotIsEmpty'
    BY <1>1, <1>2 DEF ArchivedBotIsEmpty
  <1>5. QED  BY <1>1, <1>2, <1>3, <1>4 DEF Funds

\* A request begins or ends, or the row and what the workers know of it change.
LEMMA RequestFunds ==
  ASSUME Books, Funds,
         \/ \E t \in Targets : AskCapital(t)
         \/ \E m \in Modes : AskMode(m)
         \/ AskArchive \/ RequestFails \/ SetMode \/ Archive \/ Activate
         \/ StopBot("PAUSED") \/ StopBot("SUSPENDED") \/ RefreshBots
  PROVE  Funds'
  <1>1. UNCHANGED <<accounts, betting>>
    BY RequestBooks
  <1>2. /\ mainAcc' = mainAcc /\ subAcc' = subAcc /\ funding' = funding
        /\ botBet' = botBet /\ realPnl' = realPnl
    BY <1>1 DEF accounts, betting
  <1>3. /\ Equity(subAcc) \in Nat
        /\ Equity(subAcc) = 0 => botBet = "none"
        /\ bot \in BotRows
        /\ bot.mode = "SHADOW" => Equity(subAcc) = 0
    BY SoundAccounts DEF Funds, FundsMatchMode, Books, CapTypeOK
  <1>4. Empty => Equity(subAcc) = 0
    BY <1>3 DEF Empty
  <1>5. CASE (\E t \in Targets : AskCapital(t)) \/ (\E m \in Modes : AskMode(m)) \/ AskArchive
    <2>1. bot' = bot /\ bot.status # "ARCHIVED"
      BY <1>5 DEF AskCapital, AskMode, AskArchive, Takes
    <2>2. /\ asked'.op = "capital" => asked'.probe = funding
          /\ asked'.op \in {"mode", "archive"} => Equity(subAcc) = 0
      BY <1>4, <1>5 DEF AskCapital, AskMode, AskArchive, Takes
    <2>3. QED
      BY <1>2, <2>1, <2>2 DEF Funds, FundsMatchMode, ArchivedBotIsEmpty, Equity
  <1>6. CASE RequestFails
    BY <1>2, <1>6
    DEF RequestFails, NoRequest, Funds, FundsMatchMode, ArchivedBotIsEmpty, Equity
  <1>7. CASE SetMode \/ Archive
    <2>1. Equity(subAcc) = 0 /\ bot.status # "ARCHIVED"
      BY <1>7 DEF SetMode, Archive, Funds, NoRequest
    <2>2. /\ asked' = NoRequest /\ asked'.op = "none"
          /\ Equity(subAcc)' = 0 /\ botBet' = "none"
      BY <1>2, <1>3, <1>7, <2>1 DEF SetMode, Archive, NoRequest, Equity
    <2>3. QED
      BY <2>2 DEF Funds, FundsMatchMode, ArchivedBotIsEmpty
  <1>8. CASE Activate \/ StopBot("PAUSED") \/ StopBot("SUSPENDED")
    <2>1. /\ bot'.mode = bot.mode /\ asked' = asked /\ asked = NoRequest
          /\ bot'.status # "ARCHIVED"
      BY <1>3, <1>8 DEF Activate, StopBot, BotRows
    <2>2. QED
      BY <1>2, <2>1 DEF Funds, FundsMatchMode, ArchivedBotIsEmpty, Equity
  <1>9. CASE RefreshBots
    BY <1>2, <1>9 DEF RefreshBots, Funds, FundsMatchMode, ArchivedBotIsEmpty, Equity
  <1>10. QED  BY <1>5, <1>6, <1>7, <1>8, <1>9

LEMMA BetFunds ==
  ASSUME Books, Funds,
         BotBets \/ BotBetSettles \/ ShadowBets \/ MainBets \/ MainBetSettles
  PROVE  Funds'
  <1>1. bot' = bot /\ funding' = funding /\ asked' = asked
    BY BetBooks
  <1>2. CASE BotBets \/ BotBetSettles
    <2>1. Equity(subAcc) > 0
      <3>1. CASE BotBets
        <4>1. OpenOnSub = 0 /\ subAcc.available >= 1
          BY <3>1 DEF BotBets, OpenOnSub, Stake
        <4>2. Equity(subAcc) >= subAcc.available
          BY SoundAccounts, Postings, 0 \in Nat
        <4>3. QED  BY <4>1, <4>2, SoundAccounts DEF Money
      <3>2. CASE BotBetSettles
        BY <3>2, SoundAccounts DEF BotBetSettles
      <3>3. QED  BY <1>2, <3>1, <3>2
    <2>2. bot.mode # "SHADOW" /\ funding = FundingOf(bot.mode)
      BY <2>1 DEF Funds, FundsMatchMode
    <2>3. bot.status # "ARCHIVED" /\ asked.op \notin {"mode", "archive"}
      BY <2>1 DEF Funds, ArchivedBotIsEmpty
    <2>4. QED
      BY <1>1, <2>2, <2>3 DEF Funds, FundsMatchMode, ArchivedBotIsEmpty, FundingOf
  <1>3. CASE ShadowBets \/ MainBets \/ MainBetSettles
    <2>1. subAcc' = subAcc /\ botBet' = botBet
      BY <1>3 DEF ShadowBets, MainBets, MainBetSettles, accounts
    <2>2. QED
      BY <1>1, <2>1 DEF Funds, FundsMatchMode, ArchivedBotIsEmpty, Equity, FundingOf
  <1>4. QED  BY <1>2, <1>3

-----------------------------------------------------------------------------
LEMMA BooksNext == ASSUME Books, [CapNext]_capVars PROVE Books'
  <1>1. CASE SetCapital
    BY <1>1, SetCapitalBooks
  <1>2. CASE BotBets \/ BotBetSettles \/ ShadowBets \/ MainBets \/ MainBetSettles
    BY <1>2, BetBooks
  <1>3. CASE UNCHANGED capVars
    BY <1>3 DEF capVars, Books, CapTypeOK, Sound, OpenOnMain, OpenOnSub, Equity
  <1>4. QED  BY <1>1, <1>2, <1>3, RequestBooks DEF CapNext

LEMMA FundsNext == ASSUME Books, Funds, [CapNext]_capVars PROVE Funds'
  <1>1. CASE SetCapital
    BY <1>1, SetCapitalFunds
  <1>2. CASE BotBets \/ BotBetSettles \/ ShadowBets \/ MainBets \/ MainBetSettles
    BY <1>2, BetFunds
  <1>3. CASE UNCHANGED capVars
    BY <1>3 DEF capVars, Funds, FundsMatchMode, ArchivedBotIsEmpty, Equity, FundingOf
  <1>4. QED  BY <1>1, <1>2, <1>3, RequestFunds DEF CapNext

-----------------------------------------------------------------------------
\* No balance goes below zero, whatever the owner asks for and the bets do.
THEOREM CapTypeCorrect == CapSpec => []CapTypeOK
  <1>1. CapInit => Books
    BY FundsInit
  <1>2. Books /\ [CapNext]_capVars => Books'
    BY BooksNext
  <1>3. Books => CapTypeOK
    BY DEF Books
  <1>4. QED  BY <1>1, <1>2, <1>3, PTL DEF CapSpec

\* allocate, deallocate and every other request leave each account as far below
\* its peak as it was.
THEOREM MovingCapitalIsNotPerformance == CapSpec => CapitalIsNotPerformance
  <1> DEFINE Same == asked' # asked => /\ Drawdown(mainAcc)' = Drawdown(mainAcc)
                                      /\ Drawdown(subAcc)' = Drawdown(subAcc)
  <1>1. CapInit => Books
    BY FundsInit
  <1>2. Books /\ [CapNext]_capVars => Books'
    BY BooksNext
  <1>3. ASSUME Books, [CapNext]_capVars PROVE Same
    <2>1. CASE SetCapital
      BY <1>3, <2>1, SetCapitalBooks
    <2>2. CASE BotBets \/ BotBetSettles \/ ShadowBets \/ MainBets \/ MainBetSettles
      BY <2>2, BetBooks, <1>3
    <2>3. CASE UNCHANGED capVars
      BY <2>3 DEF capVars
    <2>4. UNCHANGED accounts => Same
      BY DEF accounts, Drawdown, Equity
    <2>5. QED  BY <1>3, <2>1, <2>2, <2>3, <2>4, RequestBooks DEF CapNext
  <1>4. Books /\ [CapNext]_capVars => [Same]_capVars
    BY <1>3
  <1>5. QED  BY <1>1, <1>2, <1>4, PTL DEF CapSpec, CapitalIsNotPerformance

\* Capital in and out, a change of mode, an archiving: none makes or loses real
\* money, whatever is bet between what a request checked and its commit.
THEOREM NoMoneyFromMoving == CapSpec => MovingKeepsRealMoney
  <1> DEFINE Same == asked' # asked => RealMoney' = RealMoney
  <1>1. CapInit => Books /\ Funds
    BY FundsInit
  <1>2. Books /\ Funds /\ [CapNext]_capVars => (Books /\ Funds)'
    BY BooksNext, FundsNext
  <1>3. ASSUME Books, Funds, [CapNext]_capVars PROVE Same
    <2>1. CASE SetCapital
      BY <1>3, <2>1, SetCapitalFunds
    <2>2. CASE BotBets \/ BotBetSettles \/ ShadowBets \/ MainBets \/ MainBetSettles
      BY <2>2, BetBooks, <1>3
    <2>3. CASE UNCHANGED capVars
      BY <2>3 DEF capVars
    <2>4. UNCHANGED accounts => Same
      BY DEF accounts, RealMoney, Equity
    <2>5. QED  BY <1>3, <2>1, <2>2, <2>3, <2>4, RequestBooks DEF CapNext
  <1>4. Books /\ Funds /\ [CapNext]_capVars => [Same]_capVars
    BY <1>3
  <1>5. QED  BY <1>1, <1>2, <1>4, PTL DEF CapSpec, MovingKeepsRealMoney

\* What the two theorems below rest on.
LEMMA FundsHold == CapSpec => []Funds
  <1>1. CapInit => Books /\ Funds
    BY FundsInit
  <1>2. Books /\ Funds /\ [CapNext]_capVars => (Books /\ Funds)'
    BY BooksNext, FundsNext
  <1>3. QED  BY <1>1, <1>2, PTL DEF CapSpec

\* What is in a sub-account was put there in the mode its bot's row has now: no
\* change of mode leaves capital of the other kind behind.
THEOREM FundsFollowTheRow == CapSpec => []FundsMatchMode
  <1>1. Funds => FundsMatchMode
    BY DEF Funds
  <1>2. QED  BY <1>1, FundsHold, PTL

\* What _require_empty saw still holds when the archiving commits, and after.
THEOREM NothingIsLeftBehind == CapSpec => []ArchivedBotIsEmpty
  <1>1. Funds => ArchivedBotIsEmpty
    BY DEF Funds
  <1>2. QED  BY <1>1, FundsHold, PTL

-----------------------------------------------------------------------------
(***************************************************************************)
(* HiveMerge, for any number of signals, slices and redeliveries.          *)
(*                                                                         *)
(* Until a lock has run out in its holder's turn (overrun), whoever is in  *)
(* a turn has the lock, so what a bot found open when it looked is what is *)
(* open when it places (NobodyOpposes).                                    *)
(* That a bet is struck once more than its row was lost at most needs no   *)
(* lock: the ledger shows a bet exactly when it was struck once more       *)
(* (BetsTold), and one whose key is there is not placed.                   *)
(***************************************************************************)

WorkPlaces == HalfDone \cup {"unscheduled", "queued", "loaded", "reporting", "done"}
Looked == {"clear", "claimed", "placing"}
Plans == [status : {"NONE", "SCHEDULED", "RUNNING", "COMPLETE", "CANCELLED"},
          slices : [1..Slices -> SliceStatus]]

TurnIsLocked ==
  ~overrun => \A a \in Work : turn[a] \in HalfDone => mergeLock = a

NobodyOpposes ==
  ~overrun => \A a \in Work : turn[a] \in Looked => ~Opposed(a)

PlacedOnce ==
  \A a \in Work : turn[a] = "placing" =>
    /\ Key(a) \notin open
    /\ \A b \in Work : turn[b] = "placing" /\ Key(b) = Key(a) => b = a

BetsTold == \A b \in Bets : struck[b] = IF b \in open THEN lost[b] + 1 ELSE lost[b]

Reporting == \A a \in Work : turn[a] = "reporting" => IsSlice(a) /\ verdict[a] # "NONE"

HiveInv ==
  /\ HiveTypeOK
  /\ TurnIsLocked /\ NobodyOpposes /\ NoWashTrade
  /\ PlacedOnce /\ BetsTold /\ Reporting

LEMMA WorkFacts ==
  /\ NoOne \notin Work
  /\ \A a \in Work : /\ a[1] \in Nat /\ BetOf(a) = Key(a) /\ BetOf(a) \in Bets
                     /\ Key(a) \in Keys /\ (Key(a)[1] > 0 <=> IsSlice(a))
                     /\ ~IsSlice(a) => a[2] \in 1..Signals /\ Key(a) = a
                     /\ IsSlice(a) => a[1] \in 1..Slices
  /\ \A i \in 1..Slices : <<i, 1>> \in Work /\ <<i, 2>> \in Work
  /\ <<0, 1>> \in Work
  BY HiveAssumption DEF NoOne, Work, SignalWork, SliceWork, BetOf, Key, Bets, Keys, IsSlice,
     SliceKey

LEMMA GoesTo ==
  ASSUME HiveTypeOK, NEW a \in Work, NEW to \in WorkPlaces, Goes(a, to)
  PROVE  /\ turn' \in [Work -> WorkPlaces]
         /\ turn'[a] = to
         /\ \A b \in Work \ {a} : turn'[b] = turn[b]
  BY DEF HiveTypeOK, Goes, WorkPlaces

LEMMA OutcomeType ==
  ASSUME HiveTypeOK, NEW i \in 1..Slices, NEW status \in {"FIRED", "FAILED", "CANCELLED"},
         Outcome(i, status)
  PROVE  plan' \in Plans
  <1>1. plan.slices \in [1..Slices -> SliceStatus]
    BY DEF HiveTypeOK
  <1> QED BY <1>1 DEF Outcome, SliceStatus, Plans

LEMMA GivingUp ==
  ASSUME HiveTypeOK, NEW a \in Work, NEW to, GivesUp(a, to)
  PROVE  Goes(a, to) /\ plan' \in Plans
  <1>1. CASE IsSlice(a) BY <1>1, WorkFacts, OutcomeType DEF GivesUp
  <1>2. CASE ~IsSlice(a) BY <1>2 DEF GivesUp, HiveTypeOK, Plans
  <1> QED BY <1>1, <1>2

\* One piece of work moves on, and puts no bet on the ledger.
LEMMA MovesOn ==
  ASSUME HiveInv, NEW a \in Work, NEW to \in WorkPlaces, Goes(a, to),
         mergeLock' \in Work \cup {NoOne},
         verdict' \in [Work -> {"NONE", "FIRED", "FAILED"}],
         plan' \in Plans,
         claimed' \subseteq Keys,
         UNCHANGED <<selection, open, overrun>>,
         UNCHANGED <<struck, lost>> \/ StruckAndLost(a),
         ~overrun /\ to \in HalfDone => mergeLock' = a,
         ~overrun => \A b \in Work \ {a} : turn[b] \in HalfDone => mergeLock' = b,
         ~overrun /\ to \in Looked => ~Opposed(a),
         to = "placing" => /\ Key(a) \notin open
                           /\ \A b \in Work : turn[b] = "placing" => Key(b) # Key(a),
         to = "reporting" => IsSlice(a) /\ verdict'[a] # "NONE",
         \A b \in Work \ {a} : verdict'[b] = verdict[b]
  PROVE  HiveInv'
  <1>1. /\ turn' \in [Work -> WorkPlaces] /\ turn'[a] = to
        /\ \A b \in Work \ {a} : turn'[b] = turn[b]
    BY GoesTo DEF HiveInv
  <1>2. /\ struck' \in [Bets -> Nat] /\ lost' \in [Bets -> Nat]
        /\ \A b \in Bets : \/ struck'[b] = struck[b] /\ lost'[b] = lost[b]
                           \/ struck'[b] = struck[b] + 1 /\ lost'[b] = lost[b] + 1
    <2>1. struck \in [Bets -> Nat] /\ lost \in [Bets -> Nat] /\ BetOf(a) \in Bets
      BY WorkFacts DEF HiveInv, HiveTypeOK
    <2>2. CASE UNCHANGED <<struck, lost>>
      BY <2>1, <2>2
    <2>3. CASE StruckAndLost(a)
      BY <2>1, <2>3 DEF StruckAndLost
    <2> QED BY <2>2, <2>3
  <1>3. HiveTypeOK'
    BY <1>1, <1>2 DEF HiveInv, HiveTypeOK, WorkPlaces, Plans
  <1>4. TurnIsLocked'
    BY <1>1 DEF TurnIsLocked
  <1>5. NobodyOpposes'
    <2>1. \A b \in Work : Opposed(b)' <=> Opposed(b)
      BY DEF Opposed, Backs
    <2> QED BY <1>1, <2>1 DEF HiveInv, NobodyOpposes
  <1>6. NoWashTrade'
    BY DEF HiveInv, NoWashTrade
  <1>7. PlacedOnce'
    BY <1>1 DEF HiveInv, PlacedOnce
  <1>8. BetsTold'
    BY <1>2 DEF HiveInv, HiveTypeOK, BetsTold
  <1>9. Reporting'
    BY <1>1 DEF HiveInv, Reporting
  <1> QED BY <1>3, <1>4, <1>5, <1>6, <1>7, <1>8, <1>9 DEF HiveInv

LEMMA HiveInvInit == HiveInit => HiveInv
  <1> SUFFICES ASSUME HiveInit PROVE HiveInv
    OBVIOUS
  <1>1. HiveTypeOK
    BY WorkFacts, HiveAssumption DEF HiveInit, HiveTypeOK, SliceStatus
  <1>2. \A a \in Work : turn[a] \in {"unscheduled", "queued"}
    BY DEF HiveInit
  <1>3. TurnIsLocked /\ NobodyOpposes /\ PlacedOnce /\ Reporting
    BY <1>2 DEF TurnIsLocked, NobodyOpposes, PlacedOnce, Reporting, HalfDone, Looked
  <1>4. NoWashTrade /\ BetsTold
    BY DEF HiveInit, NoWashTrade, BetsTold
  <1> QED BY <1>1, <1>3, <1>4 DEF HiveInv

-----------------------------------------------------------------------------
(* Before the turn, and what ends it without a bet. *)

LEMMA HiveTypes ==
  ASSUME HiveInv
  PROVE  /\ mergeLock \in Work \cup {NoOne}
         /\ verdict \in [Work -> {"NONE", "FIRED", "FAILED"}]
         /\ plan \in Plans
         /\ claimed \subseteq Keys
         /\ ~overrun => \A b \in Work : turn[b] \in HalfDone => mergeLock = b
  BY DEF HiveInv, HiveTypeOK, Plans, TurnIsLocked

LEMMA HiveMoves ==
  ASSUME HiveInv, NEW a \in Work,
         LoadPlan(a) \/ NothingToFire(a) \/ WashTrade(a) \/ Breaker(a) \/ Report(a)
  PROVE  HiveInv'
  <1> USE HiveTypes DEF WorkPlaces, HalfDone, Looked
  <1>1. CASE LoadPlan(a)
    <2>1. PICK to \in {"done", "loaded"} : Goes(a, to)
      BY <1>1 DEF LoadPlan
    <2> QED BY <1>1, <2>1, MovesOn DEF LoadPlan, executor, bets
  <1>2. CASE NothingToFire(a)
    <2>1. Goes(a, "done") /\ plan' \in Plans
      BY <1>2, GivingUp DEF NothingToFire, HiveInv
    <2> QED BY <1>2, <2>1, MovesOn DEF NothingToFire, executor, bets
  <1>3. CASE WashTrade(a)
    <2>1. plan' \in Plans
      BY <1>3, GivingUp DEF WashTrade, HiveInv
    <2>2. PICK to \in {"releasing", "clear"} : Goes(a, to) /\ (to = "clear" => ~Opposed(a))
      BY <1>3, GivingUp DEF WashTrade, HiveInv
    <2> QED BY <1>3, <2>1, <2>2, MovesOn DEF WashTrade, executor, bets
  <1>4. CASE Breaker(a)
    <2>1. Goes(a, "releasing") /\ plan' \in Plans
      BY <1>4, GivingUp DEF Breaker, HiveInv
    <2> QED BY <1>4, <2>1, MovesOn DEF Breaker, executor, bets
  <1>5. CASE Report(a)
    <2>1. verdict[a] \in {"FIRED", "FAILED"} /\ a[1] \in 1..Slices
      BY <1>5, WorkFacts DEF Report, HiveInv, Reporting
    <2>2. plan' \in Plans
      BY <1>5, <2>1, OutcomeType DEF Report, HiveInv
    <2>3. /\ verdict' \in [Work -> {"NONE", "FIRED", "FAILED"}]
          /\ \A b \in Work \ {a} : verdict'[b] = verdict[b]
      BY <1>5 DEF Report
    <2> QED BY <1>5, <2>2, <2>3, MovesOn DEF Report, executor, bets
  <1> QED BY <1>1, <1>2, <1>3, <1>4, <1>5

LEMMA RedeliverKeeps ==
  ASSUME HiveInv, NEW i \in 1..Slices, Redeliver(i) PROVE HiveInv'
  <1> USE HiveTypes DEF WorkPlaces, HalfDone, Looked
  <1>1. <<i, 2>> \in Work /\ turn[<<i, 2>>] = "unscheduled"
    BY WorkFacts DEF Redeliver
  <1> QED BY <1>1, MovesOn DEF Redeliver, executor, bets

\* The lock is taken only when it is free; until one has run out early, nobody
\* is in a turn then.
LEMMA TakeTurnKeeps ==
  ASSUME HiveInv, NEW a \in Work, TakeTurn(a) PROVE HiveInv'
  <1> USE HiveTypes DEF WorkPlaces, HalfDone, Looked
  <1>1. turn[a] \in {"loaded", "queued"}
    BY DEF TakeTurn, Ready
  <1>2. CASE mergeLock # NoOne
    <2>1. Goes(a, "done") /\ plan' \in Plans /\ UNCHANGED mergeLock
      BY <1>2, GivingUp DEF TakeTurn, HiveInv
    <2> QED BY <1>2, <2>1, MovesOn DEF TakeTurn, executor, bets
  <1>3. CASE mergeLock = NoOne
    <2>1. mergeLock' = a /\ Goes(a, "locked") /\ UNCHANGED plan
      BY <1>3 DEF TakeTurn
    <2>2. ~overrun => \A b \in Work : turn[b] \notin HalfDone
      BY <1>3, WorkFacts
    <2> QED BY <2>1, <2>2, MovesOn DEF TakeTurn, executor, bets
  <1> QED BY <1>2, <1>3

LEMMA EndTurnKeeps ==
  ASSUME HiveInv, NEW a \in Work, EndTurn(a) PROVE HiveInv'
  <1> USE HiveTypes DEF WorkPlaces, HalfDone, Looked
  <1>1. PICK to \in {"reporting", "done"} :
          Goes(a, to) /\ (to = "reporting" => IsSlice(a) /\ verdict[a] # "NONE")
    BY DEF EndTurn
  <1>2. /\ turn[a] = "releasing" /\ mergeLock' \in {NoOne, mergeLock}
        /\ mergeLock' = mergeLock \/ mergeLock = a
    BY DEF EndTurn
  <1> QED BY <1>1, <1>2, MovesOn DEF EndTurn, executor, bets

-----------------------------------------------------------------------------
(* The executor, and the faults. *)

LEMMA Refused ==
  ASSUME HiveInv, NEW a \in Work, LegRefused(a)
  PROVE  /\ Goes(a, "releasing")
         /\ verdict' \in [Work -> {"NONE", "FIRED", "FAILED"}]
         /\ \A b \in Work \ {a} : verdict'[b] = verdict[b]
  BY HiveTypes DEF LegRefused

LEMMA ExecutorKeeps ==
  ASSUME HiveInv, NEW a \in Work,
         Execute(a) \/ ReserveBet(a) \/ NotPlaced(a) \/ CommitFails(a) \/ WorkDies(a)
  PROVE  HiveInv'
  <1> USE HiveTypes DEF WorkPlaces, HalfDone, Looked
  <1>1. CASE Execute(a)
    <2>1. CASE Key(a) \in claimed
      BY <1>1, <2>1, Refused, MovesOn DEF Execute, executor, bets
    <2>2. CASE Key(a) \notin claimed
      <3>1. /\ Goes(a, "claimed") /\ turn[a] = "clear"
            /\ claimed' = claimed \cup {Key(a)}
            /\ UNCHANGED <<mergeLock, verdict, selection, plan, bets, overrun>>
        BY <1>1, <2>2 DEF Execute
      <3>2. ~overrun => ~Opposed(a)
        BY <3>1 DEF HiveInv, NobodyOpposes
      <3>3. claimed' \subseteq Keys
        BY <3>1, WorkFacts
      <3> QED BY <3>1, <3>2, <3>3, MovesOn DEF bets
    <2> QED BY <2>1, <2>2
  <1>2. CASE ReserveBet(a)
    <2>1. CASE Key(a) \in open
      BY <1>2, <2>1, Refused, MovesOn DEF ReserveBet, executor, bets
    <2>2. CASE Key(a) \notin open
      <3>1. /\ Goes(a, "placing") /\ turn[a] = "claimed"
            /\ \A b \in Work : turn[b] = "placing" => Key(b) # Key(a)
            /\ UNCHANGED <<mergeLock, verdict, selection, plan, claimed, open, struck, lost,
                           overrun>>
        BY <1>2, <2>2 DEF ReserveBet, executor, bets
      <3>2. ~overrun => ~Opposed(a)
        BY <3>1 DEF HiveInv, NobodyOpposes
      <3> QED BY <2>2, <3>1, <3>2, MovesOn
    <2> QED BY <2>1, <2>2
  <1>3. CASE NotPlaced(a)
    BY <1>3, Refused, MovesOn DEF NotPlaced, executor, bets
  <1>4. CASE CommitFails(a)
    BY <1>4, Refused, MovesOn DEF CommitFails
  <1>5. CASE WorkDies(a)
    <2>1. /\ verdict' \in [Work -> {"NONE", "FIRED", "FAILED"}]
          /\ \A b \in Work \ {a} : verdict'[b] = verdict[b]
      BY <1>5 DEF WorkDies
    <2> QED BY <1>5, <2>1, MovesOn DEF WorkDies
  <1> QED BY <1>1, <1>2, <1>3, <1>4, <1>5

LEMMA PlanSlicesKeeps ==
  ASSUME HiveInv, NEW a \in Work, PlanSlices(a) PROVE HiveInv'
  <1> USE DEF WorkPlaces, HalfDone, Looked
  <1>1. PICK queued \in 0..Slices :
          turn' = [b \in Work |->
            IF b = a THEN IF queued = Slices THEN "releasing" ELSE "done"
            ELSE IF IsSlice(b) /\ b[1] <= queued /\ b[2] = 1 THEN "queued" ELSE turn[b]]
    BY DEF PlanSlices
  <1>2. /\ turn[a] = "clear"
        /\ UNCHANGED <<mergeLock, verdict, selection, claimed, open, struck, lost, overrun>>
    BY DEF PlanSlices, executor, bets
  <1>3. /\ turn'[a] \in {"releasing", "done"}
        /\ \A b \in Work \ {a} : turn'[b] \in {turn[b], "queued"}
    BY <1>1
  <1>4. HiveTypeOK'
    <2>1. turn' \in [Work -> WorkPlaces]
      BY <1>1 DEF HiveInv, HiveTypeOK
    <2>2. plan' \in Plans
      BY HiveTypes DEF PlanSlices, Plans
    <2> QED BY <1>2, <2>1, <2>2 DEF HiveInv, HiveTypeOK, Plans
  <1>5. TurnIsLocked'
    BY <1>2, <1>3 DEF HiveInv, TurnIsLocked
  <1>6. NobodyOpposes' /\ PlacedOnce' /\ Reporting'
    BY <1>2, <1>3
    DEF HiveInv, NobodyOpposes, Opposed, Backs, PlacedOnce, Reporting
  <1>7. NoWashTrade' /\ BetsTold'
    BY <1>2 DEF HiveInv, NoWashTrade, BetsTold
  <1> QED BY <1>4, <1>5, <1>6, <1>7 DEF HiveInv

\* The bet joins those it was compared with; whoever else looked and has not
\* placed would have to have the lock too.
LEMMA PlacedKeeps ==
  ASSUME HiveInv, NEW a \in Work, Placed(a) PROVE HiveInv'
  <1> USE DEF WorkPlaces, HalfDone, Looked
  <1>1. /\ Goes(a, "releasing") /\ turn[a] = "placing"
        /\ open' = open \cup {Key(a)}
        /\ struck' = [struck EXCEPT ![Key(a)] = @ + 1]
        /\ UNCHANGED <<mergeLock, selection, plan, claimed, lost, overrun>>
    BY WorkFacts DEF Placed
  <1>2. /\ turn' \in [Work -> WorkPlaces] /\ turn'[a] = "releasing"
        /\ \A b \in Work \ {a} : turn'[b] = turn[b]
    BY <1>1, GoesTo DEF HiveInv
  <1>3. Key(a) \in Bets /\ Key(a) \in Keys /\ struck \in [Bets -> Nat] /\ lost \in [Bets -> Nat]
    BY WorkFacts DEF HiveInv, HiveTypeOK
  <1>4. HiveTypeOK'
    <2>1. verdict' \in [Work -> {"NONE", "FIRED", "FAILED"}]
      BY HiveTypes DEF Placed
    <2>2. struck' \in [Bets -> Nat] /\ open' \subseteq Keys
      BY <1>1, <1>3 DEF HiveInv, HiveTypeOK
    <2> QED BY <1>1, <1>2, <2>1, <2>2 DEF HiveInv, HiveTypeOK
  <1>5. TurnIsLocked'
    BY <1>1, <1>2 DEF HiveInv, TurnIsLocked
  <1>6. Reporting'
    BY <1>1, <1>2, HiveTypes DEF HiveInv, Reporting, Placed
  <1>7. NobodyOpposes'
    BY <1>1, <1>2 DEF HiveInv, TurnIsLocked, NobodyOpposes
  <1>8. PlacedOnce'
    BY <1>1, <1>2 DEF HiveInv, PlacedOnce
  <1>9. BetsTold'
    BY <1>1, <1>3 DEF HiveInv, PlacedOnce, BetsTold
  <1>10. NoWashTrade'
    <2> SUFFICES ASSUME ~overrun PROVE NoWashTrade'
      BY <1>1 DEF NoWashTrade
    <2>1. selection[IF Key(a)[1] > 0 THEN 1 ELSE Key(a)[2]] = Backs(a)
      BY WorkFacts DEF Backs
    <2>2. \A k \in open : selection[IF k[1] > 0 THEN 1 ELSE k[2]] = Backs(a)
      BY <1>1 DEF HiveInv, NobodyOpposes, Opposed
    <2>3. \A k \in open' : selection[IF k[1] > 0 THEN 1 ELSE k[2]] = Backs(a)
      BY <1>1, <2>1, <2>2
    <2> QED BY <1>1, <2>3 DEF NoWashTrade
  <1> QED BY <1>4, <1>5, <1>6, <1>7, <1>8, <1>9, <1>10 DEF HiveInv

\* A lock that runs out in its holder's turn is the end of the promise.
LEMMA RunsOutKeeps ==
  ASSUME HiveInv, MergeLockRunsOut \/ \E k \in claimed : ClaimRunsOut(k) PROVE HiveInv'
  <1>1. /\ UNCHANGED <<turn, verdict, selection, plan, open, struck, lost>>
        /\ mergeLock' \in Work \cup {NoOne}
        /\ claimed' \subseteq Keys
        /\ overrun' \in BOOLEAN
        /\ ~overrun' => ~overrun
        /\ ~overrun' => mergeLock' = mergeLock \/ turn[mergeLock] \notin HalfDone
    BY DEF MergeLockRunsOut, ClaimRunsOut, bets, HiveInv, HiveTypeOK
  <1>2. HiveTypeOK'
    BY <1>1 DEF HiveInv, HiveTypeOK
  <1>3. TurnIsLocked'
    BY <1>1 DEF HiveInv, TurnIsLocked
  <1>4. NobodyOpposes' /\ NoWashTrade'
    BY <1>1 DEF HiveInv, NobodyOpposes, NoWashTrade, Opposed, Backs
  <1>5. PlacedOnce' /\ BetsTold' /\ Reporting'
    BY <1>1 DEF HiveInv, PlacedOnce, BetsTold, Reporting
  <1> QED BY <1>2, <1>3, <1>4, <1>5 DEF HiveInv

LEMMA HiveInvNext == ASSUME HiveInv, [HiveNext]_hiveVars PROVE HiveInv'
  <1>1. CASE HiveNext
    BY <1>1, HiveMoves, TakeTurnKeeps, PlanSlicesKeeps, ExecutorKeeps, PlacedKeeps,
       EndTurnKeeps, RedeliverKeeps, RunsOutKeeps DEF HiveNext
  <1>2. CASE UNCHANGED hiveVars
    BY <1>2 DEF hiveVars, HiveInv, HiveTypeOK, TurnIsLocked, NobodyOpposes, Opposed,
       Backs, PlacedOnce, BetsTold, Reporting, NoWashTrade
  <1> QED BY <1>1, <1>2

\* The inductive invariant of the bots' turns.
THEOREM HiveInvariant == HiveSpec => []HiveInv
  <1>1. HiveInit => HiveInv
    BY HiveInvInit
  <1>2. HiveInv /\ [HiveNext]_hiveVars => HiveInv'
    BY HiveInvNext
  <1> QED BY <1>1, <1>2, PTL DEF HiveSpec

\* Every turn, lock, slice and bet of the bots keeps its type (services/hive_engine.py).
THEOREM HiveTypeCorrect == HiveSpec => []HiveTypeOK
  <1>1. HiveInv => HiveTypeOK
    BY DEF HiveInv
  <1> QED BY <1>1, HiveInvariant, PTL

\* As long as no turn has outlived its lock, no two bots of an owner hold
\* opposite outcomes of one market, however many signals and slices take turns
\* and whoever dies in one (services/hive_engine.py:425).
THEOREM BotsNeverOppose == HiveSpec => []NoWashTrade
  <1>1. HiveInv => NoWashTrade
    BY DEF HiveInv
  <1> QED BY <1>1, HiveInvariant, PTL

\* However often a slice's task is delivered, whatever has run out or died, its
\* bet is sent again only after a row that did not reach the ledger
\* (services/cfo_execution.py:380).
THEOREM SecondBetAfterALostRow == HiveSpec => []SecondBetNeedsALostRow
  <1>1. ASSUME HiveInv PROVE SecondBetNeedsALostRow
    <2> SUFFICES ASSUME NEW b \in Bets PROVE struck[b] <= lost[b] + 1
      BY DEF SecondBetNeedsALostRow
    <2>1. lost[b] \in Nat /\ struck[b] = IF b \in open THEN lost[b] + 1 ELSE lost[b]
      BY <1>1 DEF HiveInv, HiveTypeOK, BetsTold
    <2> QED BY <2>1
  <1> QED BY <1>1, HiveInvariant, PTL

-----------------------------------------------------------------------------
(***************************************************************************)
(* SessionCache, for any number of workers, callers, tokens and outages.   *)
(*                                                                         *)
(* While it is calm, a caller between its second look and the answer of    *)
(* the venue has the lease, and what it saw there, that no token is        *)
(* usable, is still so (NothingUsable).                                    *)
(***************************************************************************)

AskPlaces == {"idle", "locking", "leasing", "rereading", "refresh", "login", "fire", "done",
              "failed"}

\* The beat orders nothing, so no venue ever refuses it a token.
BeatsFireNothing ==
  \A c \in beats : asking[c] # "fire" /\ (asking[c] = "idle" => stale[c] = 0)

\* A token that was refused, or that the beat found stale, stays useless.
StaleIsDead == \A c \in Callers : stale[c] # 0 => ~Live(stale[c])

LockedInProcess ==
  \A c \in Callers : asking[c] = "leasing" \/ InSection(c) => procLock[host[c]] = c

NothingUsable == \A t \in Issued : ~Live(t)

SingleFlight ==
  calm =>
    /\ redisUp
    /\ \A t \in Issued : Live(t) => t = redisTok
    /\ \A c \in Callers : InSection(c) => lease = c
    /\ \A c \in Callers : Granting(c) => NothingUsable

SessInv ==
  /\ SessTypeOK
  /\ RetryCarriesAnotherToken
  /\ BeatsFireNothing
  /\ StaleIsDead
  /\ LockedInProcess
  /\ SingleFlight

-----------------------------------------------------------------------------

LEMMA IssuedIs ==
  ASSUME SessTypeOK
  PROVE  /\ Len(life) \in Nat /\ Issued = 1..Len(life)
         /\ \A t \in Issued : life[t] \in 0..2
  BY LenProperties, ElementOfSeq DEF SessTypeOK, Issued

LEMMA MovesTo1 ==
  ASSUME SessTypeOK, NEW c \in Callers, NEW to \in AskPlaces,
         NEW newTok \in Issued \cup {0}, NEW newStale \in Issued \cup {0},
         Moves(c, to, newTok, newStale)
  PROVE  /\ asking' \in [Callers -> AskPlaces]
         /\ tok' \in [Callers -> Issued \cup {0}]
         /\ stale' \in [Callers -> Issued \cup {0}]
         /\ asking'[c] = to
         /\ tok'[c] = IF to = "fire" THEN newTok ELSE 0
         /\ stale'[c] = IF to \in {"done", "failed"} THEN 0 ELSE newStale
         /\ \A d \in Callers \ {c} : /\ asking'[d] = asking[d] /\ tok'[d] = tok[d]
                                     /\ stale'[d] = stale[d]
  BY DEF SessTypeOK, Moves, AskPlaces

LEMMA SessInvInit == SessInit => SessInv
  <1> SUFFICES ASSUME SessInit PROVE SessInv
    OBVIOUS
  <1>1. life \in Seq(0..2) /\ Len(life) = 0 /\ Issued = {}
    BY EmptySeq DEF SessInit, Issued
  <1>2. SessTypeOK
    BY <1>1, SessionAssumption DEF SessInit, SessTypeOK
  <1>3. RetryCarriesAnotherToken /\ BeatsFireNothing /\ StaleIsDead
    BY DEF SessInit, RetryCarriesAnotherToken, BeatsFireNothing, StaleIsDead
  <1>4. LockedInProcess /\ SingleFlight
    BY <1>1
    DEF SessInit, LockedInProcess, SingleFlight, InSection, Granting, NothingUsable
  <1> QED BY <1>2, <1>3, <1>4 DEF SessInv

\* A caller moves on, and the venue and Redis keep their tokens.
LEMMA CallerMoves ==
  ASSUME SessInv, NEW c \in Callers, NEW to \in AskPlaces,
         NEW newTok \in Issued \cup {0}, NEW newStale \in Issued \cup {0},
         Moves(c, to, newTok, newStale),
         UNCHANGED <<places, redisTok, venueVars, redisVars>>,
         memTok' \in [Workers -> Issued \cup {0}],
         procLock' \in [Workers -> Callers \cup {"free"}],
         lease' \in Callers \cup {"free"},
         calm' \in BOOLEAN,
         to = "fire" => c \notin beats /\ newTok # newStale,
         to = "idle" => c \notin beats,
         newStale # 0 => ~Live(newStale),
         to \in {"leasing", "rereading", "refresh", "login"} => procLock'[host[c]] = c,
         \A d \in Callers \ {c} :
           asking[d] = "leasing" \/ InSection(d) => procLock'[host[d]] = d,
         calm' => /\ calm
                  /\ to \in {"rereading", "refresh", "login"} => lease' = c
                  /\ to \in {"refresh", "login"} => NothingUsable
                  /\ \A d \in Callers \ {c} : InSection(d) => lease' = lease
  PROVE  SessInv'
  <1>1. /\ asking' \in [Callers -> AskPlaces]
        /\ tok' \in [Callers -> Issued \cup {0}]
        /\ stale' \in [Callers -> Issued \cup {0}]
    BY MovesTo1 DEF SessInv
  <1>2. /\ asking'[c] = to
        /\ tok'[c] = IF to = "fire" THEN newTok ELSE 0
        /\ stale'[c] = IF to \in {"done", "failed"} THEN 0 ELSE newStale
        /\ \A d \in Callers \ {c} : /\ asking'[d] = asking[d] /\ tok'[d] = tok[d]
                                    /\ stale'[d] = stale[d]
    BY MovesTo1 DEF SessInv
  <1>3. /\ life' = life /\ accepted' = accepted /\ host' = host /\ beats' = beats
        /\ redisTok' = redisTok /\ redisUp' = redisUp /\ outages' = outages
        /\ Issued' = Issued
    BY DEF places, venueVars, redisVars, Issued
  <1>4. \A t : Live(t)' <=> Live(t)
    BY <1>3 DEF Live
  <1>5. SessTypeOK'
    BY <1>1, <1>3 DEF SessInv, SessTypeOK, AskPlaces
  <1>6. RetryCarriesAnotherToken'
    BY <1>2 DEF SessInv, RetryCarriesAnotherToken
  <1>7. BeatsFireNothing'
    BY <1>2, <1>3 DEF SessInv, BeatsFireNothing, SessTypeOK
  <1>8. StaleIsDead'
    BY <1>2, <1>3, <1>4 DEF SessInv, StaleIsDead, Live
  <1>9. LockedInProcess'
    BY <1>2, <1>3 DEF SessInv, LockedInProcess, InSection
  <1>10. SingleFlight'
    <2> SUFFICES ASSUME calm'
                 PROVE  /\ redisUp'
                        /\ \A t \in Issued' : Live(t)' => t = redisTok'
                        /\ \A d \in Callers : InSection(d)' => lease' = d
                        /\ \A d \in Callers : Granting(d)' => NothingUsable'
      BY DEF SingleFlight
    <2>1. /\ redisUp
          /\ \A t \in Issued : Live(t) => t = redisTok
          /\ \A d \in Callers : InSection(d) => lease = d
          /\ \A d \in Callers : Granting(d) => NothingUsable
      BY DEF SessInv, SingleFlight
    <2>2. redisUp' /\ \A t \in Issued' : Live(t)' => t = redisTok'
      BY <1>3, <1>4, <2>1
    <2>3. \A d \in Callers : InSection(d)' => lease' = d
      <3> SUFFICES ASSUME NEW d \in Callers, InSection(d)' PROVE lease' = d
        OBVIOUS
      <3>1. CASE d = c
        BY <1>2, <3>1 DEF InSection
      <3>2. CASE d # c
        <4>1. InSection(d) /\ lease' = lease
          BY <1>2, <3>2 DEF InSection
        <4> QED BY <2>1, <4>1
      <3> QED BY <3>1, <3>2
    <2>4. \A d \in Callers : Granting(d)' => NothingUsable
      BY <1>2, <2>1 DEF Granting
    <2>5. NothingUsable => NothingUsable'
      BY <1>3, <1>4 DEF NothingUsable
    <2> QED BY <2>2, <2>3, <2>4, <2>5
  <1> QED BY <1>5, <1>6, <1>7, <1>8, <1>9, <1>10 DEF SessInv

\* What _load finds, and leaves in memory.
LEMMA CachedIs ==
  ASSUME SessTypeOK, NEW w \in Workers
  PROVE  /\ Cached(w) \in Issued \cup {0}
         /\ Loaded(w) => memTok' \in [Workers -> Issued \cup {0}]
  BY DEF SessTypeOK, Cached, Loaded

LEMMA NotUsableIsDead ==
  ASSUME SessInv, NEW c \in Callers, NEW t \in Issued, ~Usable(t, stale[c])
  PROVE  ~Live(t)
  <1>1. t # 0
    BY IssuedIs DEF SessInv
  <1> QED BY <1>1 DEF SessInv, StaleIsDead, Usable, Live

LEMMA AskKeeps == ASSUME SessInv, NEW c \in Callers, Ask(c) PROVE SessInv'
  <1> DEFINE t == Cached(host[c])
  <1>1. host[c] \in Workers /\ stale[c] \in Issued \cup {0}
    BY DEF SessInv, SessTypeOK
  <1>2. t \in Issued \cup {0} /\ memTok' \in [Workers -> Issued \cup {0}]
    BY <1>1, CachedIs DEF Ask, SessInv
  <1>3. stale[c] # 0 => ~Live(stale[c])
    BY DEF SessInv, StaleIsDead
  <1>4. /\ UNCHANGED <<places, redisTok, venueVars, procLock, lease, redisVars, calm>>
        /\ procLock' \in [Workers -> Callers \cup {"free"}]
        /\ lease' \in Callers \cup {"free"}
        /\ calm' \in BOOLEAN
        /\ \A d \in Callers : asking[d] = "leasing" \/ InSection(d) => procLock'[host[d]] = d
    BY DEF Ask, SessInv, SessTypeOK, LockedInProcess
  <1>5. CASE Usable(t, stale[c])
    <2>1. PICK to \in {"done", "fire"} :
            Moves(c, to, t, stale[c]) /\ (to = "fire" => c \notin beats)
      BY <1>5 DEF Ask, Served
    <2>2. t # stale[c]
      BY <1>5 DEF Usable
    <2> HIDE DEF t
    <2> QED BY <1>1, <1>2, <1>3, <1>4, <2>1, <2>2, CallerMoves DEF AskPlaces
  <1>6. CASE ~Usable(t, stale[c])
    <2> DEFINE found == IF c \in beats THEN t ELSE stale[c]
    <2>1. Moves(c, "locking", 0, found)
      BY <1>6 DEF Ask
    <2>2. found \in Issued \cup {0}
      BY <1>1, <1>2
    <2>3. found # 0 => ~Live(found)
      BY <1>2, <1>3, <1>6, NotUsableIsDead
    <2> HIDE DEF found, t
    <2> QED BY <1>2, <1>4, <2>1, <2>2, <2>3, CallerMoves DEF AskPlaces
  <1> QED BY <1>5, <1>6

\* Waiting for the locks.
LEMMA LockProcessKeeps == ASSUME SessInv, NEW c \in Callers, LockProcess(c) PROVE SessInv'
  <1>1. stale[c] \in Issued \cup {0} /\ (stale[c] # 0 => ~Live(stale[c])) /\ host[c] \in Workers
    BY DEF SessInv, SessTypeOK, StaleIsDead
  <1>2. /\ Moves(c, "leasing", 0, stale[c])
        /\ UNCHANGED <<places, redisTok, memTok, venueVars, lease, redisVars, calm>>
        /\ procLock' = [procLock EXCEPT ![host[c]] = c]
        /\ procLock[host[c]] = "free"
    BY DEF LockProcess
  <1>3. \A d \in Callers : asking[d] = "leasing" \/ InSection(d) => procLock'[host[d]] = d
    BY <1>1, <1>2, SessionAssumption DEF SessInv, SessTypeOK, LockedInProcess
  <1>4. procLock' \in [Workers -> Callers \cup {"free"}] /\ procLock'[host[c]] = c
    BY <1>1, <1>2 DEF SessInv, SessTypeOK
  <1>5. /\ memTok' \in [Workers -> Issued \cup {0}]
        /\ lease' \in Callers \cup {"free"}
        /\ calm' \in BOOLEAN
    BY <1>2 DEF SessInv, SessTypeOK
  <1> QED BY <1>1, <1>2, <1>3, <1>4, <1>5, CallerMoves DEF AskPlaces

LEMMA TakeLeaseKeeps == ASSUME SessInv, NEW c \in Callers, TakeLease(c) PROVE SessInv'
  <1>1. stale[c] \in Issued \cup {0} /\ (stale[c] # 0 => ~Live(stale[c])) /\ host[c] \in Workers
    BY DEF SessInv, SessTypeOK, StaleIsDead
  <1>2. /\ Moves(c, "rereading", 0, stale[c]) /\ asking[c] = "leasing"
        /\ UNCHANGED <<places, redisTok, memTok, venueVars, procLock, redisVars, calm>>
        /\ lease = "free" /\ lease' = c
    BY DEF TakeLease
  <1>3. \A d \in Callers : asking[d] = "leasing" \/ InSection(d) => procLock'[host[d]] = d
    BY <1>2 DEF SessInv, LockedInProcess
  <1>4. /\ memTok' \in [Workers -> Issued \cup {0}]
        /\ procLock' \in [Workers -> Callers \cup {"free"}]
        /\ calm' \in BOOLEAN
    BY <1>2 DEF SessInv, SessTypeOK
  <1>5. lease' \in Callers \cup {"free"}
    BY <1>2
  <1>6. calm => \A d \in Callers : ~InSection(d)
    BY <1>2, SessionAssumption DEF SessInv, SingleFlight
  <1> QED BY <1>1, <1>2, <1>3, <1>4, <1>5, <1>6, CallerMoves DEF AskPlaces

LEMMA GoWithoutLeaseKeeps ==
  ASSUME SessInv, NEW c \in Callers, GoWithoutLease(c) PROVE SessInv'
  <1>1. stale[c] \in Issued \cup {0} /\ (stale[c] # 0 => ~Live(stale[c])) /\ host[c] \in Workers
    BY DEF SessInv, SessTypeOK, StaleIsDead
  <1>2. /\ Moves(c, "rereading", 0, stale[c]) /\ asking[c] = "leasing"
        /\ UNCHANGED <<places, redisTok, memTok, venueVars, procLock, lease, redisVars>>
        /\ calm' = FALSE
    BY DEF GoWithoutLease
  <1>3. \A d \in Callers : asking[d] = "leasing" \/ InSection(d) => procLock'[host[d]] = d
    BY <1>2 DEF SessInv, LockedInProcess
  <1>4. /\ memTok' \in [Workers -> Issued \cup {0}]
        /\ procLock' \in [Workers -> Callers \cup {"free"}]
        /\ lease' \in Callers \cup {"free"}
    BY <1>2 DEF SessInv, SessTypeOK
  <1> QED BY <1>1, <1>2, <1>3, <1>4, CallerMoves DEF AskPlaces

\* Giving back both locks disturbs nobody else who has one.
LEMMA ReleaseIs ==
  ASSUME SessInv, NEW c \in Callers, Release(c), asking[c] = "leasing" \/ InSection(c),
         host' = host
  PROVE  /\ procLock' \in [Workers -> Callers \cup {"free"}]
         /\ lease' \in Callers \cup {"free"}
         /\ \A d \in Callers \ {c} :
              asking[d] = "leasing" \/ InSection(d) => procLock'[host[d]] = d
         /\ calm => \A d \in Callers \ {c} : InSection(d) => lease' = lease
  <1>1. host[c] \in Workers /\ procLock[host[c]] = c
    BY DEF SessInv, SessTypeOK, LockedInProcess
  <1>2. procLock' = [procLock EXCEPT ![host[c]] = "free"] /\ lease' \in {lease, "free"}
    BY DEF Release
  <1>3. procLock' \in [Workers -> Callers \cup {"free"}]
    BY <1>2 DEF SessInv, SessTypeOK
  <1>4. lease' \in Callers \cup {"free"}
    BY <1>2 DEF SessInv, SessTypeOK
  <1>5. \A d \in Callers \ {c} :
          asking[d] = "leasing" \/ InSection(d) => procLock'[host[d]] = d
    BY <1>1, <1>2 DEF SessInv, SessTypeOK, LockedInProcess
  <1>6. calm => \A d \in Callers \ {c} : InSection(d) => lease' = lease
    BY DEF Release, SessInv, SingleFlight
  <1> QED BY <1>3, <1>4, <1>5, <1>6

\* The second look: with Redis up it sees the only token that may be usable.
LEMMA RereadKeeps == ASSUME SessInv, NEW c \in Callers, Reread(c) PROVE SessInv'
  <1> DEFINE t == Cached(host[c])
  <1>1. stale[c] \in Issued \cup {0} /\ (stale[c] # 0 => ~Live(stale[c])) /\ host[c] \in Workers
    BY DEF SessInv, SessTypeOK, StaleIsDead
  <1>2. t \in Issued \cup {0} /\ memTok' \in [Workers -> Issued \cup {0}]
    BY <1>1, CachedIs DEF Reread, SessInv
  <1>3. /\ UNCHANGED <<places, redisTok, venueVars, redisVars, calm>>
        /\ host' = host /\ asking[c] = "rereading" /\ InSection(c) /\ calm' \in BOOLEAN
    BY DEF Reread, places, InSection, SessInv, SessTypeOK
  <1>4. CASE Usable(t, stale[c])
    <2>1. PICK to \in {"done", "fire"} :
            Moves(c, to, t, stale[c]) /\ (to = "fire" => c \notin beats)
      BY <1>4 DEF Reread, Served
    <2>2. t # stale[c]
      BY <1>4 DEF Usable
    <2>3. Release(c)
      BY <1>4 DEF Reread
    <2> HIDE DEF t
    <2>4. /\ procLock' \in [Workers -> Callers \cup {"free"}]
          /\ lease' \in Callers \cup {"free"}
          /\ \A d \in Callers \ {c} :
               asking[d] = "leasing" \/ InSection(d) => procLock'[host[d]] = d
          /\ calm => \A d \in Callers \ {c} : InSection(d) => lease' = lease
      BY <1>3, <2>3, ReleaseIs
    <2> QED BY <1>1, <1>2, <1>3, <2>1, <2>2, <2>4, CallerMoves DEF AskPlaces
  <1>5. CASE ~Usable(t, stale[c])
    <2>1. PICK to \in {"refresh", "login"} : Moves(c, to, 0, stale[c])
      BY <1>5 DEF Reread
    <2>2. procLock' = procLock /\ lease' = lease
      BY <1>5 DEF Reread
    <2>3. calm => NothingUsable
      <3> SUFFICES ASSUME calm, NEW u \in Issued, Live(u) PROVE FALSE
        BY DEF NothingUsable
      <3>1. redisUp /\ u = redisTok
        BY DEF SessInv, SingleFlight
      <3>2. u # 0
        BY IssuedIs DEF SessInv
      <3>3. t = u
        BY <3>1, <3>2 DEF Cached
      <3> QED BY <1>5, <3>3, NotUsableIsDead
    <2>4. calm => lease = c
      BY <1>3 DEF SessInv, SingleFlight
    <2>5. /\ procLock' \in [Workers -> Callers \cup {"free"}]
          /\ lease' \in Callers \cup {"free"}
          /\ \A d \in Callers : asking[d] = "leasing" \/ InSection(d) => procLock'[host[d]] = d
      BY <2>2 DEF SessInv, SessTypeOK, LockedInProcess
    <2>6. procLock'[host[c]] = c
      BY <1>3, <2>5
    <2> HIDE DEF t
    <2>7. CASE to = "refresh"
      BY <1>1, <1>2, <1>3, <2>1, <2>2, <2>3, <2>4, <2>5, <2>6, <2>7, CallerMoves DEF AskPlaces
    <2>8. CASE to = "login"
      BY <1>1, <1>2, <1>3, <2>1, <2>2, <2>3, <2>4, <2>5, <2>6, <2>8, CallerMoves DEF AskPlaces
    <2> QED BY <2>1, <2>7, <2>8
  <1> QED BY <1>4, <1>5

LEMMA RefreshRefusedKeeps ==
  ASSUME SessInv, NEW c \in Callers, RefreshRefused(c) PROVE SessInv'
  <1>1. stale[c] \in Issued \cup {0} /\ (stale[c] # 0 => ~Live(stale[c])) /\ host[c] \in Workers
    BY DEF SessInv, SessTypeOK, StaleIsDead
  <1>2. /\ Moves(c, "login", 0, stale[c]) /\ asking[c] = "refresh" /\ InSection(c) /\ Granting(c)
        /\ UNCHANGED <<places, redisTok, memTok, venueVars, procLock, lease, redisVars, calm>>
    BY DEF RefreshRefused, InSection, Granting
  <1>3. \A d \in Callers : asking[d] = "leasing" \/ InSection(d) => procLock'[host[d]] = d
    BY <1>2 DEF SessInv, LockedInProcess
  <1>4. /\ memTok' \in [Workers -> Issued \cup {0}]
        /\ procLock' \in [Workers -> Callers \cup {"free"}]
        /\ lease' \in Callers \cup {"free"}
        /\ calm' \in BOOLEAN
    BY <1>2 DEF SessInv, SessTypeOK
  <1>5. calm => lease = c /\ NothingUsable
    BY <1>2 DEF SessInv, SingleFlight
  <1>6. procLock'[host[c]] = c
    BY <1>2, <1>3
  <1> QED BY <1>1, <1>2, <1>3, <1>4, <1>5, <1>6, CallerMoves DEF AskPlaces

LEMMA LoginFailsKeeps == ASSUME SessInv, NEW c \in Callers, LoginFails(c) PROVE SessInv'
  <1>1. /\ Moves(c, "failed", 0, 0) /\ Release(c) /\ InSection(c) /\ host' = host
        /\ UNCHANGED <<places, redisTok, memTok, venueVars, redisVars, calm>>
    BY DEF LoginFails, InSection, places
  <1>2. /\ procLock' \in [Workers -> Callers \cup {"free"}]
        /\ lease' \in Callers \cup {"free"}
        /\ \A d \in Callers \ {c} :
             asking[d] = "leasing" \/ InSection(d) => procLock'[host[d]] = d
        /\ calm => \A d \in Callers \ {c} : InSection(d) => lease' = lease
    BY <1>1, ReleaseIs
  <1>3. memTok' \in [Workers -> Issued \cup {0}] /\ calm' \in BOOLEAN
    BY <1>1 DEF SessInv, SessTypeOK
  <1> QED BY <1>1, <1>2, <1>3, CallerMoves DEF AskPlaces

\* The order: a refused token is not accepted again.
LEMMA FireKeeps ==
  ASSUME SessInv, NEW c \in Callers, FireAccepted(c) \/ FireRefused(c) PROVE SessInv'
  <1>1. /\ asking[c] = "fire" /\ c \notin beats
        /\ UNCHANGED <<places, redisTok, memTok, venueVars, procLock, lease, redisVars, calm>>
    BY DEF FireAccepted, FireRefused, SessInv, BeatsFireNothing
  <1>2. PICK to \in {"done", "idle", "failed"}, newStale \in Issued \cup {0} :
          Moves(c, to, 0, newStale) /\ (newStale # 0 => ~Live(newStale))
    <2>1. tok[c] \in Issued \cup {0}
      BY DEF SessInv, SessTypeOK
    <2>2. CASE FireAccepted(c) BY <2>2 DEF FireAccepted
    <2>3. CASE FireRefused(c) BY <2>1, <2>3 DEF FireRefused, Live
    <2> QED BY <2>2, <2>3
  <1>3. \A d \in Callers : asking[d] = "leasing" \/ InSection(d) => procLock'[host[d]] = d
    BY <1>1 DEF SessInv, LockedInProcess
  <1>4. /\ memTok' \in [Workers -> Issued \cup {0}]
        /\ procLock' \in [Workers -> Callers \cup {"free"}]
        /\ lease' \in Callers \cup {"free"}
        /\ calm' \in BOOLEAN
    BY <1>1 DEF SessInv, SessTypeOK
  <1>5. calm' => calm /\ lease' = lease
    BY <1>1
  <1>6. CASE to = "done" BY <1>1, <1>2, <1>3, <1>4, <1>5, <1>6, CallerMoves DEF AskPlaces
  <1>7. CASE to = "idle" BY <1>1, <1>2, <1>3, <1>4, <1>5, <1>7, CallerMoves DEF AskPlaces
  <1>8. CASE to = "failed" BY <1>1, <1>2, <1>3, <1>4, <1>5, <1>8, CallerMoves DEF AskPlaces
  <1> QED BY <1>2, <1>6, <1>7, <1>8

\* A new token: with Redis up and nobody without the lease, the only usable one.
LEMMA GrantedKeeps == ASSUME SessInv, NEW c \in Callers, Granted(c) PROVE SessInv'
  <1> DEFINE t == Len(life) + 1
             issued == 1..t
  <1>1. /\ asking[c] \in {"refresh", "login"} /\ t <= MaxTokens
        /\ life' = Append(life, 2) /\ accepted' = accepted \cup {t}
        /\ memTok' = [memTok EXCEPT ![host[c]] = t]
        /\ redisTok' = IF redisUp THEN t ELSE redisTok
        /\ Release(c) /\ host' = host /\ beats' = beats
        /\ redisUp' = redisUp /\ outages' = outages /\ calm' = calm
        /\ Granting(c) /\ InSection(c)
    BY DEF Granted, places, redisVars, Granting, InSection
  <1>2. /\ Len(life) \in Nat /\ Issued = 1..Len(life) /\ t \notin Issued /\ t \in Nat \ {0}
        /\ Issued \subseteq issued /\ issued = Issued \cup {t}
    BY IssuedIs DEF SessInv
  <1>3. /\ life' \in Seq(0..2) /\ Len(life') = t /\ Issued' = issued
        /\ life'[t] = 2 /\ \A u \in Issued : life'[u] = life[u]
    <2>1. life \in Seq(0..2) /\ 2 \in 0..2
      BY DEF SessInv, SessTypeOK
    <2>2. life' \in Seq(0..2) /\ Len(life') = t /\ life'[t] = 2
      BY <1>1, <2>1, AppendProperties
    <2>3. \A u \in 1..Len(life) : life'[u] = life[u]
      BY <1>1, <2>1, AppendProperties
    <2> QED BY <1>2, <2>2, <2>3, LenProperties DEF Issued
  <1>4. PICK to \in {"done", "fire"} :
          Moves(c, to, t, stale[c]) /\ (to = "fire" => c \notin beats)
    BY DEF Granted, Served
  <1>5. host[c] \in Workers /\ stale[c] \in Issued \cup {0} /\ (stale[c] # 0 => ~Live(stale[c]))
    BY DEF SessInv, SessTypeOK, StaleIsDead
  <1> HIDE DEF t, issued
  <1>6. /\ asking' \in [Callers -> AskPlaces]
        /\ tok' \in [Callers -> issued \cup {0}]
        /\ stale' \in [Callers -> issued \cup {0}]
    BY <1>2, <1>4, <1>5 DEF Moves, SessInv, SessTypeOK, AskPlaces
  <1>7. /\ asking'[c] = to
        /\ tok'[c] = IF to = "fire" THEN t ELSE 0
        /\ stale'[c] = IF to = "done" THEN 0 ELSE stale[c]
        /\ \A d \in Callers \ {c} : /\ asking'[d] = asking[d] /\ tok'[d] = tok[d]
                                    /\ stale'[d] = stale[d]
    BY <1>4 DEF Moves, SessInv, SessTypeOK
  <1>8. /\ procLock' \in [Workers -> Callers \cup {"free"}]
        /\ lease' \in Callers \cup {"free"}
        /\ \A d \in Callers \ {c} :
             asking[d] = "leasing" \/ InSection(d) => procLock'[host[d]] = d
        /\ calm => \A d \in Callers \ {c} : InSection(d) => lease' = lease
    BY <1>1, ReleaseIs
  <1>9. SessTypeOK'
    <2>1. /\ memTok' \in [Workers -> issued \cup {0}]
          /\ redisTok' \in issued \cup {0} /\ accepted' \subseteq issued
      BY <1>1, <1>2, <1>5 DEF SessInv, SessTypeOK
    <2> QED BY <1>1, <1>3, <1>6, <1>8, <2>1 DEF SessInv, SessTypeOK, AskPlaces
  <1>10. \A u \in Issued : Live(u)' <=> Live(u)
    BY <1>1, <1>2, <1>3 DEF Live
  <1>11. RetryCarriesAnotherToken' /\ BeatsFireNothing'
    <2>1. to = "fire" => tok'[c] # stale'[c]
      BY <1>2, <1>5, <1>7
    <2>2. RetryCarriesAnotherToken'
      BY <1>7, <2>1 DEF SessInv, RetryCarriesAnotherToken
    <2>3. beats \subseteq Callers
      BY DEF SessInv, SessTypeOK
    <2>4. BeatsFireNothing'
      BY <1>1, <1>4, <1>7, <2>3 DEF SessInv, BeatsFireNothing
    <2> QED BY <2>2, <2>4
  <1>12. StaleIsDead'
    BY <1>2, <1>5, <1>7, <1>10 DEF SessInv, SessTypeOK, StaleIsDead
  <1>13. LockedInProcess'
    BY <1>1, <1>7, <1>8 DEF SessInv, LockedInProcess, InSection
  <1>14. SingleFlight'
    <2> SUFFICES ASSUME calm
                 PROVE  /\ redisUp'
                        /\ \A u \in Issued' : Live(u)' => u = redisTok'
                        /\ \A d \in Callers : ~InSection(d)'
      BY <1>1 DEF SingleFlight, InSection, Granting
    <2>1. redisUp /\ NothingUsable /\ \A d \in Callers : InSection(d) => lease = d
      BY <1>1 DEF SessInv, SingleFlight
    <2>2. \A u \in Issued' : Live(u)' => u = redisTok'
      BY <1>1, <1>2, <1>3, <1>10, <2>1 DEF NothingUsable
    <2>3. \A d \in Callers : ~InSection(d)'
      BY <1>1, <1>7, <2>1 DEF InSection
    <2> QED BY <1>1, <2>1, <2>2, <2>3
  <1> QED BY <1>9, <1>11, <1>12, <1>13, <1>14 DEF SessInv

\* A lease that runs out under a caller in the section ends the calm.
LEMMA RefreshLockRunsOutKeeps == ASSUME SessInv, RefreshLockRunsOut PROVE SessInv'
  <1>1. /\ UNCHANGED <<host, beats, redisTok, memTok, life, accepted, asking, tok, stale,
                       procLock, redisUp, outages>>
        /\ lease \in Callers /\ lease' = "free" /\ calm' \in BOOLEAN
        /\ calm' => calm /\ ~InSection(lease)
    BY DEF RefreshLockRunsOut, places, venueVars, callerVars, redisVars, SessInv, SessTypeOK
  <1>2. SessTypeOK'
    BY <1>1 DEF SessInv, SessTypeOK, Issued
  <1>3. RetryCarriesAnotherToken' /\ BeatsFireNothing' /\ StaleIsDead' /\ LockedInProcess'
    BY <1>1
    DEF SessInv, RetryCarriesAnotherToken, BeatsFireNothing, StaleIsDead, Live,
        LockedInProcess, InSection
  <1>4. SingleFlight'
    BY <1>1 DEF SessInv, SingleFlight, InSection, Granting, NothingUsable, Live, Issued
  <1> QED BY <1>2, <1>3, <1>4 DEF SessInv

\* Tokens only get older, and are refused for good.
LEMMA VenueKeeps ==
  ASSUME SessInv, NEW t \in Issued, TokenAges(t) \/ VenueRevokes(t) PROVE SessInv'
  <1>1. /\ UNCHANGED <<host, beats, memTok, asking, tok, stale, procLock, lease,
                       redisUp, outages, calm>>
        /\ accepted' \subseteq accepted
    BY DEF TokenAges, VenueRevokes, places, callerVars, redisVars
  <1>2. /\ life' \in Seq(0..2) /\ Len(life') = Len(life) /\ Issued' = Issued
        /\ \A u \in Issued : life'[u] = life[u] \/ (life'[u] < life[u] /\ life'[u] \in 0..1)
    <2>1. CASE VenueRevokes(t)
      BY <2>1 DEF VenueRevokes, Issued, SessInv, SessTypeOK
    <2>2. CASE TokenAges(t)
      <3>1. life \in Seq(0..2) /\ t \in 1..Len(life) /\ life[t] \in 1..2
        BY <2>2, IssuedIs DEF TokenAges, SessInv, SessTypeOK
      <3>2. life' = [life EXCEPT ![t] = life[t] - 1] /\ life[t] - 1 \in 0..2
        BY <2>2, <3>1 DEF TokenAges
      <3>3. /\ life' \in Seq(0..2) /\ Len(life') = Len(life)
            /\ \A u \in 1..Len(life) : life'[u] = IF u = t THEN life[t] - 1 ELSE life[u]
        BY <3>1, <3>2, ExceptSeq
      <3>4. Issued' = Issued /\ Issued = 1..Len(life)
        BY <3>1, <3>3, LenProperties DEF Issued
      <3> QED BY <3>1, <3>3, <3>4
    <2> QED BY <2>1, <2>2
  <1>3. \A u \in Issued : Live(u)' => Live(u)
    <2> SUFFICES ASSUME NEW u \in Issued, Live(u)' PROVE Live(u)
      OBVIOUS
    <2>1. u \in accepted /\ life'[u] = 2
      BY <1>1 DEF Live
    <2> QED BY <1>2, <2>1 DEF Live
  <1>4. redisTok' \in {0, redisTok} /\ (redisTok' # redisTok => redisTok \in Issued /\ ~Live(redisTok))
    BY IssuedIs DEF TokenAges, VenueRevokes, Live, SessInv
  <1>5. SessTypeOK'
    BY <1>1, <1>2, <1>4 DEF SessInv, SessTypeOK
  <1>6. RetryCarriesAnotherToken' /\ BeatsFireNothing' /\ LockedInProcess'
    BY <1>1
    DEF SessInv, RetryCarriesAnotherToken, BeatsFireNothing, LockedInProcess, InSection
  <1>7. StaleIsDead'
    BY <1>1, <1>3 DEF SessInv, SessTypeOK, StaleIsDead
  <1>8. SingleFlight'
    <2> SUFFICES ASSUME calm
                 PROVE  /\ redisUp'
                        /\ \A u \in Issued' : Live(u)' => u = redisTok'
                        /\ \A c \in Callers : InSection(c)' => lease' = c
                        /\ \A c \in Callers : Granting(c)' => NothingUsable'
      BY <1>1 DEF SingleFlight
    <2>1. redisUp' /\ \A u \in Issued' : Live(u)' => u = redisTok'
      BY <1>1, <1>2, <1>3, <1>4 DEF SessInv, SingleFlight
    <2>2. \A c \in Callers : InSection(c)' => lease' = c
      BY <1>1 DEF SessInv, SingleFlight, InSection
    <2>3. \A c \in Callers : Granting(c)' => NothingUsable'
      BY <1>1, <1>2, <1>3 DEF SessInv, SingleFlight, Granting, NothingUsable
    <2> QED BY <2>1, <2>2, <2>3
  <1> QED BY <1>5, <1>6, <1>7, <1>8 DEF SessInv

LEMMA RedisKeeps == ASSUME SessInv, RedisFails \/ RedisReturns PROVE SessInv'
  <1>1. /\ UNCHANGED <<host, beats, redisTok, memTok, life, accepted, asking, tok, stale,
                       procLock, lease>>
        /\ redisUp' \in BOOLEAN /\ outages' \in 0..SessionOutages /\ calm' = FALSE
    <2>1. outages \in 0..SessionOutages /\ SessionOutages \in Nat /\ calm \in BOOLEAN
      BY SessionAssumption DEF SessInv, SessTypeOK
    <2>2. CASE RedisFails
      <3>1. outages' \in 0..SessionOutages
        BY <2>1, <2>2 DEF RedisFails
      <3>2. redisUp' = FALSE /\ calm' = FALSE
        BY <2>2 DEF RedisFails
      <3> QED BY <2>2, <3>1, <3>2 DEF RedisFails, places, venueVars, callerVars
    <2>3. CASE RedisReturns
      <3>1. calm = FALSE
        BY <2>1, <2>3 DEF RedisReturns, SessInv, SingleFlight
      <3>2. redisUp' = TRUE /\ outages' = outages /\ calm' = calm
        BY <2>3 DEF RedisReturns
      <3> QED BY <2>1, <2>3, <3>1, <3>2 DEF RedisReturns, places, venueVars, callerVars
    <2> QED BY <2>2, <2>3
  <1>2. SessTypeOK'
    BY <1>1 DEF SessInv, SessTypeOK, Issued
  <1> QED BY <1>1, <1>2
     DEF SessInv, RetryCarriesAnotherToken, BeatsFireNothing, StaleIsDead, Live,
         LockedInProcess, InSection, Granting, SingleFlight

\* A worker dies with every caller in it, and with its lock.
LEMMA WorkerDiesKeeps == ASSUME SessInv, NEW w \in Workers, WorkerDies(w) PROVE SessInv'
  <1>1. /\ UNCHANGED <<host, beats, redisTok, life, accepted, lease, redisUp, outages, calm>>
        /\ asking' = [c \in Callers |-> IF host[c] = w THEN "failed" ELSE asking[c]]
        /\ tok' = [c \in Callers |-> IF host[c] = w THEN 0 ELSE tok[c]]
        /\ stale' = [c \in Callers |-> IF host[c] = w THEN 0 ELSE stale[c]]
        /\ memTok' = [memTok EXCEPT ![w] = 0]
        /\ procLock' = [procLock EXCEPT ![w] = "free"]
    BY DEF WorkerDies, places, venueVars, redisVars
  <1>2. SessTypeOK'
    <2>1. Issued' = Issued
      BY <1>1 DEF Issued
    <2> QED BY <1>1, <2>1 DEF SessInv, SessTypeOK
  <1>3. \A c \in Callers :
          /\ asking'[c] \in {"failed", asking[c]}
          /\ asking'[c] # "failed" => /\ host[c] # w /\ asking'[c] = asking[c]
                                      /\ tok'[c] = tok[c]
          /\ stale'[c] \in {0, stale[c]}
          /\ asking'[c] # "failed" => stale'[c] = stale[c]
    BY <1>1
  <1>4. RetryCarriesAnotherToken' /\ BeatsFireNothing'
    BY <1>1, <1>3 DEF SessInv, SessTypeOK, RetryCarriesAnotherToken, BeatsFireNothing
  <1>5. StaleIsDead'
    BY <1>1, <1>3 DEF SessInv, StaleIsDead, Live
  <1>6. LockedInProcess'
    BY <1>1, <1>3 DEF SessInv, SessTypeOK, LockedInProcess, InSection
  <1>7. SingleFlight'
    BY <1>1, <1>3
    DEF SessInv, SingleFlight, InSection, Granting, NothingUsable, Live, Issued
  <1> QED BY <1>2, <1>4, <1>5, <1>6, <1>7 DEF SessInv

LEMMA SessInvNext == ASSUME SessInv, [SessNext]_sessVars PROVE SessInv'
  <1>1. CASE SessNext
    BY <1>1, AskKeeps, LockProcessKeeps, TakeLeaseKeeps, GoWithoutLeaseKeeps, RereadKeeps,
       GrantedKeeps, RefreshRefusedKeeps, LoginFailsKeeps, FireKeeps, VenueKeeps,
       RefreshLockRunsOutKeeps, RedisKeeps, WorkerDiesKeeps
    DEF SessNext
  <1>2. CASE UNCHANGED sessVars
    BY <1>2
    DEF sessVars, SessInv, SessTypeOK, RetryCarriesAnotherToken, BeatsFireNothing, StaleIsDead,
        Live, LockedInProcess, InSection, Granting, SingleFlight, NothingUsable, Issued
  <1> QED BY <1>1, <1>2

\* The inductive invariant of the sessions.
THEOREM SessionInvariant == SessSpec => []SessInv
  <1>1. SessInit => SessInv
    BY SessInvInit
  <1>2. SessInv /\ [SessNext]_sessVars => SessInv'
    BY SessInvNext
  <1> QED BY <1>1, <1>2, PTL DEF SessSpec

\* Tokens, locks and requests keep their types
\* (services/session_manager.py).
THEOREM SessTypeCorrect == SessSpec => []SessTypeOK
  <1>1. SessInv => SessTypeOK
    BY DEF SessInv
  <1> QED BY <1>1, SessionInvariant, PTL

\* Until Redis has been down, a lease has run out in its holder's login, or a
\* caller has gone on without one, at most one token is usable, however many
\* orders of however many workers found theirs stale (session_manager.py:8).
THEOREM OneTokenAtATime == SessSpec => []OneUsableToken
  <1>1. SessInv => OneUsableToken
    BY DEF SessInv, SingleFlight, OneUsableToken
  <1> QED BY <1>1, SessionInvariant, PTL

\* An order that was answered 401 is fired again with another token.
THEOREM AnotherTokenEachTime == SessSpec => []RetryCarriesAnotherToken
  <1>1. SessInv => RetryCarriesAnotherToken
    BY DEF SessInv
  <1> QED BY <1>1, SessionInvariant, PTL

\* With Redis down too, the orders of one process have one request at the token
\* endpoint at most.
THEOREM NoStampedeInAProcess == SessSpec => []OneGrantPerProcess
  <1>1. SessInv => OneGrantPerProcess
    BY DEF SessInv, LockedInProcess, OneGrantPerProcess, Granting, InSection
  <1> QED BY <1>1, SessionInvariant, PTL
=============================================================================
