----------------------------- MODULE KillSwitch -----------------------------
(***************************************************************************)
(* The global stop of the backend.  One settings row in the database       *)
(* (max_daily_exposure = 0 means stopped) and one Redis flag are written   *)
(* by the Control Panel (emergency stop, PATCH) and from Telegram (/halt,  *)
(* /resume), and read by every order in RiskGuard.kill_switch.  No lock    *)
(* covers them: every await of a handler is a step of its own here.        *)
(*                                                                         *)
(* SQLAlchemy writes back only the columns whose value differs from the    *)
(* one the session loaded, which is why a handler keeps the row it read.   *)
(*                                                                         *)
(* Requests are numbered in the order they arrive; KsRequests bounds how   *)
(* many there are, KsAtOnce how many are served at the same time.          *)
(***************************************************************************)
EXTENDS Naturals, FiniteSets

CONSTANTS
  KsRequests,   \* the requests to the Control Panel and the webhook
  KsAtOnce,     \* how many of them overlap
  KsChats,      \* the authorised Telegram chats
  KsOrders,     \* orders passing the risk guard
  KsLosses,     \* bound on the calls to Redis, or to the log, that fail
  KsLimits      \* the values of max_daily_exposure, 0 among them

ASSUME KsAssumption ==
  /\ KsLosses \in Nat
  /\ KsRequests \in Nat /\ KsAtOnce \in Nat \ {0}
  /\ 0 \in KsLimits /\ KsLimits \subseteq Nat /\ KsLimits # {0}

VARIABLES
  settings,     \* the settings row: limit, bots, stamp of the last stop
  killFlag,     \* the Redis key CFO_KILL_SWITCH_KEY
  haltSnap,     \* the Redis copy of what /halt overwrote
  haltLog,      \* its durable copy, in the last HALTED row of the command log
  resumeCode,   \* the one-time code of /resume: who issued it, for which chat
  desk,         \* per handler: the request it serves, and what it has read
  gate,         \* per order: where it is in the guard
  losses,       \* the calls that have failed
  barred        \* history: orders that met a stop nobody has lifted since

halts == <<haltSnap, haltLog>>
guard == <<gate, barred>>
ksVars == <<settings, killFlag, halts, resumeCode, desk, guard, losses>>

KsHandlers == 1..KsRequests

KsRows == [limit : KsLimits, bots : BOOLEAN, stamp : Nat]
NoSnap == [limit |-> 0, bots |-> FALSE, stamp |-> 0]
NoCode == [by |-> 0, chat |-> "none"]
Free   == [op |-> "none", pc |-> "idle", chat |-> "none", row |-> NoSnap,
           snap |-> NoSnap, fields |-> {}, code |-> 0]

KsInit ==
  /\ \E l \in KsLimits \ {0} :
       settings = [limit |-> l, bots |-> TRUE, stamp |-> 0]
  /\ killFlag = FALSE
  /\ haltSnap = NoSnap
  /\ haltLog = NoSnap
  /\ resumeCode = NoCode
  /\ desk = [h \in KsHandlers |-> Free]
  /\ gate = [o \in KsOrders |-> "idle"]
  /\ losses = 0
  /\ barred = [o \in KsOrders |-> FALSE]

Over == {"done", "refused"}

\* A new request: the ones before it have arrived, and there is room.
Arrives(h) ==
  /\ desk[h].pc = "idle"
  /\ \A g \in KsHandlers : g < h => desk[g].pc # "idle"
  /\ Cardinality({g \in KsHandlers : desk[g].pc \notin Over \cup {"idle"}}) < KsAtOnce

-----------------------------------------------------------------------------
(* The settings row. *)

\* Mutant: every field is written, as it was read.
FlushAll(loaded, new) == new

\* What a commit leaves in the row: the columns the handler changed from what
\* it had loaded, and the row's present value for the others.
Flush(loaded, new) ==
  [limit |-> IF new.limit # loaded.limit THEN new.limit ELSE settings.limit,
   bots  |-> IF new.bots # loaded.bots THEN new.bots ELSE settings.bots,
   stamp |-> IF new.stamp # loaded.stamp THEN new.stamp ELSE settings.stamp]

\* A row with a limit lets orders through again.
Unbar == barred' = [o \in KsOrders |-> barred[o] /\ settings'.limit = 0]

\* A call that fails; where the code swallows it the handler goes on.
Lost == losses < KsLosses /\ losses' = losses + 1

\* A handler goes on with what it has read.
Sits(h, pc, row, snap, code) ==
  desk' = [desk EXCEPT ![h] =
    [op |-> desk[h].op, pc |-> pc, chat |-> desk[h].chat, row |-> row, snap |-> snap,
     fields |-> desk[h].fields, code |-> code]]

\* A request that is answered keeps nothing; one that has committed keeps what
\* is used after its refresh.
Goto(h, pc) ==
  IF pc \in Over THEN desk' = [desk EXCEPT ![h] = [Free EXCEPT !.pc = pc]]
  ELSE IF pc = "refresh"
  THEN Sits(h, pc, NoSnap, IF desk[h].op = "halt" THEN desk[h].snap ELSE NoSnap, 0)
  ELSE Sits(h, pc, desk[h].row, desk[h].snap, desk[h].code)

\* The session reads the row before it changes it.
LoadRow(h) ==
  /\ desk[h].pc = "load"
  /\ Sits(h, "commit", settings, desk[h].snap, desk[h].code)
  /\ UNCHANGED <<settings, killFlag, halts, resumeCode, guard, losses>>

-----------------------------------------------------------------------------
(* Emergency stop, from the panel and from /halt. *)

PanelStop(h) ==
  /\ Arrives(h)
  /\ desk' = [desk EXCEPT
       ![h] = [op |-> "stop", pc |-> "load", chat |-> "none", row |-> NoSnap,
               snap |-> NoSnap, fields |-> {}, code |-> 0]]
  /\ UNCHANGED <<settings, killFlag, halts, resumeCode, guard, losses>>

\* /halt looks at the settings first: limits in force are what it will save.
HaltBegin(h, c) ==
  /\ Arrives(h)
  /\ desk' = [desk EXCEPT
       ![h] = [op |-> "halt", pc |-> "load", chat |-> c, row |-> NoSnap,
               snap |-> IF settings.limit = 0 THEN NoSnap
                        ELSE [settings EXCEPT !.stamp = 0],
               fields |-> {}, code |-> 0]]
  /\ UNCHANGED <<settings, killFlag, halts, resumeCode, guard, losses>>

StopCommit(h) ==
  /\ desk[h].pc = "commit"
  /\ desk[h].op \in {"stop", "halt"}
  /\ settings' = Flush(desk[h].row,
                       [limit |-> 0, bots |-> FALSE, stamp |-> settings.stamp + 1])
  /\ Unbar
  /\ Goto(h, "refresh")
  /\ UNCHANGED <<killFlag, halts, resumeCode, gate, losses>>

\* db.refresh: the row as it is after the commit, whoever wrote it last.
StopRefresh(h) ==
  /\ desk[h].pc = "refresh"
  /\ desk[h].op \in {"stop", "halt"}
  /\ Sits(h, "flag", settings, desk[h].snap, desk[h].code)
  /\ UNCHANGED <<settings, killFlag, halts, resumeCode, guard, losses>>

StopFlag(h) ==
  /\ desk[h].pc = "flag"
  /\ desk[h].op \in {"stop", "halt"}
  /\ \/ killFlag' = TRUE /\ UNCHANGED losses
     \/ Lost /\ UNCHANGED killFlag
  /\ Goto(h, IF desk[h].op = "stop" THEN "done"
             ELSE IF desk[h].snap = NoSnap THEN "log" ELSE "save")
  /\ UNCHANGED <<settings, halts, resumeCode, guard>>

\* What /halt overwrote, under the stamp the refreshed row carries.
HaltSave(h) ==
  /\ desk[h].pc = "save"
  /\ LET snap == [desk[h].snap EXCEPT !.stamp = desk[h].row.stamp] IN
       /\ \/ haltSnap' = snap /\ UNCHANGED losses
          \/ Lost /\ UNCHANGED haltSnap
       /\ Sits(h, "log", desk[h].row, snap, desk[h].code)
  /\ UNCHANGED <<settings, killFlag, haltLog, resumeCode, guard>>

\* The command log, whose loss is only logged.  A /halt on a stopped system
\* saves nothing, and its row is the last HALTED one from now on.
HaltLog(h) ==
  /\ desk[h].pc = "log"
  /\ \/ haltLog' = desk[h].snap /\ UNCHANGED losses
     \/ Lost /\ UNCHANGED haltLog
  /\ Goto(h, "done")
  /\ UNCHANGED <<settings, killFlag, haltSnap, resumeCode, guard>>

-----------------------------------------------------------------------------
(* PATCH of the Control Panel. *)

\* The fields it sets, and to what; the others stay as loaded.
PatchBegin(h, fields, l, b) ==
  /\ Arrives(h)
  /\ desk' = [desk EXCEPT
       ![h] = [op |-> "patch", pc |-> "load", chat |-> "none", row |-> NoSnap,
               snap |-> [limit |-> l, bots |-> b, stamp |-> 0],
               fields |-> fields, code |-> 0]]
  /\ UNCHANGED <<settings, killFlag, halts, resumeCode, guard, losses>>

Patched(h) ==
  LET d == desk[h] IN
  Flush(d.row,
        [limit |-> IF "limit" \in d.fields THEN d.snap.limit ELSE d.row.limit,
         bots  |-> IF "bots" \in d.fields THEN d.snap.bots ELSE d.row.bots,
         stamp |-> d.row.stamp])

PatchCommit(h) ==
  /\ desk[h].pc = "commit"
  /\ desk[h].op = "patch"
  /\ settings' = Patched(h)
  /\ Unbar
  /\ Goto(h, "refresh")
  /\ UNCHANGED <<killFlag, halts, resumeCode, gate, losses>>

PatchRefresh(h) ==
  /\ desk[h].pc = "refresh"
  /\ desk[h].op = "patch"
  /\ Sits(h, "flag", settings, desk[h].snap, desk[h].code)
  /\ UNCHANGED <<settings, killFlag, halts, resumeCode, guard, losses>>

\* A PATCH that set a limit clears the switch.
PatchFlag(h) ==
  /\ desk[h].pc = "flag"
  /\ desk[h].op = "patch"
  /\ \/ /\ killFlag' = (killFlag /\ ~("limit" \in desk[h].fields /\ desk[h].row.limit > 0))
        /\ UNCHANGED losses
     \/ Lost /\ UNCHANGED killFlag
  /\ Goto(h, "done")
  /\ UNCHANGED <<settings, halts, resumeCode, guard>>

-----------------------------------------------------------------------------
(* /resume and /resume <code>. *)

\* `code' is the request whose reply held the code the admin typed, 0 for a
\* bare /resume.
ResumeBegin(h, c, code) ==
  /\ Arrives(h)
  /\ desk' = [desk EXCEPT
       ![h] = [op |-> "resume", pc |-> "switch", chat |-> c, row |-> settings,
               snap |-> NoSnap, fields |-> {}, code |-> code]]
  /\ UNCHANGED <<settings, killFlag, halts, resumeCode, guard, losses>>

ResumeSwitch(h) ==
  /\ desk[h].pc = "switch"
  /\ Goto(h, IF desk[h].row.limit > 0 /\ ~killFlag THEN "done" ELSE "snapshot")
  /\ UNCHANGED <<settings, killFlag, halts, resumeCode, guard, losses>>

\* The Redis copy, else the durable one.
Snapshot == IF haltSnap # NoSnap THEN haltSnap ELSE haltLog

\* The saved halt is the stop in the row this handler read.
SameStop(h) == /\ Snapshot.limit > 0
               /\ desk[h].row.stamp > 0
               /\ Snapshot.stamp = desk[h].row.stamp

ResumeCheck(h) ==
  /\ desk[h].pc = "snapshot"
  /\ IF ~SameStop(h) THEN Goto(h, "refused")
     ELSE Sits(h, IF desk[h].code = 0 THEN "issue" ELSE "code", desk[h].row, Snapshot,
               desk[h].code)
  /\ UNCHANGED <<settings, killFlag, halts, resumeCode, guard, losses>>

IssueCode(h) ==
  /\ desk[h].pc = "issue"
  /\ resumeCode' = [by |-> h, chat |-> desk[h].chat]
  /\ Goto(h, "done")
  /\ UNCHANGED <<settings, killFlag, halts, guard, losses>>

CodeExpires ==
  /\ resumeCode # NoCode
  /\ resumeCode' = NoCode
  /\ UNCHANGED <<settings, killFlag, halts, desk, guard, losses>>

CheckCode(h) ==
  /\ desk[h].pc = "code"
  /\ Goto(h, IF resumeCode = [by |-> desk[h].code, chat |-> desk[h].chat]
             THEN "burn" ELSE "done")
  /\ UNCHANGED <<settings, killFlag, halts, resumeCode, guard, losses>>

BurnCode(h) ==
  /\ desk[h].pc = "burn"
  /\ resumeCode' = NoCode
  /\ Goto(h, "load")
  /\ UNCHANGED <<settings, killFlag, halts, guard, losses>>

\* Puts the saved limits back, whatever happened to the row in between.
ResumeCommit(h) ==
  /\ desk[h].pc = "commit"
  /\ desk[h].op = "resume"
  /\ settings' = Flush(desk[h].row, [desk[h].snap EXCEPT !.stamp = desk[h].row.stamp])
  /\ Unbar
  /\ Goto(h, "refresh")
  /\ UNCHANGED <<killFlag, halts, resumeCode, gate, losses>>

ResumeRefresh(h) ==
  /\ desk[h].pc = "refresh"
  /\ desk[h].op = "resume"
  /\ Sits(h, "flag", settings, desk[h].snap, desk[h].code)
  /\ UNCHANGED <<settings, killFlag, halts, resumeCode, guard, losses>>

ResumeFlag(h) ==
  /\ desk[h].pc = "flag"
  /\ desk[h].op = "resume"
  /\ \/ killFlag' = FALSE /\ UNCHANGED losses
     \/ Lost /\ UNCHANGED killFlag
  /\ Goto(h, "forget")
  /\ UNCHANGED <<settings, halts, resumeCode, guard>>

ResumeForget(h) ==
  /\ desk[h].pc = "forget"
  /\ haltSnap' = NoSnap
  /\ Goto(h, "done")
  /\ UNCHANGED <<settings, killFlag, haltLog, resumeCode, guard, losses>>

\* The calls of /resume to Redis that nothing catches: the request fails there.
ResumeError(h) ==
  /\ Lost
  /\ desk[h].pc \in {"issue", "code", "burn", "forget"}
  /\ Goto(h, "done")
  /\ UNCHANGED <<settings, killFlag, halts, resumeCode, guard>>

-----------------------------------------------------------------------------
(* RiskGuard.kill_switch: the flag, then the row.  An order that is blocked *)
(* leaves its place to the next.                                           *)

GuardFlag(o) ==
  /\ gate[o] = "idle"
  /\ ~killFlag
  /\ gate' = [gate EXCEPT ![o] = "row"]
  /\ barred' = [barred EXCEPT ![o] = settings.limit = 0]
  /\ UNCHANGED <<settings, killFlag, halts, resumeCode, desk, losses>>

\* Mutant: the guard looks at the flag alone.
RowIgnored == FALSE

RowStops == settings.limit = 0

GuardRow(o) ==
  /\ gate[o] = "row"
  /\ IF RowStops THEN /\ gate' = [gate EXCEPT ![o] = "idle"]
                      /\ barred' = [barred EXCEPT ![o] = FALSE]
     ELSE gate' = [gate EXCEPT ![o] = "passed"] /\ UNCHANGED barred
  /\ UNCHANGED <<settings, killFlag, halts, resumeCode, desk, losses>>

-----------------------------------------------------------------------------
KsHandler(h) ==
  \/ PanelStop(h) \/ LoadRow(h) \/ StopCommit(h) \/ StopRefresh(h) \/ StopFlag(h)
  \/ HaltSave(h) \/ HaltLog(h)
  \/ PatchCommit(h) \/ PatchRefresh(h) \/ PatchFlag(h)
  \/ ResumeSwitch(h) \/ ResumeCheck(h) \/ IssueCode(h) \/ CheckCode(h)
  \/ BurnCode(h) \/ ResumeCommit(h) \/ ResumeRefresh(h) \/ ResumeFlag(h)
  \/ ResumeForget(h) \/ ResumeError(h)
  \/ \E c \in KsChats : HaltBegin(h, c)
  \/ \E c \in KsChats, code \in 0..h-1 : ResumeBegin(h, c, code)
  \/ \E fields \in {{"limit"}, {"bots"}}, l \in KsLimits, b \in BOOLEAN :
       PatchBegin(h, fields, IF "limit" \in fields THEN l ELSE 0,
                  "bots" \in fields /\ b)

KsNext ==
  \/ \E h \in KsHandlers : KsHandler(h)
  \/ \E o \in KsOrders : GuardFlag(o) \/ GuardRow(o)
  \/ CodeExpires

KsSpec == KsInit /\ [][KsNext]_ksVars

-----------------------------------------------------------------------------
KsOps == {"none", "stop", "halt", "patch", "resume"}
KsPcs == {"idle", "load", "commit", "refresh", "flag", "save", "log", "switch",
          "snapshot", "issue", "code", "burn", "forget", "done", "refused"}
KsDesks == [op : KsOps, pc : KsPcs, chat : KsChats \cup {"none"}, row : KsRows,
            snap : KsRows, fields : SUBSET {"limit", "bots"},
            code : Nat]

\* Every variable stays in its domain.
KsTypeOK ==
  /\ settings \in KsRows
  /\ killFlag \in BOOLEAN
  /\ haltSnap \in KsRows
  /\ haltLog \in KsRows
  /\ resumeCode \in [by : Nat, chat : KsChats \cup {"none"}]
  /\ desk \in [KsHandlers -> KsDesks]
  /\ gate \in [KsOrders -> {"idle", "row", "passed"}]
  /\ losses \in 0..KsLosses
  /\ barred \in [KsOrders -> BOOLEAN]

\* An order that reached the guard while the system was stopped does not pass
\* unless someone has lifted the stop since, even if Redis lost the flag or a
\* resume of an earlier stop cleared it (risk_guard.py:167-180).
StopBarsOrders == \A o \in KsOrders : gate[o] = "passed" => ~barred[o]

\* A stop ends only with a limit someone gave on purpose: a PATCH that sets
\* the limit, or a confirmed /resume.  No handler that loaded the row before
\* the stop writes its old limit back over it (manager.py:50-88).
OnlyALiftEndsAStop ==
  [][settings.limit = 0 /\ settings'.limit > 0 =>
       \E h \in KsHandlers :
         /\ desk[h].pc = "commit"
         /\ desk'[h].pc = "refresh"
         /\ \/ desk[h].op = "patch" /\ "limit" \in desk[h].fields
            \/ desk[h].op = "resume" /\ desk[h].code # 0]_ksVars
=============================================================================
