-------------------------- MODULE InferenceDaemon ---------------------------
(***************************************************************************)
(* The inference daemon of betdoc/infrastructure/daemon/worker.py: members *)
(* of a Kafka consumer group that read a partition in batches, run each    *)
(* record in a process pool, put what fails in the dead-letter file, and   *)
(* commit record by record.                                                *)
(*                                                                         *)
(* The tries of one record are one step, which ends with the record run or *)
(* dead-lettered: _handle_record has no other return.  The broker is       *)
(* external: it gives the partition to one member, at the committed        *)
(* offset, and refuses a commit of any other.  A member that lost the      *)
(* partition goes on with the batch it has.                                *)
(***************************************************************************)
EXTENDS Integers

CONSTANTS
  Last,         \* the records of the partition: offsets 0..Last
  Members,      \* daemons of the group
  MaxPoll,      \* max_poll_records
  Troubles      \* bound on crashes, stops and commits that fail

ASSUME DaemonAssumption ==
  /\ Last \in Nat /\ Troubles \in Nat /\ MaxPoll \in Nat \ {0}
  /\ "nobody" \notin Members

VARIABLES
  committed,    \* the group's offset
  owner,        \* the member that is assigned the partition, or "nobody"
  position,     \* the offset the owner fetches from
  member,       \* per member: its process
  handled,      \* offsets run, or in the dead-letter file
  troubles

dmVars == <<committed, owner, position, member, handled, troubles>>

\* next..upTo are the records of its batch still to do.
EmptyHanded(phase, stop) == [phase |-> phase, stop |-> stop, next |-> 0, upTo |-> 0]

Booted == EmptyHanded("polling", FALSE)

DmInit ==
  /\ committed = 0
  /\ owner = "nobody"
  /\ position = 0
  /\ member = [m \in Members |-> Booted]
  /\ handled = {}
  /\ troubles = 0

Trouble == troubles < Troubles /\ troubles' = troubles + 1

-----------------------------------------------------------------------------
(* The group coordinator: a new owner starts from the committed offset. *)

Assign(m) ==
  /\ member[m].phase # "down"
  /\ owner # m
  /\ owner' = m
  /\ position' = committed
  /\ UNCHANGED <<committed, member, handled, troubles>>

-----------------------------------------------------------------------------
(* run_loop *)

\* getmany: the owner's next records.
Fetch(m) ==
  /\ member[m].phase = "polling" /\ ~member[m].stop
  /\ owner = m
  /\ \E n \in position .. Last :
       /\ n < position + MaxPoll
       /\ position' = n + 1
       /\ member' = [member EXCEPT ![m] = [phase |-> "handling", stop |-> FALSE,
                                           next |-> position, upTo |-> n]]
  /\ UNCHANGED <<committed, owner, handled, troubles>>

\* _handle_record: run, or after a bad payload, a rejection or the last try that
\* timed out, appended to the dead-letter file.
Handle(m) ==
  /\ member[m].phase = "handling"
  /\ handled' = handled \cup {member[m].next}
  /\ member' = [member EXCEPT ![m].phase = "committing"]
  /\ UNCHANGED <<committed, owner, position, troubles>>

\* The next of the batch unless a stop was asked for, or the next batch.
Onward(p) ==
  IF p.next = p.upTo THEN EmptyHanded("polling", p.stop)
  ELSE IF p.stop THEN EmptyHanded("leaving", TRUE)
  ELSE [p EXCEPT !.phase = "handling", !.next = @ + 1]

\* Mutant: a commit without an offset, which is of what was fetched.
PositionOf(m) == position

CommitOffset(m) == member[m].next + 1

\* _commit: a failure is logged and the loop goes on.
Commit(m) ==
  /\ member[m].phase = "committing"
  /\ \/ owner = m /\ committed' = CommitOffset(m) /\ UNCHANGED troubles
     \/ owner # m /\ UNCHANGED <<committed, troubles>>
     \/ owner = m /\ Trouble /\ UNCHANGED committed
  /\ member' = [member EXCEPT ![m] = Onward(@)]
  /\ UNCHANGED <<owner, position, handled>>

-----------------------------------------------------------------------------
(* Stops, crashes and restarts. *)

RequestStop(m) ==
  /\ member[m].phase # "down" /\ ~member[m].stop
  /\ Trouble
  /\ member' = [member EXCEPT ![m].stop = TRUE]
  /\ UNCHANGED <<committed, owner, position, handled>>

Down(m) ==
  /\ member' = [member EXCEPT ![m] = EmptyHanded("down", FALSE)]
  /\ owner' = IF owner = m THEN "nobody" ELSE owner
  /\ UNCHANGED <<committed, position, handled>>

\* graceful_shutdown, once the loop has seen the stop.
Shutdown(m) ==
  /\ member[m].stop /\ member[m].phase \in {"polling", "leaving"}
  /\ Down(m)
  /\ UNCHANGED troubles

\* The process ends, or the dead-letter file cannot be written, which ends the
\* loop.
MemberCrash(m) ==
  /\ member[m].phase # "down"
  /\ Trouble
  /\ Down(m)

Boot(m) ==
  /\ member[m].phase = "down"
  /\ member' = [member EXCEPT ![m] = Booted]
  /\ UNCHANGED <<committed, owner, position, handled, troubles>>

DmNext ==
  \E m \in Members :
    \/ Assign(m) \/ Fetch(m) \/ Handle(m) \/ Commit(m)
    \/ RequestStop(m) \/ Shutdown(m) \/ MemberCrash(m) \/ Boot(m)

DmSpec == DmInit /\ [][DmNext]_dmVars

-----------------------------------------------------------------------------
\* Every variable stays in its domain.
DmTypeOK ==
  /\ committed \in 0 .. Last + 1
  /\ owner \in Members \cup {"nobody"}
  /\ position \in 0 .. Last + 1
  /\ member \in [Members ->
       [phase : {"polling", "handling", "committing", "leaving", "down"},
        stop : BOOLEAN, next : 0..Last, upTo : 0..Last]]
  /\ handled \subseteq 0..Last
  /\ troubles \in 0..Troubles

\* "At-least-once" (worker.py:1052): what the group's offset is past was run or
\* is in the dead-letter file, though batches outlive the assignment, commits
\* fail or go backwards, and members stop in the middle of a batch.
CommittedIsHandled == 0 .. committed - 1 \subseteq handled
=============================================================================
