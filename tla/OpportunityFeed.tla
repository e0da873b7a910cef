-------------------------- MODULE OpportunityFeed --------------------------
(***************************************************************************)
(* src/src/betdoc/application/orchestrator.py on the event bus: in every     *)
(* process a consume loop offers what it is handed into a bounded queue     *)
(* that sheds its oldest quote, and a dispatch loop collects batches and     *)
(* evaluates them, a few at a time.  Only the bus is shared.                 *)
(*                                                                         *)
(* Quotes pass max_opportunity_age_seconds in the order of their ids; the   *)
(* bus may deliver a quote again before that or after it.  A restarted      *)
(* process is another one: its consumer's name has its pid.                 *)
(***************************************************************************)
EXTENDS EventBus, Sequences

CONSTANTS
  OpportunityOf,  \* per entry: opportunity_id
  QueueMax,       \* per reader: queue_max_size
  BatchMax,       \* per reader: batch_max_size
  MaxSessions,    \* max_concurrent_sessions
  MaxFailures,    \* max_consecutive_failures
  FeedDeaths      \* bound on the processes that die

ASSUME FeedAssumption ==
  /\ {QueueMax, BatchMax} \subseteq [BusReaders -> Nat \ {0}]
  /\ \A r \in BusReaders : BatchMax[r] <= QueueMax[r]
  /\ {MaxSessions, MaxFailures} \subseteq Nat \ {0}
  /\ FeedDeaths \in Nat
  /\ DOMAIN OpportunityOf = BusEntries

VARIABLES
  old,          \* the quotes 1..old have passed the age limit
  process,      \* per reader: its process
  stopping,     \* per reader: the shutdown event
  queue,        \* per reader: _queue
  dispatching,  \* per reader: what its dispatch loop does
  collected,    \* per reader: the batch being collected
  sessions,     \* per reader: the batches in flight
  failures,     \* per reader: consecutive_failures
  accounted     \* history: evaluated, expired, shed, superseded in its batch,
                \* or in a batch that failed

orchVars == <<old, process, stopping, queue, dispatching, collected, sessions,
              failures, accounted>>
feedVars == <<busVars, orchVars>>

FeedInit ==
  /\ BusInit
  /\ old = 0
  /\ process = [r \in BusReaders |-> "up"]
  /\ stopping = [r \in BusReaders |-> FALSE]
  /\ queue = [r \in BusReaders |-> <<>>]
  /\ dispatching = [r \in BusReaders |-> "batches"]
  /\ collected = [r \in BusReaders |-> {}]
  /\ sessions = [r \in BusReaders |-> {}]
  /\ failures = [r \in BusReaders |-> 0]
  /\ accounted = {}

BusStep(r) ==
  /\ process[r] = "up"
  /\ \/ FindPoison(r) \/ Reclaim(r) \/ ReadNew(r) \/ PostPoison(r)
     \/ PostGarbled(r) \/ AckEntry(r)
  /\ UNCHANGED orchVars

-----------------------------------------------------------------------------
(* The consume loop. *)

Ages ==
  /\ old < BusEvents
  /\ old' = old + 1
  /\ UNCHANGED <<busVars, process, stopping, queue, dispatching, collected,
                 sessions, failures, accounted>>

Expired(e) == e <= old

\* A full queue sheds its oldest quote.
Offer(r, e) ==
  LET full == Len(queue[r]) = QueueMax[r]
  IN  /\ queue' = [queue EXCEPT ![r] = Append(IF full THEN Tail(@) ELSE @, e)]
      /\ accounted' = accounted \cup (IF full THEN {Head(queue[r])} ELSE {})

\* After a shutdown the break closes the generator: the rest stays pending.
HandleMessage(r) ==
  /\ process[r] = "up"
  /\ reading[r] = "deliver"
  /\ \/ /\ stopping[r]
        /\ MovesTo(r, "closed")
        /\ UNCHANGED <<queue, accounted>>
     \/ /\ ~stopping[r] /\ ~Expired(First(r))
        /\ Offer(r, First(r))
        /\ MovesTo(r, "acknowledge")
     \/ /\ ~stopping[r] /\ Expired(First(r))
        /\ accounted' = accounted \cup {First(r)}
        /\ MovesTo(r, "acknowledge")
        /\ UNCHANGED queue
  /\ UNCHANGED <<lastRead, pending, deliveries, letters, readBatch, old,
                 process, stopping, dispatching, collected, sessions, failures>>

-----------------------------------------------------------------------------
(* The dispatch loop. *)

Dispatches(r) == process[r] = "up" /\ dispatching[r] = "batches"

\* A newer quote of an opportunity takes the place of the one collected.
Collect(r) ==
  /\ Dispatches(r)
  /\ queue[r] # <<>> /\ Cardinality(collected[r]) < BatchMax[r]
  /\ LET e == Head(queue[r])
         superseded == {c \in collected[r] : OpportunityOf[c] = OpportunityOf[e]}
     IN  /\ collected' = [collected EXCEPT ![r] = (@ \ superseded) \cup {e}]
         /\ accounted' = accounted \cup superseded
  /\ queue' = [queue EXCEPT ![r] = Tail(@)]
  /\ UNCHANGED <<busVars, old, process, stopping, dispatching, sessions, failures>>

\* The window is over, or the batch is full, and a permit is free.  The brake
\* looks at the failures so far; a queue it leaves is given up.
RunBatch(r) ==
  /\ Dispatches(r)
  /\ collected[r] # {} /\ Cardinality(sessions[r]) < MaxSessions
  /\ sessions' = [sessions EXCEPT ![r] = @ \cup {collected[r]}]
  /\ collected' = [collected EXCEPT ![r] = {}]
  /\ LET brake == failures[r] >= MaxFailures
     IN  /\ stopping' = [stopping EXCEPT ![r] = @ \/ brake]
         /\ dispatching' = [dispatching EXCEPT ![r] =
                              IF brake THEN "standing down" ELSE @]
  /\ UNCHANGED <<busVars, old, process, queue, failures, accounted>>

\* Mutant: a dispatcher that has collected nothing ends on a shutdown at once.
MayEndAtOnce(r) == stopping[r] /\ collected[r] = {}

MayEnd(r) == stopping[r] /\ collected[r] = {} /\ queue[r] = <<>>

\* An empty window after a shutdown.
StopCollecting(r) ==
  /\ Dispatches(r)
  /\ MayEnd(r)
  /\ dispatching' = [dispatching EXCEPT ![r] = "draining"]
  /\ UNCHANGED <<busVars, old, process, stopping, queue, collected, sessions,
                 failures, accounted>>

\* A session is evaluated, fails and counts, or is refused and does not count.
\* Then its permit is free.
EvaluateBatch(r, session) ==
  /\ process[r] = "up"
  /\ session \in sessions[r]
  /\ \/ failures' = [failures EXCEPT ![r] = 0]
     \/ failures' = [failures EXCEPT ![r] = Min({@ + 1, MaxFailures})]
     \/ UNCHANGED failures
  /\ accounted' = accounted \cup session
  /\ sessions' = [sessions EXCEPT ![r] = @ \ {session}]
  /\ UNCHANGED <<busVars, old, process, stopping, queue, dispatching, collected>>

-----------------------------------------------------------------------------
(* The process. *)

RequestShutdown(r) ==
  /\ process[r] = "up" /\ ~stopping[r]
  /\ stopping' = [stopping EXCEPT ![r] = TRUE]
  /\ UNCHANGED <<busVars, old, process, queue, dispatching, collected, sessions,
                 failures, accounted>>

\* The consume loop has ended, and the dispatch loop has waited for what is in
\* flight.
RunReturns(r) ==
  /\ process[r] = "up"
  /\ reading[r] = "closed" /\ dispatching[r] # "batches" /\ sessions[r] = {}
  /\ process' = [process EXCEPT ![r] = "ended"]
  /\ UNCHANGED <<busVars, old, stopping, queue, dispatching, collected, sessions,
                 failures, accounted>>

\* Or its tasks are cancelled, as when a call of the bus has raised in the
\* consume loop.
ProcessDies(r) ==
  /\ process[r] = "up"
  /\ Cardinality({d \in BusReaders : process[d] = "died"}) < FeedDeaths
  /\ process' = [process EXCEPT ![r] = "died"]
  /\ UNCHANGED <<busVars, old, stopping, queue, dispatching, collected, sessions,
                 failures, accounted>>

FeedNext ==
  \/ Ages
  \/ \E r \in BusReaders :
       \/ BusStep(r) \/ HandleMessage(r) \/ Collect(r) \/ RunBatch(r)
       \/ StopCollecting(r)
       \/ \E session \in sessions[r] : EvaluateBatch(r, session)
       \/ RequestShutdown(r) \/ RunReturns(r) \/ ProcessDies(r)

FeedSpec == FeedInit /\ [][FeedNext]_feedVars

-----------------------------------------------------------------------------
Held(r) ==
  {queue[r][i] : i \in DOMAIN queue[r]} \cup collected[r] \cup UNION sessions[r]

\* Every variable stays in its domain.
FeedTypeOK ==
  /\ BusTypeOK
  /\ process \in [BusReaders -> {"up", "ended", "died"}]
  /\ stopping \in [BusReaders -> BOOLEAN]
  /\ \A r \in BusReaders : Held(r) \subseteq 1..lastRead /\ Len(queue[r]) <= QueueMax[r]
  /\ dispatching \in [BusReaders -> {"batches", "draining", "standing down"}]
  /\ failures \in [BusReaders -> 0..MaxFailures]
  /\ old \in 0..BusEvents
  /\ accounted \subseteq 1..lastRead

\* An orderly shutdown loses no quote: one that has been acknowledged was
\* evaluated or passed over, is in the dead letters, or is in a buffer, and not
\* in one of a process that has ended after draining ("drain what is already
\* buffered", orchestrator.py:332).  A process that dies, or stands down after
\* too many failures, does take its buffer along: the quotes in it are
\* acknowledged and never delivered again, where event_bus.py:16-20 says at least
\* once.
ShutdownLosesNoQuote ==
  \A e \in 1..lastRead :
    \/ e \in pending \cup letters \cup accounted
    \/ \E r \in BusReaders :
         /\ e \in Held(r)
         /\ process[r] # "ended" \/ dispatching[r] = "standing down"
=============================================================================
