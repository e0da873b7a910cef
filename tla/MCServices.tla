----------------------------- MODULE MCServices -----------------------------
(***************************************************************************)
(* The model-checking instance of the services that share no state with    *)
(* one another.  In a behaviour one of them is the focus: it starts in any *)
(* of its initial states and takes all the steps, while the others rest in *)
(* one of theirs.  The reachable states are the sum of the components'     *)
(* states, and not their product.                                          *)
(***************************************************************************)
EXTENDS KillSwitch, SessionCache, ExchangeExecution, BotCapital, HiveMerge,
        LegSequence, Firehose, MirrorSweep, InferenceDaemon, OpportunityFeed,
        TLC

CONSTANTS w1, w2, c1, c2, f1, f2, s1, s2, m1, m2, p1, p2

VARIABLE focus

services == <<ksVars, sessVars, exVars, capVars, hiveVars, legVars,
              fhVars, mirVars, dmVars, feedVars, focus>>

-----------------------------------------------------------------------------
(* Constants. *)

\* Two requests: of one user with one key or two, or of two users with the
\* same key.
TwoRequests ==
  {f \in [ExRequests -> [user : ExUsers, key : ExKeys, stake : 1..MaxStake]] :
     /\ f["r1"].user = "u1" /\ f["r1"].key = "k1"
     /\ f["r2"].user = "u2" => f["r2"].key = "k1"}

\* A frame with a tick in each cell, and one with a tick in the first.
TwoFrames == <<{"x", "y"}, {"x"}>>

\* Two quotes of one opportunity.
OneOpportunity == [e \in BusEntries |-> "a"]

\* One process sheds the first for the second, one can collect both.
OneAndTwo == p1 :> 1 @@ p2 :> 2

\* Workers are interchangeable, and so are callers: the first caller is in the
\* first worker, and of two in one worker an order comes before the beat.
FirstCallerFirst ==
  /\ host[c1] = w1
  /\ host[c2] = w1 => beats # {c1}

-----------------------------------------------------------------------------
(* A component that is not the focus rests in one initial state. *)

Rests(name, atRest) == focus # name => atRest

ServicesInit ==
  /\ focus \in {"kill switch", "sessions", "exchange", "bot capital", "hive", "legs",
                "firehose", "mirror", "daemon", "feed"}
  /\ KsInit
  /\ SessInit
  /\ FirstCallerFirst
  /\ Rests("sessions", beats = {} /\ host[c2] = w1)
  /\ ExInit
  /\ Rests("exchange", exOrder = [r \in ExRequests |->
                                    [user |-> "u1", key |-> "k1", stake |-> 1]])
  /\ CapInit
  /\ Rests("bot capital", bot.mode = "PAPER")
  /\ HiveInit
  /\ Rests("hive", selection = [n \in 1..Signals |-> "home"])
  /\ LegInit
  /\ Rests("legs", \A i \in LegIds : price[i] = 36 /\ toStake[i] = 10)
  /\ FirehoseInit
  /\ MirrorInit
  /\ DmInit
  /\ FeedInit
  /\ Rests("feed", lastRead = 0)

KsStep   == focus = "kill switch" /\ KsNext
            /\ UNCHANGED <<sessVars, exVars, capVars, hiveVars, legVars,
                           fhVars, mirVars, dmVars, feedVars>>
SessStep == focus = "sessions" /\ SessNext
            /\ UNCHANGED <<ksVars, exVars, capVars, hiveVars, legVars,
                           fhVars, mirVars, dmVars, feedVars>>
ExStep   == focus = "exchange" /\ ExNext
            /\ UNCHANGED <<ksVars, sessVars, capVars, hiveVars, legVars,
                           fhVars, mirVars, dmVars, feedVars>>
CapStep  == focus = "bot capital" /\ CapNext
            /\ UNCHANGED <<ksVars, sessVars, exVars, hiveVars, legVars,
                           fhVars, mirVars, dmVars, feedVars>>
HiveStep == focus = "hive" /\ HiveNext
            /\ UNCHANGED <<ksVars, sessVars, exVars, capVars, legVars,
                           fhVars, mirVars, dmVars, feedVars>>
LegStep  == focus = "legs" /\ LegNext
            /\ UNCHANGED <<ksVars, sessVars, exVars, capVars, hiveVars,
                           fhVars, mirVars, dmVars, feedVars>>
FhStep   == focus = "firehose" /\ FirehoseNext
            /\ UNCHANGED <<ksVars, sessVars, exVars, capVars, hiveVars, legVars,
                           mirVars, dmVars, feedVars>>
MirStep  == focus = "mirror" /\ MirrorNext
            /\ UNCHANGED <<ksVars, sessVars, exVars, capVars, hiveVars, legVars,
                           fhVars, dmVars, feedVars>>
DmStep   == focus = "daemon" /\ DmNext
            /\ UNCHANGED <<ksVars, sessVars, exVars, capVars, hiveVars, legVars,
                           fhVars, mirVars, feedVars>>
FeedStep == focus = "feed" /\ FeedNext
            /\ UNCHANGED <<ksVars, sessVars, exVars, capVars, hiveVars, legVars,
                           fhVars, mirVars, dmVars>>

ServicesNext ==
  /\ \/ KsStep \/ SessStep \/ ExStep \/ CapStep \/ HiveStep \/ LegStep
     \/ FhStep \/ MirStep \/ DmStep \/ FeedStep
  /\ UNCHANGED focus

ServicesSpec == ServicesInit /\ [][ServicesNext]_services
=============================================================================
