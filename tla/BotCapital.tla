----------------------------- MODULE BotCapital -----------------------------
(***************************************************************************)
(* The money of one Hive bot beside its owner's main account: the capital  *)
(* slider, the change of execution mode and the archiving of               *)
(* api/v1/hive_trading.py, and allocate and deallocate of                  *)
(* services/cfo_ledger.py, while both accounts bet.                        *)
(*                                                                         *)
(* Every request holds the bot's row FOR UPDATE from its first read to its *)
(* commit, so one runs at a time; bets do not take that row, and change    *)
(* the accounts between a request's checks and its commit.  A bet of a bot *)
(* fills in the mode its worker believes the bot to be in, which it has    *)
(* cached, and is staked from the bot's sub-account, whatever funds it.    *)
(***************************************************************************)
EXTENDS Integers, FiniteSets

CONSTANTS
  Deposit,      \* the main account's opening balance
  Targets,      \* what the capital slider can be set to
  BetBound      \* bound on the bets

ASSUME CapAssumption ==
  /\ Deposit \in Nat /\ BetBound \in Nat
  /\ Targets \subseteq Nat

Stake == 1

VARIABLES
  bot,          \* mode, status and allocated_capital of the row
  mainAcc,      \* the main account: available, exposure, peak
  subAcc,       \* the bot's sub-account
  funding,      \* what funds the sub-account; NONE before its first capital
  botBet,       \* the bot's open bet: none, on paper or real
  mainBet,      \* whether the main account has one
  shadowPnl,    \* what the bot's shadow positions have made
  asked,        \* the request that holds the bot's row
  believed,     \* the mode and status the worker has cached
  realPnl,      \* history: what real bets have made
  betsMade

capVars == <<bot, mainAcc, subAcc, funding, botBet, mainBet, shadowPnl, asked,
             believed, realPnl, betsMade>>
betting == <<botBet, mainBet, shadowPnl, realPnl, betsMade>>
accounts == <<mainAcc, subAcc, funding>>

Modes == {"SHADOW", "PAPER", "LIVE"}
NoRequest == [op |-> "none", target |-> 0, mode |-> "SHADOW", probe |-> "NONE"]
NoMoney == [available |-> 0, exposure |-> 0, peak |-> 0]

CapInit ==
  /\ bot \in [mode : Modes, status : {"PAUSED"}, cap : {0}]
  /\ mainAcc = [available |-> Deposit, exposure |-> 0, peak |-> Deposit]
  /\ subAcc = NoMoney
  /\ funding = "NONE"
  /\ botBet = "none"
  /\ mainBet = FALSE
  /\ shadowPnl = 0
  /\ asked = NoRequest
  /\ believed = [mode |-> bot.mode, status |-> bot.status]
  /\ realPnl = 0
  /\ betsMade = 0

-----------------------------------------------------------------------------
(* Postings on one account. *)

Equity(a) == a.available + a.exposure
Higher(x, y) == IF x > y THEN x ELSE y

Posted(a, cash, atRisk, peak) ==
  [available |-> a.available + cash, exposure |-> a.exposure + atRisk, peak |-> peak]

Staked(a) == Posted(a, -Stake, Stake, a.peak)

\* A settled bet pays back nothing, its stake, or twice that; then mark_peak.
Settled(a, pays) ==
  Posted(a, pays, -Stake, Higher(a.peak, Equity(a) + pays - Stake))

Payouts == {0, Stake, 2 * Stake}

\* Capital in and out: the peak moves with it.
MovedIn(a, cash) == Posted(a, cash, 0, a.peak + cash)
\* Mutant: a withdrawal leaves the peak.
MovedOutUnderPeak(a, cash) == Posted(a, -cash, 0, a.peak)

MovedOut(a, cash) == Posted(a, -cash, 0, Higher(0, a.peak - cash))

FundingOf(mode) == IF mode = "LIVE" THEN "TRANSFER" ELSE "VIRTUAL"

-----------------------------------------------------------------------------
(* Requests: what they check when they take the row, and what they commit. *)

\* Mutants: the mode changes with money in the account; only what is available
\* counts.
EmptyOfBets == botBet = "none"

EmptyOfCash == subAcc.available = 0

\* _require_empty: no open positions, no equity; a shadow bot's are those of
\* its hypothetical book.
Empty ==
  IF bot.mode = "SHADOW" THEN bot.cap + shadowPnl = 0 /\ bot.cap = 0
  ELSE botBet = "none" /\ Equity(subAcc) = 0

Takes(request) ==
  /\ asked = NoRequest
  /\ bot.status # "ARCHIVED"
  /\ asked' = request
  /\ UNCHANGED <<bot, accounts, betting, believed>>

\* PUT capital.  Money that comes back is preceded by an unlocked look at what
\* funds the sub-account.
AskCapital(target) ==
  /\ (bot.mode # "SHADOW" /\ target < bot.cap) => funding # "NONE"
  /\ Takes([op |-> "capital", target |-> target, mode |-> "SHADOW", probe |-> funding])

AskMode(mode) ==
  /\ mode # bot.mode
  /\ bot.status # "ACTIVE"
  /\ Empty
  /\ Takes([op |-> "mode", target |-> 0, mode |-> mode, probe |-> "NONE"])

AskArchive ==
  /\ Empty
  /\ Takes([op |-> "archive", target |-> 0, mode |-> "SHADOW", probe |-> "NONE"])

\* A refusal, a locked bankroll or a failed commit: rolled back.
RequestFails ==
  /\ asked # NoRequest
  /\ asked' = NoRequest
  /\ UNCHANGED <<bot, accounts, betting, believed>>

\* allocate: an empty sub-account may change hands.
Allocate(cash) ==
  LET wanted == FundingOf(bot.mode) IN
  /\ funding # wanted => subAcc.available = 0 /\ subAcc.exposure = 0
  /\ funding' = wanted
  /\ IF wanted = "TRANSFER"
     THEN cash <= mainAcc.available /\ mainAcc' = MovedOut(mainAcc, cash)
     ELSE UNCHANGED mainAcc
  /\ subAcc' = MovedIn(subAcc, cash)

\* Mutant: every deallocation credits the main account.
DeallocateToMain(cash) ==
  /\ cash <= subAcc.available
  /\ subAcc' = MovedOut(subAcc, cash)
  /\ mainAcc' = MovedIn(mainAcc, cash)
  /\ UNCHANGED funding

\* deallocate: what the probe saw decides where the money goes.
Deallocate(cash) ==
  /\ cash <= subAcc.available
  /\ subAcc' = MovedOut(subAcc, cash)
  /\ mainAcc' = IF asked.probe = "TRANSFER" THEN MovedIn(mainAcc, cash) ELSE mainAcc
  /\ UNCHANGED funding

SetCapital ==
  /\ asked.op = "capital"
  /\ \/ (bot.mode = "SHADOW" \/ asked.target = bot.cap) /\ UNCHANGED accounts
     \/ bot.mode # "SHADOW" /\ asked.target > bot.cap /\ Allocate(asked.target - bot.cap)
     \/ bot.mode # "SHADOW" /\ asked.target < bot.cap /\ Deallocate(bot.cap - asked.target)
  /\ bot' = [bot EXCEPT !.cap = asked.target]
  /\ asked' = NoRequest
  /\ UNCHANGED <<betting, believed>>

SetMode ==
  /\ asked.op = "mode"
  /\ bot' = [bot EXCEPT !.mode = asked.mode]
  /\ asked' = NoRequest
  /\ UNCHANGED <<accounts, betting, believed>>

Archive ==
  /\ asked.op = "archive"
  /\ bot' = [bot EXCEPT !.status = "ARCHIVED"]
  /\ asked' = NoRequest
  /\ UNCHANGED <<accounts, betting, believed>>

\* POST status: the row is taken and given back in one step.
Activate ==
  /\ asked = NoRequest
  /\ bot.status \in {"PAUSED", "SUSPENDED"}
  /\ IF bot.mode = "SHADOW" THEN bot.cap + shadowPnl > 0 ELSE Equity(subAcc) > 0
  /\ bot' = [bot EXCEPT !.status = "ACTIVE"]
  /\ UNCHANGED <<accounts, betting, asked, believed>>

\* Paused by its owner, or suspended by a breaker; both wait for the row.
StopBot(status) ==
  /\ asked = NoRequest
  /\ IF status = "PAUSED" THEN bot.status \in {"ACTIVE", "SUSPENDED"}
     ELSE bot.status = "ACTIVE"
  /\ bot' = [bot EXCEPT !.status = status]
  /\ UNCHANGED <<accounts, betting, asked, believed>>

-----------------------------------------------------------------------------
(* The worker and the bets. *)

\* active_bots: the rows, cached for HIVE_BOT_CACHE_SECONDS.
RefreshBots ==
  /\ believed' = [mode |-> bot.mode, status |-> bot.status]
  /\ believed' # believed
  /\ UNCHANGED <<bot, accounts, betting, asked>>

BotBets ==
  /\ believed.status = "ACTIVE"
  /\ believed.mode # "SHADOW"
  /\ botBet = "none"
  /\ funding # "NONE"
  /\ subAcc.available >= Stake
  /\ betsMade < BetBound
  /\ betsMade' = betsMade + 1
  /\ botBet' = IF believed.mode = "LIVE" THEN "real" ELSE "paper"
  /\ subAcc' = Staked(subAcc)
  /\ UNCHANGED <<bot, mainAcc, funding, mainBet, shadowPnl, asked, believed, realPnl>>

BotBetSettles ==
  /\ botBet # "none"
  /\ \E pays \in Payouts :
       /\ subAcc' = Settled(subAcc, pays)
       /\ realPnl' = IF botBet = "real" THEN realPnl + pays - Stake ELSE realPnl
  /\ botBet' = "none"
  /\ UNCHANGED <<bot, mainAcc, funding, mainBet, shadowPnl, asked, believed, betsMade>>

\* A shadow position, from its signal to its grade.
ShadowBets ==
  /\ believed.status = "ACTIVE"
  /\ believed.mode = "SHADOW"
  /\ betsMade < BetBound
  /\ betsMade' = betsMade + 1
  /\ \E pays \in Payouts : shadowPnl' = shadowPnl + pays - Stake
  /\ UNCHANGED <<bot, accounts, botBet, mainBet, asked, believed, realPnl>>

MainBets ==
  /\ ~mainBet
  /\ mainAcc.available >= Stake
  /\ betsMade < BetBound
  /\ betsMade' = betsMade + 1
  /\ mainBet' = TRUE
  /\ mainAcc' = Staked(mainAcc)
  /\ UNCHANGED <<bot, subAcc, funding, botBet, shadowPnl, asked, believed, realPnl>>

MainBetSettles ==
  /\ mainBet
  /\ \E pays \in Payouts :
       /\ mainAcc' = Settled(mainAcc, pays)
       /\ realPnl' = realPnl + pays - Stake
  /\ mainBet' = FALSE
  /\ UNCHANGED <<bot, subAcc, funding, botBet, shadowPnl, asked, believed, betsMade>>

-----------------------------------------------------------------------------
CapNext ==
  \/ \E t \in Targets : AskCapital(t)
  \/ \E m \in Modes : AskMode(m)
  \/ AskArchive \/ RequestFails \/ SetCapital \/ SetMode \/ Archive
  \/ Activate \/ StopBot("PAUSED") \/ StopBot("SUSPENDED")
  \/ RefreshBots \/ BotBets \/ BotBetSettles \/ ShadowBets
  \/ MainBets \/ MainBetSettles

CapSpec == CapInit /\ [][CapNext]_capVars

-----------------------------------------------------------------------------
CapStatuses == {"PAUSED", "ACTIVE", "SUSPENDED", "ARCHIVED"}
Fundings == {"NONE", "TRANSFER", "VIRTUAL"}
Money == [available : Nat, exposure : Nat, peak : Nat]
BotRows == [mode : Modes, status : CapStatuses, cap : Nat]

\* Every variable stays in its domain: no balance goes below zero.
CapTypeOK ==
  /\ bot \in BotRows
  /\ mainAcc \in Money
  /\ subAcc \in Money
  /\ funding \in Fundings
  /\ botBet \in {"none", "paper", "real"}
  /\ mainBet \in BOOLEAN
  /\ shadowPnl \in Int
  /\ asked \in [op : {"none", "capital", "mode", "archive"}, target : Nat,
                mode : Modes, probe : Fundings]
  /\ believed \in [mode : Modes, status : CapStatuses]
  /\ realPnl \in Int
  /\ betsMade \in 0..BetBound

\* The rupees of the owner: what is in the main account, and what was moved out
\* of it into the bot's.
RealMoney ==
  Equity(mainAcc) + (IF funding = "TRANSFER" THEN Equity(subAcc) ELSE 0)

\* "A live bot's capital is moved out of (and back into) the main account; a
\* paper bot's is virtual and never touches it" (api/v1/hive_trading.py:261): no
\* request makes or loses real money.  A release that credits the main account
\* with virtual capital, or an account that changes hands with money in it,
\* breaks this.
MovingKeepsRealMoney == [][asked' # asked => RealMoney' = RealMoney]_capVars

\* The other half of what hive_trading.py:221 says of the mode: "paper capital
\* never turns into live capital, nor back".  Real money changes by what real
\* bets make, and by nothing else.  The code breaks this: a worker executes in
\* the mode it has cached.
RealMoneyAddsUp == RealMoney = Deposit + realPnl

\* What is in the sub-account is funded as the mode on the bot's ROW says,
\* through every order of slider, mode, bets and their settlement, also of bets
\* taken between the check that the account is empty and the commit of the mode.
\* That a bet executes in the mode of the row is not said here, and not so.
FundsMatchMode ==
  Equity(subAcc) > 0 => bot.mode # "SHADOW" /\ funding = FundingOf(bot.mode)

\* A bot that is archived leaves no money and no open bet behind, also when it
\* bet between the check and the commit of the request.
ArchivedBotIsEmpty ==
  bot.status = "ARCHIVED" => Equity(subAcc) = 0 /\ botBet = "none"

Drawdown(a) == a.peak - Equity(a)

\* "Moving capital is not performance ... no drawdown guard reads it as a
\* loss" (cfo_ledger.py:646): no request changes how far either account is
\* below its peak.
CapitalIsNotPerformance ==
  [][asked' # asked => /\ Drawdown(mainAcc)' = Drawdown(mainAcc)
                       /\ Drawdown(subAcc)' = Drawdown(subAcc)]_capVars
=============================================================================
