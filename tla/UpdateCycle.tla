----------------------------- MODULE UpdateCycle -----------------------------
(***************************************************************************)
(* The server's update cycle (agents/server/rp5.py, update) driving the    *)
(* board of OtaBoard over connections that may break at any time: install, *)
(* tryboot, wait, attest, commit, reboot, wait, attest. Other sessions are *)
(* an operator's status, tryboot and reboot commands.                      *)
(*                                                                         *)
(* An attestation round is three steps here: the verifier reads its        *)
(* baseline, the board answers, the verifier decides and saves the new     *)
(* baseline. Of the TPM's resetCount only its relation to the saved one    *)
(* matters, and that is what base and att keep.                            *)
(***************************************************************************)
EXTENDS OtaBoard

CONSTANTS
  Server,  \* the sessions that are update() runs of the server
  Golden,  \* the release whose goldens a manifest carries
  Fault    \* what may go wrong: "lost", "power", "media", "slow", "monitor", "state"

ASSUME ServerAssumption == Server \subseteq Installer
ASSUME GoldenAssumption == Golden \in [Manifest -> Image]

VARIABLES
  spc,       \* where each update() stands
  rel,       \* the release directory it was given (its manifest)
  aim,       \* the trial target its status reply named (0: no reply yet)
  att,       \* its attestation round in flight
  base,      \* the verifier's saved resetCount: "none", "now" (the TPM's), "past"
  kept,      \* history: since the health check, the trial boot's is what is saved
  measured,  \* the image this boot's PCRs and NV index were extended with
  goldens,   \* current-goldens.json: the release routine rounds compare with
  proven,    \* history: releases that passed a round on a trial boot
  calm       \* nothing goes wrong in this behaviour

record == <<base, kept>>
server == <<spc, rel, aim, att, record, goldens, proven>>
uvars  == <<vars, server, measured, calm>>

MayGoWrong(f) == f \in Fault /\ ~calm

Rest == {"idle", "done", "stopped"}
SPC == Rest \cup {"status", "to_install", "install", "to_tryboot", "tryboot", "wait",
                  "ask", "quote", "verdict", "to_commit", "commit", "to_reboot",
                  "wait2", "ask2", "quote2", "verdict2"}
\* What follows an ok reply.
AfterReply == [status |-> "to_install", install |-> "to_tryboot", tryboot |-> "wait",
               commit |-> "to_reboot"]
NoRound == [prev |-> "none", img |-> None, later |-> FALSE]

\* The round the cycle is in, by the step that asks for it.
Rounds == [ask  |-> [quote |-> "quote", verdict |-> "verdict"],
           ask2 |-> [quote |-> "quote2", verdict |-> "verdict2"]]
Asking(u, a) == a \in DOMAIN Rounds /\ spc[u] = a
Quoting(u, a) == a \in DOMAIN Rounds /\ spc[u] = Rounds[a].quote

Goto(u, l) == spc' = [spc EXCEPT ![u] = l]
Replied(u) == pc[u] = "idle" /\ reply[u] = "ok"

-----------------------------------------------------------------------------
(* What the board does, seen by the server.                                *)

\* Without faults of the medium and with the staging directory to itself, an install
\* reads back what it wrote.
MediumHolds(s) ==
  /\ pc[s] \in {"in_root", "img_write", "sig_write"} => pc'[s] # "idle"
  /\ pc[s] = "in_dd" => root'[ROOT_PART(target[s])] = man[s].root

\* The status reply carries the trial target.
BoardWork(s) ==
  /\ Work(s)
  /\ MayGoWrong("media") \/ MediumHolds(s)
  /\ aim' = IF s \in Server /\ pc[s] = "st_read"
            THEN [aim EXCEPT ![s] = autoboot.tryboot] ELSE aim
  /\ UNCHANGED <<spc, rel, att, record, measured, goldens, proven>>

Operator(s) ==
  /\ s \notin Server
  /\ Status(s) \/ Tryboot(s) \/ Reboot(s)
  /\ UNCHANGED <<server, measured>>

\* A tryboot's answer normally leaves before its reboot a second later. A dead board is
\* switched off and on by hand.
BoardReset ==
  /\ \/ RebootFires /\ (MayGoWrong("slow") \/ \A u \in Server : spc[u] # "tryboot")
     \/ PowerLoss /\ (MayGoWrong("power") \/ stage = "dead")
  /\ UNCHANGED <<server, measured>>

\* Every boot restarts the TPM: its resetCount moves past whatever was saved or quoted.
TpmRestart ==
  /\ base' = IF base = "none" THEN "none" ELSE "past"
  /\ att' = [u \in Server |->
       CASE spc[u] \in {"quote", "quote2"} /\ att[u].prev = "now" -> [att[u] EXCEPT !.prev = "past"]
         [] spc[u] \in {"verdict", "verdict2"} -> [att[u] EXCEPT !.later = TRUE]
         [] OTHER -> att[u]]

BootChain ==
  \/ FirmwareBoot /\ TpmRestart /\ UNCHANGED <<spc, rel, aim, kept, measured, goldens, proven>>
  \/ (UBootRefuse \/ UBootIncrement) /\ UNCHANGED <<server, measured>>
  \/ UBootHandoff /\ measured' = boot[running].img /\ UNCHANGED server

-----------------------------------------------------------------------------
(* update(), call by call.                                                 *)

Begin(u, m) ==
  /\ spc[u] \in Rest
  /\ Status(u)
  /\ Goto(u, "status")
  /\ rel' = [rel EXCEPT ![u] = m]
  /\ aim' = [aim EXCEPT ![u] = 0]
  /\ kept' = [kept EXCEPT ![u] = FALSE]
  /\ UNCHANGED <<att, base, measured, goldens, proven>>

\* ssh() returns the reply; a connection may still break before the reply is in.
Hear(u) ==
  /\ spc[u] \in DOMAIN AfterReply /\ Replied(u)
  /\ Goto(u, AfterReply[spc[u]])
  /\ UNCHANGED <<vars, rel, aim, att, record, measured, goldens, proven>>

Send(u, from, to) ==
  /\ spc[u] = from
  /\ Goto(u, to)
  /\ UNCHANGED <<rel, aim, att, record, measured, goldens, proven>>

SendInstall(u) ==
  /\ Send(u, "to_install", "install")
  /\ Install(u, rel[u]) \/ InstallRefused(u, rel[u])

SendTryboot(u) == Send(u, "to_tryboot", "tryboot") /\ Tryboot(u)
SendCommit(u) == Send(u, "to_commit", "commit") /\ Commit(u)
SendReboot(u) == Send(u, "to_reboot", "wait2") /\ Reboot(u)

\* The request does not reach the board. Only the reply to reboot is not looked at, so
\* neither is its absence.
Unsent(u) ==
  /\ spc[u] \in {"to_install", "to_tryboot", "to_commit", "to_reboot"}
  /\ stage # "linux" \/ MayGoWrong("lost")
  /\ Goto(u, IF spc[u] = "to_reboot" THEN "wait2" ELSE "stopped")
  /\ UNCHANGED <<vars, rel, aim, att, record, measured, goldens, proven>>

\* wait_up returns the first status the attestation service gives. It sleeps 20 s
\* first, so a reboot that is not slow has begun by then.
BadAnswersStatus == stage = "linux"
AnswersStatus == stage = "linux" /\ (MayGoWrong("slow") \/ pending = {})

\* Only the trial pair that status promised will do.
OnTrial(u) == trial /\ running = aim[u]

BadWaitUp(u) ==
  /\ spc[u] = "wait" /\ AnswersStatus
  /\ Goto(u, IF OnTrial(u) THEN "ask" ELSE "wait")
  /\ UNCHANGED <<vars, rel, aim, att, record, measured, goldens, proven>>
WaitUp(u) ==
  /\ spc[u] = "wait" /\ AnswersStatus
  /\ Goto(u, IF OnTrial(u) THEN "ask" ELSE "stopped")
  /\ UNCHANGED <<vars, rel, aim, att, record, measured, goldens, proven>>

\* attest-server.py reads the saved resetCount, then sends the nonce.
AttestAsk(u, a) ==
  /\ Asking(u, a)
  /\ att' = [att EXCEPT ![u] = [NoRound EXCEPT !.prev = base]]
  /\ Goto(u, Rounds[a].quote)
  /\ UNCHANGED <<vars, rel, aim, record, measured, goldens, proven>>

\* The board quotes its PCRs and certifies the NV index; both name what it booted.
AttestQuote(u, a) ==
  /\ Quoting(u, a)
  /\ stage = "linux"
  /\ att' = [att EXCEPT ![u].img = measured]
  /\ Goto(u, Rounds[a].verdict)
  /\ UNCHANGED <<vars, rel, aim, record, measured, goldens, proven>>

\* The goldens of the release, and a restart since the saved round (REQUIRE_REBOOT).
BadMatches(u) == TRUE
Matches(u) == att[u].img = Golden[rel[u]]
BadRestarted(u) == TRUE
Restarted(u) == att[u].prev = "past"
Passes(u) == Matches(u) /\ Restarted(u)

\* Verdict or not, the quoted resetCount goes to the state file, unless that cannot be
\* written, which is ignored, or is left empty.
Age(u) == IF att[u].later THEN "past" ELSE "now"
Save(age) == base' \in {age} \cup IF MayGoWrong("state") THEN {base, "none"} ELSE {}

\* What a saved round leaves of the others' baselines between their two rounds.
Committing == {"to_commit", "commit", "to_reboot", "wait2", "ask2"}
Surviving(age) == [w \in Server |-> kept[w] /\ (age = "now" \/ spc[w] \notin Committing)]

RoundOver(u) == Save(Age(u)) /\ att' = [att EXCEPT ![u] = NoRound]

BadHealthCheck(u) ==
  /\ spc[u] = "verdict"
  /\ RoundOver(u)
  /\ kept' = [Surviving(Age(u)) EXCEPT ![u] = (base' = "now")]
  /\ Goto(u, IF Passes(u) THEN "to_commit" ELSE "stopped")
  /\ proven' = proven
  /\ goldens' = IF Passes(u) THEN Golden[rel[u]] ELSE goldens
  /\ UNCHANGED <<vars, rel, aim, measured>>
HealthCheck(u) ==
  /\ spc[u] = "verdict"
  /\ RoundOver(u)
  /\ kept' = [Surviving(Age(u)) EXCEPT ![u] = (base' = "now")]
  /\ Goto(u, IF Passes(u) THEN "to_commit" ELSE "stopped")
  /\ proven' = proven \cup {i \in Image :
                             i = att[u].img /\ i = Golden[rel[u]] /\ att[u].prev = "past"}
  /\ UNCHANGED <<vars, rel, aim, measured, goldens>>

WaitUpCommitted(u) ==
  /\ spc[u] = "wait2" /\ AnswersStatus
  /\ Goto(u, "ask2")
  /\ UNCHANGED <<vars, rel, aim, att, record, measured, goldens, proven>>

Finish(u) ==
  /\ spc[u] = "verdict2"
  /\ RoundOver(u)
  /\ kept' = Surviving(Age(u))
  /\ Goto(u, IF Passes(u) THEN "done" ELSE "stopped")
  /\ goldens' = IF Passes(u) THEN Golden[rel[u]] ELSE goldens
  /\ UNCHANGED <<vars, rel, aim, measured, proven>>

\* A refusal, a board reset while serving or that never comes up, a connection that
\* breaks: update() returns 1 and leaves everything as it is. The handler on the board
\* runs on.
GiveUp(u) ==
  /\ \/ /\ spc[u] \in DOMAIN AfterReply
        /\ (pc[u] = "idle" /\ reply[u] # "ok") \/ MayGoWrong("lost")
     \/ /\ spc[u] \in {"wait", "wait2"}
        /\ stage = "dead" \/ MayGoWrong("lost")
     \/ /\ spc[u] \in {"quote", "quote2"}
        /\ stage # "linux" \/ MayGoWrong("lost")
  /\ Goto(u, "stopped")
  /\ att' = [att EXCEPT ![u] = NoRound]
  /\ UNCHANGED <<vars, rel, aim, record, measured, goldens, proven>>

\* A routine round (rp5.py attest) reads, asks and saves at steps of its own, and any
\* number are under way: one that ends now saves what this boot answered, or an earlier one.
RoutineRound ==
  /\ MayGoWrong("monitor")
  /\ \E age \in {"now", "past"} :
       /\ age = "now" => stage = "linux"
       /\ Save(age) /\ kept' = Surviving(age)
  /\ UNCHANGED <<vars, spc, rel, aim, att, measured, goldens, proven>>

-----------------------------------------------------------------------------
UInit ==
  /\ Init
  /\ spc = [u \in Server |-> "idle"]
  /\ rel = [u \in Server |-> None]
  /\ aim = [u \in Server |-> 0]
  /\ att = [u \in Server |-> NoRound]
  /\ base \in {"none", "past"}
  /\ kept = [u \in Server |-> FALSE]
  /\ measured = FactoryImage
  /\ goldens = FactoryImage
  /\ proven = {}
  /\ calm \in BOOLEAN

Cycle(u) ==
  \/ Hear(u) \/ Unsent(u)
  \/ SendInstall(u) \/ SendTryboot(u) \/ SendCommit(u) \/ SendReboot(u)
  \/ WaitUp(u) \/ WaitUpCommitted(u)
  \/ \E a \in {"ask", "ask2"} : AttestAsk(u, a) \/ AttestQuote(u, a)
  \/ HealthCheck(u) \/ Finish(u) \/ GiveUp(u)

UStep ==
  \/ \E u \in Server : Cycle(u) \/ \E m \in Manifest : Begin(u, m)
  \/ \E s \in Session : BoardWork(s) \/ Operator(s)
  \/ BoardReset \/ BootChain \/ RoutineRound

UNext == UStep /\ UNCHANGED calm

\* As in OtaBoard; and update() is a running process.
UFairness ==
  /\ WF_uvars(BootChain /\ UNCHANGED calm)
  /\ WF_uvars(RebootFires /\ BoardReset /\ UNCHANGED calm)
  /\ \A s \in Session : WF_uvars(BoardWork(s) /\ UNCHANGED calm)
  /\ \A u \in Server : WF_uvars(Cycle(u) /\ UNCHANGED calm)

USpec == UInit /\ [][UNext]_uvars
UFairSpec == USpec /\ UFairness

\* The operators ask for the status and for plain reboots, and are refused any trial.
OperatorTries == \E s \in Session \ Server : <<"tryboot", s>> \in pending' \ pending
NoTrialsSpec == UInit /\ [][UNext /\ ~OperatorTries]_uvars

-----------------------------------------------------------------------------
(* Properties.                                                             *)

UTypeOK ==
  /\ spc \in [Server -> SPC]
  /\ rel \in [Server -> Manifest \cup {None}]
  /\ aim \in [Server -> 0..2]
  /\ att \in [Server -> [prev : {"none", "now", "past"},
                         img : Image \cup {None}, later : BOOLEAN]]
  /\ base \in {"none", "now", "past"}
  /\ kept \in [Server -> BOOLEAN]
  /\ measured \in Image
  /\ goldens \in Image
  /\ proven \subseteq Image
  /\ \A u \in Server : spc[u] # "idle" => rel[u] \in Manifest

\* What the cycle commits has passed an attestation round against the goldens of its
\* own release while it ran as a trial; replies lost on the way, resets and operators
\* notwithstanding (rp5.py, "attest (= health check), commit").
CommittedWasProven ==
  boot[autoboot.all].img \in proven \cup {FactoryImage}

\* A plain boot never reaches Linux on a release that was not proven on trial.
NoUnprovenPlainBoot ==
  stage = "linux" /\ ~trial => measured \in proven \cup {FactoryImage}

\* DONE is said only of the committed release, and routine rounds compare with its goldens
\* from now on; and where the health check's resetCount stayed on record until the second
\* round read it, the board has restarted since and the release's version is the floor.
DoneMeansDone ==
  [][\A u \in Server : spc[u] # "done" /\ spc'[u] = "done" =>
       LET i == Golden[rel[u]] IN
       /\ boot[autoboot.all].img = i /\ autoboot' = autoboot
       /\ goldens' = i
       /\ kept[u] => counter >= Version[i]]_uvars

\* Kept on record or not, the floor is the release's version once DONE has been said of it:
\* the first committed boot "advances the counter" and then "server records the version as
\* committed" (docs/ota-update-design.md). Not so when the state file was not written.
DoneMeansFloor ==
  [][\A u \in Server : spc[u] # "done" /\ spc'[u] = "done" =>
       counter >= Version[Golden[rel[u]]]]_uvars

\* Once DONE has been said, and until the server starts another update, the release stays
\* the committed one and routine rounds compare with it and pass on every plain boot (rp5.py,
\* "Passes on a good software state"), whatever operators reboot, try or cut off.
DoneLasts ==
  \A u \in Server : spc[u] = "done" =>
    /\ boot[autoboot.all].img = Golden[rel[u]] /\ goldens = Golden[rel[u]]
    /\ stage = "linux" /\ ~trial => measured = goldens

\* The goldens of routine rounds change only to those of the release that is committed at
\* that instant and not below the floor: no trial, passed or failed, becomes the reference.
GoldensFollowCommit ==
  [][goldens' # goldens =>
       /\ goldens' = boot[autoboot.all].img /\ autoboot' = autoboot
       /\ Version[goldens'] >= counter]_uvars

\* With no update under way and the board up on its committed pair, a routine round
\* compares the boot with its own goldens (rp5.py, "Passes on a good software state").
RoutineRoundPasses ==
  stage = "linux" /\ ~trial /\ (\A u \in Server : spc[u] \in Rest) => measured = goldens

\* update() always returns.
UpdateReturns == \A u \in Server : spc[u] \notin Rest ~> spc[u] \in Rest

\* Built as make-release.py builds it: one image, declared at its own version.
WellMade(m) ==
  /\ m.root = m.img /\ m.sig = m.img /\ m.img = Golden[m]
  /\ ~m.factory /\ m.version = Version[m.img]

\* When nothing fails, an update started from a plain boot, with a baseline on record,
\* to a well-made release that is not below the floor, ends in DONE.
GoodUpdateSucceeds ==
  \A u \in Server :
    calm /\ spc[u] = "status" /\ ~trial /\ base # "none" /\ WellMade(rel[u])
      /\ rel[u].version >= counter ~> spc[u] = "done"

=============================================================================
