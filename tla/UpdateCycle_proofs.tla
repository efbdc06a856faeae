-------------------------- MODULE UpdateCycle_proofs --------------------------
(* Theorems about UpdateCycle: what the cycle commits was proven on trial, and *)
(* DONE is true when it is said and afterwards, for any number of operators,   *)
(* any faults and any bundles.                                                 *)
EXTENDS UpdateCycle, OtaPromises_proofs

USE SessionAssumption, ImageAssumption, ManifestAssumption, ServerAssumption,
    GoldenAssumption
    DEF Pair, Content

-----------------------------------------------------------------------------
(* The board under the cycle is a board of OtaBoard.                       *)

\* A step of the cycle is a step of the board, or leaves the board alone.
LEMMA CycleIsBoardStep == UTypeOK /\ [UNext]_uvars => [Next]_vars
<1> SUFFICES ASSUME UTypeOK, [UNext]_uvars PROVE [Next]_vars
  OBVIOUS
<1>1. ASSUME NEW u \in Server, Cycle(u) PROVE [Next]_vars
  <2>1. CASE SendInstall(u)
    <3>1. rel[u] \in Manifest
      BY <2>1 DEF SendInstall, Send, UTypeOK
    <3>2. QED
      BY <2>1, <3>1 DEF SendInstall, Next, Request
  <2>2. CASE SendTryboot(u) \/ SendCommit(u) \/ SendReboot(u)
    BY <2>2 DEF SendTryboot, SendCommit, SendReboot, Next, Request
  <2>3. CASE \/ Hear(u) \/ Unsent(u) \/ WaitUp(u) \/ WaitUpCommitted(u)
             \/ HealthCheck(u) \/ Finish(u) \/ GiveUp(u)
    BY <2>3 DEF Hear, Unsent, WaitUp, WaitUpCommitted, HealthCheck, Finish, GiveUp
  <2>4. ASSUME NEW a \in {"ask", "ask2"}, AttestAsk(u, a) \/ AttestQuote(u, a)
        PROVE [Next]_vars
    BY <2>4 DEF AttestAsk, AttestQuote
  <2>5. QED
    BY <1>1, <2>1, <2>2, <2>3, <2>4 DEF Cycle
<1>2. ASSUME NEW u \in Server, NEW m \in Manifest, Begin(u, m) PROVE [Next]_vars
  BY <1>2 DEF Begin, Next, Request
<1>3. ASSUME NEW s \in Session, BoardWork(s) \/ Operator(s) PROVE [Next]_vars
  BY <1>3 DEF BoardWork, Operator, Next, Request
<1>4. CASE BoardReset \/ BootChain
  BY <1>4 DEF BoardReset, BootChain, Next, BootStep
<1>5. CASE RoutineRound \/ UNCHANGED uvars
  BY <1>5 DEF RoutineRound, uvars
<1>6. QED
  BY <1>1, <1>2, <1>3, <1>4, <1>5 DEF UNext, UStep

\* A step of the cycle keeps the server's variables in their types.
LEMMA CycleTypeStep == IInv /\ UTypeOK /\ [UNext]_uvars => UTypeOK'
<1> SUFFICES ASSUME IInv, UTypeOK, [UNext]_uvars PROVE UTypeOK'
  OBVIOUS
<1> USE DEF UTypeOK, SPC, Rest, NoRound, Goto, server, record
<1>0. TypeOK
  BY DEF IInv
<1>1. ASSUME NEW u \in Server, Cycle(u) PROVE UTypeOK'
  <2>1. CASE Hear(u)
    BY <2>1 DEF Hear, AfterReply
  <2>2. CASE Unsent(u)
    BY <2>2 DEF Unsent
  <2>3. CASE SendInstall(u) \/ SendTryboot(u) \/ SendCommit(u) \/ SendReboot(u)
    BY <2>3 DEF SendInstall, SendTryboot, SendCommit, SendReboot, Send
  <2>4. CASE WaitUp(u) \/ WaitUpCommitted(u)
    BY <2>4 DEF WaitUp, WaitUpCommitted
  <2>5. ASSUME NEW a \in {"ask", "ask2"}, AttestAsk(u, a) PROVE UTypeOK'
    <3>1. Rounds[a].quote \in {"quote", "quote2"} /\ spc[u] = a
      BY <2>5 DEF AttestAsk, Asking, Rounds
    <3>2. QED
      BY <2>5, <3>1 DEF AttestAsk
  <2>6. ASSUME NEW a \in {"ask", "ask2"}, AttestQuote(u, a) PROVE UTypeOK'
    <3>1. Rounds[a].verdict \in {"verdict", "verdict2"} /\ spc[u] \in {"quote", "quote2"}
      BY <2>6 DEF AttestQuote, Quoting, Rounds
    <3>2. QED
      BY <2>6, <3>1 DEF AttestQuote
  <2>7. CASE HealthCheck(u)
    BY <2>7 DEF HealthCheck, RoundOver, Save, Age, Surviving
  <2>8. CASE Finish(u)
    BY <2>8 DEF Finish, RoundOver, Save, Age, Surviving
  <2>9. CASE GiveUp(u)
    BY <2>9 DEF GiveUp, AfterReply
  <2>10. QED
    BY <1>1, <2>1, <2>2, <2>3, <2>4, <2>5, <2>6, <2>7, <2>8, <2>9 DEF Cycle
<1>2. ASSUME NEW u \in Server, NEW m \in Manifest, Begin(u, m) PROVE UTypeOK'
  BY <1>2 DEF Begin
<1>3. ASSUME NEW s \in Session, BoardWork(s) \/ Operator(s) PROVE UTypeOK'
  BY <1>0, <1>3 DEF BoardWork, Operator, TypeOK
<1>4. CASE BoardReset \/ RoutineRound \/ UNCHANGED uvars
  BY <1>4 DEF BoardReset, RoutineRound, Save, Surviving, uvars
<1>5. CASE BootChain
  <2>1. CASE /\ FirmwareBoot /\ TpmRestart
             /\ UNCHANGED <<spc, rel, aim, kept, measured, goldens, proven>>
    BY <2>1 DEF TpmRestart
  <2>2. CASE (UBootRefuse \/ UBootIncrement) /\ UNCHANGED <<server, measured>>
    BY <2>2
  <2>3. CASE UBootHandoff /\ measured' = boot[running].img /\ UNCHANGED server
    BY <2>3 DEF UBootHandoff, IInv, RunningWhole, Signed
  <2>4. QED
    BY <1>5, <2>1, <2>2, <2>3 DEF BootChain
<1>6. QED
  BY <1>1, <1>2, <1>3, <1>4, <1>5 DEF UNext, UStep

\* Both invariants hold in every reachable state of the cycle.
LEMMA CycleTyped == USpec => [](IInv /\ UTypeOK)
<1>1. UInit => IInv /\ UTypeOK
  BY InvInit DEF UInit, UTypeOK, SPC, Rest, NoRound
<1>2. IInv /\ UTypeOK /\ [UNext]_uvars => IInv' /\ UTypeOK'
  BY CycleIsBoardStep, CycleTypeStep, InvStep
<1>3. QED
  BY <1>1, <1>2, PTL DEF USpec

\* The server's record of an update is well typed in every reachable state, and no
\* update runs without a release.
THEOREM CycleTypeCorrect == USpec => []UTypeOK
BY CycleTyped, PTL

\* Whatever the server does, loses or repeats, the board under it stays bootable.
THEOREM CycleNeverBricks == USpec => []CommittedBootable
<1>1. IInv => CommittedBootable
  BY DEF IInv
<1>2. QED
  BY <1>1, CycleTyped, PTL

-----------------------------------------------------------------------------
(* One step of a handler.                                                  *)

\* The steps of a commit up to its rename, and the steps of update() from the reply to
\* install to the request to commit.
CommitPending == {"co_mount", "co_read", "co_wmount", "co_rename"}
Installed == {"to_tryboot", "tryboot", "wait", "ask", "quote", "verdict", "to_commit"}

\* A handler leaves the others alone, writes the boot files only as an install and the
\* file only as a commit, and an install that ends with ok ends at its last step.
LEMMA WorkEffect ==
  ASSUME TypeOK, NEW s \in Session, Work(s)
  PROVE  /\ \A t \in Session \ {s} : pc'[t] = pc[t] /\ reply'[t] = reply[t] /\ man'[t] = man[t]
         /\ UNCHANGED <<stage, running, trial, counter>>
         /\ pc[s] \notin InstallHolding => pc'[s] \notin InstallHolding /\ UNCHANGED boot
         /\ pc[s] \in InstallHolding =>
              /\ pc'[s] \in InstallHolding \cup {"idle"}
              /\ pc'[s] \in InstallHolding => man'[s] = man[s]
              /\ pc'[s] = "idle" /\ reply'[s] = "ok" => pc[s] = "in_done" /\ UNCHANGED boot
              /\ UNCHANGED autoboot
         /\ pc'[s] \in CommitPending => pc[s] \in CommitPending
         /\ autoboot' # autoboot => pc[s] = "co_rename" /\ pc'[s] = "co_done"
         /\ pc[s] # "idle"
<1> USE DEF TypeOK, disk, fw, mounts, job, InstallHolding, InstallWriting, CommitPending
<1> DEFINE Goal ==
         /\ \A t \in Session \ {s} : pc'[t] = pc[t] /\ reply'[t] = reply[t] /\ man'[t] = man[t]
         /\ UNCHANGED <<stage, running, trial, counter>>
         /\ pc[s] \notin InstallHolding => pc'[s] \notin InstallHolding /\ UNCHANGED boot
         /\ pc[s] \in InstallHolding =>
              /\ pc'[s] \in InstallHolding \cup {"idle"}
              /\ pc'[s] \in InstallHolding => man'[s] = man[s]
              /\ pc'[s] = "idle" /\ reply'[s] = "ok" => pc[s] = "in_done" /\ UNCHANGED boot
              /\ UNCHANGED autoboot
         /\ pc'[s] \in CommitPending => pc[s] \in CommitPending
         /\ autoboot' # autoboot => pc[s] = "co_rename" /\ pc'[s] = "co_done"
         /\ pc[s] # "idle"
<1>1. CASE MountP1(s)
  BY <1>1 DEF MountP1, AfterMount
<1>2. CASE MountP1Busy(s)
  BY <1>2 DEF MountP1Busy, AfterMount, Answer
<1>3. CASE StatusRead(s) \/ TrybootRead(s) \/ CommitDone(s) \/ InstallDone(s)
  BY <1>3 DEF StatusRead, TrybootRead, CommitDone, InstallDone, Answer
<1>4. CASE InstallRead(s) \/ CommitRead(s)
  BY <1>4 DEF InstallRead, CommitRead, Answer
<1>5. CASE StagedRootMismatch(s) \/ MountBootBusy(s) \/ ReadbackRoot(s)
  BY <1>5 DEF StagedRootMismatch, MountBootBusy, ReadbackRoot, Answer
<1>6. CASE DdStart(s) \/ DdEnd(s)
  BY <1>6 DEF DdStart, DdEnd, Step
<1>7. CASE MountBoot(s)
  BY <1>7 DEF MountBoot, Step
<1>8. CASE CommitRename(s)
  BY <1>8 DEF CommitRename, Step
<1>9. ASSUME NEW fn \in {"img", "sig"}, BootFileOpen(s, fn) PROVE Goal
  BY <1>9 DEF BootFileOpen, FileStep, Step
<1>10. ASSUME NEW fn \in {"img", "sig"}, BootFileWrite(s, fn) PROVE Goal
  BY <1>10 DEF BootFileWrite, FileStep, Answer
<1>11. QED
  BY <1>1, <1>2, <1>3, <1>4, <1>5, <1>6, <1>7, <1>8, <1>9, <1>10 DEF Work

\* A request starts one handler, and touches nothing that outlives a reset.
LEMMA RequestEffect ==
  ASSUME TypeOK, NEW s \in Session, Request(s)
  PROVE  /\ \A t \in Session \ {s} : pc'[t] = pc[t] /\ reply'[t] = reply[t] /\ man'[t] = man[t]
         /\ UNCHANGED <<disk, fw>>
         /\ pc[s] = "idle"
<1> USE DEF TypeOK, Serving, Accept, Answer
<1>1. CASE Status(s) \/ Reboot(s)
  BY <1>1 DEF Status, Reboot, job
<1>2. CASE Tryboot(s)
  <2>1. UNCHANGED <<disk, fw>> /\ pc[s] = "idle"
    BY <1>2 DEF Tryboot
  <2>2. CASE trial
    BY <1>2, <2>1, <2>2 DEF Tryboot
  <2>3. CASE ~trial
    BY <1>2, <2>1, <2>3 DEF Tryboot, job
  <2>4. QED
    BY <2>2, <2>3
<1>3. CASE Commit(s)
  <2>1. UNCHANGED <<disk, fw>> /\ pc[s] = "idle"
    BY <1>3 DEF Commit
  <2>2. CASE trial
    BY <1>3, <2>1, <2>2 DEF Commit, job
  <2>3. CASE ~trial
    BY <1>3, <2>1, <2>3 DEF Commit
  <2>4. QED
    BY <2>2, <2>3
<1>4. ASSUME NEW m \in Manifest, Install(s, m) \/ InstallRefused(s, m)
      PROVE  /\ \A t \in Session \ {s} : pc'[t] = pc[t] /\ reply'[t] = reply[t] /\ man'[t] = man[t]
             /\ UNCHANGED <<disk, fw>> /\ pc[s] = "idle"
  <2>1. CASE Install(s, m)
    BY <2>1 DEF Install
  <2>2. CASE InstallRefused(s, m)
    BY <2>2 DEF InstallRefused
  <2>3. QED
    BY <1>4, <2>1, <2>2
<1>5. QED
  BY <1>1, <1>2, <1>3, <1>4 DEF Request

-----------------------------------------------------------------------------
(* What the cycle commits was proven.                                      *)

\* What the pair kept for trials holds, seen by update(): its own release; one that was
\* proven, or nothing that boots.
OnTarget(u) == boot[autoboot.tryboot].img = rel[u].img
ProvenOrTorn == boot[autoboot.tryboot].img \in proven \cup {Torn}

InstallsFor(s) == pc[s] \in InstallHolding =>
  s \in Server /\ spc[s] \in {"install", "stopped"} /\ man[s] = rel[s]
CommitsFor(s) == pc[s] \in CommitPending =>
  s \in Server /\ spc[s] \in {"commit", "stopped"} /\ ProvenOrTorn
AwaitsInstall(u) == spc[u] = "install" =>
  /\ pc[u] \in InstallHolding \cup {"idle"}
  /\ pc[u] = "idle" /\ reply[u] = "ok" => OnTarget(u)
KeepsTarget(u) ==
  /\ spc[u] \in Installed => OnTarget(u)
  /\ spc[u] = "to_commit" => ProvenOrTorn
MeasuredRuns == stage = "linux" => measured = boot[running].img

CycleInv ==
  /\ \A s \in Session : InstallsFor(s) /\ CommitsFor(s)
  /\ \A u \in Server : AwaitsInstall(u) /\ KeepsTarget(u)
  /\ CommittedWasProven
  /\ MeasuredRuns

\* A step that leaves the card alone, forgets no proven release and moves one session's
\* handler or update() is judged by that session alone.
LEMMA OneSessionMoves ==
  ASSUME UTypeOK, CycleInv, NEW s \in Session,
         UNCHANGED <<boot, autoboot, stage, running, measured>>,
         proven \subseteq proven',
         \A t \in Session \ {s} :
           pc'[t] = pc[t] /\ reply'[t] = reply[t] /\ man'[t] = man[t]
             /\ (t \in Server => spc'[t] = spc[t] /\ rel'[t] = rel[t]),
         InstallsFor(s)', CommitsFor(s)',
         s \in Server => AwaitsInstall(s)' /\ KeepsTarget(s)'
  PROVE  CycleInv'
<1>1. \A t \in Session \ {s} : InstallsFor(t)' /\ CommitsFor(t)'
  BY DEF CycleInv, InstallsFor, CommitsFor, ProvenOrTorn
<1>2. \A u \in Server \ {s} : AwaitsInstall(u)' /\ KeepsTarget(u)'
  BY DEF CycleInv, AwaitsInstall, KeepsTarget, OnTarget, ProvenOrTorn
<1>3. CommittedWasProven' /\ MeasuredRuns'
  BY DEF CycleInv, CommittedWasProven, MeasuredRuns
<1>4. QED
  BY <1>1, <1>2, <1>3 DEF CycleInv

\* A step of update() itself.
LEMMA CycleKeeps ==
  ASSUME TypeOK, UTypeOK, CycleInv, NEW u \in Server, Cycle(u), \A v \in Server : v = u,
         \A m \in Manifest : m.img \in Image => Golden[m] = m.img
  PROVE  CycleInv'
<1> USE DEF UTypeOK, Goto
<1> DEFINE Own == /\ InstallsFor(u)' /\ CommitsFor(u)' /\ AwaitsInstall(u)' /\ KeepsTarget(u)'
<1>1. /\ InstallsFor(u) /\ CommitsFor(u) /\ AwaitsInstall(u) /\ KeepsTarget(u)
      /\ u \in Session
  BY DEF CycleInv
<1>2. ASSUME UNCHANGED <<boot, autoboot, stage, running, measured>>,
             proven \subseteq proven',
             \A t \in Session \ {u} : pc'[t] = pc[t] /\ reply'[t] = reply[t] /\ man'[t] = man[t],
             Own
      PROVE  CycleInv'
  BY <1>2, <1>1, OneSessionMoves
<1> HIDE DEF Own
<1>3. ASSUME UNCHANGED <<vars, measured, rel, proven>>, Own PROVE CycleInv'
  BY <1>2, <1>3 DEF vars
<1> USE DEF Own, InstallsFor, CommitsFor, AwaitsInstall, KeepsTarget, OnTarget, ProvenOrTorn,
            Installed
<1>4. CASE Hear(u)
  <2>1. pc[u] = "idle" /\ reply[u] = "ok" /\ spc[u] \in {"status", "install", "tryboot", "commit"}
    BY <1>4 DEF Hear, Replied, AfterReply
  <2>2. spc'[u] = AfterReply[spc[u]] /\ UNCHANGED <<vars, measured, rel, proven>>
    BY <1>4 DEF Hear
  <2>3. Own
    BY <1>1, <2>1, <2>2 DEF AfterReply, vars, InstallHolding, InstallWriting, CommitPending
  <2>4. QED
    BY <1>3, <2>2, <2>3
<1>5. CASE Unsent(u) \/ WaitUp(u) \/ WaitUpCommitted(u) \/ GiveUp(u)
  <2>1. UNCHANGED <<vars, measured, rel, proven>>
    BY <1>5 DEF Unsent, WaitUp, WaitUpCommitted, GiveUp
  <2>2. \/ spc[u] = "wait" /\ spc'[u] = "ask"
        \/ spc[u] = "wait2" /\ spc'[u] = "ask2"
        \/ spc[u] = "to_reboot" /\ spc'[u] = "wait2"
        \/ spc'[u] = "stopped"
    BY <1>5 DEF Unsent, WaitUp, WaitUpCommitted, GiveUp
  <2>3. Own
    BY <1>1, <2>1, <2>2 DEF vars
  <2>4. QED
    BY <1>3, <2>1, <2>3
<1>6. ASSUME NEW a \in {"ask", "ask2"}, AttestAsk(u, a) \/ AttestQuote(u, a) PROVE CycleInv'
  <2>1. UNCHANGED <<vars, measured, rel, proven>>
    BY <1>6 DEF AttestAsk, AttestQuote
  <2>2. \/ spc[u] = "ask" /\ spc'[u] = "quote"
        \/ spc[u] = "quote" /\ spc'[u] = "verdict"
        \/ spc[u] = "ask2" /\ spc'[u] = "quote2"
        \/ spc[u] = "quote2" /\ spc'[u] = "verdict2"
    BY <1>6 DEF AttestAsk, AttestQuote, Asking, Quoting, Rounds
  <2>3. Own
    BY <1>1, <2>1, <2>2 DEF vars
  <2>4. QED
    BY <1>3, <2>1, <2>3
<1>7. CASE Finish(u)
  <2>1. UNCHANGED <<vars, measured, rel, proven>> /\ spc[u] = "verdict2"
        /\ spc'[u] \in {"done", "stopped"}
    BY <1>7 DEF Finish
  <2>2. Own
    BY <1>1, <2>1 DEF vars
  <2>3. QED
    BY <1>3, <2>1, <2>2
<1>8. CASE HealthCheck(u)
  <2>1. /\ UNCHANGED <<vars, measured, rel>> /\ spc[u] = "verdict"
        /\ spc'[u] = IF Passes(u) THEN "to_commit" ELSE "stopped"
        /\ proven \subseteq proven'
    BY <1>8 DEF HealthCheck
  <2>2. rel[u] \in Manifest /\ OnTarget(u)
    BY <1>1, <2>1
  <2>3. ASSUME Passes(u) PROVE ProvenOrTorn'
    <3>1. Golden[rel[u]] \in proven'
      BY <1>8, <2>2, <2>3 DEF HealthCheck, Passes, Matches, Restarted
    <3>2. rel[u].img \in Image \cup {Torn}
      BY <2>2
    <3>3. CASE rel[u].img \in Image
      BY <2>1, <2>2, <3>1, <3>3 DEF vars
    <3>4. CASE rel[u].img = Torn
      BY <2>1, <2>2, <3>4 DEF vars
    <3>5. QED
      BY <3>2, <3>3, <3>4
  <2>4. Own
    BY <1>1, <2>1, <2>2, <2>3 DEF vars
  <2>5. QED
    BY <1>2, <2>1, <2>4 DEF vars
<1>9. CASE SendInstall(u) \/ SendTryboot(u) \/ SendCommit(u) \/ SendReboot(u)
  <2>1. UNCHANGED <<rel, measured, proven>>
    BY <1>9 DEF SendInstall, SendTryboot, SendCommit, SendReboot, Send
  <2>2. rel[u] \in Manifest
    BY <1>9 DEF SendInstall, SendTryboot, SendCommit, SendReboot, Send
  <2>3. Request(u)
    BY <1>9, <2>2 DEF SendInstall, SendTryboot, SendCommit, SendReboot, Request
  <2>4. /\ UNCHANGED <<boot, autoboot, stage, running, measured, proven>>
        /\ \A t \in Session \ {u} : pc'[t] = pc[t] /\ reply'[t] = reply[t] /\ man'[t] = man[t]
    BY <1>1, <2>1, <2>3, RequestEffect DEF disk, fw
  <2>5. CASE SendInstall(u)
    <3>1. \/ pc'[u] = "in_mount" /\ man'[u] = rel[u]
          \/ pc'[u] = "idle" /\ reply'[u] = "refused"
      BY <1>1, <2>5 DEF SendInstall, Install, InstallRefused, Accept, Answer, TypeOK
    <3>2. spc'[u] = "install"
      BY <2>5 DEF SendInstall, Send
    <3>3. Own
      BY <1>1, <2>1, <2>4, <3>1, <3>2 DEF InstallHolding, InstallWriting, CommitPending
    <3>4. QED
      BY <1>2, <2>4, <3>3
  <2>6. CASE SendTryboot(u)
    <3>1. pc'[u] \in {"tb_mount", "idle"}
      BY <1>1, <2>6 DEF SendTryboot, Tryboot, Accept, Answer, TypeOK
    <3>2. spc[u] = "to_tryboot" /\ spc'[u] = "tryboot"
      BY <2>6 DEF SendTryboot, Send
    <3>3. Own
      BY <1>1, <2>1, <2>4, <3>1, <3>2 DEF InstallHolding, InstallWriting, CommitPending
    <3>4. QED
      BY <1>2, <2>4, <3>3
  <2>7. CASE SendCommit(u)
    <3>1. pc'[u] \in {"co_mount", "idle"}
      BY <1>1, <2>7 DEF SendCommit, Commit, Accept, Answer, TypeOK
    <3>2. spc[u] = "to_commit" /\ spc'[u] = "commit"
      BY <2>7 DEF SendCommit, Send
    <3>3. Own
      BY <1>1, <2>1, <2>4, <3>1, <3>2 DEF InstallHolding, InstallWriting, CommitPending
    <3>4. QED
      BY <1>2, <2>4, <3>3
  <2>8. CASE SendReboot(u)
    <3>1. pc'[u] = "idle"
      BY <1>1, <2>8 DEF SendReboot, Reboot, Answer, TypeOK
    <3>2. spc'[u] = "wait2"
      BY <2>8 DEF SendReboot, Send
    <3>3. Own
      BY <1>1, <2>1, <2>4, <3>1, <3>2 DEF InstallHolding, InstallWriting, CommitPending
    <3>4. QED
      BY <1>2, <2>4, <3>3
  <2>9. QED
    BY <1>9, <2>5, <2>6, <2>7, <2>8
<1>10. QED
  BY <1>4, <1>5, <1>6, <1>7, <1>8, <1>9 DEF Cycle

\* A step of a handler on the board.
LEMMA BoardKeeps ==
  ASSUME IInv, UTypeOK, AllCopied, CycleInv, NEW s \in Session, BoardWork(s),
         \A u, v \in Server : u = v
  PROVE  CycleInv'
<1> USE DEF UTypeOK
<1>0. TypeOK /\ TypeOK' /\ [Next]_vars
  BY TypeStep DEF IInv, BoardWork, Next
<1>1. UNCHANGED <<spc, rel, measured, proven>> /\ Work(s)
  BY DEF BoardWork
<1>2. /\ InstallsFor(s) /\ CommitsFor(s)
      /\ s \in Server => AwaitsInstall(s) /\ KeepsTarget(s)
  BY DEF CycleInv
<1>3. CASE pc[s] \in InstallHolding
  <2>1. s \in Server /\ spc[s] \in {"install", "stopped"} /\ man[s] = rel[s]
    BY <1>2, <1>3 DEF InstallsFor
  <2>2. /\ pc'[s] \in InstallHolding \cup {"idle"} /\ autoboot' = autoboot
        /\ pc'[s] \in InstallHolding => man'[s] = man[s]
        /\ pc'[s] = "idle" /\ reply'[s] = "ok" => pc[s] = "in_done" /\ boot' = boot
        /\ UNCHANGED <<stage, running>>
        /\ \A t \in Session \ {s} : pc'[t] = pc[t] /\ man'[t] = man[t]
    BY <1>0, <1>1, <1>3, WorkEffect
  <2>3. \A t \in Session : InstallsFor(t)' /\ CommitsFor(t)'
    <3>1. InstallsFor(s)' /\ CommitsFor(s)'
      BY <1>1, <2>1, <2>2 DEF InstallsFor, CommitsFor, CommitPending, InstallHolding, InstallWriting
    <3>2. ASSUME NEW t \in Session \ {s} PROVE InstallsFor(t)' /\ CommitsFor(t)'
      <4>1. t \notin Server
        BY <2>1, <3>2
      <4>2. pc[t] \notin InstallHolding /\ pc[t] \notin CommitPending
        BY <4>1 DEF CycleInv, InstallsFor, CommitsFor
      <4>3. QED
        BY <2>2, <4>2 DEF InstallsFor, CommitsFor
    <3>3. QED
      BY <3>1, <3>2
  <2>4. ASSUME pc'[s] = "idle", reply'[s] = "ok" PROVE OnTarget(s)'
    <3>1. pc[s] = "in_done" /\ boot' = boot
      BY <2>2, <2>4
    <3>2. boot[target[s]].img = man[s].img
      BY <3>1 DEF AllCopied, Copied
    <3>3. target[s] = autoboot.tryboot
      BY <3>1 DEF IInv, WritersAim, InstallWriting
    <3>4. QED
      BY <1>1, <2>1, <2>2, <3>1, <3>2, <3>3 DEF OnTarget
  <2>5. \A u \in Server : AwaitsInstall(u)' /\ KeepsTarget(u)'
    BY <1>1, <2>1, <2>2, <2>4 DEF AwaitsInstall, KeepsTarget, Installed
  <2>6. /\ boot'[autoboot.all] = boot[autoboot.all]
        /\ stage = "linux" => boot'[running] = boot[running]
    BY <1>0, RunningStep
  <2>7. CommittedWasProven' /\ MeasuredRuns'
    BY <1>1, <2>2, <2>6 DEF CycleInv, CommittedWasProven, MeasuredRuns
  <2>8. QED
    BY <2>3, <2>5, <2>7 DEF CycleInv
<1>4. CASE pc[s] \notin InstallHolding /\ autoboot' = autoboot
  <2>1. /\ \A t \in Session \ {s} : pc'[t] = pc[t] /\ reply'[t] = reply[t] /\ man'[t] = man[t]
        /\ UNCHANGED <<boot, autoboot, stage, running, measured, proven>>
        /\ pc'[s] \notin InstallHolding
        /\ pc'[s] \in CommitPending => pc[s] \in CommitPending
    BY <1>0, <1>1, <1>4, WorkEffect
  <2>2. InstallsFor(s)' /\ CommitsFor(s)'
    BY <1>1, <1>2, <2>1 DEF InstallsFor, CommitsFor, ProvenOrTorn
  <2>3. ASSUME s \in Server PROVE AwaitsInstall(s)' /\ KeepsTarget(s)'
    <3>1. spc[s] # "install"
      <4>1. pc[s] # "idle"
        BY <1>0, <1>1, WorkEffect
      <4>2. QED
        BY <1>2, <1>4, <2>3, <4>1 DEF AwaitsInstall
    <3>2. QED
      BY <1>1, <1>2, <2>1, <2>3, <3>1 DEF AwaitsInstall, KeepsTarget, OnTarget, ProvenOrTorn
  <2>4. QED
    BY <1>1, <2>1, <2>2, <2>3, OneSessionMoves
<1>5. CASE autoboot' # autoboot
  <2>1. /\ pc[s] = "co_rename" /\ pc'[s] = "co_done"
        /\ \A t \in Session \ {s} : pc'[t] = pc[t] /\ reply'[t] = reply[t] /\ man'[t] = man[t]
        /\ UNCHANGED <<boot, stage, running>>
    BY <1>0, <1>1, <1>5, WorkEffect DEF InstallHolding, InstallWriting
  <2>2. s \in Server /\ spc[s] \in {"commit", "stopped"} /\ ProvenOrTorn
    BY <1>2, <2>1 DEF CommitsFor, CommitPending
  <2>3. \A t \in Session : InstallsFor(t)' /\ CommitsFor(t)'
    <3>1. InstallsFor(s)' /\ CommitsFor(s)'
      BY <2>1 DEF InstallsFor, CommitsFor, CommitPending, InstallHolding, InstallWriting
    <3>2. ASSUME NEW t \in Session \ {s} PROVE InstallsFor(t)' /\ CommitsFor(t)'
      <4>1. pc[t] \notin InstallHolding /\ pc[t] \notin CommitPending
        BY <2>2, <3>2 DEF CycleInv, InstallsFor, CommitsFor
      <4>2. QED
        BY <2>1, <4>1 DEF InstallsFor, CommitsFor
    <3>3. QED
      BY <3>1, <3>2
  <2>4. \A u \in Server : AwaitsInstall(u)' /\ KeepsTarget(u)'
    BY <1>1, <2>1, <2>2 DEF AwaitsInstall, KeepsTarget, Installed
  <2>5. /\ autoboot'.all = running /\ autoboot.tryboot = running /\ Bootable(running)
    <3>1. PICK t \in Session : CommitRename(t)
      BY <1>0, <1>5, OnlyWriters
    <3>2. pc[t] = "co_rename" /\ autoboot' = AUTOBOOT(target[t])
      BY <3>1 DEF CommitRename, Step
    <3>3. stage = "linux" /\ trial /\ target[t] = running
      BY <3>2 DEF IInv, WritersAim, CommitWriting
    <3>4. Bootable(running) /\ autoboot'.all = running
      BY <3>2, <3>3 DEF IInv, RunningWhole, AUTOBOOT
    <3>5. autoboot.tryboot = running
      BY <1>0, <1>5, <3>2, <3>3 DEF IInv, TypeOK, FileValid, ValidAB, AUTOBOOT, OtherPair
    <3>6. QED
      BY <3>4, <3>5
  <2>6. boot'[autoboot'.all].img \in proven
    BY <2>1, <2>2, <2>5 DEF ProvenOrTorn, Bootable, Signed
  <2>7. CommittedWasProven' /\ MeasuredRuns'
    BY <1>1, <2>1, <2>6 DEF CycleInv, CommittedWasProven, MeasuredRuns
  <2>8. QED
    BY <2>3, <2>4, <2>7 DEF CycleInv
<1>6. QED
  BY <1>0, <1>1, <1>3, <1>4, <1>5

\* Every step of the cycle keeps the invariant.
LEMMA CycleInvStep ==
  ASSUME IInv, UTypeOK, AllCopied, CycleInv, [UNext]_uvars,
         \A u, v \in Server : u = v,
         \A m \in Manifest : m.img \in Image => Golden[m] = m.img
  PROVE  CycleInv'
<1> USE DEF UTypeOK, Goto
<1>0. TypeOK
  BY DEF IInv
<1>1. ASSUME NEW u \in Server, Cycle(u) PROVE CycleInv'
  BY <1>0, <1>1, CycleKeeps
<1>2. ASSUME NEW u \in Server, NEW m \in Manifest, Begin(u, m) PROVE CycleInv'
  <2>1. Status(u) /\ Request(u) /\ UNCHANGED <<measured, proven>>
    BY <1>2 DEF Begin, Request
  <2>2. /\ UNCHANGED <<boot, autoboot, stage, running>>
        /\ \A t \in Session \ {u} : pc'[t] = pc[t] /\ reply'[t] = reply[t] /\ man'[t] = man[t]
    BY <1>0, <2>1, RequestEffect DEF disk, fw
  <2>3. pc'[u] = "st_mount" /\ spc'[u] = "status"
    BY <1>0, <1>2 DEF Begin, Status, Accept, TypeOK
  <2>4. \A t \in Session \ {u} : t \in Server => spc'[t] = spc[t] /\ rel'[t] = rel[t]
    BY <1>2 DEF Begin
  <2>5. InstallsFor(u)' /\ CommitsFor(u)' /\ AwaitsInstall(u)' /\ KeepsTarget(u)'
    BY <2>3 DEF InstallsFor, CommitsFor, AwaitsInstall, KeepsTarget, InstallHolding,
                InstallWriting, CommitPending, Installed
  <2>6. QED
    BY <2>1, <2>2, <2>4, <2>5, OneSessionMoves
<1>3. ASSUME NEW s \in Session, BoardWork(s) PROVE CycleInv'
  BY <1>3, BoardKeeps
<1>4. ASSUME NEW s \in Session, Operator(s) PROVE CycleInv'
  <2>1. Request(s) /\ s \notin Server /\ UNCHANGED <<spc, rel, measured, proven>>
    BY <1>4 DEF Operator, Request, server
  <2>2. /\ UNCHANGED <<boot, autoboot, stage, running>>
        /\ \A t \in Session \ {s} : pc'[t] = pc[t] /\ reply'[t] = reply[t] /\ man'[t] = man[t]
    BY <1>0, <2>1, RequestEffect DEF disk, fw
  <2>3. pc'[s] \in {"st_mount", "tb_mount", "idle"}
    BY <1>0, <1>4 DEF Operator, Status, Tryboot, Reboot, Accept, Answer, TypeOK
  <2>4. InstallsFor(s)' /\ CommitsFor(s)'
    BY <2>3 DEF InstallsFor, CommitsFor, InstallHolding, InstallWriting, CommitPending
  <2>5. QED
    BY <2>1, <2>2, <2>4, OneSessionMoves
<1>5. CASE BoardReset
  <2>1. Down /\ UNCHANGED <<spc, rel, proven, measured>>
    BY <1>5 DEF BoardReset, RebootFires, PowerLoss, server
  <2>2. \A s \in Session : pc'[s] = "idle" /\ reply'[s] = "none"
    BY <2>1 DEF Down
  <2>3. boot' = boot /\ autoboot' = autoboot /\ stage' = "reset"
    BY <2>1 DEF Down, disk
  <2>4. \A s \in Session : InstallsFor(s)' /\ CommitsFor(s)'
    BY <2>2 DEF InstallsFor, CommitsFor, InstallHolding, InstallWriting, CommitPending
  <2>5. \A u \in Server : AwaitsInstall(u)' /\ KeepsTarget(u)'
    BY <2>1, <2>2, <2>3 DEF CycleInv, AwaitsInstall, KeepsTarget, OnTarget, ProvenOrTorn
  <2>6. CommittedWasProven' /\ MeasuredRuns'
    BY <2>1, <2>3 DEF CycleInv, CommittedWasProven, MeasuredRuns
  <2>7. QED
    BY <2>4, <2>5, <2>6 DEF CycleInv
<1>6. ASSUME UNCHANGED <<boot, autoboot, pc, reply, man, spc, rel, proven>>, MeasuredRuns'
      PROVE  CycleInv'
  <2>1. \A s \in Session : InstallsFor(s)' /\ CommitsFor(s)'
    BY <1>6 DEF CycleInv, InstallsFor, CommitsFor, ProvenOrTorn
  <2>2. \A u \in Server : AwaitsInstall(u)' /\ KeepsTarget(u)'
    BY <1>6 DEF CycleInv, AwaitsInstall, KeepsTarget, OnTarget, ProvenOrTorn
  <2>3. CommittedWasProven'
    BY <1>6 DEF CycleInv, CommittedWasProven
  <2>4. QED
    BY <1>6, <2>1, <2>2, <2>3 DEF CycleInv
<1>7. CASE BootChain
  <2>1. UNCHANGED <<boot, autoboot, pc, reply, man, spc, rel, proven>>
    BY <1>7 DEF BootChain, FirmwareBoot, UBootRefuse, UBootIncrement, UBootHandoff, disk, job,
                server
  <2>2. stage' = "linux" => measured' = boot'[running'].img
    BY <1>7, <2>1 DEF BootChain, FirmwareBoot, UBootRefuse, UBootIncrement, UBootHandoff
  <2>3. QED
    BY <1>6, <2>1, <2>2 DEF MeasuredRuns
<1>8. CASE RoutineRound \/ UNCHANGED uvars
  <2>1. UNCHANGED <<boot, autoboot, pc, reply, man, spc, rel, proven, stage, running, measured>>
    BY <1>8 DEF RoutineRound, uvars, vars, server
  <2>2. QED
    BY <1>6, <2>1 DEF CycleInv, MeasuredRuns
<1>9. QED
  BY <1>1, <1>2, <1>3, <1>4, <1>5, <1>7, <1>8 DEF UNext, UStep

\* One update at a time, and every bundle's goldens are those of its own image.
OneUpdate == \A s, t \in Installer : s = t
OwnGoldens == \A m \in Manifest : m.img \in Image => Golden[m] = m.img

\* With one update at a time, and goldens in every bundle that are those of its own image,
\* the invariant holds throughout.
LEMMA CycleInvariant ==
  ASSUME OneUpdate, OwnGoldens
  PROVE  USpec => []CycleInv
<1>1. UInit => AllCopied /\ CycleInv
  <2> SUFFICES ASSUME UInit PROVE AllCopied /\ CycleInv
    OBVIOUS
  <2>1. AllCopied
    BY DEF UInit, Init, AllCopied, Copied, InstallHolding, InstallWriting, Verified
  <2>2. \A s \in Session : InstallsFor(s) /\ CommitsFor(s)
    BY DEF UInit, Init, InstallsFor, CommitsFor, InstallHolding, InstallWriting, CommitPending
  <2>3. \A u \in Server : AwaitsInstall(u) /\ KeepsTarget(u)
    BY DEF UInit, AwaitsInstall, KeepsTarget, Installed
  <2>4. CommittedWasProven /\ MeasuredRuns
    BY DEF UInit, Init, AUTOBOOT, CommittedWasProven, MeasuredRuns
  <2>5. QED
    BY <2>1, <2>2, <2>3, <2>4 DEF CycleInv
<1>2. IInv /\ UTypeOK /\ AllCopied /\ CycleInv /\ [UNext]_uvars => AllCopied' /\ CycleInv'
  <2> SUFFICES ASSUME IInv, UTypeOK, AllCopied, CycleInv, [UNext]_uvars
               PROVE  AllCopied' /\ CycleInv'
    OBVIOUS
  <2>1. [Next]_vars /\ TypeOK
    BY CycleIsBoardStep DEF IInv
  <2>2. AllCopied'
    BY <2>1, CopiedStep DEF OneUpdate
  <2>3. CycleInv'
    BY CycleInvStep DEF OneUpdate, OwnGoldens
  <2>4. QED
    BY <2>2, <2>3
<1>3. QED
  BY <1>1, <1>2, CycleTyped, PTL DEF USpec

\* Under the same conditions nothing is committed that did not pass a round against its
\* goldens: whatever is lost, repeated, cut off or rebooted by operators in between.
THEOREM CommittedIsProven ==
  ASSUME OneUpdate, OwnGoldens
  PROVE  USpec => []CommittedWasProven
<1>1. CycleInv => CommittedWasProven
  BY DEF CycleInv
<1>2. QED
  BY <1>1, CycleInvariant, PTL

\* And no plain boot reaches Linux on a release that did not.
THEOREM PlainBootsAreProven ==
  ASSUME OneUpdate, OwnGoldens
  PROVE  USpec => []NoUnprovenPlainBoot
<1>1. IInv /\ CycleInv => NoUnprovenPlainBoot
  BY DEF IInv, RunningWhole, CycleInv, CommittedWasProven, MeasuredRuns, NoUnprovenPlainBoot
<1>2. QED
  BY <1>1, CycleTyped, CycleInvariant, PTL

-----------------------------------------------------------------------------
(* The theorems about the board hold of the board under the cycle.         *)

\* Every behaviour of the cycle is a behaviour of the board, so that whatever is proved of
\* OtaBoard holds while the server drives it.
THEOREM CycleIsBoard == USpec => Spec
<1>1. UInit => Init
  BY DEF UInit
<1>2. QED
  BY <1>1, CycleIsBoardStep, CycleTyped, PTL DEF USpec, Spec

\* Driven by the server, the board is still one committed release and one floor.
THEOREM CycleImplementsTheRelease == USpec => ImplementsCommittedRelease
BY CycleIsBoard, ImplementsTheRelease, PTL

-----------------------------------------------------------------------------
(* DONE. Its second round is to see a restart after the commit, and does if *)
(* what the health check saved is still on record; unless an operator asks  *)
(* for a trial that restart is a plain boot, because no reboot to a trial   *)
(* is pending once the cycle has seen its own.                              *)

\* The steps of update() from the moment it has seen its trial, and those after the reply
\* to commit.
Lasting == {"to_reboot", "wait2", "ask2", "quote2", "verdict2"}
OnItsTrial == {"ask", "quote", "verdict", "to_commit", "commit"}

TrybootAsked == \E s \in Session : <<"tryboot", s>> \in pending
OneShot ==
  /\ bit => stage = "reset"
  /\ TrybootAsked => stage = "linux" /\ ~trial

\* No handler runs but for the request update() waits for, or has given up.
Quiet(u) ==
  spc[u] \notin {"status", "install", "tryboot", "commit", "stopped"} => pc[u] = "idle"
PlainAhead(u) == spc[u] \in OnItsTrial \cup Lasting => ~bit /\ ~TrybootAsked

\* On the trial it has seen, what the verifier has read is of this boot, and what it keeps
\* on record is not of an earlier one.
SameBoot(u) ==
  /\ spc[u] \in {"quote", "quote2"} => ~att[u].later
  /\ spc[u] = "verdict" /\ trial => ~att[u].later
  /\ spc[u] \in Committing /\ trial /\ kept[u] => base # "past"
  /\ spc[u] = "quote2" /\ trial /\ kept[u] => att[u].prev # "past"

\* Evidence of a later boot is of the committed release, which sets the floor.
SawCommitted(u) ==
  spc[u] = "verdict2" /\ att[u].prev = "past" /\ kept[u] =>
    att[u].img = boot[autoboot.all].img /\ counter >= Version[att[u].img]

\* Nobody but update() installs or commits.
OthersRead == \A s \in Session \ Server : pc[s] \notin InstallHolding \cup CommitPending

DoneInv ==
  /\ OneShot
  /\ OthersRead
  /\ \A u \in Server : Quiet(u) /\ PlainAhead(u) /\ SameBoot(u) /\ SawCommitted(u)

\* What the PCRs say is what runs.
LEMMA MeasuredStep == IInv /\ UTypeOK /\ MeasuredRuns /\ [UNext]_uvars => MeasuredRuns'
<1> SUFFICES ASSUME IInv, UTypeOK, MeasuredRuns, [UNext]_uvars PROVE MeasuredRuns'
  OBVIOUS
<1>0. TypeOK /\ [Next]_vars
  BY CycleIsBoardStep DEF IInv
<1>1. ASSUME UNCHANGED <<stage, running, measured>> PROVE MeasuredRuns'
  BY <1>0, <1>1, RunningStep DEF MeasuredRuns
<1>2. CASE BootChain
  <2>1. UNCHANGED boot
    BY <1>2 DEF BootChain, FirmwareBoot, UBootRefuse, UBootIncrement, UBootHandoff, disk
  <2>2. stage' = "linux" => measured' = boot'[running'].img
    BY <1>2, <2>1 DEF BootChain, FirmwareBoot, UBootRefuse, UBootIncrement, UBootHandoff
  <2>3. QED
    BY <2>2 DEF MeasuredRuns
<1>3. CASE BoardReset
  BY <1>3 DEF BoardReset, RebootFires, PowerLoss, Down, MeasuredRuns
<1>4. ASSUME NEW s \in Session, Request(s), UNCHANGED measured PROVE MeasuredRuns'
  BY <1>0, <1>1, <1>4, RequestEffect DEF fw
<1>5. ASSUME NEW s \in Session, Work(s), UNCHANGED measured PROVE MeasuredRuns'
  BY <1>0, <1>1, <1>5, WorkEffect
<1>6. ASSUME UNCHANGED <<vars, measured>> PROVE MeasuredRuns'
  BY <1>1, <1>6 DEF vars
<1>7. ASSUME NEW u \in Server, Cycle(u) PROVE MeasuredRuns'
  <2>1. CASE SendInstall(u) \/ SendTryboot(u) \/ SendCommit(u) \/ SendReboot(u)
    <3>1. rel[u] \in Manifest
      BY <2>1 DEF SendInstall, SendTryboot, SendCommit, SendReboot, Send, UTypeOK
    <3>2. Request(u) /\ UNCHANGED measured
      BY <2>1, <3>1 DEF SendInstall, SendTryboot, SendCommit, SendReboot, Send, Request
    <3>3. QED
      BY <1>4, <3>2
  <2>2. CASE \/ Hear(u) \/ Unsent(u) \/ WaitUp(u) \/ WaitUpCommitted(u)
             \/ HealthCheck(u) \/ Finish(u) \/ GiveUp(u)
             \/ \E a \in {"ask", "ask2"} : AttestAsk(u, a) \/ AttestQuote(u, a)
    BY <1>6, <2>2 DEF Hear, Unsent, WaitUp, WaitUpCommitted, HealthCheck, Finish, GiveUp,
                      AttestAsk, AttestQuote
  <2>3. QED
    BY <1>7, <2>1, <2>2 DEF Cycle
<1>8. ASSUME NEW u \in Server, NEW m \in Manifest, Begin(u, m) PROVE MeasuredRuns'
  BY <1>4, <1>8 DEF Begin, Request
<1>9. ASSUME NEW s \in Session, BoardWork(s) \/ Operator(s) PROVE MeasuredRuns'
  BY <1>4, <1>5, <1>9 DEF BoardWork, Operator, Request
<1>10. CASE RoutineRound \/ UNCHANGED uvars
  BY <1>6, <1>10 DEF RoutineRound, uvars
<1>11. QED
  BY <1>2, <1>3, <1>7, <1>8, <1>9, <1>10 DEF UNext, UStep

\* A handler at work neither asks for a reboot nor touches the one-shot bit.
LEMMA WorkAsksNothing == ASSUME NEW s \in Session, Work(s) PROVE UNCHANGED <<bit, pending>>
BY DEF Work, fw, MountP1, MountP1Busy, StatusRead, InstallRead, StagedRootMismatch, DdStart,
       DdEnd, ReadbackRoot, MountBoot, MountBootBusy, BootFileOpen, BootFileWrite,
       InstallDone, TrybootRead, CommitRead, CommitRename, CommitDone

\* A reboot to a trial is asked for only under Linux and outside a trial, and the bit it
\* leaves is taken by the next boot.
LEMMA OneShotStep == OneShot /\ [Next]_vars => OneShot'
<1> SUFFICES ASSUME OneShot, [Next]_vars PROVE OneShot'
  OBVIOUS
<1> USE DEF OneShot, TrybootAsked
<1>1. ASSUME NEW s \in Session, Status(s) \/ Commit(s) \/ Reboot(s) PROVE OneShot'
  <2>1. UNCHANGED <<bit, stage, trial>>
    BY <1>1 DEF Status, Commit, Reboot, fw
  <2>2. pending' = pending \/ pending' = pending \cup {<<"plain", s>>}
    BY <1>1 DEF Status, Commit, Reboot
  <2>3. TrybootAsked' => TrybootAsked
    BY <2>2
  <2>4. QED
    BY <2>1, <2>3
<1>2. ASSUME NEW s \in Session, Tryboot(s) PROVE OneShot'
  <2>1. UNCHANGED fw /\ stage = "linux"
    BY <1>2 DEF Tryboot, Serving
  <2>2. CASE trial
    BY <1>2, <2>1, <2>2 DEF Tryboot, fw
  <2>3. CASE ~trial
    BY <2>1, <2>3 DEF fw
  <2>4. QED
    BY <2>2, <2>3
<1>3. ASSUME NEW s \in Session, NEW m \in Manifest, Install(s, m) \/ InstallRefused(s, m)
      PROVE  OneShot'
  <2>1. UNCHANGED <<bit, stage, trial, pending>>
    BY <1>3 DEF Install, InstallRefused, fw
  <2>2. QED
    BY <2>1
<1>4. ASSUME NEW s \in Session, Work(s), UNCHANGED <<stage, trial>> PROVE OneShot'
  BY <1>4, WorkAsksNothing
<1>5. ASSUME NEW s \in Session, Work(s) PROVE UNCHANGED <<stage, trial>>
  BY <1>5 DEF Work, fw, MountP1, MountP1Busy, StatusRead, InstallRead, StagedRootMismatch,
       DdStart, DdEnd, ReadbackRoot, MountBoot, MountBootBusy, BootFileOpen, BootFileWrite,
       InstallDone, TrybootRead, CommitRead, CommitRename, CommitDone
<1>6. CASE RebootFires \/ PowerLoss
  BY <1>6 DEF RebootFires, PowerLoss, Down
<1>7. CASE BootStep
  BY <1>7 DEF BootStep, FirmwareBoot, UBootRefuse, UBootIncrement, UBootHandoff
<1>8. CASE UNCHANGED vars
  BY <1>8 DEF vars
<1>9. QED
  BY <1>1, <1>2, <1>3, <1>4, <1>5, <1>6, <1>7, <1>8 DEF Next, Request

Assured(u) == Quiet(u) /\ PlainAhead(u) /\ SameBoot(u) /\ SawCommitted(u)

\* What the board does by itself.
LEMMA BoardAssures ==
  ASSUME IInv, UTypeOK, DoneInv, NEW u \in Server, \A v, w \in Server : v = w, [Next]_vars,
         (\E s \in Session : BoardWork(s)) \/ BoardReset \/ BootChain \/ RoutineRound
  PROVE  Assured(u)'
<1> USE DEF Assured, Quiet, PlainAhead, SameBoot, SawCommitted, Committing, record
<1>0. /\ TypeOK /\ UTypeOK /\ Assured(u) /\ OneShot /\ OthersRead /\ u \in Session
      /\ Quiet(u) /\ PlainAhead(u) /\ SameBoot(u) /\ SawCommitted(u)
  BY DEF IInv, DoneInv
<1>1. ASSUME NEW s \in Session, BoardWork(s) PROVE Assured(u)'
  <2>1. Work(s)
    BY <1>1 DEF BoardWork
  <2>2. /\ UNCHANGED <<spc, att, base, kept, bit, pending, trial, counter>> /\ pc[s] # "idle"
    BY <1>0, <1>1, <2>1, WorkEffect, WorkAsksNothing DEF BoardWork
  <2>3. CASE s = u
    <3>1. spc[u] \in {"status", "install", "tryboot", "commit", "stopped"}
      BY <1>0, <2>2, <2>3
    <3>2. QED
      BY <1>0, <2>2, <3>1 DEF TrybootAsked
  <2>4. CASE s # u
    <3>1. pc[s] \notin InstallHolding \cup CommitPending
      BY <2>4, <1>0 DEF OthersRead
    <3>2. UNCHANGED <<boot, autoboot>> /\ pc'[u] = pc[u]
      BY <1>0, <2>1, <2>4, <3>1, WorkEffect DEF CommitPending
    <3>3. QED
      BY <1>0, <2>2, <3>2 DEF TrybootAsked
  <2>5. QED
    BY <2>3, <2>4
<1>2. CASE BoardReset
  <2>1. /\ UNCHANGED <<spc, att, base, kept, trial, boot, autoboot, counter>>
        /\ pending' = {} /\ pc'[u] = "idle"
    BY <1>0, <1>2 DEF BoardReset, RebootFires, PowerLoss, Down, server, disk
  <2>2. ASSUME bit' PROVE TrybootAsked
    <3>1. PICK k \in pending : k[1] = "tryboot"
      BY <1>2, <2>2 DEF BoardReset, RebootFires, PowerLoss
    <3>2. k[2] \in Session /\ k = <<"tryboot", k[2]>>
      BY <1>0, <3>1 DEF TypeOK
    <3>3. QED
      BY <3>1, <3>2 DEF TrybootAsked
  <2>3. QED
    BY <1>0, <2>1, <2>2 DEF TrybootAsked
<1>3. CASE BootChain
  <2>1. /\ UNCHANGED <<spc, kept, boot, autoboot, pc, pending>>
        /\ counter' \in Nat /\ counter' >= counter /\ (bit' => bit)
        /\ \/ UNCHANGED <<att, base, trial>>
           \/ TpmRestart /\ trial' = bit
    BY <1>0, <1>3 DEF BootChain, FirmwareBoot, UBootRefuse, UBootIncrement, UBootHandoff, disk,
                      job, server, TypeOK
  <2>2. att'[u].img = att[u].img
    BY <1>0, <2>1 DEF TpmRestart, UTypeOK
  <2>3. spc[u] = "verdict2" => att'[u].prev = att[u].prev
    BY <1>0, <2>1 DEF TpmRestart, UTypeOK
  <2>4. SawCommitted(u)'
    <3> SUFFICES ASSUME spc[u] = "verdict2", att[u].prev = "past", kept[u]
                 PROVE  att[u].img = boot[autoboot.all].img /\ counter' >= Version[att[u].img]
      BY <2>1, <2>2, <2>3
    <3>1. att[u].img = boot[autoboot.all].img /\ counter >= Version[att[u].img]
      BY <1>0
    <3>2. att[u].img \in Image
      BY <1>0, <3>1 DEF IInv, CommittedBootable, Bootable, Signed
    <3>3. QED
      BY <1>0, <2>1, <3>1, <3>2 DEF TypeOK
  <2>5. spc[u] \in OnItsTrial \cup Lasting => UNCHANGED <<att, base, trial>> \/ ~trial'
    BY <1>0, <2>1
  <2>6. spc[u] \in {"quote", "quote2"} => att'[u].later = att[u].later
    BY <1>0, <2>1 DEF TpmRestart, UTypeOK
  <2>7. QED
    BY <1>0, <2>1, <2>4, <2>5, <2>6 DEF TrybootAsked, OnItsTrial, Lasting
<1>4. CASE RoutineRound
  <2>1. UNCHANGED <<vars, spc, att>>
    BY <1>4 DEF RoutineRound
  <2>2. PICK age \in {"now", "past"} : Save(age) /\ kept' = Surviving(age)
    BY <1>4 DEF RoutineRound
  <2>3. kept'[u] => kept[u] /\ (age = "now" \/ spc[u] \notin Committing)
    BY <2>2 DEF Surviving
  <2>4. age = "now" /\ base # "past" => base' # "past"
    BY <2>2 DEF Save
  <2>5. QED
    BY <1>0, <2>1, <2>3, <2>4 DEF vars, TrybootAsked
<1>5. QED
  BY <1>1, <1>2, <1>3, <1>4

\* A step of update() that does not touch the board.
LEMMA UpdateAssures ==
  ASSUME IInv, UTypeOK, DoneInv, FloorReached, MeasuredRuns, NEW u \in Server,
         Cycle(u)
  PROVE  Assured(u)'
<1> USE DEF Assured, Quiet, PlainAhead, SameBoot, SawCommitted, OnItsTrial, Lasting, Goto,
            Committing, record
<1>0. /\ TypeOK /\ UTypeOK /\ Assured(u) /\ OneShot /\ u \in Session
      /\ Quiet(u) /\ PlainAhead(u) /\ SameBoot(u) /\ SawCommitted(u)
      /\ spc \in [Server -> SPC] /\ DOMAIN att = Server /\ u \in DOMAIN spc
  BY DEF IInv, DoneInv, UTypeOK
<1>1. CASE Hear(u)
  <2>1. /\ pc[u] = "idle" /\ spc'[u] = AfterReply[spc[u]] /\ spc[u] \in DOMAIN AfterReply
        /\ UNCHANGED <<vars, att, record>>
    BY <1>0, <1>1 DEF Hear, Replied
  <2>2. \/ spc[u] = "commit" /\ spc'[u] = "to_reboot"
        \/ spc'[u] \in {"to_install", "to_tryboot", "wait"}
    BY <2>1 DEF AfterReply
  <2>3. QED
    BY <1>0, <2>1, <2>2 DEF vars, TrybootAsked
<1>2. CASE Unsent(u) \/ GiveUp(u)
  <2>1. /\ UNCHANGED <<vars, record>>
        /\ \/ spc'[u] = "stopped"
           \/ spc[u] = "to_reboot" /\ spc'[u] = "wait2" /\ UNCHANGED att
    BY <1>0, <1>2 DEF Unsent, GiveUp
  <2>2. QED
    BY <1>0, <2>1 DEF vars, TrybootAsked
<1>3. CASE SendInstall(u) \/ SendTryboot(u)
  <2>1. spc'[u] \in {"install", "tryboot"}
    BY <1>0, <1>3 DEF SendInstall, SendTryboot, Send
  <2>2. QED
    BY <2>1
<1>4. CASE SendCommit(u) \/ SendReboot(u)
  <2>1. /\ UNCHANGED <<disk, fw, record, att>> /\ (TrybootAsked' => TrybootAsked)
        /\ \/ spc[u] = "to_commit" /\ spc'[u] = "commit"
           \/ spc[u] = "to_reboot" /\ spc'[u] = "wait2" /\ pc'[u] = "idle"
    <3>1. CASE SendCommit(u)
      BY <1>0, <3>1 DEF SendCommit, Send, Commit, TrybootAsked
    <3>2. CASE SendReboot(u)
      <4>1. pending' = pending \cup {<<"plain", u>>}
        BY <3>2 DEF SendReboot, Reboot
      <4>2. TrybootAsked' => TrybootAsked
        BY <4>1 DEF TrybootAsked
      <4>3. QED
        BY <1>0, <3>2, <4>2 DEF SendReboot, Send, Reboot, Answer, TypeOK
    <3>3. QED
      BY <1>4, <3>1, <3>2
  <2>2. QED
    BY <1>0, <2>1 DEF fw
<1>5. CASE WaitUp(u) \/ WaitUpCommitted(u)
  <2>1. /\ UNCHANGED <<vars, record, att>>
        /\ \/ spc[u] = "wait" /\ spc'[u] = "ask" /\ trial /\ stage = "linux"
           \/ spc[u] = "wait2" /\ spc'[u] = "ask2"
           \/ spc'[u] = "stopped"
    BY <1>0, <1>5 DEF WaitUp, WaitUpCommitted, AnswersStatus, OnTrial
  <2>2. QED
    BY <1>0, <2>1 DEF vars, TrybootAsked, OneShot
<1>6. ASSUME NEW a \in {"ask", "ask2"}, AttestAsk(u, a) PROVE Assured(u)'
  <2>1. /\ UNCHANGED <<vars, record>> /\ att'[u] = [NoRound EXCEPT !.prev = base]
        /\ \/ spc[u] = "ask" /\ spc'[u] = "quote"
           \/ spc[u] = "ask2" /\ spc'[u] = "quote2"
    BY <1>0, <1>6 DEF AttestAsk, Asking, Rounds
  <2>2. att'[u].later = FALSE /\ att'[u].prev = base
    BY <2>1 DEF NoRound
  <2>3. QED
    BY <1>0, <2>1, <2>2 DEF vars, TrybootAsked
<1>7. ASSUME NEW a \in {"ask", "ask2"}, AttestQuote(u, a) PROVE Assured(u)'
  <2>1. /\ UNCHANGED <<vars, record>> /\ att' = [att EXCEPT ![u].img = measured]
        /\ stage = "linux"
        /\ \/ spc[u] = "quote" /\ spc'[u] = "verdict"
           \/ spc[u] = "quote2" /\ spc'[u] = "verdict2"
    BY <1>0, <1>7 DEF AttestQuote, Quoting, Rounds
  <2>2. att'[u].later = FALSE /\ att'[u].prev = att[u].prev /\ att'[u].img = measured
    BY <1>0, <2>1 DEF UTypeOK
  <2>3. spc[u] = "quote2" /\ att[u].prev = "past" /\ kept[u]
        => measured = boot[autoboot.all].img /\ counter >= Version[measured]
    <3> SUFFICES ASSUME spc[u] = "quote2", att[u].prev = "past", kept[u]
                 PROVE  measured = boot[autoboot.all].img /\ counter >= Version[measured]
      OBVIOUS
    <3>1. ~trial
      BY <1>0
    <3>2. running = autoboot.all /\ counter = Version[boot[running].img]
      BY <2>1, <3>1 DEF FloorReached
    <3>3. measured = boot[running].img
      BY <2>1 DEF MeasuredRuns
    <3>4. QED
      BY <1>0, <3>2, <3>3 DEF TypeOK
  <2>4. QED
    BY <1>0, <2>1, <2>2, <2>3 DEF vars, TrybootAsked
<1>8. CASE HealthCheck(u) \/ Finish(u)
  <2>1. /\ UNCHANGED vars
        /\ \/ spc[u] = "verdict" /\ spc'[u] = "to_commit" /\ (kept'[u] => base' = "now")
           \/ spc'[u] \in {"done", "stopped"} /\ pc[u] = "idle"
    BY <1>0, <1>8 DEF HealthCheck, Finish, Surviving
  <2>2. QED
    BY <1>0, <2>1 DEF vars, TrybootAsked
<1>9. QED
  BY <1>1, <1>2, <1>3, <1>4, <1>5, <1>6, <1>7, <1>8 DEF Cycle

\* An operator asks for the status or a plain reboot, or is refused a trial.
LEMMA OperatorAssures ==
  ASSUME IInv, UTypeOK, DoneInv, NEW u \in Server, NEW s \in Session, Operator(s), ~OperatorTries
  PROVE  Assured(u)'
<1>0. /\ TypeOK /\ UNCHANGED <<spc, att, base, kept>> /\ s # u /\ u \in Session /\ Request(s)
      /\ s \notin Server
  BY DEF IInv, Operator, server, record, Request
<1>1. UNCHANGED <<boot, autoboot, bit, trial, counter>> /\ pc'[u] = pc[u]
  BY <1>0, RequestEffect DEF disk, fw
<1>2. \/ pending' = pending
      \/ pending' = pending \cup {<<"plain", s>>}
      \/ pending' = pending \cup {<<"tryboot", s>>}
  BY DEF Operator, Status, Tryboot, Reboot
<1>3. TrybootAsked' => TrybootAsked
  BY <1>0, <1>2 DEF TrybootAsked, OperatorTries
<1>4. QED
  BY <1>0, <1>1, <1>3 DEF DoneInv, Assured, Quiet, PlainAhead, SameBoot, SawCommitted,
                          Committing

\* Every step keeps the operators from writing.
LEMMA OthersStep ==
  ASSUME IInv, UTypeOK, OthersRead, [UNext]_uvars, \A v, w \in Server : v = w
  PROVE  OthersRead'
<1> SUFFICES ASSUME NEW s \in Session \ Server, pc[s] \notin InstallHolding \cup CommitPending
             PROVE  pc'[s] \notin InstallHolding \cup CommitPending
  BY DEF OthersRead
<1>0. TypeOK
  BY DEF IInv
<1> USE DEF CommitPending, InstallHolding, InstallWriting
<1>1. ASSUME NEW u \in Server, Request(u) PROVE pc'[s] = pc[s]
  BY <1>0, <1>1, RequestEffect
<1>2. ASSUME NEW u \in Server, Cycle(u) PROVE pc'[s] = pc[s]
  <2>1. CASE SendInstall(u) \/ SendTryboot(u) \/ SendCommit(u) \/ SendReboot(u)
    <3>1. rel[u] \in Manifest
      BY <2>1 DEF SendInstall, SendTryboot, SendCommit, SendReboot, Send, UTypeOK
    <3>2. Request(u)
      BY <2>1, <3>1 DEF SendInstall, SendTryboot, SendCommit, SendReboot, Request
    <3>3. QED
      BY <1>1, <3>2
  <2>2. CASE \/ Hear(u) \/ Unsent(u) \/ WaitUp(u) \/ WaitUpCommitted(u)
             \/ HealthCheck(u) \/ Finish(u) \/ GiveUp(u)
             \/ \E a \in {"ask", "ask2"} : AttestAsk(u, a) \/ AttestQuote(u, a)
    BY <2>2 DEF Hear, Unsent, WaitUp, WaitUpCommitted, HealthCheck, Finish, GiveUp, AttestAsk,
                AttestQuote, vars
  <2>3. QED
    BY <1>2, <2>1, <2>2 DEF Cycle
<1>3. ASSUME NEW u \in Server, NEW m \in Manifest, Begin(u, m) PROVE pc'[s] = pc[s]
  BY <1>1, <1>3 DEF Begin, Request
<1>4. ASSUME NEW t \in Session, BoardWork(t)
      PROVE  pc'[s] \notin InstallHolding \cup CommitPending
  <2>1. Work(t)
    BY <1>4 DEF BoardWork
  <2>2. t = s => pc'[s] \notin InstallHolding \cup CommitPending
    BY <1>0, <2>1, WorkEffect
  <2>3. t # s => pc'[s] = pc[s]
    BY <1>0, <2>1, WorkEffect
  <2>4. QED
    BY <2>2, <2>3
<1>5. ASSUME NEW t \in Session, Operator(t)
      PROVE  pc'[s] \notin InstallHolding \cup CommitPending
  <2>1. Request(t)
    BY <1>5 DEF Operator, Request
  <2>2. t # s => pc'[s] = pc[s]
    BY <1>0, <2>1, RequestEffect
  <2>3. pc'[t] \in {"st_mount", "tb_mount", "idle"}
    BY <1>0, <1>5 DEF Operator, Status, Tryboot, Reboot, Accept, Answer, TypeOK
  <2>4. QED
    BY <2>2, <2>3
<1>6. CASE BoardReset
  BY <1>6 DEF BoardReset, RebootFires, PowerLoss, Down
<1>7. CASE BootChain \/ RoutineRound \/ UNCHANGED uvars
  BY <1>7 DEF BootChain, FirmwareBoot, UBootRefuse, UBootIncrement, UBootHandoff, RoutineRound,
              uvars, vars
<1>8. QED
  BY <1>2, <1>3, <1>4, <1>5, <1>6, <1>7 DEF UNext, UStep

\* Every step keeps the invariant.
LEMMA DoneStep ==
  ASSUME IInv, UTypeOK, DoneInv, FloorReached, MeasuredRuns, [UNext /\ ~OperatorTries]_uvars,
         \A v, w \in Server : v = w
  PROVE  DoneInv'
<1>1. [Next]_vars /\ [UNext]_uvars
  BY CycleIsBoardStep
<1>2. OneShot' /\ OthersRead'
  BY <1>1, OneShotStep, OthersStep DEF DoneInv
<1>3. ASSUME NEW u \in Server PROVE Assured(u)'
  <2>1. Assured(u)
    BY DEF DoneInv, Assured
  <2>2. ASSUME NEW v \in Server, Cycle(v) PROVE Assured(u)'
    BY <2>2, UpdateAssures
  <2>3. ASSUME NEW v \in Server, NEW m \in Manifest, Begin(v, m) PROVE Assured(u)'
    <3>1. spc'[u] = "status"
      BY <2>3 DEF Begin, Goto, UTypeOK
    <3>2. QED
      BY <3>1 DEF Assured, Quiet, PlainAhead, SameBoot, SawCommitted, OnItsTrial, Lasting,
                  Committing
  <2>4. CASE (\E s \in Session : BoardWork(s)) \/ BoardReset \/ BootChain \/ RoutineRound
    BY <1>1, <2>4, BoardAssures
  <2>5. ASSUME NEW s \in Session, Operator(s), ~OperatorTries PROVE Assured(u)'
    BY <2>5, OperatorAssures
  <2>6. CASE UNCHANGED uvars
    BY <2>1, <2>6 DEF uvars, vars, server, record, Assured, Quiet, PlainAhead, SameBoot,
                      SawCommitted, Committing, TrybootAsked
  <2>7. QED
    BY <2>2, <2>3, <2>4, <2>5, <2>6 DEF UNext, UStep
<1>4. QED
  BY <1>2, <1>3 DEF DoneInv, Assured

\* With no operator on the board, the cycle is one without an operator's trials.
LEMMA NoOperatorNoTrial == ASSUME Session \subseteq Server PROVE USpec => NoTrialsSpec
<1>1. [UNext]_uvars => [UNext /\ ~OperatorTries]_uvars
  BY DEF OperatorTries
<1>2. QED
  BY <1>1, PTL DEF USpec, NoTrialsSpec

\* With one update at a time and no operator's trials the invariant holds throughout.
LEMMA DoneInvariant ==
  ASSUME OneUpdate
  PROVE  NoTrialsSpec => USpec /\ [](IInv /\ UTypeOK /\ DoneInv)
<1>1. UInit => DoneInv /\ MeasuredRuns
  BY DEF UInit, Init, DoneInv, OneShot, TrybootAsked, OthersRead, Quiet, PlainAhead, SameBoot,
         SawCommitted, OnItsTrial, Lasting, Committing, MeasuredRuns, InstallHolding,
         InstallWriting, CommitPending
<1>2. IInv /\ UTypeOK /\ FloorReached /\ DoneInv /\ MeasuredRuns
        /\ [UNext /\ ~OperatorTries]_uvars
      => DoneInv' /\ MeasuredRuns'
  BY DoneStep, MeasuredStep DEF OneUpdate
<1>3. [UNext /\ ~OperatorTries]_uvars => [UNext]_uvars
  OBVIOUS
<1>4. NoTrialsSpec => USpec
  BY <1>3, PTL DEF USpec, NoTrialsSpec
<1>5. QED
  BY <1>1, <1>2, <1>4, CycleTyped, CycleIsBoard, FloorIsReached, PTL DEF NoTrialsSpec

\* A second round that passes against the health check's own resetCount saw the floor reached.
LEMMA PassIsCommitted ==
  ASSUME UTypeOK, DoneInv, NEW u \in Server, spc[u] = "verdict2", Passes(u), kept[u]
  PROVE  counter >= Version[Golden[rel[u]]]
BY DEF DoneInv, SawCommitted, Passes, Matches, Restarted

\* Only the second round's verdict says DONE or changes the goldens, and only if it passes.
LEMMA OnlyFinish ==
  ASSUME UTypeOK, [UNext]_uvars
  PROVE  /\ \A u \in Server : spc[u] # "done" /\ spc'[u] = "done" =>
              Finish(u) /\ Passes(u)
         /\ goldens' # goldens => \E u \in Server : Finish(u) /\ Passes(u)
<1> DEFINE Goal == /\ \A u \in Server : spc[u] # "done" /\ spc'[u] = "done" =>
                        Finish(u) /\ Passes(u)
                   /\ goldens' # goldens => \E u \in Server : Finish(u) /\ Passes(u)
<1> USE DEF UTypeOK, Goto
<1>1. ASSUME NEW v \in Server, Cycle(v), ~Finish(v)
      PROVE  UNCHANGED goldens /\ \A u \in Server : spc'[u] \in {spc[u]} \cup (SPC \ {"done"})
  <2>1. CASE Hear(v) \/ Unsent(v) \/ GiveUp(v)
    BY <2>1 DEF Hear, Unsent, GiveUp, AfterReply, SPC, Rest
  <2>2. CASE SendInstall(v) \/ SendTryboot(v) \/ SendCommit(v) \/ SendReboot(v)
    BY <2>2 DEF SendInstall, SendTryboot, SendCommit, SendReboot, Send, SPC, Rest
  <2>3. CASE WaitUp(v) \/ WaitUpCommitted(v) \/ HealthCheck(v)
    BY <2>3 DEF WaitUp, WaitUpCommitted, HealthCheck, SPC, Rest
  <2>4. ASSUME NEW a \in {"ask", "ask2"}, AttestAsk(v, a) \/ AttestQuote(v, a)
        PROVE  UNCHANGED goldens /\ \A u \in Server : spc'[u] \in {spc[u]} \cup (SPC \ {"done"})
    BY <2>4 DEF AttestAsk, AttestQuote, Rounds, SPC, Rest
  <2>5. QED
    BY <1>1, <2>1, <2>2, <2>3, <2>4 DEF Cycle
<1>2. ASSUME NEW v \in Server, Finish(v) PROVE Goal
  <2>1. /\ \A u \in Server \ {v} : spc'[u] = spc[u]
        /\ spc'[v] = IF Passes(v) THEN "done" ELSE "stopped"
        /\ goldens' = IF Passes(v) THEN Golden[rel[v]] ELSE goldens
    BY <1>2 DEF Finish
  <2>2. QED
    BY <1>2, <2>1
<1>3. ASSUME NEW v \in Server, NEW m \in Manifest, Begin(v, m) PROVE Goal
  BY <1>3 DEF Begin
<1>4. ASSUME NEW s \in Session, BoardWork(s) \/ Operator(s) PROVE Goal
  BY <1>4 DEF BoardWork, Operator, server
<1>5. CASE BoardReset \/ BootChain \/ RoutineRound \/ UNCHANGED uvars
  BY <1>5 DEF BoardReset, BootChain, RoutineRound, uvars, server
<1>6. QED
  BY <1>1, <1>2, <1>3, <1>4, <1>5 DEF UNext, UStep

-----------------------------------------------------------------------------
(* With operators on the board, or the health check's resetCount lost, DONE *)
(* may come before the floor, but never for a release that is not committed. *)

CommittedIsOwn(u) == boot[autoboot.all].img = rel[u].img
CommitLasts(u) ==
  /\ spc[u] = "commit" =>
       /\ pc[u] \in CommitPending \cup {"co_done", "idle"}
       /\ pc[u] \in CommitPending => OnTarget(u)
       /\ pc[u] \in {"co_wmount", "co_rename"} => autoboot.tryboot = running
       /\ pc[u] = "co_done" \/ (pc[u] = "idle" /\ reply[u] = "ok") => CommittedIsOwn(u)
  /\ spc[u] \in Lasting \cup {"done"} => CommittedIsOwn(u)
  /\ spc[u] = "done" => goldens = Golden[rel[u]]

\* A commit settles on the trial pair of the file, and one that ends with ok has renamed it.
LEMMA CommitEffect ==
  ASSUME TypeOK, NEW s \in Session, Work(s), pc[s] \in CommitPending \cup {"co_done"}
  PROVE  /\ pc'[s] \in CommitPending \cup {"co_done", "idle"}
         /\ pc'[s] = "co_done" => CommitRename(s)
         /\ pc'[s] \in CommitPending \cup {"idle"} => autoboot' = autoboot
         /\ pc'[s] = "idle" /\ reply'[s] = "ok" => pc[s] = "co_done"
         /\ pc'[s] \in {"co_wmount", "co_rename"}
            => pc[s] \in {"co_wmount", "co_rename"} \/ autoboot.tryboot = running
         /\ boot' = boot
<1> USE DEF TypeOK, CommitPending
<1>1. CASE MountP1(s) \/ MountP1Busy(s)
  BY <1>1 DEF MountP1, MountP1Busy, AfterMount, Answer, disk
<1>2. CASE CommitRead(s)
  BY <1>2 DEF CommitRead, CommitPair, Answer, disk
<1>3. CASE CommitRename(s)
  BY <1>3 DEF CommitRename, Step
<1>4. CASE CommitDone(s)
  BY <1>4 DEF CommitDone, Answer, disk
<1>5. CASE StatusRead(s) \/ InstallRead(s) \/ TrybootRead(s) \/ InstallDone(s)
  BY <1>5 DEF StatusRead, InstallRead, TrybootRead, InstallDone
<1>6. CASE \/ StagedRootMismatch(s) \/ DdStart(s) \/ DdEnd(s) \/ ReadbackRoot(s)
           \/ MountBoot(s) \/ MountBootBusy(s)
  BY <1>6 DEF StagedRootMismatch, DdStart, DdEnd, ReadbackRoot, MountBoot, MountBootBusy, Step
<1>7. ASSUME NEW fn \in {"img", "sig"}, BootFileOpen(s, fn) \/ BootFileWrite(s, fn) PROVE FALSE
  <2>1. CASE BootFileOpen(s, fn)
    BY <2>1 DEF BootFileOpen, FileStep, Step
  <2>2. CASE BootFileWrite(s, fn)
    BY <2>2 DEF BootFileWrite, FileStep
  <2>3. QED
    BY <1>7, <2>1, <2>2
<1>8. QED
  BY <1>1, <1>2, <1>3, <1>4, <1>5, <1>6, <1>7 DEF Work

\* Every step keeps the committed release the cycle's own once it has committed.
LEMMA CommitLastsStep ==
  ASSUME IInv, UTypeOK, CycleInv, [UNext]_uvars, NEW u \in Server, CommitLasts(u),
         \A v, w \in Server : v = w
  PROVE  CommitLasts(u)'
<1> USE DEF CommitLasts, CommittedIsOwn, OnTarget, Lasting, Goto
<1>0. /\ TypeOK /\ UTypeOK /\ u \in Session /\ [Next]_vars
      /\ spc \in [Server -> SPC]
      /\ \A s \in Session : InstallsFor(s) /\ CommitsFor(s)
      /\ KeepsTarget(u)
      /\ boot'[autoboot.all] = boot[autoboot.all]
  BY CycleIsBoardStep, RunningStep DEF IInv, CycleInv, UTypeOK
<1>1. ASSUME NEW v \in Server, Cycle(v) PROVE CommitLasts(u)'
  <2>0. v = u /\ Cycle(u)
    BY <1>1
  <2>1. CASE Hear(u)
    <3>1. /\ pc[u] = "idle" /\ reply[u] = "ok" /\ spc'[u] = AfterReply[spc[u]]
          /\ spc[u] \in DOMAIN AfterReply /\ UNCHANGED <<vars, rel, goldens>>
      BY <1>0, <2>1 DEF Hear, Replied
    <3>2. \/ spc[u] = "commit" /\ spc'[u] = "to_reboot"
          \/ spc'[u] \in {"to_install", "to_tryboot", "wait"}
      BY <3>1 DEF AfterReply
    <3>3. QED
      BY <3>1, <3>2 DEF vars
  <2>2. CASE \/ Unsent(u) \/ GiveUp(u) \/ WaitUp(u) \/ WaitUpCommitted(u)
             \/ \E a \in {"ask", "ask2"} : AttestAsk(u, a) \/ AttestQuote(u, a)
    <3>1. UNCHANGED <<vars, rel, goldens>>
      BY <2>2 DEF Unsent, GiveUp, WaitUp, WaitUpCommitted, AttestAsk, AttestQuote
    <3>2. \/ spc[u] \in Lasting /\ spc'[u] \in Lasting
          \/ spc'[u] \in {"stopped", "wait", "ask", "quote", "verdict"}
      BY <1>0, <2>2 DEF Unsent, GiveUp, WaitUp, WaitUpCommitted, AttestAsk, AttestQuote, Asking,
                        Quoting, Rounds
    <3>3. QED
      BY <3>1, <3>2 DEF vars
  <2>3. CASE SendInstall(u) \/ SendTryboot(u) \/ HealthCheck(u)
    <3>1. spc'[u] \in {"install", "tryboot", "to_commit", "stopped"}
      BY <1>0, <2>3 DEF SendInstall, SendTryboot, HealthCheck, Send
    <3>2. QED
      BY <3>1
  <2>4. CASE SendCommit(u)
    <3>1. /\ spc[u] = "to_commit" /\ spc'[u] = "commit" /\ UNCHANGED <<disk, rel>>
          /\ \/ pc'[u] = "co_mount"
             \/ pc'[u] = "idle" /\ reply'[u] = "refused"
      BY <1>0, <2>4 DEF SendCommit, Send, Commit, Accept, Answer, TypeOK
    <3>2. OnTarget(u)
      BY <1>0, <3>1 DEF KeepsTarget, Installed
    <3>3. QED
      BY <3>1, <3>2 DEF disk, CommitPending
  <2>5. CASE SendReboot(u)
    BY <1>0, <2>5 DEF SendReboot, Send, Reboot, disk
  <2>6. CASE Finish(u)
    BY <1>0, <2>6 DEF Finish, vars
  <2>7. QED
    BY <2>0, <2>1, <2>2, <2>3, <2>4, <2>5, <2>6 DEF Cycle
<1>2. ASSUME NEW v \in Server, NEW m \in Manifest, Begin(v, m) PROVE CommitLasts(u)'
  BY <1>0, <1>2 DEF Begin
<1>3. ASSUME NEW s \in Session, BoardWork(s) PROVE CommitLasts(u)'
  <2>1. Work(s) /\ UNCHANGED <<spc, rel, goldens>>
    BY <1>3 DEF BoardWork
  <2>2. CASE s = u /\ spc[u] = "commit"
    <3>1. pc[u] \in CommitPending \cup {"co_done"}
      BY <1>0, <2>1, <2>2, WorkEffect
    <3>2. /\ pc'[u] \in CommitPending \cup {"co_done", "idle"}
          /\ pc'[u] = "co_done" => CommitRename(u)
          /\ pc'[u] \in CommitPending \cup {"idle"} => autoboot' = autoboot
          /\ pc'[u] = "idle" /\ reply'[u] = "ok" => pc[u] = "co_done"
          /\ pc'[u] \in {"co_wmount", "co_rename"}
             => pc[u] \in {"co_wmount", "co_rename"} \/ autoboot.tryboot = running
          /\ boot' = boot
      BY <1>0, <2>1, <2>2, <3>1, CommitEffect
    <3>3. (pc'[u] \in CommitPending => pc[u] \in CommitPending) /\ UNCHANGED running
      BY <1>0, <2>1, <2>2, WorkEffect
    <3>4. ASSUME CommitRename(u) PROVE boot'[autoboot'.all].img = rel[u].img
      <4>1. pc[u] = "co_rename" /\ autoboot' = AUTOBOOT(target[u])
        BY <3>4 DEF CommitRename, Step
      <4>2. target[u] = running /\ autoboot.tryboot = running /\ OnTarget(u)
        BY <1>0, <2>2, <4>1 DEF IInv, WritersAim, CommitWriting, CommitPending
      <4>3. autoboot'.all = target[u]
        BY <4>1 DEF AUTOBOOT
      <4>4. QED
        BY <3>2, <4>2, <4>3
    <3>5. QED
      BY <2>1, <2>2, <3>1, <3>2, <3>3, <3>4 DEF CommitPending
  <2>3. CASE s = u /\ spc[u] # "commit"
    <3>1. spc[u] \in Lasting \cup {"done"} => autoboot' = autoboot
      BY <1>0, <2>1, <2>3, WorkEffect DEF CommitsFor, CommitPending
    <3>2. QED
      BY <1>0, <2>1, <2>3, <3>1
  <2>4. CASE s # u
    <3>1. pc[s] \notin InstallHolding /\ pc[s] \notin CommitPending
      BY <1>0, <2>4 DEF InstallsFor, CommitsFor
    <3>2. UNCHANGED <<boot, autoboot, running>> /\ pc'[u] = pc[u] /\ reply'[u] = reply[u]
      BY <1>0, <2>1, <2>4, <3>1, WorkEffect DEF CommitPending
    <3>3. QED
      BY <2>1, <3>2
  <2>5. QED
    BY <2>2, <2>3, <2>4
<1>4. ASSUME NEW s \in Session, Operator(s) PROVE CommitLasts(u)'
  <2>1. Request(s) /\ s # u /\ UNCHANGED <<spc, rel, goldens>>
    BY <1>4 DEF Operator, Request, server
  <2>2. UNCHANGED <<boot, autoboot, running>> /\ pc'[u] = pc[u] /\ reply'[u] = reply[u]
    BY <1>0, <2>1, RequestEffect DEF disk, fw
  <2>3. QED
    BY <2>1, <2>2
<1>5. CASE BoardReset
  <2>1. Down /\ UNCHANGED <<spc, rel, goldens>>
    BY <1>5 DEF BoardReset, RebootFires, PowerLoss, server
  <2>2. UNCHANGED <<boot, autoboot>> /\ pc'[u] = "idle" /\ reply'[u] = "none"
    BY <1>0, <2>1 DEF Down, disk
  <2>3. QED
    BY <2>1, <2>2 DEF CommitPending
<1>6. CASE BootChain
  <2>1. UNCHANGED <<boot, autoboot, pc, reply, spc, rel, goldens>> /\ stage # "linux"
    <3>1. CASE FirmwareBoot /\ UNCHANGED <<spc, rel, goldens>>
      BY <3>1 DEF FirmwareBoot, disk, job
    <3>2. CASE (UBootRefuse \/ UBootIncrement \/ UBootHandoff) /\ UNCHANGED server
      BY <3>2 DEF UBootRefuse, UBootIncrement, UBootHandoff, disk, job, server
    <3>3. QED
      BY <1>6, <3>1, <3>2 DEF BootChain
  <2>2. pc[u] # "idle" => stage = "linux"
    BY <1>0 DEF IInv, WritersAim
  <2>3. QED
    BY <2>1, <2>2
<1>7. CASE RoutineRound \/ UNCHANGED uvars
  BY <1>7 DEF RoutineRound, uvars, vars, server
<1>8. QED
  BY <1>1, <1>2, <1>3, <1>4, <1>5, <1>6, <1>7 DEF UNext, UStep

\* After a commit the release the cycle was given is the committed one until DONE is said.
LEMMA LastsInvariant ==
  ASSUME OneUpdate, OwnGoldens
  PROVE  USpec => [](IInv /\ UTypeOK /\ \A u \in Server : CommitLasts(u))
<1> DEFINE Lasts == \A u \in Server : CommitLasts(u)
<1>1. UInit => Lasts
  BY DEF UInit, CommitLasts, Lasting
<1>2. IInv /\ UTypeOK /\ CycleInv /\ Lasts /\ [UNext]_uvars => Lasts'
  BY CommitLastsStep DEF OneUpdate
<1> HIDE DEF Lasts
<1>3. USpec => [](IInv /\ UTypeOK /\ Lasts)
  BY <1>1, <1>2, CycleTyped, CycleInvariant, PTL DEF USpec
<1>4. QED
  BY <1>3 DEF Lasts

\* With one update at a time and goldens of their own in every bundle, DONE stays true until
\* the next update, whatever operators and faults do to the board.
THEOREM DoneStaysTrue ==
  ASSUME OneUpdate, OwnGoldens
  PROVE  USpec => []DoneLasts
<1> DEFINE Lasts == \A u \in Server : CommitLasts(u)
<1>1. IInv /\ UTypeOK /\ CycleInv /\ Lasts => DoneLasts
  <2> SUFFICES ASSUME IInv, UTypeOK, CycleInv, Lasts, NEW u \in Server, spc[u] = "done"
               PROVE  /\ boot[autoboot.all].img = Golden[rel[u]] /\ goldens = Golden[rel[u]]
                      /\ stage = "linux" /\ ~trial => measured = goldens
    BY DEF DoneLasts
  <2>1. boot[autoboot.all].img = rel[u].img /\ goldens = Golden[rel[u]]
    BY DEF CommitLasts, CommittedIsOwn
  <2>2. rel[u].img \in Image /\ rel[u] \in Manifest
    BY <2>1 DEF IInv, CommittedBootable, Bootable, Signed, UTypeOK
  <2>3. stage = "linux" /\ ~trial => measured = boot[autoboot.all].img
    BY DEF CycleInv, MeasuredRuns, IInv, RunningWhole
  <2>4. QED
    BY <2>1, <2>2, <2>3 DEF OwnGoldens
<1> HIDE DEF Lasts
<1>2. USpec => [](IInv /\ UTypeOK /\ Lasts)
  BY LastsInvariant, PTL DEF Lasts
<1>3. QED
  BY <1>1, <1>2, CycleInvariant, PTL

-----------------------------------------------------------------------------
(* What DONE says when it is said.                                         *)

\* The release of an update whose second round ends is the committed one, and stays so in
\* that step.
LEMMA FinishIsCommitted ==
  ASSUME IInv, UTypeOK, OwnGoldens, NEW u \in Server, CommitLasts(u), Finish(u), Passes(u)
  PROVE  LET i == Golden[rel[u]] IN
         /\ boot[autoboot.all].img = i /\ autoboot' = autoboot
         /\ goldens' = i
         /\ Version[i] >= counter
<1>1. spc[u] = "verdict2" /\ goldens' = Golden[rel[u]] /\ autoboot' = autoboot
  BY DEF Finish, vars
<1>2. boot[autoboot.all].img = rel[u].img
  BY <1>1 DEF CommitLasts, CommittedIsOwn, Lasting
<1>3. boot[autoboot.all].img \in Image /\ Version[boot[autoboot.all].img] >= counter
  BY DEF IInv, CommittedBootable, Bootable, Signed
<1>4. rel[u] \in Manifest
  BY <1>1 DEF UTypeOK
<1>5. QED
  BY <1>1, <1>2, <1>3, <1>4 DEF OwnGoldens

\* DONE is said only of the committed release, and of one whose version is the floor if the
\* health check's resetCount stayed on record, however late reboots begin and rounds save,
\* and whatever is lost, as long as the operators ask for no trial of their own.
THEOREM DoneIsDone ==
  ASSUME OneUpdate, OwnGoldens
  PROVE  NoTrialsSpec => DoneMeansDone
<1> DEFINE Lasts == \A u \in Server : CommitLasts(u)
           Done == \A u \in Server : spc[u] # "done" /\ spc'[u] = "done" =>
                     LET i == Golden[rel[u]] IN
                     /\ boot[autoboot.all].img = i /\ autoboot' = autoboot
                     /\ goldens' = i
                     /\ kept[u] => counter >= Version[i]
<1>1. ASSUME IInv, UTypeOK, DoneInv, Lasts, [UNext]_uvars, NEW u \in Server,
             spc[u] # "done", spc'[u] = "done"
      PROVE  LET i == Golden[rel[u]] IN
             /\ boot[autoboot.all].img = i /\ autoboot' = autoboot
             /\ goldens' = i
             /\ kept[u] => counter >= Version[i]
  <2>1. Finish(u) /\ Passes(u)
    BY <1>1, OnlyFinish
  <2>2. spc[u] = "verdict2"
    BY <2>1 DEF Finish
  <2>3. QED
    BY <1>1, <2>1, <2>2, PassIsCommitted, FinishIsCommitted
<1>2. IInv /\ UTypeOK /\ DoneInv /\ Lasts /\ [UNext]_uvars => Done
  BY <1>1
<1>3. NoTrialsSpec => USpec /\ [](IInv /\ UTypeOK /\ DoneInv)
  BY DoneInvariant
<1> HIDE DEF Lasts
<1>4. USpec => []Lasts
  BY LastsInvariant, PTL DEF Lasts
<1>5. QED
  BY <1>2, <1>3, <1>4, PTL DEF DoneMeansDone, USpec

\* Whatever the operators try, the goldens of routine rounds change only to those of the
\* release that is committed at that instant and not below the floor.
THEOREM GoldensAreOfTheCommitted ==
  ASSUME OneUpdate, OwnGoldens
  PROVE  USpec => GoldensFollowCommit
<1> DEFINE Lasts == \A u \in Server : CommitLasts(u)
<1>1. ASSUME IInv, UTypeOK, Lasts, [UNext]_uvars, goldens' # goldens
      PROVE  /\ goldens' = boot[autoboot.all].img /\ autoboot' = autoboot
             /\ Version[goldens'] >= counter
  <2>1. PICK u \in Server : Finish(u) /\ Passes(u)
    BY <1>1, OnlyFinish
  <2>2. QED
    BY <1>1, <2>1, FinishIsCommitted
<1>2. IInv /\ UTypeOK /\ Lasts /\ [UNext]_uvars
      => (goldens' # goldens => /\ goldens' = boot[autoboot.all].img /\ autoboot' = autoboot
                                /\ Version[goldens'] >= counter)
  BY <1>1
<1> HIDE DEF Lasts
<1>3. USpec => [](IInv /\ UTypeOK /\ Lasts)
  BY LastsInvariant, PTL DEF Lasts
<1>4. QED
  BY <1>2, <1>3, PTL DEF GoldensFollowCommit, USpec

\* Where nobody but the server uses the board, the cycle's own behaviours have both.
THEOREM AloneDoneIsDone ==
  ASSUME OneUpdate, OwnGoldens, Session \subseteq Server
  PROVE  USpec => DoneMeansDone /\ GoldensFollowCommit
BY DoneIsDone, GoldensAreOfTheCommitted, NoOperatorNoTrial, PTL
=============================================================================
