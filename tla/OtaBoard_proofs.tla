--------------------------- MODULE OtaBoard_proofs ---------------------------
(* Theorems about OtaBoard for any number of sessions, images and manifests.  *)
EXTENDS OtaBoard, TLAPS

USE SessionAssumption, ImageAssumption, ManifestAssumption
    DEF Pair, Content

-----------------------------------------------------------------------------
(* Type correctness.                                                       *)

\* The initial state is well typed.
LEMMA TypeInit == Init => TypeOK
<1> SUFFICES ASSUME Init PROVE TypeOK
  OBVIOUS
<1> USE DEF Init
<1>1. root \in [3..4 -> Content] /\ boot \in [Pair -> [img : Content, sig : Content]]
  OBVIOUS
<1>2. autoboot \in [all : Pair, tryboot : Pair]
  BY DEF AUTOBOOT, OtherPair
<1>3. pc \in [Session -> PC] /\ man \in [Session -> Manifest \cup {None}]
  BY DEF PC
<1>4. target \in [Session -> 0..2] /\ reply \in [Session -> {"none", "ok", "refused"}]
  OBVIOUS
<1>5. QED
  BY <1>1, <1>2, <1>3, <1>4 DEF TypeOK, InstallHolding, InstallWriting, CommitWriting

\* A reset keeps every variable in its type.
LEMMA DownType == TypeOK /\ Down /\ bit' \in BOOLEAN => TypeOK'
BY DEF TypeOK, Down, disk, PC, InstallHolding, InstallWriting, CommitWriting

\* Every step keeps every variable in its type.
LEMMA TypeStep == TypeOK /\ [Next]_vars => TypeOK'
<1> SUFFICES ASSUME TypeOK, [Next]_vars PROVE TypeOK'
  OBVIOUS
<1> USE DEF TypeOK, disk, fw, mounts, job, InstallHolding, InstallWriting, CommitWriting
<1>1. ASSUME NEW s \in Session, Request(s) PROVE TypeOK'
  <2>1. CASE Status(s)
    BY <2>1 DEF Status, Accept, PC
  <2>2. CASE Tryboot(s)
    BY <2>2 DEF Tryboot, Accept, Answer, PC
  <2>3. CASE Commit(s)
    BY <2>3 DEF Commit, Accept, Answer, PC
  <2>4. CASE Reboot(s)
    BY <2>4 DEF Reboot, Answer, PC
  <2>5. ASSUME NEW m \in Manifest, Install(s, m) PROVE TypeOK'
    BY <2>5 DEF Install, Accept, PC
  <2>6. ASSUME NEW m \in Manifest, InstallRefused(s, m) PROVE TypeOK'
    BY <2>6 DEF InstallRefused, Answer, PC
  <2>7. QED
    BY <1>1, <2>1, <2>2, <2>3, <2>4, <2>5, <2>6 DEF Request
<1>2. ASSUME NEW s \in Session, Work(s) PROVE TypeOK'
  <2>1. CASE MountP1(s)
    <3>1. /\ AfterMount[pc[s]] \in PC
          /\ AfterMount[pc[s]] \in InstallHolding => pc[s] \in InstallHolding
          /\ AfterMount[pc[s]] \in InstallWriting \cup CommitWriting =>
               pc[s] \in CommitWriting
      BY <2>1 DEF MountP1, AfterMount, PC
    <3>2. QED
      BY <2>1, <3>1 DEF MountP1
  <2>2. CASE MountP1Busy(s)
    BY <2>2 DEF MountP1Busy, Answer, PC
  <2>3. CASE StatusRead(s)
    BY <2>3 DEF StatusRead, Answer, PC
  <2>4. CASE InstallRead(s)
    BY <2>4 DEF InstallRead, Answer, PC
  <2>5. CASE StagedRootMismatch(s)
    BY <2>5 DEF StagedRootMismatch, Answer, PC
  <2>6. CASE DdStart(s)
    BY <2>6 DEF DdStart, Step, ROOT_PART, PC
  <2>7. CASE DdEnd(s)
    BY <2>7 DEF DdEnd, Step, ROOT_PART, PC
  <2>8. CASE ReadbackRoot(s)
    BY <2>8 DEF ReadbackRoot, Answer, PC
  <2>9. CASE MountBoot(s)
    BY <2>9 DEF MountBoot, Step, PC
  <2>10. CASE MountBootBusy(s)
    BY <2>10 DEF MountBootBusy, Answer, PC
  <2>11. ASSUME NEW fn \in {"img", "sig"}, BootFileOpen(s, fn) PROVE TypeOK'
    BY <2>11 DEF BootFileOpen, Step, FileStep, PC
  <2>12. ASSUME NEW fn \in {"img", "sig"}, BootFileWrite(s, fn) PROVE TypeOK'
    BY <2>12 DEF BootFileWrite, Answer, FileStep, PC
  <2>13. CASE InstallDone(s)
    BY <2>13 DEF InstallDone, Answer, PC
  <2>14. CASE TrybootRead(s)
    BY <2>14 DEF TrybootRead, Answer, PC
  <2>15. CASE CommitRead(s)
    BY <2>15 DEF CommitRead, CommitPair, Answer, PC
  <2>16. CASE CommitRename(s)
    BY <2>16 DEF CommitRename, Step, AUTOBOOT, OtherPair, PC
  <2>17. CASE CommitDone(s)
    BY <2>17 DEF CommitDone, Answer, PC
  <2>18. QED
    BY <1>2, <2>1, <2>2, <2>3, <2>4, <2>5, <2>6, <2>7, <2>8, <2>9, <2>10, <2>11,
       <2>12, <2>13, <2>14, <2>15, <2>16, <2>17 DEF Work
<1>3. CASE RebootFires
  BY <1>3, DownType DEF RebootFires
<1>4. CASE PowerLoss
  BY <1>4, DownType DEF PowerLoss
<1>5. CASE BootStep
  <2>1. CASE FirmwareBoot
    BY <2>1 DEF FirmwareBoot, BootChoice
  <2>2. CASE UBootRefuse
    BY <2>2 DEF UBootRefuse
  <2>3. CASE UBootIncrement
    BY <2>3 DEF UBootIncrement
  <2>4. CASE UBootHandoff
    BY <2>4 DEF UBootHandoff
  <2>5. QED
    BY <1>5, <2>1, <2>2, <2>3, <2>4 DEF BootStep
<1>6. CASE UNCHANGED vars
  BY <1>6 DEF vars
<1>7. QED
  BY <1>1, <1>2, <1>3, <1>4, <1>5, <1>6 DEF Next

\* Every reachable state is well typed, whatever the constants.
THEOREM TypeCorrect == Spec => []TypeOK
BY TypeInit, TypeStep, PTL DEF Spec

-----------------------------------------------------------------------------
(* The committed pair stays bootable.                                      *)

\* The factory card satisfies the invariant: the counter starts at 1 and no image has
\* a lower version.
LEMMA InvInit == Init => IInv
<1> SUFFICES ASSUME Init PROVE IInv
  OBVIOUS
<1>1. TypeOK
  BY TypeInit
<1>2. FileValid
  BY DEF Init, FileValid, ValidAB, AUTOBOOT, OtherPair
<1>3. Bootable(1)
  <2>1. boot[1].img = FactoryImage /\ boot[1].sig = FactoryImage /\ root[3] = FactoryImage
    BY DEF Init
  <2>2. Version[FactoryImage] \in Nat \ {0} /\ counter = 1
    BY DEF Init
  <2>3. QED
    BY <2>1, <2>2 DEF Bootable, Signed, RootDevice
<1>4. CommittedBootable
  BY <1>3 DEF Init, CommittedBootable, AUTOBOOT
<1>5. WritersAim /\ RunningWhole
  BY DEF Init, WritersAim, RunningWhole, InstallWriting, CommitWriting
<1>6. QED
  BY <1>1, <1>2, <1>4, <1>5 DEF IInv

\* Every step keeps it.
LEMMA InvStep == IInv /\ [Next]_vars => IInv'
<1> SUFFICES ASSUME IInv, [Next]_vars PROVE IInv'
  OBVIOUS
<1> USE DEF IInv, disk, fw, mounts, job
<1>0. TypeOK /\ TypeOK'
  BY TypeStep
<1> DEFINE Safe == FileValid /\ CommittedBootable /\ WritersAim /\ RunningWhole
<1>1. ASSUME NEW s \in Session, UNCHANGED <<disk, fw>>,
             \A t \in Session \ {s} : pc'[t] = pc[t] /\ target'[t] = target[t],
             pc'[s] # "idle" => stage = "linux",
             pc'[s] \in InstallWriting =>
               ~trial /\ running = autoboot.all /\ target'[s] = autoboot.tryboot,
             pc'[s] \in CommitWriting => trial /\ target'[s] = running
      PROVE Safe'
  <2>1. FileValid' /\ CommittedBootable' /\ RunningWhole'
    BY <1>1 DEF FileValid, ValidAB, CommittedBootable, RunningWhole, Bootable, Signed, MyVersion
  <2>2. WritersAim'
    BY <1>1, <1>0 DEF WritersAim
  <2>3. QED
    BY <2>1, <2>2
<1>2. ASSUME NEW s \in Session, Request(s) PROVE Safe'
  <2>1. UNCHANGED <<disk, fw>> /\ stage = "linux"
    BY <1>2 DEF Request, Status, Tryboot, Commit, Reboot, Install, InstallRefused, Serving
  <2>2. \A t \in Session \ {s} : pc'[t] = pc[t] /\ target'[t] = target[t]
    BY <1>2, <1>0 DEF Request, Status, Tryboot, Commit, Reboot, Install, InstallRefused,
                      Accept, Answer, TypeOK
  <2>3. pc'[s] \in {"idle", "st_mount", "in_mount", "tb_mount", "co_mount"}
    BY <1>2, <1>0 DEF Request, Status, Tryboot, Commit, Reboot, Install, InstallRefused,
                      Accept, Answer, TypeOK
  <2>4. QED
    BY <1>1, <2>1, <2>2, <2>3 DEF InstallWriting, CommitWriting
<1>3. ASSUME NEW s \in Session, Work(s) PROVE Safe'
  <2>1. CASE MountP1(s)
    <3>1. /\ AfterMount[pc[s]] \notin InstallWriting
          /\ AfterMount[pc[s]] \in CommitWriting => pc[s] \in CommitWriting
          /\ pc[s] # "idle"
      BY <2>1 DEF MountP1, AfterMount, InstallWriting, CommitWriting
    <3>2. QED
      BY <2>1, <3>1, <1>0, <1>1 DEF MountP1, TypeOK, WritersAim
  <2>2. ASSUME UNCHANGED <<disk, fw>>, Answer(s, TRUE) \/ Answer(s, FALSE)
        PROVE Safe'
    BY <2>2, <1>0, <1>1 DEF Answer, TypeOK, WritersAim, InstallWriting, CommitWriting
  <2>3. CASE MountP1Busy(s) \/ StatusRead(s) \/ StagedRootMismatch(s) \/ MountBootBusy(s)
               \/ InstallDone(s) \/ TrybootRead(s) \/ CommitDone(s)
    BY <2>2, <2>3 DEF MountP1Busy, StatusRead, StagedRootMismatch, MountBootBusy,
                      InstallDone, TrybootRead, CommitDone, Answer
  <2>4. CASE InstallRead(s)
    <3>1. UNCHANGED <<disk, fw>> /\ stage = "linux"
      BY <2>4 DEF InstallRead, WritersAim
    <3>2. CASE Answer(s, FALSE)
      BY <3>1, <3>2, <2>2
    <3>3. CASE /\ InstallChecks(autoboot, man[s])
               /\ pc' = [pc EXCEPT ![s] = "in_root"]
               /\ target' = [target EXCEPT ![s] = autoboot.tryboot]
      <4>1. ~trial /\ running = autoboot.all
        BY <3>3 DEF InstallChecks
      <4>2. pc'[s] = "in_root" /\ target'[s] = autoboot.tryboot
        BY <3>3 DEF TypeOK
      <4>3. \A t \in Session \ {s} : pc'[t] = pc[t] /\ target'[t] = target[t]
        BY <3>3 DEF TypeOK
      <4>4. QED
        BY <3>1, <4>1, <4>2, <4>3, <1>1 DEF CommitWriting
    <3>4. QED
      BY <2>4, <3>2, <3>3 DEF InstallRead
  <2>5. CASE ReadbackRoot(s)
    <3>1. UNCHANGED <<disk, fw>>
      BY <2>5 DEF ReadbackRoot
    <3>2. CASE Answer(s, FALSE)
      BY <3>1, <3>2, <2>2
    <3>3. CASE pc' = [pc EXCEPT ![s] = "in_bmount"] /\ UNCHANGED target
      <4>1. pc[s] = "in_verify" /\ pc'[s] = "in_bmount"
        BY <2>5, <3>3 DEF ReadbackRoot, TypeOK
      <4>2. \A t \in Session \ {s} : pc'[t] = pc[t] /\ target'[t] = target[t]
        BY <3>3 DEF TypeOK
      <4>3. QED
        BY <3>1, <3>3, <4>1, <4>2, <1>1 DEF WritersAim, InstallWriting, CommitWriting
    <3>4. QED
      BY <2>5, <3>2, <3>3 DEF ReadbackRoot
  <2>6. CASE MountBoot(s)
    BY <2>6, <1>1, <1>0 DEF MountBoot, Step, TypeOK, WritersAim, InstallWriting, CommitWriting
  <2>7. CASE CommitRead(s)
    <3>1. UNCHANGED <<disk, fw>> /\ stage = "linux"
      BY <2>7 DEF CommitRead, WritersAim
    <3>2. CASE Answer(s, FALSE)
      BY <3>1, <3>2, <2>2
    <3>3. CASE /\ CommitPair(autoboot) # 0
               /\ pc' = [pc EXCEPT ![s] = "co_wmount"]
               /\ target' = [target EXCEPT ![s] = CommitPair(autoboot)]
      <4>1. CommitPair(autoboot) = running /\ autoboot.tryboot = running
        BY <3>3 DEF CommitPair
      <4>2. trial
        BY <3>1, <4>1 DEF RunningWhole, FileValid, ValidAB, OtherPair, TypeOK
      <4>3. pc'[s] = "co_wmount" /\ target'[s] = running
        BY <3>3, <4>1 DEF TypeOK
      <4>4. \A t \in Session \ {s} : pc'[t] = pc[t] /\ target'[t] = target[t]
        BY <3>3 DEF TypeOK
      <4>5. QED
        BY <3>1, <4>2, <4>3, <4>4, <1>1 DEF InstallWriting
    <3>4. QED
      BY <2>7, <3>2, <3>3 DEF CommitRead
  <2>8. CASE CommitRename(s)
    BY <2>8, <1>0 DEF CommitRename, Step, AUTOBOOT, TypeOK, WritersAim, InstallWriting, CommitWriting,
          FileValid, ValidAB, OtherPair, CommittedBootable, RunningWhole, Bootable, Signed
  <2>9. ASSUME pc[s] \in InstallWriting, UNCHANGED <<autoboot, fw>>,
               \A p \in Pair \ {target[s]} :
                 boot'[p] = boot[p] /\ root'[RootDevice(p)] = root[RootDevice(p)],
               pc'[s] \in InstallWriting \cup {"idle"},
               pc'[s] = "idle" \/ target'[s] = target[s],
               \A t \in Session \ {s} : pc'[t] = pc[t] /\ target'[t] = target[t]
        PROVE Safe'
    <3>1. /\ target[s] = autoboot.tryboot /\ running = autoboot.all
          /\ autoboot.all # target[s] /\ stage = "linux" /\ ~trial
      BY <2>9, <1>0 DEF WritersAim, FileValid, ValidAB, OtherPair, TypeOK, InstallWriting
    <3>2. FileValid' /\ CommittedBootable' /\ RunningWhole'
      BY <2>9, <3>1, <1>0 DEF FileValid, ValidAB, CommittedBootable, RunningWhole, Bootable,
                              Signed, TypeOK
    <3>3. WritersAim'
      BY <2>9, <3>1, <1>0 DEF WritersAim, InstallWriting, CommitWriting
    <3>4. QED
      BY <3>2, <3>3
  <2>10. CASE DdStart(s)
    BY <2>10, <2>9, <1>0 DEF DdStart, Step, ROOT_PART, RootDevice, TypeOK, InstallWriting
  <2>11. CASE DdEnd(s)
    BY <2>11, <2>9, <1>0 DEF DdEnd, Step, ROOT_PART, RootDevice, TypeOK, InstallWriting
  <2>12. ASSUME NEW fn \in {"img", "sig"}, BootFileOpen(s, fn) PROVE Safe'
    BY <2>12, <2>9, <1>0 DEF BootFileOpen, FileStep, Step, TypeOK, InstallWriting
  <2>13. ASSUME NEW fn \in {"img", "sig"}, BootFileWrite(s, fn) PROVE Safe'
    BY <2>13, <2>9, <1>0 DEF BootFileWrite, FileStep, Answer, TypeOK, InstallWriting
  <2>14. QED
    BY <1>3, <2>1, <2>3, <2>4, <2>5, <2>6, <2>7, <2>8, <2>10, <2>11, <2>12, <2>13 DEF Work
<1>4. ASSUME RebootFires \/ PowerLoss PROVE Safe'
  <2>1. Down
    BY <1>4 DEF RebootFires, PowerLoss
  <2>2. FileValid' /\ CommittedBootable'
    BY <2>1 DEF Down, FileValid, ValidAB, CommittedBootable, Bootable, Signed
  <2>3. WritersAim'
    BY <2>1 DEF Down, WritersAim, InstallWriting, CommitWriting
  <2>4. RunningWhole'
    BY <2>1 DEF Down, RunningWhole
  <2>5. QED
    BY <2>2, <2>3, <2>4
<1>5. ASSUME BootStep PROVE Safe'
  <2> USE <1>0 DEF FileValid, ValidAB, CommittedBootable, RunningWhole, WritersAim, Bootable,
                   Signed, MyVersion, InstallWriting, CommitWriting
  <2>1. CASE FirmwareBoot
    BY <2>1 DEF FirmwareBoot, BootChoice
  <2>2. CASE UBootRefuse
    BY <2>2 DEF UBootRefuse
  <2>3. CASE UBootIncrement
    BY <2>3 DEF UBootIncrement, MayAdvance, TypeOK
  <2>4. CASE UBootHandoff
    BY <2>4 DEF UBootHandoff
  <2>5. QED
    BY <1>5, <2>1, <2>2, <2>3, <2>4 DEF BootStep
<1>6. ASSUME UNCHANGED vars PROVE Safe'
  <2>1. FileValid' /\ CommittedBootable' /\ RunningWhole'
    BY <1>6 DEF vars, FileValid, ValidAB, CommittedBootable, RunningWhole, Bootable, Signed
  <2>2. WritersAim'
    BY <1>6 DEF vars, WritersAim
  <2>3. QED
    BY <2>1, <2>2
<1>7. Safe'
  BY <1>2, <1>3, <1>4, <1>5, <1>6 DEF Next
<1>8. QED
  BY <1>0, <1>7

\* IInv holds in every reachable state.
LEMMA Invariant == Spec => []IInv
BY InvInit, InvStep, PTL DEF Spec

\* Whatever mixture of requests, torn writes, failed trials and power losses, the pair
\* autoboot.txt names is one the board can boot.
THEOREM NeverBricked == Spec => []CommittedBootable
<1>1. IInv => CommittedBootable
  BY DEF IInv
<1>2. QED
  BY <1>1, Invariant, PTL

-----------------------------------------------------------------------------
(* The only steps that move the committed pair and the counter.            *)

\* Of all steps only the rename in commit changes autoboot.txt, and only U-Boot's
\* increment changes the counter.
LEMMA OnlyWriters ==
  ASSUME [Next]_vars
  PROVE  /\ autoboot' # autoboot => \E s \in Session : CommitRename(s)
         /\ counter' # counter => UBootIncrement
<1> USE DEF disk, fw, mounts, job
<1>1. ASSUME NEW s \in Session, Request(s) PROVE UNCHANGED <<autoboot, counter>>
  BY <1>1 DEF Request, Status, Tryboot, Commit, Reboot, Install, InstallRefused
<1>2. ASSUME NEW s \in Session, Work(s)
      PROVE UNCHANGED counter /\ (UNCHANGED autoboot \/ CommitRename(s))
  BY <1>2 DEF Work, MountP1, MountP1Busy, StatusRead, InstallRead, StagedRootMismatch,
       DdStart, DdEnd, ReadbackRoot, MountBoot, MountBootBusy, BootFileOpen, BootFileWrite,
       InstallDone, TrybootRead, CommitRead, CommitRename, CommitDone
<1>3. CASE RebootFires \/ PowerLoss
  BY <1>3 DEF RebootFires, PowerLoss, Down
<1>4. CASE BootStep
  BY <1>4 DEF BootStep, FirmwareBoot, UBootRefuse, UBootIncrement, UBootHandoff
<1>5. CASE UNCHANGED vars
  BY <1>5 DEF vars
<1>6. QED
  BY <1>1, <1>2, <1>3, <1>4, <1>5 DEF Next

\* In every behaviour the committed pair changes only to the whole pair that is running
\* as a trial.
THEOREM CommitsOnlyTrials == Spec => CommitsOnlyTheProvenTrial
<1>1. ASSUME IInv, [Next]_vars, autoboot' # autoboot
      PROVE  /\ stage = "linux" /\ trial
             /\ autoboot'.all = running /\ autoboot.tryboot = running
             /\ Bootable(running)
  <2>1. PICK s \in Session : CommitRename(s)
    BY <1>1, OnlyWriters
  <2>2. pc[s] = "co_rename" /\ autoboot' = AUTOBOOT(target[s])
    BY <2>1 DEF CommitRename, Step
  <2>3. stage = "linux" /\ trial /\ target[s] = running
    BY <1>1, <2>2 DEF IInv, WritersAim, CommitWriting
  <2>4. Bootable(running)
    BY <1>1, <2>3 DEF IInv, RunningWhole
  <2>5. autoboot'.all = running
    BY <2>2, <2>3 DEF AUTOBOOT
  <2>6. autoboot.tryboot = running
    BY <1>1, <2>2, <2>3 DEF IInv, TypeOK, FileValid, ValidAB, AUTOBOOT, OtherPair
  <2>7. QED
    BY <2>3, <2>4, <2>5, <2>6
<1>2. QED
  BY <1>1, Invariant, PTL DEF Spec, CommitsOnlyTheProvenTrial
=============================================================================
