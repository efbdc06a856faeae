-------------------------- MODULE OtaPromises_proofs --------------------------
(* What an ok of the agent is worth, what stays untouched, and that a board   *)
(* under update implements CommittedRelease: consequences of the invariant    *)
(* proved in OtaBoard_proofs, for any number of sessions, images and bundles. *)
EXTENDS OtaBoard_proofs

USE SessionAssumption, ImageAssumption, ManifestAssumption
    DEF Pair, Content

-----------------------------------------------------------------------------
(* Who writes what.                                                        *)

\* The agent's rule for the root of a pair and U-Boot's never meet on two pairs.
LEMMA RootsApart ==
  ASSUME NEW p \in Pair, NEW q \in Pair, p # q
  PROVE  RootDevice(p) # ROOT_PART(q)
BY DEF RootDevice, ROOT_PART

\* The only steps that write a root partition or a boot file belong to an install
\* that has settled on a pair, and leave the other pair alone.
LEMMA OnlyInstallWrites ==
  ASSUME TypeOK, [Next]_vars
  PROVE  \/ UNCHANGED <<root, boot>>
         \/ \E s \in Session :
              /\ pc[s] \in InstallWriting
              /\ UNCHANGED <<autoboot, fw>>
              /\ \A p \in Pair \ {target[s]} :
                   boot'[p] = boot[p] /\ root'[RootDevice(p)] = root[RootDevice(p)]
<1> USE DEF disk, fw, mounts, job
<1>1. ASSUME NEW s \in Session, Request(s) PROVE UNCHANGED <<root, boot>>
  BY <1>1 DEF Request, Status, Tryboot, Commit, Reboot, Install, InstallRefused
<1>2. ASSUME NEW s \in Session, Work(s)
      PROVE  \/ UNCHANGED <<root, boot>>
             \/ /\ pc[s] \in InstallWriting
                /\ UNCHANGED <<autoboot, fw>>
                /\ \A p \in Pair \ {target[s]} :
                     boot'[p] = boot[p] /\ root'[RootDevice(p)] = root[RootDevice(p)]
  <2>1. ASSUME DdStart(s) \/ DdEnd(s)
        PROVE  /\ pc[s] \in InstallWriting
               /\ UNCHANGED <<autoboot, fw, boot>>
               /\ \A p \in Pair \ {target[s]} : root'[RootDevice(p)] = root[RootDevice(p)]
    <3>1. pc[s] \in InstallWriting /\ target[s] \in Pair
      BY <2>1 DEF DdStart, DdEnd, Step, TypeOK, InstallWriting
    <3>2. UNCHANGED <<autoboot, fw, boot>>
      BY <2>1 DEF DdStart, DdEnd
    <3>3. \E c : root' = [root EXCEPT ![ROOT_PART(target[s])] = c]
      BY <2>1 DEF DdStart, DdEnd
    <3>4. \A p \in Pair \ {target[s]} : RootDevice(p) # ROOT_PART(target[s])
      BY <3>1, RootsApart
    <3>5. QED
      BY <3>1, <3>2, <3>3, <3>4 DEF TypeOK, RootDevice
  <2>2. ASSUME NEW fn \in {"img", "sig"}, BootFileOpen(s, fn) \/ BootFileWrite(s, fn)
        PROVE  /\ pc[s] \in InstallWriting
               /\ UNCHANGED <<autoboot, fw, root>>
               /\ \A p \in Pair \ {target[s]} : boot'[p] = boot[p]
    <3>1. pc[s] \in {"img_open", "img_write", "sig_open", "sig_write"}
      <4>1. pc[s] = FileStep[fn].open \/ pc[s] = FileStep[fn].write
        BY <2>2 DEF BootFileOpen, BootFileWrite, Step
      <4>2. QED
        BY <4>1 DEF FileStep
    <3>2. UNCHANGED <<autoboot, fw, root>>
      BY <2>2 DEF BootFileOpen, BootFileWrite
    <3>3. \/ boot' = [boot EXCEPT ![target[s]][fn] = Torn]
          \/ boot' = [boot EXCEPT ![target[s]][fn] = man[s][fn]]
          \/ boot' = boot
      <4>1. CASE BootFileOpen(s, fn)
        BY <4>1 DEF BootFileOpen
      <4>2. CASE BootFileWrite(s, fn)
        BY <4>2 DEF BootFileWrite
      <4>3. QED
        BY <2>2, <4>1, <4>2
    <3>4. QED
      BY <3>1, <3>2, <3>3 DEF TypeOK, InstallWriting
  <2>3. CASE \/ MountP1(s) \/ MountP1Busy(s) \/ StatusRead(s) \/ InstallRead(s)
             \/ StagedRootMismatch(s) \/ ReadbackRoot(s) \/ MountBoot(s) \/ MountBootBusy(s)
             \/ InstallDone(s) \/ TrybootRead(s) \/ CommitRead(s) \/ CommitRename(s)
             \/ CommitDone(s)
    BY <2>3 DEF MountP1, MountP1Busy, StatusRead, InstallRead, StagedRootMismatch,
         ReadbackRoot, MountBoot, MountBootBusy, InstallDone, TrybootRead, CommitRead,
         CommitRename, CommitDone
  <2>4. QED
    BY <1>2, <2>1, <2>2, <2>3 DEF Work
<1>3. CASE RebootFires \/ PowerLoss
  BY <1>3 DEF RebootFires, PowerLoss, Down
<1>4. CASE BootStep
  BY <1>4 DEF BootStep, FirmwareBoot, UBootRefuse, UBootIncrement, UBootHandoff
<1>5. CASE UNCHANGED vars
  BY <1>5 DEF vars
<1>6. QED
  BY <1>1, <1>2, <1>3, <1>4, <1>5 DEF Next

\* What runs is left alone by every step, and so is the committed pair.
LEMMA RunningStep ==
  ASSUME IInv, [Next]_vars
  PROVE  /\ stage \in {"uboot", "linux"} =>
              /\ root'[RootDevice(running)] = root[RootDevice(running)]
              /\ boot'[running] = boot[running]
         /\ boot'[autoboot.all] = boot[autoboot.all]
<1>0. TypeOK /\ running \in Pair /\ autoboot.all \in Pair
  BY DEF IInv, TypeOK
<1>1. CASE UNCHANGED <<root, boot>>
  BY <1>1
<1>2. ASSUME NEW s \in Session, pc[s] \in InstallWriting,
             \A p \in Pair \ {target[s]} :
               boot'[p] = boot[p] /\ root'[RootDevice(p)] = root[RootDevice(p)]
      PROVE  running # target[s] /\ autoboot.all # target[s]
  BY <1>0, <1>2 DEF IInv, WritersAim, FileValid, ValidAB, OtherPair
<1>3. QED
  BY <1>0, <1>1, <1>2, OnlyInstallWrites

\* Where the board stands in its boot changes with a reset or a boot step only.
LEMMA OnlyResetsAndBoots ==
  ASSUME [Next]_vars
  PROVE  UNCHANGED <<stage, running, trial>> \/ Down \/ BootStep
<1> USE DEF disk, fw, mounts, job
<1>1. ASSUME NEW s \in Session, Request(s) PROVE UNCHANGED <<stage, running, trial>>
  BY <1>1 DEF Request, Status, Tryboot, Commit, Reboot, Install, InstallRefused
<1>2. ASSUME NEW s \in Session, Work(s) PROVE UNCHANGED <<stage, running, trial>>
  BY <1>2 DEF Work, MountP1, MountP1Busy, StatusRead, InstallRead, StagedRootMismatch,
       DdStart, DdEnd, ReadbackRoot, MountBoot, MountBootBusy, BootFileOpen, BootFileWrite,
       InstallDone, TrybootRead, CommitRead, CommitRename, CommitDone
<1>3. CASE UNCHANGED vars
  BY <1>3 DEF vars
<1>4. QED
  BY <1>1, <1>2, <1>3 DEF Next, RebootFires, PowerLoss

\* No release has its own partitions written while it boots or runs, whoever installs
\* what in the meantime.
THEOREM RunningPairIsSafe == Spec => RunningPairUntouched
<1>1. ASSUME IInv, [Next]_vars, stage \in {"uboot", "linux"}
      PROVE  /\ root'[RootDevice(running)] = root[RootDevice(running)]
             /\ boot'[running] = boot[running]
  BY <1>1, RunningStep
<1>2. QED
  BY <1>1, Invariant, PTL DEF Spec, RunningPairUntouched

-----------------------------------------------------------------------------
(* The floor.                                                              *)

\* U-Boot hands over to a committed release only when the counter has caught up with
\* it, and nothing that happens under Linux takes the two apart.
THEOREM FloorIsReached == Spec => []FloorReached
<1>1. Init => FloorReached
  BY DEF Init, FloorReached
<1>2. ASSUME IInv, FloorReached, [Next]_vars PROVE FloorReached'
  <2>0. TypeOK /\ TypeOK' /\ IInv'
    BY <1>2, InvStep DEF IInv
  <2> SUFFICES ASSUME stage' = "linux", ~trial'
               PROVE  counter' = Version[boot'[running'].img]
    BY <2>0 DEF FloorReached, IInv, RunningWhole
  <2>1. CASE Down
    BY <2>1 DEF Down
  <2>2. CASE BootStep
    <3>1. UBootHandoff
      BY <2>2 DEF BootStep, FirmwareBoot, UBootRefuse, UBootIncrement, UBootHandoff,
                  disk, mounts, job, IInv, WritersAim, FloorReached
    <3>2. Signed(running)
      BY <1>2, <3>1 DEF IInv, RunningWhole, UBootHandoff
    <3>3. MyVersion \in Nat /\ counter \in Nat
      BY <2>0, <3>2 DEF TypeOK, MyVersion, Signed
    <3>4. MyVersion >= counter /\ ~MayAdvance /\ UNCHANGED <<boot, running, trial, counter>>
      BY <3>1 DEF UBootHandoff, disk
    <3>5. MyVersion = counter
      BY <3>3, <3>4 DEF MayAdvance
    <3>6. QED
      BY <3>4, <3>5 DEF MyVersion
  <2>3. CASE UNCHANGED <<stage, running, trial>>
    <3>1. counter' = counter
      BY <1>2, <2>3, OnlyWriters DEF UBootIncrement
    <3>2. boot'[running] = boot[running]
      BY <1>2, <2>3, RunningStep
    <3>3. QED
      BY <1>2, <2>3, <3>1, <3>2 DEF FloorReached
  <2>4. QED
    BY <1>2, <2>1, <2>2, <2>3, OnlyResetsAndBoots
<1>3. QED
  BY <1>1, <1>2, Invariant, PTL DEF Spec

-----------------------------------------------------------------------------
(* What a handler holds and what its ok says.                              *)

\* The steps of a handler that has p1 mounted, or a boot partition.
HoldsP1 == {"st_read", "in_read", "tb_read", "co_read", "co_rename", "co_done"}
HoldsBoot == {"img_open", "img_write", "sig_open", "sig_write", "in_done"}

\* No path through a handler, refused, failed or cut off, leaves a mount point taken
\* behind it.
THEOREM MountsAreReleased == Spec => []NoMountLeak
<1> DEFINE Held == /\ mntP1 # None => pc[mntP1] \in HoldsP1
                   /\ mntBoot # None => pc[mntBoot] \in HoldsBoot
<1>1. Init => NoMountLeak
  BY DEF Init, NoMountLeak
<1>2. ASSUME TypeOK, Held, [Next]_vars PROVE Held'
  <2> USE <1>2 DEF TypeOK, disk, fw, mounts, job, HoldsP1, HoldsBoot
  <2>1. ASSUME NEW s \in Session,
               \A t \in Session \ {s} : pc'[t] = pc[t],
               mntP1' \in {mntP1, None} \/ (mntP1' = s /\ pc'[s] \in HoldsP1),
               mntP1' = s => pc'[s] \in HoldsP1,
               mntBoot' \in {mntBoot, None} \/ (mntBoot' = s /\ pc'[s] \in HoldsBoot),
               mntBoot' = s => pc'[s] \in HoldsBoot
        PROVE Held'
    BY <2>1
  <2>2. ASSUME NEW s \in Session, Request(s) PROVE Held'
    <3>1. /\ UNCHANGED mounts /\ pc[s] = "idle"
          /\ \A t \in Session \ {s} : pc'[t] = pc[t]
      BY <2>2 DEF Request, Status, Tryboot, Commit, Reboot, Install, InstallRefused,
                  Serving, Accept, Answer
    <3>2. QED
      BY <3>1, <2>1
  <2>3. ASSUME NEW s \in Session, Work(s) PROVE Held'
    <3>1. CASE MountP1(s)
      <4>1. pc'[s] \in HoldsP1 /\ pc[s] \notin HoldsBoot /\ mntP1' = s /\ mntBoot' = mntBoot
        BY <3>1 DEF MountP1, AfterMount
      <4>2. \A t \in Session \ {s} : pc'[t] = pc[t]
        BY <3>1 DEF MountP1
      <4>3. QED
        BY <4>1, <4>2, <2>1
    <3>2. CASE MountP1Busy(s)
      <4>1. pc[s] \notin HoldsP1 \cup HoldsBoot /\ UNCHANGED mounts
        BY <3>2 DEF MountP1Busy, AfterMount
      <4>2. \A t \in Session \ {s} : pc'[t] = pc[t]
        BY <3>2 DEF MountP1Busy, Answer
      <4>3. QED
        BY <4>1, <4>2, <2>1
    <3>3. CASE StatusRead(s) \/ TrybootRead(s) \/ CommitDone(s)
      BY <3>3, <2>1 DEF StatusRead, TrybootRead, CommitDone, Answer
    <3>4. CASE InstallRead(s) \/ CommitRead(s)
      BY <3>4, <2>1 DEF InstallRead, CommitRead, Answer
    <3>5. CASE StagedRootMismatch(s) \/ MountBootBusy(s) \/ ReadbackRoot(s)
      BY <3>5, <2>1 DEF StagedRootMismatch, MountBootBusy, ReadbackRoot, Answer
    <3>6. CASE DdStart(s) \/ DdEnd(s)
      BY <3>6, <2>1 DEF DdStart, DdEnd, Step
    <3>7. CASE MountBoot(s)
      BY <3>7, <2>1 DEF MountBoot, Step
    <3>8. ASSUME NEW fn \in {"img", "sig"}, BootFileOpen(s, fn) PROVE Held'
      BY <3>8, <2>1 DEF BootFileOpen, FileStep, Step
    <3>9. ASSUME NEW fn \in {"img", "sig"}, BootFileWrite(s, fn) PROVE Held'
      BY <3>9, <2>1 DEF BootFileWrite, FileStep, Answer
    <3>10. CASE InstallDone(s)
      BY <3>10, <2>1 DEF InstallDone, Answer
    <3>11. CASE CommitRename(s)
      BY <3>11, <2>1 DEF CommitRename, Step
    <3>12. QED
      BY <2>3, <3>1, <3>2, <3>3, <3>4, <3>5, <3>6, <3>7, <3>8, <3>9, <3>10, <3>11 DEF Work
  <2>4. CASE RebootFires \/ PowerLoss
    BY <2>4 DEF RebootFires, PowerLoss, Down
  <2>5. CASE BootStep
    BY <2>5 DEF BootStep, FirmwareBoot, UBootRefuse, UBootIncrement, UBootHandoff
  <2>6. CASE UNCHANGED vars
    BY <2>6 DEF vars
  <2>7. QED
    BY <2>2, <2>3, <2>4, <2>5, <2>6 DEF Next
<1>3. NoMountLeak <=> Held
  BY DEF NoMountLeak, HoldsP1, HoldsBoot
<1>4. TypeOK /\ NoMountLeak /\ [Next]_vars => NoMountLeak'
  <2>1. NoMountLeak' <=> Held'
    BY DEF NoMountLeak, HoldsP1, HoldsBoot
  <2>2. QED
    BY <1>2, <1>3, <2>1
<1>5. QED
  BY <1>1, <1>4, TypeCorrect, PTL DEF Spec

-----------------------------------------------------------------------------
\* When a commit is about to say ok, the file names the pair it ran from, and only a
\* reset can come in between: no other handler writes the file in the same boot
\* anything else.
THEOREM CommitsAreDurable == Spec => []CommitIsDurable
<1>1. Init => CommitIsDurable
  BY DEF Init, CommitIsDurable
<1>2. ASSUME IInv, CommitIsDurable, [Next]_vars PROVE CommitIsDurable'
  <2>0. TypeOK /\ TypeOK' /\ IInv'
    BY <1>2, InvStep DEF IInv
  <2>1. CASE \E s \in Session : CommitRename(s)
    <3>1. PICK s \in Session : CommitRename(s)
      BY <2>1
    <3>2. target[s] = running /\ autoboot' = AUTOBOOT(running) /\ running' = running
      BY <1>2, <3>1 DEF IInv, WritersAim, CommitWriting, CommitRename, Step, fw
    <3>3. QED
      BY <3>2 DEF AUTOBOOT, CommitIsDurable
  <2>2. CASE ~(\E s \in Session : CommitRename(s))
    <3>1. autoboot' = autoboot
      BY <1>2, <2>2, OnlyWriters
    <3>2. ASSUME NEW s \in Session, pc'[s] = "co_done"
          PROVE  pc[s] = "co_done" /\ running' = running
      <4> USE DEF disk, fw, mounts, job, TypeOK
      <4>1. ASSUME NEW t \in Session, Request(t) PROVE pc[s] = "co_done" /\ running' = running
        BY <2>0, <3>2, <4>1 DEF Request, Status, Tryboot, Commit, Reboot, Install,
             InstallRefused, Accept, Answer
      <4>2. ASSUME NEW t \in Session, Work(t) PROVE pc[s] = "co_done" /\ running' = running
        <5>1. running' = running
          BY <4>2 DEF Work, MountP1, MountP1Busy, StatusRead, InstallRead,
               StagedRootMismatch, DdStart, DdEnd, ReadbackRoot, MountBoot, MountBootBusy,
               BootFileOpen, BootFileWrite, InstallDone, TrybootRead, CommitRead,
               CommitRename, CommitDone
        <5>2. s # t => pc'[s] = pc[s]
          BY <2>0, <4>2 DEF Work, MountP1, MountP1Busy, StatusRead, InstallRead,
               StagedRootMismatch, DdStart, DdEnd, ReadbackRoot, MountBoot, MountBootBusy,
               BootFileOpen, BootFileWrite, InstallDone, TrybootRead, CommitRead,
               CommitRename, CommitDone, Step, Answer
        <5>3. pc'[t] # "co_done"
          <6>1. CASE MountP1(t)
            BY <2>0, <6>1 DEF MountP1, AfterMount
          <6>2. ASSUME NEW fn \in {"img", "sig"}, BootFileOpen(t, fn) \/ BootFileWrite(t, fn)
                PROVE  pc'[t] # "co_done"
            BY <2>0, <6>2 DEF BootFileOpen, BootFileWrite, FileStep, Step, Answer
          <6>3. CASE \/ MountP1Busy(t) \/ StatusRead(t) \/ InstallRead(t)
                     \/ StagedRootMismatch(t) \/ DdStart(t) \/ DdEnd(t) \/ ReadbackRoot(t)
                     \/ MountBoot(t) \/ MountBootBusy(t) \/ InstallDone(t)
                     \/ TrybootRead(t) \/ CommitRead(t) \/ CommitDone(t)
            BY <2>0, <6>3 DEF MountP1Busy, StatusRead, InstallRead, StagedRootMismatch,
                 DdStart, DdEnd, ReadbackRoot, MountBoot, MountBootBusy, InstallDone,
                 TrybootRead, CommitRead, CommitDone, Step, Answer
          <6>4. QED
            BY <2>2, <4>2, <6>1, <6>2, <6>3 DEF Work
        <5>4. QED
          BY <3>2, <5>1, <5>2, <5>3
      <4>3. CASE RebootFires \/ PowerLoss
        BY <3>2, <4>3 DEF RebootFires, PowerLoss, Down
      <4>4. CASE BootStep
        <5>1. pc' = pc /\ (stage = "linux" => running' = running)
          BY <4>4 DEF BootStep, FirmwareBoot, UBootRefuse, UBootIncrement, UBootHandoff
        <5>2. pc[s] = "co_done" => stage = "linux"
          BY <1>2 DEF IInv, WritersAim
        <5>3. QED
          BY <3>2, <5>1, <5>2
      <4>5. CASE UNCHANGED vars
        BY <3>2, <4>5 DEF vars
      <4>6. QED
        BY <1>2, <4>1, <4>2, <4>3, <4>4, <4>5 DEF Next
    <3>3. QED
      BY <1>2, <3>1, <3>2 DEF CommitIsDurable
  <2>3. QED
    BY <2>1, <2>2
<1>3. QED
  BY <1>1, <1>2, Invariant, PTL DEF Spec

-----------------------------------------------------------------------------
(* What an install that says ok has written, when one client installs.     *)

\* What has been verified or copied so far is what the manifest names.
RootIsMeant(s) == root[ROOT_PART(target[s])] = man[s].root
Verified == {"in_bmount", "img_open", "img_write", "sig_open", "sig_write", "in_done"}
Copied(s) ==
  /\ pc[s] \in InstallHolding => s \in Installer
  /\ pc[s] \in Verified => RootIsMeant(s)
  /\ pc[s] \in {"sig_open", "sig_write", "in_done"} => boot[target[s]].img = man[s].img
  /\ pc[s] = "in_done" => boot[target[s]].sig = man[s].sig
AllCopied == \A s \in Session : Copied(s)

\* With a single installing session nobody else writes the pair between a readback
\* and the ok.
LEMMA CopiedStep ==
  ASSUME \A s, t \in Installer : s = t, TypeOK, AllCopied, [Next]_vars
  PROVE  AllCopied'
<1> USE DEF disk, fw, mounts, job, InstallHolding, InstallWriting, Verified
<1> SUFFICES ASSUME NEW s \in Session PROVE Copied(s)'
  BY DEF AllCopied
<1>0. \A t \in Session : Copied(t)
  BY DEF AllCopied
<1>1. ASSUME pc'[s] \notin InstallHolding PROVE Copied(s)'
  BY <1>0, <1>1 DEF Copied
<1>2. ASSUME pc'[s] = pc[s], man'[s] = man[s], target'[s] = target[s], UNCHANGED <<root, boot>>
      PROVE Copied(s)'
  BY <1>0, <1>2 DEF Copied, RootIsMeant
<1>3. ASSUME NEW t \in Session, Request(t) PROVE Copied(s)'
  <2>1. UNCHANGED <<root, boot>>
    BY <1>3 DEF Request, Status, Tryboot, Commit, Reboot, Install, InstallRefused
  <2>2. CASE s # t
    <3>1. pc'[s] = pc[s] /\ man'[s] = man[s] /\ target'[s] = target[s]
      BY <1>3, <2>2 DEF TypeOK, Request, Status, Tryboot, Commit, Reboot, Install,
           InstallRefused, Accept, Answer
    <3>2. QED
      BY <1>2, <2>1, <3>1
  <2>3. CASE s = t
    <3>1. \/ pc'[s] \notin InstallHolding
          \/ pc'[s] = "in_mount" /\ s \in Installer
      BY <1>3, <2>3 DEF TypeOK, Request, Status, Tryboot, Commit, Reboot, Install,
           InstallRefused, Accept, Answer
    <3>2. QED
      BY <1>0, <1>1, <3>1 DEF Copied
  <2>4. QED
    BY <2>2, <2>3
<1>4. ASSUME NEW t \in Session, Work(t), s # t PROVE Copied(s)'
  <2>1. pc'[s] = pc[s] /\ man'[s] = man[s] /\ target'[s] = target[s]
    BY <1>4 DEF TypeOK, Work, MountP1, MountP1Busy, StatusRead, InstallRead,
         StagedRootMismatch, DdStart, DdEnd, ReadbackRoot, MountBoot, MountBootBusy,
         BootFileOpen, BootFileWrite, InstallDone, TrybootRead, CommitRead,
         CommitRename, CommitDone, Step, Answer
  <2>2. CASE pc[t] \in InstallHolding
    <3>1. t \in Installer /\ s \notin Installer
      BY <1>0, <1>4, <2>2 DEF Copied
    <3>2. QED
      BY <1>0, <1>1, <2>1, <3>1 DEF Copied
  <2>3. CASE pc[t] \notin InstallHolding
    <3>1. ASSUME NEW fn \in {"img", "sig"} PROVE ~BootFileOpen(t, fn) /\ ~BootFileWrite(t, fn)
      <4>1. FileStep[fn].open \in InstallHolding /\ FileStep[fn].write \in InstallHolding
        BY DEF FileStep
      <4>2. QED
        BY <2>3, <4>1 DEF BootFileOpen, BootFileWrite, Step
    <3>2. UNCHANGED <<root, boot>>
      BY <1>4, <2>3, <3>1 DEF Work, MountP1, MountP1Busy, StatusRead, InstallRead,
           StagedRootMismatch, DdStart, DdEnd, ReadbackRoot, MountBoot, MountBootBusy,
           InstallDone, TrybootRead, CommitRead, CommitRename, CommitDone, Step
    <3>3. QED
      BY <1>2, <2>1, <3>2
  <2>4. QED
    BY <2>2, <2>3
<1>5. ASSUME Work(s) PROVE Copied(s)'
  <2>1. CASE MountP1(s)
    BY <1>0, <2>1 DEF MountP1, AfterMount, TypeOK, Copied
  <2>2. CASE \/ MountP1Busy(s) \/ StatusRead(s) \/ StagedRootMismatch(s) \/ MountBootBusy(s)
             \/ InstallDone(s) \/ TrybootRead(s) \/ CommitRead(s) \/ CommitRename(s)
             \/ CommitDone(s)
    BY <1>1, <2>2 DEF TypeOK, MountP1Busy, StatusRead, StagedRootMismatch, MountBootBusy,
         InstallDone, TrybootRead, CommitRead, CommitRename, CommitDone, Step, Answer
  <2>3. CASE InstallRead(s) \/ DdStart(s) \/ DdEnd(s)
    <3>1. pc[s] \in InstallHolding /\ pc'[s] \in {"idle", "in_root", "in_dd", "in_verify"}
      BY <2>3 DEF TypeOK, InstallRead, DdStart, DdEnd, Step, Answer
    <3>2. QED
      BY <1>0, <3>1 DEF Copied
  <2>4. CASE ReadbackRoot(s)
    <3>1. CASE RootVerified(s) /\ pc' = [pc EXCEPT ![s] = "in_bmount"] /\ UNCHANGED <<job, reply>>
      BY <1>0, <2>4, <3>1 DEF ReadbackRoot, RootVerified, RootIsMeant, TypeOK, Copied
    <3>2. CASE Answer(s, FALSE)
      BY <1>1, <3>2 DEF Answer, TypeOK
    <3>3. QED
      BY <2>4, <3>1, <3>2 DEF ReadbackRoot
  <2>5. CASE MountBoot(s)
    BY <1>0, <2>5 DEF MountBoot, Step, RootIsMeant, TypeOK, Copied
  <2>6. CASE BootFileOpen(s, "img")
    BY <1>0, <2>6 DEF BootFileOpen, FileStep, Step, RootIsMeant, TypeOK, Copied
  <2>7. CASE BootFileOpen(s, "sig")
    BY <1>0, <2>7 DEF BootFileOpen, FileStep, Step, RootIsMeant, TypeOK, Copied
  <2>8. CASE BootFileWrite(s, "img")
    BY <1>0, <1>1, <2>8 DEF BootFileWrite, FileStep, Answer, RootIsMeant, TypeOK, Copied
  <2>9. CASE BootFileWrite(s, "sig")
    BY <1>0, <1>1, <2>9 DEF BootFileWrite, FileStep, Answer, RootIsMeant, TypeOK, Copied
  <2>10. QED
    BY <1>5, <2>1, <2>2, <2>3, <2>4, <2>5, <2>6, <2>7, <2>8, <2>9 DEF Work
<1>6. CASE RebootFires \/ PowerLoss
  BY <1>1, <1>6 DEF RebootFires, PowerLoss, Down
<1>7. CASE BootStep
  BY <1>2, <1>7 DEF BootStep, FirmwareBoot, UBootRefuse, UBootIncrement, UBootHandoff
<1>8. CASE UNCHANGED vars
  BY <1>2, <1>8 DEF vars
<1>9. QED
  BY <1>3, <1>4, <1>5, <1>6, <1>7, <1>8 DEF Next

\* With one installing client an ok of install says what the pair holds, whatever the
\* other clients ask for meanwhile. The proof does not need the handler to be alone on
\* its pair; with two installing clients the statement is lost (run two_installers).
THEOREM LoneInstallIsHonest ==
  ASSUME \A s, t \in Installer : s = t
  PROVE  Spec => []InstallHonest
<1>1. Init => AllCopied
  BY DEF Init, AllCopied, Copied, InstallHolding, InstallWriting, Verified
<1>2. TypeOK /\ AllCopied /\ [Next]_vars => AllCopied'
  BY CopiedStep
<1>3. TypeOK /\ AllCopied => InstallHonest
  <2> SUFFICES ASSUME TypeOK, NEW s \in Session, Copied(s), pc[s] = "in_done"
               PROVE  /\ root[ROOT_PART(target[s])] = man[s].root
                      /\ boot[target[s]] = [img |-> man[s].img, sig |-> man[s].sig]
    BY DEF InstallHonest, AllCopied
  <2>1. target[s] \in Pair
    BY DEF TypeOK, InstallWriting
  <2>2. QED
    BY <2>1 DEF TypeOK, Copied, RootIsMeant, Verified
<1>4. QED
  BY <1>1, <1>2, <1>3, TypeCorrect, PTL DEF Spec

-----------------------------------------------------------------------------
(* The board implements CommittedRelease.                                  *)

\* Every step of the board is a step of the abstract release, or none that shows.
LEMMA AbstractStep == IInv /\ [Next]_vars => [Abstract!CNext]_(Abstract!cvars)
<1> DEFINE committed == boot[autoboot.all].img
           up == IF stage = "linux" THEN boot[running].img ELSE None
<1> SUFFICES ASSUME IInv, [Next]_vars
             PROVE  \/ Abstract!CNext
                    \/ UNCHANGED <<committed, counter, up>>
  BY DEF Abstract!cvars
<1>0. TypeOK /\ boot'[autoboot.all] = boot[autoboot.all]
  BY RunningStep DEF IInv
<1>1. ASSUME UNCHANGED <<autoboot, counter>> PROVE UNCHANGED <<committed, counter>>
  BY <1>0, <1>1
<1>2. CASE \E s \in Session : CommitRename(s)
  <2>1. PICK s \in Session : CommitRename(s)
    BY <1>2
  <2>2. /\ autoboot' = AUTOBOOT(target[s])
        /\ UNCHANGED <<boot, counter, stage, running>>
        /\ stage = "linux" /\ target[s] = running
    BY <2>1 DEF CommitRename, Step, fw, IInv, WritersAim, CommitWriting
  <2>3. boot[running].img \in Image
    BY <2>2 DEF IInv, RunningWhole, Bootable, Signed
  <2>4. Abstract!Promote
    BY <2>2, <2>3 DEF Abstract!Promote, AUTOBOOT
  <2>5. QED
    BY <2>4 DEF Abstract!CNext
<1>3. CASE UBootIncrement
  <2>1. /\ stage = "uboot" /\ ~trial /\ counter < MyVersion /\ counter' = counter + 1
        /\ UNCHANGED <<boot, autoboot, stage, running>>
    BY <1>3 DEF UBootIncrement, MayAdvance, disk
  <2>2. running = autoboot.all
    BY <2>1 DEF IInv, RunningWhole
  <2>3. Abstract!RaiseFloor
    BY <2>1, <2>2 DEF Abstract!RaiseFloor, MyVersion
  <2>4. QED
    BY <2>3 DEF Abstract!CNext
<1>4. CASE ~(\E s \in Session : CommitRename(s)) /\ ~UBootIncrement
  <2>1. UNCHANGED <<autoboot, counter>>
    BY <1>4, OnlyWriters
  <2>2. CASE UNCHANGED <<stage, running, trial>>
    <3>1. stage = "linux" => boot'[running] = boot[running]
      BY RunningStep
    <3>2. QED
      BY <1>1, <2>1, <2>2, <3>1
  <2>3. CASE Down
    <3>1. up' = None
      BY <2>3 DEF Down
    <3>2. CASE up = None
      BY <1>1, <2>1, <3>1, <3>2
    <3>3. CASE up # None
      <4>1. Abstract!Stop
        BY <1>1, <2>1, <3>1, <3>3 DEF Abstract!Stop
      <4>2. QED
        BY <4>1 DEF Abstract!CNext
    <3>4. QED
      BY <3>2, <3>3
  <2>4. CASE FirmwareBoot \/ UBootRefuse
    BY <1>1, <2>1, <2>4 DEF FirmwareBoot, UBootRefuse
  <2>5. CASE UBootHandoff
    <3>1. /\ stage = "uboot" /\ MyVersion >= counter /\ stage' \in {"linux", "dead"}
          /\ UNCHANGED <<boot, running>>
      BY <2>5 DEF UBootHandoff, disk
    <3>2. CASE stage' = "dead"
      BY <1>1, <2>1, <3>1, <3>2
    <3>3. CASE stage' = "linux"
      <4>1. boot[running].img \in Image
        BY <3>1 DEF IInv, RunningWhole, Signed
      <4>2. Abstract!Start(boot[running].img)
        BY <1>1, <2>1, <3>1, <3>3 DEF Abstract!Start, MyVersion
      <4>3. QED
        BY <4>1, <4>2 DEF Abstract!CNext
    <3>4. QED
      BY <3>1, <3>2, <3>3
  <2>6. QED
    BY <1>4, <2>2, <2>3, <2>4, <2>5, OnlyResetsAndBoots DEF BootStep
<1>5. QED
  BY <1>2, <1>3, <1>4

\* Seen from outside, a board under any mixture of installs, trials, commits, resets and
\* power losses is one committed release and a floor that follows it.
THEOREM ImplementsTheRelease == Spec => ImplementsCommittedRelease
<1>1. Init => Abstract!CInit
  BY DEF Init, Abstract!CInit, AUTOBOOT
<1>2. QED
  BY <1>1, AbstractStep, Invariant, PTL DEF Spec, ImplementsCommittedRelease, Abstract!Spec
=============================================================================
