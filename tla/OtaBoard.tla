------------------------------ MODULE OtaBoard ------------------------------
(***************************************************************************)
(* One board under over-the-air update: the two release pairs on the card, *)
(* autoboot.txt, the one-shot tryboot bit, the anti-rollback counter, and  *)
(* the OTA agent (agents/rp5-ota, agents/rp5-ota-priv) serving any number  *)
(* of concurrent requests, each as the sequence of steps the code takes.   *)
(* The firmware and U-Boot, which are not part of the repository, are the  *)
(* boot actions near the end; a power loss may strike at any step.         *)
(*                                                                         *)
(* Content of a file or partition is the release image it belongs to, or   *)
(* Torn when it is no release's (half written, damaged, tampered with).    *)
(***************************************************************************)
EXTENDS Integers

CONSTANTS
  Session,       \* concurrent SSH requests the agent can be serving
  Installer,     \* the sessions that may carry an install request
  Image,         \* releases built and signed as one boot.img/boot.sig/rootfs.img
  Version,       \* the anti-rollback version compiled into each image's U-Boot
  Torn,          \* content that is no release's
  Manifest,      \* the bundles a client may stream: declared version and digests
  FactoryImage,  \* the image on both pairs when the board leaves the factory
  None           \* no session, no manifest

Pair == {1, 2}
Content == Image \cup {Torn}

ASSUME SessionAssumption == None \notin Session /\ Installer \subseteq Session
ASSUME ImageAssumption ==
  /\ Torn \notin Image
  /\ FactoryImage \in Image
  /\ Version \in [Image -> Nat \ {0}]
ASSUME ManifestAssumption ==
  /\ None \notin Manifest
  /\ Manifest \subseteq [version : Nat, factory : BOOLEAN,
                         root : Content, img : Content, sig : Content]

VARIABLES
  root,      \* [3..4 -> Content]: raw root partitions p3, p4
  boot,      \* [Pair -> boot.img and boot.sig]: the FAT boot partitions
  autoboot,  \* autoboot.txt on p1: [all] and [tryboot] boot_partition
  counter,   \* TPM NV anti-rollback counter
  bit,       \* the firmware's reset-persistent one-shot tryboot bit
  stage,     \* "reset", "uboot", "linux", or "dead" (no service came up)
  running,   \* /chosen/bootloader/partition of this boot
  trial,     \* /chosen/bootloader/tryboot of this boot
  pending,   \* delayed reboots spawned by the agent: <<kind, session>>
  mntP1,     \* session holding the mount point /run/rp5-ota-p1, or None
  mntBoot,   \* session holding /run/rp5-ota-boot, or None
  pc,        \* where each session's handler stands
  man,       \* manifest an install holds in memory
  target,    \* pair an install or a commit has settled on (0: none yet)
  reply      \* last reply of each session: "none", "ok", "refused"

disk  == <<root, boot, autoboot>>
fw    == <<counter, bit, stage, running, trial>>
mounts == <<mntP1, mntBoot>>
job   == <<man, target>>
vars  == <<root, boot, autoboot, counter, bit, stage, running, trial,
           pending, mntP1, mntBoot, pc, man, target, reply>>

-----------------------------------------------------------------------------
(* Constants and pure helpers of the agent.                                *)

\* Mutated forms used by the mutation runs stand right before the definition
\* they replace and are named Bad...; nothing else refers to them.
BadOtherPair(p) == p + 1
OtherPair(p) == IF p = 1 THEN 2 ELSE 1

BadRootPart(p) == IF p = 1 THEN 4 ELSE 3
ROOT_PART(p) == IF p = 1 THEN 3 ELSE 4

BadAutoboot(committed) == [all |-> OtherPair(committed), tryboot |-> committed]
AUTOBOOT(committed) == [all |-> committed, tryboot |-> OtherPair(committed)]

\* read_autoboot's test of what it parsed.
ValidAB(ab) == ab.tryboot = OtherPair(ab.all)

\* The step that follows a successful mount of p1, by the step that asks for it.
AfterMount == [st_mount |-> "st_read", in_mount |-> "in_read",
               tb_mount |-> "tb_read", co_mount |-> "co_read",
               co_wmount |-> "co_rename"]

\* The two boot files in the order install copies them.
FileStep == [img |-> [open |-> "img_open", write |-> "img_write", next |-> "sig_open"],
             sig |-> [open |-> "sig_open", write |-> "sig_write", next |-> "in_done"]]

PC == {"idle", "st_mount", "st_read", "in_mount", "in_read", "in_root", "in_dd",
       "in_verify", "in_bmount", "img_open", "img_write", "sig_open", "sig_write",
       "in_done", "tb_mount", "tb_read", "co_mount", "co_read", "co_wmount",
       "co_rename", "co_done"}

\* The steps at which an install writes, those at which it holds a manifest, and the
\* steps at which a commit writes.
InstallWriting == {"in_root", "in_dd", "in_verify", "in_bmount", "img_open",
                   "img_write", "sig_open", "sig_write", "in_done"}
InstallHolding == InstallWriting \cup {"in_mount", "in_read"}
CommitWriting == {"co_wmount", "co_rename", "co_done"}

Serving(s) == stage = "linux" /\ pc[s] = "idle"
Step(s, from, to) == pc[s] = from /\ pc' = [pc EXCEPT ![s] = to]

\* The handler ends: the reply goes out, the process and what it held are gone.
Answer(s, ok) ==
  /\ pc' = [pc EXCEPT ![s] = "idle"]
  /\ reply' = [reply EXCEPT ![s] = IF ok THEN "ok" ELSE "refused"]
  /\ man' = [man EXCEPT ![s] = None]
  /\ target' = [target EXCEPT ![s] = 0]

\* A new connection runs its verb; the previous reply is no longer of interest.
Accept(s, first) ==
  /\ pc' = [pc EXCEPT ![s] = first]
  /\ reply' = [reply EXCEPT ![s] = "none"]

-----------------------------------------------------------------------------
(* Mounting p1. mount fails when the mount point is already taken, and the *)
(* failure is raised before the try block: nothing is unmounted.           *)

MountP1(s) ==
  /\ pc[s] \in DOMAIN AfterMount
  /\ mntP1 = None
  /\ mntP1' = s
  /\ pc' = [pc EXCEPT ![s] = AfterMount[pc[s]]]
  /\ UNCHANGED <<disk, fw, pending, mntBoot, job, reply>>

BadMountP1Busy(s) == FALSE
MountP1Busy(s) ==
  /\ pc[s] \in DOMAIN AfterMount
  /\ mntP1 # None
  /\ Answer(s, FALSE)
  /\ UNCHANGED <<disk, fw, pending, mounts>>

-----------------------------------------------------------------------------
(* Verb status: reads autoboot.txt and reports.                            *)

Status(s) ==
  /\ Serving(s)
  /\ Accept(s, "st_mount")
  /\ UNCHANGED <<disk, fw, pending, mounts, job>>

StatusRead(s) ==
  /\ pc[s] = "st_read"
  /\ mntP1' = None
  /\ Answer(s, ValidAB(autoboot))
  /\ UNCHANGED <<disk, fw, pending, mntBoot>>

-----------------------------------------------------------------------------
(* Verb install. The bundle's digests have been checked against its        *)
(* manifest by the unprivileged half; the privileged half reads the        *)
(* manifest once, so man[s] is fixed from here on.                         *)

\* rp5-ota's own refusals.
FirstChecks(m) == ~trial /\ ~m.factory /\ m.version >= counter

Install(s, m) ==
  /\ Serving(s)
  /\ s \in Installer
  /\ FirstChecks(m)
  /\ Accept(s, "in_mount")
  /\ man' = [man EXCEPT ![s] = m]
  /\ UNCHANGED <<disk, fw, pending, mounts, target>>

InstallRefused(s, m) ==
  /\ Serving(s)
  /\ s \in Installer
  /\ ~FirstChecks(m)
  /\ Answer(s, FALSE)
  /\ UNCHANGED <<disk, fw, pending, mounts>>

\* rp5-ota-priv checks again, now with the autoboot.txt it has read.
InstallChecks(ab, m) ==
  /\ ~trial
  /\ ValidAB(ab)
  /\ ab.tryboot # running /\ ab.all = running
  /\ m.version >= counter

InstallRead(s) ==
  /\ pc[s] = "in_read"
  /\ mntP1' = None
  /\ \/ /\ InstallChecks(autoboot, man[s])
        /\ pc' = [pc EXCEPT ![s] = "in_root"]
        /\ target' = [target EXCEPT ![s] = autoboot.tryboot]
        /\ UNCHANGED <<man, reply>>
     \/ /\ ~InstallChecks(autoboot, man[s])
        /\ Answer(s, FALSE)
  /\ UNCHANGED <<disk, fw, pending, mntBoot>>

\* The staged rootfs.img no longer matches: another install emptied or refilled
\* the shared staging directory since the unprivileged half looked.
StagedRootMismatch(s) ==
  /\ pc[s] = "in_root"
  /\ Answer(s, FALSE)
  /\ UNCHANGED <<disk, fw, pending, mounts>>

\* dd: from the first block on the old root is destroyed.
DdStart(s) ==
  /\ Step(s, "in_root", "in_dd")
  /\ root' = [root EXCEPT ![ROOT_PART(target[s])] = Torn]
  /\ UNCHANGED <<boot, autoboot, fw, pending, mounts, job, reply>>

\* What the partition holds afterwards is what was meant, or not: staging may have
\* changed, another dd may have interleaved, the medium may have failed.
DdEnd(s) ==
  /\ Step(s, "in_dd", "in_verify")
  /\ \E c \in {man[s].root, Torn} : root' = [root EXCEPT ![ROOT_PART(target[s])] = c]
  /\ UNCHANGED <<boot, autoboot, fw, pending, mounts, job, reply>>

BadRootVerified(s) == TRUE
RootVerified(s) == root[ROOT_PART(target[s])] = man[s].root

ReadbackRoot(s) ==
  /\ pc[s] = "in_verify"
  /\ \/ /\ RootVerified(s)
        /\ pc' = [pc EXCEPT ![s] = "in_bmount"]
        /\ UNCHANGED <<job, reply>>
     \/ /\ ~RootVerified(s)
        /\ Answer(s, FALSE)
  /\ UNCHANGED <<disk, fw, pending, mounts>>

MountBoot(s) ==
  /\ Step(s, "in_bmount", "img_open")
  /\ mntBoot = None
  /\ mntBoot' = s
  /\ UNCHANGED <<disk, fw, pending, mntP1, job, reply>>

MountBootBusy(s) ==
  /\ pc[s] = "in_bmount"
  /\ mntBoot # None
  /\ Answer(s, FALSE)
  /\ UNCHANGED <<disk, fw, pending, mounts>>

\* open(dst, "wb") truncates the file.
BootFileOpen(s, fn) ==
  /\ Step(s, FileStep[fn].open, FileStep[fn].write)
  /\ boot' = [boot EXCEPT ![target[s]][fn] = Torn]
  /\ UNCHANGED <<root, autoboot, fw, pending, mounts, job, reply>>

\* Copy, fsync, sync, read back; on a mismatch the finally clause unmounts.
BootFileWrite(s, fn) ==
  /\ pc[s] = FileStep[fn].write
  /\ \/ /\ boot' = [boot EXCEPT ![target[s]][fn] = man[s][fn]]
        /\ pc' = [pc EXCEPT ![s] = FileStep[fn].next]
        /\ UNCHANGED <<mntBoot, job, reply>>
     \/ /\ mntBoot' = None
        /\ Answer(s, FALSE)
        /\ UNCHANGED boot
  /\ UNCHANGED <<root, autoboot, fw, pending, mntP1>>

InstallDone(s) ==
  /\ pc[s] = "in_done"
  /\ mntBoot' = None
  /\ Answer(s, TRUE)
  /\ UNCHANGED <<disk, fw, pending, mntP1>>

-----------------------------------------------------------------------------
(* Verbs tryboot and reboot: a detached shell reboots a second later.      *)

\* The reboot is spawned first; autoboot.txt is read only to fill in the reply.
Tryboot(s) ==
  /\ Serving(s)
  /\ \/ /\ ~trial
        /\ Accept(s, "tb_mount")
        /\ pending' = pending \cup {<<"tryboot", s>>}
        /\ UNCHANGED job
     \/ /\ trial
        /\ Answer(s, FALSE)
        /\ UNCHANGED pending
  /\ UNCHANGED <<disk, fw, mounts>>

BadTrybootRead(s) ==
  /\ pc[s] = "tb_read"
  /\ Answer(s, ValidAB(autoboot))
  /\ UNCHANGED <<disk, fw, pending, mounts>>
TrybootRead(s) ==
  /\ pc[s] = "tb_read"
  /\ mntP1' = None
  /\ Answer(s, ValidAB(autoboot))
  /\ UNCHANGED <<disk, fw, pending, mntBoot>>

Reboot(s) ==
  /\ Serving(s)
  /\ pending' = pending \cup {<<"plain", s>>}
  /\ Answer(s, TRUE)
  /\ UNCHANGED <<disk, fw, mounts>>

-----------------------------------------------------------------------------
(* Verb commit: check that this boot is the trial autoboot.txt names, then *)
(* swap the file (temporary file, fsync, rename, sync) under a new mount.  *)

Commit(s) ==
  /\ Serving(s)
  /\ \/ trial /\ Accept(s, "co_mount") /\ UNCHANGED job
     \/ ~trial /\ Answer(s, FALSE)
  /\ UNCHANGED <<disk, fw, pending, mounts>>

\* The pair a commit may name, or 0 to refuse.
BadCommitPair(ab) == ab.tryboot
CommitPair(ab) == IF ValidAB(ab) /\ ab.tryboot = running THEN running ELSE 0

CommitRead(s) ==
  /\ pc[s] = "co_read"
  /\ mntP1' = None
  /\ \/ /\ CommitPair(autoboot) # 0
        /\ pc' = [pc EXCEPT ![s] = "co_wmount"]
        /\ target' = [target EXCEPT ![s] = CommitPair(autoboot)]
        /\ UNCHANGED <<man, reply>>
     \/ /\ CommitPair(autoboot) = 0
        /\ Answer(s, FALSE)
  /\ UNCHANGED <<disk, fw, pending, mntBoot>>

\* os.replace is the one instant at which the committed pair changes.
CommitRename(s) ==
  /\ Step(s, "co_rename", "co_done")
  /\ autoboot' = AUTOBOOT(target[s])
  /\ UNCHANGED <<root, boot, fw, pending, mounts, job, reply>>

CommitDone(s) ==
  /\ pc[s] = "co_done"
  /\ mntP1' = None
  /\ Answer(s, TRUE)
  /\ UNCHANGED <<disk, fw, pending, mntBoot>>

-----------------------------------------------------------------------------
(* Resets. Everything that ran under Linux is gone.                        *)

Down ==
  /\ stage' = "reset"
  /\ pending' = {}
  /\ mntP1' = None /\ mntBoot' = None
  /\ pc' = [s \in Session |-> "idle"]
  /\ man' = [s \in Session |-> None]
  /\ target' = [s \in Session |-> 0]
  /\ reply' = [s \in Session |-> "none"]
  /\ UNCHANGED <<disk, counter, running, trial>>

\* A spawned shell reaches its reboot; "0 tryboot" leaves the bit for the firmware.
RebootFires ==
  /\ stage = "linux"
  /\ \E k \in pending : bit' = (k[1] = "tryboot")
  /\ Down

\* The bit does not survive a loss of power.
PowerLoss ==
  /\ stage # "reset" \/ bit
  /\ bit' = FALSE
  /\ Down

-----------------------------------------------------------------------------
(* The boot chain (outside the repository).                                *)

Signed(p) == boot[p].img \in Image /\ boot[p].sig = boot[p].img

\* The firmware takes the [tryboot] pair once when the bit is set, and clears the
\* bit. A trial whose signature fails falls back to the committed pair within the
\* same boot, still reporting tryboot.
BootChoice == IF bit /\ Signed(autoboot.tryboot) THEN autoboot.tryboot ELSE autoboot.all

FirmwareBoot ==
  /\ stage = "reset"
  /\ Signed(BootChoice)
  /\ running' = BootChoice
  /\ trial' = bit
  /\ bit' = FALSE
  /\ stage' = "uboot"
  /\ UNCHANGED <<disk, counter, pending, mounts, pc, job, reply>>

MyVersion == Version[boot[running].img]

\* U-Boot refuses a version below the counter by resetting.
UBootRefuse ==
  /\ stage = "uboot" /\ MyVersion < counter
  /\ stage' = "reset"
  /\ UNCHANGED <<disk, counter, bit, running, trial, pending, mounts, pc, job, reply>>

\* Only a committed boot advances the counter, one increment at a time.
BadMayAdvance == counter < MyVersion
MayAdvance == counter < MyVersion /\ ~trial

UBootIncrement ==
  /\ stage = "uboot" /\ MayAdvance
  /\ counter' = counter + 1
  /\ UNCHANGED <<disk, bit, stage, running, trial, pending, mounts, pc, job, reply>>

\* The root that belongs to a boot partition by U-Boot's own copy of the rule.
RootDevice(p) == IF p = 1 THEN 3 ELSE 4

\* dm-verity lets the kernel run only on the root its image was built with.
BadUBootHandoff ==
  /\ stage = "uboot" /\ MyVersion >= counter
  /\ stage' = IF root[RootDevice(running)] = boot[running].img THEN "linux" ELSE "dead"
  /\ UNCHANGED <<disk, counter, bit, running, trial, pending, mounts, pc, job, reply>>
UBootHandoff ==
  /\ stage = "uboot" /\ MyVersion >= counter /\ ~MayAdvance
  /\ stage' = IF root[RootDevice(running)] = boot[running].img THEN "linux" ELSE "dead"
  /\ UNCHANGED <<disk, counter, bit, running, trial, pending, mounts, pc, job, reply>>

-----------------------------------------------------------------------------
(* The specification. The card leaves the factory with one release in both *)
(* pairs and the counter at its first increment.                           *)

Init ==
  /\ root = [d \in 3..4 |-> FactoryImage]
  /\ boot = [p \in Pair |-> [img |-> FactoryImage, sig |-> FactoryImage]]
  /\ autoboot = AUTOBOOT(1)
  /\ counter = 1
  /\ bit = FALSE
  /\ stage = "reset"
  /\ running = 1
  /\ trial = FALSE
  /\ pending = {}
  /\ mntP1 = None /\ mntBoot = None
  /\ pc = [s \in Session |-> "idle"]
  /\ man = [s \in Session |-> None]
  /\ target = [s \in Session |-> 0]
  /\ reply = [s \in Session |-> "none"]

Request(s) ==
  \/ Status(s) \/ Tryboot(s) \/ Commit(s) \/ Reboot(s)
  \/ \E m \in Manifest : Install(s, m) \/ InstallRefused(s, m)

Work(s) ==
  \/ MountP1(s) \/ MountP1Busy(s)
  \/ StatusRead(s)
  \/ InstallRead(s) \/ StagedRootMismatch(s) \/ DdStart(s) \/ DdEnd(s)
  \/ ReadbackRoot(s) \/ MountBoot(s) \/ MountBootBusy(s)
  \/ \E fn \in {"img", "sig"} : BootFileOpen(s, fn) \/ BootFileWrite(s, fn)
  \/ InstallDone(s)
  \/ TrybootRead(s)
  \/ CommitRead(s) \/ CommitRename(s) \/ CommitDone(s)

BootStep == FirmwareBoot \/ UBootRefuse \/ UBootIncrement \/ UBootHandoff

Next ==
  \/ \E s \in Session : Request(s) \/ Work(s)
  \/ RebootFires \/ PowerLoss
  \/ BootStep

\* The boot chain runs on its own, processes are scheduled, sleep 1 ends; clients
\* and power failures owe nothing.
Fairness ==
  /\ WF_vars(BootStep)
  /\ WF_vars(RebootFires)
  /\ \A s \in Session : WF_vars(Work(s))

Spec == Init /\ [][Next]_vars
FairSpec == Spec /\ Fairness

-----------------------------------------------------------------------------
(* Properties.                                                             *)

\* No other handler has settled on the pair s works on.
Alone(s) == \A t \in Session \ {s} : target[t] # target[s]

TypeOK ==
  /\ root \in [3..4 -> Content]
  /\ boot \in [Pair -> [img : Content, sig : Content]]
  /\ autoboot \in [all : Pair, tryboot : Pair]
  /\ counter \in Nat
  /\ bit \in BOOLEAN
  /\ stage \in {"reset", "uboot", "linux", "dead"}
  /\ running \in Pair
  /\ trial \in BOOLEAN
  /\ pending \subseteq {"tryboot", "plain"} \X Session
  /\ mntP1 \in Session \cup {None}
  /\ mntBoot \in Session \cup {None}
  /\ pc \in [Session -> PC]
  /\ man \in [Session -> Manifest \cup {None}]
  /\ target \in [Session -> 0..2]
  /\ reply \in [Session -> {"none", "ok", "refused"}]
  /\ \A s \in Session :
       /\ pc[s] \in InstallHolding => man[s] \in Manifest
       /\ pc[s] \in InstallWriting \cup CommitWriting => target[s] \in Pair

\* A pair holds one whole release, signed, that U-Boot will not refuse.
Bootable(p) ==
  /\ Signed(p)
  /\ root[RootDevice(p)] = boot[p].img
  /\ Version[boot[p].img] >= counter

\* Whatever is being installed, refused, interrupted or tried, the pair autoboot.txt
\* names is one the board can boot: no update bricks it, and neither does the
\* anti-rollback counter (ota-update-design.md, "an interruption here changes
\* nothing for the next boot").
CommittedBootable == Bootable(autoboot.all)

\* No running release has its own partitions written under it (rp5-ota-priv, "never
\* write the running release").
RunningPairUntouched ==
  [][(stage \in {"uboot", "linux"}) =>
       /\ root'[RootDevice(running)] = root[RootDevice(running)]
       /\ boot'[running] = boot[running]]_vars

\* Once a committed boot reaches Linux the floor is exactly its release: every lower
\* version is refused from there on, the previous pair included.
FloorReached ==
  stage = "linux" /\ ~trial =>
    running = autoboot.all /\ counter = Version[boot[running].img]

\* The committed pair changes only to the pair this very boot runs as a trial, and
\* that pair is whole.
CommitsOnlyTheProvenTrial ==
  [][autoboot' # autoboot =>
       /\ stage = "linux" /\ trial
       /\ autoboot'.all = running /\ autoboot.tryboot = running
       /\ Bootable(running)]_vars

\* When commit is about to answer ok, a reset at any later instant boots the pair it
\* ran from, and a trial would take the other one.
CommitIsDurable ==
  \A s \in Session : pc[s] = "co_done" =>
    autoboot.all = running /\ autoboot.tryboot = OtherPair(running)

\* When install is about to answer ok and no other handler is at work on that pair,
\* the pair holds byte for byte what the manifest names (rp5-ota-priv, "every write is
\* read back and compared against the manifest digest").
InstallHonest ==
  \A s \in Session : pc[s] = "in_done" /\ Alone(s) =>
    /\ root[ROOT_PART(target[s])] = man[s].root
    /\ boot[target[s]] = [img |-> man[s].img, sig |-> man[s].sig]

\* A mount point is held only by a handler that is between its mount and its umount:
\* no error path leaks it, which would refuse every later request of this boot.
NoMountLeak ==
  /\ mntP1 # None => pc[mntP1] \in {"st_read", "in_read", "tb_read", "co_read",
                                   "co_rename", "co_done"}
  /\ mntBoot # None => pc[mntBoot] \in {"img_open", "img_write", "sig_open",
                                       "sig_write", "in_done"}

\* A refused tryboot has no effect (rp5agent, class Fail: "A refused request").
RefusedTrybootSchedulesNothing ==
  [][\A s \in Session :
       pc[s] \in {"tb_mount", "tb_read"} /\ reply'[s] = "refused" =>
         <<"tryboot", s>> \notin pending']_vars

\* What is written has a version above the counter (ota-update-design.md, "refuse to
\* install a version <= the TPM anti-rollback counter").
InstallsOnlyNewer ==
  \A s \in Session : pc[s] = "in_dd" => man[s].version > counter

\* A trial that came up without any service: signed, high enough, wrong root.
Stranded == stage = "dead" /\ trial

\* Every reset ends in a running system, by itself, unless the image on trial has the
\* wrong root; power that fails for ever is the only other excuse.
BoardComesBack ==
  \/ []<><<PowerLoss>>_vars
  \/ stage = "reset" ~> (stage = "linux" \/ Stranded)

\* Every request ends, with an answer or in a reset: handlers wait for nobody.
RequestsEnd == \A s \in Session : pc[s] # "idle" ~> pc[s] = "idle"

\* The conjuncts that make CommittedBootable inductive. An install that writes does so
\* in a boot that is no trial, on the pair the file keeps for trials; a commit that
\* writes names the trial it runs in; what runs is whole.
FileValid == ValidAB(autoboot)
WritersAim ==
  \A s \in Session :
    /\ pc[s] # "idle" => stage = "linux"
    /\ pc[s] \in InstallWriting =>
         ~trial /\ running = autoboot.all /\ target[s] = autoboot.tryboot
    /\ pc[s] \in CommitWriting => trial /\ target[s] = running
RunningWhole ==
  /\ stage = "uboot" => Signed(running) /\ (~trial => running = autoboot.all)
  /\ stage = "linux" => Bootable(running) /\ (~trial => running = autoboot.all)
IInv == TypeOK /\ FileValid /\ CommittedBootable /\ WritersAim /\ RunningWhole

\* Seen from outside, the board is one committed release, the version floor and what
\* is running: installs, torn writes, refused and failed trials do not show.
Abstract == INSTANCE CommittedRelease WITH
  committed <- boot[autoboot.all].img,
  floor <- counter,
  up <- IF stage = "linux" THEN boot[running].img ELSE None
ImplementsCommittedRelease == Abstract!Spec

=============================================================================
