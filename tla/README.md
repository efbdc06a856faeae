# Verification of the RP5 secure-boot update, attestation and provisioning services

TLA+ models of the services that update, attest and provision a Raspberry Pi 5
with signed boot, a TPM and dm-verity, of the server that drives them and of the
tools that make releases. The models are translated from the Python and shell
code; the Raspberry Pi firmware, U-Boot, the TPM and bitbake are not in the
repository and are modelled as the code relies on them (marked `external` in
`PROJECT.json`). TLC checks every configuration listed below, TLAPS the theorems
of the eight `..._proofs` modules.

    tlc -workers 2 -config board.cfg MCOtaBoard
    tlapm OtaBoard_proofs.tla

## 1. Inventory

| component | state it keeps | operations | modules |
|---|---|---|---|
| OTA agent (`agents/rp5-ota`, `rp5-ota-priv`) | two release pairs (FAT boot partition, raw root partition), `autoboot.txt`, two mount points, `/data/ota/staging`, detached reboots | status, install, tryboot, commit, reboot | `OtaBoard`, `CommittedRelease` |
| agent library (`agents/rp5agent`) | none | verb dispatch, reply or refusal, `run`, pairing rules, read-only facts | `OtaBoard`, `ServerFiles` |
| server (`agents/server/rp5.py`) | of every board `enrollment.json`, `ak.pem`, `current-goldens.json`; `goldens.json` in a release directory; the position inside `update()` | update, single verbs, attest, provision, enroll, enroll-dt | `UpdateCycle`, `ServerFiles`, `Provision`, `ReleaseBuild` |
| verifier (`attestation/attest-server.py`) | `attest-state.json` (last resetCount); reads the enrollment and the goldens | one attestation round, routine or with a required restart, through the service or by script | `Verifier`, `LegacyRound`, `ServerFiles` |
| attestation service (`agents/rp5-attest`) | none | quote, status | `Verifier`, `UpdateCycle`, `ServerFiles` |
| legacy attestation script (`attestation/attest-device.sh`) | files of fixed names on the board | quote and certificate over the nonce in a file | `LegacyRound` |
| provisioning service (`agents/rp5-provision`, `-priv`) | OTP firmware key, TPM authorisations, AK, two NV indices | provision, provision-fwkey, provision-fwhmac, enroll, verify | `Provision` |
| hand-run provisioning scripts (`provisioning/...`) | the same TPM state | the measured-boot index, the counter, the hierarchies, new indices for the firmware key | `Provision` |
| factory host tools (`factory-auths.py`, `uboot-clear.py`, `build-factory-uboot.sh`) | the authorisation file of a board | derive the authorisations, clear the TPM at the console | inputs and an action of `Provision` |
| release tools (`make-release.py`, `tamper-release.py`) | release directories | assemble, sign, predict, spoil | `ReleaseBuild`; bundles of the MC modules |
| factory card image (`inject-boot.sh`) | the card | the same release in both slots | `OtaBoard`'s initial state |
| boot chain (outside) | one-shot tryboot bit, anti-rollback counter, PCRs, NV index | choice of the pair, signature check, version check and increments, measurement | all |
| verity command line scripts, image build, experiments | - | - | not modelled, section 8 |

How they interact. The server and operators reach the board over ssh, one
process per request, with no lock between them; the agent's unprivileged half
checks and calls the privileged half, which checks again. `tryboot` and `reboot`
spawn a shell that reboots a second after the answer. The boot chain reads what
the agent wrote (`autoboot.txt`, the boot files, the roots) and leaves to Linux
which pair booted and whether it is a trial. The verifier compares what the TPM
signed with the goldens of a release, and the resetCount with the one it saved.
`update()` calls them in turn and looks at (most of) the replies; it predicts the
goldens from a board's enrollment and the release's manifest, and passes them to
the verifier in a file of the release directory. Commands of the server are
processes without a lock between them either, and none of its files is replaced
in one step.

What is hard:

* power can go, and a reboot that someone else asked for can fire, between any
  two steps of an install or a commit;
* requests of several clients interleave; they share two mount points, the
  staging directory, the target pair and `autoboot.txt`;
* a lost reply leaves the server and the board with different ideas of what was
  done, and the next status may come from the boot before or after;
* the saved resetCount is read before the board is asked and written after the
  checks; other rounds and restarts fall in between;
* the script's evidence lies in shared files and is fetched by one connection per
  file, between which anybody may replace it;
* enrollment, goldens and current goldens are read, emptied and filled by
  commands that overlap or are killed;
* provisioning is a dozen commands on state that outlives a failure, and is
  tried again after one;
* a release is assembled from files that a build replaces one after another, and
  streamed from a directory that may be written again meanwhile.

What makes each part correct: the committed pair can always be booted; the
version floor follows commits only; an ok says what was done; nothing is
committed that did not pass its health check as a trial; goldens follow commits,
and are those the board has passed with; a pass, and "fresh", mean what they say;
PCR0 is trusted on first use only; an ok from provisioning means that the board is
provisioned, and retries get there; a well-made release passes and a spoilt one is
caught. `PROJECT.json` lists the hazards at their lines with the properties that
watch them.

## 2. Modules and their relation to the code

**`OtaBoard`** - one board. Content of a partition or file is the release image
it belongs to, or `Torn`. A request is a handler whose `pc` walks through the
steps of the code: `Status`, `Install` (the checks of both halves, `DdStart` and
`DdEnd` around the time the root is half written, the readback, the two boot
files with truncation and copy as separate steps), `Tryboot`, `Commit` (check
under one mount, rename under another), `Reboot`. `MountP1Busy` and
`MountBootBusy` are a `mount` that fails because another handler holds the mount
point, which is raised before the `try` block, so nothing is unmounted.
`RebootFires` is a detached shell, `PowerLoss` strikes anywhere. `FirmwareBoot`
and the three `UBoot` actions are the boot chain. The unprivileged half's staging
and digest checks are part of the start of `Install`; what another request does to
the shared staging directory afterwards shows as `StagedRootMismatch`, or as
other bytes in `DdEnd` and `BootFileWrite`.

**`CommittedRelease`** - what an updatable board promises, with no pairs or files:
one committed release, a floor that follows it, a running release that alone may
become the committed one. `OtaBoard` implements it under the mapping at its end
(run `board`, theorem `ImplementsTheRelease`).

**`UpdateCycle`** extends `OtaBoard` with `update()`, call by call. `Fault` names
what may go wrong: `lost` (a connection breaks before or after the request
arrives; the handler runs on), `power`, `media`, `slow` (a reboot comes later than
the server expects), `monitor` (routine rounds in between), `state` (the state
file cannot be written, which `attest-server.py:412` ignores, or is left empty).
`calm` is chosen at the start of a behaviour: in a calm one none of this happens. An
attestation round is three steps (baseline read, board answers, verdict and save). Of
resetCount only its relation to the saved one is kept (`Age`). A routine round reads,
asks and saves at steps of its own as well, and touches nothing but the saved count:
`RoutineRound` is the end of one that has been under way for any time, which saves this
boot's count or an earlier one. The history variable `kept` says whether the trial's
count has been on record since the health check. Sessions outside `Server` are an
operator's status, tryboot and reboot.

**`Verifier`** - rounds in detail: the quote and the certificate are two TPM
commands between which the board may restart; every check of
`attest-server.py`; the saved resetCount, written on any verdict, or not if the
file cannot be written. Each blob may be malformed in any of the ways the parsers
tell apart: it names the wrong thing, or it ends within a field. A field that is an
integer is unpacked without a length test. The reply that carries the blobs may be
malformed as well: no object, a file missing, not base64 (`ReplyForm`). Around the rounds the board boots,
measures more, is cleared, provisioned and enrolled.

**`LegacyRound`** extends `Verifier` with the older way to ask (no `AGENT`): the
nonce is copied to the board, `attest-device.sh` runs there, and four files are
copied back. `file` holds what is in the shared files; `ForeignNonce` and the two
`ForeignScript` actions are other verifiers that use the same names, at any step. A
signature fetched after its blob was replaced does not verify (`WithSignature`). A
round of `LSpec` takes either way. `seen` is a history variable that only watches
(`Watch`): the boots in which, since a round began, the board was up, had the release of
the round's goldens in its PCRs and U-Boot's record of exactly that in the index.

**`ServerFiles`** - what the server keeps and passes on, for several boards,
releases and processes: `update()` by the files it reads and writes (the
enrollment twice, the release directory's `goldens.json`, the current goldens),
`enroll` with the provisioning verbs that store their reply alike, and `enroll-dt`.
Each `open(..., "w")` is a step of its own, which leaves the file `Torn` until it is
filled. The board is what its measurements depend on: its own devicetree, its
bootloader firmware, the release. First-use capture of PCR0, the prediction of PCR1
from the enrolled prefix, and releases without a devicetree digest or U-Boot
version string are here.

**`Provision`** - every verb, and every hand-run script, is a sequence of firmware
key and TPM commands (`Script`); each command changes what survives a reset, may
be impossible in the present state, may fail, and may be the last before a reset.
A request comes with the authorisations of this board or another's, all of them or
some. The factory boot with its guard and the release boot, which locks the key and
reads the counter, come from outside.

**`ReleaseBuild`** - bitbake deploys the parts of a build one after another;
`make-release.py` reads them in its order and writes the four files of a release;
`tamper-release.py` spoils a copy in either of its ways; `update` reads the manifest
and then streams the files. Every tool may be killed at any step. The content of a
part is the number of its build, so a release of several builds can be told from
one of a single build (`steady`, `good`).

**The proof modules** - `OtaBoard_proofs` and `OtaPromises_proofs` about `OtaBoard`;
`UpdateCycle_proofs`; `LegacyRound_proofs`, whose theorems are about the properties
`Verifier` and `LegacyRound` state; `ServerFiles_proofs`; `Provision_proofs` (lemmas about
the TPM's counter) and `ProvisionPromises_proofs`; `ReleaseBuild_proofs`. Section 6.

**`MC...`** - the instances for TLC; `ReleaseBuild` needs none.

Definitions named `Bad...` are mutated forms kept next to what they replace; no
module uses them.

## 3. Runs

| run | question | result |
|---|---|---|
| `board` | two clients, one of which installs any of: the three releases, a replayed one under a higher declared version, a tampered boot.img, a boot.img with another release's root, a factory image; resets and power loss anywhere | nine properties hold, 765,046 states |
| `board_live` | two clients that both install one release, with fairness; the factory release is refused after the commit | the board comes back by itself, requests end; 158,776 states |
| `cycle_faults` | update cycles one after another, under every fault or calm | `DONE` means that the release is committed, and where the trial's resetCount stayed on record that it is the floor; the goldens are the committed release's, `update()` returns, and where nothing goes wrong a well-made release ends in `DONE`; 704,643 states |
| `cycle_operator` | the same with an operator in between | nothing unproven is committed or boots plainly, and what was `DONE` stays so; 796,820 states |
| `rounds` | rounds of both ways with restarts between and inside them, other verifiers, malformed answers, a clear, provisioning, enrollment, a state file that cannot be written | pass, fresh and stale mean what they say, and a good board is never failed; 5.2 million states |
| `provision_retries` | all verbs and scripts, cut off or failing anywhere, tried again, also with another board's authorisations and after a clear | an ok means a provisioned board, retries get there; 1,294,595 states |
| `release_build` | releases made, spoilt and streamed while the next build is deployed, each tool killed anywhere | what an agent accepts is whole and signed; good releases pass, spoilt ones do not; 2.3 million states |
| `server_files` | an update beside enroll and enroll-dt, each killed anywhere | routine rounds compare with what the board has passed with; PCR0 is trusted on first use only; 6.0 million states |
| `two_installers`, `stale_goldens`, `truncated_blob`, `half_closed` | one statement of the repository each | violated, section 7 |

The properties, by run:

* `board`. `CommittedBootable` is the most important: whatever is being installed,
  refused, interrupted, tried or committed, the pair that `autoboot.txt` names holds
  one whole signed release that the counter admits. `RunningPairUntouched`,
  `CommitsOnlyTheProvenTrial` and `FloorReached` say how this is kept up; `CommitIsDurable` and `InstallHonest` what an ok is worth; `NoMountLeak`
  that no path leaves a mount point taken; `ImplementsCommittedRelease` that none of
  this shows from outside. `InstallHonest` is stated for a handler that no other
  handler shares its pair with, and holds for one installing client.
* `board_live`: `BoardComesBack`, `RequestsEnd`.
* `cycle_faults`, `cycle_operator`. `DoneMeansDone` and `GoldensFollowCommit` tie the
  server's view to the card. What `DONE` says of a restart since the commit depends on
  the saved resetCount, because nobody looks at the answer to the last reboot request
  (`rp5.py:173`); the property promises the floor only where the count of the health
  check stayed on record, and `done_unsaved` below shows the rest. `UpdateReturns` and `GoodUpdateSucceeds` are liveness;
  `CommittedWasProven` and `NoUnprovenPlainBoot` are the point of the cycle: no lost
  reply, late reboot or operator gets a release committed that has not passed.
  `DoneLasts` says what `DONE` is worth afterwards: until the next update begins the
  release stays committed and its plain boots pass routine rounds, operators or not.
* `rounds`. `PassMeansGoldenBoot`: behind every pass is a boot, no older than the round,
  in which the board ran the release of the goldens with U-Boot's record of it, although
  quote and record are made at different times, may be fetched out of files that others
  replace, and are judged when the board may have restarted, measured more or been
  cleared. `EvidenceOfOneBoot`: both halves are of one boot. `FreshMeansRestarted` and `StaleMeansNotRestarted`: the
  verdict on resetCount agrees with what happened, across a clear, new keys and lost
  writes. `GoodBoardPasses`: no false alarm.
* `provision_retries`. `OkMeansProvisioned`, `ClosedRetrySucceeds`,
  `ForeignAuthsChangeNothing`.
* `release_build`. `AcceptedIsSigned`, `GoodReleasePasses`, `SpoiltIsCaught`.
* `server_files`. `CurrentIsProven`, `DoneMeansMonitored`, `NeverOnTrustAgain`,
  `UnexpectedTreeCaught`.
* One type invariant for each module: `TypeOK`, `UTypeOK`, `LTypeOK`, `PTypeOK`,
  `BTypeOK`, `FTypeOK`.

### Further configurations

These are kept beside the runs. Each shows a statement that does not hold of the
code, or stops holding when an assumption of a run is dropped.

| configuration | module | shows |
|---|---|---|
| `same_version` | `MCOtaBoard` | a bundle with exactly the counter's version is installed; `docs/ota-update-design.md:57` has "refuse to install a version <= the TPM anti-rollback counter". The code's `<` lets a release be installed again |
| `tryboot_refusal` | `MCOtaBoard` | `tryboot` spawns the reboot before it reads `autoboot.txt` for its reply: when mounting p1 fails, the client is told ok=false and the board reboots into the trial all the same |
| `attested_plain` | `MCUpdateCycle` | the health check does not look at which pair answers. If a release directory carries goldens of the committed release, and the power goes between `wait_up` and the round, the committed release passes; an operator's `tryboot` then brings the trial back in time for the commit, unproven |
| `done_operator` | `MCUpdateCycle` | the round after the last reboot does not look at which pair answers either: when that reboot is lost and an operator's `tryboot` starts the trial again, `update()` takes the trial for the restart and says `DONE` (`DoneMeansDone` fails: the floor is not reached yet). The release is committed all the same, and `DoneLasts` holds |
| `done_no_trials` | `MCUpdateCycle` | the same instance where operators start no trial: `DoneMeansDone` and `GoldensFollowCommit` hold (365,090 states), as `DoneIsDone` proves |
| `done_unsaved` | `MCUpdateCycle` | with no operator at all, `DONE` is said on the trial boot (`DoneMeansFloor` fails): the health check's resetCount is not saved, which `attest-server.py:412-413` ignores, or a late routine round puts an older one back; the reboot request is lost, and its answer is not looked at (`rp5.py:173`); the second round then compares the trial's count with the older one and calls it a restart. `docs/ota-update-design.md:203-206` has the server record the version on the first committed boot, after U-Boot has advanced the counter |
| `two_rounds` | `MCVerifier` | two rounds that overlap: the slower one writes an older resetCount back, and a later round calls old evidence fresh; `BaselineIsKept` proves that it takes an overlap |
| `enrolled_name` | `MCProvision` | `enroll` before the first release boot records the Name of the unwritten index, with which no round passes |
| `guard_strands` | `MCProvision` | a reset right after the OTP key was made: the factory guard takes the board for provisioned |
| `two_provisioners` | `MCProvision` | two requests at a time: one undefines what the other has just defined, and an ok no longer means a provisioned board |
| `shared_goldens` | `MCServerFiles` | two boards updated from one release directory at a time: one gets the goldens predicted for the other |
| `silent_release` | `MCServerFiles` | `enroll` on a release that exports no devicetree digest stores null over the recorded one, and the next update trusts PCR0 again |
| `changed_tree` | `ReleaseBuild` | a release with a changed devicetree is packed with the template's kernel, while its manifest keeps the PCR8 of the kernel that was deployed: it may fail on PCR8 as well, where `tamper-release.py:13-14` has "must fail on PCR0 (devicetree digest) with everything else passing" |

## 4. Bounds

* Images have versions 1, 2 and 4: the counter catches up by one and by two
  increments, and there is a version between two releases. No action bounds the
  counter; it stops at the highest version by itself.
* Two sessions: every property is about one handler, or about one against
  another. Mount points, the file and the target pair are held or written by one
  handler at a time, so a third brings no new kind of conflict; the theorems hold
  for any number.
* `UpdateCycle` runs one `update()` at a time, as often as it likes; the operator
  is a second session, and `cycle_operator` has two bundles.
* `Verifier` and `LegacyRound` bound the boots of a behaviour (`MaxBoots` 3): a
  baseline, a restart, and another inside the round. `Garbled` has in `rounds` one
  form that ends in a refusal and one in an exception, and in `truncated_blob` the
  two exceptions. One round of the verifier at a time, any number one after another,
  beside any number of other verifiers; rounds that overlap on one state file are in
  `two_rounds`, and beside an update in `cycle_faults`. The theorems have no bounds.
* `ServerFiles`: one board, an expected and an unexpected release, one updater, two
  enrolling processes (one for each command) and one new bootloader firmware
  (`MaxFirmware` 1), which is what makes an enrolled digest out of date. More boards
  meet only in a release directory: `shared_goldens`.
* `ReleaseBuild`: one rebuild (`MaxBuild` 1), so that the parts of two builds meet;
  the env file in work-shared (`EnvBeside` FALSE), where it may be of another build
  than the image. The theorems hold for either place and any number of builds.
* `Provision` starts no new request once a counter has reached `MaxCount` (3): a
  first provisioning, a release boot that moves the counter, and one or two
  repetitions. One request at a time, any number one after another.

`CHECK_DEADLOCK FALSE` stands where the system may really stop: in `stale_goldens`
there is no power loss in `Fault`, so a board whose trial has the wrong root stays
dead until somebody cuts its power; in `two_provisioners` the number of requests is
bounded; in `release_build` and `changed_tree` the tools end, and one update is
followed.

## 5. Fairness

`OtaBoard!Fairness`: the boot chain runs by itself; a spawned shell reaches its
reboot (`sleep 1`); each handler is a scheduled process whose next step is always
enabled (it never waits: a busy mount point is an error). Nothing is assumed of
clients or of the power; `BoardComesBack` excuses power that fails for ever.
`UpdateCycle!UFairness` adds that `update()` is a running process: its own `ssh` has a
time limit (`rp5.py:33-36`), and so has `wait_up`. The verifier's `ssh`
(`attest-server.py:291`) has none: a round ends when the board answers, refuses or
resets the connection, or when TCP gives it up, and that one of these comes to pass is
assumed. A slow board is a reply that comes late, or
`GiveUp`. `GoodUpdateSucceeds` is about the calm behaviours only; that nothing goes
wrong in them is part of the behaviour and not of the fairness. No fairness is
assumed in the other modules, which have safety properties only.

## 6. What is proved

All theorems are for any sets of sessions, images, bundles, rounds, boards,
releases and processes, any versions and bounds, from the assumptions on the
constants that each module names, which TLC evaluates.

**`OtaBoard_proofs`**: `TypeCorrect` (`TypeOK`), `NeverBricked` (`CommittedBootable`),
`CommitsOnlyTrials` (`CommitsOnlyTheProvenTrial`). `CommittedBootable` is not inductive by itself: an install
that aimed at the committed pair would break it. `IInv` adds that the file is well
formed (`FileValid`), that what runs is whole and, without a trial, committed
(`RunningWhole`), and where handlers aim (`WritersAim`): one that writes a pair does
so in a boot that is no trial, on the pair kept for trials, and one that writes the
file names the trial it runs in. The two kinds of writer therefore never live in the
same boot, which is why checking `autoboot.txt` under one mount and rewriting it
under another is safe, and why a pair cannot be swapped under an install that runs
for minutes. The counter stays below the committed version because it moves only in
a boot that is no trial.

**`OtaPromises_proofs`**, on `IInv`: `RunningPairIsSafe` (`RunningPairUntouched`),
`FloorIsReached` (`FloorReached`), `MountsAreReleased` (`NoMountLeak`),
`CommitsAreDurable` (`CommitIsDurable`), `LoneInstallIsHonest` (`InstallHonest`, for one
installing session, with `AllCopied`: what a handler has already written is in its
pair), and `ImplementsTheRelease`: every step is a step of `CommittedRelease` or none
of its (`ImplementsCommittedRelease`).

**`UpdateCycle_proofs`**. `CycleTypeCorrect` (`UTypeOK`), `CycleNeverBricks`
(`CommittedBootable` under `update()`), and `CycleImplementsTheRelease`: every behaviour
of the cycle is one of the board (`CycleIsBoard`), so it implements `CommittedRelease`
as well. The other theorems are about one installing session, with any number of
operators:

* `CommittedIsProven` (`CommittedWasProven`) and `PlainBootsAreProven`
  (`NoUnprovenPlainBoot`), where manifests name the goldens of their own image
  (`OwnGoldens`); `attested_plain` shows that this is needed. `CycleInv` relates the
  place of `update()` to the card: from the reply to its install to its commit the pair
  kept for trials holds its release, and whoever commits finds a proven release in the
  pair that runs.
* `GoldensAreOfTheCommitted` (`GoldensFollowCommit`), with `OwnGoldens`, whatever
  operators do and however many rounds save late or not at all: whoever finishes finds
  its release committed (`FinishIsCommitted`), which needs no baseline.
* `DoneIsDone` (`DoneMeansDone`), with `OwnGoldens` and operators that start no trial
  (`NoTrialsSpec`); `done_operator` shows that this is needed. `AloneDoneIsDone` is
  without that assumption where only servers have sessions. The argument runs over two
  reboots: `update()` has seen its trial, so no reboot into a trial is pending any more
  (`OneShot`, `PlainAhead`); as long as the trial's count is on record (`kept`,
  `SameBoot`), evidence the second round finds fresh is of a plain boot after the commit
  (`SawCommitted`), which has moved the counter. Nothing is assumed of the last reboot
  request, which may be lost. `Quiet` says that no handler of an earlier request is left
  running when a new one is sent.
* `DoneStaysTrue` (`DoneLasts`), for operators that may start trials, and goldens as
  above. From the reply to its commit on, the release is the committed one
  (`CommitLasts`), for only a trial of the other pair could be committed, and no
  session but the server commits; `MeasuredRuns` says that PCRs are those of the
  release that runs.

**`LegacyRound_proofs`**, for rounds of both ways: `PassIsOfOneBoot` (`EvidenceOfOneBoot`), `FreshIsLater`
(`FreshMeansRestarted`), `StaleIsNotLater` (`StaleMeansNotRestarted`). Evidence in a
file or an answer that is genuine and current names this boot or an earlier one
(`FilesAreCurrent`, `Answer`), and a resetCount on file is this boot's in this boot,
and below the board's after an earlier boot with the same keys (`InStep`). Further:

* `RoundTypes` (`LTypeOK`), which says more than types: there is a count on file exactly
  if a boot is remembered, and a round passes on whole answers only.
* `GoodBoardsPass` (`GoodBoardPasses`). That what a good board signs passes needs that
  nothing was lost on the way: evidence of this boot and these keys holds what the PCRs
  and the index now hold (`SoundInv`, from `BoardSound`, `FileSound` and `RoundSound`:
  of the board, of the shared files, of the answers fetched from either).
* `PassIsGolden` (`PassMeansGoldenBoot`). No single step shows what a pass proves: a quote
  is taken while the goldens are in the PCRs, a record shows what was in the index when
  it was made. `SeenInv` joins them: if the index still has what was quoted in this boot,
  the board was good in it (`QuoteSeen`), a record of this boot agrees with the index
  while the board is up (`CertLive`), and so a quote and a record of one boot that agree,
  in the answer or in the shared files, are of a boot that was good (`PairSeen`),
  whichever was made first.
* `BaselineIsKept`: with one round at a time the saved resetCount never goes back
  (`BaselineNeverMovesBack`). `Alone` says that what a round has read is still on file.

The constants gain no assumption but that `None` is neither a number nor a state.

**`ServerFiles_proofs`**: `FileTypes` (`FTypeOK`: a file of the server is absent, torn or
what its writers put into it, `FilesTyped`, and so are the parts of it a command has
read, `PlanContents`); `TrustIsFirstUseOnly` (`NeverOnTrustAgain`, where every release
exports its digest and names its U-Boot), `CurrentWasProven` (`CurrentIsProven`),
`UnexpectedIsCaught` (`UnexpectedTreeCaught`) and `DoneIsMonitored`
(`DoneMeansMonitored`), the last three for one update at a time in a release directory.
Every command that replaces the record puts a digest into it, and one that finds it
torn ends there, so a recorded digest is kept or the record is torn (`RecordKept`).

**`Provision_proofs`** has the lemmas about the TPM's counter the next module rests on: a
counter is either unwritten or at the TPM's highest.
**`ProvisionPromises_proofs`**: `ProvisionTypeCorrect` (`PTypeOK`) and `ForeignIsHarmless`
(`ForeignAuthsChangeNothing`) for any number of sessions; `OkIsProvisioned`
(`OkMeansProvisioned`) and `RetryGetsThere` (`ClosedRetrySucceeds`) for one request at a
time, without which the first does not hold (`two_provisioners`). The scripts are
spelt out once, by a lemma; what remains of one then only matters by the order of
its commands and by which are missing (`Fits`). `Owed` says that what a verb promises
is there or still to be done, `Cleared` that what would stop a define has been removed.

**`ReleaseBuild_proofs`**: `BuildTypeCorrect` (`BTypeOK`), `AcceptedWasSigned`
(`AcceptedIsSigned`), `GoodOnesPass` (`GoodReleasePasses`), `SpoiltNeverPasses`
(`SpoiltIsCaught`). `BInv` says what each place of a tool implies of the files already
written (`Making`, `Spoiling`) and of those an update has read (`Reading`): whoever
changes a directory first takes away its being good.

Every invariant and action property that a passing run checks is stated by a theorem.
Only model-checked are the liveness properties `BoardComesBack`, `RequestsEnd`,
`UpdateReturns` and `GoodUpdateSucceeds`: they rest on fairness, and so on `ENABLED`,
which the provers do not handle. The statements that fail (section 7) have
counterexamples; theorems bound them where an assumption restores the statement.

## 7. Findings

1. `two_installers` - two installs at once share the staging directory and the
   target pair and take no lock. The second overwrites what the first has already
   read back; the first answers ok with "verified" (`rp5-ota-priv:9`: "every write is
   read back and compared against the manifest digest"). The committed pair is not
   touched, and a trial of the mix fails.
2. `stale_goldens` - goldens become current only at the end of `update()`. A
   connection lost after the commit leaves the old ones current: every routine round
   then fails a proven, committed release (`rp5.py:6`: "Passes on a good software
   state"). It takes an update that stopped: after `DONE` this does not happen
   (`DoneStaysTrue`).
3. `truncated_blob` - evidence that ends within an integer raises `struct.error` or
   `IndexError`, which `parsed()` does not catch: a traceback instead of a verdict
   (`attest-server.py:36`: "a malformed blob is a REJECT, never a crash"). Malformed
   blobs of any other form are rejected. A reply that is no object, lacks a file or is not
   base64 ends the verifier in the same way (`attest-server.py:294-302`).
4. `half_closed` - the owner authorisation is set first of the three, and alone
   decides whether a TPM counts as provisioned. A provisioning that stops right after
   it is completed by a retry that answers ok and leaves the endorsement and
   lockout hierarchies open.

Of the further configurations of section 3, `done_unsaved` weighs most: an update may
report `DONE`, and make its goldens current, before the restart it has asked for, with the
floor still at the previous version; the release is committed, and the next restart makes
up for it. The others are of the same kind, or mark the edge of an assumption. Also seen while reading, without a configuration of their own:

* with a firmware key that the running release has locked, the provisioning verbs
  delete both indices before the signed increment fails; no release boots without a
  counter. `reprovision-indices.sh:26` checks for this first, `rp5-provision-priv` does
  not;
* a retry on an open TPM whose AK is already persistent fails at `evictcontrol`;
* `provision-hierarchy-auth.sh` run before there is an AK makes the service take the
  TPM for provisioned; it cannot make an AK any more;
* `provision-nv-index.sh` defines the index without `ppread`, which the attestation
  service needs to certify it;
* `reprovision-indices.sh` writes the Names of the unwritten indices to its record,
  and goes on when an index could not be deleted (`set -e` does not apply on the left
  of `&&`);
* a clear does not lower the version floor: a counter defined after it continues from the
  TPM's highest, as `results-provisioning-2026-09-29/README.md` measured and the model has
  it, where `docs/anti-rollback-design.md:63-65` has a clear reset the counter and "any old version
  boots";
* a new counter continues from the TPM's highest, so "first increment -> 1"
  (`rp5-provision:13`) holds of a new TPM only; on an older one the first value may
  exceed the version of the release on the card;
* a command killed between emptying and filling a file of the server leaves it
  empty, and a later command that reads it ends with an exception. Nothing mends an
  empty `enrollment.json`: whoever writes it reads it first.

## 8. Abstractions and what is left out

* `os.replace` on FAT is one step, also for a power loss. Handlers end at a reset.
* A bundle whose files do not match its manifest is refused by the unprivileged half
  before anything happens, and is not in `OtaBoard`'s `Manifest`; that comparison is
  in `ReleaseBuild`.
* Errors of the medium, of the staging directory and of two writers at once are the
  nondeterminism of `DdEnd` and `BootFileWrite`.
* A TPM that cannot be read, or has no counter, is in `Provision`, not in `OtaBoard`.
* In `UpdateCycle` a release's goldens are the release; how they are predicted is in
  `ServerFiles`, where in turn a trial is one step. In `ReleaseBuild` one part stands
  for U-Boot and the kernel, which are read and packed alike.
* `verify`, the servers' `status` and `tpm_info` only read.
* TPM2_ClearControl: the platform hierarchy can undo it, and the clear of the model
  goes that way. The read-only steps and the negative control of
  `reprovision-indices.sh` are left out.
* A nonce is the round it belongs to, or `Foreign`.
* A TPM moved to another board, and relays, are outside: the models are about the
  correctness of the services.

Not modelled:

* `verity-cmdline.sh`, `check-current.sh`: arithmetic on superblock fields, without
  state. `make-release.py` has the same formula, and what can go wrong with it, the
  fields being of another build, is in `ReleaseBuild`.
* The experiments (`h6-duid-usb-test`, `fs2dtb.py`, `genkey-and-policysigned-test.sh`):
  measurements on a bench, not part of the running system.
* Yocto recipes, kernel fragments, the build container: configuration without
  behaviour. `factory-auths.py` hashes, and `build-factory-uboot.sh` and
  `inject-boot.sh` copy; only their results are inputs of the models.

## 9. Plan

Done, in this order: `OtaBoard` with `CommittedRelease`, its runs and first theorems;
`UpdateCycle`; `Verifier`; `Provision`; `LegacyRound`; `ServerFiles`; `ReleaseBuild`; the
proofs of section 6. Left:

1. `Provision` composed with `OtaBoard`: the counter a provisioning leaves against the
   versions on the card.
