------------------------------ MODULE ReleaseBuild ------------------------------
(***************************************************************************)
(* How a release directory comes about and is used: bitbake replaces what  *)
(* it deploys one part after another (external), make-release.py assembles *)
(* a signed release from it, tamper-release.py spoils a copy of one, and   *)
(* rp5.py update streams a directory to a board. All of them run when      *)
(* somebody starts them; a tool may be killed at any step, which leaves    *)
(* the file it was writing torn and those of an earlier run beside it.     *)
(*                                                                         *)
(* The content of a part is the number of the build it is of. U-Boot and   *)
(* the kernel are deployed, packed and read again alike: one part stands   *)
(* for both, and one prediction for the version string and PCR8. A board   *)
(* takes a bundle whose digests are the manifest's, runs it if boot.sig    *)
(* signs boot.img and the root is the one the command line names, and      *)
(* passes its health check if it measures what the manifest predicts. Its  *)
(* devicetree digest is enrolled.                                          *)
(***************************************************************************)
EXTENDS Integers

CONSTANTS
  MaxBuild,   \* bound on the builds
  EnvBeside,  \* the verity .env is deployed beside the image, not left in work-shared
  None, Torn  \* not there; half-written

\* What a boot.img and a manifest may hold: the builds of their parts, and the digests.
Number == 0..MaxBuild
ImageFile == [kernel : Number \cup {None}, cmdline : Number,
              tree : {"base", "changed"}, flipped : BOOLEAN]
Digested == {"boot", "sig", "root"}
ManifestFile == [sha256 : [Digested -> Number \cup ImageFile \cup {None, Torn}],
                 cmdline : Number, kernel : Number \cup {None}]

ASSUME BuildAssumption ==
  /\ MaxBuild \in Nat /\ EnvBeside \in BOOLEAN /\ None # Torn
  /\ \A x \in {None, Torn} : x \notin Number /\ x \notin ImageFile /\ x \notin ManifestFile

VARIABLES
  build,    \* the number of the latest build
  pending,  \* the parts it has not deployed: it is running, or was abandoned
  deploy,   \* the build each deployed part is of; None: without a kernel the template's is used
  out,      \* the release directories, by file
  mpc, m,   \* make-release.py's next step, and what it has read
  spc,      \* tamper-release.py's next step
  upc, u,   \* the update's next step, or its outcome; what it has read
  steady,   \* history: the running make has seen the parts of one build only
  good      \* history: directories whose last tool ended, with such parts

dirs   == <<out, good>>
builds == <<build, pending, deploy>>
bvars  == <<builds, dirs, mpc, m, spc, upc, u, steady>>

Part == {"kernel", "env", "root"}
File == {"boot", "sig", "root", "man"}
Whole(f) == f \notin {None, Torn}

-----------------------------------------------------------------------------
(* The build. The env file is written with the image, which is deployed    *)
(* later.                                                                  *)

\* Once tamper-release.py runs, a finished directory has been chosen to be copied, and
\* what is built or made meanwhile is of no consequence.
Building == spc = "idle"

BuildStarts ==
  /\ Building /\ build < MaxBuild
  /\ build' = build + 1 /\ pending' = Part
  /\ UNCHANGED <<deploy, dirs, mpc, m, spc, upc, u, steady>>

Deploys(p) ==
  /\ Building /\ p \in pending /\ (p = "root" => "env" \notin pending)
  /\ deploy' = [deploy EXCEPT ![p] = build]
  /\ pending' = pending \ {p}
  /\ steady' = FALSE
  /\ UNCHANGED <<build, dirs, mpc, m, spc, upc, u>>

OneBuild == deploy["env"] = deploy["root"] /\ deploy["kernel"] \in {None, deploy["root"]}

-----------------------------------------------------------------------------
(* make-release.py.                                                        *)

Makes(from, to) ==
  /\ mpc = from /\ mpc' = to
  /\ UNCHANGED <<builds, spc, upc>>
Write(d, f, c) == out' = [out EXCEPT ![d][f] = c]

\* From now on the directory is not what it was, and an update that has begun to read it
\* may read files of two runs.
Touch(d) ==
  /\ good' = good \ {d}
  /\ u' = [u EXCEPT !.good = @ /\ u.dir # d]

\* The link to the image is followed first; the env file then gives the command line.
ReadEnv ==
  /\ Building /\ Makes("idle", "copy_kernel")
  /\ m' = [root |-> deploy["root"],
           cmdline |-> IF EnvBeside THEN deploy["root"] ELSE deploy["env"]]
  /\ steady' = OneBuild
  /\ Touch("made") /\ UNCHANGED out

Gets(from, to, field, c) ==
  /\ Makes(from, to)
  /\ m' = [f \in DOMAIN m \cup {field} |-> IF f = field THEN c ELSE m[f]]
  /\ UNCHANGED <<dirs, u, steady>>

Puts(from, to, f, c) ==
  /\ Makes(from, to) /\ Write("made", f, c)
  /\ UNCHANGED <<good, u, m, steady>>

BootImg(kernel, cmdline, tree) ==
  [kernel |-> kernel, cmdline |-> cmdline, tree |-> tree, flipped |-> FALSE]

\* What the goldens are predicted from: the deployed files, read once more.
BadPredictedKernel == None
PredictedKernel == deploy["kernel"]

Assemble ==
  \/ Gets("copy_kernel", "pack", "kernel", deploy["kernel"])
  \/ mpc = "pack" /\ Puts("pack", "sign", "boot", BootImg(m.kernel, m.cmdline, "base"))
  \/ Puts("sign", "copy_root", "sig", out["made"].boot)
  \/ mpc = "copy_root" /\ Puts("copy_root", "read_kernel", "root", m.root)
  \/ Gets("read_kernel", "manifest", "kernel", PredictedKernel)

BadDigests(d) == [f \in {"boot", "root"} |-> out[d][f]]
Digests(d) == [f \in Digested |-> out[d][f]]

Manifest ==
  /\ Makes("manifest", "idle")
  /\ Write("made", "man", [sha256 |-> Digests("made"), cmdline |-> m.cmdline, kernel |-> m.kernel])
  /\ good' = IF steady THEN good \cup {"made"} ELSE good
  /\ m' = None
  /\ UNCHANGED <<u, steady>>

\* Killed, or ended by an exception.
Writes == [pack |-> "boot", sign |-> "sig", copy_root |-> "root", manifest |-> "man"]

MakeStops ==
  /\ mpc # "idle" /\ mpc' = "idle" /\ m' = None
  /\ \/ UNCHANGED out
     \/ mpc \in DOMAIN Writes /\ Write("made", Writes[mpc], Torn)
  /\ UNCHANGED <<builds, spc, upc, u, good, steady>>

-----------------------------------------------------------------------------
(* tamper-release.py: a copy, then boot.img modified after signing, or one *)
(* with another devicetree packed and signed again (its U-Boot and command *)
(* line are the copy's, its kernel the template's); then the manifest with *)
(* the new digests.                                                        *)

Spoils(from, to) ==
  /\ spc = from /\ spc' = to
  /\ UNCHANGED <<builds, mpc, m, steady, upc>>
Spoilt == out["spoilt"].boot

\* The copy removes what an earlier run has left. Of no consequence for an update from the
\* other directory.
CopyMade ==
  /\ Spoils("idle", "copied") /\ u.dir = "spoilt" /\ mpc = "idle"
  /\ Whole(out["made"].man) /\ Whole(out["made"].boot)
  /\ out' = [out EXCEPT !["spoilt"] = out["made"]]
  /\ Touch("spoilt")

FlipBytes ==
  /\ Spoils("copied", "spoilt_boot") /\ Write("spoilt", "boot", [Spoilt EXCEPT !.flipped = TRUE])
  /\ UNCHANGED <<good, u>>

PackTree ==
  /\ Spoils("copied", "to_sign")
  /\ Write("spoilt", "boot", BootImg(None, Spoilt.cmdline, "changed"))
  /\ UNCHANGED <<good, u>>

SignAgain ==
  /\ Spoils("to_sign", "spoilt_boot") /\ Write("spoilt", "sig", Spoilt)
  /\ UNCHANGED <<good, u>>

BadNewManifest == out["spoilt"].man
NewManifest == [out["spoilt"].man EXCEPT !.sha256 = Digests("spoilt")]

WriteManifest ==
  /\ Spoils("spoilt_boot", "done") /\ Write("spoilt", "man", NewManifest)
  /\ good' = good \cup {"spoilt"}
  /\ UNCHANGED u

SpoilStops ==
  /\ spc \notin {"idle", "done"} /\ spc' = "done"
  /\ UNCHANGED out \/ \E f \in File : Write("spoilt", f, Torn)
  /\ UNCHANGED <<builds, mpc, m, upc, u, good, steady>>

-----------------------------------------------------------------------------
(* rp5.py update: the manifest, then the four files for the tar stream.    *)

NextRead == [man |-> "boot", boot |-> "sig", sig |-> "root", root |-> "sent"]
Tool == <<builds, dirs, mpc, m, spc, steady>>

\* An update leaves the directory as it is: one is as good as several, and one that stops
\* is as good as none.
ReadManifest ==
  /\ upc = "idle" /\ Whole(out[u.dir].man)
  /\ upc' = "man"
  /\ u' = [u EXCEPT !.good = u.dir \in good, !.release = out[u.dir].man]
  /\ UNCHANGED Tool

TarFile ==
  /\ upc \in DOMAIN NextRead /\ out[u.dir][upc] # None
  /\ upc' = NextRead[upc]
  /\ u' = [u EXCEPT !.tar[upc] = out[u.dir][upc]]
  /\ UNCHANGED Tool

\* The agent compares the files it has received with the manifest among them.
BadAccepted(t) == Whole(t.man) /\ \A f \in {"boot", "root"} : t[f] = t.man.sha256[f]
Accepted(t) == Whole(t.man) /\ \A f \in Digested : t[f] = t.man.sha256[f]

Boots(t) == t.sig = t.boot /\ t.boot.cmdline = t.root
OtherPcrs(boot, man) == boot.kernel = man.kernel /\ boot.cmdline = man.cmdline
MeasuresAs(boot, man) == OtherPcrs(boot, man) /\ boot.tree = "base"

Judged ==
  /\ upc = "sent"
  /\ upc' = IF ~Accepted(u.tar) THEN "refused"
            ELSE IF Boots(u.tar) /\ MeasuresAs(u.tar.boot, u.release) THEN "passed" ELSE "failed"
  /\ UNCHANGED <<u, Tool>>

-----------------------------------------------------------------------------
Nothing == [f \in File |-> None]

BInit ==
  /\ build = 0 /\ pending = {}
  /\ deploy \in {[p \in Part |-> 0], [[p \in Part |-> 0] EXCEPT !["kernel"] = None]}
  /\ out = [d \in {"made", "spoilt"} |-> Nothing]
  /\ mpc = "idle" /\ m = None /\ spc = "idle"
  /\ upc = "idle"
  /\ \E d \in {"made", "spoilt"} :
       u = [dir |-> d, good |-> FALSE, release |-> None, tar |-> Nothing]
  /\ steady = FALSE /\ good = {}

BNext ==
  \/ BuildStarts \/ \E p \in Part : Deploys(p)
  \/ ReadEnv \/ Assemble \/ Manifest \/ MakeStops
  \/ CopyMade \/ FlipBytes \/ PackTree \/ SignAgain \/ WriteManifest \/ SpoilStops
  \/ ReadManifest \/ TarFile \/ Judged

BSpec == BInit /\ [][BNext]_bvars

-----------------------------------------------------------------------------
(* Properties.                                                             *)

BTypeOK ==
  /\ build \in Number /\ pending \subseteq Part
  /\ deploy \in [Part -> Number \cup {None}]
  /\ good \subseteq DOMAIN out
  /\ \A d \in DOMAIN out :
       /\ out[d].root \in Number \cup {None, Torn}
       /\ Whole(out[d].man) => DOMAIN out[d].man.sha256 = Digested
  /\ "made" \in good => \A f \in File : Whole(out["made"][f])

\* A bundle of make-release.py that a board's agent accepts is whole and signed, whatever
\* was killed and whatever is being rebuilt while it is streamed (make-release.py, "boot.img
\* .. boot.sig .. MANIFEST.json with digests").
AcceptedIsSigned ==
  upc \in {"failed", "passed"} /\ u.dir = "made" =>
    /\ \A f \in File : Whole(u.tar[f])
    /\ u.tar.sig = u.tar.boot

\* A release made from the parts of one build passes its health check, also in a directory
\* that holds leftovers (make-release.py, "predict PCR 8 from the kernel actually packed").
GoodReleasePasses ==
  upc \in {"refused", "failed"} => ~(u.good /\ u.dir = "made")

\* What tamper-release.py has finished is installed, and does not pass ("manifest digests
\* recomputed so the OTA service installs it. The firmware must refuse the signature",
\* "caught by measurement").
SpoiltIsCaught == upc \in {"refused", "passed"} => ~(u.good /\ u.dir = "spoilt")

\* The changed devicetree is all that such a release is failed for ("must fail on PCR0
\* (devicetree digest) with everything else passing").
OnlyTheTreeDiffers ==
  upc = "failed" /\ u.good /\ Boots(u.tar) /\ u.tar.boot.tree = "changed"
    => OtherPcrs(u.tar.boot, u.release)

=============================================================================
