-------------------------- MODULE ReleaseBuild_proofs --------------------------
(***************************************************************************)
(* Releases and what boards make of them, for any number of builds, and    *)
(* with the env file beside the image or left in work-shared.              *)
(***************************************************************************)
EXTENDS ReleaseBuild, TLAPS

USE BuildAssumption

Dir == {"made", "spoilt"}
Missing == {None, Torn}
Content == Number \cup ImageFile \cup ManifestFile \cup Missing

\* An image as make-release.py packs it; a manifest of signed files.
Clean(x) == x \in ImageFile /\ x.tree = "base" /\ x.flipped = FALSE
SignedMan(x) ==
  /\ x \in ManifestFile
  /\ x.sha256["sig"] = x.sha256["boot"] /\ x.sha256["boot"] \in ImageFile
  /\ x.sha256["root"] \in Number

\* What the two directories hold; make-release.py's are clean and its manifest signed.
Files ==
  /\ out \in [Dir -> [File -> Content]]
  /\ \A d \in Dir :
       /\ out[d]["boot"] \in ImageFile \cup Missing /\ out[d]["sig"] \in ImageFile \cup Missing
       /\ out[d]["root"] \in Number \cup Missing /\ out[d]["man"] \in ManifestFile \cup Missing
  /\ out["made"]["boot"] \in Missing \/ Clean(out["made"]["boot"])
  /\ out["made"]["sig"] \in Missing \/ Clean(out["made"]["sig"])
  /\ out["made"]["man"] \in Missing \/ SignedMan(out["made"]["man"])

\* One file is written, the others stay.
LEMMA Written ==
  ASSUME out \in [Dir -> [File -> Content]], NEW d \in Dir, NEW f \in File, NEW c \in Content,
         Write(d, f, c)
  PROVE  /\ out' \in [Dir -> [File -> Content]]
         /\ out'[d][f] = c
         /\ \A e \in Dir, g \in File : e # d \/ g # f => out'[e][g] = out[e][g]
BY DEF Write

\* The steps of make-release.py after boot.img, boot.sig and root.img were written.
Packed == {"sign", "copy_root", "read_kernel", "manifest"}
Signed == {"copy_root", "read_kernel", "manifest"}
Rooted == {"read_kernel", "manifest"}

\* A finished release fits together.
Coherent(d) ==
  /\ Clean(out[d]["boot"]) /\ out[d]["sig"] = out[d]["boot"]
  /\ out[d]["root"] = out[d]["boot"].cmdline
  /\ out[d]["man"] \in ManifestFile /\ out[d]["man"].sha256 = Digests(d)
  /\ OtherPcrs(out[d]["boot"], out[d]["man"])

\* What is deployed; the env file and the root are always of some build.
Built ==
  /\ build \in Number /\ pending \subseteq Part
  /\ deploy \in [Part -> Number \cup {None}]
  /\ deploy["env"] \in Number /\ deploy["root"] \in Number

\* What the running make has read and written.
Making ==
  /\ mpc \in {"idle", "copy_kernel", "pack"} \cup Packed
  /\ mpc # "idle" => "made" \notin good /\ m["root"] \in Number /\ m["cmdline"] \in Number
  /\ mpc = "copy_kernel" => DOMAIN m = {"root", "cmdline"}
  /\ mpc \in {"pack"} \cup Packed =>
       DOMAIN m = {"root", "cmdline", "kernel"} /\ m["kernel"] \in Number \cup {None}
  /\ mpc \in Packed =>
       /\ Clean(out["made"]["boot"]) /\ out["made"]["boot"].cmdline = m["cmdline"]
       /\ mpc # "manifest" => out["made"]["boot"].kernel = m["kernel"]
  /\ mpc \in Signed => out["made"]["sig"] = out["made"]["boot"]
  /\ mpc \in Rooted => out["made"]["root"] = m["root"]

\* Where it has seen one build only, it has read what is deployed.
Steadily ==
  /\ steady \in BOOLEAN
  /\ steady /\ mpc # "idle" =>
       /\ m["cmdline"] = m["root"]
       /\ mpc \in {"pack"} \cup Packed => m["kernel"] = deploy["kernel"]
       /\ mpc = "manifest" => out["made"]["boot"].kernel = m["kernel"]

\* A release with a changed devicetree, or with bytes flipped after signing.
IsSpoilt ==
  \/ out["spoilt"]["boot"].tree = "changed"
  \/ /\ out["spoilt"]["boot"].flipped = TRUE
     /\ out["spoilt"]["sig"] \in Missing \/ Clean(out["spoilt"]["sig"])

Spoiling ==
  /\ spc \in {"idle", "copied", "to_sign", "spoilt_boot", "done"}
  /\ spc # "idle" => mpc = "idle"
  /\ spc \in {"copied", "to_sign", "spoilt_boot"} =>
       out["spoilt"]["boot"] \in ImageFile /\ out["spoilt"]["man"] \in ManifestFile
  /\ spc = "copied" => out["spoilt"]["sig"] \in Missing \/ Clean(out["spoilt"]["sig"])
  /\ spc = "to_sign" => out["spoilt"]["boot"].tree = "changed"
  /\ spc = "spoilt_boot" => IsSpoilt
  /\ "spoilt" \in good =>
       /\ spc = "done" /\ IsSpoilt
       /\ out["spoilt"]["boot"] \in ImageFile /\ out["spoilt"]["man"] \in ManifestFile
       /\ out["spoilt"]["man"].sha256 = Digests("spoilt")

\* The files an update has read before each of its steps.
Outcome == {"refused", "failed", "passed"}
ReadBy == [x \in {"idle", "man", "boot", "sig", "root", "sent"} \cup Outcome |->
  CASE x \in {"idle", "man"} -> {}
    [] x = "boot" -> {"man"}
    [] x = "sig"  -> {"man", "boot"}
    [] x = "root" -> {"man", "boot", "sig"}
    [] OTHER -> File]

\* What the update has read, and what came of it.
Reading ==
  /\ upc \in {"idle", "man", "boot", "sig", "root", "sent"} \cup Outcome
  /\ u = [dir |-> u.dir, good |-> u.good, release |-> u.release, tar |-> u.tar]
  /\ u.dir \in Dir /\ u.tar \in [File -> Content] /\ u.good \in BOOLEAN
  /\ u.dir = "made" => u.tar["man"] \in Missing \/ SignedMan(u.tar["man"])
  /\ u.good => /\ u.dir \in good /\ u.release = out[u.dir]["man"]
               /\ \A f \in ReadBy[upc] : u.tar[f] = out[u.dir][f]
  /\ upc \in {"failed", "passed"} => Accepted(u.tar)
  /\ upc = "refused" => ~Accepted(u.tar)
  /\ upc = "passed" => Boots(u.tar) /\ MeasuresAs(u.tar["boot"], u.release)
  /\ upc = "failed" => ~(Boots(u.tar) /\ MeasuresAs(u.tar["boot"], u.release))

\* All of it, and a good directory of make-release.py is a release that fits together.
BInv ==
  /\ Files /\ Built /\ Making /\ Steadily /\ Spoiling /\ Reading
  /\ good \subseteq Dir
  /\ "made" \in good => Coherent("made")

\* Nothing has been made or read at first.
LEMMA BInvInit == BInit => BInv
<1> SUFFICES ASSUME BInit PROVE BInv
  OBVIOUS
<1>1. out \in [Dir -> [File -> Content]] /\ \A d \in Dir, f \in File : out[d][f] = None
  BY DEF BInit, Nothing, Dir, Content, Missing
<1>2. Files
  BY <1>1 DEF Files, File, Missing, Dir
<1>3. Built
  BY DEF BInit, Built, Number, Part
<1>4. Making /\ Steadily /\ Spoiling /\ good \subseteq Dir /\ "made" \notin good
  BY DEF BInit, Making, Steadily, Spoiling, Packed, Signed, Rooted
<1>5. Reading
  BY DEF BInit, Reading, Nothing, Content, Missing, Outcome, File, Dir
<1>6. QED
  BY <1>2, <1>3, <1>4, <1>5 DEF BInv

\* The steps of each tool.
MakeSteps == ReadEnv \/ Assemble \/ Manifest \/ MakeStops
SpoilSteps == CopyMade \/ FlipBytes \/ PackTree \/ SignAgain \/ WriteManifest \/ SpoilStops
UpdateSteps == ReadManifest \/ TarFile \/ Judged

\* What make-release.py packs is clean.
LEMMA MadeImage ==
  ASSUME Making, mpc = "pack"
  PROVE  Clean(BootImg(m.kernel, m.cmdline, "base"))
BY DEF Making, Clean, BootImg, ImageFile

\* The digests of a directory fit into a manifest.
LEMMA DigestsAre ==
  ASSUME Files, NEW d \in Dir
  PROVE  Digests(d) \in [Digested -> Number \cup ImageFile \cup {None, Torn}]
BY DEF Files, Digests, Digested, Missing

\* The manifest make-release.py writes is of signed files.
LEMMA NewMan ==
  ASSUME Files, Making, mpc = "manifest"
  PROVE  SignedMan([sha256 |-> Digests("made"), cmdline |-> m.cmdline, kernel |-> m.kernel])
<1>1. Digests("made") \in [Digested -> Number \cup ImageFile \cup {None, Torn}]
  BY DigestsAre DEF Dir
<1>2. /\ Digests("made")["sig"] = out["made"]["sig"]
      /\ Digests("made")["boot"] = out["made"]["boot"]
      /\ Digests("made")["root"] = out["made"]["root"]
  BY DEF Digests, Digested
<1>3. /\ out["made"]["sig"] = out["made"]["boot"] /\ out["made"]["boot"] \in ImageFile
      /\ out["made"]["root"] \in Number
      /\ m.cmdline \in Number /\ m.kernel \in Number \cup {None}
  BY DEF Making, Signed, Rooted, Packed, Clean
<1>4. QED
  BY <1>1, <1>2, <1>3 DEF SignedMan, ManifestFile

\* Puts of a proper file keeps what the directories hold.
LEMMA PutFile ==
  ASSUME Files, NEW from, NEW to, NEW f \in {"boot", "sig", "root"}, NEW c, Puts(from, to, f, c),
         f \in {"boot", "sig"} => c \in ImageFile \cup Missing /\ (c \in Missing \/ Clean(c)),
         f = "root" => c \in Number \cup Missing
  PROVE  Files'
<1>1. f \in File /\ c \in Content /\ Write("made", f, c) /\ "made" \in Dir
  BY DEF Puts, File, Content, Dir
<1>2. /\ out' \in [Dir -> [File -> Content]] /\ out'["made"][f] = c
      /\ \A e \in Dir, g \in File : e # "made" \/ g # f => out'[e][g] = out[e][g]
  BY <1>1, Written DEF Files
<1>3. QED
  BY <1>2 DEF Files, File, Dir

\* make-release.py, killed or not, keeps what the directories hold.
LEMMA FilesOfMake ==
  ASSUME Files, Making, MakeSteps
  PROVE  Files'
<1>1. CASE ReadEnv
  BY <1>1 DEF ReadEnv, Files
<1>2. CASE Gets("copy_kernel", "pack", "kernel", deploy["kernel"])
  BY <1>2 DEF Gets, Files, dirs
<1>3. CASE mpc = "pack" /\ Puts("pack", "sign", "boot", BootImg(m.kernel, m.cmdline, "base"))
  BY <1>3, MadeImage, PutFile DEF Clean
<1>4. CASE Puts("sign", "copy_root", "sig", out["made"].boot)
  BY <1>4, PutFile DEF Files, Dir
<1>5. CASE mpc = "copy_root" /\ Puts("copy_root", "read_kernel", "root", m.root)
  BY <1>5, PutFile DEF Making
<1>6. CASE Gets("read_kernel", "manifest", "kernel", PredictedKernel)
  BY <1>6 DEF Gets, Files, dirs
<1>7. CASE Manifest
  <2> DEFINE c == [sha256 |-> Digests("made"), cmdline |-> m.cmdline, kernel |-> m.kernel]
  <2>1. SignedMan(c) /\ Write("made", "man", c)
    BY <1>7, NewMan DEF Manifest, Makes
  <2> HIDE DEF c
  <2>2. c \in Content /\ "made" \in Dir /\ "man" \in File
    BY <2>1 DEF SignedMan, Content, Dir, File
  <2>3. /\ out' \in [Dir -> [File -> Content]] /\ out'["made"]["man"] = c
        /\ \A e \in Dir, g \in File : e # "made" \/ g # "man" => out'[e][g] = out[e][g]
    BY <2>1, <2>2, Written DEF Files
  <2>4. QED
    BY <2>1, <2>2, <2>3 DEF Files, File, Dir, SignedMan
<1>8. CASE MakeStops
  <2>1. CASE UNCHANGED out
    BY <2>1 DEF Files
  <2>2. CASE mpc \in DOMAIN Writes /\ Write("made", Writes[mpc], Torn)
    <3>1. Writes[mpc] \in File /\ Torn \in Content /\ "made" \in Dir
      BY <2>2 DEF Writes, File, Content, Missing, Dir
    <3>2. /\ out' \in [Dir -> [File -> Content]] /\ out'["made"][Writes[mpc]] = Torn
          /\ \A e \in Dir, g \in File : e # "made" \/ g # Writes[mpc] => out'[e][g] = out[e][g]
      BY <2>2, <3>1, Written DEF Files
    <3>3. QED
      BY <3>1, <3>2 DEF Files, File, Dir, Missing
  <2>3. QED
    BY <1>8, <2>1, <2>2 DEF MakeStops
<1>9. QED
  BY <1>1, <1>2, <1>3, <1>4, <1>5, <1>6, <1>7, <1>8 DEF MakeSteps, Assemble

\* So does tamper-release.py.
LEMMA FilesOfSpoil ==
  ASSUME Files, Spoiling, SpoilSteps
  PROVE  Files'
<1>1. CASE CopyMade
  <2>1. /\ out' \in [Dir -> [File -> Content]]
        /\ out'["spoilt"] = out["made"] /\ out'["made"] = out["made"]
    BY <1>1 DEF CopyMade, Files, Dir
  <2>2. QED
    BY <2>1 DEF Files, Dir
<1>2. ASSUME NEW f \in File, NEW c \in Content, Write("spoilt", f, c),
             f \in {"boot", "sig"} => c \in ImageFile \cup Missing,
             f = "root" => c \in Number \cup Missing,
             f = "man" => c \in ManifestFile \cup Missing
      PROVE  Files'
  <2>1. "spoilt" \in Dir
    BY DEF Dir
  <2>2. /\ out' \in [Dir -> [File -> Content]] /\ out'["spoilt"][f] = c
        /\ \A e \in Dir, g \in File : e # "spoilt" \/ g # f => out'[e][g] = out[e][g]
    BY <1>2, <2>1, Written DEF Files
  <2>3. QED
    BY <1>2, <2>2 DEF Files, File, Dir
<1>3. CASE FlipBytes
  <2>1. [Spoilt EXCEPT !.flipped = TRUE] \in ImageFile
    BY <1>3 DEF FlipBytes, Spoils, Spoiling, Spoilt, ImageFile
  <2>2. QED
    BY <1>2, <1>3, <2>1 DEF FlipBytes, File, Content
<1>4. CASE PackTree
  <2>1. BootImg(None, Spoilt.cmdline, "changed") \in ImageFile
    BY <1>4 DEF PackTree, Spoils, Spoiling, Spoilt, ImageFile, BootImg
  <2>2. QED
    BY <1>2, <1>4, <2>1 DEF PackTree, File, Content
<1>5. CASE SignAgain
  <2>1. Spoilt \in ImageFile
    BY <1>5 DEF SignAgain, Spoils, Spoiling, Spoilt
  <2>2. QED
    BY <1>2, <1>5, <2>1 DEF SignAgain, File, Content
<1>6. CASE WriteManifest
  <2>1. NewManifest \in ManifestFile
    BY <1>6, DigestsAre DEF WriteManifest, Spoils, Spoiling, NewManifest, ManifestFile, Dir
  <2>2. QED
    BY <1>2, <1>6, <2>1 DEF WriteManifest, File, Content
<1>7. CASE SpoilStops
  <2>1. Torn \in Content /\ Torn \in Missing
    BY DEF Content, Missing
  <2>2. UNCHANGED out => Files'
    BY DEF Files
  <2>3. QED
    BY <1>2, <1>7, <2>1, <2>2 DEF SpoilStops
<1>8. QED
  BY <1>1, <1>3, <1>4, <1>5, <1>6, <1>7 DEF SpoilSteps

\* Reading a field leaves the others.
LEMMA GotField ==
  ASSUME NEW from, NEW to, NEW c, Gets(from, to, "kernel", c),
         DOMAIN m \subseteq {"root", "cmdline", "kernel"}, {"root", "cmdline"} \subseteq DOMAIN m
  PROVE  /\ m'["kernel"] = c /\ m'["root"] = m["root"] /\ m'["cmdline"] = m["cmdline"]
         /\ DOMAIN m' = {"root", "cmdline", "kernel"}
         /\ mpc = from /\ mpc' = to /\ UNCHANGED <<out, good, deploy, spc, steady>>
BY DEF Gets, Makes, dirs, builds

\* Puts writes one file and changes nothing else.
LEMMA PutStep ==
  ASSUME Files, NEW from, NEW to, NEW f \in File, NEW c \in Content, Puts(from, to, f, c)
  PROVE  /\ mpc = from /\ mpc' = to /\ UNCHANGED <<good, m, deploy, spc, steady>>
         /\ out'["made"][f] = c
         /\ \A e \in Dir, g \in File : e # "made" \/ g # f => out'[e][g] = out[e][g]
<1>1. "made" \in Dir
  BY DEF Dir
<1>2. QED
  BY <1>1, Written DEF Puts, Makes, builds, Files

\* What the running make has read is in what it has written.
LEMMA MakeStep ==
  ASSUME BInv, MakeSteps
  PROVE  Making' /\ Steadily'
<1> USE DEF BInv, Packed, Signed, Rooted
<1>1. CASE ReadEnv
  <2>1. /\ mpc' = "copy_kernel" /\ "made" \notin good'
        /\ m' = [root |-> deploy["root"],
                 cmdline |-> IF EnvBeside THEN deploy["root"] ELSE deploy["env"]]
    BY <1>1 DEF ReadEnv, Makes, Touch
  <2>2. m'["root"] \in Number /\ m'["cmdline"] \in Number /\ DOMAIN m' = {"root", "cmdline"}
    BY <2>1 DEF Built
  <2>3. steady' \in BOOLEAN /\ (steady' => m'["cmdline"] = m'["root"])
    BY <1>1, <2>1 DEF ReadEnv, OneBuild
  <2>4. QED
    BY <2>1, <2>2, <2>3 DEF Making, Steadily
<1>2. CASE Gets("copy_kernel", "pack", "kernel", deploy["kernel"])
  <2>1. DOMAIN m = {"root", "cmdline"}
    BY <1>2 DEF Gets, Makes, Making
  <2>2. /\ m'["kernel"] = deploy["kernel"] /\ m'["root"] = m["root"] /\ m'["cmdline"] = m["cmdline"]
        /\ DOMAIN m' = {"root", "cmdline", "kernel"} /\ mpc = "copy_kernel"
        /\ mpc' = "pack" /\ UNCHANGED <<out, good, deploy, steady>>
    BY <1>2, <2>1, GotField
  <2>3. deploy["kernel"] \in Number \cup {None}
    BY DEF Built, Part
  <2>4. QED
    BY <2>2, <2>3 DEF Making, Steadily
<1>3. CASE mpc = "pack" /\ Puts("pack", "sign", "boot", BootImg(m.kernel, m.cmdline, "base"))
  <2> DEFINE c == BootImg(m.kernel, m.cmdline, "base")
  <2>1. Clean(c) /\ c.cmdline = m["cmdline"] /\ c.kernel = m["kernel"]
    BY <1>3, MadeImage DEF BootImg
  <2>2. c \in Content /\ "boot" \in File
    BY <2>1 DEF Clean, Content, File
  <2> HIDE DEF c
  <2>3. /\ mpc = "pack" /\ mpc' = "sign" /\ UNCHANGED <<good, m, deploy, steady>>
        /\ out'["made"]["boot"] = c
    BY <1>3, <2>2, PutStep DEF c
  <2>4. Clean(out["made"]["boot"])' = Clean(c)
    BY <2>3 DEF Clean
  <2>5. QED
    BY <2>1, <2>3, <2>4 DEF Making, Steadily
<1>4. CASE Puts("sign", "copy_root", "sig", out["made"].boot)
  <2>1. out["made"]["boot"] \in Content /\ "sig" \in File /\ "boot" \in File /\ "made" \in Dir
    BY DEF Files, File, Dir
  <2>2. /\ mpc = "sign" /\ mpc' = "copy_root" /\ UNCHANGED <<good, m, deploy, steady>>
        /\ out'["made"]["sig"] = out["made"]["boot"] /\ out'["made"]["boot"] = out["made"]["boot"]
    BY <1>4, <2>1, PutStep
  <2>3. QED
    BY <2>2 DEF Making, Steadily, Clean
<1>5. CASE mpc = "copy_root" /\ Puts("copy_root", "read_kernel", "root", m.root)
  <2>1. m.root \in Content /\ "root" \in File /\ "boot" \in File /\ "sig" \in File /\ "made" \in Dir
    BY <1>5 DEF Making, Content, File, Dir
  <2>2. /\ mpc = "copy_root" /\ mpc' = "read_kernel" /\ UNCHANGED <<good, m, deploy, steady>>
        /\ out'["made"]["root"] = m.root /\ out'["made"]["boot"] = out["made"]["boot"]
        /\ out'["made"]["sig"] = out["made"]["sig"]
    BY <1>5, <2>1, PutStep
  <2>3. QED
    BY <2>2 DEF Making, Steadily, Clean
<1>6. CASE Gets("read_kernel", "manifest", "kernel", PredictedKernel)
  <2>1. DOMAIN m = {"root", "cmdline", "kernel"}
    BY <1>6 DEF Gets, Makes, Making
  <2>2. /\ m'["kernel"] = deploy["kernel"] /\ m'["root"] = m["root"] /\ m'["cmdline"] = m["cmdline"]
        /\ DOMAIN m' = {"root", "cmdline", "kernel"} /\ mpc = "read_kernel"
        /\ mpc' = "manifest" /\ UNCHANGED <<out, good, deploy, steady>>
    BY <1>6, <2>1, GotField DEF PredictedKernel
  <2>3. deploy["kernel"] \in Number \cup {None}
    BY DEF Built, Part
  <2>4. QED
    BY <2>2, <2>3 DEF Making, Steadily, Clean
<1>7. CASE Manifest \/ MakeStops
  <2>1. mpc' = "idle" /\ steady' = steady
    BY <1>7 DEF Manifest, MakeStops, Makes
  <2>2. QED
    BY <2>1 DEF Making, Steadily
<1>8. QED
  BY <1>1, <1>2, <1>3, <1>4, <1>5, <1>6, <1>7 DEF MakeSteps, Assemble

\* A release is good once its manifest is written, from parts of one build.
LEMMA CoherentStep ==
  ASSUME BInv, MakeSteps, "made" \in good'
  PROVE  Coherent("made")'
<1> USE DEF BInv, Packed, Signed, Rooted
<1>1. mpc \notin {"copy_kernel", "pack"} \cup {"sign", "copy_root", "read_kernel"}
  BY DEF MakeSteps, ReadEnv, Touch, Assemble, Gets, Puts, Manifest, MakeStops, Makes, Making, dirs
<1>2. ~ReadEnv
  BY DEF ReadEnv, Touch
<1>3. CASE MakeStops
  BY <1>3, <1>1 DEF MakeStops, Making
<1>4. CASE Manifest
  <2> DEFINE c == [sha256 |-> Digests("made"), cmdline |-> m.cmdline, kernel |-> m.kernel]
  <2>1. SignedMan(c) /\ Write("made", "man", c) /\ mpc = "manifest" /\ steady
    BY <1>4, NewMan DEF Manifest, Makes, Making
  <2>2. c.sha256 = Digests("made") /\ c.cmdline = m["cmdline"] /\ c.kernel = m["kernel"]
    OBVIOUS
  <2>3. c \in Content /\ c \in ManifestFile /\ "made" \in Dir /\ "man" \in File
    BY <2>1 DEF SignedMan, Content, Dir, File
  <2> HIDE DEF c
  <2>4. /\ out'["made"]["man"] = c
        /\ out'["made"]["boot"] = out["made"]["boot"] /\ out'["made"]["sig"] = out["made"]["sig"]
        /\ out'["made"]["root"] = out["made"]["root"]
    BY <2>1, <2>3, Written DEF Files, File
  <2>5. Digests("made")' = Digests("made")
    BY <2>4 DEF Digests, Digested
  <2>6. /\ Clean(out["made"]["boot"]) /\ out["made"]["sig"] = out["made"]["boot"]
        /\ out["made"]["root"] = m["root"] /\ m["cmdline"] = m["root"]
        /\ out["made"]["boot"].cmdline = m["cmdline"] /\ out["made"]["boot"].kernel = m["kernel"]
    BY <2>1 DEF Making, Steadily
  <2>7. QED
    BY <2>2, <2>3, <2>4, <2>5, <2>6 DEF Coherent, OtherPcrs, Clean
<1>5. QED
  BY <1>1, <1>2, <1>3, <1>4 DEF MakeSteps, Assemble, Gets, Puts, Makes

\* What tamper-release.py makes is spoilt, and its manifest names it.
LEMMA SpoilStep ==
  ASSUME BInv, SpoilSteps
  PROVE  Spoiling'
<1> USE DEF BInv
<1>0. "made" \in Dir /\ "spoilt" \in Dir
  BY DEF Dir
<1>1. CASE CopyMade
  <2>1. out'["spoilt"] = out["made"] /\ spc' = "copied" /\ mpc' = "idle" /\ "spoilt" \notin good'
    BY <1>1 DEF CopyMade, Spoils, Touch, Files, Dir
  <2>2. out["made"]["boot"] \in ImageFile /\ out["made"]["man"] \in ManifestFile
    BY <1>0, <1>1 DEF CopyMade, Whole, Files, Missing
  <2>3. QED
    BY <2>1, <2>2 DEF Spoiling, Files, Clean
<1>2. CASE FlipBytes
  <2>1. /\ spc = "copied" /\ spc' = "spoilt_boot" /\ mpc' = mpc /\ good' = good
        /\ out["spoilt"]["boot"] \in ImageFile
    BY <1>2 DEF FlipBytes, Spoils, Spoiling
  <2> DEFINE c == [Spoilt EXCEPT !.flipped = TRUE]
  <2>2. c \in ImageFile /\ c.flipped = TRUE
    BY <2>1 DEF Spoilt, ImageFile
  <2>3. c \in Content /\ "boot" \in File /\ "sig" \in File /\ "man" \in File
    BY <2>2 DEF Content, File
  <2>4. Write("spoilt", "boot", c)
    BY <1>2 DEF FlipBytes
  <2> HIDE DEF c
  <2>5. /\ out'["spoilt"]["boot"] = c /\ out'["spoilt"]["sig"] = out["spoilt"]["sig"]
        /\ out'["spoilt"]["man"] = out["spoilt"]["man"]
    BY <1>0, <2>3, <2>4, Written DEF Files
  <2>6. QED
    BY <2>1, <2>2, <2>5 DEF Spoiling, IsSpoilt, Clean
<1>3. CASE PackTree
  <2>1. /\ spc = "copied" /\ spc' = "to_sign" /\ mpc' = mpc /\ good' = good
        /\ out["spoilt"]["boot"] \in ImageFile
    BY <1>3 DEF PackTree, Spoils, Spoiling
  <2> DEFINE c == BootImg(None, Spoilt.cmdline, "changed")
  <2>2. c \in ImageFile /\ c.tree = "changed"
    BY <2>1 DEF Spoilt, ImageFile, BootImg
  <2>3. c \in Content /\ "boot" \in File /\ "man" \in File
    BY <2>2 DEF Content, File
  <2>4. Write("spoilt", "boot", c)
    BY <1>3 DEF PackTree
  <2> HIDE DEF c
  <2>5. out'["spoilt"]["boot"] = c /\ out'["spoilt"]["man"] = out["spoilt"]["man"]
    BY <1>0, <2>3, <2>4, Written DEF Files
  <2>6. QED
    BY <2>1, <2>2, <2>5 DEF Spoiling
<1>4. CASE SignAgain
  <2>1. /\ spc = "to_sign" /\ spc' = "spoilt_boot" /\ mpc' = mpc /\ good' = good
        /\ Spoilt \in Content
    BY <1>0, <1>4 DEF SignAgain, Spoils, Spoilt, Files, File
  <2>2. "boot" \in File /\ "sig" \in File /\ "man" \in File
    BY DEF File
  <2>3. /\ out'["spoilt"]["boot"] = out["spoilt"]["boot"]
        /\ out'["spoilt"]["man"] = out["spoilt"]["man"]
    BY <1>0, <1>4, <2>1, <2>2, Written DEF SignAgain, Files
  <2>4. QED
    BY <2>1, <2>3 DEF Spoiling, IsSpoilt
<1>5. CASE WriteManifest
  <2>1. spc = "spoilt_boot" /\ spc' = "done" /\ mpc' = mpc
    BY <1>5 DEF WriteManifest, Spoils
  <2>2. NewManifest \in ManifestFile /\ NewManifest.sha256 = Digests("spoilt")
    BY <1>0, <2>1, DigestsAre DEF Spoiling, NewManifest, ManifestFile
  <2>3. NewManifest \in Content /\ \A f \in Digested : f \in File /\ f # "man"
    BY <2>2 DEF Content, File, Digested
  <2>4. "man" \in File
    BY DEF File
  <2>5. /\ out'["spoilt"]["man"] = NewManifest
        /\ \A f \in Digested : out'["spoilt"][f] = out["spoilt"][f]
    BY <1>0, <1>5, <2>3, <2>4, Written DEF WriteManifest, Files
  <2>6. Digests("spoilt")' = Digests("spoilt")
    BY <2>5 DEF Digests
  <2>7. /\ out'["spoilt"]["boot"] = out["spoilt"]["boot"]
        /\ out'["spoilt"]["sig"] = out["spoilt"]["sig"]
    BY <2>5 DEF Digested
  <2>8. QED
    BY <2>1, <2>2, <2>5, <2>6, <2>7 DEF Spoiling, IsSpoilt, Clean
<1>6. CASE SpoilStops
  <2>1. spc' = "done" /\ mpc' = mpc /\ good' = good /\ "spoilt" \notin good
    BY <1>6 DEF SpoilStops, Spoiling
  <2>2. QED
    BY <1>6, <2>1 DEF Spoiling, SpoilStops
<1>7. QED
  BY <1>1, <1>2, <1>3, <1>4, <1>5, <1>6 DEF SpoilSteps

\* Each tool writes its own directory: first make-release.py,
LEMMA MakeLeavesSpoilt ==
  ASSUME BInv, MakeSteps
  PROVE  /\ out'["spoilt"] = out["spoilt"] /\ ("spoilt" \in good' <=> "spoilt" \in good)
         /\ spc' = spc /\ (mpc = "idle" => spc = "idle") /\ upc' = upc
         /\ good' \subseteq good \cup {"made"}
         /\ UNCHANGED <<build, pending, deploy>>
<1>1. \A f, c : Write("made", f, c) => out'["spoilt"] = out["spoilt"]
  BY DEF Write, BInv, Files, Dir
<1>2. CASE ReadEnv
  BY <1>2 DEF ReadEnv, Makes, Touch, Building, builds
<1>3. CASE Assemble
  BY <1>1, <1>3 DEF Assemble, Gets, Puts, Makes, dirs, builds
<1>4. CASE Manifest
  BY <1>1, <1>4 DEF Manifest, Makes, builds
<1>5. CASE MakeStops
  BY <1>1, <1>5 DEF MakeStops, builds
<1>6. QED
  BY <1>2, <1>3, <1>4, <1>5 DEF MakeSteps

\* then tamper-release.py.
LEMMA SpoilLeavesMade ==
  ASSUME BInv, SpoilSteps
  PROVE  /\ out'["made"] = out["made"] /\ ("made" \in good' <=> "made" \in good)
         /\ mpc = "idle" /\ mpc' = "idle" /\ steady' = steady /\ upc' = upc
         /\ good' \subseteq good \cup {"spoilt"}
         /\ UNCHANGED <<build, pending, deploy>>
<1>1. \A f, c : Write("spoilt", f, c) => out'["made"] = out["made"]
  BY DEF Write, BInv, Files, Dir
<1>2. CASE CopyMade
  BY <1>2 DEF CopyMade, Spoils, Touch, BInv, Files, Dir, builds
<1>3. CASE FlipBytes \/ PackTree \/ SignAgain \/ WriteManifest
  BY <1>1, <1>3 DEF FlipBytes, PackTree, SignAgain, WriteManifest, Spoils, BInv, Spoiling, builds
<1>4. CASE SpoilStops
  BY <1>1, <1>4 DEF SpoilStops, BInv, Spoiling, builds
<1>5. QED
  BY <1>2, <1>3, <1>4 DEF SpoilSteps

\* What an update has read stays right: whoever changes a directory touches it first.
LEMMA ReadingKept ==
  ASSUME BInv, MakeSteps \/ SpoilSteps
  PROVE  Reading'
<1> USE DEF BInv
<1>1. upc' = upc
  BY MakeLeavesSpoilt, SpoilLeavesMade
<1>2. /\ u' = u \/ \E d \in Dir : u' = [u EXCEPT !.good = @ /\ u.dir # d]
      /\ u'.good => u.good /\ u.dir \in good' /\ out'[u.dir] = out[u.dir]
  <2>1. CASE ReadEnv
    <3>1. u' = [u EXCEPT !.good = @ /\ u.dir # "made"] /\ out' = out /\ good' = good \ {"made"}
      BY <2>1 DEF ReadEnv, Touch
    <3>2. QED
      BY <3>1 DEF Reading, Dir
  <2>2. CASE MakeSteps /\ ~ReadEnv
    <3>1. u' = u /\ good \subseteq good' /\ mpc # "idle"
      BY <2>2 DEF MakeSteps, Assemble, Gets, Puts, Manifest, MakeStops, Makes, dirs
    <3>2. u.good => u.dir = "spoilt"
      BY <3>1 DEF Reading, Making, Dir
    <3>3. QED
      BY <2>2, <3>1, <3>2, MakeLeavesSpoilt DEF Reading
  <2>3. CASE CopyMade
    <3>1. u' = [u EXCEPT !.good = @ /\ u.dir # "spoilt"] /\ u.dir = "spoilt"
      BY <2>3 DEF CopyMade, Touch
    <3>2. QED
      BY <3>1 DEF Reading, Dir
  <2>4. CASE SpoilSteps /\ ~CopyMade
    <3>1. u' = u /\ good \subseteq good' /\ spc \notin {"idle", "done"}
      BY <2>4 DEF SpoilSteps, FlipBytes, PackTree, SignAgain, WriteManifest, SpoilStops, Spoils
    <3>2. u.good => u.dir = "made"
      BY <3>1 DEF Reading, Spoiling, Dir
    <3>3. QED
      BY <2>4, <3>1, <3>2, SpoilLeavesMade DEF Reading
  <2>5. QED
    BY <2>1, <2>2, <2>3, <2>4 DEF MakeSteps, SpoilSteps
<1>3. /\ u'.dir = u.dir /\ u'.release = u.release /\ u'.tar = u.tar /\ u'.good \in BOOLEAN
      /\ u' = [dir |-> u'.dir, good |-> u'.good, release |-> u'.release, tar |-> u'.tar]
  <2>1. CASE u' = u
    BY <2>1 DEF Reading
  <2>2. ASSUME NEW d \in Dir, u' = [u EXCEPT !.good = @ /\ u.dir # d]
        PROVE  /\ u'.dir = u.dir /\ u'.release = u.release /\ u'.tar = u.tar
               /\ u'.good \in BOOLEAN
               /\ u' = [dir |-> u'.dir, good |-> u'.good, release |-> u'.release, tar |-> u'.tar]
    <3> DEFINE b == u.good /\ u.dir # d
    <3>1. b \in BOOLEAN /\ u' = [u EXCEPT !.good = b]
      BY <2>2
    <3> HIDE DEF b
    <3>2. QED
      BY <3>1 DEF Reading
  <2>3. QED
    BY <1>2, <2>1, <2>2
<1>4. QED
  BY <1>1, <1>2, <1>3 DEF Reading, Accepted, Boots, MeasuresAs

\* Reading on, and the outcome.
LEMMA ReadOn ==
  ASSUME BInv, UpdateSteps
  PROVE  Reading'
<1> USE DEF BInv
<1>1. CASE ReadManifest
  <2>1. upc' = "man" /\ UNCHANGED <<out, good>>
    BY <1>1 DEF ReadManifest, Tool, dirs
  <2> DEFINE b == u.dir \in good
  <2>2. u' = [u EXCEPT !.good = b, !.release = out[u.dir].man] /\ b \in BOOLEAN
    BY <1>1 DEF ReadManifest
  <2> HIDE DEF b
  <2>3. /\ u' = [dir |-> u'.dir, good |-> u'.good, release |-> u'.release, tar |-> u'.tar]
        /\ u'.dir = u.dir /\ u'.tar = u.tar /\ u'.good = b /\ u'.release = out[u.dir]["man"]
    BY <2>2 DEF Reading
  <2>4. ReadBy[upc'] = {}
    BY <2>1 DEF ReadBy
  <2>5. QED
    BY <2>1, <2>2, <2>3, <2>4 DEF Reading, b, Outcome
<1>2. CASE TarFile
  <2> DEFINE c == out[u.dir][upc]
  <2>1. /\ upc \in {"man", "boot", "sig", "root"} /\ upc' = NextRead[upc]
        /\ u' = [u EXCEPT !.tar[upc] = c] /\ UNCHANGED <<out, good>>
    BY <1>2 DEF TarFile, NextRead, Tool, dirs
  <2>2. upc \in File /\ c \in Content
    BY <2>1 DEF File, Files, Reading
  <2> HIDE DEF c
  <2>3. /\ u' = [dir |-> u'.dir, good |-> u'.good, release |-> u'.release, tar |-> u'.tar]
        /\ u'.dir = u.dir /\ u'.good = u.good /\ u'.release = u.release
        /\ u'.tar = [u.tar EXCEPT ![upc] = c]
    BY <2>1 DEF Reading
  <2>4. /\ u'.tar \in [File -> Content] /\ u'.tar[upc] = c
        /\ \A f \in File : f # upc => u'.tar[f] = u.tar[f]
    BY <2>2, <2>3 DEF Reading
  <2>5. u.dir = "made" => u'.tar["man"] \in Missing \/ SignedMan(u'.tar["man"])
    <3>1. CASE upc = "man"
      BY <2>4, <3>1 DEF Files, c
    <3>2. CASE upc # "man"
      <4>1. "man" \in File
        BY DEF File
      <4>2. QED
        BY <2>4, <3>2, <4>1 DEF Reading
    <3>3. QED
      BY <3>1, <3>2
  <2>6. upc' \in {"boot", "sig", "root", "sent"} /\ ReadBy[upc'] = ReadBy[upc] \cup {upc}
    BY <2>1 DEF NextRead, ReadBy, File
  <2>7. ReadBy[upc] \subseteq File
    BY <2>1 DEF ReadBy, File
  <2>8. u.good => \A f \in ReadBy[upc'] : u'.tar[f] = out[u.dir][f]
    BY <2>4, <2>6, <2>7 DEF Reading, c
  <2>9. QED
    BY <2>1, <2>3, <2>4, <2>5, <2>6, <2>8 DEF Reading, Outcome, SignedMan
<1>3. CASE Judged
  <2>1. /\ upc = "sent" /\ UNCHANGED <<u, out, good>>
        /\ upc' = IF ~Accepted(u.tar) THEN "refused"
                  ELSE IF Boots(u.tar) /\ MeasuresAs(u.tar["boot"], u.release) THEN "passed"
                  ELSE "failed"
    BY <1>3 DEF Judged, Tool, dirs
  <2>2. ReadBy[upc'] = File /\ ReadBy[upc] = File /\ upc' \in Outcome
    BY <2>1 DEF ReadBy, Outcome
  <2>3. QED
    BY <2>1, <2>2 DEF Reading, Accepted, Boots, MeasuresAs, Outcome
<1>4. QED
  BY <1>1, <1>2, <1>3 DEF UpdateSteps

\* Each step keeps the invariant.
LEMMA BInvStep == BInv /\ [BNext]_bvars => BInv'
<1> SUFFICES ASSUME BInv, [BNext]_bvars PROVE BInv'
  OBVIOUS
<1> USE DEF BInv
<1>1. CASE MakeSteps
  <2>1. Files' /\ Making' /\ Steadily' /\ Reading' /\ ("made" \in good' => Coherent("made")')
    BY <1>1, FilesOfMake, MakeStep, ReadingKept, CoherentStep
  <2>2. Built' /\ good' \subseteq Dir
    BY <1>1, MakeLeavesSpoilt DEF Built, Dir
  <2>3. Digests("spoilt")' = Digests("spoilt")
    BY <1>1, MakeLeavesSpoilt DEF Digests
  <2>4. Spoiling'
    <3>1. spc # "idle" => mpc' = "idle"
      BY <1>1, MakeLeavesSpoilt DEF MakeSteps, ReadEnv, Assemble, Gets, Puts, Manifest, MakeStops,
         Makes, Spoiling, Building
    <3>2. QED
      BY <1>1, <2>3, <3>1, MakeLeavesSpoilt DEF Spoiling, IsSpoilt, Clean
  <2>5. QED
    BY <2>1, <2>2, <2>4
<1>2. CASE SpoilSteps
  <2>1. Files' /\ Spoiling' /\ Reading'
    BY <1>2, FilesOfSpoil, SpoilStep, ReadingKept
  <2>2. Built' /\ good' \subseteq Dir /\ Making' /\ Steadily'
    BY <1>2, SpoilLeavesMade DEF Built, Dir, Making, Steadily, Packed, Signed, Rooted
  <2>3. Digests("made")' = Digests("made")
    BY <1>2, SpoilLeavesMade DEF Digests
  <2>4. "made" \in good' => Coherent("made")'
    BY <1>2, <2>3, SpoilLeavesMade DEF Coherent, Clean, OtherPcrs
  <2>5. QED
    BY <2>1, <2>2, <2>4
<1>3. CASE UpdateSteps
  <2>1. /\ UNCHANGED <<build, pending, deploy, out, good, mpc, m, spc, steady>>
    BY <1>3 DEF UpdateSteps, ReadManifest, TarFile, Judged, Tool, dirs, builds
  <2>2. Digests("made")' = Digests("made") /\ Digests("spoilt")' = Digests("spoilt")
    BY <2>1 DEF Digests
  <2>3. Files' /\ Built' /\ Making' /\ Steadily'
    BY <2>1 DEF Files, Built, Making, Steadily, Clean, SignedMan
  <2>4. Spoiling' /\ (Coherent("made") => Coherent("made")')
    BY <2>1, <2>2 DEF Spoiling, IsSpoilt, Coherent, Clean, OtherPcrs
  <2>5. QED
    BY <1>3, <2>1, <2>3, <2>4, ReadOn
<1>4. CASE BuildStarts \/ \E p \in Part : Deploys(p)
  <2>1. UNCHANGED <<out, good, mpc, m, spc, upc, u>>
    BY <1>4 DEF BuildStarts, Deploys, dirs
  <2>2. Digests("made")' = Digests("made") /\ Digests("spoilt")' = Digests("spoilt")
    BY <2>1 DEF Digests
  <2>3. Files' /\ Making' /\ Reading'
    BY <2>1 DEF Files, Making, Clean, SignedMan, Reading, Accepted, Boots, MeasuresAs
  <2>4. Spoiling' /\ (Coherent("made") => Coherent("made")')
    BY <2>1, <2>2 DEF Spoiling, IsSpoilt, Coherent, Clean, OtherPcrs
  <2>5. Built' /\ Steadily'
    <3>1. CASE BuildStarts
      BY <2>1, <3>1 DEF BuildStarts, Built, Steadily, Number
    <3>2. ASSUME NEW p \in Part, Deploys(p) PROVE Built' /\ Steadily'
      BY <3>2 DEF Deploys, Built, Steadily, Part
    <3>3. QED
      BY <1>4, <3>1, <3>2
  <2>6. QED
    BY <2>1, <2>3, <2>4, <2>5
<1>5. CASE UNCHANGED bvars
  <2>1. UNCHANGED <<build, pending, deploy, out, good, mpc, m, spc, upc, u, steady>>
    BY <1>5 DEF bvars, builds, dirs
  <2>2. Digests("made")' = Digests("made") /\ Digests("spoilt")' = Digests("spoilt")
    BY <2>1 DEF Digests
  <2>3. Files' /\ Making' /\ Reading' /\ Built' /\ Steadily'
    BY <2>1 DEF Files, Making, Clean, SignedMan, Reading, Accepted, Boots, MeasuresAs, Built,
         Steadily
  <2>4. Spoiling' /\ (Coherent("made") => Coherent("made")')
    BY <2>1, <2>2 DEF Spoiling, IsSpoilt, Coherent, Clean, OtherPcrs
  <2>5. QED
    BY <2>1, <2>3, <2>4
<1>6. QED
  BY <1>1, <1>2, <1>3, <1>4, <1>5 DEF BNext, MakeSteps, SpoilSteps, UpdateSteps

\* So it holds of every behaviour.
LEMMA AlwaysBInv == BSpec => []BInv
BY BInvInit, BInvStep, PTL DEF BSpec

\* Every reachable state of builds, directories and tools is well typed (BTypeOK).
THEOREM BuildTypeCorrect == BSpec => []BTypeOK
<1>1. BInv => BTypeOK
  <2> SUFFICES ASSUME BInv PROVE BTypeOK
    OBVIOUS
  <2> USE DEF BInv
  <2>1. build \in Number /\ pending \subseteq Part /\ deploy \in [Part -> Number \cup {None}]
    BY DEF Built
  <2>2. DOMAIN out = Dir
    BY DEF Files
  <2>3. ASSUME NEW d \in Dir
        PROVE  /\ out[d].root \in Number \cup {None, Torn}
               /\ Whole(out[d].man) => DOMAIN out[d].man.sha256 = Digested
    BY DEF Files, Whole, Missing, ManifestFile
  <2>4. "made" \in good => \A f \in File : Whole(out["made"][f])
    BY DEF Coherent, Clean, Whole, File, ImageFile
  <2>5. QED
    BY <2>1, <2>2, <2>3, <2>4 DEF BTypeOK
<1>2. QED
  BY <1>1, AlwaysBInv, PTL

\* What the agent accepts from make-release.py's directory is whole and signed, whatever
\* was killed and rebuilt meanwhile (AcceptedIsSigned): a manifest is only ever written of
\* signed files, and its digests tell if those sent are others.
THEOREM AcceptedWasSigned == BSpec => []AcceptedIsSigned
<1>1. BInv => AcceptedIsSigned
  <2> SUFFICES ASSUME BInv, upc \in {"failed", "passed"}, u.dir = "made"
               PROVE  (\A f \in File : Whole(u.tar[f])) /\ u.tar.sig = u.tar.boot
    BY DEF AcceptedIsSigned
  <2>1. Accepted(u.tar) /\ SignedMan(u.tar["man"])
    BY DEF BInv, Reading, Accepted, Whole, Missing
  <2>2. QED
    BY <2>1 DEF Accepted, SignedMan, Whole, File, Digested
<1>2. QED
  BY <1>1, AlwaysBInv, PTL

\* A release made while nothing was deployed, from the parts of one build, is accepted and
\* passes its health check, whatever was in the directory before (GoodReleasePasses).
THEOREM GoodOnesPass == BSpec => []GoodReleasePasses
<1>1. BInv => GoodReleasePasses
  <2> SUFFICES ASSUME BInv, upc \in {"refused", "failed"}, u.good, u.dir = "made" PROVE FALSE
    BY DEF GoodReleasePasses
  <2>1. /\ Coherent("made") /\ u.release = out["made"]["man"]
        /\ \A f \in File : u.tar[f] = out["made"][f]
    BY DEF BInv, Reading, ReadBy, Outcome
  <2>2. Accepted(u.tar)
    BY <2>1 DEF Coherent, Accepted, Whole, Digests, Digested, File
  <2>3. Boots(u.tar) /\ MeasuresAs(u.tar["boot"], u.release)
    BY <2>1 DEF Coherent, Boots, MeasuresAs, OtherPcrs, Clean, File
  <2>4. QED
    BY <2>2, <2>3 DEF BInv, Reading
<1>2. QED
  BY <1>1, AlwaysBInv, PTL

\* What tamper-release.py has finished is accepted and never passes (SpoiltIsCaught).
THEOREM SpoiltNeverPasses == BSpec => []SpoiltIsCaught
<1>1. BInv => SpoiltIsCaught
  <2> SUFFICES ASSUME BInv, upc \in {"refused", "passed"}, u.good, u.dir = "spoilt" PROVE FALSE
    BY DEF SpoiltIsCaught
  <2>1. /\ "spoilt" \in good /\ \A f \in File : u.tar[f] = out["spoilt"][f]
    BY DEF BInv, Reading, ReadBy, Outcome
  <2>2. /\ IsSpoilt /\ out["spoilt"]["man"] \in ManifestFile
        /\ out["spoilt"]["man"].sha256 = Digests("spoilt")
    BY <2>1 DEF BInv, Spoiling
  <2>3. Accepted(u.tar)
    BY <2>1, <2>2 DEF Accepted, Whole, Digests, Digested, File
  <2>4. ~(Boots(u.tar) /\ MeasuresAs(u.tar["boot"], u.release))
    <3>1. CASE out["spoilt"]["boot"].tree = "changed"
      BY <2>1, <3>1 DEF MeasuresAs, File
    <3>2. CASE /\ out["spoilt"]["boot"].flipped = TRUE
               /\ out["spoilt"]["sig"] \in Missing \/ Clean(out["spoilt"]["sig"])
      <4>1. out["spoilt"]["boot"] \in ImageFile
        BY <2>1 DEF BInv, Spoiling
      <4>2. out["spoilt"]["boot"] \notin Missing
        BY <4>1 DEF Missing
      <4>3. QED
        BY <2>1, <3>2, <4>1, <4>2 DEF Boots, Clean, File
    <3>3. QED
      BY <2>2, <3>1, <3>2 DEF IsSpoilt
  <2>5. QED
    BY <2>3, <2>4 DEF BInv, Reading
<1>2. QED
  BY <1>1, AlwaysBInv, PTL
=============================================================================
