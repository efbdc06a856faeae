------------------------------ MODULE ServerFiles ------------------------------
(***************************************************************************)
(* The files of the server (agents/server/rp5.py, attestation/            *)
(* attest-server.py). Of every board it keeps the enrollment record, the   *)
(* AK and the current goldens; update() also leaves the goldens it         *)
(* predicted in the release directory, which all boards updated from that  *)
(* directory share. Commands are processes of their own: updates,          *)
(* enroll (and the provisioning verbs, which store their reply alike) and  *)
(* enroll-dt run at the same time, and any of them may be killed between   *)
(* two steps. No file is replaced in one step: it is emptied, then filled, *)
(* and a reader of an empty file ends with an exception.                   *)
(*                                                                         *)
(* A board is here what its measurements depend on. PCR0 holds the U-Boot  *)
(* of the release and the devicetree, which depends on the board, on its   *)
(* bootloader firmware and on the release; PCR1 holds the firmware's       *)
(* command-line prefix, which depends on the first two, and the release's  *)
(* command line; PCR8 its kernel. How a trial comes about is UpdateCycle's *)
(* matter, and nonces and resetCount are Verifier's.                       *)
(***************************************************************************)
EXTENDS Integers, FiniteSets

CONSTANTS
  Board,
  Release,      \* release directories, each of one release
  Unexpected,   \* releases whose devicetree is not the one the boards are enrolled with
  Silent,       \* releases whose U-Boot does not export the devicetree digest
  Unstamped,    \* releases whose manifest has no U-Boot version string
  Updater, Enroller,   \* processes, each running one command at a time
  Verb,         \* the commands an enroller runs: "enroll" (and what stores its reply like
                \* it), "enroll-dt"
  Shared,       \* two updates may use one release directory at a time
  MaxFirmware,  \* bound on the bootloader firmware's updates
  None, Torn    \* no such file or field; an empty or half-written file

ASSUME FilesAssumption ==
  /\ Unexpected \subseteq Release /\ Silent \subseteq Release /\ Unstamped \subseteq Release
  /\ Verb \in [Enroller -> SUBSET {"enroll", "enroll-dt"}]
  /\ Shared \in BOOLEAN /\ MaxFirmware \in Nat
  /\ {None, Torn} \cap (Board \cup Release) = {}

VARIABLES
  firmware,   \* generation of the board's bootloader firmware
  runs,       \* the release that runs
  trial,      \* it runs on trial
  committed,  \* the committed release
  record,     \* boards/<b>/enrollment.json: the digest, the prefix, whether the Name is in it
  pem,        \* boards/<b>/ak.pem
  current,    \* boards/<b>/current-goldens.json
  goldens,    \* <release>/goldens.json
  upc, plan,  \* an update's place, and what it works with: the board and the release, the
              \* devicetree it expects, and whether that is taken on trust, the goldens it is
              \* going to write and (history) those its second round has passed with
  epc, held,  \* an enrolling command's place, and the record it is going to write
  known,      \* history: boards whose devicetree digest has been recorded
  misled,     \* history: boards of which the digest of an unexpected tree has been recorded
  settled     \* history: nothing has touched the board since its last update's second round

boards   == <<firmware, runs, trial, committed>>
updates  == <<upc, plan>>
enrolls  == <<epc, held>>
history  == <<known, misled, settled>>
fvars    == <<boards, record, pem, current, goldens, updates, enrolls, history>>

Tree(r) == IF r \in Unexpected THEN "unexpected" ELSE "base"
Digest == [board : Board, firmware : 0..MaxFirmware, tree : {"base", "unexpected"}]
Prefix == [board : Board, firmware : 0..MaxFirmware]
\* In goldens the prefix None is the one built into make-release.py.
Goldens == [release : Release, tree : Digest, prefix : Prefix \cup {None}]
Record == [dt_digest : Digest \cup {None}, prefix : Prefix \cup {None}, named : BOOLEAN]
Whole(f) == f \notin {None, Torn}

ASSUME FieldAssumption == None \notin Digest /\ {None, Torn} \cap Record = {}

-----------------------------------------------------------------------------
(* The board.                                                              *)

DigestWith(b, r) == [board |-> b, firmware |-> firmware[b], tree |-> Tree(r)]
DigestOf(b) == DigestWith(b, runs[b])
PrefixOf(b) == [board |-> b, firmware |-> firmware[b]]
Reported(b) == IF runs[b] \in Silent THEN None ELSE DigestOf(b)
Measured(b) == [release |-> runs[b], tree |-> DigestOf(b), prefix |-> PrefixOf(b)]

\* A plain boot, on request or by itself.
PlainBoot(b) ==
  /\ runs' = [runs EXCEPT ![b] = committed[b]]
  /\ trial' = [trial EXCEPT ![b] = FALSE]

Restart(b) ==
  /\ trial[b] /\ PlainBoot(b)
  /\ UNCHANGED <<firmware, committed, record, pem, current, goldens, updates, enrolls, history>>

NewFirmware(b) ==
  /\ firmware[b] < MaxFirmware
  /\ firmware' = [firmware EXCEPT ![b] = @ + 1]
  /\ PlainBoot(b)
  /\ settled' = settled \ {b}
  /\ UNCHANGED <<committed, record, pem, current, goldens, updates, enrolls, known, misled>>

-----------------------------------------------------------------------------
(* A round, as far as files decide it. Without a record of the board the   *)
(* verifier uses its built-in Name, without goldens the built-in ones: of  *)
(* another board. A file that cannot be read ends it.                      *)

NamesIndex(rec) == Whole(rec) /\ rec.named
Passes(b, g) ==
  /\ NamesIndex(record[b]) /\ pem[b] = b
  /\ Whole(g) /\ g = Measured(b)

-----------------------------------------------------------------------------
(* update().                                                               *)

Goto(u, p) == upc' = [upc EXCEPT ![u] = p]
Live(u) == upc[u] # "idle"
NoPlan == [board |-> None]

\* The release runs on trial, and its status reply with the PCRs is in. A board has one
\* update at a time.
Trial(u, b, r) ==
  /\ ~Live(u)
  /\ \A v \in Updater : Live(v) => plan[v].board # b /\ (Shared \/ plan[v].release # r)
  /\ runs' = [runs EXCEPT ![b] = r]
  /\ trial' = [trial EXCEPT ![b] = TRUE]
  /\ plan' = [plan EXCEPT ![u] = [board |-> b, release |-> r, tree |-> DigestWith(b, r),
                                  trusted |-> FALSE, goldens |-> None, proven |-> None]]
  /\ Goto(u, "up")
  /\ settled' = settled \ {b}
  /\ UNCHANGED <<firmware, committed, record, pem, current, goldens, enrolls, known, misled>>

\* The enrollment record as a command reads it; a torn one ends the command.
BadReadable(rec) == TRUE
Readable(rec) == rec # Torn
NoRecord == [dt_digest |-> None, prefix |-> None, named |-> FALSE]
Contents(rec) == IF Whole(rec) THEN rec ELSE NoRecord

\* PCR0: from the enrolled digest if there is one, from the trial boot otherwise.
BadEnrolledDigest(rec, seen) == seen
EnrolledDigest(rec, seen) == Contents(rec).dt_digest

Predict(u) ==
  LET p == plan[u]
      d == EnrolledDigest(record[p.board], p.tree)
      onTrust == d = None \/ p.release \in Unstamped
  IN /\ upc[u] = "up" /\ Readable(record[p.board])
     /\ plan' = [plan EXCEPT ![u].trusted = onTrust,
                             ![u].tree = IF onTrust THEN p.tree ELSE d]
     /\ Goto(u, "predicted")
     /\ UNCHANGED <<boards, record, pem, current, goldens, enrolls, history>>

\* goldens_for reads the record once more; PCR1 is the manifest's without a prefix. Then the
\* file in the release directory is emptied.
BadGoldensFor(p, rec) ==
  [release |-> p.release, tree |-> Contents(rec).dt_digest, prefix |-> Contents(rec).prefix]
GoldensFor(p, rec) ==
  [release |-> p.release, tree |-> p.tree, prefix |-> Contents(rec).prefix]

OpenGoldens(u) ==
  /\ upc[u] = "predicted" /\ Readable(record[plan[u].board])
  /\ plan' = [plan EXCEPT ![u].goldens = GoldensFor(plan[u], record[plan[u].board])]
  /\ goldens' = [goldens EXCEPT ![plan[u].release] = Torn]
  /\ Goto(u, "opened")
  /\ UNCHANGED <<boards, record, pem, current, enrolls, history>>

FillGoldens(u) ==
  /\ upc[u] = "opened"
  /\ goldens' = [goldens EXCEPT ![plan[u].release] = plan[u].goldens]
  /\ plan' = [plan EXCEPT ![u].goldens = None]
  /\ Goto(u, "written")
  /\ UNCHANGED <<boards, record, pem, current, enrolls, history>>

HealthCheck(u) ==
  /\ upc[u] = "written"
  /\ Passes(plan[u].board, goldens[plan[u].release])
  /\ Goto(u, "healthy")
  /\ UNCHANGED <<boards, record, pem, current, goldens, plan, enrolls, history>>

\* The agent commits what runs on trial, and nothing else; then the reboot.
Commit(u) ==
  LET b == plan[u].board
  IN /\ upc[u] = "healthy" /\ trial[b]
     /\ committed' = [committed EXCEPT ![b] = runs[b]]
     /\ Goto(u, "committed")
     /\ UNCHANGED <<firmware, runs, trial, record, pem, current, goldens, plan, enrolls, history>>

Reboot(u) ==
  /\ upc[u] = "committed" /\ PlainBoot(plan[u].board)
  /\ Goto(u, "rebooted")
  /\ UNCHANGED <<firmware, committed, record, pem, current, goldens, plan, enrolls, history>>

BadSecondRound(b, g) == TRUE
SecondRound(b, g) == Passes(b, g)

Attested(u) ==
  LET b == plan[u].board
      g == goldens[plan[u].release]
  IN /\ upc[u] = "rebooted" /\ SecondRound(b, g)
     /\ plan' = [plan EXCEPT ![u].proven = IF Passes(b, g) THEN g ELSE None]
     /\ settled' = settled \cup {b}
     /\ Goto(u, "attested")
     /\ UNCHANGED <<boards, record, pem, current, goldens, enrolls, known, misled>>

\* shutil.copy: the goldens are read from the release directory once more.
OpenCurrent(u) ==
  /\ upc[u] = "attested"
  /\ current' = [current EXCEPT ![plan[u].board] = Torn]
  /\ Goto(u, "copying")
  /\ UNCHANGED <<boards, record, pem, goldens, plan, enrolls, history>>

\* Every update writes the goldens in the directory before it reads them, so what the last
\* one leaves there is of no consequence, and forgotten.
GoldensLeft(u) ==
  IF \E v \in Updater \ {u} : Live(v) /\ plan[v].release = plan[u].release THEN goldens
  ELSE [goldens EXCEPT ![plan[u].release] = None]

BadCopied(u) == GoldensFor(plan[u], None)
Copied(u) == goldens[plan[u].release]

FillCurrent(u) ==
  /\ upc[u] = "copying"
  /\ current' = [current EXCEPT ![plan[u].board] = Copied(u)]
  /\ goldens' = GoldensLeft(u)
  /\ plan' = [plan EXCEPT ![u] = NoPlan]
  /\ Goto(u, "idle")
  /\ UNCHANGED <<boards, record, pem, enrolls, history>>

\* Killed, ended by an exception, or refused: anywhere.
Stop(u) ==
  /\ Live(u)
  /\ settled' = settled \ {plan[u].board}
  /\ goldens' = GoldensLeft(u)
  /\ plan' = [plan EXCEPT ![u] = NoPlan]
  /\ Goto(u, "idle")
  /\ UNCHANGED <<boards, record, pem, current, enrolls, known, misled>>

-----------------------------------------------------------------------------
(* enroll, the provisioning verbs, and enroll-dt.                          *)

ToEnroll(e, p) == epc' = [epc EXCEPT ![e] = p]
NoReply == [board |-> None]

\* The reply is in. That of enroll always has the digest, if only as null.
Asked(e, v, b) ==
  /\ epc[e] = "idle"
  /\ v = "enroll-dt" => Reported(b) # None
  /\ held' = [held EXCEPT ![e] = [board |-> b, verb |-> v, dt_digest |-> Reported(b),
                                  prefix |-> PrefixOf(b)]]
  /\ ToEnroll(e, "asked")
  /\ UNCHANGED <<boards, record, pem, current, goldens, updates, history>>

\* enr.update(...): a field the reply has replaces the one on record.
Merged(rec, h) ==
  IF h.verb = "enroll" THEN [rec EXCEPT !.dt_digest = h.dt_digest, !.named = TRUE]
  ELSE [rec EXCEPT !.dt_digest = h.dt_digest, !.prefix = h.prefix]

ReadRecord(e) ==
  LET b == held[e].board
  IN /\ epc[e] = "asked" /\ Readable(record[b])
     /\ held' = [held EXCEPT ![e] = [board |-> b, verb |-> held[e].verb,
                                     record |-> Merged(Contents(record[b]), held[e])]]
     /\ ToEnroll(e, "merged")
     /\ UNCHANGED <<boards, record, pem, current, goldens, updates, history>>

OpenRecord(e) ==
  /\ epc[e] = "merged"
  /\ record' = [record EXCEPT ![held[e].board] = Torn]
  /\ settled' = settled \ {held[e].board}
  /\ ToEnroll(e, "record_open")
  /\ UNCHANGED <<boards, pem, current, goldens, updates, held, known, misled>>

FillRecord(e) ==
  LET h == held[e]
  IN /\ epc[e] = "record_open"
     /\ record' = [record EXCEPT ![h.board] = h.record]
     /\ known' = IF h.record.dt_digest # None THEN known \cup {h.board} ELSE known
     /\ misled' = IF h.record.dt_digest # None /\ h.record.dt_digest.tree # "base"
                  THEN misled \cup {h.board} ELSE misled
     /\ settled' = settled \ {h.board}
     /\ IF h.verb = "enroll"
        THEN ToEnroll(e, "recorded") /\ held' = [held EXCEPT ![e] = [board |-> h.board]]
        ELSE ToEnroll(e, "idle") /\ held' = [held EXCEPT ![e] = NoReply]
     /\ UNCHANGED <<boards, pem, current, goldens, updates>>

OpenPem(e) ==
  /\ epc[e] = "recorded"
  /\ pem' = [pem EXCEPT ![held[e].board] = Torn]
  /\ settled' = settled \ {held[e].board}
  /\ ToEnroll(e, "pem_open")
  /\ UNCHANGED <<boards, record, current, goldens, updates, held, known, misled>>

FillPem(e) ==
  /\ epc[e] = "pem_open"
  /\ pem' = [pem EXCEPT ![held[e].board] = held[e].board]
  /\ held' = [held EXCEPT ![e] = NoReply]
  /\ ToEnroll(e, "idle")
  /\ UNCHANGED <<boards, record, current, goldens, updates, history>>

StopEnroll(e) ==
  /\ epc[e] # "idle"
  /\ held' = [held EXCEPT ![e] = NoReply]
  /\ ToEnroll(e, "idle")
  /\ UNCHANGED <<boards, record, pem, current, goldens, updates, history>>

-----------------------------------------------------------------------------
\* Boards of one factory release, not enrolled yet.
FInit ==
  /\ \E r \in Release \ Unexpected : committed = [b \in Board |-> r]
  /\ runs = committed
  /\ trial = [b \in Board |-> FALSE] /\ firmware = [b \in Board |-> 0]
  /\ record = [b \in Board |-> None] /\ pem = [b \in Board |-> None]
  /\ current = [b \in Board |-> None] /\ goldens = [r \in Release |-> None]
  /\ upc = [u \in Updater |-> "idle"] /\ plan = [u \in Updater |-> NoPlan]
  /\ epc = [e \in Enroller |-> "idle"] /\ held = [e \in Enroller |-> NoReply]
  /\ known = {} /\ misled = {} /\ settled = {}

FNext ==
  \/ \E b \in Board : Restart(b) \/ NewFirmware(b)
  \/ \E u \in Updater :
       \/ \E b \in Board, r \in Release : Trial(u, b, r)
       \/ Predict(u) \/ OpenGoldens(u) \/ FillGoldens(u) \/ HealthCheck(u)
       \/ Commit(u) \/ Reboot(u) \/ Attested(u) \/ OpenCurrent(u) \/ FillCurrent(u) \/ Stop(u)
  \/ \E e \in Enroller :
       \/ \E v \in Verb[e], b \in Board : Asked(e, v, b)
       \/ ReadRecord(e) \/ OpenRecord(e) \/ FillRecord(e) \/ OpenPem(e) \/ FillPem(e)
       \/ StopEnroll(e)

FSpec == FInit /\ [][FNext]_fvars

-----------------------------------------------------------------------------
(* Properties.                                                             *)

FTypeOK ==
  /\ firmware \in [Board -> 0..MaxFirmware] /\ trial \in [Board -> BOOLEAN]
  /\ runs \in [Board -> Release] /\ committed \in [Board -> Release]
  /\ record \in [Board -> Record \cup {None, Torn}]
  /\ pem \in [Board -> Board \cup {None, Torn}]
  /\ current \in [Board -> Goldens \cup {None, Torn}]
  /\ goldens \in [Release -> Goldens \cup {None, Torn}]
  /\ \A b \in Board : ~trial[b] => runs[b] = committed[b]

\* What a routine round compares a board with are goldens that very board has passed its
\* second round with, on the committed boot (rp5.py, "goldens of release .. are now
\* current"), although update() passes them on in a file outside the board's directory.
CurrentIsProven ==
  [][\A b \in Board :
       current'[b] # current[b] /\ Whole(current'[b])
       => \E u \in Updater : plan[u].board = b /\ current'[b] = plan[u].proven]_fvars

\* A board whose last update ended in DONE, and of which nothing has changed since, passes
\* its routine rounds.
DoneMeansMonitored ==
  \A b \in settled :
    (\A u \in Updater : plan[u].board # b) => Passes(b, current[b])

\* Once a board's devicetree digest has been recorded, no update takes PCR0 on trust any
\* more (rp5.py, "always predict them from this board's enrollment"), whatever commands
\* overlap and wherever they are killed.
NeverOnTrustAgain ==
  [][\A u \in Updater : upc[u] = "up" /\ upc'[u] = "predicted" /\ plan'[u].trusted
       => plan[u].board \notin known]_fvars

\* An update with an unexpected devicetree is committed only on trust, or after the digest
\* of such a tree was recorded (tamper-release.py, "a signed-but-unexpected tree is caught
\* by measurement").
UnexpectedTreeCaught ==
  [][\A b \in Board :
       committed'[b] # committed[b] /\ committed'[b] \in Unexpected
       => b \in misled \/ \E u \in Updater : plan[u].board = b /\ plan[u].trusted]_fvars

=============================================================================
