------------------------- MODULE ServerFiles_proofs -------------------------
(* What the server's files are worth, for any number of boards, releases,     *)
(* updates and enrolling commands, each of which may be killed anywhere.      *)
EXTENDS ServerFiles, TLAPS

USE FilesAssumption, FieldAssumption

-----------------------------------------------------------------------------
(* The invariant.                                                          *)

UPC == {"idle", "up", "predicted", "opened", "written", "healthy", "committed", "rebooted",
        "attested", "copying"}
EPC == {"idle", "asked", "merged", "record_open", "recorded", "pem_open"}
PlanShape(p) == DOMAIN p = {"board", "release", "tree", "trusted", "goldens", "proven"}

\* As much of the types as the rest needs.
Typed ==
  /\ firmware \in [Board -> 0..MaxFirmware]
  /\ runs \in [Board -> Release] /\ committed \in [Board -> Release]
  /\ trial \in [Board -> BOOLEAN]
  /\ record \in [Board -> Record \cup {None, Torn}]
  /\ DOMAIN pem = Board /\ DOMAIN current = Board /\ DOMAIN goldens = Release
  /\ upc \in [Updater -> UPC] /\ DOMAIN plan = Updater
  /\ epc \in [Enroller -> EPC] /\ DOMAIN held = Enroller
  /\ settled \subseteq Board

PlanTyped(u) ==
  Live(u) => plan[u].board \in Board /\ plan[u].release \in Release /\ PlanShape(plan[u])

\* What an enrolling command holds: a reply, then the record to write.
HeldTyped(e) ==
  /\ epc[e] # "idle" => held[e].board \in Board
  /\ epc[e] = "asked" => /\ held[e].dt_digest \in Digest \cup {None}
                         /\ held[e].prefix \in Prefix
  /\ epc[e] \in {"merged", "record_open"} => held[e].record \in Record

TypeInv ==
  /\ Typed
  /\ \A u \in Updater : PlanTyped(u)
  /\ \A e \in Enroller : HeldTyped(e)

-----------------------------------------------------------------------------
\* The types hold initially.
LEMMA TypeInit == FInit => TypeInv
<1> SUFFICES ASSUME FInit PROVE TypeInv
  OBVIOUS
<1>1. PICK r \in Release : committed = [b \in Board |-> r]
  BY DEF FInit
<1>2. Typed
  <2>1. firmware \in [Board -> 0..MaxFirmware] /\ trial \in [Board -> BOOLEAN]
    BY DEF FInit
  <2>2. committed \in [Board -> Release] /\ runs \in [Board -> Release]
    BY <1>1 DEF FInit
  <2>3. record \in [Board -> Record \cup {None, Torn}]
    BY DEF FInit
  <2>4. /\ DOMAIN pem = Board /\ DOMAIN current = Board /\ DOMAIN goldens = Release
        /\ DOMAIN plan = Updater /\ DOMAIN held = Enroller /\ settled \subseteq Board
    BY DEF FInit
  <2>5. upc \in [Updater -> UPC] /\ epc \in [Enroller -> EPC]
    BY DEF FInit, UPC, EPC
  <2>6. QED
    BY <2>1, <2>2, <2>3, <2>4, <2>5 DEF Typed
<1>3. \A u \in Updater : PlanTyped(u)
  BY DEF FInit, PlanTyped, Live
<1>4. \A e \in Enroller : HeldTyped(e)
  BY DEF FInit, HeldTyped
<1>5. QED
  BY <1>2, <1>3, <1>4 DEF TypeInv

\* Every step keeps the types.
LEMMA TypeStep == TypeInv /\ [FNext]_fvars => TypeInv'
<1> SUFFICES ASSUME TypeInv, [FNext]_fvars PROVE TypeInv'
  OBVIOUS
<1> USE DEF TypeInv, Typed, PlanTyped, HeldTyped, UPC, EPC, Live, boards, updates, enrolls, history
<1>1. ASSUME NEW b \in Board, Restart(b) PROVE TypeInv'
  BY <1>1 DEF Restart, PlainBoot
<1>2. ASSUME NEW b \in Board, NewFirmware(b) PROVE TypeInv'
  BY <1>2 DEF NewFirmware, PlainBoot
<1>3. ASSUME NEW u \in Updater, NEW b \in Board, NEW r \in Release, Trial(u, b, r) PROVE TypeInv'
  BY <1>3 DEF Trial, Goto, PlanShape
<1>4. ASSUME NEW u \in Updater, Predict(u) PROVE TypeInv'
  BY <1>4 DEF Predict, Goto, PlanShape
<1>5. ASSUME NEW u \in Updater, OpenGoldens(u) PROVE TypeInv'
  BY <1>5 DEF OpenGoldens, Goto, PlanShape
<1>6. ASSUME NEW u \in Updater, FillGoldens(u) PROVE TypeInv'
  BY <1>6 DEF FillGoldens, Goto, PlanShape
<1>7. ASSUME NEW u \in Updater, HealthCheck(u) PROVE TypeInv'
  BY <1>7 DEF HealthCheck, Goto
<1>8. ASSUME NEW u \in Updater, Commit(u) PROVE TypeInv'
  BY <1>8 DEF Commit, Goto
<1>9. ASSUME NEW u \in Updater, Reboot(u) PROVE TypeInv'
  BY <1>9 DEF Reboot, Goto, PlainBoot
<1>10. ASSUME NEW u \in Updater, Attested(u) PROVE TypeInv'
  BY <1>10 DEF Attested, Goto, PlanShape
<1>11. ASSUME NEW u \in Updater, OpenCurrent(u) PROVE TypeInv'
  BY <1>11 DEF OpenCurrent, Goto
<1>12. ASSUME NEW u \in Updater, FillCurrent(u) PROVE TypeInv'
  BY <1>12 DEF FillCurrent, Goto, GoldensLeft
<1>13. ASSUME NEW u \in Updater, Stop(u) PROVE TypeInv'
  BY <1>13 DEF Stop, Goto, GoldensLeft
<1>14. ASSUME NEW e \in Enroller, NEW v \in Verb[e], NEW b \in Board, Asked(e, v, b) PROVE TypeInv'
  <2>1. Reported(b) \in Digest \cup {None} /\ PrefixOf(b) \in Prefix
    BY DEF Reported, DigestOf, DigestWith, Digest, PrefixOf, Prefix, Tree
  <2>2. QED
    BY <1>14, <2>1 DEF Asked, ToEnroll
<1>15. ASSUME NEW e \in Enroller, ReadRecord(e) PROVE TypeInv'
  <2>1. Contents(record[held[e].board]) \in Record
    BY <1>15 DEF ReadRecord, Contents, NoRecord, Whole, Record
  <2>2. Merged(Contents(record[held[e].board]), held[e]) \in Record
    BY <1>15, <2>1 DEF ReadRecord, Merged, Record
  <2>3. QED
    BY <1>15, <2>2 DEF ReadRecord, ToEnroll
<1>16. ASSUME NEW e \in Enroller, OpenRecord(e) PROVE TypeInv'
  BY <1>16 DEF OpenRecord, ToEnroll
<1>17. ASSUME NEW e \in Enroller, FillRecord(e) PROVE TypeInv'
  BY <1>17 DEF FillRecord, ToEnroll, NoReply
<1>18. ASSUME NEW e \in Enroller, OpenPem(e) PROVE TypeInv'
  BY <1>18 DEF OpenPem, ToEnroll
<1>19. ASSUME NEW e \in Enroller, FillPem(e) PROVE TypeInv'
  BY <1>19 DEF FillPem, ToEnroll, NoReply
<1>20. ASSUME NEW e \in Enroller, StopEnroll(e) PROVE TypeInv'
  BY <1>20 DEF StopEnroll, ToEnroll, NoReply
<1>21. CASE UNCHANGED fvars
  BY <1>21 DEF fvars
<1>22. QED
  BY <1>1, <1>2, <1>3, <1>4, <1>5, <1>6, <1>7, <1>8, <1>9, <1>10, <1>11, <1>12, <1>13,
     <1>14, <1>15, <1>16, <1>17, <1>18, <1>19, <1>20, <1>21 DEF FNext

-----------------------------------------------------------------------------
(* The rest of the types: what the files hold. Goldens get from a plan     *)
(* into the release directory, and from there to the board's current ones. *)

FilesTyped ==
  /\ pem \in [Board -> Board \cup {None, Torn}]
  /\ current \in [Board -> Goldens \cup {None, Torn}]
  /\ goldens \in [Release -> Goldens \cup {None, Torn}]

PlanContents(u) ==
  /\ Live(u) => plan[u].tree \in Digest
  /\ upc[u] = "opened" => plan[u].goldens \in Goldens

ContentInv ==
  /\ FilesTyped
  /\ \A u \in Updater : PlanContents(u)
  /\ \A b \in Board : ~trial[b] => runs[b] = committed[b]

\* It holds initially.
LEMMA ContentInit == FInit => ContentInv
BY DEF FInit, ContentInv, FilesTyped, PlanContents, Live

\* The devicetree digest of a board with any release is a digest.
LEMMA DigestType ==
  ASSUME TypeInv, NEW b \in Board, NEW r \in Release
  PROVE  DigestWith(b, r) \in Digest
BY DEF TypeInv, Typed, DigestWith, Digest, Tree

\* Goldens made from a plan and a record are goldens.
LEMMA GoldensType ==
  ASSUME NEW p, p.release \in Release, p.tree \in Digest,
         NEW rec \in Record \cup {None, Torn}
  PROVE  GoldensFor(p, rec) \in Goldens
<1>1. Contents(rec) \in Record
  BY DEF Contents, NoRecord, Whole, Record
<1>2. QED
  BY <1>1 DEF GoldensFor, Goldens, Record

\* Every step keeps it.
LEMMA ContentStep ==
  ASSUME TypeInv, ContentInv, [FNext]_fvars
  PROVE  ContentInv'
<1> USE DEF TypeInv, Typed, PlanTyped, HeldTyped, UPC, EPC, Live, Goto, ContentInv, FilesTyped,
            PlanContents
<1>1. ASSUME NEW b \in Board, Restart(b) \/ NewFirmware(b) PROVE ContentInv'
  BY <1>1 DEF Restart, NewFirmware, PlainBoot, updates
<1>2. ASSUME NEW u \in Updater, NEW b \in Board, NEW r \in Release, Trial(u, b, r)
      PROVE  ContentInv'
  BY <1>2, DigestType DEF Trial
<1>3. ASSUME NEW u \in Updater, Predict(u) PROVE ContentInv'
  <2>1. EnrolledDigest(record[plan[u].board], plan[u].tree) \in Digest \cup {None}
    BY <1>3 DEF Predict, EnrolledDigest, Contents, NoRecord, Whole, Record
  <2>2. QED
    BY <1>3, <2>1 DEF Predict, PlanShape, boards
<1>4. ASSUME NEW u \in Updater, OpenGoldens(u) PROVE ContentInv'
  <2>1. GoldensFor(plan[u], record[plan[u].board]) \in Goldens
    BY <1>4, GoldensType DEF OpenGoldens
  <2>2. QED
    BY <1>4, <2>1 DEF OpenGoldens, PlanShape, boards
<1>5. ASSUME NEW u \in Updater, FillGoldens(u) PROVE ContentInv'
  BY <1>5 DEF FillGoldens, PlanShape, boards
<1>6. ASSUME NEW u \in Updater, HealthCheck(u) PROVE ContentInv'
  BY <1>6 DEF HealthCheck, boards
<1>7. ASSUME NEW u \in Updater, Commit(u) PROVE ContentInv'
  BY <1>7 DEF Commit
<1>8. ASSUME NEW u \in Updater, Reboot(u) PROVE ContentInv'
  BY <1>8 DEF Reboot, PlainBoot
<1>9. ASSUME NEW u \in Updater, Attested(u) PROVE ContentInv'
  BY <1>9 DEF Attested, PlanShape, boards
<1>10. ASSUME NEW u \in Updater, OpenCurrent(u) PROVE ContentInv'
  BY <1>10 DEF OpenCurrent, boards
<1>11. ASSUME NEW u \in Updater, FillCurrent(u) PROVE ContentInv'
  BY <1>11 DEF FillCurrent, Copied, GoldensLeft, boards
<1>12. ASSUME NEW u \in Updater, Stop(u) PROVE ContentInv'
  BY <1>12 DEF Stop, GoldensLeft, boards
<1>13. ASSUME NEW e \in Enroller,
              \/ \E v \in Verb[e], b \in Board : Asked(e, v, b)
              \/ ReadRecord(e) \/ OpenRecord(e) \/ FillRecord(e) \/ StopEnroll(e)
       PROVE  ContentInv'
  BY <1>13 DEF Asked, ReadRecord, OpenRecord, FillRecord, StopEnroll, boards, updates
<1>14. ASSUME NEW e \in Enroller, OpenPem(e) \/ FillPem(e) PROVE ContentInv'
  BY <1>14 DEF OpenPem, FillPem, boards, updates
<1>15. CASE UNCHANGED fvars
  BY <1>15 DEF fvars, boards, updates
<1>16. QED
  BY <1>1, <1>2, <1>3, <1>4, <1>5, <1>6, <1>7, <1>8, <1>9, <1>10, <1>11, <1>12, <1>13,
     <1>14, <1>15 DEF FNext

\* Every file is what it should be, empty, or not there, and a board off trial runs what is
\* committed, whatever commands overlap and wherever they are killed.
THEOREM FileTypes == FSpec => []FTypeOK
<1>1. TypeInv /\ ContentInv => FTypeOK
  BY DEF TypeInv, Typed, ContentInv, FilesTyped, FTypeOK
<1>2. TypeInv /\ ContentInv /\ [FNext]_fvars => TypeInv' /\ ContentInv'
  BY TypeStep, ContentStep
<1>3. QED
  BY TypeInit, ContentInit, <1>1, <1>2, PTL DEF FSpec

-----------------------------------------------------------------------------
(* The record. A digest that has been recorded is never gone again, since  *)
(* the command that replaces the record puts a digest into it first.       *)

RecordKept ==
  /\ \A b \in known : record[b] # Torn => record[b] \in Record /\ record[b].dt_digest # None
  /\ \A e \in Enroller :
       /\ epc[e] = "asked" => held[e].dt_digest # None
       /\ epc[e] \in {"merged", "record_open"} => held[e].record.dt_digest # None

\* Every step keeps that, when all releases export the digest.
LEMMA RecordStep ==
  ASSUME Silent = {}, TypeInv, RecordKept, [FNext]_fvars
  PROVE  RecordKept'
<1> USE DEF TypeInv, Typed, HeldTyped, RecordKept, EPC
<1>1. ASSUME NEW b \in Board, Restart(b) \/ NewFirmware(b) PROVE RecordKept'
  BY <1>1 DEF Restart, NewFirmware, enrolls, history
<1>2. ASSUME NEW u \in Updater, NEW b \in Board, NEW r \in Release, Trial(u, b, r)
      PROVE  RecordKept'
  BY <1>2 DEF Trial, enrolls, history
<1>3. ASSUME NEW u \in Updater,
             \/ Predict(u) \/ OpenGoldens(u) \/ FillGoldens(u) \/ HealthCheck(u) \/ Commit(u)
             \/ Reboot(u) \/ Attested(u) \/ OpenCurrent(u) \/ FillCurrent(u) \/ Stop(u)
      PROVE  RecordKept'
  BY <1>3 DEF Predict, OpenGoldens, FillGoldens, HealthCheck, Commit, Reboot, Attested,
              OpenCurrent, FillCurrent, Stop, enrolls, history
<1>4. ASSUME NEW e \in Enroller, NEW v \in Verb[e], NEW b \in Board, Asked(e, v, b)
      PROVE  RecordKept'
  <2>1. Reported(b) # None
    BY DEF Reported, DigestOf, DigestWith, Digest, Tree
  <2>2. QED
    BY <1>4, <2>1 DEF Asked, ToEnroll, history
<1>5. ASSUME NEW e \in Enroller, ReadRecord(e) PROVE RecordKept'
  <2>1. Contents(record[held[e].board]) \in Record
    BY <1>5 DEF ReadRecord, Contents, NoRecord, Whole, Record
  <2>2. Merged(Contents(record[held[e].board]), held[e]).dt_digest # None
    BY <1>5, <2>1 DEF ReadRecord, Merged, Record
  <2>3. QED
    BY <1>5, <2>2 DEF ReadRecord, ToEnroll, history
<1>6. ASSUME NEW e \in Enroller, OpenRecord(e) PROVE RecordKept'
  BY <1>6 DEF OpenRecord, ToEnroll
<1>7. ASSUME NEW e \in Enroller, FillRecord(e) PROVE RecordKept'
  BY <1>7 DEF FillRecord, ToEnroll, NoReply
<1>8. ASSUME NEW e \in Enroller, OpenPem(e) \/ FillPem(e) \/ StopEnroll(e) PROVE RecordKept'
  BY <1>8 DEF OpenPem, FillPem, StopEnroll, ToEnroll, NoReply, history
<1>9. CASE UNCHANGED fvars
  BY <1>9 DEF fvars, enrolls, history
<1>10. QED
  BY <1>1, <1>2, <1>3, <1>4, <1>5, <1>6, <1>7, <1>8, <1>9 DEF FNext

\* The only step that predicts PCR0 is Predict.
LEMMA OnlyPredict ==
  ASSUME TypeInv, [FNext]_fvars, NEW u \in Updater, upc[u] = "up", upc'[u] = "predicted"
  PROVE  Predict(u)
<1> USE DEF TypeInv, Typed, Goto, Live
<1>1. ASSUME NEW b \in Board, Restart(b) \/ NewFirmware(b) PROVE FALSE
  BY <1>1 DEF Restart, NewFirmware, updates
<1>2. ASSUME NEW v \in Updater, NEW b \in Board, NEW r \in Release, Trial(v, b, r)
      PROVE  FALSE
  BY <1>2 DEF Trial
<1>3. ASSUME NEW v \in Updater,
             \/ OpenGoldens(v) \/ FillGoldens(v) \/ HealthCheck(v) \/ Commit(v) \/ Reboot(v)
             \/ Attested(v) \/ OpenCurrent(v) \/ FillCurrent(v) \/ Stop(v)
      PROVE  FALSE
  BY <1>3 DEF OpenGoldens, FillGoldens, HealthCheck, Commit, Reboot, Attested, OpenCurrent,
              FillCurrent, Stop
<1>4. ASSUME NEW v \in Updater, Predict(v) PROVE v = u
  BY <1>4 DEF Predict
<1>5. ASSUME NEW e \in Enroller,
             \/ \E w \in Verb[e], b \in Board : Asked(e, w, b)
             \/ ReadRecord(e) \/ OpenRecord(e) \/ FillRecord(e) \/ OpenPem(e) \/ FillPem(e)
             \/ StopEnroll(e)
      PROVE  FALSE
  BY <1>5 DEF Asked, ReadRecord, OpenRecord, FillRecord, OpenPem, FillPem, StopEnroll, updates
<1>6. CASE UNCHANGED fvars
  BY <1>6 DEF fvars, updates
<1>7. QED
  BY <1>1, <1>2, <1>3, <1>4, <1>5, <1>6 DEF FNext

\* Where every release exports its devicetree digest and names its U-Boot, no update takes
\* PCR0 on trust once the digest of its board has been recorded.
THEOREM TrustIsFirstUseOnly ==
  Silent = {} /\ Unstamped = {} /\ FSpec => NeverOnTrustAgain
<1> SUFFICES ASSUME Silent = {}, Unstamped = {} PROVE FSpec => NeverOnTrustAgain
  OBVIOUS
<1>1. FInit => RecordKept
  BY DEF FInit, RecordKept
<1>2. ASSUME TypeInv, RecordKept, [FNext]_fvars, NEW u \in Updater,
             upc[u] = "up", upc'[u] = "predicted", plan'[u].trusted
      PROVE  plan[u].board \notin known
  <2>1. PlanTyped(u) /\ plan[u].board \in Board
    BY <1>2 DEF TypeInv, PlanTyped, Live
  <2>2. Predict(u)
    BY <1>2, OnlyPredict
  <2>3. EnrolledDigest(record[plan[u].board], plan[u].tree) = None
    BY <1>2, <2>1, <2>2 DEF Predict, TypeInv, Typed, PlanTyped, PlanShape, Live
  <2>4. QED
    BY <1>2, <2>1, <2>2, <2>3
       DEF Predict, Readable, EnrolledDigest, Contents, Whole, RecordKept
<1>3. TypeInv /\ RecordKept /\ [FNext]_fvars => TypeInv' /\ RecordKept'
  BY TypeStep, RecordStep
<1>4. TypeInv /\ RecordKept /\ [FNext]_fvars
      => [\A u \in Updater : upc[u] = "up" /\ upc'[u] = "predicted" /\ plan'[u].trusted
             => plan[u].board \notin known]_fvars
  BY <1>2
<1>5. QED
  BY TypeInit, <1>1, <1>3, <1>4, PTL DEF FSpec, NeverOnTrustAgain

-----------------------------------------------------------------------------
(* The updates, with a release directory each.                             *)

Apart ==
  \A u, v \in Updater :
    u # v /\ Live(u) /\ Live(v)
    => plan[u].board # plan[v].board /\ plan[u].release # plan[v].release

\* An unexpected tree in the goldens was taken on trust, or is the recorded one.
Explained(u) ==
  plan[u].trusted \/ plan[u].tree.tree = "base" \/ plan[u].board \in misled

MisledKnown ==
  \A b \in Board :
    /\ record[b] \in Record
    /\ record[b].dt_digest # None
    /\ record[b].dt_digest.tree # "base"
    => b \in misled

TreePlace(u) ==
  /\ upc[u] \in {"predicted", "opened", "written"} => Explained(u)
  /\ upc[u] = "opened" => plan[u].goldens.tree = plan[u].tree
  /\ upc[u] = "written" => goldens[plan[u].release].tree = plan[u].tree
  /\ upc[u] = "healthy" /\ trial[plan[u].board] /\ runs[plan[u].board] \in Unexpected
     => plan[u].trusted \/ plan[u].board \in misled

ProvenPlace(u) ==
  upc[u] \in {"attested", "copying"} => goldens[plan[u].release] = plan[u].proven

UpdateInv ==
  /\ Apart
  /\ MisledKnown
  /\ \A u \in Updater : TreePlace(u) /\ ProvenPlace(u)

\* The invariant of the updates holds initially.
LEMMA UpdateInit == FInit => UpdateInv
BY DEF FInit, UpdateInv, Apart, MisledKnown, TreePlace, ProvenPlace, Live

\* Every step keeps the invariant of the updates.
LEMMA UpdateStep ==
  ASSUME ~Shared, TypeInv, UpdateInv, [FNext]_fvars
  PROVE  UpdateInv'
<1>t. TypeInv'
  BY TypeStep
<1> USE <1>t DEF TypeInv, Typed, PlanTyped, UPC, Live, UpdateInv, Apart, MisledKnown, TreePlace,
             ProvenPlace, Explained
<1>1. ASSUME NEW b \in Board, Restart(b) \/ NewFirmware(b) PROVE UpdateInv'
  BY <1>1 DEF Restart, NewFirmware, PlainBoot, updates, enrolls, history
<1>2. ASSUME NEW u \in Updater, NEW b \in Board, NEW r \in Release, Trial(u, b, r)
      PROVE  UpdateInv'
  BY <1>2 DEF Trial, Goto
<1>3. ASSUME NEW u \in Updater, Predict(u) PROVE UpdateInv'
  <2> DEFINE b == plan[u].board
             d == EnrolledDigest(record[b], plan[u].tree)
             t == d = None \/ plan[u].release \in Unstamped
  <2>1. /\ upc[u] = "up" /\ upc' = [upc EXCEPT ![u] = "predicted"]
        /\ plan' = [plan EXCEPT ![u].trusted = t, ![u].tree = IF t THEN plan[u].tree ELSE d]
        /\ record[b] # Torn
        /\ UNCHANGED <<record, goldens, misled, trial, runs>>
    BY <1>3 DEF Predict, Goto, Readable, boards, history
  <2>2. ~t => d.tree = "base" \/ b \in misled
    BY <2>1 DEF EnrolledDigest, Contents, NoRecord, Whole
  <2> HIDE DEF d, t
  <2>3. DOMAIN plan[u] = {"board", "release", "tree", "trusted", "goldens", "proven"}
    BY <2>1 DEF PlanShape
  <2>4. plan'[u].trusted = t /\ plan'[u].tree = IF t THEN plan[u].tree ELSE d
    BY <2>1, <2>3
  <2>5. plan'[u].board = b /\ plan'[u].release = plan[u].release
    BY <2>1, <2>3
  <2>6. \A v \in Updater \ {u} : plan'[v] = plan[v]
    BY <2>1
  <2>7. Explained(u)'
    BY <2>1, <2>2, <2>4, <2>5
  <2>8. QED
    BY <2>1, <2>5, <2>6, <2>7
<1>4. ASSUME NEW u \in Updater, OpenGoldens(u) PROVE UpdateInv'
  BY <1>4 DEF OpenGoldens, GoldensFor, Goto, PlanShape, boards, history, enrolls
<1>5. ASSUME NEW u \in Updater, FillGoldens(u) PROVE UpdateInv'
  BY <1>5 DEF FillGoldens, Goto, PlanShape, boards, history, enrolls
<1>6. ASSUME NEW u \in Updater, HealthCheck(u) PROVE UpdateInv'
  BY <1>6 DEF HealthCheck, Passes, Measured, DigestOf, DigestWith, Tree, Goto, boards, history,
              enrolls
<1>7. ASSUME NEW u \in Updater, Commit(u) PROVE UpdateInv'
  BY <1>7 DEF Commit, Goto, history, enrolls
<1>8. ASSUME NEW u \in Updater, Reboot(u) PROVE UpdateInv'
  BY <1>8 DEF Reboot, PlainBoot, Goto, history, enrolls
<1>9. ASSUME NEW u \in Updater, Attested(u) PROVE UpdateInv'
  BY <1>9 DEF Attested, SecondRound, Goto, PlanShape, boards, enrolls
<1>10. ASSUME NEW u \in Updater, OpenCurrent(u) PROVE UpdateInv'
  BY <1>10 DEF OpenCurrent, Goto, boards, history, enrolls
<1>11. ASSUME NEW u \in Updater, FillCurrent(u) PROVE UpdateInv'
  BY <1>11 DEF FillCurrent, GoldensLeft, Goto, boards, history, enrolls
<1>12. ASSUME NEW u \in Updater, Stop(u) PROVE UpdateInv'
  BY <1>12 DEF Stop, GoldensLeft, Goto, boards, enrolls
<1>13. ASSUME NEW e \in Enroller, FillRecord(e) PROVE UpdateInv'
  BY <1>13 DEF FillRecord, boards, updates, HeldTyped, EPC
<1>14. ASSUME NEW e \in Enroller, OpenRecord(e) PROVE UpdateInv'
  BY <1>14 DEF OpenRecord, boards, updates
<1>15. ASSUME NEW e \in Enroller,
             \/ \E w \in Verb[e], b \in Board : Asked(e, w, b)
             \/ ReadRecord(e) \/ OpenPem(e) \/ FillPem(e) \/ StopEnroll(e)
      PROVE  UpdateInv'
  BY <1>15 DEF Asked, ReadRecord, OpenPem, FillPem, StopEnroll, boards, updates, history
<1>16. CASE UNCHANGED fvars
  BY <1>16 DEF fvars, boards, updates, enrolls, history
<1>17. QED
  BY <1>1, <1>2, <1>3, <1>4, <1>5, <1>6, <1>7, <1>8, <1>9, <1>10, <1>11, <1>12, <1>13,
     <1>14, <1>15, <1>16 DEF FNext

\* Only Commit commits a release, and only the one that runs on trial.
LEMMA OnlyCommit ==
  ASSUME TypeInv, [FNext]_fvars, NEW b \in Board, committed'[b] # committed[b]
  PROVE  \E u \in Updater : Commit(u) /\ plan[u].board = b
<1> USE DEF TypeInv, Typed, boards
<1>1. ASSUME NEW c \in Board, Restart(c) \/ NewFirmware(c) PROVE FALSE
  BY <1>1 DEF Restart, NewFirmware
<1>2. ASSUME NEW v \in Updater, NEW c \in Board, NEW r \in Release, Trial(v, c, r)
      PROVE  FALSE
  BY <1>2 DEF Trial
<1>3. ASSUME NEW v \in Updater,
             \/ Predict(v) \/ OpenGoldens(v) \/ FillGoldens(v) \/ HealthCheck(v) \/ Reboot(v)
             \/ Attested(v) \/ OpenCurrent(v) \/ FillCurrent(v) \/ Stop(v)
      PROVE  FALSE
  BY <1>3 DEF Predict, OpenGoldens, FillGoldens, HealthCheck, Reboot, Attested, OpenCurrent,
              FillCurrent, Stop
<1>4. ASSUME NEW v \in Updater, Commit(v) PROVE plan[v].board = b
  BY <1>4 DEF Commit
<1>5. ASSUME NEW e \in Enroller,
             \/ \E w \in Verb[e], c \in Board : Asked(e, w, c)
             \/ ReadRecord(e) \/ OpenRecord(e) \/ FillRecord(e) \/ OpenPem(e) \/ FillPem(e)
             \/ StopEnroll(e)
      PROVE  FALSE
  BY <1>5 DEF Asked, ReadRecord, OpenRecord, FillRecord, OpenPem, FillPem, StopEnroll
<1>6. CASE UNCHANGED fvars
  BY <1>6 DEF fvars
<1>7. QED
  BY <1>1, <1>2, <1>3, <1>4, <1>5, <1>6 DEF FNext

\* Only FillCurrent leaves whole current goldens that were not there before.
LEMMA OnlyFillCurrent ==
  ASSUME TypeInv, [FNext]_fvars, NEW b \in Board, current'[b] # current[b], Whole(current'[b])
  PROVE  \E u \in Updater : FillCurrent(u) /\ plan[u].board = b
<1> USE DEF TypeInv, Typed
<1>1. ASSUME NEW c \in Board, Restart(c) \/ NewFirmware(c) PROVE FALSE
  BY <1>1 DEF Restart, NewFirmware
<1>2. ASSUME NEW v \in Updater, NEW c \in Board, NEW r \in Release, Trial(v, c, r)
      PROVE  FALSE
  BY <1>2 DEF Trial
<1>3. ASSUME NEW v \in Updater,
             \/ Predict(v) \/ OpenGoldens(v) \/ FillGoldens(v) \/ HealthCheck(v) \/ Commit(v)
             \/ Reboot(v) \/ Attested(v) \/ Stop(v)
      PROVE  FALSE
  BY <1>3 DEF Predict, OpenGoldens, FillGoldens, HealthCheck, Commit, Reboot, Attested, Stop
<1>4. ASSUME NEW v \in Updater, OpenCurrent(v) PROVE FALSE
  BY <1>4 DEF OpenCurrent, Whole
<1>5. ASSUME NEW v \in Updater, FillCurrent(v) PROVE plan[v].board = b
  BY <1>5 DEF FillCurrent
<1>6. ASSUME NEW e \in Enroller,
             \/ \E w \in Verb[e], c \in Board : Asked(e, w, c)
             \/ ReadRecord(e) \/ OpenRecord(e) \/ FillRecord(e) \/ OpenPem(e) \/ FillPem(e)
             \/ StopEnroll(e)
      PROVE  FALSE
  BY <1>6 DEF Asked, ReadRecord, OpenRecord, FillRecord, OpenPem, FillPem, StopEnroll
<1>7. CASE UNCHANGED fvars
  BY <1>7 DEF fvars
<1>8. QED
  BY <1>1, <1>2, <1>3, <1>4, <1>5, <1>6, <1>7 DEF FNext

\* With a release directory each, what becomes current are goldens the very board has
\* passed its second round with.
THEOREM CurrentWasProven == ~Shared /\ FSpec => CurrentIsProven
<1> SUFFICES ASSUME ~Shared PROVE FSpec => CurrentIsProven
  OBVIOUS
<1>1. ASSUME TypeInv, UpdateInv, [FNext]_fvars, NEW b \in Board,
             current'[b] # current[b], Whole(current'[b])
      PROVE  \E u \in Updater : plan[u].board = b /\ current'[b] = plan[u].proven
  <2>1. PICK u \in Updater : FillCurrent(u) /\ plan[u].board = b
    BY <1>1, OnlyFillCurrent
  <2>2. current'[b] = goldens[plan[u].release]
    BY <1>1, <2>1 DEF FillCurrent, Copied, TypeInv, Typed
  <2>3. goldens[plan[u].release] = plan[u].proven
    BY <1>1, <2>1 DEF FillCurrent, UpdateInv, ProvenPlace
  <2>4. QED
    BY <2>1, <2>2, <2>3
<1>2. TypeInv /\ UpdateInv /\ [FNext]_fvars => TypeInv' /\ UpdateInv'
  BY TypeStep, UpdateStep
<1>3. TypeInv /\ UpdateInv /\ [FNext]_fvars
      => [\A b \in Board :
            current'[b] # current[b] /\ Whole(current'[b])
            => \E u \in Updater : plan[u].board = b /\ current'[b] = plan[u].proven]_fvars
  BY <1>1
<1>4. QED
  BY TypeInit, UpdateInit, <1>2, <1>3, PTL DEF FSpec, CurrentIsProven

\* With a release directory each, an update with an unexpected devicetree is committed
\* only on trust, or after the digest of such a tree was recorded.
THEOREM UnexpectedIsCaught == ~Shared /\ FSpec => UnexpectedTreeCaught
<1> SUFFICES ASSUME ~Shared PROVE FSpec => UnexpectedTreeCaught
  OBVIOUS
<1>1. ASSUME TypeInv, UpdateInv, [FNext]_fvars, NEW b \in Board,
             committed'[b] # committed[b], committed'[b] \in Unexpected
      PROVE  b \in misled \/ \E u \in Updater : plan[u].board = b /\ plan[u].trusted
  <2>1. PICK u \in Updater : Commit(u) /\ plan[u].board = b
    BY <1>1, OnlyCommit
  <2>2. upc[u] = "healthy" /\ trial[b] /\ committed'[b] = runs[b]
    BY <1>1, <2>1 DEF Commit, TypeInv, Typed
  <2>3. QED
    BY <1>1, <2>1, <2>2 DEF UpdateInv, TreePlace
<1>2. TypeInv /\ UpdateInv /\ [FNext]_fvars => TypeInv' /\ UpdateInv'
  BY TypeStep, UpdateStep
<1>3. TypeInv /\ UpdateInv /\ [FNext]_fvars
      => [\A b \in Board :
            committed'[b] # committed[b] /\ committed'[b] \in Unexpected
            => b \in misled \/ \E u \in Updater : plan[u].board = b /\ plan[u].trusted]_fvars
  BY <1>1
<1>4. QED
  BY TypeInit, UpdateInit, <1>2, <1>3, PTL DEF FSpec, UnexpectedTreeCaught

-----------------------------------------------------------------------------
(* Monitoring. A board counts as settled only from the second round of its *)
(* last update on, and every step that could make it fail unsettles it.    *)

SettledPlace(u) ==
  LET b == plan[u].board
  IN /\ upc[u] \in {"up", "predicted", "opened", "written", "healthy", "committed", "rebooted"}
        => b \notin settled
     /\ upc[u] \in {"rebooted", "attested", "copying"} => ~trial[b]
     /\ upc[u] \in {"attested", "copying"} /\ b \in settled => Passes(b, plan[u].proven)

SettledInv ==
  /\ \A u \in Updater : upc[u] = "idle" => plan[u] = NoPlan
  /\ \A u \in Updater : SettledPlace(u)
  /\ \A b \in settled : ~trial[b]
  /\ DoneMeansMonitored

\* It holds initially.
LEMMA SettledInit == FInit => SettledInv
BY DEF FInit, SettledInv, SettledPlace, DoneMeansMonitored

\* Every step keeps it, with the invariant of the updates.
LEMMA SettledStep ==
  ASSUME TypeInv, UpdateInv, SettledInv, [FNext]_fvars
  PROVE  SettledInv'
<1>t. TypeInv'
  BY TypeStep
<1> USE <1>t DEF TypeInv, Typed, PlanTyped, UPC, Live, UpdateInv, Apart, ProvenPlace,
             SettledInv, SettledPlace, DoneMeansMonitored, NoPlan, Goto,
             Passes, Measured, DigestOf, DigestWith, PrefixOf, Tree
<1>1. ASSUME NEW b \in Board, Restart(b) \/ NewFirmware(b) PROVE SettledInv'
  BY <1>1 DEF Restart, NewFirmware, PlainBoot, updates, enrolls, history
<1>2. ASSUME NEW u \in Updater, NEW b \in Board, NEW r \in Release, Trial(u, b, r)
      PROVE  SettledInv'
  BY <1>2 DEF Trial
<1>3. ASSUME NEW u \in Updater, Predict(u) PROVE SettledInv'
  BY <1>3 DEF Predict, PlanShape, boards, history, enrolls
<1>4. ASSUME NEW u \in Updater, OpenGoldens(u) PROVE SettledInv'
  BY <1>4 DEF OpenGoldens, PlanShape, boards, history, enrolls
<1>5. ASSUME NEW u \in Updater, FillGoldens(u) PROVE SettledInv'
  BY <1>5 DEF FillGoldens, PlanShape, boards, history, enrolls
<1>6. ASSUME NEW u \in Updater, HealthCheck(u) PROVE SettledInv'
  BY <1>6 DEF HealthCheck, boards, history, enrolls
<1>7. ASSUME NEW u \in Updater, Commit(u) PROVE SettledInv'
  BY <1>7 DEF Commit, history, enrolls
<1>8. ASSUME NEW u \in Updater, Reboot(u) PROVE SettledInv'
  <2> DEFINE b == plan[u].board
  <2>1. /\ upc[u] = "committed" /\ upc' = [upc EXCEPT ![u] = "rebooted"]
        /\ runs' = [runs EXCEPT ![b] = committed[b]] /\ trial' = [trial EXCEPT ![b] = FALSE]
        /\ UNCHANGED <<firmware, record, pem, current, goldens, plan, settled>>
    BY <1>8 DEF Reboot, PlainBoot, history
  <2>2. b \in Board /\ b \notin settled
    BY <2>1
  <2>3. \A v \in Updater : (upc[v] = "idle" => plan[v] = NoPlan)'
    BY <2>1
  <2>4. \A v \in Updater : SettledPlace(v)'
    BY <2>1, <2>2
  <2>5. \A c \in settled : trial'[c] = FALSE
    BY <2>1, <2>2
  <2>6. DoneMeansMonitored'
    BY <2>1, <2>2
  <2>7. QED
    BY <2>3, <2>4, <2>5, <2>6, <2>1
<1>9. ASSUME NEW u \in Updater, Attested(u) PROVE SettledInv'
  BY <1>9 DEF Attested, SecondRound, PlanShape, boards, enrolls
<1>10. ASSUME NEW u \in Updater, OpenCurrent(u) PROVE SettledInv'
  BY <1>10 DEF OpenCurrent, boards, history, enrolls
<1>11. ASSUME NEW u \in Updater, FillCurrent(u) PROVE SettledInv'
  BY <1>11 DEF FillCurrent, Copied, boards, history, enrolls
<1>12. ASSUME NEW u \in Updater, Stop(u) PROVE SettledInv'
  BY <1>12 DEF Stop, boards, enrolls
<1>13. ASSUME NEW e \in Enroller, FillRecord(e) PROVE SettledInv'
  BY <1>13 DEF FillRecord, boards, updates, HeldTyped, EPC
<1>14. ASSUME NEW e \in Enroller, OpenRecord(e) \/ OpenPem(e) PROVE SettledInv'
  BY <1>14 DEF OpenRecord, OpenPem, boards, updates, HeldTyped, EPC
<1>15. ASSUME NEW e \in Enroller, FillPem(e) PROVE SettledInv'
  BY <1>15 DEF FillPem, boards, updates, history, HeldTyped, EPC
<1>16. ASSUME NEW e \in Enroller,
             \/ \E w \in Verb[e], b \in Board : Asked(e, w, b)
             \/ ReadRecord(e) \/ StopEnroll(e)
      PROVE  SettledInv'
  BY <1>16 DEF Asked, ReadRecord, StopEnroll, boards, updates, history
<1>17. CASE UNCHANGED fvars
  BY <1>17 DEF fvars, boards, updates, enrolls, history
<1>18. QED
  BY <1>1, <1>2, <1>3, <1>4, <1>5, <1>6, <1>7, <1>8, <1>9, <1>10, <1>11, <1>12, <1>13,
     <1>14, <1>15, <1>16, <1>17 DEF FNext

\* With a release directory each, a board whose last update ended in DONE, and of which
\* nothing has changed since, passes its routine rounds.
THEOREM DoneIsMonitored == ~Shared /\ FSpec => []DoneMeansMonitored
<1> SUFFICES ASSUME ~Shared PROVE FSpec => []DoneMeansMonitored
  OBVIOUS
<1>1. TypeInv /\ UpdateInv /\ SettledInv /\ [FNext]_fvars
      => TypeInv' /\ UpdateInv' /\ SettledInv'
  BY TypeStep, UpdateStep, SettledStep
<1>2. SettledInv => DoneMeansMonitored
  BY DEF SettledInv
<1>3. QED
  BY TypeInit, UpdateInit, SettledInit, <1>1, <1>2, PTL DEF FSpec
=============================================================================
