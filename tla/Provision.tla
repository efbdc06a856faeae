------------------------------ MODULE Provision ------------------------------
(***************************************************************************)
(* Provisioning of one board (agents/rp5-provision-priv behind             *)
(* rp5-provision, called by rp5.py): each verb is a script of firmware-key *)
(* and TPM commands, each of which changes what survives a reset, and any  *)
(* of which may fail or be the last before a reset. A request that is      *)
(* refused is sent again. The server keeps the record of an ok reply.      *)
(* The hand-run scripts under provisioning/, which operators use on the    *)
(* same board, are further verbs; their answer is the exit status.         *)
(*                                                                         *)
(* An authorisation value is "own" (derived for this board) or "other"     *)
(* (the factory host picked another board's file).                         *)
(***************************************************************************)
EXTENDS Integers, Sequences

CONSTANTS
  Session,   \* concurrent provisioning requests
  Verb,      \* the verbs the factory host uses
  None,
  Fault,     \* "fail": a command fails; "reset": power or reboot; "clear"; "lost": a reply
  MaxCount   \* bound: no new provisioning once the TPM has counted this far

ASSUME ProvisionAssumption ==
  /\ Verb \subseteq {"provision", "provision-fwkey", "provision-fwhmac", "enroll",
                    "provision-nv-index", "provision-counter",
                    "provision-hierarchy-auth", "reprovision-indices"}
  /\ MaxCount \in Nat
  /\ None \notin {"duid", "fwkey", "fwhmac", "duid_other", "duid_nopp"}

VARIABLES
  otp,      \* the firmware key is in OTP
  locked,   \* the firmware refuses to sign or HMAC until the next reset
  auth,     \* owner, endorsement and lockout authorisation: "empty", "own", "other"
  ak,       \* an AK is persistent
  meas,     \* measured-boot index: [anchor, written], anchor None: not defined
  ctr,      \* anti-rollback counter: [anchor, value], value 0: never incremented
  highest,  \* the highest value any counter of this TPM has had
  up,       \* "off", "factory" or "release"
  req,      \* the request each session serves
  asOwner,  \* its owner commands carry the request's owner authorisation
  todo,     \* the commands its handler still has to run
  reply,    \* "none", "ok", "refused" (by what the handler found), "failed" (a
            \* command did; while the handler runs: and the script went on)
  enr       \* enrollment.json: [current, name]; current: the recorded AK is the TPM's

tpm     == <<auth, ak, meas, ctr, highest>>
handler == <<req, asOwner, todo, reply>>
pvars   == <<otp, locked, tpm, up, handler, enr>>

Hierarchy == {"owner", "endorsement", "lockout"}
\* The rule that authorises what a verb defines. The index of provision-nv-index.sh has
\* provision's rule but cannot be read with the platform authorisation.
Anchor == [v \in Verb |->
  CASE v \in {"provision", "provision-counter"} -> "duid"
    [] v \in {"provision-fwkey", "reprovision-indices"} -> "fwkey"
    [] v = "provision-fwhmac" -> "fwhmac"
    [] v = "provision-nv-index" -> "duid_nopp"
    [] OTHER -> None]
Serviced == {"provision", "provision-fwkey", "provision-fwhmac"}
\* factory-auths.py derives a file of values for one board, all of them; one made by hand
\* may lack some.
DerivedAuths == [who : {"own", "other"}, all : {TRUE}]
HandMadeAuths == [who : {"own", "other"}, all : {FALSE}]
Request == [verb : Verb, auths : DerivedAuths] \cup [verb : Verb \cap Serviced, auths : HandMadeAuths]
\* The file of another board has that board's index values too, and provision uses them.
IndexRule(r) ==
  IF r.verb = "provision" /\ r.auths.who = "other" THEN "duid_other" ELSE Anchor[r.verb]
NoIndex == [anchor |-> None, written |-> FALSE]
NoCounter == [anchor |-> None, value |-> 0]
Idle(s) == todo[s] = <<>>

-----------------------------------------------------------------------------
(* The scripts.                                                            *)

KeySteps == [v \in Verb |->
  CASE v = "provision-fwkey"  -> <<"key">>
    [] v = "provision-fwhmac" -> <<"key", "hmac">>
    [] OTHER -> <<>>]
\* The DUID-anchored verb defines without looking; the others replace what is there.
BadReplace(v) == IF v = "provision" THEN <<>> ELSE <<"undef_meas">>
Replace(v) == IF v = "provision" THEN <<>> ELSE <<"undef_meas", "undef_ctr">>
BadDefine == <<"def_meas", "def_ctr">>
Define == <<"def_meas", "def_ctr", "increment">>
CloseHierarchies == <<"owner", "endorsement", "lockout">>

\* By hand: the measured-boot index, whether or not the old one could be deleted; the
\* counter unless there is one; the authorisations; new indices for the firmware key.
NvIndexScript == <<"drop_meas", "def_meas", "done">>
CounterScript == <<"no_ctr", "def_ctr", "increment", "done">>
HierarchyAuthScript == CloseHierarchies \o <<"done">>
ReprovisionScript == <<"unlocked", "drop_meas", "drop_ctr">> \o Define \o <<"done">>

Script(v, c) ==
  CASE v = "enroll" -> <<"record">>
    [] v = "provision-nv-index" -> NvIndexScript
    [] v = "provision-counter" -> CounterScript
    [] v = "provision-hierarchy-auth" -> HierarchyAuthScript
    [] v = "reprovision-indices" -> ReprovisionScript
    [] OTHER -> KeySteps[v] \o (IF c THEN <<>> ELSE <<"ak">>) \o Replace(v) \o Define
                  \o (IF c THEN <<>> ELSE CloseHierarchies) \o <<"record">>

\* provision does not look at the TPM; the others take "owner authorisation set" for
\* "already provisioned", and then ask for the owner's value only.
Looks == {"provision-fwkey", "provision-fwhmac"}
FoundClosed(r) == r.verb \in Looks /\ auth["owner"] # "empty"
KeysGiven(r) == FoundClosed(r) \/ r.auths.all
GivesOwner(r) == FoundClosed(r) \/ r.verb \in {"provision-counter", "reprovision-indices"}

Begin(s, r) ==
  /\ up # "off" /\ Idle(s)
  /\ highest < MaxCount
  /\ req' = [req EXCEPT ![s] = r]
  /\ asOwner' = [asOwner EXCEPT ![s] = GivesOwner(r)]
  /\ todo' = [todo EXCEPT ![s] = IF KeysGiven(r) THEN Script(r.verb, FoundClosed(r)) ELSE <<>>]
  /\ reply' = [reply EXCEPT ![s] = IF KeysGiven(r) THEN "none" ELSE "refused"]
  /\ UNCHANGED <<otp, locked, tpm, up, enr>>

-----------------------------------------------------------------------------
(* The commands.                                                           *)

At(s, c) == ~Idle(s) /\ Head(todo[s]) = c
Run(s, c) == At(s, c) /\ todo' = [todo EXCEPT ![s] = Tail(@)] /\ UNCHANGED <<req, asOwner>>

\* The handler ends with its answer.
End(s, answer) ==
  /\ todo' = [todo EXCEPT ![s] = <<>>]
  /\ reply' = [reply EXCEPT ![s] = answer]
  /\ req' = [req EXCEPT ![s] = None]
  /\ asOwner' = [asOwner EXCEPT ![s] = FALSE]

\* The value given with owner commands: the request's, or none on a TPM found open.
BadOwnerOk(s) == TRUE
OwnerOk(s) == auth["owner"] = IF asOwner[s] THEN req[s].auths.who ELSE "empty"

\* The key is generated when the slot is blank, for ever.
FwKey(s) ==
  /\ Run(s, "key")
  /\ otp' = TRUE
  /\ UNCHANGED <<locked, tpm, up, reply, enr>>

FwHmac(s) ==
  /\ Run(s, "hmac")
  /\ ~locked
  /\ UNCHANGED <<otp, locked, tpm, up, reply, enr>>

\* EK and AK need the endorsement hierarchy open, making the AK persistent the owner's
\* and a free handle.
PersistAk(s) ==
  /\ Run(s, "ak")
  /\ auth["endorsement"] = "empty" /\ OwnerOk(s) /\ ~ak
  /\ ak' = TRUE
  /\ UNCHANGED <<otp, locked, auth, meas, ctr, highest, up, reply, enr>>

UndefineMeas(s) ==
  /\ Run(s, "undef_meas")
  /\ OwnerOk(s) \/ meas = NoIndex
  /\ meas' = NoIndex
  /\ UNCHANGED <<otp, locked, auth, ak, ctr, highest, up, reply, enr>>

UndefineCounter(s) ==
  /\ Run(s, "undef_ctr")
  /\ OwnerOk(s) \/ ctr = NoCounter
  /\ ctr' = NoCounter
  /\ UNCHANGED <<otp, locked, auth, ak, meas, highest, up, reply, enr>>

\* The scripts go on when an index could not be deleted.
Undeleted(s) ==
  /\ ~OwnerOk(s) \/ "fail" \in Fault
  /\ reply' = [reply EXCEPT ![s] = "failed"]
  /\ UNCHANGED tpm

DropMeas(s) ==
  /\ Run(s, "drop_meas")
  /\ \/ OwnerOk(s) /\ meas' = NoIndex /\ UNCHANGED <<auth, ak, ctr, highest, reply>>
     \/ meas # NoIndex /\ Undeleted(s)
     \/ meas = NoIndex /\ UNCHANGED <<tpm, reply>>
  /\ UNCHANGED <<otp, locked, up, enr>>

DropCounter(s) ==
  /\ Run(s, "drop_ctr")
  /\ \/ OwnerOk(s) /\ ctr' = NoCounter /\ UNCHANGED <<auth, ak, meas, highest, reply>>
     \/ ctr # NoCounter /\ Undeleted(s)
     \/ ctr = NoCounter /\ UNCHANGED <<tpm, reply>>
  /\ UNCHANGED <<otp, locked, up, enr>>

\* A test that lets the script go on: no counter yet; the firmware key is there, unlocked.
Checked(s) ==
  /\ \/ Run(s, "no_ctr") /\ ctr = NoCounter
     \/ Run(s, "unlocked") /\ otp /\ ~locked
  /\ UNCHANGED <<otp, locked, tpm, up, reply, enr>>

DefineMeas(s) ==
  /\ Run(s, "def_meas")
  /\ OwnerOk(s) /\ meas = NoIndex
  /\ meas' = [anchor |-> IndexRule(req[s]), written |-> FALSE]
  /\ UNCHANGED <<otp, locked, auth, ak, ctr, highest, up, reply, enr>>

DefineCounter(s) ==
  /\ Run(s, "def_ctr")
  /\ OwnerOk(s) /\ ctr = NoCounter
  /\ ctr' = [anchor |-> IndexRule(req[s]), value |-> 0]
  /\ UNCHANGED <<otp, locked, auth, ak, meas, highest, up, reply, enr>>

\* A new counter goes on from the highest any counter of the TPM has reached.
FirstCount == {highest, highest + 1} \ {0}

\* The increment satisfies the policy of the verb that made the request; the firmware
\* signs only while the key is unlocked (the fwhmac secret was computed before).
Increment(s) ==
  /\ Run(s, "increment")
  /\ ctr.anchor = IndexRule(req[s])
  /\ IndexRule(req[s]) = "fwkey" => ~locked
  /\ \E n \in IF ctr.value = 0 THEN FirstCount ELSE {ctr.value + 1} :
       /\ ctr' = [ctr EXCEPT !.value = n]
       /\ highest' = IF n > highest THEN n ELSE highest
  /\ UNCHANGED <<otp, locked, auth, ak, meas, up, reply, enr>>

ChangeAuth(s, h) ==
  /\ Run(s, h)
  /\ auth[h] = "empty"
  /\ auth' = [auth EXCEPT ![h] = req[s].auths.who]
  /\ UNCHANGED <<otp, locked, ak, meas, ctr, highest, up, reply, enr>>

\* The Name of the measured-boot index covers its written bit. The firmware-anchored
\* verbs compute the Name it will have once written; the others report it as it is.
BadRecordedName(s) == NoIndex
RecordedName(s) ==
  IF req[s].verb \in {"provision-fwkey", "provision-fwhmac"}
  THEN [meas EXCEPT !.written = TRUE] ELSE meas

\* The reply reaches the server, which saves what it holds, or is lost.
Record(s) ==
  /\ At(s, "record")
  /\ ak /\ meas # NoIndex /\ ctr # NoCounter
  /\ End(s, "ok")
  /\ \/ enr' = [current |-> TRUE, name |-> RecordedName(s)]
     \/ "lost" \in Fault /\ enr' = enr
  /\ UNCHANGED <<otp, locked, tpm, up>>

Done(s) ==
  /\ At(s, "done")
  /\ End(s, "ok")
  /\ UNCHANGED <<otp, locked, tpm, up, enr>>

Command(s) ==
  \/ FwKey(s) \/ FwHmac(s) \/ PersistAk(s) \/ UndefineMeas(s) \/ UndefineCounter(s)
  \/ DefineMeas(s) \/ DefineCounter(s) \/ Increment(s)
  \/ \E h \in Hierarchy : ChangeAuth(s, h)
  \/ DropMeas(s) \/ DropCounter(s) \/ Checked(s)
  \/ Record(s) \/ Done(s)

\* The first command that fails ends the handler; what earlier ones did stays.
Refuse(s, answer) ==
  /\ End(s, answer)
  /\ UNCHANGED <<otp, locked, tpm, up, enr>>

\* What makes a command impossible in this state.
Impossible(s) ==
  \/ At(s, "hmac") /\ locked
  \/ At(s, "ak") /\ ~(auth["endorsement"] = "empty" /\ OwnerOk(s) /\ ~ak)
  \/ At(s, "undef_meas") /\ meas # NoIndex /\ ~OwnerOk(s)
  \/ At(s, "undef_ctr") /\ ctr # NoCounter /\ ~OwnerOk(s)
  \/ At(s, "def_meas") /\ ~(OwnerOk(s) /\ meas = NoIndex)
  \/ At(s, "def_ctr") /\ ~(OwnerOk(s) /\ ctr = NoCounter)
  \/ At(s, "increment") /\ (ctr.anchor # IndexRule(req[s])
                              \/ (ctr.anchor = "fwkey" /\ locked))
  \/ \E h \in Hierarchy : At(s, h) /\ auth[h] # "empty"
  \/ At(s, "no_ctr") /\ ctr # NoCounter
  \/ At(s, "unlocked") /\ ~(otp /\ ~locked)
  \/ At(s, "record") /\ ~(ak /\ meas # NoIndex /\ ctr # NoCounter)

\* Whether a locked key still gives its public half, and how the firmware words the status
\* reprovision-indices.sh greps for, is the firmware's business.
CommandFails(s) ==
  /\ ~Idle(s)
  /\ \/ Impossible(s) /\ Refuse(s, "refused")
     \/ At(s, "key") /\ locked /\ Refuse(s, "failed")
     \/ At(s, "unlocked") /\ Refuse(s, "failed")
     \/ "fail" \in Fault /\ Head(todo[s]) \notin {"drop_meas", "drop_ctr"} /\ Refuse(s, "failed")

-----------------------------------------------------------------------------
(* Resets and boots (the boot chain is outside the repository).            *)

Off ==
  /\ up' = "off"
  /\ locked' = FALSE
  /\ todo' = [s \in Session |-> <<>>]
  /\ reply' = [s \in Session |-> "none"]
  /\ req' = [s \in Session |-> None]
  /\ asOwner' = [s \in Session |-> FALSE]
  /\ UNCHANGED <<otp, highest>>

Reset ==
  /\ up # "off" /\ "reset" \in Fault
  /\ Off
  /\ UNCHANGED <<auth, ak, meas, ctr, enr>>

\* From the boot console; the key in OTP and the highest count stay.
TpmClear ==
  /\ up = "off" /\ "clear" \in Fault
  /\ Off
  /\ auth' = [h \in Hierarchy |-> "empty"]
  /\ ak' = FALSE /\ meas' = NoIndex /\ ctr' = NoCounter
  /\ enr' = [enr EXCEPT !.current = FALSE]

\* Factory U-Boot: no counter, no lock, the DUID rule for the index. Its guard refuses a
\* board that has a key; "clear" goes with the unguarded build made for that purpose.
FactoryBoot ==
  /\ up = "off"
  /\ otp => "clear" \in Fault
  /\ up' = "factory"
  /\ meas' = [meas EXCEPT !.written = meas.anchor \in {"duid", "duid_nopp"}]
  /\ UNCHANGED <<otp, locked, auth, ak, ctr, highest, handler, enr>>

\* Release U-Boot: refuses without a counter it can read, signs with the key, locks it.
ReleaseBoot(v) ==
  /\ up = "off"
  /\ ctr.value # 0 /\ v >= ctr.value
  /\ v > ctr.value => ctr.anchor = "fwkey" /\ otp
  /\ up' = "release"
  /\ locked' = TRUE
  /\ ctr' = [ctr EXCEPT !.value = v]
  /\ highest' = IF v > highest THEN v ELSE highest
  /\ meas' = [meas EXCEPT !.written = otp /\ meas.anchor = "fwkey"]
  /\ UNCHANGED <<otp, auth, ak, handler, enr>>

-----------------------------------------------------------------------------
\* A board from stock: a TPM nobody owns, that may have counted before.
PInit ==
  /\ otp = FALSE /\ locked = FALSE
  /\ auth = [h \in Hierarchy |-> "empty"]
  /\ ak = FALSE /\ meas = NoIndex /\ ctr = NoCounter
  /\ highest \in {0, 1}
  /\ up = "factory"
  /\ req = [s \in Session |-> None]
  /\ asOwner = [s \in Session |-> FALSE]
  /\ todo = [s \in Session |-> <<>>]
  /\ reply = [s \in Session |-> "none"]
  /\ enr = [current |-> FALSE, name |-> NoIndex]

PNext ==
  \/ \E s \in Session :
       \/ \E r \in Request : Begin(s, r)
       \/ Command(s) \/ CommandFails(s)
  \/ Reset \/ TpmClear \/ FactoryBoot
  \/ \E v \in 1..MaxCount : ReleaseBoot(v)

PSpec == PInit /\ [][PNext]_pvars

-----------------------------------------------------------------------------
(* Properties.                                                             *)

PTypeOK ==
  /\ otp \in BOOLEAN /\ locked \in BOOLEAN /\ ak \in BOOLEAN
  /\ auth \in [Hierarchy -> {"empty", "own", "other"}]
  /\ meas.anchor = None => meas = NoIndex
  /\ ctr.anchor = None => ctr = NoCounter
  /\ highest \in Nat /\ ctr.value \in 0..highest
  /\ up \in {"off", "factory", "release"}
  /\ enr.current => enr.name.anchor # None
  /\ reply \in [Session -> {"none", "ok", "refused", "failed"}]
  /\ \A s \in Session : ~Idle(s) => up # "off" /\ req[s] \in Request

\* An ok reply to a provisioning verb means that the board is provisioned by that verb,
\* however many earlier attempts stopped half way: the AK is there, both indices obey
\* its rule, the counter can be read, and a firmware-anchored record names the index as
\* the verifier will see it. The same holds of the indices after reprovision-indices.sh.
OkMeansProvisioned ==
  [][\A s \in Session :
       ~Idle(s) /\ reply'[s] = "ok" /\ req[s].verb \in Serviced \cup {"reprovision-indices"} =>
         LET a == IndexRule(req[s]) IN
         /\ req[s].verb \in Serviced => ak
         /\ auth["owner"] # "empty"
         /\ meas.anchor = a /\ ctr.anchor = a /\ ctr.value > 0
         /\ req[s].verb \in Looks => RecordedName(s) = [anchor |-> a, written |-> TRUE]]_pvars

\* Replacing the indices of a closed TPM that has its AK succeeds at the first undisturbed attempt,
\* whatever state earlier attempts and resets left them in (unless a release has locked
\* the firmware key, or the script finds no key).
ClosedRetrySucceeds ==
  [][\A s \in Session :
       /\ ~Idle(s) /\ req[s].verb \in Looks \cup {"reprovision-indices"}
       /\ asOwner[s] /\ req[s].auths.who = auth["owner"] /\ ak /\ ~locked /\ reply[s] = "none"
       /\ req[s].verb = "reprovision-indices" => otp
       => reply'[s] # "refused"]_pvars

\* On a closed TPM a request that gives another board's owner authorisation, or none to
\* index commands, leaves the TPM alone (rp5-provision, "the same verbs fail without
\* those auths").
ForeignAuthsChangeNothing ==
  [][\A s \in Session :
       /\ ~Idle(s) /\ todo'[s] = Tail(todo[s]) /\ auth["owner"] # "empty"
       /\ IF asOwner[s] THEN req[s].auths.who # auth["owner"] ELSE req[s].verb = "provision-nv-index"
       => UNCHANGED tpm]_pvars

\* A handler that found the owner authorisation set is on a provisioned TPM: all three
\* authorisations are set (rp5-provision-priv, "Already provisioned TPM (owner auth
\* set): keep the AK and the hierarchy auths").
ClosedMeansProvisioned ==
  \A s \in Session : ~Idle(s) /\ req[s].verb \in Looks /\ asOwner[s] =>
    \A h \in Hierarchy : auth[h] # "empty"

\* The index Name in the enrollment record is the Name of the written index, the one the
\* verifier compares with (fwcrypto-feasibility.md, "enrollment must hold WRITTEN-state
\* index Names").
EnrolledNameIsWritten == enr.current => enr.name.written

\* A board the factory guard turns away is provisioned (fwcrypto-feasibility.md, "this
\* board is already provisioned (firmware key present)").
GuardedBoardIsProvisioned == up = "off" /\ otp => auth["owner"] # "empty"

=============================================================================
