------------------------------- MODULE Verifier -------------------------------
(***************************************************************************)
(* Attestation rounds (attestation/attest-server.py against the rp5-attest *)
(* service of one board): the verifier reads the resetCount it saved last, *)
(* sends a nonce, the board answers with a PCR quote and a certificate of  *)
(* the measured-boot NV index, the verifier checks everything, compares    *)
(* the quoted resetCount with the one it read, and saves it, whatever the  *)
(* verdict. Around the rounds the board boots, its software changes, its   *)
(* TPM is cleared, provisioned again and enrolled again. The transport is  *)
(* ssh: an answer arrives whole, garbled by its sender, or not at all. The *)
(* older way to ask, by script and scp, is in LegacyRound.                 *)
(*                                                                         *)
(* A measured state is the release that booted and the root slot it booted *)
(* from; Other stands for every state no golden describes.                 *)
(***************************************************************************)
EXTENDS Integers

CONSTANTS
  Round,     \* verifier processes; each runs one round at a time
  Release,
  Other,     \* a measured state that is no release's
  None,
  Fault,     \* "clear", "disk": what may happen besides boots and losses; "disk": the
             \* state file cannot be written, or the verifier is killed while it writes
  Garbled,   \* the malformed forms an answer may have (a subset of Form below)
  MaxBoots   \* bound on the boots of one behaviour

Slot == {"A", "B"}
State == [img : Release \cup {Other}, slot : Slot]

ASSUME RoundAssumption ==
  /\ Garbled \subseteq STRING \ {"whole"} /\ MaxBoots \in Nat
  /\ Other \notin Release /\ None \notin Release /\ None \notin Round
  /\ None \notin Nat /\ None \notin State

VARIABLES
  up,        \* Linux and the attestation service are running
  pcr,       \* the measured state in the PCRs
  nv,        \* the state U-Boot committed to the NV index in this boot, or None
  resets,    \* the TPM's resetCount
  ak,        \* generation of AK and indices: a clear followed by provisioning makes a new one
  closed,    \* the TPM is provisioned
  enrolled,  \* the generation in the server's enrollment record
  saved,     \* attest-state.json: the last resetCount, or None
  pc,        \* where the round is: see Step
  prev,      \* what the round read from attest-state.json
  must,      \* REQUIRE_REBOOT of the round
  gold,      \* the release whose goldens the round uses
  quote,     \* the answer's first half, None: not yet: its form, the nonce in it, the key
             \* that signed it, the quoted state and resetCount, and (history) its origin
  cert,      \* its second half, with the committed state instead
  told,      \* the freshness the round reported
  boots,     \* history: number of boots so far
  filed,     \* history: the origin of the evidence whose resetCount is saved
  since      \* history: filed, when the round read the file

board   == <<up, pcr, nv, resets, ak, closed, boots>>
service == <<enrolled, saved, filed>>
round   == <<pc, prev, must, gold, quote, cert, told, since>>
vvars   == <<board, service, round>>

Ended == {"passed", "failed", "gone", "crashed"}
\* The last line of steps is LegacyRound's.
Step == {"idle", "asked", "quoted", "answered"} \cup Ended
          \cup {"sent", "scripted", "ran", "got_quote", "got_quote_sig", "got_cert"}

\* Where evidence comes from: the boot, and the generation of the keys. None: nowhere.
Nowhere == [boot |-> 0, ak |-> 0]
Origin == [boot |-> boots, ak |-> ak]

-----------------------------------------------------------------------------
(* The board.                                                              *)

\* Restarting drops every connection; what ran on the board is gone.
DropConnections ==
  pc' = [r \in Round |-> IF pc[r] \in {"quoted", "scripted"} THEN "gone" ELSE pc[r]]

\* U-Boot extends the PCRs and, if the index is there and authorises it, the index: with
\* the same state, or, if its rule is not the verifier's, with something else.
Boot(s, n) ==
  /\ boots < MaxBoots
  /\ n # None => closed
  /\ up' = TRUE
  /\ pcr' = s
  /\ nv' = n
  /\ resets' = resets + 1
  /\ boots' = boots + 1
  /\ DropConnections
  /\ UNCHANGED <<ak, closed, service, prev, must, gold, quote, cert, told, since>>

\* Any later measurement leaves the PCRs in a state no golden describes.
PcrExtended ==
  /\ up /\ pcr.img # Other
  /\ pcr' = [pcr EXCEPT !.img = Other]
  /\ UNCHANGED <<up, nv, resets, ak, closed, boots, service, round>>

\* TPM2_Clear from the boot console: keys and indices are gone and resetCount is zero.
TpmClear ==
  /\ "clear" \in Fault /\ closed
  /\ up' = FALSE
  /\ closed' = FALSE
  /\ nv' = None
  /\ resets' = 0
  /\ DropConnections
  /\ UNCHANGED <<pcr, ak, boots, service, prev, must, gold, quote, cert, told, since>>

-----------------------------------------------------------------------------
(* Provisioning and enrollment, as far as rounds depend on them.           *)

Provision(replied) ==
  /\ up /\ ~closed
  /\ closed' = TRUE
  /\ ak' = ak + 1
  /\ enrolled' = IF replied THEN ak + 1 ELSE enrolled
  /\ UNCHANGED <<up, pcr, nv, resets, boots, saved, filed, round>>

Enroll ==
  /\ up /\ closed /\ enrolled # ak
  /\ enrolled' = ak
  /\ UNCHANGED <<board, saved, filed, round>>

-----------------------------------------------------------------------------
(* The evidence. Each half is a TPMS_ATTEST blob that parses field by      *)
(* field. It is whole, names the wrong thing, or ends within a field.      *)

\* Cut within a field: the header, the two size-prefixed strings and the clock of every
\* blob, then the fields of the quote's or the certificate's own part.
HeaderCut == {"header", "signer_size", "signer", "extra_size", "extra", "clock"}
QuoteCut == {"count", "bank", "select_size", "select", "digest_size", "digest"}
CertCut == {"name_size", "name", "offset", "contents_size", "contents"}
\* A reply that is no object, or has not the files, or not in base64.
ReplyForm == {"no_object", "no_file", "no_base64"}
QuoteForm == {"whole", "no_magic", "other_type", "other_count", "other_bank", "other_select"}
               \cup HeaderCut \cup QuoteCut \cup ReplyForm
CertForm == {"whole", "no_magic", "other_type", "other_name"}
              \cup HeaderCut \cup CertCut \cup ReplyForm

\* The reply is taken apart unguarded, and integers are unpacked without looking at what is
\* left; everything else is tested, and raises AttestError.
Unpacked == {"signer_size", "extra_size", "count", "bank", "select_size", "digest_size",
             "name_size", "offset", "contents_size"}
Parsed(b) ==
  IF b = None THEN "none" ELSE IF b.form = "whole" THEN "ok"
  ELSE IF b.form \in ReplyForm \cup Unpacked THEN "exception" ELSE "reject"

QuoteOk(r) == Parsed(quote[r]) = "ok"
CertOk(r) == Parsed(cert[r]) = "ok"

-----------------------------------------------------------------------------
(* A round.                                                                *)

\* The saved resetCount is read before the board is asked.
Start(r, g, m) ==
  /\ pc[r] \in {"idle"} \cup Ended
  /\ pc' = [pc EXCEPT ![r] = "asked"]
  /\ prev' = [prev EXCEPT ![r] = saved]
  /\ must' = [must EXCEPT ![r] = m]
  /\ gold' = [gold EXCEPT ![r] = g]
  /\ quote' = [quote EXCEPT ![r] = None]
  /\ cert' = [cert EXCEPT ![r] = None]
  /\ told' = [told EXCEPT ![r] = "unknown"]
  /\ since' = [since EXCEPT ![r] = filed]
  /\ UNCHANGED <<board, service>>

\* Either half may come out malformed.
Blob(whole, Forms) == {whole} \cup {[form |-> f] : f \in Garbled \cap Forms}

QuoteBlobs(n) ==
  Blob([form |-> "whole", key |-> ak, nonce |-> n, pcr |-> pcr, resets |-> resets, from |-> Origin],
       QuoteForm)
CertBlobs(n) ==
  Blob([form |-> "whole", key |-> ak, nonce |-> n, pcr |-> nv, from |-> Origin], CertForm)

\* An index that was not written since the restart cannot be certified.
CanQuote == up /\ closed
CanCertify == up /\ closed /\ nv # None

\* The nonce and the answer travel on one connection.
Quote(r) ==
  /\ pc[r] = "asked" /\ CanQuote
  /\ pc' = [pc EXCEPT ![r] = "quoted"]
  /\ \E b \in QuoteBlobs(r) : quote' = [quote EXCEPT ![r] = b]
  /\ UNCHANGED <<board, service, prev, must, gold, cert, told, since>>

Certify(r) ==
  /\ pc[r] = "quoted" /\ CanCertify
  /\ pc' = [pc EXCEPT ![r] = "answered"]
  /\ \E b \in CertBlobs(r) : cert' = [cert EXCEPT ![r] = b]
  /\ UNCHANGED <<board, service, prev, must, gold, quote, told, since>>

\* No reply, or a refusal: the verifier exits without having seen a resetCount.
NoReply(r) ==
  /\ pc[r] \in {"asked", "quoted"}
  /\ pc' = [pc EXCEPT ![r] = "gone"]
  /\ UNCHANGED <<board, service, prev, must, gold, quote, cert, told, since>>

-----------------------------------------------------------------------------
(* The checks.                                                             *)

\* One golden composite per root slot.
BadGoldenStates(g) == [img : {g}, slot : {"A"}]
GoldenStates(g) == [img : {g}, slot : Slot]

SignedByEnrolled(r) ==
  /\ QuoteOk(r) /\ quote[r].key = enrolled
  /\ CertOk(r) /\ cert[r].key = enrolled
BadAnswersNonce(r) == QuoteOk(r) /\ quote[r].nonce = r
AnswersNonce(r) == /\ QuoteOk(r) /\ quote[r].nonce = r
                   /\ CertOk(r) /\ cert[r].nonce = r
GoodState(r) == QuoteOk(r) /\ quote[r].pcr \in GoldenStates(gold[r])
BadBootRecord(r) == GoodState(r) /\ CertOk(r)
BootRecord(r) == GoodState(r) /\ CertOk(r) /\ cert[r].pcr = quote[r].pcr

\* resetCount has advanced since the one on record.
BadNewer(n, p) == n >= p
LateNewer(n, p) == n > p + 1
Newer(n, p) == n > p

Freshness(r) ==
  CASE ~QuoteOk(r)                  -> "unknown"
    [] QuoteOk(r) /\ prev[r] = None -> "no baseline"
    [] QuoteOk(r) /\ prev[r] # None ->
         IF Newer(quote[r].resets, prev[r]) THEN "fresh" ELSE "stale"
Restarted(r) == ~QuoteOk(r) \/ Freshness(r) = "fresh"

BadVerdict(r) ==
  QuoteOk(r) => SignedByEnrolled(r) /\ AnswersNonce(r) /\ GoodState(r) /\ BootRecord(r)
Verdict(r) ==
  /\ SignedByEnrolled(r) /\ AnswersNonce(r)
  /\ GoodState(r) /\ BootRecord(r)
  /\ must[r] => Restarted(r)

\* The state file is written after the checks, on any verdict: emptied first, then filled.
\* A failure of either is ignored, and an empty file reads as no baseline.
Remember(r) ==
  \/ /\ QuoteOk(r)
     /\ saved' = quote[r].resets /\ filed' = quote[r].from
  \/ /\ QuoteOk(r) => "disk" \in Fault
     /\ UNCHANGED <<saved, filed>>
  \/ /\ QuoteOk(r) /\ "disk" \in Fault
     /\ saved' = None /\ filed' = Nowhere

\* An exception other than AttestError ends the process before the verdict.
Broken(r) == "exception" \in {Parsed(quote[r]), Parsed(cert[r])}

Crash(r) ==
  /\ pc[r] = "answered" /\ Broken(r)
  /\ pc' = [pc EXCEPT ![r] = "crashed"]
  /\ UNCHANGED <<board, service, prev, must, gold, quote, cert, told, since>>

End(r) ==
  /\ pc[r] = "answered" /\ ~Broken(r)
  /\ pc' = [pc EXCEPT ![r] = IF Verdict(r) THEN "passed" ELSE "failed"]
  /\ told' = [told EXCEPT ![r] = Freshness(r)]
  /\ Remember(r)
  /\ UNCHANGED <<board, enrolled, prev, must, gold, quote, cert, since>>

\* Killed between emptying the file and filling it: no verdict is reported.
KilledWriting(r) ==
  /\ "disk" \in Fault
  /\ pc[r] = "answered" /\ ~Broken(r) /\ QuoteOk(r)
  /\ pc' = [pc EXCEPT ![r] = "gone"]
  /\ saved' = None /\ filed' = Nowhere
  /\ UNCHANGED <<board, enrolled, prev, must, gold, quote, cert, told, since>>

-----------------------------------------------------------------------------
\* The board has been provisioned and enrolled; it has not booted a release yet and no
\* round has been run.
VInit ==
  /\ up = FALSE /\ pcr = [img |-> Other, slot |-> "A"] /\ nv = None
  /\ resets = 0 /\ ak = 1 /\ closed = TRUE /\ enrolled = 1 /\ saved = None
  /\ pc = [r \in Round |-> "idle"]
  /\ prev = [r \in Round |-> None] /\ must = [r \in Round |-> FALSE]
  /\ gold = [r \in Round |-> None]
  /\ quote = [r \in Round |-> None] /\ cert = [r \in Round |-> None]
  /\ told = [r \in Round |-> "unknown"]
  /\ boots = 0 /\ filed = Nowhere /\ since = [r \in Round |-> Nowhere]

Restarts == TpmClear \/ \E s \in State : \E n \in {None, s, [s EXCEPT !.img = Other]} : Boot(s, n)
Operator == Enroll \/ \E replied \in BOOLEAN : Provision(replied)
Begin == \E r \in Round, g \in Release, m \in BOOLEAN : Start(r, g, m)
Proceed(r) == Quote(r) \/ Certify(r) \/ NoReply(r) \/ Crash(r) \/ End(r) \/ KilledWriting(r)

VNext == Restarts \/ PcrExtended \/ Operator \/ Begin \/ \E r \in Round : Proceed(r)

VSpec == VInit /\ [][VNext]_vvars

-----------------------------------------------------------------------------
(* Properties.                                                             *)

VTypeOK ==
  /\ up \in BOOLEAN /\ closed \in BOOLEAN
  /\ pcr \in State /\ nv \in State \cup {None}
  /\ resets \in 0..MaxBoots /\ boots \in 0..MaxBoots
  /\ saved = None <=> filed = Nowhere
  /\ ak \in Nat /\ enrolled \in Nat
  /\ saved \in (0..MaxBoots) \cup {None}
  /\ pc \in [Round -> Step]
  /\ \A r \in Round :
       /\ quote[r] # None => quote[r].form \in QuoteForm
       /\ cert[r] # None => cert[r].form \in CertForm
       /\ pc[r] = "passed" => QuoteOk(r) /\ CertOk(r)

\* A passed round's evidence is of one boot: the record of one boot never vouches for the
\* quote of another, although restarts and other verifiers come between its commands.
EvidenceOfOneBoot ==
  \A r \in Round : pc[r] = "passed" => quote[r].from = cert[r].from

\* Evidence called fresh is from a later boot than the evidence the file held when the
\* round began (rp5.py, "fresh = restarted since the last round"), also when the file was
\* not written, or was lost, or the TPM was cleared in between.
FreshMeansRestarted ==
  \A r \in Round : told[r] = "fresh" => quote[r].from.boot > since[r].boot

\* And the other way round: evidence called stale is from the boot on file, or the TPM has
\* been cleared since, which sets resetCount back (attest-server.py, "NOT restarted since
\* the last round").
StaleMeansNotRestarted ==
  \A r \in Round : told[r] = "stale" =>
    \/ quote[r].from.boot <= since[r].boot
    \/ quote[r].from.ak # since[r].ak

\* The resetCount on file never gives way to one of an earlier boot.
BaselineNeverMovesBack == [][filed'.boot >= filed.boot \/ filed' = Nowhere]_vvars

\* A malformed answer is rejected like any other bad one (attest-server.py, "a malformed
\* blob is a REJECT, never a crash").
MalformedIsRejected == \A r \in Round : pc[r] # "crashed"

\* A routine round on an enrolled board that booted the release, extended its index and
\* measured nothing else is never failed, unless its answer is cut short or another
\* verifier's answer came in its place.
GoodBoardPasses ==
  [][\A r \in Round :
       /\ pc[r] = "answered" /\ pc'[r] \notin {"answered", "gone"} /\ ~must[r]
       /\ QuoteOk(r) /\ CertOk(r) /\ AnswersNonce(r) /\ quote[r].key # 0 /\ cert[r].key # 0
       /\ quote[r].from = Origin /\ enrolled = ak
       /\ pcr.img = gold[r] /\ nv = pcr
       => pc'[r] = "passed"]_vvars

=============================================================================
