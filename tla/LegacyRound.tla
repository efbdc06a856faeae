------------------------------ MODULE LegacyRound ------------------------------
(***************************************************************************)
(* The older way to ask a board for evidence (attest-server.py without     *)
(* AGENT, attestation/attest-device.sh): the verifier copies its nonce to  *)
(* the board, runs the script there, and copies four files back, each by a *)
(* connection of its own. The files have fixed names, so every verifier    *)
(* that asks this way, from any host, uses the same ones; they are lost at *)
(* a restart, and a round whose verifier has no connection open at that    *)
(* moment goes on after it. Of the other verifiers only what they do to    *)
(* these files is modelled: each keeps a state file of its own.            *)
(***************************************************************************)
EXTENDS Verifier

CONSTANT Foreign   \* another verifier's nonce, or an earlier one of this verifier

ASSUME ForeignAssumption == Foreign \notin Round

VARIABLES
  file,   \* on the board: "nonce" holds a nonce or None, "quote" and "cert" hold evidence
          \* or None; each of the last two stands for a .msg and a .sig file
  script_nonce, \* the nonce the round's script has read
  seen    \* history: the boots in which the board was Good since the round began

legacy == <<file, script_nonce>>
lvars  == <<vvars, legacy, seen>>

NoFiles == [nonce |-> None, quote |-> None, cert |-> None]

\* What the files hold of a round that has ended is nobody's answer any more.
Stale(b, r) == IF b # None /\ b.nonce = r THEN [b EXCEPT !.nonce = Foreign] ELSE b
Forget(r) ==
  file' = [nonce |-> IF file.nonce = r THEN Foreign ELSE file.nonce,
           quote |-> Stale(file.quote, r), cert |-> Stale(file.cert, r)]

-----------------------------------------------------------------------------
(* A round by script.                                                      *)

Goes(r, from, to) == pc[r] = from /\ pc' = [pc EXCEPT ![r] = to]
Kept == UNCHANGED <<board, service, prev, must, gold, told, since>>

CopyNonce(r) ==
  /\ Goes(r, "asked", "sent") /\ up
  /\ file' = [file EXCEPT !.nonce = r]
  /\ Kept /\ UNCHANGED <<quote, cert, script_nonce>>

Whole(Blobs) == {b \in Blobs : b.form = "whole"}

\* The script reads the nonce once and uses it for both commands; without one it fails.
ScriptQuotes(r) ==
  /\ Goes(r, "sent", "scripted") /\ CanQuote
  /\ file.nonce # None
  /\ script_nonce' = [script_nonce EXCEPT ![r] = file.nonce]
  /\ \E b \in Whole(QuoteBlobs(file.nonce)) : file' = [file EXCEPT !.quote = b]
  /\ Kept /\ UNCHANGED <<quote, cert>>

ScriptCertifies(r) ==
  /\ Goes(r, "scripted", "ran") /\ CanCertify
  /\ \E b \in Whole(CertBlobs(script_nonce[r])) : file' = [file EXCEPT !.cert = b]
  /\ Kept /\ UNCHANGED <<quote, cert, script_nonce>>

\* The blob first, then its signature: of another blob, if the files have changed since.
WithSignature(mine, now) == IF now = mine THEN mine ELSE [mine EXCEPT !.key = 0]

FetchQuote(r) ==
  /\ Goes(r, "ran", "got_quote") /\ up /\ file.quote # None
  /\ quote' = [quote EXCEPT ![r] = file.quote]
  /\ Kept /\ UNCHANGED <<cert, legacy>>

FetchQuoteSig(r) ==
  /\ Goes(r, "got_quote", "got_quote_sig") /\ up /\ file.quote # None
  /\ quote' = [quote EXCEPT ![r] = WithSignature(@, file.quote)]
  /\ Kept /\ UNCHANGED <<cert, legacy>>

FetchCert(r) ==
  /\ Goes(r, "got_quote_sig", "got_cert") /\ up /\ file.cert # None
  /\ cert' = [cert EXCEPT ![r] = file.cert]
  /\ Kept /\ UNCHANGED <<quote, legacy>>

FetchCertSig(r) ==
  /\ Goes(r, "got_cert", "answered") /\ up /\ file.cert # None
  /\ cert' = [cert EXCEPT ![r] = WithSignature(@, file.cert)]
  /\ Kept /\ UNCHANGED <<quote, legacy>>

\* A command that fails ends the verifier.
CommandFails(r) ==
  /\ pc[r] \in {"sent", "scripted", "ran", "got_quote", "got_quote_sig", "got_cert"}
  /\ pc' = [pc EXCEPT ![r] = "gone"]
  /\ Kept /\ UNCHANGED <<quote, cert, legacy>>

-----------------------------------------------------------------------------
(* Another verifier asks the same way.                                     *)

ForeignNonce ==
  /\ up /\ file' = [file EXCEPT !.nonce = Foreign]
  /\ UNCHANGED <<vvars, script_nonce>>

ForeignScriptQuotes ==
  /\ CanQuote /\ file.nonce # None
  /\ \E b \in Whole(QuoteBlobs(file.nonce)) : file' = [file EXCEPT !.quote = b]
  /\ UNCHANGED <<vvars, script_nonce>>

\* Its script read the nonce before the quote: it may be another one by now.
ForeignScriptCertifies ==
  /\ CanCertify /\ file.quote # None
  /\ \E n \in {Foreign, file.nonce} \ {None} :
       \E b \in Whole(CertBlobs(n)) : file' = [file EXCEPT !.cert = b]
  /\ UNCHANGED <<vvars, script_nonce>>

-----------------------------------------------------------------------------
\* The board runs the release of the round's goldens, from either slot, and U-Boot has put
\* exactly that on record in this boot.
Good(r) == up /\ pcr.img = gold[r] /\ nv = pcr

\* seen only observes the other steps.
Starts(r) == pc[r] \in {"idle"} \cup Ended /\ pc'[r] = "asked"
Watch == seen' = [r \in Round |-> {b \in seen[r] : ~Starts(r)} \cup {b \in {boots'} : Good(r)'}]

-----------------------------------------------------------------------------
LInit ==
  /\ VInit
  /\ file = NoFiles /\ script_nonce = [r \in Round |-> None]
  /\ seen = [r \in Round |-> {}]

LStep ==
  \/ Restarts /\ file' = NoFiles /\ UNCHANGED script_nonce
  \/ (PcrExtended \/ Operator) /\ UNCHANGED legacy
  \/ \E r \in Round, g \in Release, m \in BOOLEAN :
       Start(r, g, m) /\ Forget(r) /\ script_nonce' = [script_nonce EXCEPT ![r] = None]
  \/ \E r \in Round :
       \/ Proceed(r) /\ UNCHANGED legacy
       \/ CopyNonce(r) \/ ScriptQuotes(r) \/ ScriptCertifies(r)
       \/ FetchQuote(r) \/ FetchQuoteSig(r) \/ FetchCert(r) \/ FetchCertSig(r)
       \/ CommandFails(r)
  \/ ForeignNonce \/ ForeignScriptQuotes \/ ForeignScriptCertifies

LNext == LStep /\ Watch

LSpec == LInit /\ [][LNext]_lvars

-----------------------------------------------------------------------------
(* Properties: those of Verifier hold for both ways.                       *)

Nonce == Round \cup {Foreign}

LTypeOK ==
  /\ VTypeOK
  /\ file.nonce \in Nonce \cup {None}
  /\ \A b \in {file.quote, file.cert} \ {None} : b.form = "whole" /\ b.nonce \in Nonce
  /\ script_nonce \in [Round -> Nonce \cup {None}]
  /\ seen \in [Round -> SUBSET (0..MaxBoots)]

\* A passed round proves that since it began, in the boot its quote names, the board was
\* running the release whose goldens were used with U-Boot's record of exactly that: also
\* where restarts, measurements, a clear and other verifiers' files come between quote,
\* record and verdict (attest-server.py, "ATTESTATION PASSED").
PassMeansGoldenBoot ==
  \A r \in Round : pc[r] = "passed" => quote[r].from.boot \in seen[r]

=============================================================================
