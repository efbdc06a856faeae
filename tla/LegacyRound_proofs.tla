------------------------- MODULE LegacyRound_proofs -------------------------
(* What the verdicts and the freshness of rounds are worth, for any number of *)
(* verifiers that ask either way, any garbling of answers, and any faults.    *)
EXTENDS LegacyRound, TLAPS

\* None and the other verifier's nonce are no round's, and garbled is not whole.
LEMMA Distinct == None \notin Round /\ Foreign \notin Round /\ "whole" \notin Garbled
BY RoundAssumption, ForeignAssumption

-----------------------------------------------------------------------------
(* The invariant.                                                          *)

Ok(b) == b # None /\ b.form = "whole"
Quoted(b) == DOMAIN b = {"form", "key", "nonce", "pcr", "resets", "from"}
Certified(b) == DOMAIN b = {"form", "key", "nonce", "pcr", "from"}
Genuine(o) == o.boot \in Nat /\ o.ak \in Nat

\* As much of the types as the rest needs: the board's, and the others.
Counts ==
  /\ up \in BOOLEAN /\ closed \in BOOLEAN
  /\ resets \in Nat /\ boots \in Nat /\ ak \in Nat /\ ak > 0
  /\ up => boots > 0

Typed ==
  /\ pc \in [Round -> Step] /\ DOMAIN gold = Round /\ DOMAIN must = Round
  /\ prev \in [Round -> Nat \cup {None}] /\ saved \in Nat \cup {None}
  /\ DOMAIN quote = Round /\ DOMAIN cert = Round /\ DOMAIN told = Round
  /\ DOMAIN since = Round /\ DOMAIN script_nonce = Round
  /\ file = [nonce |-> file.nonce, quote |-> file.quote, cert |-> file.cert]
  /\ Genuine(filed)
  /\ \A r \in Round :
       /\ Genuine(since[r])
       /\ Ok(quote[r]) => /\ Quoted(quote[r]) /\ quote[r].resets \in Nat
                         /\ Genuine(quote[r].from)
       /\ Ok(cert[r]) => Certified(cert[r])
       /\ pc[r] = "got_quote" => Ok(quote[r])
       /\ pc[r] = "got_cert" => Ok(cert[r])

\* What lies in the files is of this boot and these keys.
FilesAreCurrent ==
  /\ file.quote # None => /\ up /\ closed /\ Ok(file.quote) /\ Quoted(file.quote)
                         /\ file.quote.from = Origin /\ file.quote.resets = resets
  /\ file.cert # None => /\ up /\ closed /\ Ok(file.cert) /\ Certified(file.cert)
                        /\ file.cert.from = Origin

\* The round's nonce is in the files, or a script that runs has read it.
OnBoard(r) ==
  \/ file.nonce = r
  \/ file.quote # None /\ file.quote.nonce = r
  \/ file.cert # None /\ file.cert.nonce = r
  \/ \E v \in Round : pc[v] = "scripted" /\ script_nonce[v] = r

\* How far the round's answer is, and where a half that answers its nonce is from.
Answer(r) ==
  /\ pc[r] \in {"asked", "sent", "scripted", "ran"} => quote[r] = None
  /\ pc[r] \in {"asked", "sent", "scripted", "ran", "quoted", "got_quote", "got_quote_sig"}
     => cert[r] = None
  /\ pc[r] = "quoted" => closed /\ (Ok(quote[r]) => quote[r].from = Origin)
  /\ pc[r] = "scripted" => closed
  /\ Ok(quote[r]) /\ quote[r].nonce = r /\ OnBoard(r) => quote[r].from = Origin /\ closed
  /\ Ok(quote[r]) /\ quote[r].nonce = r /\ Ok(cert[r]) /\ cert[r].nonce = r
     => quote[r].from = cert[r].from
  /\ pc[r] = "passed" =>
       /\ Ok(quote[r]) /\ quote[r].nonce = r /\ Ok(cert[r]) /\ cert[r].nonce = r
       /\ quote[r].pcr.img = gold[r] /\ cert[r].pcr = quote[r].pcr
       /\ quote[r].key = cert[r].key

RoundInv == FilesAreCurrent /\ \A r \in Round : Answer(r)

-----------------------------------------------------------------------------
\* The types hold initially.
LEMMA TypeInit == LInit => Counts /\ Typed
<1> SUFFICES ASSUME LInit PROVE Counts /\ Typed
  OBVIOUS
<1>1. /\ up = FALSE /\ closed = TRUE /\ resets = 0 /\ boots = 0 /\ ak = 1 /\ saved = None
      /\ filed = Nowhere /\ file = NoFiles
      /\ pc = [r \in Round |-> "idle"] /\ prev = [r \in Round |-> None]
      /\ must = [r \in Round |-> FALSE] /\ gold = [r \in Round |-> None]
      /\ quote = [r \in Round |-> None] /\ cert = [r \in Round |-> None]
      /\ told = [r \in Round |-> "unknown"] /\ since = [r \in Round |-> Nowhere]
      /\ script_nonce = [r \in Round |-> None]
  BY DEF LInit, VInit
<1>2. Genuine(Nowhere)
  BY DEF Genuine, Nowhere
<1>3. file = [nonce |-> file.nonce, quote |-> file.quote, cert |-> file.cert]
  BY <1>1 DEF NoFiles
<1>4. \A r \in Round : pc[r] = "idle" /\ ~Ok(quote[r]) /\ ~Ok(cert[r]) /\ Genuine(since[r])
  BY <1>1, <1>2 DEF Ok
<1>5. pc \in [Round -> Step] /\ prev \in [Round -> Nat \cup {None}]
  BY <1>1 DEF Step
<1>6. resets \in Nat /\ boots \in Nat /\ ak \in Nat /\ ak > 0
  BY DEF LInit, VInit
<1>7. up \in BOOLEAN /\ closed \in BOOLEAN /\ ~up
  BY DEF LInit, VInit
<1>8. /\ DOMAIN gold = Round /\ DOMAIN must = Round
      /\ DOMAIN quote = Round /\ DOMAIN cert = Round /\ DOMAIN told = Round
      /\ DOMAIN since = Round /\ DOMAIN script_nonce = Round
      /\ saved \in Nat \cup {None} /\ Genuine(filed)
  BY <1>1, <1>2
<1>9. QED
  BY <1>3, <1>4, <1>5, <1>6, <1>7, <1>8 DEF Counts, Typed

\* What a whole answer of the board says.
LEMMA WholeQuote ==
  ASSUME NEW n, NEW b \in QuoteBlobs(n), b.form = "whole"
  PROVE  b = [form |-> "whole", key |-> ak, nonce |-> n, pcr |-> pcr, resets |-> resets,
              from |-> Origin]
BY Distinct DEF QuoteBlobs, Blob

\* What a whole certificate of the board says.
LEMMA WholeCert ==
  ASSUME NEW n, NEW b \in CertBlobs(n), b.form = "whole"
  PROVE  b = [form |-> "whole", key |-> ak, nonce |-> n, pcr |-> nv, from |-> Origin]
BY Distinct DEF CertBlobs, Blob

\* The signature that comes with a quote changes nothing but who signed it.
LEMMA QuoteSignature ==
  ASSUME NEW mine, NEW now, Ok(mine), Quoted(mine)
  PROVE  LET w == WithSignature(mine, now)
         IN  /\ Quoted(w) /\ w.form = "whole" /\ w.nonce = mine.nonce /\ w.pcr = mine.pcr
             /\ w.resets = mine.resets /\ w.from = mine.from
BY DEF WithSignature, Ok, Quoted

\* The same of a certificate.
LEMMA CertSignature ==
  ASSUME NEW mine, NEW now, Ok(mine), Certified(mine)
  PROVE  LET w == WithSignature(mine, now)
         IN  /\ Certified(w) /\ w.form = "whole" /\ w.nonce = mine.nonce /\ w.pcr = mine.pcr
             /\ w.from = mine.from
BY DEF WithSignature, Ok, Certified

-----------------------------------------------------------------------------
\* What a step may do to the board: boot it, clear its TPM, provision it, or none of these.
BoardStep ==
  \/ \E s, n : Boot(s, n)
  \/ TpmClear
  \/ \E replied \in BOOLEAN : Provision(replied)
  \/ UNCHANGED <<up, resets, ak, closed, boots>>

\* Every step is one of these.
LEMMA BoardSteps == [LNext]_lvars => BoardStep
<1> SUFFICES ASSUME [LNext]_lvars PROVE BoardStep
  OBVIOUS
<1>1. CASE Restarts
  BY <1>1 DEF Restarts, BoardStep
<1>2. CASE Operator
  BY <1>2 DEF Operator, Enroll, board, BoardStep
<1>3. CASE PcrExtended
  BY <1>3 DEF PcrExtended, BoardStep
<1>4. ASSUME NEW r \in Round, NEW g \in Release, NEW m \in BOOLEAN, Start(r, g, m)
      PROVE  BoardStep
  BY <1>4 DEF Start, board, BoardStep
<1>5. ASSUME NEW r \in Round, Proceed(r) PROVE BoardStep
  BY <1>5 DEF Proceed, Quote, Certify, NoReply, Crash, End, KilledWriting, board, BoardStep
<1>6. ASSUME NEW r \in Round,
             \/ CopyNonce(r) \/ ScriptQuotes(r) \/ ScriptCertifies(r) \/ FetchQuote(r)
             \/ FetchQuoteSig(r) \/ FetchCert(r) \/ FetchCertSig(r) \/ CommandFails(r)
      PROVE  BoardStep
  BY <1>6 DEF CopyNonce, ScriptQuotes, ScriptCertifies, FetchQuote, FetchQuoteSig, FetchCert,
              FetchCertSig, CommandFails, Kept, board, BoardStep
<1>7. ForeignNonce \/ ForeignScriptQuotes \/ ForeignScriptCertifies \/ UNCHANGED lvars
      => BoardStep
  BY DEF ForeignNonce, ForeignScriptQuotes, ForeignScriptCertifies, lvars, vvars, board, BoardStep
<1>8. QED
  BY <1>1, <1>2, <1>3, <1>4, <1>5, <1>6, <1>7 DEF LNext, LStep

\* Every step keeps the board's types.
LEMMA CountStep == Counts /\ [LNext]_lvars => Counts'
<1> SUFFICES ASSUME Counts, BoardStep PROVE Counts'
  BY BoardSteps
<1>1. ASSUME NEW s, NEW n, Boot(s, n) PROVE Counts'
  BY <1>1 DEF Boot, Counts
<1>2. CASE TpmClear
  BY <1>2 DEF TpmClear, Counts
<1>3. ASSUME NEW replied, Provision(replied) PROVE Counts'
  BY <1>3 DEF Provision, Counts
<1>4. CASE UNCHANGED <<up, resets, ak, closed, boots>>
  BY <1>4 DEF Counts
<1>5. QED
  BY <1>1, <1>2, <1>3, <1>4 DEF BoardStep

\* Every step keeps the others.
LEMMA TypeStep ==
  ASSUME Counts, Typed, FilesAreCurrent, [LNext]_lvars
  PROVE  Typed'
<1> USE DEF Typed, Step, Ended, vvars, lvars, board, service, round, legacy, Genuine
<1>1. ASSUME NEW s \in State, NEW n \in {None, s, [s EXCEPT !.img = Other]}, Boot(s, n),
             file' = NoFiles, UNCHANGED script_nonce
      PROVE  Typed'
  BY <1>1 DEF Boot, DropConnections, NoFiles
<1>2. ASSUME TpmClear, file' = NoFiles, UNCHANGED script_nonce PROVE Typed'
  BY <1>2 DEF TpmClear, DropConnections, NoFiles
<1>3. ASSUME PcrExtended \/ Operator, UNCHANGED legacy PROVE Typed'
  <2>1. UNCHANGED <<saved, filed, round, legacy>>
    BY <1>3 DEF PcrExtended, Operator, Enroll, Provision
  <2>2. QED
    BY <2>1
<1>4. ASSUME NEW r \in Round, NEW g \in Release, NEW m \in BOOLEAN, Start(r, g, m), Forget(r),
             script_nonce' = [script_nonce EXCEPT ![r] = None]
      PROVE  Typed'
  BY <1>4 DEF Start, Forget, Ok
<1>5. ASSUME NEW r \in Round, Quote(r), UNCHANGED legacy PROVE Typed'
  <2>1. PICK b \in QuoteBlobs(r) : quote' = [quote EXCEPT ![r] = b]
    BY <1>5 DEF Quote
  <2>2. Ok(b) => Quoted(b) /\ b.resets \in Nat /\ Genuine(b.from)
    BY WholeQuote, <2>1 DEF Ok, Quoted, Origin, Counts
  <2>3. QED
    BY <1>5, <2>1, <2>2 DEF Quote
<1>6. ASSUME NEW r \in Round, Certify(r), UNCHANGED legacy PROVE Typed'
  <2>1. PICK b \in CertBlobs(r) : cert' = [cert EXCEPT ![r] = b]
    BY <1>6 DEF Certify
  <2>2. Ok(b) => Certified(b)
    BY WholeCert, <2>1 DEF Ok, Certified
  <2>3. QED
    BY <1>6, <2>1, <2>2 DEF Certify
<1>7. ASSUME NEW r \in Round, NoReply(r) \/ Crash(r), UNCHANGED legacy PROVE Typed'
  BY <1>7 DEF NoReply, Crash
<1>8. ASSUME NEW r \in Round, End(r), UNCHANGED legacy PROVE Typed'
  <2>1. saved' \in Nat \cup {None} /\ Genuine(filed')
    BY <1>8 DEF End, Remember, QuoteOk, Parsed, Ok, Nowhere
  <2>2. QED
    BY <1>8, <2>1 DEF End
<1>9. ASSUME NEW r \in Round, KilledWriting(r), UNCHANGED legacy PROVE Typed'
  BY <1>9 DEF KilledWriting, Nowhere
<1>10. ASSUME NEW r \in Round, CopyNonce(r) PROVE Typed'
  BY <1>10 DEF CopyNonce, Goes, Kept
<1>11. ASSUME NEW r \in Round, ScriptQuotes(r) PROVE Typed'
  BY <1>11 DEF ScriptQuotes, Goes, Kept
<1>12. ASSUME NEW r \in Round, ScriptCertifies(r) PROVE Typed'
  BY <1>12 DEF ScriptCertifies, Goes, Kept
<1>13. ASSUME NEW r \in Round, FetchQuote(r) PROVE Typed'
  BY <1>13 DEF FetchQuote, Goes, Kept, FilesAreCurrent, Origin, Counts
<1>14. ASSUME NEW r \in Round, FetchQuoteSig(r) PROVE Typed'
  BY <1>14, QuoteSignature DEF FetchQuoteSig, Goes, Kept
<1>15. ASSUME NEW r \in Round, FetchCert(r) PROVE Typed'
  BY <1>15 DEF FetchCert, Goes, Kept, FilesAreCurrent
<1>16. ASSUME NEW r \in Round, FetchCertSig(r) PROVE Typed'
  BY <1>16, CertSignature DEF FetchCertSig, Goes, Kept
<1>17. ASSUME NEW r \in Round, CommandFails(r) PROVE Typed'
  BY <1>17 DEF CommandFails, Kept
<1>18. ASSUME ForeignNonce \/ ForeignScriptQuotes \/ ForeignScriptCertifies PROVE Typed'
  BY <1>18 DEF ForeignNonce, ForeignScriptQuotes, ForeignScriptCertifies
<1>19. CASE UNCHANGED lvars
  BY <1>19
<1>20. QED
  BY <1>1, <1>2, <1>3, <1>4, <1>5, <1>6, <1>7, <1>8, <1>9, <1>10, <1>11, <1>12, <1>13,
     <1>14, <1>15, <1>16, <1>17, <1>18, <1>19 DEF LNext, LStep, Restarts, Proceed

\* Files left alone stay current while the board is left alone.
LEMMA FilesLeft ==
  ASSUME FilesAreCurrent, UNCHANGED <<up, resets, ak, closed, boots, file>>
  PROVE  FilesAreCurrent'
BY DEF FilesAreCurrent, Origin

\* What lies in the files is of this boot: a restart empties them.
LEMMA FilesStep ==
  ASSUME Typed, FilesAreCurrent, [LNext]_lvars
  PROVE  FilesAreCurrent'
<1> DEFINE F == file = [nonce |-> file.nonce, quote |-> file.quote, cert |-> file.cert]
<1>f. F
  BY DEF Typed
<1>1. ASSUME Restarts, file' = NoFiles PROVE FilesAreCurrent'
  BY <1>1 DEF FilesAreCurrent, NoFiles
<1>2. ASSUME Operator \/ PcrExtended, UNCHANGED legacy PROVE FilesAreCurrent'
  <2>1. CASE PcrExtended \/ Enroll
    BY <1>2, <2>1, FilesLeft DEF PcrExtended, Enroll, board, legacy
  <2>2. ASSUME NEW replied, Provision(replied) PROVE FilesAreCurrent'
    BY <1>2, <2>2 DEF Provision, legacy, FilesAreCurrent
  <2>3. QED
    BY <1>2, <2>1, <2>2 DEF Operator
<1>3. ASSUME NEW r \in Round, NEW g \in Release, NEW m \in BOOLEAN, Start(r, g, m), Forget(r)
      PROVE  FilesAreCurrent'
  BY <1>3, <1>f DEF Start, Forget, Stale, FilesAreCurrent, board, Origin, Ok, Quoted, Certified
<1>4. ASSUME NEW r \in Round, Proceed(r), UNCHANGED legacy PROVE FilesAreCurrent'
  BY <1>4, FilesLeft DEF Proceed, Quote, Certify, NoReply, Crash, End, KilledWriting, board, legacy
<1>5. ASSUME NEW r \in Round,
             FetchQuote(r) \/ FetchQuoteSig(r) \/ FetchCert(r) \/ FetchCertSig(r) \/ CommandFails(r)
      PROVE  FilesAreCurrent'
  BY <1>5, FilesLeft
     DEF FetchQuote, FetchQuoteSig, FetchCert, FetchCertSig, CommandFails, Kept, board, legacy
<1>6. ASSUME NEW n, NEW b \in Whole(QuoteBlobs(n)), file' = [file EXCEPT !.quote = b], CanQuote,
             UNCHANGED board
      PROVE  FilesAreCurrent'
  BY <1>6, <1>f, WholeQuote
     DEF Whole, CanQuote, FilesAreCurrent, board, Origin, Ok, Quoted
<1>7. ASSUME NEW n, NEW b \in Whole(CertBlobs(n)), file' = [file EXCEPT !.cert = b], CanCertify,
             UNCHANGED board
      PROVE  FilesAreCurrent'
  BY <1>7, <1>f, WholeCert
     DEF Whole, CanCertify, FilesAreCurrent, board, Origin, Ok, Certified
<1>8. ASSUME NEW n, file' = [file EXCEPT !.nonce = n], UNCHANGED board PROVE FilesAreCurrent'
  BY <1>8, <1>f DEF FilesAreCurrent, board, Origin
<1>9. ASSUME NEW r \in Round, CopyNonce(r) \/ ScriptQuotes(r) \/ ScriptCertifies(r)
      PROVE  FilesAreCurrent'
  BY <1>6, <1>7, <1>8, <1>9 DEF CopyNonce, ScriptQuotes, ScriptCertifies, Kept
<1>10. ASSUME ForeignNonce \/ ForeignScriptQuotes \/ ForeignScriptCertifies
       PROVE  FilesAreCurrent'
  BY <1>6, <1>7, <1>8, <1>10
     DEF ForeignNonce, ForeignScriptQuotes, ForeignScriptCertifies, vvars
<1>11. CASE UNCHANGED lvars
  BY <1>11, FilesLeft DEF lvars, vvars, board, legacy
<1>12. QED
  BY <1>1, <1>2, <1>3, <1>4, <1>5, <1>9, <1>10, <1>11 DEF LNext, LStep

\* Nothing but copying it there brings a round's nonce to the board.
LEMMA NonceStep ==
  ASSUME Typed, FilesAreCurrent, [LNext]_lvars, NEW x \in Round, OnBoard(x)'
  PROVE  OnBoard(x) \/ (pc[x] = "asked" /\ pc'[x] = "sent")
<1> DEFINE Goal == OnBoard(x) \/ (pc[x] = "asked" /\ pc'[x] = "sent")
<1>f. /\ file = [nonce |-> file.nonce, quote |-> file.quote, cert |-> file.cert]
      /\ pc \in [Round -> Step] /\ DOMAIN script_nonce = Round
  BY DEF Typed
<1>1. ASSUME Restarts, file' = NoFiles PROVE FALSE
  <2>1. DropConnections
    BY <1>1 DEF Restarts, Boot, TpmClear
  <2>2. QED
    BY <1>1, <2>1, Distinct DEF DropConnections, OnBoard, NoFiles
<1>2. ASSUME Operator \/ PcrExtended, UNCHANGED legacy PROVE Goal
  <2>1. UNCHANGED <<pc, file, script_nonce>>
    BY <1>2 DEF PcrExtended, Operator, Enroll, Provision, round, legacy
  <2>2. QED
    BY <2>1 DEF OnBoard
<1>3. ASSUME NEW r \in Round, NEW g \in Release, NEW m \in BOOLEAN, Start(r, g, m), Forget(r),
             script_nonce' = [script_nonce EXCEPT ![r] = None]
      PROVE  Goal
  <2>1. ASSUME NEW b, b # None => Quoted(b) \/ Certified(b), Stale(b, r) # None,
               Stale(b, r).nonce = x
        PROVE  b # None /\ b.nonce = x
    BY <2>1, Distinct DEF Stale, Quoted, Certified
  <2>2. /\ file'.nonce = IF file.nonce = r THEN Foreign ELSE file.nonce
        /\ file'.quote = Stale(file.quote, r) /\ file'.cert = Stale(file.cert, r)
    BY <1>3 DEF Forget
  <2>3. /\ file.quote # None => Quoted(file.quote)
        /\ file.cert # None => Certified(file.cert)
    BY DEF FilesAreCurrent
  <2>4. CASE file'.quote # None /\ file'.quote.nonce = x
    BY <2>1, <2>2, <2>3, <2>4 DEF OnBoard
  <2>5. CASE file'.cert # None /\ file'.cert.nonce = x
    BY <2>1, <2>2, <2>3, <2>5 DEF OnBoard
  <2>6. CASE file'.nonce = x
    BY <2>2, <2>6, Distinct DEF OnBoard
  <2>7. ASSUME NEW v \in Round, pc'[v] = "scripted", script_nonce'[v] = x PROVE Goal
    BY <1>3, <1>f, <2>7 DEF Start, OnBoard
  <2>8. QED
    BY <2>4, <2>5, <2>6, <2>7 DEF OnBoard
<1>4. ASSUME NEW r \in Round, Proceed(r) \/ FetchQuote(r) \/ FetchQuoteSig(r) \/ FetchCert(r)
                               \/ FetchCertSig(r) \/ CommandFails(r),
             UNCHANGED legacy
      PROVE  Goal
  <2>1. \A v \in Round : pc'[v] = "scripted" => pc[v] = "scripted"
    BY <1>4, <1>f
       DEF Proceed, Quote, Certify, NoReply, Crash, End, KilledWriting, FetchQuote, FetchQuoteSig,
           FetchCert, FetchCertSig, CommandFails, Goes
  <2>2. QED
    BY <1>4, <2>1 DEF legacy, OnBoard
<1>5. ASSUME NEW r \in Round, CopyNonce(r) PROVE Goal
  BY <1>5, <1>f DEF CopyNonce, Goes, OnBoard
<1>6. ASSUME NEW r \in Round, ScriptQuotes(r) PROVE Goal
  <2>1. PICK b \in Whole(QuoteBlobs(file.nonce)) : file' = [file EXCEPT !.quote = b]
    BY <1>6 DEF ScriptQuotes
  <2>2. b.nonce = file.nonce
    BY WholeQuote, <2>1 DEF Whole
  <2>3. QED
    BY <1>6, <1>f, <2>1, <2>2 DEF ScriptQuotes, Goes, OnBoard
<1>7. ASSUME NEW r \in Round, ScriptCertifies(r) PROVE Goal
  <2>1. PICK b \in Whole(CertBlobs(script_nonce[r])) : file' = [file EXCEPT !.cert = b]
    BY <1>7 DEF ScriptCertifies
  <2>2. b.nonce = script_nonce[r]
    BY WholeCert, <2>1 DEF Whole
  <2>3. QED
    BY <1>7, <1>f, <2>1, <2>2 DEF ScriptCertifies, Goes, OnBoard
<1>8. CASE ForeignNonce
  BY <1>8, <1>f, Distinct DEF ForeignNonce, OnBoard, vvars, round
<1>9. CASE ForeignScriptQuotes
  <2>1. PICK b \in Whole(QuoteBlobs(file.nonce)) : file' = [file EXCEPT !.quote = b]
    BY <1>9 DEF ForeignScriptQuotes
  <2>2. b.nonce = file.nonce
    BY WholeQuote, <2>1 DEF Whole
  <2>3. QED
    BY <1>9, <1>f, <2>1, <2>2 DEF ForeignScriptQuotes, OnBoard, vvars, round
<1>10. CASE ForeignScriptCertifies
  <2>1. PICK n \in {Foreign, file.nonce} :
          \E b \in Whole(CertBlobs(n)) : file' = [file EXCEPT !.cert = b]
    BY <1>10 DEF ForeignScriptCertifies
  <2>2. PICK b \in Whole(CertBlobs(n)) : file' = [file EXCEPT !.cert = b]
    BY <2>1
  <2>3. b.nonce = n
    BY WholeCert, <2>2 DEF Whole
  <2>4. QED
    BY <1>10, <1>f, <2>1, <2>2, <2>3, Distinct DEF ForeignScriptCertifies, OnBoard, vvars, round
<1>11. CASE UNCHANGED lvars
  BY <1>11 DEF lvars, vvars, round, legacy, OnBoard
<1>12. QED
  BY <1>1, <1>2, <1>3, <1>4, <1>5, <1>6, <1>7, <1>8, <1>9, <1>10, <1>11
     DEF LNext, LStep, FetchQuote, FetchQuoteSig, FetchCert, FetchCertSig, CommandFails

\* A round that a step leaves alone keeps its answer.
LEMMA AnswerLeft ==
  ASSUME NEW x \in Round, Answer(x), OnBoard(x)' => OnBoard(x) \/ quote[x] = None,
         pc'[x] = pc[x], quote'[x] = quote[x], cert'[x] = cert[x], gold'[x] = gold[x],
         UNCHANGED <<ak, closed, boots>>
  PROVE  Answer(x)'
BY DEF Answer, Ok, Origin

\* Every step keeps every round's answer.
LEMMA AnswerStep ==
  ASSUME Typed, FilesAreCurrent, [LNext]_lvars, NEW x \in Round, Answer(x)
  PROVE  Answer(x)'
<1>t. /\ pc \in [Round -> Step] /\ DOMAIN gold = Round
      /\ DOMAIN quote = Round /\ DOMAIN cert = Round
  BY DEF Typed
<1>n. OnBoard(x)' => OnBoard(x) \/ (pc[x] = "asked" /\ pc'[x] = "sent")
  BY NonceStep
<1>l. OnBoard(x)' => OnBoard(x) \/ quote[x] = None
  BY <1>n DEF Answer
<1>1. ASSUME Restarts, file' = NoFiles PROVE Answer(x)'
  <2>1. DropConnections /\ UNCHANGED <<quote, cert, gold>>
    BY <1>1 DEF Restarts, Boot, TpmClear
  <2>2. ~OnBoard(x)'
    BY <1>1, <2>1, Distinct DEF DropConnections, OnBoard, NoFiles
  <2>3. /\ pc'[x] \in {pc[x], "gone"} /\ pc'[x] \notin {"quoted", "scripted"}
    BY <2>1 DEF DropConnections
  <2>4. QED
    BY <2>1, <2>2, <2>3 DEF Answer, Ok
<1>2. ASSUME NEW replied, Provision(replied), UNCHANGED legacy PROVE Answer(x)'
  <2>1. ~closed /\ closed' /\ UNCHANGED <<pc, quote, cert, gold, file, script_nonce>>
    BY <1>2 DEF Provision, round, legacy
  <2>2. OnBoard(x)' <=> OnBoard(x)
    BY <2>1 DEF OnBoard
  <2>3. QED
    BY <2>1, <2>2 DEF Answer, Ok
<1>3. CASE Enroll \/ PcrExtended
  <2>1. UNCHANGED <<pc, quote, cert, gold, ak, closed, boots>>
    BY <1>3 DEF Enroll, PcrExtended, board, round
  <2>2. QED
    BY <2>1, <1>l, AnswerLeft
<1>4. ASSUME NEW r \in Round, NEW g \in Release, NEW m \in BOOLEAN, Start(r, g, m)
      PROVE  Answer(x)'
  <2>1. CASE x = r
    BY <1>4, <1>t, <2>1 DEF Start, Answer, Ok
  <2>2. CASE x # r
    BY <1>4, <1>t, <1>l, <2>2, AnswerLeft DEF Start, board
  <2>3. QED
    BY <2>1, <2>2
<1>5. ASSUME NEW r \in Round, Quote(r) PROVE Answer(x)'
  <2>1. CASE x = r
    <3>1. PICK b \in QuoteBlobs(r) : quote' = [quote EXCEPT ![r] = b]
      BY <1>5 DEF Quote
    <3>2. Ok(b) => b.from = Origin
      BY WholeQuote, <3>1 DEF Ok
    <3>3. /\ pc[x] = "asked" /\ pc'[x] = "quoted" /\ quote'[x] = b /\ cert'[x] = None
          /\ closed' /\ UNCHANGED <<ak, closed, boots>>
      BY <1>5, <1>t, <2>1, <3>1 DEF Quote, CanQuote, board, Answer
    <3>4. QED
      BY <3>2, <3>3 DEF Answer, Ok, Origin
  <2>2. CASE x # r
    BY <1>5, <1>t, <1>l, <2>2, AnswerLeft DEF Quote, board
  <2>3. QED
    BY <2>1, <2>2
<1>6. ASSUME NEW r \in Round, Certify(r) PROVE Answer(x)'
  <2>1. CASE x = r
    <3>1. PICK b \in CertBlobs(r) : cert' = [cert EXCEPT ![r] = b]
      BY <1>6 DEF Certify
    <3>2. Ok(b) => b.from = Origin
      BY WholeCert, <3>1 DEF Ok
    <3>3. /\ pc[x] = "quoted" /\ pc'[x] = "answered" /\ quote'[x] = quote[x] /\ cert'[x] = b
          /\ UNCHANGED <<ak, closed, boots>>
      BY <1>6, <1>t, <2>1, <3>1 DEF Certify, board
    <3>4. QED
      BY <3>2, <3>3, <1>l DEF Answer, Ok, Origin
  <2>2. CASE x # r
    BY <1>6, <1>t, <1>l, <2>2, AnswerLeft DEF Certify, board
  <2>3. QED
    BY <2>1, <2>2
<1>7. ASSUME NEW r \in Round, NoReply(r) \/ Crash(r) \/ KilledWriting(r) \/ CommandFails(r)
      PROVE  Answer(x)'
  <2>1. /\ pc'[x] = pc[x] \/ pc'[x] \in {"gone", "crashed"}
        /\ UNCHANGED <<quote, cert, gold, ak, closed, boots>>
    BY <1>7, <1>t DEF NoReply, Crash, KilledWriting, CommandFails, Kept, board
  <2>2. QED
    BY <2>1, <1>l DEF Answer, Ok, Origin
<1>8. ASSUME NEW r \in Round, End(r) PROVE Answer(x)'
  <2>1. CASE x = r
    <3>1. /\ pc'[x] = IF Verdict(x) THEN "passed" ELSE "failed"
          /\ UNCHANGED <<quote, cert, gold, ak, closed, boots>>
      BY <1>8, <1>t, <2>1 DEF End, board
    <3>2. Verdict(x) =>
            /\ Ok(quote[x]) /\ quote[x].nonce = x /\ Ok(cert[x]) /\ cert[x].nonce = x
            /\ quote[x].pcr \in GoldenStates(gold[x]) /\ cert[x].pcr = quote[x].pcr
            /\ quote[x].key = cert[x].key
      BY DEF Verdict, SignedByEnrolled, AnswersNonce, GoodState, BootRecord, QuoteOk, CertOk,
             Parsed, Ok
    <3>3. Verdict(x) => quote[x].pcr.img = gold[x]
      BY <3>2 DEF GoldenStates
    <3>4. QED
      BY <3>1, <3>2, <3>3, <1>l DEF Answer, Ok, Origin
  <2>2. CASE x # r
    BY <1>8, <1>t, <1>l, <2>2, AnswerLeft DEF End, board
  <2>3. QED
    BY <2>1, <2>2
<1>9. ASSUME NEW r \in Round, CopyNonce(r) \/ ScriptQuotes(r) \/ ScriptCertifies(r)
      PROVE  Answer(x)'
  <2>1. CASE x = r
    <3>1. /\ pc[x] \in {"asked", "sent", "scripted"} /\ pc'[x] \in {"sent", "scripted", "ran"}
          /\ pc'[x] = "scripted" => closed
          /\ UNCHANGED <<quote, cert, closed>>
      BY <1>9, <1>t, <2>1
         DEF CopyNonce, ScriptQuotes, ScriptCertifies, Goes, Kept, board, CanQuote
    <3>2. quote'[x] = None /\ cert'[x] = None
      BY <3>1 DEF Answer
    <3>3. QED
      BY <3>1, <3>2 DEF Answer, Ok
  <2>2. CASE x # r
    BY <1>9, <1>t, <1>l, <2>2, AnswerLeft
       DEF CopyNonce, ScriptQuotes, ScriptCertifies, Goes, Kept, board
  <2>3. QED
    BY <2>1, <2>2
<1>10. ASSUME NEW r \in Round, FetchQuote(r) PROVE Answer(x)'
  <2>1. CASE x = r
    BY <1>10, <1>t, <2>1 DEF FetchQuote, Goes, Kept, board, FilesAreCurrent, Answer, Ok, Origin
  <2>2. CASE x # r
    BY <1>10, <1>t, <1>l, <2>2, AnswerLeft DEF FetchQuote, Goes, Kept, board
  <2>3. QED
    BY <2>1, <2>2
<1>11. ASSUME NEW r \in Round, FetchQuoteSig(r) PROVE Answer(x)'
  <2>1. CASE x = r
    <3>1. Ok(quote[x]) /\ Quoted(quote[x])
      BY <1>11, <2>1 DEF FetchQuoteSig, Goes, Typed
    <3>2. /\ pc[x] = "got_quote" /\ pc'[x] = "got_quote_sig"
          /\ quote'[x] = WithSignature(quote[x], file.quote)
          /\ UNCHANGED <<cert, ak, closed, boots>>
      BY <1>11, <1>t, <2>1 DEF FetchQuoteSig, Goes, Kept, board
    <3>3. quote'[x].nonce = quote[x].nonce /\ quote'[x].from = quote[x].from
      BY <3>1, <3>2, QuoteSignature
    <3>4. QED
      BY <3>1, <3>2, <3>3, <1>n DEF Answer, Ok, Origin
  <2>2. CASE x # r
    BY <1>11, <1>t, <1>l, <2>2, AnswerLeft DEF FetchQuoteSig, Goes, Kept, board
  <2>3. QED
    BY <2>1, <2>2
<1>12. ASSUME NEW r \in Round, FetchCert(r) PROVE Answer(x)'
  <2>1. CASE x = r
    <3>1. /\ pc[x] = "got_quote_sig" /\ pc'[x] = "got_cert" /\ cert'[x] = file.cert
          /\ UNCHANGED <<quote, ak, closed, boots>>
      BY <1>12, <1>t, <2>1 DEF FetchCert, Goes, Kept, board
    <3>2. file.cert # None /\ file.cert.from = Origin
      BY <1>12 DEF FetchCert, FilesAreCurrent
    <3>3. cert'[x].nonce = x => OnBoard(x)
      BY <3>1, <3>2 DEF OnBoard
    <3>4. QED
      BY <3>1, <3>2, <3>3, <1>n DEF Answer, Ok, Origin
  <2>2. CASE x # r
    BY <1>12, <1>t, <1>l, <2>2, AnswerLeft DEF FetchCert, Goes, Kept, board
  <2>3. QED
    BY <2>1, <2>2
<1>13. ASSUME NEW r \in Round, FetchCertSig(r) PROVE Answer(x)'
  <2>1. CASE x = r
    <3>1. Ok(cert[x]) /\ Certified(cert[x])
      BY <1>13, <2>1 DEF FetchCertSig, Goes, Typed
    <3>2. /\ pc[x] = "got_cert" /\ pc'[x] = "answered"
          /\ cert'[x] = WithSignature(cert[x], file.cert)
          /\ UNCHANGED <<quote, ak, closed, boots>>
      BY <1>13, <1>t, <2>1 DEF FetchCertSig, Goes, Kept, board
    <3>3. cert'[x].nonce = cert[x].nonce /\ cert'[x].from = cert[x].from
      BY <3>1, <3>2, CertSignature
    <3>4. QED
      BY <3>1, <3>2, <3>3, <1>n DEF Answer, Ok, Origin
  <2>2. CASE x # r
    BY <1>13, <1>t, <1>l, <2>2, AnswerLeft DEF FetchCertSig, Goes, Kept, board
  <2>3. QED
    BY <2>1, <2>2
<1>14. CASE ForeignNonce \/ ForeignScriptQuotes \/ ForeignScriptCertifies \/ UNCHANGED lvars
  <2>1. UNCHANGED <<pc, quote, cert, gold, ak, closed, boots>>
    BY <1>14 DEF ForeignNonce, ForeignScriptQuotes, ForeignScriptCertifies, lvars, vvars, board,
                 round
  <2>2. QED
    BY <2>1, <1>l, AnswerLeft
<1>15. QED
  BY <1>1, <1>2, <1>3, <1>4, <1>5, <1>6, <1>7, <1>8, <1>9, <1>10, <1>11, <1>12, <1>13, <1>14
     DEF LNext, LStep, Proceed, Operator

\* The invariant of the rounds holds initially.
LEMMA RoundInit == LInit => RoundInv
BY DEF LInit, VInit, RoundInv, FilesAreCurrent, NoFiles, Answer, Ok

\* Every step keeps all of it.
LEMMA RoundStep ==
  Counts /\ Typed /\ RoundInv /\ [LNext]_lvars => Counts' /\ Typed' /\ RoundInv'
<1> SUFFICES ASSUME Counts, Typed, RoundInv, [LNext]_lvars PROVE Counts' /\ Typed' /\ RoundInv'
  OBVIOUS
<1>1. Counts' /\ Typed'
  BY CountStep, TypeStep DEF RoundInv
<1>2. FilesAreCurrent'
  BY FilesStep DEF RoundInv
<1>3. \A x \in Round : Answer(x)'
  BY AnswerStep DEF RoundInv
<1>4. QED
  BY <1>1, <1>2, <1>3 DEF RoundInv

\* The halves of a passed round's answer are from one boot, however many verifiers share
\* the files on the board and whatever restarts come between their commands.
THEOREM PassIsOfOneBoot == LSpec => []EvidenceOfOneBoot
<1>1. RoundInv => EvidenceOfOneBoot
  BY DEF RoundInv, Answer, EvidenceOfOneBoot
<1>2. QED
  BY <1>1, TypeInit, RoundInit, RoundStep, PTL DEF LSpec

-----------------------------------------------------------------------------
(* Freshness. A resetCount on file, or in an answer, is related to the     *)
(* board's: it is this one in this boot, and below it after an earlier     *)
(* boot with the same keys.                                                *)

InStepWith(n, o, u, c, reset, key, boot) ==
  /\ n \in Nat
  /\ o.boot <= boot /\ o.ak <= key
  /\ u /\ o.boot = boot => n = reset
  /\ c /\ o.ak = key => n <= reset /\ (o.boot < boot => n < reset)
InStep(n, o) == InStepWith(n, o, up, closed, resets, ak, boots)

\* The answer is no older than what the round compares it with.
Later(n, o, p, w) ==
  /\ w.boot <= o.boot
  /\ w.boot = o.boot => p = n
  /\ w.boot < o.boot /\ w.ak = o.ak => p < n

Fresh(r) ==
  /\ prev[r] # None => InStep(prev[r], since[r])
  /\ Ok(quote[r]) => InStep(quote[r].resets, quote[r].from)
  /\ Ok(quote[r]) /\ prev[r] # None
     => Later(quote[r].resets, quote[r].from, prev[r], since[r])
  /\ pc[r] \notin Ended => told[r] = "unknown"
  /\ told[r] \in {"fresh", "stale"} => Ok(quote[r]) /\ prev[r] # None
  /\ told[r] = "fresh" => quote[r].resets > prev[r]
  /\ told[r] = "stale" => ~(quote[r].resets > prev[r])

FreshInv ==
  /\ saved # None => InStep(saved, filed)
  /\ \A r \in Round : Fresh(r)

\* It holds initially.
LEMMA FreshInit == LInit => FreshInv
BY DEF LInit, VInit, FreshInv, Fresh, Ok

\* Whatever a step does to the board, what was in step with it still is.
LEMMA InStepKept ==
  ASSUME Counts, [LNext]_lvars, NEW n, NEW o, Genuine(o), InStep(n, o)
  PROVE  InStepWith(n, o, up', closed', resets', ak', boots')
<1> USE DEF Counts, Genuine, InStep, InStepWith
<1>1. ASSUME NEW s, NEW i, Boot(s, i)
      PROVE  InStepWith(n, o, up', closed', resets', ak', boots')
  BY <1>1 DEF Boot
<1>2. CASE TpmClear
  BY <1>2 DEF TpmClear
<1>3. ASSUME NEW replied, Provision(replied)
      PROVE  InStepWith(n, o, up', closed', resets', ak', boots')
  BY <1>3 DEF Provision
<1>4. CASE UNCHANGED <<up, resets, ak, closed, boots>>
  BY <1>4
<1> HIDE DEF Counts, Genuine, InStep, InStepWith
<1>5. QED
  BY <1>1, <1>2, <1>3, <1>4, BoardSteps DEF BoardStep

\* What is made now is in step with the board.
LEMMA NowInStep ==
  ASSUME Counts, up, closed
  PROVE  InStep(resets, Origin)
BY DEF Counts, InStep, InStepWith, Origin

\* And no older than anything that is in step with it.
LEMMA NowIsLater ==
  ASSUME Counts, up, closed, NEW p, NEW w, InStep(p, w)
  PROVE  Later(resets, Origin, p, w)
BY DEF Counts, InStep, InStepWith, Origin, Later

\* A round that a step leaves alone stays as it is.
LEMMA FreshLeft ==
  ASSUME Counts, Typed, [LNext]_lvars, NEW x \in Round, Fresh(x),
         quote'[x] = quote[x], prev'[x] = prev[x], since'[x] = since[x], told'[x] = told[x],
         pc'[x] \notin Ended => pc[x] \notin Ended
  PROVE  Fresh(x)'
<1>1. /\ Genuine(since[x])
      /\ Ok(quote[x]) => Genuine(quote[x].from)
  BY DEF Typed
<1>2. prev[x] # None => InStepWith(prev[x], since[x], up', closed', resets', ak', boots')
  BY <1>1, InStepKept DEF Fresh
<1>3. Ok(quote[x])
      => InStepWith(quote[x].resets, quote[x].from, up', closed', resets', ak', boots')
  BY <1>1, InStepKept DEF Fresh
<1>4. QED
  BY <1>2, <1>3 DEF Fresh, InStep, Ok

\* Every step keeps every round's freshness.
LEMMA FreshStep ==
  ASSUME Counts, Typed, FilesAreCurrent, [LNext]_lvars, FreshInv, NEW x \in Round
  PROVE  Fresh(x)'
<1>x. Fresh(x)
  BY DEF FreshInv
<1>t. /\ pc \in [Round -> Step] /\ DOMAIN quote = Round /\ DOMAIN told = Round
      /\ DOMAIN since = Round /\ prev \in [Round -> Nat \cup {None}]
  BY DEF Typed
<1>k. ASSUME NEW n, NEW o, Genuine(o), InStep(n, o)
      PROVE  InStepWith(n, o, up', closed', resets', ak', boots')
  BY <1>k, InStepKept
<1>1. CASE Restarts \/ Operator \/ PcrExtended
  <2>1. UNCHANGED <<quote, prev, since, told>> /\ pc'[x] \in {pc[x], "gone"}
    BY <1>1, <1>t DEF Restarts, Boot, TpmClear, DropConnections, Operator, Enroll, Provision,
                      PcrExtended, round
  <2>2. QED
    BY <2>1, <1>x, FreshLeft DEF Ended
<1>2. ASSUME NEW r \in Round, NEW g \in Release, NEW m \in BOOLEAN, Start(r, g, m)
      PROVE  Fresh(x)'
  <2>1. CASE x = r
    <3>1. /\ pc'[x] = "asked" /\ prev'[x] = saved /\ since'[x] = filed /\ quote'[x] = None
          /\ told'[x] = "unknown"
      BY <1>2, <1>t, <2>1 DEF Start
    <3>2. saved # None => InStepWith(saved, filed, up', closed', resets', ak', boots')
      BY <1>k DEF FreshInv, Typed
    <3>3. QED
      BY <3>1, <3>2 DEF Fresh, InStep, Ok, Ended
  <2>2. CASE x # r
    BY <1>2, <1>t, <1>x, <2>2, FreshLeft DEF Start
  <2>3. QED
    BY <2>1, <2>2
<1>3. ASSUME NEW r \in Round, NEW b, pc[r] \in {"asked", "ran"}, up, closed, UNCHANGED board,
             quote'[r] = b, Ok(b) => b.from = Origin /\ b.resets = resets,
             \A v \in Round \ {r} : quote'[v] = quote[v] /\ pc'[v] = pc[v],
             UNCHANGED <<prev, since, told>>
      PROVE  Fresh(x)'
  <2>1. CASE x = r
    <3>1. quote'[x] = b /\ told'[x] = "unknown"
      BY <1>3, <1>t, <1>x, <2>1 DEF Fresh, Ended
    <3>2. Ok(b) => InStepWith(b.resets, b.from, up', closed', resets', ak', boots')
      BY <1>3, NowInStep DEF InStep, board
    <3>3. Ok(b) /\ prev[x] # None => Later(b.resets, b.from, prev[x], since[x])
      BY <1>3, <1>x, NowIsLater DEF Fresh
    <3>4. prev[x] # None => InStepWith(prev[x], since[x], up', closed', resets', ak', boots')
      BY <1>x, <1>k DEF Fresh, Typed
    <3>5. QED
      BY <1>3, <3>1, <3>2, <3>3, <3>4 DEF Fresh, InStep, Ok
  <2>2. CASE x # r
    BY <1>3, <1>t, <1>x, <2>2, FreshLeft
  <2>3. QED
    BY <2>1, <2>2
<1>4. ASSUME NEW r \in Round, Quote(r) PROVE Fresh(x)'
  <2>1. PICK b \in QuoteBlobs(r) : quote' = [quote EXCEPT ![r] = b]
    BY <1>4 DEF Quote
  <2>2. Ok(b) => b.from = Origin /\ b.resets = resets
    BY WholeQuote, <2>1 DEF Ok
  <2>3. /\ pc[r] = "asked" /\ pc' = [pc EXCEPT ![r] = "quoted"] /\ up /\ closed
        /\ UNCHANGED <<board, prev, since, told>>
    BY <1>4 DEF Quote, CanQuote
  <2>4. quote'[r] = b /\ \A v \in Round \ {r} : quote'[v] = quote[v] /\ pc'[v] = pc[v]
    BY <2>1, <2>3, <1>t
  <2>5. QED
    BY <1>3, <2>2, <2>3, <2>4
<1>5. ASSUME NEW r \in Round, FetchQuote(r) PROVE Fresh(x)'
  <2>1. /\ pc[r] = "ran" /\ pc' = [pc EXCEPT ![r] = "got_quote"]
        /\ quote' = [quote EXCEPT ![r] = file.quote] /\ file.quote # None
        /\ UNCHANGED <<board, prev, since, told>>
    BY <1>5 DEF FetchQuote, Goes, Kept
  <2>2. up /\ closed /\ file.quote.from = Origin /\ file.quote.resets = resets
    BY <2>1 DEF FilesAreCurrent
  <2>3. /\ quote'[r] = file.quote
        /\ \A v \in Round \ {r} : quote'[v] = quote[v] /\ pc'[v] = pc[v]
    BY <2>1, <1>t
  <2>4. QED
    BY <1>3, <2>1, <2>2, <2>3
<1>6. ASSUME NEW r \in Round, FetchQuoteSig(r) PROVE Fresh(x)'
  <2>1. CASE x = r
    <3>1. Ok(quote[x]) /\ Quoted(quote[x]) /\ Genuine(quote[x].from)
      BY <1>6, <2>1 DEF FetchQuoteSig, Goes, Typed
    <3>2. /\ pc[x] = "got_quote" /\ quote'[x] = WithSignature(quote[x], file.quote)
          /\ UNCHANGED <<prev, since, told>>
      BY <1>6, <1>t, <2>1 DEF FetchQuoteSig, Goes, Kept
    <3>3. quote'[x].resets = quote[x].resets /\ quote'[x].from = quote[x].from
      BY <3>1, <3>2, QuoteSignature
    <3>4. InStepWith(quote[x].resets, quote[x].from, up', closed', resets', ak', boots')
      BY <1>x, <1>k, <3>1 DEF Fresh
    <3>5. prev[x] # None => InStepWith(prev[x], since[x], up', closed', resets', ak', boots')
      BY <1>x, <1>k DEF Fresh, Typed
    <3>6. told[x] = "unknown"
      BY <1>x, <3>2 DEF Fresh, Ended
    <3>7. QED
      BY <1>x, <3>1, <3>2, <3>3, <3>4, <3>5, <3>6 DEF Fresh, InStep
  <2>2. CASE x # r
    BY <1>6, <1>t, <1>x, <2>2, FreshLeft DEF FetchQuoteSig, Goes, Kept
  <2>3. QED
    BY <2>1, <2>2
<1>7. ASSUME NEW r \in Round, End(r) PROVE Fresh(x)'
  <2>1. CASE x = r
    <3>1. /\ told'[x] = Freshness(x) /\ pc'[x] \in Ended
          /\ UNCHANGED <<quote, prev, since>>
      BY <1>7, <1>t, <2>1 DEF End, Ended
    <3>2. Ok(quote[x])
          => InStepWith(quote[x].resets, quote[x].from, up', closed', resets', ak', boots')
      BY <1>x, <1>k DEF Fresh, Typed
    <3>3. prev[x] # None => InStepWith(prev[x], since[x], up', closed', resets', ak', boots')
      BY <1>x, <1>k DEF Fresh, Typed
    <3>4. /\ Freshness(x) \in {"fresh", "stale"} => Ok(quote[x]) /\ prev[x] # None
          /\ Freshness(x) = "fresh" => quote[x].resets > prev[x]
          /\ Freshness(x) = "stale" => ~(quote[x].resets > prev[x])
      BY DEF Freshness, Newer, QuoteOk, Parsed, Ok
    <3>5. QED
      BY <1>x, <3>1, <3>2, <3>3, <3>4 DEF Fresh, InStep, Ok
  <2>2. CASE x # r
    BY <1>7, <1>t, <1>x, <2>2, FreshLeft DEF End
  <2>3. QED
    BY <2>1, <2>2
<1>8. ASSUME NEW r \in Round,
             \/ Certify(r) \/ NoReply(r) \/ Crash(r) \/ KilledWriting(r) \/ CopyNonce(r)
             \/ ScriptQuotes(r) \/ ScriptCertifies(r) \/ FetchCert(r) \/ FetchCertSig(r)
             \/ CommandFails(r)
      PROVE  Fresh(x)'
  <2>1. /\ UNCHANGED <<quote, prev, since, told>>
        /\ pc[r] \notin Ended /\ \A v \in Round \ {r} : pc'[v] = pc[v]
    BY <1>8, <1>t DEF Certify, NoReply, Crash, KilledWriting, CopyNonce, ScriptQuotes,
              ScriptCertifies, FetchCert, FetchCertSig, CommandFails, Goes, Kept, Ended
  <2>2. QED
    BY <2>1, <1>x, FreshLeft
<1>9. CASE ForeignNonce \/ ForeignScriptQuotes \/ ForeignScriptCertifies \/ UNCHANGED lvars
  BY <1>9, <1>x, FreshLeft
     DEF ForeignNonce, ForeignScriptQuotes, ForeignScriptCertifies, lvars, vvars, round
<1>10. QED
  BY <1>1, <1>2, <1>4, <1>5, <1>6, <1>7, <1>8, <1>9 DEF LNext, LStep, Proceed

\* And what is on file stays in step with the board.
LEMMA FiledStep ==
  ASSUME Counts, Typed, [LNext]_lvars, FreshInv, saved' # None
  PROVE  InStep(saved, filed)'
<1>1. InStepWith(saved', filed', up', closed', resets', ak', boots')
  <2>1. CASE UNCHANGED <<saved, filed>>
    BY <2>1, InStepKept DEF FreshInv, Typed
  <2>2. ASSUME NEW r \in Round, Ok(quote[r]), saved' = quote[r].resets, filed' = quote[r].from
        PROVE  InStepWith(saved', filed', up', closed', resets', ak', boots')
    BY <2>2, InStepKept DEF FreshInv, Fresh, Typed
  <2>3. ASSUME NEW r \in Round, End(r) \/ KilledWriting(r)
        PROVE  \/ UNCHANGED <<saved, filed>>
               \/ Ok(quote[r]) /\ saved' = quote[r].resets /\ filed' = quote[r].from
    BY <2>3 DEF End, KilledWriting, Remember, QuoteOk, Parsed, Ok
  <2>4. CASE Restarts \/ Operator \/ PcrExtended
    BY <2>1, <2>4 DEF Restarts, Boot, TpmClear, Operator, Enroll, Provision, PcrExtended, service
  <2>5. ASSUME NEW r \in Round, NEW g \in Release, NEW m \in BOOLEAN, Start(r, g, m)
        PROVE  UNCHANGED <<saved, filed>>
    BY <2>5 DEF Start, service
  <2>6. ASSUME NEW r \in Round,
               \/ Quote(r) \/ Certify(r) \/ NoReply(r) \/ Crash(r) \/ CopyNonce(r)
               \/ ScriptQuotes(r) \/ ScriptCertifies(r) \/ FetchQuote(r) \/ FetchQuoteSig(r)
               \/ FetchCert(r) \/ FetchCertSig(r) \/ CommandFails(r)
        PROVE  UNCHANGED <<saved, filed>>
    BY <2>6 DEF Quote, Certify, NoReply, Crash, CopyNonce, ScriptQuotes, ScriptCertifies,
                FetchQuote, FetchQuoteSig, FetchCert, FetchCertSig, CommandFails, Kept, service
  <2>7. CASE ForeignNonce \/ ForeignScriptQuotes \/ ForeignScriptCertifies \/ UNCHANGED lvars
    BY <2>1, <2>7
       DEF ForeignNonce, ForeignScriptQuotes, ForeignScriptCertifies, lvars, vvars, service
  <2>8. QED
    BY <2>1, <2>2, <2>3, <2>4, <2>5, <2>6, <2>7 DEF LNext, LStep, Proceed
<1>2. QED
  BY <1>1 DEF InStep

\* All the invariants together are inductive.
LEMMA AllStep ==
  Counts /\ Typed /\ RoundInv /\ FreshInv /\ [LNext]_lvars
  => Counts' /\ Typed' /\ RoundInv' /\ FreshInv'
BY RoundStep, FreshStep, FiledStep DEF RoundInv, FreshInv

\* Evidence called fresh is from a later boot than the evidence on file when the round
\* began, whatever was lost, cleared, provisioned again or answered late in between.
THEOREM FreshIsLater == LSpec => []FreshMeansRestarted
<1>1. ASSUME Typed, FreshInv, NEW r \in Round, told[r] = "fresh"
      PROVE  quote[r].from.boot > since[r].boot
  <2>1. /\ Ok(quote[r]) /\ prev[r] # None /\ quote[r].resets > prev[r]
        /\ Later(quote[r].resets, quote[r].from, prev[r], since[r])
    BY <1>1 DEF FreshInv, Fresh
  <2>2. /\ prev[r] \in Nat /\ quote[r].resets \in Nat
        /\ quote[r].from.boot \in Nat /\ since[r].boot \in Nat
    BY <1>1, <2>1 DEF Typed, Genuine
  <2>3. QED
    BY <2>1, <2>2 DEF Later
<1>2. Typed /\ FreshInv => FreshMeansRestarted
  BY <1>1 DEF FreshMeansRestarted
<1>3. QED
  BY <1>2, TypeInit, RoundInit, FreshInit, AllStep, PTL DEF LSpec

\* Evidence called stale is from the boot on file, unless the TPM was cleared since.
THEOREM StaleIsNotLater == LSpec => []StaleMeansNotRestarted
<1>1. ASSUME Typed, FreshInv, NEW r \in Round, told[r] = "stale"
      PROVE  quote[r].from.boot <= since[r].boot \/ quote[r].from.ak # since[r].ak
  <2>1. /\ Ok(quote[r]) /\ prev[r] # None /\ ~(quote[r].resets > prev[r])
        /\ Later(quote[r].resets, quote[r].from, prev[r], since[r])
    BY <1>1 DEF FreshInv, Fresh
  <2>2. /\ prev[r] \in Nat /\ quote[r].resets \in Nat
        /\ quote[r].from.boot \in Nat /\ since[r].boot \in Nat
    BY <1>1, <2>1 DEF Typed, Genuine
  <2>3. QED
    BY <2>1, <2>2 DEF Later
<1>2. Typed /\ FreshInv => StaleMeansNotRestarted
  BY <1>1 DEF StaleMeansNotRestarted
<1>3. QED
  BY <1>2, TypeInit, RoundInit, FreshInit, AllStep, PTL DEF LSpec

-----------------------------------------------------------------------------
(* What evidence says of the board. The keys, the measurements and the     *)
(* record of this boot are those of every piece of evidence from it.       *)

\* What a whole answer says, while the board is in its boot-th boot, has key as its keys'
\* generation, and m in its PCRs, or n in its index.
QuoteSoundIn(b, boot, key, m) ==
  Ok(b) =>
    /\ b.resets \in 0..MaxBoots /\ b.from.boot \in 1..boot /\ b.from.ak \in 0..key
    /\ b.key # 0 => b.key = b.from.ak
    /\ b.from = [boot |-> boot, ak |-> key] /\ m.img # Other => b.pcr = m
CertSoundIn(b, boot, key, n) ==
  Ok(b) =>
    /\ b.from.boot \in 1..boot /\ b.from.ak \in 0..key
    /\ b.key # 0 => b.key = b.from.ak
    /\ b.from = [boot |-> boot, ak |-> key] /\ n # None => b.pcr = n
QuoteSound(b) == QuoteSoundIn(b, boots, ak, pcr)
CertSound(b) == CertSoundIn(b, boots, ak, nv)

BoardSound ==
  /\ pcr \in State /\ nv \in State \cup {None} /\ enrolled \in Nat
  /\ resets <= boots /\ boots <= MaxBoots
  /\ saved \in (0..MaxBoots) \cup {None} /\ (saved = None <=> filed = Nowhere)

FileSound ==
  /\ script_nonce \in [Round -> Nonce \cup {None}]
  /\ file.nonce \in Nonce \cup {None}
  /\ file.quote # None => file.quote.nonce \in Nonce /\ QuoteSound(file.quote)
  /\ file.cert # None => file.cert.nonce \in Nonce /\ CertSound(file.cert)

RoundSound(r) ==
  /\ QuoteSound(quote[r]) /\ (quote[r] # None => quote[r].form \in QuoteForm)
  /\ CertSound(cert[r]) /\ (cert[r] # None => cert[r].form \in CertForm)
  /\ pc[r] # "idle" => gold[r] \in Release
  /\ pc[r] = "scripted" => script_nonce[r] \in Nonce

SoundInv == BoardSound /\ FileSound /\ \A r \in Round : RoundSound(r)

\* What a step may do to a round's quote.
LEMMA QuoteSteps ==
  ASSUME Typed, [LNext]_lvars, NEW x \in Round
  PROVE  \/ quote'[x] = quote[x]
         \/ /\ UNCHANGED board
            /\ \/ quote'[x] = None
               \/ up /\ \E b \in QuoteBlobs(x) : quote'[x] = b
               \/ file.quote # None /\ quote'[x] = file.quote
               \/ Ok(quote[x]) /\ quote'[x] = WithSignature(quote[x], file.quote)
<1> DEFINE Goal ==
         \/ quote'[x] = quote[x]
         \/ /\ UNCHANGED board
            /\ \/ quote'[x] = None
               \/ up /\ \E b \in QuoteBlobs(x) : quote'[x] = b
               \/ file.quote # None /\ quote'[x] = file.quote
               \/ Ok(quote[x]) /\ quote'[x] = WithSignature(quote[x], file.quote)
<1>0. DOMAIN quote = Round
  BY DEF Typed
<1>1. CASE Restarts \/ PcrExtended \/ Operator
  BY <1>1 DEF Restarts, Boot, TpmClear, PcrExtended, Operator, Provision, Enroll, round
<1>2. ASSUME NEW r \in Round, NEW g \in Release, NEW m \in BOOLEAN, Start(r, g, m) PROVE Goal
  BY <1>0, <1>2 DEF Start
<1>3. ASSUME NEW r \in Round, Quote(r) PROVE Goal
  BY <1>0, <1>3 DEF Quote, CanQuote
<1>4. ASSUME NEW r \in Round, FetchQuote(r) PROVE Goal
  BY <1>0, <1>4 DEF FetchQuote, Kept
<1>5. ASSUME NEW r \in Round, FetchQuoteSig(r) PROVE Goal
  BY <1>0, <1>5 DEF FetchQuoteSig, Goes, Kept, Typed
<1>6. ASSUME NEW r \in Round,
             \/ Certify(r) \/ NoReply(r) \/ Crash(r) \/ End(r) \/ KilledWriting(r) \/ CopyNonce(r)
             \/ ScriptQuotes(r) \/ ScriptCertifies(r) \/ FetchCert(r) \/ FetchCertSig(r)
             \/ CommandFails(r)
      PROVE  Goal
  BY <1>6 DEF Certify, NoReply, Crash, End, KilledWriting, CopyNonce, ScriptQuotes,
              ScriptCertifies, FetchCert, FetchCertSig, CommandFails, Kept
<1>7. CASE ForeignNonce \/ ForeignScriptQuotes \/ ForeignScriptCertifies \/ UNCHANGED lvars
  BY <1>7 DEF ForeignNonce, ForeignScriptQuotes, ForeignScriptCertifies, lvars, vvars, round
<1>8. QED
  BY <1>1, <1>2, <1>3, <1>4, <1>5, <1>6, <1>7 DEF LNext, LStep, Proceed

\* And to its certificate.
LEMMA CertSteps ==
  ASSUME Typed, [LNext]_lvars, NEW x \in Round
  PROVE  \/ cert'[x] = cert[x]
         \/ /\ UNCHANGED board
            /\ \/ cert'[x] = None
               \/ up /\ \E b \in CertBlobs(x) : cert'[x] = b
               \/ file.cert # None /\ cert'[x] = file.cert
               \/ Ok(cert[x]) /\ cert'[x] = WithSignature(cert[x], file.cert)
<1> DEFINE Goal ==
         \/ cert'[x] = cert[x]
         \/ /\ UNCHANGED board
            /\ \/ cert'[x] = None
               \/ up /\ \E b \in CertBlobs(x) : cert'[x] = b
               \/ file.cert # None /\ cert'[x] = file.cert
               \/ Ok(cert[x]) /\ cert'[x] = WithSignature(cert[x], file.cert)
<1>0. DOMAIN cert = Round
  BY DEF Typed
<1>1. CASE Restarts \/ PcrExtended \/ Operator
  BY <1>1 DEF Restarts, Boot, TpmClear, PcrExtended, Operator, Provision, Enroll, round
<1>2. ASSUME NEW r \in Round, NEW g \in Release, NEW m \in BOOLEAN, Start(r, g, m) PROVE Goal
  BY <1>0, <1>2 DEF Start
<1>3. ASSUME NEW r \in Round, Certify(r) PROVE Goal
  BY <1>0, <1>3 DEF Certify, CanCertify
<1>4. ASSUME NEW r \in Round, FetchCert(r) PROVE Goal
  BY <1>0, <1>4 DEF FetchCert, Kept
<1>5. ASSUME NEW r \in Round, FetchCertSig(r) PROVE Goal
  BY <1>0, <1>5 DEF FetchCertSig, Goes, Kept, Typed
<1>6. ASSUME NEW r \in Round,
             \/ Quote(r) \/ NoReply(r) \/ Crash(r) \/ End(r) \/ KilledWriting(r) \/ CopyNonce(r)
             \/ ScriptQuotes(r) \/ ScriptCertifies(r) \/ FetchQuote(r) \/ FetchQuoteSig(r)
             \/ CommandFails(r)
      PROVE  Goal
  BY <1>6 DEF Quote, NoReply, Crash, End, KilledWriting, CopyNonce, ScriptQuotes,
              ScriptCertifies, FetchQuote, FetchQuoteSig, CommandFails, Kept
<1>7. CASE ForeignNonce \/ ForeignScriptQuotes \/ ForeignScriptCertifies \/ UNCHANGED lvars
  BY <1>7 DEF ForeignNonce, ForeignScriptQuotes, ForeignScriptCertifies, lvars, vvars, round
<1>8. QED
  BY <1>1, <1>2, <1>3, <1>4, <1>5, <1>6, <1>7 DEF LNext, LStep, Proceed

\* And to the files; only a restart empties them, and that is all it does to them.
LEMMA FileSteps ==
  ASSUME Typed, [LNext]_lvars
  PROVE  \/ file' = NoFiles
         \/ file' = file
         \/ /\ UNCHANGED board
            /\ \/ \E r \in Round : Forget(r)
               \/ \E n \in Nonce : file' = [file EXCEPT !.nonce = n]
               \/ up /\ file.nonce # None /\ \E b \in Whole(QuoteBlobs(file.nonce)) :
                                               file' = [file EXCEPT !.quote = b]
               \/ up /\ \E n \in {Foreign, file.nonce} \ {None} : \E b \in Whole(CertBlobs(n)) :
                                               file' = [file EXCEPT !.cert = b]
               \/ up /\ \E r \in Round : pc[r] = "scripted" /\
                      \E b \in Whole(CertBlobs(script_nonce[r])) : file' = [file EXCEPT !.cert = b]
<1> DEFINE Goal ==
         \/ file' = NoFiles
         \/ file' = file
         \/ /\ UNCHANGED board
            /\ \/ \E r \in Round : Forget(r)
               \/ \E n \in Nonce : file' = [file EXCEPT !.nonce = n]
               \/ up /\ file.nonce # None /\ \E b \in Whole(QuoteBlobs(file.nonce)) :
                                               file' = [file EXCEPT !.quote = b]
               \/ up /\ \E n \in {Foreign, file.nonce} \ {None} : \E b \in Whole(CertBlobs(n)) :
                                               file' = [file EXCEPT !.cert = b]
               \/ up /\ \E r \in Round : pc[r] = "scripted" /\
                      \E b \in Whole(CertBlobs(script_nonce[r])) : file' = [file EXCEPT !.cert = b]
<1>1. CASE (PcrExtended \/ Operator) /\ UNCHANGED legacy
  BY <1>1 DEF legacy
<1>2. ASSUME NEW r \in Round, NEW g \in Release, NEW m \in BOOLEAN, Start(r, g, m), Forget(r)
      PROVE  Goal
  BY <1>2 DEF Start
<1>3. ASSUME NEW r \in Round, Proceed(r), UNCHANGED legacy PROVE Goal
  BY <1>3 DEF legacy
<1>4. ASSUME NEW r \in Round, CopyNonce(r) PROVE Goal
  BY <1>4 DEF CopyNonce, Kept, Nonce
<1>5. ASSUME NEW r \in Round, ScriptQuotes(r) PROVE Goal
  BY <1>5 DEF ScriptQuotes, Kept, CanQuote
<1>6. ASSUME NEW r \in Round, ScriptCertifies(r) PROVE Goal
  BY <1>6 DEF ScriptCertifies, Kept, CanCertify, Goes
<1>7. ASSUME NEW r \in Round,
             FetchQuote(r) \/ FetchQuoteSig(r) \/ FetchCert(r) \/ FetchCertSig(r) \/ CommandFails(r)
      PROVE  Goal
  BY <1>7 DEF FetchQuote, FetchQuoteSig, FetchCert, FetchCertSig, CommandFails, legacy
<1>8. CASE ForeignNonce
  BY <1>8 DEF ForeignNonce, vvars, Nonce
<1>9. CASE ForeignScriptQuotes
  BY <1>9 DEF ForeignScriptQuotes, vvars, CanQuote
<1>10. CASE ForeignScriptCertifies
  BY <1>10 DEF ForeignScriptCertifies, vvars, CanCertify
<1>11. CASE UNCHANGED lvars
  BY <1>11 DEF lvars, legacy
<1>12. QED
  BY <1>1, <1>2, <1>3, <1>4, <1>5, <1>6, <1>7, <1>8, <1>9, <1>10, <1>11 DEF LNext, LStep

-----------------------------------------------------------------------------
\* What a step may do to the board and to what the server has enrolled.
BoardChange ==
  \/ \E s \in State : \E n \in {None, s, [s EXCEPT !.img = Other]} : Boot(s, n)
  \/ TpmClear \/ PcrExtended \/ Enroll
  \/ \E replied \in BOOLEAN : Provision(replied)
  \/ UNCHANGED <<board, enrolled>>

\* Every step is one of these.
LEMMA BoardChanges == [LNext]_lvars => BoardChange
<1> SUFFICES ASSUME [LNext]_lvars PROVE BoardChange
  OBVIOUS
<1>1. CASE Restarts \/ Operator \/ PcrExtended
  BY <1>1 DEF Restarts, Operator, BoardChange
<1>2. ASSUME NEW r \in Round, NEW g \in Release, NEW m \in BOOLEAN, Start(r, g, m)
      PROVE  BoardChange
  BY <1>2 DEF Start, service, BoardChange
<1>3. ASSUME NEW r \in Round, Proceed(r) PROVE BoardChange
  BY <1>3 DEF Proceed, Quote, Certify, NoReply, Crash, End, KilledWriting, service, BoardChange
<1>4. ASSUME NEW r \in Round,
             \/ CopyNonce(r) \/ ScriptQuotes(r) \/ ScriptCertifies(r) \/ FetchQuote(r)
             \/ FetchQuoteSig(r) \/ FetchCert(r) \/ FetchCertSig(r) \/ CommandFails(r)
      PROVE  BoardChange
  BY <1>4 DEF CopyNonce, ScriptQuotes, ScriptCertifies, FetchQuote, FetchQuoteSig, FetchCert,
              FetchCertSig, CommandFails, Kept, service, BoardChange
<1>5. ForeignNonce \/ ForeignScriptQuotes \/ ForeignScriptCertifies \/ UNCHANGED lvars
      => BoardChange
  BY DEF ForeignNonce, ForeignScriptQuotes, ForeignScriptCertifies, lvars, vvars, service,
         BoardChange
<1>6. QED
  BY <1>1, <1>2, <1>3, <1>4, <1>5 DEF LNext, LStep

\* Whatever a step does to the board, evidence that was sound still is: a boot and new keys
\* make it evidence of the past, a measurement leaves no release in the PCRs, and a clear
\* nothing in the index.
LEMMA SoundKept ==
  ASSUME Counts, BoardSound, [LNext]_lvars, NEW b
  PROVE  /\ QuoteSound(b) => QuoteSoundIn(b, boots', ak', pcr')
         /\ CertSound(b) => CertSoundIn(b, boots', ak', nv')
<1> DEFINE Goal == /\ QuoteSound(b) => QuoteSoundIn(b, boots', ak', pcr')
                   /\ CertSound(b) => CertSoundIn(b, boots', ak', nv')
<1> USE DEF QuoteSound, CertSound, QuoteSoundIn, CertSoundIn, Counts
<1>1. ASSUME NEW s, NEW n, Boot(s, n) PROVE Goal
  BY <1>1 DEF Boot
<1>2. CASE TpmClear
  BY <1>2 DEF TpmClear
<1>3. CASE PcrExtended
  <2>1. pcr'.img = Other /\ UNCHANGED <<boots, ak, nv>>
    BY <1>3 DEF PcrExtended, BoardSound, State
  <2>2. QED
    BY <2>1
<1>4. ASSUME NEW replied, Provision(replied) PROVE Goal
  BY <1>4 DEF Provision
<1>5. CASE Enroll \/ UNCHANGED <<board, enrolled>>
  BY <1>5 DEF Enroll, board
<1> HIDE DEF QuoteSound, CertSound, QuoteSoundIn, CertSoundIn, Counts
<1>6. QED
  BY <1>1, <1>2, <1>3, <1>4, <1>5, BoardChanges DEF BoardChange

\* What the board makes is sound.
LEMMA MadeSound ==
  ASSUME Counts, BoardSound, up, NEW n
  PROVE  /\ \A b \in QuoteBlobs(n) : QuoteSound(b) /\ b.form \in QuoteForm
         /\ \A b \in CertBlobs(n) : CertSound(b) /\ b.form \in CertForm
<1>1. boots \in 1..boots /\ ak \in 0..ak /\ resets \in 0..MaxBoots
  BY RoundAssumption DEF Counts, BoardSound
<1>2. ASSUME NEW b \in QuoteBlobs(n) PROVE QuoteSound(b) /\ b.form \in QuoteForm
  <2>1. b.form \in QuoteForm
    BY DEF QuoteBlobs, Blob, QuoteForm
  <2>2. QED
    BY <1>1, <2>1, WholeQuote DEF QuoteSound, QuoteSoundIn, Ok, Origin
<1>3. ASSUME NEW b \in CertBlobs(n) PROVE CertSound(b) /\ b.form \in CertForm
  <2>1. b.form \in CertForm
    BY DEF CertBlobs, Blob, CertForm
  <2>2. QED
    BY <1>1, <2>1, WholeCert DEF CertSound, CertSoundIn, Ok, Origin
<1>4. QED
  BY <1>2, <1>3

\* A signature of something else leaves an answer as sound as it was.
LEMMA SignedSound ==
  ASSUME NEW mine, NEW now, Ok(mine)
  PROVE  LET w == WithSignature(mine, now)
         IN  /\ Quoted(mine) /\ QuoteSound(mine) => QuoteSound(w)
             /\ Certified(mine) /\ CertSound(mine) => CertSound(w)
<1> DEFINE w == WithSignature(mine, now)
<1>1. (Quoted(mine) \/ Certified(mine)) => w.key \in {0, mine.key}
  BY DEF WithSignature, Quoted, Certified
<1>2. Quoted(mine) /\ QuoteSound(mine) => QuoteSound(w)
  BY <1>1, QuoteSignature DEF QuoteSound, QuoteSoundIn, Ok
<1>3. Certified(mine) /\ CertSound(mine) => CertSound(w)
  BY <1>1, CertSignature DEF CertSound, CertSoundIn, Ok
<1>4. QED
  BY <1>2, <1>3

\* What a step may do to the file that holds the last resetCount.
LEMMA SavedSteps ==
  ASSUME [LNext]_lvars
  PROVE  \/ UNCHANGED <<saved, filed>>
         \/ \E r \in Round : /\ pc[r] = "answered" /\ Ok(quote[r])
                             /\ saved' = quote[r].resets /\ filed' = quote[r].from
         \/ saved' = None /\ filed' = Nowhere
<1>1. CASE Restarts \/ Operator \/ PcrExtended
  BY <1>1 DEF Restarts, Boot, TpmClear, Operator, Enroll, Provision, PcrExtended, service
<1>2. ASSUME NEW r \in Round, NEW g \in Release, NEW m \in BOOLEAN, Start(r, g, m)
      PROVE  UNCHANGED <<saved, filed>>
  BY <1>2 DEF Start, service
<1>3. ASSUME NEW r \in Round, End(r) \/ KilledWriting(r)
      PROVE  \/ UNCHANGED <<saved, filed>>
             \/ /\ pc[r] = "answered" /\ Ok(quote[r])
                /\ saved' = quote[r].resets /\ filed' = quote[r].from
             \/ saved' = None /\ filed' = Nowhere
  BY <1>3 DEF End, KilledWriting, Remember, QuoteOk, Parsed, Ok
<1>4. ASSUME NEW r \in Round,
             \/ Quote(r) \/ Certify(r) \/ NoReply(r) \/ Crash(r) \/ CopyNonce(r)
             \/ ScriptQuotes(r) \/ ScriptCertifies(r) \/ FetchQuote(r) \/ FetchQuoteSig(r)
             \/ FetchCert(r) \/ FetchCertSig(r) \/ CommandFails(r)
      PROVE  UNCHANGED <<saved, filed>>
  BY <1>4 DEF Quote, Certify, NoReply, Crash, CopyNonce, ScriptQuotes, ScriptCertifies,
              FetchQuote, FetchQuoteSig, FetchCert, FetchCertSig, CommandFails, Kept, service
<1>5. CASE ForeignNonce \/ ForeignScriptQuotes \/ ForeignScriptCertifies \/ UNCHANGED lvars
  BY <1>5 DEF ForeignNonce, ForeignScriptQuotes, ForeignScriptCertifies, lvars, vvars, service
<1>6. QED
  BY <1>1, <1>2, <1>3, <1>4, <1>5 DEF LNext, LStep, Proceed

\* It holds initially.
LEMMA SoundInit == LInit => SoundInv
<1> SUFFICES ASSUME LInit PROVE SoundInv
  OBVIOUS
<1>1. BoardSound
  BY RoundAssumption DEF LInit, VInit, BoardSound, State, Slot
<1>2. FileSound
  BY DEF LInit, NoFiles, FileSound
<1>3. \A r \in Round : RoundSound(r)
  BY DEF LInit, VInit, RoundSound, QuoteSound, QuoteSoundIn, CertSound, CertSoundIn, Ok
<1>4. QED
  BY <1>1, <1>2, <1>3 DEF SoundInv

\* The boots bound resetCount, and the file names a boot exactly when it holds a count.
LEMMA BoardSoundStep ==
  ASSUME Counts, Typed, SoundInv, [LNext]_lvars
  PROVE  BoardSound'
<1>b. BoardSound
  BY DEF SoundInv
<1>1. /\ pcr' \in State /\ nv' \in State \cup {None} /\ enrolled' \in Nat
      /\ resets' <= boots' /\ boots' <= MaxBoots
  <2> DEFINE Goal == /\ pcr' \in State /\ nv' \in State \cup {None} /\ enrolled' \in Nat
                     /\ resets' <= boots' /\ boots' <= MaxBoots
  <2>1. ASSUME NEW s \in State, NEW n \in {None, s, [s EXCEPT !.img = Other]}, Boot(s, n)
        PROVE  Goal
    <3>1. n \in State \cup {None}
      BY DEF State
    <3>2. QED
      BY <1>b, <2>1, <3>1, RoundAssumption DEF Boot, BoardSound, service, Counts
  <2>2. CASE TpmClear
    BY <1>b, <2>2 DEF TpmClear, BoardSound, service, Counts
  <2>3. CASE PcrExtended
    BY <1>b, <2>3 DEF PcrExtended, BoardSound, service, State
  <2>4. CASE Enroll
    BY <1>b, <2>4 DEF Enroll, BoardSound, board, Counts
  <2>5. ASSUME NEW replied \in BOOLEAN, Provision(replied) PROVE Goal
    BY <1>b, <2>5 DEF Provision, BoardSound, Counts
  <2>6. CASE UNCHANGED <<board, enrolled>>
    BY <1>b, <2>6 DEF BoardSound, board
  <2>7. QED
    BY <2>1, <2>2, <2>3, <2>4, <2>5, <2>6, BoardChanges DEF BoardChange
<1>2. saved' \in (0..MaxBoots) \cup {None} /\ (saved' = None <=> filed' = Nowhere)
  <2> DEFINE Goal == saved' \in (0..MaxBoots) \cup {None} /\ (saved' = None <=> filed' = Nowhere)
  <2>1. CASE UNCHANGED <<saved, filed>>
    BY <1>b, <2>1 DEF BoardSound
  <2>2. ASSUME NEW r \in Round, Ok(quote[r]), saved' = quote[r].resets, filed' = quote[r].from
        PROVE  Goal
    <3>1. quote[r].resets \in 0..MaxBoots /\ quote[r].from.boot \in 1..boots
      BY <2>2 DEF SoundInv, RoundSound, QuoteSound, QuoteSoundIn
    <3>2. quote[r].resets \in Nat /\ quote[r].from # Nowhere
      BY <3>1 DEF Nowhere
    <3>3. QED
      BY <2>2, <3>1, <3>2, RoundAssumption
  <2>3. CASE saved' = None /\ filed' = Nowhere
    BY <2>3
  <2>4. QED
    BY <2>1, <2>2, <2>3, SavedSteps
<1>3. QED
  BY <1>1, <1>2 DEF BoardSound

\* Scripts read nonces that verifiers sent.
LEMMA ScriptNonceStep ==
  ASSUME FileSound, [LNext]_lvars
  PROVE  script_nonce' \in [Round -> Nonce \cup {None}]
<1> DEFINE Goal == script_nonce' \in [Round -> Nonce \cup {None}]
<1>1. CASE UNCHANGED script_nonce
  BY <1>1 DEF FileSound
<1>2. ASSUME NEW r \in Round, script_nonce' = [script_nonce EXCEPT ![r] = None] PROVE Goal
  BY <1>2 DEF FileSound
<1>3. ASSUME NEW r \in Round, ScriptQuotes(r) PROVE Goal
  BY <1>3 DEF ScriptQuotes, FileSound
<1>4. ASSUME NEW r \in Round,
             \/ CopyNonce(r) \/ ScriptCertifies(r) \/ FetchQuote(r) \/ FetchQuoteSig(r)
             \/ FetchCert(r) \/ FetchCertSig(r) \/ CommandFails(r)
      PROVE  UNCHANGED script_nonce
  BY <1>4 DEF CopyNonce, ScriptCertifies, FetchQuote, FetchQuoteSig, FetchCert, FetchCertSig,
              CommandFails, legacy
<1>5. CASE ForeignNonce \/ ForeignScriptQuotes \/ ForeignScriptCertifies \/ UNCHANGED lvars
  BY <1>1, <1>5 DEF ForeignNonce, ForeignScriptQuotes, ForeignScriptCertifies, lvars, legacy
<1>6. QED
  BY <1>1, <1>2, <1>3, <1>4, <1>5 DEF LNext, LStep, legacy

\* The files hold whole answers of this boot to nonces that verifiers sent.
LEMMA FileSoundStep ==
  ASSUME Counts, Typed, FilesAreCurrent, SoundInv, [LNext]_lvars
  PROVE  FileSound'
<1>b. BoardSound /\ FileSound
  BY DEF SoundInv
<1>f. file = [nonce |-> file.nonce, quote |-> file.quote, cert |-> file.cert]
  BY DEF Typed
<1>s. script_nonce' \in [Round -> Nonce \cup {None}]
  BY <1>b, ScriptNonceStep
<1>1. CASE file' = NoFiles
  BY <1>s, <1>1 DEF NoFiles, FileSound
<1>2. CASE file' = file
  BY <1>b, <1>s, <1>2, SoundKept DEF FileSound, QuoteSound, CertSound
<1>3. CASE UNCHANGED board
  <2> SUFFICES /\ file'.nonce \in Nonce \cup {None}
               /\ file'.quote # None => file'.quote.nonce \in Nonce /\ QuoteSound(file'.quote)
               /\ file'.cert # None => file'.cert.nonce \in Nonce /\ CertSound(file'.cert)
    BY <1>s, <1>3 DEF FileSound, QuoteSound, CertSound, board
  <2>1. ASSUME NEW r \in Round, Forget(r)
        PROVE  /\ file'.nonce \in Nonce \cup {None}
               /\ file'.quote # None => file'.quote.nonce \in Nonce /\ QuoteSound(file'.quote)
               /\ file'.cert # None => file'.cert.nonce \in Nonce /\ CertSound(file'.cert)
    <3>1. file.quote # None => /\ Stale(file.quote, r).nonce \in Nonce
                               /\ QuoteSound(Stale(file.quote, r))
      BY <1>b DEF FilesAreCurrent, FileSound, Stale, Quoted, QuoteSound, QuoteSoundIn, Ok, Nonce
    <3>2. file.cert # None => /\ Stale(file.cert, r).nonce \in Nonce
                              /\ CertSound(Stale(file.cert, r))
      BY <1>b DEF FilesAreCurrent, FileSound, Stale, Certified, CertSound, CertSoundIn, Ok, Nonce
    <3>3. QED
      BY <1>b, <2>1, <3>1, <3>2 DEF Forget, FileSound, Nonce, Stale
  <2>2. ASSUME NEW n \in Nonce, file' = [file EXCEPT !.nonce = n]
        PROVE  /\ file'.nonce \in Nonce /\ file'.quote = file.quote /\ file'.cert = file.cert
    BY <1>f, <2>2
  <2>3. ASSUME up, NEW n \in Nonce, NEW b \in Whole(QuoteBlobs(n)),
               file' = [file EXCEPT !.quote = b]
        PROVE  /\ file'.nonce = file.nonce /\ file'.cert = file.cert
               /\ file'.quote.nonce \in Nonce /\ QuoteSound(file'.quote)
    <3>1. QuoteSound(b) /\ b.nonce \in Nonce
      BY <1>b, <2>3, MadeSound, WholeQuote DEF Whole
    <3>2. QED
      BY <1>f, <2>3, <3>1
  <2>4. ASSUME up, NEW n \in Nonce, NEW b \in Whole(CertBlobs(n)),
               file' = [file EXCEPT !.cert = b]
        PROVE  /\ file'.nonce = file.nonce /\ file'.quote = file.quote
               /\ file'.cert.nonce \in Nonce /\ CertSound(file'.cert)
    <3>1. CertSound(b) /\ b.nonce \in Nonce
      BY <1>b, <2>4, MadeSound, WholeCert DEF Whole
    <3>2. QED
      BY <1>f, <2>4, <3>1
  <2>5. \A n \in {Foreign, file.nonce} \ {None} : n \in Nonce
    BY <1>b DEF FileSound, Nonce
  <2>6. \A r \in Round : pc[r] = "scripted" => script_nonce[r] \in Nonce
    BY DEF SoundInv, RoundSound
  <2>7. QED
    BY <1>1, <1>2, <1>b, <2>1, <2>2, <2>3, <2>4, <2>5, <2>6, FileSteps DEF FileSound, NoFiles
<1>4. QED
  BY <1>1, <1>2, <1>3, FileSteps

\* What a round is for, and what its script has read.
LEMMA ScriptStep ==
  ASSUME Typed, SoundInv, [LNext]_lvars, NEW x \in Round
  PROVE  /\ pc'[x] # "idle" => gold'[x] \in Release
         /\ pc'[x] = "scripted" => script_nonce'[x] \in Nonce
<1> DEFINE Goal == /\ pc'[x] # "idle" => gold'[x] \in Release
                   /\ pc'[x] = "scripted" => script_nonce'[x] \in Nonce
<1>t. /\ pc \in [Round -> Step] /\ DOMAIN gold = Round /\ DOMAIN script_nonce = Round
  BY DEF Typed
<1>x. /\ pc[x] # "idle" => gold[x] \in Release
      /\ pc[x] = "scripted" => script_nonce[x] \in Nonce
  BY DEF SoundInv, RoundSound
<1>1. ASSUME Restarts, UNCHANGED script_nonce PROVE Goal
  <2>1. UNCHANGED gold /\ DropConnections
    BY <1>1 DEF Restarts, Boot, TpmClear
  <2>2. QED
    BY <1>1, <1>x, <2>1 DEF DropConnections
<1>2. ASSUME PcrExtended \/ Operator, UNCHANGED legacy PROVE Goal
  BY <1>x, <1>2 DEF PcrExtended, Operator, Enroll, Provision, round, legacy
<1>3. ASSUME NEW r \in Round, NEW g \in Release, NEW m \in BOOLEAN, Start(r, g, m),
             script_nonce' = [script_nonce EXCEPT ![r] = None]
      PROVE  Goal
  BY <1>x, <1>t, <1>3 DEF Start
<1>4. ASSUME NEW r \in Round, NEW p \in Step \ {"idle", "scripted"}, pc[r] # "idle",
             pc' = [pc EXCEPT ![r] = p], UNCHANGED <<gold, script_nonce>>
      PROVE  Goal
  BY <1>x, <1>t, <1>4
<1>5. ASSUME NEW r \in Round, Proceed(r), UNCHANGED legacy PROVE Goal
  <2>1. \E p \in Step \ {"idle", "scripted"} : pc[r] # "idle" /\ pc' = [pc EXCEPT ![r] = p]
    BY <1>5 DEF Proceed, Quote, Certify, NoReply, Crash, End, KilledWriting, Step, Ended
  <2>2. UNCHANGED <<gold, script_nonce>>
    BY <1>5 DEF Proceed, Quote, Certify, NoReply, Crash, End, KilledWriting, legacy
  <2>3. QED
    BY <1>4, <2>1, <2>2
<1>6. ASSUME NEW r \in Round, ScriptQuotes(r) PROVE Goal
  <2>1. file.nonce \in Nonce
    BY <1>6 DEF ScriptQuotes, SoundInv, FileSound
  <2>2. QED
    BY <1>x, <1>t, <1>6, <2>1 DEF ScriptQuotes, Goes, Kept
<1>7. ASSUME NEW r \in Round,
             \/ CopyNonce(r) \/ ScriptCertifies(r) \/ FetchQuote(r) \/ FetchQuoteSig(r)
             \/ FetchCert(r) \/ FetchCertSig(r) \/ CommandFails(r)
      PROVE  Goal
  <2>1. \E p \in Step \ {"idle", "scripted"} : pc[r] # "idle" /\ pc' = [pc EXCEPT ![r] = p]
    BY <1>7 DEF CopyNonce, ScriptCertifies, FetchQuote, FetchQuoteSig, FetchCert, FetchCertSig,
                CommandFails, Goes, Step, Ended
  <2>2. UNCHANGED <<gold, script_nonce>>
    BY <1>7 DEF CopyNonce, ScriptCertifies, FetchQuote, FetchQuoteSig, FetchCert, FetchCertSig,
                CommandFails, Kept, legacy
  <2>3. QED
    BY <1>4, <2>1, <2>2
<1>8. CASE ForeignNonce \/ ForeignScriptQuotes \/ ForeignScriptCertifies \/ UNCHANGED lvars
  BY <1>x, <1>8 DEF ForeignNonce, ForeignScriptQuotes, ForeignScriptCertifies, lvars, vvars,
                    round, legacy
<1>9. QED
  BY <1>1, <1>2, <1>3, <1>5, <1>6, <1>7, <1>8 DEF LNext, LStep

\* A round's answer stays sound, whichever way it comes.
LEMMA RoundSoundStep ==
  ASSUME Counts, Typed, FilesAreCurrent, SoundInv, [LNext]_lvars, NEW x \in Round
  PROVE  RoundSound(x)'
<1>b. BoardSound /\ FileSound /\ RoundSound(x)
  BY DEF SoundInv
<1>1. QuoteSoundIn(quote'[x], boots', ak', pcr')
      /\ (quote'[x] # None => quote'[x].form \in QuoteForm)
  <2>1. CASE quote'[x] = quote[x]
    BY <1>b, <2>1, SoundKept DEF RoundSound
  <2>2. ASSUME UNCHANGED board,
               QuoteSound(quote'[x]) /\ (quote'[x] # None => quote'[x].form \in QuoteForm)
        PROVE  QuoteSoundIn(quote'[x], boots', ak', pcr')
    BY <2>2 DEF QuoteSound, board
  <2>3. CASE quote'[x] = None
    BY <2>3 DEF QuoteSoundIn, Ok
  <2>4. ASSUME UNCHANGED board, up, NEW b \in QuoteBlobs(x), quote'[x] = b
        PROVE  QuoteSoundIn(quote'[x], boots', ak', pcr') /\ quote'[x].form \in QuoteForm
    BY <1>b, <2>2, <2>4, MadeSound
  <2>5. ASSUME UNCHANGED board, file.quote # None, quote'[x] = file.quote
        PROVE  QuoteSoundIn(quote'[x], boots', ak', pcr') /\ quote'[x].form \in QuoteForm
    <3>1. QuoteSound(file.quote) /\ file.quote.form \in QuoteForm
      BY <1>b, <2>5 DEF FileSound, FilesAreCurrent, Ok, QuoteForm
    <3>2. QED
      BY <2>2, <2>5, <3>1
  <2>6. ASSUME UNCHANGED board, Ok(quote[x]), quote'[x] = WithSignature(quote[x], file.quote)
        PROVE  QuoteSoundIn(quote'[x], boots', ak', pcr') /\ quote'[x].form \in QuoteForm
    <3>1. Quoted(quote[x]) /\ QuoteSound(quote[x])
      BY <1>b, <2>6 DEF Typed, RoundSound
    <3>2. QuoteSound(quote'[x]) /\ quote'[x].form \in QuoteForm
      BY <2>6, <3>1, SignedSound, QuoteSignature DEF QuoteForm
    <3>3. QED
      BY <2>2, <2>6, <3>2
  <2>7. QED
    BY <1>b, <2>1, <2>3, <2>4, <2>5, <2>6, QuoteSteps DEF RoundSound
<1>2. CertSoundIn(cert'[x], boots', ak', nv')
      /\ (cert'[x] # None => cert'[x].form \in CertForm)
  <2>1. CASE cert'[x] = cert[x]
    BY <1>b, <2>1, SoundKept DEF RoundSound
  <2>2. ASSUME UNCHANGED board,
               CertSound(cert'[x]) /\ (cert'[x] # None => cert'[x].form \in CertForm)
        PROVE  CertSoundIn(cert'[x], boots', ak', nv')
    BY <2>2 DEF CertSound, board
  <2>3. CASE cert'[x] = None
    BY <2>3 DEF CertSoundIn, Ok
  <2>4. ASSUME UNCHANGED board, up, NEW b \in CertBlobs(x), cert'[x] = b
        PROVE  CertSoundIn(cert'[x], boots', ak', nv') /\ cert'[x].form \in CertForm
    BY <1>b, <2>2, <2>4, MadeSound
  <2>5. ASSUME UNCHANGED board, file.cert # None, cert'[x] = file.cert
        PROVE  CertSoundIn(cert'[x], boots', ak', nv') /\ cert'[x].form \in CertForm
    <3>1. CertSound(file.cert) /\ file.cert.form \in CertForm
      BY <1>b, <2>5 DEF FileSound, FilesAreCurrent, Ok, CertForm
    <3>2. QED
      BY <2>2, <2>5, <3>1
  <2>6. ASSUME UNCHANGED board, Ok(cert[x]), cert'[x] = WithSignature(cert[x], file.cert)
        PROVE  CertSoundIn(cert'[x], boots', ak', nv') /\ cert'[x].form \in CertForm
    <3>1. Certified(cert[x]) /\ CertSound(cert[x])
      BY <1>b, <2>6 DEF Typed, RoundSound
    <3>2. CertSound(cert'[x]) /\ cert'[x].form \in CertForm
      BY <2>6, <3>1, SignedSound, CertSignature DEF CertForm
    <3>3. QED
      BY <2>2, <2>6, <3>2
  <2>7. QED
    BY <1>b, <2>1, <2>3, <2>4, <2>5, <2>6, CertSteps DEF RoundSound
<1>3. QED
  BY <1>1, <1>2, ScriptStep DEF RoundSound, QuoteSound, CertSound

\* Every step keeps what evidence says of the board.
LEMMA SoundStep ==
  Counts /\ Typed /\ RoundInv /\ SoundInv /\ [LNext]_lvars => SoundInv'
BY BoardSoundStep, FileSoundStep, RoundSoundStep DEF SoundInv, RoundInv

-----------------------------------------------------------------------------
(* What a passed round proves. A quote of the round's goldens is taken     *)
(* while they are in the PCRs; it is the record of the same boot, made     *)
(* before or after it, that shows that U-Boot had recorded them.           *)

\* A quote that answers the round with its goldens.
Shown(q, r) == Ok(q) /\ q.nonce = r /\ q.pcr.img = gold[r]

\* If the index still has what was quoted in this boot, the board was good in it.
QuoteSeen(q, r) == Shown(q, r) /\ q.from = Origin /\ nv = q.pcr => boots \in seen[r]

\* A quote and a record of one boot that agree were made in a boot it was good in.
PairSeen(q, c, r) ==
  Shown(q, r) /\ Ok(c) /\ c.from = q.from /\ c.pcr = q.pcr => q.from.boot \in seen[r]

\* The index does not change until the next boot.
CertLive(c) == Ok(c) /\ c.from = Origin /\ up => c.pcr = nv

Seen(r) ==
  /\ \A q \in {quote[r], file.quote} : Ok(q) => q.pcr # None
  /\ \A c \in {cert[r], file.cert} : CertLive(c)
  /\ \A q \in {quote[r], file.quote} :
       QuoteSeen(q, r) /\ \A c \in {cert[r], file.cert} : PairSeen(q, c, r)

SeenInv ==
  /\ seen \in [Round -> SUBSET (0..MaxBoots)]
  /\ \A r \in Round : Seen(r)

\* It holds initially.
LEMMA SeenInit == LInit => SeenInv
<1> SUFFICES ASSUME LInit PROVE SeenInv
  OBVIOUS
<1>1. seen = [r \in Round |-> {}] /\ file.quote = None /\ file.cert = None
      /\ \A r \in Round : quote[r] = None /\ cert[r] = None
  BY DEF LInit, VInit, NoFiles
<1>2. QED
  BY <1>1 DEF SeenInv, Seen, QuoteSeen, PairSeen, CertLive, Shown, Ok

\* A round that begins forgets its answers; the others keep their goldens.
LEMMA StartSteps ==
  ASSUME Typed, [LNext]_lvars, NEW x \in Round
  PROVE  \/ ~Starts(x) /\ gold'[x] = gold[x]
         \/ \E g \in Release, m \in BOOLEAN : Start(x, g, m) /\ Forget(x)
<1> DEFINE Goal == ~Starts(x) /\ gold'[x] = gold[x]
<1>t. pc \in [Round -> Step] /\ DOMAIN gold = Round
  BY DEF Typed
<1> USE DEF Starts
<1>1. CASE Restarts \/ Operator \/ PcrExtended
  BY <1>t, <1>1 DEF Restarts, Boot, TpmClear, DropConnections, Operator, Enroll, Provision,
                    PcrExtended, round, Ended
<1>2. ASSUME NEW r \in Round, NEW g \in Release, NEW m \in BOOLEAN, Start(r, g, m), r # x
      PROVE  Goal
  BY <1>t, <1>2 DEF Start, Ended
<1>3. ASSUME NEW r \in Round,
             \/ Quote(r) \/ Certify(r) \/ NoReply(r) \/ Crash(r) \/ End(r) \/ KilledWriting(r)
      PROVE  Goal
  BY <1>t, <1>3 DEF Quote, Certify, NoReply, Crash, End, KilledWriting, Ended
<1>4. ASSUME NEW r \in Round,
             \/ CopyNonce(r) \/ ScriptQuotes(r) \/ ScriptCertifies(r) \/ FetchQuote(r)
             \/ FetchQuoteSig(r) \/ FetchCert(r) \/ FetchCertSig(r) \/ CommandFails(r)
      PROVE  Goal
  BY <1>t, <1>4 DEF CopyNonce, ScriptQuotes, ScriptCertifies, FetchQuote, FetchQuoteSig,
                    FetchCert, FetchCertSig, CommandFails, Goes, Kept, Ended
<1>5. CASE ForeignNonce \/ ForeignScriptQuotes \/ ForeignScriptCertifies \/ UNCHANGED lvars
  BY <1>t, <1>5 DEF ForeignNonce, ForeignScriptQuotes, ForeignScriptCertifies, lvars, vvars,
                    round, Ended
<1> HIDE DEF Starts, Goal
<1>6. QED
  BY <1>1, <1>2, <1>3, <1>4, <1>5 DEF LNext, LStep, Proceed, Goal

\* A quote with the round's nonce was there before, or is taken by this step.
LEMMA OldOrNewQuote ==
  ASSUME Typed, FilesAreCurrent, [LNext]_lvars, NEW x \in Round,
         NEW q \in {quote'[x], file'.quote}, Ok(q)
  PROVE  \/ \E p \in {quote[x], file.quote} :
              /\ Ok(p) /\ p.pcr = q.pcr /\ p.from = q.from
              /\ q.nonce = x => p.nonce = x
         \/ UNCHANGED board /\ up /\ q.pcr = pcr /\ q.from = Origin
<1> DEFINE Old == \E p \in {quote[x], file.quote} :
                    /\ Ok(p) /\ p.pcr = q.pcr /\ p.from = q.from
                    /\ q.nonce = x => p.nonce = x
           New == UNCHANGED board /\ up /\ q.pcr = pcr /\ q.from = Origin
<1>0. /\ file = [nonce |-> file.nonce, quote |-> file.quote, cert |-> file.cert]
      /\ file.quote # None => Ok(file.quote) /\ Quoted(file.quote)
      /\ Ok(quote[x]) => Quoted(quote[x])
  BY DEF Typed, FilesAreCurrent
<1>1. CASE q = quote'[x]
  <2>1. CASE quote'[x] = quote[x] \/ quote'[x] = file.quote
    BY <1>1, <2>1
  <2>2. CASE quote'[x] = None
    BY <1>1, <2>2 DEF Ok
  <2>3. ASSUME UNCHANGED board, up, NEW b \in QuoteBlobs(x), quote'[x] = b PROVE New
    BY <1>1, <2>3, WholeQuote DEF Ok
  <2>4. ASSUME Ok(quote[x]), quote'[x] = WithSignature(quote[x], file.quote) PROVE Old
    <3>1. q.nonce = quote[x].nonce /\ q.pcr = quote[x].pcr /\ q.from = quote[x].from
      BY <1>0, <1>1, <2>4, QuoteSignature
    <3>2. QED
      BY <2>4, <3>1
  <2>5. QED
    BY <2>1, <2>2, <2>3, <2>4, QuoteSteps
<1>2. CASE q = file'.quote
  <2>1. CASE file' = NoFiles
    BY <1>2, <2>1 DEF NoFiles, Ok
  <2>2. ASSUME file'.quote = file.quote PROVE Old
    BY <1>2, <2>2
  <2>3. ASSUME NEW r \in Round, Forget(r) PROVE Old
    <3>1. q = Stale(file.quote, r)
      BY <1>2, <2>3 DEF Forget
    <3>2. file.quote # None
      BY <3>1 DEF Stale, Ok
    <3>3. q.pcr = file.quote.pcr /\ q.from = file.quote.from
      BY <1>0, <3>1, <3>2 DEF Stale, Quoted
    <3>4. q.nonce = x => file.quote.nonce = x
      BY <1>0, <3>1, <3>2, Distinct DEF Stale, Quoted
    <3>5. QED
      BY <1>0, <3>2, <3>3, <3>4
  <2>4. ASSUME NEW n, file' = [file EXCEPT !.nonce = n] \/ file' = [file EXCEPT !.cert = n]
        PROVE  file'.quote = file.quote
    BY <1>0, <2>4
  <2>5. ASSUME UNCHANGED board, up, NEW b \in Whole(QuoteBlobs(file.nonce)),
               file' = [file EXCEPT !.quote = b]
        PROVE  New
    <3>1. q = b
      BY <1>0, <1>2, <2>5
    <3>2. QED
      BY <2>5, <3>1, WholeQuote DEF Whole
  <2>6. QED
    BY <2>1, <2>2, <2>3, <2>4, <2>5, FileSteps
<1>3. QED
  BY <1>1, <1>2

\* And so is a record.
LEMMA OldOrNewCert ==
  ASSUME Typed, FilesAreCurrent, [LNext]_lvars, NEW x \in Round,
         NEW c \in {cert'[x], file'.cert}, Ok(c)
  PROVE  \/ \E p \in {cert[x], file.cert} : Ok(p) /\ p.pcr = c.pcr /\ p.from = c.from
         \/ UNCHANGED board /\ up /\ c.pcr = nv /\ c.from = Origin
<1> DEFINE Old == \E p \in {cert[x], file.cert} : Ok(p) /\ p.pcr = c.pcr /\ p.from = c.from
           New == UNCHANGED board /\ up /\ c.pcr = nv /\ c.from = Origin
<1>0. /\ file = [nonce |-> file.nonce, quote |-> file.quote, cert |-> file.cert]
      /\ file.cert # None => Ok(file.cert) /\ Certified(file.cert)
      /\ Ok(cert[x]) => Certified(cert[x])
  BY DEF Typed, FilesAreCurrent
<1>1. CASE c = cert'[x]
  <2>1. CASE cert'[x] = cert[x] \/ cert'[x] = file.cert
    BY <1>1, <2>1
  <2>2. CASE cert'[x] = None
    BY <1>1, <2>2 DEF Ok
  <2>3. ASSUME UNCHANGED board, up, NEW b \in CertBlobs(x), cert'[x] = b PROVE New
    BY <1>1, <2>3, WholeCert DEF Ok
  <2>4. ASSUME Ok(cert[x]), cert'[x] = WithSignature(cert[x], file.cert) PROVE Old
    <3>1. c.pcr = cert[x].pcr /\ c.from = cert[x].from
      BY <1>0, <1>1, <2>4, CertSignature
    <3>2. QED
      BY <2>4, <3>1
  <2>5. QED
    BY <2>1, <2>2, <2>3, <2>4, CertSteps
<1>2. CASE c = file'.cert
  <2>1. CASE file' = NoFiles
    BY <1>2, <2>1 DEF NoFiles, Ok
  <2>2. ASSUME file'.cert = file.cert PROVE Old
    BY <1>2, <2>2
  <2>3. ASSUME NEW r \in Round, Forget(r) PROVE Old
    <3>1. c = Stale(file.cert, r)
      BY <1>2, <2>3 DEF Forget
    <3>2. file.cert # None
      BY <3>1 DEF Stale, Ok
    <3>3. c.pcr = file.cert.pcr /\ c.from = file.cert.from
      BY <1>0, <3>1, <3>2 DEF Stale, Certified
    <3>4. QED
      BY <1>0, <3>2, <3>3
  <2>4. ASSUME NEW n, file' = [file EXCEPT !.nonce = n] \/ file' = [file EXCEPT !.quote = n]
        PROVE  file'.cert = file.cert
    BY <1>0, <2>4
  <2>5. ASSUME UNCHANGED board, up, NEW n, NEW b \in Whole(CertBlobs(n)),
               file' = [file EXCEPT !.cert = b]
        PROVE  New
    <3>1. c = b
      BY <1>0, <1>2, <2>5
    <3>2. QED
      BY <2>5, <3>1, WholeCert DEF Whole
  <2>6. QED
    BY <2>1, <2>2, <2>3, <2>4, <2>5, FileSteps
<1>3. QED
  BY <1>1, <1>2

\* What was made in this boot with these keys was so before the step, and the index has
\* not changed since, unless a clear has taken it and the board down.
LEMMA SameOrigin ==
  ASSUME Counts, [LNext]_lvars, NEW o, o.boot \in 1..boots, o.ak \in 0..ak, o = Origin'
  PROVE  /\ o = Origin /\ boots' = boots
         /\ up' => up /\ nv' = nv
         /\ nv' # None => nv' = nv
<1> DEFINE Goal == /\ o = Origin /\ boots' = boots
                   /\ up' => up /\ nv' = nv
                   /\ nv' # None => nv' = nv
<1>o. o.boot = boots' /\ o.ak = ak' /\ o = [boot |-> boots', ak |-> ak']
  BY DEF Origin
<1> USE DEF Counts, Origin
<1>1. ASSUME NEW s, NEW n, Boot(s, n) PROVE FALSE
  BY <1>1, <1>o DEF Boot
<1>2. CASE TpmClear
  BY <1>2, <1>o DEF TpmClear
<1>3. CASE PcrExtended
  BY <1>3, <1>o DEF PcrExtended
<1>4. ASSUME NEW replied, Provision(replied) PROVE FALSE
  BY <1>4, <1>o DEF Provision
<1>5. CASE Enroll \/ UNCHANGED <<board, enrolled>>
  BY <1>5, <1>o DEF Enroll, board
<1>6. QED
  BY <1>1, <1>2, <1>3, <1>4, <1>5, BoardChanges DEF BoardChange

\* Every step keeps what is on record of a round's evidence.
LEMMA SeenStep ==
  ASSUME Counts, Typed, RoundInv, SoundInv, SeenInv, [LNext]_lvars, NEW x \in Round
  PROVE  Seen(x)'
<1>x. Seen(x) /\ FilesAreCurrent /\ BoardSound /\ FileSound /\ RoundSound(x)
  BY DEF SeenInv, RoundInv, SoundInv
<1>u. CASE UNCHANGED lvars
  <2>1. UNCHANGED <<quote, cert, file, gold, up, nv, boots, ak, seen>>
    BY <1>u DEF lvars, vvars, legacy, board, round
  <2>2. QED
    BY <1>x, <2>1 DEF Seen, QuoteSeen, PairSeen, CertLive, Shown, Ok, Origin
<1>n. CASE LNext
  <2>w. /\ ~Starts(x) => seen[x] \subseteq seen'[x]
        /\ Good(x)' => boots' \in seen'[x]
    BY <1>n DEF LNext, Watch
  <2>q. ASSUME NEW p \in {quote[x], file.quote}, Ok(p)
        PROVE  p.from.boot \in 1..boots /\ p.from.ak \in 0..ak /\ p.pcr # None
    BY <1>x, <2>q DEF Seen, FileSound, RoundSound, QuoteSound, QuoteSoundIn, Ok
  <2>c. ASSUME NEW p \in {cert[x], file.cert}, Ok(p)
        PROVE  p.from.boot \in 1..boots /\ p.from.ak \in 0..ak /\ CertLive(p)
    BY <1>x, <2>c DEF Seen, FileSound, RoundSound, CertSound, CertSoundIn, Ok
  <2>1. ASSUME NEW q \in {quote'[x], file'.quote}, Ok(q) PROVE q.pcr # None
    <3>1. pcr # None
      BY <1>x, RoundAssumption DEF BoardSound
    <3>2. QED
      BY <1>x, <2>1, <2>q, <3>1, OldOrNewQuote
  <2>2. ASSUME NEW c \in {cert'[x], file'.cert}, Ok(c), c.from = Origin', up'
        PROVE  c.pcr = nv'
    <3>1. ASSUME NEW p \in {cert[x], file.cert}, Ok(p), p.pcr = c.pcr, p.from = c.from
          PROVE  c.pcr = nv'
      <4>1. p.from = Origin /\ up /\ nv' = nv
        BY <2>2, <2>c, <3>1, SameOrigin
      <4>2. QED
        BY <2>c, <3>1, <4>1 DEF CertLive
    <3>2. CASE UNCHANGED board /\ c.pcr = nv
      BY <3>2 DEF board
    <3>3. QED
      BY <1>x, <2>2, <3>1, <3>2, OldOrNewCert
  <2>3. ASSUME NEW q \in {quote'[x], file'.quote}, Ok(q), q.nonce = x
        PROVE  ~Starts(x) /\ gold'[x] = gold[x] /\ seen[x] \subseteq seen'[x]
    <3>1. ASSUME NEW g, NEW m, Start(x, g, m), Forget(x) PROVE FALSE
      <4>1. quote'[x] = None /\ file'.quote = Stale(file.quote, x)
        BY <3>1 DEF Start, Forget, Typed
      <4>2. file.quote # None => Quoted(file.quote)
        BY <1>x DEF FilesAreCurrent
      <4>3. QED
        BY <2>3, <4>1, <4>2, Distinct DEF Stale, Ok, Quoted
    <3>2. QED
      BY <2>w, <3>1, StartSteps
  <2>4. ASSUME NEW q \in {quote'[x], file'.quote}, Shown(q, x)', q.from = Origin', nv' = q.pcr
        PROVE  boots' \in seen'[x]
    <3>0. Ok(q) /\ q.nonce = x /\ q.pcr.img = gold'[x]
      BY <2>4 DEF Shown, Ok
    <3>1. ASSUME NEW p \in {quote[x], file.quote}, Ok(p), p.nonce = x, p.pcr = q.pcr,
                 p.from = q.from
          PROVE  boots' \in seen'[x]
      <4>1. p.from = Origin /\ boots' = boots /\ nv' = nv
        BY <2>4, <2>q, <3>1, SameOrigin
      <4>2. Shown(p, x) /\ QuoteSeen(p, x)
        BY <1>x, <2>3, <3>0, <3>1 DEF Shown, Seen
      <4>3. QED
        BY <2>3, <2>4, <3>0, <3>1, <4>1, <4>2 DEF QuoteSeen
    <3>2. ASSUME UNCHANGED board, up, q.pcr = pcr PROVE boots' \in seen'[x]
      <4>1. up' /\ pcr' = pcr /\ nv' = pcr
        BY <2>4, <3>2 DEF board
      <4>2. Good(x)'
        BY <3>0, <3>2, <4>1 DEF Good
      <4>3. QED
        BY <2>w, <4>2
    <3>3. QED
      BY <1>x, <3>0, <3>1, <3>2, OldOrNewQuote
  <2>5. ASSUME NEW q \in {quote'[x], file'.quote}, NEW c \in {cert'[x], file'.cert},
               Shown(q, x)', Ok(c), c.from = q.from, c.pcr = q.pcr
        PROVE  q.from.boot \in seen'[x]
    <3>0. Ok(q) /\ q.nonce = x /\ q.pcr.img = gold'[x]
      BY <2>5 DEF Shown, Ok
    <3>1. ASSUME NEW p \in {quote[x], file.quote}, Ok(p), p.nonce = x, p.pcr = q.pcr,
                 p.from = q.from
          PROVE  q.from.boot \in seen'[x]
      <4>0. Shown(p, x) /\ QuoteSeen(p, x)
        BY <1>x, <2>3, <3>0, <3>1 DEF Shown, Seen
      <4>1. ASSUME NEW d \in {cert[x], file.cert}, Ok(d), d.pcr = c.pcr, d.from = c.from
            PROVE  p.from.boot \in seen[x]
        <5>1. PairSeen(p, d, x)
          BY <1>x DEF Seen
        <5>2. QED
          BY <2>5, <3>1, <4>0, <4>1, <5>1 DEF PairSeen
      <4>2. CASE c.pcr = nv /\ c.from = Origin
        <5>1. p.from = Origin /\ p.from.boot = boots /\ nv = p.pcr
          BY <2>5, <3>1, <4>2 DEF Origin
        <5>2. boots \in seen'[x]
          BY <2>3, <3>0, <4>0, <5>1 DEF QuoteSeen
        <5>3. QED
          BY <3>1, <5>1, <5>2
      <4>3. QED
        BY <1>x, <2>3, <2>5, <3>0, <3>1, <4>1, <4>2, OldOrNewCert
    <3>2. ASSUME UNCHANGED board, up, q.pcr = pcr, q.from = Origin
          PROVE  q.from.boot \in seen'[x]
      <4>1. c.pcr = nv'
        BY <2>2, <2>5, <3>2 DEF board, Origin
      <4>2. q.from = Origin' /\ q.from.boot = boots'
        BY <3>2 DEF board, Origin
      <4>3. QED
        BY <2>4, <2>5, <4>1, <4>2
    <3>3. QED
      BY <1>x, <3>0, <3>1, <3>2, OldOrNewQuote
  <2>6. QED
    BY <2>1, <2>2, <2>4, <2>5 DEF Seen, QuoteSeen, PairSeen, CertLive, Shown, Ok
<1>1. QED
  BY <1>u, <1>n

\* And the boots on record are boots of the board.
LEMMA SeenInvStep ==
  Counts /\ Typed /\ RoundInv /\ SoundInv /\ SeenInv /\ [LNext]_lvars => SeenInv'
<1> SUFFICES ASSUME Counts, Typed, RoundInv, SoundInv, SeenInv, [LNext]_lvars PROVE SeenInv'
  OBVIOUS
<1>1. boots' \in 0..MaxBoots
  BY CountStep, SoundStep, RoundAssumption DEF SoundInv, BoardSound, Counts
<1>2. seen' \in [Round -> SUBSET (0..MaxBoots)]
  <2>1. CASE Watch
    BY <1>1, <2>1 DEF Watch, SeenInv
  <2>2. CASE UNCHANGED lvars
    BY <2>2 DEF lvars, SeenInv
  <2>3. QED
    BY <2>1, <2>2 DEF LNext
<1>3. QED
  BY <1>2, SeenStep DEF SeenInv

\* A passed round proves that, since it began and in the boot its quote names, the board
\* was up, with the release of the goldens in its PCRs and U-Boot's record of exactly that.
THEOREM PassIsGolden == LSpec => []PassMeansGoldenBoot
<1>1. ASSUME RoundInv, SeenInv, NEW r \in Round, pc[r] = "passed"
      PROVE  quote[r].from.boot \in seen[r]
  <2>1. Answer(r) /\ PairSeen(quote[r], cert[r], r)
    BY <1>1 DEF RoundInv, SeenInv, Seen
  <2>2. QED
    BY <1>1, <2>1 DEF Answer, PairSeen, Shown
<1>2. RoundInv /\ SeenInv => PassMeansGoldenBoot
  BY <1>1 DEF PassMeansGoldenBoot
<1>3. QED
  BY <1>2, TypeInit, RoundInit, SoundInit, SeenInit, RoundStep, SoundStep, SeenInvStep, PTL
     DEF LSpec

-----------------------------------------------------------------------------
\* An answered round ends with a verdict or an exception, or is killed.
LEMMA AnsweredSteps ==
  ASSUME Typed, [LNext]_lvars, NEW r \in Round, pc[r] = "answered",
         pc'[r] \notin {"answered", "gone"}
  PROVE  End(r) \/ Broken(r)
<1> DEFINE Goal == End(r) \/ Broken(r)
<1>t. pc \in [Round -> Step]
  BY DEF Typed
<1>1. CASE Restarts \/ Operator \/ PcrExtended
  BY <1>t, <1>1 DEF Restarts, Boot, TpmClear, DropConnections, Operator, Enroll, Provision,
                    PcrExtended, round
<1>2. ASSUME NEW v \in Round, NEW g \in Release, NEW m \in BOOLEAN, Start(v, g, m) PROVE Goal
  BY <1>t, <1>2 DEF Start, Ended
<1>3. ASSUME NEW v \in Round,
             \/ Quote(v) \/ Certify(v) \/ NoReply(v) \/ CopyNonce(v) \/ ScriptQuotes(v)
             \/ ScriptCertifies(v) \/ FetchQuote(v) \/ FetchQuoteSig(v) \/ FetchCert(v)
             \/ FetchCertSig(v) \/ CommandFails(v) \/ KilledWriting(v)
      PROVE  Goal
  BY <1>t, <1>3 DEF Quote, Certify, NoReply, CopyNonce, ScriptQuotes, ScriptCertifies, FetchQuote,
                    FetchQuoteSig, FetchCert, FetchCertSig, CommandFails, KilledWriting, Goes
<1>4. ASSUME NEW v \in Round, End(v) \/ Crash(v) PROVE Goal
  <2>1. v = r
    BY <1>t, <1>4 DEF End, Crash
  <2>2. QED
    BY <1>4, <2>1 DEF Crash
<1>5. CASE ForeignNonce \/ ForeignScriptQuotes \/ ForeignScriptCertifies \/ UNCHANGED lvars
  BY <1>5 DEF ForeignNonce, ForeignScriptQuotes, ForeignScriptCertifies, lvars, vvars, round
<1>6. QED
  BY <1>1, <1>2, <1>3, <1>4, <1>5 DEF LNext, LStep, Proceed

\* The state has the types it should, and a round passes on whole answers only.
THEOREM RoundTypes == LSpec => []LTypeOK
<1>1. ASSUME Counts, Typed, RoundInv, SoundInv, SeenInv PROVE LTypeOK
  <2>1. BoardSound /\ FileSound /\ FilesAreCurrent
    BY <1>1 DEF SoundInv, RoundInv
  <2>2. \A r \in Round : RoundSound(r) /\ Answer(r)
    BY <1>1 DEF SoundInv, RoundInv
  <2>3. resets \in 0..MaxBoots /\ boots \in 0..MaxBoots
    BY <1>1, <2>1, RoundAssumption DEF Counts, BoardSound
  <2>4. ASSUME NEW r \in Round
        PROVE  /\ quote[r] # None => quote[r].form \in QuoteForm
               /\ cert[r] # None => cert[r].form \in CertForm
               /\ pc[r] = "passed" => QuoteOk(r) /\ CertOk(r)
    BY <2>2 DEF RoundSound, Answer, QuoteOk, CertOk, Parsed, Ok
  <2>5. \A b \in {file.quote, file.cert} \ {None} : b.form = "whole" /\ b.nonce \in Nonce
    BY <2>1 DEF FileSound, FilesAreCurrent, Ok
  <2>6. VTypeOK
    <3>1. /\ up \in BOOLEAN /\ closed \in BOOLEAN /\ ak \in Nat
          /\ pc \in [Round -> Step]
      <4>1. up \in BOOLEAN /\ closed \in BOOLEAN
        BY <1>1 DEF Counts
      <4>2. ak \in Nat /\ pc \in [Round -> Step]
        BY <1>1 DEF Counts, Typed
      <4>3. QED
        BY <4>1, <4>2
    <3>2. /\ pcr \in State /\ nv \in State \cup {None} /\ enrolled \in Nat
          /\ saved \in (0..MaxBoots) \cup {None} /\ (saved = None <=> filed = Nowhere)
      BY <2>1 DEF BoardSound
    <3>3. QED
      BY <2>3, <2>4, <3>1, <3>2 DEF VTypeOK
  <2>7. QED
    BY <1>1, <2>1, <2>5, <2>6 DEF LTypeOK, FileSound, SeenInv
<1>2. QED
  BY <1>1, TypeInit, RoundInit, SoundInit, SeenInit, RoundStep, SoundStep, SeenInvStep, PTL
     DEF LSpec

\* A routine round on an enrolled board that booted the release passes, however the round
\* asked and whatever else happened before its verdict.
THEOREM GoodBoardsPass == LSpec => GoodBoardPasses
<1>1. ASSUME Counts, Typed, RoundInv, SoundInv, [LNext]_lvars, NEW r \in Round,
             pc[r] = "answered", pc'[r] \notin {"answered", "gone"}, ~must[r],
             QuoteOk(r), CertOk(r), AnswersNonce(r), quote[r].key # 0, cert[r].key # 0,
             quote[r].from = Origin, enrolled = ak, pcr.img = gold[r], nv = pcr
      PROVE  pc'[r] = "passed"
  <2>1. Ok(quote[r]) /\ Ok(cert[r])
    BY <1>1 DEF QuoteOk, CertOk, Parsed, Ok
  <2>2. cert[r].from = Origin
    BY <1>1, <2>1 DEF RoundInv, Answer, AnswersNonce
  <2>3. pcr \in State /\ pcr.img \in Release
    BY <1>1 DEF SoundInv, BoardSound, RoundSound
  <2>4. /\ quote[r].key = ak /\ cert[r].key = ak
        /\ quote[r].pcr = pcr /\ cert[r].pcr = pcr
    BY <1>1, <2>1, <2>2, <2>3, RoundAssumption
       DEF SoundInv, RoundSound, QuoteSound, QuoteSoundIn, CertSound, CertSoundIn, Origin
  <2>5. pcr \in GoldenStates(gold[r])
    BY <1>1, <2>3 DEF State, GoldenStates
  <2>6. Verdict(r)
    BY <1>1, <2>4, <2>5 DEF Verdict, SignedByEnrolled, GoodState, BootRecord
  <2>7. ~Broken(r)
    BY <1>1 DEF Broken, QuoteOk, CertOk
  <2>8. End(r)
    BY <1>1, <2>7, AnsweredSteps
  <2>9. QED
    BY <1>1, <2>6, <2>8 DEF End, Typed
<1>2. Counts /\ Typed /\ RoundInv /\ SoundInv /\ [LNext]_lvars
      => [\A r \in Round :
            /\ pc[r] = "answered" /\ pc'[r] \notin {"answered", "gone"} /\ ~must[r]
            /\ QuoteOk(r) /\ CertOk(r) /\ AnswersNonce(r) /\ quote[r].key # 0 /\ cert[r].key # 0
            /\ quote[r].from = Origin /\ enrolled = ak
            /\ pcr.img = gold[r] /\ nv = pcr
            => pc'[r] = "passed"]_vvars
  BY <1>1
<1>3. QED
  BY <1>2, TypeInit, RoundInit, SoundInit, RoundStep, SoundStep, PTL DEF LSpec, GoodBoardPasses

-----------------------------------------------------------------------------
(* What the statements that do not hold in general depend on.              *)

\* While one verifier runs one round at a time, the file is as its round has read it.
Alone ==
  \A r \in Round : pc[r] \notin {"idle"} \cup Ended => prev[r] = saved /\ since[r] = filed

\* It holds initially.
LEMMA AloneInit == LInit => Alone
BY DEF LInit, VInit, Alone

\* Every step keeps it, since the round that writes the file ends with that.
LEMMA AloneStep ==
  ASSUME \A v, w \in Round : v = w, Typed, Alone, [LNext]_lvars
  PROVE  Alone'
<1>t. /\ pc \in [Round -> Step] /\ DOMAIN prev = Round /\ DOMAIN since = Round
  BY DEF Typed
<1>1. ASSUME UNCHANGED <<saved, filed, prev, since>>,
             \A r \in Round : pc[r] \in {"idle"} \cup Ended => pc'[r] \in {"idle"} \cup Ended
      PROVE  Alone'
  BY <1>1 DEF Alone
<1>2. CASE Restarts \/ PcrExtended \/ Operator
  <2>1. /\ UNCHANGED <<saved, filed, prev, since>>
        /\ DropConnections \/ UNCHANGED pc
    BY <1>2 DEF Restarts, Boot, TpmClear, PcrExtended, Operator, Enroll, Provision, service, round
  <2>2. QED
    BY <1>t, <1>1, <2>1 DEF DropConnections, Ended
<1>3. ASSUME NEW r \in Round, NEW g \in Release, NEW m \in BOOLEAN, Start(r, g, m) PROVE Alone'
  BY <1>t, <1>3 DEF Start, service, Alone
<1>4. ASSUME NEW r \in Round, End(r) \/ KilledWriting(r) PROVE Alone'
  <2>1. pc'[r] \in Ended
    BY <1>t, <1>4 DEF End, KilledWriting, Ended
  <2>2. QED
    BY <2>1 DEF Alone
<1>5. ASSUME NEW r \in Round,
             \/ Quote(r) \/ Certify(r) \/ NoReply(r) \/ Crash(r) \/ CopyNonce(r)
             \/ ScriptQuotes(r) \/ ScriptCertifies(r) \/ FetchQuote(r) \/ FetchQuoteSig(r)
             \/ FetchCert(r) \/ FetchCertSig(r) \/ CommandFails(r)
      PROVE  Alone'
  <2>1. /\ UNCHANGED <<saved, filed, prev, since>>
        /\ pc[r] \notin {"idle"} \cup Ended
    BY <1>5 DEF Quote, Certify, NoReply, Crash, CopyNonce, ScriptQuotes, ScriptCertifies,
                FetchQuote, FetchQuoteSig, FetchCert, FetchCertSig, CommandFails, Kept, service,
                Goes, Ended
  <2>2. QED
    BY <1>1, <2>1
<1>6. CASE ForeignNonce \/ ForeignScriptQuotes \/ ForeignScriptCertifies \/ UNCHANGED lvars
  BY <1>1, <1>6
     DEF ForeignNonce, ForeignScriptQuotes, ForeignScriptCertifies, lvars, vvars, service, round
<1>7. QED
  BY <1>2, <1>3, <1>4, <1>5, <1>6 DEF LNext, LStep, Proceed

\* With one round at a time the resetCount on file never gives way to one of an earlier
\* boot, however the round asks and whatever other hosts do to the files on the board.
THEOREM BaselineIsKept ==
  (\A v, w \in Round : v = w) /\ LSpec => BaselineNeverMovesBack
<1> SUFFICES ASSUME \A v, w \in Round : v = w PROVE LSpec => BaselineNeverMovesBack
  OBVIOUS
<1>1. ASSUME Typed, FreshInv, SoundInv, Alone, [LNext]_lvars
      PROVE  filed'.boot >= filed.boot \/ filed' = Nowhere
  <2>1. filed.boot \in Nat
    BY <1>1 DEF Typed, Genuine
  <2>2. ASSUME NEW r \in Round, pc[r] = "answered", Ok(quote[r]), filed' = quote[r].from
        PROVE  quote[r].from.boot >= filed.boot
    <3>1. prev[r] = saved /\ since[r] = filed /\ quote[r].from.boot \in Nat
      BY <1>1, <2>2 DEF Alone, Ended, Typed, Genuine
    <3>2. CASE saved = None
      BY <1>1, <3>1, <3>2 DEF SoundInv, BoardSound, Nowhere
    <3>3. CASE saved # None
      BY <1>1, <2>1, <2>2, <3>1, <3>3 DEF FreshInv, Fresh, Later
    <3>4. QED
      BY <3>2, <3>3
  <2>3. QED
    BY <1>1, <2>1, <2>2, SavedSteps
<1>2. Typed /\ FreshInv /\ SoundInv /\ Alone /\ [LNext]_lvars
      => [filed'.boot >= filed.boot \/ filed' = Nowhere]_vvars
  BY <1>1
<1>3. Typed /\ Alone /\ [LNext]_lvars => Alone'
  BY AloneStep
<1>4. QED
  BY <1>2, <1>3, TypeInit, RoundInit, FreshInit, SoundInit, AloneInit, AllStep, SoundStep, PTL
     DEF LSpec, BaselineNeverMovesBack

=============================================================================
