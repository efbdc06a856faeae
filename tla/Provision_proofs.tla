-------------------------- MODULE Provision_proofs --------------------------
(* What the provisioning commands and boots do to the counter, for any        *)
(* sessions, verbs, faults and bound.                                         *)
EXTENDS Provision, TLAPS

USE ProvisionAssumption

\* A counter that can be read stands at the highest value the TPM has ever counted to.
CounterInv ==
  /\ highest \in Nat
  /\ ctr = [anchor |-> ctr.anchor, value |-> ctr.value]
  /\ ctr.value \in {0, highest}

\* What a step may do to the counter: nothing, remove or define it, count, or boot.
CounterStep ==
  \/ UNCHANGED <<ctr, highest>>
  \/ ctr'.value = 0 /\ ctr' = [anchor |-> ctr'.anchor, value |-> 0] /\ highest' = highest
  \/ \E s \in Session : Increment(s)
  \/ \E v \in 1..MaxCount : ReleaseBoot(v)

\* Commands other than the increment leave the counter alone, remove it or define it.
LEMMA CommandSteps ==
  ASSUME NEW s \in Session, Command(s)
  PROVE  CounterStep
<1> USE DEF CounterStep, tpm, NoCounter
<1>1. CASE FwKey(s) \/ FwHmac(s) \/ PersistAk(s) \/ Checked(s)
  BY <1>1 DEF FwKey, FwHmac, PersistAk, Checked
<1>2. CASE UndefineMeas(s) \/ DefineMeas(s) \/ DropMeas(s)
  BY <1>2 DEF UndefineMeas, DefineMeas, DropMeas, Undeleted
<1>3. CASE UndefineCounter(s)
  BY <1>3 DEF UndefineCounter
<1>4. CASE DefineCounter(s)
  BY <1>4 DEF DefineCounter
<1>5. CASE DropCounter(s)
  BY <1>5 DEF DropCounter, Undeleted
<1>6. CASE Increment(s)
  BY <1>6
<1>7. ASSUME NEW h \in Hierarchy, ChangeAuth(s, h) PROVE CounterStep
  BY <1>7 DEF ChangeAuth
<1>8. CASE Record(s) \/ Done(s)
  BY <1>8 DEF Record, Done
<1>9. QED
  BY <1>1, <1>2, <1>3, <1>4, <1>5, <1>6, <1>7, <1>8 DEF Command

\* Every step is one of these.
LEMMA OnlyCounterSteps == [PNext]_pvars => CounterStep
<1> SUFFICES ASSUME [PNext]_pvars PROVE CounterStep
  OBVIOUS
<1> USE DEF CounterStep, tpm, NoCounter
<1>1. ASSUME NEW s \in Session, NEW r \in Request, Begin(s, r) PROVE CounterStep
  BY <1>1 DEF Begin
<1>2. ASSUME NEW s \in Session, Command(s) PROVE CounterStep
  BY <1>2, CommandSteps
<1>3. ASSUME NEW s \in Session, CommandFails(s) PROVE CounterStep
  BY <1>3 DEF CommandFails, Refuse
<1>4. CASE Reset
  BY <1>4 DEF Reset, Off
<1>5. CASE TpmClear
  BY <1>5 DEF TpmClear, Off
<1>6. CASE FactoryBoot
  BY <1>6 DEF FactoryBoot
<1>7. CASE UNCHANGED pvars
  BY <1>7 DEF pvars
<1>8. QED
  BY <1>1, <1>2, <1>3, <1>4, <1>5, <1>6, <1>7 DEF PNext

\* The invariant holds of a board from stock.
LEMMA CounterInvInit == PInit => CounterInv
BY DEF PInit, CounterInv, NoCounter

\* Every step keeps it.
LEMMA CounterInvStep == CounterInv /\ [PNext]_pvars => CounterInv'
<1> SUFFICES ASSUME CounterInv, CounterStep PROVE CounterInv'
  BY OnlyCounterSteps
<1> USE DEF CounterInv
<1>1. ASSUME NEW s \in Session, Increment(s) PROVE CounterInv'
  <2>1. PICK n \in IF ctr.value = 0 THEN FirstCount ELSE {ctr.value + 1} :
          /\ ctr' = [ctr EXCEPT !.value = n]
          /\ highest' = IF n > highest THEN n ELSE highest
    BY <1>1 DEF Increment
  <2>2. n \in {highest, highest + 1}
    BY DEF FirstCount
  <2>3. highest' = n /\ ctr'.value = n
    BY <2>1, <2>2
  <2>4. QED
    BY <2>1, <2>2, <2>3
<1>2. ASSUME NEW v \in 1..MaxCount, ReleaseBoot(v) PROVE CounterInv'
  BY <1>2 DEF ReleaseBoot
<1>3. QED
  BY <1>1, <1>2 DEF CounterStep
=============================================================================
