-------------------------- MODULE CommittedRelease --------------------------
(***************************************************************************)
(* What an updatable board promises, with no pairs, files or bits: there   *)
(* is one committed release; a release that is running may take its place; *)
(* the floor follows the committed release and never passes it; nothing    *)
(* below the floor ever runs.                                              *)
(***************************************************************************)
EXTENDS Integers

CONSTANTS Image, Version, FactoryImage, None

VARIABLES
  committed,  \* the release every plain boot runs
  floor,      \* the lowest version that may run
  up          \* the release that is running, or None

cvars == <<committed, floor, up>>

CInit ==
  /\ committed = FactoryImage
  /\ floor = 1
  /\ up = None

\* A boot: of the committed release, whose version is then the floor, or of a
\* trial, which leaves the floor alone.
Start(r) ==
  /\ up = None
  /\ Version[r] >= floor
  /\ up' = r
  /\ UNCHANGED <<committed, floor>>

Stop ==
  /\ up # None
  /\ up' = None
  /\ UNCHANGED <<committed, floor>>

RaiseFloor ==
  /\ up = None
  /\ floor < Version[committed]
  /\ floor' = floor + 1
  /\ UNCHANGED <<committed, up>>

\* Commitment is atomic, and only the running release can be committed.
Promote ==
  /\ up \in Image
  /\ committed' = up
  /\ UNCHANGED <<floor, up>>

CNext == (\E r \in Image : Start(r)) \/ Stop \/ RaiseFloor \/ Promote

Spec == CInit /\ [][CNext]_cvars
=============================================================================
