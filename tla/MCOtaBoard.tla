---------------------------- MODULE MCOtaBoard ----------------------------
(***************************************************************************)
(* Small instances of OtaBoard for TLC. Three releases: the factory one,   *)
(* its successor, and one two versions on (the counter has to catch up).   *)
(***************************************************************************)
EXTENDS OtaBoard

CONSTANTS r1, r2, r4, s1, s2

MCVersion == [i \in Image |-> IF i = r1 THEN 1 ELSE IF i = r2 THEN 2 ELSE 4]

Release(i, v) == [version |-> v, factory |-> FALSE, root |-> i, img |-> i, sig |-> i]

\* Releases as make-release.py builds them.
Honest == {Release(i, MCVersion[i]) : i \in Image}
\* r1 declared as version 4: the agent lets it through, U-Boot does not.
Replayed == Release(r1, 4)
\* tamper-release.py --mode boot-img: boot.img changed after signing.
TamperedBoot == [Release(r4, 4) EXCEPT !.img = Torn]
\* boot.img of one release, root of another.
Mixed == [Release(r2, 2) EXCEPT !.root = r4]
Factory == [Release(r1, 0) EXCEPT !.factory = TRUE]

MCManifest == Honest \cup {Replayed, TamperedBoot, Mixed, Factory}
MCTwoReleases == {Release(r2, 2), [Release(r2, 2) EXCEPT !.root = r1]}
MCHonest == Honest
MCOneRelease == {Release(r2, 2)}
=============================================================================
