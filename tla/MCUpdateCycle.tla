--------------------------- MODULE MCUpdateCycle ---------------------------
(* Small instances of UpdateCycle for TLC.                                    *)
EXTENDS UpdateCycle

CONSTANTS r1, r2, r4, u1, o1

MCVersion == [i \in Image |-> IF i = r1 THEN 1 ELSE IF i = r2 THEN 2 ELSE 4]
Release(i, v) == [version |-> v, factory |-> FALSE, root |-> i, img |-> i, sig |-> i]

Good == {Release(r2, 2), Release(r4, 4)}
\* boot.img of r2 with the root of r4: it boots nothing.
Mixed == [Release(r2, 2) EXCEPT !.root = r4]
\* A release directory whose manifest carries another build's goldens.
Mismade == Release(r2, 4)

MCManifest == Good \cup {Mixed, Mismade}
MCGood == Good
MCTwo == {Release(r2, 2), Mismade}
MCGolden == [m \in Manifest |-> IF m = Mismade THEN r4 ELSE m.img]
\* The goldens of the factory release, beside the images of r2.
MCStale == {Release(r2, 2)}
MCFactoryGolden == [m \in Manifest |-> r1]
AllFaults == {"lost", "power", "media", "slow", "monitor", "state"}
=============================================================================
