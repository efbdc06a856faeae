------------------------------ MODULE MCVerifier ------------------------------
(* Small instances of Verifier and LegacyRound for TLC.                          *)
EXTENDS LegacyRound, TLC
CONSTANTS v1, v2, r1, r2
Symmetric == Permutations({r1, r2})
=============================================================================
