----------------------------- MODULE MCServerFiles -----------------------------
(* Small instances of ServerFiles for TLC.                                        *)
EXTENDS ServerFiles
CONSTANTS b1, b2, r1, r2, x, u1, u2, e1, e2
Both == [e \in Enroller |-> {"enroll", "enroll-dt"}]
OneEach == [e \in Enroller |-> IF e = e1 THEN {"enroll"} ELSE {"enroll-dt"}]
=============================================================================
