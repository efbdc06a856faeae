------------------------ MODULE ProvisionPromises_proofs ------------------------
(***************************************************************************)
(* What provisioning promises, for any sessions, verbs and faults: types,  *)
(* and that foreign authorisations change nothing. For one request at a    *)
(* time also what an ok means, and that a retry gets there.                *)
(*                                                                         *)
(* The scripts are sequences; what the proofs need of one is which commands*)
(* it still has, and in which order. Each is spelt out once (Scripts), and *)
(* what holds of a script holds of every rest of it (RestFits).            *)
(***************************************************************************)
EXTENDS Provision_proofs

USE ProvisionAssumption

-----------------------------------------------------------------------------
(* Sequences of commands.                                                  *)

\* The commands of the scripts. q has one of X; each of X in q comes before a y; none of X
\* comes before one of Y.
Cmd == {"key", "hmac", "ak", "undef_meas", "undef_ctr", "drop_meas", "drop_ctr", "unlocked",
        "no_ctr", "def_meas", "def_ctr", "increment", "owner", "endorsement", "lockout",
        "record", "done"}

Has(q, X) == \E i \in 1..Len(q) : q[i] \in X
Followed(q, X, y) == \A i \in 1..Len(q) : q[i] \in X => \E j \in (i + 1)..Len(q) : q[j] = y
Never(q, X, Y) == \A i, j \in 1..Len(q) : i < j /\ q[i] \in X => q[j] \notin Y

\* The rest of a sequence, by its places.
LEMMA TailIsLater ==
  ASSUME NEW q \in Seq(Cmd), q # <<>>
  PROVE  /\ Head(q) = q[1] /\ Tail(q) \in Seq(Cmd)
         /\ Len(Tail(q)) = Len(q) - 1
         /\ \A i \in 1..Len(Tail(q)) : Tail(q)[i] = q[i + 1]
OBVIOUS

\* A sequence has what its head is, or what its rest has.
LEMMA TailHas ==
  ASSUME NEW q \in Seq(Cmd), q # <<>>, NEW X
  PROVE  Has(q, X) <=> Head(q) \in X \/ Has(Tail(q), X)
<1>1. ASSUME NEW i \in 1..Len(q), q[i] \in X PROVE Head(q) \in X \/ Has(Tail(q), X)
  <2>1. i = 1 \/ (i - 1 \in 1..Len(Tail(q)) /\ Tail(q)[i - 1] \in X)
    BY <1>1, TailIsLater
  <2>2. QED
    BY <1>1, <2>1, TailIsLater DEF Has
<1>2. Has(Tail(q), X) => Has(q, X)
  BY TailIsLater DEF Has
<1>3. Head(q) \in X => Has(q, X)
  <2>1. 1 \in 1..Len(q)
    OBVIOUS
  <2>2. QED
    BY <2>1, TailIsLater DEF Has
<1>4. QED
  BY <1>1, <1>2, <1>3 DEF Has

\* What follows in a sequence follows in its rest.
LEMMA TailFollowed ==
  ASSUME NEW q \in Seq(Cmd), q # <<>>, NEW X, NEW y, Followed(q, X, y)
  PROVE  Followed(Tail(q), X, y) /\ (Head(q) \in X => Has(Tail(q), {y}))
<1>1. ASSUME NEW i \in 1..Len(q), q[i] \in X
      PROVE  \E j \in i..Len(Tail(q)) : Tail(q)[j] = y
  <2>1. PICK k \in (i + 1)..Len(q) : q[k] = y
    BY <1>1 DEF Followed
  <2>2. k - 1 \in i..Len(Tail(q)) /\ Tail(q)[k - 1] = y
    BY <2>1, TailIsLater
  <2>3. QED
    BY <2>2
<1>2. ASSUME NEW i \in 1..Len(Tail(q)), Tail(q)[i] \in X
      PROVE  \E j \in (i + 1)..Len(Tail(q)) : Tail(q)[j] = y
  <2>1. i + 1 \in 1..Len(q) /\ q[i + 1] \in X
    BY <1>2, TailIsLater
  <2>2. QED
    BY <1>1, <2>1
<1>3. ASSUME Head(q) \in X PROVE Has(Tail(q), {y})
  <2>1. 1 \in 1..Len(q) /\ q[1] \in X
    BY <1>3, TailIsLater
  <2>2. QED
    BY <1>1, <2>1 DEF Has
<1>4. QED
  BY <1>2, <1>3 DEF Followed

\* What never follows in a sequence never does in its rest.
LEMMA TailNever ==
  ASSUME NEW q \in Seq(Cmd), q # <<>>, NEW X, NEW Y, Never(q, X, Y)
  PROVE  Never(Tail(q), X, Y) /\ (Head(q) \in X => ~Has(Tail(q), Y))
<1>1. ASSUME NEW i \in 1..Len(Tail(q)), NEW j \in 1..Len(Tail(q)), i < j, Tail(q)[i] \in X
      PROVE  Tail(q)[j] \notin Y
  <2>1. /\ i + 1 \in 1..Len(q) /\ j + 1 \in 1..Len(q) /\ i + 1 < j + 1
        /\ q[i + 1] = Tail(q)[i] /\ q[j + 1] = Tail(q)[j]
    BY <1>1, TailIsLater
  <2>2. QED
    BY <1>1, <2>1 DEF Never
<1>2. ASSUME NEW j \in 1..Len(Tail(q)), Head(q) \in X PROVE Tail(q)[j] \notin Y
  <2>1. 1 \in 1..Len(q) /\ j + 1 \in 1..Len(q) /\ 1 < j + 1 /\ q[1] = Head(q)
        /\ q[j + 1] = Tail(q)[j]
    BY <1>2, TailIsLater
  <2>2. QED
    BY <1>2, <2>1 DEF Never
<1>3. QED
  BY <1>1, <1>2 DEF Never, Has

\* Two sequences joined, by their places.
LEMMA JoinIsBoth ==
  ASSUME NEW p \in Seq(Cmd), NEW q \in Seq(Cmd)
  PROVE  /\ p \o q \in Seq(Cmd)
         /\ Len(p \o q) = Len(p) + Len(q)
         /\ \A i \in 1..Len(p) : (p \o q)[i] = p[i]
         /\ \A i \in 1..Len(q) : (p \o q)[Len(p) + i] = q[i]
         /\ \A i \in 1..Len(p \o q) : i \in 1..Len(p) \/ i - Len(p) \in 1..Len(q)
OBVIOUS

\* r has the places of p and then those of q.
Joins(p, q, r) ==
  /\ p \in Seq(Cmd) /\ q \in Seq(Cmd) /\ r \in Seq(Cmd)
  /\ Len(r) = Len(p) + Len(q)
  /\ \A i \in 1..Len(p) : r[i] = p[i]
  /\ \A i \in 1..Len(q) : r[Len(p) + i] = q[i]

\* Sequences are equal that agree at every place.
LEMMA SameSeq ==
  ASSUME NEW r \in Seq(Cmd), NEW t \in Seq(Cmd), Len(r) = Len(t),
         \A i \in 1..Len(r) : r[i] = t[i]
  PROVE  r = t
OBVIOUS

\* Such an r is the two joined.
LEMMA JoinIs ==
  ASSUME NEW p, NEW q, NEW r, Joins(p, q, r)
  PROVE  p \o q = r
<1> USE DEF Joins
<1>1. p \o q \in Seq(Cmd) /\ Len(p \o q) = Len(r)
  BY JoinIsBoth
<1>2. \A i \in 1..Len(p \o q) : (p \o q)[i] = r[i]
  <2> SUFFICES ASSUME NEW i \in 1..Len(p \o q) PROVE (p \o q)[i] = r[i]
    OBVIOUS
  <2>1. CASE i \in 1..Len(p)
    BY <2>1, JoinIsBoth
  <2>2. CASE i - Len(p) \in 1..Len(q)
    <3>1. Len(p) + (i - Len(p)) = i
      OBVIOUS
    <3>2. QED
      BY <2>2, <3>1, JoinIsBoth
  <2>3. QED
    BY <2>1, <2>2, JoinIsBoth
<1>3. QED
  BY <1>1, <1>2, SameSeq

\* The scripts spelt out, on an open and on a closed TPM.
ProvisionOpen == <<"ak", "def_meas", "def_ctr", "increment", "owner", "endorsement",
                   "lockout", "record">>
FwKeyOpen == <<"key", "ak", "undef_meas", "undef_ctr", "def_meas", "def_ctr", "increment",
               "owner", "endorsement", "lockout", "record">>
FwKeyClosed == <<"key", "undef_meas", "undef_ctr", "def_meas", "def_ctr", "increment",
                 "record">>
FwHmacOpen == <<"key", "hmac", "ak", "undef_meas", "undef_ctr", "def_meas", "def_ctr",
                "increment", "owner", "endorsement", "lockout", "record">>
FwHmacClosed == <<"key", "hmac", "undef_meas", "undef_ctr", "def_meas", "def_ctr",
                  "increment", "record">>
HierarchyAuth == <<"owner", "endorsement", "lockout", "done">>
Reprovision == <<"unlocked", "drop_meas", "drop_ctr", "def_meas", "def_ctr", "increment",
                 "done">>

\* They are what the model composes.
LEMMA Scripts ==
  /\ "provision" \in Verb => Script("provision", FALSE) = ProvisionOpen
  /\ "provision-fwkey" \in Verb => Script("provision-fwkey", FALSE) = FwKeyOpen
  /\ "provision-fwkey" \in Verb => Script("provision-fwkey", TRUE) = FwKeyClosed
  /\ "provision-fwhmac" \in Verb => Script("provision-fwhmac", FALSE) = FwHmacOpen
  /\ "provision-fwhmac" \in Verb => Script("provision-fwhmac", TRUE) = FwHmacClosed
  /\ HierarchyAuthScript = HierarchyAuth
  /\ ReprovisionScript = Reprovision
<1>1. "provision" \in Verb => Script("provision", FALSE) = ProvisionOpen
  <2>1. <<>> \o <<"ak">> = <<"ak">>
    <3>1. Joins(<<>>, <<"ak">>, <<"ak">>)
      BY DEF Joins, Cmd
    <3>2. QED
      BY <3>1, JoinIs
  <2>2. <<"ak">> \o <<>> = <<"ak">>
    <3>1. Joins(<<"ak">>, <<>>, <<"ak">>)
      BY DEF Joins, Cmd
    <3>2. QED
      BY <3>1, JoinIs
  <2>3. <<"ak">> \o <<"def_meas", "def_ctr", "increment">>
         = <<"ak", "def_meas", "def_ctr", "increment">>
    <3>1. Joins(<<"ak">>, <<"def_meas", "def_ctr", "increment">>,
               <<"ak", "def_meas", "def_ctr", "increment">>)
      BY DEF Joins, Cmd
    <3>2. QED
      BY <3>1, JoinIs
  <2>4. <<"ak", "def_meas", "def_ctr", "increment">>
             \o <<"owner", "endorsement", "lockout">>
         = <<"ak", "def_meas", "def_ctr", "increment", "owner", "endorsement", "lockout">>
    <3>1. Joins(<<"ak", "def_meas", "def_ctr", "increment">>,
               <<"owner", "endorsement", "lockout">>,
               <<"ak", "def_meas", "def_ctr", "increment", "owner", "endorsement",
                 "lockout">>)
      BY DEF Joins, Cmd
    <3>2. QED
      BY <3>1, JoinIs
  <2>5. <<"ak", "def_meas", "def_ctr", "increment", "owner", "endorsement", "lockout">>
             \o <<"record">>
         = <<"ak", "def_meas", "def_ctr", "increment", "owner", "endorsement", "lockout",
             "record">>
    <3>1. Joins(<<"ak", "def_meas", "def_ctr", "increment", "owner", "endorsement",
                  "lockout">>,
               <<"record">>,
               <<"ak", "def_meas", "def_ctr", "increment", "owner", "endorsement",
                 "lockout", "record">>)
      BY DEF Joins, Cmd
    <3>2. QED
      BY <3>1, JoinIs
  <2>6. /\ "provision" \in Verb => KeySteps["provision"] = <<>>
        /\ Replace("provision") = <<>>
        /\ Script("provision", FALSE) =
             KeySteps["provision"] \o <<"ak">> \o Replace("provision") \o Define
               \o CloseHierarchies \o <<"record">>
    BY DEF Script, KeySteps, Replace
  <2>7. QED
    BY <2>1, <2>2, <2>3, <2>4, <2>5, <2>6, Zenon DEF ProvisionOpen, Define, CloseHierarchies
<1>2. "provision-fwkey" \in Verb => Script("provision-fwkey", FALSE) = FwKeyOpen
  <2>1. <<"key">> \o <<"ak">> = <<"key", "ak">>
    <3>1. Joins(<<"key">>, <<"ak">>, <<"key", "ak">>)
      BY DEF Joins, Cmd
    <3>2. QED
      BY <3>1, JoinIs
  <2>2. <<"key", "ak">> \o <<"undef_meas", "undef_ctr">>
         = <<"key", "ak", "undef_meas", "undef_ctr">>
    <3>1. Joins(<<"key", "ak">>, <<"undef_meas", "undef_ctr">>,
               <<"key", "ak", "undef_meas", "undef_ctr">>)
      BY DEF Joins, Cmd
    <3>2. QED
      BY <3>1, JoinIs
  <2>3. <<"key", "ak", "undef_meas", "undef_ctr">> \o <<"def_meas", "def_ctr", "increment">>
         = <<"key", "ak", "undef_meas", "undef_ctr", "def_meas", "def_ctr", "increment">>
    <3>1. Joins(<<"key", "ak", "undef_meas", "undef_ctr">>,
               <<"def_meas", "def_ctr", "increment">>,
               <<"key", "ak", "undef_meas", "undef_ctr", "def_meas", "def_ctr",
                 "increment">>)
      BY DEF Joins, Cmd
    <3>2. QED
      BY <3>1, JoinIs
  <2>4. <<"key", "ak", "undef_meas", "undef_ctr", "def_meas", "def_ctr", "increment">>
             \o <<"owner", "endorsement", "lockout">>
         = <<"key", "ak", "undef_meas", "undef_ctr", "def_meas", "def_ctr", "increment",
             "owner", "endorsement", "lockout">>
    <3>1. Joins(<<"key", "ak", "undef_meas", "undef_ctr", "def_meas", "def_ctr",
                  "increment">>,
               <<"owner", "endorsement", "lockout">>,
               <<"key", "ak", "undef_meas", "undef_ctr", "def_meas", "def_ctr",
                 "increment", "owner", "endorsement", "lockout">>)
      BY DEF Joins, Cmd
    <3>2. QED
      BY <3>1, JoinIs
  <2>5. <<"key", "ak", "undef_meas", "undef_ctr", "def_meas", "def_ctr", "increment",
          "owner", "endorsement", "lockout">> \o <<"record">>
         = <<"key", "ak", "undef_meas", "undef_ctr", "def_meas", "def_ctr", "increment",
             "owner", "endorsement", "lockout", "record">>
    <3>1. Joins(<<"key", "ak", "undef_meas", "undef_ctr", "def_meas", "def_ctr",
                  "increment", "owner", "endorsement", "lockout">>, <<"record">>,
               <<"key", "ak", "undef_meas", "undef_ctr", "def_meas", "def_ctr",
                 "increment", "owner", "endorsement", "lockout", "record">>)
      BY DEF Joins, Cmd
    <3>2. QED
      BY <3>1, JoinIs
  <2>6. /\ "provision-fwkey" \in Verb => KeySteps["provision-fwkey"] = <<"key">>
        /\ Replace("provision-fwkey") = <<"undef_meas", "undef_ctr">>
        /\ Script("provision-fwkey", FALSE) =
             KeySteps["provision-fwkey"] \o <<"ak">> \o Replace("provision-fwkey") \o Define
               \o CloseHierarchies \o <<"record">>
    BY DEF Script, KeySteps, Replace
  <2>7. QED
    BY <2>1, <2>2, <2>3, <2>4, <2>5, <2>6, Zenon DEF FwKeyOpen, Define, CloseHierarchies
<1>3. "provision-fwkey" \in Verb => Script("provision-fwkey", TRUE) = FwKeyClosed
  <2>1. <<"key">> \o <<>> = <<"key">>
    <3>1. Joins(<<"key">>, <<>>, <<"key">>)
      BY DEF Joins, Cmd
    <3>2. QED
      BY <3>1, JoinIs
  <2>2. <<"key">> \o <<"undef_meas", "undef_ctr">> = <<"key", "undef_meas", "undef_ctr">>
    <3>1. Joins(<<"key">>, <<"undef_meas", "undef_ctr">>,
               <<"key", "undef_meas", "undef_ctr">>)
      BY DEF Joins, Cmd
    <3>2. QED
      BY <3>1, JoinIs
  <2>3. <<"key", "undef_meas", "undef_ctr">> \o <<"def_meas", "def_ctr", "increment">>
         = <<"key", "undef_meas", "undef_ctr", "def_meas", "def_ctr", "increment">>
    <3>1. Joins(<<"key", "undef_meas", "undef_ctr">>,
               <<"def_meas", "def_ctr", "increment">>,
               <<"key", "undef_meas", "undef_ctr", "def_meas", "def_ctr", "increment">>)
      BY DEF Joins, Cmd
    <3>2. QED
      BY <3>1, JoinIs
  <2>4. <<"key", "undef_meas", "undef_ctr", "def_meas", "def_ctr", "increment">> \o <<>>
         = <<"key", "undef_meas", "undef_ctr", "def_meas", "def_ctr", "increment">>
    <3>1. Joins(<<"key", "undef_meas", "undef_ctr", "def_meas", "def_ctr", "increment">>,
               <<>>,
               <<"key", "undef_meas", "undef_ctr", "def_meas", "def_ctr", "increment">>)
      BY DEF Joins, Cmd
    <3>2. QED
      BY <3>1, JoinIs
  <2>5. <<"key", "undef_meas", "undef_ctr", "def_meas", "def_ctr", "increment">>
             \o <<"record">>
         = <<"key", "undef_meas", "undef_ctr", "def_meas", "def_ctr", "increment",
             "record">>
    <3>1. Joins(<<"key", "undef_meas", "undef_ctr", "def_meas", "def_ctr", "increment">>,
               <<"record">>,
               <<"key", "undef_meas", "undef_ctr", "def_meas", "def_ctr", "increment",
                 "record">>)
      BY DEF Joins, Cmd
    <3>2. QED
      BY <3>1, JoinIs
  <2>6. /\ "provision-fwkey" \in Verb => KeySteps["provision-fwkey"] = <<"key">>
        /\ Replace("provision-fwkey") = <<"undef_meas", "undef_ctr">>
        /\ Script("provision-fwkey", TRUE) =
             KeySteps["provision-fwkey"] \o <<>> \o Replace("provision-fwkey") \o Define
               \o <<>> \o <<"record">>
    BY DEF Script, KeySteps, Replace
  <2>7. QED
    BY <2>1, <2>2, <2>3, <2>4, <2>5, <2>6, Zenon DEF FwKeyClosed, Define, CloseHierarchies
<1>4. "provision-fwhmac" \in Verb => Script("provision-fwhmac", FALSE) = FwHmacOpen
  <2>1. <<"key", "hmac">> \o <<"ak">> = <<"key", "hmac", "ak">>
    <3>1. Joins(<<"key", "hmac">>, <<"ak">>, <<"key", "hmac", "ak">>)
      BY DEF Joins, Cmd
    <3>2. QED
      BY <3>1, JoinIs
  <2>2. <<"key", "hmac", "ak">> \o <<"undef_meas", "undef_ctr">>
         = <<"key", "hmac", "ak", "undef_meas", "undef_ctr">>
    <3>1. Joins(<<"key", "hmac", "ak">>, <<"undef_meas", "undef_ctr">>,
               <<"key", "hmac", "ak", "undef_meas", "undef_ctr">>)
      BY DEF Joins, Cmd
    <3>2. QED
      BY <3>1, JoinIs
  <2>3. <<"key", "hmac", "ak", "undef_meas", "undef_ctr">>
             \o <<"def_meas", "def_ctr", "increment">>
         = <<"key", "hmac", "ak", "undef_meas", "undef_ctr", "def_meas", "def_ctr",
             "increment">>
    <3>1. Joins(<<"key", "hmac", "ak", "undef_meas", "undef_ctr">>,
               <<"def_meas", "def_ctr", "increment">>,
               <<"key", "hmac", "ak", "undef_meas", "undef_ctr", "def_meas", "def_ctr",
                 "increment">>)
      BY DEF Joins, Cmd
    <3>2. QED
      BY <3>1, JoinIs
  <2>4. <<"key", "hmac", "ak", "undef_meas", "undef_ctr", "def_meas", "def_ctr",
          "increment">>
             \o <<"owner", "endorsement", "lockout">>
         = <<"key", "hmac", "ak", "undef_meas", "undef_ctr", "def_meas", "def_ctr",
             "increment", "owner", "endorsement", "lockout">>
    <3>1. Joins(<<"key", "hmac", "ak", "undef_meas", "undef_ctr", "def_meas", "def_ctr",
                  "increment">>,
               <<"owner", "endorsement", "lockout">>,
               <<"key", "hmac", "ak", "undef_meas", "undef_ctr", "def_meas", "def_ctr",
                 "increment", "owner", "endorsement", "lockout">>)
      BY DEF Joins, Cmd
    <3>2. QED
      BY <3>1, JoinIs
  <2>5. <<"key", "hmac", "ak", "undef_meas", "undef_ctr", "def_meas", "def_ctr",
          "increment", "owner", "endorsement", "lockout">> \o <<"record">>
         = <<"key", "hmac", "ak", "undef_meas", "undef_ctr", "def_meas", "def_ctr",
             "increment", "owner", "endorsement", "lockout", "record">>
    <3>1. Joins(<<"key", "hmac", "ak", "undef_meas", "undef_ctr", "def_meas", "def_ctr",
                  "increment", "owner", "endorsement", "lockout">>, <<"record">>,
               <<"key", "hmac", "ak", "undef_meas", "undef_ctr", "def_meas", "def_ctr",
                 "increment", "owner", "endorsement", "lockout", "record">>)
      BY DEF Joins, Cmd
    <3>2. QED
      BY <3>1, JoinIs
  <2>6. /\ "provision-fwhmac" \in Verb => KeySteps["provision-fwhmac"] = <<"key", "hmac">>
        /\ Replace("provision-fwhmac") = <<"undef_meas", "undef_ctr">>
        /\ Script("provision-fwhmac", FALSE) =
             KeySteps["provision-fwhmac"]
                        \o <<"ak">> \o Replace("provision-fwhmac") \o Define
               \o CloseHierarchies \o <<"record">>
    BY DEF Script, KeySteps, Replace
  <2>7. QED
    BY <2>1, <2>2, <2>3, <2>4, <2>5, <2>6, Zenon DEF FwHmacOpen, Define, CloseHierarchies
<1>5. "provision-fwhmac" \in Verb => Script("provision-fwhmac", TRUE) = FwHmacClosed
  <2>1. <<"key", "hmac">> \o <<>> = <<"key", "hmac">>
    <3>1. Joins(<<"key", "hmac">>, <<>>, <<"key", "hmac">>)
      BY DEF Joins, Cmd
    <3>2. QED
      BY <3>1, JoinIs
  <2>2. <<"key", "hmac">> \o <<"undef_meas", "undef_ctr">>
         = <<"key", "hmac", "undef_meas", "undef_ctr">>
    <3>1. Joins(<<"key", "hmac">>, <<"undef_meas", "undef_ctr">>,
               <<"key", "hmac", "undef_meas", "undef_ctr">>)
      BY DEF Joins, Cmd
    <3>2. QED
      BY <3>1, JoinIs
  <2>3. <<"key", "hmac", "undef_meas", "undef_ctr">>
             \o <<"def_meas", "def_ctr", "increment">>
         = <<"key", "hmac", "undef_meas", "undef_ctr", "def_meas", "def_ctr", "increment">>
    <3>1. Joins(<<"key", "hmac", "undef_meas", "undef_ctr">>,
               <<"def_meas", "def_ctr", "increment">>,
               <<"key", "hmac", "undef_meas", "undef_ctr", "def_meas", "def_ctr",
                 "increment">>)
      BY DEF Joins, Cmd
    <3>2. QED
      BY <3>1, JoinIs
  <2>4. <<"key", "hmac", "undef_meas", "undef_ctr", "def_meas", "def_ctr", "increment">>
             \o <<>>
         = <<"key", "hmac", "undef_meas", "undef_ctr", "def_meas", "def_ctr", "increment">>
    <3>1. Joins(<<"key", "hmac", "undef_meas", "undef_ctr", "def_meas", "def_ctr",
                  "increment">>,
               <<>>,
               <<"key", "hmac", "undef_meas", "undef_ctr", "def_meas", "def_ctr",
                 "increment">>)
      BY DEF Joins, Cmd
    <3>2. QED
      BY <3>1, JoinIs
  <2>5. <<"key", "hmac", "undef_meas", "undef_ctr", "def_meas", "def_ctr", "increment">>
             \o <<"record">>
         = <<"key", "hmac", "undef_meas", "undef_ctr", "def_meas", "def_ctr", "increment",
             "record">>
    <3>1. Joins(<<"key", "hmac", "undef_meas", "undef_ctr", "def_meas", "def_ctr",
                  "increment">>,
               <<"record">>,
               <<"key", "hmac", "undef_meas", "undef_ctr", "def_meas", "def_ctr",
                 "increment", "record">>)
      BY DEF Joins, Cmd
    <3>2. QED
      BY <3>1, JoinIs
  <2>6. /\ "provision-fwhmac" \in Verb => KeySteps["provision-fwhmac"] = <<"key", "hmac">>
        /\ Replace("provision-fwhmac") = <<"undef_meas", "undef_ctr">>
        /\ Script("provision-fwhmac", TRUE) =
             KeySteps["provision-fwhmac"] \o <<>> \o Replace("provision-fwhmac") \o Define
               \o <<>> \o <<"record">>
    BY DEF Script, KeySteps, Replace
  <2>7. QED
    BY <2>1, <2>2, <2>3, <2>4, <2>5, <2>6, Zenon DEF FwHmacClosed, Define, CloseHierarchies
<1>6. HierarchyAuthScript = HierarchyAuth
  <2>1. <<"owner", "endorsement", "lockout">> \o <<"done">>
         = <<"owner", "endorsement", "lockout", "done">>
    <3>1. Joins(<<"owner", "endorsement", "lockout">>, <<"done">>,
               <<"owner", "endorsement", "lockout", "done">>)
      BY DEF Joins, Cmd
    <3>2. QED
      BY <3>1, JoinIs
  <2>9. QED
    BY <2>1, JoinIs DEF HierarchyAuth, HierarchyAuthScript, CloseHierarchies
<1>7. ReprovisionScript = Reprovision
  <2>1. <<"unlocked", "drop_meas", "drop_ctr">> \o <<"def_meas", "def_ctr", "increment">>
         = <<"unlocked", "drop_meas", "drop_ctr", "def_meas", "def_ctr", "increment">>
    <3>1. Joins(<<"unlocked", "drop_meas", "drop_ctr">>,
               <<"def_meas", "def_ctr", "increment">>,
               <<"unlocked", "drop_meas", "drop_ctr", "def_meas", "def_ctr", "increment">>)
      BY DEF Joins, Cmd
    <3>2. QED
      BY <3>1, JoinIs
  <2>2. <<"unlocked", "drop_meas", "drop_ctr", "def_meas", "def_ctr", "increment">>
             \o <<"done">>
         = <<"unlocked", "drop_meas", "drop_ctr", "def_meas", "def_ctr", "increment",
             "done">>
    <3>1. Joins(<<"unlocked", "drop_meas", "drop_ctr", "def_meas", "def_ctr", "increment">>,
               <<"done">>,
               <<"unlocked", "drop_meas", "drop_ctr", "def_meas", "def_ctr", "increment",
                 "done">>)
      BY DEF Joins, Cmd
    <3>2. QED
      BY <3>1, JoinIs
  <2>9. QED
    BY <2>1, <2>2, JoinIs DEF Reprovision, ReprovisionScript, Define
<1>9. QED
  BY <1>1, <1>2, <1>3, <1>4, <1>5, <1>6, <1>7

-----------------------------------------------------------------------------
(* The rests of the scripts.                                               *)

\* What is removed is defined again, what is defined is counted up, nothing is removed after
\* it was defined, and the answer is last.
Orderly(q) ==
  /\ Followed(q, {"undef_meas", "drop_meas"}, "def_meas")
  /\ Followed(q, {"undef_ctr", "drop_ctr"}, "def_ctr")
  /\ Followed(q, {"undef_ctr", "drop_ctr", "def_ctr"}, "increment")
  /\ Never(q, {"def_meas"}, {"def_meas", "undef_meas", "drop_meas"})
  /\ Never(q, {"def_ctr", "increment"}, {"def_ctr", "undef_ctr", "drop_ctr"})
  /\ Never(q, {"record", "done"}, Cmd)

\* The verbs that make the indices anew, and those that first remove the old ones.
Renews == Serviced \cup {"reprovision-indices"}
Replaces == Looks \cup {"reprovision-indices"}

\* What the rest q of the script of request r has and lacks, with the owner's value or not.
Fits(r, own, q) ==
  /\ q \in Seq(Cmd) /\ Orderly(q)
  /\ own => ~Has(q, Hierarchy)
  /\ r.verb = "provision-nv-index" => ~own /\ ~Has(q, Hierarchy \cup {"increment"})
  /\ r.verb \in {"enroll", "provision-hierarchy-auth"} => ~Has(q, {"increment"})
  /\ own /\ r.verb \in Replaces => ~Has(q, {"ak", "no_ctr"})
  /\ r.verb \in Looks => ~Has(q, {"unlocked"})
  /\ r.verb \in Serviced => ~Has(q, {"done"})

\* What fits a request goes on to fit it.
LEMMA RestFits ==
  ASSUME NEW r, NEW own, NEW q, q # <<>>, Fits(r, own, q)
  PROVE  Fits(r, own, Tail(q))
<1> q \in Seq(Cmd)
  BY DEF Fits
<1>1. Orderly(Tail(q))
  BY TailFollowed, TailNever DEF Fits, Orderly
<1>2. \A X : Has(Tail(q), X) => Has(q, X)
  BY TailHas
<1>3. Tail(q) \in Seq(Cmd)
  BY TailIsLater
<1>4. QED
  BY <1>1, <1>2, <1>3 DEF Fits

\* A script that keeps the order.
Whole(q) == q \in Seq(Cmd) /\ Orderly(q)
\* Every script does.
LEMMA ScriptsKeepOrder ==
  /\ Whole(ProvisionOpen) /\ Whole(FwKeyOpen) /\ Whole(FwKeyClosed)
  /\ Whole(FwHmacOpen) /\ Whole(FwHmacClosed) /\ Whole(HierarchyAuth) /\ Whole(Reprovision)
  /\ Whole(<<"record">>) /\ Whole(NvIndexScript) /\ Whole(CounterScript)
<1> USE DEF Whole, Cmd, Orderly, Followed, Never
<1>1. Whole(ProvisionOpen)
  BY DEF ProvisionOpen
<1>2. Whole(FwKeyOpen)
  BY DEF FwKeyOpen
<1>3. Whole(FwKeyClosed)
  BY DEF FwKeyClosed
<1>4. Whole(FwHmacOpen)
  BY DEF FwHmacOpen
<1>5. Whole(FwHmacClosed)
  BY DEF FwHmacClosed
<1>6. Whole(HierarchyAuth)
  BY DEF HierarchyAuth
<1>7. Whole(Reprovision)
  BY DEF Reprovision
<1>8. Whole(<<"record">>) /\ Whole(NvIndexScript) /\ Whole(CounterScript)
  BY DEF NvIndexScript, CounterScript
<1>9. QED
  BY <1>1, <1>2, <1>3, <1>4, <1>5, <1>6, <1>7, <1>8

\* What a script that makes the indices anew has, at its start.
Renewal(q) == Has(q, {"def_meas"}) /\ Has(q, {"def_ctr"}) /\ Has(q, {"increment"})
Replacement(q) == Has(q, {"undef_meas", "drop_meas"}) /\ Has(q, {"undef_ctr", "drop_ctr"})

\* What the scripts of the service have and lack.
LEMMA ServicedScripts ==
  /\ Renewal(ProvisionOpen) /\ Has(ProvisionOpen, {"owner"}) /\ ~Has(ProvisionOpen, {"done"})
  /\ Renewal(FwKeyOpen) /\ Has(FwKeyOpen, {"owner"}) /\ ~Has(FwKeyOpen, {"done", "unlocked"})
  /\ Renewal(FwHmacOpen) /\ Has(FwHmacOpen, {"owner"}) /\ ~Has(FwHmacOpen, {"done", "unlocked"})
  /\ Renewal(FwKeyClosed) /\ Replacement(FwKeyClosed)
  /\ ~Has(FwKeyClosed, Hierarchy \cup {"ak", "no_ctr", "done", "unlocked"})
  /\ Renewal(FwHmacClosed) /\ Replacement(FwHmacClosed)
  /\ ~Has(FwHmacClosed, Hierarchy \cup {"ak", "no_ctr", "done", "unlocked"})
<1> USE DEF Renewal, Replacement, Has, Hierarchy
<1>1. Renewal(ProvisionOpen) /\ Has(ProvisionOpen, {"owner"}) /\ ~Has(ProvisionOpen, {"done"})
  BY DEF ProvisionOpen
<1>2. Renewal(FwKeyOpen) /\ Has(FwKeyOpen, {"owner"}) /\ ~Has(FwKeyOpen, {"done", "unlocked"})
  BY DEF FwKeyOpen
<1>3. Renewal(FwHmacOpen) /\ Has(FwHmacOpen, {"owner"}) /\ ~Has(FwHmacOpen, {"done", "unlocked"})
  BY DEF FwHmacOpen
<1>4. /\ Renewal(FwKeyClosed) /\ Replacement(FwKeyClosed)
      /\ ~Has(FwKeyClosed, Hierarchy \cup {"ak", "no_ctr", "done", "unlocked"})
  BY DEF FwKeyClosed
<1>5. /\ Renewal(FwHmacClosed) /\ Replacement(FwHmacClosed)
      /\ ~Has(FwHmacClosed, Hierarchy \cup {"ak", "no_ctr", "done", "unlocked"})
  BY DEF FwHmacClosed
<1>6. QED
  BY <1>1, <1>2, <1>3, <1>4, <1>5

\* What the scripts run by hand have and lack.
LEMMA HandScripts ==
  /\ ~Has(<<"record">>, Hierarchy \cup {"increment"})
  /\ ~Has(NvIndexScript, Hierarchy \cup {"increment"})
  /\ ~Has(CounterScript, Hierarchy) /\ Has(CounterScript, {"def_ctr"})
  /\ ~Has(HierarchyAuth, {"increment"})
  /\ Renewal(Reprovision) /\ Replacement(Reprovision)
  /\ ~Has(Reprovision, Hierarchy \cup {"ak", "no_ctr"})
<1> USE DEF Renewal, Replacement, Has, Hierarchy
<1>1. ~Has(<<"record">>, Hierarchy \cup {"increment"})
  OBVIOUS
<1>2. /\ ~Has(NvIndexScript, Hierarchy \cup {"increment"})
      /\ ~Has(CounterScript, Hierarchy) /\ Has(CounterScript, {"def_ctr"})
  BY DEF NvIndexScript, CounterScript
<1>3. ~Has(HierarchyAuth, {"increment"})
  BY DEF HierarchyAuth
<1>4. /\ Renewal(Reprovision) /\ Replacement(Reprovision)
      /\ ~Has(Reprovision, Hierarchy \cup {"ak", "no_ctr"})
  BY DEF Reprovision
<1>5. QED
  BY <1>1, <1>2, <1>3, <1>4

\* What has none of a set has none of a part of it.
LEMMA Smaller == ASSUME NEW q, NEW X, NEW Y \in SUBSET X, ~Has(q, X) PROVE ~Has(q, Y)
BY DEF Has

\* The script a request starts with.
LEMMA FitsAtStart ==
  ASSUME NEW r \in Request, NEW own \in BOOLEAN,
         own = GivesOwner(r)
  PROVE  LET q == Script(r.verb, FoundClosed(r)) IN
         /\ Fits(r, own, q)
         /\ r.verb \in Renews => Renewal(q)
         /\ own => Has(q, {"def_ctr"})
         /\ r.verb \in Renews => Has(q, {"owner"}) \/ own
         /\ r.verb \in Replaces /\ own => Replacement(q)
<1> DEFINE q == Script(r.verb, FoundClosed(r))
<1>0. r.verb \in Verb
  BY DEF Request
<1>a. FoundClosed(r) \in BOOLEAN
  BY DEF FoundClosed
<1> USE DEF GivesOwner, Renews, Replaces, Serviced, Looks
<1>1. CASE r.verb = "provision"
  <2>1. ~FoundClosed(r) /\ ~own
    BY <1>1 DEF FoundClosed
  <2>2. q = ProvisionOpen
    BY <1>0, <1>a, <1>1, <2>1, Scripts
  <2>3. QED
    BY <1>1, <2>1, <2>2, ScriptsKeepOrder, ServicedScripts DEF Fits, Whole
<1>2. CASE r.verb = "provision-fwkey" /\ ~FoundClosed(r)
  <2>1. q = FwKeyOpen /\ ~own
    BY <1>0, <1>a, <1>2, Scripts
  <2>2. ~Has(q, {"done"}) /\ ~Has(q, {"unlocked"})
    BY <2>1, ServicedScripts, Smaller
  <2>3. QED
    BY <1>2, <2>1, <2>2, ScriptsKeepOrder, ServicedScripts DEF Fits, Whole
<1>3. CASE r.verb = "provision-fwhmac" /\ ~FoundClosed(r)
  <2>1. q = FwHmacOpen /\ ~own
    BY <1>0, <1>a, <1>3, Scripts
  <2>2. ~Has(q, {"done"}) /\ ~Has(q, {"unlocked"})
    BY <2>1, ServicedScripts, Smaller
  <2>3. QED
    BY <1>3, <2>1, <2>2, ScriptsKeepOrder, ServicedScripts DEF Fits, Whole
<1>4. CASE r.verb \in Looks /\ FoundClosed(r)
  <2>1. (q = FwKeyClosed \/ q = FwHmacClosed) /\ own
    BY <1>0, <1>a, <1>4, Scripts
  <2>2. /\ ~Has(q, {"done"}) /\ ~Has(q, {"unlocked"}) /\ ~Has(q, Hierarchy)
        /\ ~Has(q, {"ak", "no_ctr"})
    BY <2>1, ServicedScripts, Smaller
  <2>3. QED
    BY <1>4, <2>1, <2>2, ScriptsKeepOrder, ServicedScripts DEF Fits, Whole, Renewal
<1>5. CASE r.verb = "enroll"
  <2>1. q = <<"record">> /\ ~own
    BY <1>5 DEF Script, FoundClosed
  <2>2. ~Has(q, {"increment"})
    BY <2>1, HandScripts, Smaller
  <2>3. QED
    BY <1>5, <2>1, <2>2, ScriptsKeepOrder DEF Fits, Whole
<1>6. CASE r.verb = "provision-nv-index"
  <2>1. q = NvIndexScript /\ ~own
    BY <1>6 DEF Script, FoundClosed
  <2>2. QED
    BY <1>6, <2>1, HandScripts, ScriptsKeepOrder DEF Fits, Whole
<1>7. CASE r.verb = "provision-counter"
  <2>1. q = CounterScript
    BY <1>7 DEF Script
  <2>2. QED
    BY <1>7, <2>1, HandScripts, ScriptsKeepOrder DEF Fits, Whole
<1>8. CASE r.verb = "provision-hierarchy-auth"
  <2>1. q = HierarchyAuth /\ ~own
    BY <1>8, Scripts DEF Script, FoundClosed
  <2>2. QED
    BY <1>8, <2>1, HandScripts, ScriptsKeepOrder DEF Fits, Whole
<1>9. CASE r.verb = "reprovision-indices"
  <2>1. q = Reprovision /\ own
    BY <1>9, Scripts DEF Script
  <2>2. ~Has(q, Hierarchy) /\ ~Has(q, {"ak", "no_ctr"})
    BY <2>1, HandScripts, Smaller
  <2>3. QED
    BY <1>9, <2>1, <2>2, HandScripts, ScriptsKeepOrder DEF Fits, Whole, Renewal
<1>10. QED
  BY <1>0, <1>1, <1>2, <1>3, <1>4, <1>5, <1>6, <1>7, <1>8, <1>9, ProvisionAssumption

-----------------------------------------------------------------------------
(* Handlers.                                                               *)

\* A handler runs while the board is up, has not answered, and has a fitting rest to do.
Handlers ==
  /\ todo \in [Session -> Seq(Cmd)]
  /\ req \in [Session -> Request \cup {None}]
  /\ asOwner \in [Session -> BOOLEAN]
  /\ reply \in [Session -> {"none", "ok", "refused", "failed"}]
  /\ \A s \in Session : ~Idle(s) =>
       /\ up # "off" /\ req[s] \in Request /\ reply[s] \in {"none", "failed"}
       /\ Fits(req[s], asOwner[s], todo[s])

\* What a step may do to the handler of session s.
Runs(s) ==
  /\ ~Idle(s) /\ todo' = [todo EXCEPT ![s] = Tail(@)] /\ UNCHANGED <<req, asOwner>>
  /\ reply' = reply \/ reply' = [reply EXCEPT ![s] = "failed"]
Answers == {"ok", "refused", "failed"}
HandlerStep ==
  \/ \E s \in Session, r \in Request : Begin(s, r)
  \/ up' = up /\ \E s \in Session : ~Idle(s) /\ (Runs(s) \/ \E a \in Answers : End(s, a))
  \/ Off
  \/ UNCHANGED handler /\ (up = "off" \/ up' = up) /\ (up' = up \/ up' \in {"factory", "release"})

\* A command runs on or ends, and so does one that fails.
LEMMA OneHandlerSteps ==
  ASSUME NEW s \in Session, Command(s) \/ CommandFails(s)
  PROVE  up' = up /\ ~Idle(s) /\ (Runs(s) \/ \E a \in Answers : End(s, a))
<1> USE DEF Runs, Run, At, Answers, handler
<1>1. CASE FwKey(s) \/ FwHmac(s) \/ PersistAk(s) \/ Checked(s)
  BY <1>1 DEF FwKey, FwHmac, PersistAk, Checked
<1>2. CASE \/ UndefineMeas(s) \/ DefineMeas(s)
           \/ UndefineCounter(s) \/ DefineCounter(s) \/ Increment(s)
  BY <1>2 DEF UndefineMeas, DefineMeas, UndefineCounter, DefineCounter, Increment
<1>3. CASE DropMeas(s) \/ DropCounter(s)
  BY <1>3 DEF DropMeas, DropCounter, Undeleted
<1>4. ASSUME NEW h \in Hierarchy, ChangeAuth(s, h)
      PROVE  up' = up /\ ~Idle(s) /\ Runs(s)
  BY <1>4 DEF ChangeAuth
<1>5. CASE Record(s) \/ Done(s)
  BY <1>5 DEF Record, Done
<1>6. CASE CommandFails(s)
  BY <1>6 DEF CommandFails, Refuse
<1>7. QED
  BY <1>1, <1>2, <1>3, <1>4, <1>5, <1>6 DEF Command

\* Every step is one of these.
LEMMA OnlyHandlerSteps == [PNext]_pvars => HandlerStep
<1> SUFFICES ASSUME [PNext]_pvars PROVE HandlerStep
  OBVIOUS
<1> USE DEF HandlerStep
<1>1. ASSUME NEW s \in Session, Command(s) \/ CommandFails(s) PROVE HandlerStep
  BY <1>1, OneHandlerSteps
<1>2. CASE Reset \/ TpmClear
  BY <1>2 DEF Reset, TpmClear
<1>3. CASE FactoryBoot
  BY <1>3 DEF FactoryBoot
<1>4. ASSUME NEW v \in 1..MaxCount, ReleaseBoot(v) PROVE HandlerStep
  BY <1>4 DEF ReleaseBoot
<1>5. CASE UNCHANGED pvars
  BY <1>5 DEF pvars
<1>6. QED
  BY <1>1, <1>2, <1>3, <1>4, <1>5 DEF PNext

\* At first no handler runs.
LEMMA HandlersInit == PInit => Handlers
BY DEF PInit, Handlers, Idle

\* What beginning a request sets.
LEMMA BegunHandler ==
  ASSUME Handlers, NEW s \in Session, NEW r \in Request, Begin(s, r)
  PROVE  /\ todo'[s] = <<>> \/ todo'[s] = Script(r.verb, FoundClosed(r))
         /\ req'[s] = r /\ asOwner'[s] = GivesOwner(r) /\ reply'[s] \in {"none", "refused"}
         /\ todo'[s] # <<>> => reply'[s] = "none"
         /\ \A t \in Session \ {s} :
              /\ todo'[t] = todo[t] /\ req'[t] = req[t] /\ asOwner'[t] = asOwner[t]
              /\ reply'[t] = reply[t]
BY DEF Begin, Handlers

\* Every step keeps the handlers well formed.
LEMMA HandlersStep == Handlers /\ [PNext]_pvars => Handlers'
<1> SUFFICES ASSUME Handlers, HandlerStep PROVE Handlers'
  BY OnlyHandlerSteps
<1>1. ASSUME NEW s \in Session, NEW r \in Request, Begin(s, r) PROVE Handlers'
  <2> DEFINE q == Script(r.verb, FoundClosed(r))
  <2>1. GivesOwner(r) \in BOOLEAN
    BY DEF GivesOwner, FoundClosed
  <2>2. Fits(r, GivesOwner(r), q)
    BY <2>1, FitsAtStart
  <2>3. q \in Seq(Cmd) /\ <<>> \in Seq(Cmd)
    BY <2>2 DEF Fits
  <2> HIDE DEF q
  <2>4. /\ todo' \in [Session -> Seq(Cmd)] /\ asOwner' \in [Session -> BOOLEAN]
        /\ req' \in [Session -> Request \cup {None}]
        /\ reply' \in [Session -> {"none", "ok", "refused", "failed"}]
    BY <1>1, <2>1, <2>3 DEF Begin, Handlers, q
  <2>5. ASSUME NEW t \in Session, ~Idle(t)'
        PROVE  /\ up' # "off" /\ req'[t] \in Request /\ reply'[t] \in {"none", "failed"}
               /\ Fits(req'[t], asOwner'[t], todo'[t])
    <3>1. up' # "off"
      BY <1>1 DEF Begin
    <3>2. CASE t = s
      BY <1>1, <2>2, <2>5, <3>1, <3>2, BegunHandler DEF q, Idle
    <3>3. CASE t # s
      BY <1>1, <2>5, <3>1, <3>3, BegunHandler DEF Handlers, Idle
    <3>4. QED
      BY <3>2, <3>3
  <2>6. QED
    BY <2>4, <2>5 DEF Handlers
<1>2. ASSUME NEW s \in Session, Runs(s), up' = up PROVE Handlers'
  <2>0. Tail(todo[s]) \in Seq(Cmd) /\ Fits(req[s], asOwner[s], Tail(todo[s]))
    BY <1>2, RestFits, TailIsLater DEF Runs, Idle, Handlers
  <2>1. /\ todo'[s] = Tail(todo[s]) /\ \A t \in Session \ {s} : todo'[t] = todo[t]
        /\ reply'[s] \in {reply[s], "failed"} /\ \A t \in Session \ {s} : reply'[t] = reply[t]
    BY <1>2 DEF Runs, Handlers
  <2>2. /\ todo' \in [Session -> Seq(Cmd)] /\ asOwner' \in [Session -> BOOLEAN]
        /\ req' \in [Session -> Request \cup {None}]
        /\ reply' \in [Session -> {"none", "ok", "refused", "failed"}]
    BY <1>2, <2>0 DEF Runs, Handlers
  <2>3. ASSUME NEW t \in Session, ~Idle(t)'
        PROVE  /\ up' # "off" /\ req'[t] \in Request /\ reply'[t] \in {"none", "failed"}
               /\ Fits(req'[t], asOwner'[t], todo'[t])
    BY <1>2, <2>0, <2>1, <2>3 DEF Runs, Idle, Handlers
  <2>4. QED
    BY <2>2, <2>3 DEF Handlers
<1>3. ASSUME NEW s \in Session, NEW a \in Answers, End(s, a), up' = up PROVE Handlers'
  <2>1. <<>> \in Seq(Cmd)
    OBVIOUS
  <2>2. /\ todo'[s] = <<>>
        /\ \A t \in Session \ {s} : /\ todo'[t] = todo[t] /\ req'[t] = req[t]
                                    /\ asOwner'[t] = asOwner[t] /\ reply'[t] = reply[t]
    BY <1>3 DEF End, Handlers
  <2>3. /\ todo' \in [Session -> Seq(Cmd)] /\ asOwner' \in [Session -> BOOLEAN]
        /\ req' \in [Session -> Request \cup {None}]
        /\ reply' \in [Session -> {"none", "ok", "refused", "failed"}]
    BY <1>3, <2>1 DEF End, Handlers, Answers
  <2>4. ASSUME NEW t \in Session, ~Idle(t)'
        PROVE  /\ up' # "off" /\ req'[t] \in Request /\ reply'[t] \in {"none", "failed"}
               /\ Fits(req'[t], asOwner'[t], todo'[t])
    BY <1>3, <2>2, <2>4 DEF Idle, Handlers
  <2>5. QED
    BY <2>3, <2>4 DEF Handlers
<1>4. CASE Off
  <2>1. <<>> \in Seq(Cmd)
    OBVIOUS
  <2>2. QED
    BY <1>4, <2>1 DEF Off, Handlers, Idle
<1>5. CASE /\ UNCHANGED handler
           /\ up = "off" \/ up' = up
           /\ up' = up \/ up' \in {"factory", "release"}
  BY <1>5 DEF handler, Handlers, Idle
<1>6. QED
  BY <1>1, <1>2, <1>3, <1>4, <1>5 DEF HandlerStep

-----------------------------------------------------------------------------
(* What survives a reset.                                                  *)

\* The rules an index may have.
Rule == {"duid", "fwkey", "fwhmac", "duid_other", "duid_nopp"}

\* What survives a reset is well typed, an index that is not defined holds nothing.
Chip ==
  /\ otp \in BOOLEAN /\ locked \in BOOLEAN /\ ak \in BOOLEAN
  /\ auth \in [Hierarchy -> {"empty", "own", "other"}]
  /\ meas \in [anchor : Rule \cup {None}, written : BOOLEAN]
  /\ meas.anchor = None => meas = NoIndex
  /\ CounterInv
  /\ ctr.anchor = None => ctr = NoCounter
  /\ up \in {"off", "factory", "release"}
  /\ enr = [current |-> enr.current, name |-> enr.name]
  /\ enr.current => enr.name.anchor # None

\* A request's rule, and whose values it gives.
LEMMA RuleOfRequest ==
  ASSUME NEW r \in Request
  PROVE  /\ IndexRule(r) \in Rule \cup {None}
         /\ r.verb \notin {"enroll", "provision-hierarchy-auth"} => IndexRule(r) # None
         /\ r.auths.who \in {"own", "other"}
<1>1. r.verb \in Verb /\ r.auths.who \in {"own", "other"}
  BY DEF Request, DerivedAuths, HandMadeAuths
<1>2. QED
  BY <1>1 DEF IndexRule, Anchor, Rule

\* A board from stock is well typed.
LEMMA ChipInit == PInit => Chip
<1> SUFFICES ASSUME PInit PROVE Chip
  OBVIOUS
<1> USE DEF PInit
<1>1. NoIndex \in [anchor : Rule \cup {None}, written : BOOLEAN] /\ NoIndex.anchor = None
  BY DEF NoIndex
<1>2. CounterInv /\ ctr = NoCounter /\ meas = NoIndex
  BY CounterInvInit
<1>3. enr = [current |-> enr.current, name |-> enr.name] /\ ~enr.current
  OBVIOUS
<1>4. auth \in [Hierarchy -> {"empty", "own", "other"}]
  OBVIOUS
<1>5. QED
  BY <1>1, <1>2, <1>3, <1>4 DEF Chip

\* Only a counter that is defined is counted up.
LEMMA CounterChip ==
  ASSUME Handlers, Chip, NEW s \in Session, Increment(s)
  PROVE  ctr'.anchor = None => ctr' = NoCounter
<1>1. req[s] \in Request /\ Fits(req[s], asOwner[s], todo[s]) /\ Has(todo[s], {"increment"})
  <2>1. ~Idle(s) /\ Head(todo[s]) = "increment" /\ todo[s] \in Seq(Cmd)
    BY DEF Increment, Run, At, Handlers
  <2>2. QED
    BY <2>1, TailHas DEF Handlers, Idle
<1>2. IndexRule(req[s]) # None
  BY <1>1, RuleOfRequest DEF Fits
<1>3. ctr'.anchor = ctr.anchor
  BY DEF Increment, Chip, CounterInv
<1>4. QED
  BY <1>2, <1>3 DEF Increment

\* Every command keeps what survives well typed.
LEMMA CommandChip ==
  ASSUME Handlers, Chip, NEW s \in Session, Command(s), CounterInv'
  PROVE  Chip'
<1> USE DEF Chip, tpm
<1>0. ~Idle(s) /\ req[s] \in Request
  BY OneHandlerSteps DEF Handlers
<1>1. CASE FwKey(s) \/ FwHmac(s) \/ PersistAk(s) \/ Checked(s)
  BY <1>1 DEF FwKey, FwHmac, PersistAk, Checked
<1>2. CASE UndefineMeas(s) \/ DropMeas(s)
  <2>1. NoIndex \in [anchor : Rule \cup {None}, written : BOOLEAN]
    BY DEF NoIndex
  <2>2. CASE UndefineMeas(s)
    BY <2>1, <2>2 DEF UndefineMeas
  <2>3. CASE DropMeas(s)
    BY <2>1, <2>3 DEF DropMeas, Undeleted
  <2>4. QED
    BY <1>2, <2>2, <2>3
<1>3. CASE UndefineCounter(s) \/ DropCounter(s)
  BY <1>3 DEF UndefineCounter, DropCounter, Undeleted, NoCounter
<1>4. CASE DefineMeas(s)
  BY <1>0, <1>4, RuleOfRequest DEF DefineMeas, NoIndex
<1>5. CASE DefineCounter(s)
  BY <1>0, <1>5, RuleOfRequest DEF DefineCounter, NoCounter
<1>6. CASE Increment(s)
  BY <1>6, CounterChip DEF Increment
<1>7. ASSUME NEW h \in Hierarchy, ChangeAuth(s, h) PROVE Chip'
  BY <1>0, <1>7, RuleOfRequest DEF ChangeAuth
<1>8. CASE Record(s)
  <2>1. RecordedName(s).anchor = meas.anchor
    BY DEF RecordedName
  <2>2. QED
    BY <1>8, <2>1 DEF Record
<1>9. CASE Done(s)
  BY <1>9 DEF Done
<1>10. QED
  BY <1>1, <1>2, <1>3, <1>4, <1>5, <1>6, <1>7, <1>8, <1>9 DEF Command

\* Every step does.
LEMMA ChipStep == Handlers /\ Chip /\ [PNext]_pvars => Chip'
<1> SUFFICES ASSUME Handlers, Chip, [PNext]_pvars PROVE Chip'
  OBVIOUS
<1>0. CounterInv'
  BY CounterInvStep DEF Chip
<1> USE DEF Chip, tpm
<1>1. ASSUME NEW s \in Session, NEW r \in Request, Begin(s, r) PROVE Chip'
  BY <1>0, <1>1 DEF Begin
<1>2. ASSUME NEW s \in Session, Command(s) PROVE Chip'
  BY <1>0, <1>2, CommandChip
<1>3. ASSUME NEW s \in Session, CommandFails(s) PROVE Chip'
  BY <1>0, <1>3 DEF CommandFails, Refuse
<1>4. CASE Reset
  BY <1>0, <1>4 DEF Reset, Off
<1>5. CASE TpmClear
  BY <1>0, <1>5 DEF TpmClear, Off, NoIndex, NoCounter, Hierarchy
<1>6. CASE FactoryBoot
  <2> DEFINE b == meas.anchor \in {"duid", "duid_nopp"}
  <2>1. meas' = [meas EXCEPT !.written = b] /\ b \in BOOLEAN
    BY <1>6 DEF FactoryBoot
  <2> HIDE DEF b
  <2>2. /\ meas' \in [anchor : Rule \cup {None}, written : BOOLEAN]
        /\ meas'.anchor = None => meas' = NoIndex
    BY <2>1 DEF NoIndex, Rule, b
  <2>3. up' = "factory" /\ UNCHANGED <<otp, locked, auth, ak, ctr, enr>>
    BY <1>6 DEF FactoryBoot
  <2>4. QED
    BY <1>0, <2>2, <2>3
<1>7. ASSUME NEW v \in 1..MaxCount, ReleaseBoot(v) PROVE Chip'
  BY <1>0, <1>7 DEF ReleaseBoot, NoIndex, Rule, NoCounter, CounterInv
<1>8. CASE UNCHANGED pvars
  BY <1>0, <1>8 DEF pvars
<1>9. QED
  BY <1>1, <1>2, <1>3, <1>4, <1>5, <1>6, <1>7, <1>8 DEF PNext

\* Both together.
TInv == Handlers /\ Chip
\* Every step keeps them.
LEMMA TInvStep == TInv /\ [PNext]_pvars => TInv'
BY HandlersStep, ChipStep DEF TInv
\* They always hold.
LEMMA AlwaysTInv == PSpec => []TInv
<1>1. PInit => TInv
  BY HandlersInit, ChipInit DEF TInv
<1>2. QED
  BY <1>1, TInvStep, PTL DEF PSpec

\* Every reachable state is well typed: what outlives requests, resets and clears, and the
\* answers of handlers (PTypeOK).
THEOREM ProvisionTypeCorrect == PSpec => []PTypeOK
<1>1. TInv => PTypeOK
  BY DEF TInv, Handlers, Chip, PTypeOK, CounterInv
<1>2. QED
  BY <1>1, AlwaysTInv, PTL

-----------------------------------------------------------------------------
(* Foreign authorisations.                                                 *)

\* Sequences of different lengths differ.
LEMMA LengthTells ==
  ASSUME NEW p \in Seq(Cmd), NEW q \in Seq(Cmd), Len(p) = Len(q) - 1
  PROVE  p # q
<1>1. Len(q) \in Nat
  OBVIOUS
<1>2. p = q => Len(p) = Len(q)
  OBVIOUS
<1>3. QED
  BY <1>1, <1>2
\* The rest of a sequence is another sequence.
LEMMA TailDiffers ==
  ASSUME NEW q \in Seq(Cmd), q # <<>>
  PROVE  Tail(q) # q
BY TailIsLater, LengthTells

\* The command a step runs is the one its script is at.
LEMMA WhichCommand ==
  ASSUME NEW s \in Session, Command(s)
  PROVE  /\ Head(todo[s]) = "def_meas" => DefineMeas(s)
         /\ Head(todo[s]) = "def_ctr" => DefineCounter(s)
         /\ Head(todo[s]) = "increment" => Increment(s)
         /\ Head(todo[s]) = "undef_meas" => UndefineMeas(s)
         /\ Head(todo[s]) = "undef_ctr" => UndefineCounter(s)
         /\ Head(todo[s]) = "drop_meas" => DropMeas(s)
         /\ Head(todo[s]) = "drop_ctr" => DropCounter(s)
         /\ Head(todo[s]) = "owner" => ChangeAuth(s, "owner")
         /\ Head(todo[s]) = "record" => Record(s)
         /\ Head(todo[s]) = "done" => Done(s)
<1>1. CASE FwKey(s) \/ FwHmac(s) \/ PersistAk(s) \/ Checked(s)
  BY <1>1 DEF FwKey, FwHmac, PersistAk, Checked, Run, At
<1>2. CASE UndefineMeas(s) \/ UndefineCounter(s) \/ DropMeas(s) \/ DropCounter(s)
  BY <1>2 DEF UndefineMeas, UndefineCounter, DropMeas, DropCounter, Run, At
<1>3. CASE DefineMeas(s) \/ DefineCounter(s) \/ Increment(s)
  BY <1>3 DEF DefineMeas, DefineCounter, Increment, Run, At
<1>4. ASSUME NEW h \in Hierarchy, ChangeAuth(s, h)
      PROVE  Head(todo[s]) = h
  BY <1>4 DEF ChangeAuth, Run, At
<1>5. CASE Record(s) \/ Done(s)
  BY <1>5 DEF Record, Done, At
<1>6. QED
  BY <1>1, <1>2, <1>3, <1>4, <1>5 DEF Command, Hierarchy

\* Every step is of one handler, or of a board on which none runs.
LEMMA StepKinds ==
  ASSUME [PNext]_pvars
  PROVE  \/ \E s \in Session, r \in Request : Begin(s, r)
         \/ \E s \in Session : Command(s) \/ CommandFails(s)
         \/ Reset
         \/ up = "off"
         \/ UNCHANGED pvars
BY DEF PNext, TpmClear, FactoryBoot, ReleaseBoot

\* What an authorisation has been set to stays while any handler runs.
LEMMA OwnerStays ==
  ASSUME TInv, [PNext]_pvars, NEW t \in Session, ~Idle(t), auth["owner"] # "empty"
  PROVE  auth'["owner"] = auth["owner"]
<1>1. up # "off"
  BY DEF TInv, Handlers
<1>2. ASSUME NEW s \in Session, Command(s) PROVE auth'["owner"] = auth["owner"]
  BY <1>2 DEF Command, FwKey, FwHmac, PersistAk, Checked, UndefineMeas, DefineMeas, DropMeas,
     UndefineCounter, DefineCounter, DropCounter, Undeleted, Increment, ChangeAuth, Record, Done,
     tpm, TInv, Chip, Hierarchy
<1>3. ASSUME NEW s \in Session, CommandFails(s) \/ \E r \in Request : Begin(s, r)
      PROVE  auth' = auth
  BY <1>3 DEF CommandFails, Refuse, Begin, tpm
<1>4. Reset \/ UNCHANGED pvars => auth' = auth
  BY DEF Reset, pvars, tpm
<1>5. QED
  BY <1>1, <1>2, <1>3, <1>4, StepKinds

\* A script that gives the owner's value counts only where that value was right.
OwnerGiven ==
  \A s \in Session : ~Idle(s) /\ asOwner[s] /\ Has(todo[s], {"increment"}) =>
    Has(todo[s], {"def_ctr"}) \/ OwnerOk(s)

\* At first no script runs.
LEMMA OwnerGivenInit == PInit => OwnerGiven
BY DEF PInit, OwnerGiven, Idle

\* Every step keeps it: nothing but a clear takes an authorisation back.
LEMMA OwnerGivenStep == TInv /\ OwnerGiven /\ [PNext]_pvars => OwnerGiven'
<1> SUFFICES ASSUME TInv, OwnerGiven, [PNext]_pvars, NEW t \in Session,
                    ~Idle(t)', asOwner'[t], Has(todo'[t], {"increment"})
             PROVE  Has(todo'[t], {"def_ctr"}) \/ OwnerOk(t)'
  BY DEF OwnerGiven
<1> USE DEF TInv
<1>1. ASSUME todo'[t] = todo[t], asOwner'[t] = asOwner[t], req'[t] = req[t]
      PROVE  Has(todo'[t], {"def_ctr"}) \/ OwnerOk(t)'
  <2>1. ~Idle(t) /\ asOwner[t] /\ req[t] \in Request
    BY <1>1 DEF Idle, Handlers
  <2>2. CASE OwnerOk(t)
    BY <1>1, <2>1, <2>2, OwnerStays, RuleOfRequest DEF OwnerOk
  <2>3. QED
    BY <1>1, <2>1, <2>2 DEF OwnerGiven
<1>2. ASSUME NEW s \in Session, NEW r \in Request, Begin(s, r)
      PROVE  Has(todo'[t], {"def_ctr"}) \/ OwnerOk(t)'
  <2>1. CASE t = s
    <3>1. GivesOwner(r) \in BOOLEAN
      BY DEF GivesOwner, FoundClosed
    <3>2. QED
      BY <1>2, <2>1, <3>1, BegunHandler, FitsAtStart DEF Idle
  <2>2. CASE t # s
    BY <1>1, <1>2, <2>2, BegunHandler
  <2>3. QED
    BY <2>1, <2>2
<1>3. ASSUME NEW s \in Session, Command(s) \/ CommandFails(s)
      PROVE  Has(todo'[t], {"def_ctr"}) \/ OwnerOk(t)'
  <2>1. ~Idle(s) /\ (Runs(s) \/ \E a \in Answers : End(s, a))
    BY <1>3, OneHandlerSteps
  <2>2. CASE t # s
    <3>1. todo'[t] = todo[t] /\ asOwner'[t] = asOwner[t] /\ req'[t] = req[t]
      BY <2>1, <2>2 DEF Runs, End, Handlers
    <3>2. QED
      BY <1>1, <3>1
  <2>3. CASE t = s
    <3>1. Runs(s) /\ Command(s)
      BY <1>3, <2>1, <2>3 DEF End, Idle, Handlers, CommandFails, Refuse
    <3>2. /\ todo'[s] = Tail(todo[s]) /\ asOwner'[s] = asOwner[s] /\ req'[s] = req[s]
          /\ todo[s] \in Seq(Cmd) /\ todo[s] # <<>>
      BY <2>1, <3>1 DEF Runs, Handlers, Idle
    <3>3. Has(todo[s], {"increment"}) /\ asOwner[s]
      BY <2>3, <3>2, TailHas
    <3>4. CASE Head(todo[s]) = "def_ctr"
      <4>1. OwnerOk(s) /\ auth' = auth
        BY <3>1, <3>4, WhichCommand DEF DefineCounter
      <4>2. QED
        BY <2>3, <3>2, <4>1 DEF OwnerOk
    <3>5. CASE Head(todo[s]) # "def_ctr" /\ Has(todo[s], {"def_ctr"})
      BY <2>3, <3>2, <3>5, TailHas
    <3>6. CASE OwnerOk(s)
      BY <2>1, <2>3, <3>2, <3>3, <3>6, OwnerStays, RuleOfRequest DEF OwnerOk, Handlers
    <3>7. QED
      BY <2>1, <3>3, <3>4, <3>5, <3>6 DEF OwnerGiven
  <2>4. QED
    BY <2>2, <2>3
<1>4. CASE Reset
  BY <1>4 DEF Reset, Off, Idle
<1>5. CASE up = "off"
  BY <1>5, OnlyHandlerSteps DEF HandlerStep, Handlers, Off, Idle, Begin, handler
<1>6. CASE UNCHANGED pvars
  BY <1>1, <1>6 DEF pvars, handler
<1>7. QED
  BY <1>2, <1>3, <1>4, <1>5, <1>6, StepKinds

\* On a closed TPM a request with another board's owner authorisation, or with none, changes
\* nothing, whatever other sessions do (ForeignAuthsChangeNothing). Commands that define or
\* remove fail without the owner's value; the increment asks for none, but comes after one
\* that does.
THEOREM ForeignIsHarmless == PSpec => ForeignAuthsChangeNothing
<1>1. ASSUME TInv, OwnerGiven, PNext, NEW s \in Session, ~Idle(s), todo'[s] = Tail(todo[s]),
             auth["owner"] # "empty",
             IF asOwner[s] THEN req[s].auths.who # auth["owner"]
             ELSE req[s].verb = "provision-nv-index"
      PROVE  UNCHANGED tpm
  <2> USE DEF TInv
  <2>1. /\ up # "off" /\ req[s] \in Request /\ Fits(req[s], asOwner[s], todo[s])
        /\ todo[s] \in Seq(Cmd) /\ todo[s] # <<>> /\ asOwner[s] \in BOOLEAN /\ ~OwnerOk(s)
    BY <1>1 DEF Handlers, Idle, OwnerOk
  <2>2. todo'[s] # todo[s]
    BY <1>1, <2>1, TailDiffers
  <2>3. ASSUME NEW t \in Session, Command(t) PROVE UNCHANGED tpm
    <3>1. t = s
      <4>1. Runs(t) \/ \E a \in Answers : End(t, a)
        BY <2>3, OneHandlerSteps
      <4>2. QED
        BY <1>1, <2>2, <4>1 DEF Runs, End, Handlers
    <3>2. CASE FwKey(s) \/ FwHmac(s) \/ Checked(s) \/ Record(s) \/ Done(s)
      BY <3>2 DEF FwKey, FwHmac, Checked, Record, Done
    <3>3. CASE PersistAk(s) \/ DefineMeas(s) \/ DefineCounter(s)
      BY <2>1, <3>3 DEF PersistAk, DefineMeas, DefineCounter
    <3>4. CASE UndefineMeas(s) \/ UndefineCounter(s)
      BY <2>1, <3>4 DEF UndefineMeas, UndefineCounter, tpm
    <3>5. CASE DropMeas(s) \/ DropCounter(s)
      BY <2>1, <3>5 DEF DropMeas, DropCounter, Undeleted, tpm
    <3>6. ~Increment(s)
      <4> SUFFICES ASSUME Increment(s) PROVE FALSE
        OBVIOUS
      <4>1. Head(todo[s]) = "increment"
        BY DEF Increment, Run, At
      <4>2. Has(todo[s], {"increment"}) /\ ~Has(todo[s], {"def_ctr"})
        <5>1. ~Has(Tail(todo[s]), {"def_ctr", "undef_ctr", "drop_ctr"})
          BY <2>1, <4>1, TailNever DEF Fits, Orderly
        <5>2. QED
          BY <2>1, <4>1, <5>1, Smaller, TailHas
      <4>3. asOwner[s]
        BY <1>1, <2>1, <4>1, TailHas DEF Fits
      <4>4. QED
        BY <1>1, <2>1, <4>2, <4>3 DEF OwnerGiven
    <3>7. ASSUME NEW h \in Hierarchy PROVE ~ChangeAuth(s, h)
      BY <1>1, <2>1, TailHas DEF ChangeAuth, Run, At, Fits
    <3>8. QED
      BY <2>3, <3>1, <3>2, <3>3, <3>4, <3>5, <3>6, <3>7 DEF Command
  <2>4. ASSUME NEW t \in Session, CommandFails(t) \/ \E r \in Request : Begin(t, r)
        PROVE  UNCHANGED tpm
    BY <2>4 DEF CommandFails, Refuse, Begin
  <2>5. Reset => UNCHANGED tpm
    BY DEF Reset, Off, tpm
  <2>6. QED
    BY <1>1, <2>1, <2>3, <2>4, <2>5 DEF PNext, TpmClear, FactoryBoot, ReleaseBoot
<1>2. TInv /\ OwnerGiven /\ [PNext]_pvars =>
        [\A s \in Session :
           /\ ~Idle(s) /\ todo'[s] = Tail(todo[s]) /\ auth["owner"] # "empty"
           /\ IF asOwner[s] THEN req[s].auths.who # auth["owner"]
              ELSE req[s].verb = "provision-nv-index"
           => UNCHANGED tpm]_pvars
  BY <1>1
<1>3. PSpec => []OwnerGiven
  BY OwnerGivenInit, OwnerGivenStep, AlwaysTInv, PTL DEF PSpec
<1>4. QED
  BY <1>2, <1>3, AlwaysTInv, PTL DEF PSpec, ForeignAuthsChangeNothing

-----------------------------------------------------------------------------
(* One request at a time.                                                  *)

\* One request at a time.
OneSession == \A s, t \in Session : s = t

\* What is not yet so is still to be done.
Owed(s) ==
  ~Idle(s) /\ req[s].verb \in Renews =>
    /\ Has(todo[s], {"def_meas"}) \/ meas.anchor = IndexRule(req[s])
    /\ Has(todo[s], {"def_ctr"}) \/ ctr.anchor = IndexRule(req[s])
    /\ Has(todo[s], {"increment"}) \/ ctr.value > 0
    /\ \/ auth["owner"] # "empty" \/ Has(todo[s], {"owner"})
       \/ asOwner[s] /\ Has(todo[s], {"def_meas"})

\* What is in the way of a definition is still to be removed.
Cleared(s) ==
  ~Idle(s) /\ req[s].verb \in Replaces /\ asOwner[s] /\ reply[s] = "none" =>
    /\ Has(todo[s], {"undef_meas", "drop_meas"}) \/ ~Has(todo[s], {"def_meas"}) \/ meas = NoIndex
    /\ Has(todo[s], {"undef_ctr", "drop_ctr"}) \/ ~Has(todo[s], {"def_ctr"}) \/ ctr = NoCounter

\* Of every session.
RInv == \A s \in Session : Owed(s) /\ Cleared(s)

LEMMA MeasChanges ==
  ASSUME TInv, NEW s \in Session, Command(s)
  PROVE  /\ Head(todo[s]) \notin {"undef_meas", "drop_meas", "def_meas"} => meas' = meas
         /\ Head(todo[s]) \in {"undef_meas", "drop_meas"} => meas' = NoIndex \/ reply'[s] = "failed"
         /\ Head(todo[s]) = "def_meas" => meas'.anchor = IndexRule(req[s])
<1>1. CASE FwKey(s) \/ FwHmac(s) \/ PersistAk(s) \/ Checked(s) \/ Record(s) \/ Done(s)
  BY <1>1 DEF FwKey, FwHmac, PersistAk, Checked, Record, Done, Run, At, tpm
<1>2. CASE UndefineMeas(s) \/ DefineMeas(s)
  BY <1>2 DEF UndefineMeas, DefineMeas, Run, At
<1>3. CASE UndefineCounter(s) \/ DefineCounter(s) \/ Increment(s)
  BY <1>3 DEF UndefineCounter, DefineCounter, Increment, Run, At
<1>4. CASE DropMeas(s)
  BY <1>4 DEF DropMeas, Undeleted, Run, At, tpm, TInv, Handlers
<1>5. CASE DropCounter(s)
  BY <1>5 DEF DropCounter, Undeleted, Run, At, tpm
<1>6. ASSUME NEW h \in Hierarchy, ChangeAuth(s, h) PROVE meas' = meas /\ Head(todo[s]) = h
  BY <1>6 DEF ChangeAuth, Run, At
<1>7. QED
  BY <1>1, <1>2, <1>3, <1>4, <1>5, <1>6 DEF Command, Hierarchy

\* What a command does to the counter, by its name.
LEMMA CounterChanges ==
  ASSUME TInv, NEW s \in Session, Command(s)
  PROVE  /\ Head(todo[s]) \notin {"undef_ctr", "drop_ctr", "def_ctr", "increment"} => ctr' = ctr
         /\ Head(todo[s]) \in {"undef_ctr", "drop_ctr"} => ctr' = NoCounter \/ reply'[s] = "failed"
         /\ Head(todo[s]) = "def_ctr" => ctr'.anchor = IndexRule(req[s])
         /\ Head(todo[s]) = "increment" => ctr'.anchor = ctr.anchor /\ ctr'.value > 0
<1>1. CASE FwKey(s) \/ FwHmac(s) \/ PersistAk(s) \/ Checked(s) \/ Record(s) \/ Done(s)
  BY <1>1 DEF FwKey, FwHmac, PersistAk, Checked, Record, Done, Run, At, tpm
<1>2. CASE UndefineMeas(s) \/ DefineMeas(s)
  BY <1>2 DEF UndefineMeas, DefineMeas, Run, At
<1>3. CASE UndefineCounter(s) \/ DefineCounter(s)
  BY <1>3 DEF UndefineCounter, DefineCounter, Run, At
<1>4. CASE DropMeas(s)
  BY <1>4 DEF DropMeas, Undeleted, Run, At, tpm
<1>5. CASE DropCounter(s)
  BY <1>5 DEF DropCounter, Undeleted, Run, At, tpm, TInv, Handlers
<1>6. ASSUME NEW h \in Hierarchy, ChangeAuth(s, h) PROVE ctr' = ctr /\ Head(todo[s]) = h
  BY <1>6 DEF ChangeAuth, Run, At
<1>7. CASE Increment(s)
  <2>1. PICK n \in IF ctr.value = 0 THEN FirstCount ELSE {ctr.value + 1} :
          ctr' = [ctr EXCEPT !.value = n]
    BY <1>7 DEF Increment
  <2>2. ctr = [anchor |-> ctr.anchor, value |-> ctr.value] /\ highest \in Nat
        /\ ctr.value \in {0, highest}
    BY DEF TInv, Chip, CounterInv
  <2>3. n \in Nat /\ n > 0
    BY <2>1, <2>2 DEF FirstCount
  <2>4. QED
    BY <1>7, <2>1, <2>2, <2>3 DEF Increment, Run, At
<1>8. QED
  BY <1>1, <1>2, <1>3, <1>4, <1>5, <1>6, <1>7 DEF Command, Hierarchy

\* At first no handler owes anything.
LEMMA RInvInit == PInit => RInv
BY DEF PInit, RInv, Owed, Cleared, Idle

\* A command leaves its handler with less to do, or with the rest still to do.
LEMMA CommandOwed ==
  ASSUME TInv, NEW s \in Session, Command(s), Owed(s), [PNext]_pvars
  PROVE  Owed(s)'
<1> SUFFICES ASSUME ~Idle(s)', req'[s].verb \in Renews
             PROVE  /\ Has(todo'[s], {"def_meas"}) \/ meas'.anchor = IndexRule(req'[s])
                    /\ Has(todo'[s], {"def_ctr"}) \/ ctr'.anchor = IndexRule(req'[s])
                    /\ Has(todo'[s], {"increment"}) \/ ctr'.value > 0
                    /\ \/ auth'["owner"] # "empty" \/ Has(todo'[s], {"owner"})
                       \/ asOwner'[s] /\ Has(todo'[s], {"def_meas"})
  BY DEF Owed, IndexRule
<1> DEFINE q == todo[s]
<1>1. /\ ~Idle(s) /\ q \in Seq(Cmd) /\ q # <<>> /\ todo'[s] = Tail(q)
      /\ req'[s] = req[s] /\ asOwner'[s] = asOwner[s] /\ asOwner[s] \in BOOLEAN
      /\ req[s] \in Request /\ Fits(req[s], asOwner[s], q)
  BY OneHandlerSteps DEF Runs, End, Idle, TInv, Handlers
<1> USE <1>1
<1> HIDE DEF q
<1>2. \A X : Has(q, X) <=> Head(q) \in X \/ Has(Tail(q), X)
  BY TailHas
<1>3. Orderly(q)
  BY DEF Fits
<1>4. Head(q) \in {"undef_meas", "drop_meas"} => Has(Tail(q), {"def_meas"})
  BY <1>3, TailFollowed DEF Orderly
<1>5. Head(q) \in {"undef_ctr", "drop_ctr"} => Has(Tail(q), {"def_ctr"})
  BY <1>3, TailFollowed DEF Orderly
<1>6. Head(q) \in {"undef_ctr", "drop_ctr", "def_ctr"} => Has(Tail(q), {"increment"})
  BY <1>3, TailFollowed DEF Orderly
<1>7. Has(todo'[s], {"def_meas"}) \/ meas'.anchor = IndexRule(req'[s])
  BY <1>2, <1>4, MeasChanges DEF Owed, q
<1>8. Has(todo'[s], {"def_ctr"}) \/ ctr'.anchor = IndexRule(req'[s])
  BY <1>2, <1>5, CounterChanges DEF Owed, q
<1>9. Has(todo'[s], {"increment"}) \/ ctr'.value > 0
  BY <1>2, <1>6, CounterChanges DEF Owed, q
<1>10. \/ auth'["owner"] # "empty" \/ Has(todo'[s], {"owner"})
       \/ asOwner'[s] /\ Has(todo'[s], {"def_meas"})
  <2>1. CASE auth["owner"] # "empty"
    BY <2>1, OwnerStays
  <2>2. CASE Has(q, {"owner"})
    <3>1. CASE Head(q) = "owner"
      BY <3>1, WhichCommand, RuleOfRequest DEF ChangeAuth, TInv, Chip, Hierarchy, q
    <3>2. QED
      BY <1>2, <2>2, <3>1
  <2>3. CASE asOwner[s] /\ Has(q, {"def_meas"})
    <3>1. CASE Head(q) = "def_meas"
      <4>1. OwnerOk(s) /\ auth' = auth
        BY <3>1, WhichCommand DEF DefineMeas, q
      <4>2. QED
        BY <2>3, <4>1, RuleOfRequest DEF OwnerOk
    <3>2. QED
      BY <1>2, <2>3, <3>1
  <2>4. QED
    BY <2>1, <2>2, <2>3 DEF Owed, q
<1>11. QED
  BY <1>7, <1>8, <1>9, <1>10

\* A command keeps the way to a definition clear.
LEMMA CommandCleared ==
  ASSUME TInv, NEW s \in Session, Command(s), Cleared(s)
  PROVE  Cleared(s)'
<1> SUFFICES ASSUME ~Idle(s)', req'[s].verb \in Replaces, asOwner'[s], reply'[s] = "none"
             PROVE  /\ \/ Has(todo'[s], {"undef_meas", "drop_meas"})
                       \/ ~Has(todo'[s], {"def_meas"}) \/ meas' = NoIndex
                    /\ \/ Has(todo'[s], {"undef_ctr", "drop_ctr"})
                       \/ ~Has(todo'[s], {"def_ctr"}) \/ ctr' = NoCounter
  BY DEF Cleared, NoIndex, NoCounter
<1> DEFINE q == todo[s]
<1>1. /\ ~Idle(s) /\ q \in Seq(Cmd) /\ q # <<>> /\ todo'[s] = Tail(q)
      /\ req'[s] = req[s] /\ asOwner'[s] = asOwner[s]
      /\ Fits(req[s], asOwner[s], q)
      /\ reply[s] = "none"
  BY OneHandlerSteps DEF Runs, End, Idle, TInv, Handlers
<1> USE <1>1
<1> HIDE DEF q
<1>2. \A X : Has(q, X) <=> Head(q) \in X \/ Has(Tail(q), X)
  BY TailHas
<1>3. Head(q) = "def_meas" => ~Has(Tail(q), {"def_meas"})
  <2>1. Head(q) = "def_meas" => ~Has(Tail(q), {"def_meas", "undef_meas", "drop_meas"})
    BY TailNever DEF Fits, Orderly
  <2>2. QED
    BY <2>1, Smaller
<1>4. Head(q) \in {"def_ctr", "increment"} => ~Has(Tail(q), {"def_ctr"})
  <2>1. Head(q) \in {"def_ctr", "increment"} => ~Has(Tail(q), {"def_ctr", "undef_ctr", "drop_ctr"})
    BY TailNever DEF Fits, Orderly
  <2>2. QED
    BY <2>1, Smaller
<1>5. \/ Has(todo'[s], {"undef_meas", "drop_meas"})
      \/ ~Has(todo'[s], {"def_meas"}) \/ meas' = NoIndex
  BY <1>2, <1>3, MeasChanges DEF Cleared, q
<1>6. \/ Has(todo'[s], {"undef_ctr", "drop_ctr"})
      \/ ~Has(todo'[s], {"def_ctr"}) \/ ctr' = NoCounter
  BY <1>2, <1>4, CounterChanges DEF Cleared, q
<1>7. QED
  BY <1>5, <1>6

\* A script begins with all it owes still to do.
LEMMA BegunFits ==
  ASSUME TInv, NEW s \in Session, NEW r \in Request, Begin(s, r)
  PROVE  Owed(s)' /\ Cleared(s)'
<1> DEFINE q == Script(r.verb, FoundClosed(r))
<1>1. /\ todo'[s] = <<>> \/ todo'[s] = q
      /\ req'[s] = r /\ asOwner'[s] = GivesOwner(r)
  BY BegunHandler DEF TInv
<1>2. GivesOwner(r) \in BOOLEAN
  BY DEF GivesOwner, FoundClosed
<1>3. /\ r.verb \in Renews => Renewal(q)
      /\ r.verb \in Renews => Has(q, {"owner"}) \/ GivesOwner(r)
      /\ r.verb \in Replaces /\ GivesOwner(r) => Replacement(q)
  BY <1>2, FitsAtStart
<1> HIDE DEF q
<1>4. QED
  BY <1>1, <1>3 DEF Owed, Cleared, Idle, Renewal, Replacement

\* With one request at a time every step keeps both.
LEMMA RInvStep == ASSUME OneSession PROVE TInv /\ RInv /\ [PNext]_pvars => RInv'
<1> SUFFICES ASSUME TInv, RInv, [PNext]_pvars, NEW s \in Session PROVE Owed(s)' /\ Cleared(s)'
  BY DEF RInv
<1> USE DEF TInv
<1>1. ASSUME NEW t \in Session, NEW r \in Request, Begin(t, r) PROVE Owed(s)' /\ Cleared(s)'
  BY <1>1, BegunFits DEF OneSession
<1>2. ASSUME NEW t \in Session, Command(t) PROVE Owed(s)' /\ Cleared(s)'
  BY <1>2, CommandOwed, CommandCleared DEF RInv, OneSession
<1>3. ASSUME Idle(s)' PROVE Owed(s)' /\ Cleared(s)'
  BY <1>3 DEF Owed, Cleared
<1>4. ASSUME NEW t \in Session, CommandFails(t) PROVE Idle(s)'
  BY <1>4 DEF CommandFails, Refuse, End, Idle, OneSession, Handlers
<1>5. CASE Reset
  BY <1>3, <1>5 DEF Reset, Off, Idle
<1>6. CASE up = "off"
  <2>1. (\E t \in Session, r \in Request : Begin(t, r)) \/ Idle(s)'
    BY <1>6, OnlyHandlerSteps DEF HandlerStep, Handlers, Off, Idle, Begin, handler
  <2>2. QED
    BY <1>1, <1>3, <2>1
<1>7. CASE UNCHANGED pvars
  BY <1>7 DEF pvars, tpm, handler, RInv, Owed, Cleared, Idle, IndexRule
<1>8. QED
  BY <1>1, <1>2, <1>3, <1>4, <1>5, <1>6, <1>7, StepKinds

\* They always hold then.
LEMMA AlwaysRInv == ASSUME OneSession PROVE PSpec => []RInv
<1>1. TInv /\ RInv /\ [PNext]_pvars => RInv'
  BY RInvStep
<1>2. QED
  BY <1>1, RInvInit, AlwaysTInv, PTL DEF PSpec

\* Only the last command of a script answers ok.
LEMMA OkIsLast ==
  ASSUME TInv, PNext, NEW s \in Session, ~Idle(s), reply'[s] = "ok"
  PROVE  Record(s) \/ Done(s)
<1> USE DEF TInv
<1>1. up # "off" /\ reply[s] # "ok" /\ todo[s] # <<>>
  BY DEF Handlers, Idle
<1>2. ASSUME NEW t \in Session, NEW r \in Request, Begin(t, r) PROVE FALSE
  BY <1>1, <1>2 DEF Begin, Handlers, Idle
<1>3. ASSUME NEW t \in Session, CommandFails(t) PROVE FALSE
  BY <1>1, <1>3 DEF CommandFails, Refuse, End, Handlers
<1>4. ASSUME NEW t \in Session, Command(t) PROVE t = s /\ (Record(s) \/ Done(s))
  <2>1. CASE Record(t) \/ Done(t)
    BY <1>1, <2>1 DEF Record, Done, End, Handlers
  <2>2. CASE ~(Record(t) \/ Done(t))
    <3>1. reply' = reply \/ reply' = [reply EXCEPT ![t] = "failed"]
      BY <1>4, <2>2 DEF Command, FwKey, FwHmac, PersistAk, Checked, UndefineMeas, DefineMeas,
         DropMeas, UndefineCounter, DefineCounter, DropCounter, Undeleted, Increment, ChangeAuth
    <3>2. QED
      BY <1>1, <3>1 DEF Handlers
  <2>3. QED
    BY <2>1, <2>2
<1>5. CASE Reset
  BY <1>5 DEF Reset, Off
<1>6. QED
  BY <1>1, <1>2, <1>3, <1>4, <1>5 DEF PNext, TpmClear, FactoryBoot, ReleaseBoot

THEOREM OkIsProvisioned == ASSUME OneSession PROVE PSpec => OkMeansProvisioned
<1>1. ASSUME TInv, RInv, PNext, NEW s \in Session, ~Idle(s), reply'[s] = "ok",
             req[s].verb \in Serviced \cup {"reprovision-indices"}
      PROVE  LET a == IndexRule(req[s]) IN
             /\ req[s].verb \in Serviced => ak
             /\ auth["owner"] # "empty"
             /\ meas.anchor = a /\ ctr.anchor = a /\ ctr.value > 0
             /\ req[s].verb \in Looks => RecordedName(s) = [anchor |-> a, written |-> TRUE]
  <2> DEFINE q == todo[s]
  <2>1. /\ q \in Seq(Cmd) /\ q # <<>> /\ Fits(req[s], asOwner[s], q)
        /\ Head(q) \in {"record", "done"}
    BY <1>1, OkIsLast DEF TInv, Handlers, Idle, Record, Done, At
  <2>2. ~Has(Tail(q), Cmd)
    BY <2>1, TailNever DEF Fits, Orderly
  <2>3. /\ ~Has(Tail(q), {"def_meas"}) /\ ~Has(Tail(q), {"def_ctr"})
        /\ ~Has(Tail(q), {"increment"}) /\ ~Has(Tail(q), {"owner"})
    BY <2>2, Smaller DEF Cmd
  <2>4. /\ ~Has(q, {"def_meas"}) /\ ~Has(q, {"def_ctr"})
        /\ ~Has(q, {"increment"}) /\ ~Has(q, {"owner"})
    BY <2>1, <2>3, TailHas
  <2>5. Owed(s)
    BY <1>1 DEF RInv
  <2>6. /\ meas.anchor = IndexRule(req[s]) /\ ctr.anchor = IndexRule(req[s]) /\ ctr.value > 0
        /\ auth["owner"] # "empty"
    BY <1>1, <2>4, <2>5 DEF Owed, Renews
  <2>7. req[s].verb \in Serviced => ak
    <3>1. req[s].verb \in Serviced => Head(q) # "done"
      BY <2>1, TailHas DEF Fits
    <3>2. QED
      BY <1>1, <3>1, OkIsLast DEF Record, Done, At
  <2>8. req[s].verb \in Looks => RecordedName(s) = [anchor |-> IndexRule(req[s]), written |-> TRUE]
    BY <1>1, <2>6 DEF RecordedName, Looks, TInv, Chip
  <2>9. QED
    BY <2>6, <2>7, <2>8
<1>2. TInv /\ RInv /\ [PNext]_pvars =>
        [\A s \in Session :
           ~Idle(s) /\ reply'[s] = "ok" /\ req[s].verb \in Serviced \cup {"reprovision-indices"} =>
             LET a == IndexRule(req[s]) IN
             /\ req[s].verb \in Serviced => ak
             /\ auth["owner"] # "empty"
             /\ meas.anchor = a /\ ctr.anchor = a /\ ctr.value > 0
             /\ req[s].verb \in Looks => RecordedName(s) = [anchor |-> a, written |-> TRUE]]_pvars
  BY <1>1
<1>3. QED
  BY <1>2, AlwaysTInv, AlwaysRInv, PTL DEF PSpec, OkMeansProvisioned

\* With one request at a time a retry on a closed TPM that has its AK is not refused, in
\* whatever state earlier attempts left the indices (ClosedRetrySucceeds).
THEOREM RetryGetsThere == ASSUME OneSession PROVE PSpec => ClosedRetrySucceeds
<1>1. ASSUME TInv, RInv, PNext, NEW s \in Session, ~Idle(s),
             req[s].verb \in Looks \cup {"reprovision-indices"},
             asOwner[s], req[s].auths.who = auth["owner"], ak, ~locked, reply[s] = "none",
             req[s].verb = "reprovision-indices" => otp, reply'[s] = "refused"
      PROVE  FALSE
  <2> DEFINE q == todo[s]
  <2> USE DEF TInv
  <2>1. /\ up # "off" /\ q \in Seq(Cmd) /\ q # <<>> /\ Fits(req[s], asOwner[s], q)
        /\ req[s] \in Request /\ OwnerOk(s)
    BY <1>1 DEF Handlers, Idle, OwnerOk
  <2>2. Impossible(s)
    <3>1. ASSUME NEW t \in Session, CommandFails(t) PROVE Impossible(s)
      BY <1>1, <3>1 DEF CommandFails, Refuse, End, Handlers
    <3>2. ASSUME NEW t \in Session, Command(t) PROVE FALSE
      <4>1. \/ reply' = reply \/ reply' = [reply EXCEPT ![t] = "failed"]
            \/ reply' = [reply EXCEPT ![t] = "ok"]
        BY <3>2 DEF Command, FwKey, FwHmac, PersistAk, Checked, UndefineMeas, DefineMeas,
           DropMeas, UndefineCounter, DefineCounter, DropCounter, Undeleted, Increment, ChangeAuth,
           Record, Done, End
      <4>2. QED
        BY <1>1, <4>1 DEF Handlers
    <3>3. ASSUME NEW t \in Session, NEW r \in Request, Begin(t, r) PROVE FALSE
      BY <1>1, <3>3 DEF Begin, Handlers, OneSession
    <3>4. ~Reset
      BY <1>1 DEF Reset, Off
    <3>5. QED
      BY <1>1, <2>1, <3>1, <3>2, <3>3, <3>4 DEF PNext, TpmClear, FactoryBoot, ReleaseBoot
  <2>3. Owed(s) /\ Cleared(s) /\ req[s].verb \in Replaces /\ req[s].verb \in Renews
    BY <1>1 DEF RInv, Replaces, Renews, Looks, Serviced
  <2>4. \A X : Has(q, X) <=> Head(q) \in X \/ Has(Tail(q), X)
    BY <2>1, TailHas
  <2>5. ~Has(q, Hierarchy) /\ ~Has(q, {"ak", "no_ctr"})
    BY <1>1, <2>1, <2>3 DEF Fits
  <2>6. IndexRule(req[s]) # None
    BY <1>1, <2>1, RuleOfRequest DEF Looks
  <2>7. /\ ~(At(s, "hmac") /\ locked) /\ ~At(s, "ak") /\ ~At(s, "no_ctr")
        /\ \A h \in Hierarchy : ~At(s, h)
    BY <1>1, <2>4, <2>5 DEF At
  <2>8. ~(At(s, "undef_meas") /\ meas # NoIndex /\ ~OwnerOk(s))
        /\ ~(At(s, "undef_ctr") /\ ctr # NoCounter /\ ~OwnerOk(s))
    BY <2>1
  <2>9. At(s, "def_meas") => meas = NoIndex
    <3> SUFFICES ASSUME Head(q) = "def_meas" PROVE meas = NoIndex
      BY DEF At
    <3>1. ~Has(Tail(q), {"def_meas", "undef_meas", "drop_meas"})
      BY <2>1, TailNever DEF Fits, Orderly
    <3>2. ~Has(q, {"undef_meas", "drop_meas"}) /\ Has(q, {"def_meas"})
      BY <2>4, <3>1, Smaller
    <3>3. QED
      BY <1>1, <2>3, <3>2 DEF Cleared
  <2>10. At(s, "def_ctr") => ctr = NoCounter
    <3> SUFFICES ASSUME Head(q) = "def_ctr" PROVE ctr = NoCounter
      BY DEF At
    <3>1. ~Has(Tail(q), {"def_ctr", "undef_ctr", "drop_ctr"})
      BY <2>1, TailNever DEF Fits, Orderly
    <3>2. ~Has(q, {"undef_ctr", "drop_ctr"}) /\ Has(q, {"def_ctr"})
      BY <2>4, <3>1, Smaller
    <3>3. QED
      BY <1>1, <2>3, <3>2 DEF Cleared
  <2>11. At(s, "increment") => ctr.anchor = IndexRule(req[s])
    <3> SUFFICES ASSUME Head(q) = "increment" PROVE ctr.anchor = IndexRule(req[s])
      BY DEF At
    <3>1. ~Has(Tail(q), {"def_ctr", "undef_ctr", "drop_ctr"})
      BY <2>1, TailNever DEF Fits, Orderly
    <3>2. ~Has(q, {"def_ctr"})
      BY <2>4, <3>1, Smaller
    <3>3. QED
      BY <1>1, <2>3, <3>2 DEF Owed
  <2>12. At(s, "unlocked") => otp /\ ~locked
    BY <1>1, <2>1, <2>4 DEF At, Fits
  <2>13. At(s, "record") => meas # NoIndex /\ ctr # NoCounter
    <3> SUFFICES ASSUME Head(q) = "record" PROVE meas # NoIndex /\ ctr # NoCounter
      BY DEF At
    <3>1. ~Has(Tail(q), Cmd)
      BY <2>1, TailNever DEF Fits, Orderly
    <3>2. ~Has(q, {"def_meas"}) /\ ~Has(q, {"def_ctr"})
      BY <2>4, <3>1, Smaller DEF Cmd
    <3>3. QED
      BY <1>1, <2>3, <2>6, <3>2 DEF Owed, NoIndex, NoCounter
  <2>14. QED
    BY <1>1, <2>1, <2>2, <2>7, <2>8, <2>9, <2>10, <2>11, <2>12, <2>13 DEF Impossible
<1>2. TInv /\ RInv /\ [PNext]_pvars =>
        [\A s \in Session :
           /\ ~Idle(s) /\ req[s].verb \in Looks \cup {"reprovision-indices"}
           /\ asOwner[s] /\ req[s].auths.who = auth["owner"] /\ ak /\ ~locked /\ reply[s] = "none"
           /\ req[s].verb = "reprovision-indices" => otp
           => reply'[s] # "refused"]_pvars
  BY <1>1
<1>3. QED
  BY <1>2, AlwaysTInv, AlwaysRInv, PTL DEF PSpec, ClosedRetrySucceeds
=============================================================================
