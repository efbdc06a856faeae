------------------------------ MODULE MCProvision ------------------------------
(* Small instances of Provision for TLC.                                         *)
EXTENDS Provision
CONSTANTS s1, s2
AllFaults == {"fail", "reset", "clear", "lost"}
AllVerbs == {"provision", "provision-fwkey", "provision-fwhmac", "enroll",
             "provision-nv-index", "provision-counter", "provision-hierarchy-auth",
             "reprovision-indices"}
=============================================================================
