---------------------------- MODULE MCTransactor ----------------------------
(***************************************************************************)
(* Transactor with small requests: every request of at most one            *)
(* transaction, and those of two transactions where the second is one that *)
(* can tell what the first one left behind.  The second request finds the  *)
(* registers as the first one left them.                                   *)
(***************************************************************************)
EXTENDS Transactor

CONSTANTS MaxWords

MCHeaders ==
    [type : {"RD", "WR", "RDN", "WRN", "RDC", "WRC"}, words : 0 .. MaxWords]
        \cup [type : RmwTypes, words : {1}] \cup {Bad}

MCSeconds == {Bad, [type |-> "RD", words |-> 1], [type |-> "WR", words |-> 2],
              [type |-> "RMWB", words |-> 1]}

MCPackets == {<<>>} \cup {<<t>> : t \in MCHeaders} \cup (MCHeaders \ {Bad}) \X MCSeconds
=============================================================================
