------------------------------ MODULE MCDriver ------------------------------
(* Transmit: three buffers (one polite owner, two that send without        *)
(* looking), two mailboxes and a counter that wraps at 4: every mailbox    *)
(* can be busy, two buffers can wait at once, one can be counted twice,    *)
(* the counter wraps.  Receive: two of the four RPDOs, one for each FIFO,  *)
(* between NMT, SDO and LSS; identifiers are numbered in the order of the  *)
(* COB-IDs, and an RPDO may be moved to 3, which the filters pass, or to   *)
(* 8, another node's, which they do not.                                   *)
EXTENDS Driver, TLC
MCPolite == {1}
MCRxOrder == <<"NMT", "RPDO1", "RPDO4", "SDO_SRV", "LSS_SLV">>
MCStartOrder == <<"LSS_SLV", "NMT", "SDO_SRV", "RPDO1", "RPDO4">>
MCPredefined == [NMT |-> 0, RPDO1 |-> 2, RPDO4 |-> 5, SDO_SRV |-> 6, LSS_SLV |-> 7]
MCRpdo == {"RPDO1", "RPDO4"}
MCPassed == 0 :> {1, 2, 3, 4} @@ 1 :> {0, 5, 6}
=============================================================================
