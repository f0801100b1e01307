------------------------------ MODULE MCDevice ------------------------------
(* One error of the driver, one of other code and the full ring, in a ring  *)
(* that holds two messages: two changes while the node is stopped or the    *)
(* transmit buffer is taken overflow it.                                    *)
EXTENDS Device
MCDriverOrder == <<"TX_OVERFLOW">>
=============================================================================
