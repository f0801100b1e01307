-------------------------------- MODULE Sdo --------------------------------
(***************************************************************************)
(* Client and server of SDO over a bus that may lose frames: the driver    *)
(* switches the retransmission of the CAN controller off.                  *)
(***************************************************************************)
EXTENDS SdoClient

CONSTANT LOSSES        \* bound on the frames the bus loses

(* An object, the server's buffer and the client's hold a unit at least;   *)
(* the server's has no room for the 127 segments of the longest sub-block. *)
ASSUME SdoAssumption ==
  /\ LENGTH \in Nat \ {0} /\ CAPACITY \in 1..126 /\ FIFO \in Nat \ {0} /\ PST \in Nat
  /\ Request \in Seq(SUBSET [kind : {"download", "upload", "download_block", "upload_block"},
                            size : Nat, sized : BOOLEAN])

VARIABLE losses

sdoVars == <<srv, od, toServer, toClient, cli, transfer, late, losses>>

SdoInit ==
  /\ ServerInit /\ ClientInit
  /\ od \in [string : BOOLEAN, value : {Data(0, "none", LENGTH)}]
  /\ toServer = <<>> /\ toClient = <<>> /\ losses = 0

Lose ==
  /\ losses < LOSSES /\ losses' = losses + 1
  /\ \/ toServer # <<>> /\ toServer' = Tail(toServer) /\ UNCHANGED toClient
     \/ toClient # <<>> /\ toClient' = Tail(toClient) /\ UNCHANGED toServer
  /\ UNCHANGED <<srv, od, cli, transfer, late>>

Server == CO_SDOserver_process /\ UNCHANGED <<clientVars, losses>>
Interrupt == CO_SDO_receive /\ UNCHANGED <<clientVars, losses>>
Stopped == NotOperational /\ UNCHANGED <<clientVars, losses>>
Client == (ClientCall \/ CO_SDOclient_receive) /\ UNCHANGED losses
Application == BufRead /\ UNCHANGED losses
Starts == (transfer.n < Len(Request) /\ \E r \in Request[transfer.n + 1] : Initiate(r)) /\ UNCHANGED losses

SdoNext == Server \/ Interrupt \/ Stopped \/ Client \/ Application \/ Starts \/ Lose

SdoSpec == SdoInit /\ [][SdoNext]_sdoVars
-----------------------------------------------------------------------------
(* Buffers and channels keep their bounds.                                 *)
TypeOK ==
  /\ {srv.state, srv.seen, cli.state} \subseteq CO_SDO_state_t
  /\ Len(srv.buf) <= CAPACITY /\ srv.rd \in 0..Len(srv.buf) /\ srv.seqno \in 0..CAPACITY
  /\ srv.off \in 0..LENGTH /\ srv.timer \in 0..SRV_TIMEOUT
  /\ Len(cli.fifo) <= FIFO \/ (transfer.kind \in {"download", "download_block"})
  /\ DOMAIN od.value = 1..LENGTH
  /\ Len(toServer) <= CHANNEL + 1 /\ Len(toClient) <= CHANNEL

(* A download that the server has confirmed is what the object holds, the  *)
(* object being longer only if it is a string.                             *)
ConfirmedIsStored ==
  transfer.kind \in {"download", "download_block"} /\ transfer.result = "ok" /\ ~late =>
    /\ SubSeq(od.value, 1, Len(transfer.data)) = transfer.data
    /\ od.string \/ Len(transfer.data) = LENGTH

(* An upload that has ended well has brought what the object holds: all of *)
(* it, or of a string the units before the first zero.  The zero comes     *)
(* with them when the read that found it began there.                      *)
Ends(o, n) ==
  IF o.string THEN /\ \A i \in 1..(n - 1) : o.value[i] # Zero
                   /\ n = LENGTH \/ Zero \in {o.value[n], o.value[n + 1]}
  ELSE n = LENGTH

UploadedIsStored ==
  transfer.kind \in {"upload", "upload_block"} /\ transfer.result = "ok" /\ ~late =>
    \E n \in 1..LENGTH : Ends(od, n) /\ transfer.data \o cli.fifo = SubSeq(od.value, 1, n)

(* Whatever is lost, late or given up, no unit of a segmented download is  *)
(* written to another place of the object than it was sent for.  A block   *)
(* download has only its checksum at the end for that: an answer of the    *)
(* server to its own time-out may cross with segments under way.  The      *)
(* buffers they pass keep their bounds.                                    *)
UnitsInPlace ==
  /\ TypeOK
  /\ \A i \in DOMAIN od.value :
       LET u == od.value[i] IN u = Zero \/ u.kind = "download_block" \/ u.at = i
=============================================================================
