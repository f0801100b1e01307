------------------------------- MODULE Driver -------------------------------
(***************************************************************************)
(* CO_driver_ST32F103.c with both directions.  They share no state but     *)
(* the module's pointer to the buffers, so that a behaviour exercises one  *)
(* of them and leaves the other where it starts.                           *)
(***************************************************************************)
EXTENDS CanTx, Sequences

CONSTANTS RxOrder, StartOrder, Predefined, Rpdo, Passed, Other, Depth (* see CanRx *)

VARIABLES
  direction,
  rxArray, toStart, setup, fifo, rcvMsg, handed, moved

Rx == INSTANCE CanRx

(* Of the receive side: the NMT slave is the owner of the first buffer and *)
(* alone has identifier 0; no two owners share a default identifier, and   *)
(* the filters pass each but that of LSS.  All are set up at the start;    *)
(* RPDOs are only given identifiers that no service of the node uses.      *)
ASSUME RxAssumption ==
  /\ RxOrder \in Seq(Rx!Owner) /\ RxOrder # <<>> /\ RxOrder[1] = "NMT"
  /\ StartOrder \in Seq(Rx!Owner)
  /\ \A o \in Rx!Owner : \E i \in DOMAIN StartOrder : StartOrder[i] = o
  /\ Rx!None \notin Rx!Owner
  /\ DOMAIN Predefined = Rx!Owner /\ Predefined["NMT"] = Rx!NmtId
  /\ \A o, p \in Rx!Owner : Predefined[o] = Predefined[p] => o = p
  /\ \A o \in Rx!Owner \ {"LSS_SLV"} : \E f \in Rx!Fifo : Predefined[o] \in Passed[f]
  /\ Rpdo \subseteq Rx!Owner \ {"NMT", "LSS_SLV"}
  /\ \A o \in Rx!Owner \ Rpdo : Predefined[o] \notin Other
  /\ Depth \in Nat

rxVars == <<rxArray, toStart, setup, fifo, rcvMsg, handed, moved>>
driverVars == <<direction, vars, rxVars>>

DriverInit == direction \in {"transmit", "receive"} /\ Init /\ Rx!RxInit

DriverNext ==
  /\ UNCHANGED direction
  /\ IF direction = "transmit" THEN Next ELSE UNCHANGED vars
  /\ IF direction = "receive" THEN Rx!RxNext ELSE UNCHANGED rxVars

(* The fairness of CanTx; nothing is promised of the receive side.         *)
DriverSpec ==
  /\ DriverInit /\ [][DriverNext]_driverVars
  /\ WF_vars(direction = "transmit" /\ Handler)
  /\ WF_vars(direction = "transmit" /\ CriticalSend)
  /\ \A m \in Mailbox : WF_vars(direction = "transmit" /\ Finish(m))
-----------------------------------------------------------------------------
(* The interrupt hands on the frame that has come and no other, an NMT     *)
(* command reaches the NMT slave and nobody else, whatever else of the     *)
(* buffers is unused, disabled or half set up, no callback runs without    *)
(* its object, and an object is deaf only if its COB-ID, or that of one    *)
(* before it, was moved while the filters stayed.                          *)
FramesFindTheirObject ==
  /\ Rx!RxTypeOK
  /\ Rx!HandsOnWhatCame
  /\ Rx!CommandsReachNmt
  /\ Rx!CallbackHasObject
  /\ Rx!DeafOnlyIfMoved
=============================================================================
