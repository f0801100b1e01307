-------------------------------- MODULE CanRx --------------------------------
(***************************************************************************)
(* The receive side of CO_driver_ST32F103.c.  The filters of the           *)
(* controller, set once, put frames into two FIFOs; the interrupt of each  *)
(* takes a frame into a static buffer and hands it to the first receive    *)
(* buffer that matches.  Tasks set these buffers up, at the start and when *)
(* the COB-ID of an RPDO is written, field by field and without masking    *)
(* the interrupts.                                                         *)
(***************************************************************************)
EXTENDS Integers, SequencesExt

CONSTANTS
  RxOrder,     (* the owners of the receive buffers, by index              *)
  StartOrder,  (* the same in the order in which CanOpenNode.c inits them  *)
  Predefined,  (* the default identifier of each; that of the NMT slave is *)
               (* 0, which also stands in a buffer without identifier      *)
  Rpdo,        (* those that are RPDOs                                     *)
  Passed,      (* for each FIFO the identifiers of its filter              *)
  Other,       (* further identifiers that an RPDO may be given            *)
  Depth        (* frames in a FIFO, 3                                      *)

Fifo == {0, 1}
Owner == Range(RxOrder)
None == "none"
NmtId == 0
Id == Range(Predefined) \cup Other
Frame == [id : Id, remote : BOOLEAN, extended : BOOLEAN]

VARIABLES
  rxArray,     (* CO_CANrx_t of each owner                                 *)
  toStart,     (* the owners whose buffers are yet to be set up            *)
  setup,       (* CO_CANrxBufferInit: its owner, identifier and progress   *)
  fifo,        (* the FIFOs of the controller                              *)
  rcvMsg,      (* the frame in the static buffer                           *)
  handed,      (* history: the frame the last interrupt handed on, whether *)
               (* it is another than it took from the FIFO, and to whom    *)
  moved        (* history: the RPDOs whose COB-ID was written              *)

rxVars == <<rxArray, toStart, setup, fifo, rcvMsg, handed, moved>>

Unset == [object |-> None, callback |-> None, ident |-> NmtId, mask |-> "all"]
Idle == [owner |-> None, id |-> NmtId, next |-> "object"]
NoFrame == [id |-> NmtId, remote |-> FALSE, extended |-> FALSE]
NotHanded == [frame |-> NoFrame, stale |-> FALSE, to |-> None]

(* CO_CANmodule_init.                                                      *)
RxInit ==
  /\ rxArray = [o \in Owner |-> Unset]
  /\ toStart = StartOrder /\ setup = Idle
  /\ fifo = [f \in Fifo |-> <<>>] /\ rcvMsg = NoFrame
  /\ handed = NotHanded /\ moved = {}
-----------------------------------------------------------------------------
(* CO_CANrxBufferInit, called at the start ...                             *)
StartNext ==
  /\ setup = Idle /\ toStart # <<>>
  /\ setup' = [owner |-> Head(toStart), id |-> Predefined[Head(toStart)], next |-> "object"]
  /\ toStart' = Tail(toStart)
  /\ UNCHANGED <<rxArray, fifo, rcvMsg, handed, moved>>

(* ... and by OD_write_14xx: an RPDO is disabled, or enabled again with an *)
(* identifier that is not restricted, which those of NMT, SDO and LSS are. *)
Disabled(r) == rxArray[r].ident = NmtId
WriteCobId(r, id) ==
  /\ setup = Idle /\ toStart = <<>>
  /\ id = NmtId \/ Disabled(r) \/ id = rxArray[r].ident
  /\ setup' = [owner |-> r, id |-> id, next |-> "object"]
  /\ moved' = moved \cup {r}
  /\ UNCHANGED <<rxArray, toStart, fifo, rcvMsg, handed>>

(* Its stores, in their order in the source, which the compiler is taken   *)
(* to have kept.                                                           *)
StoreObject(b) == [b EXCEPT !.object = setup.owner]
StoreCallback(b) == [b EXCEPT !.callback = setup.owner]
StoreIdent(b) == [b EXCEPT !.ident = setup.id]
StoreMask(b) == [b EXCEPT !.mask = "id"]

(* Mutant: the callback is there before its object.                        *)
StoreCallbackFirst(b) ==
  CASE setup.next = "object" -> StoreCallback(b)
    [] setup.next = "callback" -> StoreObject(b)
    [] setup.next = "ident" -> StoreIdent(b)
    [] setup.next = "mask" -> StoreMask(b)

Stored(b) ==
  CASE setup.next = "object" -> StoreObject(b)
    [] setup.next = "callback" -> StoreCallback(b)
    [] setup.next = "ident" -> StoreIdent(b)
    [] setup.next = "mask" -> StoreMask(b)

After == [object |-> "callback", callback |-> "ident", ident |-> "mask"]

CO_CANrxBufferInit ==
  /\ setup # Idle
  /\ rxArray' = [rxArray EXCEPT ![setup.owner] = Stored(@)]
  /\ setup' = IF setup.next = "mask" THEN Idle ELSE [setup EXCEPT !.next = After[@]]
  /\ UNCHANGED <<toStart, fifo, rcvMsg, handed, moved>>
-----------------------------------------------------------------------------
(* Mutant: a filter that compares nothing but the identifier.              *)
AcceptsAnyFormat(f, fr) == fr.id \in Passed[f]

(* A filter of 16 bits in list mode: the identifier, data frames, standard *)
(* format.                                                                 *)
Accepts(f, fr) == fr.id \in Passed[f] /\ ~fr.remote /\ ~fr.extended

(* The controller.  A frame that finds the FIFO full is dropped.           *)
Arrive(fr) ==
  /\ \E f \in Fifo :
       /\ Accepts(f, fr) /\ Len(fifo[f]) < Depth
       /\ fifo' = [fifo EXCEPT ![f] = Append(@, fr)]
  /\ UNCHANGED <<rxArray, toStart, setup, rcvMsg, handed, moved>>

(* CAN_GetRxMessage: a frame of extended format leaves the last one there. *)
GetRxMessage(f) == LET fr == Head(fifo[f]) IN IF fr.extended THEN rcvMsg ELSE fr

(* The mask of a buffer that is set up has no bit for remote frames.       *)
Matches(o, fr) ==
  rxArray[o].ident = fr.id /\ (rxArray[o].mask = "all" => ~fr.remote)
MatchingIndex(fr) == {i \in DOMAIN RxOrder : Matches(RxOrder[i], fr)}

(* Mutants: the search goes on behind a buffer that has no callback; it    *)
(* starts with the last buffer.                                            *)
ReceiverWithCallback(fr) ==
  LET M == {i \in MatchingIndex(fr) : rxArray[RxOrder[i]].callback # None}
  IN IF M = {} THEN None ELSE RxOrder[CHOOSE i \in M : \A j \in M : i <= j]
ReceiverLast(fr) ==
  LET M == MatchingIndex(fr)
      o == RxOrder[CHOOSE i \in M : \A j \in M : i >= j]
  IN IF M = {} \/ rxArray[o].callback = None THEN None ELSE o

(* The first buffer that matches ends the search.                          *)
Receiver(fr) ==
  LET M == MatchingIndex(fr)
      o == RxOrder[CHOOSE i \in M : \A j \in M : i <= j]
  IN IF M = {} \/ rxArray[o].callback = None THEN None ELSE o

(* prv_read_can_received_msg, in the interrupt of either FIFO; they have   *)
(* the same priority.                                                      *)
prv_read_can_received_msg(f) ==
  /\ fifo[f] # <<>>
  /\ rcvMsg' = GetRxMessage(f)
  /\ fifo' = [fifo EXCEPT ![f] = Tail(@)]
  /\ handed' = [frame |-> rcvMsg', stale |-> rcvMsg' # Head(fifo[f]), to |-> Receiver(rcvMsg')]
  /\ UNCHANGED <<rxArray, toStart, setup, moved>>

RxNext ==
  \/ StartNext \/ CO_CANrxBufferInit
  \/ \E r \in Rpdo, id \in {Predefined[o] : o \in Rpdo} \cup Other \cup {NmtId} : WriteCobId(r, id)
  \/ \E fr \in Frame : Arrive(fr)
  \/ \E f \in Fifo : prv_read_can_received_msg(f)
-----------------------------------------------------------------------------
RxTypeOK ==
  /\ \A f \in Fifo : fifo[f] \in Seq(Frame) /\ Len(fifo[f]) <= Depth
  /\ rcvMsg \in Frame /\ moved \subseteq Rpdo
  /\ \A o \in Owner : rxArray[o].ident \in Id /\ rxArray[o].object \in {None, o}

(* What an interrupt hands on is the frame it has just taken, a data frame *)
(* and never the one before once more.                                     *)
HandsOnWhatCame ==
  handed.to # None => ~handed.stale /\ ~handed.frame.remote

(* An NMT command reaches the NMT slave or, before that is set up, nobody: *)
(* no buffer that is unused, disabled or half set up takes it, though all  *)
(* of these have its identifier.                                           *)
CommandsReachNmt ==
  handed.to # None => (handed.frame.id = NmtId <=> handed.to = "NMT")

(* A callback that can be reached has its object.                          *)
CallbackHasObject ==
  \A o \in Owner : rxArray[o].callback # None => rxArray[o].object # None

(* Whom the next frame with an identifier would reach.                     *)
Reaches(o) ==
  LET fr == [NoFrame EXCEPT !.id = rxArray[o].ident]
  IN Receiver(fr) = o /\ \E f \in Fifo : Accepts(f, fr)

(* Every object that is set up hears its identifier, but for the LSS slave *)
(* and for RPDOs whose COB-ID was written, or has become that of another   *)
(* one by a write: the filters do not follow, and the first of two with    *)
(* one identifier hides the other.                                         *)
DeafOnlyIfMoved ==
  toStart = <<>> /\ setup = Idle =>
    \A o \in Owner \ {"LSS_SLV"} :
      Reaches(o) \/ (o \in Rpdo /\ \E r \in moved : rxArray[r].ident = rxArray[o].ident)
=============================================================================
