----------------------------- MODULE RpdoReceive -----------------------------
(***************************************************************************)
(* The receive PDOs, through which the bus sets the LEDs, the blinking and *)
(* the brightness.  CO_PDO_receive runs in the receive interrupt and       *)
(* leaves a frame in RPDO->CANrxData; CanOpenPeriodic, which holds the     *)
(* "co" mutex, lets CO_RPDO_process write its parts to the mapped objects  *)
(* one after another.  The interrupt takes no lock: it may come between    *)
(* any two of those writes and replace the data.                           *)
(***************************************************************************)
EXTENDS Naturals, Sequences

CONSTANTS
  Mapped,    (* for each receive PDO the number of mapped objects          *)
  Value,     (* the values of a mapped object                              *)
  Off        (* the value all of them start with                           *)

ASSUME RpdoAssumption ==
  /\ Mapped \in Seq(Nat \ {0}) /\ Len(Mapped) > 0
  /\ Off \in Value

RPDO == DOMAIN Mapped
Frame(r) == [1 .. Mapped[r] -> Value]
Acknowledged == {"ACK_NO_ERROR", "ACK_ERROR"}
ReceiveError == Acknowledged \cup {"OK", "SHORT", "LONG"}

VARIABLES
  valid,         (* PDO->valid                                             *)
  CANrxData,
  CANrxNew,
  receiveError,
  od,            (* the mapped objects                                     *)
  wrongLength,   (* CO_EM_RPDO_WRONG_LENGTH in em->errorStatusBits         *)
  operational,   (* the NMT state                                          *)
  current,       (* the PDO CO_process_RPDO is at, 0 outside of it         *)
  point,         (* where it is in CO_RPDO_process                         *)
  setError,      (* its local of that name                                 *)
  object,        (* i, the mapped object to be written next                *)
  wanted         (* history: the last frame received and not discarded     *)

passVars == <<current, point, setError, object>>
rpdoVars == <<valid, CANrxData, CANrxNew, receiveError, od, wrongLength,
          operational, passVars, wanted>>

(* CO_RPDO_init.                                                           *)
RpdoInit ==
  /\ valid = [r \in RPDO |-> TRUE]
  /\ od = [r \in RPDO |-> [i \in 1 .. Mapped[r] |-> Off]]
  /\ CANrxData = od /\ wanted = od
  /\ CANrxNew = [r \in RPDO |-> FALSE]
  /\ receiveError = [r \in RPDO |-> "ACK_NO_ERROR"]
  /\ wrongLength = FALSE
  /\ operational \in BOOLEAN
  /\ current = 0 /\ point = "verify" /\ setError = FALSE /\ object = 1

(* Mutant: a frame of the right length acknowledges the error itself.      *)
JudgeForgets(err, length) ==
  CASE length = "exact" /\ err = "ACK_ERROR" -> "ACK_NO_ERROR"
    [] length = "long" /\ err = "ACK_NO_ERROR" -> "LONG"
    [] length = "short" /\ err = "ACK_NO_ERROR" -> "SHORT"
    [] OTHER -> err

(* What CO_PDO_receive makes of receiveError: it leaves the states it has  *)
(* set itself to CO_RPDO_process, which alone acknowledges them.           *)
Judge(err, length) ==
  CASE length = "exact" /\ err = "ACK_ERROR" -> "OK"
    [] length = "long" /\ err = "ACK_NO_ERROR" -> "LONG"
    [] length = "short" /\ err = "ACK_NO_ERROR" -> "SHORT"
    [] OTHER -> err

(* CO_PDO_receive.  Of a frame that is too long the first bytes are used.  *)
CO_PDO_receive(r, length, data) ==
  /\ valid[r]
  /\ receiveError' = [receiveError EXCEPT ![r] = Judge(@, length)]
  /\ IF length = "short" THEN UNCHANGED <<CANrxData, CANrxNew, wanted>>
     ELSE /\ CANrxData' = [CANrxData EXCEPT ![r] = data]
          /\ CANrxNew' = [CANrxNew EXCEPT ![r] = TRUE]
          /\ wanted' = [wanted EXCEPT ![r] = data]
  /\ UNCHANGED <<valid, od, wrongLength, operational, passVars>>

(* CO_process_RPDO takes the PDOs in turn.                                 *)
NextRPDO ==
  /\ current' = IF current < Len(Mapped) THEN current + 1 ELSE 0
  /\ point' = "verify"
  /\ UNCHANGED <<setError, object>>
BeginPass ==
  /\ current = 0
  /\ NextRPDO
  /\ UNCHANGED <<valid, CANrxData, CANrxNew, receiveError, od, wrongLength,
                 operational, wanted>>

Active == valid[current] /\ operational

(* The PDO cannot be used: what was received meanwhile is discarded.       *)
Discard ==
  /\ current # 0 /\ point = "verify" /\ ~Active
  /\ CANrxNew' = [CANrxNew EXCEPT ![current] = FALSE]
  /\ wanted' = [wanted EXCEPT ![current] = od[current]]
  /\ NextRPDO
  /\ UNCHANGED <<valid, CANrxData, receiveError, od, wrongLength, operational>>

(* Mutant: the NMT state is not looked at.                                 *)
VerifyAnyState ==
  /\ current # 0 /\ point = "verify" /\ valid[current]
  /\ IF receiveError[current] \in Acknowledged
       THEN point' = "loop" /\ UNCHANGED <<setError, wrongLength>>
       ELSE /\ setError' = (receiveError[current] # "OK")
            /\ wrongLength' = setError'
            /\ point' = "acknowledge"
  /\ UNCHANGED <<valid, CANrxData, CANrxNew, receiveError, od, operational,
                 current, object, wanted>>

(* CO_error for a length that has become wrong or right ...                *)
Verify ==
  /\ current # 0 /\ point = "verify" /\ Active
  /\ IF receiveError[current] \in Acknowledged
       THEN point' = "loop" /\ UNCHANGED <<setError, wrongLength>>
       ELSE /\ setError' = (receiveError[current] # "OK")
            /\ wrongLength' = setError'
            /\ point' = "acknowledge"
  /\ UNCHANGED <<valid, CANrxData, CANrxNew, receiveError, od, operational,
                 current, object, wanted>>

(* Mutant: the assignment is missing.                                      *)
AcknowledgeNothing ==
  /\ current # 0 /\ point = "acknowledge"
  /\ point' = "loop"
  /\ UNCHANGED <<valid, CANrxData, CANrxNew, receiveError, od, wrongLength,
                 operational, current, setError, object, wanted>>

(* ... which is then acknowledged, whatever has arrived in between.        *)
Acknowledge ==
  /\ current # 0 /\ point = "acknowledge"
  /\ receiveError' = [receiveError EXCEPT ![current] =
                        IF setError THEN "ACK_ERROR" ELSE "ACK_NO_ERROR"]
  /\ point' = "loop"
  /\ UNCHANGED <<valid, CANrxData, CANrxNew, od, wrongLength, operational,
                 current, setError, object, wanted>>

(* while (CANrxNew): clear the flag, then write the objects.               *)
Loop ==
  /\ current # 0 /\ point = "loop"
  /\ IF CANrxNew[current]
       THEN /\ CANrxNew' = [CANrxNew EXCEPT ![current] = FALSE]
            /\ point' = "write" /\ object' = 1
            /\ UNCHANGED <<current, setError>>
       ELSE NextRPDO /\ UNCHANGED CANrxNew
  /\ UNCHANGED <<valid, CANrxData, receiveError, od, wrongLength, operational,
                 wanted>>

(* Mutant: the flag is cleared behind the copy.                            *)
WriteObjectClears ==
  /\ current # 0 /\ point = "write"
  /\ od' = [od EXCEPT ![current][object] = CANrxData[current][object]]
  /\ IF object < Mapped[current]
       THEN object' = object + 1 /\ UNCHANGED <<point, CANrxNew>>
       ELSE /\ point' = "loop" /\ UNCHANGED object
            /\ CANrxNew' = [CANrxNew EXCEPT ![current] = FALSE]
  /\ UNCHANGED <<valid, CANrxData, receiveError, wrongLength, operational,
                 current, setError, wanted>>

(* OD_IO->write of one mapped object, from the buffer as it is by now.     *)
WriteObject ==
  /\ current # 0 /\ point = "write"
  /\ od' = [od EXCEPT ![current][object] = CANrxData[current][object]]
  /\ IF object < Mapped[current]
       THEN object' = object + 1 /\ UNCHANGED point
       ELSE point' = "loop" /\ UNCHANGED object
  /\ UNCHANGED <<valid, CANrxData, CANrxNew, receiveError, wrongLength,
                 operational, current, setError, wanted>>

Periodic == BeginPass \/ Discard \/ Verify \/ Acknowledge \/ Loop \/ WriteObject

(* CanOpenProcess needs the mutex for both: a change of the NMT state, and *)
(* an SDO write of the COB-ID, which switches the PDO on or off.           *)
NMTChange ==
  /\ current = 0
  /\ operational' = ~operational
  /\ UNCHANGED <<valid, CANrxData, CANrxNew, receiveError, od, wrongLength,
                 passVars, wanted>>
OD_write_14xx(r) ==
  /\ current = 0
  /\ valid' = [valid EXCEPT ![r] = ~@]
  /\ IF valid[r] THEN /\ CANrxNew' = [CANrxNew EXCEPT ![r] = FALSE]
                      /\ wanted' = [wanted EXCEPT ![r] = od[r]]
                 ELSE UNCHANGED <<CANrxNew, wanted>>
  /\ UNCHANGED <<CANrxData, receiveError, od, wrongLength, operational,
                 passVars>>

RpdoNext ==
  \/ Periodic
  \/ \E r \in RPDO :
       \/ \E length \in {"short", "exact", "long"}, data \in Frame(r) :
            CO_PDO_receive(r, length, data)
       \/ OD_write_14xx(r)
  \/ NMTChange

(* The periodic task wakes after 10 ms at most.                            *)
RpdoSpec == RpdoInit /\ [][RpdoNext]_rpdoVars /\ WF_rpdoVars(Periodic)
-----------------------------------------------------------------------------
RpdoTypeOK ==
  /\ valid \in [RPDO -> BOOLEAN] /\ CANrxNew \in [RPDO -> BOOLEAN]
  /\ receiveError \in [RPDO -> ReceiveError]
  /\ DOMAIN od = RPDO /\ DOMAIN CANrxData = RPDO /\ DOMAIN wanted = RPDO
  /\ \A r \in RPDO : {od[r], CANrxData[r], wanted[r]} \subseteq Frame(r)
  /\ {wrongLength, operational, setError} \subseteq BOOLEAN
  /\ current \in RPDO \cup {0}
  /\ point \in {"verify", "acknowledge", "loop", "write"}
  /\ (point = "write" => current # 0 /\ object \in 1 .. Mapped[current])

(* The objects may mix two frames while they are being written; as soon as *)
(* no new frame is flagged they are the last frame, and nothing else.      *)
NewestApplied ==
  \A r \in RPDO : ~CANrxNew[r] /\ ~(current = r /\ point = "write")
                    => od[r] = wanted[r]

(* The one error bit that the PDOs share is set only while the last length *)
(* of some PDO was wrong, or was put right and waits to be acknowledged.   *)
WrongLengthHasCause ==
  wrongLength => \E r \in RPDO : receiveError[r] # "ACK_NO_ERROR"

(* Outside operational the bus cannot move an output.                      *)
StoppedKeepsObjects ==
  [][od' # od => operational /\ valid[current]]_rpdoVars

(* When nothing but the periodic task runs any more, an operational node   *)
(* applies every frame and acknowledges every error.                       *)
QuietBusSettles ==
  <>[][Periodic]_rpdoVars
     => <>[](operational => \A r \in RPDO : valid[r] =>
               od[r] = wanted[r] /\ receiveError[r] \in Acknowledged)
=============================================================================
