------------------------------ MODULE KeyTpdo ------------------------------
(***************************************************************************)
(* How object 0x2000:1 reaches the bus: vProcessTask writes it and calls   *)
(* OD_requestTPDO, which clears its flagsPDO bit; CanOpenPeriodic runs     *)
(* CO_TPDO_process, which finds the cleared bit and lets CO_TPDOsend read  *)
(* the object, set the bit and send the frame.  ProcessTask has the higher *)
(* priority, takes neither the "co" mutex nor CO_LOCK_OD, and so may run   *)
(* between any two steps of the periodic task.                             *)
(***************************************************************************)
CONSTANT Value      (* the values of 0x2000:1                              *)

VARIABLES
  keys,         (* 0x2000:1 in the object dictionary                       *)
  requested,    (* its bit in flagsPDO is clear                            *)
  sendRequest,  (* TPDO->sendRequest                                       *)
  operational,  (* NMT operating state, read at each CO_process_TPDO       *)
  eventTimer,   (* 0x1800:5 is not 0 (0 by default, writable by SDO)       *)
  step,         (* where CanOpenPeriodic is in CO_TPDO_process             *)
  frame,        (* CANtxBuff->data                                         *)
  sent,         (* data of the last TPDO handed to CO_CANsend              *)
  preempted     (* history: the last key event fell between CO_TPDOsend's  *)
                (* read of the object and its setting of the flag          *)

tpdoVars == <<sendRequest, step, frame, sent>>
vars == <<keys, requested, tpdoVars, operational, eventTimer, preempted>>

Init ==
  /\ keys \in Value
  /\ requested = TRUE      \* the extension's flags start at zero
  /\ sendRequest = TRUE
  /\ operational \in BOOLEAN
  /\ eventTimer \in BOOLEAN
  /\ step = "idle"
  /\ frame = keys
  /\ sent = keys
  /\ preempted = FALSE

(* Mutant: OD_requestTPDO is not called.                                   *)
KeyEventSilent(v) ==
  /\ keys' = v
  /\ preempted' = (step = "copied")
  /\ UNCHANGED <<requested, tpdoVars, operational, eventTimer>>

(* The end of a turn of vProcessTask: OD_set_value, OD_requestTPDO.        *)
KeyEvent(v) ==
  /\ keys' = v
  /\ requested' = TRUE
  /\ preempted' = (step = "copied")
  /\ UNCHANGED <<tpdoVars, operational, eventTimer>>

(* CO_process and the SDO server hold the "co" mutex, which the periodic   *)
(* task keeps throughout CO_process_TPDO.                                  *)
NMTChange ==
  /\ step = "idle"
  /\ operational' = ~operational
  /\ UNCHANGED <<keys, requested, tpdoVars, eventTimer, preempted>>

WriteEventTimer ==
  /\ step = "idle"
  /\ eventTimer' \in BOOLEAN
  /\ UNCHANGED <<keys, requested, tpdoVars, operational, preempted>>

(* Mutants: the request flag, or the event timer, is not looked at.        *)
CheckRequestFlagless(expired) ==
  /\ step = "idle"
  /\ expired => eventTimer
  /\ sendRequest' = \/ ~operational \/ sendRequest \/ expired
  /\ step' = IF operational /\ sendRequest' THEN "asked" ELSE "idle"
  /\ UNCHANGED <<keys, requested, frame, sent, operational, eventTimer,
                 preempted>>
CheckRequestTimerless(expired) ==
  /\ step = "idle"
  /\ sendRequest' = \/ ~operational \/ sendRequest \/ requested
  /\ step' = IF operational /\ sendRequest' THEN "asked" ELSE "idle"
  /\ UNCHANGED <<keys, requested, frame, sent, operational, eventTimer,
                 preempted>>

(* CO_TPDO_process up to CO_TPDOsend.  Outside operational it arms         *)
(* sendRequest for the next start.                                         *)
CheckRequest(expired) ==
  /\ step = "idle"
  /\ expired => eventTimer
  /\ sendRequest' = \/ ~operational \/ sendRequest \/ requested \/ expired
  /\ step' = IF operational /\ sendRequest' THEN "asked" ELSE "idle"
  /\ UNCHANGED <<keys, requested, frame, sent, operational, eventTimer,
                 preempted>>

(* CO_TPDOsend: OD_IO->read into the transmit buffer ...                   *)
CopyObject ==
  /\ step = "asked"
  /\ frame' = keys
  /\ step' = "copied"
  /\ UNCHANGED <<keys, requested, sendRequest, sent, operational, eventTimer,
                 preempted>>

(* ... then the flag is set, whoever has cleared it since ...              *)
SetFlag ==
  /\ step = "copied"
  /\ requested' = FALSE
  /\ step' = "flagged"
  /\ UNCHANGED <<keys, sendRequest, frame, sent, operational, eventTimer,
                 preempted>>

(* ... and the frame goes to CO_CANsend.                                   *)
SendFrame ==
  /\ step = "flagged"
  /\ sendRequest' = FALSE
  /\ sent' = frame
  /\ step' = "idle"
  /\ UNCHANGED <<keys, requested, frame, operational, eventTimer, preempted>>

Periodic == (\E x \in BOOLEAN : CheckRequest(x)) \/ CopyObject \/ SetFlag
            \/ SendFrame
Next == \/ \E v \in Value : KeyEvent(v)
        \/ NMTChange \/ WriteEventTimer
        \/ Periodic

(* CanOpenPeriodic is woken every 10 ms at most, and a running event timer *)
(* expires.                                                                *)
Fairness == /\ WF_vars(CheckRequest(FALSE))
            /\ WF_vars(CheckRequest(TRUE))
            /\ WF_vars(CopyObject \/ SetFlag \/ SendFrame)
Spec == Init /\ [][Next]_vars /\ Fairness
-----------------------------------------------------------------------------
TypeOK ==
  /\ keys \in Value /\ frame \in Value /\ sent \in Value
  /\ requested \in BOOLEAN /\ sendRequest \in BOOLEAN
  /\ operational \in BOOLEAN /\ eventTimer \in BOOLEAN
  /\ preempted \in BOOLEAN
  /\ step \in {"idle", "asked", "copied", "flagged"}

(* Nothing is on its way to the bus any more.                              *)
Quiet == step = "idle" /\ ~requested /\ ~sendRequest

(* The only way the bus is left with an old key state is a key event that  *)
(* preempts CO_TPDOsend between its read of 0x2000 and its write of the    *)
(* flag; every other interleaving of the two tasks ends with the current   *)
(* state on the bus.                                                       *)
StaleOnlyIfPreempted == Quiet /\ ~preempted => sent = keys

(* A frame under way carries the current state, unless an event has        *)
(* preempted this one or, once the flag is set, has asked for another.     *)
FreshFrame ==
  /\ step = "copied" /\ ~preempted => frame = keys
  /\ step = "flagged" /\ ~preempted /\ ~requested => frame = keys

(* While the node stays operational every request is taken up.             *)
RequestServed == <>[]operational => [](requested => <>(~requested))

(* What CO_ODinterface.h:498 says of OD_requestTPDO: "If OD variable is    *)
(* mapped to any TPDO with event driven transmission, then TPDO will be    *)
(* transmitted after this function call."  Once nothing is pending, the    *)
(* last TPDO therefore carries the object as the last call left it.        *)
RequestTransmits == Quiet => sent = keys
=============================================================================
