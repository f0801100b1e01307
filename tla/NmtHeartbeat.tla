---------------------------- MODULE NmtHeartbeat ----------------------------
(***************************************************************************)
(* CO_NMT_Heartbeat.c in the cycle of vCanOpenProcess: the state of the    *)
(* node, the slot in which the receive interrupt leaves a command for it,  *)
(* the heartbeat that tells the state, and the error register that takes   *)
(* the node out of operational.  NMT_CONTROL (CanOpenNode.c) selects the   *)
(* generic and the communication bits of that register; of the errors      *)
(* behind them this firmware can only report the transmit overflow, since  *)
(* no code ever changes the driver's error counters.                       *)
(***************************************************************************)
EXTENDS FiniteSets

CONSTANT Unknown     (* commands the switch of CO_NMT_process ignores      *)

State == {"INITIALIZING", "PRE_OPERATIONAL", "OPERATIONAL", "STOPPED"}
Reset == {"RESET_NODE", "RESET_COMMUNICATION"}
Enter == {"ENTER_OPERATIONAL", "ENTER_STOPPED", "ENTER_PRE_OPERATIONAL"}
Command == Reset \cup Enter \cup Unknown \cup {"NO_COMMAND"}

ASSUME NmtAssumption == Unknown \cap (Reset \cup Enter \cup {"NO_COMMAND"}) = {}

VARIABLES
  operatingState,
  operatingStatePrev,
  internalCommand,
  HBproducerTime,   (* 0x1017 is not 0                                     *)
  HBexpired,        (* HBproducerTimer is 0                                *)
  HB_TXbuff,        (* the state in the last heartbeat sent                *)
  txOverflow,       (* CO_CAN_ERRTX_OVERFLOW in CANerrorStatus             *)
  errorRegister,    (* a bit that NMT_CONTROL selects is set               *)
  startup,          (* CO_NMT_STARTUP_TO_OPERATIONAL in NMTcontrol         *)
  step,             (* where vCanOpenProcess is                            *)
  state,            (* NMTstateCpy                                         *)
  taken,            (* the command the switch has looked at                *)
  due,              (* history: the last command received and not taken    *)
  overtaken         (* history: it came between the switch and the clear   *)

hbVars == <<HBproducerTime, HBexpired, HB_TXbuff>>
localVars == <<step, state, taken>>
vars == <<operatingState, operatingStatePrev, internalCommand, hbVars,
          txOverflow, errorRegister, startup, localVars, due, overtaken>>

(* CO_NMT_init behind a reset of the controller; 0x1017 starts at 0.       *)
Init ==
  /\ operatingState = "INITIALIZING" /\ operatingStatePrev = "INITIALIZING"
  /\ internalCommand = "NO_COMMAND"
  /\ HBproducerTime = FALSE /\ HBexpired = TRUE /\ HB_TXbuff = "INITIALIZING"
  /\ txOverflow = FALSE /\ errorRegister = FALSE
  /\ startup \in BOOLEAN
  /\ step = "wait" /\ state = "INITIALIZING" /\ taken = "NO_COMMAND"
  /\ due = "NO_COMMAND" /\ overtaken = FALSE

(* CO_CANmodule_process works only when the error counters have changed.   *)
(* They are static, start at zero and are assigned nowhere.                *)
CountersChanged == FALSE
CO_CANmodule_process == txOverflow /\ ~CountersChanged

(* CO_NMT_receive, in the receive interrupt: the slot holds one command.   *)
(* A frame whose command byte is 0 empties it.                             *)
CO_NMT_receive(c) ==
  /\ step # "reset"
  /\ internalCommand' = c
  /\ due' = c
  /\ overtaken' = (step = "switched" /\ taken # "NO_COMMAND")
  /\ UNCHANGED <<operatingState, operatingStatePrev, hbVars, txOverflow,
                 errorRegister, startup, localVars>>

(* Mutants: a change of state, or the timer, sends no heartbeat.           *)
SendsOnTimer ==
  operatingState = "INITIALIZING" \/ (HBproducerTime /\ HBexpired)
SendsOnChange ==
  \/ operatingState = "INITIALIZING"
  \/ HBproducerTime /\ operatingState # operatingStatePrev

(* The first cycle sends the boot-up message; later ones a heartbeat when  *)
(* its time has come or the state has changed.                             *)
SendsHeartbeat ==
  \/ operatingState = "INITIALIZING"
  \/ HBproducerTime /\ (HBexpired \/ operatingState # operatingStatePrev)

(* CO_process up to the switch: driver errors, error register, heartbeat,  *)
(* and the command as the switch reads it.  The boot-up message finds its  *)
(* buffer empty, and until it has left CO_CANsend reports no overflow.     *)
CO_NMT_processSwitch ==
  /\ step = "wait"
  /\ step' = "switched"
  /\ errorRegister' = CO_CANmodule_process
  /\ state' = IF operatingState # "INITIALIZING" THEN operatingState
              ELSE IF startup THEN "OPERATIONAL" ELSE "PRE_OPERATIONAL"
  /\ operatingStatePrev' = state'
  /\ IF SendsHeartbeat
       THEN /\ HB_TXbuff' = operatingState
            /\ HBexpired' = (HBexpired /\ operatingState = "INITIALIZING")
            /\ txOverflow' \in {CO_CANmodule_process, operatingState # "INITIALIZING"}
       ELSE /\ txOverflow' = CO_CANmodule_process
            /\ UNCHANGED <<HB_TXbuff, HBexpired>>
  /\ taken' = internalCommand
  /\ IF taken' = "NO_COMMAND"
       THEN UNCHANGED <<due, overtaken>>
       ELSE due' = "NO_COMMAND" /\ overtaken' = FALSE
  /\ UNCHANGED <<operatingState, internalCommand, HBproducerTime, startup>>

(* The state the command asks for.                                         *)
Obeyed ==
  CASE taken = "ENTER_OPERATIONAL" -> "OPERATIONAL"
    [] taken = "ENTER_STOPPED" -> "STOPPED"
    [] taken = "ENTER_PRE_OPERATIONAL" -> "PRE_OPERATIONAL"
    [] OTHER -> state

(* Mutants: the slot is cleared whatever was read from it; the error       *)
(* register is looked at before the command.                               *)
ClearAlways ==
  /\ step = "switched"
  /\ internalCommand' = "NO_COMMAND"
  /\ operatingState' = IF Obeyed = "OPERATIONAL" /\ errorRegister
                         THEN "PRE_OPERATIONAL" ELSE Obeyed
  /\ step' = IF taken \in Reset THEN "reset" ELSE "wait"
  /\ UNCHANGED <<operatingStatePrev, hbVars, txOverflow, errorRegister,
                 startup, state, taken, due, overtaken>>
RegisterFirst ==
  /\ step = "switched"
  /\ internalCommand' = IF taken = "NO_COMMAND" THEN internalCommand
                                                ELSE "NO_COMMAND"
  /\ operatingState' = IF Obeyed = "OPERATIONAL" /\ errorRegister
                            /\ taken = "NO_COMMAND"
                         THEN "PRE_OPERATIONAL" ELSE Obeyed
  /\ step' = IF taken \in Reset THEN "reset" ELSE "wait"
  /\ UNCHANGED <<operatingStatePrev, hbVars, txOverflow, errorRegister,
                 startup, state, taken, due, overtaken>>

(* The rest: clear the slot, let the error register overrule the command,  *)
(* and leave the loop of vCanOpenProcess on a reset.                       *)
CO_NMT_processClear ==
  /\ step = "switched"
  /\ internalCommand' = IF taken = "NO_COMMAND" THEN internalCommand
                                                ELSE "NO_COMMAND"
  /\ operatingState' = IF Obeyed = "OPERATIONAL" /\ errorRegister
                         THEN "PRE_OPERATIONAL" ELSE Obeyed
  /\ step' = IF taken \in Reset THEN "reset" ELSE "wait"
  /\ UNCHANGED <<operatingStatePrev, hbVars, txOverflow, errorRegister,
                 startup, state, taken, due, overtaken>>

(* NVIC_SystemReset.                                                       *)
SystemReset ==
  /\ step = "reset"
  /\ operatingState' = "INITIALIZING" /\ operatingStatePrev' = "INITIALIZING"
  /\ internalCommand' = "NO_COMMAND"
  /\ HBproducerTime' = FALSE /\ HBexpired' = TRUE
  /\ HB_TXbuff' = "INITIALIZING"
  /\ txOverflow' = FALSE /\ errorRegister' = FALSE
  /\ startup' \in BOOLEAN
  /\ step' = "wait" /\ state' = "INITIALIZING" /\ taken' = "NO_COMMAND"
  /\ due' = "NO_COMMAND" /\ overtaken' = FALSE

(* An SDO write of 0x1017, and time.                                       *)
OD_write_1017(on) ==
  /\ step = "wait" /\ operatingState # "INITIALIZING"
  /\ HBproducerTime' = on /\ HBexpired' = TRUE
  /\ UNCHANGED <<operatingState, operatingStatePrev, internalCommand, HB_TXbuff,
                 txOverflow, errorRegister, startup, localVars, due, overtaken>>
Expire ==
  /\ step = "wait"
  /\ HBexpired' = TRUE
  /\ UNCHANGED <<operatingState, operatingStatePrev, internalCommand,
                 HBproducerTime, HB_TXbuff, txOverflow, errorRegister, startup,
                 localVars, due, overtaken>>

(* CO_CANsend finds the buffer of a TPDO or of an SDO answer still full.   *)
SendOverflows ==
  /\ step = "wait" /\ operatingState # "INITIALIZING"
  /\ txOverflow' = TRUE
  /\ UNCHANGED <<operatingState, operatingStatePrev, internalCommand, hbVars,
                 errorRegister, startup, localVars, due, overtaken>>

CO_process == CO_NMT_processSwitch \/ CO_NMT_processClear

Next == \/ \E c \in Command : CO_NMT_receive(c)
        \/ CO_process \/ SystemReset
        \/ \E on \in BOOLEAN : OD_write_1017(on)
        \/ Expire \/ SendOverflows

(* vCanOpenProcess wakes after 10 ms at most, nothing keeps it from the    *)
(* reset, and time passes.                                                 *)
Spec == /\ Init /\ [][Next]_vars
        /\ WF_vars(CO_process) /\ WF_vars(SystemReset) /\ WF_vars(Expire)
-----------------------------------------------------------------------------
TypeOK ==
  /\ {operatingState, operatingStatePrev, state, HB_TXbuff} \subseteq State
  /\ {internalCommand, taken, due} \subseteq Command
  /\ {HBproducerTime, HBexpired, txOverflow, errorRegister, startup,
      overtaken} \subseteq BOOLEAN
  /\ step \in {"wait", "switched", "reset"}

(* Whatever commands arrive and whenever, CO_process never leaves the node *)
(* operational under an error register that NMT_CONTROL selects.           *)
OperationalIsErrorFree ==
  step = "wait" /\ operatingState = "OPERATIONAL" => ~errorRegister

(* Between two expiries of the timer the bus knows the state CO_NMT_process *)
(* last started from, or has only seen the boot-up message.                *)
HeartbeatTells ==
  HBproducerTime /\ ~HBexpired
     => HB_TXbuff \in {operatingStatePrev, "INITIALIZING"}

(* A node whose heartbeat stays switched on tells its state again and      *)
(* again, however often the state changes.                                 *)
HeartbeatFollows ==
  <>[]HBproducerTime => []<>(HB_TXbuff = operatingState)

(* A command that was received and not taken is in the slot, unless it     *)
(* came between the switch and the clear of a call that had taken another. *)
CommandLostOnlyInWindow ==
  due # "NO_COMMAND" /\ ~overtaken => internalCommand = due

(* A command left by CO_NMT_receive is processed in CO_NMT_process.        *)
ReceivedIsProcessed ==
  \A c \in Command \ {"NO_COMMAND"} : due = c ~> due # c

(* A transmit overflow of a node that is not transmit-passive is cleared.  *)
OverflowClears == txOverflow ~> ~txOverflow
=============================================================================
