------------------------------- MODULE Restart -------------------------------
(***************************************************************************)
(* main.c: how the node starts and how it gives itself up.  The default    *)
(* task reloads the watchdog every 500 ms while the event bit              *)
(* RESTART_DISABLE is set; the bus-off interrupt has the bit cleared, by a *)
(* command to the timer daemon, whose priority is the lowest; an error in  *)
(* the initialisation of the stack stops the processor with its interrupts *)
(* disabled.                                                               *)
(***************************************************************************)
EXTENDS Integers

CONSTANTS
  WATCHDOG,        (* periods of 500 ms until the watchdog bites           *)
  TIMER_QUEUE      (* configTIMER_QUEUE_LENGTH                             *)

VARIABLES
  bit,       (* RESTART_DISABLE in xResetEventHandle                       *)
  clears,    (* commands in the queue of the timer daemon                  *)
  default,   (* where StartDefaultTask is                                  *)
  can,       (* CanOpenProcess: init, normal, or in Error_Handler          *)
  dog,       (* periods since the last reload                              *)
  spins,     (* register KEYBOARD_PERIOD is 0: vTaskDelay(0) lets the      *)
             (* scanner keep every task of a lower priority from running   *)
  asked,     (* history: bus-off since the default task has set the bit    *)
  busOff     (* history: bus-off since the last reset                      *)

vars == <<bit, clears, default, can, dog, spins, asked, busOff>>

(* Reset, whoever causes it.  The register comes from the flash again.     *)
Booted ==
  /\ bit' = FALSE /\ clears' = 0 /\ dog' = 0
  /\ default' = "starting" /\ can' = "init"
  /\ asked' = FALSE /\ busOff' = FALSE
  /\ UNCHANGED spins

Init ==
  /\ bit = FALSE /\ clears = 0 /\ dog = 0
  /\ default = "starting" /\ can = "init"
  /\ asked = FALSE /\ busOff = FALSE
  /\ spins = FALSE

(* Mutant: Error_Handler leaves the interrupts, and so the tasks, running. *)
RunsAlways == TRUE

Runs == can # "trapped"

(* vLedDriverStart is done: the bit is set, whatever has happened before.  *)
SetBit ==
  /\ Runs /\ default = "starting"
  /\ bit' = TRUE
  /\ default' = "waiting"
  /\ UNCHANGED <<clears, can, dog, spins, asked, busOff>>

(* Mutant: the bit is not waited for.                                      *)
WaitReturnsAtOnce ==
  /\ Runs /\ default = "waiting"
  /\ default' = "delay"
  /\ UNCHANGED <<bit, clears, can, dog, spins, asked, busOff>>

(* xEventGroupWaitBits, which leaves the bit set.                          *)
WaitReturns ==
  /\ Runs /\ default = "waiting" /\ bit
  /\ default' = "delay"
  /\ UNCHANGED <<bit, clears, can, dog, spins, asked, busOff>>

(* Mutant: the watchdog is not reloaded.                                   *)
ReloadNothing ==
  /\ Runs /\ default = "due"
  /\ default' = "waiting"
  /\ UNCHANGED <<bit, clears, can, dog, spins, asked, busOff>>

(* fwdgt_counter_reload after osDelay.                                     *)
Reload ==
  /\ Runs /\ default = "due"
  /\ dog' = 0
  /\ default' = "waiting"
  /\ UNCHANGED <<bit, clears, can, spins, asked, busOff>>

(* vCanOpenProcess up to CO_CANsetNormalMode, or Error_Handler on the way. *)
StartStack ==
  /\ can = "init"
  /\ can' \in {"normal", "trapped"}
  /\ UNCHANGED <<bit, clears, default, dog, spins, asked, busOff>>

(* Mutants: the command is queued although the queue is full; the handler  *)
(* does nothing.                                                           *)
BusOffOver ==
  /\ can = "normal" /\ clears <= TIMER_QUEUE
  /\ clears' = clears + 1
  /\ busOff' = TRUE
  /\ asked' = (asked \/ default # "starting")
  /\ UNCHANGED <<bit, default, can, dog, spins>>
BusOffSilent ==
  /\ can = "normal"
  /\ busOff' = TRUE
  /\ asked' = (asked \/ default # "starting")
  /\ UNCHANGED <<bit, clears, default, can, dog, spins>>

(* CAN0_EWMC_IRQHandler, HAL_CAN_ErrorCallback, vRestartNode: a command    *)
(* for the daemon, lost when its queue is full.  That a bus-off raises     *)
(* this interrupt is assumed: the driver enables CAN_INT_BO without        *)
(* CAN_INT_ERR, and the controller goes back to the bus by itself.         *)
BusOff ==
  /\ can = "normal"
  /\ clears' = IF clears < TIMER_QUEUE THEN clears + 1 ELSE clears
  /\ busOff' = TRUE
  /\ asked' = (asked \/ default # "starting")
  /\ UNCHANGED <<bit, default, can, dog, spins>>

(* The daemon executes xEventGroupClearBits.                               *)
Daemon ==
  /\ Runs /\ clears > 0
  /\ clears' = clears - 1
  /\ bit' = FALSE
  /\ UNCHANGED <<default, can, dog, spins, asked, busOff>>

(* OD_writeKeyboardParametr subindex 1.                                    *)
WritePeriod ==
  /\ can = "normal"
  /\ spins' \in BOOLEAN
  /\ UNCHANGED <<bit, clears, default, can, dog, asked, busOff>>

(* The end of CanOpenProcess: NVIC_SystemReset.                            *)
SystemReset == can = "normal" /\ Booted

(* The default task takes its next step within a period if it can: only    *)
(* the scanner may spin, at the same priority.                             *)
Prompt == Runs => default = "delay" \/ (default = "waiting" /\ ~bit)

(* 500 ms pass.                                                            *)
Tick ==
  /\ Prompt /\ dog < WATCHDOG
  /\ dog' = dog + 1
  /\ default' = IF default = "delay" THEN "due" ELSE default
  /\ UNCHANGED <<bit, clears, can, spins, asked, busOff>>

Bite == Prompt /\ dog = WATCHDOG /\ Booted

Next == \/ SetBit \/ WaitReturns \/ Reload \/ StartStack \/ BusOff \/ Daemon
        \/ WritePeriod \/ SystemReset \/ Tick \/ Bite

(* Time passes and the tasks run; the daemon only while nobody spins.      *)
Fairness ==
  /\ WF_vars(Tick \/ Bite)
  /\ WF_vars(SetBit \/ WaitReturns \/ Reload)
  /\ WF_vars(StartStack)
  /\ WF_vars(Daemon /\ ~spins)
Spec == Init /\ [][Next]_vars /\ Fairness
-----------------------------------------------------------------------------
TypeOK ==
  /\ bit \in BOOLEAN /\ spins \in BOOLEAN
  /\ asked \in BOOLEAN /\ busOff \in BOOLEAN
  /\ clears \in 0 .. TIMER_QUEUE /\ dog \in 0 .. WATCHDOG
  /\ default \in {"starting", "waiting", "delay", "due"}
  /\ can \in {"init", "normal", "trapped"}

(* The watchdog bites only a node that has been bus-off or whose stack did *)
(* not start: no interleaving of the tasks of a healthy node lets it       *)
(* expire.                                                                 *)
BiteHasCause == [][Bite => busOff \/ can = "trapped"]_vars

(* A bus-off is forgotten only when it comes before the default task has   *)
(* set the bit for the first time; any later one holds the bit cleared or  *)
(* has a command under way.                                                *)
ForgottenOnlyAtStart == asked => ~bit \/ clears > 0

(* A bus-off after that restarts the node, unless the scanner spins: then  *)
(* the daemon may never run.                                               *)
BusOffRestarts == <>[](~spins) => (asked ~> ~asked)

(* A node whose stack did not start is reset and tries again.              *)
TrapEnds == can = "trapped" ~> can = "init"
=============================================================================
