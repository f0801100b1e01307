------------------------------- MODULE SyncPdo -------------------------------
(***************************************************************************)
(* CO_SYNC.c and the synchronous part of the RPDOs of CO_PDO.c.  A SYNC    *)
(* toggles the buffer into which the receive interrupt puts RPDOs; the     *)
(* periodic task writes the other one into the object dictionary.  One     *)
(* RPDO is followed, its frames by age: the SYNCs since they came.         *)
(***************************************************************************)
EXTENDS Integers

CONSTANTS
  Period,        (* 0x1006, in units of half a call of CO_process_SYNC     *)
  RpdoTime,      (* event timer of the RPDO, subindex 5, in the same       *)
                 (* units: whole calls, while rpdoTimer starts at 1        *)
  TimerStop      (* where the model stops the timers, beyond 1.5 Period    *)

Diff == 2        \* timeDifference_us
Oldest == 2      \* ages are not told apart from here on
NoFrame == -1

VARIABLES
  nmt,             (* NMT state, "stopped", "preoperational" or            *)
                   (* "operational"                                        *)
  period,          (* 0x1006: 0 or Period                                  *)
  isProducer,
  syncTimer, syncNew, CANrxToggle,
  timeoutError,    (* 0, 1 or 2                                            *)
  synchronous,     (* RPDO->synchronous                                    *)
  buffer,          (* age of the frame in each rx buffer, until it has     *)
                   (* been written or is forgotten                         *)
  rxNew,           (* the buffers with CANrxNew set                        *)
  rpdoValid,       (* valid of the RPDO                                    *)
  timeoutTime,     (* timeoutTime_us of the RPDO: 0 or RpdoTime            *)
  rpdoTimer,       (* timeoutTimer of the RPDO                             *)
  syncErrors,      (* error status bits                                    *)
  step,            (* of the periodic task: "idle", "choose", "skip",      *)
                   (* "read", "copy" or "time"                             *)
  bufNo, received, (* its locals, reset at the end of a pass               *)
  crossed,         (* history: a SYNC came between CO_SYNC_process and the *)
                   (* end of CO_RPDO_process, or two before one pass, or   *)
                   (* one was dropped in the stopped state, or the         *)
                   (* transmission type changed under a frame              *)
  unlinked         (* history: the time-out was reported and its timer     *)
                   (* then set to 0                                        *)

syncVars == <<period, isProducer, syncTimer, syncNew, timeoutError>>
paramVars == <<synchronous, rpdoValid, timeoutTime>>
rpdoVars == <<paramVars, rxNew, rpdoTimer, unlinked>>
spVars == <<nmt, syncVars, CANrxToggle, rpdoVars, buffer, syncErrors, step, bufNo,
            received, crossed>>

SpInit ==
  /\ nmt = "preoperational" /\ period = Period
  /\ isProducer = FALSE /\ syncTimer = 0 /\ syncNew = FALSE /\ CANrxToggle = FALSE
  /\ timeoutError = 0
  /\ synchronous = TRUE /\ buffer = [b \in {0, 1} |-> NoFrame] /\ rxNew = {}
  /\ rpdoValid = TRUE /\ timeoutTime = RpdoTime /\ rpdoTimer = 0 /\ unlinked = FALSE /\ syncErrors = {}
  /\ step = "idle" /\ bufNo = 0 /\ received = FALSE /\ crossed = FALSE

On == nmt # "stopped"
Sooner(a, b) == IF a < b THEN a ELSE b
Aged == [b \in {0, 1} |-> IF buffer[b] = NoFrame THEN NoFrame ELSE Sooner(buffer[b] + 1, Oldest)]

-----------------------------------------------------------------------------
(* Interrupts.                                                             *)
(* A SYNC of the wrong length is only counted as an error of its own.      *)
CO_SYNC_receive ==
  /\ CANrxToggle' = ~CANrxToggle /\ syncNew' = TRUE /\ buffer' = Aged
  /\ crossed' = (crossed \/ step # "idle" \/ syncNew)
  /\ UNCHANGED <<nmt, period, isProducer, syncTimer, timeoutError, rpdoVars,
                 syncErrors, step, bufNo, received>>

(* Mutant: the interrupt and the task agree on the buffer.                 *)
RxBufferSame == IF synchronous /\ ~CANrxToggle THEN 1 ELSE 0

RxBuffer == IF synchronous /\ CANrxToggle THEN 1 ELSE 0

CO_PDO_receive ==
  /\ rpdoValid
  /\ buffer' = [buffer EXCEPT ![RxBuffer] = 0]
  /\ rxNew' = rxNew \cup {RxBuffer}
  /\ UNCHANGED <<nmt, syncVars, CANrxToggle, paramVars, rpdoTimer, unlinked,
                 syncErrors, step, bufNo, received, crossed>>

-----------------------------------------------------------------------------
(* CO_SYNC_process.                                                        *)
(* Mutant: the next SYNC does not withdraw the report.                     *)
SyncErrorsKept(was, late) ==
  IF late THEN syncErrors \cup {"SYNC_TIME_OUT"} ELSE syncErrors

SyncErrors(was, late) ==
  IF was /\ timeoutError = 2 THEN syncErrors \ {"SYNC_TIME_OUT"}
  ELSE IF late THEN syncErrors \cup {"SYNC_TIME_OUT"} ELSE syncErrors

SyncOn ==
  LET timer == IF syncNew THEN 0 ELSE Sooner(syncTimer + Diff, TimerStop)
      sends == isProducer /\ period > 0 /\ timer >= period
      was == syncNew \/ sends
      late == ~isProducer /\ period > 0 /\ timeoutError = 1
                /\ timer > period + period \div 2 IN
  /\ syncTimer' = IF sends THEN 0 ELSE timer
  /\ CANrxToggle' = IF sends THEN ~CANrxToggle ELSE CANrxToggle
  /\ buffer' = IF sends THEN Aged ELSE buffer
  /\ crossed' = IF rxNew = {} THEN FALSE ELSE crossed \/ (sends /\ syncNew)
  /\ timeoutError' = IF was THEN 1 ELSE IF late THEN 2 ELSE timeoutError
  /\ syncErrors' = SyncErrors(was, late)
  /\ step' = IF was \/ ~synchronous THEN "choose" ELSE "skip"

SyncOff ==
  /\ syncTimer' = 0 /\ crossed' = (crossed \/ syncNew)
  /\ UNCHANGED <<CANrxToggle, buffer, timeoutError, syncErrors>>
  /\ step' = IF synchronous THEN "skip" ELSE "choose"

CO_process_SYNC ==
  /\ step = "idle"
  /\ IF On THEN SyncOn ELSE SyncOff
  /\ syncNew' = FALSE
  /\ UNCHANGED <<nmt, period, isProducer, rpdoVars, bufNo, received>>

(* CO_RPDO_process: which buffer, then its loop.                           *)
rpdoRest == <<nmt, syncVars, CANrxToggle, paramVars, crossed>>
Active == rpdoValid /\ nmt = "operational"

Choose ==
  /\ step = "choose" /\ Active
  /\ bufNo' = IF synchronous /\ ~CANrxToggle THEN 1 ELSE 0
  /\ step' = "read"
  /\ UNCHANGED <<rpdoRest, buffer, rxNew, rpdoTimer, unlinked, syncErrors, received>>

Skip ==
  /\ step = "skip" /\ Active
  /\ step' = "idle"
  /\ UNCHANGED <<rpdoRest, buffer, rxNew, rpdoTimer, unlinked, syncErrors, bufNo, received>>

(* The RPDO is not valid or the node not operational.                      *)
ForgetRpdo ==
  /\ step \in {"choose", "skip"} /\ ~Active
  /\ rxNew' = {} /\ buffer' = [b \in {0, 1} |-> NoFrame] /\ rpdoTimer' = 0
  /\ unlinked' = (unlinked \/ "RPDO_TIME_OUT" \in syncErrors)
  /\ step' = "idle"
  /\ UNCHANGED <<rpdoRest, syncErrors, bufNo, received>>

Read ==
  /\ step = "read"
  /\ IF bufNo \in rxNew
     THEN rxNew' = rxNew \ {bufNo} /\ received' = TRUE /\ step' = "copy"
     ELSE step' = "time" /\ UNCHANGED <<rxNew, received>>
  /\ UNCHANGED <<rpdoRest, buffer, rpdoTimer, unlinked, syncErrors, bufNo>>

(* The frame of bufNo goes into the object dictionary.                     *)
Copy ==
  /\ step = "copy"
  /\ step' = "read"
  /\ buffer' = [buffer EXCEPT ![bufNo] = IF bufNo \in rxNew THEN @ ELSE NoFrame]
  /\ UNCHANGED <<rpdoRest, rxNew, rpdoTimer, unlinked, syncErrors, bufNo, received>>

(* Supervision of the RPDO.                                                *)
(* Mutant: the timer runs on after the report.                             *)
RunsOn == ~received /\ rpdoTimer > 0

Runs == ~received /\ rpdoTimer > 0 /\ rpdoTimer < timeoutTime
NewTimer ==
  IF received /\ timeoutTime > 0 THEN 1 ELSE IF Runs THEN rpdoTimer + Diff ELSE rpdoTimer
Expires == Runs /\ NewTimer > timeoutTime

(* Mutant: the timer is restarted before it is compared.                   *)
RecoversAfterRestart == received /\ timeoutTime > 0 /\ NewTimer > timeoutTime

Recovers == received /\ timeoutTime > 0 /\ rpdoTimer > timeoutTime

Time ==
  /\ step = "time"
  /\ rpdoTimer' = NewTimer
  /\ syncErrors' = IF Recovers THEN syncErrors \ {"RPDO_TIME_OUT"}
                   ELSE IF Expires THEN syncErrors \cup {"RPDO_TIME_OUT"}
                   ELSE syncErrors
  /\ unlinked' = (unlinked /\ ~Recovers /\ ~Expires)
  /\ step' = "idle" /\ bufNo' = 0 /\ received' = FALSE
  /\ UNCHANGED <<rpdoRest, buffer, rxNew>>

-----------------------------------------------------------------------------
(* Writes from the bus; the periodic task holds the mutex meanwhile.       *)
SetNmt(s) ==
  /\ nmt' = s
  /\ UNCHANGED <<syncVars, CANrxToggle, rpdoVars, buffer, syncErrors, step, bufNo,
                 received, crossed>>

OD_write_1005(p) ==
  /\ step = "idle"
  /\ isProducer' = p /\ syncTimer' = IF p THEN 0 ELSE syncTimer
  /\ UNCHANGED <<nmt, period, syncNew, timeoutError, CANrxToggle, rpdoVars, buffer, syncErrors, step,
                 bufNo, received, crossed>>

Write1006(p) ==
  /\ step = "idle"
  /\ period' = p
  /\ UNCHANGED <<nmt, isProducer, syncTimer, syncNew, timeoutError, CANrxToggle, rpdoVars, buffer,
                 syncErrors, step, bufNo, received, crossed>>

(* OD_write_14xx: the COB-ID, when it switches the RPDO on or off, the     *)
(* transmission type and the event timer.                                  *)
WriteCobId(v) ==
  /\ step = "idle" /\ v # rpdoValid
  /\ rpdoValid' = v
  /\ rxNew' = IF v THEN rxNew ELSE {}
  /\ buffer' = IF v THEN buffer ELSE [b \in {0, 1} |-> NoFrame]
  /\ UNCHANGED <<nmt, syncVars, CANrxToggle, synchronous, timeoutTime, rpdoTimer, unlinked,
                 syncErrors, step, bufNo, received, crossed>>

WriteType(s) ==
  /\ step = "idle"
  /\ synchronous' = s
  /\ rxNew' = IF s # synchronous THEN rxNew \ {1} ELSE rxNew
  /\ buffer' = IF s # synchronous THEN [buffer EXCEPT ![1] = NoFrame] ELSE buffer
  /\ crossed' = (crossed \/ s # synchronous)
  /\ UNCHANGED <<nmt, syncVars, CANrxToggle, rpdoValid, timeoutTime, rpdoTimer, unlinked,
                 syncErrors, step, bufNo, received>>

WriteEventTimer(t) ==
  /\ step = "idle"
  /\ timeoutTime' = t /\ rpdoTimer' = 0
  /\ unlinked' = (unlinked \/ "RPDO_TIME_OUT" \in syncErrors)
  /\ UNCHANGED <<nmt, syncVars, CANrxToggle, synchronous, rpdoValid, rxNew, buffer,
                 syncErrors, step, bufNo, received, crossed>>

SpNext ==
  \/ \E b \in BOOLEAN : OD_write_1005(b) \/ WriteType(b) \/ WriteCobId(b)
  \/ CO_SYNC_receive \/ CO_PDO_receive \/ CO_process_SYNC \/ Choose \/ Skip \/ ForgetRpdo \/ Read \/ Copy \/ Time
  \/ \E s \in {"stopped", "preoperational", "operational"} : SetNmt(s)
  \/ \E p \in {0, Period} : Write1006(p)
  \/ \E t \in {0, RpdoTime} : WriteEventTimer(t)

SpSpec == SpInit /\ [][SpNext]_spVars

-----------------------------------------------------------------------------
SpTypeOK ==
  /\ syncTimer \in 0..TimerStop /\ timeoutError \in 0..2
  /\ rpdoTimer \in 0..(RpdoTime + Diff - 1)
  /\ rxNew \subseteq {0, 1}
  /\ syncErrors \subseteq {"SYNC_TIME_OUT", "RPDO_TIME_OUT"}

(* A synchronous RPDO takes effect with the first SYNC after it: the frame *)
(* that is written came before the last SYNC and after the one before it,  *)
(* unless one of the cases of crossed came between.                        *)
ActsOnLastCycle ==
  step = "copy" /\ synchronous /\ ~crossed => buffer[bufNo] = 1

(* The SYNC time-out is in the error register exactly while the state      *)
(* machine of CO_SYNC_process waits for a SYNC to take it back.            *)
SyncTimeoutIsReported == (timeoutError = 2) = ("SYNC_TIME_OUT" \in syncErrors)

(* An RPDO that is overdue is reported until the next one comes.  The      *)
(* report outlives the supervision, and the next RPDO does not withdraw    *)
(* it, only when the timer was set to 0 under it: by a pass in which the   *)
(* node was not operational or the RPDO not valid, or by a write of its    *)
(* event timer.                                                            *)
OverdueIsReported ==
  (timeoutTime > 0 /\ rpdoTimer >= timeoutTime) = ("RPDO_TIME_OUT" \in syncErrors /\ ~unlinked)
=============================================================================
