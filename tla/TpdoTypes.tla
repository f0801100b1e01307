------------------------------- MODULE TpdoTypes -------------------------------
(***************************************************************************)
(* When a TPDO is sent: CO_TPDO_process of CO_PDO.c for every transmission *)
(* type, with its inhibit and event timers and its SYNC counter, and       *)
(* CO_CANclearPendingSyncPDOs, which takes back a frame that waits in the  *)
(* driver after the SYNC window.  The races with the application's request *)
(* are KeyTpdo's; here a pass of the periodic task is one step.            *)
(***************************************************************************)
EXTENDS Integers

CONSTANTS
  Cyclic,        (* cyclic synchronous transmission types, from 1 on       *)
  EventTimes, InhibitTimes,   (* subindexes 5 and 3, 0 is off              *)
  StartValues,   (* subindex 6, 0 is off                                   *)
  Overflow,      (* 0x1019: the SYNC counter runs from 1 to it, 0 is off   *)
  Differences,   (* time between two passes of the periodic task           *)
  Longest        (* bound: where the history elapsed stops, not below any  *)
                 (* of the times                                           *)

SYNC_ACYCLIC == 0
SYNC_EVENT_LO == 254
Type == Cyclic \cup {SYNC_ACYCLIC, SYNC_EVENT_LO}
NotStarted == 255        \* values of syncCounter
AwaitsStart == 254

VARIABLES
  valid, operational,
  transmissionType, sendRequest, syncCounter, syncStartValue,
  eventTime, eventTimer, inhibitTime, inhibitTimer,
  flag,          (* the application's request: its flagsPDO bit is clear   *)
  counter,       (* SYNC->counter                                          *)
  outside,       (* syncIsOutsideWindow                                    *)
  pending,       (* what waits in the driver's buffer: "none", or a frame  *)
                 (* of an "event" or a "sync" type                         *)
  syncFlag,      (* the buffer is marked synchronous                       *)
  gap,           (* history: SYNCs since the last frame of a cyclic TPDO,  *)
                 (* or since it was armed                                  *)
  cycling,       (* history: it has sent one since it was armed            *)
  elapsed,       (* history: time since the last frame, up to Longest      *)
  excused,       (* history: the inhibit timer was cleared since, by a     *)
                 (* write of the inhibit time or of the transmission type, *)
                 (* or by a pass that was not valid and operational        *)
  retyped,       (* history: the type was written while a frame waited     *)
  timing         (* history: the last pass was "right", or sent a frame    *)
                 (* "early", or was "late" to send one                     *)

commVars == <<valid, transmissionType, syncStartValue, eventTime, inhibitTime>>
histVars == <<gap, cycling, elapsed, excused, retyped, timing>>
tpVars == <<commVars, operational, sendRequest, syncCounter, eventTimer, inhibitTimer,
            flag, counter, outside, pending, syncFlag, histVars>>

TpInit ==
  /\ valid = TRUE /\ operational = FALSE /\ transmissionType = SYNC_EVENT_LO
  /\ sendRequest = TRUE /\ syncCounter = NotStarted /\ syncStartValue = 0
  /\ eventTime = 0 /\ eventTimer = 0 /\ inhibitTime = 0 /\ inhibitTimer = 0
  /\ flag = TRUE /\ counter = 0 /\ outside = FALSE
  /\ pending = "none" /\ syncFlag = FALSE
  /\ gap = 0 /\ cycling = FALSE /\ elapsed = Longest
  /\ excused = FALSE /\ retyped = FALSE /\ timing = "right"

Most(a, b) == IF a > b THEN a ELSE b
Least(a, b) == IF a < b THEN a ELSE b
Down(timer, d) == IF timer > d THEN timer - d ELSE 0
EventDriven == transmissionType \in {SYNC_ACYCLIC, SYNC_EVENT_LO}

-----------------------------------------------------------------------------
(* CO_TPDO_process.                                                        *)
NewEventTimer(d) == IF EventDriven /\ eventTime # 0 THEN Down(eventTimer, d) ELSE eventTimer

Requested(d) ==
  sendRequest \/ (EventDriven /\ (flag \/ (eventTime # 0 /\ NewEventTimer(d) = 0)))

(* Mutant: the first frame only comes after a whole period and one more.   *)
ArmedLate ==
  IF syncCounter # NotStarted THEN syncCounter
  ELSE IF Overflow # 0 /\ syncStartValue # 0 THEN AwaitsStart
  ELSE transmissionType + 2

(* Where the counter of a cyclic TPDO stands when a SYNC comes.            *)
Armed ==
  IF syncCounter # NotStarted THEN syncCounter
  ELSE IF Overflow # 0 /\ syncStartValue # 0 THEN AwaitsStart
  ELSE transmissionType \div 2 + 1

CycleDue(c) == IF Armed = AwaitsStart THEN c = syncStartValue ELSE Armed = 1

(* Mutant: the counter is set one short after a frame.                     *)
NextCounterShort(c) ==
  IF CycleDue(c) THEN IF transmissionType = 1 THEN 1 ELSE transmissionType - 1
  ELSE IF Armed = AwaitsStart THEN AwaitsStart ELSE Armed - 1

NextCounter(c) ==
  IF CycleDue(c) THEN transmissionType
  ELSE IF Armed = AwaitsStart THEN AwaitsStart ELSE Armed - 1

(* Mutant: the inhibit time does not hold a request back.                  *)
DueUninhibited(syncWas, c, d) ==
  CASE transmissionType = SYNC_EVENT_LO -> Requested(d)
    [] transmissionType = SYNC_ACYCLIC -> syncWas /\ Requested(d)
    [] OTHER -> syncWas /\ CycleDue(c)

Due(syncWas, c, d) ==
  CASE transmissionType = SYNC_EVENT_LO -> Requested(d) /\ Down(inhibitTimer, d) = 0
    [] transmissionType = SYNC_ACYCLIC -> syncWas /\ Requested(d)
    [] OTHER -> syncWas /\ CycleDue(c)

(* CO_TPDOsend; CO_CANsend puts the frame into the buffer.                 *)
CO_TPDOsend ==
  /\ sendRequest' = FALSE /\ flag' = (flag /\ ~EventDriven)
  /\ eventTimer' = eventTime /\ inhibitTimer' = inhibitTime
  /\ pending' = IF transmissionType = SYNC_EVENT_LO THEN "event" ELSE "sync"
  /\ excused' = FALSE /\ retyped' = FALSE

Waits(d) ==
  /\ sendRequest' = Requested(d) /\ flag' = flag
  /\ eventTimer' = NewEventTimer(d)
  /\ inhibitTimer' =
       IF transmissionType = SYNC_EVENT_LO THEN Down(inhibitTimer, d) ELSE inhibitTimer
  /\ UNCHANGED <<pending, excused, retyped>>

(* What the timers promise of an event driven TPDO.                        *)
Timing(sends, d) ==
  IF transmissionType # SYNC_EVENT_LO THEN "right"
  ELSE IF sends /\ elapsed + d < inhibitTime /\ ~excused THEN "early"
  ELSE IF ~sends /\ eventTime # 0 /\ elapsed + d >= Most(eventTime, inhibitTime)
       THEN "late" ELSE "right"

(* A running TPDO; its counter moves at a SYNC when it is cyclic.          *)
Running(syncWas, c, d) ==
  /\ IF Due(syncWas, c, d) THEN CO_TPDOsend ELSE Waits(d)
  /\ syncCounter' = IF syncWas /\ ~EventDriven THEN NextCounter(c) ELSE syncCounter
  /\ timing' = Timing(Due(syncWas, c, d), d)
  /\ gap' = IF EventDriven \/ Due(syncWas, c, d) THEN 0
            ELSE IF syncWas /\ (cycling \/ Armed # AwaitsStart) THEN gap + 1 ELSE gap
  /\ cycling' = (~EventDriven /\ (cycling \/ Due(syncWas, c, d)))
  /\ elapsed' = IF Due(syncWas, c, d) THEN 0 ELSE Least(elapsed + d, Longest)

Resting(d) ==
  /\ sendRequest' = TRUE /\ inhibitTimer' = 0 /\ eventTimer' = 0
  /\ syncCounter' = NotStarted
  /\ gap' = 0 /\ cycling' = FALSE /\ timing' = "right"
  /\ elapsed' = Least(elapsed + d, Longest) /\ excused' = TRUE
  /\ UNCHANGED <<flag, pending, retyped>>

(* A consumer takes the counter from the SYNC that it receives, whatever   *)
(* that tells; a producer counts by one.                                   *)
NewCount(syncWas, c) == (syncWas /\ Overflow # 0) \/ c = counter

(* A pass of the periodic task after d; the window opens with a SYNC, or   *)
(* when the SYNC timer was reset in the stopped state.                     *)
CO_TPDO_process(syncWas, d) ==
  /\ \E c \in 0..Overflow :
       /\ NewCount(syncWas, c) /\ counter' = c
       /\ IF valid /\ operational THEN Running(syncWas, c, d) ELSE Resting(d)
  /\ outside' \in IF syncWas THEN {FALSE} ELSE {outside, FALSE}
  /\ UNCHANGED <<commVars, operational, syncFlag>>

(* Mutant: the flag of the frame is not looked at.                         *)
ClearedAll == "none"

Cleared == IF syncFlag THEN "none" ELSE pending

(* CO_SYNC_process tells once that the window has passed; the driver then  *)
(* deletes what is marked synchronous.                                     *)
CO_CANclearPendingSyncPDOs ==
  /\ ~outside /\ outside' = TRUE
  /\ pending' = Cleared
  /\ UNCHANGED <<commVars, operational, sendRequest, syncCounter, eventTimer,
                 inhibitTimer, flag, counter, syncFlag, histVars>>

(* The transmit interrupt.                                                 *)
Leaves ==
  /\ pending # "none" /\ pending' = "none"
  /\ UNCHANGED <<commVars, operational, sendRequest, syncCounter, eventTimer,
                 inhibitTimer, flag, counter, outside, syncFlag, histVars>>

-----------------------------------------------------------------------------
(* OD_write_18xx.                                                          *)
(* CO_CANtxBufferInit empties the buffer.                                  *)
WriteCobId(v) ==
  /\ v # valid /\ valid' = v
  /\ syncFlag' = (transmissionType # SYNC_EVENT_LO) /\ pending' = "none"
  /\ UNCHANGED <<transmissionType, syncStartValue, eventTime, inhibitTime, operational,
                 sendRequest, syncCounter, eventTimer, inhibitTimer, flag, counter,
                 outside, histVars>>

WriteType(t) ==
  /\ transmissionType' = t
  /\ syncFlag' = (t # SYNC_EVENT_LO) /\ syncCounter' = NotStarted
  /\ sendRequest' = TRUE /\ inhibitTimer' = 0 /\ eventTimer' = 0
  /\ gap' = 0 /\ cycling' = FALSE /\ excused' = TRUE
  /\ retyped' = (retyped \/ (pending # "none" /\ t # transmissionType))
  /\ UNCHANGED <<elapsed, timing, valid, syncStartValue, eventTime, inhibitTime,
                 operational, flag, counter, outside, pending>>

WriteEventTime(t) ==
  /\ eventTime' = t /\ eventTimer' = 0
  /\ UNCHANGED <<valid, transmissionType, syncStartValue, inhibitTime, operational,
                 sendRequest, syncCounter, inhibitTimer, flag, counter, outside,
                 pending, syncFlag, histVars>>

(* Subindexes 3 and 6 are refused while the PDO is valid.                  *)
WriteInhibitTime(t) ==
  /\ ~valid
  /\ inhibitTime' = t /\ inhibitTimer' = 0 /\ excused' = TRUE
  /\ UNCHANGED <<valid, transmissionType, syncStartValue, eventTime, operational,
                 sendRequest, syncCounter, eventTimer, flag, counter, outside, pending,
                 syncFlag, gap, cycling, elapsed, retyped, timing>>

WriteSyncStart(s) ==
  /\ ~valid
  /\ syncStartValue' = s
  /\ UNCHANGED <<valid, transmissionType, eventTime, inhibitTime, operational,
                 sendRequest, syncCounter, eventTimer, inhibitTimer, flag, counter,
                 outside, pending, syncFlag, histVars>>

SetOperational(o) ==
  /\ operational' = o
  /\ counter' \in IF o THEN {counter} ELSE {counter, 0}    \* 0 when it is stopped
  /\ UNCHANGED <<commVars, sendRequest, syncCounter, eventTimer, inhibitTimer, flag,
                 outside, pending, syncFlag, histVars>>

OD_requestTPDO ==
  /\ flag' = TRUE
  /\ UNCHANGED <<commVars, operational, sendRequest, syncCounter, eventTimer,
                 inhibitTimer, counter, outside, pending, syncFlag, histVars>>

TpNext ==
  \/ \E s \in BOOLEAN, d \in Differences : CO_TPDO_process(s, d)
  \/ CO_CANclearPendingSyncPDOs \/ Leaves \/ OD_requestTPDO
  \/ \E b \in BOOLEAN : WriteCobId(b) \/ SetOperational(b)
  \/ \E t \in Type : WriteType(t)
  \/ \E t \in EventTimes : WriteEventTime(t)
  \/ \E t \in InhibitTimes : WriteInhibitTime(t)
  \/ \E s \in StartValues : WriteSyncStart(s)

TpSpec == TpInit /\ [][TpNext]_tpVars
-----------------------------------------------------------------------------
TpTypeOK ==
  /\ transmissionType \in Type /\ eventTime \in EventTimes /\ inhibitTime \in InhibitTimes
  /\ syncStartValue \in StartValues /\ counter \in 0..Overflow
  /\ syncCounter \in {NotStarted, AwaitsStart} \cup UNION {1..n : n \in Cyclic}
  /\ eventTimer \in 0..Longest /\ inhibitTimer \in 0..Longest

(* Once it has sent a frame a cyclic TPDO sends one at every N-th SYNC,    *)
(* and without a start value the first comes within N of them.             *)
EveryNthSync ==
  /\ cycling => gap + syncCounter = transmissionType
  /\ ~EventDriven /\ ~cycling /\ syncCounter < AwaitsStart
       => gap + syncCounter <= transmissionType

(* Two frames of an event driven TPDO keep the inhibit time, also when the *)
(* event time or the COB-ID is written between them, unless the timer was  *)
(* cleared: the code does so when the inhibit time or the transmission     *)
(* type is written and in a pass that is not valid and operational, and    *)
(* after the latter two it sends at once.  In any case a frame is sent at  *)
(* the first pass at which the event timer, or the inhibit time when it is *)
(* the longer one, is over.                                                *)
TimersAreKept == timing = "right"

(* When the SYNC window passes, a synchronous frame that still waits is    *)
(* taken back and an event driven one is not, if the TPDO has kept its     *)
(* type.                                                                   *)
WindowTakesSynchronous ==
  [][~outside /\ outside' /\ ~retyped
       => pending' = IF pending = "sync" THEN "none" ELSE pending]_tpVars
=============================================================================
