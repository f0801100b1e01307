------------------------------ MODULE Keyboard ------------------------------
(***************************************************************************)
(* keyboard.c and vProcessTask of process.c: KeyboardTask samples the pins *)
(* and debounces them one key at a time, sending events to a queue of      *)
(* QueueSize slots and blocking while it is full; ProcessTask, the highest *)
(* priority of the system, takes one event per tick and updates object     *)
(* 0x2000 without ever being preempted by the scanner.                     *)
(***************************************************************************)
EXTENDS Integers, Sequences

CONSTANTS
  KEYBOARD_COUNT,  (* number of keys, scanned in the order 1, 2, ...       *)
  QueueSize,       (* 16 slots in xQueueCreateStatic                       *)
  Threshold        (* the values the KEYDOWN_DELAY, KEYDOWN_HOLD and       *)
                   (* REPEAT_TIME registers may have; an SDO write can     *)
                   (* change each of them between two scans                *)

ASSUME KeyboardAssumption ==
  /\ KEYBOARD_COUNT \in Nat \ {0}
  /\ QueueSize \in Nat \ {0}
  /\ Threshold # {} /\ Threshold \subseteq 0 .. 255

Key == 1 .. KEYBOARD_COUNT

VARIABLES
  pin,       (* the keys whose port reads KEY_ON_STATE                     *)
  STATUS,    (* debounced state of each key                                *)
  COUNTERS,  (* samples counted towards the next event of each key         *)
  scan,      (* key the scanner looks at next; 0 in vTaskDelay             *)
  sending,   (* the event the scanner is blocked on in xQueueSend, if any  *)
  queue,     (* pKeyboardQueue                                             *)
  keys       (* the bits of 0x2000:1, as a set of keys                     *)

vars == <<pin, STATUS, COUNTERS, scan, sending, queue, keys>>
taskVars == <<STATUS, COUNTERS, scan, sending>>

Backlog == queue \o sending
Pressed == {k \in Key : STATUS[k] # "OFF"}
Mirror == INSTANCE KeyMirror WITH pressed <- Pressed, backlog <- Backlog,
                                  shown <- keys

Init ==
  /\ pin \in SUBSET Key
  /\ STATUS = [k \in Key |-> "OFF"]
  /\ COUNTERS = [k \in Key |-> 0]
  /\ scan = 0
  /\ sending = <<>>
  /\ queue = <<>>
  /\ keys = {}

(* The user presses or lets go of a key, or its contact bounces.           *)
Touch(k) ==
  /\ pin' = IF k \in pin THEN pin \ {k} ELSE pin \cup {k}
  /\ UNCHANGED <<taskVars, queue, keys>>

(* vTaskDelay returns and the loop over the keys starts.                   *)
WakeScanner ==
  /\ scan = 0
  /\ scan' = 1
  /\ UNCHANGED <<pin, STATUS, COUNTERS, sending, queue, keys>>

(* Mutants: xQueueSend with a timeout of 0, so that a full queue drops the *)
(* event; xQueueSendToFront.                                               *)
QueueSendNoWait(e) ==
  /\ queue' = IF Len(queue) < QueueSize THEN Append(queue, e) ELSE queue
  /\ UNCHANGED sending
QueueSendToFront(e) ==
  IF Len(queue) < QueueSize
    THEN queue' = <<e>> \o queue /\ UNCHANGED sending
    ELSE sending' = <<e>> /\ UNCHANGED queue

(* xQueueSend with portMAX_DELAY: into a free slot, or wait for one.       *)
QueueSend(e) ==
  IF Len(queue) < QueueSize
    THEN queue' = Append(queue, e) /\ UNCHANGED sending
    ELSE sending' = <<e>> /\ UNCHANGED queue

Set(k, status, count) ==
  /\ STATUS' = [STATUS EXCEPT ![k] = status]
  /\ COUNTERS' = [COUNTERS EXCEPT ![k] = count]

(* The register a state counts towards has been reached.                   *)
Reached(k) == \E t \in Threshold : COUNTERS[k] + 1 >= t
NotReached(k) == \E t \in Threshold : COUNTERS[k] + 1 < t

SampleRelease(k) ==
  /\ STATUS[k] # "OFF" /\ k \notin pin
  /\ Set(k, "OFF", 0)
  /\ QueueSend(Mirror!Brake(k))

SamplePress(k) ==
  /\ STATUS[k] = "OFF" /\ k \in pin
  /\ \/ Reached(k) /\ Set(k, "ON", 0) /\ QueueSend(Mirror!Make(k))
     \/ /\ NotReached(k) /\ Set(k, "OFF", COUNTERS[k] + 1)
        /\ UNCHANGED <<sending, queue>>

(* Held: after KEYDOWN_HOLD samples the key repeats, then every            *)
(* REPEAT_TIME samples.                                                    *)
SampleHold(k) ==
  /\ STATUS[k] # "OFF" /\ k \in pin
  /\ \/ Reached(k) /\ Set(k, "ON_REPEAT", 0) /\ QueueSend(Mirror!Make(k))
     \/ /\ NotReached(k) /\ Set(k, STATUS[k], COUNTERS[k] + 1)
        /\ UNCHANGED <<sending, queue>>

(* An idle key keeps its counter: nothing is reset when a bounce ends.     *)
SampleIdle(k) ==
  /\ STATUS[k] = "OFF" /\ k \notin pin
  /\ UNCHANGED <<STATUS, COUNTERS, sending, queue>>

ScanKey(k) ==
  /\ scan = k /\ sending = <<>>
  /\ SampleRelease(k) \/ SamplePress(k) \/ SampleHold(k) \/ SampleIdle(k)
  /\ scan' = IF k = KEYBOARD_COUNT THEN 0 ELSE k + 1
  /\ UNCHANGED <<pin, keys>>

(* A slot is free again and the blocked xQueueSend returns.                *)
Unblock ==
  /\ sending # <<>> /\ Len(queue) < QueueSize
  /\ queue' = queue \o sending
  /\ sending' = <<>>
  /\ UNCHANGED <<pin, STATUS, COUNTERS, scan, keys>>

(* Mutants: a release does not clear its bit; a press forgets the bits of  *)
(* the other keys (0x2000:1 is not read first).                            *)
ProcessEventSticky ==
  /\ queue # <<>>
  /\ keys' = keys \cup {Head(queue).KeyCode}
  /\ queue' = Tail(queue)
  /\ UNCHANGED <<pin, taskVars>>
ProcessEventSingle ==
  /\ queue # <<>>
  /\ keys' = Mirror!Apply({}, Head(queue))
  /\ queue' = Tail(queue)
  /\ UNCHANGED <<pin, taskVars>>

(* One turn of vProcessTask: OD_get_value, the bit, OD_set_value.  It then *)
(* calls OD_requestTPDO, which KeyTpdo models.                             *)
ProcessEvent ==
  /\ queue # <<>>
  /\ keys' = Mirror!Apply(keys, Head(queue))
  /\ queue' = Tail(queue)
  /\ UNCHANGED <<pin, taskVars>>

Scanner == WakeScanner \/ (\E k \in Key : ScanKey(k)) \/ Unblock
Next == (\E k \in Key : Touch(k)) \/ Scanner \/ ProcessEvent

(* Both tasks keep running: each waits only in vTaskDelay or on the queue. *)
Fairness == WF_vars(Scanner) /\ WF_vars(ProcessEvent)
Spec == Init /\ [][Next]_vars /\ Fairness
-----------------------------------------------------------------------------
(* Besides the types: the queue never exceeds its slots, and a counter     *)
(* stays below the largest register value (it never nears the 32-bit       *)
(* limit).                                                                 *)
TypeOK ==
  /\ pin \subseteq Key
  /\ STATUS \in [Key -> {"OFF", "ON", "ON_REPEAT"}]
  /\ COUNTERS \in [Key -> 0 .. 255]
  /\ scan \in Key \cup {0}
  /\ sending \in Seq(Mirror!Event) /\ Len(sending) <= 1
  /\ queue \in Seq(Mirror!Event) /\ Len(queue) <= QueueSize
  /\ keys \subseteq Key

(* Scanner, queue and ProcessTask implement the abstract keyboard: no      *)
(* event is lost, duplicated or reordered, also while the queue is full.   *)
ImplementsMirror == Mirror!Spec

(* 0x2000 and the events on the way to it always tell the debounced state. *)
KeysMirrored == Mirror!Mirror
=============================================================================
