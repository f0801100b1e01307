------------------------------- MODULE Device -------------------------------
(***************************************************************************)
(* The parts of the node that look after it, side by side: its emergencies *)
(* and the heartbeats it consumes, its start and restart, and what its     *)
(* lamps show.  A behaviour exercises one of them, the subject, and leaves *)
(* the others where they start.                                            *)
(***************************************************************************)
EXTENDS Emergency

CONSTANTS  (* of the other parts, see their modules                        *)
  Entries, Remote, HbTimes,
  WATCHDOG, TIMER_QUEUE,
  Led, Colour, MAX_BRIGTH_COUNTER, BLINK_PERIOD, Level, BackColour

ASSUME HeartbeatsAssumption ==
  Entries \in Nat \ {0} /\ HbTimes \subseteq Nat /\ HbTimes # {}
ASSUME RestartAssumption == WATCHDOG \in Nat \ {0} /\ TIMER_QUEUE \in Nat \ {0}
ASSUME LampsAssumption ==
  /\ MAX_BRIGTH_COUNTER \in Nat /\ BLINK_PERIOD \in Nat
  /\ Level # {} /\ Level \subseteq Nat
  /\ BackColour # {} /\ BackColour \subseteq SUBSET Colour

VARIABLES
  subject,
  node, filter, allActive, wasOn, errors, at, heard,
  bit, clears, default, can, dog, spins, asked, busOff,
  LED_ON, LED_BLINK, object, writing, led_brigth, backligth, brigth_color,
  counter, blinkCounter, BlinkON, shown, blinked

heartbeatVars == <<node, filter, allActive, wasOn, errors, at, heard>>
restartVars == <<bit, clears, default, can, dog, spins, asked, busOff>>
lampVars == <<LED_ON, LED_BLINK, object, writing, led_brigth, backligth,
              brigth_color, counter, blinkCounter, BlinkON, shown, blinked>>
deviceVars == <<subject, vars, heartbeatVars, restartVars, lampVars>>

Heartbeats == INSTANCE HbConsumer
Restarts == INSTANCE Restart
Lamps == INSTANCE LedOutput

Is(s) == subject = s

(* Settings of the lamps while another part is the subject.                *)
IdleSettings == CHOOSE s \in Level \X Level \X BackColour : TRUE

DeviceInit ==
  /\ subject \in {"emergency", "heartbeats", "restart", "lamps"}
  /\ Init /\ (Is("emergency") \/ ~operational)
  /\ Heartbeats!HbInit /\ Restarts!Init
  /\ Lamps!Init /\ (Is("lamps") \/ <<led_brigth, backligth, brigth_color>> = IdleSettings)

DeviceNext ==
  /\ UNCHANGED subject
  /\ IF Is("emergency") THEN Next ELSE UNCHANGED vars
  /\ IF Is("heartbeats") THEN Heartbeats!HbNext ELSE UNCHANGED heartbeatVars
  /\ IF Is("restart") THEN Restarts!Next ELSE UNCHANGED restartVars
  /\ IF Is("lamps") THEN Lamps!Next ELSE UNCHANGED lampVars

(* The fairness of each, see its module.                                   *)
DeviceFairness ==
  /\ WF_vars(Is("emergency") /\ CO_EM_process)
  /\ WF_heartbeatVars(Is("heartbeats") /\ (Heartbeats!HbTask \/ Heartbeats!Subscribe))
  /\ WF_restartVars(Is("restart") /\ (Restarts!Tick \/ Restarts!Bite))
  /\ WF_restartVars(Is("restart") /\ (Restarts!SetBit \/ Restarts!WaitReturns \/ Restarts!Reload))
  /\ WF_restartVars(Is("restart") /\ Restarts!StartStack)
  /\ WF_restartVars(Is("restart") /\ Restarts!Daemon /\ ~spins)
  /\ WF_lampVars(Is("lamps") /\ \E sent \in BOOLEAN : Lamps!vLedProcess(sent))

DeviceSpec == DeviceInit /\ [][DeviceNext]_deviceVars /\ DeviceFairness
-----------------------------------------------------------------------------
(* The messages in the ring and those sent tell the error bits up to the   *)
(* last one that was dropped, a full ring is never passed over, and the    *)
(* history shows the newest messages, while the ring stays inside its      *)
(* buffer.                                                                 *)
ErrorsAreTold ==
  TypeOK /\ MessagesTellErrors /\ FullIsNeverMissed /\ HistoryIsLog

(* A heartbeat that has timed out is in the error register, a node taken   *)
(* for active has been heard, and it has an unknown NMT state only after a *)
(* heartbeat raced with the clearing of its flag.                          *)
HeartbeatsAreJudged ==
  /\ [](Heartbeats!HbTypeOK /\ Heartbeats!TimeoutIsReported /\ Heartbeats!ActiveWasHeard)
  /\ Heartbeats!UnknownOnlyByRace

(* The watchdog bites only a node that was bus-off or trapped, and a       *)
(* bus-off is forgotten only before the default task has set the bit for   *)
(* the first time.                                                         *)
RestartsForCause ==
  /\ [](Restarts!TypeOK /\ Restarts!ForgottenOnlyAtStart)
  /\ Restarts!BiteHasCause

(* A lamp that has not blinked since 0x2001 was written is driven as that  *)
(* object says, and what a key shows is its own colours or the back        *)
(* light's, never both.                                                    *)
LampsShowObject ==
  /\ [](Lamps!TypeOK /\ Lamps!UnblinkedIsObject)
  /\ Lamps!ColoursNotMixed

(* What each part comes to in the end: a lost message is told to the bus;  *)
(* a node that falls silent is not active for ever; a bus-off restarts the *)
(* node unless the scanner spins, and a node whose stack did not start is  *)
(* reset and tries again; a lamp that is told to blink goes on and off for *)
(* ever, whatever else is written meanwhile.                               *)
DeviceRecovers ==
  /\ LossIsTold
  /\ Heartbeats!SilenceIsNoticed
  /\ Restarts!BusOffRestarts /\ Restarts!TrapEnds
  /\ Lamps!BlinkingAlternates
=============================================================================
