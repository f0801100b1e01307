------------------------------ MODULE LedOutput ------------------------------
(***************************************************************************)
(* led.c with the write handlers of 0x2001, 0x2002 and 0x2003: 1-3.  The   *)
(* timer interrupt drives three shift registers, one per colour, and       *)
(* blinks by rewriting LED_ON, the array that also holds what the bus has  *)
(* written.  An SDO write holds CO_LOCK_OD and is one step for the         *)
(* interrupt; an RPDO write is not, so it is two.                          *)
(***************************************************************************)
EXTENDS Integers

CONSTANTS
  Led,                 (* the keys that have a LED                         *)
  Colour,              (* the colours of a LED, red, green and blue        *)
  MAX_BRIGTH_COUNTER,  (* last value of the brightness counter             *)
  BLINK_PERIOD,        (* last value of the blink counter, 22500           *)
  Level,               (* what calcBrigt may return                        *)
  BackColour           (* what brigth_color may be set to by               *)
                       (* vSetBackLigthColor: sets of colours              *)

Lamp == Colour \X Led   \* one bit of one array

VARIABLES
  LED_ON, LED_BLINK,   (* the two arrays, as sets of lamps                 *)
  object,              (* 0x2001 in the object dictionary                  *)
  writing,             (* an RPDO write of 0x2001 between vSetLedOn and    *)
                       (* OD_writeOriginal: its colour and its LEDs        *)
  led_brigth, backligth, brigth_color,
  counter,             (* led_brigth_counter                               *)
  blinkCounter,        (* led_blink_counter                                *)
  BlinkON,
  shown,               (* what the registers have latched                  *)
  blinked              (* history: lamps blinking since LED_ON was written *)

settings == <<led_brigth, backligth, brigth_color>>
timerVars == <<counter, blinkCounter, BlinkON, shown>>
vars == <<LED_ON, LED_BLINK, object, writing, settings, timerVars, blinked>>

Init ==
  /\ LED_ON = {} /\ LED_BLINK = {} /\ object = {} /\ shown = {}
  /\ writing = {} /\ blinked = {}
  /\ led_brigth \in Level /\ backligth \in Level
  /\ brigth_color \in BackColour
  /\ counter = 0 /\ blinkCounter = 0 /\ BlinkON = TRUE

(* A write of one array element: the lamps of one colour.                  *)
Of(c) == {c} \X Led
Assign(lamps, c, leds) == (lamps \ Of(c)) \cup ({c} \X leds)

(* OD_writeLed under CO_LOCK_OD, that is by SDO.                           *)
WriteLed(c, leds) ==
  /\ writing = {}
  /\ LED_ON' = Assign(LED_ON, c, leds)
  /\ object' = Assign(object, c, leds)
  /\ blinked' = blinked \ Of(c)
  /\ UNCHANGED <<LED_BLINK, writing, settings, timerVars>>

(* OD_writeLed called by CO_RPDO_process: vSetLedOn, ...                   *)
vSetLedOn(c, leds) ==
  /\ writing = {}
  /\ LED_ON' = Assign(LED_ON, c, leds)
  /\ writing' = {<<c, leds>>}
  /\ blinked' = blinked \ Of(c)
  /\ UNCHANGED <<LED_BLINK, object, settings, timerVars>>

(* ... then OD_writeOriginal.                                              *)
WriteOriginal ==
  \E w \in writing :
    /\ object' = Assign(object, w[1], w[2])
    /\ writing' = {}
    /\ UNCHANGED <<LED_ON, LED_BLINK, settings, timerVars, blinked>>

(* OD_writeBlink; its copy in 0x2002 is never read.                        *)
OD_writeBlink(c, leds) ==
  /\ writing = {}
  /\ LED_BLINK' = Assign(LED_BLINK, c, leds)
  /\ UNCHANGED <<LED_ON, object, writing, settings, timerVars, blinked>>

(* OD_writeBRIGTH subindexes 1, 2 and 3.                                   *)
SetBrightness ==
  /\ writing = {}
  /\ \/ led_brigth' \in Level /\ UNCHANGED <<backligth, brigth_color>>
     \/ backligth' \in Level /\ UNCHANGED <<led_brigth, brigth_color>>
     \/ brigth_color' \in BackColour /\ UNCHANGED <<led_brigth, backligth>>
  /\ UNCHANGED <<LED_ON, LED_BLINK, object, writing, timerVars, blinked>>

(* Mutants: the lamps are assigned instead of or-ed; the phase is not      *)
(* toggled when the counter wraps.                                         *)
BlinkAssigns ==
  IF LED_BLINK = {}
    THEN BlinkON' = TRUE /\ UNCHANGED <<LED_ON, blinkCounter>>
    ELSE /\ blinkCounter' = (blinkCounter + 1) % (BLINK_PERIOD + 1)
         /\ BlinkON' = (BlinkON # (blinkCounter' = 0))
         /\ LED_ON' = IF BlinkON' THEN LED_BLINK ELSE {}
BlinkOnce ==
  IF LED_BLINK = {}
    THEN BlinkON' = TRUE /\ UNCHANGED <<LED_ON, blinkCounter>>
    ELSE /\ blinkCounter' = (blinkCounter + 1) % (BLINK_PERIOD + 1)
         /\ BlinkON' = (BlinkON /\ blinkCounter' # 0)
         /\ LED_ON' = IF BlinkON' THEN LED_ON \cup LED_BLINK
                                  ELSE LED_ON \ LED_BLINK

(* Blinking: the lamps are or-ed into LED_ON and taken out of it again, by *)
(* turns.  The counter is not reset when nothing blinks.                   *)
Blink ==
  IF LED_BLINK = {}
    THEN BlinkON' = TRUE /\ UNCHANGED <<LED_ON, blinkCounter>>
    ELSE /\ blinkCounter' = (blinkCounter + 1) % (BLINK_PERIOD + 1)
         /\ BlinkON' = (BlinkON # (blinkCounter' = 0))
         /\ LED_ON' = IF BlinkON' THEN LED_ON \cup LED_BLINK
                                  ELSE LED_ON \ LED_BLINK

(* Mutant: only the lamp's own colour is taken out of the backlight.       *)
PacketMixed ==
  {p \in brigth_color \X Led :
     /\ counter' < backligth \div (IF \E c \in Colour : brigth_color = {c}
                                     THEN 1 ELSE 2)
     /\ p \notin LED_ON'}
  \cup {p \in LED_ON' : counter' <= led_brigth}

(* The packet for this tick: the backlight where no LED is on, at half     *)
(* brightness for a mixed colour, and the LEDs.                            *)
Packet ==
  {p \in brigth_color \X Led :
     /\ counter' < backligth \div (IF \E c \in Colour : brigth_color = {c}
                                     THEN 1 ELSE 2)
     /\ \A c \in Colour : <<c, p[2]>> \notin LED_ON'}
  \cup {p \in LED_ON' : counter' <= led_brigth}

(* Mutant: the counter wraps one tick late.                                *)
vLedProcessLate(sent) ==
  /\ counter' = (counter + 1) % (MAX_BRIGTH_COUNTER + 2)
  /\ Blink
  /\ blinked' = blinked \cup LED_BLINK
  /\ shown' = IF sent THEN Packet ELSE shown
  /\ UNCHANGED <<LED_BLINK, object, writing, settings>>

(* TIMER3_IRQHandler: vLedProcess and vSPI_Transmit, which latches the     *)
(* packet unless the SPI times out.                                        *)
vLedProcess(sent) ==
  /\ counter' = (counter + 1) % (MAX_BRIGTH_COUNTER + 1)
  /\ Blink
  /\ blinked' = blinked \cup LED_BLINK
  /\ shown' = IF sent THEN Packet ELSE shown
  /\ UNCHANGED <<LED_BLINK, object, writing, settings>>

Write == \/ \E c \in Colour, leds \in SUBSET Led :
              WriteLed(c, leds) \/ vSetLedOn(c, leds) \/ OD_writeBlink(c, leds)
         \/ WriteOriginal \/ SetBrightness
Next == Write \/ \E sent \in BOOLEAN : vLedProcess(sent)

(* The timer never stops.                                                  *)
Fairness == WF_vars(\E sent \in BOOLEAN : vLedProcess(sent))
Spec == Init /\ [][Next]_vars /\ Fairness
-----------------------------------------------------------------------------
TypeOK ==
  /\ LED_ON \subseteq Lamp /\ LED_BLINK \subseteq Lamp
  /\ object \subseteq Lamp /\ shown \subseteq Lamp /\ blinked \subseteq Lamp
  /\ writing \subseteq Colour \X SUBSET Led
  /\ led_brigth \in Level /\ backligth \in Level
  /\ brigth_color \in BackColour
  /\ counter \in 0 .. MAX_BRIGTH_COUNTER
  /\ blinkCounter \in 0 .. BLINK_PERIOD
  /\ BlinkON \in BOOLEAN

(* Blinking disturbs no lamp but its own: whoever writes in whatever order *)
(* and whenever the interrupt comes, a lamp that has not blinked since     *)
(* 0x2001 was last written is driven as that object says.  (A lamp that    *)
(* has blinked keeps the phase blinking stopped in until the next write.)  *)
UnblinkedIsObject ==
  writing = {} => LED_ON \ blinked = object \ blinked

(* A LED's colour is never mixed with the backlight: what a key shows at a *)
(* latch is either its own colours or the backlight's.                     *)
ColoursNotMixed ==
  [][\A led \in Led : shown' # shown =>
       LET here == {c \in Colour : <<c, led>> \in shown'}
           own == {c \in Colour : <<c, led>> \in LED_ON'}
       IN here \in {{}, own} \/ (own = {} /\ here = brigth_color)]_vars

(* A lamp that is told to blink goes on and off for ever, whatever else is *)
(* written meanwhile and however the two counters beat, once the SPI does  *)
(* not time out any more.                                                  *)
SPIWorks == <>[][counter' # counter => vLedProcess(TRUE)]_vars
BlinkingAlternates ==
  SPIWorks => \A p \in Lamp :
    <>[](p \in LED_BLINK) => []<>(p \in shown) /\ []<>(p \notin shown)
=============================================================================
