---------------------------- MODULE ObjectWrites ----------------------------
(***************************************************************************)
(* The write handlers of process.c whose values are stored, on top of the  *)
(* settings in flash: what the client is answered, and what 0x2004 and     *)
(* 0x2005 hold in the object dictionary, which vFDInit fills at start-up   *)
(* and a handler updates once vFDWtiteReg has returned.                    *)
(***************************************************************************)
EXTENDS FlashSettings

VARIABLES
  object,   (* 0x2004 and 0x2005 in the object dictionary                  *)
  request,  (* the register of the write that is under way, or "none"      *)
  answer,   (* its answer, "busy" until the handler returns                *)
  rewritten (* history: a write of 0x2005 has returned since power-on      *)

writeVars == <<object, request, answer, rewritten>>
allVars == <<vars, writeVars>>

Copied == {"KEYBOARD", "PWM"}   \* registers with a copy in the dictionary
Unset == 0                      \* OD_ROM is not initialised for 0x2005

WInit ==
  /\ Init
  /\ object = [r \in Copied |-> Unset]
  /\ request = "none" /\ answer = "none" /\ rewritten = FALSE

(* Without power the variables are gone; the start-up code initialises     *)
(* them again before vFDInit.                                              *)
Forget ==
  /\ PowerLoss
  /\ object' = [r \in Copied |-> Unset]
  /\ request' = "none" /\ answer' = "none" /\ rewritten' = FALSE

(* Mutant: 0x2004 is not filled.                                           *)
LoadNothing == Load /\ UNCHANGED writeVars

(* The end of vFDInit: OD_set_value with a length of one byte, which the   *)
(* four parameters of 0x2004 have.  Those of 0x2005 have two, so the call  *)
(* answers ODR_TYPE_MISMATCH and the object keeps what it was built with.  *)
LoadObjects ==
  /\ Load
  /\ object' = [object EXCEPT !["KEYBOARD"] = ram'["KEYBOARD"]]
  /\ UNCHANGED <<request, answer, rewritten>>

(* A handler that accepts the value ...                                    *)
Accept(r, v) ==
  /\ answer # "busy"
  /\ SetReg(r, v)
  /\ request' = r /\ answer' = "busy"
  /\ UNCHANGED <<object, rewritten>>

(* ... or that does not, or that does not know the subindex: then          *)
(* OD_writeBRIGTH answers ODR_SUB_NOT_EXIST, those of 0x2004 and 0x2005    *)
(* ODR_INVALID_VALUE.                                                      *)
Refuse(r, v) ==
  /\ phase = "run" /\ answer # "busy"
  /\ r \in Checked /\ v \notin Legal
  /\ request' = "none" /\ answer' = "invalid"
  /\ UNCHANGED <<vars, object, rewritten>>
RefuseSubindex ==
  /\ phase = "run" /\ answer # "busy"
  /\ request' = "none" /\ answer' \in {"no_sub", "invalid"}
  /\ UNCHANGED <<vars, object, rewritten>>

(* Mutant: OD_writeOriginal is not called.                                 *)
ReturnOnly ==
  /\ phase = "run" /\ answer = "busy"
  /\ answer' = "ok"
  /\ rewritten' = (rewritten \/ request = "PWM")
  /\ UNCHANGED <<vars, object, request>>

(* The handler returns: OD_writeOriginal for 0x2004 and 0x2005.  In        *)
(* OD_writeBRIGTH only subindex 4 gets past the second test, 5 and 6 take  *)
(* its else branch although they have been stored.                         *)
Return ==
  /\ phase = "run" /\ answer = "busy"
  /\ object' = [r \in Copied |-> IF r = request THEN ram[r] ELSE object[r]]
  /\ \/ answer' = "ok"
     \/ request = "BRIGTH" /\ answer' = "no_sub"
  /\ request' = "none"
  /\ rewritten' = (rewritten \/ request = "PWM")
  /\ UNCHANGED vars

Handler ==
  \/ \E r \in Writable, v \in Legal \cup {Erased} : Accept(r, v) \/ Refuse(r, v)
  \/ RefuseSubindex
Running == \/ (PowerOn \/ ErasePage \/ ProgramWord) /\ UNCHANGED writeVars
           \/ LoadObjects \/ Return
WNext == Running \/ Handler \/ Forget

WSpec == WInit /\ [][WNext]_allVars /\ WF_allVars(Running)
-----------------------------------------------------------------------------
(* What a client reads in 0x2004 is what the keyboard task works with,     *)
(* through every power loss and failure of the flash.  What it reads in    *)
(* 0x2005 is the register only from the first write after power-on: until  *)
(* then it is what the object was built with, whatever has been stored,    *)
(* for vFDInit fails to load it and nobody looks at the answer.            *)
ObjectIsRegister ==
  phase = "run" /\ answer # "busy" =>
    /\ object["KEYBOARD"] = ram["KEYBOARD"]
    /\ object["PWM"] = IF rewritten THEN ram["PWM"] ELSE Unset
=============================================================================
