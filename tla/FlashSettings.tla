---------------------------- MODULE FlashSettings ----------------------------
(***************************************************************************)
(* flash_data.c and the write handlers of process.c that store a setting.  *)
(*                                                                         *)
(* SettingsREG is a RAM image of sixteen register bytes.  A handler that   *)
(* accepts an SDO write changes its register, erases the flash page and    *)
(* programs the whole image again, word after word; the first word holds   *)
(* the valid code beside bit rate, node id and NMT state.  Power may go at *)
(* any moment, and an FMC operation may fail, which nobody is told.        *)
(***************************************************************************)
EXTENDS Integers

CONSTANTS
  Legal,    (* register values that the range checks accept                *)
  Default,  (* the initial value of a register in SettingsREG              *)
  Valid     (* VALID_CODE                                                  *)

(* An erased byte, 0xFF, is no node id, bit rate, NMT state, brightness or *)
(* colour that a range check accepts, and not VALID_CODE.                  *)
Erased == 255

ASSUME FlashAssumption ==
  /\ Default \in Legal
  /\ Erased \notin Legal \cup {Valid}

(* One register for each use of a flash word: the code and ID (bit rate,   *)
(* node id, NMT state) share the first one; BRIGTH (brightness, colour) is *)
(* range-checked like ID; the keyboard parameters and the PWM are not.     *)
Reg == {"CODE", "ID", "BRIGTH", "KEYBOARD", "PWM"}
Checked == {"ID", "BRIGTH"}
Writable == Reg \ {"CODE"}
LastWord == 3

(* Mutant: ID does not share the word of the code.                         *)
WordOfHalf == [r \in Reg |-> CASE r = "CODE" -> 0
                               [] r = "ID" \/ r = "BRIGTH" -> 1
                               [] r = "KEYBOARD" -> 2
                               [] r = "PWM" -> 3]
WordOf == [r \in Reg |-> CASE r = "CODE" \/ r = "ID" -> 0
                           [] r = "BRIGTH" -> 1
                           [] r = "KEYBOARD" -> 2
                           [] r = "PWM" -> 3]

Byte == Legal \cup {Valid, Erased}
Image == [Reg -> Byte]
DefaultImage == [r \in Reg |-> IF r = "CODE" THEN Valid ELSE Default]
Blank == [r \in Reg |-> Erased]

VARIABLES
  ram,      (* SettingsREG                                                 *)
  flash,    (* the page at FLASH_DATA_ADR                                  *)
  phase,    (* what the processor is doing: off, in vFDWtiteReg (erase,    *)
            (* program), in vFDInit reading the page (load), or running    *)
  word,     (* next word MEM_If_Write_FS programs                          *)
  booting,  (* vFDWtiteReg was called by vFDInit                           *)
  before,   (* history: the page when vFDWtiteReg was last called          *)
  failed    (* history: an FMC operation has failed since power-on         *)

vars == <<ram, flash, phase, word, booting, before, failed>>

(* A device fresh from the programmer: page blank, power off.              *)
Init ==
  /\ ram = DefaultImage /\ flash = Blank /\ before = Blank
  /\ phase = "off" /\ word = 0
  /\ booting = FALSE /\ failed = FALSE

(* Power-off, watchdog or NVIC_SystemReset, whatever was going on.         *)
PowerLoss ==
  /\ phase # "off"
  /\ phase' = "off"
  /\ UNCHANGED <<ram, flash, word, booting, before, failed>>

(* vFDInit, called by main before the scheduler starts: the statically     *)
(* initialised image is written when the page has no valid code.           *)
PowerOn ==
  /\ phase = "off"
  /\ ram' = DefaultImage
  /\ phase' = IF flash["CODE"] = Valid THEN "load" ELSE "erase"
  /\ booting' = TRUE
  /\ before' = flash
  /\ failed' = FALSE
  /\ UNCHANGED <<flash, word>>

(* The end of vFDInit: MEM_If_Read_FS of the whole page.                   *)
Load ==
  /\ phase = "load"
  /\ ram' = flash
  /\ phase' = "run"
  /\ UNCHANGED <<flash, word, booting, before, failed>>

(* Mutant: the range check is missing.                                     *)
SetRegUnchecked(r, v) ==
  /\ phase = "run"
  /\ ram' = [ram EXCEPT ![r] = v]
  /\ phase' = "erase"
  /\ booting' = FALSE
  /\ before' = flash
  /\ UNCHANGED <<flash, word, failed>>

(* A write handler up to vFDWtiteReg.  A checked register takes only a     *)
(* legal value; any other write is answered ODR_INVALID_VALUE.             *)
SetReg(r, v) ==
  /\ phase = "run"
  /\ r \in Checked => v \in Legal
  /\ ram' = [ram EXCEPT ![r] = v]
  /\ phase' = "erase"
  /\ booting' = FALSE
  /\ before' = flash
  /\ UNCHANGED <<flash, word, failed>>

(* fmc_page_erase; its result is not looked at.                            *)
ErasePage ==
  /\ phase = "erase"
  /\ phase' = "program" /\ word' = 0
  /\ \/ flash' = Blank /\ UNCHANGED failed
     \/ failed' = TRUE /\ UNCHANGED flash
  /\ UNCHANGED <<ram, booting, before>>

WriteDone == phase' = IF booting THEN "load" ELSE "run"

IsErased(w) == \A r \in Reg : WordOf[r] = w => flash[r] = Erased
Programmed(w) == [r \in Reg |-> IF WordOf[r] = w THEN ram[r] ELSE flash[r]]

(* Mutant: MEM_If_Write_FS goes on after a word that could not be          *)
(* programmed.                                                             *)
ProgramWordNoBreak ==
  /\ phase = "program"
  /\ \/ IsErased(word) /\ flash' = Programmed(word) /\ UNCHANGED failed
     \/ failed' = TRUE /\ UNCHANGED flash
  /\ IF word = LastWord THEN WriteDone /\ UNCHANGED word
                        ELSE word' = word + 1 /\ UNCHANGED phase
  /\ UNCHANGED <<ram, booting, before>>

(* Mutant: the loop stops one word early.                                  *)
ProgramWordShort ==
  /\ phase = "program"
  /\ \/ /\ IsErased(word)
        /\ flash' = Programmed(word)
        /\ IF word = LastWord - 1 THEN WriteDone /\ UNCHANGED word
                                  ELSE word' = word + 1 /\ UNCHANGED phase
        /\ UNCHANGED failed
     \/ WriteDone /\ failed' = TRUE /\ UNCHANGED <<flash, word>>
  /\ UNCHANGED <<ram, booting, before>>

(* Mutant: an operation that fails is tried again until it succeeds.       *)
ProgramWordRetry ==
  /\ phase = "program"
  /\ \/ /\ IsErased(word)
        /\ flash' = Programmed(word)
        /\ IF word = LastWord THEN WriteDone /\ UNCHANGED word
                              ELSE word' = word + 1 /\ UNCHANGED phase
        /\ UNCHANGED failed
     \/ failed' = TRUE /\ UNCHANGED <<flash, word, phase>>
  /\ UNCHANGED <<ram, booting, before>>

(* One turn of the loop of MEM_If_Write_FS.  fmc_word_program of a word    *)
(* that is not erased, or that fails, ends the loop.                       *)
ProgramWord ==
  /\ phase = "program"
  /\ \/ /\ IsErased(word)
        /\ flash' = Programmed(word)
        /\ IF word = LastWord THEN WriteDone /\ UNCHANGED word
                              ELSE word' = word + 1 /\ UNCHANGED phase
        /\ UNCHANGED failed
     \/ WriteDone /\ failed' = TRUE /\ UNCHANGED <<flash, word>>
  /\ UNCHANGED <<ram, booting, before>>

Processor == PowerOn \/ Load \/ ErasePage \/ ProgramWord
Next == Processor \/ PowerLoss
        \/ \E r \in Writable, v \in Legal \cup {Erased} : SetReg(r, v)

(* The processor goes on when it has power; nobody has to write.           *)
Spec == Init /\ [][Next]_vars /\ WF_vars(Processor)
-----------------------------------------------------------------------------
TypeOK ==
  /\ ram \in Image /\ flash \in Image /\ before \in Image
  /\ phase \in {"off", "load", "run", "erase", "program"}
  /\ word \in 0 .. LastWord
  /\ booting \in BOOLEAN /\ failed \in BOOLEAN

(* A page with a valid code has a legal identity, however the last write   *)
(* of it ended: the next start does not come up with node id 0xFF or on an *)
(* undefined bit rate.                                                     *)
ValidHasIdentity == flash["CODE"] = Valid => flash["ID"] \in Legal

(* So the node runs with a legal identity, unless the flash itself failed  *)
(* since power-on.                                                         *)
RunsWithIdentity == phase = "run" /\ ~failed => ram["ID"] \in Legal

(* Writing over a valid page never mixes two settings, also when the flash *)
(* fails: what is not erased comes from one image, the old one or the one  *)
(* being written.  (Over a page without the code a failure is not caught:  *)
(* its first word is blank whether or not the erase has worked.)           *)
NeverMixed ==
  before["CODE"] = Valid \/ ~failed =>
    \E image \in {before, ram} : \A r \in Reg : flash[r] \in {image[r], Erased}

(* Once the write handler has answered, the setting survives a power loss: *)
(* the page is what the registers are.                                     *)
AnsweredIsStored == phase = "run" /\ ~failed => flash = ram

(* When power stays, every start and every write comes to an end.          *)
ComesUp == <>[][~PowerLoss]_vars => []<>(phase = "run")
=============================================================================
