------------------------- MODULE ObjectWrites_proofs -------------------------
(***************************************************************************)
(* Proofs about FlashSettings, and about ObjectWrites on top of it, for    *)
(* every set of legal values, every default and every valid code that an   *)
(* erased byte does not look like.                                         *)
(***************************************************************************)
EXTENDS ObjectWrites, TLAPS

(* The handlers do with the flash what FlashSettings allows.               *)
LEMMA WriteStep == [WNext]_allVars => [Next]_vars
<1> SUFFICES ASSUME [WNext]_allVars PROVE [Next]_vars
  OBVIOUS
<1>1. CASE (PowerOn \/ ErasePage \/ ProgramWord) /\ UNCHANGED writeVars
  BY <1>1 DEF Next, Processor
<1>2. CASE LoadObjects
  BY <1>2 DEF LoadObjects, Next, Processor
<1>3. CASE Return
  BY <1>3 DEF Return
<1>4. ASSUME NEW r \in Writable, NEW v \in Legal \cup {Erased}, Accept(r, v)
      PROVE  [Next]_vars
  BY <1>4 DEF Accept, Next
<1>5. ASSUME NEW r \in Writable, NEW v \in Legal \cup {Erased}, Refuse(r, v)
      PROVE  [Next]_vars
  BY <1>5 DEF Refuse
<1>6. CASE RefuseSubindex
  BY <1>6 DEF RefuseSubindex
<1>7. CASE Forget
  BY <1>7 DEF Forget, Next
<1>8. CASE UNCHANGED allVars
  BY <1>8 DEF allVars
<1>9. QED
  BY <1>1, <1>2, <1>3, <1>4, <1>5, <1>6, <1>7, <1>8 DEF WNext, Running, Handler

(* So what is proved of the settings holds whoever writes them.            *)
LEMMA WriteSafety == WSpec => Init /\ [][Next]_vars
<1>1. WInit => Init
  BY DEF WInit
<1>2. QED
  BY <1>1, WriteStep, PTL DEF WSpec

(* Which registers share a word, and that no word is beyond the last.      *)
LEMMA Words ==
  /\ \A r \in Reg : WordOf[r] \in 0 .. LastWord
  /\ WordOf["CODE"] = 0 /\ WordOf["ID"] = 0
BY DEF WordOf, Reg, LastWord

(* The image that is written at the first start, and the erased page.      *)
LEMMA Images ==
  /\ DefaultImage \in Image /\ Blank \in Image
  /\ DefaultImage["ID"] \in Legal
  /\ Blank["CODE"] # Valid
BY FlashAssumption DEF DefaultImage, Blank, Image, Byte, Reg

(* Programming a word copies its registers and no other.                   *)
LEMMA ProgrammedWord ==
  ASSUME TypeOK, NEW w
  PROVE  /\ Programmed(w) \in Image
         /\ \A r \in Reg : WordOf[r] = w => Programmed(w)[r] = ram[r]
         /\ \A r \in Reg : WordOf[r] # w => Programmed(w)[r] = flash[r]
BY DEF Programmed, TypeOK, Image

(* The RAM image and the page stay images of registers.                    *)
THEOREM FlashTyping == WSpec => []TypeOK
<1>1. Init => TypeOK
  <2>1. 0 \in 0 .. LastWord
    BY DEF LastWord
  <2>2. QED
    BY <2>1, Images DEF Init, TypeOK
<1>2. TypeOK /\ [Next]_vars => TypeOK'
  <2> SUFFICES ASSUME TypeOK, [Next]_vars PROVE TypeOK'
    OBVIOUS
  <2> USE DEF TypeOK
  <2>1. CASE PowerOn
    BY <2>1, Images DEF PowerOn
  <2>2. CASE Load
    BY <2>2 DEF Load
  <2>3. CASE ErasePage
    <3>1. flash' \in Image /\ failed' \in BOOLEAN
      BY <2>3, Images DEF ErasePage
    <3>2. word' \in 0 .. LastWord
      BY <2>3 DEF ErasePage, LastWord
    <3>3. QED
      BY <2>3, <3>1, <3>2 DEF ErasePage
  <2>4. CASE ProgramWord
    <3>1. Programmed(word) \in Image
      BY ProgrammedWord
    <3>2. flash' \in Image /\ failed' \in BOOLEAN
      BY <2>4, <3>1 DEF ProgramWord
    <3>3. word' \in 0 .. LastWord
      BY <2>4 DEF ProgramWord, LastWord
    <3>4. phase' \in {"load", "run", "program"}
      BY <2>4 DEF ProgramWord, WriteDone
    <3>5. QED
      BY <2>4, <3>2, <3>3, <3>4 DEF ProgramWord
  <2>5. CASE PowerLoss
    BY <2>5 DEF PowerLoss
  <2>6. ASSUME NEW r \in Writable, NEW v \in Legal \cup {Erased}, SetReg(r, v)
        PROVE  TypeOK'
    BY <2>6 DEF SetReg, Image, Byte, Writable
  <2>7. CASE UNCHANGED vars
    BY <2>7 DEF vars
  <2>8. QED
    BY <2>1, <2>2, <2>3, <2>4, <2>5, <2>6, <2>7 DEF Next, Processor
<1>3. QED
  BY <1>1, <1>2, WriteSafety, PTL
-----------------------------------------------------------------------------
(* The page has an identity behind its code because the RAM image has one: *)
(* code and identity lie in one word, which is programmed at once.         *)
ImageHasIdentity == ram["CODE"] = Valid => ram["ID"] \in Legal
IdentityInv == ImageHasIdentity /\ ValidHasIdentity

(* The invariant holds at first and every step keeps it.                   *)
LEMMA IdentityInductive ==
  /\ Init => IdentityInv
  /\ TypeOK /\ IdentityInv /\ [Next]_vars => IdentityInv'
<1> USE DEF IdentityInv, ImageHasIdentity, ValidHasIdentity
<1>1. Init => IdentityInv
  BY Images DEF Init
<1>2. ASSUME TypeOK, IdentityInv, [Next]_vars PROVE IdentityInv'
  <2>1. CASE PowerOn
    BY <1>2, <2>1, Images DEF PowerOn
  <2>2. CASE Load
    BY <1>2, <2>2 DEF Load
  <2>3. CASE ErasePage
    BY <1>2, <2>3, Images DEF ErasePage
  <2>4. CASE ProgramWord
    <3>1. CASE word = 0
      BY <1>2, <2>4, <3>1, ProgrammedWord, Words DEF ProgramWord, Reg
    <3>2. CASE word # 0
      BY <1>2, <2>4, <3>2, ProgrammedWord, Words DEF ProgramWord, Reg
    <3>3. QED
      BY <3>1, <3>2
  <2>5. CASE PowerLoss
    BY <1>2, <2>5 DEF PowerLoss
  <2>6. ASSUME NEW r \in Writable, NEW v \in Legal \cup {Erased}, SetReg(r, v)
        PROVE  IdentityInv'
    BY <1>2, <2>6 DEF SetReg, Writable, Checked, Reg, TypeOK, Image
  <2>7. CASE UNCHANGED vars
    BY <1>2, <2>7 DEF vars
  <2>8. QED
    BY <1>2, <2>1, <2>2, <2>3, <2>4, <2>5, <2>6, <2>7 DEF Next, Processor
<1>3. QED
  BY <1>1, <1>2

(* However a write of the page ended, a page with a valid code has a legal *)
(* node id, bit rate and NMT state.                                        *)
THEOREM ValidHasIdentityAlways == WSpec => []ValidHasIdentity
<1>1. IdentityInv => ValidHasIdentity
  BY DEF IdentityInv
<1>2. QED
  BY <1>1, IdentityInductive, FlashTyping, WriteSafety, PTL
-----------------------------------------------------------------------------
(* Up to the word that is programmed next, the page is the RAM image, when *)
(* no operation has failed; outside of a write it is the whole image.      *)
StoredSoFar ==
  ~failed => /\ phase = "program" =>
                  \A r \in Reg : WordOf[r] < word => flash[r] = ram[r]
             /\ phase = "run" => flash = ram

(* The invariant holds at first and every step keeps it.                   *)
LEMMA StoredInductive ==
  /\ Init => StoredSoFar
  /\ TypeOK /\ StoredSoFar /\ [Next]_vars => StoredSoFar'
<1> USE DEF StoredSoFar
<1>1. Init => StoredSoFar
  BY DEF Init
<1>2. ASSUME TypeOK, StoredSoFar, [Next]_vars PROVE StoredSoFar'
  <2>1. CASE PowerOn
    BY <2>1 DEF PowerOn
  <2>2. CASE Load
    BY <1>2, <2>2 DEF Load
  <2>3. CASE ErasePage
    <3>1. \A r \in Reg : ~(WordOf[r] < 0)
      BY Words DEF LastWord
    <3>2. QED
      BY <2>3, <3>1 DEF ErasePage
  <2>4. CASE ProgramWord
    <3>1. SUFFICES ASSUME ~failed' PROVE StoredSoFar'
      OBVIOUS
    <3>2. /\ phase = "program" /\ ~failed /\ flash' = Programmed(word)
          /\ ram' = ram
          /\ IF word = LastWord THEN WriteDone /\ UNCHANGED word
                                ELSE word' = word + 1 /\ UNCHANGED phase
      BY <2>4, <3>1 DEF ProgramWord
    <3>3. /\ \A r \in Reg : WordOf[r] < word => flash'[r] = ram'[r]
          /\ \A r \in Reg : WordOf[r] = word => flash'[r] = ram'[r]
      <4> SUFFICES ASSUME NEW r \in Reg
                   PROVE  /\ WordOf[r] < word => flash'[r] = ram'[r]
                          /\ WordOf[r] = word => flash'[r] = ram'[r]
        OBVIOUS
      <4>1. WordOf[r] \in 0 .. LastWord /\ word \in 0 .. LastWord
        BY <1>2, Words DEF TypeOK
      <4>2. WordOf[r] = word => flash'[r] = ram'[r]
        BY <1>2, <3>2, ProgrammedWord
      <4>3. WordOf[r] < word => WordOf[r] # word
        BY <4>1 DEF LastWord
      <4>4. WordOf[r] # word => flash'[r] = flash[r]
        BY <1>2, <3>2, ProgrammedWord
      <4>5. WordOf[r] < word => flash[r] = ram[r]
        BY <1>2, <3>2
      <4>6. QED
        BY <3>2, <4>2, <4>3, <4>4, <4>5
    <3>4. CASE word = LastWord
      <4>1. \A r \in Reg : WordOf[r] < word \/ WordOf[r] = word
        BY <3>4, Words DEF LastWord
      <4>2. \A r \in Reg : flash'[r] = ram'[r]
        BY <3>3, <4>1
      <4>3. flash' \in Image /\ ram' \in Image
        BY <1>2, <3>2, ProgrammedWord DEF TypeOK
      <4>4. flash' = ram'
        BY <4>2, <4>3 DEF Image
      <4>5. phase' \in {"load", "run"}
        BY <3>2, <3>4 DEF WriteDone
      <4>6. QED
        BY <4>4, <4>5
    <3>5. CASE word # LastWord
      <4>1. word' = word + 1 /\ phase' = "program"
        BY <3>2, <3>5
      <4>2. \A r \in Reg : WordOf[r] < word + 1 => WordOf[r] < word \/ WordOf[r] = word
        BY <1>2, Words DEF TypeOK, LastWord
      <4>3. QED
        BY <3>3, <4>1, <4>2
    <3>6. QED
      BY <3>4, <3>5
  <2>5. CASE PowerLoss
    BY <1>2, <2>5 DEF PowerLoss
  <2>6. ASSUME NEW r \in Writable, NEW v \in Legal \cup {Erased}, SetReg(r, v)
        PROVE  StoredSoFar'
    BY <2>6 DEF SetReg
  <2>7. CASE UNCHANGED vars
    BY <1>2, <2>7 DEF vars
  <2>8. QED
    BY <1>2, <2>1, <2>2, <2>3, <2>4, <2>5, <2>6, <2>7 DEF Next, Processor
<1>3. QED
  BY <1>1, <1>2

(* A write handler that has answered has stored the setting: the page is   *)
(* the RAM image, unless the flash has failed.                             *)
THEOREM AnsweredIsStoredAlways == WSpec => []AnsweredIsStored
<1>1. StoredSoFar => AnsweredIsStored
  BY DEF StoredSoFar, AnsweredIsStored
<1>2. QED
  BY <1>1, StoredInductive, FlashTyping, WriteSafety, PTL
-----------------------------------------------------------------------------
(* While no operation has failed, what the node runs with, or is about to  *)
(* load, has a legal identity.                                             *)
LegalSoFar ==
  ~failed => /\ phase \in {"erase", "program", "run"} => ram["ID"] \in Legal
             /\ phase = "load" => flash["ID"] \in Legal

(* The node that runs has a legal node id, bit rate and NMT state, unless  *)
(* the flash has failed since power-on.                                    *)
THEOREM RunsWithIdentityAlways == WSpec => []RunsWithIdentity
<1>1. Init => LegalSoFar
  BY DEF Init, LegalSoFar
<1>2. ASSUME TypeOK, IdentityInv, StoredSoFar, LegalSoFar, [Next]_vars
      PROVE  LegalSoFar'
  <2> USE DEF LegalSoFar
  <2>1. CASE PowerOn
    BY <1>2, <2>1, Images DEF PowerOn, IdentityInv, ValidHasIdentity
  <2>2. CASE Load
    BY <1>2, <2>2 DEF Load
  <2>3. CASE ErasePage
    BY <1>2, <2>3 DEF ErasePage
  <2>4. CASE ProgramWord
    <3>1. SUFFICES ASSUME ~failed' PROVE LegalSoFar'
      OBVIOUS
    <3>2. /\ phase = "program" /\ ~failed /\ flash' = Programmed(word)
          /\ ram' = ram /\ phase' \in {"load", "run", "program"}
      BY <2>4, <3>1 DEF ProgramWord, WriteDone
    <3>3. ram["ID"] \in Legal
      BY <1>2, <3>2
    <3>4. "ID" \in Reg
      BY DEF Reg
    <3>5. CASE word = 0
      BY <1>2, <3>2, <3>3, <3>4, <3>5, ProgrammedWord, Words
    <3>6. CASE word # 0
      <4>1. 0 < word
        BY <1>2, <3>6 DEF TypeOK
      <4>2. flash["ID"] = ram["ID"]
        BY <1>2, <3>2, <3>4, <4>1, Words DEF StoredSoFar
      <4>3. flash'["ID"] = ram["ID"]
        BY <1>2, <3>2, <3>4, <3>6, <4>2, ProgrammedWord, Words
      <4>4. QED
        BY <3>2, <3>3, <4>3
    <3>7. QED
      BY <3>5, <3>6
  <2>5. CASE PowerLoss
    BY <2>5 DEF PowerLoss
  <2>6. ASSUME NEW r \in Writable, NEW v \in Legal \cup {Erased}, SetReg(r, v)
        PROVE  LegalSoFar'
    BY <1>2, <2>6 DEF SetReg, Checked, TypeOK, Image, Reg
  <2>7. CASE UNCHANGED vars
    BY <1>2, <2>7 DEF vars
  <2>8. QED
    BY <1>2, <2>1, <2>2, <2>3, <2>4, <2>5, <2>6, <2>7 DEF Next, Processor
<1>3. LegalSoFar => RunsWithIdentity
  BY DEF LegalSoFar, RunsWithIdentity
<1>4. QED
  BY <1>1, <1>2, <1>3, IdentityInductive, StoredInductive, FlashTyping, WriteSafety, PTL
-----------------------------------------------------------------------------
(* r shows what image has, or nothing; and the page may come from image.   *)
Shows(image) == \A r \in Reg : flash[r] \in {image[r], Erased}

(* A write that starts finds the old page.  If that had a code and cannot  *)
(* be erased, its first word refuses to be programmed, so the loop never   *)
(* leaves word 0; in every other case what is programmed lies on a blank.  *)
OneSource ==
  /\ phase = "erase" => flash = before
  /\ phase = "program" /\ (before["CODE"] = Valid \/ ~failed) =>
       \/ flash = before /\ before["CODE"] = Valid /\ word = 0
       \/ Shows(ram)
  /\ NeverMixed

(* A write over a valid page never mixes two settings, also when the erase *)
(* or a word fails.                                                        *)
THEOREM NeverMixedAlways == WSpec => []NeverMixed
<1>0. NeverMixed <=> (before["CODE"] = Valid \/ ~failed => Shows(before) \/ Shows(ram))
  BY DEF NeverMixed, Shows
<1>1. Init => OneSource
  BY <1>0 DEF Init, OneSource, Shows
<1>2. ASSUME TypeOK, OneSource, [Next]_vars PROVE OneSource'
  <2>0. NeverMixed' <=> (before'["CODE"] = Valid \/ ~failed'
                          => Shows(before)' \/ Shows(ram)')
    BY DEF NeverMixed, Shows
  <2>1. CASE PowerOn
    <3>1. flash' = flash /\ before' = flash /\ phase' \in {"load", "erase"}
      BY <2>1 DEF PowerOn
    <3>2. QED
      BY <2>0, <3>1 DEF OneSource, Shows
  <2>2. CASE Load
    <3>1. flash' = flash /\ ram' = flash /\ phase' = "run"
      BY <2>2 DEF Load
    <3>2. QED
      BY <2>0, <3>1 DEF OneSource, Shows
  <2>3. CASE ErasePage
    <3>1. /\ flash = before /\ before' = before /\ ram' = ram
          /\ phase' = "program" /\ word' = 0
      BY <1>2, <2>3 DEF ErasePage, OneSource
    <3>2. CASE flash' = Blank
      <4>1. Shows(ram)'
        BY <3>2 DEF Shows, Blank
      <4>2. QED
        BY <2>0, <3>1, <4>1 DEF OneSource
    <3>3. CASE flash' = flash /\ failed'
      <4>1. Shows(before)'
        BY <3>1, <3>3 DEF Shows
      <4>2. QED
        BY <2>0, <3>1, <3>3, <4>1 DEF OneSource
    <3>4. QED
      BY <2>3, <3>2, <3>3 DEF ErasePage
  <2>4. CASE ProgramWord
    <3>1. ram' = ram /\ before' = before /\ phase = "program"
          /\ phase' # "erase"
      BY <2>4 DEF ProgramWord, WriteDone
    <3>2. CASE IsErased(word) /\ flash' = Programmed(word) /\ failed' = failed
      <4>1. SUFFICES ASSUME before["CODE"] = Valid \/ ~failed
                     PROVE  Shows(ram)'
        BY <2>0, <3>1, <3>2 DEF OneSource
      <4>2. ~(flash = before /\ before["CODE"] = Valid /\ word = 0)
        BY <3>2, Words, FlashAssumption DEF IsErased, Reg
      <4>3. Shows(ram)
        BY <1>2, <3>1, <4>1, <4>2 DEF OneSource
      <4>4. QED
        BY <1>2, <3>1, <3>2, <4>3, ProgrammedWord DEF Shows
    <3>3. CASE failed' = TRUE /\ UNCHANGED <<flash, word>> /\ WriteDone
      <4>1. phase' # "program"
        BY <3>3 DEF WriteDone
      <4>2. SUFFICES ASSUME before["CODE"] = Valid
                     PROVE  Shows(before)' \/ Shows(ram)'
        BY <2>0, <3>1, <3>3, <4>1 DEF OneSource
      <4>3. Shows(before) \/ Shows(ram)
        BY <1>0, <1>2, <4>2 DEF OneSource
      <4>4. QED
        BY <3>1, <3>3, <4>3 DEF Shows
    <3>4. QED
      BY <2>4, <3>2, <3>3 DEF ProgramWord
  <2>5. CASE PowerLoss
    <3>1. UNCHANGED <<flash, ram, before, failed>> /\ phase' = "off"
      BY <2>5 DEF PowerLoss
    <3>2. QED
      BY <1>0, <1>2, <2>0, <3>1 DEF OneSource, Shows
  <2>6. ASSUME NEW r \in Writable, NEW v \in Legal \cup {Erased}, SetReg(r, v)
        PROVE  OneSource'
    <3>1. flash' = flash /\ before' = flash /\ phase' = "erase"
      BY <2>6 DEF SetReg
    <3>2. QED
      BY <2>0, <3>1 DEF OneSource, Shows
  <2>7. CASE UNCHANGED vars
    <3>1. UNCHANGED <<flash, ram, before, failed, phase, word>>
      BY <2>7 DEF vars
    <3>2. QED
      BY <1>0, <1>2, <2>0, <3>1 DEF OneSource, Shows
  <2>8. QED
    BY <1>2, <2>1, <2>2, <2>3, <2>4, <2>5, <2>6, <2>7 DEF Next, Processor
<1>3. OneSource => NeverMixed
  BY DEF OneSource
<1>4. QED
  BY <1>1, <1>2, <1>3, FlashTyping, WriteSafety, PTL
-----------------------------------------------------------------------------
(* A copy is up to date.  That of 0x2005 is unset until it is written.     *)
Current(r) == object[r] = IF r = "PWM" /\ ~rewritten THEN Unset ELSE ram[r]

(* While a handler runs, which it does from the erase to its return, every *)
(* copy but that of its register is up to date.  From the power-on to the  *)
(* end of vFDInit no handler runs and 0x2005 is unset.                     *)
CopiesInv ==
  /\ DOMAIN object = Copied
  /\ answer = "busy" => ~booting /\ phase \in {"erase", "program", "run"}
  /\ phase \in {"erase", "program"} /\ ~booting => answer = "busy"
  /\ phase \in {"off", "load"} \/ (phase # "run" /\ booting) =>
       object["PWM"] = Unset /\ ~rewritten
  /\ phase = "run" \/ answer = "busy" =>
       \A r \in Copied : Current(r) \/ (answer = "busy" /\ r = request)
(* The invariant holds at first and every step keeps it.                   *)
LEMMA CopiesInductive ==
  /\ WInit => CopiesInv
  /\ CopiesInv /\ [WNext]_allVars => CopiesInv'
<1> USE DEF CopiesInv, Current
<1>1. WInit => CopiesInv
  BY DEF WInit, Init, Copied
<1>2. ASSUME CopiesInv, [WNext]_allVars PROVE CopiesInv'
  <2>1. CASE PowerOn /\ UNCHANGED writeVars
    BY <1>2, <2>1 DEF PowerOn, writeVars
  <2>2. CASE ErasePage /\ UNCHANGED writeVars
    BY <1>2, <2>2 DEF ErasePage, writeVars
  <2>3. CASE ProgramWord /\ UNCHANGED writeVars
    BY <1>2, <2>3 DEF ProgramWord, WriteDone, writeVars
  <2>4. CASE LoadObjects
    <3>1. \A r \in Copied : Current(r)'
      BY <1>2, <2>4 DEF LoadObjects, Load, Copied
    <3>2. QED
      BY <1>2, <2>4, <3>1 DEF LoadObjects, Load, Copied
  <2>5. CASE Return
    <3>1. \A r \in Copied : Current(r)'
      BY <1>2, <2>5 DEF Return, vars, Copied
    <3>2. answer' # "busy" /\ DOMAIN object' = Copied /\ UNCHANGED <<phase, booting>>
          /\ phase = "run"
      BY <2>5 DEF Return, vars
    <3>3. QED
      BY <3>1, <3>2
  <2>6. ASSUME NEW r \in Writable, NEW v \in Legal \cup {Erased}, Accept(r, v)
        PROVE  CopiesInv'
    <3>1. /\ phase = "run" /\ answer # "busy" /\ phase' = "erase" /\ booting' = FALSE
          /\ request' = r /\ answer' = "busy" /\ object' = object
          /\ rewritten' = rewritten
          /\ \A c \in Copied : c # r => ram'[c] = ram[c]
      BY <2>6 DEF Accept, SetReg
    <3>2. QED
      BY <1>2, <3>1
  <2>7. CASE UNCHANGED <<vars, object, rewritten>> /\ phase = "run"
             /\ answer # "busy" /\ answer' # "busy"
    BY <1>2, <2>7 DEF vars
  <2>8. CASE Forget
    BY <1>2, <2>8 DEF Forget, PowerLoss, Copied
  <2>9. CASE UNCHANGED allVars
    BY <1>2, <2>9 DEF allVars, vars, writeVars
  <2>10. QED
    BY <1>2, <2>1, <2>2, <2>3, <2>4, <2>5, <2>6, <2>7, <2>8, <2>9
       DEF WNext, Running, Handler, Refuse, RefuseSubindex
<1>3. QED
  BY <1>1, <1>2

(* A client reads in 0x2004 what the device works with, whenever power     *)
(* went or the flash failed, and in 0x2005 exactly from the first write of *)
(* it after power-on.                                                      *)
THEOREM ObjectIsRegisterAlways == WSpec => []ObjectIsRegister
<1>1. CopiesInv => ObjectIsRegister
  BY DEF CopiesInv, Current, ObjectIsRegister, Copied
<1>2. QED
  BY <1>1, CopiesInductive, PTL DEF WSpec
=============================================================================
