--------------------------- MODULE NmtRpdo_proofs ---------------------------
(***************************************************************************)
(* Proofs about the two tasks that take over what a receive callback has   *)
(* left: RpdoReceive, for every number of receive PDOs, every mapping and  *)
(* every set of values, and NmtHeartbeat, for every set of unknown         *)
(* commands.  The two share no variable.                                   *)
(***************************************************************************)
EXTENDS RpdoReceive, NmtHeartbeat, SequenceTheorems, TLAPS

(* The PDOs are numbered 1 to Len(Mapped); 0 stands for none of them.      *)
LEMMA RpdoNumbers ==
  /\ Len(Mapped) \in Nat \ {0} /\ RPDO = 1 .. Len(Mapped) /\ 0 \notin RPDO
  /\ \A r \in RPDO : Mapped[r] \in Nat \ {0}
<1>1. Mapped \in Seq(Nat \ {0}) /\ Len(Mapped) > 0
  BY RpdoAssumption
<1>2. Len(Mapped) \in Nat /\ DOMAIN Mapped = 1 .. Len(Mapped)
  BY <1>1, LenProperties
<1>3. \A r \in 1 .. Len(Mapped) : Mapped[r] \in Nat \ {0}
  BY <1>1, ElementOfSeq
<1>4. QED
  BY <1>1, <1>2, <1>3 DEF RPDO

(* The interrupt leaves receiveError among its values.                     *)
LEMMA JudgeTyping ==
  ASSUME NEW e \in ReceiveError, NEW length
  PROVE  Judge(e, length) \in ReceiveError
BY DEF Judge, ReceiveError, Acknowledged

(* Going on to the next PDO.                                               *)
LEMMA NextRPDOTyping ==
  ASSUME RpdoTypeOK, NextRPDO
  PROVE  current' \in RPDO \cup {0} /\ point' = "verify"
<1>1. current \in 0 .. Len(Mapped)
  BY RpdoNumbers DEF RpdoTypeOK
<1>2. current' \in 0 .. Len(Mapped)
  BY <1>1, RpdoNumbers DEF NextRPDO
<1>3. QED
  BY <1>2, RpdoNumbers DEF NextRPDO

(* RpdoTypeOK in three parts: the three frames of each PDO, the flags, and the *)
(* place of the periodic task.                                             *)
FramesOK ==
  /\ DOMAIN od = RPDO /\ DOMAIN CANrxData = RPDO /\ DOMAIN wanted = RPDO
  /\ \A r \in RPDO : {od[r], CANrxData[r], wanted[r]} \subseteq Frame(r)
ControlOK ==
  /\ valid \in [RPDO -> BOOLEAN] /\ CANrxNew \in [RPDO -> BOOLEAN]
  /\ receiveError \in [RPDO -> ReceiveError]
  /\ {wrongLength, operational, setError} \subseteq BOOLEAN
PlaceOK ==
  /\ current \in RPDO \cup {0}
  /\ point \in {"verify", "acknowledge", "loop", "write"}
  /\ (point = "write" => current # 0 /\ object \in 1 .. Mapped[current])

(* What was received, what is applied and where the task is keep their     *)
(* types; in particular no object beyond the mapping is written.           *)
THEOREM RpdoTyping == RpdoSpec => []RpdoTypeOK
<1>1. RpdoInit => RpdoTypeOK
  <2> SUFFICES ASSUME RpdoInit PROVE RpdoTypeOK
    OBVIOUS
  <2>1. \A r \in RPDO : od[r] \in Frame(r)
    BY RpdoAssumption DEF RpdoInit, Frame
  <2>2. /\ DOMAIN od = RPDO /\ DOMAIN CANrxData = RPDO /\ DOMAIN wanted = RPDO
        /\ \A r \in RPDO : {od[r], CANrxData[r], wanted[r]} \subseteq Frame(r)
    BY <2>1 DEF RpdoInit
  <2>3. receiveError \in [RPDO -> ReceiveError]
    BY DEF RpdoInit, ReceiveError, Acknowledged
  <2>4. valid \in [RPDO -> BOOLEAN] /\ CANrxNew \in [RPDO -> BOOLEAN]
    BY DEF RpdoInit
  <2>5. {wrongLength, operational, setError} \subseteq BOOLEAN
    BY DEF RpdoInit
  <2>6. current = 0 /\ point = "verify"
    BY DEF RpdoInit
  <2>7. QED
    BY <2>2, <2>3, <2>4, <2>5, <2>6 DEF RpdoTypeOK
<1>2. RpdoTypeOK /\ [RpdoNext]_rpdoVars => RpdoTypeOK'
  <2> SUFFICES ASSUME RpdoTypeOK, [RpdoNext]_rpdoVars PROVE RpdoTypeOK'
    OBVIOUS
  <2>0. FramesOK /\ ControlOK /\ PlaceOK /\ (FramesOK' /\ ControlOK' /\ PlaceOK' => RpdoTypeOK')
    BY DEF RpdoTypeOK, FramesOK, ControlOK, PlaceOK
  <2>1. ASSUME NEW r \in RPDO, NEW length \in {"short", "exact", "long"},
               NEW data \in Frame(r), CO_PDO_receive(r, length, data)
        PROVE  RpdoTypeOK'
    <3>1. FramesOK'
      BY <2>0, <2>1 DEF CO_PDO_receive, FramesOK
    <3>2. receiveError' \in [RPDO -> ReceiveError]
      BY <2>0, <2>1, JudgeTyping DEF CO_PDO_receive, ControlOK
    <3>3. ControlOK'
      BY <2>0, <2>1, <3>2 DEF CO_PDO_receive, ControlOK, passVars
    <3>4. PlaceOK'
      BY <2>0, <2>1 DEF CO_PDO_receive, PlaceOK, passVars
    <3>5. QED
      BY <2>0, <3>1, <3>3, <3>4
  <2>2. CASE BeginPass
    <3>1. FramesOK' /\ ControlOK'
      BY <2>0, <2>2 DEF BeginPass, NextRPDO, FramesOK, ControlOK
    <3>2. PlaceOK'
      BY <2>2, NextRPDOTyping DEF BeginPass, PlaceOK
    <3>3. QED
      BY <2>0, <3>1, <3>2
  <2>3. CASE Discard
    <3>1. FramesOK'
      BY <2>0, <2>3 DEF Discard, FramesOK, PlaceOK
    <3>2. ControlOK'
      BY <2>0, <2>3 DEF Discard, NextRPDO, ControlOK
    <3>3. PlaceOK'
      BY <2>3, NextRPDOTyping DEF Discard, PlaceOK
    <3>4. QED
      BY <2>0, <3>1, <3>2, <3>3
  <2>4. CASE Verify
    <3>1. FramesOK' /\ PlaceOK'
      BY <2>0, <2>4 DEF Verify, FramesOK, PlaceOK
    <3>2. ControlOK'
      BY <2>0, <2>4 DEF Verify, ControlOK
    <3>3. QED
      BY <2>0, <3>1, <3>2
  <2>5. CASE Acknowledge
    <3>1. FramesOK' /\ PlaceOK'
      BY <2>0, <2>5 DEF Acknowledge, FramesOK, PlaceOK
    <3>2. ControlOK'
      BY <2>0, <2>5 DEF Acknowledge, ControlOK, ReceiveError, Acknowledged
    <3>3. QED
      BY <2>0, <3>1, <3>2
  <2>6. CASE Loop
    <3>1. FramesOK'
      BY <2>0, <2>6 DEF Loop, FramesOK
    <3>2. ControlOK'
      BY <2>0, <2>6 DEF Loop, NextRPDO, ControlOK
    <3>3. CASE CANrxNew[current]
      <4>1. current \in RPDO /\ Mapped[current] \in Nat \ {0}
        BY <2>0, <2>6, RpdoNumbers DEF Loop, PlaceOK
      <4>2. 1 \in 1 .. Mapped[current]
        BY <4>1
      <4>3. PlaceOK'
        BY <2>0, <2>6, <3>3, <4>2 DEF Loop, PlaceOK
      <4>4. QED
        BY <2>0, <3>1, <3>2, <4>3
    <3>4. CASE ~CANrxNew[current]
      <4>1. PlaceOK'
        BY <2>6, <3>4, NextRPDOTyping DEF Loop, PlaceOK
      <4>2. QED
        BY <2>0, <3>1, <3>2, <4>1
    <3>5. QED
      BY <3>3, <3>4
  <2>7. CASE WriteObject
    <3>1. current \in RPDO /\ Mapped[current] \in Nat \ {0}
          /\ object \in 1 .. Mapped[current]
      BY <2>0, <2>7, RpdoNumbers DEF WriteObject, PlaceOK
    <3>2. CANrxData[current][object] \in Value
      BY <2>0, <3>1 DEF FramesOK, Frame
    <3>3. FramesOK'
      BY <2>0, <2>7, <3>1, <3>2 DEF WriteObject, FramesOK, Frame
    <3>4. ControlOK'
      BY <2>0, <2>7 DEF WriteObject, ControlOK
    <3>5. object < Mapped[current] => object + 1 \in 1 .. Mapped[current]
      BY <3>1
    <3>6. PlaceOK'
      BY <2>0, <2>7, <3>1, <3>5 DEF WriteObject, PlaceOK
    <3>7. QED
      BY <2>0, <3>3, <3>4, <3>6
  <2>8. CASE NMTChange
    <3>1. FramesOK' /\ PlaceOK'
      BY <2>0, <2>8 DEF NMTChange, FramesOK, PlaceOK, passVars
    <3>2. ControlOK'
      BY <2>0, <2>8 DEF NMTChange, ControlOK, passVars
    <3>3. QED
      BY <2>0, <3>1, <3>2
  <2>9. ASSUME NEW r \in RPDO, OD_write_14xx(r) PROVE RpdoTypeOK'
    <3>1. FramesOK'
      BY <2>0, <2>9 DEF OD_write_14xx, FramesOK
    <3>2. ControlOK'
      BY <2>0, <2>9 DEF OD_write_14xx, ControlOK, passVars
    <3>3. PlaceOK'
      BY <2>0, <2>9 DEF OD_write_14xx, PlaceOK, passVars
    <3>4. QED
      BY <2>0, <3>1, <3>2, <3>3
  <2>10. CASE UNCHANGED rpdoVars
    BY <2>10 DEF rpdoVars, passVars, RpdoTypeOK
  <2>11. QED
    BY <2>1, <2>2, <2>3, <2>4, <2>5, <2>6, <2>7, <2>8, <2>9, <2>10
    DEF RpdoNext, Periodic
<1>3. QED
  BY <1>1, <1>2, PTL DEF RpdoSpec
-----------------------------------------------------------------------------
(* Behind the test at the head of CO_RPDO_process the PDO stays usable:    *)
(* only CanOpenProcess could change that, and it waits for the mutex.      *)
UsableInside ==
  point # "verify" => current # 0 /\ operational /\ valid[current]

(* The bus moves a mapped object only of an operational node, and only     *)
(* through a PDO that is valid.                                            *)
THEOREM StoppedKeepsObjectsAlways == RpdoSpec => StoppedKeepsObjects
<1>1. RpdoInit => UsableInside
  BY DEF RpdoInit, UsableInside
<1>2. RpdoTypeOK /\ UsableInside /\ [RpdoNext]_rpdoVars => UsableInside'
  <2> SUFFICES ASSUME RpdoTypeOK, UsableInside, [RpdoNext]_rpdoVars PROVE UsableInside'
    OBVIOUS
  <2> USE DEF UsableInside
  <2>1. ASSUME NEW r \in RPDO, NEW length \in {"short", "exact", "long"},
               NEW data \in Frame(r), CO_PDO_receive(r, length, data)
        PROVE  UsableInside'
    BY <2>1 DEF CO_PDO_receive, passVars
  <2>2. CASE BeginPass
    BY <2>2 DEF BeginPass, NextRPDO
  <2>3. CASE Discard
    BY <2>3 DEF Discard, NextRPDO
  <2>4. CASE Verify
    BY <2>4 DEF Verify, Active
  <2>5. CASE Acknowledge
    BY <2>5 DEF Acknowledge
  <2>6. CASE Loop
    BY <2>6 DEF Loop, NextRPDO
  <2>7. CASE WriteObject
    BY <2>7 DEF WriteObject
  <2>8. CASE NMTChange
    BY <2>8 DEF NMTChange, passVars
  <2>9. ASSUME NEW r \in RPDO, OD_write_14xx(r) PROVE UsableInside'
    BY <2>9 DEF OD_write_14xx, passVars
  <2>10. CASE UNCHANGED rpdoVars
    BY <2>10 DEF rpdoVars, passVars
  <2>11. QED
    BY <2>1, <2>2, <2>3, <2>4, <2>5, <2>6, <2>7, <2>8, <2>9, <2>10
    DEF RpdoNext, Periodic
<1>3. UsableInside /\ [RpdoNext]_rpdoVars
        => [od' # od => operational /\ valid[current]]_rpdoVars
  <2> SUFFICES ASSUME UsableInside, RpdoNext, od' # od
               PROVE  operational /\ valid[current]
    OBVIOUS
  <2>1. CASE WriteObject
    BY <2>1 DEF WriteObject, UsableInside
  <2>2. CASE ~WriteObject
    BY <2>2 DEF RpdoNext, Periodic, CO_PDO_receive, BeginPass, Discard, Verify,
                Acknowledge, Loop, NMTChange, OD_write_14xx
  <2>3. QED
    BY <2>1, <2>2
<1>4. QED
  BY <1>1, <1>2, <1>3, RpdoTyping, PTL DEF RpdoSpec, StoppedKeepsObjects
-----------------------------------------------------------------------------
(* Where the newest frame is.  A frame that is flagged lies in the buffer. *)
(* While the objects are written and no other frame has come in, the rest  *)
(* of the frame still lies there and the first objects have it already;    *)
(* one that comes in raises the flag, and the loop goes round again.       *)
FlaggedIsNewest == \A r \in RPDO : CANrxNew[r] => CANrxData[r] = wanted[r]
WrittenIsNewest ==
  point = "write" /\ ~CANrxNew[current] =>
    /\ CANrxData[current] = wanted[current]
    /\ \A i \in 1 .. Mapped[current] :
         i < object => od[current][i] = wanted[current][i]
NewestInv == FlaggedIsNewest /\ WrittenIsNewest /\ NewestApplied

(* Once no frame is flagged the mapped objects are the last frame received *)
(* and not discarded: never a mixture of two, never an older one.          *)
THEOREM NewestAppliedAlways == RpdoSpec => []NewestApplied
<1>1. RpdoInit => NewestInv
  BY DEF RpdoInit, NewestInv, FlaggedIsNewest, WrittenIsNewest, NewestApplied
<1>2. RpdoTypeOK /\ NewestInv /\ [RpdoNext]_rpdoVars => NewestInv'
  <2> SUFFICES ASSUME RpdoTypeOK, NewestInv, [RpdoNext]_rpdoVars PROVE NewestInv'
    OBVIOUS
  <2>0. FramesOK /\ ControlOK /\ PlaceOK
    BY DEF RpdoTypeOK, FramesOK, ControlOK, PlaceOK
  <2> USE DEF NewestInv, FlaggedIsNewest, WrittenIsNewest, NewestApplied
  <2>1. ASSUME NEW r \in RPDO, NEW length \in {"short", "exact", "long"},
               NEW data \in Frame(r), CO_PDO_receive(r, length, data)
        PROVE  NewestInv'
    <3>1. UNCHANGED <<od, current, point, object>>
      BY <2>1 DEF CO_PDO_receive, passVars
    <3>2. CASE length = "short"
      BY <2>1, <3>1, <3>2 DEF CO_PDO_receive
    <3>3. CASE length # "short"
      <4>1. /\ CANrxNew' = [CANrxNew EXCEPT ![r] = TRUE]
            /\ CANrxData' = [CANrxData EXCEPT ![r] = data]
            /\ wanted' = [wanted EXCEPT ![r] = data]
        BY <2>1, <3>3 DEF CO_PDO_receive
      <4>2. /\ CANrxNew'[r] /\ CANrxData'[r] = data /\ wanted'[r] = data
            /\ \A q \in RPDO \ {r} : /\ CANrxNew'[q] = CANrxNew[q]
                                     /\ CANrxData'[q] = CANrxData[q]
                                     /\ wanted'[q] = wanted[q]
        BY <2>0, <4>1 DEF FramesOK, ControlOK
      <4>3. FlaggedIsNewest'
        BY <4>2
      <4>4. WrittenIsNewest'
        BY <2>0, <3>1, <4>2 DEF PlaceOK
      <4>5. NewestApplied'
        BY <3>1, <4>2
      <4>6. QED
        BY <4>3, <4>4, <4>5
    <3>4. QED
      BY <3>2, <3>3
  <2>2. CASE BeginPass
    <3>1. /\ UNCHANGED <<CANrxData, CANrxNew, od, wanted>>
          /\ current = 0 /\ point' = "verify"
      BY <2>2 DEF BeginPass, NextRPDO
    <3>2. QED
      BY <3>1, RpdoNumbers
  <2>3. CASE Discard
    <3>1. /\ UNCHANGED <<CANrxData, od>>
          /\ current \in RPDO /\ point = "verify" /\ point' = "verify"
          /\ CANrxNew' = [CANrxNew EXCEPT ![current] = FALSE]
          /\ wanted' = [wanted EXCEPT ![current] = od[current]]
      BY <2>0, <2>3 DEF Discard, NextRPDO, PlaceOK
    <3>2. /\ ~CANrxNew'[current] /\ wanted'[current] = od[current]
          /\ \A q \in RPDO \ {current} : /\ CANrxNew'[q] = CANrxNew[q]
                                         /\ wanted'[q] = wanted[q]
      BY <2>0, <3>1 DEF FramesOK, ControlOK
    <3>3. QED
      BY <3>1, <3>2
  <2>4. CASE Verify
    <3>1. UNCHANGED <<CANrxData, CANrxNew, od, wanted, current>>
          /\ point = "verify" /\ point' # "write"
      BY <2>4 DEF Verify
    <3>2. QED
      BY <3>1
  <2>5. CASE Acknowledge
    <3>1. UNCHANGED <<CANrxData, CANrxNew, od, wanted, current>>
          /\ point = "acknowledge" /\ point' = "loop"
      BY <2>5 DEF Acknowledge
    <3>2. QED
      BY <3>1
  <2>6. CASE Loop
    <3>1. UNCHANGED <<CANrxData, od, wanted>> /\ point = "loop"
          /\ current \in RPDO
      BY <2>0, <2>6 DEF Loop, PlaceOK
    <3>2. CASE CANrxNew[current]
      <4>1. /\ CANrxNew' = [CANrxNew EXCEPT ![current] = FALSE]
            /\ point' = "write" /\ object' = 1 /\ current' = current
        BY <2>6, <3>2 DEF Loop
      <4>2. /\ ~CANrxNew'[current]
            /\ \A q \in RPDO \ {current} : CANrxNew'[q] = CANrxNew[q]
        BY <2>0, <3>1, <4>1 DEF ControlOK
      <4>3. CANrxData[current] = wanted[current]
        BY <3>1, <3>2
      <4>4. \A i \in 1 .. Mapped[current] : ~(i < 1)
        BY <3>1, RpdoNumbers
      <4>5. QED
        BY <3>1, <4>1, <4>2, <4>3, <4>4
    <3>3. CASE ~CANrxNew[current]
      <4>1. CANrxNew' = CANrxNew /\ point' = "verify"
        BY <2>6, <3>3 DEF Loop, NextRPDO
      <4>2. QED
        BY <3>1, <4>1
    <3>4. QED
      BY <3>2, <3>3
  <2>7. CASE WriteObject
    <3>1. /\ UNCHANGED <<CANrxData, CANrxNew, wanted, current>>
          /\ point = "write" /\ current \in RPDO
          /\ object \in 1 .. Mapped[current] /\ Mapped[current] \in Nat \ {0}
      BY <2>0, <2>7, RpdoNumbers DEF WriteObject, PlaceOK
    <3>2. /\ od[current] \in Frame(current) /\ wanted[current] \in Frame(current)
          /\ od'[current] = [od[current] EXCEPT ![object] = CANrxData[current][object]]
          /\ \A q \in RPDO \ {current} : od'[q] = od[q]
      BY <2>0, <2>7, <3>1 DEF WriteObject, FramesOK
    <3>3. od'[current] \in Frame(current) \/ CANrxNew[current]
      BY <3>1, <3>2 DEF Frame
    <3>4. ~CANrxNew[current] => \A i \in 1 .. Mapped[current] :
             i < object \/ i = object => od'[current][i] = wanted[current][i]
      BY <3>1, <3>2 DEF Frame
    <3>5. CASE object < Mapped[current]
      <4>1. object' = object + 1 /\ point' = "write"
        BY <2>7, <3>1, <3>5 DEF WriteObject
      <4>2. \A i \in 1 .. Mapped[current] :
               i < object + 1 => i < object \/ i = object
        BY <3>1
      <4>3. WrittenIsNewest'
        BY <3>1, <3>4, <4>1, <4>2
      <4>4. QED
        BY <3>1, <3>2, <4>1, <4>3
    <3>6. CASE ~(object < Mapped[current])
      <4>1. point' = "loop"
        BY <2>7, <3>6 DEF WriteObject
      <4>2. \A i \in 1 .. Mapped[current] : i < object \/ i = object
        BY <3>1, <3>6
      <4>3. ~CANrxNew[current] => od'[current] = wanted[current]
        BY <3>2, <3>3, <3>4, <4>2 DEF Frame
      <4>4. QED
        BY <3>1, <3>2, <4>1, <4>3
    <3>7. QED
      BY <3>5, <3>6
  <2>8. CASE NMTChange
    <3>1. UNCHANGED <<CANrxData, CANrxNew, od, wanted, current, point, object>>
      BY <2>8 DEF NMTChange, passVars
    <3>2. QED
      BY <3>1
  <2>9. ASSUME NEW r \in RPDO, OD_write_14xx(r) PROVE NewestInv'
    <3>1. /\ UNCHANGED <<CANrxData, od, current, point, object>>
          /\ current = 0 /\ point # "write"
      BY <2>0, <2>9 DEF OD_write_14xx, passVars, PlaceOK
    <3>2. CASE valid[r]
      <4>1. /\ CANrxNew' = [CANrxNew EXCEPT ![r] = FALSE]
            /\ wanted' = [wanted EXCEPT ![r] = od[r]]
        BY <2>9, <3>2 DEF OD_write_14xx
      <4>2. /\ ~CANrxNew'[r] /\ wanted'[r] = od[r]
            /\ \A q \in RPDO \ {r} : /\ CANrxNew'[q] = CANrxNew[q]
                                     /\ wanted'[q] = wanted[q]
        BY <2>0, <4>1 DEF FramesOK, ControlOK
      <4>3. QED
        BY <3>1, <4>2
    <3>3. CASE ~valid[r]
      BY <2>9, <3>1, <3>3 DEF OD_write_14xx
    <3>4. QED
      BY <3>2, <3>3
  <2>10. CASE UNCHANGED rpdoVars
    <3>1. UNCHANGED <<CANrxData, CANrxNew, od, wanted, current, point, object>>
      BY <2>10 DEF rpdoVars, passVars
    <3>2. QED
      BY <3>1
  <2>11. QED
    BY <2>1, <2>2, <2>3, <2>4, <2>5, <2>6, <2>7, <2>8, <2>9, <2>10
    DEF RpdoNext, Periodic
<1>3. NewestInv => NewestApplied
  BY DEF NewestInv
<1>4. QED
  BY <1>1, <1>2, <1>3, RpdoTyping, PTL DEF RpdoSpec
-----------------------------------------------------------------------------
(* Between the report of a length and its acknowledgement the error bit is *)
(* what CO_RPDO_process has found, whatever arrives in between.            *)
CauseInv ==
  /\ point = "acknowledge" => wrongLength = setError
  /\ WrongLengthHasCause

(* The error bit that the PDOs share is not set without a PDO that has     *)
(* reported a wrong length and not yet acknowledged a right one.           *)
THEOREM WrongLengthHasCauseAlways == RpdoSpec => []WrongLengthHasCause
<1>1. RpdoInit => CauseInv
  BY DEF RpdoInit, CauseInv, WrongLengthHasCause
<1>2. RpdoTypeOK /\ CauseInv /\ [RpdoNext]_rpdoVars => CauseInv'
  <2> SUFFICES ASSUME RpdoTypeOK, CauseInv, [RpdoNext]_rpdoVars PROVE CauseInv'
    OBVIOUS
  <2>0. ControlOK /\ PlaceOK
    BY DEF RpdoTypeOK, ControlOK, PlaceOK
  <2> USE DEF CauseInv, WrongLengthHasCause
  <2>1. ASSUME NEW r \in RPDO, NEW length \in {"short", "exact", "long"},
               NEW data \in Frame(r), CO_PDO_receive(r, length, data)
        PROVE  CauseInv'
    <3>1. UNCHANGED <<point, setError, wrongLength>>
      BY <2>1 DEF CO_PDO_receive, passVars
    <3>2. receiveError' = [receiveError EXCEPT ![r] = Judge(@, length)]
      BY <2>1 DEF CO_PDO_receive
    <3>3. receiveError[r] # "ACK_NO_ERROR"
            => Judge(receiveError[r], length) # "ACK_NO_ERROR"
      BY DEF Judge
    <3>4. \A q \in RPDO : receiveError[q] # "ACK_NO_ERROR"
                            => receiveError'[q] # "ACK_NO_ERROR"
      BY <2>0, <3>2, <3>3 DEF ControlOK
    <3>5. QED
      BY <3>1, <3>4
  <2>2. CASE BeginPass
    BY <2>2 DEF BeginPass, NextRPDO
  <2>3. CASE Discard
    BY <2>3 DEF Discard, NextRPDO
  <2>4. CASE Verify
    <3>1. receiveError' = receiveError /\ current \in RPDO
      BY <2>0, <2>4 DEF Verify, PlaceOK
    <3>2. CASE receiveError[current] \in Acknowledged
      BY <2>4, <3>1, <3>2 DEF Verify
    <3>3. CASE receiveError[current] \notin Acknowledged
      <4>1. wrongLength' = setError'
        BY <2>4, <3>3 DEF Verify
      <4>2. receiveError'[current] # "ACK_NO_ERROR"
        BY <3>1, <3>3 DEF Acknowledged
      <4>3. QED
        BY <3>1, <4>1, <4>2
    <3>4. QED
      BY <3>2, <3>3
  <2>5. CASE Acknowledge
    <3>1. /\ current \in RPDO /\ wrongLength' = wrongLength /\ wrongLength = setError
          /\ point' = "loop"
          /\ receiveError' = [receiveError EXCEPT ![current] =
                               IF setError THEN "ACK_ERROR" ELSE "ACK_NO_ERROR"]
      BY <2>0, <2>5 DEF Acknowledge, PlaceOK
    <3>2. setError => receiveError'[current] = "ACK_ERROR"
      BY <2>0, <3>1 DEF ControlOK
    <3>3. QED
      BY <3>1, <3>2
  <2>6. CASE Loop
    BY <2>6 DEF Loop, NextRPDO
  <2>7. CASE WriteObject
    BY <2>7 DEF WriteObject
  <2>8. CASE NMTChange
    BY <2>8 DEF NMTChange, passVars
  <2>9. ASSUME NEW r \in RPDO, OD_write_14xx(r) PROVE CauseInv'
    BY <2>9 DEF OD_write_14xx, passVars
  <2>10. CASE UNCHANGED rpdoVars
    BY <2>10 DEF rpdoVars, passVars
  <2>11. QED
    BY <2>1, <2>2, <2>3, <2>4, <2>5, <2>6, <2>7, <2>8, <2>9, <2>10
    DEF RpdoNext, Periodic
<1>3. CauseInv => WrongLengthHasCause
  BY DEF CauseInv
<1>4. QED
  BY <1>1, <1>2, <1>3, RpdoTyping, PTL DEF RpdoSpec

-----------------------------------------------------------------------------
(* NmtHeartbeat.                                                           *)
USE DEF State, Reset, Enter, Command

(* Every variable of the NMT object and of the cycle keeps its type.       *)
THEOREM NmtTyping == Spec => []TypeOK
<1>1. Init => TypeOK
  BY DEF Init, TypeOK
<1>2. TypeOK /\ [Next]_vars => TypeOK'
  <2> SUFFICES ASSUME TypeOK, [Next]_vars PROVE TypeOK'
    OBVIOUS
  <2> USE DEF TypeOK, hbVars, localVars
  <2>1. ASSUME NEW c \in Command, CO_NMT_receive(c) PROVE TypeOK'
    BY <2>1 DEF CO_NMT_receive
  <2>2. CASE CO_NMT_processSwitch
    BY <2>2 DEF CO_NMT_processSwitch, CO_CANmodule_process, CountersChanged,
                SendsHeartbeat
  <2>3. CASE CO_NMT_processClear
    <3>1. Obeyed \in State
      BY DEF Obeyed
    <3>2. QED
      BY <2>3, <3>1 DEF CO_NMT_processClear
  <2>4. CASE SystemReset
    BY <2>4 DEF SystemReset
  <2>5. ASSUME NEW on \in BOOLEAN, OD_write_1017(on) PROVE TypeOK'
    BY <2>5 DEF OD_write_1017
  <2>6. CASE Expire
    BY <2>6 DEF Expire
  <2>7. CASE SendOverflows
    BY <2>7 DEF SendOverflows
  <2>8. CASE UNCHANGED vars
    BY <2>8 DEF vars
  <2>9. QED
    BY <2>1, <2>2, <2>3, <2>4, <2>5, <2>6, <2>7, <2>8 DEF Next, CO_process
<1>3. QED
  BY <1>1, <1>2, PTL DEF Spec

(* A node that is operational between two calls of CO_process has no error *)
(* that NMT_CONTROL selects; a call under way has not decided yet.         *)
THEOREM OperationalIsErrorFreeAlways == Spec => []OperationalIsErrorFree
<1>1. Init => OperationalIsErrorFree
  BY DEF Init, OperationalIsErrorFree
<1>2. OperationalIsErrorFree /\ [Next]_vars => OperationalIsErrorFree'
  <2> SUFFICES ASSUME OperationalIsErrorFree, [Next]_vars
               PROVE  OperationalIsErrorFree'
    OBVIOUS
  <2> USE DEF OperationalIsErrorFree, hbVars, localVars
  <2>1. ASSUME NEW c \in Command, CO_NMT_receive(c)
        PROVE  OperationalIsErrorFree'
    BY <2>1 DEF CO_NMT_receive
  <2>2. CASE CO_NMT_processSwitch
    BY <2>2 DEF CO_NMT_processSwitch
  <2>3. CASE CO_NMT_processClear
    BY <2>3 DEF CO_NMT_processClear
  <2>4. CASE SystemReset
    BY <2>4 DEF SystemReset
  <2>5. ASSUME NEW on \in BOOLEAN, OD_write_1017(on)
        PROVE  OperationalIsErrorFree'
    BY <2>5 DEF OD_write_1017
  <2>6. CASE Expire
    BY <2>6 DEF Expire
  <2>7. CASE SendOverflows
    BY <2>7 DEF SendOverflows
  <2>8. CASE UNCHANGED vars
    BY <2>8 DEF vars
  <2>9. QED
    BY <2>1, <2>2, <2>3, <2>4, <2>5, <2>6, <2>7, <2>8 DEF Next, CO_process
<1>3. QED
  BY <1>1, <1>2, PTL DEF Spec

(* While the timer runs the bus has been told the state that the last call *)
(* of CO_NMT_process started from, or only the boot-up message.            *)
THEOREM HeartbeatTellsAlways == Spec => []HeartbeatTells
<1>1. Init => HeartbeatTells
  BY DEF Init, HeartbeatTells
<1>2. HeartbeatTells /\ [Next]_vars => HeartbeatTells'
  <2> SUFFICES ASSUME HeartbeatTells, [Next]_vars PROVE HeartbeatTells'
    OBVIOUS
  <2> USE DEF HeartbeatTells, hbVars, localVars
  <2>1. ASSUME NEW c \in Command, CO_NMT_receive(c) PROVE HeartbeatTells'
    BY <2>1 DEF CO_NMT_receive
  <2>2. CASE CO_NMT_processSwitch
    <3>1. CASE operatingState = "INITIALIZING"
      BY <2>2, <3>1 DEF CO_NMT_processSwitch, SendsHeartbeat
    <3>2. CASE operatingState # "INITIALIZING" /\ SendsHeartbeat
      BY <2>2, <3>2 DEF CO_NMT_processSwitch
    <3>3. CASE operatingState # "INITIALIZING" /\ ~SendsHeartbeat
      BY <2>2, <3>3 DEF CO_NMT_processSwitch, SendsHeartbeat
    <3>4. QED
      BY <3>1, <3>2, <3>3
  <2>3. CASE CO_NMT_processClear
    BY <2>3 DEF CO_NMT_processClear
  <2>4. CASE SystemReset
    BY <2>4 DEF SystemReset
  <2>5. ASSUME NEW on \in BOOLEAN, OD_write_1017(on) PROVE HeartbeatTells'
    BY <2>5 DEF OD_write_1017
  <2>6. CASE Expire
    BY <2>6 DEF Expire
  <2>7. CASE SendOverflows
    BY <2>7 DEF SendOverflows
  <2>8. CASE UNCHANGED vars
    BY <2>8 DEF vars
  <2>9. QED
    BY <2>1, <2>2, <2>3, <2>4, <2>5, <2>6, <2>7, <2>8 DEF Next, CO_process
<1>3. QED
  BY <1>1, <1>2, PTL DEF Spec
-----------------------------------------------------------------------------
(* Why a command is lost only in the window.  A command that is due is in  *)
(* the slot; if the switch has read "no command", the clear that follows   *)
(* leaves the slot alone; and if it has read a command, one that comes     *)
(* before the clear is overtaken.                                          *)
SlotHoldsDue ==
  /\ due # "NO_COMMAND" /\ ~overtaken => internalCommand = due
  /\ due # "NO_COMMAND" /\ step = "switched" /\ taken # "NO_COMMAND" => overtaken

(* A command that was received and not taken is still in the slot, unless  *)
(* it came between the switch and the clear of CO_NMT_process.             *)
THEOREM CommandLostOnlyInWindowAlways == Spec => []CommandLostOnlyInWindow
<1>1. Init => SlotHoldsDue
  BY DEF Init, SlotHoldsDue
<1>2. SlotHoldsDue /\ [Next]_vars => SlotHoldsDue'
  <2> SUFFICES ASSUME SlotHoldsDue, [Next]_vars PROVE SlotHoldsDue'
    OBVIOUS
  <2> USE DEF SlotHoldsDue, hbVars, localVars
  <2>1. ASSUME NEW c \in Command, CO_NMT_receive(c) PROVE SlotHoldsDue'
    BY <2>1 DEF CO_NMT_receive
  <2>2. CASE CO_NMT_processSwitch
    BY <2>2 DEF CO_NMT_processSwitch
  <2>3. CASE CO_NMT_processClear
    BY <2>3 DEF CO_NMT_processClear
  <2>4. CASE SystemReset
    BY <2>4 DEF SystemReset
  <2>5. ASSUME NEW on \in BOOLEAN, OD_write_1017(on) PROVE SlotHoldsDue'
    BY <2>5 DEF OD_write_1017
  <2>6. CASE Expire
    BY <2>6 DEF Expire
  <2>7. CASE SendOverflows
    BY <2>7 DEF SendOverflows
  <2>8. CASE UNCHANGED vars
    BY <2>8 DEF vars
  <2>9. QED
    BY <2>1, <2>2, <2>3, <2>4, <2>5, <2>6, <2>7, <2>8 DEF Next, CO_process
<1>3. SlotHoldsDue => CommandLostOnlyInWindow
  BY DEF SlotHoldsDue, CommandLostOnlyInWindow
<1>4. QED
  BY <1>1, <1>2, <1>3, PTL DEF Spec
=============================================================================
