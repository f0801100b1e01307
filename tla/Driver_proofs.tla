---------------------------- MODULE Driver_proofs ----------------------------
(***************************************************************************)
(* Proofs about both directions of the CAN driver: transmit for every      *)
(* number of buffers and mailboxes and every width of the counter, receive *)
(* for every table of owners and identifiers, filters and depth of the     *)
(* FIFOs.                                                                  *)
(***************************************************************************)
EXTENDS Driver, WellFoundedInduction, TLAPS

(* The driver's two halves take steps of their own.                        *)
LEMMA DriverSteps ==
  DriverSpec => /\ Init /\ [][Next]_vars
                /\ Rx!RxInit /\ [][Rx!RxNext]_rxVars
<1>1. DriverInit => Init /\ Rx!RxInit
  BY DEF DriverInit
<1>2. [DriverNext]_driverVars => [Next]_vars /\ [Rx!RxNext]_rxVars
  BY DEF DriverNext, driverVars
<1>3. QED
  BY <1>1, <1>2, PTL DEF DriverSpec
-----------------------------------------------------------------------------
(* A frame only ever enters one of the mailboxes of the controller.         *)
LEMMA LoadTyping == busy \subseteq Mailbox /\ Load => busy' \subseteq Mailbox
BY DEF Load, Free

(* Every variable of the driver keeps its type; in particular the 16-bit   *)
(* counter wraps instead of going negative.                                *)
THEOREM CanTxTyping == DriverSpec => []TypeOK
<1> USE CanTxAssumption DEF Buffer, Mailbox, TypeOK
<1>1. Init => TypeOK
  <2>1. 0 \in 0 .. CountMod - 1
    OBVIOUS
  <2>2. QED
    BY <2>1 DEF Init
<1>2. TypeOK /\ [Next]_vars => TypeOK'
  <2> SUFFICES ASSUME TypeOK, [Next]_vars PROVE TypeOK'
    OBVIOUS
  <2>1. ASSUME NEW b \in Buffer, VerifyOverflow(b) PROVE TypeOK'
    BY <2>1 DEF VerifyOverflow, InHandler
  <2>2. CASE CriticalSend
    <3>1. busy' \subseteq Mailbox
      BY <2>2, LoadTyping DEF CriticalSend
    <3>2. (CANtxCount + 1) % CountMod \in 0 .. CountMod - 1
      OBVIOUS
    <3>3. bufferFull' \in [Buffer -> BOOLEAN] /\ CANtxCount' \in 0 .. CountMod - 1
      BY <2>2, <3>2 DEF CriticalSend
    <3>4. QED
      BY <2>2, <3>1, <3>3 DEF CriticalSend, InHandler
  <2>3. ASSUME NEW m \in Mailbox, Finish(m) PROVE TypeOK'
    BY <2>3 DEF Finish
  <2>4. CASE EnterHandler
    BY <2>4 DEF EnterHandler, InHandler
  <2>5. CASE TestFlag
    <3>1. NextFlag => flag' \in Mailbox \cup {0}
      BY <2>5 DEF TestFlag, InHandler, NextFlag
    <3>2. at' \in Buffer \cup {0} /\ flag' \in Mailbox \cup {0}
          /\ (at' # 0 => flag' # 0)
      BY <2>5, <3>1 DEF TestFlag, InHandler
    <3>3. mtf' \subseteq Mailbox /\ firstCANtxMessage' \in BOOLEAN
      BY <2>5 DEF TestFlag
    <3>4. QED
      BY <2>5, <3>2, <3>3 DEF TestFlag
  <2>6. CASE TryBuffer
    <3>1. busy' \subseteq Mailbox
      BY <2>6, LoadTyping DEF TryBuffer
    <3>2. bufferFull' \in [Buffer -> BOOLEAN]
      BY <2>6 DEF TryBuffer
    <3>3. (CANtxCount - 1) % CountMod \in 0 .. CountMod - 1
      OBVIOUS
    <3>4. CANtxCount' \in 0 .. CountMod - 1
      BY <2>6, <3>3 DEF TryBuffer
    <3>5. NextFlag => flag' \in Mailbox \cup {0}
      BY <2>6 DEF TryBuffer, InHandler, NextFlag
    <3>6. at' \in Buffer \cup {0} /\ flag' \in Mailbox \cup {0}
          /\ (at' # 0 => flag' # 0)
      BY <2>6, <3>5 DEF TryBuffer, InHandler
    <3>7. QED
      BY <2>6, <3>1, <3>2, <3>4, <3>6 DEF TryBuffer
  <2>7. CASE UNCHANGED vars
    BY <2>7 DEF vars
  <2>8. QED
    BY <2>1, <2>2, <2>3, <2>4, <2>5, <2>6, <2>7 DEF Next, Send, Handler
<1>3. QED
  BY <1>1, <1>2, DriverSteps, PTL

(* A message CO_CANsend has counted always has a transmit interrupt to     *)
(* come: CAN_SendMessage either scans the buffers and clears the counter,  *)
(* or is still to be called for a busy or finished mailbox.                *)
THEOREM CountedHasWakeAlways == DriverSpec => []CountedHasWake
<1> USE CanTxAssumption DEF Buffer, Mailbox, CountedHasWake
<1>1. Init => CountedHasWake
  BY DEF Init
<1>2. TypeOK /\ CountedHasWake /\ [Next]_vars => CountedHasWake'
  <2> SUFFICES ASSUME TypeOK, CountedHasWake, [Next]_vars
               PROVE  CountedHasWake'
    OBVIOUS
  <2>1. ASSUME NEW b \in Buffer, VerifyOverflow(b) PROVE CountedHasWake'
    BY <2>1 DEF VerifyOverflow
  <2>2. CASE CriticalSend
    <3>1. CASE Load
      BY <2>2, <3>1 DEF CriticalSend, Load
    <3>2. CASE Free = {}
      <4>1. 1 \in Mailbox
        OBVIOUS
      <4>2. 1 \in busy
        BY <3>2, <4>1 DEF Free
      <4>3. busy' = busy
        BY <2>2, <3>2 DEF CriticalSend, Load
      <4>4. QED
        BY <4>2, <4>3
    <3>3. QED
      BY <2>2, <3>1, <3>2 DEF CriticalSend
  <2>3. ASSUME NEW m \in Mailbox, Finish(m) PROVE CountedHasWake'
    BY <2>3 DEF Finish
  <2>4. CASE EnterHandler
    BY <2>4 DEF EnterHandler
  <2>5. CASE TestFlag
    <3>1. CASE flag \notin mtf
      BY <2>5, <3>1 DEF TestFlag
    <3>2. CASE flag \in mtf /\ CANtxCount > 0
      BY <2>5, <3>2 DEF TestFlag
    <3>3. CASE flag \in mtf /\ ~(CANtxCount > 0)
      BY <2>5, <3>3 DEF TestFlag, TypeOK
    <3>4. QED
      BY <3>1, <3>2, <3>3
  <2>6. CASE TryBuffer
    BY <2>6 DEF TryBuffer, TypeOK
  <2>7. CASE UNCHANGED vars
    BY <2>7 DEF vars
  <2>8. QED
    BY <2>1, <2>2, <2>3, <2>4, <2>5, <2>6, <2>7 DEF Next, Send, Handler
<1>3. QED
  BY <1>1, <1>2, CanTxTyping, DriverSteps, PTL

(* The counter never stands for messages that are not there: between two   *)
(* scans, when it is not zero, at least one buffer is marked bufferFull.   *)
THEOREM CountedIsMarkedAlways == DriverSpec => []CountedIsMarked
<1> USE CanTxAssumption DEF Buffer, CountedIsMarked
<1>1. Init => CountedIsMarked
  BY DEF Init
<1>2. TypeOK /\ CountedIsMarked /\ [Next]_vars => CountedIsMarked'
  <2> SUFFICES ASSUME TypeOK, CountedIsMarked, [Next]_vars
               PROVE  CountedIsMarked'
    OBVIOUS
  <2>1. ASSUME NEW b \in Buffer, VerifyOverflow(b) PROVE CountedIsMarked'
    BY <2>1 DEF VerifyOverflow
  <2>2. CASE CriticalSend
    <3>1. CASE UNCHANGED <<bufferFull, CANtxCount>>
      BY <2>2, <3>1 DEF CriticalSend
    <3>2. CASE bufferFull' = [bufferFull EXCEPT ![caller] = TRUE]
      <4>1. caller \in Buffer
        BY <2>2 DEF CriticalSend, TypeOK
      <4>2. bufferFull'[caller]
        BY <3>2, <4>1 DEF TypeOK
      <4>3. QED
        BY <4>1, <4>2
    <3>3. QED
      BY <2>2, <3>1, <3>2 DEF CriticalSend
  <2>3. ASSUME NEW m \in Mailbox, Finish(m) PROVE CountedIsMarked'
    BY <2>3 DEF Finish
  <2>4. CASE EnterHandler
    BY <2>4 DEF EnterHandler
  <2>5. CASE TestFlag
    BY <2>5 DEF TestFlag
  <2>6. CASE TryBuffer
    BY <2>6 DEF TryBuffer, TypeOK
  <2>7. CASE UNCHANGED vars
    BY <2>7 DEF vars
  <2>8. QED
    BY <2>1, <2>2, <2>3, <2>4, <2>5, <2>6, <2>7 DEF Next, Send, Handler
<1>3. QED
  BY <1>1, <1>2, CanTxTyping, DriverSteps, PTL
-----------------------------------------------------------------------------
(* A set of indexes that is not empty has a first one, which the search    *)
(* of prv_read_can_received_msg finds.                                     *)
LEMMA FirstIndex ==
  ASSUME NEW M \in SUBSET Nat, M # {}
  PROVE  /\ (CHOOSE i \in M : \A j \in M : i <= j) \in M
         /\ \A j \in M : (CHOOSE i \in M : \A k \in M : i <= k) <= j
<1> DEFINE R == OpToRel(<, Nat)
<1>1. IsWellFoundedOn(R, Nat)
  BY NatLessThanWellFounded
<1>2. PICK m \in M : \A n \in M : ~ (<<n, m>> \in R)
  BY <1>1, WFMin
<1>3. \A n \in Nat : n < m => <<n, m>> \in R
  BY DEF OpToRel
<1> HIDE DEF R
<1>4. ASSUME NEW n \in M PROVE m <= n
  <2>1. n \in Nat /\ m \in Nat
    OBVIOUS
  <2>2. ~(n < m)
    BY <1>2, <1>3, <2>1, Zenon
  <2>3. QED
    BY <2>1, <2>2
<1>5. \E i \in M : \A j \in M : i <= j
  BY <1>4, Zenon
<1>6. QED
  BY <1>5, Zenon

(* What the assumption says of the owners.                                 *)
LEMMA Owners ==
  /\ "NMT" \in Rx!Owner /\ RxOrder[1] = "NMT" /\ 1 \in DOMAIN RxOrder
  /\ DOMAIN RxOrder \subseteq Nat \ {0}
  /\ \A i \in DOMAIN RxOrder : RxOrder[i] \in Rx!Owner
  /\ \A o \in Rx!Owner : \E i \in DOMAIN RxOrder : RxOrder[i] = o
  /\ \A o \in Rx!Owner : Predefined[o] \in Rx!Id
  /\ Rx!NmtId \in Rx!Id /\ Other \subseteq Rx!Id
BY RxAssumption DEF Rx!Owner, Rx!Range, Rx!Id

(* The frames that the filters pass.                                       *)
DataFrame == {fr \in Rx!Frame : ~fr.remote /\ ~fr.extended}

(* The identifiers an RPDO may be given, and those an owner has when its   *)
(* buffer is not half set up.                                              *)
RpdoId == {Rx!NmtId} \cup {Predefined[r] : r \in Rpdo} \cup Other
Given(o, id) == IF o \in moved THEN o \in Rpdo /\ id \in RpdoId
                               ELSE id = Predefined[o]

Waiting == {toStart[i] : i \in DOMAIN toStart}
Ready(o) == /\ rxArray[o].object = o /\ rxArray[o].callback = o
            /\ rxArray[o].mask = "id" /\ Given(o, rxArray[o].ident)

(* Of the buffers: each is unset, half set up by the call under way, or    *)
(* ready; a callback follows its object; that of NMT always has            *)
(* identifier 0.                                                           *)
BufferInv ==
  /\ DOMAIN rxArray = Rx!Owner
  /\ \A o \in Rx!Owner :
       /\ rxArray[o] \in [object : {Rx!None, o}, callback : {Rx!None, o},
                          ident : Rx!Id, mask : {"all", "id"}]
       /\ rxArray[o].callback # Rx!None => rxArray[o].object = o
       /\ o \in Waiting \/ o = setup.owner \/ Ready(o)
  /\ rxArray["NMT"].ident = Rx!NmtId

(* Of the call of CO_CANrxBufferInit under way: what it has stored.        *)
SetupInv ==
  /\ toStart \in Seq(Rx!Owner)
  /\ moved \subseteq Rpdo /\ (toStart # <<>> => moved = {})
  /\ setup = Rx!Idle \/ setup \in [owner : Rx!Owner, id : Rx!Id,
                                   next : {"object", "callback", "ident", "mask"}]
  /\ setup # Rx!Idle =>
       LET b == rxArray[setup.owner] IN
       /\ Given(setup.owner, setup.id)
       /\ setup.next # "object" => b.object = setup.owner
       /\ setup.next \in {"ident", "mask"} => b.callback = setup.owner
       /\ setup.next = "mask" => b.ident = setup.id

(* Of the frames: only data frames of standard format get past the filters *)
(* and are handed on.                                                      *)
FrameInv ==
  /\ fifo \in [Rx!Fifo -> Seq(DataFrame)]
  /\ \A f \in Rx!Fifo : Len(fifo[f]) <= Depth
  /\ rcvMsg \in DataFrame

RxInv == BufferInv /\ SetupInv /\ FrameInv /\ Rx!HandsOnWhatCame /\ Rx!CommandsReachNmt

(* It holds when CO_CANmodule_init has run ...                             *)
LEMMA RxInvInit == Rx!RxInit => RxInv
<1> SUFFICES ASSUME Rx!RxInit PROVE RxInv
  OBVIOUS
<1> USE Owners DEF Rx!RxInit
<1>1. BufferInv
  <2>1. \A o \in Rx!Owner : o \in Waiting
    BY RxAssumption DEF Waiting
  <2>2. QED
    BY <2>1 DEF BufferInv, Rx!Unset
<1>2. SetupInv
  BY RxAssumption DEF SetupInv
<1>3. FrameInv
  BY RxAssumption DEF FrameInv, DataFrame, Rx!NoFrame, Rx!Frame
<1>4. Rx!HandsOnWhatCame /\ Rx!CommandsReachNmt
  BY DEF Rx!HandsOnWhatCame, Rx!CommandsReachNmt, Rx!NotHanded
<1>5. QED
  BY <1>1, <1>2, <1>3, <1>4 DEF RxInv

(* A call is made for an owner whose default it sets, or for an RPDO.      *)
LEMMA StartNextStep ==
  ASSUME RxInv, Rx!StartNext
  PROVE  BufferInv' /\ SetupInv'
<1> USE DEF RxInv, Rx!StartNext
<1> DEFINE h == Head(toStart)
<1>1. toStart \in Seq(Rx!Owner) /\ toStart # <<>> /\ moved = {}
  BY DEF SetupInv
<1>2. /\ h \in Rx!Owner /\ toStart' \in Seq(Rx!Owner)
      /\ \A o \in Waiting : o = h \/ o \in Waiting'
  <2>1. /\ h \in Rx!Owner /\ h = toStart[1] /\ toStart' \in Seq(Rx!Owner)
        /\ \A i \in DOMAIN toStart : i = 1 \/ (i - 1 \in DOMAIN toStart' /\ toStart'[i - 1] = toStart[i])
    BY <1>1
  <2>2. QED
    BY <2>1 DEF Waiting
<1>3. BufferInv'
  <2>1. \A o \in Rx!Owner : o \in Waiting \/ Ready(o)
    BY RxAssumption DEF BufferInv, Rx!Idle
  <2>2. \A o \in Rx!Owner : Ready(o) => Ready(o)'
    BY DEF Ready, Given
  <2>3. \A o \in Rx!Owner : o \in Waiting' \/ o = setup'.owner \/ Ready(o)'
    BY <1>2, <2>1, <2>2
  <2>4. QED
    BY <2>3 DEF BufferInv
<1>4. setup' \in [owner : Rx!Owner, id : Rx!Id, next : {"object", "callback", "ident", "mask"}]
  BY <1>2, Owners
<1>5. \A p \in Rx!Owner : Given(p, Predefined[p])'
  BY <1>1 DEF Given
<1>6. SetupInv'
  BY <1>1, <1>2, <1>4, <1>5 DEF SetupInv
<1>7. QED
  BY <1>3, <1>6

(* A COB-ID write takes an RPDO out of the ready ones until its mask is    *)
(* stored, and marks it as moved.                                          *)
LEMMA WriteCobIdStep ==
  ASSUME RxInv, NEW r \in Rpdo, NEW id \in RpdoId, Rx!WriteCobId(r, id)
  PROVE  BufferInv' /\ SetupInv'
<1> USE DEF RxInv, Rx!WriteCobId
<1>1. r \in Rx!Owner /\ id \in Rx!Id
  BY RxAssumption, Owners DEF RpdoId
<1>2. /\ toStart = <<>> /\ toStart' = toStart /\ setup = Rx!Idle /\ rxArray' = rxArray
      /\ moved' = moved \cup {r} /\ setup' = [owner |-> r, id |-> id, next |-> "object"]
  OBVIOUS
<1>3. BufferInv'
  <2>1. \A o \in Rx!Owner : Ready(o)
    BY <1>2, RxAssumption DEF BufferInv, Rx!Idle, Waiting
  <2>2. \A o \in Rx!Owner : o # r => Ready(o)'
    BY <1>2, <2>1 DEF Ready, Given
  <2>3. QED
    BY <1>2, <2>2 DEF BufferInv
<1>4. Given(r, id)'
  BY <1>2 DEF Given, RpdoId
<1>5. setup' \in [owner : Rx!Owner, id : Rx!Id, next : {"object", "callback", "ident", "mask"}]
  BY <1>1, <1>2
<1>6. SetupInv'
  BY <1>2, <1>4, <1>5 DEF SetupInv
<1>7. QED
  BY <1>3, <1>6

(* Each store of CO_CANrxBufferInit keeps both invariants; the last one    *)
(* makes the buffer ready.                                                 *)
LEMMA BufferInitStep ==
  ASSUME RxInv, Rx!CO_CANrxBufferInit
  PROVE  BufferInv' /\ SetupInv'
<1> USE DEF RxInv, Rx!CO_CANrxBufferInit
<1> DEFINE o == setup.owner
           b == rxArray[o]
           New == Rx!Stored(b)
<1>1. /\ setup \in [owner : Rx!Owner, id : Rx!Id, next : {"object", "callback", "ident", "mask"}]
      /\ Given(o, setup.id) /\ setup # Rx!Idle
      /\ setup.next # "object" => b.object = o
      /\ setup.next \in {"ident", "mask"} => b.callback = o
      /\ setup.next = "mask" => b.ident = setup.id
  BY DEF SetupInv
<1>2. /\ o \in Rx!Owner /\ DOMAIN rxArray = Rx!Owner
      /\ b \in [object : {Rx!None, o}, callback : {Rx!None, o}, ident : Rx!Id, mask : {"all", "id"}]
      /\ b.callback # Rx!None => b.object = o
  BY <1>1 DEF BufferInv
<1>3. /\ DOMAIN rxArray' = Rx!Owner /\ rxArray'[o] = New
      /\ \A p \in Rx!Owner : p # o => rxArray'[p] = rxArray[p]
      /\ UNCHANGED <<toStart, moved>>
      /\ setup' = IF setup.next = "mask" THEN Rx!Idle
                  ELSE [setup EXCEPT !.next = Rx!After[@]]
  BY <1>2
<1>4. \A p \in Rx!Owner : p # o => (Ready(p)' <=> Ready(p))
  BY <1>3 DEF Ready, Given
<1>5. o = "NMT" => setup.id = Rx!NmtId
  BY <1>1, RxAssumption DEF Given
<1>6. Waiting' = Waiting
  BY <1>3 DEF Waiting
<1>7. CASE setup.next = "object"
  <2>1. New = [b EXCEPT !.object = o]
    BY <1>7 DEF Rx!Stored, Rx!StoreObject
  <2>2. setup' = [setup EXCEPT !.next = "callback"]
    BY <1>3, <1>7 DEF Rx!After
  <2>3. setup'.owner = o /\ setup'.id = setup.id /\ setup'.next = "callback"
    BY <1>1, <2>2
  <2>4. /\ New \in [object : {Rx!None, o}, callback : {Rx!None, o}, ident : Rx!Id, mask : {"all", "id"}]
        /\ New.object = o /\ New.ident = b.ident
    BY <1>2, <2>1
  <2>5. BufferInv'
    BY <1>2, <1>3, <1>4, <1>6, <2>3, <2>4 DEF BufferInv
  <2>6. SetupInv'
    BY <1>1, <1>3, <2>2, <2>3, <2>4 DEF SetupInv, Given
  <2>7. QED
    BY <2>5, <2>6
<1>8. CASE setup.next = "callback"
  <2>1. New = [b EXCEPT !.callback = o]
    BY <1>8 DEF Rx!Stored, Rx!StoreCallback
  <2>2. setup' = [setup EXCEPT !.next = "ident"]
    BY <1>3, <1>8 DEF Rx!After
  <2>3. setup'.owner = o /\ setup'.id = setup.id /\ setup'.next = "ident"
    BY <1>1, <2>2
  <2>4. /\ New \in [object : {Rx!None, o}, callback : {Rx!None, o}, ident : Rx!Id, mask : {"all", "id"}]
        /\ New.object = o /\ New.callback = o /\ New.ident = b.ident
    BY <1>1, <1>2, <1>8, <2>1
  <2>5. BufferInv'
    BY <1>2, <1>3, <1>4, <1>6, <2>3, <2>4 DEF BufferInv
  <2>6. SetupInv'
    BY <1>1, <1>3, <2>2, <2>3, <2>4 DEF SetupInv, Given
  <2>7. QED
    BY <2>5, <2>6
<1>9. CASE setup.next = "ident"
  <2>1. New = [b EXCEPT !.ident = setup.id]
    BY <1>9 DEF Rx!Stored, Rx!StoreIdent
  <2>2. setup' = [setup EXCEPT !.next = "mask"]
    BY <1>3, <1>9 DEF Rx!After
  <2>3. setup'.owner = o /\ setup'.id = setup.id /\ setup'.next = "mask"
    BY <1>1, <2>2
  <2>4. /\ New \in [object : {Rx!None, o}, callback : {Rx!None, o}, ident : Rx!Id, mask : {"all", "id"}]
        /\ New.object = o /\ New.callback = o /\ New.ident = setup.id
    BY <1>1, <1>2, <1>9, <2>1
  <2>5. BufferInv'
    BY <1>2, <1>3, <1>4, <1>5, <1>6, <2>3, <2>4 DEF BufferInv
  <2>6. SetupInv'
    BY <1>1, <1>3, <2>2, <2>3, <2>4 DEF SetupInv, Given
  <2>7. QED
    BY <2>5, <2>6
<1>10. CASE setup.next = "mask"
  <2>1. New = [b EXCEPT !.mask = "id"]
    BY <1>10 DEF Rx!Stored, Rx!StoreMask
  <2>2. setup' = Rx!Idle
    BY <1>3, <1>10
  <2>3. /\ New \in [object : {Rx!None, o}, callback : {Rx!None, o}, ident : Rx!Id, mask : {"all", "id"}]
        /\ New.object = o /\ New.callback = o /\ New.ident = setup.id /\ New.mask = "id"
    BY <1>1, <1>2, <1>10, <2>1
  <2>4. \A p \in Rx!Owner : p = o => Ready(p)'
    BY <1>1, <1>3, <2>3 DEF Ready, Given
  <2>5. BufferInv'
    BY <1>2, <1>3, <1>4, <1>5, <1>6, <2>3, <2>4 DEF BufferInv
  <2>6. SetupInv'
    BY <1>3, <2>2 DEF SetupInv
  <2>7. QED
    BY <2>5, <2>6
<1>11. QED
  BY <1>1, <1>7, <1>8, <1>9, <1>10

(* A frame that gets into a FIFO is a data frame of standard format.       *)
LEMMA ArriveStep ==
  ASSUME RxInv, NEW fr \in Rx!Frame, Rx!Arrive(fr)
  PROVE  FrameInv'
<1>1. PICK f \in Rx!Fifo : Rx!Accepts(f, fr) /\ Len(fifo[f]) < Depth
                           /\ fifo' = [fifo EXCEPT ![f] = Append(@, fr)]
  BY DEF Rx!Arrive
<1>2. fr \in DataFrame
  BY <1>1 DEF Rx!Accepts, DataFrame
<1>3. fifo \in [Rx!Fifo -> Seq(DataFrame)] /\ Depth \in Nat
      /\ \A g \in Rx!Fifo : Len(fifo[g]) <= Depth
  BY RxAssumption DEF RxInv, FrameInv
<1>4. Append(fifo[f], fr) \in Seq(DataFrame) /\ Len(Append(fifo[f], fr)) <= Depth
  BY <1>1, <1>2, <1>3
<1>5. QED
  BY <1>1, <1>3, <1>4 DEF Rx!Arrive, RxInv, FrameInv

(* The search ends at a buffer with the frame's identifier, and at that of *)
(* NMT, the first, for a command.                                          *)
LEMMA ReceiverIs ==
  ASSUME RxInv, NEW fr \in DataFrame, Rx!Receiver(fr) # Rx!None
  PROVE  /\ Rx!Receiver(fr) \in Rx!Owner
         /\ rxArray[Rx!Receiver(fr)].ident = fr.id
         /\ fr.id = Rx!NmtId => Rx!Receiver(fr) = "NMT"
<1> DEFINE M == Rx!MatchingIndex(fr)
           m == CHOOSE i \in M : \A j \in M : i <= j
<1>1. M \in SUBSET Nat /\ M \subseteq DOMAIN RxOrder
  BY Owners DEF Rx!MatchingIndex
<1>2. M # {} /\ Rx!Receiver(fr) = RxOrder[m]
  BY DEF Rx!Receiver
<1>3. m \in M /\ \A j \in M : m <= j
  BY <1>1, <1>2, FirstIndex
<1>4. rxArray[RxOrder[m]].ident = fr.id
  BY <1>3 DEF Rx!MatchingIndex, Rx!Matches
<1>5. ASSUME fr.id = Rx!NmtId PROVE m = 1
  <2>1. Rx!Matches("NMT", fr)
    BY <1>5 DEF Rx!Matches, RxInv, BufferInv, DataFrame
  <2>2. 1 \in M
    BY <2>1, Owners DEF Rx!MatchingIndex
  <2>3. m <= 1 /\ m \in Nat \ {0}
    BY <1>1, <1>3, <2>2, Owners
  <2>4. QED
    BY <2>3
<1>6. RxOrder[m] \in Rx!Owner
  BY <1>1, <1>3, Owners
<1>7. QED
  BY <1>2, <1>4, <1>5, <1>6, Owners

(* The interrupt hands on the frame at the head of its FIFO.               *)
LEMMA ReceiveStep ==
  ASSUME RxInv, NEW f \in Rx!Fifo, Rx!prv_read_can_received_msg(f)
  PROVE  FrameInv' /\ Rx!HandsOnWhatCame' /\ Rx!CommandsReachNmt'
<1> USE DEF Rx!prv_read_can_received_msg
<1>1. /\ fifo \in [Rx!Fifo -> Seq(DataFrame)] /\ fifo[f] # <<>> /\ Depth \in Nat
      /\ \A g \in Rx!Fifo : Len(fifo[g]) <= Depth
  BY RxAssumption DEF RxInv, FrameInv
<1>2. /\ Head(fifo[f]) \in DataFrame /\ Tail(fifo[f]) \in Seq(DataFrame)
      /\ Len(Tail(fifo[f])) <= Depth
  BY <1>1
<1>3. rcvMsg' = Head(fifo[f])
  BY <1>2 DEF Rx!GetRxMessage, DataFrame
<1>4. FrameInv'
  BY <1>1, <1>2, <1>3 DEF FrameInv
<1>5. handed' = [frame |-> rcvMsg', stale |-> FALSE, to |-> Rx!Receiver(rcvMsg')]
  BY <1>3
<1>6. Rx!HandsOnWhatCame'
  BY <1>2, <1>3, <1>5 DEF Rx!HandsOnWhatCame, DataFrame
<1>7. ASSUME Rx!Receiver(rcvMsg') # Rx!None
      PROVE  rcvMsg'.id = Rx!NmtId <=> Rx!Receiver(rcvMsg') = "NMT"
  <2>1. rcvMsg' \in DataFrame
    BY <1>2, <1>3
  <2>2. rxArray["NMT"].ident = Rx!NmtId
    BY DEF RxInv, BufferInv
  <2>3. QED
    BY <1>7, <2>1, <2>2, ReceiverIs
<1>8. Rx!CommandsReachNmt'
  BY <1>5, <1>7 DEF Rx!CommandsReachNmt
<1>9. QED
  BY <1>4, <1>6, <1>8

(* ... and every step of the receive side keeps it.                        *)
LEMMA RxInvKept == RxInv /\ [Rx!RxNext]_rxVars => RxInv'
<1> SUFFICES ASSUME RxInv, [Rx!RxNext]_rxVars PROVE RxInv'
  OBVIOUS
<1> USE DEF RxInv
<1>1. UNCHANGED <<fifo, rcvMsg>> => FrameInv'
  BY DEF FrameInv
<1>2. UNCHANGED handed => Rx!HandsOnWhatCame' /\ Rx!CommandsReachNmt'
  BY DEF Rx!HandsOnWhatCame, Rx!CommandsReachNmt
<1>3. UNCHANGED <<rxArray, toStart, setup, moved>> => BufferInv' /\ SetupInv'
  BY DEF BufferInv, SetupInv, Ready, Given, Waiting
<1>4. CASE Rx!StartNext
  BY <1>1, <1>2, <1>4, StartNextStep DEF Rx!StartNext
<1>5. CASE Rx!CO_CANrxBufferInit
  BY <1>1, <1>2, <1>5, BufferInitStep DEF Rx!CO_CANrxBufferInit
<1>6. ASSUME NEW r \in Rpdo, NEW id \in RpdoId, Rx!WriteCobId(r, id) PROVE RxInv'
  BY <1>1, <1>2, <1>6, WriteCobIdStep DEF Rx!WriteCobId
<1>7. ASSUME NEW fr \in Rx!Frame, Rx!Arrive(fr) PROVE RxInv'
  BY <1>2, <1>3, <1>7, ArriveStep DEF Rx!Arrive
<1>8. ASSUME NEW f \in Rx!Fifo, Rx!prv_read_can_received_msg(f) PROVE RxInv'
  BY <1>3, <1>8, ReceiveStep DEF Rx!prv_read_can_received_msg
<1>9. CASE UNCHANGED rxVars
  BY <1>1, <1>2, <1>3, <1>9 DEF rxVars
<1>10. QED
  BY <1>4, <1>5, <1>6, <1>7, <1>8, <1>9 DEF Rx!RxNext, RpdoId

(* With every buffer ready, an object whose identifier no other has hears  *)
(* it; the first of those that share one does too.                         *)
LEMMA ReadyIsHeard ==
  ASSUME RxInv, toStart = <<>>, setup = Rx!Idle,
         NEW o \in Rx!Owner \ {"LSS_SLV"}, o \notin moved,
         \A p \in Rx!Owner : rxArray[p].ident = rxArray[o].ident => p = o \/ o = "NMT"
  PROVE  Rx!Reaches(o)
<1> USE DEF RxInv
<1>1. \A p \in Rx!Owner : Ready(p)
  BY RxAssumption DEF BufferInv, Rx!Idle, Waiting
<1>2. rxArray[o].ident = Predefined[o] /\ rxArray[o].callback = o /\ o # Rx!None
  BY <1>1, RxAssumption DEF Ready, Given
<1> DEFINE fr == [Rx!NoFrame EXCEPT !.id = rxArray[o].ident]
           M == Rx!MatchingIndex(fr)
           m == CHOOSE i \in M : \A j \in M : i <= j
<1>3. fr.id = Predefined[o] /\ fr.remote = FALSE /\ fr.extended = FALSE
  BY <1>2 DEF Rx!NoFrame
<1>4. PICK f \in Rx!Fifo : Rx!Accepts(f, fr)
  BY <1>3, RxAssumption DEF Rx!Accepts
<1>5. PICK k \in DOMAIN RxOrder : RxOrder[k] = o
  BY Owners
<1>6. k \in M
  BY <1>2, <1>3, <1>5 DEF Rx!MatchingIndex, Rx!Matches
<1>7. M \in SUBSET Nat /\ M \subseteq DOMAIN RxOrder
  BY Owners DEF Rx!MatchingIndex
<1>8. m \in M /\ \A j \in M : m <= j
  BY <1>6, <1>7, FirstIndex
<1>9. RxOrder[m] = o
  <2>1. CASE o = "NMT"
    <3>1. 1 \in M
      BY <1>2, <1>3, <2>1, Owners DEF Rx!MatchingIndex, Rx!Matches
    <3>2. m <= 1 /\ m \in Nat \ {0}
      BY <1>7, <1>8, <3>1, Owners
    <3>3. m = 1
      BY <3>2
    <3>4. QED
      BY <2>1, <3>3, Owners
  <2>2. CASE o # "NMT"
    <3>1. RxOrder[m] \in Rx!Owner /\ rxArray[RxOrder[m]].ident = fr.id
      BY <1>7, <1>8, Owners DEF Rx!MatchingIndex, Rx!Matches
    <3>2. QED
      BY <1>2, <1>3, <2>2, <3>1
  <2>3. QED
    BY <2>1, <2>2
<1>10. Rx!Receiver(fr) = o
  BY <1>2, <1>6, <1>9 DEF Rx!Receiver
<1>11. QED
  BY <1>4, <1>10 DEF Rx!Reaches

(* Two owners only come to share an identifier by a write of a COB-ID.     *)
LEMMA DeafIsMoved == RxInv => Rx!DeafOnlyIfMoved
<1> SUFFICES ASSUME RxInv, toStart = <<>>, setup = Rx!Idle,
                    NEW o \in Rx!Owner \ {"LSS_SLV"}, ~Rx!Reaches(o)
             PROVE  o \in Rpdo /\ \E r \in moved : rxArray[r].ident = rxArray[o].ident
  BY DEF Rx!DeafOnlyIfMoved
<1>1. moved \subseteq Rpdo /\ Rpdo \subseteq Rx!Owner
  BY RxAssumption DEF RxInv, SetupInv
<1>2. \A p \in Rx!Owner : Given(p, rxArray[p].ident)
  BY RxAssumption DEF RxInv, BufferInv, Rx!Idle, Waiting, Ready
<1>3. CASE o \in moved
  BY <1>1, <1>3
<1>4. CASE o \notin moved
  <2>1. PICK p \in Rx!Owner : rxArray[p].ident = rxArray[o].ident /\ p # o /\ o # "NMT"
    BY <1>4, ReadyIsHeard
  <2>2. rxArray[o].ident = Predefined[o]
    BY <1>2, <1>4 DEF Given
  <2>3. p \in moved
    BY <1>2, <2>1, <2>2, RxAssumption DEF Given
  <2>4. Predefined[o] \in RpdoId
    BY <1>2, <2>1, <2>2, <2>3 DEF Given
  <2>5. Predefined[o] # Rx!NmtId
    BY <2>1, RxAssumption, Owners
  <2>6. o \in Rpdo
    BY <1>1, <2>4, <2>5, RxAssumption DEF RpdoId
  <2>7. QED
    BY <2>1, <2>3, <2>6
<1>5. QED
  BY <1>3, <1>4

(* The interrupt hands on what has come and nothing else, commands reach   *)
(* the NMT slave and nobody else, no callback runs without its object, and *)
(* an object is deaf only after a write of a COB-ID: for every table of    *)
(* buffers with the NMT slave first, all filters and FIFO depths.          *)
THEOREM FramesFindTheirObjectAlways == DriverSpec => []FramesFindTheirObject
<1>1. RxInv => FramesFindTheirObject
  <2> SUFFICES ASSUME RxInv PROVE FramesFindTheirObject
    OBVIOUS
  <2>1. Rx!RxTypeOK
    <3>1. DataFrame \subseteq Rx!Frame
      BY DEF DataFrame
    <3>2. \A f \in Rx!Fifo : fifo[f] \in Seq(Rx!Frame)
      BY <3>1 DEF RxInv, FrameInv
    <3>3. QED
      BY <3>1, <3>2 DEF Rx!RxTypeOK, RxInv, BufferInv, SetupInv, FrameInv
  <2>2. Rx!CallbackHasObject
    BY RxAssumption DEF Rx!CallbackHasObject, RxInv, BufferInv
  <2>3. QED
    BY <2>1, <2>2, DeafIsMoved DEF FramesFindTheirObject, RxInv
<1>2. QED
  BY <1>1, RxInvInit, RxInvKept, DriverSteps, PTL
=============================================================================
