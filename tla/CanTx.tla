------------------------------- MODULE CanTx -------------------------------
(***************************************************************************)
(* The transmit half of CANopenNode/keypad/CO_driver_ST32F103.c.           *)
(*                                                                         *)
(* A CANopen object (emergency, TPDO, SDO server, heartbeat, LSS) owns one *)
(* CO_CANtx_t buffer.  CO_CANsend copies it to a free hardware mailbox, or *)
(* marks it bufferFull and counts it; the transmit interrupt later copies  *)
(* the marked buffers, lowest index first.  The callers hold the recursive *)
(* "co" mutex, so at most one is inside CO_CANsend; the interrupt handler  *)
(* and the CAN controller interleave with it, except where CO_CANsend runs *)
(* with interrupts masked.                                                 *)
(***************************************************************************)
EXTENDS Integers, FiniteSets

CONSTANTS
  TxSize,     (* CANmodule->txSize, the length of txArray                  *)
  Mailboxes,  (* number of hardware mailboxes (3 on the GD32F103)          *)
  Polite,     (* buffers whose owner looks at bufferFull before sending    *)
  CountMod    (* 2^16: CANtxCount is a uint16_t                            *)

ASSUME CanTxAssumption ==
  /\ TxSize \in Nat \ {0}
  /\ Mailboxes \in Nat \ {0}
  /\ Polite \subseteq 1 .. TxSize
  /\ CountMod \in Nat \ {0, 1}

Buffer == 1 .. TxSize
Mailbox == 1 .. Mailboxes

VARIABLES
  bufferFull,         (* txArray[b].bufferFull                             *)
  CANtxCount,         (* CANmodule->CANtxCount                             *)
  firstCANtxMessage,  (* CANmodule->firstCANtxMessage                      *)
  overflow,           (* CO_CAN_ERRTX_OVERFLOW in CANmodule->CANerrorStatus *)
  busy,               (* mailboxes holding a frame (TMEx clear)            *)
  mtf,                (* mailboxes whose transmit-finished flag is set     *)
  caller,             (* buffer being sent between the overflow test and   *)
                      (* the critical section, 0 if none                   *)
  flag,               (* mailbox whose MTF flag the handler examines, 0    *)
                      (* outside the handler                               *)
  at                  (* buffer CAN_SendMessage examines, 0 outside it     *)

vars == <<bufferFull, CANtxCount, firstCANtxMessage, overflow, busy, mtf,
          caller, flag, at>>

(* The state CO_CANmodule_init leaves.                                     *)
Init ==
  /\ bufferFull = [b \in Buffer |-> FALSE]
  /\ CANtxCount = 0
  /\ firstCANtxMessage = TRUE
  /\ overflow = FALSE
  /\ busy = {}
  /\ mtf = {}
  /\ caller = 0
  /\ flag = 0
  /\ at = 0

Free == Mailbox \ busy
InHandler == flag # 0

(* prv_send_can_message and can_message_transmit: the lowest free mailbox  *)
(* takes the frame.                                                        *)
Load == \E m \in Free : /\ \A n \in Free : m <= n
                        /\ busy' = busy \cup {m}

(***************************************************************************)
(* CO_CANsend, called by the owner of b.  CO_EM_process and                *)
(* CO_SDOserver_process send only when bufferFull is clear; the heartbeat  *)
(* and the TPDO send without looking.                                      *)
(***************************************************************************)
VerifyOverflow(b) ==
  /\ ~InHandler /\ caller = 0
  /\ b \in Polite => ~bufferFull[b]
  /\ overflow' = (overflow \/ (bufferFull[b] /\ ~firstCANtxMessage))
  /\ caller' = b
  /\ UNCHANGED <<bufferFull, CANtxCount, firstCANtxMessage, busy, mtf, flag, at>>

(* Mutant: a buffer that is already marked is only counted again.          *)
CriticalSendCountsFull ==
  /\ ~InHandler /\ caller # 0
  /\ caller' = 0
  /\ \/ ~bufferFull[caller] /\ Load /\ UNCHANGED <<bufferFull, CANtxCount>>
     \/ /\ bufferFull[caller] \/ Free = {}
        /\ bufferFull' = [bufferFull EXCEPT ![caller] = TRUE]
        /\ CANtxCount' = (CANtxCount + 1) % CountMod
        /\ UNCHANGED busy
  /\ UNCHANGED <<firstCANtxMessage, overflow, mtf, flag, at>>

(* Mutant: the message is counted, its buffer is not marked.               *)
CriticalSendUnmarked ==
  /\ ~InHandler /\ caller # 0
  /\ caller' = 0
  /\ \/ Load /\ UNCHANGED CANtxCount
     \/ /\ Free = {}
        /\ CANtxCount' = (CANtxCount + 1) % CountMod
        /\ UNCHANGED busy
  /\ UNCHANGED <<bufferFull, firstCANtxMessage, overflow, mtf, flag, at>>

(* The section between CO_LOCK_CAN_SEND and CO_UNLOCK_CAN_SEND.            *)
CriticalSend ==
  /\ ~InHandler /\ caller # 0
  /\ caller' = 0
  /\ \/ /\ Load
        /\ UNCHANGED <<bufferFull, CANtxCount>>
     \/ /\ Free = {}
        /\ bufferFull' = [bufferFull EXCEPT ![caller] = TRUE]
        /\ CANtxCount' = (CANtxCount + 1) % CountMod
        /\ UNCHANGED busy
  /\ UNCHANGED <<firstCANtxMessage, overflow, mtf, flag, at>>

(***************************************************************************)
(* The CAN controller finishes a frame.  Automatic retransmission is off   *)
(* (MX_CAN_Init), so sent, lost to arbitration and destroyed by an error   *)
(* look alike: the mailbox is empty and its MTF flag raises the interrupt. *)
(***************************************************************************)
Finish(m) ==
  /\ m \in busy
  /\ busy' = busy \ {m}
  /\ mtf' = mtf \cup {m}
  /\ UNCHANGED <<bufferFull, CANtxCount, firstCANtxMessage, overflow, caller,
                 flag, at>>

(***************************************************************************)
(* USBD_HP_CAN0_TX_IRQHandler: test MTF0, MTF1, MTF2 in turn; for each one *)
(* set, clear it and run CAN_SendMessage.                                  *)
(***************************************************************************)
EnterHandler ==
  /\ ~InHandler /\ mtf # {}
  /\ flag' = 1
  /\ UNCHANGED <<bufferFull, CANtxCount, firstCANtxMessage, overflow, busy,
                 mtf, caller, at>>

NextFlag == flag' = IF flag = Mailboxes THEN 0 ELSE flag + 1

TestFlag ==
  /\ InHandler /\ at = 0
  /\ \/ /\ flag \notin mtf
        /\ NextFlag
        /\ UNCHANGED <<mtf, firstCANtxMessage, at>>
     \/ /\ flag \in mtf
        /\ mtf' = mtf \ {flag}
        /\ firstCANtxMessage' = FALSE
        /\ IF CANtxCount > 0
             THEN at' = 1 /\ UNCHANGED flag
             ELSE UNCHANGED at /\ NextFlag
  /\ UNCHANGED <<bufferFull, CANtxCount, overflow, busy, caller>>

(* Mutant: the loop only counts down, nothing clears the counter.          *)
TryBufferNoClear ==
  /\ InHandler /\ at # 0
  /\ \/ /\ bufferFull[at]
        /\ Load
        /\ bufferFull' = [bufferFull EXCEPT ![at] = FALSE]
        /\ CANtxCount' = (CANtxCount - 1) % CountMod
     \/ /\ ~bufferFull[at] \/ Free = {}
        /\ UNCHANGED <<busy, bufferFull, CANtxCount>>
  /\ IF at = TxSize THEN at' = 0 /\ NextFlag ELSE at' = at + 1 /\ UNCHANGED flag
  /\ UNCHANGED <<firstCANtxMessage, overflow, mtf, caller>>

(* One turn of the loop of CAN_SendMessage.  The loop has no break, so     *)
(* after the last buffer i is 0 and the counter is cleared, whatever is    *)
(* still marked.                                                           *)
TryBuffer ==
  /\ InHandler /\ at # 0
  /\ \/ /\ bufferFull[at]
        /\ Load
        /\ bufferFull' = [bufferFull EXCEPT ![at] = FALSE]
     \/ /\ ~bufferFull[at] \/ Free = {}
        /\ UNCHANGED <<busy, bufferFull>>
  /\ IF at = TxSize
       THEN at' = 0 /\ CANtxCount' = 0 /\ NextFlag
       ELSE /\ at' = at + 1
            /\ CANtxCount' = IF bufferFull'[at] = bufferFull[at] THEN CANtxCount
                             ELSE (CANtxCount - 1) % CountMod
            /\ UNCHANGED flag
  /\ UNCHANGED <<firstCANtxMessage, overflow, mtf, caller>>

Send == (\E b \in Buffer : VerifyOverflow(b)) \/ CriticalSend
Handler == EnterHandler \/ TestFlag \/ TryBuffer
Next == Send \/ (\E m \in Mailbox : Finish(m)) \/ Handler

(* A bus that is not off finishes every frame, an interrupt that is pending *)
(* is taken, and a task inside CO_CANsend goes on.  Nobody has to send.     *)
Spec == /\ Init /\ [][Next]_vars
        /\ WF_vars(Handler)
        /\ WF_vars(CriticalSend)
        /\ \A m \in Mailbox : WF_vars(Finish(m))
-----------------------------------------------------------------------------
TypeOK ==
  /\ bufferFull \in [Buffer -> BOOLEAN]
  /\ CANtxCount \in 0 .. CountMod - 1
  /\ firstCANtxMessage \in BOOLEAN
  /\ overflow \in BOOLEAN
  /\ busy \subseteq Mailbox
  /\ mtf \subseteq Mailbox
  /\ caller \in Buffer \cup {0}
  /\ flag \in Mailbox \cup {0}
  /\ at \in Buffer \cup {0}
  /\ at # 0 => flag # 0

(* While CANtxCount is not zero a transmit interrupt is on its way: a      *)
(* mailbox is still busy or a finished flag is unserved.  Without it the   *)
(* messages CO_CANsend has counted would wait for an interrupt that nobody *)
(* raises.  (Not inside the loop, which clears the counter as it ends.)    *)
CountedHasWake == at = 0 /\ CANtxCount # 0 => busy \cup mtf # {}

(* The counter never promises a message that is not there: when it is not  *)
(* zero some buffer is marked, although CO_CANsend counts a buffer again   *)
(* when it is already marked and the uint16_t wraps.                       *)
CountedIsMarked == at = 0 /\ CANtxCount # 0 => \E b \in Buffer : bufferFull[b]

(* A backlog that CO_CANsend counts is always scanned: the counter comes   *)
(* back to zero, whatever the senders and the bus do.                      *)
BacklogIsScanned == CANtxCount # 0 ~> CANtxCount = 0

(* What CO_driver.h:287 says of a marked buffer: "Message will be then     *)
(* sent by CAN TX interrupt as soon as CAN module is freed".  So a module  *)
(* with every mailbox free and no interrupt left to serve has no message   *)
(* waiting.                                                                *)
FreedModuleHasSent ==
  ~InHandler /\ busy \cup mtf = {} => \A b \in Buffer : ~bufferFull[b]
=============================================================================
