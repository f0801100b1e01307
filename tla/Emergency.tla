------------------------------ MODULE Emergency ------------------------------
(***************************************************************************)
(* CO_Emergency.c: the error bits of the node and the ring in which their  *)
(* changes wait to be sent as emergency messages and are kept as history   *)
(* (object 0x1003).  CO_error is called by CO_EM_process and by the PDO    *)
(* code, always under the "co" mutex, so calls do not overlap; the driver  *)
(* and the transmit interrupt may come between any two steps of it.        *)
(***************************************************************************)
EXTENDS Functions, Sequences

CONSTANTS
  DriverOrder,  (* the errors CO_EM_process derives from CANerrorStatus, in *)
                (* the order in which it looks at them                     *)
  Reported,     (* errors reported and reset by other code                 *)
  FullError,    (* CO_EM_EMERGENCY_BUFFER_FULL                             *)
  FifoSize      (* length of the ring, 17                                  *)

DriverError == Range(DriverOrder)
Error == DriverError \cup Reported \cup {FullError}

ASSUME EmergencyAssumption ==
  /\ DriverOrder \in Seq(DriverError)
  /\ FifoSize \in Nat \ {0, 1}
  /\ FullError \notin DriverError \cup Reported

VARIABLES
  em,              (* CO_EM_t, a record                                    *)
  CANerrorStatus,  (* the driver's errors, as a subset of DriverError      *)
  bufferFull,      (* em->CANtxBuff->bufferFull                            *)
  operational,     (* NMT state is pre-operational or operational          *)
  told,            (* the errors whose last message said that they are on  *)
  verifying,       (* CO_EM_process has found a change and not sent yet     *)
  changed          (* CANerrStChanged, as far as not yet reported          *)

vars == <<em, CANerrorStatus, bufferFull, operational, told, verifying, changed>>

Slot == 0 .. FifoSize - 1
Message == [error : Error, on : BOOLEAN]
None == [error |-> FullError, on |-> FALSE]
Advance(p) == IF p + 1 < FifoSize THEN p + 1 ELSE 0

(* CO_EM_init.  The last two fields are history: log holds the messages    *)
(* put into the ring since 0x1003 was cleared, newest first, as many as it *)
(* can keep; missed the errors whose last change found the ring full.      *)
Init ==
  /\ em = [errorStatusBits |-> {}, CANerrorStatusOld |-> {},
           fifo |-> [s \in Slot |-> None], fifoWrPtr |-> 0, fifoPpPtr |-> 0,
           fifoOverflow |-> 0, fifoCount |-> 0, log |-> <<>>, missed |-> {}]
  /\ CANerrorStatus = {}
  /\ bufferFull = FALSE
  /\ operational \in BOOLEAN
  /\ told = {}
  /\ verifying = FALSE /\ changed = {}

Toggle(m, e) == IF e \in m.errorStatusBits THEN m.errorStatusBits \ {e}
                                           ELSE m.errorStatusBits \cup {e}

(* The history with one message more, of which it keeps the newest.        *)
Logged(log, msg) ==
  [i \in 1 .. (IF Len(log) < FifoSize - 1 THEN Len(log) + 1 ELSE Len(log)) |->
     IF i = 1 THEN msg ELSE log[i - 1]]

(* Mutant: the ring takes one message more than it can tell from empty.    *)
CO_errorNoGap(m, on, e) ==
  IF (e \in m.errorStatusBits) = on THEN m
  ELSE [m EXCEPT !.errorStatusBits = Toggle(m, e),
                 !.fifo[m.fifoWrPtr] = [error |-> e, on |-> on],
                 !.fifoWrPtr = Advance(@),
                 !.fifoCount = IF @ < FifoSize - 1 THEN @ + 1 ELSE @,
                 !.log = Logged(@, [error |-> e, on |-> on]),
                 !.missed = @ \ {e}]

(* CO_error: nothing when the bit is already what is asked; otherwise the  *)
(* bit changes and a message goes into the ring, if it has room.  The slot *)
(* that the write pointer then points to is not read before it is written  *)
(* again, and what it holds is forgotten here.                             *)
CO_error(m, on, e) ==
  IF (e \in m.errorStatusBits) = on THEN m
  ELSE IF Advance(m.fifoWrPtr) = m.fifoPpPtr
    THEN [m EXCEPT !.errorStatusBits = Toggle(m, e), !.fifoOverflow = 1,
                   !.missed = @ \cup {e}]
    ELSE [m EXCEPT !.errorStatusBits = Toggle(m, e),
                   !.fifo = [@ EXCEPT ![m.fifoWrPtr] = [error |-> e, on |-> on],
                                     ![Advance(m.fifoWrPtr)] = None],
                   !.fifoWrPtr = Advance(@),
                   !.fifoCount = IF @ < FifoSize - 1 THEN @ + 1 ELSE @,
                   !.log = Logged(@, [error |-> e, on |-> on]),
                   !.missed = @ \ {e}]

(* CO_EM_process looks at CANerrorStatus once; when it has changed ...     *)
Begin ==
  /\ ~verifying /\ CANerrorStatus # em.CANerrorStatusOld
  /\ verifying' = TRUE
  /\ em' = [em EXCEPT !.CANerrorStatusOld = CANerrorStatus]
  /\ changed' = (CANerrorStatus \cup em.CANerrorStatusOld)
                 \ (CANerrorStatus \cap em.CANerrorStatusOld)
  /\ UNCHANGED <<CANerrorStatus, bufferFull, operational, told>>

(* ... CO_error is called for each status that has, in the order of the    *)
(* code.                                                                   *)
VerifyDriver ==
  /\ verifying
  /\ \E i \in DOMAIN DriverOrder :
       LET e == DriverOrder[i] IN
       /\ e \in changed /\ \A j \in 1 .. (i - 1) : DriverOrder[j] \notin changed
       /\ em' = CO_error(em, e \in em.CANerrorStatusOld, e)
       /\ changed' = changed \ {e}
  /\ UNCHANGED <<CANerrorStatus, bufferFull, operational, told, verifying>>

Said(S, msg) == IF msg.on THEN S \cup {msg.error} ELSE S \ {msg.error}
HasPending(m) == m.fifoPpPtr # m.fifoWrPtr

(* Mutants of AfterSend: the overflow is reported before the slot is free; *)
(* it is never reported.                                                   *)
AfterSendEarly(m) ==
  LET n == CO_error([m EXCEPT !.fifoOverflow = 2], TRUE, FullError)
  IN IF m.fifoOverflow = 1 THEN [n EXCEPT !.fifoPpPtr = Advance(@)]
     ELSE [m EXCEPT !.fifoPpPtr = Advance(@)]
AfterSendSilent(m) == [m EXCEPT !.fifoPpPtr = Advance(@), !.fifoOverflow = 0]

(* CO_EM_process behind CO_CANsend: free the slot; an overflow becomes an  *)
(* error of its own, which ends when the ring has been emptied.            *)
AfterSend(m) ==
  LET n == [m EXCEPT !.fifoPpPtr = Advance(@)]
  IN CASE n.fifoOverflow = 1 ->
            CO_error([n EXCEPT !.fifoOverflow = 2], TRUE, FullError)
       [] n.fifoOverflow = 2 /\ ~HasPending(n) ->
            CO_error([n EXCEPT !.fifoOverflow = 0], FALSE, FullError)
       [] OTHER -> n

(* Then the oldest message is sent, if it may be.                          *)
Send ==
  /\ IF verifying THEN changed = {} ELSE CANerrorStatus = em.CANerrorStatusOld
  /\ verifying' = FALSE
  /\ IF operational /\ HasPending(em) /\ ~bufferFull
       THEN /\ em' = AfterSend(em)
            /\ told' = Said(told, em.fifo[em.fifoPpPtr])
            /\ bufferFull' \in BOOLEAN
       ELSE UNCHANGED <<em, told, bufferFull>>
  /\ UNCHANGED <<CANerrorStatus, operational, changed>>

CO_EM_process == Begin \/ VerifyDriver \/ Send

(* CO_errorReport and CO_errorReset elsewhere (RPDO length and time-out).  *)
(* Like the writes of 0x1003 and the NMT state these wait for the mutex.   *)
Report(e) ==
  /\ ~verifying
  /\ em' = CO_error(em, TRUE, e)
  /\ UNCHANGED <<CANerrorStatus, bufferFull, operational, told, verifying, changed>>
Reset(e) ==
  /\ ~verifying
  /\ em' = CO_error(em, FALSE, e)
  /\ UNCHANGED <<CANerrorStatus, bufferFull, operational, told, verifying, changed>>

(* OD_write_1003 with 0.                                                   *)
ClearHistory ==
  /\ ~verifying
  /\ em' = [em EXCEPT !.fifoCount = 0, !.log = <<>>]
  /\ UNCHANGED <<CANerrorStatus, bufferFull, operational, told, verifying, changed>>

(* OD_read_1003 of a subindex that is not above fifoCount.                 *)
OD_read_1003(m, s) ==
  m.fifo[IF m.fifoWrPtr - s < 0 THEN m.fifoWrPtr - s + FifoSize
                                ELSE m.fifoWrPtr - s]

(* The driver, the transmit interrupt and the NMT master.                  *)
DriverChange ==
  /\ CANerrorStatus' \in SUBSET DriverError
  /\ UNCHANGED <<em, bufferFull, operational, told, verifying, changed>>
Transmitted ==
  /\ bufferFull' = FALSE
  /\ UNCHANGED <<em, CANerrorStatus, operational, told, verifying, changed>>
NMTChange ==
  /\ ~verifying
  /\ operational' = ~operational
  /\ UNCHANGED <<em, CANerrorStatus, bufferFull, told, verifying, changed>>

Next == \/ CO_EM_process
        \/ \E e \in Reported : Report(e) \/ Reset(e)
        \/ ClearHistory \/ DriverChange \/ Transmitted \/ NMTChange

(* CanOpenProcess calls CO_EM_process at least every 10 ms.                *)
Spec == Init /\ [][Next]_vars /\ WF_vars(CO_EM_process)
-----------------------------------------------------------------------------
Emcy == [errorStatusBits : SUBSET Error, CANerrorStatusOld : SUBSET DriverError,
         fifo : [Slot -> Message], fifoWrPtr : Slot, fifoPpPtr : Slot,
         fifoOverflow : 0 .. 2, fifoCount : 0 .. FifoSize - 1,
         log : Seq(Message), missed : SUBSET Error]

TypeOK ==
  /\ em \in Emcy
  /\ CANerrorStatus \subseteq DriverError /\ told \subseteq Error
  /\ bufferFull \in BOOLEAN /\ operational \in BOOLEAN
  /\ verifying \in BOOLEAN /\ changed \subseteq DriverError

(* How far behind the read pointer slot s is, and the slots that wait.     *)
Distance(m, s) == IF s < m.fifoPpPtr THEN s - m.fifoPpPtr + FifoSize
                                     ELSE s - m.fifoPpPtr
Pending(m) == {s \in Slot : Distance(m, s) < Distance(m, m.fifoWrPtr)}

(* What the bus knows of error e once the ring has been emptied.           *)
WillSay(m, S, e) ==
  LET about == {s \in Pending(m) : m.fifo[s].error = e}
  IN IF about = {} THEN e \in S
     ELSE \E s \in about : /\ m.fifo[s].on
                           /\ \A t \in about : Distance(m, t) <= Distance(m, s)

(* The messages sent and waiting tell the node's errors, for every error   *)
(* whose last change did not find the ring full.                           *)
MessagesTellErrors ==
  \A e \in Error \ em.missed : WillSay(em, told, e) <=> e \in em.errorStatusBits

(* The message about the full ring itself is never lost to the full ring.  *)
FullIsNeverMissed == FullError \notin em.missed

(* Object 0x1003 lists the messages since it was last cleared, newest      *)
(* first, however the ring has wrapped and overflowed.                     *)
HistoryIsLog ==
  /\ em.fifoCount = Len(em.log)
  /\ \A s \in 1 .. em.fifoCount : OD_read_1003(em, s) = em.log[s]

(* A lost message is not lost in silence: if the node stays pre-           *)
(* operational or operational and the driver empties its buffer again and  *)
(* again, the driver is given the message that the ring was full.          *)
LossIsTold ==
  (<>[]operational /\ []<>~bufferFull)
     => [](em.fifoOverflow = 1 => <>(FullError \in told))
=============================================================================
