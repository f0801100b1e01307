------------------------------- MODULE Keypad -------------------------------
(***************************************************************************)
(* The path of a key from its contact to the bus: Keyboard and KeyTpdo     *)
(* composed.  They share object 0x2000:1 (keys), and a turn of             *)
(* vProcessTask is one step of both.                                       *)
(***************************************************************************)
EXTENDS Keyboard

VARIABLES requested, sendRequest, operational, eventTimer, step, frame, sent,
          preempted

Tpdo == INSTANCE KeyTpdo WITH Value <- SUBSET Key

keyboardVars == <<pin, taskVars, queue>>
pdoVars == <<requested, sendRequest, operational, eventTimer, step, frame,
             sent, preempted>>
allVars == <<vars, pdoVars>>

KInit == Init /\ Tpdo!Init /\ sent = {}

(* vProcessTask: one event, then OD_requestTPDO.                           *)
ProcessTask == ProcessEvent /\ Tpdo!KeyEvent(keys')

KNext ==
  \/ ((\E k \in Key : Touch(k)) \/ Scanner) /\ UNCHANGED pdoVars
  \/ ProcessTask
  \/ (Tpdo!NMTChange \/ Tpdo!WriteEventTimer \/ Tpdo!Periodic)
     /\ UNCHANGED keyboardVars

KSpec ==
  /\ KInit /\ [][KNext]_allVars
  /\ WF_allVars(Scanner /\ UNCHANGED pdoVars)
  /\ WF_allVars(ProcessTask)
  /\ WF_allVars(Tpdo!CheckRequest(FALSE) /\ UNCHANGED keyboardVars)
  /\ WF_allVars(Tpdo!CheckRequest(TRUE) /\ UNCHANGED keyboardVars)
  /\ WF_allVars((Tpdo!CopyObject \/ Tpdo!SetFlag \/ Tpdo!SendFrame)
                /\ UNCHANGED keyboardVars)
-----------------------------------------------------------------------------
(* The bus is left with an old key state only by a key event that preempts *)
(* CO_TPDOsend between its read of 0x2000 and its write of the flag.       *)
StaleOnlyIfPreempted == Tpdo!StaleOnlyIfPreempted

(* The bus never shows a key that has not been pressed nor hides one that  *)
(* is down once everything has come to rest: scanner caught up, queue      *)
(* empty, TPDO quiet, last event not preempted.                            *)
BusMirrorsKeys ==
  Backlog = <<>> /\ Tpdo!Quiet /\ ~preempted => sent = Pressed

(* From the contact to the bus: on an operational node with an event       *)
(* timer, a key that stays down (up) is eventually sent as down (up), for  *)
(* good; without one, every request of an operational node is taken up.    *)
Steady == operational /\ eventTimer
KeysReachBus ==
  /\ \A k \in Key : /\ <>[](Steady /\ k \in pin) => <>[](k \in sent)
                    /\ <>[](Steady /\ k \notin pin) => <>[](k \notin sent)
  /\ Tpdo!RequestServed
=============================================================================
