-------------------------------- MODULE Srdo --------------------------------
(***************************************************************************)
(* Safety related data objects (CO_SRDO.c): a sender and a receiver on a   *)
(* bus that may lose and delay frames.  Data go twice, the second time     *)
(* inverted; here both frames carry the value, and the receiver compares.  *)
(* Time is counted in calls of CO_SRDO_process; the receive interrupts     *)
(* come between its steps, and the application writes an object and its    *)
(* inverse one after the other.                                            *)
(***************************************************************************)
EXTENDS Integers, Sequences

CONSTANTS
  SCT, SRVT,    (* safetyCycleTime and safetyRelatedValidationTime         *)
  REFRESH,      (* the sender's safetyCycleTime                            *)
  DELAY,        (* CO_CONFIG_SRDO_MINIMUM_DELAY                            *)
  START,        (* the sender's first delay, 0.5 ms * node-ID              *)
  Values,
  Configured,   (* the sides whose parameters are written                  *)
  Stored,       (* their parameters at the start                           *)
  Maps,         (* mapping entries                                         *)
  CHANNEL,
  CHANGES       (* NMT commands and SDO writes                             *)

VARIABLES
  side,         (* the two CO_SRDO_t with their guards                     *)
  obj,          (* the sender's mapped objects, normal and inverted        *)
  txData,       (* the frame to be sent inverted                           *)
  agree,        (* the receiver's objects hold one value, as a pair        *)
  bus, rxData, CANrxNew, changes,
  stage,        (* the receiver between its comparison and its copy        *)
  ghost         (* quiet: calls since the last pair or safe state; gap:    *)
                (* since the first frame of a pair; resumed: the           *)
                (* receiver's toogle was left set by the operation before; *)
                (* split: a frame came in the last "stage" and its objects *)
                (* differ; torn: a frame was lost or came too soon since   *)
                (* the normal frame in hand                                *)

srdoVars == <<side, obj, txData, agree, bus, rxData, CANrxNew, changes, stage, ghost>>

Sides == {"tx", "rx"}
None == "none"
Cap(n, max) == IF n > max THEN max ELSE n
Longer == IF SCT > SRVT THEN SCT ELSE SRVT
QuietMax == Longer + SRVT + 1

(* Parameters: whether the SRDO is used, times and identifiers ("bad" if   *)
(* an identifier is out of range), and the mapping, of which the entries   *)
(* beyond the count are not in the checksum (CO_SRDOcalcCrc).              *)
Crc(p) == [p EXCEPT !.maps = SubSeq(@, 1, p.count)]

(* CO_SRDOconfigMap: the objects exist, may be mapped, and the normal ones *)
(* are as long as the inverted; CO_SRDOconfigCom: there is something to    *)
(* send and the identifiers are in range.                                  *)
MapFits(p) ==
  LET m == p.maps IN p.count = 0 \/ (m[1].mappable /\ m[2].mappable /\ m[1].len = m[2].len)
Usable(p) == MapFits(p) /\ p.used /\ p.count > 0 /\ p.com # "bad"

(* Both start operational, with a configuration that fits its checksum.    *)
Good == CHOOSE p \in Stored : Usable(p)
Fresh(p) ==
  [operational |-> TRUE, prev |-> FALSE, valid |-> FALSE, toogle |-> 0, timer |-> 0,
   configurationValid |-> TRUE, checkCRC |-> TRUE, par |-> p, checksum |-> Crc(p)]
SrdoInit ==
  /\ side \in {[x \in Sides |-> Fresh(IF x \in Configured THEN p ELSE Good)] : p \in Stored}
  /\ LET v == CHOOSE v \in Values : TRUE IN obj = [n |-> v, i |-> v]
  /\ txData = None /\ agree = TRUE
  /\ bus = <<>> /\ rxData = <<None, None>> /\ CANrxNew = <<FALSE, FALSE>>
  /\ changes = 0 /\ stage = FALSE
  /\ ghost = [quiet |-> 0, gap |-> 0, resumed |-> FALSE, split |-> FALSE, torn |-> FALSE]
-----------------------------------------------------------------------------
(* CO_SRDO_receive_normal and _inverted.  A normal frame is taken until    *)
(* the pair is complete, an inverted one after a normal one.               *)
Receive ==
  /\ bus # <<>> /\ bus' = Tail(bus)
  /\ LET f == Head(bus)
         k == IF f.inverted THEN 2 ELSE 1
         taken == side["rx"].valid /\ (IF f.inverted THEN CANrxNew[1] ELSE ~CANrxNew[2])
     IN  /\ rxData' = IF taken THEN [rxData EXCEPT ![k] = f.v] ELSE rxData
         /\ CANrxNew' = IF taken THEN [CANrxNew EXCEPT ![k] = TRUE] ELSE CANrxNew
         /\ ghost' = [ghost EXCEPT !.split = @ \/ (taken /\ stage),
                        !.torn = ~(taken /\ ~f.inverted) /\ (@ \/ CANrxNew[2])]
  /\ UNCHANGED <<side, obj, txData, agree, changes, stage>>

Lose ==
  /\ bus # <<>> /\ bus' = Tail(bus)
  /\ ghost' = [ghost EXCEPT !.torn = TRUE]
  /\ UNCHANGED <<side, obj, txData, agree, rxData, CANrxNew, changes, stage>>
-----------------------------------------------------------------------------
(* SDO writes, refused while operational: a parameter or the checksum, and *)
(* the flag that has the checksum verified (CO_ODF_SRDOcom, _SRDOmap,      *)
(* _SRDOcrc and _SRDOvalid).                                               *)
Writable(x) ==
  /\ x \in Configured /\ changes < CHANGES /\ ~side[x].operational
  /\ changes' = changes + 1
  /\ UNCHANGED <<obj, txData, agree, bus, rxData, CANrxNew, stage, ghost>>

(* The count is even and, as the entries, written only of an SRDO that is  *)
(* not used; the entries only when the count is zero.                      *)
ComWrites(p) == {[p EXCEPT !.used = u] : u \in BOOLEAN} \union {[p EXCEPT !.com = "new"]}
MapWrites(p) ==
  {[p EXCEPT !.count = n] : n \in {c \in {0, 2} : ~p.used}} \union
  {[p EXCEPT !.maps[k] = e] : k \in {i \in 1..2 : ~p.used /\ p.count = 0}, e \in Maps}

(* Mutant: a parameter is written and the configuration stays valid.       *)
WriteParameterSilent(x) ==
  /\ Writable(x)
  /\ \E p \in ComWrites(side[x].par) \union MapWrites(side[x].par) :
       side' = [side EXCEPT ![x].par = p]

WriteParameter(x) ==
  /\ Writable(x)
  /\ \E p \in ComWrites(side[x].par) \union MapWrites(side[x].par) :
       side' = [side EXCEPT ![x].par = p, ![x].configurationValid = FALSE]

WriteCrc(x) ==
  /\ Writable(x)
  /\ \E p \in {side[x].par, Good} :
       side' = [side EXCEPT ![x].checksum = Crc(p), ![x].configurationValid = FALSE]

WriteValid(x) ==
  /\ Writable(x)
  /\ \E magic \in BOOLEAN :
       side' = [side EXCEPT ![x].configurationValid = magic, ![x].checkCRC = magic]

(* NMT commands; CO_SRDO_process is called between two of them.            *)
Nmt(x) ==
  /\ changes < CHANGES /\ changes' = changes + 1
  /\ side[x].prev = side[x].operational
  /\ side' = [side EXCEPT ![x].operational = ~@]
  /\ UNCHANGED <<obj, txData, agree, bus, rxData, CANrxNew, stage, ghost>>

WriteObject ==    \* the application, under way from one value to the next
  /\ \/ obj.n = obj.i /\ \E v \in Values : obj' = [obj EXCEPT !.n = v]
     \/ obj.n # obj.i /\ obj' = [obj EXCEPT !.i = obj.n]
  /\ UNCHANGED <<side, txData, agree, bus, rxData, CANrxNew, changes, stage, ghost>>
-----------------------------------------------------------------------------
(* CO_SRDOGuard_process and the first part of CO_SRDO_process: the         *)
(* checksum is verified, and entering operational a verified and usable    *)
(* configuration is put into effect (CO_SRDOconfigMap, CO_SRDOconfigCom).  *)
Guarded(s, first) ==
  LET good  == s.configurationValid /\ ~(s.checkCRC /\ s.checksum # Crc(s.par))
      enter == s.operational /\ ~s.prev
      valid == s.operational /\ IF enter /\ good THEN Usable(s.par) ELSE s.valid
  IN  [s EXCEPT !.prev = s.operational, !.checkCRC = FALSE, !.configurationValid = good,
                !.valid = valid, !.timer = IF enter /\ valid THEN first ELSE @]

Ticked(s) == [s EXCEPT !.timer = IF @ > 0 THEN @ - 1 ELSE 0]

Frame(inverted, v) == [v |-> v, inverted |-> inverted]

(* Mutant: the inverted frame is filled when it is sent.                   *)
SendLate(s) == IF s.toogle = 1 THEN Frame(TRUE, obj.i) ELSE Frame(FALSE, obj.n)

(* The frame that is due; both are filled when the normal one is sent.     *)
Send(s) == IF s.toogle = 1 THEN Frame(TRUE, txData) ELSE Frame(FALSE, obj.n)

Transmit ==
  LET s == Guarded(side["tx"], START)
      t == Ticked(s)
      due == s.valid /\ t.timer = 0
      fits == t.toogle = 1 \/ obj.n = obj.i     \* CO_CONFIG_SRDO_CHECK_TX
      f == Send(t)
  IN  /\ IF due /\ fits
         THEN /\ Len(bus) < CHANNEL /\ bus' = Append(bus, f)
              /\ side' = [side EXCEPT !["tx"] = [t EXCEPT !.toogle = 1 - @,
                             !.timer = IF f.inverted THEN REFRESH - DELAY ELSE DELAY]]
              /\ txData' = IF f.inverted THEN txData ELSE f.v
         ELSE /\ side' = [side EXCEPT !["tx"] = IF s.valid THEN t ELSE s]     \* or its safe state
              /\ UNCHANGED <<bus, txData>>
      /\ UNCHANGED <<obj, agree, rxData, CANrxNew, changes, stage, ghost>>

(* The application asks for the next pair at once.                         *)
CO_SRDO_requestSend ==
  /\ side["tx"].operational /\ side["tx"].valid /\ side["tx"].toogle = 0
  /\ side' = [side EXCEPT !["tx"].timer = 0]
  /\ UNCHANGED <<obj, txData, agree, bus, rxData, CANrxNew, changes, stage, ghost>>
-----------------------------------------------------------------------------
(* The receiver.  A pair whose frames agree is copied; one that does not,  *)
(* and a time-out, put the application into its safe state.                *)
Entered(s) == s.valid /\ ~side["rx"].valid
Quiet(n) == Cap(n, QuietMax)
Waits == [ghost EXCEPT !.quiet = Quiet(@ + 1),
                       !.gap = IF side["rx"].toogle = 1 THEN Cap(@ + 1, SRVT + 1) ELSE 0]

Pass(s, g, new) ==
  /\ side' = [side EXCEPT !["rx"] = s] /\ ghost' = g /\ CANrxNew' = new
  /\ UNCHANGED <<obj, txData, agree, bus, rxData, changes>>

Monitor ==
  /\ ~stage
  /\ LET s == Guarded(side["rx"], SCT)
         t == Ticked(s)
         g == [Waits EXCEPT !.resumed = IF Entered(s) THEN s.toogle = 1 ELSE @,
                            !.quiet = IF Entered(s) THEN 1 ELSE @]
         first == ~CANrxNew[1 + t.toogle] /\ t.timer = 0
     IN  \/ /\ ~s.valid /\ UNCHANGED stage
            /\ Pass(s, [ghost EXCEPT !.quiet = 0, !.gap = 0], <<FALSE, FALSE>>)
         \/ /\ s.valid /\ t.toogle = 0 /\ CANrxNew[1] /\ UNCHANGED stage
            /\ Pass([t EXCEPT !.toogle = 1, !.timer = SRVT],
                    [g EXCEPT !.gap = 0, !.resumed = FALSE], CANrxNew)
         \/ /\ s.valid /\ t.toogle = 1 /\ CANrxNew[2]
            /\ IF rxData[1] = rxData[2]
               THEN stage' = TRUE /\ Pass(t, [g EXCEPT !.split = FALSE], CANrxNew)
               ELSE UNCHANGED stage /\ Pass([t EXCEPT !.toogle = 0, !.timer = SCT],
                            [g EXCEPT !.quiet = 0, !.resumed = FALSE], <<FALSE, FALSE>>)
         \/ /\ s.valid /\ first /\ UNCHANGED stage
            /\ Pass([t EXCEPT !.toogle = 0, !.timer = SRVT],
                    [g EXCEPT !.quiet = 0, !.resumed = FALSE], <<FALSE, FALSE>>)
         \/ /\ s.valid /\ ~CANrxNew[1 + t.toogle] /\ t.timer > 0 /\ UNCHANGED stage
            /\ Pass(t, g, CANrxNew)

Copy ==
  /\ stage /\ stage' = FALSE
  /\ agree' = (rxData[1] = rxData[2])
  /\ CANrxNew' = <<FALSE, FALSE>>
  /\ side' = [side EXCEPT !["rx"].toogle = 0, !["rx"].timer = SCT]
  /\ ghost' = [ghost EXCEPT !.quiet = 0, !.resumed = FALSE, !.split = @ /\ ~agree']
  /\ UNCHANGED <<obj, txData, bus, rxData, changes>>

SrdoNext ==
  \/ Receive \/ Lose \/ WriteObject \/ Transmit \/ CO_SRDO_requestSend \/ Monitor \/ Copy
  \/ \E x \in Sides : WriteParameter(x) \/ WriteCrc(x) \/ WriteValid(x) \/ Nmt(x)
-----------------------------------------------------------------------------
SrdoTypeOK ==
  /\ \A x \in Sides : side[x].toogle \in {0, 1} /\ side[x].timer \in Nat
  /\ side["rx"].timer <= SCT \/ side["rx"].timer <= SRVT
  /\ side["tx"].timer <= START \/ side["tx"].timer <= REFRESH
  /\ Len(bus) <= CHANNEL

(* A receiver in operation gets a good pair or enters its safe state in    *)
(* time, whatever is lost or late: within the cycle and the validation     *)
(* time, and after a safe state, which is followed by a validation time    *)
(* and not by a cycle, within two validation times if these are longer.    *)
SafeInTime == ghost.quiet <= Longer + SRVT

(* The two frames of a pair that is taken are no further apart than SRVT,  *)
(* unless toogle was still set from the operation before.                  *)
PairInTime == stage /\ ~ghost.resumed => ghost.gap <= SRVT

(* An SRDO runs only with parameters whose checksum was verified.          *)
RunsVerified ==
  \A x \in Sides : LET s == side[x] IN
    s.valid /\ s.operational => s.checksum = Crc(s.par) /\ Usable(s.par)

(* Two frames in hand are of one pair, unless one was lost, or came before *)
(* the pair in hand was taken; also when the sender has left operational   *)
(* between the two, as toogle and the frame to be sent inverted stay.      *)
UnequalHasCause ==
  CANrxNew[1] /\ CANrxNew[2] /\ ~ghost.torn => rxData[1] = rxData[2]

(* The receiver's objects agree, unless a frame came between its           *)
(* comparison and its copy.                                                *)
ObjectsAgree == stage \/ ghost.split \/ agree
=============================================================================
