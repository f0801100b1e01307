---------------------------- MODULE Device_proofs ----------------------------
(***************************************************************************)
(* Proofs about the emergencies, the heartbeat consumer, the restart and   *)
(* the lamps, for every value of the constants of Device.                  *)
(***************************************************************************)
EXTENDS Device, SequenceTheorems, TLAPS

-----------------------------------------------------------------------------
(* The ring of emergency messages.  Dist and Tell are Distance and WillSay *)
(* of a ring given by its fields.                                          *)
Dist(pp, s) == IF s < pp THEN s - pp + FifoSize ELSE s - pp
Waits(wr, pp, s) == Dist(pp, s) < Dist(pp, wr)
Newest(f, wr, pp, e, s) ==
  /\ Waits(wr, pp, s) /\ f[s].error = e
  /\ \A t \in Slot : Waits(wr, pp, t) /\ f[t].error = e => Dist(pp, t) <= Dist(pp, s)
Tell(f, wr, pp, S, e) ==
  \/ (\A s \in Slot : Waits(wr, pp, s) => f[s].error # e) /\ e \in S
  \/ \E s \in Slot : Newest(f, wr, pp, e, s) /\ f[s].on

(* The write and the read pointer stay in the ring.                        *)
LEMMA AdvanceStays ==
  \A p \in Slot : /\ Advance(p) \in Slot
                  /\ Advance(p) # p
                  /\ \A q \in Slot : Advance(p) = Advance(q) => p = q
BY EmergencyAssumption DEF Slot, Advance

(* WillSay in terms of the fields.                                         *)
LEMMA SaysTell ==
  \A m \in Emcy : \A S, e :
    WillSay(m, S, e) <=> Tell(m.fifo, m.fifoWrPtr, m.fifoPpPtr, S, e)
BY DEF WillSay, Tell, Newest, Waits, Dist, Distance, Pending

(* A message put behind the others decides about its error and about no    *)
(* other.                                                                  *)
LEMMA PutTells ==
  ASSUME NEW f \in [Slot -> Message], NEW wr \in Slot, NEW pp \in Slot,
         Advance(wr) # pp, NEW msg \in Message, NEW S, NEW e
  PROVE  LET g == [f EXCEPT ![wr] = msg, ![Advance(wr)] = None]
         IN Tell(g, Advance(wr), pp, S, e)
              <=> IF e = msg.error THEN msg.on ELSE Tell(f, wr, pp, S, e)
<1> DEFINE g == [f EXCEPT ![wr] = msg, ![Advance(wr)] = None]
<1>1. /\ Advance(wr) \in Slot /\ Advance(wr) # wr
      /\ Dist(pp, Advance(wr)) = Dist(pp, wr) + 1
  BY AdvanceStays, EmergencyAssumption DEF Slot, Advance, Dist
<1>2. \A s \in Slot : Dist(pp, s) \in Int /\ (Dist(pp, s) = Dist(pp, wr) => s = wr)
  BY EmergencyAssumption DEF Slot, Dist
<1>3. \A s \in Slot : Waits(Advance(wr), pp, s) <=> Waits(wr, pp, s) \/ s = wr
  BY <1>1, <1>2 DEF Waits
<1>4. g[wr] = msg
  BY <1>1
<1>5. \A s \in Slot : Waits(wr, pp, s) => g[s] = f[s] /\ s # wr /\ Dist(pp, s) < Dist(pp, wr)
  BY <1>1, <1>2 DEF Waits
<1> HIDE DEF g
<1>6. CASE e = msg.error
  <2>1. Newest(g, Advance(wr), pp, e, wr)
    BY <1>2, <1>3, <1>4, <1>5, <1>6 DEF Newest
  <2>2. \A s \in Slot : Newest(g, Advance(wr), pp, e, s) => s = wr
    BY <1>2, <1>3, <1>4, <1>5, <1>6 DEF Newest
  <2>3. ~ \A s \in Slot : Waits(Advance(wr), pp, s) => g[s].error # e
    BY <2>1 DEF Newest
  <2> QED
    BY <1>4, <1>6, <2>1, <2>2, <2>3 DEF Tell, g
<1>7. CASE e # msg.error
  <2>1. (\A s \in Slot : Waits(Advance(wr), pp, s) => g[s].error # e)
          <=> \A s \in Slot : Waits(wr, pp, s) => f[s].error # e
    BY <1>3, <1>4, <1>5, <1>7
  <2>2. \A s \in Slot : Newest(g, Advance(wr), pp, e, s) <=> Newest(f, wr, pp, e, s)
    BY <1>3, <1>4, <1>5, <1>7 DEF Newest
  <2>3. \A s \in Slot : Newest(f, wr, pp, e, s) => g[s].on = f[s].on
    BY <1>5 DEF Newest
  <2> QED
    BY <1>7, <2>1, <2>2, <2>3 DEF Tell, g
<1> QED
  BY <1>6, <1>7

(* Sending the oldest message moves what it says from the ring to the bus. *)
LEMMA TakeTells ==
  ASSUME NEW f \in [Slot -> Message], NEW wr \in Slot, NEW pp \in Slot,
         wr # pp, NEW S, NEW e
  PROVE  Tell(f, wr, Advance(pp), Said(S, f[pp]), e) <=> Tell(f, wr, pp, S, e)
<1>1. Advance(pp) \in Slot
  BY AdvanceStays
<1>2. \A s \in Slot : Dist(Advance(pp), s) \in Int /\ Dist(pp, s) \in Int
  BY <1>1, EmergencyAssumption DEF Slot, Dist
<1>3. \A s \in Slot \ {pp} : Dist(Advance(pp), s) = Dist(pp, s) - 1
  BY <1>1, EmergencyAssumption DEF Slot, Dist, Advance
<1>4. \A s \in Slot : Waits(wr, pp, s) <=> s = pp \/ Waits(wr, Advance(pp), s)
  <2>1. \A s \in Slot \ {pp} : Waits(wr, pp, s) <=> Waits(wr, Advance(pp), s)
    BY <1>2, <1>3 DEF Waits
  <2>2. Waits(wr, pp, pp) /\ ~Waits(wr, Advance(pp), pp)
    BY EmergencyAssumption DEF Waits, Slot, Dist, Advance
  <2> QED
    BY <2>1, <2>2
<1>5. ~Waits(wr, Advance(pp), pp) /\ \A s \in Slot : Dist(pp, pp) <= Dist(pp, s)
  BY EmergencyAssumption DEF Waits, Slot, Dist, Advance
<1>6. \A s, t \in Slot : Waits(wr, Advance(pp), s) /\ Waits(wr, Advance(pp), t) =>
        (Dist(Advance(pp), t) <= Dist(Advance(pp), s) <=> Dist(pp, t) <= Dist(pp, s))
  BY <1>2, <1>3, <1>5
<1>7. \A s \in Slot : Waits(wr, Advance(pp), s) =>
        (Newest(f, wr, Advance(pp), e, s) <=> Newest(f, wr, pp, e, s))
  BY <1>4, <1>5, <1>6 DEF Newest
<1>8. CASE \E s \in Slot : Waits(wr, Advance(pp), s) /\ f[s].error = e
  <2>1. PICK s \in Slot : Waits(wr, Advance(pp), s) /\ f[s].error = e
    BY <1>8
  <2>2. s # pp /\ ~(Dist(pp, s) <= Dist(pp, pp))
    BY <1>2, <1>5, <2>1, EmergencyAssumption DEF Slot, Dist
  <2>3. ~Newest(f, wr, pp, e, pp)
    BY <1>4, <2>1, <2>2 DEF Newest
  <2>4. \A t \in Slot : Newest(f, wr, pp, e, t) => Waits(wr, Advance(pp), t)
    BY <1>4, <2>3 DEF Newest
  <2>5. \A t \in Slot : Newest(f, wr, Advance(pp), e, t) => Waits(wr, Advance(pp), t)
    BY DEF Newest
  <2> QED
    BY <1>4, <1>7, <2>1, <2>4, <2>5 DEF Tell
<1>9. CASE \A s \in Slot : Waits(wr, Advance(pp), s) => f[s].error # e
  <2>1. \A s \in Slot : ~Newest(f, wr, Advance(pp), e, s)
    BY <1>9 DEF Newest
  <2>2. Tell(f, wr, Advance(pp), Said(S, f[pp]), e) <=> e \in Said(S, f[pp])
    BY <1>9, <2>1 DEF Tell
  <2>3. CASE f[pp].error # e
    <3>1. \A s \in Slot : Waits(wr, pp, s) => f[s].error # e
      BY <1>4, <1>9, <2>3
    <3>2. Tell(f, wr, pp, S, e) <=> e \in S
      BY <3>1 DEF Tell, Newest
    <3> QED
      BY <2>2, <2>3, <3>2 DEF Said
  <2>4. CASE f[pp].error = e
    <3>1. \A s \in Slot : Waits(wr, pp, s) /\ f[s].error = e => s = pp
      BY <1>4, <1>9
    <3>2. Newest(f, wr, pp, e, pp)
      BY <1>2, <1>4, <2>4, <3>1 DEF Newest
    <3>3. Tell(f, wr, pp, S, e) <=> f[pp].on
      BY <1>4, <2>4, <3>1, <3>2 DEF Tell, Newest
    <3> QED
      BY <2>2, <2>4, <3>3 DEF Said
  <2> QED
    BY <2>3, <2>4
<1> QED
  BY <1>8, <1>9

(* One message more leaves the history a sequence, with that message in    *)
(* front of as many of the others as it has room for.                      *)
LEMMA LoggedIsSeq ==
  ASSUME NEW log \in Seq(Message), Len(log) < FifoSize, NEW msg \in Message
  PROVE  /\ Logged(log, msg) \in Seq(Message)
         /\ Len(Logged(log, msg)) = IF Len(log) < FifoSize - 1 THEN Len(log) + 1 ELSE Len(log)
         /\ \A i \in 1 .. Len(Logged(log, msg)) :
              Logged(log, msg)[i] = IF i = 1 THEN msg ELSE log[i - 1]
<1> DEFINE n == IF Len(log) < FifoSize - 1 THEN Len(log) + 1 ELSE Len(log)
<1>1. Len(log) \in Nat /\ n \in Nat /\ n - 1 <= Len(log)
  BY EmergencyAssumption, LenProperties
<1>2. \A i \in 1 .. n : i # 1 => i - 1 \in 1 .. Len(log)
  BY <1>1
<1>3. \A i \in 1 .. n : (IF i = 1 THEN msg ELSE log[i - 1]) \in Message
  BY <1>2, ElementOfSeq
<1>4. Logged(log, msg) \in [1 .. n -> Message]
  BY <1>3 DEF Logged
<1>5. Logged(log, msg) \in Seq(Message) /\ Len(Logged(log, msg)) = n
  BY <1>1, <1>4, SeqDef, LenProperties
<1> QED
  BY <1>5 DEF Logged

(* Object 0x1003 of a ring: it lists the log.                              *)
Lists(m) ==
  /\ m.fifoCount = Len(m.log)
  /\ \A s \in 1 .. m.fifoCount : OD_read_1003(m, s) = m.log[s]

(* The messages tell the errors, and the message of the full ring has      *)
(* always found room.                                                      *)
Tells(m, S) ==
  /\ \A e \in Error \ m.missed : WillSay(m, S, e) <=> e \in m.errorStatusBits
  /\ FullError \notin m.missed

Room(m) == Advance(m.fifoWrPtr) # m.fifoPpPtr

(* CO_error keeps the record in its type, ...                              *)
LEMMA ErrorStaysEmcy ==
  ASSUME NEW m \in Emcy, NEW on \in BOOLEAN, NEW e \in Error, Lists(m)
  PROVE  CO_error(m, on, e) \in Emcy
<1> DEFINE msg == [error |-> e, on |-> on]
<1>1. msg \in Message
  BY DEF Message
<1>2. Len(m.log) < FifoSize /\ m.log \in Seq(Message)
  BY EmergencyAssumption DEF Emcy, Lists
<1>3. Logged(m.log, msg) \in Seq(Message)
  BY <1>1, <1>2, LoggedIsSeq
<1>4. Toggle(m, e) \in SUBSET Error
  BY DEF Toggle, Emcy
<1>5. (IF m.fifoCount < FifoSize - 1 THEN m.fifoCount + 1 ELSE m.fifoCount) \in 0 .. FifoSize - 1
  BY EmergencyAssumption DEF Emcy
<1>6. None \in Message
  BY DEF None, Message, Error
<1>7. [m.fifo EXCEPT ![m.fifoWrPtr] = msg, ![Advance(m.fifoWrPtr)] = None] \in [Slot -> Message]
  BY <1>1, <1>6, AdvanceStays DEF Emcy
<1>8. Advance(m.fifoWrPtr) \in Slot
  BY AdvanceStays DEF Emcy
<1>9. CASE (e \in m.errorStatusBits) = on
  BY <1>9 DEF CO_error
<1>10. CASE (e \in m.errorStatusBits) # on /\ ~Room(m)
  <2>1. CO_error(m, on, e) = [m EXCEPT !.errorStatusBits = Toggle(m, e),
                                       !.fifoOverflow = 1, !.missed = m.missed \cup {e}]
    BY <1>10 DEF CO_error, Room, Emcy
  <2>2. m.missed \cup {e} \in SUBSET Error /\ 1 \in 0 .. 2
    BY DEF Emcy
  <2> QED
    BY <1>4, <2>1, <2>2 DEF Emcy
<1>11. CASE (e \in m.errorStatusBits) # on /\ Room(m)
  <2> DEFINE k == IF m.fifoCount < FifoSize - 1 THEN m.fifoCount + 1 ELSE m.fifoCount
             g == [m.fifo EXCEPT ![m.fifoWrPtr] = msg, ![Advance(m.fifoWrPtr)] = None]
             l == Logged(m.log, msg)
  <2>1. CO_error(m, on, e) =
          [m EXCEPT !.errorStatusBits = Toggle(m, e), !.fifo = g,
                    !.fifoWrPtr = Advance(m.fifoWrPtr), !.fifoCount = k, !.log = l,
                    !.missed = m.missed \ {e}]
    BY <1>11 DEF CO_error, Room, Emcy
  <2>2. g \in [Slot -> Message] /\ k \in 0 .. FifoSize - 1 /\ l \in Seq(Message)
    BY <1>3, <1>5, <1>7
  <2> HIDE DEF g, k, l
  <2> QED
    BY <1>4, <1>8, <2>1, <2>2 DEF Emcy
<1> QED
  BY <1>9, <1>10, <1>11

(* ... the history true, ...                                               *)
LEMMA ErrorIsListed ==
  ASSUME NEW m \in Emcy, NEW on \in BOOLEAN, NEW e \in Error, Lists(m)
  PROVE  Lists(CO_error(m, on, e))
<1> DEFINE msg == [error |-> e, on |-> on]
           n == CO_error(m, on, e)
           g == [m.fifo EXCEPT ![m.fifoWrPtr] = msg, ![Advance(m.fifoWrPtr)] = None]
<1>1. CASE (e \in m.errorStatusBits) = on
  BY <1>1 DEF CO_error
<1>2. CASE (e \in m.errorStatusBits) # on /\ ~Room(m)
  <2>1. /\ n.fifo = m.fifo /\ n.fifoWrPtr = m.fifoWrPtr
        /\ n.log = m.log /\ n.fifoCount = m.fifoCount
    BY <1>2 DEF CO_error, Room, Emcy
  <2> QED
    BY <2>1 DEF Lists, OD_read_1003
<1>3. CASE (e \in m.errorStatusBits) # on /\ Room(m)
  <2>1. /\ n.fifo = g /\ n.fifoWrPtr = Advance(m.fifoWrPtr)
        /\ n.log = Logged(m.log, msg)
        /\ n.fifoCount = IF m.fifoCount < FifoSize - 1 THEN m.fifoCount + 1 ELSE m.fifoCount
    BY <1>3 DEF CO_error, Room, Emcy
  <2>2. msg \in Message /\ Len(m.log) < FifoSize /\ m.log \in Seq(Message)
    BY EmergencyAssumption DEF Emcy, Lists, Message
  <2>3. n.fifoCount = Len(n.log) /\ Len(n.log) \in Nat
    BY <2>1, <2>2, LoggedIsSeq DEF Lists, Emcy
  <2>4. /\ m.fifo \in [Slot -> Message] /\ m.fifoWrPtr \in Slot
        /\ m.fifoCount \in 0 .. FifoSize - 1
    BY DEF Emcy
  <2>5. OD_read_1003(n, 1) = msg
    BY <2>1, <2>4, AdvanceStays, EmergencyAssumption DEF OD_read_1003, Slot, Advance
  <2>6. ASSUME NEW s \in 1 .. n.fifoCount, s # 1
        PROVE  OD_read_1003(n, s) = OD_read_1003(m, s - 1) /\ s - 1 \in 1 .. m.fifoCount
    <3> DEFINE w == m.fifoWrPtr
               i == IF w - (s - 1) < 0 THEN w - (s - 1) + FifoSize ELSE w - (s - 1)
    <3>1. w \in Nat /\ w < FifoSize /\ FifoSize \in Nat /\ FifoSize >= 2
      BY <2>4, EmergencyAssumption DEF Slot
    <3>2. s \in Nat /\ s >= 2 /\ s <= FifoSize - 1 /\ s - 1 \in 1 .. m.fifoCount
      BY <2>1, <2>4, <2>6, <3>1
    <3>3. (IF Advance(w) - s < 0 THEN Advance(w) - s + FifoSize ELSE Advance(w) - s) = i
      BY <3>1, <3>2 DEF Advance
    <3>4. i \in Slot /\ i # w /\ i # Advance(w)
      BY <3>1, <3>2 DEF Advance, Slot
    <3>5. OD_read_1003(n, s) = g[i]
      BY <2>1, <3>3 DEF OD_read_1003
    <3>6. g[i] = m.fifo[i]
      BY <2>4, <3>4, AdvanceStays
    <3>7. OD_read_1003(m, s - 1) = m.fifo[i]
      BY DEF OD_read_1003
    <3> QED
      BY <3>2, <3>5, <3>6, <3>7
  <2>7. \A s \in 1 .. n.fifoCount : n.log[s] = IF s = 1 THEN msg ELSE m.log[s - 1]
    BY <2>1, <2>2, <2>3, LoggedIsSeq
  <2> HIDE DEF n, msg, g
  <2>8. \A s \in 1 .. n.fifoCount : OD_read_1003(n, s) = n.log[s]
    BY <2>5, <2>6, <2>7 DEF Lists
  <2> QED
    BY <2>3, <2>8 DEF Lists, n
<1> QED
  BY <1>1, <1>2, <1>3

(* ... and the messages true: an error whose message finds no room is      *)
(* counted as missed, and the full ring's own never is when there is room. *)
LEMMA ErrorIsTold ==
  ASSUME NEW m \in Emcy, NEW on \in BOOLEAN, NEW e \in Error, NEW S, Tells(m, S),
         e = FullError => Room(m)
  PROVE  Tells(CO_error(m, on, e), S)
<1> DEFINE msg == [error |-> e, on |-> on]
           n == CO_error(m, on, e)
           g == [m.fifo EXCEPT ![m.fifoWrPtr] = msg, ![Advance(m.fifoWrPtr)] = None]
<1>1. CASE (e \in m.errorStatusBits) = on
  BY <1>1 DEF CO_error
<1>2. CASE (e \in m.errorStatusBits) # on /\ ~Room(m)
  <2>1. /\ n.fifo = m.fifo /\ n.fifoWrPtr = m.fifoWrPtr /\ n.fifoPpPtr = m.fifoPpPtr
        /\ n.missed = m.missed \cup {e} /\ n.errorStatusBits = Toggle(m, e)
    BY <1>2 DEF CO_error, Room, Emcy
  <2>2. \A d : WillSay(n, S, d) <=> WillSay(m, S, d)
    BY <2>1 DEF WillSay, Pending, Distance
  <2>3. \A d \in Error \ n.missed : d # e /\ (d \in n.errorStatusBits <=> d \in m.errorStatusBits)
    BY <2>1 DEF Toggle
  <2> HIDE DEF n
  <2> QED
    BY <1>2, <2>1, <2>2, <2>3 DEF Tells, n
<1>3. CASE (e \in m.errorStatusBits) # on /\ Room(m)
  <2>1. /\ n.fifo = g /\ n.fifoWrPtr = Advance(m.fifoWrPtr) /\ n.fifoPpPtr = m.fifoPpPtr
        /\ n.missed = m.missed \ {e} /\ n.errorStatusBits = Toggle(m, e)
    BY <1>3 DEF CO_error, Room, Emcy
  <2>2. /\ m.fifo \in [Slot -> Message] /\ m.fifoWrPtr \in Slot /\ m.fifoPpPtr \in Slot
        /\ msg \in Message
    BY DEF Emcy, Message
  <2>3. \A d : WillSay(n, S, d) <=> Tell(g, Advance(m.fifoWrPtr), m.fifoPpPtr, S, d)
    BY <2>1 DEF WillSay, Tell, Newest, Waits, Dist, Distance, Pending
  <2>4. \A d : WillSay(n, S, d) <=> IF d = e THEN on ELSE WillSay(m, S, d)
    BY <1>3, <2>2, <2>3, PutTells, SaysTell DEF Room
  <2>5. e \in n.errorStatusBits <=> on
    BY <1>3, <2>1 DEF Toggle
  <2>6. \A d \in Error \ {e} : d \in n.errorStatusBits <=> d \in m.errorStatusBits
    BY <2>1 DEF Toggle
  <2> HIDE DEF n
  <2> QED
    BY <2>1, <2>4, <2>5, <2>6 DEF Tells, n
<1> QED
  BY <1>1, <1>2, <1>3

(* A slot is freed once its message has been sent: nothing untrue is said, *)
(* and there is room for one message more.                                 *)
LEMMA FreedIsTold ==
  ASSUME NEW m \in Emcy, HasPending(m), NEW S \in SUBSET Error, Tells(m, S), Lists(m)
  PROVE  LET n == [m EXCEPT !.fifoPpPtr = Advance(@)]
             T == Said(S, m.fifo[m.fifoPpPtr])
         IN n \in Emcy /\ T \in SUBSET Error /\ Tells(n, T) /\ Lists(n) /\ Room(n)
<1> DEFINE n == [m EXCEPT !.fifoPpPtr = Advance(@)]
           T == Said(S, m.fifo[m.fifoPpPtr])
<1>1. /\ m.fifo \in [Slot -> Message] /\ m.fifoWrPtr \in Slot /\ m.fifoPpPtr \in Slot
      /\ m.fifoWrPtr # m.fifoPpPtr
  BY DEF Emcy, HasPending
<1>2. n \in Emcy
  BY <1>1, AdvanceStays DEF Emcy
<1>3. T \in SUBSET Error
  BY <1>1 DEF Said, Message
<1>4. /\ n.fifo = m.fifo /\ n.fifoWrPtr = m.fifoWrPtr /\ n.fifoPpPtr = Advance(m.fifoPpPtr)
      /\ n.missed = m.missed /\ n.errorStatusBits = m.errorStatusBits
      /\ n.fifoCount = m.fifoCount /\ n.log = m.log
  BY DEF Emcy
<1>5. \A e : WillSay(n, T, e) <=> WillSay(m, S, e)
  <2>1. \A e : WillSay(n, T, e)
                 <=> Tell(m.fifo, m.fifoWrPtr, Advance(m.fifoPpPtr), T, e)
    BY <1>2, <1>4, SaysTell
  <2> QED
    BY <1>1, <2>1, SaysTell, TakeTells
<1>6. Tells(n, T) /\ Lists(n) /\ Room(n)
  BY <1>1, <1>4, <1>5, AdvanceStays DEF Tells, Lists, OD_read_1003, Room
<1> QED
  BY <1>2, <1>3, <1>6

(* CO_EM_process behind the transmission keeps all of it.                  *)
LEMMA AfterSendIsTold ==
  ASSUME NEW m \in Emcy, HasPending(m), NEW S \in SUBSET Error, Tells(m, S), Lists(m)
  PROVE  LET T == Said(S, m.fifo[m.fifoPpPtr])
         IN /\ AfterSend(m) \in Emcy /\ T \in SUBSET Error
            /\ Tells(AfterSend(m), T) /\ Lists(AfterSend(m))
<1> DEFINE n == [m EXCEPT !.fifoPpPtr = Advance(@)]
           T == Said(S, m.fifo[m.fifoPpPtr])
           With(k) == [n EXCEPT !.fifoOverflow = k]
<1>1. n \in Emcy /\ T \in SUBSET Error /\ Tells(n, T) /\ Lists(n) /\ Room(n)
  BY FreedIsTold
<1> HIDE DEF n, T
<1>2. FullError \in Error
  BY DEF Error
<1>3. \A k \in {0, 2} : /\ With(k) \in Emcy /\ Tells(With(k), T)
                        /\ Lists(With(k)) /\ Room(With(k))
  <2> SUFFICES ASSUME NEW k \in {0, 2}
               PROVE  /\ With(k) \in Emcy /\ Tells(With(k), T)
                      /\ Lists(With(k)) /\ Room(With(k))
    OBVIOUS
  <2>1. k \in 0 .. 2
    OBVIOUS
  <2>2. With(k) \in Emcy
    BY <1>1, <2>1 DEF Emcy
  <2>3. /\ With(k).fifo = n.fifo /\ With(k).fifoWrPtr = n.fifoWrPtr
        /\ With(k).fifoPpPtr = n.fifoPpPtr /\ With(k).missed = n.missed
        /\ With(k).errorStatusBits = n.errorStatusBits
        /\ With(k).fifoCount = n.fifoCount /\ With(k).log = n.log
    BY <1>1 DEF Emcy
  <2> HIDE DEF With
  <2>4. \A e : WillSay(With(k), T, e) <=> WillSay(n, T, e)
    BY <2>3 DEF WillSay, Pending, Distance
  <2> QED
    BY <1>1, <2>2, <2>3, <2>4 DEF Tells, Lists, OD_read_1003, Room
<1>4. \A k \in {0, 2}, on \in BOOLEAN :
        /\ CO_error(With(k), on, FullError) \in Emcy
        /\ Tells(CO_error(With(k), on, FullError), T)
        /\ Lists(CO_error(With(k), on, FullError))
  <2> HIDE DEF With
  <2> QED
    BY <1>1, <1>2, <1>3, ErrorStaysEmcy, ErrorIsListed, ErrorIsTold
<1>5. \/ AfterSend(m) = n
      \/ \E k \in {0, 2}, on \in BOOLEAN : AfterSend(m) = CO_error(With(k), on, FullError)
  <2>1. AfterSend(m) = CASE n.fifoOverflow = 1 -> CO_error(With(2), TRUE, FullError)
                         [] n.fifoOverflow = 2 /\ ~HasPending(n) ->
                              CO_error(With(0), FALSE, FullError)
                         [] OTHER -> n
    BY DEF AfterSend, n
  <2> HIDE DEF With
  <2>2. CASE n.fifoOverflow = 1
    BY <2>1, <2>2
  <2>3. CASE n.fifoOverflow = 2 /\ ~HasPending(n)
    BY <2>1, <2>3
  <2>4. CASE ~(n.fifoOverflow = 1) /\ ~(n.fifoOverflow = 2 /\ ~HasPending(n))
    BY <2>1, <2>4
  <2> QED
    BY <2>2, <2>3, <2>4
<1>6. /\ AfterSend(m) \in Emcy /\ T \in SUBSET Error
      /\ Tells(AfterSend(m), T) /\ Lists(AfterSend(m))
  <2> HIDE DEF With
  <2> QED
    BY <1>1, <1>4, <1>5
<1> QED
  BY <1>6 DEF T

-----------------------------------------------------------------------------
(* What the emergencies keep; it is inductive as it stands.                *)
EmergencyInv == TypeOK /\ Tells(em, told) /\ Lists(em)

(* It is the invariant that the run checks.                                *)
LEMMA EmergencyInvIsTold == EmergencyInv <=> ErrorsAreTold
BY DEF EmergencyInv, ErrorsAreTold, MessagesTellErrors, FullIsNeverMissed, HistoryIsLog,
       Tells, Lists

(* It holds after CO_EM_init.                                              *)
LEMMA EmergencyInvInit == Init => EmergencyInv
<1> SUFFICES ASSUME Init PROVE EmergencyInv
  OBVIOUS
<1>1. FifoSize \in Nat /\ FifoSize >= 2 /\ 0 \in Slot /\ None \in Message
  BY EmergencyAssumption DEF Slot, None, Message, Error
<1>2. << >> \in Seq(Message) /\ Len(<< >>) = 0
  BY EmptySeq
<1>3. TypeOK
  <2>1. 0 \in 0 .. FifoSize - 1 /\ 0 \in 0 .. 2 /\ [s \in Slot |-> None] \in [Slot -> Message]
    BY <1>1
  <2>2. em \in Emcy
    BY <1>1, <1>2, <2>1 DEF Init, Emcy
  <2> QED
    BY <2>2 DEF Init, TypeOK
<1>4. Tells(em, told)
  <2>1. Pending(em) = {}
    BY <1>1, EmergencyAssumption DEF Init, Pending, Distance, Slot
  <2> QED
    BY <2>1 DEF Tells, WillSay, Init
<1>5. Lists(em)
  BY <1>2 DEF Lists, Init
<1> QED
  BY <1>3, <1>4, <1>5 DEF EmergencyInv

(* Every step of the emergencies keeps it.                                 *)
LEMMA EmergencyInvKept == EmergencyInv /\ [Next]_vars => EmergencyInv'
<1> SUFFICES ASSUME EmergencyInv, [Next]_vars PROVE EmergencyInv'
  OBVIOUS
<1> USE DEF EmergencyInv
<1>1. CASE UNCHANGED vars
  BY <1>1 DEF vars, TypeOK, Tells, Lists, OD_read_1003, WillSay, Pending, Distance
<1>2. ASSUME NEW on \in BOOLEAN, NEW e \in Error, em' = CO_error(em, on, e),
             e # FullError, UNCHANGED told
      PROVE  em' \in Emcy /\ Tells(em, told)' /\ Lists(em)'
  BY <1>2, ErrorStaysEmcy, ErrorIsListed, ErrorIsTold DEF TypeOK
<1>3. CASE Begin
  <2> DEFINE n == [em EXCEPT !.CANerrorStatusOld = CANerrorStatus]
  <2>1. n \in Emcy
    BY DEF TypeOK, Emcy
  <2>2. /\ n.fifo = em.fifo /\ n.fifoWrPtr = em.fifoWrPtr
        /\ n.fifoPpPtr = em.fifoPpPtr /\ n.missed = em.missed
        /\ n.errorStatusBits = em.errorStatusBits
        /\ n.fifoCount = em.fifoCount /\ n.log = em.log
    BY DEF TypeOK, Emcy
  <2>3. em' = n /\ told' = told
    BY <1>3 DEF Begin
  <2> HIDE DEF n
  <2>4. \A e : WillSay(n, told, e) <=> WillSay(em, told, e)
    BY <2>2 DEF WillSay, Pending, Distance
  <2>5. Tells(n, told) /\ Lists(n)
    BY <2>2, <2>4 DEF Tells, Lists, OD_read_1003
  <2>6. changed' \subseteq DriverError
    BY <1>3 DEF Begin, TypeOK, Emcy
  <2> QED
    BY <1>3, <2>1, <2>3, <2>5, <2>6 DEF Begin, TypeOK
<1>4. CASE VerifyDriver
  <2>1. PICK i \in DOMAIN DriverOrder :
          em' = CO_error(em, DriverOrder[i] \in em.CANerrorStatusOld, DriverOrder[i])
    BY <1>4 DEF VerifyDriver
  <2>2. DriverOrder[i] \in Error /\ DriverOrder[i] # FullError
    BY EmergencyAssumption DEF DriverError, Error, Range
  <2>3. (DriverOrder[i] \in em.CANerrorStatusOld) \in BOOLEAN /\ UNCHANGED told
    BY <1>4 DEF VerifyDriver
  <2>4. em' \in Emcy /\ Tells(em, told)' /\ Lists(em)'
    BY <1>2, <2>1, <2>2, <2>3
  <2> QED
    BY <1>4, <2>4 DEF VerifyDriver, TypeOK
<1>5. CASE Send
  <2>1. CASE operational /\ HasPending(em) /\ ~bufferFull
    <3>1. em' = AfterSend(em) /\ told' = Said(told, em.fifo[em.fifoPpPtr])
      BY <1>5, <2>1 DEF Send
    <3>2. em' \in Emcy /\ told' \in SUBSET Error /\ Tells(em, told)' /\ Lists(em)'
      BY <2>1, <3>1, AfterSendIsTold DEF TypeOK
    <3> QED
      BY <1>5, <2>1, <3>2 DEF Send, TypeOK
  <2>2. CASE ~(operational /\ HasPending(em) /\ ~bufferFull)
    <3>1. em' = em /\ told' = told
      BY <1>5, <2>2 DEF Send
    <3> QED
      BY <1>5, <2>2, <3>1 DEF Send, TypeOK
  <2> QED
    BY <2>1, <2>2
<1>6. CASE \E e \in Reported : Report(e) \/ Reset(e)
  <2>1. PICK e \in Reported : Report(e) \/ Reset(e)
    BY <1>6
  <2>2. e \in Error /\ e # FullError
    BY EmergencyAssumption DEF Error
  <2>3. em' \in Emcy /\ Tells(em, told)' /\ Lists(em)'
    BY <1>2, <2>1, <2>2 DEF Report, Reset
  <2> QED
    BY <2>1, <2>3 DEF Report, Reset, TypeOK
<1>7. CASE ClearHistory
  <2> DEFINE n == [em EXCEPT !.fifoCount = 0, !.log = <<>>]
  <2>1. << >> \in Seq(Message) /\ Len(<< >>) = 0 /\ 0 \in 0 .. FifoSize - 1
    BY EmptySeq, EmergencyAssumption
  <2>2. n \in Emcy
    BY <2>1 DEF TypeOK, Emcy
  <2>3. /\ n.fifo = em.fifo /\ n.fifoWrPtr = em.fifoWrPtr
        /\ n.fifoPpPtr = em.fifoPpPtr /\ n.missed = em.missed
        /\ n.errorStatusBits = em.errorStatusBits
        /\ n.fifoCount = 0 /\ n.log = << >>
    BY DEF TypeOK, Emcy
  <2>4. em' = n /\ told' = told
    BY <1>7 DEF ClearHistory
  <2> HIDE DEF n
  <2>5. \A e : WillSay(n, told, e) <=> WillSay(em, told, e)
    BY <2>3 DEF WillSay, Pending, Distance
  <2>6. Tells(n, told) /\ Lists(n)
    BY <2>1, <2>3, <2>5 DEF Tells, Lists
  <2> QED
    BY <1>7, <2>2, <2>4, <2>6 DEF ClearHistory, TypeOK
<1>8. CASE DriverChange \/ Transmitted \/ NMTChange
  <2>1. em' = em /\ told' = told
    BY <1>8 DEF DriverChange, Transmitted, NMTChange
  <2> QED
    BY <1>8, <2>1 DEF DriverChange, Transmitted, NMTChange, TypeOK
<1> QED
  BY <1>1, <1>3, <1>4, <1>5, <1>6, <1>7, <1>8 DEF Next, CO_EM_process

(* However the driver's errors come and go, the ring overflows and 0x1003  *)
(* is cleared: the messages tell the errors up to the last one dropped,    *)
(* the full ring is never passed over, and the history is the log.         *)
THEOREM ErrorsAreToldAlways == DeviceSpec => []ErrorsAreTold
<1>1. DeviceInit => EmergencyInv
  BY EmergencyInvInit DEF DeviceInit
<1>2. EmergencyInv /\ [DeviceNext]_deviceVars => EmergencyInv'
  BY EmergencyInvKept DEF DeviceNext, deviceVars
<1> QED
  BY <1>1, <1>2, EmergencyInvIsTold, PTL DEF DeviceSpec

-----------------------------------------------------------------------------
(* The heartbeat consumer.  Entry is its index set, Pass are the places    *)
(* within an entry where its task may be.                                  *)
Entry == Heartbeats!Index
Pass == {"message", "clear", "timeout"}

HbNode == [id : Remote \cup {Heartbeats!None}, time : HbTimes \cup {0},
           nmt : Heartbeats!States \cup {"unknown"}, new : BOOLEAN,
           hb : {"UNCONFIGURED", "UNKNOWN", "ACTIVE", "TIMEOUT"}, timer : Nat]
HbAt == [entry : 0 .. Entries, stage : Pass \cup {"idle", "filter"}, diff : {0, 1},
         active : BOOLEAN]

(* The types; the task is at an entry unless it is idle.                   *)
HbFits ==
  /\ node \in [Entry -> HbNode]
  /\ filter \in [Entry -> Remote \cup {Heartbeats!None}]
  /\ heard \in [Entry -> BOOLEAN]
  /\ allActive \in BOOLEAN /\ wasOn \in BOOLEAN
  /\ errors \subseteq {"consumer", "reset"}
  /\ at \in HbAt
  /\ at.stage # "idle" => at.entry \in Entry

(* An entry in use has a consumer time, and while it is active its timer   *)
(* has not reached it.                                                     *)
TimerRuns(n) ==
  /\ \E t \in HbTimes : n.timer <= t
  /\ n.hb # "UNCONFIGURED" => n.time \in HbTimes /\ n.time > 0
  /\ n.hb = "ACTIVE" => n.timer < n.time

(* A pass is made only while the NMT state allows it, otherwise nothing is *)
(* supervised; and as long as it has found all entries active, those it    *)
(* has left behind are.                                                    *)
Quiet(n) == n.hb \in {"ACTIVE", "UNCONFIGURED"}
PassIsSound ==
  /\ at.stage \in Pass => wasOn
  /\ at.stage \in Pass /\ at.active => \A i \in Entry : i < at.entry => Quiet(node[i])
  /\ ~wasOn => \A i \in Entry : node[i].hb \in {"UNKNOWN", "UNCONFIGURED"}

(* A message that waits was heard.  It waits with an unknown state of its  *)
(* node only when it came in the middle of a pass that timed the node out, *)
(* or when this pass is about to clear its flag.                           *)
WaitsForCause(i) ==
  /\ (node[i].hb = "ACTIVE" \/ node[i].new) => heard[i]
  /\ node[i].new /\ node[i].nmt = "unknown"
       => node[i].hb = "TIMEOUT"
            \/ (node[i].hb = "ACTIVE" /\ at.stage = "clear" /\ at.entry = i)

HbInv ==
  /\ HbFits /\ PassIsSound
  /\ \A i \in Entry : TimerRuns(node[i]) /\ WaitsForCause(i)
  /\ Heartbeats!TimeoutIsReported

(* What the constants and the literals of HbConsumer are.                  *)
LEMMA HbConstants ==
  /\ Entry = 1 .. Entries /\ 1 \in Entry /\ Entry \subseteq Nat /\ Entry \subseteq 0 .. Entries
  /\ \E t \in HbTimes : 0 <= t
  /\ Heartbeats!Idle \in HbAt /\ Heartbeats!Idle.stage = "idle"
  /\ Heartbeats!Unused \in HbNode
<1>1. /\ Entry = 1 .. Entries /\ 1 \in Entry /\ Entry \subseteq Nat /\ Entry \subseteq 0 .. Entries
      /\ 0 \in 0 .. Entries
  BY HeartbeatsAssumption DEF Entry, Heartbeats!Index
<1>2. \E t \in HbTimes : 0 <= t
  <2>1. PICK t : t \in HbTimes
    BY HeartbeatsAssumption
  <2>2. t \in Nat
    BY <2>1, HeartbeatsAssumption
  <2>3. 0 <= t
    BY <2>2
  <2> QED
    BY <2>1, <2>3
<1>3. Heartbeats!Idle \in HbAt /\ Heartbeats!Idle.stage = "idle"
  BY <1>1 DEF Heartbeats!Idle, HbAt, Pass
<1>4. Heartbeats!Unused \in HbNode
  BY DEF Heartbeats!Unused, HbNode
<1> QED
  BY <1>1, <1>2, <1>3, <1>4

(* What a step may write into an entry.                                    *)
LEMMA EntryTypes ==
  ASSUME NEW e \in HbNode, NEW s \in Heartbeats!States \cup {"unknown"}, NEW b \in BOOLEAN,
         NEW h \in {"UNCONFIGURED", "UNKNOWN", "ACTIVE", "TIMEOUT"}, NEW k \in Nat
  PROVE  [e EXCEPT !.nmt = s, !.new = b, !.hb = h, !.timer = k] \in HbNode
BY DEF HbNode

(* Nothing is supervised, and nothing heard, at the start.                 *)
LEMMA HbInvInit == Heartbeats!HbInit => HbInv
<1> SUFFICES ASSUME Heartbeats!HbInit PROVE HbInv
  OBVIOUS
<1>1. \E t \in HbTimes : 0 <= t
  BY HbConstants
<1>2. HbFits
  BY HbConstants DEF Heartbeats!HbInit, HbFits, Entry
<1>3. PassIsSound /\ Heartbeats!TimeoutIsReported
  BY DEF Heartbeats!HbInit, PassIsSound, Heartbeats!Unused, Heartbeats!Idle, Entry, Pass,
         Heartbeats!TimeoutIsReported
<1>4. \A i \in Entry : TimerRuns(node[i]) /\ WaitsForCause(i)
  BY <1>1 DEF Heartbeats!HbInit, TimerRuns, WaitsForCause, Heartbeats!Unused, Entry
<1> QED
  BY <1>2, <1>3, <1>4 DEF HbInv

(* What the invariant says of the entries, for one step of one of them.    *)
EntriesSound == \A i \in Entry : TimerRuns(node[i]) /\ WaitsForCause(i)

HbStep == /\ HbInv'
          /\ \A i \in Entry : node[i].hb # "ACTIVE" /\ node'[i].hb = "ACTIVE"
                                /\ node[i].nmt = "unknown" => node[i].hb = "TIMEOUT"

(* A heartbeat received.                                                   *)
LEMMA HbReceiveKeeps ==
  ASSUME HbInv, NEW n \in Remote, NEW s \in Heartbeats!States, Heartbeats!HbReceive(n, s)
  PROVE  HbStep
<1> USE DEF HbInv, Entry
<1>1. PICK i \in Entry : /\ node' = [node EXCEPT ![i].nmt = s, ![i].new = TRUE]
                         /\ heard' = [heard EXCEPT ![i] = TRUE]
                         /\ UNCHANGED <<filter, allActive, wasOn, errors, at>>
  BY DEF Heartbeats!HbReceive
<1>2. \A j \in Entry :
        node'[j] = IF j = i THEN [node[i] EXCEPT !.nmt = s, !.new = TRUE] ELSE node[j]
  BY <1>1 DEF HbFits
<1>3. \A j \in Entry :
        /\ node'[j] \in HbNode /\ node'[j].hb = node[j].hb
        /\ node'[j].time = node[j].time /\ node'[j].timer = node[j].timer
  <2>1. /\ node[i] \in HbNode /\ \A j \in Entry : node[j] \in HbNode
        /\ s \in Heartbeats!States \cup {"unknown"}
    BY DEF HbFits
  <2>2. \A e \in HbNode : LET f == [e EXCEPT !.nmt = s, !.new = TRUE]
                          IN f \in HbNode /\ f.hb = e.hb /\ f.time = e.time /\ f.timer = e.timer
    BY <2>1 DEF HbNode
  <2> QED
    BY <1>2, <2>1, <2>2
<1>4. s # "unknown"
  BY DEF Heartbeats!States
<1>5. HbFits'
  BY <1>1, <1>3 DEF HbFits
<1>6. PassIsSound' /\ Heartbeats!TimeoutIsReported'
  BY <1>1, <1>3 DEF PassIsSound, Quiet, Heartbeats!TimeoutIsReported
<1>7. \A j \in Entry : TimerRuns(node'[j])
  BY <1>3 DEF TimerRuns
<1>8. \A j \in Entry : WaitsForCause(j)'
  BY <1>1, <1>2, <1>4 DEF WaitsForCause, HbFits, HbNode
<1> QED
  BY <1>3, <1>5, <1>6, <1>7, <1>8 DEF HbStep

(* A write of 0x1016: both of its steps.                                   *)
LEMMA InitEntryKeeps ==
  ASSUME HbInv, NEW i \in Entry, NEW n \in Remote \cup {Heartbeats!None}, NEW t \in HbTimes,
         Heartbeats!InitEntry(i, n, t)
  PROVE  HbStep
<1> USE DEF HbInv, Entry
<1> DEFINE e == node'[i]
<1>1. /\ at.stage = "idle" /\ at' = [Heartbeats!Idle EXCEPT !.entry = i, !.stage = "filter"]
      /\ heard' = [heard EXCEPT ![i] = FALSE]
      /\ UNCHANGED <<filter, allActive, wasOn, errors>>
  BY DEF Heartbeats!InitEntry
<1>2. /\ node' = [node EXCEPT ![i] = e]
      /\ e \in HbNode /\ e.new = FALSE /\ e.timer = node[i].timer
      /\ e.hb \in {"UNKNOWN", "UNCONFIGURED"}
      /\ e.hb = "UNKNOWN" => e.time \in HbTimes /\ e.time > 0
  <2> DEFINE used == n # Heartbeats!None /\ t # 0
             f == [Heartbeats!Unused EXCEPT !.id = n, !.time = IF used THEN t ELSE 0,
                               !.hb = IF used THEN "UNKNOWN" ELSE "UNCONFIGURED",
                               !.timer = node[i].timer]
  <2>1. node' = [node EXCEPT ![i] = f] /\ e = f
    BY DEF Heartbeats!InitEntry, HbFits
  <2>2. node[i].timer \in Nat
    BY DEF HbFits, HbNode
  <2>3. (IF used THEN t ELSE 0) \in HbTimes \cup {0}
    OBVIOUS
  <2>4. f \in HbNode
    BY <2>2, <2>3 DEF HbNode, Heartbeats!Unused
  <2>5. f.new = FALSE /\ f.timer = node[i].timer /\ f.hb \in {"UNKNOWN", "UNCONFIGURED"}
    BY DEF Heartbeats!Unused
  <2>6. f.hb = "UNKNOWN" => f.time \in HbTimes /\ f.time > 0
    BY HeartbeatsAssumption DEF Heartbeats!Unused
  <2> HIDE DEF f
  <2> QED
    BY <2>1, <2>4, <2>5, <2>6
<1> HIDE DEF e
<1>3. \A j \in Entry : node'[j] = IF j = i THEN e ELSE node[j]
  BY <1>2 DEF HbFits
<1>4. HbFits'
  <2>1. at' \in HbAt /\ at'.entry \in Entry
    BY <1>1, HbConstants DEF HbAt
  <2> QED
    BY <1>1, <1>2, <2>1 DEF HbFits
<1>5. PassIsSound' /\ Heartbeats!TimeoutIsReported'
  BY <1>1, <1>2, <1>3 DEF PassIsSound, Heartbeats!TimeoutIsReported, Heartbeats!Idle, Pass
<1>6. \A j \in Entry : TimerRuns(node'[j])
  BY <1>2, <1>3 DEF TimerRuns
<1>7. \A j \in Entry : WaitsForCause(j)'
  BY <1>1, <1>2, <1>3 DEF WaitsForCause, HbFits
<1>8. \A j \in Entry : node'[j].hb = "ACTIVE" => node[j].hb = "ACTIVE"
  BY <1>2, <1>3
<1> QED
  BY <1>4, <1>5, <1>6, <1>7, <1>8 DEF HbStep

(* ... and the change of the receive buffer behind it.                     *)
LEMMA SubscribeKeeps ==
  ASSUME HbInv, Heartbeats!Subscribe
  PROVE  HbStep
<1> USE DEF HbInv, Entry
<1>1. /\ at.stage = "filter" /\ at' = Heartbeats!Idle
      /\ filter' \in [Entry -> Remote \cup {Heartbeats!None}]
      /\ UNCHANGED <<node, allActive, wasOn, errors, heard>>
  BY DEF Heartbeats!Subscribe, HbFits, HbNode
<1>2. HbFits'
  BY <1>1, HeartbeatsAssumption DEF HbFits, HbAt, Heartbeats!Idle, Pass
<1>3. PassIsSound' /\ Heartbeats!TimeoutIsReported'
  BY <1>1 DEF PassIsSound, Heartbeats!TimeoutIsReported, Heartbeats!Idle, Pass
<1>4. \A j \in Entry : TimerRuns(node'[j]) /\ WaitsForCause(j)'
  BY <1>1 DEF TimerRuns, WaitsForCause
<1> QED
  BY <1>1, <1>2, <1>3, <1>4 DEF HbStep

(* The start of CO_HBconsumer_process: a pass, or none in this state.      *)
LEMMA ProcessKeeps ==
  ASSUME HbInv, NEW on \in BOOLEAN, Heartbeats!CO_HBconsumer_process(on)
  PROVE  HbStep
<1> USE DEF HbInv, Entry
<1>a. wasOn \in BOOLEAN
  BY DEF HbFits
<1>1. CASE on /\ wasOn
  <2>1. /\ at' = [entry |-> 1, stage |-> "message", diff |-> 1, active |-> TRUE]
        /\ UNCHANGED <<node, filter, allActive, wasOn, errors, heard>>
        /\ at.stage = "idle"
    BY <1>1 DEF Heartbeats!CO_HBconsumer_process
  <2>2. HbFits'
    BY <2>1, HeartbeatsAssumption DEF HbFits, HbAt, Pass, Heartbeats!Index
  <2>3. PassIsSound' /\ Heartbeats!TimeoutIsReported'
    BY <1>1, <2>1, HeartbeatsAssumption
       DEF PassIsSound, Heartbeats!TimeoutIsReported, Pass, Heartbeats!Index
  <2>4. \A j \in Entry : TimerRuns(node'[j]) /\ WaitsForCause(j)'
    BY <2>1 DEF TimerRuns, WaitsForCause
  <2> QED
    BY <2>1, <2>2, <2>3, <2>4 DEF HbStep
<1>2. CASE on # wasOn
  <2>a. at.stage = "idle" /\ Heartbeats!Forget /\ Heartbeats!Finish(FALSE, on, errors)
        /\ UNCHANGED filter
    <3>1. CASE on = TRUE /\ wasOn = FALSE
      BY <3>1 DEF Heartbeats!CO_HBconsumer_process
    <3>2. CASE on = FALSE /\ wasOn = TRUE
      BY <3>2 DEF Heartbeats!CO_HBconsumer_process
    <3>3. (on = TRUE \/ on = FALSE) /\ (wasOn = TRUE \/ wasOn = FALSE)
      BY <1>a
    <3>4. (on = TRUE /\ wasOn = FALSE) \/ (on = FALSE /\ wasOn = TRUE)
      BY <1>2, <3>3, Zenon
    <3> QED
      BY <3>1, <3>2, <3>4
  <2>1. /\ at' = Heartbeats!Idle /\ allActive' = FALSE /\ wasOn' = on /\ errors' = errors
        /\ heard' = [i \in Entry |-> FALSE]
    BY <2>a DEF Heartbeats!Finish, Heartbeats!Forget
  <2>2. node' = [i \in Entry |->
                   [node[i] EXCEPT !.nmt = "unknown", !.new = FALSE,
                                   !.hb = IF @ = "UNCONFIGURED" THEN @ ELSE "UNKNOWN"]]
    BY <2>a DEF Heartbeats!Forget
  <2>3. \A i \in Entry :
          /\ node'[i] \in HbNode /\ node'[i].new = FALSE
          /\ node'[i].hb \in {"UNKNOWN", "UNCONFIGURED"}
          /\ node'[i].hb = "UNCONFIGURED" <=> node[i].hb = "UNCONFIGURED"
          /\ node'[i].time = node[i].time /\ node'[i].timer = node[i].timer
    <3> SUFFICES ASSUME NEW i \in Entry
                 PROVE  /\ node'[i] \in HbNode /\ node'[i].new = FALSE
                        /\ node'[i].hb \in {"UNKNOWN", "UNCONFIGURED"}
                        /\ node'[i].hb = "UNCONFIGURED" <=> node[i].hb = "UNCONFIGURED"
                        /\ node'[i].time = node[i].time /\ node'[i].timer = node[i].timer
      OBVIOUS
    <3>1. node[i] \in HbNode
      BY DEF HbFits
    <3>2. node'[i] = [node[i] EXCEPT !.nmt = "unknown", !.new = FALSE,
                         !.hb = IF node[i].hb = "UNCONFIGURED" THEN node[i].hb ELSE "UNKNOWN"]
      BY <2>2, <3>1 DEF HbNode
    <3> QED
      BY <3>1, <3>2 DEF HbNode
  <2>4. HbFits'
    BY <2>1, <2>2, <2>3, <2>a, HbConstants DEF HbFits
  <2>5. PassIsSound' /\ Heartbeats!TimeoutIsReported'
    BY <2>1, <2>3 DEF PassIsSound, Heartbeats!TimeoutIsReported, Heartbeats!Idle, Pass
  <2>6. \A j \in Entry : TimerRuns(node'[j]) /\ WaitsForCause(j)'
    BY <2>3 DEF TimerRuns, WaitsForCause
  <2> QED
    BY <2>3, <2>4, <2>5, <2>6 DEF HbStep
<1>3. CASE ~on /\ ~wasOn
  <2>a. at.stage = "idle" /\ Heartbeats!Finish(TRUE, on, errors)
        /\ UNCHANGED <<node, heard, filter>>
    BY <1>3, <1>a DEF Heartbeats!CO_HBconsumer_process
  <2>1. /\ at' = Heartbeats!Idle /\ allActive' = TRUE /\ wasOn' = FALSE
        /\ errors' \subseteq errors
    BY <1>3, <2>a DEF Heartbeats!Finish
  <2>2. HbFits'
    BY <2>1, <2>a, HbConstants DEF HbFits
  <2>3. PassIsSound' /\ Heartbeats!TimeoutIsReported'
    BY <1>3, <2>1, <2>a DEF PassIsSound, Heartbeats!TimeoutIsReported, Heartbeats!Idle, Pass
  <2>4. \A j \in Entry : TimerRuns(node'[j]) /\ WaitsForCause(j)'
    BY <2>1, <2>a DEF TimerRuns, WaitsForCause
  <2> QED
    BY <2>1, <2>a, <2>2, <2>3, <2>4 DEF HbStep
<1> QED
  BY <1>1, <1>2, <1>3, <1>a

(* Where a pass goes on after an entry: to the next one, or to its end,    *)
(* where the errors are cleared if every entry has been found active.      *)
LEMMA PassGoesOn ==
  ASSUME HbFits, PassIsSound, at.stage \in Pass,
         NEW active \in BOOLEAN, NEW errs \in SUBSET {"consumer", "reset"},
         Heartbeats!Next(active, errs),
         active => at.active /\ Quiet(node'[at.entry]),
         \A j \in Entry \ {at.entry} : node'[j].hb = node[j].hb,
         \A j \in Entry : node'[j].hb = "TIMEOUT" => "consumer" \in errs
  PROVE  /\ at' \in HbAt /\ at'.stage \in {"message", "idle"}
         /\ at'.stage # "idle" => at'.entry \in Entry
         /\ allActive' \in BOOLEAN /\ wasOn' = TRUE
         /\ errors' \subseteq {"consumer", "reset"}
         /\ PassIsSound' /\ Heartbeats!TimeoutIsReported'
<1>1. /\ at.entry \in Entry /\ at.entry \in Nat /\ Entry = 1 .. Entries /\ Entries \in Nat
      /\ wasOn = TRUE /\ at \in HbAt /\ allActive \in BOOLEAN
  BY HbConstants, HeartbeatsAssumption DEF HbFits, PassIsSound, Pass
<1>2. active => \A j \in Entry : j < at.entry + 1 => Quiet(node'[j])
  <2> SUFFICES ASSUME active, NEW j \in Entry, j < at.entry + 1
               PROVE  Quiet(node'[j])
    OBVIOUS
  <2>1. CASE j = at.entry
    BY <2>1
  <2>2. CASE j # at.entry
    <3>1. j < at.entry
      BY <1>1, <2>2
    <3>2. Quiet(node[j])
      BY <3>1 DEF PassIsSound
    <3> QED
      BY <2>2, <3>2 DEF Quiet
  <2> QED
    BY <2>1, <2>2
<1>3. CASE at.entry < Entries
  <2>1. /\ at' = [entry |-> at.entry + 1, stage |-> "message", diff |-> 1, active |-> active]
        /\ errors' = errs /\ allActive' = allActive /\ wasOn' = wasOn
    BY <1>3 DEF Heartbeats!Next
  <2>2. at.entry + 1 \in Entry /\ at.entry + 1 \in 0 .. Entries
    BY <1>1, <1>3
  <2>3. at' \in HbAt
    BY <2>1, <2>2 DEF HbAt, Pass
  <2>4. PassIsSound'
    BY <1>1, <1>2, <2>1 DEF PassIsSound, Pass
  <2>5. Heartbeats!TimeoutIsReported'
    BY <2>1 DEF Heartbeats!TimeoutIsReported, Entry
  <2> QED
    BY <1>1, <2>1, <2>2, <2>3, <2>4, <2>5
<1>4. CASE ~(at.entry < Entries)
  <2>1. /\ at' = Heartbeats!Idle /\ wasOn' = TRUE /\ allActive' = active
        /\ errors' = IF active /\ ~allActive THEN {} ELSE errs
    BY <1>4 DEF Heartbeats!Next, Heartbeats!Finish
  <2>2. active => \A j \in Entry : Quiet(node'[j])
    BY <1>1, <1>2, <1>4
  <2>3. \A j \in Entry : node'[j].hb = "TIMEOUT" => "consumer" \in errors'
    BY <2>1, <2>2 DEF Quiet
  <2>4. Heartbeats!TimeoutIsReported'
    BY <2>3 DEF Heartbeats!TimeoutIsReported, Entry
  <2>5. PassIsSound'
    BY <2>1, HbConstants DEF PassIsSound, Pass
  <2> QED
    BY <2>1, <2>4, <2>5, HbConstants
<1> QED
  BY <1>3, <1>4

(* An entry that is not configured is passed over.                         *)
LEMMA SkipKeeps ==
  ASSUME HbInv, Heartbeats!Skip
  PROVE  HbStep
<1> USE DEF HbInv
<1>1. /\ at.stage = "message" /\ node[at.entry].hb = "UNCONFIGURED"
      /\ Heartbeats!Next(at.active, errors) /\ UNCHANGED <<node, filter, heard>>
  BY DEF Heartbeats!Skip
<1>2. /\ at.stage \in Pass /\ at.active \in BOOLEAN
      /\ errors \in SUBSET {"consumer", "reset"}
      /\ Quiet(node'[at.entry])
      /\ \A j \in Entry : node'[j].hb = "TIMEOUT" => "consumer" \in errors
  BY <1>1 DEF Pass, HbFits, HbAt, Quiet, Heartbeats!TimeoutIsReported, Entry
<1>3. /\ at' \in HbAt /\ at'.stage \in {"message", "idle"}
      /\ at'.stage # "idle" => at'.entry \in Entry
      /\ allActive' \in BOOLEAN /\ wasOn' = TRUE
      /\ errors' \subseteq {"consumer", "reset"}
      /\ PassIsSound' /\ Heartbeats!TimeoutIsReported'
  BY <1>1, <1>2, PassGoesOn
<1>4. HbFits'
  BY <1>1, <1>3 DEF HbFits
<1>5. \A j \in Entry : TimerRuns(node'[j]) /\ WaitsForCause(j)'
  BY <1>1, <1>3 DEF TimerRuns, WaitsForCause
<1> QED
  BY <1>1, <1>3, <1>4, <1>5 DEF HbStep

(* A message that waits is judged, ...                                     *)
LEMMA MessageKeeps ==
  ASSUME HbInv, Heartbeats!Message
  PROVE  HbStep
<1> USE DEF HbInv
<1> DEFINE i == at.entry
<1>1. /\ at.stage = "message" /\ node[i].hb # "UNCONFIGURED"
      /\ UNCHANGED <<filter, allActive, wasOn, heard>>
      /\ i \in Entry /\ wasOn /\ at \in HbAt
  BY DEF Heartbeats!Message, HbFits, PassIsSound, Pass
<1>2. node[i] \in HbNode /\ \A j \in Entry : node[j] \in HbNode
  BY <1>1 DEF HbFits
<1>3. CASE node[i].new
  <2> DEFINE boot == node[i].nmt = "initializing"
             e == [node[i] EXCEPT !.hb = IF boot THEN "UNKNOWN" ELSE "ACTIVE",
                                  !.timer = IF boot THEN @ ELSE 0]
  <2>1. /\ errors' = IF boot /\ node[i].hb = "ACTIVE" THEN errors \cup {"reset"} ELSE errors
        /\ node' = [node EXCEPT ![i] = e]
        /\ at' = [at EXCEPT !.stage = "clear", !.diff = IF boot THEN @ ELSE 0]
    BY <1>2, <1>3 DEF Heartbeats!Message
  <2>2. /\ e \in HbNode /\ e.new = node[i].new /\ e.nmt = node[i].nmt /\ e.time = node[i].time
        /\ e.hb = IF boot THEN "UNKNOWN" ELSE "ACTIVE"
        /\ e.timer = IF boot THEN node[i].timer ELSE 0
    BY <1>2 DEF HbNode
  <2> HIDE DEF e
  <2>3. \A j \in Entry : node'[j] = IF j = i THEN e ELSE node[j]
    BY <1>1, <2>1 DEF HbFits
  <2>4. /\ at' \in HbAt /\ at'.stage = "clear" /\ at'.entry = i /\ at'.active = at.active
    BY <1>1, <2>1 DEF HbAt, Pass
  <2>5. HbFits'
    <3>1. node' \in [Entry -> HbNode]
      BY <2>1, <2>2 DEF HbFits
    <3> QED
      BY <1>1, <2>1, <2>4, <3>1 DEF HbFits
  <2>6. PassIsSound'
    BY <1>1, <2>3, <2>4, HbConstants DEF PassIsSound, Pass
  <2>7. Heartbeats!TimeoutIsReported'
    BY <2>1, <2>2, <2>3 DEF Heartbeats!TimeoutIsReported, Entry
  <2>8. TimerRuns(e)
    <3>1. TimerRuns(node[i])
      BY <1>1
    <3>2. node[i].time > 0 /\ \E t \in HbTimes : 0 <= t
      BY <1>1, <3>1, HbConstants DEF TimerRuns
    <3> QED
      BY <1>1, <2>2, <3>1, <3>2 DEF TimerRuns
  <2>9. \A j \in Entry : TimerRuns(node'[j])
    BY <2>3, <2>8
  <2>10. \A j \in Entry : WaitsForCause(j)'
    BY <1>1, <1>3, <2>2, <2>3, <2>4 DEF WaitsForCause
  <2>11. \A j \in Entry : node[j].hb # "ACTIVE" /\ node'[j].hb = "ACTIVE"
                            /\ node[j].nmt = "unknown" => node[j].hb = "TIMEOUT"
    BY <1>1, <1>3, <2>3 DEF WaitsForCause
  <2> QED
    BY <2>5, <2>6, <2>7, <2>9, <2>10, <2>11 DEF HbStep
<1>4. CASE ~node[i].new
  <2>1. at' = [at EXCEPT !.stage = "timeout"] /\ UNCHANGED <<node, errors>>
    BY <1>4 DEF Heartbeats!Message
  <2>2. /\ at' \in HbAt /\ at'.stage = "timeout" /\ at'.entry = i /\ at'.active = at.active
    BY <1>1, <2>1 DEF HbAt, Pass
  <2>3. HbFits'
    BY <1>1, <2>1, <2>2 DEF HbFits
  <2>4. PassIsSound' /\ Heartbeats!TimeoutIsReported'
    BY <1>1, <2>1, <2>2 DEF PassIsSound, Pass, Heartbeats!TimeoutIsReported
  <2>5. \A j \in Entry : TimerRuns(node'[j]) /\ WaitsForCause(j)'
    BY <1>1, <2>1, <2>2 DEF WaitsForCause
  <2> QED
    BY <2>1, <2>3, <2>4, <2>5 DEF HbStep
<1> QED
  BY <1>3, <1>4

(* ... its flag cleared, ...                                               *)
LEMMA ClearKeeps ==
  ASSUME HbInv, Heartbeats!Clear
  PROVE  HbStep
<1> USE DEF HbInv
<1> DEFINE i == at.entry
           e == [node[i] EXCEPT !.new = FALSE]
<1>1. /\ at.stage = "clear" /\ node' = [node EXCEPT ![i] = e]
      /\ at' = [at EXCEPT !.stage = "timeout"]
      /\ UNCHANGED <<filter, allActive, wasOn, errors, heard>>
      /\ i \in Entry /\ at \in HbAt
  BY DEF Heartbeats!Clear, HbFits
<1>2. /\ e \in HbNode /\ e.new = FALSE /\ e.nmt = node[i].nmt /\ e.time = node[i].time
      /\ e.hb = node[i].hb /\ e.timer = node[i].timer
  <2>1. node[i] \in HbNode
    BY <1>1 DEF HbFits
  <2> QED
    BY <2>1 DEF HbNode
<1> HIDE DEF e
<1>3. \A j \in Entry : node'[j] = IF j = i THEN e ELSE node[j]
  BY <1>1 DEF HbFits
<1>4. /\ at' \in HbAt /\ at'.stage = "timeout" /\ at'.entry = i /\ at'.active = at.active
  BY <1>1 DEF HbAt, Pass
<1>5. HbFits'
  <2>1. node' \in [Entry -> HbNode]
    BY <1>1, <1>2 DEF HbFits
  <2> QED
    BY <1>1, <1>4, <2>1 DEF HbFits
<1>6. PassIsSound' /\ Heartbeats!TimeoutIsReported'
  BY <1>1, <1>2, <1>3, <1>4
     DEF PassIsSound, Quiet, Pass, Heartbeats!TimeoutIsReported, Entry
<1>7. \A j \in Entry : TimerRuns(node'[j]) /\ WaitsForCause(j)'
  BY <1>1, <1>2, <1>3, <1>4 DEF TimerRuns, WaitsForCause
<1> QED
  BY <1>2, <1>3, <1>5, <1>6, <1>7 DEF HbStep

(* ... and the timer looked at.                                            *)
LEMMA TimeoutKeeps ==
  ASSUME HbInv, Heartbeats!Timeout
  PROVE  HbStep
<1> USE DEF HbInv
<1> DEFINE i == at.entry
<1>1. /\ at.stage = "timeout" /\ at.stage \in Pass /\ UNCHANGED <<filter, heard>>
      /\ i \in Entry /\ at \in HbAt /\ at.active \in BOOLEAN /\ at.diff \in {0, 1}
      /\ node[i] \in HbNode /\ errors \in SUBSET {"consumer", "reset"}
      /\ TimerRuns(node[i])
  BY DEF Heartbeats!Timeout, HbFits, Pass, HbAt
<1>2. /\ node[i].timer \in Nat /\ node[i].timer + at.diff \in Nat
      /\ node[i].hb = "ACTIVE" =>
           /\ node[i].time \in HbTimes /\ node[i].time \in Nat
           /\ node[i].timer + at.diff <= node[i].time
  <2>1. node[i].timer \in Nat
    BY <1>1 DEF HbNode
  <2>2. node[i].hb = "ACTIVE" => node[i].time \in HbTimes /\ node[i].timer < node[i].time
    BY <1>1 DEF TimerRuns
  <2>3. \A t \in HbTimes : t \in Nat
    BY HeartbeatsAssumption
  <2> QED
    BY <1>1, <2>1, <2>2, <2>3
<1>3. ASSUME NEW e \in HbNode, node' = [node EXCEPT ![i] = e],
             NEW active \in BOOLEAN, NEW errs \in SUBSET {"consumer", "reset"},
             Heartbeats!Next(active, errs),
             active => at.active /\ Quiet(e),
             errors \subseteq errs, e.hb = "TIMEOUT" => "consumer" \in errs,
             e.hb = "ACTIVE" => node[i].hb = "ACTIVE",
             e.new = node[i].new, e.nmt = "unknown" => e.hb = "TIMEOUT" \/ e.nmt = node[i].nmt,
             e.hb \in {"TIMEOUT", node[i].hb},
             TimerRuns(e)
      PROVE  HbStep
  <2>1. \A j \in Entry : node'[j] = IF j = i THEN e ELSE node[j]
    BY <1>1, <1>3 DEF HbFits
  <2>2. \A j \in Entry : node'[j].hb = "TIMEOUT" => "consumer" \in errs
    BY <1>3, <2>1 DEF Heartbeats!TimeoutIsReported, Entry
  <2>3. /\ at' \in HbAt /\ at'.stage \in {"message", "idle"}
        /\ at'.stage # "idle" => at'.entry \in Entry
        /\ allActive' \in BOOLEAN /\ wasOn' = TRUE
        /\ errors' \subseteq {"consumer", "reset"}
        /\ PassIsSound' /\ Heartbeats!TimeoutIsReported'
    BY <1>1, <1>3, <2>1, <2>2, PassGoesOn
  <2>4. HbFits'
    <3>1. node' \in [Entry -> HbNode]
      BY <1>3 DEF HbFits
    <3> QED
      BY <1>1, <2>3, <3>1 DEF HbFits
  <2>5. \A j \in Entry : TimerRuns(node'[j])
    BY <1>3, <2>1
  <2>6. \A j \in Entry : WaitsForCause(j)'
    BY <1>1, <1>3, <2>1, <2>3 DEF WaitsForCause
  <2>7. \A j \in Entry : node'[j].hb = "ACTIVE" => node[j].hb = "ACTIVE"
    BY <1>3, <2>1
  <2> QED
    BY <2>3, <2>4, <2>5, <2>6, <2>7 DEF HbStep
<1>4. CASE node[i].hb = "ACTIVE" /\ Heartbeats!Expired(node[i])
  <2> DEFINE e == [node[i] EXCEPT !.timer = @ + at.diff, !.nmt = "unknown", !.hb = "TIMEOUT"]
  <2>1. /\ node' = [node EXCEPT ![i] = e]
        /\ Heartbeats!Next(FALSE, errors \cup {"consumer"})
    BY <1>1, <1>4 DEF Heartbeats!Timeout
  <2>2. /\ e \in HbNode /\ e.new = node[i].new /\ e.time = node[i].time
        /\ e.hb = "TIMEOUT" /\ e.timer = node[i].timer + at.diff
    BY <1>1, <1>2 DEF HbNode
  <2> HIDE DEF e
  <2>3. TimerRuns(e)
    BY <1>1, <1>2, <1>4, <2>2 DEF TimerRuns
  <2>4. errors \cup {"consumer"} \in SUBSET {"consumer", "reset"}
    BY <1>1
  <2> QED
    BY <1>3, <2>1, <2>2, <2>3, <2>4
<1>5. CASE node[i].hb = "ACTIVE" /\ ~Heartbeats!Expired(node[i])
  <2> DEFINE e == [node[i] EXCEPT !.timer = @ + at.diff]
  <2>1. /\ node' = [node EXCEPT ![i] = e]
        /\ Heartbeats!Next(at.active, errors)
    BY <1>1, <1>5 DEF Heartbeats!Timeout
  <2>2. /\ e \in HbNode /\ e.new = node[i].new /\ e.nmt = node[i].nmt /\ e.time = node[i].time
        /\ e.hb = node[i].hb /\ e.timer = node[i].timer + at.diff
    BY <1>1, <1>2 DEF HbNode
  <2> HIDE DEF e
  <2>3. e.timer < e.time /\ Quiet(e)
    BY <1>2, <1>5, <2>2 DEF Heartbeats!Expired, Quiet
  <2>4. TimerRuns(e)
    BY <1>1, <1>2, <1>5, <2>2, <2>3 DEF TimerRuns
  <2> QED
    BY <1>1, <1>3, <1>5, <2>1, <2>2, <2>3, <2>4
<1>6. CASE node[i].hb # "ACTIVE"
  <2>1. node' = node /\ Heartbeats!Next(FALSE, errors)
    BY <1>6 DEF Heartbeats!Timeout
  <2>2. node' = [node EXCEPT ![i] = node[i]]
    BY <1>1, <2>1 DEF HbFits
  <2>3. node[i].hb = "TIMEOUT" => "consumer" \in errors
    BY <1>1 DEF Heartbeats!TimeoutIsReported, Entry
  <2> QED
    BY <1>1, <1>3, <2>1, <2>2, <2>3
<1> QED
  BY <1>4, <1>5, <1>6

(* Every step of the heartbeat consumer keeps its invariant.               *)
LEMMA HbInvKept ==
  HbInv /\ [Heartbeats!HbNext]_heartbeatVars =>
    HbInv' /\ [\A i \in Entry : node[i].hb # "ACTIVE" /\ node'[i].hb = "ACTIVE"
                 /\ node[i].nmt = "unknown" => node[i].hb = "TIMEOUT"]_heartbeatVars
<1> SUFFICES ASSUME HbInv, [Heartbeats!HbNext]_heartbeatVars
             PROVE  HbStep \/ (HbInv' /\ UNCHANGED heartbeatVars)
  BY DEF HbStep
<1>1. CASE UNCHANGED heartbeatVars
  BY <1>1 DEF heartbeatVars, HbInv, HbFits, PassIsSound, WaitsForCause,
              Heartbeats!TimeoutIsReported
<1>2. CASE Heartbeats!HbNext
  <2>1. CASE \E on \in BOOLEAN : Heartbeats!CO_HBconsumer_process(on)
    BY <2>1, ProcessKeeps
  <2>2. CASE Heartbeats!Skip \/ Heartbeats!Message \/ Heartbeats!Clear \/ Heartbeats!Timeout
    BY <2>2, SkipKeeps, MessageKeeps, ClearKeeps, TimeoutKeeps
  <2>3. CASE Heartbeats!Subscribe
    BY <2>3, SubscribeKeeps
  <2>4. CASE \E n \in Remote, s \in Heartbeats!States : Heartbeats!HbReceive(n, s)
    BY <2>4, HbReceiveKeeps
  <2>5. CASE \E i \in Heartbeats!Index, n \in Remote \cup {Heartbeats!None}, t \in HbTimes :
               Heartbeats!InitEntry(i, n, t)
    BY <2>5, InitEntryKeeps DEF Entry
  <2> QED
    BY <1>2, <2>1, <2>2, <2>3, <2>4, <2>5 DEF Heartbeats!HbNext, Heartbeats!HbTask
<1> QED
  BY <1>1, <1>2

(* Wherever messages come between the steps of a pass or of a write of     *)
(* 0x1016: a node that has timed out is reported, one taken for active has *)
(* been heard, and one becomes active with an unknown state only by the    *)
(* race at the clearing of its flag.                                       *)
THEOREM HeartbeatsAreJudgedAlways == DeviceSpec => HeartbeatsAreJudged
<1>1. DeviceInit => HbInv
  BY HbInvInit DEF DeviceInit
<1>2. HbInv /\ [DeviceNext]_deviceVars =>
        HbInv' /\ [\A i \in Entry : node[i].hb # "ACTIVE" /\ node'[i].hb = "ACTIVE"
                     /\ node[i].nmt = "unknown" => node[i].hb = "TIMEOUT"]_heartbeatVars
  BY HbInvKept DEF DeviceNext, deviceVars, heartbeatVars
<1>3. HbInv => /\ Heartbeats!HbTypeOK /\ Heartbeats!TimeoutIsReported
               /\ Heartbeats!ActiveWasHeard
  <2> SUFFICES ASSUME HbInv
               PROVE  Heartbeats!HbTypeOK /\ Heartbeats!ActiveWasHeard
    BY DEF HbInv
  <2>1. ASSUME NEW i \in Heartbeats!Index
        PROVE  \E t \in HbTimes : node[i].timer \in 0 .. t
    <3>1. PICK t \in HbTimes : node[i].timer <= t
      BY DEF HbInv, TimerRuns, Entry
    <3>2. t \in Nat /\ node[i].timer \in Nat
      BY HeartbeatsAssumption DEF HbInv, HbFits, HbNode, Entry
    <3> QED
      BY <3>1, <3>2
  <2>2. Heartbeats!HbTypeOK
    BY <2>1 DEF HbInv, HbFits, HbNode, Entry, Heartbeats!HbTypeOK
  <2>3. Heartbeats!ActiveWasHeard
    BY DEF HbInv, WaitsForCause, Entry, Heartbeats!ActiveWasHeard
  <2> QED
    BY <2>2, <2>3
<1>4. [\A i \in Entry : node[i].hb # "ACTIVE" /\ node'[i].hb = "ACTIVE"
         /\ node[i].nmt = "unknown" => node[i].hb = "TIMEOUT"]_heartbeatVars
        => [\A i \in Heartbeats!Index :
              node[i].hb # "ACTIVE" /\ node'[i].hb = "ACTIVE" /\ node[i].nmt = "unknown"
                => node[i].hb = "TIMEOUT"]_(Heartbeats!hbVars)
  BY DEF heartbeatVars, Heartbeats!hbVars, Entry
<1> QED
  BY <1>1, <1>2, <1>3, <1>4, PTL
     DEF DeviceSpec, HeartbeatsAreJudged, Heartbeats!UnknownOnlyByRace

-----------------------------------------------------------------------------
(* Start and restart.  Until a bus-off comes nobody clears the bit, and    *)
(* the default task, once it has set it, is never more than one period     *)
(* late with the watchdog.                                                 *)
RestartInv ==
  /\ Restarts!TypeOK /\ Restarts!ForgottenOnlyAtStart
  /\ default = "starting" => ~asked
  /\ ~busOff => clears = 0 /\ ~asked /\ (default # "starting" => bit)
  /\ ~busOff /\ can # "trapped" => dog = IF default = "due" THEN 1 ELSE 0

(* It holds after a reset, ...                                             *)
LEMMA RestartInvInit == Restarts!Init => RestartInv
<1>1. 0 \in 0 .. TIMER_QUEUE /\ 0 \in 0 .. WATCHDOG
  BY RestartAssumption
<1> QED
  BY <1>1 DEF Restarts!Init, RestartInv, Restarts!TypeOK, Restarts!ForgottenOnlyAtStart

(* ... every step keeps it, and the watchdog bites only with a cause.      *)
LEMMA RestartInvKept ==
  RestartInv /\ [Restarts!Next]_restartVars =>
    RestartInv' /\ [Restarts!Bite => busOff \/ can = "trapped"]_restartVars
<1> SUFFICES ASSUME RestartInv, [Restarts!Next]_restartVars
             PROVE  RestartInv' /\ [Restarts!Bite => busOff \/ can = "trapped"]_restartVars
  OBVIOUS
<1> USE RestartAssumption
        DEF RestartInv, Restarts!TypeOK, Restarts!ForgottenOnlyAtStart, Restarts!Runs
<1>1. Restarts!Bite => busOff \/ can = "trapped"
  BY DEF Restarts!Bite, Restarts!Prompt
<1>2. CASE UNCHANGED restartVars
  BY <1>2 DEF restartVars
<1>3. CASE Restarts!SetBit
  BY <1>1, <1>3 DEF Restarts!SetBit
<1>4. CASE Restarts!WaitReturns
  BY <1>1, <1>4 DEF Restarts!WaitReturns
<1>5. CASE Restarts!Reload
  BY <1>1, <1>5 DEF Restarts!Reload
<1>6. CASE Restarts!StartStack
  BY <1>1, <1>6 DEF Restarts!StartStack
<1>7. CASE Restarts!BusOff
  BY <1>1, <1>7 DEF Restarts!BusOff
<1>8. CASE Restarts!Daemon
  <2>1. clears - 1 \in 0 .. TIMER_QUEUE /\ busOff
    BY <1>8 DEF Restarts!Daemon
  <2> QED
    BY <1>1, <1>8, <2>1 DEF Restarts!Daemon
<1>9. CASE Restarts!WritePeriod
  BY <1>1, <1>9 DEF Restarts!WritePeriod
<1>10. CASE Restarts!Tick
  BY <1>1, <1>10 DEF Restarts!Tick, Restarts!Prompt
<1>11. CASE Restarts!SystemReset \/ Restarts!Bite
  <2>1. Restarts!Booted /\ 0 \in 0 .. TIMER_QUEUE /\ 0 \in 0 .. WATCHDOG
    BY <1>11 DEF Restarts!SystemReset, Restarts!Bite
  <2> QED
    BY <1>1, <2>1 DEF Restarts!Booted
<1> QED
  BY <1>2, <1>3, <1>4, <1>5, <1>6, <1>7, <1>8, <1>9, <1>10, <1>11 DEF Restarts!Next

(* In no order of the tasks, the timer daemon and the bus-off interrupt is *)
(* a healthy node reset by the watchdog, or a bus-off forgotten once the   *)
(* default task has set its bit.                                           *)
THEOREM RestartsForCauseAlways == DeviceSpec => RestartsForCause
<1>1. DeviceInit => RestartInv
  BY RestartInvInit DEF DeviceInit
<1>2. RestartInv /\ [DeviceNext]_deviceVars =>
        RestartInv' /\ [Restarts!Bite => busOff \/ can = "trapped"]_restartVars
  BY RestartInvKept DEF DeviceNext, deviceVars
<1>3. RestartInv => Restarts!TypeOK /\ Restarts!ForgottenOnlyAtStart
  BY DEF RestartInv
<1>4. [Restarts!Bite => busOff \/ can = "trapped"]_restartVars
        => [Restarts!Bite => busOff \/ can = "trapped"]_(Restarts!vars)
  BY DEF restartVars, Restarts!vars
<1> QED
  BY <1>1, <1>2, <1>3, <1>4, PTL DEF DeviceSpec, RestartsForCause, Restarts!BiteHasCause

-----------------------------------------------------------------------------
(* The lamps.  An RPDO write of 0x2001 under way is the one difference     *)
(* between the object and the lamps that have not blinked since.           *)
LampInv ==
  /\ Lamps!TypeOK
  /\ \A v, w \in writing : v = w
  /\ \A w \in writing :
       LED_ON \ blinked = Lamps!Assign(object, w[1], w[2]) \ blinked
  /\ Lamps!UnblinkedIsObject

(* It holds at the start, ...                                              *)
LEMMA LampInvInit == Lamps!Init => LampInv
BY LampsAssumption DEF Lamps!Init, LampInv, Lamps!TypeOK, Lamps!UnblinkedIsObject

(* A write changes the lamps of one colour and nothing else.               *)
LEMMA AssignWrites ==
  ASSUME NEW c \in Colour, NEW leds \in SUBSET Led, NEW S \in SUBSET Lamps!Lamp
  PROVE  /\ Lamps!Assign(S, c, leds) \in SUBSET Lamps!Lamp
         /\ \A p \in Lamps!Lamp : p \in Lamps!Assign(S, c, leds)
              <=> IF p \in Lamps!Of(c) THEN p \in {c} \X leds ELSE p \in S
BY DEF Lamps!Assign, Lamps!Of, Lamps!Lamp

(* ... and every step keeps it; what is shown is never a mixture.          *)
LEMMA LampInvKept ==
  LampInv /\ [Lamps!Next]_lampVars => LampInv'
<1> SUFFICES ASSUME LampInv, [Lamps!Next]_lampVars PROVE LampInv'
  OBVIOUS
<1> USE DEF LampInv
<1>1. CASE UNCHANGED lampVars
  BY <1>1 DEF lampVars, Lamps!TypeOK, Lamps!UnblinkedIsObject, Lamps!Assign, Lamps!Of
<1>2. ASSUME NEW c \in Colour, NEW leds \in SUBSET Led, Lamps!WriteLed(c, leds)
      PROVE  LampInv'
  <2>1. /\ writing = {} /\ LED_ON' = Lamps!Assign(LED_ON, c, leds)
        /\ object' = Lamps!Assign(object, c, leds) /\ blinked' = blinked \ Lamps!Of(c)
        /\ UNCHANGED <<LED_BLINK, writing, Lamps!settings, Lamps!timerVars>>
    BY <1>2 DEF Lamps!WriteLed
  <2>2. Lamps!TypeOK'
    BY <2>1, AssignWrites DEF Lamps!TypeOK, Lamps!settings, Lamps!timerVars
  <2>3. LED_ON' \ blinked' = object' \ blinked'
    BY <2>1, AssignWrites DEF Lamps!TypeOK, Lamps!UnblinkedIsObject
  <2> QED
    BY <2>1, <2>2, <2>3 DEF Lamps!UnblinkedIsObject
<1>3. ASSUME NEW c \in Colour, NEW leds \in SUBSET Led, Lamps!vSetLedOn(c, leds)
      PROVE  LampInv'
  <2>1. /\ writing = {} /\ LED_ON' = Lamps!Assign(LED_ON, c, leds)
        /\ writing' = {<<c, leds>>} /\ blinked' = blinked \ Lamps!Of(c)
        /\ UNCHANGED <<LED_BLINK, object, Lamps!settings, Lamps!timerVars>>
    BY <1>3 DEF Lamps!vSetLedOn
  <2>2. Lamps!TypeOK'
    BY <2>1, AssignWrites DEF Lamps!TypeOK, Lamps!settings, Lamps!timerVars
  <2>3. LED_ON' \ blinked' = Lamps!Assign(object', c, leds) \ blinked'
    BY <2>1, AssignWrites DEF Lamps!TypeOK, Lamps!UnblinkedIsObject
  <2>4. \A w \in writing' : w = <<c, leds>> /\ w[1] = c /\ w[2] = leds
    BY <2>1
  <2> QED
    BY <2>1, <2>2, <2>3, <2>4 DEF Lamps!UnblinkedIsObject
<1>4. CASE Lamps!WriteOriginal
  <2>1. PICK w \in writing :
          /\ object' = Lamps!Assign(object, w[1], w[2]) /\ writing' = {}
          /\ UNCHANGED <<LED_ON, LED_BLINK, Lamps!settings, Lamps!timerVars, blinked>>
    BY <1>4 DEF Lamps!WriteOriginal
  <2>2. w[1] \in Colour /\ w[2] \in SUBSET Led
    BY DEF Lamps!TypeOK
  <2>3. Lamps!TypeOK'
    BY <2>1, <2>2, AssignWrites DEF Lamps!TypeOK, Lamps!settings, Lamps!timerVars
  <2>4. LED_ON' \ blinked' = object' \ blinked'
    BY <2>1
  <2> QED
    BY <2>1, <2>3, <2>4 DEF Lamps!UnblinkedIsObject
<1>5. ASSUME NEW c \in Colour, NEW leds \in SUBSET Led, Lamps!OD_writeBlink(c, leds)
      PROVE  LampInv'
  <2>1. /\ LED_BLINK' = Lamps!Assign(LED_BLINK, c, leds)
        /\ UNCHANGED <<LED_ON, object, writing, Lamps!settings, Lamps!timerVars, blinked>>
    BY <1>5 DEF Lamps!OD_writeBlink
  <2>2. Lamps!TypeOK'
    BY <2>1, AssignWrites DEF Lamps!TypeOK, Lamps!settings, Lamps!timerVars
  <2> QED
    BY <2>1, <2>2 DEF Lamps!UnblinkedIsObject
<1>6. CASE Lamps!SetBrightness
  <2>1. Lamps!TypeOK'
    BY <1>6 DEF Lamps!SetBrightness, Lamps!TypeOK, Lamps!timerVars
  <2> QED
    BY <1>6, <2>1 DEF Lamps!SetBrightness, Lamps!UnblinkedIsObject
<1>7. ASSUME NEW sent \in BOOLEAN, Lamps!vLedProcess(sent)
      PROVE  LampInv'
  <2>1. /\ counter' = (counter + 1) % (MAX_BRIGTH_COUNTER + 1)
        /\ Lamps!Blink /\ blinked' = blinked \cup LED_BLINK
        /\ shown' = (IF sent THEN Lamps!Packet ELSE shown)
        /\ UNCHANGED <<LED_BLINK, object, writing, Lamps!settings>>
    BY <1>7 DEF Lamps!vLedProcess
  <2>2. /\ LED_ON' \subseteq Lamps!Lamp /\ BlinkON' \in BOOLEAN
        /\ LED_ON' \ blinked' = LED_ON \ blinked'
        /\ blinkCounter' \in 0 .. BLINK_PERIOD
    <3>1. (blinkCounter + 1) % (BLINK_PERIOD + 1) \in 0 .. BLINK_PERIOD
      BY LampsAssumption DEF Lamps!TypeOK
    <3> QED
      BY <2>1, <3>1 DEF Lamps!Blink, Lamps!TypeOK
  <2>3. counter' \in 0 .. MAX_BRIGTH_COUNTER
    BY <2>1, LampsAssumption DEF Lamps!TypeOK
  <2>4. shown' \subseteq Lamps!Lamp
    BY <2>1, <2>2, LampsAssumption DEF Lamps!Packet, Lamps!TypeOK, Lamps!Lamp
  <2>5. Lamps!TypeOK'
    BY <2>1, <2>2, <2>3, <2>4 DEF Lamps!TypeOK, Lamps!settings
  <2>6. \A S : LED_ON \ blinked = S \ blinked => LED_ON' \ blinked' = S \ blinked'
    BY <2>1, <2>2
  <2> QED
    BY <2>1, <2>5, <2>6 DEF Lamps!UnblinkedIsObject
<1> QED
  BY <1>1, <1>2, <1>3, <1>4, <1>5, <1>6, <1>7 DEF Lamps!Next, Lamps!Write

(* A latch shows of every key its own colours, the back light or nothing.  *)
LEMMA LatchIsPure ==
  ASSUME LampInv, [Lamps!Next]_lampVars, NEW led \in Led, shown' # shown
  PROVE  LET here == {c \in Colour : <<c, led>> \in shown'}
             own == {c \in Colour : <<c, led>> \in LED_ON'}
         IN here \in {{}, own} \/ (own = {} /\ here = brigth_color)
<1> DEFINE here == {c \in Colour : <<c, led>> \in shown'}
           own == {c \in Colour : <<c, led>> \in LED_ON'}
<1>1. PICK sent \in BOOLEAN : Lamps!vLedProcess(sent)
  BY DEF Lamps!Next, Lamps!Write, Lamps!WriteLed, Lamps!vSetLedOn, Lamps!WriteOriginal,
         Lamps!OD_writeBlink, Lamps!SetBrightness, Lamps!timerVars, lampVars
<1>2. shown' = Lamps!Packet
  BY <1>1 DEF Lamps!vLedProcess
<1>3. brigth_color \subseteq Colour
  BY LampsAssumption DEF LampInv, Lamps!TypeOK
<1>4. CASE own # {}
  <2>1. PICK c \in Colour : <<c, led>> \in LED_ON'
    BY <1>4
  <2>2. \A d \in Colour : <<d, led>> \in shown'
          <=> <<d, led>> \in LED_ON' /\ counter' <= led_brigth
    BY <1>2, <2>1 DEF Lamps!Packet
  <2>3. here = {} \/ here = own
    BY <2>2
  <2> QED
    BY <2>3
<1>5. CASE own = {}
  <2> DEFINE lit == counter' < backligth \div (IF \E c \in Colour : brigth_color = {c}
                                               THEN 1 ELSE 2)
  <2>1. \A d \in Colour : <<d, led>> \in shown' <=> d \in brigth_color /\ lit
    BY <1>2, <1>5 DEF Lamps!Packet
  <2> HIDE DEF lit
  <2>2. here = {} \/ here = brigth_color
    BY <1>3, <2>1
  <2> QED
    BY <1>5, <2>2
<1> QED
  BY <1>4, <1>5

(* Whoever writes the lamps in whatever order, and whenever the timer      *)
(* interrupt comes: a lamp that has not blinked since is driven as 0x2001  *)
(* says, and no key shows its own colour mixed with the back light.        *)
THEOREM LampsShowObjectAlways == DeviceSpec => LampsShowObject
<1>1. DeviceInit => LampInv
  BY LampInvInit DEF DeviceInit
<1>2. [DeviceNext]_deviceVars => [Lamps!Next]_lampVars
  BY DEF DeviceNext, deviceVars, lampVars
<1>3. LampInv => Lamps!TypeOK /\ Lamps!UnblinkedIsObject
  BY DEF LampInv
<1>4. LampInv /\ [DeviceNext]_deviceVars =>
        [\A led \in Led : shown' # shown =>
           LET here == {c \in Colour : <<c, led>> \in shown'}
               own == {c \in Colour : <<c, led>> \in LED_ON'}
           IN here \in {{}, own} \/ (own = {} /\ here = brigth_color)]_(Lamps!vars)
  BY <1>2, LatchIsPure
<1> QED
  BY <1>1, <1>2, <1>3, <1>4, LampInvKept, PTL
     DEF DeviceSpec, LampsShowObject, Lamps!ColoursNotMixed
=============================================================================
