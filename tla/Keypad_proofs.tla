---------------------------- MODULE Keypad_proofs ----------------------------
(***************************************************************************)
(* Proofs about Keypad for every number of keys, queue size and set of     *)
(* register values: the abstract keyboard mirrors the keys; scanner, queue *)
(* and ProcessTask implement it; the TPDO leaves the bus stale in one      *)
(* window only; the composition implements its parts, and what the parts   *)
(* promise adds up to what the bus shows.                                  *)
(***************************************************************************)
EXTENDS Keypad, SequenceTheorems, TLAPS

(* The events the scanner makes, and what Apply keeps.                     *)
LEMMA MirrorEvents ==
  /\ \A k \in Key : Mirror!Make(k) \in Mirror!Event /\ Mirror!Brake(k) \in Mirror!Event
  /\ \A e \in Mirror!Event : e.KeyCode \in Key
  /\ \A S \in SUBSET Key, e \in Mirror!Event : Mirror!Apply(S, e) \in SUBSET Key
BY DEF Mirror!Make, Mirror!Brake, Mirror!Event, Mirror!Apply

(* The three variables keep their types.                                   *)
THEOREM MirrorTyping == Mirror!Spec => []Mirror!TypeOK
<1>1. Mirror!Init => Mirror!TypeOK
  BY DEF Mirror!Init, Mirror!TypeOK
<1>2. Mirror!TypeOK /\ [Mirror!Next]_Mirror!vars => Mirror!TypeOK'
  <2> SUFFICES ASSUME Mirror!TypeOK, [Mirror!Next]_Mirror!vars PROVE Mirror!TypeOK'
    OBVIOUS
  <2>1. ASSUME NEW k \in Key, Mirror!Press(k) \/ Mirror!Repeat(k) PROVE Mirror!TypeOK'
    <3>1. Append(Backlog, Mirror!Make(k)) \in Seq(Mirror!Event)
      BY MirrorEvents DEF Mirror!TypeOK
    <3>2. QED
      BY <2>1, <3>1 DEF Mirror!Press, Mirror!Repeat, Mirror!TypeOK
  <2>2. ASSUME NEW k \in Key, Mirror!Release(k) PROVE Mirror!TypeOK'
    <3>1. Append(Backlog, Mirror!Brake(k)) \in Seq(Mirror!Event)
      BY MirrorEvents DEF Mirror!TypeOK
    <3>2. QED
      BY <2>2, <3>1 DEF Mirror!Release, Mirror!TypeOK
  <2>3. CASE Mirror!Deliver
    <3>1. Head(Backlog) \in Mirror!Event /\ Tail(Backlog) \in Seq(Mirror!Event)
      BY <2>3 DEF Mirror!Deliver, Mirror!TypeOK
    <3>2. QED
      BY <2>3, <3>1, MirrorEvents DEF Mirror!Deliver, Mirror!TypeOK
  <2>4. CASE UNCHANGED Mirror!vars
    BY <2>4 DEF Mirror!vars, Mirror!TypeOK
  <2>5. QED
    BY <2>1, <2>2, <2>3, <2>4 DEF Mirror!Next
<1>3. QED
  BY <1>1, <1>2, PTL DEF Mirror!Spec

(* Appending an event keeps the mirror when the debounced state of its key *)
(* becomes what the event says.                                            *)
LEMMA AppendKeepsMirror ==
  ASSUME Mirror!TypeOK, Mirror!Mirror, NEW e \in Mirror!Event,
         Backlog' = Append(Backlog, e), keys' = keys,
         Pressed' = Mirror!Apply(Pressed, e)
  PROVE  Mirror!Mirror'
<1> DEFINE n == Len(Backlog)
<1>1. n \in Nat /\ DOMAIN Backlog = 1 .. n /\ DOMAIN Backlog' = 1 .. (n + 1)
  BY DEF Mirror!TypeOK
<1>2. /\ \A i \in 1 .. n : Backlog'[i] = Backlog[i]
      /\ Backlog'[n + 1] = e
  BY DEF Mirror!TypeOK
<1>3. \A k \in Key : k # e.KeyCode => (k \in Pressed' <=> k \in Pressed)
  BY DEF Mirror!Apply
<1>4. e.KeyCode \in Key
      /\ (e.Status = "MAKECODE" <=> e.KeyCode \in Pressed')
  BY DEF Mirror!Apply, Mirror!Event
<1>5. ASSUME NEW i \in DOMAIN Backlog', Mirror!IsLast(i)'
      PROVE  Backlog'[i].Status = "MAKECODE" <=> Backlog'[i].KeyCode \in Pressed'
  <2>1. CASE i = n + 1
    BY <2>1, <1>2, <1>4
  <2>2. CASE i \in 1 .. n
    <3>1. Backlog'[n + 1].KeyCode # Backlog'[i].KeyCode
      BY <1>1, <1>5, <2>2 DEF Mirror!IsLast
    <3>2. \A j \in 1 .. n : j > i => Backlog[j].KeyCode # Backlog[i].KeyCode
      BY <1>1, <1>2, <1>5, <2>2 DEF Mirror!IsLast
    <3>3. Backlog[i].Status = "MAKECODE" <=> Backlog[i].KeyCode \in Pressed
      BY <1>1, <2>2, <3>2 DEF Mirror!Mirror, Mirror!IsLast
    <3>4. Backlog[i] \in Mirror!Event
      BY <1>1, <2>2 DEF Mirror!TypeOK
    <3>5. QED
      BY <1>2, <1>3, <2>2, <3>1, <3>3, <3>4, MirrorEvents
  <2>3. QED
    BY <1>1, <1>5, <2>1, <2>2
<1>6. ASSUME NEW k \in Key, \A i \in DOMAIN Backlog' : Backlog'[i].KeyCode # k
      PROVE  k \in keys' <=> k \in Pressed'
  <2>1. k # e.KeyCode
    BY <1>1, <1>2, <1>6
  <2>2. \A i \in DOMAIN Backlog : Backlog[i].KeyCode # k
    BY <1>1, <1>2, <1>6
  <2>3. QED
    BY <1>3, <2>1, <2>2 DEF Mirror!Mirror
<1>7. QED
  BY <1>5, <1>6 DEF Mirror!Mirror

(* Delivering the oldest event keeps the mirror.                           *)
LEMMA DeliverKeepsMirror ==
  ASSUME Mirror!TypeOK, Mirror!Mirror, Mirror!Deliver
  PROVE  Mirror!Mirror'
<1> DEFINE n == Len(Backlog)
           e == Head(Backlog)
<1>1. n \in Nat \ {0} /\ DOMAIN Backlog = 1 .. n /\ DOMAIN Backlog' = 1 .. (n - 1)
  BY DEF Mirror!TypeOK, Mirror!Deliver
<1>2. /\ \A i \in 1 .. (n - 1) : Backlog'[i] = Backlog[i + 1]
      /\ e = Backlog[1] /\ e \in Mirror!Event
  BY DEF Mirror!TypeOK, Mirror!Deliver
<1>3. ASSUME NEW i \in DOMAIN Backlog', Mirror!IsLast(i)'
      PROVE  Backlog'[i].Status = "MAKECODE" <=> Backlog'[i].KeyCode \in Pressed'
  <2>1. i \in 1 .. (n - 1) /\ i + 1 \in 1 .. n
    BY <1>1, <1>3
  <2>2. ASSUME NEW j \in 1 .. n, j > i + 1
        PROVE  Backlog[j].KeyCode # Backlog[i + 1].KeyCode
    <3>1. j - 1 \in 1 .. (n - 1) /\ j - 1 > i /\ (j - 1) + 1 = j
      BY <1>1, <2>1, <2>2
    <3>2. Backlog'[j - 1].KeyCode # Backlog'[i].KeyCode
      BY <1>1, <1>3, <3>1 DEF Mirror!IsLast
    <3>3. QED
      BY <1>2, <2>1, <3>1, <3>2
  <2>3. Backlog[i + 1].Status = "MAKECODE" <=> Backlog[i + 1].KeyCode \in Pressed
    BY <1>1, <2>1, <2>2 DEF Mirror!Mirror, Mirror!IsLast
  <2>4. QED
    BY <1>2, <2>1, <2>3 DEF Mirror!Deliver
<1>4. ASSUME NEW k \in Key, \A i \in DOMAIN Backlog' : Backlog'[i].KeyCode # k
      PROVE  k \in keys' <=> k \in Pressed'
  <2>1. \A j \in 2 .. n : Backlog[j].KeyCode # k
    <3> SUFFICES ASSUME NEW j \in 2 .. n PROVE Backlog[j].KeyCode # k
      OBVIOUS
    <3>1. j - 1 \in 1 .. (n - 1) /\ (j - 1) + 1 = j
      BY <1>1
    <3>2. QED
      BY <1>1, <1>2, <1>4, <3>1
  <2>2. CASE e.KeyCode = k
    <3>1. Mirror!IsLast(1)
      BY <1>1, <1>2, <2>1, <2>2 DEF Mirror!IsLast
    <3>2. e.Status = "MAKECODE" <=> k \in Pressed
      BY <1>1, <1>2, <2>2, <3>1 DEF Mirror!Mirror
    <3>3. k \in keys' <=> e.Status = "MAKECODE"
      BY <1>2, <2>2 DEF Mirror!Deliver, Mirror!Apply
    <3>4. QED
      BY <3>2, <3>3 DEF Mirror!Deliver
  <2>3. CASE e.KeyCode # k
    <3>1. \A j \in DOMAIN Backlog : Backlog[j].KeyCode # k
      BY <1>1, <1>2, <2>1, <2>3
    <3>2. k \in keys <=> k \in Pressed
      BY <3>1 DEF Mirror!Mirror
    <3>3. k \in keys' <=> k \in keys
      BY <2>3 DEF Mirror!Deliver, Mirror!Apply
    <3>4. QED
      BY <3>2, <3>3 DEF Mirror!Deliver
  <2>4. QED
    BY <2>2, <2>3
<1>5. QED
  BY <1>3, <1>4 DEF Mirror!Mirror

(* 0x2000 and its backlog tell the debounced keyboard at every moment.     *)
THEOREM MirrorAlways == Mirror!Spec => []Mirror!Mirror
<1>1. Mirror!Init => Mirror!Mirror
  BY DEF Mirror!Init, Mirror!Mirror
<1>2. Mirror!TypeOK /\ Mirror!Mirror /\ [Mirror!Next]_Mirror!vars => Mirror!Mirror'
  <2> SUFFICES ASSUME Mirror!TypeOK, Mirror!Mirror, [Mirror!Next]_Mirror!vars PROVE Mirror!Mirror'
    OBVIOUS
  <2>1. ASSUME NEW k \in Key, Mirror!Press(k) \/ Mirror!Repeat(k) PROVE Mirror!Mirror'
    <3>1. Mirror!Make(k) \in Mirror!Event
      BY DEF Mirror!Make, Mirror!Event
    <3>2. Pressed' = Mirror!Apply(Pressed, Mirror!Make(k))
      BY <2>1 DEF Mirror!Press, Mirror!Repeat, Mirror!Apply, Mirror!Make
    <3>3. QED
      BY <2>1, <3>1, <3>2, AppendKeepsMirror DEF Mirror!Press, Mirror!Repeat
  <2>2. ASSUME NEW k \in Key, Mirror!Release(k) PROVE Mirror!Mirror'
    <3>1. Mirror!Brake(k) \in Mirror!Event
      BY DEF Mirror!Brake, Mirror!Event
    <3>2. Pressed' = Mirror!Apply(Pressed, Mirror!Brake(k))
      BY <2>2 DEF Mirror!Release, Mirror!Apply, Mirror!Brake
    <3>3. QED
      BY <2>2, <3>1, <3>2, AppendKeepsMirror DEF Mirror!Release
  <2>3. CASE Mirror!Deliver
    BY <2>3, DeliverKeepsMirror
  <2>4. CASE UNCHANGED Mirror!vars
    BY <2>4 DEF Mirror!vars, Mirror!Mirror, Mirror!IsLast
  <2>5. QED
    BY <2>1, <2>2, <2>3, <2>4 DEF Mirror!Next
<1>3. QED
  BY <1>1, <1>2, MirrorTyping, PTL DEF Mirror!Spec
-----------------------------------------------------------------------------
(* An event that is sent is in the queue or waits in front of it: the      *)
(* backlog grows by it at its end in both cases.                           *)
LEMMA QueueSendAppends ==
  ASSUME TypeOK, sending = <<>>, NEW e \in Mirror!Event, QueueSend(e)
  PROVE  /\ Backlog' = Append(Backlog, e)
         /\ queue' \in Seq(Mirror!Event) /\ Len(queue') <= QueueSize
         /\ sending' \in Seq(Mirror!Event) /\ Len(sending') <= 1
<1> DEFINE E == Mirror!Event
<1>1. queue \in Seq(E) /\ Len(queue) <= QueueSize /\ QueueSize \in Nat
  BY KeyboardAssumption DEF TypeOK
<1>2. Backlog = queue
  BY <1>1, ConcatEmptySeq DEF Backlog
<1>3. /\ Append(queue, e) \in Seq(E)
      /\ Len(Append(queue, e)) = Len(queue) + 1
      /\ Append(queue, e) = queue \o <<e>>
  BY <1>1, AppendProperties, AppendIsConcat
<1>4. CASE Len(queue) < QueueSize
  <2>1. queue' = Append(queue, e) /\ sending' = <<>>
    BY <1>4 DEF QueueSend
  <2>2. Backlog' = Append(queue, e)
    BY <1>3, <2>1, ConcatEmptySeq DEF Backlog
  <2>3. Len(queue) \in Nat
    BY <1>1
  <2>4. Len(queue') <= QueueSize
    BY <1>1, <1>3, <1>4, <2>1, <2>3
  <2>5. sending' \in Seq(E) /\ Len(sending') <= 1
    BY <2>1
  <2>6. QED
    BY <1>2, <1>3, <2>1, <2>2, <2>4, <2>5
<1>5. CASE ~(Len(queue) < QueueSize)
  <2>1. sending' = <<e>> /\ queue' = queue
    BY <1>5 DEF QueueSend
  <2>2. sending' \in Seq(E) /\ Len(sending') <= 1
    BY <2>1
  <2>3. QED
    BY <1>1, <1>2, <1>3, <2>1, <2>2 DEF Backlog
<1>6. QED
  BY <1>4, <1>5

(* What Set does to the debounced states.                                  *)
LEMMA SetTyping ==
  ASSUME TypeOK, NEW k \in Key, NEW s \in {"OFF", "ON", "ON_REPEAT"},
         NEW c \in 0 .. 255, Set(k, s, c)
  PROVE  /\ STATUS' \in [Key -> {"OFF", "ON", "ON_REPEAT"}]
         /\ COUNTERS' \in [Key -> 0 .. 255]
         /\ s = "OFF" => Pressed' = Pressed \ {k}
         /\ s # "OFF" => Pressed' = Pressed \cup {k}
BY DEF Set, TypeOK, Pressed

(* A sample that sends nothing leaves the abstract keyboard alone.         *)
LEMMA CountingStutters ==
  ASSUME TypeOK, NEW k \in Key, NotReached(k), Set(k, STATUS[k], COUNTERS[k] + 1)
  PROVE  /\ STATUS' \in [Key -> {"OFF", "ON", "ON_REPEAT"}]
         /\ COUNTERS' \in [Key -> 0 .. 255]
         /\ Pressed' = Pressed
<1>1. COUNTERS[k] \in 0 .. 255 /\ STATUS[k] \in {"OFF", "ON", "ON_REPEAT"}
  BY DEF TypeOK
<1>2. COUNTERS[k] + 1 \in 0 .. 255
  BY <1>1, KeyboardAssumption DEF NotReached
<1>3. k \in Pressed <=> STATUS[k] # "OFF"
  BY DEF Pressed
<1>4. /\ STATUS' \in [Key -> {"OFF", "ON", "ON_REPEAT"}]
      /\ COUNTERS' \in [Key -> 0 .. 255]
      /\ STATUS[k] = "OFF" => Pressed' = Pressed \ {k}
      /\ STATUS[k] # "OFF" => Pressed' = Pressed \cup {k}
  BY <1>1, <1>2, SetTyping
<1>5. Pressed' = Pressed
  BY <1>3, <1>4
<1>6. QED
  BY <1>4, <1>5

(* One turn of the scanner's loop over the keys keeps the types and is a   *)
(* step of the abstract keyboard, or none of its business.                 *)
LEMMA ScanKeyStep ==
  ASSUME TypeOK, NEW k \in Key, ScanKey(k)
  PROVE  TypeOK' /\ (Mirror!Press(k) \/ Mirror!Repeat(k) \/ Mirror!Release(k)
                     \/ UNCHANGED Mirror!vars)
<1>1. /\ sending = <<>> /\ pin' = pin /\ keys' = keys
      /\ scan' \in Key \cup {0}
  BY KeyboardAssumption DEF ScanKey, Key
<1>2. ASSUME SampleRelease(k)
      PROVE  TypeOK' /\ Mirror!Release(k)
  <2>1. Mirror!Brake(k) \in Mirror!Event
    BY MirrorEvents
  <2>2. /\ Backlog' = Append(Backlog, Mirror!Brake(k))
        /\ queue' \in Seq(Mirror!Event) /\ Len(queue') <= QueueSize
        /\ sending' \in Seq(Mirror!Event) /\ Len(sending') <= 1
    BY <1>1, <1>2, <2>1, QueueSendAppends DEF SampleRelease
  <2>3. /\ STATUS' \in [Key -> {"OFF", "ON", "ON_REPEAT"}]
        /\ COUNTERS' \in [Key -> 0 .. 255]
        /\ Pressed' = Pressed \ {k}
    <3>1. "OFF" \in {"OFF", "ON", "ON_REPEAT"} /\ 0 \in 0 .. 255
      OBVIOUS
    <3>2. Set(k, "OFF", 0)
      BY <1>2 DEF SampleRelease
    <3>3. QED
      BY <3>1, <3>2, SetTyping
  <2>4. k \in Pressed
    BY <1>2 DEF SampleRelease, Pressed
  <2>5. QED
    BY <1>1, <2>2, <2>3, <2>4 DEF TypeOK, Mirror!Release
<1>3. ASSUME NEW s \in {"ON", "ON_REPEAT"}, Set(k, s, 0), QueueSend(Mirror!Make(k))
      PROVE  TypeOK' /\ (Mirror!Press(k) \/ Mirror!Repeat(k))
  <2>1. Mirror!Make(k) \in Mirror!Event
    BY MirrorEvents
  <2>2. /\ Backlog' = Append(Backlog, Mirror!Make(k))
        /\ queue' \in Seq(Mirror!Event) /\ Len(queue') <= QueueSize
        /\ sending' \in Seq(Mirror!Event) /\ Len(sending') <= 1
    BY <1>1, <1>3, <2>1, QueueSendAppends
  <2>3. /\ STATUS' \in [Key -> {"OFF", "ON", "ON_REPEAT"}]
        /\ COUNTERS' \in [Key -> 0 .. 255]
        /\ Pressed' = Pressed \cup {k}
    <3>1. s \in {"OFF", "ON", "ON_REPEAT"} /\ s # "OFF" /\ 0 \in 0 .. 255
      OBVIOUS
    <3>2. Set(k, s, 0)
      BY <1>3
    <3>3. QED
      BY <3>1, <3>2, SetTyping
  <2>4. TypeOK'
    BY <1>1, <2>2, <2>3 DEF TypeOK
  <2>5. CASE k \in Pressed
    BY <1>1, <2>2, <2>3, <2>4, <2>5 DEF Mirror!Repeat
  <2>6. CASE k \notin Pressed
    BY <1>1, <2>2, <2>3, <2>4, <2>6 DEF Mirror!Press
  <2>7. QED
    BY <2>5, <2>6
<1>4. ASSUME NotReached(k), Set(k, STATUS[k], COUNTERS[k] + 1),
             UNCHANGED <<sending, queue>>
      PROVE  TypeOK' /\ UNCHANGED Mirror!vars
  <2>1. /\ STATUS' \in [Key -> {"OFF", "ON", "ON_REPEAT"}]
        /\ COUNTERS' \in [Key -> 0 .. 255]
        /\ Pressed' = Pressed
    BY <1>4, CountingStutters
  <2>2. Backlog' = Backlog
    BY <1>4 DEF Backlog
  <2>3. QED
    BY <1>1, <1>4, <2>1, <2>2 DEF TypeOK, Mirror!vars
<1>5. CASE SampleRelease(k)
  BY <1>2, <1>5
<1>6. CASE SamplePress(k)
  BY <1>3, <1>4, <1>6 DEF SamplePress
<1>7. CASE SampleHold(k)
  BY <1>3, <1>4, <1>7 DEF SampleHold
<1>8. CASE SampleIdle(k)
  BY <1>1, <1>8 DEF SampleIdle, TypeOK, Mirror!vars, Pressed, Backlog
<1>9. QED
  BY <1>5, <1>6, <1>7, <1>8 DEF ScanKey

(* When the blocked xQueueSend returns, the backlog is what it was.        *)
LEMMA UnblockStep ==
  ASSUME TypeOK, Unblock
  PROVE  TypeOK' /\ UNCHANGED Mirror!vars
<1> DEFINE E == Mirror!Event
<1>1. queue \in Seq(E) /\ sending \in Seq(E) /\ Len(sending) <= 1
      /\ QueueSize \in Nat
  BY KeyboardAssumption DEF TypeOK
<1>2. queue \o sending \in Seq(E) /\ Len(queue \o sending) = Len(queue) + Len(sending)
  BY <1>1, ConcatProperties
<1>3. Len(queue \o sending) <= QueueSize
  <2>1. Len(queue) \in Nat /\ Len(sending) \in Nat
    BY <1>1
  <2>2. Len(queue) < QueueSize
    BY DEF Unblock
  <2>3. QED
    BY <1>1, <1>2, <2>1, <2>2
<1>4. Backlog' = Backlog
  BY <1>2, ConcatEmptySeq DEF Unblock, Backlog
<1>5. Pressed' = Pressed
  BY DEF Unblock, Pressed
<1>6. TypeOK'
  BY <1>2, <1>3 DEF Unblock, TypeOK
<1>7. QED
  BY <1>4, <1>5, <1>6 DEF Unblock, Mirror!vars

(* Taking the first event of the queue takes the first of the backlog.     *)
LEMMA TailOfConcat ==
  ASSUME NEW E, NEW s \in Seq(E), NEW t \in Seq(E), s # <<>>
  PROVE  /\ s \o t # <<>>
         /\ Head(s \o t) = Head(s)
         /\ Tail(s \o t) = Tail(s) \o t
<1>1. s \o t \in Seq(E) /\ Len(s \o t) = Len(s) + Len(t)
      /\ \A i \in 1 .. Len(s) + Len(t) :
           (s \o t)[i] = IF i <= Len(s) THEN s[i] ELSE t[i - Len(s)]
  BY ConcatProperties
<1>2. Len(s) \in Nat \ {0} /\ Len(t) \in Nat
  BY EmptySeq, LenProperties
<1>3. s \o t # <<>>
  BY ConcatEqualIffEmpty
<1>4. /\ Tail(s) \in Seq(E) /\ Len(Tail(s)) = Len(s) - 1
      /\ \A i \in 1 .. Len(Tail(s)) : Tail(s)[i] = s[i + 1]
  BY HeadTailProperties
<1>5. /\ Tail(s \o t) \in Seq(E) /\ Len(Tail(s \o t)) = Len(s) + Len(t) - 1
      /\ \A i \in 1 .. Len(Tail(s \o t)) : Tail(s \o t)[i] = (s \o t)[i + 1]
  BY <1>1, <1>3, HeadTailProperties
<1>6. /\ Tail(s) \o t \in Seq(E) /\ Len(Tail(s) \o t) = Len(s) - 1 + Len(t)
      /\ \A i \in 1 .. Len(s) - 1 + Len(t) :
           (Tail(s) \o t)[i] = IF i <= Len(s) - 1 THEN Tail(s)[i]
                               ELSE t[i - (Len(s) - 1)]
  BY <1>4, ConcatProperties
<1>7. ASSUME NEW i \in 1 .. Len(s) + Len(t) - 1
      PROVE  Tail(s \o t)[i] = (Tail(s) \o t)[i]
  <2>1. i + 1 \in 1 .. Len(s) + Len(t) /\ i - (Len(s) - 1) = (i + 1) - Len(s)
    BY <1>2
  <2>2. Tail(s \o t)[i] = IF i + 1 <= Len(s) THEN s[i + 1] ELSE t[(i + 1) - Len(s)]
    BY <1>1, <1>5, <2>1
  <2>3. CASE i + 1 <= Len(s)
    BY <1>2, <1>4, <1>6, <2>2, <2>3
  <2>4. CASE ~(i + 1 <= Len(s))
    BY <1>2, <1>6, <2>1, <2>2, <2>4
  <2>5. QED
    BY <2>3, <2>4
<1>8. Tail(s \o t) = Tail(s) \o t
  <2>1. Len(Tail(s \o t)) = Len(Tail(s) \o t)
    BY <1>2, <1>5, <1>6
  <2>2. \A i \in 1 .. Len(Tail(s \o t)) : Tail(s \o t)[i] = (Tail(s) \o t)[i]
    BY <1>5, <1>7
  <2>3. QED
    BY <1>5, <1>6, <2>1, <2>2, SeqEqual
<1>9. Head(s \o t) = Head(s)
  <2>1. (s \o t)[1] = s[1]
    BY <1>1, <1>2
  <2>2. QED
    BY <2>1
<1>10. QED
  BY <1>3, <1>8, <1>9

(* A turn of vProcessTask delivers the oldest event of the backlog.        *)
LEMMA ProcessEventStep ==
  ASSUME TypeOK, ProcessEvent
  PROVE  TypeOK' /\ Mirror!Deliver
<1> DEFINE E == Mirror!Event
<1>1. queue \in Seq(E) /\ sending \in Seq(E) /\ queue # <<>>
  BY DEF TypeOK, ProcessEvent
<1>2. /\ Backlog # <<>>
      /\ Head(Backlog) = Head(queue)
      /\ Tail(Backlog) = Tail(queue) \o sending
  BY <1>1, TailOfConcat DEF Backlog
<1>3. /\ Head(queue) \in E
      /\ Tail(queue) \in Seq(E)
      /\ Len(Tail(queue)) = Len(queue) - 1
  BY <1>1, HeadTailProperties
<1>4. Len(queue) \in Nat /\ Len(queue) <= QueueSize /\ QueueSize \in Nat
  BY <1>1, KeyboardAssumption DEF TypeOK
<1>5. Len(queue') <= QueueSize
  BY <1>3, <1>4 DEF ProcessEvent
<1>6. keys' \in SUBSET Key
  BY <1>3, MirrorEvents DEF TypeOK, ProcessEvent
<1>7. TypeOK'
  BY <1>3, <1>5, <1>6 DEF TypeOK, ProcessEvent, taskVars
<1>8. Backlog' = Tail(Backlog)
  BY <1>2 DEF ProcessEvent, Backlog, taskVars
<1>9. Pressed' = Pressed
  BY DEF ProcessEvent, Pressed, taskVars
<1>10. keys' = Mirror!Apply(keys, Head(Backlog))
  BY <1>2 DEF ProcessEvent
<1>11. QED
  BY <1>2, <1>7, <1>8, <1>9, <1>10 DEF Mirror!Deliver

(* Every step keeps the types and is a step of the abstract keyboard or    *)
(* leaves it unchanged.                                                    *)
LEMMA StepSimulation ==
  ASSUME TypeOK, [Next]_vars
  PROVE  TypeOK' /\ [Mirror!Next]_Mirror!vars
<1>1. ASSUME NEW k \in Key, Touch(k)
      PROVE  TypeOK' /\ UNCHANGED Mirror!vars
  BY <1>1 DEF Touch, TypeOK, taskVars, Mirror!vars, Pressed, Backlog
<1>2. CASE WakeScanner
  <2>1. 1 \in Key
    BY KeyboardAssumption DEF Key
  <2>2. QED
    BY <1>2, <2>1 DEF WakeScanner, TypeOK, Mirror!vars, Pressed, Backlog
<1>3. ASSUME NEW k \in Key, ScanKey(k)
      PROVE  TypeOK' /\ [Mirror!Next]_Mirror!vars
  BY <1>3, ScanKeyStep DEF Mirror!Next
<1>4. CASE Unblock
  BY <1>4, UnblockStep
<1>5. CASE ProcessEvent
  BY <1>5, ProcessEventStep DEF Mirror!Next
<1>6. CASE UNCHANGED vars
  BY <1>6 DEF vars, taskVars, TypeOK, Mirror!vars, Pressed, Backlog
<1>7. QED
  BY <1>1, <1>2, <1>3, <1>4, <1>5, <1>6 DEF Next, Scanner

(* The initial states of the scanner are initial states of KeyMirror.      *)
LEMMA InitSimulation == Init => TypeOK /\ Mirror!Init
<1> SUFFICES ASSUME Init PROVE TypeOK /\ Mirror!Init
  OBVIOUS
<1>1. TypeOK
  BY KeyboardAssumption DEF Init, TypeOK
<1>2. Backlog = <<>>
  BY ConcatEmptySeq DEF Init, Backlog
<1>3. Pressed = {}
  BY DEF Init, Pressed
<1>4. QED
  BY <1>1, <1>2, <1>3 DEF Init, Mirror!Init

(* Every variable of the two tasks keeps its type; the queue never holds   *)
(* more events than it has slots and a sample counter never exceeds a byte.*)
THEOREM KeyboardTyping == Spec => []TypeOK
BY InitSimulation, StepSimulation, PTL DEF Spec

(* keyboard.c, the queue and vProcessTask implement the abstract keyboard: *)
(* no event is lost, duplicated or reordered, whatever the queue size.     *)
THEOREM KeyboardImplementsMirror == Spec => ImplementsMirror
<1>1. Spec => Mirror!Init /\ [][Mirror!Next]_Mirror!vars
  BY InitSimulation, StepSimulation, KeyboardTyping, PTL DEF Spec
<1>2. QED
  BY <1>1 DEF ImplementsMirror, Mirror!Spec

(* Object 0x2000 together with the events on their way to it always tells  *)
(* the debounced keyboard.                                                 *)
THEOREM KeysMirroredAlways == Spec => []KeysMirrored
BY KeyboardImplementsMirror, MirrorAlways, PTL DEF ImplementsMirror, KeysMirrored
-----------------------------------------------------------------------------
(* The invariant is inductive as the conjunction of its parts: a quiet     *)
(* TPDO owes its value to the frame it last sent.                          *)
TpdoInv == Tpdo!TypeOK /\ Tpdo!FreshFrame /\ Tpdo!StaleOnlyIfPreempted

(* The TPDO starts with nothing to send and the bus not stale.             *)
LEMMA TpdoInvInit == Tpdo!Init => TpdoInv
BY DEF Tpdo!Init, TpdoInv, Tpdo!TypeOK, Tpdo!FreshFrame, Tpdo!StaleOnlyIfPreempted, Tpdo!Quiet

(* Every step of the TPDO path keeps freshness and the one stale window.   *)
LEMMA TpdoInvKept == TpdoInv /\ [Tpdo!Next]_Tpdo!vars => TpdoInv'
<1> SUFFICES ASSUME TpdoInv, [Tpdo!Next]_Tpdo!vars PROVE TpdoInv'
  OBVIOUS
<1> USE DEF TpdoInv, Tpdo!TypeOK, Tpdo!FreshFrame, Tpdo!StaleOnlyIfPreempted, Tpdo!Quiet
<1>1. ASSUME NEW v \in SUBSET Key, Tpdo!KeyEvent(v) PROVE TpdoInv'
  BY <1>1 DEF Tpdo!KeyEvent, Tpdo!tpdoVars
<1>2. CASE Tpdo!NMTChange
  BY <1>2 DEF Tpdo!NMTChange, Tpdo!tpdoVars
<1>3. CASE Tpdo!WriteEventTimer
  BY <1>3 DEF Tpdo!WriteEventTimer, Tpdo!tpdoVars
<1>4. ASSUME NEW x \in BOOLEAN, Tpdo!CheckRequest(x) PROVE TpdoInv'
  BY <1>4 DEF Tpdo!CheckRequest
<1>5. CASE Tpdo!CopyObject
  BY <1>5 DEF Tpdo!CopyObject
<1>6. CASE Tpdo!SetFlag
  BY <1>6 DEF Tpdo!SetFlag
<1>7. CASE Tpdo!SendFrame
  BY <1>7 DEF Tpdo!SendFrame
<1>8. CASE UNCHANGED Tpdo!vars
  BY <1>8 DEF Tpdo!vars, Tpdo!tpdoVars
<1>9. QED
  BY <1>1, <1>2, <1>3, <1>4, <1>5, <1>6, <1>7, <1>8 DEF Tpdo!Next, Tpdo!Periodic

(* The variables of the TPDO, of the request flag and of the periodic task *)
(* keep their types.                                                       *)
THEOREM KeyTpdoTyping == Tpdo!Spec => []Tpdo!TypeOK
<1>1. TpdoInv => Tpdo!TypeOK
  BY DEF TpdoInv
<1>2. QED
  BY <1>1, TpdoInvInit, TpdoInvKept, PTL DEF Tpdo!Spec

(* However ProcessTask and the periodic task interleave, a quiet TPDO      *)
(* leaves an old key state on the bus only when the last key event fell    *)
(* between CO_TPDOsend's read of 0x2000 and its write of flagsPDO.         *)
THEOREM StaleOnlyIfPreemptedAlways == Tpdo!Spec => []Tpdo!StaleOnlyIfPreempted
<1>1. TpdoInv => Tpdo!StaleOnlyIfPreempted
  BY DEF TpdoInv
<1>2. QED
  BY <1>1, TpdoInvInit, TpdoInvKept, PTL DEF Tpdo!Spec

(* A frame on its way to CO_CANsend carries the current key state, unless  *)
(* an event has preempted this one or has asked for another.               *)
THEOREM FreshFrameAlways == Tpdo!Spec => []Tpdo!FreshFrame
<1>1. TpdoInv => Tpdo!FreshFrame
  BY DEF TpdoInv
<1>2. QED
  BY <1>1, TpdoInvInit, TpdoInvKept, PTL DEF Tpdo!Spec
-----------------------------------------------------------------------------
(* A step of the composition is a step of the keyboard, or none of its     *)
(* business.                                                               *)
LEMMA KeyboardStep == [KNext]_allVars => [Next]_vars
<1> SUFFICES ASSUME [KNext]_allVars PROVE [Next]_vars
  OBVIOUS
<1>1. ASSUME NEW k \in Key, Touch(k) PROVE [Next]_vars
  BY <1>1 DEF Next
<1>2. CASE Scanner
  BY <1>2 DEF Next
<1>3. CASE ProcessTask
  BY <1>3 DEF ProcessTask, Next
<1>4. CASE Tpdo!NMTChange /\ UNCHANGED keyboardVars
  BY <1>4 DEF Tpdo!NMTChange, keyboardVars, taskVars, vars
<1>5. CASE Tpdo!WriteEventTimer /\ UNCHANGED keyboardVars
  BY <1>5 DEF Tpdo!WriteEventTimer, keyboardVars, taskVars, vars
<1>6. CASE Tpdo!Periodic /\ UNCHANGED keyboardVars
  BY <1>6 DEF Tpdo!Periodic, Tpdo!CheckRequest, Tpdo!CopyObject,
              Tpdo!SetFlag, Tpdo!SendFrame, keyboardVars, taskVars, vars
<1>7. CASE UNCHANGED allVars
  BY <1>7 DEF allVars
<1>8. QED
  BY <1>1, <1>2, <1>3, <1>4, <1>5, <1>6, <1>7 DEF KNext

(* The keyboard touches the TPDO only in a turn of vProcessTask, which is  *)
(* a key event of a value the object may have.                             *)
LEMMA TpdoStep ==
  TypeOK /\ [KNext]_allVars => [Tpdo!Next]_Tpdo!vars
<1> SUFFICES ASSUME TypeOK, [KNext]_allVars PROVE [Tpdo!Next]_Tpdo!vars
  OBVIOUS
<1> USE DEF Tpdo!vars, Tpdo!tpdoVars
<1>1. ASSUME NEW k \in Key, Touch(k), UNCHANGED pdoVars
      PROVE  UNCHANGED Tpdo!vars
  BY <1>1 DEF Touch, pdoVars
<1>2. CASE Scanner /\ UNCHANGED pdoVars
  BY <1>2 DEF Scanner, WakeScanner, ScanKey, Unblock, pdoVars
<1>3. CASE ProcessTask
  <2>1. keys' \in SUBSET Key
    BY <1>3, ProcessEventStep DEF ProcessTask, TypeOK
  <2>2. QED
    BY <1>3, <2>1 DEF ProcessTask, Tpdo!Next
<1>4. CASE Tpdo!NMTChange \/ Tpdo!WriteEventTimer \/ Tpdo!Periodic
  BY <1>4 DEF Tpdo!Next
<1>5. CASE UNCHANGED allVars
  BY <1>5 DEF allVars, vars, pdoVars
<1>6. QED
  BY <1>1, <1>2, <1>3, <1>4, <1>5 DEF KNext

(* The composition keeps the invariants of its parts: the types of the     *)
(* keyboard and the inductive invariant of the TPDO.                       *)
LEMMA KeypadSafety ==
  KSpec => [](TypeOK /\ TpdoInv) /\ Mirror!Init /\ [][Mirror!Next]_Mirror!vars
<1>1. KInit => TypeOK /\ Mirror!Init /\ TpdoInv
  BY InitSimulation, TpdoInvInit DEF KInit
<1>2. TypeOK /\ [KNext]_allVars => TypeOK' /\ [Mirror!Next]_Mirror!vars
  BY KeyboardStep, StepSimulation
<1>3. TypeOK /\ TpdoInv /\ [KNext]_allVars => TpdoInv'
  BY TpdoStep, TpdoInvKept
<1>4. QED
  BY <1>1, <1>2, <1>3, PTL DEF KSpec

(* With the TPDO taking its part, object 0x2000 and the events on the way  *)
(* to it still tell the debounced keyboard.                                *)
LEMMA KeypadMirrored == KSpec => []KeysMirrored
BY KeypadSafety, MirrorAlways, PTL DEF Mirror!Spec, KeysMirrored

(* In the composed system too, a quiet TPDO leaves an old key state on the *)
(* bus only when the last key event fell between CO_TPDOsend's read of     *)
(* 0x2000 and its write of flagsPDO.                                       *)
THEOREM StaleOnlyIfPreemptedHere == KSpec => []StaleOnlyIfPreempted
<1>1. TpdoInv => StaleOnlyIfPreempted
  BY DEF TpdoInv, StaleOnlyIfPreempted
<1>2. QED
  BY <1>1, KeypadSafety, PTL

(* Once scanner, queue and TPDO have come to rest and the last key event   *)
(* was not preempted, the last frame sent is the debounced keyboard.       *)
THEOREM BusMirrorsKeysAlways == KSpec => []BusMirrorsKeys
<1>1. TypeOK /\ KeysMirrored /\ StaleOnlyIfPreempted => BusMirrorsKeys
  <2> SUFFICES ASSUME TypeOK, KeysMirrored, StaleOnlyIfPreempted,
                      Backlog = <<>>, Tpdo!Quiet, ~preempted
               PROVE  sent = Pressed
    BY DEF BusMirrorsKeys
  <2>1. sent = keys
    BY DEF StaleOnlyIfPreempted, Tpdo!StaleOnlyIfPreempted
  <2>2. \A k \in Key : k \in keys <=> k \in Pressed
    BY DEF KeysMirrored, Mirror!Mirror
  <2>3. keys \subseteq Key /\ Pressed \subseteq Key
    BY DEF TypeOK, Pressed
  <2>4. QED
    BY <2>1, <2>2, <2>3
<1>2. QED
  BY <1>1, KeypadSafety, KeypadMirrored, StaleOnlyIfPreemptedHere, PTL
=============================================================================
