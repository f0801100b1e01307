---------------------------- MODULE Gateway_proofs ----------------------------
(***************************************************************************)
(* Proofs about the gateway, the pairs of safety data, and the types of    *)
(* every service, in the composition of Services.                          *)
(***************************************************************************)
EXTENDS Services_proofs

-----------------------------------------------------------------------------
(* The gateway: its record, and those of the application and its masters.  *)
GtwaWord ==
  {"out", "parse", "state", "read", "IDLE", "READ", "WRITE", "WRITE_ABORTED", "lss",
   "_lss_fastscan", "lss_allnodes", "log", "help", "led", "none", "full", "end",
   "stop", "red", "green", "ok", "err", "nl", "head", "unit", "assigned", "stray",
   "UPLOAD", "DOWNLOAD", "WAITING", "scan", "node", "store"}
Piece == Nat \X GtwaWord
GtwaRec ==
  [pc : GtwaWord, state : GtwaWord, seq : Nat, hold : BOOLEAN, node : BOOLEAN,
   buf : [1..RESP -> Piece], off : Nat, count : 0..RESP, copied : BOOLEAN, timer : Nat,
   sub : Nat, store : BOOLEAN, nid : Nat, ret : GtwaWord, offset : 0..HELP, log : Nat, led : GtwaWord]
PastRec == [overrun : BOOLEAN, cut : BOOLEAN, lapsed : BOOLEAN, dirty : BOOLEAN, silent : Nat]
ClientRec == [state : GtwaWord, n : 0..SDO_BUF, left : Nat]
MasterRec == [command : GtwaWord, default : BOOLEAN]
GatewayTypes ==
  /\ gtwa \in GtwaRec /\ past \in PastRec /\ client \in ClientRec /\ master \in MasterRec
  /\ commFifo \in Seq(Token) /\ script \in Seq(Token) /\ Len(commFifo) <= COMM
  /\ told \in Seq(Piece)

(* A response is held as long as some of it is left, and lies at the start *)
(* of the buffer otherwise.  What is left of it is what is due, unless one *)
(* was formed over it (o).  A value is printed when nothing is held.       *)
HeldOk(g, d, o) ==
  /\ g.pc # "read" => (g.hold <=> g.count > 0)
  /\ ~g.hold => g.off = 0
  /\ g.state = "READ" /\ g.copied /\ (g.pc = "parse" \/ g.pc = "state") => ~g.hold
  /\ g.pc = "read" => g.count < RESP
  /\ ~o => /\ g.pc = "read" => ~g.hold
           /\ g.off + g.count <= RESP
           /\ d = [i \in 1..g.count |-> g.buf[g.off + i]]
HeldInv == HeldOk(gtwa, due, past.overrun)

(* What the application has written and has still to write is in order,    *)
(* and behind the command in work.                                         *)
StreamOk(a, q) ==
  /\ \A i \in DOMAIN a : Numbered(a[i]) => a[i].seq > q
  /\ \A i, j \in DOMAIN a : i < j /\ Numbered(a[i]) /\ Numbered(a[j]) => a[i].seq < a[j].seq
  /\ \A i \in DOMAIN a : i > 1 /\ OfValue(a[i]) => ~Gtwa!Ends(a[i - 1])
Inside(a) == a # <<>> /\ OfValue(a[1])

ToldOk(d, q) ==
  /\ \A i \in 2..Len(d) : d[i - 1][1] < d[i][1]
  /\ \A i \in DOMAIN d : d[i][1] <= q
Answered(d, q) == \E i \in DOMAIN d : d[i][1] = q

(* A command in work has not been answered, one that was left has; the     *)
(* rest of a value comes while it is written only.                         *)
AnswersOk ==
  /\ Inside(commFifo \o script) => gtwa.state = "WRITE" /\ gtwa.copied
  /\ ToldOk(told, gtwa.seq)
  /\ gtwa.state # "IDLE" => ~Answered(told, gtwa.seq)
  /\ gtwa.state = "IDLE" /\ gtwa.seq # 0 /\ gtwa.seq # past.silent /\ ~past.lapsed =>
       Answered(told, gtwa.seq)
Shows(s) == s = "log" \/ s = "help" \/ s = "led"
AnswerInv ==
  /\ StreamOk(commFifo \o script, gtwa.seq)
  /\ gtwa.pc = "read" => gtwa.state = "READ"
  /\ Shows(gtwa.state) => past.silent = gtwa.seq
  /\ gtwa.state = "WRITE" => client.state = "DOWNLOAD"
  /\ gtwa.state = "WRITE_ABORTED" => past.cut
  /\ ~past.cut => AnswersOk

(* What the LSS master may be doing is what the gateway waits for; its     *)
(* time-out is the default but in a scan.                                  *)
AtRest(c) == master.command = "WAITING" \/ master.command = c
MasterOk ==
  CASE gtwa.state = "lss" -> AtRest("lss") /\ master.default
    [] gtwa.state = "_lss_fastscan" -> AtRest("scan")
    [] gtwa.state = "lss_allnodes" ->
         /\ gtwa.sub \in 0..3
         /\ gtwa.sub = 0 => AtRest("scan")
         /\ gtwa.sub = 1 => AtRest("node") /\ master.default
         /\ gtwa.sub = 2 => AtRest("store") /\ master.default
         /\ gtwa.sub = 3 => master.command = "WAITING" /\ master.default
    [] OTHER -> master.command = "WAITING" /\ master.default
MasterInv == past.dirty \/ MasterOk

GatewayInv == GatewayTypes /\ HeldInv /\ AnswerInv /\ MasterInv

(* The words that records and pieces are made of.                          *)
LEMMA WordsAre ==
  /\ "out" \in GtwaWord /\ "parse" \in GtwaWord /\ "state" \in GtwaWord
  /\ "read" \in GtwaWord /\ "IDLE" \in GtwaWord /\ "READ" \in GtwaWord
  /\ "WRITE" \in GtwaWord /\ "WRITE_ABORTED" \in GtwaWord /\ "lss" \in GtwaWord
  /\ "_lss_fastscan" \in GtwaWord /\ "lss_allnodes" \in GtwaWord /\ "log" \in GtwaWord
  /\ "help" \in GtwaWord /\ "led" \in GtwaWord /\ "none" \in GtwaWord /\ "full" \in GtwaWord
  /\ "end" \in GtwaWord /\ "stop" \in GtwaWord /\ "red" \in GtwaWord /\ "green" \in GtwaWord
  /\ "ok" \in GtwaWord /\ "err" \in GtwaWord /\ "nl" \in GtwaWord /\ "head" \in GtwaWord
  /\ "unit" \in GtwaWord /\ "assigned" \in GtwaWord /\ "stray" \in GtwaWord
  /\ "UPLOAD" \in GtwaWord /\ "DOWNLOAD" \in GtwaWord /\ "WAITING" \in GtwaWord
  /\ "scan" \in GtwaWord /\ "node" \in GtwaWord /\ "store" \in GtwaWord
BY DEF GtwaWord

(* What a token is by its kind.                                            *)
LEMMA TokenIs ==
  ASSUME NEW x \in Token
  PROVE  /\ x.t = "line" \/ x.t = "write" \/ x.t = "data" \/ x.t = "junk" \/ x.t = "nl"
         /\ Numbered(x) => x.seq \in Nat
         /\ x.t = "nl" => x = Gtwa!NL
         /\ x.t = "data" => x = Gtwa!Data
         /\ Gtwa!NL.t = "nl" /\ Gtwa!Data.t = "data" /\ Gtwa!Junk.t = "junk"
BY DEF Token, Numbered, Gtwa!NL, Gtwa!Data, Gtwa!Junk

(* Clearing drops what has come up to the first end of a line.             *)
LEMMA ClearedIs ==
  ASSUME NEW c \in Seq(Token)
  PROVE  \/ /\ \A i \in DOMAIN c : ~Gtwa!Ends(c[i])
            /\ Gtwa!SelectInSeq(c, Gtwa!Ends) = 0 /\ Gtwa!Cleared(c) = <<>>
         \/ /\ Gtwa!SelectInSeq(c, Gtwa!Ends) # 0
            /\ \E k \in DOMAIN c : Gtwa!Ends(c[k]) /\ Gtwa!Cleared(c) = SubSeq(c, k + 1, Len(c))
<1> DEFINE I == {i \in 1..Len(c) : Gtwa!Ends(c[i])}
           k == Gtwa!SelectInSeq(c, Gtwa!Ends)
<1>1. CASE I = {}
  BY <1>1 DEF Gtwa!Cleared, Gtwa!SelectInSeq
<1>2. CASE I # {}
  <2>0. I \in SUBSET Nat /\ DOMAIN c = 1..Len(c)
    OBVIOUS
  <2>1. PICK x \in I : \A y \in I : x <= y
    BY <1>2, <2>0, LeastNatural
  <2>2. k = Gtwa!Min(I)
    BY <1>2 DEF Gtwa!SelectInSeq
  <2>3. k \in I
    BY <2>1, <2>2 DEF Gtwa!Min
  <2>4. Gtwa!Cleared(c) = SubSeq(c, k + 1, Len(c))
    BY <2>3 DEF Gtwa!Cleared
  <2>5. k \in DOMAIN c /\ Gtwa!Ends(c[k]) /\ k # 0
    BY <2>0, <2>3
  <2> HIDE DEF k
  <2>6. \E j \in DOMAIN c : Gtwa!Ends(c[j]) /\ Gtwa!Cleared(c) = SubSeq(c, j + 1, Len(c))
    BY <2>4, <2>5
  <2> QED
    BY <2>5, <2>6 DEF k
<1> QED
  BY <1>1, <1>2

(* A scan of a value takes units, and the newline behind them, unless the  *)
(* buffer is full.                                                         *)
RestAfter(c, k) == SubSeq(c, k + 1, Len(c))
Takes(c, s, k) ==
  /\ s.rest = RestAfter(c, k)
  /\ s.closed => k \in DOMAIN c /\ Gtwa!Ends(c[k])
  /\ ~s.closed => \A i \in 1..k : c[i].t = "data"

(* What a scan for the end of a value takes from the fifo, and what it     *)
(* leaves behind it.                                                       *)
LEMMA ValueScanIs ==
  ASSUME NEW c \in Seq(Token), NEW n \in 0..SDO_BUF, NEW s, s = Gtwa!Scan(c, n)
  PROVE  /\ s.n \in 0..SDO_BUF /\ s.closed \in BOOLEAN /\ s.err \in BOOLEAN
         /\ s.err => ~s.closed
         /\ n = 0 /\ s.size = 0 /\ ~s.closed /\ ~s.err => c = <<>>
         /\ \E k \in 0..Len(c) : Takes(c, s, k)
<1> DEFINE I == {i \in 1..Len(c) : c[i] # Gtwa!Data}
           stop == Gtwa!SelectInSeq(c, LAMBDA tok : tok # Gtwa!Data)
           units == IF stop = 0 THEN Len(c) ELSE stop - 1
           m == IF units < SDO_BUF - n THEN units ELSE SDO_BUF - n
           full == n + m = SDO_BUF
           closed == ~full /\ stop # 0 /\ c[stop] = Gtwa!NL
<1>0. DOMAIN c = 1..Len(c) /\ Len(c) \in Nat /\ I \in SUBSET Nat /\ SDO_BUF \in Nat /\ SDO_BUF > 0
  BY GatewayAssumption
<1>1. /\ stop \in 0..Len(c)
      /\ stop = 0 => \A i \in 1..Len(c) : c[i] = Gtwa!Data
      /\ stop # 0 => c[stop] # Gtwa!Data /\ \A i \in 1..(stop - 1) : c[i] = Gtwa!Data
  <2>1. CASE I = {}
    BY <1>0, <2>1 DEF Gtwa!SelectInSeq
  <2>2. CASE I # {}
    <3>1. PICK x \in I : \A y \in I : x <= y
      BY <1>0, <2>2, LeastNatural
    <3>2. stop = Gtwa!Min(I)
      BY <2>2 DEF Gtwa!SelectInSeq
    <3>3. stop \in I /\ \A y \in I : stop <= y
      BY <3>1, <3>2 DEF Gtwa!Min
    <3> HIDE DEF stop
    <3> QED
      BY <1>0, <3>3
  <2> QED
    BY <2>1, <2>2
<1>2. /\ s.n = n + m /\ s.size = m /\ s.closed = closed
      /\ s.err = (~full /\ stop # 0 /\ c[stop] # Gtwa!NL)
      /\ s.rest = SubSeq(c, (IF closed THEN m + 1 ELSE m) + 1, Len(c))
  BY DEF Gtwa!Scan
<1> HIDE DEF stop
<1>3. /\ units \in 0..Len(c) /\ m \in 0..Len(c) /\ m <= units /\ n + m \in 0..SDO_BUF
      /\ \A i \in 1..m : c[i] = Gtwa!Data
      /\ ~full => m = units
      /\ ~full /\ stop # 0 => m + 1 = stop
  BY <1>0, <1>1
<1> HIDE DEF m, units
<1>4. closed => m + 1 \in DOMAIN c /\ c[m + 1] = Gtwa!NL
  BY <1>0, <1>1, <1>3
<1>5. \E k \in 0..Len(c) :
        /\ s.rest = SubSeq(c, k + 1, Len(c))
        /\ closed => k \in DOMAIN c /\ Gtwa!Ends(c[k])
        /\ ~closed => \A i \in 1..k : c[i].t = "data"
  <2>1. CASE closed
    <3>1. m + 1 \in 0..Len(c) /\ s.rest = SubSeq(c, m + 1 + 1, Len(c)) /\ Gtwa!Ends(c[m + 1])
      BY <1>0, <1>2, <1>3, <1>4, <2>1 DEF Gtwa!Ends, Gtwa!NL
    <3> QED
      BY <1>4, <2>1, <3>1
  <2>2. CASE ~closed
    <3>1. s.rest = SubSeq(c, m + 1, Len(c)) /\ \A i \in 1..m : c[i].t = "data"
      BY <1>2, <1>3, <2>2 DEF Gtwa!Data
    <3> HIDE DEF closed
    <3> QED
      BY <1>3, <2>2, <3>1
  <2> QED
    BY <2>1, <2>2
<1>6. n = 0 /\ m = 0 /\ ~closed /\ ~(~full /\ stop # 0 /\ c[stop] # Gtwa!NL) => c = <<>>
  <2> SUFFICES ASSUME n = 0, m = 0, ~closed, ~(~full /\ stop # 0 /\ c[stop] # Gtwa!NL)
               PROVE  c = <<>>
    OBVIOUS
  <2>1. ~full /\ stop = 0
    BY <1>0
  <2>2. Len(c) = 0
    BY <1>3, <2>1 DEF units
  <2> QED
    BY <2>2
<1> HIDE DEF closed, full
<1>7. s.closed \in BOOLEAN /\ (s.err => ~s.closed)
  <2>1. closed \in BOOLEAN /\ (closed => c[stop] = Gtwa!NL)
    BY DEF closed
  <2> QED
    BY <1>2, <2>1
<1>8. s.err \in BOOLEAN
  BY <1>2
<1>9. n = 0 /\ s.size = 0 /\ ~s.closed /\ ~s.err => c = <<>>
  BY <1>2, <1>6
<1>10. s.n \in 0..SDO_BUF
  BY <1>2, <1>3
<1>11. \E k \in 0..Len(c) : Takes(c, s, k)
  BY <1>2, <1>5 DEF Takes, RestAfter
<1> QED
  BY <1>7, <1>8, <1>9, <1>10, <1>11

(* The end of a stream that is in order is in order, and does not begin    *)
(* inside a value when it is behind the end of a line.                     *)
LEMMA BehindIs ==
  ASSUME NEW c \in Seq(Token), NEW d \in Seq(Token), NEW k \in 0..Len(c), NEW q,
         StreamOk(c \o d, q)
  PROVE  /\ RestAfter(c, k) \in Seq(Token) /\ Len(RestAfter(c, k)) = Len(c) - k
         /\ StreamOk(RestAfter(c, k) \o d, q)
         /\ k \in DOMAIN c /\ Gtwa!Ends(c[k]) => ~Inside(RestAfter(c, k) \o d)
         /\ \A i \in DOMAIN (RestAfter(c, k) \o d) :
              k + i \in DOMAIN (c \o d) /\ (RestAfter(c, k) \o d)[i] = (c \o d)[k + i]
<1> DEFINE e == RestAfter(c, k)
           a == c \o d
           b == e \o d
<1>1. /\ e \in Seq(Token) /\ Len(e) = Len(c) - k /\ \A i \in 1..Len(e) : e[i] = c[k + i]
      /\ Len(c) \in Nat /\ Len(d) \in Nat
  BY DEF RestAfter
<1> HIDE DEF e
<1>2. /\ a \in Seq(Token) /\ Len(a) = Len(c) + Len(d) /\ DOMAIN a = 1..Len(a)
      /\ \A i \in 1..Len(c) : a[i] = c[i]
      /\ b \in Seq(Token) /\ Len(b) = Len(a) - k /\ DOMAIN b = 1..Len(b)
  <2>1. a \in Seq(Token) /\ Len(a) = Len(c) + Len(d) /\ \A i \in 1..Len(c) : a[i] = c[i]
    BY <1>1, ConcatProperties
  <2>2. b \in Seq(Token) /\ Len(b) = Len(e) + Len(d)
    BY <1>1, ConcatProperties
  <2> HIDE DEF a, b
  <2> QED
    BY <1>1, <2>1, <2>2
<1>3. \A i \in 1..Len(b) : b[i] = a[k + i]
  <2> TAKE i \in 1..Len(b)
  <2>1. CASE i <= Len(e)
    BY <1>1, <2>1
  <2>2. CASE i > Len(e)
    BY <1>1, <1>2, <2>2
  <2> QED
    BY <1>1, <1>2, <2>1, <2>2
<1> HIDE DEF a, b
<1>4. \A i \in DOMAIN b : k + i \in DOMAIN a /\ b[i] = a[k + i]
  <2> TAKE i \in DOMAIN b
  <2>1. i \in 1..Len(b) /\ k \in Nat /\ Len(a) \in Nat /\ Len(b) \in Nat
    BY <1>1, <1>2
  <2>2. k + i \in 1..Len(a)
    BY <1>2, <2>1
  <2> QED
    BY <1>2, <1>3, <2>1, <2>2
<1>5. StreamOk(a, q)
  BY DEF a
<1>6. StreamOk(b, q)
  <2>1. ASSUME NEW i \in DOMAIN b, Numbered(b[i]) PROVE b[i].seq > q
    BY <1>4, <1>5, <2>1 DEF StreamOk
  <2>2. ASSUME NEW i \in DOMAIN b, NEW j \in DOMAIN b, i < j, Numbered(b[i]), Numbered(b[j])
        PROVE  b[i].seq < b[j].seq
    <3>1. k + i < k + j /\ k + i \in DOMAIN a /\ k + j \in DOMAIN a /\ b[i] = a[k + i] /\ b[j] = a[k + j]
      BY <1>2, <1>4, <2>2
    <3> QED
      BY <1>5, <2>2, <3>1 DEF StreamOk
  <2>3. ASSUME NEW i \in DOMAIN b, i > 1, OfValue(b[i]) PROVE ~Gtwa!Ends(b[i - 1])
    <3>1. /\ k + i > 1 /\ k + i \in DOMAIN a /\ b[i] = a[k + i]
          /\ i - 1 \in DOMAIN b /\ b[i - 1] = a[k + i - 1]
      BY <1>2, <1>4, <2>3
    <3> QED
      BY <1>5, <2>3, <3>1 DEF StreamOk
  <2> QED
    BY <2>1, <2>2, <2>3 DEF StreamOk
<1>7. ASSUME Inside(b) PROVE k + 1 \in DOMAIN a /\ OfValue(a[k + 1])
  <2>1. 1 \in DOMAIN b /\ OfValue(b[1])
    BY <1>2, <1>7 DEF Inside
  <2> QED
    BY <1>4, <2>1
<1>8. ASSUME k \in DOMAIN c, Gtwa!Ends(c[k]) PROVE ~Inside(b)
  <2> SUFFICES ASSUME Inside(b) PROVE FALSE
    OBVIOUS
  <2>1. k + 1 \in DOMAIN a /\ k + 1 > 1 /\ OfValue(a[k + 1]) /\ a[k + 1 - 1] = c[k]
    BY <1>1, <1>2, <1>7, <1>8
  <2> QED
    BY <1>5, <1>8, <2>1 DEF StreamOk
<1> QED
  BY <1>1, <1>4, <1>6, <1>8 DEF a, b, e

(* So is what is behind a command, and it is behind its number.            *)
LEMMA BehindFirst ==
  ASSUME NEW c \in Seq(Token), NEW d \in Seq(Token), NEW k \in 1..Len(c), NEW q,
         StreamOk(c \o d, q), Numbered(c[1])
  PROVE  StreamOk(RestAfter(c, k) \o d, c[1].seq)
<1> DEFINE a == c \o d
           b == RestAfter(c, k) \o d
<1>0. k \in 0..Len(c)
  OBVIOUS
<1>1. StreamOk(b, q) /\ \A i \in DOMAIN b : k + i \in DOMAIN a /\ b[i] = a[k + i]
  BY <1>0, BehindIs
<1>2. 1 \in DOMAIN a /\ a[1] = c[1] /\ DOMAIN b \subseteq Nat \ {0}
  <2>1. RestAfter(c, k) \in Seq(Token)
    BY DEF RestAfter
  <2> QED
    BY <2>1
<1>3. StreamOk(a, q)
  OBVIOUS
<1> HIDE DEF a, b
<1>4. ASSUME NEW i \in DOMAIN b, Numbered(b[i]) PROVE b[i].seq > c[1].seq
  <2>1. 1 < k + i /\ k + i \in DOMAIN a /\ b[i] = a[k + i]
    BY <1>1, <1>2
  <2>2. a[1].seq < a[k + i].seq
    BY <1>2, <1>3, <1>4, <2>1 DEF StreamOk
  <2> QED
    BY <1>2, <2>1, <2>2
<1> QED
  BY <1>1, <1>4 DEF StreamOk, b

(* The application takes a part of what it is offered.                     *)
SameWork(h, g) ==
  /\ h.pc = g.pc /\ h.state = g.state /\ h.seq = g.seq /\ h.sub = g.sub
  /\ h.copied <=> g.copied
Held(g) == [i \in 1..g.count |-> g.buf[g.off + i]]

(* What the application takes of the response buffer, and what it leaves   *)
(* there.                                                                  *)
LEMMA TakenIs ==
  ASSUME NEW f \in GtwaRec, NEW c \in 0..f.count, NEW h, h = Gtwa!Taken(f, c)
  PROVE  /\ h \in GtwaRec /\ SameWork(h, f)
         /\ h.count = f.count - c /\ (h.hold <=> h.count > 0) /\ (~h.hold => h.off = 0)
         /\ h.offset = f.offset /\ h.log = f.log
         /\ f.off + f.count <= RESP =>
              h.off + h.count <= RESP /\ Gtwa!Unread(Held(f), c) = Held(h)
<1>0. f.off \in Nat /\ f.count \in 0..RESP /\ RESP \in Nat /\ f.buf \in [1..RESP -> Piece]
  BY GatewayAssumption DEF GtwaRec
<1>1. CASE c < f.count
  <2>1. h = [f EXCEPT !.off = f.off + c, !.count = f.count - c, !.hold = TRUE]
    BY <1>1 DEF Gtwa!Taken
  <2>2. f.off + c \in Nat /\ f.count - c \in 0..RESP
    BY <1>0, <1>1
  <2>3. h \in GtwaRec /\ SameWork(h, f)
    BY <2>1, <2>2 DEF GtwaRec, SameWork
  <2>4. /\ h.count = f.count - c /\ h.hold /\ h.off = f.off + c /\ h.buf = f.buf
        /\ h.offset = f.offset /\ h.log = f.log
    BY <2>1 DEF GtwaRec
  <2>5. ASSUME f.off + f.count <= RESP
        PROVE  Gtwa!Unread(Held(f), c) = Held(h)
    <3> DEFINE d == Held(f)
               u == Gtwa!Unread(d, c)
    <3>1. d \in Seq(Piece) /\ Len(d) = f.count /\ \A i \in 1..f.count : d[i] = f.buf[f.off + i]
      <4>1. \A i \in 1..f.count : f.buf[f.off + i] \in Piece
        BY <1>0, <2>5
      <4> QED
        BY <1>0, <4>1 DEF Held
    <3> HIDE DEF d
    <3>2. u = SubSeq(d, c + 1, f.count)
      BY <3>1 DEF Gtwa!Unread
    <3>3. u = [i \in 1..(f.count - c) |-> d[i + c]]
      BY <1>0, <1>1, <3>1, <3>2
    <3>4. \A i \in 1..(f.count - c) : d[i + c] = h.buf[h.off + i]
      BY <1>0, <1>1, <2>4, <3>1
    <3>5. u = [i \in 1..h.count |-> h.buf[h.off + i]]
      BY <2>4, <3>3, <3>4
    <3> QED
      BY <3>5 DEF Held, d
  <2> QED
    BY <1>0, <1>1, <2>3, <2>4, <2>5
<1>2. CASE c = f.count
  <2>1. h = [f EXCEPT !.off = 0, !.count = 0, !.hold = FALSE]
    BY <1>0, <1>2 DEF Gtwa!Taken
  <2>2. h \in GtwaRec /\ SameWork(h, f)
    <3>1. 0 \in 0..RESP /\ 0 \in Nat
      BY <1>0
    <3>2. h \in GtwaRec
      BY <2>1, <3>1 DEF GtwaRec
    <3> QED
      BY <2>1, <3>2 DEF GtwaRec, SameWork
  <2>3. h.count = 0 /\ ~h.hold /\ h.off = 0 /\ h.offset = f.offset /\ h.log = f.log
    BY <2>1 DEF GtwaRec
  <2>4. ASSUME f.off + f.count <= RESP
        PROVE  Gtwa!Unread(Held(f), c) = Held(h)
    <3> DEFINE d == Held(f)
    <3>1. d \in Seq(Piece) /\ Len(d) = f.count
      <4>1. \A i \in 1..f.count : f.buf[f.off + i] \in Piece
        BY <1>0, <2>4
      <4> QED
        BY <1>0, <4>1 DEF Held
    <3> HIDE DEF d
    <3>2. Gtwa!Unread(d, c) = <<>>
      BY <1>0, <1>2, <3>1 DEF Gtwa!Unread
    <3>3. Held(h) = <<>>
      BY <2>3 DEF Held
    <3> QED
      BY <3>2, <3>3 DEF d
  <2> QED
    BY <1>0, <1>2, <2>2, <2>3, <2>4
<1> QED
  BY <1>0, <1>1, <1>2

(* A response is formed at the start of the buffer.                        *)
LEMMA FormedIs ==
  ASSUME NEW g \in GtwaRec, NEW ps \in Seq(Piece), Len(ps) <= RESP,
         NEW f, f = Gtwa!Formed(g, ps)
  PROVE  /\ f \in GtwaRec /\ SameWork(f, g) /\ f.count = Len(ps) /\ f.off = g.off
         /\ (f.hold <=> g.hold) /\ f.offset = g.offset /\ f.log = g.log
         /\ g.off = 0 => Held(f) = ps
<1>0. Len(ps) \in 0..RESP /\ RESP \in Nat /\ DOMAIN ps = 1..Len(ps) /\ \A i \in 1..Len(ps) : ps[i] \in Piece
  BY GatewayAssumption
<1> DEFINE b == [i \in 1..RESP |-> IF i <= Len(ps) THEN ps[i] ELSE g.buf[i]]
<1>1. b \in [1..RESP -> Piece] /\ \A i \in 1..Len(ps) : b[i] = ps[i]
  <2>1. g.buf \in [1..RESP -> Piece]
    BY DEF GtwaRec
  <2> QED
    BY <1>0, <2>1
<1>2. f = [g EXCEPT !.buf = b, !.count = Len(ps)]
  BY DEF Gtwa!Formed, GtwaRec
<1> HIDE DEF b
<1>3. /\ f \in GtwaRec /\ SameWork(f, g) /\ f.count = Len(ps) /\ f.off = g.off
      /\ (f.hold <=> g.hold) /\ f.offset = g.offset /\ f.log = g.log /\ f.buf = b
  BY <1>0, <1>1, <1>2 DEF GtwaRec, SameWork
<1>4. ASSUME g.off = 0 PROVE Held(f) = ps
  <2>1. Held(f) = [i \in 1..Len(ps) |-> b[0 + i]]
    BY <1>3, <1>4 DEF Held
  <2>2. \A i \in 1..Len(ps) : b[0 + i] = ps[i]
    BY <1>0, <1>1
  <2> QED
    BY <1>0, <2>1, <2>2
<1> QED
  BY <1>3, <1>4

(* A response that is formed and offered: what is left of it is held.      *)
LEMMA OfferedIs ==
  ASSUME gtwa \in GtwaRec, HeldInv, gtwa.pc # "read",
         NEW g \in GtwaRec, g.hold <=> gtwa.hold, g.off = gtwa.off,
         NEW ps \in Seq(Piece), Len(ps) <= RESP, NEW c \in 0..Len(ps),
         NEW h, h = Gtwa!Taken(Gtwa!Formed(g, ps), c)
  PROVE  /\ h \in GtwaRec /\ SameWork(h, g) /\ h.offset = g.offset /\ h.log = g.log
         /\ (h.hold <=> h.count > 0) /\ (~h.hold => h.off = 0)
         /\ ~past.overrun /\ ~gtwa.hold =>
              h.off + h.count <= RESP /\ Gtwa!Unread(due \o ps, c) = Held(h)
<1> DEFINE f == Gtwa!Formed(g, ps)
<1>1. /\ f \in GtwaRec /\ SameWork(f, g) /\ f.count = Len(ps) /\ f.off = g.off
      /\ f.offset = g.offset /\ f.log = g.log /\ (g.off = 0 => Held(f) = ps)
  BY FormedIs
<1> HIDE DEF f
<1>2. /\ h \in GtwaRec /\ SameWork(h, f)
      /\ (h.hold <=> h.count > 0) /\ (~h.hold => h.off = 0)
      /\ h.offset = f.offset /\ h.log = f.log
      /\ f.off + f.count <= RESP => h.off + h.count <= RESP /\ Gtwa!Unread(Held(f), c) = Held(h)
  BY <1>1, TakenIs DEF f
<1>3. SameWork(h, g)
  BY <1>1, <1>2 DEF SameWork
<1>4. ASSUME ~past.overrun, ~gtwa.hold
      PROVE  h.off + h.count <= RESP /\ Gtwa!Unread(due \o ps, c) = Held(h)
  <2>1. gtwa.off = 0 /\ gtwa.count = 0 /\ due = [i \in 1..gtwa.count |-> gtwa.buf[gtwa.off + i]]
    <3>1. gtwa.count \in Nat
      BY DEF GtwaRec
    <3> QED
      BY <1>4, <3>1 DEF HeldInv, HeldOk
  <2>2. due = <<>>
    BY <2>1
  <2>3. due \o ps = ps
    BY <2>2, ConcatEmptySeq
  <2>4. f.off + f.count <= RESP /\ Held(f) = ps
    BY <1>1, <2>1
  <2> QED
    BY <1>2, <2>3, <2>4
<1> QED
  BY <1>1, <1>2, <1>3, <1>4

(* What is left when the line in work is cleared.                          *)
LEMMA ClearedKeeps ==
  ASSUME NEW c \in Seq(Token), NEW d \in Seq(Token), NEW q, StreamOk(c \o d, q),
         NEW e, e = Gtwa!Cleared(c)
  PROVE  /\ e \in Seq(Token) /\ Len(e) <= Len(c) /\ StreamOk(e \o d, q)
         /\ Gtwa!SelectInSeq(c, Gtwa!Ends) # 0 => ~Inside(e \o d)
         /\ c # <<>> /\ Numbered(c[1]) => StreamOk(e \o d, c[1].seq)
<1>0. Len(c) \in Nat /\ DOMAIN c = 1..Len(c)
  OBVIOUS
<1>1. CASE Gtwa!SelectInSeq(c, Gtwa!Ends) = 0
  <2>1. e = <<>>
    BY <1>1, ClearedIs
  <2>2. e = RestAfter(c, Len(c))
    BY <1>0, <2>1 DEF RestAfter
  <2>3. Len(c) \in 0..Len(c) /\ (c # <<>> => Len(c) \in 1..Len(c))
    BY <1>0
  <2>4. e \in Seq(Token) /\ Len(e) <= Len(c) /\ StreamOk(e \o d, q)
    BY <1>0, <2>2, <2>3, BehindIs
  <2>5. c # <<>> /\ Numbered(c[1]) => StreamOk(e \o d, c[1].seq)
    BY <2>2, <2>3, BehindFirst
  <2> QED
    BY <1>1, <2>4, <2>5
<1>2. CASE Gtwa!SelectInSeq(c, Gtwa!Ends) # 0
  <2>1. PICK k \in DOMAIN c : Gtwa!Ends(c[k]) /\ e = RestAfter(c, k)
    BY <1>2, ClearedIs DEF RestAfter
  <2>2. k \in 0..Len(c) /\ k \in 1..Len(c)
    BY <1>0, <2>1
  <2>3. e \in Seq(Token) /\ Len(e) = Len(c) - k /\ StreamOk(e \o d, q) /\ ~Inside(e \o d)
    BY <2>1, <2>2, BehindIs
  <2>4. Numbered(c[1]) => StreamOk(e \o d, c[1].seq)
    BY <2>1, <2>2, BehindFirst
  <2>5. Len(e) <= Len(c)
    BY <1>0, <2>2, <2>3
  <2> QED
    BY <2>3, <2>4, <2>5
<1> QED
  BY <1>1, <1>2

(* A response with a sequence number keeps the order of the answers.       *)
LEMMA ToldAppended ==
  ASSUME NEW d \in Seq(Piece), NEW q \in Nat, ToldOk(d, q), ~Answered(d, q), NEW r \in GtwaWord,
         NEW e, e = Append(d, <<q, r>>)
  PROVE  e \in Seq(Piece) /\ ToldOk(e, q) /\ Answered(e, q)
<1>1. /\ e \in Seq(Piece) /\ Len(e) = Len(d) + 1 /\ Len(d) \in Nat /\ e[Len(e)] = <<q, r>>
      /\ \A i \in 1..Len(d) : e[i] = d[i]
  <2>1. <<q, r>> \in Piece
    BY DEF Piece
  <2>2. e \in Seq(Piece) /\ Len(e) = Len(d) + 1 /\ e[Len(d) + 1] = <<q, r>>
        /\ \A i \in 1..Len(d) : e[i] = d[i]
    BY <2>1, AppendProperties
  <2>3. Len(d) \in Nat
    OBVIOUS
  <2> HIDE DEF Piece
  <2> QED
    BY <2>2, <2>3
<1>2. \A i \in 1..Len(d) : d[i][1] \in Nat /\ d[i][1] <= q /\ d[i][1] # q
  BY DEF ToldOk, Answered, Piece
<1>3. ASSUME NEW i \in 2..Len(e) PROVE e[i - 1][1] < e[i][1]
  <2>1. CASE i <= Len(d)
    BY <1>1, <1>3, <2>1 DEF ToldOk
  <2>2. CASE i = Len(e)
    <3>1. i - 1 \in 1..Len(d) /\ e[i - 1] = d[i - 1] /\ e[i][1] = q
      BY <1>1, <1>3, <2>2
    <3> QED
      BY <1>2, <3>1
  <2> QED
    BY <1>1, <1>3, <2>1, <2>2
<1>4. ASSUME NEW i \in DOMAIN e PROVE e[i][1] <= q
  BY <1>1, <1>2, <1>4
<1>5. Len(e) \in DOMAIN e /\ e[Len(e)][1] = q
  BY <1>1
<1> QED
  BY <1>1, <1>3, <1>4, <1>5 DEF ToldOk, Answered

(* A command that is behind the last one answered has not been answered.   *)
LEMMA ToldLater ==
  ASSUME NEW d \in Seq(Piece), NEW p \in Nat, ToldOk(d, p), NEW q \in Nat, p < q
  PROVE  ToldOk(d, q) /\ ~Answered(d, q)
<1>1. \A i \in DOMAIN d : d[i][1] \in Nat
  BY DEF Piece
<1> QED
  BY <1>1 DEF ToldOk, Answered

(* A response that is formed and offered, for any of the commands.         *)
SameHeld(g) ==
  (g.hold <=> gtwa.hold) /\ g.off = gtwa.off /\ g.count = gtwa.count /\ g.buf = gtwa.buf
Overruns == ~past'.overrun => ~past.overrun /\ ~gtwa.hold

(* A response is put into the buffer: what is due is what is held.         *)
LEMMA RespondIs ==
  ASSUME GatewayTypes, HeldInv, gtwa.pc # "read", NEW g \in GtwaRec, SameHeld(g),
         g.pc # "read", g.state # "READ", NEW ps \in Seq(Piece), Len(ps) <= RESP,
         Gtwa!Respond(g, ps), Overruns
  PROVE  /\ gtwa' \in GtwaRec /\ SameWork(gtwa', g) /\ HeldInv'
         /\ told' = IF Len(ps) = 2 /\ ps[2][2] = "end" THEN Append(told, ps[1]) ELSE told
<1>0. gtwa \in GtwaRec
  BY DEF GatewayTypes
<1>1. PICK c \in 0..Len(ps) :
        /\ gtwa' = Gtwa!Taken(Gtwa!Formed(g, ps), c)
        /\ due' = Gtwa!Unread(due \o ps, c)
        /\ told' = IF Len(ps) = 2 /\ ps[2][2] = "end" THEN Append(told, ps[1]) ELSE told
  BY DEF Gtwa!Respond
<1>2. PICK h : h = gtwa'
  OBVIOUS
<1>3. /\ h \in GtwaRec /\ SameWork(h, g)
      /\ (h.hold <=> h.count > 0) /\ (~h.hold => h.off = 0)
      /\ ~past.overrun /\ ~gtwa.hold =>
           h.off + h.count <= RESP /\ Gtwa!Unread(due \o ps, c) = Held(h)
  BY <1>0, <1>1, <1>2, OfferedIs DEF SameHeld
<1>4. HeldOk(h, due', past'.overrun)
  BY <1>1, <1>3 DEF HeldOk, Held, SameWork, Overruns
<1>5. HeldInv'
  BY <1>2, <1>4 DEF HeldInv
<1> QED
  BY <1>1, <1>2, <1>3, <1>5

(* A final response.                                                       *)
LEMMA FinalIs ==
  ASSUME NEW g \in GtwaRec, NEW r \in GtwaWord
  PROVE  /\ Gtwa!Final(g, r) \in Seq(Piece) /\ Len(Gtwa!Final(g, r)) = 2 /\ 2 <= RESP
         /\ Gtwa!Final(g, r)[2][2] = "end" /\ Gtwa!Final(g, r)[1] = <<g.seq, r>>
<1>1. g.seq \in Nat
  BY DEF GtwaRec
<1>2. <<g.seq, r>> \in Piece /\ <<g.seq, "end">> \in Piece
  <2>1. "end" \in GtwaWord
    BY WordsAre
  <2> QED
    BY <1>1, <2>1 DEF Piece
<1>3. 2 <= RESP
  BY GatewayAssumption
<1> QED
  BY <1>2, <1>3 DEF Gtwa!Final

Peace(m) == m.command = "WAITING" /\ m.default
Types(p, c, m) == p \in PastRec /\ c \in ClientRec /\ m \in MasterRec
Streams(c, d) == c \in Seq(Token) /\ d \in Seq(Token) /\ Len(c) <= COMM

(* A command is answered, and the gateway is idle again.                   *)
LEMMA FinalKeeps ==
  ASSUME GatewayInv, gtwa.pc # "read", NEW g \in GtwaRec, SameHeld(g),
         g.pc # "read", g.state = "IDLE", NEW r \in GtwaWord,
         Gtwa!Respond(g, Gtwa!Final(g, r)), Overruns,
         Types(past', client', master'), Streams(commFifo', script'),
         StreamOk(commFifo' \o script', g.seq),
         ~past'.cut => /\ ~Inside(commFifo' \o script')
                       /\ ToldOk(told, g.seq) /\ ~Answered(told, g.seq),
         past'.dirty \/ Peace(master'), ~past'.cut => ~past.cut
  PROVE  GatewayInv'
<1>1. /\ gtwa' \in GtwaRec /\ SameWork(gtwa', g) /\ HeldInv'
      /\ told' = Append(told, <<g.seq, r>>)
  BY RespondIs, FinalIs DEF GatewayInv
<1>2. g.seq \in Nat /\ told \in Seq(Piece)
  BY DEF GtwaRec, GatewayInv, GatewayTypes
<1>3. told' \in Seq(Piece)
  BY <1>1, <1>2 DEF Piece
<1>4. ~past'.cut => ToldOk(told', g.seq) /\ Answered(told', g.seq)
  BY <1>1, <1>2, ToldAppended
<1>5. gtwa'.pc # "read" /\ gtwa'.state = "IDLE" /\ gtwa'.seq = g.seq
  BY <1>1 DEF SameWork
<1>6. GatewayTypes'
  BY <1>1, <1>3 DEF GatewayTypes, Types, Streams
<1>7. AnswerInv'
  BY <1>4, <1>5 DEF AnswerInv, AnswersOk, Shows
<1>8. MasterInv'
  BY <1>5 DEF MasterInv, MasterOk, Peace
<1> QED
  BY <1>1, <1>6, <1>7, <1>8 DEF GatewayInv

(* The token in work: what is known of it and of those behind it.          *)
LEMMA ParsedIs ==
  ASSUME GatewayInv, Gtwa!Parses, NEW tok, tok = Gtwa!Token, NEW rest, rest = Tail(commFifo)
  PROVE  /\ gtwa.pc = "parse" /\ gtwa.state = "IDLE"
         /\ commFifo # <<>> /\ tok \in Token /\ tok = commFifo[1]
         /\ Streams(rest, script) /\ rest = RestAfter(commFifo, 1) /\ 1 \in 1..Len(commFifo)
         /\ StreamOk(commFifo \o script, gtwa.seq) /\ StreamOk(rest \o script, gtwa.seq)
         /\ Gtwa!Ends(tok) => /\ ~Inside(rest \o script)
                              /\ Gtwa!SelectInSeq(commFifo, Gtwa!Ends) # 0
         /\ OfValue(tok) => past.cut
         /\ Numbered(tok) =>
              /\ tok.seq \in Nat /\ gtwa.seq < tok.seq /\ StreamOk(rest \o script, tok.seq)
              /\ ~past.cut => ToldOk(told, tok.seq) /\ ~Answered(told, tok.seq)
<1>1. /\ gtwa.pc = "parse" /\ gtwa.state = "IDLE" /\ gtwa.seq \in Nat
      /\ commFifo \in Seq(Token) /\ script \in Seq(Token) /\ Len(commFifo) <= COMM
      /\ told \in Seq(Piece) /\ StreamOk(commFifo \o script, gtwa.seq)
      /\ ~past.cut => ToldOk(told, gtwa.seq) /\ ~Inside(commFifo \o script)
  BY DEF GatewayInv, GatewayTypes, GtwaRec, AnswerInv, AnswersOk, Gtwa!Parses
<1>2. commFifo # <<>>
  BY GatewayAssumption DEF Gtwa!Parses, Gtwa!CommSearch
<1>3. tok = commFifo[1] /\ tok \in Token /\ Len(commFifo) \in Nat /\ Len(commFifo) > 0
  BY <1>1, <1>2 DEF Gtwa!Token
<1>4. /\ rest = RestAfter(commFifo, 1) /\ rest \in Seq(Token) /\ Len(rest) <= COMM
      /\ 1 \in 0..Len(commFifo) /\ 1 \in 1..Len(commFifo)
  <2>1. rest \in Seq(Token) /\ Len(rest) = Len(commFifo) - 1
    BY <1>1, <1>2
  <2>2. rest = SubSeq(commFifo, 2, Len(commFifo))
    BY <1>1, <1>2, TailIsSubSeq
  <2>3. COMM \in Nat
    BY GatewayAssumption
  <2> QED
    BY <1>1, <1>3, <2>1, <2>2, <2>3 DEF RestAfter
<1>5. StreamOk(rest \o script, gtwa.seq) /\ (Gtwa!Ends(tok) => ~Inside(rest \o script))
  <2>1. 1 \in DOMAIN commFifo
    BY <1>1, <1>4
  <2> QED
    BY <1>1, <1>3, <1>4, <2>1, BehindIs
<1>6. Gtwa!Ends(tok) => Gtwa!SelectInSeq(commFifo, Gtwa!Ends) # 0
  <2>1. 1 \in DOMAIN commFifo
    BY <1>1, <1>4
  <2> QED
    BY <1>1, <1>3, <2>1, ClearedIs
<1>7. /\ 1 \in DOMAIN (commFifo \o script) /\ (commFifo \o script)[1] = tok
      /\ commFifo \o script # <<>>
  BY <1>1, <1>2, <1>3
<1>8. OfValue(tok) => past.cut
  BY <1>1, <1>7 DEF Inside
<1>9. ASSUME Numbered(tok)
      PROVE  /\ tok.seq \in Nat /\ gtwa.seq < tok.seq /\ StreamOk(rest \o script, tok.seq)
             /\ ~past.cut => ToldOk(told, tok.seq) /\ ~Answered(told, tok.seq)
  <2>1. tok.seq \in Nat
    BY <1>3, <1>9, TokenIs
  <2>2. tok.seq > gtwa.seq
    BY <1>1, <1>7, <1>9 DEF StreamOk
  <2>3. StreamOk(rest \o script, tok.seq)
    BY <1>1, <1>3, <1>4, <1>9, BehindFirst
  <2>4. gtwa.seq < tok.seq
    BY <1>1, <2>1, <2>2
  <2> QED
    BY <1>1, <2>1, <2>3, <2>4, ToldLater
<1> QED
  BY <1>1, <1>2, <1>3, <1>4, <1>5, <1>6, <1>8, <1>9 DEF Streams

(* The gateway goes back to waiting for a command.                         *)
LEMMA RestingIs ==
  ASSUME NEW g \in GtwaRec, NEW h, h = Gtwa!Resting(g)
  PROVE  /\ h \in GtwaRec /\ h.pc = "out" /\ h.state = "IDLE" /\ h.seq = g.seq
         /\ SameHeld(g) => SameHeld(h)
BY WordsAre DEF Gtwa!Resting, GtwaRec, SameHeld

(* What a command that begins sets, and what it leaves.                    *)
LEMMA BegunIs ==
  ASSUME gtwa \in GtwaRec, Gtwa!Token.seq \in Nat
  PROVE  /\ Gtwa!Begun \in GtwaRec /\ Gtwa!Begun.seq = Gtwa!Token.seq /\ SameHeld(Gtwa!Begun)
         /\ Gtwa!Begun.state = gtwa.state /\ Gtwa!Begun.pc = gtwa.pc
         /\ Gtwa!Begun.sub = gtwa.sub /\ (Gtwa!Begun.copied <=> gtwa.copied)
BY DEF Gtwa!Begun, GtwaRec, SameHeld

(* A command is refused, and what has come of its line is cleared.         *)
LEMMA ParseErrorKeeps ==
  ASSUME GatewayInv, Gtwa!Parses, NEW tok, tok = Gtwa!Token,
         NEW g \in GtwaRec, SameHeld(g), Gtwa!ParseError(g), Overruns,
         Types(past', client', master'), script' = script, past'.dirty \/ Peace(master'),
         ~past'.cut => ~past.cut /\ Gtwa!SelectInSeq(commFifo, Gtwa!Ends) # 0,
         \/ Numbered(tok) /\ g.seq = tok.seq
         \/ OfValue(tok) /\ g.seq = gtwa.seq
  PROVE  GatewayInv'
<1>1. PICK h : h = Gtwa!Resting(g)
  OBVIOUS
<1>2. PICK c : c = Gtwa!Cleared(commFifo)
  OBVIOUS
<1>3. Gtwa!Respond(h, Gtwa!Final(h, "err")) /\ commFifo' = c /\ "err" \in GtwaWord
  BY <1>1, <1>2, WordsAre DEF Gtwa!ParseError, Gtwa!Error
<1>4. h \in GtwaRec /\ h.pc = "out" /\ h.state = "IDLE" /\ h.seq = g.seq /\ SameHeld(h)
  BY <1>1, RestingIs
<1>5. /\ gtwa.pc = "parse" /\ commFifo # <<>> /\ tok = commFifo[1]
      /\ StreamOk(commFifo \o script, gtwa.seq)
      /\ OfValue(tok) => past.cut
      /\ Numbered(tok) /\ ~past.cut => ToldOk(told, tok.seq) /\ ~Answered(told, tok.seq)
  BY ParsedIs
<1>6. commFifo \in Seq(Token) /\ script \in Seq(Token) /\ Len(commFifo) <= COMM
  BY DEF GatewayInv, GatewayTypes
<1>7. /\ c \in Seq(Token) /\ Len(c) <= Len(commFifo) /\ StreamOk(c \o script, gtwa.seq)
      /\ Gtwa!SelectInSeq(commFifo, Gtwa!Ends) # 0 => ~Inside(c \o script)
      /\ Numbered(tok) => StreamOk(c \o script, tok.seq)
  BY <1>2, <1>5, <1>6, ClearedKeeps
<1>8. Streams(c, script)
  <2>1. COMM \in Nat
    BY GatewayAssumption
  <2>2. Len(c) <= COMM
    BY <1>6, <1>7, <2>1
  <2> QED
    BY <1>6, <1>7, <2>2 DEF Streams
<1>9. StreamOk(c \o script, h.seq)
  BY <1>4, <1>7
<1>10. ~past'.cut => /\ ~Inside(c \o script)
                     /\ ToldOk(told, h.seq) /\ ~Answered(told, h.seq)
  BY <1>4, <1>5, <1>7
<1> QED
  BY <1>3, <1>4, <1>5, <1>8, <1>9, <1>10, FinalKeeps

(* OverHeld and what else the actions make of the history.                 *)
LEMMA OverHeldIs ==
  ASSUME past \in PastRec, gtwa \in GtwaRec, NEW p, p = Gtwa!OverHeld(past)
  PROVE  /\ p \in PastRec /\ (~p.overrun => ~past.overrun /\ ~gtwa.hold)
         /\ (p.cut <=> past.cut) /\ (p.dirty <=> past.dirty) /\ (p.lapsed <=> past.lapsed)
         /\ p.silent = past.silent
<1>1. gtwa.hold \in BOOLEAN /\ past.overrun \in BOOLEAN
  BY DEF PastRec, GtwaRec
<1> QED
  BY <1>1 DEF Gtwa!OverHeld, PastRec

(* Between commands the master is at peace.                                *)
LEMMA IdleIsPeace ==
  ASSUME MasterInv, gtwa.state = "IDLE" PROVE past.dirty \/ Peace(master)
BY DEF MasterInv, MasterOk, Peace

(* An empty line and a comment.                                            *)
LEMMA ParseEmptyKeeps ==
  ASSUME GatewayInv, Gtwa!ParseEmpty PROVE GatewayInv'
<1> DEFINE ps == <<<<0, "nl">>>>
<1>1. PICK tok, rest : tok = Gtwa!Token /\ rest = Tail(commFifo)
  OBVIOUS
<1>2. Gtwa!Parses /\ tok.t = "nl" /\ Gtwa!Respond(gtwa, ps) /\ commFifo' = rest
      /\ past' = Gtwa!OverHeld(past) /\ script' = script /\ client' = client /\ master' = master
  BY <1>1 DEF Gtwa!ParseEmpty
<1>3. /\ gtwa.pc = "parse" /\ gtwa.state = "IDLE" /\ Streams(rest, script)
      /\ StreamOk(rest \o script, gtwa.seq) /\ ~Inside(rest \o script)
  BY <1>1, <1>2, ParsedIs DEF Gtwa!Ends
<1>4. GatewayTypes /\ HeldInv /\ AnswerInv /\ MasterInv /\ gtwa \in GtwaRec /\ past \in PastRec
  BY DEF GatewayInv, GatewayTypes
<1>5. /\ past' \in PastRec /\ Overruns /\ (past'.cut <=> past.cut) /\ (past'.dirty <=> past.dirty)
      /\ (past'.lapsed <=> past.lapsed) /\ past'.silent = past.silent
  BY <1>2, <1>4, OverHeldIs DEF Overruns
<1>6. ps \in Seq(Piece) /\ Len(ps) = 1 /\ 1 <= RESP
  <2>1. <<0, "nl">> \in Piece
    BY WordsAre DEF Piece
  <2> QED
    BY <2>1, GatewayAssumption
<1> HIDE DEF ps
<1>7. gtwa' \in GtwaRec /\ SameWork(gtwa', gtwa) /\ HeldInv' /\ told' = told
  <2>1. SameHeld(gtwa) /\ gtwa.pc # "read" /\ gtwa.state # "READ" /\ Len(ps) <= RESP /\ Len(ps) # 2
    BY <1>3, <1>6 DEF SameHeld
  <2> QED
    BY <1>2, <1>4, <1>5, <1>6, <2>1, RespondIs
<1>8. GatewayTypes'
  BY <1>2, <1>3, <1>4, <1>5, <1>7 DEF GatewayTypes, Streams
<1>9. AnswerInv'
  BY <1>2, <1>3, <1>4, <1>5, <1>7 DEF AnswerInv, AnswersOk, SameWork, Shows
<1>10. MasterInv'
  BY <1>2, <1>3, <1>4, <1>5, <1>7 DEF MasterInv, MasterOk, SameWork
<1> QED
  BY <1>7, <1>8, <1>9, <1>10 DEF GatewayInv

(* A line without a sequence number, or with a syntax error.               *)
LEMMA ParseBadKeeps ==
  ASSUME GatewayInv, Gtwa!ParseBad PROVE GatewayInv'
<1>1. PICK tok, late : tok = Gtwa!Token /\ late = (Gtwa!Token.t = "line" /\ Gtwa!Token.kind = "lss_allnodes_bad")
  OBVIOUS
<1>2. /\ Gtwa!Parses /\ (OfValue(tok) \/ tok.t = "line")
      /\ Gtwa!ParseError(IF tok.t = "line" THEN Gtwa!Begun ELSE gtwa)
      /\ master' = [master EXCEPT !.default = @ /\ ~late]
      /\ past' = [Gtwa!Refused EXCEPT !.dirty = @ \/ late]
      /\ script' = script /\ client' = client
  BY <1>1 DEF Gtwa!ParseBad, Gtwa!IsLine, OfValue
<1>3. /\ gtwa.state = "IDLE" /\ (tok.t = "line" => tok.seq \in Nat)
  BY <1>1, <1>2, ParsedIs DEF Numbered
<1>4. /\ MasterInv /\ gtwa \in GtwaRec /\ past \in PastRec /\ master \in MasterRec
      /\ client \in ClientRec
  BY DEF GatewayInv, GatewayTypes
<1>5. PICK o : o = Gtwa!OverHeld(past)
  OBVIOUS
<1>6. /\ o \in PastRec /\ (~o.overrun => ~past.overrun /\ ~gtwa.hold)
      /\ (o.cut <=> past.cut) /\ (o.dirty <=> past.dirty)
  BY <1>4, <1>5, OverHeldIs
<1>7. PICK d \in BOOLEAN : d <=> Gtwa!SelectInSeq(commFifo, Gtwa!Ends) = 0
  OBVIOUS
<1>8. past' = [o EXCEPT !.cut = o.cut \/ d, !.dirty = o.dirty \/ late] /\ late \in BOOLEAN
  <2>1. Gtwa!Refused = [o EXCEPT !.cut = o.cut \/ d]
    BY <1>5, <1>6, <1>7 DEF Gtwa!Refused, PastRec
  <2> QED
    BY <1>1, <1>2, <1>6, <2>1 DEF PastRec
<1>9. /\ past' \in PastRec /\ Overruns /\ (past'.dirty <=> past.dirty \/ late)
      /\ (~past'.cut => ~past.cut /\ ~d)
  BY <1>6, <1>8 DEF PastRec, Overruns
<1>10. master' \in MasterRec /\ (~late /\ Peace(master) => Peace(master'))
  BY <1>2, <1>4, <1>8 DEF MasterRec, Peace
<1>11. past'.dirty \/ Peace(master')
  BY <1>3, <1>4, <1>9, <1>10, IdleIsPeace
<1>12. Types(past', client', master')
  BY <1>2, <1>4, <1>9, <1>10 DEF Types
<1>13. CASE tok.t = "line"
  <2>1. /\ Gtwa!ParseError(Gtwa!Begun) /\ Gtwa!Begun \in GtwaRec /\ SameHeld(Gtwa!Begun)
        /\ Gtwa!Begun.seq = tok.seq /\ Numbered(tok)
    BY <1>1, <1>2, <1>3, <1>4, <1>13, BegunIs DEF Numbered
  <2> QED
    BY <1>1, <1>2, <1>7, <1>9, <1>11, <1>12, <2>1, ParseErrorKeeps
<1>14. CASE tok.t # "line"
  <2>1. Gtwa!ParseError(gtwa) /\ SameHeld(gtwa) /\ OfValue(tok)
    BY <1>2, <1>14 DEF SameHeld
  <2> QED
    BY <1>1, <1>2, <1>4, <1>7, <1>9, <1>11, <1>12, <2>1, ParseErrorKeeps
<1> QED
  BY <1>13, <1>14

(* A command that is answered at once.                                     *)
LEMMA AtOnceKeeps ==
  ASSUME GatewayInv, NEW kind, NEW allowed, NEW refused, NEW g,
         gtwa \in GtwaRec /\ Gtwa!Token.seq \in Nat => g \in GtwaRec,
         g \in GtwaRec => /\ SameHeld(g) /\ g.seq = Gtwa!Token.seq
                          /\ g.state = gtwa.state /\ g.pc = gtwa.pc,
         Gtwa!AnswerAtOnce(kind, allowed, refused, g)
  PROVE  GatewayInv'
<1>1. PICK tok, rest : tok = Gtwa!Token /\ rest = Tail(commFifo)
  OBVIOUS
<1>2. /\ Gtwa!Parses /\ tok.t = "line" /\ past' = Gtwa!OverHeld(past)
      /\ script' = script /\ client' = client /\ master' = master
      /\ \/ Gtwa!Ok(g) /\ commFifo' = rest
         \/ Gtwa!ParseError(Gtwa!Begun)
  BY <1>1 DEF Gtwa!AnswerAtOnce, Gtwa!IsLine
<1>3. Numbered(tok) /\ Gtwa!Ends(tok)
  BY <1>2 DEF Numbered, Gtwa!Ends
<1>4. /\ gtwa.pc = "parse" /\ gtwa.state = "IDLE" /\ Streams(rest, script) /\ tok.seq \in Nat
      /\ ~Inside(rest \o script) /\ StreamOk(rest \o script, tok.seq)
      /\ ~past.cut => ToldOk(told, tok.seq) /\ ~Answered(told, tok.seq)
      /\ Gtwa!SelectInSeq(commFifo, Gtwa!Ends) # 0
  BY <1>1, <1>2, <1>3, ParsedIs
<1>5. /\ MasterInv /\ gtwa \in GtwaRec /\ past \in PastRec /\ master \in MasterRec
      /\ client \in ClientRec
  BY DEF GatewayInv, GatewayTypes
<1>6. past' \in PastRec /\ Overruns /\ (past'.cut <=> past.cut) /\ (past'.dirty <=> past.dirty)
  BY <1>2, <1>5, OverHeldIs DEF Overruns
<1>7. past'.dirty \/ Peace(master')
  BY <1>2, <1>4, <1>5, <1>6, IdleIsPeace
<1>8. Types(past', client', master')
  BY <1>2, <1>5, <1>6 DEF Types
<1>9. CASE Gtwa!Ok(g) /\ commFifo' = rest
  <2>1. /\ g \in GtwaRec /\ SameHeld(g) /\ g.seq = tok.seq /\ g.state = "IDLE" /\ g.pc = "parse"
        /\ Gtwa!Respond(g, Gtwa!Final(g, "ok")) /\ "ok" \in GtwaWord
    BY <1>1, <1>4, <1>5, <1>9, WordsAre DEF Gtwa!Ok
  <2>2. Streams(commFifo', script') /\ StreamOk(commFifo' \o script', g.seq)
        /\ ~Inside(commFifo' \o script')
    BY <1>2, <1>4, <1>9, <2>1
  <2> QED
    BY <1>4, <1>6, <1>7, <1>8, <2>1, <2>2, FinalKeeps
<1>10. CASE Gtwa!ParseError(Gtwa!Begun)
  <2>1. Gtwa!Begun \in GtwaRec /\ SameHeld(Gtwa!Begun) /\ Gtwa!Begun.seq = tok.seq
    BY <1>1, <1>4, <1>5, BegunIs
  <2> QED
    BY <1>1, <1>2, <1>3, <1>4, <1>6, <1>7, <1>8, <1>10, <2>1, ParseErrorKeeps
<1> QED
  BY <1>2, <1>9, <1>10

(* The commands that are answered in the same call.                        *)
LEMMA AnsweredAtOnceKeep ==
  ASSUME GatewayInv, Gtwa!ParseSet \/ Gtwa!ParseNmt \/ Gtwa!ParseDeselect PROVE GatewayInv'
<1> DEFINE g == [Gtwa!Begun EXCEPT !.node = TRUE]
<1>1. /\ gtwa \in GtwaRec /\ Gtwa!Token.seq \in Nat => g \in GtwaRec
      /\ g \in GtwaRec => /\ SameHeld(g) /\ g.seq = Gtwa!Token.seq
                          /\ g.state = gtwa.state /\ g.pc = gtwa.pc
  BY DEF Gtwa!Begun, GtwaRec, SameHeld
<1>2. /\ gtwa \in GtwaRec /\ Gtwa!Token.seq \in Nat => Gtwa!Begun \in GtwaRec
      /\ Gtwa!Begun \in GtwaRec => /\ SameHeld(Gtwa!Begun) /\ Gtwa!Begun.seq = Gtwa!Token.seq
                                   /\ Gtwa!Begun.state = gtwa.state /\ Gtwa!Begun.pc = gtwa.pc
  BY DEF Gtwa!Begun, GtwaRec, SameHeld
<1>3. CASE Gtwa!ParseSet
  <2>1. Gtwa!AnswerAtOnce("set_node", TRUE, FALSE, g)
    BY <1>3 DEF Gtwa!ParseSet
  <2> HIDE DEF g
  <2> QED
    BY <1>1, <2>1, AtOnceKeeps
<1>4. CASE Gtwa!ParseNmt
  BY <1>2, <1>4, AtOnceKeeps DEF Gtwa!ParseNmt
<1>5. CASE Gtwa!ParseDeselect
  BY <1>2, <1>5, AtOnceKeeps DEF Gtwa!ParseDeselect
<1> QED
  BY <1>3, <1>4, <1>5

(* Nothing is said: what is held stays.                                    *)
LEMMA QuietHeld ==
  ASSUME GatewayTypes, HeldInv, gtwa.pc # "read", NEW g \in GtwaRec, SameHeld(g),
         g.pc # "read",
         g.state = "READ" /\ g.copied /\ (g.pc = "parse" \/ g.pc = "state") => ~gtwa.hold,
         Gtwa!Quiet(g), ~past'.overrun => ~past.overrun,
         Types(past', client', master'), Streams(commFifo', script')
  PROVE  GatewayTypes' /\ HeldInv' /\ gtwa' = g /\ told' = told
<1>1. gtwa' = g /\ due' = due /\ told' = told
  BY DEF Gtwa!Quiet
<1>2. HeldOk(g, due, past'.overrun)
  BY DEF HeldInv, HeldOk, SameHeld
<1>3. HeldInv'
  BY <1>1, <1>2 DEF HeldInv
<1>4. GatewayTypes'
  BY <1>1 DEF GatewayTypes, Types, Streams
<1> QED
  BY <1>1, <1>3, <1>4

(* The parser has a command begun that the state machine goes on with.     *)
LEMMA StartKeeps ==
  ASSUME GatewayInv, Gtwa!Parses, NEW tok, tok = Gtwa!Token, Numbered(tok),
         NEW g \in GtwaRec, SameHeld(g), g.seq = tok.seq, g.pc = "parse",
         g.state # "IDLE", g.state # "WRITE_ABORTED", g.state = "READ" => ~g.copied,
         Gtwa!Quiet(g), ~past'.overrun => ~past.overrun,
         Types(past', client', master'), Streams(commFifo', script'),
         StreamOk(commFifo' \o script', tok.seq),
         Shows(g.state) => past'.silent = tok.seq,
         g.state = "WRITE" => client'.state = "DOWNLOAD",
         ~past'.cut => /\ ~past.cut
                       /\ Inside(commFifo' \o script') => g.state = "WRITE" /\ g.copied
  PROVE  GatewayTypes' /\ HeldInv' /\ AnswerInv' /\ gtwa' = g
<1>1. /\ gtwa.pc = "parse"
      /\ ~past.cut => ToldOk(told, tok.seq) /\ ~Answered(told, tok.seq)
  BY ParsedIs
<1>2. GatewayTypes' /\ HeldInv' /\ gtwa' = g /\ told' = told
  BY <1>1, QuietHeld DEF GatewayInv
<1>3. PICK h : h = gtwa'
  OBVIOUS
<1>4. h.seq = tok.seq /\ h.pc = "parse" /\ h.state = g.state /\ (h.copied <=> g.copied)
  BY <1>2, <1>3
<1>5. ~past'.cut => AnswersOk'
  BY <1>1, <1>2, <1>3, <1>4 DEF AnswersOk
<1>6. AnswerInv'
  BY <1>2, <1>3, <1>4, <1>5 DEF AnswerInv
<1> QED
  BY <1>2, <1>6

(* A command in work is gone on with, or the gateway stays idle.           *)
LEMMA GoesOn ==
  ASSUME AnswerInv, gtwa'.state = gtwa.state, gtwa'.seq = gtwa.seq,
         gtwa.state = "WRITE" =>
           (gtwa'.copied <=> gtwa.copied) /\ client'.state = client.state,
         gtwa'.pc = "read" => gtwa.state = "READ",
         told' = told, commFifo' \o script' = commFifo \o script,
         past'.silent = past.silent, past'.cut <=> past.cut, past.lapsed => past'.lapsed
  PROVE  AnswerInv'
<1>1. PICK g : g = gtwa'
  OBVIOUS
<1>2. /\ g.state = gtwa.state /\ g.seq = gtwa.seq
      /\ gtwa.state = "WRITE" => (g.copied <=> gtwa.copied)
      /\ g.pc = "read" => gtwa.state = "READ"
  BY <1>1
<1>3. AnswersOk => AnswersOk'
  BY <1>1, <1>2 DEF AnswersOk
<1> QED
  BY <1>1, <1>2, <1>3 DEF AnswerInv

(* A command that waits for the LSS master.                                *)
LEMMA ParseLssKeeps ==
  ASSUME GatewayInv, Gtwa!ParseLss PROVE GatewayInv'
<1>1. PICK tok, rest, g : /\ tok = Gtwa!Token /\ rest = Tail(commFifo)
                          /\ g = [Gtwa!Begun EXCEPT !.state = "lss"]
  OBVIOUS
<1>2. /\ Gtwa!Parses /\ tok.t = "line" /\ Gtwa!Quiet(g) /\ commFifo' = rest
      /\ script' = script /\ client' = client /\ master' = master /\ past' = past
  BY <1>1 DEF Gtwa!ParseLss, Gtwa!GoOn, Gtwa!IsLine
<1>3. Numbered(tok) /\ Gtwa!Ends(tok)
  BY <1>2 DEF Numbered, Gtwa!Ends
<1>4. /\ gtwa.pc = "parse" /\ gtwa.state = "IDLE" /\ Streams(rest, script) /\ tok.seq \in Nat
      /\ ~Inside(rest \o script) /\ StreamOk(rest \o script, tok.seq)
  BY <1>1, <1>2, <1>3, ParsedIs
<1>5. MasterInv /\ gtwa \in GtwaRec /\ Types(past, client, master)
  BY DEF GatewayInv, GatewayTypes, Types
<1>6. /\ Gtwa!Begun \in GtwaRec /\ Gtwa!Begun.seq = tok.seq /\ SameHeld(Gtwa!Begun)
      /\ Gtwa!Begun.pc = "parse"
  BY <1>1, <1>4, <1>5, BegunIs
<1>7. g \in GtwaRec /\ SameHeld(g) /\ g.seq = tok.seq /\ g.pc = "parse" /\ g.state = "lss"
  BY <1>1, <1>6, WordsAre DEF GtwaRec, SameHeld
<1>8. GatewayTypes' /\ HeldInv' /\ AnswerInv' /\ gtwa' = g
  <2>1. Streams(commFifo', script') /\ StreamOk(commFifo' \o script', tok.seq)
        /\ ~Inside(commFifo' \o script') /\ Types(past', client', master')
    BY <1>2, <1>4, <1>5
  <2> QED
    BY <1>1, <1>2, <1>3, <1>7, <2>1, StartKeeps DEF Shows
<1>9. MasterInv'
  BY <1>2, <1>4, <1>5, <1>7, <1>8, IdleIsPeace DEF MasterInv, MasterOk, AtRest, Peace
<1> QED
  BY <1>8, <1>9 DEF GatewayInv

(* A scan begins, or is refused for an argument.                           *)
LEMMA ParseScanKeeps ==
  ASSUME GatewayInv, Gtwa!ParseScan PROVE GatewayInv'
<1>1. PICK tok, rest : tok = Gtwa!Token /\ rest = Tail(commFifo)
  OBVIOUS
<1>2. PICK s \in BOOLEAN :
        Gtwa!GoOn(Gtwa!Scans, [Gtwa!Begun EXCEPT !.sub = 0, !.nid = 126,
                                                 !.store = s /\ Gtwa!Token.kind = "lss_allnodes"])
  BY DEF Gtwa!ParseScan
<1>3. PICK st \in BOOLEAN : st <=> (s /\ Gtwa!Token.kind = "lss_allnodes")
  OBVIOUS
<1>4. PICK g : g = [Gtwa!Begun EXCEPT !.sub = 0, !.nid = 126, !.store = st, !.state = tok.kind]
  OBVIOUS
<1>5. Gtwa!Parses /\ tok.t = "line" /\ (tok.kind = "_lss_fastscan" \/ tok.kind = "lss_allnodes")
  BY <1>1, <1>2 DEF Gtwa!GoOn, Gtwa!IsLine, Gtwa!Scans
<1>6. Numbered(tok) /\ Gtwa!Ends(tok)
  BY <1>5 DEF Numbered, Gtwa!Ends
<1>7. /\ gtwa.pc = "parse" /\ gtwa.state = "IDLE" /\ Streams(rest, script) /\ tok.seq \in Nat
      /\ ~Inside(rest \o script) /\ StreamOk(rest \o script, tok.seq)
  BY <1>1, <1>5, <1>6, ParsedIs
<1>8. MasterInv /\ gtwa \in GtwaRec /\ Types(past, client, master)
  BY DEF GatewayInv, GatewayTypes, Types
<1>9. /\ Gtwa!Begun \in GtwaRec /\ Gtwa!Begun.seq = tok.seq /\ SameHeld(Gtwa!Begun)
      /\ Gtwa!Begun.pc = "parse"
  BY <1>1, <1>7, <1>8, BegunIs
<1>10. /\ Gtwa!Quiet(g) /\ commFifo' = rest /\ script' = script /\ client' = client
       /\ past' = past /\ master' = [master EXCEPT !.default = FALSE]
  <2>1. [[Gtwa!Begun EXCEPT !.sub = 0, !.nid = 126, !.store = s /\ Gtwa!Token.kind = "lss_allnodes"]
           EXCEPT !.state = Gtwa!Token.kind] = g
    BY <1>1, <1>3, <1>4, <1>9 DEF GtwaRec
  <2> QED
    BY <1>1, <1>2, <2>1 DEF Gtwa!ParseScan, Gtwa!GoOn
<1>11. tok.kind \in GtwaWord
  BY <1>5, WordsAre
<1>12. /\ g \in GtwaRec /\ SameHeld(g) /\ g.seq = tok.seq /\ g.pc = "parse" /\ g.state = tok.kind
       /\ g.sub = 0
  BY <1>4, <1>9, <1>11 DEF GtwaRec, SameHeld
<1>13. Types(past', client', master') /\ (master.command = "WAITING" => master'.command = "WAITING")
  BY <1>8, <1>10 DEF Types, MasterRec
<1>14. GatewayTypes' /\ HeldInv' /\ AnswerInv' /\ gtwa' = g
  <2>1. Streams(commFifo', script') /\ StreamOk(commFifo' \o script', tok.seq)
        /\ ~Inside(commFifo' \o script')
    BY <1>7, <1>10
  <2> QED
    BY <1>1, <1>5, <1>6, <1>10, <1>12, <1>13, <2>1, StartKeeps DEF Shows
<1>15. MasterInv'
  BY <1>5, <1>7, <1>8, <1>10, <1>12, <1>13, <1>14, IdleIsPeace DEF MasterInv, MasterOk, AtRest, Peace
<1> QED
  BY <1>14, <1>15 DEF GatewayInv

(* The commands whose text is printed: log, help and LEDs.                 *)
LEMMA ParseShownKeeps ==
  ASSUME GatewayInv, Gtwa!ParseShown PROVE GatewayInv'
<1>1. PICK tok, rest, g : /\ tok = Gtwa!Token /\ rest = Tail(commFifo)
                          /\ g = [Gtwa!Begun EXCEPT !.offset = 0, !.led = "none", !.state = tok.kind]
  OBVIOUS
<1>2. /\ Gtwa!Parses /\ tok.t = "line" /\ Shows(tok.kind) /\ commFifo' = rest
      /\ script' = script /\ client' = client /\ master' = master
      /\ past' = [past EXCEPT !.silent = tok.seq]
  BY <1>1 DEF Gtwa!ParseShown, Gtwa!GoOn, Gtwa!IsLine, Gtwa!Silent, Shows
<1>3. Numbered(tok) /\ Gtwa!Ends(tok)
  BY <1>2 DEF Numbered, Gtwa!Ends
<1>4. /\ gtwa.pc = "parse" /\ gtwa.state = "IDLE" /\ Streams(rest, script) /\ tok.seq \in Nat
      /\ ~Inside(rest \o script) /\ StreamOk(rest \o script, tok.seq)
  BY <1>1, <1>2, <1>3, ParsedIs
<1>5. MasterInv /\ gtwa \in GtwaRec /\ Types(past, client, master)
  BY DEF GatewayInv, GatewayTypes, Types
<1>6. /\ Gtwa!Begun \in GtwaRec /\ Gtwa!Begun.seq = tok.seq /\ SameHeld(Gtwa!Begun)
      /\ Gtwa!Begun.pc = "parse"
  BY <1>1, <1>4, <1>5, BegunIs
<1>7. Gtwa!Quiet(g)
  <2>1. [[Gtwa!Begun EXCEPT !.offset = 0, !.led = "none"] EXCEPT !.state = Gtwa!Token.kind] = g
    BY <1>1, <1>6 DEF GtwaRec
  <2> QED
    BY <2>1 DEF Gtwa!ParseShown, Gtwa!GoOn
<1>8. tok.kind \in GtwaWord /\ 0 \in 0..HELP
  BY <1>2, WordsAre, GatewayAssumption DEF Shows
<1>9. g \in GtwaRec /\ SameHeld(g) /\ g.seq = tok.seq /\ g.pc = "parse" /\ g.state = tok.kind
  BY <1>1, <1>6, <1>8, WordsAre DEF GtwaRec, SameHeld
<1>10. /\ past' \in PastRec /\ past'.silent = tok.seq /\ (past'.cut <=> past.cut)
       /\ (past'.dirty <=> past.dirty) /\ (past'.overrun <=> past.overrun)
  BY <1>2, <1>4, <1>5 DEF Types, PastRec
<1>11. GatewayTypes' /\ HeldInv' /\ AnswerInv' /\ gtwa' = g
  <2>1. Streams(commFifo', script') /\ StreamOk(commFifo' \o script', tok.seq)
        /\ ~Inside(commFifo' \o script') /\ Types(past', client', master')
    BY <1>2, <1>4, <1>5, <1>10 DEF Types
  <2>2. g.state # "IDLE" /\ g.state # "WRITE_ABORTED" /\ g.state # "READ" /\ g.state # "WRITE"
    BY <1>2, <1>9 DEF Shows
  <2> QED
    BY <1>1, <1>2, <1>3, <1>7, <1>9, <1>10, <2>1, <2>2, StartKeeps
<1>12. MasterInv'
  BY <1>2, <1>4, <1>5, <1>9, <1>10, <1>11, IdleIsPeace DEF MasterInv, MasterOk, Peace, Shows
<1> QED
  BY <1>11, <1>12 DEF GatewayInv

(* The parser begins a read or a write, or refuses it.                     *)
LEMMA ParseReadKeeps ==
  ASSUME GatewayInv, Gtwa!ParseRead PROVE GatewayInv'
<1>1. PICK tok, rest, g : /\ tok = Gtwa!Token /\ rest = Tail(commFifo)
                          /\ g = [Gtwa!Begun EXCEPT !.copied = FALSE, !.state = "READ"]
  OBVIOUS
<1>2. /\ Gtwa!Parses /\ tok.t = "line" /\ script' = script /\ master' = master
      /\ \/ /\ Gtwa!Quiet(g) /\ client' = [state |-> "UPLOAD", n |-> 0, left |-> OBJECT]
            /\ commFifo' = rest /\ past' = past
         \/ Gtwa!ParseError(Gtwa!Begun) /\ past' = Gtwa!OverHeld(past) /\ client' = client
  BY <1>1 DEF Gtwa!ParseRead, Gtwa!IsLine
<1>3. Numbered(tok) /\ Gtwa!Ends(tok)
  BY <1>2 DEF Numbered, Gtwa!Ends
<1>4. /\ gtwa.pc = "parse" /\ gtwa.state = "IDLE" /\ Streams(rest, script) /\ tok.seq \in Nat
      /\ ~Inside(rest \o script) /\ StreamOk(rest \o script, tok.seq)
      /\ Gtwa!SelectInSeq(commFifo, Gtwa!Ends) # 0
  BY <1>1, <1>2, <1>3, ParsedIs
<1>5. MasterInv /\ gtwa \in GtwaRec /\ Types(past, client, master) /\ past \in PastRec
  BY DEF GatewayInv, GatewayTypes, Types
<1>6. /\ Gtwa!Begun \in GtwaRec /\ Gtwa!Begun.seq = tok.seq /\ SameHeld(Gtwa!Begun)
      /\ Gtwa!Begun.pc = "parse"
  BY <1>1, <1>4, <1>5, BegunIs
<1>7. CASE /\ Gtwa!Quiet(g) /\ client' = [state |-> "UPLOAD", n |-> 0, left |-> OBJECT]
           /\ commFifo' = rest /\ past' = past
  <2>1. g \in GtwaRec /\ SameHeld(g) /\ g.seq = tok.seq /\ g.pc = "parse" /\ g.state = "READ" /\ ~g.copied
    BY <1>1, <1>6, WordsAre DEF GtwaRec, SameHeld
  <2>2. client' \in ClientRec
    BY <1>7, GatewayAssumption, WordsAre DEF ClientRec
  <2>3. GatewayTypes' /\ HeldInv' /\ AnswerInv' /\ gtwa' = g
    <3>1. Streams(commFifo', script') /\ StreamOk(commFifo' \o script', tok.seq)
          /\ ~Inside(commFifo' \o script') /\ Types(past', client', master')
      BY <1>2, <1>4, <1>5, <1>7, <2>2 DEF Types
    <3> QED
      BY <1>1, <1>2, <1>3, <1>7, <2>1, <3>1, StartKeeps DEF Shows
  <2>4. MasterInv'
    BY <1>2, <1>4, <1>5, <1>7, <2>1, <2>3, IdleIsPeace DEF MasterInv, MasterOk, Peace
  <2> QED
    BY <2>3, <2>4 DEF GatewayInv
<1>8. CASE Gtwa!ParseError(Gtwa!Begun) /\ past' = Gtwa!OverHeld(past) /\ client' = client
  <2>1. past' \in PastRec /\ Overruns /\ (past'.cut <=> past.cut) /\ (past'.dirty <=> past.dirty)
    BY <1>5, <1>8, OverHeldIs DEF Overruns
  <2>2. past'.dirty \/ Peace(master')
    BY <1>2, <1>4, <1>5, <2>1, IdleIsPeace
  <2>3. Types(past', client', master')
    BY <1>2, <1>5, <1>8, <2>1 DEF Types
  <2> QED
    BY <1>1, <1>2, <1>3, <1>4, <1>6, <1>8, <2>1, <2>2, <2>3, ParseErrorKeeps
<1> QED
  BY <1>2, <1>7, <1>8

(* A command that is refused.                                              *)
LEMMA RefusedIs ==
  ASSUME past \in PastRec, gtwa \in GtwaRec, NEW p, p = Gtwa!Refused
  PROVE  /\ p \in PastRec /\ (~p.overrun => ~past.overrun /\ ~gtwa.hold)
         /\ (p.dirty <=> past.dirty)
         /\ (p.cut <=> past.cut \/ Gtwa!SelectInSeq(commFifo, Gtwa!Ends) = 0)
<1>1. PICK o : o = Gtwa!OverHeld(past)
  OBVIOUS
<1>2. /\ o \in PastRec /\ (~o.overrun => ~past.overrun /\ ~gtwa.hold)
      /\ (o.cut <=> past.cut) /\ (o.dirty <=> past.dirty)
  BY <1>1, OverHeldIs
<1>3. PICK d \in BOOLEAN : d <=> Gtwa!SelectInSeq(commFifo, Gtwa!Ends) = 0
  OBVIOUS
<1>4. p = [o EXCEPT !.cut = o.cut \/ d]
  BY <1>1, <1>2, <1>3 DEF Gtwa!Refused, PastRec
<1> QED
  BY <1>2, <1>3, <1>4 DEF PastRec

(* The rest of a line, when the scan of its value has taken some of it:    *)
(* what ends the line ends it for the scan as well.                        *)
LEMMA ScannedIs ==
  ASSUME NEW c \in Seq(Token), NEW d \in Seq(Token), NEW n \in 0..SDO_BUF, NEW q,
         StreamOk(c \o d, q), NEW s, s = Gtwa!Scan(c, n),
         NEW e, e = IF s.closed THEN s.rest ELSE Gtwa!Cleared(s.rest)
  PROVE  /\ Streams(c, d) => Streams(s.rest, d) /\ Streams(e, d)
         /\ StreamOk(s.rest \o d, q) /\ StreamOk(e \o d, q)
         /\ s.closed => ~Inside(s.rest \o d)
         /\ Gtwa!SelectInSeq(c, Gtwa!Ends) # 0 => ~Inside(e \o d)
<1>0. \E k \in 0..Len(c) : Takes(c, s, k)
  BY ValueScanIs
<1>1. PICK k \in 0..Len(c) :
        /\ s.rest = RestAfter(c, k)
        /\ s.closed => k \in DOMAIN c /\ Gtwa!Ends(c[k])
        /\ ~s.closed => \A i \in 1..k : c[i].t = "data"
  BY <1>0 DEF Takes
<1>2. PICK r : r = s.rest
  OBVIOUS
<1>3. /\ r \in Seq(Token) /\ Len(r) = Len(c) - k /\ StreamOk(r \o d, q)
      /\ s.closed => ~Inside(r \o d)
  BY <1>1, <1>2, BehindIs
<1>4. Len(c) \in Nat /\ COMM \in Nat /\ Len(r) <= Len(c) /\ DOMAIN c = 1..Len(c)
  BY <1>3, GatewayAssumption
<1>5. /\ Gtwa!Cleared(r) \in Seq(Token) /\ Len(Gtwa!Cleared(r)) <= Len(r)
      /\ StreamOk(Gtwa!Cleared(r) \o d, q)
      /\ Gtwa!SelectInSeq(r, Gtwa!Ends) # 0 => ~Inside(Gtwa!Cleared(r) \o d)
  BY <1>3, ClearedKeeps
<1>6. Streams(c, d) => Streams(r, d) /\ Streams(Gtwa!Cleared(r), d)
  BY <1>3, <1>4, <1>5 DEF Streams
<1>7. ASSUME ~s.closed, Gtwa!SelectInSeq(c, Gtwa!Ends) # 0
      PROVE  Gtwa!SelectInSeq(r, Gtwa!Ends) # 0
  <2>1. PICK j \in DOMAIN c : Gtwa!Ends(c[j])
    BY <1>7, ClearedIs
  <2>2. \A i \in 1..k : ~Gtwa!Ends(c[i])
    BY <1>1, <1>7 DEF Gtwa!Ends
  <2>3. j > k /\ j \in 1..Len(c)
    BY <1>4, <2>1, <2>2
  <2>4. j - k \in DOMAIN r /\ r[j - k] = c[j]
    BY <1>1, <1>2, <1>3, <2>3 DEF RestAfter
  <2> QED
    BY <1>3, <2>1, <2>4, ClearedIs
<1>8. s.closed \in BOOLEAN
  BY ValueScanIs
<1>9. CASE s.closed
  BY <1>2, <1>3, <1>6, <1>9
<1>10. CASE ~s.closed
  BY <1>2, <1>3, <1>5, <1>6, <1>7, <1>10
<1> QED
  BY <1>8, <1>9, <1>10

(* A write begins, or is refused.                                          *)
LEMMA ParseWriteKeeps ==
  ASSUME GatewayInv, Gtwa!ParseWrite PROVE GatewayInv'
<1>1. PICK tok, rest, s : /\ tok = Gtwa!Token /\ rest = Tail(commFifo)
                          /\ s = Gtwa!Scan(Tail(commFifo), 0)
  OBVIOUS
<1>2. PICK g : g = [Gtwa!Begun EXCEPT !.copied = ~s.closed]
  OBVIOUS
<1>3. PICK h : h = [Gtwa!Begun EXCEPT !.copied = ~s.closed, !.timer = 0, !.state = "WRITE"]
  OBVIOUS
<1>4. PICK e : e = IF s.closed THEN s.rest ELSE Gtwa!Cleared(s.rest)
  OBVIOUS
<1>5. /\ Gtwa!Parses /\ tok.t = "write" /\ script' = script /\ master' = master
      /\ \/ Gtwa!ParseError(Gtwa!Begun) /\ past' = Gtwa!Refused /\ client' = client
         \/ /\ client' = [state |-> "DOWNLOAD", n |-> s.n, left |-> 0]
            /\ \/ Gtwa!Error(Gtwa!Resting(g)) /\ past' = Gtwa!Refused /\ commFifo' = e
               \/ /\ Gtwa!Quiet(h) /\ commFifo' = s.rest /\ past' = past
  BY <1>1, <1>2, <1>3, <1>4 DEF Gtwa!ParseWrite
<1>6. Numbered(tok) /\ ~Gtwa!Ends(tok)
  BY <1>5 DEF Numbered, Gtwa!Ends
<1>7. /\ gtwa.pc = "parse" /\ gtwa.state = "IDLE" /\ Streams(rest, script) /\ tok.seq \in Nat
      /\ StreamOk(rest \o script, tok.seq) /\ rest = RestAfter(commFifo, 1)
      /\ commFifo # <<>> /\ tok = commFifo[1]
      /\ ~past.cut => ToldOk(told, tok.seq) /\ ~Answered(told, tok.seq)
  <2>1. tok = Gtwa!Token /\ rest = Tail(commFifo) /\ Gtwa!Parses
    BY <1>1, <1>5
  <2>2. Numbered(tok)
    BY <1>6
  <2>3. /\ gtwa.pc = "parse" /\ gtwa.state = "IDLE" /\ Streams(rest, script)
        /\ commFifo # <<>> /\ tok = commFifo[1]
    BY <2>1, ParsedIs
  <2>4. tok.seq \in Nat /\ StreamOk(rest \o script, tok.seq)
    BY <2>1, <2>2, ParsedIs
  <2>5. ~past.cut => ToldOk(told, tok.seq) /\ ~Answered(told, tok.seq)
    BY <2>1, <2>2, ParsedIs
  <2>6. rest = RestAfter(commFifo, 1)
    <3>1. commFifo \in Seq(Token)
      BY DEF GatewayInv, GatewayTypes
    <3>2. rest = SubSeq(commFifo, 2, Len(commFifo))
      BY <2>1, <2>3, <3>1, TailIsSubSeq
    <3> QED
      BY <3>2 DEF RestAfter
  <2> QED
    BY <2>3, <2>4, <2>5, <2>6
<1>8. /\ MasterInv /\ gtwa \in GtwaRec /\ Types(past, client, master) /\ past \in PastRec
      /\ commFifo \in Seq(Token)
  BY DEF GatewayInv, GatewayTypes, Types
<1>9. /\ Gtwa!Begun \in GtwaRec /\ Gtwa!Begun.seq = tok.seq /\ SameHeld(Gtwa!Begun)
      /\ Gtwa!Begun.pc = "parse" /\ Gtwa!Begun.state = "IDLE"
  BY <1>1, <1>7, <1>8, BegunIs
<1>10. SDO_BUF \in Nat /\ 0 \in 0..SDO_BUF /\ rest \in Seq(Token) /\ script \in Seq(Token)
  BY <1>7, GatewayAssumption DEF Streams
<1>11. s = Gtwa!Scan(rest, 0) /\ s.n \in 0..SDO_BUF /\ s.closed \in BOOLEAN
  BY <1>1, <1>10, ValueScanIs
<1>12. /\ Streams(s.rest, script) /\ Streams(e, script)
       /\ StreamOk(s.rest \o script, tok.seq) /\ StreamOk(e \o script, tok.seq)
       /\ s.closed => ~Inside(s.rest \o script)
       /\ Gtwa!SelectInSeq(rest, Gtwa!Ends) # 0 => ~Inside(e \o script)
  BY <1>4, <1>7, <1>10, <1>11, ScannedIs
<1>13. past' = Gtwa!Refused =>
         /\ past' \in PastRec /\ Overruns /\ (past'.dirty <=> past.dirty)
         /\ past'.cut <=> past.cut \/ Gtwa!SelectInSeq(commFifo, Gtwa!Ends) = 0
  BY <1>8, RefusedIs DEF Overruns
<1>14. past' = Gtwa!Refused => past'.dirty \/ Peace(master')
  BY <1>5, <1>7, <1>8, <1>13, IdleIsPeace
<1>15. client' = [state |-> "DOWNLOAD", n |-> s.n, left |-> 0] =>
         client' \in ClientRec /\ client'.state = "DOWNLOAD"
  BY <1>11, WordsAre DEF ClientRec
<1>16. CASE Gtwa!ParseError(Gtwa!Begun) /\ past' = Gtwa!Refused /\ client' = client
  <2>1. Types(past', client', master')
    BY <1>5, <1>8, <1>13, <1>16 DEF Types
  <2> QED
    BY <1>1, <1>5, <1>6, <1>9, <1>13, <1>14, <1>16, <2>1, ParseErrorKeeps
<1>17. CASE /\ client' = [state |-> "DOWNLOAD", n |-> s.n, left |-> 0]
            /\ Gtwa!Error(Gtwa!Resting(g)) /\ past' = Gtwa!Refused /\ commFifo' = e
  <2>1. PICK f : f = Gtwa!Resting(g)
    OBVIOUS
  <2>2. g \in GtwaRec /\ SameHeld(g) /\ g.seq = tok.seq
    BY <1>2, <1>9, <1>11 DEF GtwaRec, SameHeld
  <2>3. f \in GtwaRec /\ f.pc = "out" /\ f.state = "IDLE" /\ f.seq = tok.seq /\ SameHeld(f)
    BY <2>1, <2>2, RestingIs
  <2>4. Gtwa!Respond(f, Gtwa!Final(f, "err")) /\ "err" \in GtwaWord
    BY <1>17, <2>1, WordsAre DEF Gtwa!Error
  <2>5. Types(past', client', master')
    BY <1>5, <1>8, <1>13, <1>15, <1>17 DEF Types
  <2>6. Gtwa!SelectInSeq(commFifo, Gtwa!Ends) # 0 => Gtwa!SelectInSeq(rest, Gtwa!Ends) # 0
    <3> SUFFICES ASSUME Gtwa!SelectInSeq(commFifo, Gtwa!Ends) # 0
                 PROVE  Gtwa!SelectInSeq(rest, Gtwa!Ends) # 0
      OBVIOUS
    <3>1. PICK k \in DOMAIN commFifo : Gtwa!Ends(commFifo[k])
      BY <1>8, ClearedIs
    <3>2. k \in 2..Len(commFifo)
      BY <1>6, <1>7, <1>8, <3>1
    <3>3. k - 1 \in DOMAIN rest /\ rest[k - 1] = commFifo[k]
      BY <1>7, <1>8, <3>2 DEF RestAfter
    <3> QED
      BY <1>10, <3>1, <3>3, ClearedIs
  <2>7. ~past'.cut => /\ ~Inside(commFifo' \o script') /\ ~past.cut
                      /\ ToldOk(told, f.seq) /\ ~Answered(told, f.seq)
    BY <1>5, <1>7, <1>12, <1>13, <1>17, <2>3, <2>6
  <2>8. Streams(commFifo', script') /\ StreamOk(commFifo' \o script', f.seq)
    BY <1>5, <1>12, <1>17, <2>3
  <2> QED
    BY <1>7, <1>13, <1>14, <1>17, <2>3, <2>4, <2>5, <2>7, <2>8, FinalKeeps
<1>18. CASE /\ client' = [state |-> "DOWNLOAD", n |-> s.n, left |-> 0]
            /\ Gtwa!Quiet(h) /\ commFifo' = s.rest /\ past' = past
  <2>1. /\ h \in GtwaRec /\ SameHeld(h) /\ h.seq = tok.seq /\ h.pc = "parse" /\ h.state = "WRITE"
        /\ h.copied <=> ~s.closed
    BY <1>3, <1>9, <1>11, WordsAre DEF GtwaRec, SameHeld
  <2>2. Streams(commFifo', script') /\ StreamOk(commFifo' \o script', tok.seq)
        /\ (Inside(commFifo' \o script') => h.copied)
    BY <1>5, <1>12, <1>18, <2>1
  <2>3. Types(past', client', master')
    BY <1>5, <1>8, <1>15, <1>18 DEF Types
  <2>4. GatewayTypes' /\ HeldInv' /\ AnswerInv' /\ gtwa' = h
    BY <1>1, <1>5, <1>6, <1>15, <1>18, <2>1, <2>2, <2>3, StartKeeps DEF Shows
  <2>5. MasterInv'
    BY <1>5, <1>7, <1>8, <1>18, <2>1, <2>4, IdleIsPeace DEF MasterInv, MasterOk, Peace
  <2> QED
    BY <2>4, <2>5 DEF GatewayInv
<1> QED
  BY <1>5, <1>16, <1>17, <1>18

(* The line has been looked at.                                            *)
LEMMA ParseDoneKeeps ==
  ASSUME GatewayInv, Gtwa!ParseDone PROVE GatewayInv'
<1>1. PICK g : g = Gtwa!At(gtwa, IF gtwa.state = "IDLE" THEN "out" ELSE "state")
  OBVIOUS
<1>2. /\ gtwa.pc = "parse" /\ Gtwa!Quiet(g) /\ commFifo' = commFifo /\ script' = script
      /\ client' = client /\ master' = master /\ past' = past
  BY <1>1 DEF Gtwa!ParseDone
<1>3. /\ GatewayTypes /\ HeldInv /\ gtwa \in GtwaRec /\ Types(past, client, master)
      /\ Streams(commFifo, script)
  BY DEF GatewayInv, GatewayTypes, Types, Streams
<1>4. /\ g \in GtwaRec /\ SameHeld(g) /\ SameWork(g, [gtwa EXCEPT !.pc = g.pc])
      /\ g.pc # "read" /\ (gtwa.state = "IDLE" => g.pc = "out")
  BY <1>1, <1>3, WordsAre DEF Gtwa!At, GtwaRec, SameHeld, SameWork
<1>5. g.state = gtwa.state /\ g.seq = gtwa.seq /\ g.sub = gtwa.sub /\ (g.copied <=> gtwa.copied)
  BY <1>1, <1>3 DEF Gtwa!At, GtwaRec
<1>6. g.state = "READ" /\ g.copied /\ (g.pc = "parse" \/ g.pc = "state") => ~gtwa.hold
  BY <1>2, <1>3, <1>5 DEF HeldInv, HeldOk
<1>7. GatewayTypes' /\ HeldInv' /\ gtwa' = g /\ told' = told
  BY <1>2, <1>3, <1>4, <1>6, QuietHeld
<1>8. AnswerInv'
  BY <1>2, <1>4, <1>5, <1>7, GoesOn DEF GatewayInv
<1>9. MasterInv'
  BY <1>2, <1>5, <1>7 DEF GatewayInv, MasterInv, MasterOk, AtRest
<1> QED
  BY <1>7, <1>8, <1>9 DEF GatewayInv

(* The application, between two calls.                                     *)
LEMMA WrittenKeeps ==
  ASSUME GatewayInv, Gtwa!CO_GTWA_write PROVE GatewayInv'
<1>1. PICK x, d : x = Head(script) /\ d = Tail(script)
  OBVIOUS
<1>2. /\ script # <<>> /\ Len(commFifo) < COMM /\ commFifo' = Append(commFifo, x) /\ script' = d
      /\ gtwa' = gtwa /\ client' = client /\ master' = master /\ due' = due /\ told' = told
      /\ past' = past
  BY <1>1 DEF Gtwa!CO_GTWA_write
<1>3. GatewayTypes /\ commFifo \in Seq(Token) /\ script \in Seq(Token)
  BY DEF GatewayInv, GatewayTypes
<1>4. /\ x \in Token /\ d \in Seq(Token) /\ script = <<x>> \o d
      /\ Len(d) = Len(script) - 1 /\ x = script[1] /\ \A i \in 1..Len(d) : d[i] = script[i + 1]
      /\ Len(script) \in Nat /\ Len(script) > 0
  BY <1>1, <1>2, <1>3
<1>5. PICK c : c = Append(commFifo, x)
  OBVIOUS
<1>6. /\ c \in Seq(Token) /\ Len(c) = Len(commFifo) + 1 /\ c[Len(commFifo) + 1] = x
      /\ \A i \in 1..Len(commFifo) : c[i] = commFifo[i]
  BY <1>3, <1>4, <1>5, AppendProperties
<1>7. c \o d = commFifo \o script
  <2>1. /\ c \o d \in Seq(Token) /\ Len(c \o d) = Len(c) + Len(d)
        /\ \A i \in 1..(Len(c) + Len(d)) : (c \o d)[i] = IF i <= Len(c) THEN c[i] ELSE d[i - Len(c)]
    BY <1>4, <1>6, ConcatProperties
  <2>2. /\ commFifo \o script \in Seq(Token) /\ Len(commFifo \o script) = Len(commFifo) + Len(script)
        /\ \A i \in 1..(Len(commFifo) + Len(script)) :
             (commFifo \o script)[i] = IF i <= Len(commFifo) THEN commFifo[i] ELSE script[i - Len(commFifo)]
    BY <1>3, ConcatProperties
  <2> DEFINE a == c \o d
             b == commFifo \o script
  <2> HIDE DEF a, b
  <2>3. /\ a \in Seq(Token) /\ Len(a) = Len(c) + Len(d)
        /\ \A i \in 1..(Len(c) + Len(d)) : a[i] = IF i <= Len(c) THEN c[i] ELSE d[i - Len(c)]
    BY <2>1 DEF a
  <2>4. /\ b \in Seq(Token) /\ Len(b) = Len(commFifo) + Len(script)
        /\ \A i \in 1..(Len(commFifo) + Len(script)) :
             b[i] = IF i <= Len(commFifo) THEN commFifo[i] ELSE script[i - Len(commFifo)]
    BY <2>2 DEF b
  <2>5. Len(commFifo) \in Nat /\ Len(d) \in Nat
    BY <1>3, <1>4
  <2>6. Len(a) = Len(b) /\ Len(a) \in Nat
    BY <1>4, <1>6, <2>3, <2>4, <2>5
  <2>7. ASSUME NEW i \in 1..Len(a) PROVE a[i] = b[i]
    <3>1. CASE i <= Len(commFifo)
      BY <1>6, <2>3, <2>4, <2>5, <2>6, <3>1
    <3>2. CASE i = Len(commFifo) + 1
      BY <1>4, <1>6, <2>3, <2>4, <2>5, <2>6, <3>2
    <3>3. CASE i > Len(commFifo) + 1
      <4>1. i - Len(c) \in 1..Len(d) /\ i - Len(c) + 1 = i - Len(commFifo) /\ ~(i <= Len(c))
            /\ ~(i <= Len(commFifo))
        BY <1>6, <2>3, <2>5, <2>7, <3>3
      <4>2. d[i - Len(c)] = script[i - Len(commFifo)]
        BY <1>4, <4>1
      <4> QED
        BY <2>3, <2>4, <2>6, <4>1, <4>2
    <3> QED
      BY <2>5, <2>6, <3>1, <3>2, <3>3
  <2>8. a = b
    BY <2>3, <2>4, <2>6, <2>7, SeqEqual
  <2> QED
    BY <2>8 DEF a, b
<1>8. GatewayTypes'
  <2>1. COMM \in Nat /\ Len(commFifo) \in Nat
    BY <1>3, GatewayAssumption
  <2>2. Len(c) <= COMM
    BY <1>2, <1>6, <2>1
  <2> QED
    BY <1>2, <1>3, <1>4, <1>5, <1>6, <2>2 DEF GatewayTypes
<1>9. HeldInv' /\ MasterInv'
  BY <1>2 DEF GatewayInv, HeldInv, MasterInv, MasterOk, AtRest
<1>10. AnswerInv'
  BY <1>2, <1>5, <1>7, GoesOn DEF GatewayInv, AnswerInv
<1> QED
  BY <1>8, <1>9, <1>10 DEF GatewayInv

(* The application prints into the log.                                    *)
LEMMA LoggedKeeps ==
  ASSUME GatewayInv, Gtwa!CO_GTWA_log_print PROVE GatewayInv'
<1>1. PICK g : g = [gtwa EXCEPT !.log = @ + 1]
  OBVIOUS
<1>2. /\ gtwa' = g /\ commFifo' = commFifo /\ script' = script
      /\ client' = client /\ master' = master /\ past' = past /\ due' = due /\ told' = told
  BY <1>1 DEF Gtwa!CO_GTWA_log_print
<1>3. GatewayTypes /\ HeldInv /\ gtwa \in GtwaRec
  BY DEF GatewayInv, GatewayTypes
<1>4. g \in GtwaRec /\ SameHeld(g) /\ SameWork(g, gtwa)
  BY <1>1, <1>3 DEF GtwaRec, SameHeld, SameWork
<1>5. GatewayTypes' /\ HeldInv'
  BY <1>2, <1>3, <1>4 DEF GatewayTypes, HeldInv, HeldOk, SameHeld, SameWork
<1>6. AnswerInv'
  BY <1>2, <1>4, GoesOn DEF GatewayInv, AnswerInv, SameWork
<1>7. MasterInv'
  BY <1>2, <1>4 DEF GatewayInv, MasterInv, MasterOk, AtRest, SameWork
<1> QED
  BY <1>5, <1>6, <1>7 DEF GatewayInv

(* The gateway is disabled.                                                *)
LEMMA DisableKeeps ==
  ASSUME GatewayInv, Gtwa!Disable PROVE GatewayInv'
<1>1. PICK g, p : /\ g = [gtwa EXCEPT !.state = "IDLE"] /\ p = past'
  OBVIOUS
<1>2. /\ gtwa.pc = "out" /\ gtwa' = g /\ due' = due /\ told' = told /\ commFifo' = <<>>
      /\ script' = script /\ client' = client /\ master' = master
  BY <1>1 DEF Gtwa!Disable, Gtwa!Quiet
<1>3. /\ GatewayTypes /\ HeldInv /\ AnswerInv /\ MasterInv /\ gtwa \in GtwaRec /\ past \in PastRec
      /\ commFifo \in Seq(Token) /\ script \in Seq(Token)
  BY DEF GatewayInv, GatewayTypes
<1>4. PICK x \in BOOLEAN, y \in BOOLEAN :
        /\ x <=> \/ commFifo # <<>> /\ ~Gtwa!Ends(Gtwa!Last(commFifo))
                 \/ (gtwa.state = "WRITE" \/ gtwa.state = "WRITE_ABORTED") /\ gtwa.copied
        /\ y <=> master.command # "WAITING" \/ ~master.default
  OBVIOUS
<1>5. p = [past EXCEPT !.lapsed = TRUE, !.cut = past.cut \/ x, !.dirty = past.dirty \/ y]
  <2>1. gtwa.state \in {"WRITE", "WRITE_ABORTED"} <=> gtwa.state = "WRITE" \/ gtwa.state = "WRITE_ABORTED"
    OBVIOUS
  <2>2. past.cut \in BOOLEAN /\ past.dirty \in BOOLEAN
    BY <1>3 DEF PastRec
  <2>3. (past.cut \/ (commFifo # <<>> /\ ~Gtwa!Ends(Gtwa!Last(commFifo)))
             \/ (gtwa.state \in {"WRITE", "WRITE_ABORTED"} /\ gtwa.copied)) = (past.cut \/ x)
    BY <1>4, <2>1, <2>2
  <2>4. (past.dirty \/ master.command # "WAITING" \/ ~master.default) = (past.dirty \/ y)
    BY <1>4, <2>2
  <2> QED
    BY <1>1, <1>3, <2>3, <2>4 DEF Gtwa!Disable, PastRec
<1>6. /\ p \in PastRec /\ p.overrun = past.overrun /\ p.lapsed /\ (p.cut <=> past.cut \/ x)
      /\ (p.dirty <=> past.dirty \/ y) /\ p.silent = past.silent
  BY <1>3, <1>5 DEF PastRec
<1>7. /\ g \in GtwaRec /\ SameHeld(g) /\ g.pc = "out" /\ g.state = "IDLE" /\ g.seq = gtwa.seq
  BY <1>1, <1>2, <1>3, WordsAre DEF GtwaRec, SameHeld
<1>8. HeldInv'
  <2>1. HeldOk(g, due, p.overrun)
    BY <1>2, <1>3, <1>6, <1>7 DEF HeldInv, HeldOk, SameHeld
  <2> QED
    BY <1>1, <1>2, <2>1 DEF HeldInv
<1>9. GatewayTypes'
  <2>1. <<>> \in Seq(Token) /\ Len(<<>>) <= COMM
    BY GatewayAssumption
  <2> QED
    BY <1>1, <1>2, <1>3, <1>6, <1>7, <2>1 DEF GatewayTypes
<1>10. commFifo' \o script' = script
  BY <1>2, <1>3, ConcatEmptySeq
<1>11. StreamOk(script, gtwa.seq) /\ (~p.cut => ~Inside(script))
  <2>1. StreamOk(commFifo \o script, gtwa.seq) /\ (~past.cut => AnswersOk)
    BY <1>3 DEF AnswerInv
  <2>2. PICK k : k = Len(commFifo)
    OBVIOUS
  <2>3. k \in 0..Len(commFifo) /\ RestAfter(commFifo, k) = <<>> /\ <<>> \o script = script
    BY <1>3, <2>2, ConcatEmptySeq DEF RestAfter
  <2>4. StreamOk(script, gtwa.seq) /\ (k \in DOMAIN commFifo /\ Gtwa!Ends(commFifo[k]) => ~Inside(script))
    <3> HIDE DEF RestAfter
    <3>1. /\ StreamOk(RestAfter(commFifo, k) \o script, gtwa.seq)
          /\ k \in DOMAIN commFifo /\ Gtwa!Ends(commFifo[k]) => ~Inside(RestAfter(commFifo, k) \o script)
      BY <1>3, <2>1, <2>3, BehindIs
    <3> QED
      BY <2>3, <3>1
  <2>5. CASE commFifo = <<>>
    <3>1. commFifo \o script = script
      BY <1>3, <2>5, ConcatEmptySeq
    <3> QED
      BY <1>4, <1>6, <2>1, <2>4, <3>1 DEF AnswersOk
  <2>6. CASE commFifo # <<>>
    <3>1. k \in DOMAIN commFifo /\ Gtwa!Last(commFifo) = commFifo[k]
      BY <1>3, <2>2, <2>6 DEF Gtwa!Last
    <3> QED
      BY <1>4, <1>6, <2>4, <2>6, <3>1
  <2> QED
    BY <2>5, <2>6
<1>12. AnswerInv'
  <2>1. ~p.cut => AnswersOk'
    <3>1. ~p.cut => ToldOk(told, gtwa.seq)
      BY <1>3, <1>6 DEF AnswerInv, AnswersOk
    <3> QED
      BY <1>1, <1>2, <1>6, <1>7, <1>10, <1>11, <3>1 DEF AnswersOk
  <2> QED
    BY <1>1, <1>2, <1>7, <1>10, <1>11, <2>1 DEF AnswerInv, Shows
<1>13. MasterInv'
  <2>1. p.dirty \/ Peace(master)
    BY <1>4, <1>6 DEF Peace
  <2> QED
    BY <1>1, <1>2, <1>7, <2>1 DEF MasterInv, MasterOk, Peace
<1> QED
  BY <1>8, <1>9, <1>12, <1>13 DEF GatewayInv

(* A call of CO_GTWA_process begins: a response that is held is offered    *)
(* first.                                                                  *)
LEMMA CallKeeps ==
  ASSUME GatewayInv, Gtwa!Call PROVE GatewayInv'
<1>1. /\ GatewayTypes /\ HeldInv /\ AnswerInv /\ MasterInv /\ gtwa \in GtwaRec
  BY DEF GatewayInv, GatewayTypes
<1>2. PICK c \in 0..gtwa.count :
        LET g == IF gtwa.hold THEN Gtwa!Taken(gtwa, c) ELSE gtwa IN
        /\ gtwa' = Gtwa!At(g, IF g.hold THEN "out" ELSE "parse")
        /\ due' = IF gtwa.hold THEN Gtwa!Unread(due, c) ELSE due
  BY DEF Gtwa!Call
<1>3. PICK g, h : /\ g = IF gtwa.hold THEN Gtwa!Taken(gtwa, c) ELSE gtwa
                  /\ h = gtwa'
  OBVIOUS
<1>4. /\ h = Gtwa!At(g, IF g.hold THEN "out" ELSE "parse")
      /\ due' = IF gtwa.hold THEN Gtwa!Unread(due, c) ELSE due
      /\ gtwa.pc = "out"
      /\ commFifo' = commFifo /\ script' = script /\ client' = client /\ master' = master
      /\ told' = told /\ past' = past
  BY <1>2, <1>3 DEF Gtwa!Call
<1>5. /\ g \in GtwaRec /\ SameWork(g, gtwa) /\ (g.hold <=> g.count > 0) /\ (~g.hold => g.off = 0)
      /\ ~past.overrun => g.off + g.count <= RESP /\ due' = Held(g)
  <2>1. CASE gtwa.hold
    <3>1. g = Gtwa!Taken(gtwa, c) /\ due' = Gtwa!Unread(due, c)
      BY <1>3, <1>4, <2>1
    <3>2. /\ g \in GtwaRec /\ SameWork(g, gtwa) /\ (g.hold <=> g.count > 0) /\ (~g.hold => g.off = 0)
          /\ gtwa.off + gtwa.count <= RESP =>
               g.off + g.count <= RESP /\ Gtwa!Unread(Held(gtwa), c) = Held(g)
      BY <1>1, <1>2, <3>1, TakenIs
    <3>3. ~past.overrun => gtwa.off + gtwa.count <= RESP /\ due = Held(gtwa)
      BY <1>1 DEF HeldInv, HeldOk, Held
    <3> QED
      BY <3>1, <3>2, <3>3
  <2>2. CASE ~gtwa.hold
    <3>1. g = gtwa /\ due' = due
      BY <1>3, <1>4, <2>2
    <3> QED
      BY <1>1, <1>4, <3>1 DEF SameWork, HeldInv, HeldOk, Held
  <2> QED
    BY <2>1, <2>2
<1>6. /\ h \in GtwaRec /\ SameWork(h, [gtwa EXCEPT !.pc = h.pc]) /\ (h.hold <=> g.hold)
      /\ h.pc = (IF g.hold THEN "out" ELSE "parse")
      /\ h.count = g.count /\ h.off = g.off /\ h.buf = g.buf
      /\ h.state = gtwa.state /\ h.seq = gtwa.seq /\ h.sub = gtwa.sub /\ (h.copied <=> gtwa.copied)
  <2>1. h.pc \in GtwaWord
    BY <1>4, <1>5, WordsAre DEF Gtwa!At, GtwaRec
  <2> QED
    BY <1>1, <1>4, <1>5, WordsAre DEF Gtwa!At, GtwaRec, SameWork
<1>7. HeldInv'
  <2>1. HeldOk(h, due', past.overrun)
    BY <1>5, <1>6 DEF HeldOk, Held
  <2> QED
    BY <1>3, <1>4, <2>1 DEF HeldInv
<1>8. GatewayTypes'
  BY <1>1, <1>3, <1>4, <1>6 DEF GatewayTypes
<1>9. AnswerInv'
  BY <1>1, <1>3, <1>4, <1>6, GoesOn
<1>10. MasterInv'
  BY <1>1, <1>3, <1>4, <1>6 DEF MasterInv, MasterOk, AtRest
<1> QED
  BY <1>7, <1>8, <1>9, <1>10 DEF GatewayInv

(* The answer to a command that the state machine has in work.             *)
LEMMA ClosesKeeps ==
  ASSUME GatewayInv, gtwa.pc # "read", gtwa.state # "IDLE", gtwa.state # "WRITE",
         gtwa.state # "WRITE_ABORTED", NEW r \in GtwaWord,
         Gtwa!Respond(Gtwa!Resting(gtwa), Gtwa!Final(Gtwa!Resting(gtwa), r)),
         past' = Gtwa!OverHeld(past), client' \in ClientRec, master' \in MasterRec,
         commFifo' = commFifo, script' = script, past.dirty \/ Peace(master')
  PROVE  GatewayInv'
<1>1. /\ AnswerInv /\ gtwa \in GtwaRec /\ past \in PastRec /\ Streams(commFifo, script)
  BY DEF GatewayInv, GatewayTypes, Streams
<1>2. PICK g : g = Gtwa!Resting(gtwa)
  OBVIOUS
<1>3. g \in GtwaRec /\ g.pc = "out" /\ g.state = "IDLE" /\ g.seq = gtwa.seq /\ SameHeld(g)
  BY <1>1, <1>2, RestingIs DEF SameHeld
<1>4. /\ past' \in PastRec /\ Overruns /\ (past'.cut <=> past.cut) /\ (past'.dirty <=> past.dirty)
  BY <1>1, OverHeldIs DEF Overruns
<1>5. /\ StreamOk(commFifo \o script, gtwa.seq)
      /\ ~past.cut => /\ ~Inside(commFifo \o script)
                      /\ ToldOk(told, gtwa.seq) /\ ~Answered(told, gtwa.seq)
  BY <1>1 DEF AnswerInv, AnswersOk
<1>6. Gtwa!Respond(g, Gtwa!Final(g, r))
  BY <1>2
<1>7. Types(past', client', master') /\ Streams(commFifo', script')
  BY <1>1, <1>4 DEF Types
<1>8. StreamOk(commFifo' \o script', g.seq) /\ (past'.dirty \/ Peace(master'))
  BY <1>3, <1>4, <1>5
<1>9. ~past'.cut => /\ ~Inside(commFifo' \o script') /\ ~past.cut
                    /\ ToldOk(told, g.seq) /\ ~Answered(told, g.seq)
  BY <1>3, <1>4, <1>5
<1> QED
  BY <1>3, <1>4, <1>6, <1>7, <1>8, <1>9, FinalKeeps

(* Nothing is said, and the gateway is left, in the state it is in.        *)
LEMMA WaitsKeeps ==
  ASSUME GatewayInv, gtwa.pc # "read", gtwa.state # "WRITE", Gtwa!Quiet(Gtwa!At(gtwa, "out")),
         past' = past, client' \in ClientRec, master' \in MasterRec,
         commFifo' = commFifo, script' = script, MasterInv'
  PROVE  GatewayInv'
<1>1. PICK g : g = Gtwa!At(gtwa, "out")
  OBVIOUS
<1>2. /\ GatewayTypes /\ HeldInv /\ AnswerInv /\ gtwa \in GtwaRec
      /\ Types(past, client', master') /\ Streams(commFifo, script)
  BY DEF GatewayInv, GatewayTypes, Types, Streams
<1>3. /\ g \in GtwaRec /\ SameHeld(g) /\ g.pc = "out" /\ g.state = gtwa.state /\ g.seq = gtwa.seq
  BY <1>1, <1>2, WordsAre DEF Gtwa!At, GtwaRec, SameHeld
<1>4. GatewayTypes' /\ HeldInv' /\ gtwa' = g /\ told' = told
  BY <1>1, <1>2, <1>3, QuietHeld
<1>5. AnswerInv'
  BY <1>2, <1>3, <1>4, GoesOn
<1> QED
  BY <1>4, <1>5 DEF GatewayInv

(* Units of the object come, or all of them, or an abort.                  *)
LEMMA UploadStepIs ==
  ASSUME client \in ClientRec, NEW u \in Gtwa!UploadStep
  PROVE  /\ u[2] \in ClientRec
         /\ u[1] = "waiting" \/ u[1] = "abort" \/ u[1] = "full" \/ u[1] = "end"
<1>1. SDO_BUF \in Nat
  BY GatewayAssumption
<1> DEFINE m == IF client.left < SDO_BUF - client.n THEN client.left ELSE SDO_BUF - client.n
           c == [client EXCEPT !.n = @ + m, !.left = @ - m]
<1>2. c \in ClientRec
  <2>1. client.n \in 0..SDO_BUF /\ client.left \in Nat
    BY DEF ClientRec
  <2>2. client.n + m \in 0..SDO_BUF /\ client.left - m \in Nat
    BY <1>1, <2>1
  <2> QED
    BY <2>2 DEF ClientRec
<1>3. [client EXCEPT !.state = "IDLE"] \in ClientRec /\ [c EXCEPT !.state = "IDLE"] \in ClientRec
  <2> HIDE DEF c
  <2> QED
    BY <1>2, WordsAre DEF ClientRec
<1>4. \/ u = <<"end", client>> \/ u = <<"abort", [client EXCEPT !.state = "IDLE"]>>
      \/ u = <<"waiting", client>> \/ u = <<"end", [c EXCEPT !.state = "IDLE"]>> \/ u = <<"full", c>>
  BY DEF Gtwa!UploadStep
<1> HIDE DEF c
<1> QED
  BY <1>2, <1>3, <1>4

(* A read goes on until the SDO client has ended or its buffer is full.    *)
LEMMA UploadKeeps ==
  ASSUME GatewayInv, Gtwa!Upload PROVE GatewayInv'
<1>1. /\ GatewayTypes /\ HeldInv /\ AnswerInv /\ MasterInv /\ gtwa \in GtwaRec /\ past \in PastRec
      /\ client \in ClientRec /\ master \in MasterRec
  BY DEF GatewayInv, GatewayTypes
<1>2. gtwa.pc = "state" /\ gtwa.state = "READ" /\ commFifo' = commFifo /\ script' = script /\ master' = master
  BY DEF Gtwa!Upload, Gtwa!In
<1>3. PICK u \in Gtwa!UploadStep :
       /\ client' = u[2]
       /\ \/ u[1] = "waiting" /\ Gtwa!Quiet(Gtwa!At(gtwa, "out")) /\ past' = past
          \/ u[1] = "abort" /\ Gtwa!Error(Gtwa!Resting(gtwa)) /\ past' = Gtwa!OverHeld(past)
          \/ /\ u[1] \in {"full", "end"}
             /\ LET g == [gtwa EXCEPT !.pc = "read", !.ret = u[1], !.copied = TRUE]
                    head == <<<<g.seq, "head">>>>
                IN  IF gtwa.copied THEN Gtwa!Quiet(g) /\ past' = past
                    ELSE /\ gtwa' = Gtwa!Formed(g, head) /\ due' = due \o head
                         /\ past' = Gtwa!OverHeld(past) /\ told' = told
  BY DEF Gtwa!Upload
<1>4. client' \in ClientRec /\ (u[1] = "waiting" \/ u[1] = "abort" \/ u[1] = "full" \/ u[1] = "end")
  BY <1>1, <1>3, UploadStepIs
<1>5. PICK g : g = [gtwa EXCEPT !.pc = "read", !.ret = u[1], !.copied = TRUE]
  OBVIOUS
<1>6. PICK head : head = <<<<gtwa.seq, "head">>>>
  OBVIOUS
<1>7. \/ Gtwa!Quiet(Gtwa!At(gtwa, "out")) /\ past' = past
      \/ Gtwa!Error(Gtwa!Resting(gtwa)) /\ past' = Gtwa!OverHeld(past)
      \/ gtwa.copied /\ Gtwa!Quiet(g) /\ past' = past /\ (u[1] = "full" \/ u[1] = "end")
      \/ /\ gtwa' = Gtwa!Formed(g, head) /\ due' = due \o head /\ past' = Gtwa!OverHeld(past)
         /\ told' = told /\ (u[1] = "full" \/ u[1] = "end")
  BY <1>1, <1>3, <1>5, <1>6 DEF GtwaRec
<1>8. MasterInv /\ (past.dirty \/ Peace(master))
  BY <1>1, <1>2 DEF MasterInv, MasterOk, Peace
<1>9. CASE Gtwa!Quiet(Gtwa!At(gtwa, "out")) /\ past' = past
  <2>1. gtwa'.state = gtwa.state
    BY <1>1, <1>9 DEF Gtwa!Quiet, Gtwa!At, GtwaRec
  <2>2. PICK h : h = gtwa'
    OBVIOUS
  <2>3. MasterInv'
    BY <1>2, <1>8, <1>9, <2>1, <2>2 DEF MasterInv, MasterOk, Peace
  <2> QED
    BY <1>1, <1>2, <1>4, <1>9, <2>3, WaitsKeeps
<1>10. CASE Gtwa!Error(Gtwa!Resting(gtwa)) /\ past' = Gtwa!OverHeld(past)
  <2>1. Gtwa!Respond(Gtwa!Resting(gtwa), Gtwa!Final(Gtwa!Resting(gtwa), "err")) /\ "err" \in GtwaWord
    BY <1>10, WordsAre DEF Gtwa!Error
  <2> QED
    BY <1>1, <1>2, <1>4, <1>8, <1>10, <2>1, ClosesKeeps
<1>11. u[1] = "full" \/ u[1] = "end" =>
         /\ g \in GtwaRec /\ SameHeld(g) /\ g.pc = "read" /\ g.state = "READ" /\ g.seq = gtwa.seq
  <2>1. u[1] = "full" \/ u[1] = "end" => u[1] \in GtwaWord
    BY WordsAre
  <2> QED
    BY <1>1, <1>2, <1>5, <2>1, WordsAre DEF GtwaRec, SameHeld
<1>12. RESP \in Nat /\ RESP > 1 /\ gtwa.count \in 0..RESP
  BY <1>1, GatewayAssumption DEF GtwaRec
<1>13. CASE gtwa.copied /\ Gtwa!Quiet(g) /\ past' = past /\ (u[1] = "full" \/ u[1] = "end")
  <2>1. gtwa' = g /\ due' = due /\ told' = told
    BY <1>13 DEF Gtwa!Quiet
  <2>2. HeldOk(g, due, past.overrun)
    <3>1. ~gtwa.hold /\ gtwa.count = 0
      BY <1>1, <1>2, <1>12, <1>13 DEF HeldInv, HeldOk
    <3>2. gtwa.off = 0 /\ (~past.overrun => due = Held(gtwa))
      BY <1>1, <3>1 DEF HeldInv, HeldOk, Held
    <3>3. Held(g) = Held(gtwa) /\ g.off = 0 /\ g.count = 0 /\ ~g.hold /\ g.pc = "read"
      BY <1>11, <1>13, <3>1, <3>2 DEF SameHeld, Held
    <3> QED
      BY <1>12, <3>2, <3>3 DEF HeldOk, Held
  <2>3. HeldInv'
    BY <1>13, <2>1, <2>2 DEF HeldInv
  <2>4. GatewayTypes'
    BY <1>1, <1>2, <1>4, <1>11, <1>13, <2>1 DEF GatewayTypes
  <2>5. AnswerInv'
    BY <1>1, <1>2, <1>11, <1>13, <2>1, GoesOn
  <2>6. MasterInv'
    BY <1>2, <1>8, <1>11, <1>13, <2>1 DEF MasterInv, MasterOk, Peace
  <2> QED
    BY <2>3, <2>4, <2>5, <2>6 DEF GatewayInv
<1>14. CASE /\ gtwa' = Gtwa!Formed(g, head) /\ due' = due \o head /\ past' = Gtwa!OverHeld(past)
            /\ told' = told /\ (u[1] = "full" \/ u[1] = "end")
  <2>1. head \in Seq(Piece) /\ Len(head) = 1
    <3>1. <<gtwa.seq, "head">> \in Piece
      BY <1>1, WordsAre DEF Piece, GtwaRec
    <3> QED
      BY <1>6, <3>1
  <2>2. PICK f : f = gtwa'
    OBVIOUS
  <2>3. /\ f \in GtwaRec /\ SameWork(f, g) /\ f.count = 1 /\ f.off = g.off /\ (f.hold <=> g.hold)
        /\ g.off = 0 => Held(f) = head
    <3>1. Len(head) <= RESP /\ f = Gtwa!Formed(g, head) /\ g \in GtwaRec
      BY <1>11, <1>12, <1>14, <2>1, <2>2
    <3> QED
      BY <2>1, <3>1, FormedIs
  <2>4. /\ past' \in PastRec /\ Overruns /\ (past'.cut <=> past.cut) /\ (past'.dirty <=> past.dirty)
        /\ (past'.lapsed <=> past.lapsed) /\ past'.silent = past.silent
    BY <1>1, <1>14, OverHeldIs DEF Overruns
  <2>5. ~past'.overrun => ~f.hold /\ f.off + f.count <= RESP /\ due \o head = Held(f)
    <3> SUFFICES ASSUME ~past'.overrun
                 PROVE  ~f.hold /\ f.off + f.count <= RESP /\ due \o head = Held(f)
      OBVIOUS
    <3>1. ~past.overrun /\ ~gtwa.hold
      BY <2>4 DEF Overruns
    <3>2. gtwa.off = 0 /\ gtwa.count = 0 /\ due = [i \in 1..gtwa.count |-> gtwa.buf[gtwa.off + i]]
      BY <1>1, <1>2, <1>12, <3>1 DEF HeldInv, HeldOk
    <3>3. due = <<>>
      BY <3>2
    <3>4. due \o head = head
      BY <2>1, <3>3, ConcatEmptySeq
    <3> QED
      BY <1>11, <1>12, <1>14, <2>3, <3>1, <3>2, <3>4 DEF SameHeld
  <2>6. f.pc = "read" /\ f.state = "READ" /\ f.seq = gtwa.seq
    BY <1>11, <1>14, <2>3 DEF SameWork
  <2>7. ~f.hold => f.off = 0
    BY <1>1, <1>11, <1>14, <2>3 DEF HeldInv, HeldOk, SameHeld
  <2>8. HeldInv'
    <3>1. HeldOk(f, due \o head, past'.overrun)
      BY <1>12, <2>3, <2>5, <2>6, <2>7 DEF HeldOk, Held
    <3> QED
      BY <1>14, <2>2, <3>1 DEF HeldInv
  <2>9. GatewayTypes'
    BY <1>1, <1>2, <1>4, <1>14, <2>2, <2>3, <2>4 DEF GatewayTypes
  <2>10. AnswerInv'
    BY <1>1, <1>2, <1>14, <2>2, <2>4, <2>6, GoesOn
  <2>11. MasterInv'
    BY <1>2, <1>8, <2>2, <2>4, <2>6 DEF MasterInv, MasterOk, Peace
  <2> QED
    BY <2>8, <2>9, <2>10, <2>11 DEF GatewayInv
<1> QED
  BY <1>7, <1>9, <1>10, <1>13, <1>14

(* The pieces of the value that are printed behind what is in the buffer.  *)
Printed(ps, s) ==
  [gtwa EXCEPT !.buf = [i \in 1..RESP |->
                  IF i - gtwa.count \in DOMAIN ps THEN ps[i - gtwa.count] ELSE gtwa.buf[i]],
               !.count = gtwa.count + Len(ps), !.state = s]

(* A piece of what has been read, in the response buffer.                  *)
LEMMA PrintedIs ==
  ASSUME gtwa \in GtwaRec, gtwa.count < RESP, NEW ps \in Seq(Piece), Len(ps) <= RESP - gtwa.count,
         NEW s \in GtwaWord,
         NEW g, g = Printed(ps, s)
  PROVE  /\ g \in GtwaRec /\ g.state = s /\ g.seq = gtwa.seq /\ g.off = gtwa.off
         /\ g.count = gtwa.count + Len(ps)
         /\ gtwa.off = 0 /\ due = Held(gtwa) => due \o ps = Held(g)
<1>1. /\ RESP \in Nat /\ gtwa.count \in Nat /\ Len(ps) \in Nat /\ DOMAIN ps = 1..Len(ps)
      /\ gtwa.buf \in [1..RESP -> Piece] /\ \A i \in 1..Len(ps) : ps[i] \in Piece
  BY GatewayAssumption DEF GtwaRec
<1>2. PICK b : b = [i \in 1..RESP |-> IF i - gtwa.count \in DOMAIN ps THEN ps[i - gtwa.count] ELSE gtwa.buf[i]]
  OBVIOUS
<1>3. b \in [1..RESP -> Piece]
  BY <1>1, <1>2
<1>4. gtwa.count + Len(ps) \in 0..RESP
  BY <1>1
<1>5. g = [gtwa EXCEPT !.buf = b, !.count = gtwa.count + Len(ps), !.state = s]
  BY <1>2 DEF Printed
<1>6. /\ g \in GtwaRec /\ g.state = s /\ g.seq = gtwa.seq /\ g.off = gtwa.off
      /\ g.count = gtwa.count + Len(ps) /\ g.buf = b
  BY <1>3, <1>4, <1>5 DEF GtwaRec
<1>7. ASSUME gtwa.off = 0, due = Held(gtwa) PROVE due \o ps = Held(g)
  <2> DEFINE d == Held(gtwa)
             e == Held(g)
             a == d \o ps
  <2>1. /\ d \in Seq(Piece) /\ Len(d) = gtwa.count /\ \A i \in 1..gtwa.count : d[i] = gtwa.buf[i]
    <3>1. \A i \in 1..gtwa.count : gtwa.off + i = i /\ gtwa.buf[gtwa.off + i] \in Piece
      BY <1>1, <1>7
    <3>2. /\ d \in Seq(Piece) /\ Len(d) = gtwa.count
          /\ \A i \in 1..gtwa.count : d[i] = gtwa.buf[gtwa.off + i]
      BY <1>1, <3>1 DEF Held
    <3> HIDE DEF d
    <3> QED
      BY <3>1, <3>2
  <2>2. /\ e \in Seq(Piece) /\ Len(e) = gtwa.count + Len(ps) /\ \A i \in 1..(gtwa.count + Len(ps)) : e[i] = b[i]
    <3>1. /\ \A i \in 1..g.count : g.off + i = i /\ g.buf[g.off + i] \in Piece /\ g.buf[i] = b[i]
          /\ g.count \in Nat
      BY <1>1, <1>3, <1>4, <1>6, <1>7
    <3>2. /\ e \in Seq(Piece) /\ Len(e) = g.count
          /\ \A i \in 1..g.count : e[i] = g.buf[g.off + i]
      BY <3>1 DEF Held
    <3> HIDE DEF e
    <3> QED
      BY <1>6, <3>1, <3>2
  <2> HIDE DEF d, e
  <2>3. /\ a \in Seq(Piece) /\ Len(a) = gtwa.count + Len(ps)
        /\ \A i \in 1..(gtwa.count + Len(ps)) : a[i] = IF i <= gtwa.count THEN d[i] ELSE ps[i - gtwa.count]
    <3>1. /\ d \o ps \in Seq(Piece) /\ Len(d \o ps) = Len(d) + Len(ps)
          /\ \A i \in 1..(Len(d) + Len(ps)) :
               (d \o ps)[i] = IF i <= Len(d) THEN d[i] ELSE ps[i - Len(d)]
      BY <2>1, ConcatProperties
    <3> QED
      BY <2>1, <3>1
  <2> HIDE DEF a
  <2>4. ASSUME NEW i \in 1..(gtwa.count + Len(ps)) PROVE a[i] = e[i]
    <3>1. CASE i <= gtwa.count
      <4>1. ~(i - gtwa.count \in DOMAIN ps) /\ i \in 1..RESP
        BY <1>1, <2>4, <3>1
      <4>2. b[i] = gtwa.buf[i]
        BY <1>2, <4>1
      <4> QED
        BY <1>1, <2>1, <2>2, <2>3, <2>4, <3>1, <4>2
    <3>2. CASE i > gtwa.count
      <4>1. i - gtwa.count \in DOMAIN ps /\ i \in 1..RESP
        BY <1>1, <2>4, <3>2
      <4>2. b[i] = ps[i - gtwa.count]
        BY <1>2, <4>1
      <4>3. ~(i <= gtwa.count)
        BY <1>1, <2>4, <3>2
      <4> QED
        BY <2>2, <2>3, <4>2, <4>3
    <3> QED
      BY <1>1, <3>1, <3>2
  <2>5. a = e
    BY <1>1, <2>2, <2>3, <2>4, SeqEqual
  <2> QED
    BY <1>7, <2>5 DEF a, d, e
<1> QED
  BY <1>6, <1>7

(* What has been read is printed piece by piece, until the buffer is full. *)
LEMMA PrintDataKeeps ==
  ASSUME GatewayInv, Gtwa!PrintData PROVE GatewayInv'
<1>1. /\ GatewayTypes /\ HeldInv /\ AnswerInv /\ MasterInv /\ gtwa \in GtwaRec /\ past \in PastRec
      /\ client \in ClientRec /\ master \in MasterRec /\ told \in Seq(Piece)
  BY DEF GatewayInv, GatewayTypes
<1>2. gtwa.pc = "read" /\ gtwa.state = "READ" /\ gtwa.count < RESP
  BY <1>1 DEF Gtwa!PrintData, AnswerInv, HeldInv, HeldOk
<1>3. /\ RESP \in Nat /\ gtwa.count \in 0..RESP /\ client.n \in 0..SDO_BUF /\ SDO_BUF \in Nat
      /\ gtwa.seq \in Nat
  BY <1>1, GatewayAssumption DEF GtwaRec, ClientRec
<1>4. PICK m : m = IF client.n < RESP - 1 - gtwa.count THEN client.n ELSE RESP - 1 - gtwa.count
  OBVIOUS
<1>5. m \in Nat /\ m <= RESP - 1 - gtwa.count /\ m <= client.n /\ client.n - m \in 0..SDO_BUF
  BY <1>2, <1>3, <1>4
<1>6. PICK last \in BOOLEAN : last <=> gtwa.ret = "end" /\ client.n = m
  OBVIOUS
<1>7. PICK ps : ps = IF last THEN Append([i \in 1..m |-> <<gtwa.seq, "unit">>], <<gtwa.seq, "end">>)
                     ELSE [i \in 1..m |-> <<gtwa.seq, "unit">>]
  OBVIOUS
<1>8. ps \in Seq(Piece) /\ Len(ps) <= RESP - gtwa.count
  <2>1. <<gtwa.seq, "unit">> \in Piece /\ <<gtwa.seq, "end">> \in Piece
    BY <1>3, WordsAre DEF Piece
  <2>2. PICK us : us = [i \in 1..m |-> <<gtwa.seq, "unit">>]
    OBVIOUS
  <2>3. us \in Seq(Piece) /\ Len(us) = m
    BY <1>5, <2>1, <2>2
  <2>4. Append(us, <<gtwa.seq, "end">>) \in Seq(Piece) /\ Len(Append(us, <<gtwa.seq, "end">>)) = m + 1
    BY <2>1, <2>3, AppendProperties
  <2> QED
    <3>1. CASE last
      <4>1. ps = Append(us, <<gtwa.seq, "end">>)
        BY <1>7, <2>2, <3>1
      <4> QED
        BY <1>3, <1>5, <2>4, <4>1
    <3>2. CASE ~last
      <4>1. ps = us
        BY <1>7, <2>2, <3>2
      <4> QED
        BY <1>3, <1>5, <2>3, <4>1
    <3> QED
      BY <3>1, <3>2
<1>9. PICK st, g :
        /\ st = IF last THEN "IDLE" ELSE gtwa.state
        /\ g = Printed(ps, st)
  OBVIOUS
<1>10. PICK c \in 0..g.count, ok \in BOOLEAN :
         LET h == Gtwa!Taken(g, c) IN
         /\ due' = Gtwa!Unread(due \o ps, c)
         /\ told' = IF last THEN Append(told, <<gtwa.seq, "ok">>) ELSE told
         /\ gtwa' = IF ~ok THEN Gtwa!Resting(h)
                    ELSE Gtwa!At(h, IF h.hold \/ client.n = m THEN "out" ELSE "read")
         /\ client' = [client EXCEPT !.n = @ - m, !.state = IF ok THEN @ ELSE "IDLE"]
         /\ past' = [past EXCEPT !.lapsed = @ \/ ~ok]
  <2> DEFINE room == RESP - 1 - gtwa.count
             mm == IF client.n < room THEN client.n ELSE room
             ll == gtwa.ret = "end" /\ client.n = mm
             uu == [i \in 1..mm |-> <<gtwa.seq, "unit">>]
             pp == IF ll THEN Append(uu, <<gtwa.seq, "end">>) ELSE uu
             gg == [gtwa EXCEPT !.buf = [i \in 1..RESP |->
                              IF i - gtwa.count \in DOMAIN pp THEN pp[i - gtwa.count] ELSE @[i]],
                           !.count = @ + Len(pp), !.state = IF ll THEN "IDLE" ELSE @]
             Does(g0, ps0, last0, m0, c, ok) ==
               LET h == Gtwa!Taken(g0, c) IN
               /\ due' = Gtwa!Unread(due \o ps0, c)
               /\ told' = IF last0 THEN Append(told, <<gtwa.seq, "ok">>) ELSE told
               /\ gtwa' = IF ~ok THEN Gtwa!Resting(h)
                          ELSE Gtwa!At(h, IF h.hold \/ client.n = m0 THEN "out" ELSE "read")
               /\ client' = [client EXCEPT !.n = @ - m0, !.state = IF ok THEN @ ELSE "IDLE"]
               /\ past' = [past EXCEPT !.lapsed = @ \/ ~ok]
  <2>1. \E c \in 0..gg.count, ok \in BOOLEAN : Does(gg, pp, ll, mm, c, ok)
    BY DEF Gtwa!PrintData
  <2>2. mm = m
    BY <1>4
  <2>3. ll = last
    BY <1>6, <2>2
  <2> HIDE DEF ll, mm
  <2>4. pp = ps
    BY <1>7, <2>2, <2>3
  <2> HIDE DEF pp
  <2>5. gg = g
    BY <1>9, <2>3, <2>4 DEF Printed
  <2> HIDE DEF gg, Does
  <2>6. \E c \in 0..g.count, ok \in BOOLEAN : Does(g, ps, last, m, c, ok)
    BY <2>1, <2>2, <2>3, <2>4, <2>5
  <2> QED
    BY <2>6 DEF Does
<1>11. PICK h, f : h = Gtwa!Taken(g, c) /\ f = gtwa'
  OBVIOUS
<1>12. /\ g \in GtwaRec /\ g.state = st /\ g.seq = gtwa.seq
       /\ g.off = gtwa.off /\ g.count = gtwa.count + Len(ps)
       /\ gtwa.off = 0 /\ due = Held(gtwa) => due \o ps = Held(g)
  <2>1. st \in GtwaWord
    BY <1>1, <1>9, WordsAre DEF GtwaRec
  <2> QED
    BY <1>1, <1>2, <1>8, <1>9, <2>1, PrintedIs
<1>13. /\ h \in GtwaRec /\ SameWork(h, g) /\ (h.hold <=> h.count > 0) /\ (~h.hold => h.off = 0)
       /\ g.off + g.count <= RESP => h.off + h.count <= RESP /\ Gtwa!Unread(Held(g), c) = Held(h)
  BY <1>11, <1>12, TakenIs
<1>14. ~past.overrun => g.off + g.count <= RESP /\ due' = Held(h) /\ h.off + h.count <= RESP
  <2> SUFFICES ASSUME ~past.overrun
               PROVE  g.off + g.count <= RESP /\ due' = Held(h) /\ h.off + h.count <= RESP
    OBVIOUS
  <2>1. gtwa.off = 0 /\ due = Held(gtwa)
    BY <1>1, <1>2 DEF HeldInv, HeldOk, Held
  <2>2. due \o ps = Held(g) /\ g.off + g.count <= RESP
    <3>1. Len(ps) \in Nat
      BY <1>8
    <3> QED
      BY <1>3, <1>8, <1>12, <2>1, <3>1
  <2>3. due' = Gtwa!Unread(due \o ps, c)
    BY <1>10
  <2> QED
    BY <1>13, <2>2, <2>3
<1>15. f = IF ~ok THEN Gtwa!Resting(h)
           ELSE Gtwa!At(h, IF h.hold \/ client.n = m THEN "out" ELSE "read")
  BY <1>10, <1>11
<1>16. /\ f \in GtwaRec /\ f.hold = h.hold /\ f.count = h.count /\ f.off = h.off /\ f.buf = h.buf
       /\ f.seq = gtwa.seq /\ f.pc # "parse" /\ f.pc # "state"
       /\ f.pc = "read" => ok /\ ~h.hold /\ client.n # m
       /\ f.state = IF ~ok \/ last THEN "IDLE" ELSE "READ"
  <2>1. h.state = (IF last THEN "IDLE" ELSE "READ") /\ h.seq = gtwa.seq
    BY <1>2, <1>9, <1>12, <1>13 DEF SameWork
  <2>2. CASE ~ok
    BY <1>13, <1>15, <2>1, <2>2, WordsAre DEF Gtwa!Resting, GtwaRec
  <2>3. CASE ok /\ (h.hold \/ client.n = m)
    BY <1>13, <1>15, <2>1, <2>3, WordsAre DEF Gtwa!At, GtwaRec
  <2>4. CASE ok /\ ~(h.hold \/ client.n = m)
    BY <1>13, <1>15, <2>1, <2>4, WordsAre DEF Gtwa!At, GtwaRec
  <2> QED
    BY <2>2, <2>3, <2>4
<1>17. f.pc = "read" => f.state = "READ"
  BY <1>6, <1>16
<1>18. /\ past' \in PastRec /\ past'.overrun = past.overrun /\ past'.cut = past.cut
       /\ past'.dirty = past.dirty /\ past'.silent = past.silent /\ (~ok => past'.lapsed)
       /\ (past.lapsed => past'.lapsed)
  <2>1. past' = [past EXCEPT !.lapsed = @ \/ ~ok]
    BY <1>10
  <2> QED
    BY <1>1, <2>1 DEF PastRec
<1>19. client' \in ClientRec
  <2>1. client' = [client EXCEPT !.n = @ - m, !.state = IF ok THEN @ ELSE "IDLE"]
    BY <1>10
  <2>2. (IF ok THEN client.state ELSE "IDLE") \in GtwaWord
    BY <1>1, WordsAre DEF ClientRec
  <2> QED
    BY <1>1, <1>5, <2>1, <2>2 DEF ClientRec
<1>20. commFifo' = commFifo /\ script' = script /\ master' = master
  BY DEF Gtwa!PrintData
<1>21. told' = (IF last THEN Append(told, <<gtwa.seq, "ok">>) ELSE told)
  BY <1>10
<1>22. told' \in Seq(Piece)
  <2>1. <<gtwa.seq, "ok">> \in Piece
    BY <1>3, WordsAre DEF Piece
  <2> QED
    BY <1>1, <1>21, <2>1
<1>23. GatewayTypes'
  BY <1>1, <1>11, <1>16, <1>18, <1>19, <1>20, <1>22 DEF GatewayTypes
<1>24. HeldInv'
  <2>1. f.pc = "read" => f.count < RESP
    BY <1>2, <1>3, <1>13, <1>16 DEF GtwaRec
  <2>2. Held(f) = Held(h)
    BY <1>16 DEF Held
  <2>3. HeldOk(f, due', past'.overrun)
    BY <1>13, <1>14, <1>16, <1>18, <2>1, <2>2 DEF HeldOk, Held
  <2> QED
    BY <1>11, <2>3 DEF HeldInv
<1>25. ~past.cut => /\ ToldOk(told', gtwa.seq) /\ ~Inside(commFifo \o script)
                    /\ ~last => ~Answered(told', gtwa.seq)
                    /\ last => Answered(told', gtwa.seq)
  <2> SUFFICES ASSUME ~past.cut
               PROVE  /\ ToldOk(told', gtwa.seq) /\ ~Inside(commFifo \o script)
                      /\ ~last => ~Answered(told', gtwa.seq)
                      /\ last => Answered(told', gtwa.seq)
    OBVIOUS
  <2>1. ToldOk(told, gtwa.seq) /\ ~Answered(told, gtwa.seq) /\ ~Inside(commFifo \o script)
    BY <1>1, <1>2 DEF AnswerInv, AnswersOk
  <2>2. CASE last
    <3>1. told' = Append(told, <<gtwa.seq, "ok">>) /\ "ok" \in GtwaWord
      BY <1>21, <2>2, WordsAre
    <3> QED
      BY <1>1, <1>3, <2>1, <2>2, <3>1, ToldAppended
  <2>3. CASE ~last
    BY <1>21, <2>1, <2>3
  <2> QED
    BY <2>2, <2>3
<1>26. AnswerInv'
  <2>1. ~past'.cut => AnswersOk'
    BY <1>11, <1>16, <1>18, <1>20, <1>25 DEF AnswersOk
  <2> QED
    BY <1>1, <1>11, <1>16, <1>17, <1>18, <1>20, <2>1 DEF AnswerInv, Shows
<1>27. MasterInv'
  <2>1. past.dirty \/ Peace(master)
    BY <1>1, <1>2 DEF MasterInv, MasterOk, Peace
  <2> QED
    BY <1>11, <1>16, <1>18, <1>20, <2>1 DEF MasterInv, MasterOk, Peace
<1> QED
  BY <1>23, <1>24, <1>26, <1>27 DEF GatewayInv

(* A write goes on: more of its value is fetched, and what is behind the   *)
(* value is not taken for a part of it.                                    *)
Fetched(c, n, more) ==
  IF more THEN Gtwa!Scan(c, n) ELSE [n |-> n, closed |-> TRUE, err |-> FALSE, rest |-> c]

(* Data of a write that are taken from the command fifo.                   *)
LEMMA FetchedIs ==
  ASSUME NEW c \in Seq(Token), NEW d \in Seq(Token), NEW n \in 0..SDO_BUF, NEW q,
         StreamOk(c \o d, q), Streams(c, d), NEW more \in BOOLEAN,
         NEW s, s = Fetched(c, n, more),
         NEW e, e = IF s.err THEN Gtwa!Cleared(s.rest) ELSE s.rest
  PROVE  /\ s.n \in 0..SDO_BUF /\ s.closed \in BOOLEAN /\ s.err \in BOOLEAN
         /\ s.err => more /\ ~s.closed
         /\ Streams(e, d) /\ StreamOk(e \o d, q)
         /\ more /\ s.closed => ~Inside(e \o d)
         /\ ~more => e = c
<1>1. CASE more
  <2>1. s = Gtwa!Scan(c, n)
    BY <1>1 DEF Fetched
  <2>2. /\ s.n \in 0..SDO_BUF /\ s.closed \in BOOLEAN /\ s.err \in BOOLEAN /\ (s.err => ~s.closed)
    BY <2>1, ValueScanIs
  <2>3. PICK f : f = IF s.closed THEN s.rest ELSE Gtwa!Cleared(s.rest)
    OBVIOUS
  <2>4. /\ Streams(s.rest, d) /\ Streams(f, d)
        /\ StreamOk(s.rest \o d, q) /\ StreamOk(f \o d, q)
        /\ s.closed => ~Inside(s.rest \o d)
    BY <2>1, <2>3, ScannedIs
  <2>5. CASE s.err
    <3>1. e = f
      BY <2>2, <2>3, <2>5
    <3> QED
      BY <1>1, <2>2, <2>4, <2>5, <3>1
  <2>6. CASE ~s.err
    <3>1. e = s.rest
      BY <2>6
    <3> QED
      BY <1>1, <2>2, <2>4, <2>6, <3>1
  <2> QED
    BY <2>2, <2>5, <2>6
<1>2. CASE ~more
  <2>1. s = [n |-> n, closed |-> TRUE, err |-> FALSE, rest |-> c]
    BY <1>2 DEF Fetched
  <2>2. s.n = n /\ s.closed = TRUE /\ s.err = FALSE /\ s.rest = c /\ e = c
    BY <2>1
  <2> QED
    BY <1>2, <2>2
<1> QED
  BY <1>1, <1>2

(* A write hands its data to the SDO client.                               *)
LEMMA WriteKeeps ==
  ASSUME GatewayInv, Gtwa!Write PROVE GatewayInv'
<1>1. /\ GatewayTypes /\ HeldInv /\ AnswerInv /\ MasterInv /\ gtwa \in GtwaRec /\ past \in PastRec
      /\ client \in ClientRec /\ master \in MasterRec /\ told \in Seq(Piece)
      /\ commFifo \in Seq(Token) /\ script \in Seq(Token) /\ Streams(commFifo, script)
  BY DEF GatewayInv, GatewayTypes, Streams
<1>2. /\ gtwa.pc = "state" /\ gtwa.state = "WRITE" /\ script' = script /\ master' = master
      /\ client.state = "DOWNLOAD" /\ gtwa.copied \in BOOLEAN /\ client.n \in 0..SDO_BUF
      /\ gtwa.seq \in Nat /\ gtwa.timer \in Nat
  BY <1>1 DEF Gtwa!Write, Gtwa!In, AnswerInv, GtwaRec, ClientRec
<1>3. PICK s : s = Fetched(commFifo, client.n, gtwa.copied)
  OBVIOUS
<1>4. PICK e : e = IF s.err THEN Gtwa!Cleared(s.rest) ELSE s.rest
  OBVIOUS
<1>5. StreamOk(commFifo \o script, gtwa.seq)
  BY <1>1 DEF AnswerInv
<1>6. /\ s.n \in 0..SDO_BUF /\ s.closed \in BOOLEAN /\ s.err \in BOOLEAN
      /\ s.err => gtwa.copied /\ ~s.closed
      /\ Streams(e, script) /\ StreamOk(e \o script, gtwa.seq)
      /\ gtwa.copied /\ s.closed => ~Inside(e \o script)
      /\ ~gtwa.copied => e = commFifo
  BY <1>1, <1>2, <1>3, <1>4, <1>5, FetchedIs
<1>7. PICK partial \in BOOLEAN : partial <=> gtwa.copied /\ ~s.closed
  OBVIOUS
<1>8. /\ ~past.cut => /\ Inside(e \o script) => partial
                      /\ ToldOk(told, gtwa.seq) /\ ~Answered(told, gtwa.seq)
      /\ s.err => partial
  BY <1>1, <1>2, <1>6, <1>7 DEF AnswerInv, AnswersOk
<1>9. PICK low \in BOOLEAN : low <=> partial /\ s.n < DL_LOW
  OBVIOUS
<1>10. PICK late \in BOOLEAN : late <=> low /\ gtwa.timer > WAIT
  OBVIOUS
<1>11. PICK timer : timer = IF low /\ ~late THEN gtwa.timer + 1 ELSE gtwa.timer
  OBVIOUS
<1>12. PICK abort \in BOOLEAN : abort <=> s.err \/ late
  OBVIOUS
<1>13. PICK g : g = [gtwa EXCEPT !.copied = partial, !.timer = timer, !.pc = "out"]
  OBVIOUS
<1>14. /\ commFifo' = e
       /\ \/ /\ Gtwa!Quiet(g) /\ client' = [client EXCEPT !.n = s.n] /\ past' = past
          \/ Gtwa!Download(s.n, abort, partial, timer)
  <2>1. (gtwa.copied /\ ~s.closed) = partial
    BY <1>2, <1>6, <1>7
  <2>2. (partial /\ s.n < DL_LOW) = low
    BY <1>9
  <2>3. (low /\ gtwa.timer > WAIT) = late
    BY <1>10
  <2>4. (s.err \/ late) = abort
    BY <1>6, <1>12
  <2> QED
    BY <1>3, <1>4, <1>11, <1>13, <2>1, <2>2, <2>3, <2>4 DEF Gtwa!Write, Fetched
<1>15. /\ g \in GtwaRec /\ SameHeld(g) /\ g.pc = "out" /\ g.state = "WRITE" /\ g.seq = gtwa.seq
       /\ (g.copied <=> partial)
  <2>1. timer \in Nat
    BY <1>2, <1>11
  <2> QED
    BY <1>1, <1>2, <1>13, <2>1, WordsAre DEF GtwaRec, SameHeld
<1>16. past.dirty \/ Peace(master)
  BY <1>1, <1>2 DEF MasterInv, MasterOk, Peace
<1>17. ASSUME Gtwa!Quiet(g), past' = past, client' \in ClientRec, client'.state = "DOWNLOAD"
       PROVE  GatewayInv'
  <2>1. Types(past', client', master') /\ Streams(commFifo', script')
    BY <1>1, <1>2, <1>6, <1>14, <1>17 DEF Types
  <2>2. GatewayTypes' /\ HeldInv' /\ gtwa' = g /\ told' = told
    BY <1>1, <1>2, <1>15, <1>17, <2>1, QuietHeld
  <2>3. AnswerInv'
    <3>1. ~past'.cut => AnswersOk'
      BY <1>2, <1>8, <1>14, <1>15, <1>17, <2>2 DEF AnswersOk
    <3> QED
      BY <1>2, <1>6, <1>14, <1>15, <1>17, <2>2, <3>1 DEF AnswerInv, Shows
  <2>4. MasterInv'
    BY <1>2, <1>15, <1>16, <1>17, <2>2 DEF MasterInv, MasterOk, Peace
  <2> QED
    BY <2>2, <2>3, <2>4 DEF GatewayInv
<1>18. CASE Gtwa!Quiet(g) /\ client' = [client EXCEPT !.n = s.n] /\ past' = past
  <2>1. client' \in ClientRec /\ client'.state = "DOWNLOAD"
    BY <1>1, <1>2, <1>6, <1>18 DEF ClientRec
  <2> QED
    BY <1>17, <1>18, <2>1
<1>19. PICK o : o = Gtwa!OverHeld(past)
  OBVIOUS
<1>20. /\ o \in PastRec /\ (~o.overrun => ~past.overrun /\ ~gtwa.hold)
       /\ (o.cut <=> past.cut) /\ (o.dirty <=> past.dirty)
  BY <1>1, <1>19, OverHeldIs
<1>21. CASE Gtwa!Download(s.n, abort, partial, timer)
  <2>1. PICK x \in Gtwa!DownloadStep(s.n, abort, partial) :
          /\ client' = [client EXCEPT !.state = x[2], !.n = x[3]]
          /\ \/ x[1] = "waiting" /\ Gtwa!Quiet(g) /\ past' = past
             \/ x[1] = "end" /\ Gtwa!Ok(Gtwa!Resting(g)) /\ past' = o
             \/ /\ x[1] = "abort"
                /\ Gtwa!Error([g EXCEPT !.state = IF partial THEN "WRITE_ABORTED" ELSE "IDLE"])
                /\ past' = [o EXCEPT !.cut = @ \/ partial]
    BY <1>13, <1>19, <1>21 DEF Gtwa!Download
  <2>2. \/ x = <<"abort", "IDLE", s.n>>
        \/ \E k \in 0..s.n : x = <<"waiting", "DOWNLOAD", k>>
        \/ x = <<"end", "IDLE", 0>> /\ ~partial
    BY <1>2 DEF Gtwa!DownloadStep
  <2>3. SDO_BUF \in Nat
    BY GatewayAssumption
  <2>4. CASE \E k \in 0..s.n : x = <<"waiting", "DOWNLOAD", k>>
    <3>1. PICK k \in 0..s.n : x = <<"waiting", "DOWNLOAD", k>>
      BY <2>4
    <3>2. k \in 0..SDO_BUF /\ x[1] = "waiting" /\ x[2] = "DOWNLOAD" /\ x[3] = k
      BY <1>6, <2>3, <3>1
    <3>3. client' \in ClientRec /\ client'.state = "DOWNLOAD"
      BY <1>1, <2>1, <3>2, WordsAre DEF ClientRec
    <3> QED
      BY <1>17, <2>1, <3>2, <3>3
  <2>5. ASSUME ~partial, NEW r \in GtwaWord, NEW f, f = Gtwa!Resting(g),
               Gtwa!Respond(f, Gtwa!Final(f, r)), past' \in PastRec, Overruns,
               past'.cut <=> past.cut, past'.dirty <=> past.dirty, client' \in ClientRec
        PROVE  GatewayInv'
    <3>1. f \in GtwaRec /\ f.pc = "out" /\ f.state = "IDLE" /\ f.seq = gtwa.seq /\ SameHeld(f)
      BY <1>15, <2>5, RestingIs
    <3>2. Types(past', client', master') /\ Streams(commFifo', script')
          /\ StreamOk(commFifo' \o script', f.seq)
      BY <1>1, <1>2, <1>6, <1>14, <2>5, <3>1 DEF Types
    <3>3. ~past'.cut => /\ ~Inside(commFifo' \o script') /\ ~past.cut
                        /\ ToldOk(told, f.seq) /\ ~Answered(told, f.seq)
      BY <1>2, <1>8, <1>14, <2>5, <3>1
    <3>4. past'.dirty \/ Peace(master')
      BY <1>2, <1>16, <2>5
    <3> QED
      BY <1>2, <2>5, <3>1, <3>2, <3>3, <3>4, FinalKeeps
  <2>6. CASE x = <<"end", "IDLE", 0>> /\ ~partial
    <3>1. x[1] = "end" /\ x[2] = "IDLE" /\ x[3] = 0 /\ 0 \in 0..SDO_BUF
      BY <2>3, <2>6
    <3>2. client' \in ClientRec /\ past' = o /\ Gtwa!Ok(Gtwa!Resting(g))
      BY <1>1, <2>1, <3>1, WordsAre DEF ClientRec
    <3>3. PICK f : f = Gtwa!Resting(g)
      OBVIOUS
    <3>4. Gtwa!Respond(f, Gtwa!Final(f, "ok")) /\ "ok" \in GtwaWord
      BY <3>2, <3>3, WordsAre DEF Gtwa!Ok
    <3> QED
      BY <1>20, <2>5, <2>6, <3>2, <3>3, <3>4 DEF Overruns
  <2>7. CASE x = <<"abort", "IDLE", s.n>>
    <3>1. x[1] = "abort" /\ x[2] = "IDLE" /\ x[3] = s.n
      BY <2>7
    <3>2. /\ client' \in ClientRec
          /\ Gtwa!Error([g EXCEPT !.state = IF partial THEN "WRITE_ABORTED" ELSE "IDLE"])
          /\ past' = [o EXCEPT !.cut = @ \/ partial]
      BY <1>1, <1>6, <2>1, <3>1, WordsAre DEF ClientRec
    <3>3. /\ past' \in PastRec /\ Overruns /\ (past'.cut <=> past.cut \/ partial)
          /\ (past'.dirty <=> past.dirty)
      BY <1>20, <3>2 DEF PastRec, Overruns
    <3>4. CASE ~partial
      <4>1. PICK f : f = Gtwa!Resting(g)
        OBVIOUS
      <4>2. f = [g EXCEPT !.state = "IDLE"]
        BY <1>15, <4>1 DEF Gtwa!Resting, GtwaRec
      <4>3. Gtwa!Respond(f, Gtwa!Final(f, "err")) /\ "err" \in GtwaWord
        BY <3>2, <3>4, <4>2, WordsAre DEF Gtwa!Error
      <4> QED
        BY <2>5, <3>2, <3>3, <3>4, <4>1, <4>3
    <3>5. CASE partial
      <4>1. PICK f : f = [g EXCEPT !.state = "WRITE_ABORTED"]
        OBVIOUS
      <4>2. /\ f \in GtwaRec /\ SameHeld(f) /\ f.pc = "out" /\ f.state = "WRITE_ABORTED"
            /\ f.seq = gtwa.seq
        BY <1>15, <4>1, WordsAre DEF GtwaRec, SameHeld
      <4>3. Gtwa!Respond(f, Gtwa!Final(f, "err")) /\ "err" \in GtwaWord
        BY <3>2, <3>5, <4>1, WordsAre DEF Gtwa!Error
      <4>4. /\ gtwa' \in GtwaRec /\ SameWork(gtwa', f) /\ HeldInv'
            /\ told' = Append(told, <<f.seq, "err">>)
        BY <1>1, <1>2, <3>3, <4>2, <4>3, RespondIs, FinalIs
      <4>5. told' \in Seq(Piece)
        <5>1. <<f.seq, "err">> \in Piece
          BY <1>2, <4>2, WordsAre DEF Piece
        <5> QED
          BY <1>1, <4>4, <5>1
      <4>6. GatewayTypes'
        BY <1>1, <1>2, <1>6, <1>14, <3>2, <3>3, <4>4, <4>5 DEF GatewayTypes, Streams
      <4>7. gtwa'.pc = "out" /\ gtwa'.state = "WRITE_ABORTED" /\ gtwa'.seq = gtwa.seq
        BY <4>2, <4>4 DEF SameWork
      <4>8. AnswerInv'
        BY <1>2, <1>6, <1>14, <3>3, <3>5, <4>7 DEF AnswerInv, Shows
      <4>9. MasterInv'
        BY <1>2, <1>16, <3>3, <4>7 DEF MasterInv, MasterOk, Peace
      <4> QED
        BY <4>4, <4>6, <4>8, <4>9 DEF GatewayInv
    <3> QED
      BY <3>4, <3>5
  <2> QED
    BY <2>2, <2>4, <2>6, <2>7
<1> QED
  BY <1>14, <1>18, <1>21

(* The rest of the value of a write that was aborted is thrown away.       *)
LEMMA PurgeKeeps ==
  ASSUME GatewayInv, Gtwa!Purge PROVE GatewayInv'
<1>1. /\ GatewayTypes /\ HeldInv /\ AnswerInv /\ MasterInv /\ gtwa \in GtwaRec /\ past \in PastRec
      /\ client \in ClientRec /\ master \in MasterRec
      /\ commFifo \in Seq(Token) /\ script \in Seq(Token) /\ Streams(commFifo, script)
  BY DEF GatewayInv, GatewayTypes, Streams
<1>2. PICK s : s = Gtwa!Scan(commFifo, client.n)
  OBVIOUS
<1>3. PICK e : e = IF s.err THEN Gtwa!Cleared(s.rest) ELSE s.rest
  OBVIOUS
<1>4. PICK st, g :
        /\ st = IF s.n = 0 \/ s.closed THEN "IDLE" ELSE gtwa.state
        /\ g = [gtwa EXCEPT !.pc = "out", !.copied = ~s.closed, !.state = st]
  OBVIOUS
<1>5. /\ gtwa.pc = "state" /\ gtwa.state = "WRITE_ABORTED" /\ script' = script /\ master' = master
      /\ past' = past /\ commFifo' = e /\ client' = [client EXCEPT !.n = 0] /\ Gtwa!Quiet(g)
  BY <1>1, <1>2, <1>3, <1>4 DEF Gtwa!Purge, Gtwa!In
<1>6. past.cut /\ StreamOk(commFifo \o script, gtwa.seq) /\ client.n \in 0..SDO_BUF
  BY <1>1, <1>5 DEF AnswerInv, ClientRec
<1>7. /\ s.closed \in BOOLEAN /\ Streams(e, script) /\ StreamOk(e \o script, gtwa.seq)
  <2>1. PICK more \in BOOLEAN : more = TRUE
    OBVIOUS
  <2>2. s = Fetched(commFifo, client.n, more)
    BY <1>2, <2>1 DEF Fetched
  <2> QED
    BY <1>1, <1>3, <1>6, <2>2, FetchedIs
<1>8. /\ g \in GtwaRec /\ SameHeld(g) /\ g.pc = "out" /\ g.seq = gtwa.seq
      /\ g.state = "IDLE" \/ g.state = "WRITE_ABORTED"
  BY <1>1, <1>4, <1>5, <1>7, WordsAre DEF GtwaRec, SameHeld
<1>9. client' \in ClientRec
  BY <1>1, <1>5, GatewayAssumption DEF ClientRec
<1>10. GatewayTypes' /\ HeldInv' /\ gtwa' = g
  <2>1. Types(past', client', master') /\ Streams(commFifo', script')
    BY <1>1, <1>5, <1>7, <1>9 DEF Types
  <2> QED
    BY <1>1, <1>5, <1>8, <2>1, QuietHeld
<1>11. AnswerInv'
  BY <1>5, <1>6, <1>7, <1>8, <1>10 DEF AnswerInv, Shows
<1>12. MasterInv'
  BY <1>1, <1>5, <1>8, <1>10 DEF MasterInv, MasterOk
<1> QED
  BY <1>10, <1>11, <1>12 DEF GatewayInv

(* What a confirmed command of the LSS master may come to.                 *)
LEMMA MasterStepIs ==
  ASSUME NEW cmd, NEW results, NEW r \in Gtwa!MasterStep(cmd, results)
  PROVE  \/ r = <<"invalid", master.command>> /\ ~AtRest(cmd)
         \/ r = <<"wait", cmd>> /\ AtRest(cmd)
         \/ AtRest(cmd) /\ \E x \in results : r = <<x, "WAITING">>
BY DEF Gtwa!MasterStep, AtRest

(* A command of the LSS master ends.                                       *)
LEMMA LssKeeps ==
  ASSUME GatewayInv, Gtwa!Lss PROVE GatewayInv'
<1>1. /\ MasterInv /\ gtwa \in GtwaRec /\ past \in PastRec /\ client \in ClientRec /\ master \in MasterRec
  BY DEF GatewayInv, GatewayTypes
<1>2. /\ gtwa.pc = "state" /\ gtwa.state = "lss" /\ commFifo' = commFifo /\ script' = script
      /\ client' = client
  BY DEF Gtwa!Lss, Gtwa!In
<1>3. PICK r \in Gtwa!MasterStep("lss", {"ok", "failed"}) :
        /\ master' = [master EXCEPT !.command = r[2]]
        /\ \/ r[1] = "wait" /\ Gtwa!Quiet(Gtwa!At(gtwa, "out")) /\ past' = past
           \/ r[1] = "ok" /\ Gtwa!Ok(Gtwa!Resting(gtwa)) /\ past' = Gtwa!OverHeld(past)
           \/ r[1] \in {"failed", "invalid"} /\ Gtwa!Error(Gtwa!Resting(gtwa)) /\ past' = Gtwa!OverHeld(past)
  BY DEF Gtwa!Lss
<1>4. \/ r = <<"invalid", master.command>> /\ ~AtRest("lss")
      \/ r = <<"wait", "lss">>
      \/ \E x \in {"ok", "failed"} : r = <<x, "WAITING">>
  BY MasterStepIs
<1>5. master' \in MasterRec
  <2>1. r[2] \in GtwaWord
    BY <1>1, <1>4, WordsAre DEF MasterRec
  <2> QED
    BY <1>1, <1>3, <2>1 DEF MasterRec
<1>6. past.dirty \/ (AtRest("lss") /\ master.default)
  BY <1>1, <1>2 DEF MasterInv, MasterOk
<1>7. CASE r[1] = "wait" /\ Gtwa!Quiet(Gtwa!At(gtwa, "out")) /\ past' = past
  <2>1. r[2] = "lss"
    BY <1>4, <1>7
  <2>2. master'.command = "lss" /\ (master'.default <=> master.default)
    BY <1>1, <1>3, <2>1 DEF MasterRec
  <2>3. gtwa'.state = gtwa.state
    BY <1>1, <1>7 DEF Gtwa!Quiet, Gtwa!At, GtwaRec
  <2>4. MasterInv'
    BY <1>2, <1>6, <1>7, <2>2, <2>3 DEF MasterInv, MasterOk, AtRest
  <2> QED
    BY <1>1, <1>2, <1>5, <1>7, <2>4, WaitsKeeps
<1>8. ASSUME r[1] # "wait" PROVE past.dirty \/ Peace(master')
  <2>1. (r = <<"invalid", master.command>> /\ ~AtRest("lss")) \/ r[2] = "WAITING"
    BY <1>4, <1>8
  <2>2. r[2] = "WAITING" => master'.command = "WAITING" /\ (master'.default <=> master.default)
    BY <1>1, <1>3 DEF MasterRec
  <2> QED
    BY <1>6, <2>1, <2>2 DEF Peace
<1>9. CASE r[1] = "ok" /\ Gtwa!Ok(Gtwa!Resting(gtwa)) /\ past' = Gtwa!OverHeld(past)
  <2>1. Gtwa!Respond(Gtwa!Resting(gtwa), Gtwa!Final(Gtwa!Resting(gtwa), "ok")) /\ "ok" \in GtwaWord
    BY <1>9, WordsAre DEF Gtwa!Ok
  <2> QED
    BY <1>1, <1>2, <1>5, <1>8, <1>9, <2>1, ClosesKeeps
<1>10. CASE r[1] # "wait" /\ Gtwa!Error(Gtwa!Resting(gtwa)) /\ past' = Gtwa!OverHeld(past)
  <2>1. Gtwa!Respond(Gtwa!Resting(gtwa), Gtwa!Final(Gtwa!Resting(gtwa), "err")) /\ "err" \in GtwaWord
    BY <1>10, WordsAre DEF Gtwa!Error
  <2> QED
    BY <1>1, <1>2, <1>5, <1>8, <1>10, <2>1, ClosesKeeps
<1> QED
  BY <1>3, <1>7, <1>9, <1>10

(* A fastscan ends.                                                        *)
LEMMA FastscanKeeps ==
  ASSUME GatewayInv, Gtwa!Fastscan PROVE GatewayInv'
<1>1. /\ MasterInv /\ gtwa \in GtwaRec /\ past \in PastRec /\ client \in ClientRec /\ master \in MasterRec
  BY DEF GatewayInv, GatewayTypes
<1>2. /\ gtwa.pc = "state" /\ gtwa.state = "_lss_fastscan" /\ commFifo' = commFifo /\ script' = script
      /\ client' = client
  BY DEF Gtwa!Fastscan, Gtwa!In
<1>3. PICK r \in Gtwa!MasterStep("scan", {"ok", "failed"}) :
        /\ master' = [command |-> r[2], default |-> r[1] # "wait"]
        /\ \/ r[1] = "wait" /\ Gtwa!Quiet(Gtwa!At(gtwa, "out")) /\ past' = past
           \/ r[1] = "ok" /\ Gtwa!Ok(Gtwa!Resting(gtwa)) /\ past' = Gtwa!OverHeld(past)
           \/ r[1] \in {"failed", "invalid"} /\ Gtwa!Error(Gtwa!Resting(gtwa)) /\ past' = Gtwa!OverHeld(past)
  BY DEF Gtwa!Fastscan
<1>4. \/ r = <<"invalid", master.command>> /\ ~AtRest("scan")
      \/ r = <<"wait", "scan">>
      \/ \E x \in {"ok", "failed"} : r = <<x, "WAITING">>
  BY MasterStepIs
<1>5. master' \in MasterRec
  <2>1. r[2] \in GtwaWord
    BY <1>1, <1>4, WordsAre DEF MasterRec
  <2> QED
    BY <1>3, <2>1 DEF MasterRec
<1>6. past.dirty \/ AtRest("scan")
  BY <1>1, <1>2 DEF MasterInv, MasterOk
<1>7. CASE r[1] = "wait" /\ Gtwa!Quiet(Gtwa!At(gtwa, "out")) /\ past' = past
  <2>1. master'.command = "scan"
    BY <1>3, <1>4, <1>7
  <2>2. gtwa'.state = gtwa.state
    BY <1>1, <1>7 DEF Gtwa!Quiet, Gtwa!At, GtwaRec
  <2>3. MasterInv'
    BY <1>2, <2>1, <2>2 DEF MasterInv, MasterOk, AtRest
  <2> QED
    BY <1>1, <1>2, <1>5, <1>7, <2>3, WaitsKeeps
<1>8. ASSUME r[1] # "wait" PROVE past.dirty \/ Peace(master')
  <2>1. (r = <<"invalid", master.command>> /\ ~AtRest("scan")) \/ r[2] = "WAITING"
    BY <1>4, <1>8
  <2>2. master'.command = r[2] /\ master'.default
    BY <1>3, <1>8
  <2> QED
    BY <1>6, <2>1, <2>2 DEF Peace
<1>9. CASE r[1] = "ok" /\ Gtwa!Ok(Gtwa!Resting(gtwa)) /\ past' = Gtwa!OverHeld(past)
  <2>1. Gtwa!Respond(Gtwa!Resting(gtwa), Gtwa!Final(Gtwa!Resting(gtwa), "ok")) /\ "ok" \in GtwaWord
    BY <1>9, WordsAre DEF Gtwa!Ok
  <2> QED
    BY <1>1, <1>2, <1>5, <1>8, <1>9, <2>1, ClosesKeeps
<1>10. CASE r[1] # "wait" /\ Gtwa!Error(Gtwa!Resting(gtwa)) /\ past' = Gtwa!OverHeld(past)
  <2>1. Gtwa!Respond(Gtwa!Resting(gtwa), Gtwa!Final(Gtwa!Resting(gtwa), "err")) /\ "err" \in GtwaWord
    BY <1>10, WordsAre DEF Gtwa!Error
  <2> QED
    BY <1>1, <1>2, <1>5, <1>8, <1>10, <2>1, ClosesKeeps
<1> QED
  BY <1>3, <1>7, <1>9, <1>10

(* The sub-states of lss_allnodes, each with the command it waits for.     *)
LEMMA AllNodesKeeps ==
  ASSUME GatewayInv, NEW sub, NEW cmd, NEW results,
         \/ sub = 0 /\ cmd = "scan"
         \/ sub = 1 /\ cmd = "node"
         \/ sub = 2 /\ cmd = "store",
         Gtwa!AllNodes(sub, cmd, results)
  PROVE  GatewayInv'
<1>1. /\ GatewayTypes /\ HeldInv /\ AnswerInv /\ MasterInv /\ gtwa \in GtwaRec /\ past \in PastRec
      /\ client \in ClientRec /\ master \in MasterRec /\ Streams(commFifo, script)
  BY DEF GatewayInv, GatewayTypes, Streams
<1>2. /\ gtwa.pc = "state" /\ gtwa.state = "lss_allnodes" /\ gtwa.sub = sub
      /\ commFifo' = commFifo /\ script' = script /\ client' = client
  BY DEF Gtwa!AllNodes, Gtwa!In
<1>3. PICK g : g = [gtwa EXCEPT !.sub = IF sub = 1 /\ ~gtwa.store THEN 3 ELSE @ + 1]
  OBVIOUS
<1>4. PICK r \in Gtwa!MasterStep(cmd, results) :
        /\ master' = [command |-> r[2], default |-> master.default \/ (sub = 0 /\ r[1] # "wait")]
        /\ \/ r[1] = "wait" /\ Gtwa!Quiet(Gtwa!At(gtwa, "out")) /\ past' = past
           \/ /\ (r[1] = "found" \/ (r[1] = "ok" /\ sub > 0)) /\ past' = past
              /\ Gtwa!Quiet(g)
           \/ r[1] = "ok" /\ Gtwa!Ok(Gtwa!Resting(gtwa)) /\ past' = Gtwa!OverHeld(past)
           \/ r[1] \in {"failed", "invalid"} /\ Gtwa!Error(Gtwa!Resting(gtwa)) /\ past' = Gtwa!OverHeld(past)
  BY <1>3 DEF Gtwa!AllNodes
<1>5. \/ r = <<"invalid", master.command>> /\ ~AtRest(cmd)
      \/ r = <<"wait", cmd>>
      \/ \E x \in results : r = <<x, "WAITING">>
  BY MasterStepIs
<1>6. PICK d \in BOOLEAN : d <=> master.default \/ (sub = 0 /\ r[1] # "wait")
  OBVIOUS
<1>7. master' = [command |-> r[2], default |-> d] /\ master' \in MasterRec
  <2>1. r[2] \in GtwaWord
    BY <1>1, <1>5, WordsAre DEF MasterRec
  <2>2. master.default \in BOOLEAN
    BY <1>1 DEF MasterRec
  <2>3. (master.default \/ (sub = 0 /\ r[1] # "wait")) = d
    BY <1>6, <2>2
  <2> QED
    BY <1>4, <2>1, <2>3 DEF MasterRec
<1>8. past.dirty \/ (AtRest(cmd) /\ (sub # 0 => master.default))
  BY <1>1, <1>2 DEF MasterInv, MasterOk
<1>9. master'.command = r[2] /\ (master'.default <=> d)
  BY <1>7
<1>10. CASE r[1] = "wait" /\ Gtwa!Quiet(Gtwa!At(gtwa, "out")) /\ past' = past
  <2>1. PICK h : h = gtwa'
    OBVIOUS
  <2>2. h.state = gtwa.state /\ h.sub = gtwa.sub
    BY <1>1, <1>10, <2>1 DEF Gtwa!Quiet, Gtwa!At, GtwaRec
  <2>3. r[2] = cmd \/ ~AtRest(cmd) \/ r[2] = "WAITING"
    BY <1>5
  <2>4. master'.command = cmd \/ past.dirty \/ master'.command = "WAITING"
    BY <1>8, <1>9, <2>3
  <2>5. MasterInv'
    <3>1. sub \in 0..3
      OBVIOUS
    <3> QED
      BY <1>2, <1>6, <1>8, <1>9, <1>10, <2>1, <2>2, <2>4, <3>1 DEF MasterInv, MasterOk, AtRest
  <2> QED
    BY <1>1, <1>2, <1>7, <1>10, <2>5, WaitsKeeps
<1>11. ASSUME r[1] # "wait" PROVE past.dirty \/ Peace(master')
  <2>1. (r = <<"invalid", master.command>> /\ ~AtRest(cmd)) \/ r[2] = "WAITING"
    BY <1>5, <1>11
  <2> QED
    BY <1>6, <1>8, <1>9, <1>11, <2>1 DEF Peace
<1>12. CASE (r[1] = "found" \/ (r[1] = "ok" /\ sub > 0)) /\ past' = past /\ Gtwa!Quiet(g)
  <2>1. /\ g \in GtwaRec /\ SameHeld(g) /\ g.pc = "state" /\ g.state = "lss_allnodes"
        /\ g.seq = gtwa.seq /\ g.sub \in 1..3
    BY <1>1, <1>2, <1>3 DEF GtwaRec, SameHeld
  <2>2. GatewayTypes' /\ HeldInv' /\ gtwa' = g /\ told' = told
    <3>1. Types(past', client', master') /\ Streams(commFifo', script')
      BY <1>1, <1>2, <1>7, <1>12 DEF Types
    <3> QED
      BY <1>1, <1>2, <1>12, <2>1, <3>1, QuietHeld
  <2>3. AnswerInv'
    BY <1>1, <1>2, <1>12, <2>1, <2>2, GoesOn
  <2>4. past.dirty \/ Peace(master')
    BY <1>11, <1>12
  <2>5. MasterInv'
    BY <1>12, <2>1, <2>2, <2>4 DEF MasterInv, MasterOk, AtRest, Peace
  <2> QED
    BY <2>2, <2>3, <2>5 DEF GatewayInv
<1>13. CASE r[1] = "ok" /\ Gtwa!Ok(Gtwa!Resting(gtwa)) /\ past' = Gtwa!OverHeld(past)
  <2>1. Gtwa!Respond(Gtwa!Resting(gtwa), Gtwa!Final(Gtwa!Resting(gtwa), "ok")) /\ "ok" \in GtwaWord
    BY <1>13, WordsAre DEF Gtwa!Ok
  <2> QED
    BY <1>1, <1>2, <1>7, <1>11, <1>13, <2>1, ClosesKeeps
<1>14. CASE r[1] # "wait" /\ Gtwa!Error(Gtwa!Resting(gtwa)) /\ past' = Gtwa!OverHeld(past)
  <2>1. Gtwa!Respond(Gtwa!Resting(gtwa), Gtwa!Final(Gtwa!Resting(gtwa), "err")) /\ "err" \in GtwaWord
    BY <1>14, WordsAre DEF Gtwa!Error
  <2> QED
    BY <1>1, <1>2, <1>7, <1>11, <1>14, <2>1, ClosesKeeps
<1> QED
  BY <1>4, <1>10, <1>12, <1>13, <1>14

(* The slave that has its node-ID is told of, and the next one is sought.  *)
LEMMA DeselectKeeps ==
  ASSUME GatewayInv, Gtwa!Deselect PROVE GatewayInv'
<1>1. /\ GatewayTypes /\ HeldInv /\ AnswerInv /\ MasterInv /\ gtwa \in GtwaRec /\ past \in PastRec
      /\ client \in ClientRec /\ master \in MasterRec /\ Streams(commFifo, script)
  BY DEF GatewayInv, GatewayTypes, Streams
<1>2. PICK g, ps : /\ g = [gtwa EXCEPT !.nid = @ + 1, !.sub = 0, !.pc = "out"]
                   /\ ps = <<<<gtwa.nid, "assigned">>>>
  OBVIOUS
<1>3. /\ gtwa.pc = "state" /\ gtwa.state = "lss_allnodes" /\ gtwa.sub = 3
      /\ commFifo' = commFifo /\ script' = script /\ client' = client /\ past' = Gtwa!OverHeld(past)
      /\ \/ Gtwa!Error(Gtwa!Resting(gtwa)) /\ master' = master /\ master.command # "WAITING"
         \/ Gtwa!Respond(g, ps) /\ master' = [master EXCEPT !.default = FALSE] /\ master.command = "WAITING"
         \/ Gtwa!Ok(Gtwa!Resting(gtwa)) /\ master' = master
  BY <1>2 DEF Gtwa!Deselect, Gtwa!In
<1>4. past.dirty \/ Peace(master)
  BY <1>1, <1>3 DEF MasterInv, MasterOk, Peace
<1>5. CASE Gtwa!Error(Gtwa!Resting(gtwa)) /\ master' = master /\ master.command # "WAITING"
  <2>1. Gtwa!Respond(Gtwa!Resting(gtwa), Gtwa!Final(Gtwa!Resting(gtwa), "err")) /\ "err" \in GtwaWord
    BY <1>5, WordsAre DEF Gtwa!Error
  <2> QED
    BY <1>1, <1>3, <1>4, <1>5, <2>1, ClosesKeeps
<1>6. CASE Gtwa!Respond(g, ps) /\ master' = [master EXCEPT !.default = FALSE] /\ master.command = "WAITING"
  <2>1. /\ g \in GtwaRec /\ SameHeld(g) /\ g.pc = "out" /\ g.state = "lss_allnodes"
        /\ g.seq = gtwa.seq /\ g.sub = 0
    <3>1. gtwa.nid + 1 \in Nat
      BY <1>1 DEF GtwaRec
    <3>2. g = [gtwa EXCEPT !.nid = gtwa.nid + 1, !.sub = 0, !.pc = "out"]
      BY <1>2
    <3>3. g \in GtwaRec
      BY <1>1, <3>1, <3>2, WordsAre DEF GtwaRec
    <3> QED
      BY <1>1, <1>3, <3>2, <3>3 DEF GtwaRec, SameHeld
  <2>2. ps \in Seq(Piece) /\ Len(ps) = 1 /\ 1 <= RESP
    <3>1. <<gtwa.nid, "assigned">> \in Piece
      BY <1>1, WordsAre DEF Piece, GtwaRec
    <3> QED
      BY <1>2, <3>1, GatewayAssumption
  <2>3. /\ past' \in PastRec /\ Overruns /\ (past'.cut <=> past.cut) /\ (past'.dirty <=> past.dirty)
        /\ (past'.lapsed <=> past.lapsed) /\ past'.silent = past.silent
    BY <1>1, <1>3, OverHeldIs DEF Overruns
  <2>4. gtwa' \in GtwaRec /\ SameWork(gtwa', g) /\ HeldInv' /\ told' = told
    <3>1. gtwa.pc # "read" /\ g.pc # "read" /\ g.state # "READ" /\ Len(ps) <= RESP /\ Len(ps) # 2
      BY <1>3, <2>1, <2>2
    <3> QED
      BY <1>1, <1>6, <2>1, <2>2, <2>3, <3>1, RespondIs
  <2>5. PICK h : h = gtwa'
    OBVIOUS
  <2>6. h.pc = "out" /\ h.state = "lss_allnodes" /\ h.seq = gtwa.seq /\ h.sub = 0
    BY <2>1, <2>4, <2>5 DEF SameWork
  <2>7. master' \in MasterRec /\ master'.command = "WAITING"
    BY <1>1, <1>6 DEF MasterRec
  <2>8. GatewayTypes'
    BY <1>1, <1>3, <2>3, <2>4, <2>7 DEF GatewayTypes
  <2>9. AnswerInv'
    BY <1>1, <1>3, <2>3, <2>4, <2>5, <2>6, GoesOn
  <2>10. MasterInv'
    BY <2>5, <2>6, <2>7 DEF MasterInv, MasterOk, AtRest
  <2> QED
    BY <2>4, <2>8, <2>9, <2>10 DEF GatewayInv
<1>7. CASE Gtwa!Ok(Gtwa!Resting(gtwa)) /\ master' = master
  <2>1. Gtwa!Respond(Gtwa!Resting(gtwa), Gtwa!Final(Gtwa!Resting(gtwa), "ok")) /\ "ok" \in GtwaWord
    BY <1>7, WordsAre DEF Gtwa!Ok
  <2> QED
    BY <1>1, <1>3, <1>4, <1>7, <2>1, ClosesKeeps
<1> QED
  BY <1>3, <1>5, <1>6, <1>7

(* log and help form a part of what they show, and go on until they have   *)
(* shown it.                                                               *)
LEMMA ShownKeeps ==
  ASSUME GatewayInv, gtwa.pc = "state", gtwa.state = "log" \/ gtwa.state = "help",
         NEW g \in GtwaRec, SameHeld(g), g.pc = "state", g.state = gtwa.state, g.seq = gtwa.seq,
         NEW ps \in Seq(Piece), Len(ps) <= RESP, NEW c \in 0..Len(ps),
         NEW h, h = Gtwa!Taken(Gtwa!Formed(g, ps), c),
         \/ gtwa' = Gtwa!Resting(h)
         \/ gtwa' = Gtwa!At(h, IF h.hold THEN "out" ELSE "state"),
         due' = Gtwa!Unread(due \o ps, c), past' = Gtwa!OverHeld(past),
         UNCHANGED <<commFifo, script, client, master, told>>
  PROVE  GatewayInv'
<1>1. /\ GatewayTypes /\ HeldInv /\ AnswerInv /\ MasterInv /\ gtwa \in GtwaRec /\ past \in PastRec
  BY DEF GatewayInv, GatewayTypes
<1>2. /\ h \in GtwaRec /\ SameWork(h, g)
      /\ (h.hold <=> h.count > 0) /\ (~h.hold => h.off = 0)
      /\ ~past.overrun /\ ~gtwa.hold =>
           h.off + h.count <= RESP /\ Gtwa!Unread(due \o ps, c) = Held(h)
  BY <1>1, OfferedIs DEF SameHeld
<1>3. PICK f : f = gtwa'
  OBVIOUS
<1>4. /\ f \in GtwaRec /\ (f.hold <=> h.hold) /\ f.count = h.count /\ f.off = h.off /\ f.buf = h.buf
      /\ f.seq = gtwa.seq /\ f.pc # "read" /\ (f.state = "IDLE" \/ f.state = gtwa.state)
  <2>1. h.state = gtwa.state /\ h.seq = gtwa.seq
    BY <1>2 DEF SameWork
  <2>2. CASE gtwa' = Gtwa!Resting(h)
    BY <1>2, <1>3, <2>1, <2>2, WordsAre DEF Gtwa!Resting, GtwaRec
  <2>3. CASE gtwa' = Gtwa!At(h, "out")
    BY <1>2, <1>3, <2>1, <2>3, WordsAre DEF Gtwa!At, GtwaRec
  <2>4. CASE gtwa' = Gtwa!At(h, "state")
    BY <1>2, <1>3, <2>1, <2>4, WordsAre DEF Gtwa!At, GtwaRec
  <2> QED
    BY <2>2, <2>3, <2>4
<1>5. /\ past' \in PastRec /\ Overruns /\ (past'.cut <=> past.cut) /\ (past'.dirty <=> past.dirty)
      /\ (past'.lapsed <=> past.lapsed) /\ past'.silent = past.silent
  BY <1>1, OverHeldIs DEF Overruns
<1>6. HeldInv'
  <2>1. Held(f) = Held(h)
    BY <1>4 DEF Held
  <2>2. f.state # "READ"
    BY <1>4
  <2>3. HeldOk(f, due', past'.overrun)
    BY <1>2, <1>4, <1>5, <2>1, <2>2 DEF HeldOk, Held, Overruns
  <2> QED
    BY <1>3, <2>3 DEF HeldInv
<1>7. GatewayTypes'
  BY <1>1, <1>3, <1>4, <1>5 DEF GatewayTypes
<1>8. AnswerInv'
  <2>1. past.silent = gtwa.seq
    BY <1>1 DEF AnswerInv, Shows
  <2>2. ~past'.cut => AnswersOk'
    BY <1>1, <1>3, <1>4, <1>5, <2>1 DEF AnswerInv, AnswersOk
  <2> QED
    BY <1>1, <1>3, <1>4, <1>5, <2>1, <2>2 DEF AnswerInv, Shows
<1>9. MasterInv'
  BY <1>1, <1>3, <1>4, <1>5 DEF MasterInv, MasterOk
<1> QED
  BY <1>6, <1>7, <1>8, <1>9 DEF GatewayInv

(* The log is printed.                                                     *)
LEMMA LogKeeps ==
  ASSUME GatewayInv, Gtwa!Log PROVE GatewayInv'
<1>1. gtwa \in GtwaRec /\ RESP \in Nat /\ gtwa.log \in Nat
  BY GatewayAssumption DEF GatewayInv, GatewayTypes, GtwaRec
<1>2. PICK m : m = IF gtwa.log < RESP THEN gtwa.log ELSE RESP
  OBVIOUS
<1>3. PICK ps, g : /\ ps = [i \in 1..m |-> <<0, "log">>]
                   /\ g = [gtwa EXCEPT !.log = @ - m]
  OBVIOUS
<1>4. m \in Nat /\ m <= RESP /\ gtwa.log - m \in Nat
  BY <1>1, <1>2
<1>5. ps \in Seq(Piece) /\ Len(ps) = m
  <2>1. PICK x \in Piece : x = <<0, "log">>
    BY WordsAre DEF Piece
  <2>2. ps = [i \in 1..m |-> x]
    BY <1>3, <2>1
  <2> QED
    BY <1>4, <2>2
<1>6. /\ gtwa.pc = "state" /\ gtwa.state = "log"
      /\ past' = Gtwa!OverHeld(past) /\ UNCHANGED <<commFifo, script, client, master, told>>
  BY DEF Gtwa!Log, Gtwa!In
<1>7. PICK c \in 0..m :
        LET h == Gtwa!Taken(Gtwa!Formed(g, ps), c)
        IN  /\ gtwa' = IF h.log = 0 THEN Gtwa!Resting(h) ELSE Gtwa!At(h, IF h.hold THEN "out" ELSE "state")
            /\ due' = Gtwa!Unread(due \o ps, c)
  BY <1>2, <1>3 DEF Gtwa!Log
<1>8. PICK h : h = Gtwa!Taken(Gtwa!Formed(g, ps), c)
  OBVIOUS
<1>9. /\ g \in GtwaRec /\ SameHeld(g) /\ g.pc = "state" /\ g.state = gtwa.state /\ g.seq = gtwa.seq
  BY <1>1, <1>3, <1>4, <1>6 DEF GtwaRec, SameHeld
<1>10. /\ \/ gtwa' = Gtwa!Resting(h)
          \/ gtwa' = Gtwa!At(h, IF h.hold THEN "out" ELSE "state")
       /\ due' = Gtwa!Unread(due \o ps, c) /\ c \in 0..Len(ps) /\ Len(ps) <= RESP
  BY <1>4, <1>5, <1>7, <1>8
<1> QED
  BY <1>5, <1>6, <1>8, <1>9, <1>10, ShownKeeps

(* The help is printed, as much of it as the buffer takes.                 *)
LEMMA HelpKeeps ==
  ASSUME GatewayInv, Gtwa!Help PROVE GatewayInv'
<1>1. gtwa \in GtwaRec /\ RESP \in Nat /\ HELP \in Nat /\ gtwa.offset \in 0..HELP
  BY GatewayAssumption DEF GatewayInv, GatewayTypes, GtwaRec
<1>2. PICK m : m = IF HELP - gtwa.offset < RESP THEN HELP - gtwa.offset ELSE RESP
  OBVIOUS
<1>3. PICK ps, g : /\ ps = [i \in 1..m |-> <<gtwa.offset + i, "help">>]
                   /\ g = [gtwa EXCEPT !.offset = @ + m]
  OBVIOUS
<1>4. m \in Nat /\ m <= RESP /\ gtwa.offset + m \in 0..HELP
  BY <1>1, <1>2
<1>5. ps \in Seq(Piece) /\ Len(ps) = m
  <2>1. \A i \in 1..m : <<gtwa.offset + i, "help">> \in Piece
    BY <1>1, <1>4, WordsAre DEF Piece
  <2> QED
    BY <1>3, <1>4, <2>1
<1>6. /\ gtwa.pc = "state" /\ gtwa.state = "help"
      /\ past' = Gtwa!OverHeld(past) /\ UNCHANGED <<commFifo, script, client, master, told>>
  BY DEF Gtwa!Help, Gtwa!In
<1>7. PICK c \in 0..m :
        LET h == Gtwa!Taken(Gtwa!Formed(g, ps), c)
        IN  /\ gtwa' = IF h.offset = HELP THEN Gtwa!Resting(h) ELSE Gtwa!At(h, IF h.hold THEN "out" ELSE "state")
            /\ due' = Gtwa!Unread(due \o ps, c)
  BY <1>2, <1>3 DEF Gtwa!Help
<1>8. PICK h : h = Gtwa!Taken(Gtwa!Formed(g, ps), c)
  OBVIOUS
<1>9. /\ g \in GtwaRec /\ SameHeld(g) /\ g.pc = "state" /\ g.state = gtwa.state /\ g.seq = gtwa.seq
  BY <1>1, <1>3, <1>4, <1>6 DEF GtwaRec, SameHeld
<1>10. /\ \/ gtwa' = Gtwa!Resting(h)
          \/ gtwa' = Gtwa!At(h, IF h.hold THEN "out" ELSE "state")
       /\ due' = Gtwa!Unread(due \o ps, c) /\ c \in 0..Len(ps) /\ Len(ps) <= RESP
  BY <1>4, <1>5, <1>7, <1>8
<1> QED
  BY <1>5, <1>6, <1>8, <1>9, <1>10, ShownKeeps

(* The LEDs are printed when they change.                                  *)
LEMMA LedKeeps ==
  ASSUME GatewayInv, Gtwa!Led PROVE GatewayInv'
<1>1. /\ GatewayTypes /\ HeldInv /\ AnswerInv /\ MasterInv /\ gtwa \in GtwaRec /\ past \in PastRec
      /\ Types(past, client, master) /\ Streams(commFifo, script)
  BY DEF GatewayInv, GatewayTypes, Types, Streams
<1>2. /\ gtwa.pc = "state" /\ gtwa.state = "led" /\ commFifo' = commFifo /\ script' = script
      /\ client' = client /\ master' = master
  BY DEF Gtwa!Led, Gtwa!In
<1>3. PICK i : /\ i = "stop" \/ i = "red" \/ i = "green"
               /\ LET g == [gtwa EXCEPT !.pc = "out", !.led = i, !.state = IF i = "stop" THEN "IDLE" ELSE @] IN
                  IF i = gtwa.led THEN Gtwa!Quiet(g) /\ UNCHANGED past
                  ELSE Gtwa!Respond(g, <<<<0, i>>>>) /\ past' = Gtwa!OverHeld(past)
  BY DEF Gtwa!Led
<1>4. PICK st, g, ps : /\ st = IF i = "stop" THEN "IDLE" ELSE gtwa.state
                       /\ g = [gtwa EXCEPT !.pc = "out", !.led = i, !.state = st]
                       /\ ps = <<<<0, i>>>>
  OBVIOUS
<1>5. \/ Gtwa!Quiet(g) /\ past' = past
      \/ Gtwa!Respond(g, ps) /\ past' = Gtwa!OverHeld(past)
  BY <1>3, <1>4
<1>6. i \in GtwaWord /\ st \in GtwaWord
  BY <1>2, <1>3, <1>4, WordsAre
<1>7. /\ g \in GtwaRec /\ SameHeld(g) /\ g.pc = "out" /\ g.seq = gtwa.seq
      /\ g.state = "IDLE" \/ g.state = "led"
  BY <1>1, <1>2, <1>4, <1>6, WordsAre DEF GtwaRec, SameHeld
<1>8. past.silent = gtwa.seq /\ StreamOk(commFifo \o script, gtwa.seq) /\ (past.dirty \/ Peace(master))
  BY <1>1, <1>2 DEF AnswerInv, Shows, MasterInv, MasterOk, Peace
<1>9. ASSUME gtwa'.seq = gtwa.seq, gtwa'.pc = "out", gtwa'.state = "IDLE" \/ gtwa'.state = "led",
             told' = told, past'.cut <=> past.cut, past'.silent = past.silent, past'.dirty <=> past.dirty
      PROVE  AnswerInv' /\ MasterInv'
  <2>1. PICK h : h = gtwa'
    OBVIOUS
  <2>2. ~past'.cut => AnswersOk'
    BY <1>1, <1>2, <1>8, <1>9, <2>1 DEF AnswerInv, AnswersOk
  <2>3. AnswerInv'
    BY <1>2, <1>8, <1>9, <2>1, <2>2 DEF AnswerInv, Shows
  <2>4. MasterInv'
    BY <1>2, <1>8, <1>9, <2>1 DEF MasterInv, MasterOk, Peace
  <2> QED
    BY <2>3, <2>4
<1>10. CASE Gtwa!Quiet(g) /\ past' = past
  <2>1. GatewayTypes' /\ HeldInv' /\ gtwa' = g /\ told' = told
    BY <1>1, <1>2, <1>7, <1>10, QuietHeld
  <2> QED
    BY <1>7, <1>9, <1>10, <2>1 DEF GatewayInv
<1>11. CASE Gtwa!Respond(g, ps) /\ past' = Gtwa!OverHeld(past)
  <2>1. ps \in Seq(Piece) /\ Len(ps) = 1 /\ 1 <= RESP
    <3>1. <<0, i>> \in Piece
      BY <1>6 DEF Piece
    <3> QED
      BY <1>4, <3>1, GatewayAssumption
  <2>2. /\ past' \in PastRec /\ Overruns /\ (past'.cut <=> past.cut) /\ (past'.dirty <=> past.dirty)
        /\ (past'.lapsed <=> past.lapsed) /\ past'.silent = past.silent
    BY <1>1, <1>11, OverHeldIs DEF Overruns
  <2>3. gtwa' \in GtwaRec /\ SameWork(gtwa', g) /\ HeldInv' /\ told' = told
    <3>1. gtwa.pc # "read" /\ g.pc # "read" /\ g.state # "READ" /\ Len(ps) <= RESP /\ Len(ps) # 2
      BY <1>2, <1>7, <2>1
    <3> QED
      BY <1>1, <1>7, <1>11, <2>1, <2>2, <3>1, RespondIs
  <2>4. GatewayTypes'
    BY <1>1, <1>2, <2>2, <2>3 DEF GatewayTypes
  <2>5. AnswerInv' /\ MasterInv'
    BY <1>7, <1>9, <2>2, <2>3 DEF SameWork
  <2> QED
    BY <2>3, <2>4, <2>5 DEF GatewayInv
<1> QED
  BY <1>5, <1>10, <1>11

(* The gateway starts with the invariant.                                  *)
LEMMA GatewayInvInit ==
  ASSUME Gtwa!GatewayInit PROVE GatewayInv
<1>1. /\ gtwa = [pc |-> "out", state |-> "IDLE", seq |-> 0, hold |-> FALSE, node |-> FALSE,
                 buf |-> [i \in 1..RESP |-> Gtwa!NoPiece], off |-> 0, count |-> 0, copied |-> FALSE,
                 timer |-> 0, sub |-> 0, store |-> FALSE, nid |-> 0, ret |-> "none", offset |-> 0,
                 log |-> 0, led |-> "none"]
      /\ commFifo = <<>> /\ script \in GatewayLines
      /\ client = [state |-> "IDLE", n |-> 0, left |-> 0]
      /\ master = [command |-> "WAITING", default |-> TRUE]
      /\ due = <<>> /\ told = <<>> /\ past = Gtwa!PastInit
  BY DEF Gtwa!GatewayInit
<1>2. /\ RESP \in Nat /\ COMM \in Nat /\ SDO_BUF \in Nat /\ HELP \in Nat
      /\ script \in Seq(Token) /\ InOrder(script)
  BY <1>1, GatewayAssumption
<1>3. gtwa \in GtwaRec
  <2>1. Gtwa!NoPiece \in Piece
    BY WordsAre DEF Gtwa!NoPiece, Piece
  <2>2. PICK b : b = [i \in 1..RESP |-> Gtwa!NoPiece]
    OBVIOUS
  <2>3. b \in [1..RESP -> Piece]
    BY <2>1, <2>2
  <2>4. 0 \in 0..RESP /\ 0 \in 0..HELP
    BY <1>2
  <2> QED
    BY <1>1, <2>2, <2>3, <2>4, WordsAre DEF GtwaRec
<1>4. /\ past \in PastRec /\ ~past.overrun /\ ~past.cut /\ past.silent = 0
  BY <1>1 DEF Gtwa!PastInit, PastRec
<1>5. client \in ClientRec /\ master \in MasterRec /\ Peace(master)
  BY <1>1, <1>2, WordsAre DEF ClientRec, MasterRec, Peace
<1>6. GatewayTypes
  <2>1. Len(commFifo) <= COMM /\ commFifo \in Seq(Token) /\ told \in Seq(Piece)
    BY <1>1, <1>2
  <2> QED
    BY <1>2, <1>3, <1>4, <1>5, <2>1 DEF GatewayTypes
<1>7. /\ gtwa.pc = "out" /\ gtwa.state = "IDLE" /\ gtwa.seq = 0 /\ ~gtwa.hold /\ gtwa.off = 0
      /\ gtwa.count = 0
  BY <1>1
<1>8. HeldInv
  <2>1. due = [i \in 1..gtwa.count |-> gtwa.buf[gtwa.off + i]]
    BY <1>1, <1>7
  <2> QED
    BY <1>2, <1>7, <2>1 DEF HeldInv, HeldOk
<1>9. commFifo \o script = script
  BY <1>1, <1>2, ConcatEmptySeq
<1>10. StreamOk(script, 0) /\ ~Inside(script)
  BY <1>2 DEF InOrder, StreamOk, Inside
<1>11. ToldOk(told, 0)
  BY <1>1 DEF ToldOk
<1>12. AnswerInv
  BY <1>4, <1>7, <1>9, <1>10, <1>11 DEF AnswerInv, AnswersOk, Shows
<1>13. MasterInv
  BY <1>5, <1>7 DEF MasterInv, MasterOk, Peace
<1> QED
  BY <1>6, <1>8, <1>12, <1>13 DEF GatewayInv

(* Every step of the gateway keeps it,                                     *)
LEMMA GatewayInvStep ==
  ASSUME GatewayInv, Gtwa!GatewayNext PROVE GatewayInv'
<1>1. \/ Gtwa!CO_GTWA_write \/ Gtwa!CO_GTWA_log_print \/ Gtwa!CO_GTWA_process
  BY DEF Gtwa!GatewayNext
<1>2. ASSUME Gtwa!CO_GTWA_process PROVE GatewayInv'
  <2>1. CASE Gtwa!Disable \/ Gtwa!Call
    BY <2>1, DisableKeeps, CallKeeps
  <2>2. CASE \/ Gtwa!ParseEmpty \/ Gtwa!ParseBad \/ Gtwa!ParseSet \/ Gtwa!ParseNmt \/ Gtwa!ParseDeselect
    BY <2>2, ParseEmptyKeeps, ParseBadKeeps, AnsweredAtOnceKeep
  <2>3. CASE \/ Gtwa!ParseLss \/ Gtwa!ParseScan \/ Gtwa!ParseShown \/ Gtwa!ParseRead
             \/ Gtwa!ParseWrite \/ Gtwa!ParseDone
    BY <2>3, ParseLssKeeps, ParseScanKeeps, ParseShownKeeps, ParseReadKeeps, ParseWriteKeeps, ParseDoneKeeps
  <2>4. CASE Gtwa!Upload \/ Gtwa!PrintData \/ Gtwa!Write \/ Gtwa!Purge
    BY <2>4, UploadKeeps, PrintDataKeeps, WriteKeeps, PurgeKeeps
  <2>5. CASE Gtwa!Lss \/ Gtwa!Fastscan \/ Gtwa!Log \/ Gtwa!Help \/ Gtwa!Led
    BY <2>5, LssKeeps, FastscanKeeps, LogKeeps, HelpKeeps, LedKeeps
  <2>6. CASE Gtwa!AllNodes(0, "scan", {"ok", "found", "failed"})
    BY <2>6, AllNodesKeeps
  <2>7. CASE Gtwa!AllNodes(1, "node", {"ok", "failed"})
    BY <2>7, AllNodesKeeps
  <2>8. CASE Gtwa!AllNodes(2, "store", {"ok", "failed"})
    BY <2>8, AllNodesKeeps
  <2>9. CASE Gtwa!Deselect
    BY <2>9, DeselectKeeps
  <2> QED
    BY <1>2, <2>1, <2>2, <2>3, <2>4, <2>5, <2>6, <2>7, <2>8, <2>9 DEF Gtwa!CO_GTWA_process
<1> QED
  BY <1>1, <1>2, WrittenKeeps, LoggedKeeps

(* so does every step of another service,                                  *)
LEMMA GatewayInvKept ==
  ASSUME GatewayInv, UNCHANGED gtwaVars PROVE GatewayInv'
BY DEF gtwaVars, GatewayInv, GatewayTypes, HeldInv, AnswerInv, AnswersOk, MasterInv, MasterOk, AtRest

(* so it always holds,                                                     *)
LEMMA GatewayInvAlways == Spec => []GatewayInv
<1>1. Init => GatewayInv
  BY GatewayInvInit DEF Init
<1>2. GatewayInv /\ [Next]_vars => GatewayInv'
  <2> SUFFICES ASSUME GatewayInv, [Next]_vars PROVE GatewayInv'
    OBVIOUS
  <2>1. Gtwa!GatewayNext \/ UNCHANGED gtwaVars
    BY DEF Next, vars
  <2> QED
    BY <2>1, GatewayInvStep, GatewayInvKept
<1> QED
  BY <1>1, <1>2, PTL DEF Spec

(* and it is enough for the property and the types of the gateway.         *)
LEMMA GatewayInvSuffices == GatewayInv => GatewayAnswers /\ Gtwa!GatewayTypeOK
<1> SUFFICES ASSUME GatewayInv PROVE GatewayAnswers /\ Gtwa!GatewayTypeOK
  OBVIOUS
<1>1. /\ GatewayTypes /\ HeldInv /\ AnswerInv /\ MasterInv /\ gtwa \in GtwaRec /\ past \in PastRec
      /\ client \in ClientRec /\ master \in MasterRec /\ told \in Seq(Piece)
  BY DEF GatewayInv, GatewayTypes
<1>2. gtwa.count \in 0..RESP /\ gtwa.off \in Nat /\ gtwa.offset \in 0..HELP /\ client.n \in 0..SDO_BUF
      /\ Len(commFifo) <= COMM /\ gtwa.hold \in BOOLEAN /\ RESP \in Nat
  BY <1>1, GatewayAssumption DEF GatewayTypes, GtwaRec, ClientRec
<1>3. Gtwa!TakenInParts
  <2> SUFFICES ASSUME ~past.overrun PROVE Gtwa!Slice(gtwa) = due
    BY DEF Gtwa!TakenInParts, Gtwa!HeldIsWhole
  <2>1. gtwa.off + gtwa.count <= RESP /\ due = [i \in 1..gtwa.count |-> gtwa.buf[gtwa.off + i]]
    BY <1>1 DEF HeldInv, HeldOk
  <2>2. \A i \in 1..gtwa.count : gtwa.off + i <= RESP
    BY <1>2, <2>1
  <2> QED
    BY <2>1, <2>2 DEF Gtwa!Slice
<1>4. Gtwa!GatewayTypeOK
  <2>1. past.overrun \/ gtwa.off + gtwa.count <= RESP
    BY <1>1 DEF HeldInv, HeldOk
  <2>2. gtwa.pc = "read" \/ gtwa.hold = (gtwa.count > 0)
    BY <1>1, <1>2 DEF HeldInv, HeldOk
  <2> QED
    BY <1>2, <2>1, <2>2 DEF Gtwa!GatewayTypeOK
<1>5. Gtwa!MasterLeftClean
  BY <1>1 DEF MasterInv, MasterOk, Gtwa!MasterLeftClean, Gtwa!Scans
<1>6. Gtwa!AnsweredOnce
  <2> DEFINE Answers(s) == {i \in DOMAIN told : told[i][1] = s}
  <2>1. Answers(gtwa.seq) # {} <=> Answered(told, gtwa.seq)
    BY DEF Answered
  <2> SUFFICES ASSUME ~past.cut
               PROVE  /\ \A i \in 2..Len(told) : told[i - 1][1] < told[i][1]
                      /\ \A i \in DOMAIN told : told[i][1] <= gtwa.seq
                      /\ gtwa.state \notin {"IDLE", "WRITE_ABORTED"} => Answers(gtwa.seq) = {}
                      /\ gtwa.state = "IDLE" /\ gtwa.seq \notin {0, past.silent} /\ ~past.lapsed =>
                           Answers(gtwa.seq) # {}
    BY DEF Gtwa!AnsweredOnce
  <2> HIDE DEF Answers
  <2>2. AnswersOk
    BY <1>1 DEF AnswerInv
  <2> QED
    BY <2>1, <2>2 DEF AnswersOk, ToldOk
<1> QED
  BY <1>3, <1>4, <1>5, <1>6 DEF GatewayAnswers

(* The application gets the responses of the gateway whole, every command  *)
(* line gets one answer in the order of the lines, and the LSS master is   *)
(* left at rest.                                                           *)
THEOREM GatewayAnswersAlways == Spec => []GatewayAnswers
BY GatewayInvAlways, GatewayInvSuffices, PTL

-----------------------------------------------------------------------------
(* The texts: characters and bytes, and where the reader stands in what    *)
(* has arrived of the text.                                                *)
Byte == 0..255
Top == 65535
ReaderState == {"new", "open", "closed", "error"}
ReaderRec == [state : ReaderState, step : 0..6, aux : Nat, pos : Nat, out : Seq(Byte)]
ReadOk(r, n) ==
  /\ r \in ReaderRec /\ r.pos \in 1..(n + 1)
  /\ format = "hex" => r.aux < 16 /\ (r.step = 0 \/ r.step = 1 \/ r.step = 6)
TextTypes ==
  /\ format \in Text!Format /\ data \in Seq(Byte) /\ text \in Seq(Byte)
  /\ eStep \in 0..2 /\ eWord \in 0..Top
  /\ arrived \in 0..Len(text) /\ free \in 0..Space
  /\ ReadOk(reader, Len(text))

(* The range of a byte.                                                    *)
LEMMA ByteIs ==
  /\ \A x \in Nat : x < 256 => x \in Byte
  /\ \A x \in Byte : x \in Nat /\ x < 256
BY DEF Byte

(* The states of the reading side.                                         *)
LEMMA ReaderStates ==
  /\ "new" \in ReaderState /\ "open" \in ReaderState /\ "closed" \in ReaderState
  /\ "error" \in ReaderState
BY DEF ReaderState

(* Trimming leaves the reader inside what it was given, or behind it.      *)
LEMMA TrimIs ==
  ASSUME text \in Seq(Byte), NEW n \in Nat, n <= Len(text), NEW p \in 1..(n + 1),
         NEW inside, NEW t, t = Text!Trim(n, p, inside)
  PROVE  t.pos \in 1..(n + 1)
<1> DEFINE stops == {q \in p..n : text[q] = Text!NL \/ (Text!isgraph(text[q]) /\ text[q] # Text!HASH
                                /\ ~inside /\ \A s \in p..q : text[s] # Text!HASH)}
           stop == CHOOSE q \in stops : \A s \in stops : q <= s
<1>1. CASE stops = {}
  <2>1. t.pos = n + 1
    BY <1>1 DEF Text!Trim
  <2> QED
    BY <2>1
<1>2. CASE stops # {}
  <2>0. stops \in SUBSET Nat /\ \A q \in stops : q \in p..n
    OBVIOUS
  <2>1. t.pos = IF text[stop] = Text!NL THEN stop + 1 ELSE stop
    BY <1>2 DEF Text!Trim
  <2> HIDE DEF stops
  <2>2. PICK x \in stops : \A s \in stops : x <= s
    BY <1>2, <2>0, LeastNatural
  <2>3. stop \in stops
    BY <2>2
  <2> HIDE DEF stop
  <2>4. stop \in p..n
    BY <2>0, <2>3
  <2> QED
    BY <2>1, <2>4
<1> QED
  BY <1>1, <1>2

(* The fields of a reader that has moved on are those it has had, or       *)
(* others in their bounds.                                                 *)
Moves(r, h, p, s, k) ==
  \/ h = [r EXCEPT !.state = s]
  \/ h = [r EXCEPT !.state = s, !.pos = p]
  \/ h = [r EXCEPT !.pos = p]
  \/ h = [r EXCEPT !.pos = p, !.step = k]
  \/ h = [r EXCEPT !.step = k]

(* A turn that puts out nothing.                                           *)
LEMMA MovedIs ==
  ASSUME NEW n \in Nat, NEW r, ReadOk(r, n), NEW p \in 1..(n + 1), NEW s \in ReaderState, NEW k \in 0..6,
         format # "hex" \/ k = 0 \/ k = 1 \/ k = 6, NEW h, Moves(r, h, p, s, k)
  PROVE  ReadOk(h, n) /\ h.out = r.out
<1>1. r \in ReaderRec /\ p \in Nat
  BY DEF ReadOk
<1>2. /\ h \in ReaderRec /\ h.out = r.out /\ h.aux = r.aux
      /\ h.pos = r.pos \/ h.pos = p
      /\ h.step = r.step \/ h.step = k
  BY <1>1 DEF ReaderRec, Moves
<1> QED
  BY <1>2 DEF ReadOk

(* A turn that puts out bytes.                                             *)
LEMMA PutIs ==
  ASSUME NEW n, NEW r, ReadOk(r, n), NEW b \in Seq(Byte), NEW h, h = Text!PutBytes(r, b)
  PROVE  ReadOk(h, n) /\ h.step = r.step /\ Len(h.out) = Len(r.out) + Len(b)
<1>1. PICK o : o = r.out \o b
  OBVIOUS
<1>2. o \in Seq(Byte) /\ Len(o) = Len(r.out) + Len(b)
  BY <1>1, ConcatProperties DEF ReadOk, ReaderRec
<1>3. h = [r EXCEPT !.out = o]
  BY <1>1 DEF Text!PutBytes, ReadOk, ReaderRec
<1> QED
  BY <1>2, <1>3 DEF ReadOk, ReaderRec

(* What follows a token.                                                   *)
LEMMA FinishIs ==
  ASSUME text \in Seq(Byte), NEW n \in Nat, n <= Len(text), NEW r, ReadOk(r, n), format # "hex",
         NEW c, NEW h, h = Text!Finish(r, n, c)
  PROVE  ReadOk(h, n) /\ h.out = r.out
<1>1. PICK t : t = Text!Trim(n, r.pos, FALSE)
  OBVIOUS
<1>2. t.pos \in 1..(n + 1)
  BY <1>1, TrimIs DEF ReadOk
<1>3. PICK k \in 0..6 : k = IF t.inside THEN 6 ELSE 5
  OBVIOUS
<1>4. Moves(r, h, t.pos, "closed", k)
  BY <1>1, <1>3 DEF Text!Finish, Moves
<1> QED
  BY <1>2, <1>4, ReaderStates, MovedIs

(* The rest of the line behind it.                                         *)
LEMMA TrailIs ==
  ASSUME text \in Seq(Byte), NEW n \in Nat, n <= Len(text), NEW r, ReadOk(r, n),
         NEW c, NEW pad, NEW h, h = Text!Trail(r, n, c, pad)
  PROVE  ReadOk(h, n) /\ h.out = r.out
<1>1. PICK t : t = Text!Trim(n, r.pos, r.step > 5)
  OBVIOUS
<1>2. t.pos \in 1..(n + 1) /\ 6 \in 0..6
  BY <1>1, TrimIs DEF ReadOk
<1>3. Moves(r, h, t.pos, "closed", 6) \/ Moves(r, h, t.pos, "error", 6)
  BY <1>1 DEF Text!Trail, Text!Fail, Moves
<1> QED
  BY <1>2, <1>3, ReaderStates, MovedIs

(* A turn of the loop: the reader stays in its bounds, and puts out no     *)
(* more bytes than the loop has made sure of.                              *)
Puts(r, h, k) == Len(h.out) >= Len(r.out) /\ Len(h.out) <= Len(r.out) + k

(* What puts out nothing needs no room,                                    *)
LEMMA PutsNone ==
  ASSUME NEW n, NEW r, ReadOk(r, n), NEW h, h.out = r.out, NEW k \in Nat
  PROVE  Puts(r, h, k)
<1>1. Len(r.out) \in Nat
  BY DEF ReadOk, ReaderRec
<1> QED
  BY <1>1 DEF Puts

(* and what puts out one byte needs room for one.                          *)
LEMMA PutOne ==
  ASSUME NEW n, NEW r, ReadOk(r, n), NEW b \in Byte, NEW h, h = Text!PutBytes(r, <<b>>)
  PROVE  ReadOk(h, n) /\ h.step = r.step /\ Puts(r, h, 1)
<1>1. <<b>> \in Seq(Byte) /\ Len(<<b>>) = 1
  OBVIOUS
<1>2. Len(r.out) \in Nat
  BY DEF ReadOk, ReaderRec
<1>3. ReadOk(h, n) /\ h.step = r.step /\ Len(h.out) = Len(r.out) + 1
  BY <1>1, PutIs
<1> QED
  BY <1>2, <1>3 DEF Puts

(* A turn of cpyTok2Hex.                                                   *)
LEMMA HexIs ==
  ASSUME text \in Seq(Byte), NEW n \in Nat, n <= Len(text), NEW r, ReadOk(r, n), format = "hex",
         NEW c \in Byte, NEW h, h = Text!Hex(r, n, c)
  PROVE  ReadOk(h, n) /\ Puts(r, h, 1)
<1>0. /\ r.aux \in Nat /\ r.aux < 16 /\ (r.step = 0 \/ r.step = 1 \/ r.step = 6)
      /\ r.pos \in 1..(n + 1)
  BY DEF ReadOk, ReaderRec
<1>a. c \in Nat /\ r.aux \in Byte /\ 1 \in 0..6 /\ 0 \in 0..6 /\ 6 \in 0..6
  BY <1>0, ByteIs
<1>1. PICK t : t = Text!Trim(n, r.pos, FALSE)
  OBVIOUS
<1>2. t.pos \in 1..(n + 1)
  BY <1>0, <1>1, TrimIs
<1>3. PICK z : z = [r EXCEPT !.step = 0]
  OBVIOUS
<1>4. ReadOk(z, n) /\ z.out = r.out
  <2>1. Moves(r, z, r.pos, "open", 0)
    BY <1>3 DEF Moves
  <2> QED
    BY <1>0, <1>a, <2>1, MovedIs, ReaderStates
<1>5. PICK w : w = IF r.step = 1 THEN Text!PutBytes(z, <<r.aux>>) ELSE r
  OBVIOUS
<1>6. ReadOk(w, n) /\ Puts(r, w, 1)
  <2>1. CASE r.step = 1
    <3>1. w = Text!PutBytes(z, <<r.aux>>)
      BY <1>5, <2>1
    <3> QED
      BY <1>a, <1>4, <3>1, PutOne DEF Puts
  <2>2. CASE r.step # 1
    BY <1>5, <2>2, PutsNone
  <2> QED
    BY <2>1, <2>2
<1>7. \/ h = Text!Trail(r, n, c, Text!PAD)
      \/ c < 16 /\ h = [r EXCEPT !.aux = c, !.step = 1]
      \/ c < 16 /\ h = Text!PutBytes(z, <<16 * r.aux + c>>)
      \/ h = [r EXCEPT !.step = 6]
      \/ h = [r EXCEPT !.state = "error"]
      \/ h = [w EXCEPT !.state = "closed"]
      \/ h = [w EXCEPT !.state = "closed", !.pos = t.pos]
      \/ h = [w EXCEPT !.pos = t.pos, !.step = 6]
      \/ h = [w EXCEPT !.pos = t.pos, !.step = 0]
  <2>1. [w EXCEPT !.state = "closed", !.pos = w.pos] = [w EXCEPT !.state = "closed"]
    BY <1>6 DEF ReadOk, ReaderRec
  <2> QED
    BY <1>1, <1>3, <1>5, <2>1 DEF Text!Hex, Text!Fail
<1>8. CASE h = Text!Trail(r, n, c, Text!PAD)
  BY <1>8, TrailIs, PutsNone
<1>9. CASE c < 16 /\ h = Text!PutBytes(z, <<16 * r.aux + c>>)
  <2>1. c < 16 /\ 16 * r.aux + c \in Nat
    BY <1>0, <1>a, <1>9
  <2>2. 16 * r.aux + c \in Byte
    <3>1. 16 * r.aux + c < 256
      BY <1>0, <1>a, <2>1
    <3> QED
      BY <2>1, <3>1, ByteIs
  <2> QED
    BY <1>4, <1>9, <2>2, PutOne DEF Puts
<1>10. CASE c < 16 /\ h = [r EXCEPT !.aux = c, !.step = 1]
  <2>1. /\ h \in ReaderRec /\ h.pos = r.pos /\ h.aux = c /\ h.step = 1 /\ h.out = r.out
    BY <1>0, <1>a, <1>10 DEF ReadOk, ReaderRec
  <2>2. ReadOk(h, n)
    BY <1>0, <1>10, <2>1 DEF ReadOk
  <2> QED
    BY <2>1, <2>2, PutsNone
<1>11. CASE \/ h = [r EXCEPT !.step = 6]
            \/ h = [r EXCEPT !.state = "error"]
  <2>1. ReadOk(h, n) /\ h.out = r.out
    <3>1. Moves(r, h, r.pos, "error", 6)
      BY <1>11 DEF Moves
    <3> QED
      BY <1>0, <1>a, <3>1, MovedIs, ReaderStates
  <2> QED
    BY <2>1, PutsNone
<1>12. CASE \/ h = [w EXCEPT !.state = "closed"]
            \/ h = [w EXCEPT !.state = "closed", !.pos = t.pos]
            \/ h = [w EXCEPT !.pos = t.pos, !.step = 6]
            \/ h = [w EXCEPT !.pos = t.pos, !.step = 0]
  <2>1. ReadOk(h, n) /\ h.out = w.out
    <3>1. Moves(w, h, t.pos, "closed", 6) \/ Moves(w, h, t.pos, "closed", 0)
      BY <1>12 DEF Moves
    <3> QED
      BY <1>a, <1>2, <1>6, <3>1, MovedIs, ReaderStates
  <2> QED
    BY <1>6, <2>1 DEF Puts
<1> QED
  BY <1>7, <1>8, <1>9, <1>10, <1>11, <1>12

(* A turn of cpyTok2Vs.                                                    *)
LEMMA VsIs ==
  ASSUME text \in Seq(Byte), NEW n \in Nat, n <= Len(text), NEW r, ReadOk(r, n), format = "vs",
         NEW c \in Byte, NEW h, h = Text!Vs(r, n, c)
  PROVE  ReadOk(h, n) /\ Puts(r, h, 1)
<1>0. /\ r.step \in 0..6 /\ r.pos \in 1..(n + 1) /\ format # "hex"
      /\ 1 \in 0..6 /\ 2 \in 0..6 /\ 6 \in 0..6
  BY DEF ReadOk, ReaderRec
<1>a. Text!QUOTE \in Byte
  BY ByteIs DEF Text!QUOTE
<1>1. PICK z : z = [r EXCEPT !.step = 2]
  OBVIOUS
<1>2. PICK y : y = [r EXCEPT !.step = r.step - 2]
  OBVIOUS
<1>3. ReadOk(z, n) /\ z.out = r.out
  <2>1. Moves(r, z, r.pos, "open", 2)
    BY <1>1 DEF Moves
  <2> QED
    BY <1>0, <2>1, MovedIs, ReaderStates
<1>4. \/ h = [r EXCEPT !.step = 1]
      \/ h = Text!PutBytes(z, <<c>>)
      \/ (r.step = 1 \/ r.step = 2) /\ h = [r EXCEPT !.step = r.step + 2]
      \/ h = Text!Finish(r, n, c)
      \/ h = [r EXCEPT !.state = "error"]
      \/ h = Text!PutBytes(r, <<c>>)
      \/ (r.step = 3 \/ r.step = 4) /\ h = Text!PutBytes(y, <<Text!QUOTE>>)
      \/ h = Text!Trail(r, n, c, Text!NL)
  BY <1>1, <1>2 DEF Text!Vs, Text!QuoteQuote, Text!Fail
<1>5. CASE \/ h = [r EXCEPT !.step = 1]
           \/ h = [r EXCEPT !.state = "error"]
  <2>1. Moves(r, h, r.pos, "error", 1)
    BY <1>5 DEF Moves
  <2> QED
    BY <1>0, <2>1, MovedIs, ReaderStates, PutsNone
<1>6. CASE (r.step = 1 \/ r.step = 2) /\ h = [r EXCEPT !.step = r.step + 2]
  <2>1. Moves(r, h, r.pos, "error", r.step + 2)
    BY <1>6 DEF Moves
  <2>2. r.step + 2 \in 0..6
    BY <1>0, <1>6
  <2> QED
    BY <1>0, <2>1, <2>2, MovedIs, ReaderStates, PutsNone
<1>7. CASE h = Text!PutBytes(z, <<c>>)
  BY <1>3, <1>7, PutOne DEF Puts
<1>8. CASE h = Text!PutBytes(r, <<c>>)
  BY <1>8, PutOne
<1>9. CASE (r.step = 3 \/ r.step = 4) /\ h = Text!PutBytes(y, <<Text!QUOTE>>)
  <2>1. Moves(r, y, r.pos, "error", r.step - 2)
    BY <1>2 DEF Moves
  <2>2. r.step - 2 \in 0..6
    BY <1>0, <1>9
  <2>3. ReadOk(y, n) /\ y.out = r.out
    BY <1>0, <2>1, <2>2, MovedIs, ReaderStates
  <2> QED
    BY <1>9, <1>a, <2>3, PutOne DEF Puts
<1>10. CASE h = Text!Finish(r, n, c) \/ h = Text!Trail(r, n, c, Text!NL)
  BY <1>0, <1>10, FinishIs, TrailIs, PutsNone
<1> QED
  BY <1>4, <1>5, <1>6, <1>7, <1>8, <1>9, <1>10

(* The bytes of a quantum of base64 that is cut short.                     *)
LEMMA RestIs ==
  ASSUME NEW n, NEW r, ReadOk(r, n), NEW b, b = Text!Rest(r)
  PROVE  b \in Seq(Byte) /\ Len(b) \in 0..2
<1>0. r.aux \in Nat
  BY DEF ReadOk, ReaderRec
<1>1. PICK x : x = (r.aux \div 16) % 256
  OBVIOUS
<1>2. PICK y : y = (r.aux \div 1024) % 256
  OBVIOUS
<1>3. PICK z : z = (r.aux \div 4) % 256
  OBVIOUS
<1>4. r.aux \div 16 \in Nat /\ r.aux \div 1024 \in Nat /\ r.aux \div 4 \in Nat
  BY <1>0
<1>5. x \in Nat /\ x < 256 /\ y \in Nat /\ y < 256 /\ z \in Nat /\ z < 256
  BY <1>1, <1>2, <1>3, <1>4
<1>6. x \in Byte /\ y \in Byte /\ z \in Byte
  BY <1>5, ByteIs
<1>7. b = <<x>> \/ b = <<y, z>> \/ b = <<>>
  BY <1>1, <1>2, <1>3 DEF Text!Rest
<1>8. CASE b = <<x>>
  <2>1. <<x>> \in Seq(Byte) /\ Len(<<x>>) = 1
    BY <1>6
  <2> QED
    BY <1>8, <2>1
<1>9. CASE b = <<y, z>>
  <2>1. <<y, z>> \in Seq(Byte) /\ Len(<<y, z>>) = 2
    BY <1>6
  <2> QED
    BY <1>9, <2>1
<1>10. CASE b = <<>>
  BY <1>10
<1> QED
  BY <1>7, <1>8, <1>9, <1>10

(* A turn of cpyTok2B64.                                                   *)
LEMMA B64Is ==
  ASSUME text \in Seq(Byte), NEW n \in Nat, n <= Len(text), NEW r, ReadOk(r, n), format = "b64",
         NEW c \in Byte, NEW h, h = Text!B64(r, n, c)
  PROVE  ReadOk(h, n) /\ Puts(r, h, 3)
<1>0. /\ r.step \in 0..6 /\ r.pos \in 1..(n + 1) /\ r.aux \in Nat /\ Len(r.out) \in Nat
  BY DEF ReadOk, ReaderRec
<1>a. 6 \in 0..6 /\ format # "hex" /\ c \in Nat
  BY ByteIs
<1>1. PICK d : d = r.aux * 64 + c
  OBVIOUS
<1>2. PICK w : w = Text!PutBytes(r, Text!Rest(r))
  OBVIOUS
<1>3. PICK z : z = [r EXCEPT !.step = 0, !.aux = 0]
  OBVIOUS
<1>b. PICK x : x = (d \div 65536) % 256
  OBVIOUS
<1>c. PICK y : y = (d \div 256) % 256
  OBVIOUS
<1>d. PICK v : v = d % 256
  OBVIOUS
<1>4. PICK o : o = <<x, y, v>>
  OBVIOUS
<1>5. d \in Nat
  BY <1>0, <1>a, <1>1
<1>6. \/ h = Text!Trail(r, n, c, Text!PAD)
      \/ h = Text!Finish(w, n, c)
      \/ h = [r EXCEPT !.state = "error"]
      \/ h = Text!PutBytes(z, o)
      \/ r.step < 5 /\ h = [r EXCEPT !.step = r.step + 1, !.aux = d]
  BY <1>0, <1>1, <1>2, <1>3, <1>4, <1>b, <1>c, <1>d DEF Text!B64, Text!Fail
<1>7. CASE h = Text!Trail(r, n, c, Text!PAD)
  BY <1>7, TrailIs, PutsNone
<1>8. CASE h = Text!Finish(w, n, c)
  <2>1. PICK e : e = Text!Rest(r)
    OBVIOUS
  <2>2. e \in Seq(Byte) /\ Len(e) \in 0..2
    BY <2>1, RestIs
  <2>3. ReadOk(w, n) /\ Len(w.out) = Len(r.out) + Len(e)
    <3>1. w = Text!PutBytes(r, e)
      BY <1>2, <2>1
    <3> QED
      BY <2>2, <3>1, PutIs
  <2>4. ReadOk(h, n) /\ h.out = w.out
    BY <1>8, <1>a, <2>3, FinishIs
  <2> QED
    <3>1. Len(h.out) = Len(r.out) + Len(e)
      BY <2>3, <2>4
    <3>3. PICK k \in 0..2 : k = Len(e)
      BY <2>2
    <3>4. Len(h.out) = Len(r.out) + k
      BY <3>1, <3>3
    <3>5. Len(h.out) >= Len(r.out) /\ Len(h.out) <= Len(r.out) + 3
      BY <1>0, <3>4
    <3>2. Puts(r, h, 3)
      BY <3>5 DEF Puts
    <3> QED
      BY <2>4, <3>2
<1>9. CASE h = [r EXCEPT !.state = "error"]
  <2>1. Moves(r, h, r.pos, "error", 6)
    BY <1>9 DEF Moves
  <2> QED
    BY <1>0, <1>a, <2>1, MovedIs, ReaderStates, PutsNone
<1>10. CASE h = Text!PutBytes(z, o)
  <2>1. ReadOk(z, n) /\ z.out = r.out
    <3>0. r \in ReaderRec /\ 0 \in 0..6
      BY DEF ReadOk
    <3>1. /\ z \in ReaderRec /\ z.pos = r.pos /\ z.out = r.out
      BY <1>3, <3>0 DEF ReaderRec
    <3> QED
      BY <1>0, <1>a, <3>1 DEF ReadOk
  <2>5. d \div 65536 \in Nat /\ d \div 256 \in Nat
    BY <1>5
  <2>6. x \in Nat /\ x < 256 /\ y \in Nat /\ y < 256 /\ v \in Nat /\ v < 256
    BY <1>5, <1>b, <1>c, <1>d, <2>5
  <2>7. x \in Byte /\ y \in Byte /\ v \in Byte /\ o = <<x, y, v>>
    BY <1>4, <2>6, ByteIs
  <2>8. o \in Seq(Byte)
    BY <1>4, <2>7
  <2>10. Len(o) = 3
    <3>1. <<x, y, v>> \in Seq(Byte) /\ Len(<<x, y, v>>) = 3
      BY <2>7
    <3> QED
      BY <1>4, <3>1
  <2>9. ReadOk(h, n) /\ Len(h.out) = Len(z.out) + 3
    <3>1. ReadOk(h, n) /\ Len(h.out) = Len(z.out) + Len(o)
      <4>1. h = Text!PutBytes(z, o)
        BY <1>10
      <4>2. ReadOk(z, n)
        BY <2>1
      <4> QED
        BY <4>1, <4>2, <2>8, PutIs
    <3> QED
      BY <2>10, <3>1
  <2> QED
    BY <1>0, <2>1, <2>9 DEF Puts
<1>11. CASE r.step < 5 /\ h = [r EXCEPT !.step = r.step + 1, !.aux = d]
  <2>1. r.step + 1 \in 0..6
    BY <1>0, <1>11
  <2>2. ReadOk(h, n) /\ h.out = r.out
    BY <1>5, <1>11, <1>a, <2>1 DEF ReadOk, ReaderRec
  <2> QED
    BY <2>2, PutsNone
<1> QED
  BY <1>6, <1>7, <1>8, <1>9, <1>10, <1>11

(* One turn, from a character that is there.                               *)
Need == IF format = "b64" THEN 3 ELSE 1

(* A turn of each of the three.                                            *)
LEMMA TextTurnIs ==
  ASSUME text \in Seq(Byte), NEW n \in Nat, n <= Len(text), format \in Text!Format,
         NEW r, ReadOk(r, n), r.pos <= n, NEW h, h = Text!Turn(r, n)
  PROVE  ReadOk(h, n) /\ Puts(r, h, Need)
<1>1. PICK s : s = [r EXCEPT !.pos = r.pos + 1]
  OBVIOUS
<1>2. PICK c : c = text[r.pos]
  OBVIOUS
<1>3. r.pos \in 1..(n + 1) /\ r.pos \in 1..Len(text) /\ r.pos + 1 \in 1..(n + 1) /\ 6 \in 0..6
  BY DEF ReadOk
<1>4. c \in Byte
  BY <1>2, <1>3
<1>5. ReadOk(s, n) /\ s.out = r.out
  <2>1. Moves(r, s, r.pos + 1, "error", 6)
    BY <1>1 DEF Moves
  <2> QED
    BY <1>3, <2>1, MovedIs, ReaderStates
<1>6. CASE format = "hex"
  <2>1. h = Text!Hex(s, n, c)
    BY <1>1, <1>2, <1>6 DEF Text!Turn
  <2>2. ReadOk(h, n) /\ Puts(s, h, 1)
    BY <1>4, <1>5, <1>6, <2>1, HexIs
  <2> QED
    BY <1>5, <1>6, <2>2 DEF Puts, Need
<1>7. CASE format = "vs"
  <2>1. h = Text!Vs(s, n, c)
    BY <1>1, <1>2, <1>7 DEF Text!Turn
  <2>2. ReadOk(h, n) /\ Puts(s, h, 1)
    BY <1>4, <1>5, <1>7, <2>1, VsIs
  <2> QED
    BY <1>5, <1>7, <2>2 DEF Puts, Need
<1>8. CASE format = "b64"
  <2>1. h = Text!B64(s, n, c)
    BY <1>1, <1>2, <1>8 DEF Text!Turn
  <2>2. ReadOk(h, n) /\ Puts(s, h, 3)
    BY <1>4, <1>5, <1>8, <2>1, B64Is
  <2> QED
    BY <1>5, <1>8, <2>2 DEF Puts, Need
<1> QED
  BY <1>6, <1>7, <1>8 DEF Text!Format

(* The largest word.                                                       *)
LEMMA TopIs == Top = 65535
BY DEF Top

(* The range of a word.                                                    *)
LEMMA WordIs == Top \in Nat /\ \A x \in Nat : x < 65536 => x \in 0..Top
<1>1. Top \in Nat
  BY TopIs
<1>2. \A x \in Nat : x < 65536 => x <= Top
  BY TopIs
<1> QED
  BY <1>1, <1>2

(* At the beginning.                                                       *)
LEMMA UpToIs ==
  ASSUME NEW S \in SUBSET Byte, NEW m, NEW q \in Text!UpTo(S, m)
  PROVE  q \in Seq(Byte)
BY DEF Text!UpTo

(* The texts start within their types.                                     *)
LEMMA TextTypesInit == Init => TextTypes
<1> SUFFICES ASSUME Text!TextInit PROVE TextTypes
  BY DEF Init
<1>0. 0 \in 0..Top
  BY WordIs
<1>1. /\ format \in Text!Format /\ eStep = 0 /\ eWord = 0 /\ arrived = 0 /\ free = Space
      /\ reader = Text!Fresh /\ Space \in Nat
  BY TextAssumption DEF Text!TextInit
<1>2. TextBytes[format] \in SUBSET Byte /\ TextChars[format] \in SUBSET Byte
  BY <1>1, TextAssumption DEF Byte
<1>3. /\ Text!NL \in Byte /\ Text!QUOTE \in Byte
  BY ByteIs DEF Text!NL, Text!QUOTE
<1>4. data \in Seq(Byte) /\ text \in Seq(Byte)
  <2>1. CASE /\ given \in Text!UpTo(TextBytes[format], MaxData) /\ data = given
             /\ text = IF format = "vs" THEN <<Text!QUOTE>> ELSE <<>>
    <3>1. data \in Seq(Byte)
      BY <1>2, <2>1, UpToIs
    <3>2. <<Text!QUOTE>> \in Seq(Byte) /\ <<>> \in Seq(Byte)
      BY <1>3
    <3> QED
      BY <2>1, <3>1, <3>2
  <2>2. CASE data = <<>> /\ \E q \in Text!UpTo(TextChars[format], MaxText) : text = Append(q, Text!NL)
    <3>1. PICK q \in Text!UpTo(TextChars[format], MaxText) : text = Append(q, Text!NL)
      BY <2>2
    <3>2. q \in Seq(Byte)
      BY <1>2, UpToIs
    <3> QED
      BY <1>3, <2>2, <3>1, <3>2, AppendProperties
  <2> QED
    BY <2>1, <2>2 DEF Text!TextInit
<1>5. Len(text) \in Nat
  BY <1>4
<1>6. reader \in ReaderRec /\ reader.pos = 1 /\ reader.aux = 0 /\ reader.step = 0
  BY <1>1, ReaderStates DEF Text!Fresh, ReaderRec
<1>7. ReadOk(reader, Len(text))
  BY <1>5, <1>6 DEF ReadOk
<1> QED
  BY <1>0, <1>1, <1>4, <1>5, <1>7 DEF TextTypes

(* A text that has become longer.                                          *)
LEMMA LongerIs ==
  ASSUME NEW n \in Nat, NEW m \in Nat, n <= m, NEW r, ReadOk(r, n)
  PROVE  ReadOk(r, m)
BY DEF ReadOk

(* The text grows at its end.                                              *)
LEMMA GrownIs ==
  ASSUME TextTypes, NEW b \in Seq(Byte), text' = text \o b,
         UNCHANGED <<format, arrived, free, reader>>, data' \in Seq(Byte),
         eStep' \in 0..2, eWord' \in 0..Top
  PROVE  TextTypes'
<1>1. text' \in Seq(Byte) /\ Len(text') = Len(text) + Len(b) /\ Len(text) \in Nat /\ Len(b) \in Nat
  BY ConcatProperties DEF TextTypes
<1>2. PICK n \in Nat : n = Len(text)
  BY <1>1
<1>3. PICK m \in Nat : m = Len(text')
  BY <1>1
<1>4. n <= m /\ ReadOk(reader, n) /\ arrived \in 0..n
  BY <1>1, <1>2, <1>3 DEF TextTypes
<1>5. ReadOk(reader, m) /\ arrived \in 0..m
  BY <1>4, LongerIs
<1>6. ReadOk(reader, m)'
  BY <1>5 DEF ReadOk
<1>7. format' \in Text!Format /\ free' \in 0..Space
  BY DEF TextTypes
<1> QED
  BY <1>1, <1>3, <1>5, <1>6, <1>7 DEF TextTypes

(* What is written for a byte, and at the end.                             *)
LEMMA HexOfIs ==
  ASSUME NEW c \in Byte, NEW b, b = Text!HexOf(c)
  PROVE  b \in Seq(Byte)
<1>1. PICK x : x = c \div 16
  OBVIOUS
<1>2. PICK y : y = c % 16
  OBVIOUS
<1>3. c \in Nat /\ c < 256
  BY ByteIs
<1>4. x \in Nat /\ x < 256 /\ y \in Nat /\ y < 256
  BY <1>1, <1>2, <1>3
<1>5. x \in Byte /\ y \in Byte /\ Text!BLANK \in Byte
  BY <1>4, ByteIs DEF Text!BLANK
<1>6. <<x, y>> \in Seq(Byte) /\ <<Text!BLANK>> \in Seq(Byte) /\ <<>> \in Seq(Byte)
  BY <1>5
<1>7. b = <<>> \o <<x, y>> \/ b = <<Text!BLANK>> \o <<x, y>>
  BY <1>1, <1>2 DEF Text!HexOf
<1> QED
  BY <1>6, <1>7, ConcatProperties

(* The characters of a byte in base64.                                     *)
LEMMA B64OfIs ==
  ASSUME eWord \in 0..Top, eStep \in 0..2, NEW c \in Byte, NEW b, b = Text!B64Of(c)
  PROVE  /\ b \in Seq(Byte) /\ Text!NextStep \in 0..2
         /\ ((eWord + c) * 256) % 65536 \in 0..Top
<1>1. PICK w : w = eWord + c
  OBVIOUS
<1>2. w \in Nat
  BY <1>1, ByteIs, WordIs
<1>3. PICK x : x = (w \div 4) % 64
  OBVIOUS
<1>4. PICK y : y = (w \div 16) % 64
  OBVIOUS
<1>5. PICK z : z = (w \div 64) % 64
  OBVIOUS
<1>6. PICK v : v = w % 64
  OBVIOUS
<1>7. w \div 4 \in Nat /\ w \div 16 \in Nat /\ w \div 64 \in Nat
  BY <1>2
<1>8. /\ x \in Nat /\ x < 256 /\ y \in Nat /\ y < 256 /\ z \in Nat /\ z < 256
      /\ v \in Nat /\ v < 256
  BY <1>2, <1>3, <1>4, <1>5, <1>6, <1>7
<1>9. x \in Byte /\ y \in Byte /\ z \in Byte /\ v \in Byte
  BY <1>8, ByteIs
<1>10. <<x>> \in Seq(Byte) /\ <<y>> \in Seq(Byte) /\ <<z, v>> \in Seq(Byte)
  BY <1>9
<1>11. b = <<x>> \/ b = <<y>> \/ b = <<z, v>>
  BY <1>1, <1>3, <1>4, <1>5, <1>6 DEF Text!B64Of
<1>12. b \in Seq(Byte)
  BY <1>10, <1>11
<1>13. Text!NextStep \in 0..2
  BY DEF Text!NextStep
<1>14. (w * 256) % 65536 \in 0..Top
  <2>1. (w * 256) % 65536 \in Nat /\ (w * 256) % 65536 < 65536
    BY <1>2
  <2> QED
    BY <2>1, WordIs
<1> QED
  BY <1>1, <1>12, <1>13, <1>14

(* The characters that end a base64 text.                                  *)
LEMMA PaddingIs ==
  ASSUME eWord \in 0..Top, NEW b, b = Text!Padding
  PROVE  b \in Seq(Byte)
<1>1. PICK x : x = (eWord \div 16) % 64
  OBVIOUS
<1>2. PICK y : y = (eWord \div 64) % 64
  OBVIOUS
<1>3. eWord \div 16 \in Nat /\ eWord \div 64 \in Nat
  BY WordIs
<1>4. x \in Nat /\ x < 256 /\ y \in Nat /\ y < 256
  BY <1>1, <1>2, <1>3
<1>5. x \in Byte /\ y \in Byte /\ Text!PAD \in Byte
  BY <1>4, ByteIs DEF Text!PAD
<1>6. <<x, Text!PAD, Text!PAD>> \in Seq(Byte) /\ <<y, Text!PAD>> \in Seq(Byte) /\ <<>> \in Seq(Byte)
  BY <1>5
<1>7. b = <<x, Text!PAD, Text!PAD>> \/ b = <<y, Text!PAD>> \/ b = <<>>
  BY <1>1, <1>2 DEF Text!Padding
<1> QED
  BY <1>6, <1>7

(* The steps of the two sides and of the fifos between them.               *)
LEMMA WriteByteKeeps ==
  ASSUME TextTypes, Text!WriteByte
  PROVE  TextTypes'
<1>0. /\ data \in Seq(Byte) /\ data # <<>> /\ data' = Tail(data) /\ eWord \in 0..Top /\ eStep \in 0..2
      /\ UNCHANGED <<format, arrived, free, reader>>
  BY DEF TextTypes, Text!WriteByte
<1>1. PICK c : c = Head(data)
  OBVIOUS
<1>2. c \in Byte /\ data' \in Seq(Byte)
  BY <1>0, <1>1, HeadTailProperties
<1>3. PICK h : h = Text!HexOf(c)
  OBVIOUS
<1>4. PICK v : v = Text!VsOf(c)
  OBVIOUS
<1>5. PICK b : b = Text!B64Of(c)
  OBVIOUS
<1>6. h \in Seq(Byte)
  BY <1>2, <1>3, HexOfIs
<1>7. v \in Seq(Byte)
  <2>1. Text!QUOTE \in Byte
    BY ByteIs DEF Text!QUOTE
  <2>2. <<Text!QUOTE, Text!QUOTE>> \in Seq(Byte) /\ <<c>> \in Seq(Byte)
    BY <1>2, <2>1
  <2> QED
    BY <1>4, <2>2 DEF Text!VsOf
<1>8. b \in Seq(Byte) /\ Text!NextStep \in 0..2 /\ ((eWord + c) * 256) % 65536 \in 0..Top
  BY <1>0, <1>2, <1>5, B64OfIs
<1>9. PICK o : o = CASE format = "hex" -> Text!HexOf(c) [] format = "vs" -> Text!VsOf(c)
                     [] OTHER -> Text!B64Of(c)
  OBVIOUS
<1>10. o = h \/ o = v \/ o = b
  BY <1>3, <1>4, <1>5, <1>9
<1>11. o \in Seq(Byte)
  BY <1>6, <1>7, <1>8, <1>10
<1>12. text' = text \o o
  BY <1>1, <1>9 DEF Text!WriteByte
<1>13. eStep' \in 0..2 /\ eWord' \in 0..Top
  <2>1. CASE format = "b64"
    <3>1. eStep' = Text!NextStep /\ eWord' = ((eWord + c) * 256) % 65536
      BY <1>1, <2>1 DEF Text!WriteByte
    <3> QED
      BY <1>8, <3>1
  <2>2. CASE format # "b64"
    <3>1. eStep' = eStep /\ eWord' = eWord
      BY <2>2 DEF Text!WriteByte
    <3> QED
      BY <1>0, <3>1
  <2> QED
    BY <2>1, <2>2
<1> QED
  BY <1>0, <1>2, <1>11, <1>12, <1>13, GrownIs

(* The text ends.                                                          *)
LEMMA WriteEndKeeps ==
  ASSUME TextTypes, Text!WriteEnd
  PROVE  TextTypes'
<1>0. /\ data \in Seq(Byte) /\ eWord \in 0..Top /\ eStep \in 0..2 /\ text \in Seq(Byte)
      /\ UNCHANGED <<format, data, eStep, eWord, arrived, free, reader>>
  BY DEF TextTypes, Text!WriteEnd
<1>1. PICK b : b = Text!Padding
  OBVIOUS
<1>2. b \in Seq(Byte)
  BY <1>0, <1>1, PaddingIs
<1>3. Text!QUOTE \in Byte /\ Text!NL \in Byte
  BY ByteIs DEF Text!QUOTE, Text!NL
<1>4. <<Text!QUOTE>> \in Seq(Byte) /\ <<>> \in Seq(Byte)
  BY <1>3
<1>5. PICK z : z = <<Text!NL>>
  OBVIOUS
<1>6. z \in Seq(Byte)
  BY <1>3, <1>5
<1>7. PICK o : o = CASE format = "vs" -> <<Text!QUOTE>> [] format = "b64" -> Text!Padding [] OTHER -> <<>>
  OBVIOUS
<1>8. o = <<Text!QUOTE>> \/ o = b \/ o = <<>>
  BY <1>1, <1>7
<1>9. o \in Seq(Byte)
  BY <1>2, <1>4, <1>8
<1>10. text' = (text \o o) \o z
  BY <1>5, <1>7 DEF Text!WriteEnd
<1>11. PICK q : q = o \o z
  OBVIOUS
<1>12. q \in Seq(Byte) /\ (text \o o) \o z = text \o q
  BY <1>0, <1>6, <1>9, <1>11, ConcatProperties, ConcatAssociative
<1> QED
  BY <1>0, <1>10, <1>12, GrownIs

(* The reading side goes on, the other variables stay.                     *)
LEMMA ReadingKeeps ==
  ASSUME TextTypes, UNCHANGED <<format, data, eStep, eWord, text, arrived>>,
         free' \in 0..Space, ReadOk(reader', Len(text))
  PROVE  TextTypes'
<1>1. ReadOk(reader, Len(text))'
  BY DEF ReadOk
<1> QED
  BY <1>1 DEF TextTypes

(* The reading side begins.                                                *)
LEMMA TextStartKeeps ==
  ASSUME TextTypes, Text!Start \/ Text!StartFull
  PROVE  TextTypes'
<1>0. /\ reader' = Text!Open(reader, arrived) /\ free' \in 0..Space
      /\ UNCHANGED <<format, data, eStep, eWord, text, arrived, free>>
  BY DEF Text!Start, Text!StartFull, TextTypes
<1>1. PICK h : h = Text!Open(reader, arrived)
  OBVIOUS
<1>2. PICK n \in Nat : n = Len(text)
  BY DEF TextTypes
<1>3. arrived \in 0..n /\ text \in Seq(Byte) /\ ReadOk(reader, n)
  BY <1>2 DEF TextTypes
<1>4. PICK t : t = Text!Trim(arrived, 1, FALSE)
  OBVIOUS
<1>5. t.pos \in 1..(arrived + 1)
  <2>1. arrived \in Nat /\ arrived <= Len(text) /\ 1 \in 1..(arrived + 1)
    BY <1>2, <1>3
  <2> QED
    BY <1>3, <1>4, <2>1, TrimIs
<1>6. t.pos \in 1..(n + 1) /\ 6 \in 0..6
  BY <1>3, <1>5
<1>7. h = [reader EXCEPT !.pos = t.pos, !.state = IF t.line \/ t.inside THEN "error" ELSE "open"]
  BY <1>1, <1>4 DEF Text!Open
<1>8. PICK s : s = IF t.line \/ t.inside THEN "error" ELSE "open"
  OBVIOUS
<1>9. s \in ReaderState
  BY <1>8, ReaderStates
<1>10. h = [reader EXCEPT !.pos = t.pos, !.state = s]
  BY <1>7, <1>8
<1>11. h = [reader EXCEPT !.state = s, !.pos = t.pos]
  BY <1>3, <1>10 DEF ReadOk, ReaderRec
<1>12. Moves(reader, h, t.pos, s, 6)
  BY <1>11 DEF Moves
<1>13. ReadOk(h, n)
  BY <1>3, <1>6, <1>9, <1>12, MovedIs
<1> QED
  BY <1>0, <1>1, <1>2, <1>13, ReadingKeeps

(* A turn of the reading side: there was room for what it puts out.        *)
LEMMA ReadKeeps ==
  ASSUME TextTypes, Text!Read
  PROVE  TextTypes'
<1>0. /\ reader' = Text!Turn(reader, arrived) /\ free' = free - (Len(reader'.out) - Len(reader.out))
      /\ reader.pos <= arrived /\ free >= Need
      /\ UNCHANGED <<format, data, eStep, eWord, text, arrived>>
  BY DEF Text!Read, Need
<1>1. PICK h : h = reader'
  OBVIOUS
<1>2. PICK n \in Nat : n = Len(text)
  BY DEF TextTypes
<1>3. /\ arrived \in 0..n /\ text \in Seq(Byte) /\ ReadOk(reader, n) /\ format \in Text!Format
      /\ free \in 0..Space
  BY <1>2 DEF TextTypes
<1>4. ReadOk(reader, arrived)
  BY <1>0, <1>3 DEF ReadOk
<1>5. ReadOk(h, arrived) /\ Puts(reader, h, Need)
  BY <1>0, <1>1, <1>2, <1>3, <1>4, TextTurnIs
<1>6. ReadOk(h, n)
  BY <1>3, <1>5, LongerIs
<1>7. PICK a \in Nat : a = Len(reader.out)
  BY <1>4 DEF ReadOk, ReaderRec
<1>8. PICK b \in Nat : b = Len(h.out)
  BY <1>5 DEF ReadOk, ReaderRec
<1>9. PICK k \in 1..3 : k = Need
  BY DEF Need
<1>10. b >= a /\ b <= a + k /\ free >= k
  BY <1>0, <1>5, <1>7, <1>8, <1>9 DEF Puts
<1>11. free' = free - (b - a)
  BY <1>0, <1>1, <1>7, <1>8
<1>12. free' \in 0..Space
  BY <1>3, <1>10, <1>11, TextAssumption
<1> QED
  BY <1>0, <1>1, <1>2, <1>6, <1>12, ReadingKeeps

(* Characters arrive, bytes are taken away.                                *)
LEMMA FifosKeep ==
  ASSUME TextTypes, Text!Arrive \/ Text!Drain
  PROVE  TextTypes'
<1>1. /\ UNCHANGED <<format, data, eStep, eWord, text, reader>>
      /\ arrived' \in 0..Len(text) /\ free' \in 0..Space
  BY TextAssumption DEF TextTypes, Text!Arrive, Text!Drain
<1>2. ReadOk(reader, Len(text))'
  BY <1>1 DEF ReadOk, TextTypes
<1> QED
  BY <1>1, <1>2 DEF TextTypes

(* A step of the texts, and a step of another service.                     *)
LEMMA TextTypesStep == TextTypes /\ [Next]_vars => TextTypes'
<1> SUFFICES ASSUME TextTypes, [Next]_vars PROVE TextTypes'
  OBVIOUS
<1>1. CASE UNCHANGED textVars
  <2>1. UNCHANGED <<format, data, eStep, eWord, text, arrived, free, reader>>
    BY <1>1 DEF textVars
  <2>2. ReadOk(reader', Len(text)) /\ free' \in 0..Space
    BY <2>1 DEF TextTypes
  <2> QED
    BY <2>1, <2>2, ReadingKeeps
<1>2. CASE Text!TextNext
  BY <1>2, WriteByteKeeps, WriteEndKeeps, TextStartKeeps, ReadKeeps, FifosKeep DEF Text!TextNext
<1> QED
  BY <1>1, <1>2 DEF Next, vars

(* The texts stay within their types,                                      *)
LEMMA TextTypesAlways == Spec => []TextTypes
BY TextTypesInit, TextTypesStep, PTL DEF Spec

(* which are those of the module.                                          *)
LEMMA TextTypesSuffices == TextTypes => Text!TextTypeOK
<1> SUFFICES ASSUME TextTypes PROVE Text!TextTypeOK
  OBVIOUS
<1>0. Text!Word = 0..Top
  BY DEF Text!Word, Top
<1>1. eWord \in Text!Word
  BY <1>0 DEF TextTypes
<1>2. reader \in ReaderRec /\ reader.pos \in 1..(Len(text) + 1)
  BY DEF TextTypes, ReadOk
<1>3. reader.step \in 0..6 /\ reader.state \in {"new", "open", "closed", "error"} /\ reader.out \in Seq(Byte)
  BY <1>2 DEF ReaderRec, ReaderState
<1>4. \A i \in 1..Len(reader.out) : reader.out[i] \in 0..255
  <2>1. \A i \in 1..Len(reader.out) : reader.out[i] \in Byte
    BY <1>3
  <2> QED
    BY <2>1, Zenon DEF Byte
<1>5. free \in 0..Space /\ eStep \in 0..2
  BY DEF TextTypes
<1> QED
  BY <1>1, <1>2, <1>3, <1>4, <1>5, Zenon DEF Text!TextTypeOK

-----------------------------------------------------------------------------
(* SRDO: the frames of a pair.  On the bus an inverted frame repeats the   *)
(* normal one before it, and the last normal one is what the sender is     *)
(* about to repeat.                                                        *)
Repeats(r, v) == r = Safety!Frame(TRUE, v)
FollowsOk(b, k, d) ==
  /\ \A i \in 1..(Len(b) - 1) : IF b[i].inverted THEN ~b[i + 1].inverted ELSE Repeats(b[i + 1], b[i].v)
  /\ b # <<>> => IF b[Len(b)].inverted THEN k = 0 ELSE k = 1 /\ d = b[Len(b)].v

(* With the normal frame in hand the inverted one has come, comes next, or *)
(* is to be sent next.                                                     *)
InHandOk(b, k, d, n, r) ==
  IF n[2] THEN r[1] = r[2]
  ELSE IF b = <<>> THEN k = 1 /\ d = r[1] ELSE Repeats(b[1], r[1])

PairInv ==
  /\ FollowsOk(bus, side["tx"].toogle, txData)
  /\ CANrxNew[1] /\ ~ghost.torn => InHandOk(bus, side["tx"].toogle, txData, CANrxNew, rxData)

(* Nothing is on the bus at the start.                                     *)
LEMMA PairInvInit == Init => PairInv
<1> SUFFICES ASSUME Safety!SrdoInit PROVE PairInv
  BY DEF Init
<1>1. bus = <<>> /\ CANrxNew[1] = FALSE
  BY DEF Safety!SrdoInit
<1>2. \A i \in 1..(Len(<<>>) - 1) : FALSE
  OBVIOUS
<1> QED
  BY <1>1, <1>2 DEF PairInv, FollowsOk

(* A frame leaves the bus.                                                 *)
LEMMA TailFollows ==
  ASSUME NEW b \in Seq(SrdoFrame), b # <<>>, NEW k, NEW d, FollowsOk(b, k, d)
  PROVE  /\ FollowsOk(Tail(b), k, d)
         /\ Tail(b) = <<>> => Len(b) = 1
         /\ Tail(b) # <<>> => Len(b) > 1 /\ Tail(b)[1] = b[2]
<1>1. /\ Tail(b) \in Seq(SrdoFrame) /\ Len(b) \in Nat /\ Len(b) >= 1 /\ Len(Tail(b)) = Len(b) - 1
      /\ \A i \in 1..Len(Tail(b)) : Tail(b)[i] = b[i + 1]
  BY HeadTailProperties, EmptySeq
<1>2. Tail(b) = <<>> <=> Len(Tail(b)) = 0
  BY <1>1, EmptySeq
<1>3. ASSUME NEW i \in 1..(Len(Tail(b)) - 1)
      PROVE  IF Tail(b)[i].inverted THEN ~Tail(b)[i + 1].inverted ELSE Repeats(Tail(b)[i + 1], Tail(b)[i].v)
  <2>1. i + 1 \in 1..(Len(b) - 1) /\ Tail(b)[i] = b[i + 1] /\ Tail(b)[i + 1] = b[i + 1 + 1]
    BY <1>1
  <2> QED
    BY <2>1 DEF FollowsOk
<1>4. Tail(b) # <<>> => Tail(b)[Len(Tail(b))] = b[Len(b)] /\ Tail(b)[1] = b[2] /\ Len(b) > 1
  BY <1>1, <1>2
<1> QED
  BY <1>1, <1>2, <1>3, <1>4 DEF FollowsOk

(* The frame that is due is put behind the others.                         *)
LEMMA SendFollows ==
  ASSUME NEW b \in Seq(SrdoFrame), NEW k, NEW d, FollowsOk(b, k, d),
         NEW f \in SrdoFrame, NEW next, NEW e,
         IF f.inverted THEN k = 1 /\ next = 0 /\ Repeats(f, d) ELSE k = 0 /\ next = 1 /\ e = f.v
  PROVE  FollowsOk(Append(b, f), next, e)
<1>1. PICK c : c = Append(b, f)
  OBVIOUS
<1>2. /\ Len(b) \in Nat /\ c # <<>> /\ Len(c) = Len(b) + 1 /\ c[Len(b) + 1] = f
      /\ \A i \in 1..Len(b) : c[i] = b[i]
  BY <1>1, AppendProperties
<1>3. ASSUME NEW i \in 1..(Len(c) - 1)
      PROVE  IF c[i].inverted THEN ~c[i + 1].inverted ELSE Repeats(c[i + 1], c[i].v)
  <2>1. CASE i = Len(b)
    <3>1. c[i] = b[Len(b)] /\ c[i + 1] = f
      BY <1>2, <2>1
    <3>2. b # <<>>
      <4>1. Len(b) # 0
        BY <1>2, <2>1
      <4> QED
        BY <4>1, EmptySeq
    <3> QED
      BY <3>1, <3>2 DEF FollowsOk
  <2>2. CASE i # Len(b)
    <3>1. i \in 1..(Len(b) - 1) /\ c[i] = b[i] /\ c[i + 1] = b[i + 1]
      BY <1>2, <2>2
    <3> QED
      BY <3>1 DEF FollowsOk
  <2> QED
    BY <2>1, <2>2
<1>4. c[Len(c)] = f
  BY <1>2
<1>5. FollowsOk(c, next, e)
  BY <1>2, <1>3, <1>4 DEF FollowsOk
<1> QED
  BY <1>1, <1>5

(* A frame is received, in hand or not, or is lost.                        *)
LEMMA ReceiveKeepsPair ==
  ASSUME SrdoInv, PairInv, Safety!Receive \/ Safety!Lose
  PROVE  PairInv'
<1>1. /\ bus \in Seq(SrdoFrame) /\ bus # <<>> /\ bus' = Tail(bus) /\ Head(bus) = bus[1] /\ bus[1] \in SrdoFrame
      /\ UNCHANGED <<side, txData>>
  BY EmptySeq DEF SrdoInv, Safety!Receive, Safety!Lose
<1>2. /\ FollowsOk(bus', side["tx"].toogle, txData)
      /\ bus' = <<>> => Len(bus) = 1
      /\ bus' # <<>> => Len(bus) > 1 /\ bus'[1] = bus[2]
  BY <1>1, TailFollows DEF PairInv
<1>3. SUFFICES ASSUME CANrxNew'[1], ~ghost'.torn
               PROVE  InHandOk(bus', side["tx"].toogle, txData, CANrxNew', rxData')
  BY <1>1, <1>2 DEF PairInv
<1>4. ghost \in SrdoGhost /\ CANrxNew \in BOOLEAN \X BOOLEAN /\ rxData \in SrdoValue \X SrdoValue
      /\ side["rx"].valid \in BOOLEAN
  BY DEF SrdoInv, SrdoTypes, SrdoSide, Safety!Sides
<1>5. Safety!Receive
  <2>1. Safety!Lose => ghost'.torn
    BY <1>4 DEF Safety!Lose, SrdoGhost
  <2> QED
    BY <1>3, <2>1
<1>6. ~side["rx"].valid => CANrxNew = <<FALSE, FALSE>>
  BY DEF SrdoInv, ReceiverInv
<1>7. PICK takes \in BOOLEAN :
        /\ takes <=> side["rx"].valid /\ (IF bus[1].inverted THEN CANrxNew[1] ELSE ~CANrxNew[2])
        /\ rxData' = IF takes THEN [rxData EXCEPT ![IF bus[1].inverted THEN 2 ELSE 1] = bus[1].v] ELSE rxData
        /\ CANrxNew' = IF takes THEN [CANrxNew EXCEPT ![IF bus[1].inverted THEN 2 ELSE 1] = TRUE] ELSE CANrxNew
        /\ ghost'.torn <=> ~(takes /\ ~bus[1].inverted) /\ (ghost.torn \/ CANrxNew[2])
  <2> DEFINE takes == side["rx"].valid /\ (IF bus[1].inverted THEN CANrxNew[1] ELSE ~CANrxNew[2])
             torn == ~(takes /\ ~bus[1].inverted) /\ (ghost.torn \/ CANrxNew[2])
  <2>1. takes \in BOOLEAN /\ torn \in BOOLEAN
    BY <1>1, <1>4 DEF SrdoFrame
  <2>2. /\ rxData' = IF takes THEN [rxData EXCEPT ![IF bus[1].inverted THEN 2 ELSE 1] = bus[1].v] ELSE rxData
        /\ CANrxNew' = IF takes THEN [CANrxNew EXCEPT ![IF bus[1].inverted THEN 2 ELSE 1] = TRUE] ELSE CANrxNew
        /\ ghost' = [ghost EXCEPT !.split = @ \/ (takes /\ stage), !.torn = torn]
    BY <1>1, <1>4, <1>5 DEF Safety!Receive, SrdoGhost
  <2>3. ghost'.torn = torn
    BY <1>4, <2>2 DEF SrdoGhost
  <2> QED
    BY <2>1, <2>2, <2>3
<1>8. CASE takes /\ ~bus[1].inverted
  <2>1. rxData'[1] = bus[1].v /\ CANrxNew'[2] = CANrxNew[2] /\ ~CANrxNew[2]
    BY <1>4, <1>7, <1>8
  <2>2. CASE bus' = <<>>
    <3>1. side["tx"].toogle = 1 /\ txData = bus[1].v
      BY <1>1, <1>2, <1>8, <2>2 DEF PairInv, FollowsOk
    <3> QED
      BY <2>1, <2>2, <3>1 DEF InHandOk
  <2>3. CASE bus' # <<>>
    <3>1. 1 \in 1..(Len(bus) - 1) /\ 1 + 1 = 2
      BY <1>1, <1>2, <2>3
    <3>2. Repeats(bus[2], bus[1].v)
      BY <1>8, <3>1 DEF PairInv, FollowsOk
    <3> QED
      BY <1>2, <2>1, <2>3, <3>2 DEF InHandOk
  <2> QED
    BY <2>2, <2>3
<1>9. CASE takes /\ bus[1].inverted
  <2>1. /\ rxData'[1] = rxData[1] /\ rxData'[2] = bus[1].v /\ CANrxNew'[2] = TRUE
        /\ CANrxNew[1] /\ ~CANrxNew[2] /\ ~ghost.torn
    BY <1>3, <1>4, <1>7, <1>9
  <2>2. Repeats(bus[1], rxData[1])
    BY <1>1, <2>1 DEF PairInv, InHandOk
  <2> QED
    BY <2>1, <2>2 DEF InHandOk, Repeats, Safety!Frame
<1>10. CASE ~takes
  <2>1. CANrxNew' = CANrxNew /\ CANrxNew[1] /\ ~CANrxNew[2] /\ ~ghost.torn
    BY <1>3, <1>4, <1>7, <1>10
  <2>2. side["rx"].valid
    <3>1. CANrxNew = <<FALSE, FALSE>> => ~CANrxNew[1]
      OBVIOUS
    <3> QED
      BY <1>6, <2>1, <3>1
  <2>3. CASE bus[1].inverted
    BY <1>7, <1>10, <2>1, <2>2, <2>3
  <2>4. CASE ~bus[1].inverted
    BY <1>7, <1>10, <2>1, <2>2, <2>4
  <2> QED
    BY <2>3, <2>4
<1> QED
  BY <1>8, <1>9, <1>10

(* The sender sends the inverted frame after the normal one.               *)
LEMMA TransmitKeepsPair ==
  ASSUME SrdoInv, PairInv, Safety!Transmit
  PROVE  PairInv'
<1>1. PICK s : s = Safety!Guarded(side["tx"], START)
  OBVIOUS
<1>2. PICK t : t = Safety!Ticked(s)
  OBVIOUS
<1>3. /\ side["tx"] \in SrdoSide /\ Verified(side["tx"]) /\ side \in [Safety!Sides -> SrdoSide]
      /\ bus \in Seq(SrdoFrame) /\ txData \in SrdoValue /\ obj.n \in SrdoValue /\ START \in Int
  BY SrdoAssumption DEF SrdoInv, SrdoTypes, SrdoValue, Safety!Sides
<1>4. /\ s \in SrdoSide /\ t \in SrdoSide
      /\ s.toogle = side["tx"].toogle /\ t.toogle = side["tx"].toogle
  <2>1. s \in SrdoSide /\ Verified(s) /\ s.toogle = side["tx"].toogle
    BY <1>1, <1>3, GuardedKeeps
  <2> QED
    BY <1>2, <2>1, TickedKeeps
<1>5. UNCHANGED <<rxData, CANrxNew, ghost>>
  BY DEF Safety!Transmit
<1>6. PICK k \in {0, 1} : k = side["tx"].toogle
  BY <1>3 DEF SrdoSide
<1>7. PICK f : f = Safety!Send(t)
  OBVIOUS
<1>8. f = IF k = 1 THEN Safety!Frame(TRUE, txData) ELSE Safety!Frame(FALSE, obj.n)
  BY <1>4, <1>6, <1>7 DEF Safety!Send
<1>9. CASE /\ bus' = Append(bus, f) /\ txData' = IF f.inverted THEN txData ELSE f.v
           /\ \E n : side' = [side EXCEPT !["tx"] = [t EXCEPT !.toogle = 1 - @, !.timer = n]]
  <2>1. side'["tx"].toogle = 1 - k
    BY <1>3, <1>4, <1>6, <1>9 DEF SrdoSide, Safety!Sides
  <2>2. FollowsOk(bus', side'["tx"].toogle, txData')
    <3>1. CASE k = 1
      <4>1. f \in SrdoFrame /\ f.inverted = TRUE /\ Repeats(f, txData) /\ txData' = txData
        BY <1>3, <1>8, <1>9, <3>1 DEF Safety!Frame, SrdoFrame, Repeats
      <4>2. FollowsOk(Append(bus, f), 0, txData)
        BY <1>3, <1>6, <3>1, <4>1, SendFollows DEF PairInv
      <4> QED
        BY <1>9, <2>1, <3>1, <4>1, <4>2
    <3>2. CASE k = 0
      <4>1. f \in SrdoFrame /\ f.inverted = FALSE /\ txData' = f.v
        BY <1>3, <1>8, <1>9, <3>2 DEF Safety!Frame, SrdoFrame
      <4>2. FollowsOk(Append(bus, f), 1, f.v)
        BY <1>3, <1>6, <3>2, <4>1, SendFollows DEF PairInv
      <4> QED
        BY <1>9, <2>1, <3>2, <4>1, <4>2
    <3> QED
      BY <1>6, <3>1, <3>2
  <2>3. ASSUME CANrxNew[1], ~ghost.torn
        PROVE  InHandOk(bus', side'["tx"].toogle, txData', CANrxNew, rxData)
    <3>1. InHandOk(bus, k, txData, CANrxNew, rxData)
      BY <1>6, <2>3 DEF PairInv
    <3>2. CASE bus = <<>> /\ ~CANrxNew[2]
      <4>1. k = 1 /\ txData = rxData[1]
        BY <3>1, <3>2 DEF InHandOk
      <4>2. f = Safety!Frame(TRUE, rxData[1])
        BY <1>8, <4>1
      <4>3. bus' # <<>> /\ bus'[1] = f
        BY <1>9, <3>2
      <4> QED
        BY <3>2, <4>2, <4>3 DEF InHandOk, Repeats
    <3>3. CASE bus # <<>> /\ ~CANrxNew[2]
      <4>1. bus' # <<>> /\ bus'[1] = bus[1]
        <5>1. f \in SrdoFrame
          BY <1>3, <1>8 DEF Safety!Frame, SrdoFrame
        <5>2. Len(bus) \in Nat /\ Len(bus) >= 1
          BY <1>3, <3>3, EmptySeq
        <5> QED
          BY <1>3, <1>9, <5>1, <5>2
      <4> QED
        BY <3>1, <3>3, <4>1 DEF InHandOk
    <3>4. CASE CANrxNew[2]
      BY <3>1, <3>4 DEF InHandOk
    <3> QED
      BY <3>2, <3>3, <3>4
  <2> QED
    BY <1>5, <2>2, <2>3 DEF PairInv
<1>10. CASE bus' = bus /\ txData' = txData /\ side' = [side EXCEPT !["tx"] = IF s.valid THEN t ELSE s]
  <2>1. side'["tx"].toogle = side["tx"].toogle
    BY <1>3, <1>4, <1>10 DEF Safety!Sides
  <2> QED
    BY <1>5, <1>10, <2>1 DEF PairInv
<1> QED
  BY <1>1, <1>2, <1>7, <1>9, <1>10 DEF Safety!Transmit

(* The other steps leave what is on its way alone; the receiver drops what *)
(* it has in hand, or keeps it.                                            *)
LEMMA OthersKeepPair ==
  ASSUME PairInv, side'["tx"].toogle = side["tx"].toogle, UNCHANGED <<bus, txData, rxData>>,
         ghost'.torn = ghost.torn, CANrxNew' = <<FALSE, FALSE>> \/ CANrxNew' = CANrxNew
  PROVE  PairInv'
<1>1. CASE CANrxNew' = CANrxNew
  BY <1>1 DEF PairInv
<1>2. CASE CANrxNew' = <<FALSE, FALSE>>
  BY <1>2 DEF PairInv
<1> QED
  BY <1>1, <1>2

(* The receiver's pass and its copy.                                       *)
LEMMA ReceiverKeepsPair ==
  ASSUME SrdoInv, PairInv, Safety!Monitor \/ Safety!Copy
  PROVE  PairInv'
<1>1. ghost \in SrdoGhost /\ side \in [Safety!Sides -> SrdoSide]
  BY DEF SrdoInv, SrdoTypes
<1>2. CASE Safety!Copy
  <2>1. ghost'.torn = ghost.torn
    BY <1>1, <1>2 DEF Safety!Copy, SrdoGhost
  <2>2. side'["tx"] = side["tx"]
    BY <1>1, <1>2 DEF Safety!Copy, Safety!Sides
  <2> QED
    BY <1>2, <2>1, <2>2, OthersKeepPair DEF Safety!Copy
<1>3. CASE Safety!Monitor
  <2>1. PICK g, s, new :
          g.torn = ghost.torn /\ Safety!Pass(s, g, new) /\ (new = CANrxNew \/ new = <<FALSE, FALSE>>)
    <3> DEFINE s == Safety!Guarded(side["rx"], SCT)
               enters == Safety!Entered(s)
               more == Safety!Quiet(ghost.quiet + 1)
               apart == IF side["rx"].toogle = 1 THEN Safety!Cap(ghost.gap + 1, SRVT + 1) ELSE 0
               g == [Safety!Waits EXCEPT !.resumed = IF enters THEN s.toogle = 1 ELSE @,
                                         !.quiet = IF enters THEN 1 ELSE @]
    <3>1. more \in Nat /\ apart \in Nat
      BY <1>1, LongerIsEither DEF SrdoGhost, Safety!Quiet, Safety!QuietMax, Safety!Cap
    <3>2. g = [ghost EXCEPT !.quiet = IF enters THEN 1 ELSE more, !.gap = apart,
                            !.resumed = IF enters THEN s.toogle = 1 ELSE ghost.resumed]
      BY <1>1 DEF Safety!Waits, SrdoGhost
    <3>3. (IF enters THEN s.toogle = 1 ELSE ghost.resumed) \in BOOLEAN
      BY <1>1 DEF SrdoGhost
    <3>4. \E t, u, v : 
            \/ Safety!Pass(s, [ghost EXCEPT !.quiet = 0, !.gap = 0], <<FALSE, FALSE>>)
            \/ Safety!Pass(t, [g EXCEPT !.gap = 0, !.resumed = FALSE], CANrxNew)
            \/ Safety!Pass(t, [g EXCEPT !.split = FALSE], CANrxNew)
            \/ Safety!Pass(u, [g EXCEPT !.quiet = 0, !.resumed = FALSE], <<FALSE, FALSE>>)
            \/ Safety!Pass(v, g, CANrxNew)
      BY <1>3 DEF Safety!Monitor
    <3> HIDE DEF s, enters, more, apart, g
    <3>5. g \in SrdoGhost /\ g.torn = ghost.torn
      BY <1>1, <3>1, <3>2, <3>3 DEF SrdoGhost
    <3>6. \A h \in {[ghost EXCEPT !.quiet = 0, !.gap = 0], [g EXCEPT !.gap = 0, !.resumed = FALSE],
                    [g EXCEPT !.split = FALSE], [g EXCEPT !.quiet = 0, !.resumed = FALSE], g} :
            h.torn = ghost.torn
      BY <1>1, <3>5 DEF SrdoGhost
    <3> QED
      BY <3>4, <3>6
  <2>2. side'["tx"] = side["tx"] /\ UNCHANGED <<bus, txData, rxData>> /\ ghost' = g /\ CANrxNew' = new
    BY <1>1, <2>1 DEF Safety!Pass, Safety!Sides
  <2> QED
    BY <2>1, <2>2, OthersKeepPair
<1> QED
  BY <1>2, <1>3

(* SDO writes, NMT commands and the application's request.                 *)
LEMMA WritesKeepPair ==
  ASSUME SrdoInv, PairInv, NEW x \in Safety!Sides,
         \/ Safety!WriteParameter(x) \/ Safety!WriteCrc(x) \/ Safety!WriteValid(x) \/ Safety!Nmt(x)
         \/ Safety!CO_SRDO_requestSend
  PROVE  PairInv'
<1>1. side \in [Safety!Sides -> SrdoSide]
  BY DEF SrdoInv, SrdoTypes
<1>2. UNCHANGED <<bus, txData, rxData, CANrxNew, ghost>>
  BY DEF Safety!WriteParameter, Safety!WriteCrc, Safety!WriteValid, Safety!Writable, Safety!Nmt,
     Safety!CO_SRDO_requestSend
<1>3. CASE Safety!WriteParameter(x)
  <2>1. PICK p : side' = [side EXCEPT ![x].par = p, ![x].configurationValid = FALSE]
    BY <1>3 DEF Safety!WriteParameter
  <2>2. side'["tx"].toogle = side["tx"].toogle
    BY <1>1, <2>1 DEF SrdoSide, Safety!Sides
  <2> QED
    BY <1>2, <2>2, OthersKeepPair
<1>4. CASE Safety!WriteCrc(x)
  <2>1. PICK p : side' = [side EXCEPT ![x].checksum = p, ![x].configurationValid = FALSE]
    BY <1>4 DEF Safety!WriteCrc
  <2>2. side'["tx"].toogle = side["tx"].toogle
    BY <1>1, <2>1 DEF SrdoSide, Safety!Sides
  <2> QED
    BY <1>2, <2>2, OthersKeepPair
<1>5. CASE Safety!WriteValid(x)
  <2>1. PICK magic : side' = [side EXCEPT ![x].configurationValid = magic, ![x].checkCRC = magic]
    BY <1>5 DEF Safety!WriteValid
  <2>2. side'["tx"].toogle = side["tx"].toogle
    BY <1>1, <2>1 DEF SrdoSide, Safety!Sides
  <2> QED
    BY <1>2, <2>2, OthersKeepPair
<1>6. CASE Safety!Nmt(x)
  <2>1. side'["tx"].toogle = side["tx"].toogle
    BY <1>1, <1>6 DEF Safety!Nmt, SrdoSide, Safety!Sides
  <2> QED
    BY <1>2, <2>1, OthersKeepPair
<1>7. CASE Safety!CO_SRDO_requestSend
  <2>1. side'["tx"].toogle = side["tx"].toogle
    BY <1>1, <1>7 DEF Safety!CO_SRDO_requestSend, SrdoSide, Safety!Sides
  <2> QED
    BY <1>2, <2>1, OthersKeepPair
<1> QED
  BY <1>3, <1>4, <1>5, <1>6, <1>7

(* A step of the SRDO, and a step of another service.                      *)
LEMMA PairInvStep == SrdoInv /\ PairInv /\ [Next]_vars => PairInv'
<1> SUFFICES ASSUME SrdoInv, PairInv, [Next]_vars
             PROVE  PairInv'
  OBVIOUS
<1>1. CASE UNCHANGED srdoVars
  BY <1>1 DEF srdoVars, PairInv
<1>2. CASE Safety!WriteObject
  BY <1>2 DEF Safety!WriteObject, PairInv
<1>3. CASE Safety!SrdoNext
  <2>1. "tx" \in Safety!Sides
    BY DEF Safety!Sides
  <2> QED
    BY <1>2, <1>3, <2>1, ReceiveKeepsPair, TransmitKeepsPair, ReceiverKeepsPair, WritesKeepPair
       DEF Safety!SrdoNext
<1> QED
  BY <1>1, <1>3 DEF Next, vars

(* What the two invariants are for.                                        *)
LEMMA PairInvSuffices == SrdoInv /\ PairInv => SrdoIsSafe
BY SrdoInvSuffices DEF SrdoInTime, SrdoIsSafe, PairInv, InHandOk, Safety!UnequalHasCause

(* A receiver of safety data gets a pair that agrees or enters its safe    *)
(* state in time; a pair is one value sent twice within the validation     *)
(* time, also over an NMT command between its frames, unless a frame was   *)
(* lost or came too soon; and only parameters with a verified checksum are *)
(* in operation.                                                           *)
THEOREM SrdoIsSafeAlways == Spec => []SrdoIsSafe
BY SrdoInvInit, SrdoInvStep, PairInvInit, PairInvStep, PairInvSuffices, PTL DEF Spec

-----------------------------------------------------------------------------
(* SRDO: no side waits longer than for what it waits, and no more frames   *)
(* are on the bus than fit.                                                *)
Bounded(n, a, b) == n \in Nat /\ (n <= a \/ n <= b)
SrdoBounds ==
  /\ Bounded(side["rx"].timer, SCT, SRVT) /\ Bounded(side["tx"].timer, START, REFRESH)
  /\ Len(bus) <= CHANNEL

(* No timer runs at the start.                                             *)
LEMMA SrdoBoundsInit == Init => SrdoBounds
<1> SUFFICES ASSUME Safety!SrdoInit PROVE SrdoBounds
  BY DEF Init
<1>1. \A x \in Safety!Sides : side[x].timer = 0
  BY DEF Safety!SrdoInit, Safety!Fresh
<1>2. side["rx"].timer = 0 /\ side["tx"].timer = 0 /\ bus = <<>>
  BY <1>1 DEF Safety!SrdoInit, Safety!Sides
<1> QED
  BY <1>2, SrdoAssumption DEF SrdoBounds, Bounded

(* A step that leaves the timers alone, and one of either side.            *)
LEMMA TimersStay ==
  ASSUME SrdoBounds, side'["rx"].timer = side["rx"].timer, side'["tx"].timer = side["tx"].timer,
         Len(bus') <= CHANNEL
  PROVE  SrdoBounds'
BY DEF SrdoBounds

(* A frame is taken from the bus.                                          *)
LEMMA BusShrinks ==
  ASSUME SrdoInv, SrdoBounds, bus # <<>>, bus' = Tail(bus)
  PROVE  Len(bus') <= CHANNEL
<1>1. bus \in Seq(SrdoFrame) /\ Len(bus) \in Nat
  BY DEF SrdoInv
<1>2. Len(bus') = Len(bus) - 1
  BY <1>1, HeadTailProperties
<1> QED
  BY <1>1, <1>2, SrdoAssumption DEF SrdoBounds

(* A timer that has passed stays within its bounds.                        *)
LEMMA PassesWithin ==
  ASSUME NEW r \in SrdoSide, Verified(r), NEW first \in Nat, NEW a \in Nat, NEW b \in Nat,
         Bounded(r.timer, a, b), first <= a \/ first <= b,
         NEW s, s = Safety!Guarded(r, first), NEW t, t = Safety!Ticked(s)
  PROVE  /\ s \in SrdoSide /\ t \in SrdoSide
         /\ Bounded(s.timer, a, b) /\ Bounded(t.timer, a, b)
<1>1. s \in SrdoSide /\ Verified(s) /\ (s.timer = first \/ s.timer = r.timer)
  BY GuardedKeeps
<1>2. t \in SrdoSide /\ t.timer = IF s.timer > 0 THEN s.timer - 1 ELSE 0
  BY <1>1, TickedKeeps
<1> QED
  BY <1>1, <1>2 DEF Bounded

(* The sender: its timer is set to its first delay or to the refresh time. *)
LEMMA TransmitKeepsBounds ==
  ASSUME SrdoInv, SrdoBounds, Safety!Transmit
  PROVE  SrdoBounds'
<1>1. PICK s : s = Safety!Guarded(side["tx"], START)
  OBVIOUS
<1>2. PICK t : t = Safety!Ticked(s)
  OBVIOUS
<1>3. side["tx"] \in SrdoSide /\ Verified(side["tx"]) /\ side \in [Safety!Sides -> SrdoSide]
      /\ bus \in Seq(SrdoFrame) /\ START \in Nat /\ REFRESH \in Nat
  BY SrdoAssumption DEF SrdoInv, SrdoTypes, Safety!Sides
<1>4. /\ s \in SrdoSide /\ t \in SrdoSide
      /\ Bounded(s.timer, START, REFRESH) /\ Bounded(t.timer, START, REFRESH)
  BY <1>1, <1>2, <1>3, PassesWithin DEF SrdoBounds
<1>5. PICK u : /\ side' = [side EXCEPT !["tx"] = u]
               /\ Bounded(u.timer, START, REFRESH)
               /\ Len(bus') <= CHANNEL
  <2>1. CASE /\ \E n \in {DELAY, REFRESH - DELAY} :
                  side' = [side EXCEPT !["tx"] = [t EXCEPT !.toogle = 1 - @, !.timer = n]]
             /\ Len(bus) < CHANNEL /\ \E f : bus' = Append(bus, f)
    <3>1. PICK n \in {DELAY, REFRESH - DELAY} :
                  side' = [side EXCEPT !["tx"] = [t EXCEPT !.toogle = 1 - @, !.timer = n]]
      BY <2>1
    <3>2. PICK u : u = [t EXCEPT !.toogle = 1 - @, !.timer = n]
      OBVIOUS
    <3>3. u.timer = n
      BY <1>4, <3>2 DEF SrdoSide
    <3>4. n \in Nat /\ n <= REFRESH
      BY <3>1, SrdoAssumption
    <3>5. Len(bus') <= CHANNEL
      BY <1>3, <2>1, SrdoAssumption
    <3> QED
      BY <3>1, <3>2, <3>3, <3>4, <3>5 DEF Bounded
  <2>2. CASE bus' = bus /\ side' = [side EXCEPT !["tx"] = IF s.valid THEN t ELSE s]
    BY <1>4, <2>2 DEF SrdoBounds
  <2> QED
    BY <1>1, <1>2, <2>1, <2>2 DEF Safety!Transmit
<1>6. side'["tx"] = u /\ side'["rx"] = side["rx"]
  BY <1>3, <1>5 DEF Safety!Sides
<1> QED
  BY <1>5, <1>6 DEF SrdoBounds

(* The receiver: its timer is set to one of its two times.                 *)
LEMMA MonitorKeepsBounds ==
  ASSUME SrdoInv, SrdoBounds, Safety!Monitor \/ Safety!Copy
  PROVE  SrdoBounds'
<1>1. PICK s : s = Safety!Guarded(side["rx"], SCT)
  OBVIOUS
<1>2. PICK t : t = Safety!Ticked(s)
  OBVIOUS
<1>3. side["rx"] \in SrdoSide /\ Verified(side["rx"]) /\ side \in [Safety!Sides -> SrdoSide]
      /\ SCT \in Nat /\ SRVT \in Nat
  BY SrdoAssumption DEF SrdoInv, SrdoTypes, Safety!Sides
<1>4. /\ s \in SrdoSide /\ t \in SrdoSide
      /\ Bounded(s.timer, SCT, SRVT) /\ Bounded(t.timer, SCT, SRVT)
  BY <1>1, <1>2, <1>3, PassesWithin DEF SrdoBounds
<1>5. PICK u : /\ side' = [side EXCEPT !["rx"] = u]
               /\ Bounded(u.timer, SCT, SRVT)
               /\ bus' = bus
  <2>1. ASSUME NEW k, NEW n \in {SCT, SRVT}, NEW w \in SrdoSide, NEW u, bus' = bus,
               u = [w EXCEPT !.toogle = k, !.timer = n], side' = [side EXCEPT !["rx"] = u]
        PROVE  \E v : side' = [side EXCEPT !["rx"] = v] /\ Bounded(v.timer, SCT, SRVT) /\ bus' = bus
    <3>1. u.timer = n
      BY <2>1 DEF SrdoSide
    <3>2. Bounded(n, SCT, SRVT)
      BY <1>3, <2>1 DEF Bounded
    <3>3. Bounded(u.timer, SCT, SRVT)
      BY <3>1, <3>2
    <3> QED
      BY <2>1, <3>3
  <2>2. CASE Safety!Copy
    <3>1. PICK u : u = [side["rx"] EXCEPT !.toogle = 0, !.timer = SCT]
      OBVIOUS
    <3>2. side' = [side EXCEPT !["rx"] = u] /\ bus' = bus
      BY <1>3, <2>2, <3>1 DEF Safety!Copy, Safety!Sides, SrdoSide
    <3> QED
      BY <1>3, <2>1, <3>1, <3>2
  <2>3. CASE Safety!Monitor
    <3>1. /\ bus' = bus
          /\ \/ side' = [side EXCEPT !["rx"] = s]
             \/ side' = [side EXCEPT !["rx"] = t]
             \/ side' = [side EXCEPT !["rx"] = [t EXCEPT !.toogle = 1, !.timer = SRVT]]
             \/ side' = [side EXCEPT !["rx"] = [t EXCEPT !.toogle = 0, !.timer = SCT]]
             \/ side' = [side EXCEPT !["rx"] = [t EXCEPT !.toogle = 0, !.timer = SRVT]]
      BY <1>1, <1>2, <2>3 DEF Safety!Monitor, Safety!Pass
    <3>2. PICK a : a = [t EXCEPT !.toogle = 1, !.timer = SRVT]
      OBVIOUS
    <3>3. PICK b : b = [t EXCEPT !.toogle = 0, !.timer = SCT]
      OBVIOUS
    <3>4. PICK c : c = [t EXCEPT !.toogle = 0, !.timer = SRVT]
      OBVIOUS
    <3>5. /\ bus' = bus
          /\ \/ side' = [side EXCEPT !["rx"] = s]
             \/ side' = [side EXCEPT !["rx"] = t]
             \/ side' = [side EXCEPT !["rx"] = a]
             \/ side' = [side EXCEPT !["rx"] = b]
             \/ side' = [side EXCEPT !["rx"] = c]
      BY <3>1, <3>2, <3>3, <3>4
    <3> QED
      BY <1>4, <2>1, <3>2, <3>3, <3>4, <3>5
  <2> QED
    BY <2>2, <2>3
<1>6. side'["rx"] = u /\ side'["tx"] = side["tx"]
  BY <1>3, <1>5 DEF Safety!Sides
<1> QED
  BY <1>5, <1>6 DEF SrdoBounds

(* Parameters are written, and NMT commands come.                          *)
LEMMA WritesKeepBounds ==
  ASSUME SrdoInv, SrdoBounds, NEW x \in Safety!Sides,
         Safety!WriteParameter(x) \/ Safety!WriteCrc(x) \/ Safety!WriteValid(x) \/ Safety!Nmt(x)
  PROVE  SrdoBounds'
<1>1. side \in [Safety!Sides -> SrdoSide] /\ bus' = bus
  BY DEF SrdoInv, SrdoTypes, Safety!WriteParameter, Safety!WriteCrc, Safety!WriteValid, Safety!Nmt,
         Safety!Writable
<1>2. PICK u : side' = [side EXCEPT ![x] = u] /\ u.timer = side[x].timer
  <2>1. side[x] \in SrdoSide
    BY <1>1
  <2>2. CASE Safety!WriteParameter(x)
    <3>1. PICK p : side' = [side EXCEPT ![x] = [side[x] EXCEPT !.par = p, !.configurationValid = FALSE]]
      BY <1>1, <2>1, <2>2 DEF Safety!WriteParameter, SrdoSide
    <3>2. PICK u : u = [side[x] EXCEPT !.par = p, !.configurationValid = FALSE]
      OBVIOUS
    <3>3. u.timer = side[x].timer
      BY <2>1, <3>2 DEF SrdoSide
    <3>4. side' = [side EXCEPT ![x] = u]
      BY <3>1, <3>2
    <3> QED
      BY <3>3, <3>4
  <2>3. CASE Safety!WriteCrc(x)
    <3>1. PICK p : side' = [side EXCEPT ![x] = [side[x] EXCEPT !.checksum = p, !.configurationValid = FALSE]]
      BY <1>1, <2>1, <2>3 DEF Safety!WriteCrc, SrdoSide
    <3>2. PICK u : u = [side[x] EXCEPT !.checksum = p, !.configurationValid = FALSE]
      OBVIOUS
    <3>3. u.timer = side[x].timer
      BY <2>1, <3>2 DEF SrdoSide
    <3>4. side' = [side EXCEPT ![x] = u]
      BY <3>1, <3>2
    <3> QED
      BY <3>3, <3>4
  <2>4. CASE Safety!WriteValid(x)
    <3>1. PICK m : side' = [side EXCEPT ![x] = [side[x] EXCEPT !.configurationValid = m, !.checkCRC = m]]
      BY <1>1, <2>1, <2>4 DEF Safety!WriteValid, SrdoSide
    <3>2. PICK u : u = [side[x] EXCEPT !.configurationValid = m, !.checkCRC = m]
      OBVIOUS
    <3>3. u.timer = side[x].timer
      BY <2>1, <3>2 DEF SrdoSide
    <3>4. side' = [side EXCEPT ![x] = u]
      BY <3>1, <3>2
    <3> QED
      BY <3>3, <3>4
  <2>5. CASE Safety!Nmt(x)
    <3>1. PICK m : side' = [side EXCEPT ![x] = [side[x] EXCEPT !.operational = m]]
      BY <1>1, <2>1, <2>5 DEF Safety!Nmt, SrdoSide
    <3>2. PICK u : u = [side[x] EXCEPT !.operational = m]
      OBVIOUS
    <3>3. u.timer = side[x].timer
      BY <2>1, <3>2 DEF SrdoSide
    <3>4. side' = [side EXCEPT ![x] = u]
      BY <3>1, <3>2
    <3> QED
      BY <3>3, <3>4
  <2> QED
    BY <2>2, <2>3, <2>4, <2>5
<1>3. side'["rx"].timer = side["rx"].timer /\ side'["tx"].timer = side["tx"].timer
  BY <1>1, <1>2 DEF Safety!Sides
<1> QED
  BY <1>1, <1>3, TimersStay DEF SrdoBounds

(* The application asks for the next pair at once.                         *)
LEMMA RequestKeepsBounds ==
  ASSUME SrdoInv, SrdoBounds, Safety!CO_SRDO_requestSend
  PROVE  SrdoBounds'
<1>1. side \in [Safety!Sides -> SrdoSide]
  BY DEF SrdoInv, SrdoTypes
<1>2. side'["tx"].timer = 0 /\ side'["rx"] = side["rx"] /\ bus' = bus
  BY <1>1 DEF Safety!CO_SRDO_requestSend, SrdoSide, Safety!Sides
<1> QED
  BY <1>2, SrdoAssumption DEF SrdoBounds, Bounded

(* A step of the SRDO, and a step of another service.                      *)
LEMMA SrdoBoundsStep == SrdoInv /\ SrdoBounds /\ [Next]_vars => SrdoBounds'
<1> SUFFICES ASSUME SrdoInv, SrdoBounds, [Next]_vars PROVE SrdoBounds'
  OBVIOUS
<1>1. CASE UNCHANGED srdoVars \/ Safety!WriteObject
  BY <1>1, TimersStay DEF srdoVars, Safety!WriteObject, SrdoBounds
<1>2. CASE Safety!Receive \/ Safety!Lose
  BY <1>2, TimersStay, BusShrinks DEF Safety!Receive, Safety!Lose
<1>3. CASE Safety!SrdoNext
  BY <1>1, <1>2, <1>3, TransmitKeepsBounds, RequestKeepsBounds, MonitorKeepsBounds,
     WritesKeepBounds DEF Safety!SrdoNext
<1> QED
  BY <1>1, <1>3 DEF Next, vars

(* With the invariant these are the types of the SRDO.                     *)
LEMMA SrdoBoundsSuffices == SrdoInv /\ SrdoBounds => Safety!SrdoTypeOK
BY DEF SrdoInv, SrdoTypes, SrdoSide, SrdoBounds, Bounded, Safety!SrdoTypeOK, Safety!Sides
-----------------------------------------------------------------------------
(* The types of the object dictionary.                                     *)

(* A stream is at its beginning or inside its object; a byte that is       *)
(* written is its place in it, and an object is no longer than the memory. *)
InObject(st) == st.offset = 0 \/ st.offset \in 1 .. st.length - 1
DictBounds ==
  /\ search.max >= -1 /\ InObject(stream)
  /\ memory \in [Dictionary!Address -> Dictionary!Byte] /\ odData \in Seq(Dictionary!Byte)
  /\ code \in Dictionary!Code \cup {Dictionary!None}

(* The places of a byte.                                                   *)
LEMMA ByteIsPlace ==
  /\ Cardinality(Dictionary!Address) \in Nat
  /\ Dictionary!Byte = {0, -1} \cup 1..1 + Cardinality(Dictionary!Address)
<1>1. IsFiniteSet(Dictionary!Address)
  BY DictionaryAssumption DEF Dictionary!Address
<1>2. Cardinality(Dictionary!Address) \in Nat
  BY <1>1, FS_CardinalityType
<1> QED
  BY <1>2, SameCardinality DEF Dictionary!Byte, Dictionary!Old, Dictionary!Others, Dictionary!Position

(* The bytes of an object are in the memory, which has room for them.      *)
LEMMA ObjectFits ==
  ASSUME DictInv, entry # Dictionary!NoEntry, NEW st, Located(st), st.addr # Dictionary!NULL
  PROVE  /\ st.addr \in Nat /\ st.length \in Nat /\ st.offset \in Nat
         /\ st.addr .. st.addr + st.length - 1 \subseteq Dictionary!Address
         /\ \A k \in 1..st.length : k \in Dictionary!Byte
<1>1. /\ st.addr \in Nat /\ st.length \in Nat /\ st.offset \in Nat
      /\ st.addr .. st.addr + st.length - 1 \subseteq Dictionary!Address
  BY LayoutIs
<1>2. PICK x \in Nat, n \in Nat : x = st.addr /\ n = st.length
  BY <1>1
<1>3. IsFiniteSet(Dictionary!Address) /\ Cardinality(Dictionary!Address) \in Nat
  BY DictionaryAssumption, ByteIsPlace DEF Dictionary!Address
<1>4. x .. x + n - 1 \subseteq Dictionary!Address
  BY <1>1, <1>2
<1>5. Cardinality(x .. x + n - 1) <= Cardinality(Dictionary!Address)
  BY <1>3, <1>4, FS_Subset
<1>6. PICK y \in Int : y = x + n - 1
  BY <1>2
<1>7. Cardinality(x .. y) = IF x > y THEN 0 ELSE y - x + 1
  <2>1. \A u, v \in Int : Cardinality(u .. v) = IF u > v THEN 0 ELSE v - u + 1
    BY FS_Interval
  <2>2. x \in Int
    BY <1>2
  <2> QED
    BY <1>6, <2>1, <2>2, Zenon
<1>8. n <= Cardinality(Dictionary!Address)
  BY <1>2, <1>3, <1>5, <1>6, <1>7
<1>9. ASSUME NEW k \in 1..n PROVE k \in Dictionary!Byte
  <2>1. k \in 1..1 + Cardinality(Dictionary!Address)
    BY <1>2, <1>3, <1>8
  <2> QED
    BY <2>1, ByteIsPlace
<1> QED
  BY <1>1, <1>2, <1>9

(* The dictionary starts within its bounds.                                *)
LEMMA DictBoundsInit == Init => DictBounds
<1> SUFFICES ASSUME Dictionary!OdInit PROVE DictBounds
  BY DEF Init
<1> USE DEF Dictionary!OdInit
<1>1. list \in Dictionaries /\ search = [min |-> 0, max |-> Len(list) - 1, passes |-> 0]
  BY DEF Dictionary!Search
<1>2. Len(list) \in Nat
  BY <1>1, ListIs
<1>3. search.max >= -1
  BY <1>1, <1>2
<1>4. stream.offset = 0
  BY DEF Dictionary!Closed
<1>5. memory \in [Dictionary!Address -> Dictionary!Byte] /\ odData \in Seq(Dictionary!Byte)
  BY DEF Dictionary!Byte
<1> QED
  BY <1>3, <1>4, <1>5 DEF DictBounds, InObject

(* How much of an object a call takes.                                     *)
LEMMA CopyIs ==
  ASSUME NEW st, st.length \in Nat, st.offset \in Nat, InObject(st) \/ st.offset <= st.length, NEW count \in Nat
  PROVE  LET c == Dictionary!Copy(st, count) IN
         /\ c.n \in Nat /\ c.offset \in Nat /\ st.offset + c.n <= st.length
         /\ c.offset = 0 \/ c.offset \in 1 .. st.length - 1
         /\ c.code \in {"ODR_PARTIAL", "ODR_OK"}
<1>1. st.offset <= st.length
  BY DEF InObject
<1> QED
  BY <1>1 DEF Dictionary!Copy

(* A call through the stream.                                              *)
LEMMA CallKeepsBounds ==
  ASSUME DictInv, DictBounds, entry # Dictionary!NoEntry, NEW st, Located(st), InObject(st),
         NEW count \in Nat, NEW what \in {"read", "write"}, Dictionary!Call(st, what, count)
  PROVE  /\ InObject(stream')
         /\ memory' \in [Dictionary!Address -> Dictionary!Byte] /\ odData' \in Seq(Dictionary!Byte)
         /\ code' \in Dictionary!Code \cup {Dictionary!None}
<1>1. /\ memory \in [Dictionary!Address -> Dictionary!Byte] /\ odData \in Seq(Dictionary!Byte)
  BY DEF DictBounds
<1>2. CASE \E x \in {"ODR_UNSUPP_ACCESS", "ODR_SUB_NOT_EXIST"} : stream' = st /\ Dictionary!Refused(x)
  BY <1>1, <1>2 DEF Dictionary!Refused, Dictionary!Code
<1>3. CASE st.addr # Dictionary!NULL /\ (Dictionary!OD_readOriginal(st, count) \/ Dictionary!OD_writeOriginal(st, count))
  <2>1. /\ st.addr \in Nat /\ st.length \in Nat /\ st.offset \in Nat
        /\ st.addr .. st.addr + st.length - 1 \subseteq Dictionary!Address
        /\ \A k \in 1..st.length : k \in Dictionary!Byte
    BY <1>3, ObjectFits
  <2>2. PICK c : c = Dictionary!Copy(st, count)
    OBVIOUS
  <2>3. /\ c.n \in Nat /\ c.offset \in Nat /\ st.offset + c.n <= st.length
        /\ c.offset = 0 \/ c.offset \in 1 .. st.length - 1
        /\ c.code \in {"ODR_PARTIAL", "ODR_OK"}
    BY <2>1, <2>2, CopyIs
  <2>4. stream' = [st EXCEPT !.offset = c.offset]
    BY <1>3, <2>2 DEF Dictionary!OD_readOriginal, Dictionary!OD_writeOriginal
  <2>5. InObject(stream')
    <3>1. stream' = [addr |-> st.addr, length |-> st.length, sub |-> st.sub, offset |-> c.offset, io |-> st.io]
      BY <2>4 DEF Located
    <3>2. stream'.offset = c.offset /\ stream'.length = st.length
      BY <3>1
    <3> QED
      BY <2>3, <3>2 DEF InObject
  <2>6. CASE Dictionary!OD_readOriginal(st, count)
    <3>1. /\ odData' = odData \o [i \in 1 .. c.n |-> memory[st.addr + st.offset + i - 1]]
          /\ code' = c.code /\ memory' = memory
      BY <2>2, <2>6 DEF Dictionary!OD_readOriginal
    <3>2. ASSUME NEW i \in 1 .. c.n PROVE memory[st.addr + st.offset + i - 1] \in Dictionary!Byte
      <4>1. st.addr + st.offset + i - 1 \in st.addr .. st.addr + st.length - 1
        BY <2>1, <2>3
      <4>2. st.addr + st.offset + i - 1 \in Dictionary!Address
        BY <2>1, <4>1
      <4> QED
        BY <1>1, <4>2
    <3>3. PICK p : p = [i \in 1 .. c.n |-> memory[st.addr + st.offset + i - 1]]
      OBVIOUS
    <3>4. p \in Seq(Dictionary!Byte)
      BY <2>3, <3>2, <3>3
    <3>5. odData' \in Seq(Dictionary!Byte)
      BY <1>1, <3>1, <3>3, <3>4, ConcatProperties
    <3> QED
      BY <1>1, <2>3, <2>5, <3>1, <3>5 DEF Dictionary!Code
  <2>7. CASE Dictionary!OD_writeOriginal(st, count)
    <3>1. CASE Dictionary!Refused("ODR_DATA_LONG")
      BY <1>1, <2>5, <3>1 DEF Dictionary!Refused, Dictionary!Code
    <3>2. CASE /\ memory' = [a \in Dictionary!Address |-> IF a \in Dictionary!Area(st, c.n) THEN a - st.addr + 1
                                             ELSE memory[a]]
               /\ code' = c.code /\ odData' = odData
      <4>1. ASSUME NEW a \in Dictionary!Address
            PROVE  (IF a \in Dictionary!Area(st, c.n) THEN a - st.addr + 1 ELSE memory[a]) \in Dictionary!Byte
        <5>1. CASE a \in Dictionary!Area(st, c.n)
          <6>1. a \in st.addr + st.offset .. st.addr + st.offset + c.n - 1
            BY <5>1 DEF Dictionary!Area
          <6>2. a - st.addr + 1 \in 1..st.length
            BY <2>1, <2>3, <6>1
          <6> QED
            BY <2>1, <5>1, <6>2
        <5>2. CASE a \notin Dictionary!Area(st, c.n)
          BY <1>1, <5>2
        <5> QED
          BY <5>1, <5>2
      <4>2. memory' \in [Dictionary!Address -> Dictionary!Byte]
        BY <3>2, <4>1
      <4> QED
        BY <1>1, <2>3, <2>5, <3>2, <4>2 DEF Dictionary!Code
    <3> QED
      BY <2>2, <2>7, <3>1, <3>2 DEF Dictionary!OD_writeOriginal
  <2> QED
    BY <1>3, <2>6, <2>7
<1> QED
  BY <1>2, <1>3 DEF Dictionary!Call

(* OD_find.                                                                *)
LEMMA FindKeepsBounds ==
  ASSUME DictInv, DictBounds, Dictionary!OD_find PROVE DictBounds'
<1>1. UNCHANGED <<list, index, stream, memory, odData>>
  BY DEF Dictionary!OD_find
<1>2. search.min \in Nat /\ search.max \in Int /\ search.max >= -1 /\ code \in Dictionary!Code \cup {Dictionary!None}
      /\ search = [min |-> search.min, max |-> search.max, passes |-> search.passes]
  BY DEF DictInv, SearchInv, DictBounds
<1>3. search'.max >= -1 /\ code' \in Dictionary!Code \cup {Dictionary!None}
  <2>1. ASSUME NEW e, Dictionary!Found(e) PROVE search' = search /\ code' = code
    BY <2>1 DEF Dictionary!Found
  <2>2. ASSUME Dictionary!Missing PROVE search' = search /\ code' = "ODR_IDX_NOT_EXIST"
    BY <2>2 DEF Dictionary!Missing
  <2>3. CASE Dictionary!Pass /\ search.min < search.max
    <3>1. PICK cur : cur = (search.min + search.max) \div 2
      OBVIOUS
    <3>2. cur \in Nat
      BY <1>2, <2>3, <3>1
    <3>3. CASE list[cur + 1].index = index
      <4>1. Dictionary!Found(list[cur + 1])
        BY <2>3, <3>1, <3>3 DEF Dictionary!Pass
      <4> QED
        BY <1>2, <2>1, <4>1
    <3>4. CASE list[cur + 1].index # index
      <4>1. code' = code /\ search' = [Dictionary!Halved(cur) EXCEPT !.passes = @ + 1]
        BY <2>3, <3>1, <3>4 DEF Dictionary!Pass
      <4>2. search'.max = IF index < list[cur + 1].index THEN IF cur > 0 THEN cur - 1 ELSE cur ELSE search.max
        BY <1>2, <4>1 DEF Dictionary!Halved
      <4>3. search'.max >= -1
        BY <1>2, <3>2, <4>2
      <4> QED
        BY <1>2, <4>1, <4>3
    <3> QED
      BY <3>3, <3>4
  <2> QED
    BY <1>2, <2>1, <2>2, <2>3 DEF Dictionary!OD_find, Dictionary!Code
<1> QED
  BY <1>1, <1>3 DEF DictBounds

(* A step of the dictionary, and a step of another service.                *)
LEMMA DictBoundsStep == DictInv /\ DictBounds /\ [Next]_vars => DictBounds'
<1> SUFFICES ASSUME DictInv, DictBounds, [Next]_vars PROVE DictBounds'
  OBVIOUS
<1>1. CASE UNCHANGED odVars
  BY <1>1 DEF odVars, DictBounds
<1>2. CASE Dictionary!OD_find
  BY <1>2, FindKeepsBounds
<1>3. ASSUME NEW s \in OdSubIndexes, NEW o \in BOOLEAN, Dictionary!OD_getSub(s, o) PROVE DictBounds'
  <2>1. UNCHANGED <<search, memory, odData>>
    BY <1>3 DEF Dictionary!OD_getSub
  <2>2. /\ code' = code \/ code' = "ODR_SUB_NOT_EXIST"
        /\ stream' = stream \/ stream' = Dictionary!Stream(s, o)
    BY <1>3 DEF Dictionary!OD_getSub
  <2>3. InObject(stream')
    BY <2>2, StreamIsLocated DEF DictBounds, InObject
  <2> QED
    BY <2>1, <2>2, <2>3 DEF DictBounds, Dictionary!Code
<1>4. ASSUME NEW s \in OdSubIndexes, NEW n \in OdCounts \cup {0}, Dictionary!OD_getPtr(s, n) PROVE DictBounds'
  <2>1. UNCHANGED <<search, memory, odData>>
    BY <1>4 DEF Dictionary!OD_getPtr
  <2>2. /\ code' \in {"ODR_SUB_NOT_EXIST", "ODR_DEV_INCOMPAT", "ODR_TYPE_MISMATCH", "ODR_OK"}
        /\ stream' = stream \/ stream' = Dictionary!Stream(s, TRUE)
    BY <1>4 DEF Dictionary!OD_getPtr
  <2>3. Dictionary!Stream(s, TRUE).offset = 0
    BY DEF Dictionary!Stream
  <2>4. InObject(stream) /\ InObject(Dictionary!Stream(s, TRUE))
    BY <2>3 DEF DictBounds, InObject
  <2>5. InObject(stream')
    BY <2>2, <2>4
  <2> QED
    BY <2>1, <2>2, <2>5 DEF DictBounds, Dictionary!Code
<1>5. ASSUME NEW what \in {"read", "write"}, NEW n \in OdCounts, Dictionary!Piece(what, n) PROVE DictBounds'
  <2>1. /\ op = "open" \/ (op = what /\ code = "ODR_PARTIAL")
        /\ Dictionary!Call(stream, what, n) /\ UNCHANGED <<list, search, entry>>
    BY <1>5 DEF Dictionary!Piece
  <2>2. entry # Dictionary!NoEntry /\ Located(stream) /\ n \in Nat /\ InObject(stream)
    BY <2>1, DictionaryAssumption DEF DictInv, FoundInv, TransferInv, DictBounds
  <2> QED
    BY <2>1, <2>2, CallKeepsBounds DEF DictBounds
<1>6. ASSUME NEW what \in {"read", "write"}, NEW n \in OdCounts, NEW s \in OdSubIndexes,
             Dictionary!Value(what, s, n)
      PROVE  DictBounds'
  <2>1. op = "found" /\ UNCHANGED <<list, search, entry>>
    BY <1>6 DEF Dictionary!Value
  <2>2. entry # Dictionary!NoEntry /\ n \in Nat
    BY <2>1, DictionaryAssumption DEF DictInv, FoundInv
  <2>3. CASE stream' = stream /\ \E x \in {"ODR_SUB_NOT_EXIST", "ODR_TYPE_MISMATCH"} : Dictionary!Refused(x)
    BY <2>1, <2>3 DEF DictBounds, Dictionary!Refused, Dictionary!Code
  <2>4. ASSUME NEW o \in BOOLEAN, Dictionary!Call(Dictionary!Stream(s, o), what, n) PROVE DictBounds'
    <3>1. PICK st : st = Dictionary!Stream(s, o)
      OBVIOUS
    <3>2. Located(st) /\ InObject(st)
      BY <3>1, StreamIsLocated DEF InObject
    <3>3. Dictionary!Call(st, what, n)
      BY <2>4, <3>1
    <3> QED
      BY <2>1, <2>2, <3>2, <3>3, CallKeepsBounds DEF DictBounds
  <2> QED
    BY <1>6, <2>3, <2>4 DEF Dictionary!Value
<1>7. ASSUME NEW a \in Dictionary!Address, Dictionary!Touch(a) PROVE DictBounds'
  <2>1. /\ memory' = [memory EXCEPT ![a] = Dictionary!Others]
        /\ UNCHANGED <<search, stream, odData, code>>
    BY <1>7 DEF Dictionary!Touch
  <2> QED
    BY <2>1 DEF DictBounds, Dictionary!Byte
<1>8. CASE Dictionary!OdNext
  BY <1>2, <1>3, <1>4, <1>5, <1>6, <1>7, <1>8 DEF Dictionary!OdNext
<1> QED
  BY <1>1, <1>8 DEF Next, vars

(* With the invariant these are the types of the dictionary.               *)
LEMMA DictBoundsSuffices == DictInv /\ DictBounds => Dictionary!OdTypeOK
<1> SUFFICES ASSUME DictInv, DictBounds PROVE Dictionary!OdTypeOK
  OBVIOUS
<1>1. Len(list) \in Nat
  BY ListIs DEF DictInv
<1>2. search.min \in Nat /\ search.max \in Int /\ search.max >= -1 /\ search.max < Len(list) /\ search.min <= Len(list)
  BY DEF DictInv, SearchInv, DictBounds
<1>3. search.min \in 0 .. Len(list) /\ search.max \in -1 .. Len(list) - 1
  BY <1>1, <1>2
<1> QED
  BY <1>3 DEF DictBounds, InObject, Dictionary!OdTypeOK

(* Every service stays within its types: no step length, count, timer or   *)
(* offset leaves its range, no pointer its buffer, and no text writes more *)
(* than there is room for; for every value of the constants.               *)
THEOREM TypeOKAlways == Spec => []TypeOK
<1>1. Init => /\ LssInv /\ SyncInv /\ TpInv /\ PdoInv /\ RingInv /\ SrdoInv /\ SrdoBounds
              /\ DictInv /\ DictBounds
  BY LssInvInit, SyncInvInit, TpInvInit, PdoInvInit, RingInit, SrdoInvInit, SrdoBoundsInit,
     DictInvInit, DictBoundsInit
<1>2. LssInv /\ [Next]_vars => LssInv'
  BY LssInvStep
<1>3. SyncInv /\ [Next]_vars => SyncInv'
  BY SyncInvStep
<1>4. TpInv /\ [Next]_vars => TpInv'
  BY TpInvStep
<1>5. PdoInv /\ [Next]_vars => PdoInv'
  BY PdoInvStep
<1>6. RingInv /\ [Next]_vars => RingInv'
  BY RingSteps
<1>7. SrdoInv /\ SrdoBounds /\ [Next]_vars => SrdoInv' /\ SrdoBounds'
  BY SrdoInvStep, SrdoBoundsStep
<1>8. DictInv /\ DictBounds /\ [Next]_vars => DictInv' /\ DictBounds'
  BY DictInvStep, DictBoundsStep
<1>9. RingInv => Ring!FifoTypeOK
  BY DEF RingInv
<1>10. /\ LssInv /\ SyncInv /\ TpInv /\ PdoInv /\ RingInv /\ SrdoInv /\ SrdoBounds
       /\ DictInv /\ DictBounds /\ TextTypes /\ GatewayInv
       => TypeOK
  BY <1>9, LssInvSuffices, SyncInvSuffices, TpInvSuffices, PdoInvSuffices, SrdoBoundsSuffices,
     DictBoundsSuffices, TextTypesSuffices, GatewayInvSuffices DEF TypeOK
<1> QED
  BY <1>1, <1>2, <1>3, <1>4, <1>5, <1>6, <1>7, <1>8, <1>10, TextTypesAlways, GatewayInvAlways, PTL DEF Spec
===============================================================================
