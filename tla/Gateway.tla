------------------------------ MODULE Gateway ------------------------------
(***************************************************************************)
(* The ASCII gateway (CO_gateway_ascii.c): command lines of the            *)
(* application come through commFifo, responses go out through respBuf and *)
(* a read callback that may take a part of them.  A line is one token,     *)
(* but for "write", whose value may be longer than the buffers: its header *)
(* is followed by units of data and the newline.  A response is a sequence *)
(* of pieces; the gateway cannot be interrupted, but is left and called    *)
(* again while a command takes time.  What the SDO client and the LSS      *)
(* master answer is what their modules leave open.                         *)
(***************************************************************************)
EXTENDS Integers, Sequences, SequencesExt

CONSTANTS
  Lines,        (* sequences of tokens the application writes              *)
  COMM,         (* CO_CONFIG_GTWA_COMM_BUF_SIZE, in tokens                 *)
  RESP,         (* CO_GTWA_RESP_BUF_SIZE, in pieces                        *)
  SDO_BUF,      (* units the SDO client buffers                            *)
  DL_LOW,       (* units a download needs to go on                         *)
  HELP,         (* pieces of the help text                                 *)
  OBJECT,       (* units of the object that is read                        *)
  WAIT,         (* CO_GTWA_STATE_TIMEOUT_TIME_US in calls                  *)
  LOGS          (* pieces the log holds at most                            *)

VARIABLES
  gtwa, commFifo, script,
  client,       (* the SDO client                                          *)
  master,       (* the LSS master: its command, whether its time-out is    *)
                (* the default                                             *)
  due,          (* pieces the application has still to get                 *)
  told,         (* the final responses formed                              *)
  past          (* what has happened: see PastInit                         *)

gtwaVars == <<gtwa, commFifo, script, client, master, due, told, past>>

Scans  == {"_lss_fastscan", "lss_allnodes"}
Silent == {"log", "help", "led"}                       \* no sequence in the answer
Line(s, k) == [t |-> "line", seq |-> s, kind |-> k]
WriteLine(s) == [t |-> "write", seq |-> s, kind |-> "write"]
Data == [t |-> "data"]
Junk == [t |-> "junk"]     \* not a digit of the value
NL   == [t |-> "nl"]
Ends(tok) == tok.t \in {"line", "nl"}

NoPiece == <<0, "stray">>
PastInit ==
  [overrun |-> FALSE,    \* a response was formed over one that is held
   cut     |-> FALSE,    \* a write ended while its value was still coming
   lapsed  |-> FALSE,    \* the gateway was disabled, or its output broke
   dirty   |-> FALSE,    \* a scan was refused late or disabled
   silent  |-> 0]        \* the last command whose answer has no sequence

GatewayInit ==
  /\ gtwa = [pc |-> "out", state |-> "IDLE", seq |-> 0, hold |-> FALSE, node |-> FALSE,
             buf |-> [i \in 1..RESP |-> NoPiece], off |-> 0, count |-> 0, copied |-> FALSE,
             timer |-> 0, sub |-> 0, store |-> FALSE, nid |-> 0, ret |-> "none", offset |-> 0, log |-> 0,
             led |-> "none"]
  /\ commFifo = <<>> /\ script \in Lines
  /\ client = [state |-> "IDLE", n |-> 0, left |-> 0]
  /\ master = [command |-> "WAITING", default |-> TRUE]
  /\ due = <<>> /\ told = <<>> /\ past = PastInit
-----------------------------------------------------------------------------
(* The application, between two calls of CO_GTWA_process.                  *)
CO_GTWA_write ==
  /\ gtwa.pc = "out" /\ script # <<>> /\ Len(commFifo) < COMM
  /\ commFifo' = Append(commFifo, Head(script)) /\ script' = Tail(script)
  /\ UNCHANGED <<gtwa, client, master, due, told, past>>

CO_GTWA_log_print ==
  /\ gtwa.pc = "out" /\ gtwa.log < LOGS
  /\ gtwa' = [gtwa EXCEPT !.log = @ + 1]
  /\ UNCHANGED <<commFifo, script, client, master, due, told, past>>

(* CO_fifo_CommSearch: a whole line or a full buffer; clearing drops       *)
(* everything through the next newline.                                    *)
CommSearch(c) == (\E i \in DOMAIN c : Ends(c[i])) \/ Len(c) = COMM
Cleared(c) ==
  LET i == SelectInSeq(c, Ends) IN IF i = 0 THEN <<>> ELSE SubSeq(c, i + 1, Len(c))
-----------------------------------------------------------------------------
(* Responses: snprintf writes from the start of respBuf.                   *)
Formed(g, pieces) ==
  [g EXCEPT !.buf = [i \in 1..RESP |-> IF i <= Len(pieces) THEN pieces[i] ELSE @[i]],
            !.count = Len(pieces)]
Final(g, r) == <<<<g.seq, r>>, <<g.seq, "end">>>>
Slice(g) == [i \in 1..g.count |-> IF g.off + i <= RESP THEN g.buf[g.off + i] ELSE NoPiece]

(* Mutant: the offset of a held response is not kept.                      *)
TakenFromStart(g, c) ==
  IF c < g.count THEN [g EXCEPT !.count = @ - c, !.hold = TRUE]
                 ELSE [g EXCEPT !.off = 0, !.count = 0, !.hold = FALSE]

(* respBufTransfer: the application takes c pieces.                        *)
Taken(g, c) ==
  IF c < g.count THEN [g EXCEPT !.off = @ + c, !.count = @ - c, !.hold = TRUE]
                 ELSE [g EXCEPT !.off = 0, !.count = 0, !.hold = FALSE]
Unread(d, c) == SubSeq(d, c + 1, Len(d))

(* A response is formed and offered, and the gateway goes on at pc.        *)
Respond(g, pieces) ==
  \E c \in 0..Len(pieces) :
    /\ gtwa' = Taken(Formed(g, pieces), c)
    /\ due' = Unread(due \o pieces, c)
    /\ told' = IF Len(pieces) = 2 /\ pieces[2][2] = "end" THEN Append(told, pieces[1]) ELSE told

At(g, pc) == [g EXCEPT !.pc = pc]
Resting(g) == [g EXCEPT !.pc = "out", !.state = "IDLE"]
OverHeld(p) == [p EXCEPT !.overrun = @ \/ gtwa.hold]
Ok(g) == Respond(g, Final(g, "ok"))
Error(g) == Respond(g, Final(g, "err"))
Quiet(g) == gtwa' = g /\ UNCHANGED <<due, told>>
-----------------------------------------------------------------------------
(* A call: when a response is held, the rest of it goes first.             *)
Disable ==
  /\ gtwa.pc = "out"
  /\ Quiet([gtwa EXCEPT !.state = "IDLE"]) /\ commFifo' = <<>>
  /\ past' = [past EXCEPT !.lapsed = TRUE,
                          !.cut = @ \/ (commFifo # <<>> /\ ~Ends(Last(commFifo)))
                                    \/ (gtwa.state \in {"WRITE", "WRITE_ABORTED"} /\ gtwa.copied),
                          !.dirty = @ \/ master.command # "WAITING" \/ ~master.default]
  /\ UNCHANGED <<script, client, master>>

Call ==
  /\ gtwa.pc = "out"
  /\ \E c \in 0..gtwa.count :
       LET g == IF gtwa.hold THEN Taken(gtwa, c) ELSE gtwa IN
       /\ gtwa' = At(g, IF g.hold THEN "out" ELSE "parse")
       /\ due' = IF gtwa.hold THEN Unread(due, c) ELSE due
  /\ UNCHANGED <<commFifo, script, client, master, told, past>>

(* The parser, which goes on as long as it is idle and finds a line.       *)
Parses == gtwa.pc = "parse" /\ gtwa.state = "IDLE" /\ CommSearch(commFifo)
Token == Head(commFifo)
Begun == [gtwa EXCEPT !.seq = Token.seq]
IsLine(kinds) == Parses /\ Token.t = "line" /\ Token.kind \in kinds

ParseEmpty ==
  /\ Parses /\ Token.t = "nl"
  /\ Respond(gtwa, <<<<0, "nl">>>>)
  /\ commFifo' = Tail(commFifo) /\ past' = OverHeld(past)
  /\ UNCHANGED <<script, client, master>>

(* The error ends the call, and what has come of the line is deleted.      *)
ParseError(g) ==
  /\ Error(Resting(g))
  /\ commFifo' = Cleared(commFifo)
Refused == [OverHeld(past) EXCEPT !.cut = @ \/ SelectInSeq(commFifo, Ends) = 0]

ParseBad ==    \* no sequence, or a syntax error behind it
  /\ Parses /\ (Token.t \in {"data", "junk"} \/ IsLine({"bad", "lss_allnodes_bad"}))
  /\ ParseError(IF Token.t = "line" THEN Begun ELSE gtwa)
  /\ LET late == Token.t = "line" /\ Token.kind = "lss_allnodes_bad"
     IN  /\ master' = [master EXCEPT !.default = @ /\ ~late]
         /\ past' = [Refused EXCEPT !.dirty = @ \/ late]
  /\ UNCHANGED <<script, client>>

(* Commands that are answered at once: set, an NMT command, which needs a  *)
(* node and may be refused by the stack, and the deselection of LSS.       *)
AnswerAtOnce(kind, allowed, refused, g) ==
  /\ IsLine({kind})
  /\ \/ allowed /\ Ok(g) /\ commFifo' = Tail(commFifo)
     \/ refused /\ ParseError(Begun)
  /\ past' = OverHeld(past)
  /\ UNCHANGED <<script, client, master>>

(* checkNetNode: no default node was set and the line names none.          *)
NodeErr == ~gtwa.node

ParseSet == AnswerAtOnce("set_node", TRUE, FALSE, [Begun EXCEPT !.node = TRUE])
ParseNmt == AnswerAtOnce("nmt", ~NodeErr, TRUE, Begun)
ParseDeselect ==
  AnswerAtOnce("lss_off", master.command = "WAITING", master.command # "WAITING", Begun)

(* Commands that take time: the state machine answers them.                *)
GoOn(kinds, g) ==
  /\ IsLine(kinds)
  /\ Quiet([g EXCEPT !.state = Token.kind])
  /\ commFifo' = Tail(commFifo)
  /\ UNCHANGED <<script, client>>

ParseLss == GoOn({"lss"}, Begun) /\ UNCHANGED <<master, past>>

ParseScan ==
  /\ \E s \in BOOLEAN :
       GoOn(Scans, [Begun EXCEPT !.sub = 0, !.nid = 126, !.store = s /\ Token.kind = "lss_allnodes"])
  /\ master' = [master EXCEPT !.default = FALSE]
  /\ UNCHANGED past

ParseShown ==
  /\ GoOn(Silent, [Begun EXCEPT !.offset = 0, !.led = "none"])
  /\ past' = [past EXCEPT !.silent = Token.seq]
  /\ UNCHANGED master

ParseRead ==
  /\ IsLine({"read"})
  /\ IF ~NodeErr
     THEN /\ Quiet([Begun EXCEPT !.copied = FALSE, !.state = "READ"])
          /\ client' = [state |-> "UPLOAD", n |-> 0, left |-> OBJECT]
          /\ commFifo' = Tail(commFifo) /\ UNCHANGED past
     ELSE ParseError(Begun) /\ past' = OverHeld(past) /\ UNCHANGED client
  /\ UNCHANGED <<script, master>>

(* dataTypeScan: units of the value go to the buffer of the client.        *)
Scan(c, n) ==
  LET stop == SelectInSeq(c, LAMBDA tok : tok # Data)
      units == IF stop = 0 THEN Len(c) ELSE stop - 1
      m == IF units < SDO_BUF - n THEN units ELSE SDO_BUF - n
      full == n + m = SDO_BUF
      closed == ~full /\ stop # 0 /\ c[stop] = NL
  IN  [n |-> n + m, size |-> m, closed |-> closed,
       err |-> ~full /\ stop # 0 /\ c[stop] # NL,
       rest |-> SubSeq(c, (IF closed THEN m + 1 ELSE m) + 1, Len(c))]

ParseWrite ==
  /\ Parses /\ Token.t = "write"
  /\ LET s == Scan(Tail(commFifo), 0) IN
     IF NodeErr
     THEN ParseError(Begun) /\ past' = Refused /\ UNCHANGED client
     ELSE /\ client' = [state |-> "DOWNLOAD", n |-> s.n, left |-> 0]
          /\ IF s.err \/ s.size = 0
             THEN Error(Resting([Begun EXCEPT !.copied = ~s.closed])) /\ past' = Refused
                  /\ commFifo' = IF s.closed THEN s.rest ELSE Cleared(s.rest)
             ELSE Quiet([Begun EXCEPT !.copied = ~s.closed, !.timer = 0, !.state = "WRITE"])
                  /\ commFifo' = s.rest /\ UNCHANGED past
  /\ UNCHANGED <<script, master>>

ParseDone ==
  /\ gtwa.pc = "parse" /\ ~(gtwa.state = "IDLE" /\ CommSearch(commFifo))
  /\ Quiet(At(gtwa, IF gtwa.state = "IDLE" THEN "out" ELSE "state"))
  /\ UNCHANGED <<commFifo, script, client, master, past>>
-----------------------------------------------------------------------------
In(s) == gtwa.pc = "state" /\ gtwa.state = s

(* CO_SDOclientUpload: units come; idle, it has ended.                     *)
UploadStep ==
  IF client.state = "IDLE" THEN {<<"end", client>>}
  ELSE {<<"abort", [client EXCEPT !.state = "IDLE"]>>, <<"waiting", client>>} \union
       LET m == IF client.left < SDO_BUF - client.n THEN client.left ELSE SDO_BUF - client.n
           c == [client EXCEPT !.n = @ + m, !.left = @ - m]
       IN  {IF c.left = 0 THEN <<"end", [c EXCEPT !.state = "IDLE"]>> ELSE <<"full", c>>}

Upload ==
  /\ In("READ")
  /\ \E u \in UploadStep :
       /\ client' = u[2]
       /\ \/ u[1] = "waiting" /\ Quiet(At(gtwa, "out")) /\ UNCHANGED past
          \/ u[1] = "abort" /\ Error(Resting(gtwa)) /\ past' = OverHeld(past)
          \/ /\ u[1] \in {"full", "end"}
             /\ LET g == [gtwa EXCEPT !.pc = "read", !.ret = u[1], !.copied = TRUE]
                    head == <<<<g.seq, "head">>>>
                IN  IF gtwa.copied THEN Quiet(g) /\ UNCHANGED past
                    ELSE /\ gtwa' = Formed(g, head) /\ due' = due \o head
                         /\ past' = OverHeld(past) /\ UNCHANGED told
  /\ UNCHANGED <<commFifo, script, master>>

(* The loop that prints the buffer of the client; the last two bytes of    *)
(* respBuf, here a piece, are kept for the newline.                        *)
PrintData ==
  /\ gtwa.pc = "read"
  /\ LET room == RESP - 1 - gtwa.count
         m == IF client.n < room THEN client.n ELSE room
         last == gtwa.ret = "end" /\ client.n = m
         units == [i \in 1..m |-> <<gtwa.seq, "unit">>]
         pieces == IF last THEN Append(units, <<gtwa.seq, "end">>) ELSE units
         g == [gtwa EXCEPT !.buf = [i \in 1..RESP |->
                              IF i - gtwa.count \in DOMAIN pieces THEN pieces[i - gtwa.count] ELSE @[i]],
                           !.count = @ + Len(pieces), !.state = IF last THEN "IDLE" ELSE @]
     IN  \E c \in 0..g.count, connectionOK \in BOOLEAN :
           LET h == Taken(g, c) IN
           /\ due' = Unread(due \o pieces, c)
           /\ told' = IF last THEN Append(told, <<gtwa.seq, "ok">>) ELSE told
           /\ gtwa' = IF ~connectionOK THEN Resting(h)
                      ELSE At(h, IF h.hold \/ client.n = m THEN "out" ELSE "read")
           /\ client' = [client EXCEPT !.n = @ - m, !.state = IF connectionOK THEN @ ELSE "IDLE"]
           /\ past' = [past EXCEPT !.lapsed = @ \/ ~connectionOK]
  /\ UNCHANGED <<commFifo, script, master>>
-----------------------------------------------------------------------------
(* CO_SDOclientDownload: units go; idle, it has ended.                     *)
DownloadStep(n, abort, partial) ==
  IF client.state = "IDLE" THEN {<<"end", "IDLE", n>>}
  ELSE IF abort THEN {<<"abort", "IDLE", n>>}
  ELSE {<<"abort", "IDLE", n>>} \union {<<"waiting", "DOWNLOAD", k>> : k \in 0..n} \union
       (IF partial THEN {} ELSE {<<"end", "IDLE", 0>>})

Download(n, abort, partial, timer) ==
  \E d \in DownloadStep(n, abort, partial) :
    LET g == [gtwa EXCEPT !.copied = partial, !.timer = timer, !.pc = "out"] IN
    /\ client' = [client EXCEPT !.state = d[2], !.n = d[3]]
    /\ \/ d[1] = "waiting" /\ Quiet(g) /\ UNCHANGED past
       \/ d[1] = "end" /\ Ok(Resting(g)) /\ past' = OverHeld(past)
       \/ /\ d[1] = "abort"
          /\ Error([g EXCEPT !.state = IF partial THEN "WRITE_ABORTED" ELSE "IDLE"])
          /\ past' = [OverHeld(past) EXCEPT !.cut = @ \/ partial]

(* More of the value is fetched, unless all of it has come; when there is  *)
(* too little to go on with, the gateway waits for it, a limited time.     *)
Write ==
  /\ In("WRITE")
  /\ LET s == IF gtwa.copied THEN Scan(commFifo, client.n)
              ELSE [n |-> client.n, closed |-> TRUE, err |-> FALSE, rest |-> commFifo]
         partial == gtwa.copied /\ ~s.closed
         low == partial /\ s.n < DL_LOW
         late == low /\ gtwa.timer > WAIT
         timer == IF low /\ ~late THEN gtwa.timer + 1 ELSE gtwa.timer
     IN  /\ commFifo' = IF s.err THEN Cleared(s.rest) ELSE s.rest
         /\ IF low /\ ~late /\ ~s.err
            THEN /\ Quiet([gtwa EXCEPT !.copied = partial, !.timer = timer, !.pc = "out"])
                 /\ client' = [client EXCEPT !.n = s.n] /\ UNCHANGED past
            ELSE Download(s.n, s.err \/ late, partial, timer)
  /\ UNCHANGED <<script, master>>

(* What is still coming of the value is thrown away, until nothing comes.  *)
Purge ==
  /\ In("WRITE_ABORTED")
  /\ LET s == Scan(commFifo, client.n)
     IN  /\ commFifo' = IF s.err THEN Cleared(s.rest) ELSE s.rest
         /\ client' = [client EXCEPT !.n = 0]
         /\ Quiet([gtwa EXCEPT !.pc = "out", !.copied = ~s.closed,
                               !.state = IF s.n = 0 \/ s.closed THEN "IDLE" ELSE @])
  /\ UNCHANGED <<script, master, past>>
-----------------------------------------------------------------------------
(* A confirmed command of the LSS master; it waits for the slave, or has   *)
(* one of the results.                                                     *)
MasterStep(op, results) ==
  IF master.command \notin {"WAITING", op} THEN {<<"invalid", master.command>>}
  ELSE {<<"wait", op>>} \union {<<r, "WAITING">> : r \in results}

Lss ==
  /\ In("lss")
  /\ \E r \in MasterStep("lss", {"ok", "failed"}) :
       /\ master' = [master EXCEPT !.command = r[2]]
       /\ \/ r[1] = "wait" /\ Quiet(At(gtwa, "out")) /\ UNCHANGED past
          \/ r[1] = "ok" /\ Ok(Resting(gtwa)) /\ past' = OverHeld(past)
          \/ r[1] \in {"failed", "invalid"} /\ Error(Resting(gtwa)) /\ past' = OverHeld(past)
  /\ UNCHANGED <<commFifo, script, client>>

Fastscan ==
  /\ In("_lss_fastscan")
  /\ \E r \in MasterStep("scan", {"ok", "failed"}) :
       /\ master' = [command |-> r[2], default |-> r[1] # "wait"]
       /\ \/ r[1] = "wait" /\ Quiet(At(gtwa, "out")) /\ UNCHANGED past
          \/ r[1] = "ok" /\ Ok(Resting(gtwa)) /\ past' = OverHeld(past)
          \/ r[1] \in {"failed", "invalid"} /\ Error(Resting(gtwa)) /\ past' = OverHeld(past)
  /\ UNCHANGED <<commFifo, script, client>>

(* lss_allnodes: scan, set the node-ID, store it, deselect, and again with *)
(* the next node-ID; the sub-states follow one another in one call.        *)
AllNodes(sub, op, results) ==
  /\ In("lss_allnodes") /\ gtwa.sub = sub
  /\ \E r \in MasterStep(op, results) :
       LET found == r[1] = "found" \/ (r[1] = "ok" /\ sub > 0) IN
       /\ master' = [command |-> r[2], default |-> master.default \/ (sub = 0 /\ r[1] # "wait")]
       /\ \/ r[1] = "wait" /\ Quiet(At(gtwa, "out")) /\ UNCHANGED past
          \/ /\ found /\ UNCHANGED past
             /\ Quiet([gtwa EXCEPT !.sub = IF sub = 1 /\ ~gtwa.store THEN 3 ELSE @ + 1])
          \/ r[1] = "ok" /\ ~found /\ Ok(Resting(gtwa)) /\ past' = OverHeld(past)
          \/ r[1] \in {"failed", "invalid"} /\ Error(Resting(gtwa)) /\ past' = OverHeld(past)
  /\ UNCHANGED <<commFifo, script, client>>

Deselect ==
  /\ In("lss_allnodes") /\ gtwa.sub = 3
  /\ IF master.command # "WAITING" THEN Error(Resting(gtwa)) /\ UNCHANGED master
     ELSE IF gtwa.nid < 127
     THEN /\ Respond([gtwa EXCEPT !.nid = @ + 1, !.sub = 0, !.pc = "out"], <<<<gtwa.nid, "assigned">>>>)
          /\ master' = [master EXCEPT !.default = FALSE]
     ELSE Ok(Resting(gtwa)) /\ UNCHANGED master
  /\ past' = OverHeld(past)
  /\ UNCHANGED <<commFifo, script, client>>
-----------------------------------------------------------------------------
(* log and help go on until the application takes no more.                 *)
Log ==
  /\ In("log")
  /\ LET m == IF gtwa.log < RESP THEN gtwa.log ELSE RESP IN
     \E c \in 0..m :
       LET pieces == [i \in 1..m |-> <<0, "log">>]
           h == Taken(Formed([gtwa EXCEPT !.log = @ - m], pieces), c)
       IN  /\ gtwa' = IF h.log = 0 THEN Resting(h) ELSE At(h, IF h.hold THEN "out" ELSE "state")
           /\ due' = Unread(due \o pieces, c)
  /\ past' = OverHeld(past)
  /\ UNCHANGED <<commFifo, script, client, master, told>>

Help ==
  /\ In("help")
  /\ LET m == IF HELP - gtwa.offset < RESP THEN HELP - gtwa.offset ELSE RESP IN
     \E c \in 0..m :
       LET pieces == [i \in 1..m |-> <<gtwa.offset + i, "help">>]
           h == Taken(Formed([gtwa EXCEPT !.offset = @ + m], pieces), c)
       IN  /\ gtwa' = IF h.offset = HELP THEN Resting(h) ELSE At(h, IF h.hold THEN "out" ELSE "state")
           /\ due' = Unread(due \o pieces, c)
  /\ past' = OverHeld(past)
  /\ UNCHANGED <<commFifo, script, client, master, told>>

(* The LEDs are shown whenever they change, until the next line comes.     *)
Led ==
  /\ In("led")
  /\ \E i \in (IF CommSearch(commFifo) THEN {"stop"} ELSE {"red", "green"}) :
       LET g == [gtwa EXCEPT !.pc = "out", !.led = i, !.state = IF i = "stop" THEN "IDLE" ELSE @] IN
       IF i = gtwa.led THEN Quiet(g) /\ UNCHANGED past
       ELSE Respond(g, <<<<0, i>>>>) /\ past' = OverHeld(past)
  /\ UNCHANGED <<commFifo, script, client, master>>

CO_GTWA_process ==
  \/ Disable \/ Call
  \/ ParseEmpty \/ ParseBad \/ ParseSet \/ ParseNmt \/ ParseDeselect
  \/ ParseLss \/ ParseScan \/ ParseShown \/ ParseRead \/ ParseWrite \/ ParseDone
  \/ Upload \/ PrintData \/ Write \/ Purge
  \/ Lss \/ Fastscan \/ Log \/ Help \/ Led
  \/ AllNodes(0, "scan", {"ok", "found", "failed"})
  \/ AllNodes(1, "node", {"ok", "failed"})
  \/ AllNodes(2, "store", {"ok", "failed"})
  \/ Deselect

GatewayNext == CO_GTWA_write \/ CO_GTWA_log_print \/ CO_GTWA_process
-----------------------------------------------------------------------------
(* The buffers keep their bounds; what is held lies inside respBuf unless  *)
(* a response was formed over another.                                     *)
GatewayTypeOK ==
  /\ gtwa.count \in 0..RESP /\ gtwa.off \in Nat /\ gtwa.offset \in 0..HELP
  /\ past.overrun \/ gtwa.off + gtwa.count <= RESP
  /\ past.overrun \/ gtwa.pc = "read" \/ gtwa.hold = (gtwa.count > 0)
  /\ Len(commFifo) <= COMM /\ client.n \in 0..SDO_BUF

(* What the application has still to read of respBuf is what it has to get *)
(* of the responses: it gets them whole and in order, however it takes     *)
(* them.                                                                   *)
HeldIsWhole == Slice(gtwa) = due

(* The same, unless a response is formed while another is held.            *)
TakenInParts == ~past.overrun => HeldIsWhole

(* A command line gets one final response, in the order of the lines, and  *)
(* not before it was read: unless the value of a write was still coming    *)
(* when the write was given up or the gateway disabled; then the rest may  *)
(* be taken for a command, or take a command with it.                      *)
AnsweredOnce ==
  LET Answers(s) == {i \in DOMAIN told : told[i][1] = s} IN
  ~past.cut =>
    /\ \A i \in 2..Len(told) : told[i - 1][1] < told[i][1]
    /\ \A i \in DOMAIN told : told[i][1] <= gtwa.seq
    /\ gtwa.state \notin {"IDLE", "WRITE_ABORTED"} => Answers(gtwa.seq) = {}
    /\ gtwa.state = "IDLE" /\ gtwa.seq \notin {0, past.silent} /\ ~past.lapsed =>
         Answers(gtwa.seq) # {}

(* Between commands the LSS master is at rest and has its default          *)
(* time-out, unless a scan was refused for an argument behind its time-out *)
(* or the gateway was disabled.                                            *)
MasterLeftClean ==
  gtwa.state \notin ({"lss"} \union Scans) /\ ~past.dirty =>
    master.command = "WAITING" /\ master.default
=============================================================================
