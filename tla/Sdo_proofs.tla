----------------------------- MODULE Sdo_proofs -----------------------------
(***************************************************************************)
(* Proofs about SDO: what the client reports as downloaded is stored, and  *)
(* what it reports as uploaded is what the object holds.  The invariant    *)
(* says how the state of the client, that of the server, the request under *)
(* way and the response under way belong together; there is at most one of *)
(* each, as the client waits for the answer to one before it sends the     *)
(* next.  Segments of a block and their acknowledgements may come in any   *)
(* number, and old ones among them: only the checksum at the end of the    *)
(* block relates them to the data.                                         *)
(***************************************************************************)
EXTENDS Sdo, SequenceTheorems, WellFoundedInduction, TLAPS

(* Sequences of whatever they hold.                                        *)
IsSeq(x) == x \in Seq({x[i] : i \in DOMAIN x})

-----------------------------------------------------------------------------
(* Frames.  Requests and responses that open or carry on a transfer come   *)
(* one at a time; the others may come in any number, and are only known by *)
(* their form.                                                             *)
Requests == {"dlInit", "dlSeg", "dlBlkInit", "dlBlkEnd", "ulInit", "ulSeg", "ulBlkInit", "ulBlkStart"}
Responses == {"dlInitRsp", "dlSegRsp", "dlBlkInitRsp", "dlBlkEndRsp", "ulInitRsp", "ulSegRsp",
              "ulBlkInitRsp", "ulBlkEnd"}
FrameOk(f) ==
  /\ f.cs \in {"dlSub", "dlSeg", "ulSub", "ulSegRsp"} => IsSeq(f.data) /\ f.last \in BOOLEAN
  /\ f.cs \in {"ulBlkAck", "ulBlkInit"} => f.blksize \in Nat \ {0}
  /\ f.cs \in {"ulBlkAck", "dlBlkAck"} => f.ackseq \in Nat

(* Of the frames in S, mailbox and channel hold f, or none if f is None.   *)
Carries(S, full, rx, chan, f) ==
  \/ f = None /\ ~(full /\ rx.cs \in S) /\ \A i \in DOMAIN chan : chan[i].cs \notin S
  \/ f = rx /\ full /\ rx.cs \in S /\ \A i \in DOMAIN chan : chan[i].cs \notin S
  \/ /\ ~(full /\ rx.cs \in S)
     /\ \E i \in DOMAIN chan :
          f = chan[i] /\ f.cs \in S /\ \A j \in DOMAIN chan : chan[j].cs \in S => j = i

(* A mailbox and a channel hold frames of their form.                      *)
BusOk(S, full, rx, chan) ==
  /\ IsSeq(chan) /\ full \in BOOLEAN
  /\ full => FrameOk(rx)
  /\ \A i \in DOMAIN chan : FrameOk(chan[i])
Held(full, rx, chan) == {None} \cup {chan[i] : i \in DOMAIN chan} \cup (IF full THEN {rx} ELSE {})

-----------------------------------------------------------------------------
(* What the object, the buffers and the frames hold of a transfer.         *)
Stored(o, t) ==
  /\ SubSeq(o.value, 1, Len(t.data)) = t.data
  /\ o.string \/ Len(t.data) = LENGTH
Rcvd(c, t) == t.data \o c.fifo
Uploaded(o) == {SubSeq(o.value, 1, n) : n \in {m \in 1..LENGTH : Ends(o, m)}}
NoEnd(o, n) == o.string => \A i \in 1..n : o.value[i] # Zero
Got(s, o) == SubSeq(o.value, 1, s.off) \o s.buf
Sent(s, o) == SubSeq(o.value, 1, s.off - Len(s.buf) + s.rd)


(* A server that rests will not answer unless it is asked; a transfer that *)
(* has its last frame under way rests.                                     *)
At(s, S) == s.state \in S
Rests(s) == \/ s.state \in {"IDLE", "ABORT", "UPLOAD_BLK_END_CRSP"}
            \/ s.state = "UPLOAD_BLK_END_SREQ" /\ s.pc = "sent"


(* The states of the kinds of transfer.                                    *)
BlockIn == {"DOWNLOAD_BLK_SUBBLOCK_REQ", "DOWNLOAD_BLK_SUBBLOCK_RSP", "DOWNLOAD_BLK_END_REQ"}
SegmentsIn == {"DOWNLOAD_SEGMENT_REQ", "DOWNLOAD_SEGMENT_RSP"}
BlockOut == {"UPLOAD_BLK_SUBBLOCK_SREQ", "UPLOAD_BLK_SUBBLOCK_CRSP", "UPLOAD_BLK_END_SREQ"}
Out == BlockOut \cup {"UPLOAD_BLK_INITIATE_RSP", "UPLOAD_BLK_INITIATE_REQ2",
                      "UPLOAD_INITIATE_RSP", "UPLOAD_SEGMENT_REQ", "UPLOAD_SEGMENT_RSP"}
Fresh == {"UPLOAD_BLK_INITIATE_RSP", "UPLOAD_BLK_INITIATE_REQ2", "UPLOAD_INITIATE_RSP"}

(* The server by itself.                                                   *)
Steps(s) ==
  /\ s.pc \in {"out", "handle", "send", "sent"}
  /\ s.pc = "sent" => s.state = "UPLOAD_BLK_END_SREQ"
  /\ s.pc \in {"handle", "send"} =>
       \/ s.seen = s.state
       \/ s.seen = "DOWNLOAD_BLK_SUBBLOCK_REQ" /\ s.state = "DOWNLOAD_BLK_SUBBLOCK_RSP"
       \/ s.seen = "UPLOAD_BLK_END_CRSP" /\ s.state = "IDLE"
  /\ s.pc = "handle" /\ s.isNew => s.rxNew

(* A download: the object holds what the server has written, up to off.    *)
Reads(s, o) ==
  /\ At(s, {"DOWNLOAD_INITIATE_RSP", "DOWNLOAD_BLK_INITIATE_RSP"}) => s.off = 0 /\ s.len = LENGTH
  /\ At(s, SegmentsIn \cup BlockIn) =>
       s.len = LENGTH /\ s.off \in 0..LENGTH /\ IsSeq(s.buf) /\ s.sizeTran \in Nat
  /\ At(s, BlockIn) => s.crc = SubSeq(o.value, 1, s.off) /\ s.seqno \in Nat
  /\ s.state = "DOWNLOAD_BLK_END_REQ" => s.finished

(* An upload: the buffer holds the units read ahead of off, rd of them     *)
(* sent.                                                                   *)
Ahead(s, o) ==
  /\ s.off \in 0..LENGTH /\ Len(s.buf) \in 0..s.off /\ s.rd \in 0..Len(s.buf) /\ Len(s.buf) <= CAPACITY
  /\ s.crc = SubSeq(o.value, 1, s.off)
  /\ s.buf = SubSeq(o.value, s.off - Len(s.buf) + 1, s.off)
  /\ IF s.finished THEN s.off > 0 /\ Ends(o, s.off) ELSE NoEnd(o, s.off)
Sends(s, o) ==
  (At(s, Out) /\ s.pc # "sent") =>
    /\ Ahead(s, o)
    /\ At(s, Fresh) => s.rd = 0 /\ s.off = Len(s.buf) /\ s.off > 0
    /\ (s.state = "UPLOAD_INITIATE_RSP" /\ s.sizeInd = 1) => Ends(o, s.off)
    /\ At(s, {"UPLOAD_BLK_SUBBLOCK_SREQ", "UPLOAD_BLK_SUBBLOCK_CRSP"}) => s.seqno \in 0..s.rd
    /\ At(s, {"UPLOAD_BLK_SUBBLOCK_SREQ"}) => s.rd < Len(s.buf)
    /\ At(s, {"UPLOAD_BLK_END_SREQ"}) => s.finished
Core(s, o) ==
  /\ DOMAIN s = DOMAIN Idle /\ s.finished \in BOOLEAN /\ s.isNew \in BOOLEAN
  /\ s.state \in CO_SDO_state_t \ {"DOWNLOAD_INITIATE_REQ", "UPLOAD_INITIATE_REQ",
       "DOWNLOAD_BLK_INITIATE_REQ", "UPLOAD_BLK_INITIATE_REQ"}
  /\ Reads(s, o) /\ Sends(s, o)
ServerOk(s, o) == Core(s, o) /\ Steps(s)

(* The client by itself.                                                   *)
Downloads == {"DOWNLOAD_INITIATE_REQ", "DOWNLOAD_INITIATE_RSP", "DOWNLOAD_SEGMENT_REQ",
  "DOWNLOAD_SEGMENT_RSP", "DOWNLOAD_BLK_INITIATE_REQ", "DOWNLOAD_BLK_INITIATE_RSP",
  "DOWNLOAD_BLK_SUBBLOCK_REQ", "DOWNLOAD_BLK_SUBBLOCK_RSP", "DOWNLOAD_BLK_END_REQ",
  "DOWNLOAD_BLK_END_RSP"}
Uploads == {"UPLOAD_INITIATE_REQ", "UPLOAD_INITIATE_RSP", "UPLOAD_SEGMENT_REQ",
  "UPLOAD_SEGMENT_RSP", "UPLOAD_BLK_INITIATE_REQ", "UPLOAD_BLK_INITIATE_RSP",
  "UPLOAD_BLK_INITIATE_REQ2", "UPLOAD_BLK_SUBBLOCK_SREQ", "UPLOAD_BLK_SUBBLOCK_CRSP",
  "UPLOAD_BLK_END_SREQ", "UPLOAD_BLK_END_CRSP"}

(* A download: the buffer holds what the server has not confirmed.         *)
Gives(c, t) ==
  /\ t.kind \in {"download", "download_block"}
  /\ c.state = "DOWNLOAD_INITIATE_REQ" =>
       c.fifo = t.data /\ c.sizeInd \in {0, Len(t.data)} /\ ~c.finished
  /\ c.state = "DOWNLOAD_INITIATE_RSP" =>
       (~c.finished => c.fifo = t.data /\ c.fifo # <<>>)
  /\ c.state = "DOWNLOAD_SEGMENT_REQ" => c.fifo # <<>> /\ ~c.finished
  /\ c.state = "DOWNLOAD_SEGMENT_RSP" => (c.finished <=> c.fifo = <<>>)
  /\ c.state \in {"DOWNLOAD_BLK_INITIATE_REQ", "DOWNLOAD_BLK_INITIATE_RSP"} =>
       c.fifo = t.data /\ c.fifo # <<>> /\ ~c.finished
  /\ c.state \in {"DOWNLOAD_BLK_SUBBLOCK_REQ", "DOWNLOAD_BLK_SUBBLOCK_RSP"} =>
       /\ c.crc \o c.fifo = t.data /\ IsSeq(c.crc)
       /\ c.alt \in 0..Len(c.fifo) /\ c.seqno = c.alt
       /\ c.finished <=> c.alt = Len(c.fifo)
  /\ c.state = "DOWNLOAD_BLK_SUBBLOCK_REQ" => ~c.finished
  /\ c.state \in {"DOWNLOAD_BLK_END_REQ", "DOWNLOAD_BLK_END_RSP"} => c.crc = t.data

(* An upload: what has come is the checksum, too, from the first segment   *)
(* of a block on.                                                          *)
Takes(c, t) ==
  /\ t.kind \in {"upload", "upload_block"}
  /\ c.state \in {"UPLOAD_INITIATE_REQ", "UPLOAD_INITIATE_RSP", "UPLOAD_BLK_INITIATE_REQ",
       "UPLOAD_BLK_INITIATE_RSP", "UPLOAD_BLK_INITIATE_REQ2"} => t.data = <<>> /\ c.fifo = <<>>
  /\ c.state \in {"UPLOAD_BLK_INITIATE_RSP", "UPLOAD_BLK_INITIATE_REQ2"} => c.blksize \in Nat \ {0}
  /\ c.state \in {"UPLOAD_BLK_SUBBLOCK_SREQ", "UPLOAD_BLK_SUBBLOCK_CRSP", "UPLOAD_BLK_END_SREQ"} =>
       c.crc = Rcvd(c, t) /\ IsSeq(c.tail) /\ c.seqno \in Nat /\ c.blksize \in Nat \ {0}

(* Its result is not known before it is idle.                              *)
ClientOk(c, t) ==
  /\ DOMAIN c = DOMAIN Resting /\ c.finished \in BOOLEAN
  /\ IsSeq(c.fifo) /\ IsSeq(t.data) /\ IsSeq(c.tail)
  /\ t.result = (IF c.state = "IDLE" THEN "ok" ELSE "busy")
  /\ \/ c.state = "IDLE"
     \/ c.state \in Downloads /\ Gives(c, t)
     \/ c.state \in Uploads /\ Takes(c, t)

-----------------------------------------------------------------------------
(* How the states of the two, the request q and the response p under way   *)
(* belong together.                                                        *)
Silence(q, p) == q = None /\ p = None
Lost(q, p, s, S) == Silence(q, p) /\ (Rests(s) \/ At(s, S))
Transferred(c, o, t) ==
  /\ t.kind \in {"download", "download_block"} => Stored(o, t)
  /\ t.kind \in {"upload", "upload_block"} => Rcvd(c, t) \in Uploaded(o)

(* A request to download has been sent: it or its answer is lost, or the   *)
(* one or the other is under way.                                          *)
DownloadInitiated(c, q, p, s, o, t) ==
  \/ Lost(q, p, s, {"DOWNLOAD_SEGMENT_REQ"})
  \/ /\ q.cs = "dlInit" /\ p = None /\ Rests(s)
     /\ q.expedited = c.finished /\ (c.finished => q.data = t.data /\ Len(t.data) <= 1)
  \/ /\ Silence(q, p) /\ s.state = "DOWNLOAD_INITIATE_RSP"
     /\ s.finished = c.finished /\ (c.finished => Stored(o, t))
  \/ /\ q = None /\ p.cs = "dlInitRsp"
     /\ c.finished => Rests(s) /\ Stored(o, t)
     /\ ~c.finished => Rests(s) \/ (s.state = "DOWNLOAD_SEGMENT_REQ" /\ Got(s, o) = <<>>)

(* So has a segment: what the server has got, what is under way and what   *)
(* the buffer holds make up the data.                                      *)
DownloadSegmented(c, q, p, s, o, t) ==
  \/ Lost(q, p, s, {"DOWNLOAD_SEGMENT_REQ"})
  \/ /\ q.cs = "dlSeg" /\ p = None /\ q.last = c.finished
     /\ Rests(s) \/ (s.state = "DOWNLOAD_SEGMENT_REQ" /\ (Got(s, o) \o q.data) \o c.fifo = t.data)
  \/ /\ Silence(q, p) /\ s.state = "DOWNLOAD_SEGMENT_RSP"
     /\ s.finished = c.finished
     /\ IF c.finished THEN Stored(o, t) ELSE Got(s, o) \o c.fifo = t.data
  \/ /\ q = None /\ p.cs = "dlSegRsp"
     /\ c.finished => Rests(s) /\ Stored(o, t)
     /\ ~c.finished =>
          Rests(s) \/ (s.state = "DOWNLOAD_SEGMENT_REQ" /\ Got(s, o) \o c.fifo = t.data)

(* A block download has been asked for; its checksum will tell its data.   *)
DownloadBlkInitiated(q, p, s) ==
  \/ Lost(q, p, s, BlockIn)
  \/ q.cs = "dlBlkInit" /\ p = None /\ Rests(s)
  \/ Silence(q, p) /\ s.state = "DOWNLOAD_BLK_INITIATE_RSP"
  \/ q = None /\ p.cs = "dlBlkInitRsp" /\ (Rests(s) \/ At(s, BlockIn))

(* The checksum that ends it is that of the data.                          *)
DownloadBlkEnded(q, p, s, o, t) ==
  \/ Lost(q, p, s, BlockIn)
  \/ q.cs = "dlBlkEnd" /\ q.crc = t.data /\ p = None /\ (Rests(s) \/ At(s, BlockIn))
  \/ Silence(q, p) /\ s.state = "DOWNLOAD_BLK_END_RSP" /\ Stored(o, t)
  \/ q = None /\ p.cs = "dlBlkEndRsp" /\ Rests(s) /\ Stored(o, t)

(* The answers to the opening of an upload.                                *)
InitRsp(q, p, s, o) ==
  /\ q = None /\ p.cs = "ulInitRsp"
  /\ p.expedited \in BOOLEAN
  /\ p.expedited => Rests(s) /\ p.data \in Uploaded(o)
  /\ ~p.expedited => Rests(s) \/ (s.state = "UPLOAD_SEGMENT_REQ" /\ Sent(s, o) = <<>>)

(* A request to upload has been sent.                                      *)
UploadInitiated1(q, p, s, o) ==
  \/ Lost(q, p, s, {"UPLOAD_SEGMENT_REQ", "UPLOAD_INITIATE_RSP"})
  \/ q.cs = "ulInit" /\ p = None /\ Rests(s)
  \/ InitRsp(q, p, s, o)

(* So has the request of a segment: the client has what the server has     *)
(* sent.                                                                   *)
UploadSegmented(c, q, p, s, o, t) ==
  \/ Lost(q, p, s, {"UPLOAD_SEGMENT_REQ"})
  \/ /\ q.cs = "ulSeg" /\ p = None
     /\ Rests(s) \/ (s.state = "UPLOAD_SEGMENT_REQ" /\ Rcvd(c, t) = Sent(s, o))
  \/ Silence(q, p) /\ s.state = "UPLOAD_SEGMENT_RSP" /\ Rcvd(c, t) = Sent(s, o)
  \/ /\ q = None /\ p.cs = "ulSegRsp"
     /\ p.last => Rests(s) /\ Rcvd(c, t) \o p.data \in Uploaded(o)
     /\ ~p.last =>
          Rests(s) \/ (s.state = "UPLOAD_SEGMENT_REQ" /\ Rcvd(c, t) \o p.data = Sent(s, o))

(* A request of a block upload may be answered by an upload.               *)
UploadBlkInitiated1(q, p, s, o) ==
  \/ Lost(q, p, s, {"UPLOAD_SEGMENT_REQ", "UPLOAD_INITIATE_RSP", "UPLOAD_BLK_INITIATE_RSP",
                    "UPLOAD_BLK_INITIATE_REQ2"})
  \/ q.cs = "ulBlkInit" /\ p = None /\ Rests(s)
  \/ InitRsp(q, p, s, o)
  \/ q = None /\ p.cs = "ulBlkInitRsp" /\ (Rests(s) \/ s.state = "UPLOAD_BLK_INITIATE_REQ2")

(* The server ends a block upload with the checksum of what the object     *)
(* holds.                                                                  *)
UploadBlock(q, p, s, o) ==
  \/ Lost(q, p, s, BlockOut \cup {"UPLOAD_BLK_INITIATE_REQ2"})
  \/ q.cs = "ulBlkStart" /\ p = None /\ (Rests(s) \/ s.state = "UPLOAD_BLK_INITIATE_REQ2")
  \/ q = None /\ p.cs = "ulBlkEnd" /\ Rests(s) /\ p.crc \in Uploaded(o)

(* In each state of the client.                                            *)
Linked(c, q, p, s, o, t) ==
  /\ c.state \in {"IDLE", "DOWNLOAD_INITIATE_REQ", "DOWNLOAD_BLK_INITIATE_REQ",
                  "UPLOAD_INITIATE_REQ", "UPLOAD_BLK_INITIATE_REQ", "UPLOAD_BLK_END_CRSP"} =>
       Silence(q, p) /\ Rests(s)
  /\ c.state \in {"IDLE", "UPLOAD_BLK_END_CRSP"} => Transferred(c, o, t)
  /\ c.state = "DOWNLOAD_INITIATE_RSP" => DownloadInitiated(c, q, p, s, o, t)
  /\ c.state = "DOWNLOAD_SEGMENT_REQ" =>
       Silence(q, p) /\ (Rests(s) \/ (s.state = "DOWNLOAD_SEGMENT_REQ" /\ Got(s, o) \o c.fifo = t.data))
  /\ c.state = "DOWNLOAD_SEGMENT_RSP" => DownloadSegmented(c, q, p, s, o, t)
  /\ c.state = "DOWNLOAD_BLK_INITIATE_RSP" => DownloadBlkInitiated(q, p, s)
  /\ c.state \in {"DOWNLOAD_BLK_SUBBLOCK_REQ", "DOWNLOAD_BLK_SUBBLOCK_RSP", "DOWNLOAD_BLK_END_REQ"} =>
       Lost(q, p, s, BlockIn)
  /\ c.state = "DOWNLOAD_BLK_END_RSP" => DownloadBlkEnded(q, p, s, o, t)
  /\ c.state = "UPLOAD_INITIATE_RSP" => UploadInitiated1(q, p, s, o)
  /\ c.state = "UPLOAD_SEGMENT_REQ" =>
       Silence(q, p) /\ (Rests(s) \/ (s.state = "UPLOAD_SEGMENT_REQ" /\ Rcvd(c, t) = Sent(s, o)))
  /\ c.state = "UPLOAD_SEGMENT_RSP" => UploadSegmented(c, q, p, s, o, t)
  /\ c.state = "UPLOAD_BLK_INITIATE_RSP" => UploadBlkInitiated1(q, p, s, o)
  /\ c.state = "UPLOAD_BLK_INITIATE_REQ2" => Lost(q, p, s, {"UPLOAD_BLK_INITIATE_REQ2"})
  /\ c.state \in {"UPLOAD_BLK_SUBBLOCK_SREQ", "UPLOAD_BLK_SUBBLOCK_CRSP", "UPLOAD_BLK_END_SREQ"} =>
       UploadBlock(q, p, s, o)

(* A transfer that has not failed, and was not started on the rest of one  *)
(* that had.                                                               *)
Live == ~late /\ transfer.result \in {"busy", "ok"} /\ cli.state # "ABORT"

(* The frames on the bus; the client has sent no abort.                    *)
BusInv ==
  /\ BusOk(Requests, srv.rxNew, srv.rx, toServer) /\ BusOk(Responses, cli.rxNew, cli.rx, toClient)
  /\ \A i \in DOMAIN toServer : toServer[i].cs # "abort"

(* At most one request and one response are under way, and fit the states. *)
LinkInv ==
  \E q \in Held(srv.rxNew, srv.rx, toServer), p \in Held(cli.rxNew, cli.rx, toClient) :
    /\ Carries(Requests, srv.rxNew, srv.rx, toServer, q)
    /\ Carries(Responses, cli.rxNew, cli.rx, toClient, p)
    /\ Linked(cli, q, p, srv, od, transfer)

(* The object has its units, whatever it has been written with.            *)
Whole(o) == o = [string |-> o.string, value |-> [i \in 1..LENGTH |-> o.value[i]]] /\ o.string \in BOOLEAN
Joint == ServerOk(srv, od) /\ ClientOk(cli, transfer) /\ BusInv /\ LinkInv

(* The records keep their fields in a transfer that has failed, too.       *)
Recorded(s) == s = [x \in DOMAIN s |-> s[x]]
Formed ==
  /\ Recorded(srv) /\ DOMAIN cli = DOMAIN Resting
  /\ DOMAIN transfer = {"n", "kind", "data", "result"} /\ transfer.n \in Nat
  /\ cli.state = "ABORT" => transfer.result # "ok"

(* The inductive invariant.  A transfer that fails leaves nothing but its  *)
(* form; when it has ended well, or the bus and the server are at rest,    *)
(* the next one starts from what it needs.                                 *)
SdoInv == Whole(od) /\ Formed /\ (Live => Joint)
-----------------------------------------------------------------------------
(* Sequences.                                                              *)

(* What a sequence is, whatever it holds.                                  *)
LEMMA SeqIs ==
  ASSUME NEW x
  PROVE  /\ IsSeq(x) => /\ Len(x) \in Nat /\ DOMAIN x = 1..Len(x) /\ x = [i \in 1..Len(x) |-> x[i]]
                        /\ (x = <<>> <=> Len(x) = 0)
         /\ \A n \in Nat : x = [i \in 1..n |-> x[i]] => IsSeq(x) /\ Len(x) = n
         /\ \A S : x \in Seq(S) => IsSeq(x)
<1> DEFINE R == {x[i] : i \in DOMAIN x}
<1>1. IsSeq(x) => /\ Len(x) \in Nat /\ DOMAIN x = 1..Len(x) /\ x = [i \in 1..Len(x) |-> x[i]]
                  /\ (x = <<>> <=> Len(x) = 0)
  <2> SUFFICES ASSUME IsSeq(x) PROVE /\ Len(x) \in Nat /\ DOMAIN x = 1..Len(x)
                                     /\ x = [i \in 1..Len(x) |-> x[i]] /\ (x = <<>> <=> Len(x) = 0)
    OBVIOUS
  <2>1. x \in Seq(R)
    BY DEF IsSeq
  <2>2. Len(x) \in Nat /\ DOMAIN x = 1..Len(x) /\ x \in [1..Len(x) -> R]
    BY <2>1, LenProperties
  <2> QED
    BY <2>1, <2>2, EmptySeq
<1>2. \A n \in Nat : x = [i \in 1..n |-> x[i]] => IsSeq(x) /\ Len(x) = n
  <2> SUFFICES ASSUME NEW n \in Nat, x = [i \in 1..n |-> x[i]] PROVE IsSeq(x) /\ Len(x) = n
    OBVIOUS
  <2>1. x \in [1..n -> R]
    OBVIOUS
  <2>2. x \in Seq(R)
    BY <2>1, SeqDef
  <2>3. Len(x) \in Nat /\ DOMAIN x = 1..Len(x) /\ DOMAIN x = 1..n
    BY <2>1, <2>2, LenProperties
  <2> QED
    BY <2>2, <2>3 DEF IsSeq
<1>3. \A S : x \in Seq(S) => IsSeq(x)
  <2> SUFFICES ASSUME NEW S, x \in Seq(S) PROVE IsSeq(x)
    OBVIOUS
  <2>1. Len(x) \in Nat /\ x \in [1..Len(x) -> S]
    BY LenProperties
  <2> QED
    BY <1>2, <2>1
<1> QED
  BY <1>1, <1>2, <1>3

(* What a concatenation holds.                                             *)
LEMMA ConcatIs ==
  ASSUME NEW x, NEW y, IsSeq(x), IsSeq(y)
  PROVE  /\ IsSeq(x \o y) /\ Len(x \o y) = Len(x) + Len(y)
         /\ \A i \in 1..Len(x) : (x \o y)[i] = x[i]
         /\ \A i \in 1..Len(y) : (x \o y)[Len(x) + i] = y[i]
<1> DEFINE S == {x[i] : i \in DOMAIN x} \cup {y[i] : i \in DOMAIN y}
<1>1. Len(x) \in Nat /\ Len(y) \in Nat /\ x \in [1..Len(x) -> S] /\ y \in [1..Len(y) -> S]
  BY SeqIs
<1>2. x \in Seq(S) /\ y \in Seq(S)
  BY <1>1, SeqDef
<1> HIDE DEF S
<1>3. /\ x \o y \in Seq(S) /\ Len(x \o y) = Len(x) + Len(y)
      /\ \A i \in 1..Len(x) + Len(y) : (x \o y)[i] = IF i <= Len(x) THEN x[i] ELSE y[i - Len(x)]
  BY <1>2, ConcatProperties
<1>4. ASSUME NEW i \in 1..Len(y) PROVE (x \o y)[Len(x) + i] = y[i]
  BY <1>1, <1>3
<1>5. IsSeq(x \o y)
  BY <1>3, SeqIs
<1>6. ASSUME NEW i \in 1..Len(x) PROVE (x \o y)[i] = x[i]
  BY <1>1, <1>3
<1> QED
  BY <1>3, <1>4, <1>5, <1>6

(* What a part of a sequence holds.                                        *)
LEMMA SubIs ==
  ASSUME NEW x, IsSeq(x), NEW m \in 1..Len(x) + 1, NEW n \in (m - 1)..Len(x)
  PROVE  /\ IsSeq(SubSeq(x, m, n)) /\ Len(SubSeq(x, m, n)) = n - m + 1
         /\ \A i \in 1..(n - m + 1) : SubSeq(x, m, n)[i] = x[m + i - 1]
<1> DEFINE S == {x[i] : i \in DOMAIN x}
<1>1. Len(x) \in Nat /\ x \in Seq(S) /\ DOMAIN x = 1..Len(x)
  BY SeqIs DEF IsSeq
<1>2. m \in Int /\ n \in Int /\ n - m + 1 \in Nat
  BY <1>1
<1>3. SubSeq(x, m, n) = [i \in 1..(n - m + 1) |-> x[i + m - 1]]
  BY <1>1, <1>2
<1> HIDE DEF S
<1>4. SubSeq(x, m, n) = [i \in 1..(n - m + 1) |-> SubSeq(x, m, n)[i]]
  BY <1>3
<1>5. IsSeq(SubSeq(x, m, n)) /\ Len(SubSeq(x, m, n)) = n - m + 1
  BY <1>2, <1>4, SeqIs
<1>6. ASSUME NEW i \in 1..(n - m + 1) PROVE SubSeq(x, m, n)[i] = x[m + i - 1]
  <2>1. i + m - 1 = m + i - 1
    BY <1>2
  <2> QED
    BY <1>3, <2>1
<1> QED
  BY <1>5, <1>6

(* Two sequences are equal ...                                             *)
LEMMA SameSeq ==
  ASSUME NEW x, NEW y, IsSeq(x), IsSeq(y), Len(x) = Len(y), \A i \in 1..Len(x) : x[i] = y[i]
  PROVE  x = y
BY SeqIs

(* Concatenation is associative.                                           *)
LEMMA ConcatAssoc ==
  ASSUME NEW x, NEW y, NEW z, IsSeq(x), IsSeq(y), IsSeq(z)
  PROVE  (x \o y) \o z = x \o (y \o z)
<1>1. /\ IsSeq(x \o y) /\ Len(x \o y) = Len(x) + Len(y)
      /\ \A i \in 1..Len(x) : (x \o y)[i] = x[i]
      /\ \A i \in 1..Len(y) : (x \o y)[Len(x) + i] = y[i]
  BY ConcatIs
<1>2. /\ IsSeq(y \o z) /\ Len(y \o z) = Len(y) + Len(z)
      /\ \A i \in 1..Len(y) : (y \o z)[i] = y[i]
      /\ \A i \in 1..Len(z) : (y \o z)[Len(y) + i] = z[i]
  BY ConcatIs
<1> DEFINE l == (x \o y) \o z  r == x \o (y \o z)
<1>3. /\ IsSeq(l) /\ Len(l) = Len(x \o y) + Len(z)
      /\ \A i \in 1..Len(x \o y) : l[i] = (x \o y)[i]
      /\ \A i \in 1..Len(z) : l[Len(x \o y) + i] = z[i]
  BY <1>1, ConcatIs
<1>4. /\ IsSeq(r) /\ Len(r) = Len(x) + Len(y \o z)
      /\ \A i \in 1..Len(x) : r[i] = x[i]
      /\ \A i \in 1..Len(y \o z) : r[Len(x) + i] = (y \o z)[i]
  BY <1>2, ConcatIs
<1>5. Len(x) \in Nat /\ Len(y) \in Nat /\ Len(z) \in Nat
  BY SeqIs
<1> HIDE DEF l, r
<1>6. ASSUME NEW i \in 1..Len(l) PROVE l[i] = r[i]
  <2>1. CASE i <= Len(x)
    <3>1. i \in 1..Len(x) /\ i \in 1..Len(x \o y)
      BY <1>1, <1>3, <1>5, <2>1
    <3> QED
      BY <3>1, <1>1, <1>3, <1>4
  <2>2. CASE i > Len(x) /\ i <= Len(x) + Len(y)
    <3> DEFINE j == i - Len(x)
    <3>1. j \in 1..Len(y) /\ i = Len(x) + j /\ j \in 1..Len(y \o z) /\ i \in 1..Len(x \o y)
      BY <1>1, <1>2, <1>3, <1>5, <2>2
    <3> HIDE DEF j
    <3>2. l[i] = y[j]
      BY <3>1, <1>1, <1>3
    <3>3. r[i] = y[j]
      BY <3>1, <1>2, <1>4
    <3> QED
      BY <3>2, <3>3
  <2>3. CASE i > Len(x) + Len(y)
    <3> DEFINE j == i - (Len(x) + Len(y))
    <3>1. j \in 1..Len(z) /\ i = Len(x \o y) + j /\ Len(y) + j \in 1..Len(y \o z)
          /\ i = Len(x) + (Len(y) + j)
      BY <1>1, <1>2, <1>3, <1>5, <2>3
    <3> HIDE DEF j
    <3>2. l[i] = z[j]
      BY <3>1, <1>3
    <3>3. r[i] = (y \o z)[Len(y) + j]
      BY <3>1, <1>4
    <3> QED
      BY <3>1, <3>2, <3>3, <1>2
  <2> QED
    BY <1>1, <1>3, <1>5, <2>1, <2>2, <2>3
<1> QED
  BY <1>1, <1>2, <1>3, <1>4, <1>5, <1>6, SameSeq DEF l, r

(* The empty sequence adds nothing.                                        *)
LEMMA ConcatEmpty ==
  ASSUME NEW x, IsSeq(x)
  PROVE  x \o <<>> = x /\ <<>> \o x = x
<1>1. x \in Seq({x[i] : i \in DOMAIN x})
  BY DEF IsSeq
<1> QED
  BY <1>1, ConcatEmptySeq

(* A sequence is what it begins with and what follows.                     *)
LEMMA EmptyIs == IsSeq(<<>>) /\ Len(<<>>) = 0 /\ <<>> \o <<>> = <<>>
<1>1. <<>> = [i \in 1..0 |-> <<>>[i]]
  OBVIOUS
<1>2. IsSeq(<<>>) /\ Len(<<>>) = 0
  BY <1>1, SeqIs
<1> QED
  BY <1>2, ConcatEmpty

(* A prefix is a shorter prefix and what follows it.                       *)
LEMMA SplitIs ==
  ASSUME NEW x, IsSeq(x), NEW k \in 0..Len(x), NEW n \in k..Len(x)
  PROVE  SubSeq(x, 1, k) \o SubSeq(x, k + 1, n) = SubSeq(x, 1, n)
<1>0. Len(x) \in Nat /\ k \in Nat /\ n \in Nat
  BY SeqIs
<1> DEFINE a == SubSeq(x, 1, k)  b == SubSeq(x, k + 1, n)  c == SubSeq(x, 1, n)
<1>1. IsSeq(a) /\ Len(a) = k /\ \A i \in 1..k : a[i] = x[i]
  <2>1. 1 \in 1..Len(x) + 1 /\ k \in (1 - 1)..Len(x) /\ k - 1 + 1 = k /\ \A i \in 1..k : 1 + i - 1 = i
    BY <1>0
  <2> QED
    BY <2>1, SubIs
<1>2. IsSeq(c) /\ Len(c) = n /\ \A i \in 1..n : c[i] = x[i]
  <2>1. 1 \in 1..Len(x) + 1 /\ n \in (1 - 1)..Len(x) /\ n - 1 + 1 = n /\ \A i \in 1..n : 1 + i - 1 = i
    BY <1>0
  <2> QED
    BY <2>1, SubIs
<1>3. IsSeq(b) /\ Len(b) = n - k /\ \A i \in 1..(n - k) : b[i] = x[k + i]
  <2>1. k + 1 \in 1..Len(x) + 1 /\ n \in (k + 1 - 1)..Len(x) /\ n - (k + 1) + 1 = n - k
        /\ \A i \in 1..(n - k) : k + 1 + i - 1 = k + i
    BY <1>0
  <2> QED
    BY <2>1, SubIs
<1> HIDE DEF a, b, c
<1>4. /\ IsSeq(a \o b) /\ Len(a \o b) = n
      /\ \A i \in 1..k : (a \o b)[i] = a[i]
      /\ \A i \in 1..(n - k) : (a \o b)[k + i] = b[i]
  <2>1. k + (n - k) = n
    BY <1>0
  <2> QED
    BY <1>1, <1>3, <2>1, ConcatIs
<1>5. ASSUME NEW i \in 1..n PROVE (a \o b)[i] = c[i]
  <2>1. CASE i <= k
    BY <1>0, <1>1, <1>2, <1>4, <2>1
  <2>2. CASE i > k
    <3>1. i - k \in 1..(n - k) /\ k + (i - k) = i
      BY <1>0, <2>2
    <3> QED
      BY <3>1, <1>2, <1>3, <1>4
  <2>3. i <= k \/ i > k
    BY <1>0
  <2> QED
    BY <2>1, <2>2, <2>3
<1> QED
  BY <1>2, <1>4, <1>5, SameSeq DEF a, b, c

(* A sequence is the longest of its prefixes.                              *)
LEMMA WholeIs == ASSUME NEW x, IsSeq(x) PROVE SubSeq(x, 1, Len(x)) = x /\ SubSeq(x, 1, 0) = <<>>
<1>0. Len(x) \in Nat
  BY SeqIs
<1>1. 1 \in 1..Len(x) + 1 /\ Len(x) \in (1 - 1)..Len(x) /\ Len(x) - 1 + 1 = Len(x)
      /\ 0 \in (1 - 1)..Len(x) /\ 0 - 1 + 1 = 0 /\ \A i \in 1..Len(x) : 1 + i - 1 = i
  BY <1>0
<1>2. /\ IsSeq(SubSeq(x, 1, Len(x))) /\ Len(SubSeq(x, 1, Len(x))) = Len(x)
      /\ \A i \in 1..Len(x) : SubSeq(x, 1, Len(x))[i] = x[i]
  BY <1>1, SubIs
<1>3. IsSeq(SubSeq(x, 1, 0)) /\ Len(SubSeq(x, 1, 0)) = 0
  BY <1>1, SubIs
<1> QED
  BY <1>2, <1>3, SameSeq, SeqIs

(* One unit, and the rest.                                                 *)
LEMMA OneIs ==
  ASSUME NEW u
  PROVE  IsSeq(<<u>>) /\ Len(<<u>>) = 1 /\ <<u>>[1] = u
<1>1. <<u>> \in Seq({u})
  OBVIOUS
<1> QED
  BY <1>1, SeqIs

(* The first element and the rest.                                         *)
LEMMA TailIs ==
  ASSUME NEW x, IsSeq(x), x # <<>>
  PROVE  /\ IsSeq(Tail(x)) /\ Len(Tail(x)) = Len(x) - 1 /\ Head(x) = x[1]
         /\ \A i \in 1..Len(x) - 1 : Tail(x)[i] = x[i + 1]
         /\ <<Head(x)>> \o Tail(x) = x
<1> DEFINE S == {x[i] : i \in DOMAIN x}
<1>1. x \in Seq(S) /\ Len(x) \in Nat
  BY SeqIs DEF IsSeq
<1> HIDE DEF S
<1>2. Tail(x) \in Seq(S) /\ Len(Tail(x)) = Len(x) - 1 /\ Head(x) = x[1]
      /\ \A i \in 1..Len(x) - 1 : Tail(x)[i] = x[i + 1]
  BY <1>1, HeadTailProperties
<1>3. <<Head(x)>> \o Tail(x) = x
  BY <1>1, <1>2, OneIs, ConcatIs, SeqIs, SameSeq
<1> QED
  BY <1>2, <1>3, SeqIs

(* What a sequence holds after an element is appended.                     *)
LEMMA AppendIs ==
  ASSUME NEW x, IsSeq(x), NEW u
  PROVE  /\ IsSeq(Append(x, u)) /\ Len(Append(x, u)) = Len(x) + 1
         /\ \A i \in 1..Len(x) : Append(x, u)[i] = x[i]
         /\ Append(x, u)[Len(x) + 1] = u
<1> DEFINE S == {x[i] : i \in DOMAIN x} \cup {u}
<1>1. Len(x) \in Nat /\ x \in [1..Len(x) -> S] /\ u \in S
  BY SeqIs
<1>2. x \in Seq(S)
  BY <1>1, SeqDef
<1> HIDE DEF S
<1>3. /\ Append(x, u) \in Seq(S) /\ Len(Append(x, u)) = Len(x) + 1
      /\ \A i \in 1..Len(x) : Append(x, u)[i] = x[i]
      /\ Append(x, u)[Len(x) + 1] = u
  BY <1>1, <1>2, AppendProperties
<1> QED
  BY <1>3, SeqIs
-----------------------------------------------------------------------------
(* Frames on the bus.                                                      *)

(* The frame under way is one of those on the bus.                         *)
LEMMA CarriesIs ==
  ASSUME NEW S, NEW full, NEW rx, NEW chan, NEW f, Carries(S, full, rx, chan, f)
  PROVE  /\ f \in Held(full, rx, chan)
         /\ f = None \/ f.cs \in S
         /\ full /\ rx.cs \in S => f = rx
  BY DEF Carries, Held

(* The first frame leaves the channel: it is dropped, or it goes to an     *)
(* empty mailbox.                                                          *)
LEMMA CarriesMoves ==
  ASSUME NEW S, NEW full, NEW rx, NEW chan, NEW f, Carries(S, full, rx, chan, f),
         IsSeq(chan), chan # <<>>, NEW now, now = TRUE
  PROVE  /\ Carries(S, full, rx, Tail(chan), IF Head(chan).cs \in S THEN None ELSE f)
         /\ ~full => Carries(S, now, Head(chan), Tail(chan), f)
<1>1. /\ IsSeq(Tail(chan)) /\ Len(Tail(chan)) = Len(chan) - 1 /\ Head(chan) = chan[1]
      /\ \A i \in 1..Len(chan) - 1 : Tail(chan)[i] = chan[i + 1]
  BY TailIs
<1>2. /\ Len(chan) \in Nat /\ Len(chan) # 0 /\ DOMAIN chan = 1..Len(chan)
      /\ DOMAIN Tail(chan) = 1..(Len(chan) - 1)
  BY <1>1, SeqIs
<1>3. /\ 1 \in DOMAIN chan
      /\ \A i \in DOMAIN Tail(chan) : i + 1 \in DOMAIN chan /\ Tail(chan)[i] = chan[i + 1] /\ i + 1 # 1
      /\ \A i \in DOMAIN chan : i # 1 => i - 1 \in DOMAIN Tail(chan) /\ Tail(chan)[i - 1] = chan[i]
  <2>1. ASSUME NEW i \in DOMAIN chan, i # 1
        PROVE  i - 1 \in DOMAIN Tail(chan) /\ Tail(chan)[i - 1] = chan[i]
    <3>1. i - 1 \in 1..(Len(chan) - 1) /\ i - 1 + 1 = i
      BY <1>2, <2>1
    <3> QED
      BY <3>1, <1>1, <1>2
  <2> QED
    BY <1>1, <1>2, <2>1
<1> DEFINE t == Tail(chan)  h == Head(chan)
<1>4. h = chan[1]
  BY <1>1
<1> HIDE DEF t, h
<1>5. CASE \A i \in DOMAIN chan : chan[i].cs \notin S
  <2>1. h.cs \notin S /\ \A i \in DOMAIN t : t[i].cs \notin S
    BY <1>3, <1>4, <1>5 DEF t
  <2> QED
    BY <2>1, <1>5 DEF Carries, t, h
<1>6. CASE /\ ~(full /\ rx.cs \in S)
           /\ \E i \in DOMAIN chan :
                f = chan[i] /\ f.cs \in S /\ \A j \in DOMAIN chan : chan[j].cs \in S => j = i
  <2>1. PICK i \in DOMAIN chan :
          f = chan[i] /\ f.cs \in S /\ \A j \in DOMAIN chan : chan[j].cs \in S => j = i
    BY <1>6
  <2>2. CASE i = 1
    <3>1. h.cs \in S /\ f = h /\ \A j \in DOMAIN t : t[j].cs \notin S
      BY <1>3, <1>4, <2>1, <2>2 DEF t
    <3>2. Carries(S, full, rx, t, None)
      BY <3>1, <1>6 DEF Carries
    <3>3. Carries(S, now, h, t, f)
      BY <3>1 DEF Carries
    <3> QED
      BY <3>1, <3>2, <3>3 DEF t, h
  <2>3. CASE i # 1
    <3> DEFINE k == i - 1
    <3>1. k \in DOMAIN t /\ t[k] = f
      BY <1>3, <2>1, <2>3 DEF t
    <3>2. \A j \in DOMAIN t : t[j].cs \in S => j = k
      <4> SUFFICES ASSUME NEW j \in DOMAIN t, t[j].cs \in S PROVE j = k
        OBVIOUS
      <4>1. j + 1 = i
        BY <1>3, <2>1 DEF t
      <4>2. j \in Int /\ i \in Int
        BY <1>2 DEF t
      <4> QED
        BY <4>1, <4>2
    <3>3. h.cs \notin S
      BY <1>3, <1>4, <2>1, <2>3
    <3> HIDE DEF k
    <3>4. Carries(S, full, rx, t, f)
      BY <3>1, <3>2, <1>6, <2>1 DEF Carries
    <3>5. Carries(S, now, h, t, f)
      BY <3>1, <3>2, <3>3, <2>1 DEF Carries
    <3> QED
      BY <3>3, <3>4, <3>5 DEF t, h
  <2> QED
    BY <2>2, <2>3
<1> QED
  BY <1>5, <1>6 DEF Carries

(* The same, for a frame that is dropped.                                  *)
LEMMA CarriesTail ==
  ASSUME NEW S, NEW full, NEW rx, NEW chan, NEW f, Carries(S, full, rx, chan, f),
         IsSeq(chan), chan # <<>>
  PROVE  Carries(S, full, rx, Tail(chan), IF Head(chan).cs \in S THEN None ELSE f)
<1> DEFINE now == TRUE
<1>1. now = TRUE
  OBVIOUS
<1> HIDE DEF now
<1> QED
  BY <1>1, CarriesMoves

(* A frame is sent: of those in S only when none is under way.             *)
LEMMA CarriesAppend ==
  ASSUME NEW S, NEW full, NEW rx, NEW chan, NEW f, Carries(S, full, rx, chan, f),
         IsSeq(chan), NEW g
  PROVE  /\ g.cs \notin S => Carries(S, full, rx, Append(chan, g), f)
         /\ g.cs \in S /\ f = None /\ None.cs \notin S => Carries(S, full, rx, Append(chan, g), g)
<1> DEFINE a == Append(chan, g)  n == Len(chan) + 1
<1>1. /\ DOMAIN chan = 1..Len(chan) /\ Len(chan) \in Nat
      /\ IsSeq(a) /\ Len(a) = n /\ DOMAIN a = 1..n
      /\ \A i \in 1..Len(chan) : a[i] = chan[i]
      /\ a[n] = g
  BY AppendIs, SeqIs
<1>2. /\ n \in DOMAIN a /\ a[n] = g
      /\ \A i \in DOMAIN chan : i \in DOMAIN a /\ a[i] = chan[i] /\ i # n
      /\ \A i \in DOMAIN a : i # n => i \in DOMAIN chan /\ a[i] = chan[i]
  BY <1>1
<1> HIDE DEF a, n
<1>3. ASSUME g.cs \notin S PROVE Carries(S, full, rx, a, f)
  <2>1. CASE \A i \in DOMAIN chan : chan[i].cs \notin S
    <3>1. \A i \in DOMAIN a : a[i].cs \notin S
      BY <1>2, <1>3, <2>1
    <3> QED
      BY <2>1, <3>1 DEF Carries
  <2>2. CASE /\ ~(full /\ rx.cs \in S)
             /\ \E i \in DOMAIN chan :
                  f = chan[i] /\ f.cs \in S /\ \A j \in DOMAIN chan : chan[j].cs \in S => j = i
    <3>1. PICK i \in DOMAIN chan :
            f = chan[i] /\ f.cs \in S /\ \A j \in DOMAIN chan : chan[j].cs \in S => j = i
      BY <2>2
    <3>2. i \in DOMAIN a /\ f = a[i] /\ \A j \in DOMAIN a : a[j].cs \in S => j = i
      BY <1>2, <1>3, <3>1
    <3> QED
      BY <2>2, <3>1, <3>2 DEF Carries
  <2> QED
    BY <2>1, <2>2 DEF Carries
<1>4. ASSUME g.cs \in S, f = None, None.cs \notin S PROVE Carries(S, full, rx, a, g)
  <2>1. ~(full /\ rx.cs \in S) /\ \A i \in DOMAIN chan : chan[i].cs \notin S
    BY <1>4 DEF Carries
  <2>2. \A j \in DOMAIN a : a[j].cs \in S => j = n
    BY <1>2, <2>1
  <2> QED
    BY <1>2, <1>4, <2>1, <2>2 DEF Carries
<1> QED
  BY <1>3, <1>4 DEF a

(* The mailbox is emptied.                                                 *)
LEMMA CarriesClear ==
  ASSUME NEW S, NEW full, NEW rx, NEW chan, NEW f, Carries(S, full, rx, chan, f), NEW r
  PROVE  Carries(S, FALSE, r, chan, IF full /\ rx.cs \in S THEN None ELSE f)
  BY DEF Carries

(* The frames that stay are of their form.                                 *)
LEMMA BusTail ==
  ASSUME NEW S, NEW full, NEW rx, NEW chan, BusOk(S, full, rx, chan), chan # <<>>
  PROVE  /\ BusOk(S, full, rx, Tail(chan))
         /\ \A now : now = TRUE => BusOk(S, now, Head(chan), Tail(chan))
         /\ FrameOk(Head(chan)) /\ IsSeq(chan)
         /\ Head(chan) \in {chan[i] : i \in DOMAIN chan}
         /\ \A i \in DOMAIN Tail(chan) : Tail(chan)[i] \in {chan[k] : k \in DOMAIN chan}
<1>1. /\ IsSeq(Tail(chan)) /\ Len(Tail(chan)) = Len(chan) - 1 /\ Head(chan) = chan[1]
      /\ \A i \in 1..Len(chan) - 1 : Tail(chan)[i] = chan[i + 1]
  BY TailIs DEF BusOk
<1>2. /\ Len(chan) \in Nat /\ Len(chan) # 0 /\ DOMAIN chan = 1..Len(chan)
      /\ DOMAIN Tail(chan) = 1..(Len(chan) - 1)
  BY <1>1, SeqIs DEF BusOk
<1>3. 1 \in DOMAIN chan /\ \A i \in DOMAIN Tail(chan) : i + 1 \in DOMAIN chan /\ Tail(chan)[i] = chan[i + 1]
  BY <1>1, <1>2
<1> QED
  BY <1>1, <1>3 DEF BusOk

(* A frame of its form is sent.                                            *)
LEMMA BusAppend ==
  ASSUME NEW S, NEW full, NEW rx, NEW chan, BusOk(S, full, rx, chan), NEW g, FrameOk(g)
  PROVE  /\ BusOk(S, full, rx, Append(chan, g))
         /\ \A i \in DOMAIN Append(chan, g) :
              Append(chan, g)[i] \in {chan[k] : k \in DOMAIN chan} \cup {g}
<1> DEFINE a == Append(chan, g)  n == Len(chan) + 1
<1>1. /\ DOMAIN chan = 1..Len(chan) /\ Len(chan) \in Nat
      /\ IsSeq(a) /\ Len(a) = n /\ DOMAIN a = 1..n
      /\ \A i \in 1..Len(chan) : a[i] = chan[i]
      /\ a[n] = g
  BY AppendIs, SeqIs DEF BusOk
<1>2. \A i \in DOMAIN a : i = n \/ i \in DOMAIN chan
  BY <1>1
<1>3. \A i \in DOMAIN a : a[i] = g \/ (i \in DOMAIN chan /\ a[i] = chan[i])
  BY <1>1, <1>2
<1> HIDE DEF a, n
<1> QED
  BY <1>1, <1>3 DEF BusOk, a
-----------------------------------------------------------------------------
(* The object: what is written, and what an upload reads of it.            *)

(* What a prefix holds.                                                    *)
LEMMA PrefixIs ==
  ASSUME NEW x, IsSeq(x), NEW n \in 0..Len(x)
  PROVE  /\ IsSeq(SubSeq(x, 1, n)) /\ Len(SubSeq(x, 1, n)) = n
         /\ \A i \in 1..n : SubSeq(x, 1, n)[i] = x[i]
<1>1. Len(x) \in Nat
  BY SeqIs
<1>2. 1 \in 1..Len(x) + 1 /\ n \in (1 - 1)..Len(x) /\ n - 1 + 1 = n
  BY <1>1
<1>3. /\ IsSeq(SubSeq(x, 1, n)) /\ Len(SubSeq(x, 1, n)) = n - 1 + 1
      /\ \A i \in 1..(n - 1 + 1) : SubSeq(x, 1, n)[i] = x[1 + i - 1]
  BY <1>2, SubIs
<1>4. \A i \in 1..n : 1 + i - 1 = i
  OBVIOUS
<1> QED
  BY <1>2, <1>3, <1>4

(* A set of numbers that is not empty has a least one.                     *)
LEMMA LeastNatural ==
  ASSUME NEW T \in SUBSET Nat, T # {}
  PROVE  \E x \in T : \A y \in T : x <= y
<1> DEFINE R == {ss \in Nat \X Nat : ss[1] < ss[2]}
<1>1. IsWellFoundedOn(R, Nat)
  BY NatLessThanWellFounded DEF OpToRel
<1> HIDE DEF R
<1>2. PICK x \in T : \A y \in T : ~(<<y, x>> \in R)
  BY <1>1, WFMin
<1>3. \A y \in T : ~(y < x)
  BY <1>2 DEF R
<1> QED
  BY <1>3

(* The units of a whole object are a sequence of LENGTH.                   *)
LEMMA ValueIs ==
  ASSUME NEW o, Whole(o)
  PROVE  IsSeq(o.value) /\ Len(o.value) = LENGTH /\ DOMAIN o.value = 1..LENGTH /\ LENGTH \in Nat \ {0}
<1>1. LENGTH \in Nat \ {0} /\ o.value = [i \in 1..LENGTH |-> o.value[i]]
  BY SdoAssumption DEF Whole
<1> QED
  BY <1>1, SeqIs

(* What is read ends where the first zero of a string has been found, in   *)
(* this read; else nothing that was read is a zero.                        *)
LEMMA BroughtIs ==
  ASSUME Whole(od), NEW off \in 0..LENGTH, NEW room \in 0..(LENGTH - off), NoEnd(od, off)
  PROVE  LET B == Brought(off, room) IN
         /\ B \in 0..room
         /\ IF Terminators(off, room) # {} \/ off + B = LENGTH
            THEN off + B > 0 /\ Ends(od, off + B) ELSE NoEnd(od, off + B)
<1> DEFINE ends == Terminators(off, room)  B == Brought(off, room)
           m == CHOOSE i \in ends : \A j \in ends : i <= j
<1>1. LENGTH \in Nat \ {0} /\ off \in Nat /\ room \in Nat /\ off + room <= LENGTH
  BY SdoAssumption
<1>2. \A i \in 1..room : i \in ends <=> (od.string /\ od.value[off + i] = Zero)
  BY DEF Terminators
<1>3. ends \in SUBSET (1..room)
  BY DEF Terminators
<1>4. B = IF ends = {} THEN room ELSE IF 1 \in ends THEN 1 ELSE m - 1
  BY DEF Brought
<1>5. \A i \in 1..off : od.string => od.value[i] # Zero
  BY DEF NoEnd
<1> HIDE DEF ends, B, m
<1>6. ASSUME NEW k \in 0..room, \A i \in 1..k : i \notin ends, NEW i \in 1..(off + k), od.string
      PROVE  od.value[i] # Zero
  <2>1. CASE i <= off
    <3>1. i \in 1..off
      BY <1>1, <2>1
    <3> QED
      BY <1>5, <1>6, <3>1
  <2>2. CASE ~(i <= off)
    <3>1. PICK l \in 1..k : l = i - off
      BY <1>1, <2>2
    <3>2. off + l = i /\ l \in 1..room
      BY <1>1, <3>1
    <3>3. l \notin ends
      BY <1>6
    <3> QED
      BY <1>2, <1>6, <3>2, <3>3
  <2> QED
    BY <2>1, <2>2
<1>7. CASE ends = {}
  <2>1. B = room /\ B \in 0..room /\ off + B \in Nat
    BY <1>1, <1>4, <1>7
  <2>2. \A i \in 1..(off + B) : od.string => od.value[i] # Zero
    BY <1>1, <1>6, <1>7, <2>1
  <2>3. NoEnd(od, off + B)
    BY <2>2 DEF NoEnd
  <2>4. off + B = LENGTH => off + B > 0 /\ Ends(od, off + B)
    <3> SUFFICES ASSUME off + B = LENGTH PROVE off + B > 0 /\ Ends(od, off + B)
      OBVIOUS
    <3>1. \A i \in 1..(LENGTH - 1) : i \in 1..LENGTH
      BY <1>1
    <3>2. \A i \in 1..(LENGTH - 1) : od.string => od.value[i] # Zero
      BY <2>2, <3>1
    <3>3. Ends(od, LENGTH)
      BY <3>2 DEF Ends
    <3> QED
      BY <1>1, <3>3
  <2> QED
    BY <1>7, <2>1, <2>3, <2>4 DEF ends, B
<1>8. CASE 1 \in ends
  <2>1. B = 1 /\ room >= 1 /\ 1 \in 1..room /\ 0 \in 0..room
    BY <1>1, <1>3, <1>4, <1>8
  <2>2. od.string /\ od.value[off + 1] = Zero
    BY <1>2, <1>8, <2>1
  <2>3. \A i \in 1..(off + 1 - 1) : od.value[i] # Zero
    <3>1. off + 1 - 1 = off
      BY <1>1
    <3> QED
      BY <1>5, <2>2, <3>1
  <2>4. Ends(od, off + 1)
    BY <2>2, <2>3 DEF Ends
  <2>5. B \in 0..room /\ off + B > 0 /\ off + B = off + 1
    BY <1>1, <2>1
  <2> QED
    BY <1>8, <2>4, <2>5 DEF ends, B
<1>9. CASE ends # {} /\ 1 \notin ends
  <2>1. ends \in SUBSET Nat
    BY <1>1, <1>3
  <2>2. \E i \in ends : \A j \in ends : i <= j
    BY <1>9, <2>1, LeastNatural
  <2>3. m \in ends /\ \A j \in ends : m <= j
    BY <2>2 DEF m
  <2>4. m \in 1..room /\ m # 1
    BY <1>3, <1>9, <2>3
  <2>5. B = m - 1 /\ m - 1 \in 0..room /\ m - 1 \in Nat /\ off + (m - 1) > 0
        /\ off + (m - 1) - 1 = off + (m - 2) /\ off + (m - 1) + 1 = off + m /\ m - 2 \in 0..room
    BY <1>1, <1>4, <1>9, <2>4
  <2>6. od.string /\ od.value[off + m] = Zero
    BY <1>2, <2>3, <2>4
  <2>7. \A i \in 1..(m - 2) : i \notin ends
    BY <2>3, <2>4
  <2>8. \A i \in 1..(off + (m - 2)) : od.value[i] # Zero
    BY <1>6, <2>5, <2>6, <2>7
  <2>9. Ends(od, off + (m - 1))
    BY <2>5, <2>6, <2>8 DEF Ends
  <2> QED
    BY <1>9, <2>5, <2>9 DEF ends, B
<1> QED
  BY <1>7, <1>8, <1>9

(* Part of the object that ends there is what an upload brings.            *)
LEMMA UploadedIs ==
  ASSUME NEW o, Whole(o), NEW n \in 1..LENGTH, Ends(o, n)
  PROVE  SubSeq(o.value, 1, n) \in Uploaded(o)
BY DEF Uploaded

(* It is a sequence.                                                       *)
LEMMA UploadedSeq ==
  ASSUME NEW o, Whole(o), NEW d \in Uploaded(o)
  PROVE  IsSeq(d)
<1>1. PICK n \in 1..LENGTH : d = SubSeq(o.value, 1, n)
  BY DEF Uploaded
<1>2. IsSeq(o.value) /\ Len(o.value) = LENGTH /\ LENGTH \in Nat
  BY ValueIs
<1>3. n \in 0..Len(o.value)
  BY <1>2
<1> QED
  BY <1>1, <1>2, <1>3, PrefixIs

(* OD_writeOriginal puts the data behind what was written before.          *)
LEMMA WriteIs ==
  ASSUME Whole(od), NEW s, NEW data, IsSeq(data),
         s.off \in 0..LENGTH, s.len \in Nat, s.len <= LENGTH
  PROVE  LET w == Write(s, data) IN
         /\ w.ret = "DATA_LONG" => w.value = od.value
         /\ w.ret # "DATA_LONG" =>
              /\ s.off + Len(data) <= s.len
              /\ IsSeq(w.value)
              /\ SubSeq(w.value, 1, s.off + Len(data)) = SubSeq(od.value, 1, s.off) \o data
              /\ w.ret = "PARTIAL" => w.off = s.off + Len(data)
              /\ w.ret # "PARTIAL" => w.ret = "OK" /\ w.off = 0 /\ s.off + Len(data) = s.len
<1> DEFINE w == Write(s, data)  k == Len(data)
           v == [i \in DOMAIN od.value |-> IF i - s.off \in DOMAIN data THEN data[i - s.off]
                                           ELSE od.value[i]]
<1>0. IsSeq(od.value) /\ Len(od.value) = LENGTH /\ DOMAIN od.value = 1..LENGTH /\ LENGTH \in Nat
  BY ValueIs
<1>1. k \in Nat /\ DOMAIN data = 1..k
  BY SeqIs
<1>2. CASE s.len - s.off < k
  <2>1. w.ret = "DATA_LONG" /\ w.value = od.value
    BY <1>2 DEF Write
  <2> QED
    BY <2>1
<1>3. CASE ~(s.len - s.off < k)
  <2>1. /\ w.value = v
        /\ w.ret = IF s.len - s.off > k THEN "PARTIAL" ELSE "OK"
        /\ w.off = IF s.len - s.off > k THEN s.off + k ELSE 0
    BY <1>3 DEF Write
  <2> HIDE DEF w
  <2>2. v = [i \in 1..LENGTH |-> v[i]]
    BY <1>0
  <2>3. IsSeq(v) /\ Len(v) = LENGTH
    <3> HIDE DEF v
    <3> QED
      BY <1>0, <2>2, SeqIs
  <2>4. s.off + k <= s.len /\ s.off + k \in 0..LENGTH /\ s.off \in Nat
        /\ (~(s.len - s.off > k) => s.off + k = s.len)
    BY <1>0, <1>1, <1>3
  <2>5. /\ IsSeq(SubSeq(v, 1, s.off + k)) /\ Len(SubSeq(v, 1, s.off + k)) = s.off + k
        /\ \A i \in 1..s.off + k : SubSeq(v, 1, s.off + k)[i] = v[i]
    <3>1. s.off + k \in 0..Len(v)
      BY <1>0, <2>3, <2>4
    <3> HIDE DEF v, k
    <3> QED
      BY <2>3, <3>1, PrefixIs
  <2>6. /\ IsSeq(SubSeq(od.value, 1, s.off)) /\ Len(SubSeq(od.value, 1, s.off)) = s.off
        /\ \A i \in 1..s.off : SubSeq(od.value, 1, s.off)[i] = od.value[i]
    <3> HIDE DEF v, k
    <3> QED
      BY <1>0, PrefixIs
  <2> DEFINE a == SubSeq(od.value, 1, s.off)  b == SubSeq(v, 1, s.off + k)
  <2>7. /\ IsSeq(a \o data) /\ Len(a \o data) = s.off + k
        /\ \A i \in 1..s.off : (a \o data)[i] = a[i]
        /\ \A i \in 1..k : (a \o data)[s.off + i] = data[i]
    BY <2>6, ConcatIs
  <2>8. ASSUME NEW i \in 1..s.off + k PROVE b[i] = (a \o data)[i]
    <3>0. i \in Nat /\ i \in 1..LENGTH
      BY <1>0, <1>1, <2>4
    <3>1. CASE i <= s.off
      <4>1. i \in 1..s.off /\ i - s.off \notin DOMAIN data
        BY <1>1, <2>4, <3>0, <3>1
      <4>2. v[i] = od.value[i]
        BY <1>0, <3>0, <4>1
      <4> QED
        BY <2>5, <2>6, <2>7, <4>1, <4>2
    <3>2. CASE i > s.off
      <4>1. i - s.off \in 1..k /\ s.off + (i - s.off) = i
        BY <1>1, <2>4, <3>0, <3>2
      <4>2. v[i] = data[i - s.off]
        BY <1>0, <1>1, <3>0, <4>1
      <4> QED
        BY <2>5, <2>7, <4>1, <4>2
    <3>3. i <= s.off \/ i > s.off
      BY <2>4, <3>0
    <3> QED
      BY <3>1, <3>2, <3>3
  <2>9. b = a \o data
    <3> HIDE DEF a, v, k
    <3> QED
      BY <2>5, <2>7, <2>8, SameSeq
  <2> QED
    BY <2>1, <2>3, <2>4, <2>9 DEF w
<1> QED
  BY <1>2, <1>3

(* OD_writeOriginal leaves the object whole.                               *)
LEMMA WriteKeepsWhole ==
  ASSUME Whole(od), NEW s, NEW data, NEW o, o = [od EXCEPT !.value = Write(s, data).value]
  PROVE  Whole(o) /\ o.string = od.string /\ o.value = Write(s, data).value
<1>0. DOMAIN od.value = 1..LENGTH /\ od = [string |-> od.string, value |-> od.value]
      /\ od.value = [i \in 1..LENGTH |-> od.value[i]]
  BY ValueIs DEF Whole
<1> DEFINE v == Write(s, data).value
<1>1. v = [i \in 1..LENGTH |-> v[i]]
  BY <1>0 DEF Write
<1> HIDE DEF v
<1>2. o = [string |-> od.string, value |-> v]
  BY <1>0 DEF v
<1> QED
  BY <1>1, <1>2 DEF Whole, v

(* The zeros that end a string go behind its data.                         *)
LEMMA PaddedIs ==
  ASSUME NEW s, s.sizeTran \in Int, NEW data, IsSeq(data), LENGTH \in Nat, od.string \in BOOLEAN
  PROVE  /\ IsSeq(Padded(s, data)) /\ Len(Padded(s, data)) >= Len(data)
         /\ \A i \in 1..Len(data) : Padded(s, data)[i] = data[i]
         /\ ~od.string => Padded(s, data) = data
         /\ s.sizeTran <= LENGTH => Len(Padded(s, data)) <= LENGTH - s.sizeTran + Len(data)
<1> DEFINE room == LENGTH - s.sizeTran
           n == IF room > 2 THEN 2 ELSE room
           z == [i \in 1..n |-> Zero]
<1>0. Len(data) \in Nat
  BY SeqIs
<1>1. CASE ~od.string
  <2>1. Padded(s, data) = data
    BY <1>1 DEF Padded
  <2> QED
    BY <1>0, <2>1
<1>2. CASE od.string
  <2>1. Padded(s, data) = data \o z
    BY <1>2 DEF Padded
  <2>2. IsSeq(z) /\ Len(z) = IF n < 0 THEN 0 ELSE n
    <3>1. CASE n >= 0
      <4>1. n \in Nat
        BY <3>1
      <4>2. z = [i \in 1..n |-> z[i]]
        OBVIOUS
      <4> HIDE DEF z, n
      <4> QED
        BY <4>1, <4>2, SeqIs
    <3>2. CASE n < 0
      <4>1. 1..n = 1..0
        BY <3>2
      <4>2. z = [i \in 1..0 |-> z[i]]
        BY <4>1
      <4> HIDE DEF z
      <4>3. IsSeq(z) /\ Len(z) = 0
        BY <4>2, SeqIs
      <4> QED
        BY <3>2, <4>3
    <3>3. n >= 0 \/ n < 0
      <4>1. n \in Int
        BY SMT
      <4> HIDE DEF n
      <4> QED
        BY <4>1
    <3> QED
      BY <3>1, <3>2, <3>3
  <2> HIDE DEF z
  <2>3. /\ IsSeq(data \o z) /\ Len(data \o z) = Len(data) + Len(z)
        /\ \A i \in 1..Len(data) : (data \o z)[i] = data[i]
    BY <2>2, ConcatIs
  <2>4. Len(z) \in Nat /\ (s.sizeTran <= LENGTH => Len(z) <= room)
    BY <2>2
  <2> QED
    BY <1>0, <1>2, <2>1, <2>3, <2>4
<1> QED
  BY <1>1, <1>2
-----------------------------------------------------------------------------
(* How the two fit when one of them changes.                               *)

(* Servers that differ in their steps, timers and mailbox only.            *)
Alike(s, s2) ==
  /\ DOMAIN s2 = DOMAIN Idle /\ s2.isNew \in BOOLEAN /\ (s2.pc = "sent" <=> s.pc = "sent")
  /\ s2.finished = s.finished /\ s2.off = s.off /\ s2.buf = s.buf /\ s2.rd = s.rd
  /\ s2.len = s.len /\ s2.sizeTran = s.sizeTran /\ s2.sizeInd = s.sizeInd
  /\ s2.crc = s.crc /\ s2.seqno = s.seqno

(* Servers that differ in their timers and mailbox only fit alike.         *)
LEMMA LinkSame ==
  ASSUME NEW c, NEW q, NEW p, NEW s, NEW o, NEW t, Linked(c, q, p, s, o, t),
         NEW s2, Alike(s, s2), s2.state = s.state
  PROVE  Linked(c, q, p, s2, o, t)
<1>1. Rests(s2) <=> Rests(s)
  BY DEF Alike, Rests
<1>2. \A S : At(s2, S) <=> At(s, S)
  BY DEF Alike, At
<1>3. Got(s2, o) = Got(s, o) /\ Sent(s2, o) = Sent(s, o) /\ s2.state = s.state
      /\ s2.finished = s.finished
  BY DEF Alike, Got, Sent
<1>4. \A S : Lost(q, p, s2, S) <=> Lost(q, p, s, S)
  BY <1>1, <1>2 DEF Lost
<1>5. DownloadInitiated(c, q, p, s, o, t) => DownloadInitiated(c, q, p, s2, o, t)
  BY <1>1, <1>2, <1>3, <1>4 DEF DownloadInitiated
<1>6. DownloadSegmented(c, q, p, s, o, t) => DownloadSegmented(c, q, p, s2, o, t)
  BY <1>1, <1>2, <1>3, <1>4 DEF DownloadSegmented
<1>7. DownloadBlkInitiated(q, p, s) => DownloadBlkInitiated(q, p, s2)
  BY <1>1, <1>2, <1>3, <1>4 DEF DownloadBlkInitiated
<1>8. DownloadBlkEnded(q, p, s, o, t) => DownloadBlkEnded(q, p, s2, o, t)
  BY <1>1, <1>2, <1>3, <1>4 DEF DownloadBlkEnded
<1>9. UploadInitiated1(q, p, s, o) => UploadInitiated1(q, p, s2, o)
  BY <1>1, <1>2, <1>3, <1>4 DEF UploadInitiated1, InitRsp
<1>10. UploadSegmented(c, q, p, s, o, t) => UploadSegmented(c, q, p, s2, o, t)
  BY <1>1, <1>2, <1>3, <1>4 DEF UploadSegmented, InitRsp
<1>11. UploadBlkInitiated1(q, p, s, o) => UploadBlkInitiated1(q, p, s2, o)
  BY <1>1, <1>2, <1>3, <1>4 DEF UploadBlkInitiated1, InitRsp
<1>12. UploadBlock(q, p, s, o) => UploadBlock(q, p, s2, o)
  BY <1>1, <1>2, <1>3, <1>4 DEF UploadBlock, InitRsp
<1> QED
  BY <1>1, <1>3, <1>4, <1>5, <1>6, <1>7, <1>8, <1>9, <1>10, <1>11, <1>12 DEF Linked

(* A server that comes to rest fits what it fitted before.                 *)
LEMMA LinkRests ==
  ASSUME NEW c, NEW q, NEW p, NEW s, NEW o, NEW t, Linked(c, q, p, s, o, t),
         NEW s2, Rests(s2)
  PROVE  Linked(c, q, p, s2, o, t)
  BY DEF Linked, DownloadInitiated, DownloadSegmented, DownloadBlkInitiated,
    DownloadBlkEnded, UploadInitiated1, UploadSegmented, UploadBlkInitiated1, UploadBlock,
    InitRsp, Lost, Silence

(* So does a client that loses a request or a response.                    *)
LEMMA LinkLoses ==
  ASSUME NEW c, NEW q, NEW p, NEW s, NEW o, NEW t, Linked(c, q, p, s, o, t)
  PROVE  Linked(c, None, p, s, o, t) /\ Linked(c, q, None, s, o, t)
<1>1. DownloadInitiated(c, q, p, s, o, t) => DownloadInitiated(c, None, p, s, o, t) /\ DownloadInitiated(c, q, None, s, o, t)
  BY DEF DownloadInitiated, Lost, Silence, At, Rests, BlockIn, BlockOut
<1>2. DownloadSegmented(c, q, p, s, o, t) => DownloadSegmented(c, None, p, s, o, t) /\ DownloadSegmented(c, q, None, s, o, t)
  BY DEF DownloadSegmented, Lost, Silence, At, Rests, BlockIn, BlockOut
<1>3. DownloadBlkInitiated(q, p, s) => DownloadBlkInitiated(None, p, s) /\ DownloadBlkInitiated(q, None, s)
  BY DEF DownloadBlkInitiated, Lost, Silence, At, Rests, BlockIn, BlockOut
<1>4. DownloadBlkEnded(q, p, s, o, t) => DownloadBlkEnded(None, p, s, o, t) /\ DownloadBlkEnded(q, None, s, o, t)
  BY DEF DownloadBlkEnded, Lost, Silence, At, Rests, BlockIn, BlockOut
<1>5. UploadInitiated1(q, p, s, o) => UploadInitiated1(None, p, s, o) /\ UploadInitiated1(q, None, s, o)
  BY DEF UploadInitiated1, Lost, Silence, At, Rests, BlockIn, BlockOut, InitRsp
<1>6. UploadSegmented(c, q, p, s, o, t) => UploadSegmented(c, None, p, s, o, t) /\ UploadSegmented(c, q, None, s, o, t)
  BY DEF UploadSegmented, Lost, Silence, At, Rests, BlockIn, BlockOut, InitRsp
<1>7. UploadBlkInitiated1(q, p, s, o) => UploadBlkInitiated1(None, p, s, o) /\ UploadBlkInitiated1(q, None, s, o)
  BY DEF UploadBlkInitiated1, Lost, Silence, At, Rests, BlockIn, BlockOut, InitRsp
<1>8. UploadBlock(q, p, s, o) => UploadBlock(None, p, s, o) /\ UploadBlock(q, None, s, o)
  BY DEF UploadBlock, Lost, Silence, At, Rests, BlockIn, BlockOut, InitRsp
<1>9. Silence(q, p) => Silence(None, p) /\ Silence(q, None)
  BY DEF Silence
<1>10. \A S : Lost(q, p, s, S) => Lost(None, p, s, S) /\ Lost(q, None, s, S)
  BY <1>9 DEF Lost
<1> QED
  BY <1>1, <1>2, <1>3, <1>4, <1>5, <1>6, <1>7, <1>8, <1>9, <1>10 DEF Linked

(* During a block download the object changes.                             *)
LEMMA LinkBlock ==
  ASSUME NEW c, NEW q, NEW p, NEW s, NEW o, NEW t, Linked(c, q, p, s, o, t), At(s, BlockIn),
         NEW s2, At(s2, BlockIn) \/ Rests(s2), NEW o2
  PROVE  Linked(c, q, p, s2, o2, t)
  BY DEF Linked, DownloadInitiated, DownloadSegmented, DownloadBlkInitiated,
    DownloadBlkEnded, UploadInitiated1, UploadSegmented, UploadBlkInitiated1, UploadBlock,
    InitRsp, Lost, Silence, At, Rests, BlockIn, BlockOut

(* They are sound alike.                                                   *)
LEMMA CoreSame ==
  ASSUME NEW s, NEW o, Core(s, o), NEW s2, Alike(s, s2), s2.state = s.state
  PROVE  Core(s2, o)
<1>1. \A S : At(s2, S) <=> At(s, S)
  BY DEF At
<1>2. Reads(s2, o)
  BY <1>1 DEF Core, Reads, Alike
<1>3. Ahead(s2, o) <=> Ahead(s, o)
  BY DEF Alike, Ahead
<1>4. Sends(s2, o)
  BY <1>1, <1>3 DEF Core, Sends, Alike
<1> QED
  BY <1>2, <1>4 DEF Core, Alike

(* A server at rest is sound whatever its fields hold.                     *)
LEMMA CoreRests ==
  ASSUME NEW s, NEW o, DOMAIN s = DOMAIN Idle, s.finished \in BOOLEAN, s.isNew \in BOOLEAN,
         s.state \in {"IDLE", "ABORT", "UPLOAD_BLK_END_CRSP"}
  PROVE  Core(s, o) /\ Rests(s)
  BY DEF Core, Reads, Sends, At, Out, BlockOut, BlockIn, SegmentsIn, CO_SDO_state_t, Rests

(* So is one that has just been initialised.                               *)
LEMMA IdleIs ==
  ASSUME NEW o
  PROVE  Core(Idle, o) /\ Steps(Idle) /\ Rests(Idle)
<1>1. Idle.state = "IDLE" /\ Idle.pc = "out" /\ Idle.finished = FALSE /\ Idle.isNew = FALSE
  BY DEF Idle
<1> QED
  BY <1>1, CoreRests DEF Steps
-----------------------------------------------------------------------------
(* What the helpers of the server do.                                      *)

(* validateAndWriteToOD puts the buffer behind what was written before.    *)
LEMMA ValidateIs ==
  ASSUME Whole(od), NEW s, DOMAIN s = DOMAIN Idle, s.finished \in BOOLEAN, s.state # "ABORT",
         s.len = LENGTH, s.off \in 0..LENGTH, IsSeq(s.buf), s.sizeTran \in Nat, NEW crc,
         NEW o, o = [od EXCEPT !.value = Validate(s, crc).value]
  PROVE  LET v == Validate(s, crc) IN
         /\ Whole(o) /\ o.string = od.string
         /\ DOMAIN v.s = DOMAIN Idle /\ v.s.finished = s.finished /\ v.s.pc = s.pc
         /\ v.s.state # "ABORT" =>
              /\ v.s = [s EXCEPT !.buf = <<>>, !.off = v.s.off, !.crc = s.crc \o s.buf,
                                 !.sizeTran = v.s.sizeTran]
              /\ v.s.off \in 0..LENGTH /\ v.s.sizeTran \in Nat
              /\ s.finished => /\ SubSeq(o.value, 1, Len(Got(s, od))) = Got(s, od)
                               /\ od.string \/ Len(Got(s, od)) = LENGTH
              /\ ~s.finished => /\ v.s.off = s.off + Len(s.buf)
                                /\ SubSeq(o.value, 1, v.s.off) = Got(s, od)
              /\ crc # None => crc.sum = s.crc \o s.buf
<1> DEFINE v == Validate(s, crc)
           sum  == s.crc \o s.buf
           data == IF s.finished THEN Padded(s, s.buf) ELSE s.buf
           size == s.sizeTran + Len(data) - Len(s.buf)
           len  == IF s.finished /\ od.string THEN size ELSE s.len
           x    == [s EXCEPT !.len = len]
           w    == Write(x, data)
           bad  == IF s.sizeInd > 0 /\ s.sizeTran > s.sizeInd THEN "DATA_LONG"
                   ELSE IF s.finished /\ s.sizeInd > 0 /\ s.sizeTran < s.sizeInd
                        THEN "DATA_SHORT"
                   ELSE IF s.finished /\ size > s.len THEN "DATA_LONG"
                   ELSE IF s.finished /\ size < len THEN "DATA_SHORT"
                   ELSE IF crc # None /\ crc.sum # sum THEN "CRC" ELSE "none"
           odd  == IF w.ret = "DATA_LONG" THEN w.ret
                   ELSE IF s.finished /\ w.ret = "PARTIAL" THEN "DATA_SHORT"
                   ELSE IF ~s.finished /\ w.ret = "OK" THEN "DATA_LONG" ELSE "none"
           done == [s EXCEPT !.buf = <<>>, !.off = w.off, !.crc = sum, !.sizeTran = size]
           g == Got(s, od)
<1>0. /\ IsSeq(od.value) /\ Len(od.value) = LENGTH /\ LENGTH \in Nat
      /\ od = [string |-> od.string, value |-> od.value] /\ od.string \in BOOLEAN
      /\ od.value = [i \in 1..LENGTH |-> od.value[i]]
  BY ValueIs DEF Whole
<1>1. v = IF bad # "none" THEN [s |-> Aborted(s, bad), value |-> od.value]
          ELSE [s |-> IF odd # "none" THEN Aborted(done, odd) ELSE done, value |-> w.value]
  BY DEF Validate
<1>2. \/ bad # "none" /\ v = [s |-> Aborted(s, bad), value |-> od.value]
      \/ bad = "none" /\ odd # "none" /\ v = [s |-> Aborted(done, odd), value |-> w.value]
      \/ bad = "none" /\ odd = "none" /\ v = [s |-> done, value |-> w.value]
  <2> HIDE DEF v, bad, odd, done, w
  <2> QED
    BY <1>1
<1>3. /\ IsSeq(data) /\ Len(data) \in Nat /\ Len(s.buf) \in Nat /\ Len(data) >= Len(s.buf)
      /\ \A i \in 1..Len(s.buf) : data[i] = s.buf[i]
      /\ ~(s.finished /\ od.string) => data = s.buf
  <2>1. IsSeq(s.buf) /\ Len(s.buf) \in Nat
    BY SeqIs
  <2>2. /\ IsSeq(Padded(s, s.buf)) /\ Len(Padded(s, s.buf)) >= Len(s.buf)
        /\ \A i \in 1..Len(s.buf) : Padded(s, s.buf)[i] = s.buf[i]
        /\ ~od.string => Padded(s, s.buf) = s.buf
    <3> HIDE DEF v, sum, data, size, len, x, w, bad, odd, done, g
    <3>1. s.sizeTran \in Int
      OBVIOUS
    <3>2. IsSeq(Padded(s, s.buf))
      BY <1>0, <3>1, PaddedIs
    <3>3. Len(Padded(s, s.buf)) >= Len(s.buf)
      BY <1>0, <3>1, PaddedIs
    <3>4. \A i \in 1..Len(s.buf) : Padded(s, s.buf)[i] = s.buf[i]
      BY <1>0, <3>1, PaddedIs
    <3>5. ~od.string => Padded(s, s.buf) = s.buf
      BY DEF Padded
    <3> QED
      BY <3>2, <3>3, <3>4, <3>5
  <2>3. IsSeq(data) /\ \A i \in 1..Len(s.buf) : data[i] = s.buf[i]
    BY <2>1, <2>2
  <2>4. Len(data) \in Nat
    <3> HIDE DEF data
    <3> QED
      BY <2>3, SeqIs
  <2>5. ~(s.finished /\ od.string) => data = s.buf
    BY <2>2
  <2>6. Len(data) >= Len(s.buf)
    BY <2>1, <2>2
  <2> QED
    BY <2>1, <2>3, <2>4, <2>5, <2>6
<1> HIDE DEF data
<1>4. size \in Nat
  BY <1>3
<1>5. /\ DOMAIN s = {"state", "pc", "seen", "isNew", "code", "toggle", "finished", "sizeInd",
                     "sizeTran", "buf", "rd", "off", "len", "timer", "blkTimer", "blksize",
                     "seqno", "crc", "rxNew", "rx"}
  BY DEF Idle
<1>6. x.off = s.off /\ x.len = len
  BY <1>5
<1>7. /\ done.buf = <<>> /\ done.off = w.off /\ done.crc = sum /\ done.sizeTran = size
      /\ done.finished = s.finished /\ done.state = s.state /\ done.pc = s.pc
      /\ DOMAIN done = DOMAIN s
  BY <1>5
<1> HIDE DEF size, x, w, sum
<1>8. CASE bad # "none" /\ v = [s |-> Aborted(s, bad), value |-> od.value]
  <2>1. o = od
    BY <1>0, <1>8
  <2>2. v.s.state = "ABORT" /\ DOMAIN v.s = DOMAIN s /\ v.s.finished = s.finished /\ v.s.pc = s.pc
    <3> HIDE DEF bad, v
    <3> QED
      BY <1>8, <1>5 DEF Aborted
  <2> QED
    BY <2>1, <2>2
<1>9. CASE bad = "none" /\ odd # "none" /\ v = [s |-> Aborted(done, odd), value |-> w.value]
  <2>1. v.s.state = "ABORT" /\ DOMAIN v.s = DOMAIN s /\ v.s.finished = s.finished /\ v.s.pc = s.pc
    <3> HIDE DEF bad, v, odd, done
    <3> QED
      BY <1>9, <1>7, <1>5 DEF Aborted
  <2>2. Whole(o) /\ o.string = od.string
    <3> HIDE DEF bad, odd, done
    <3> USE DEF w
    <3>1. o = [od EXCEPT !.value = Write(x, data).value]
      BY <1>9
    <3> QED
      BY <3>1, WriteKeepsWhole
  <2> QED
    BY <2>1, <2>2
<1>10. CASE bad = "none" /\ odd = "none" /\ v = [s |-> done, value |-> w.value]
  <2>1. /\ ~(s.finished /\ size > s.len) /\ ~(s.finished /\ size < len)
        /\ ~(crc # None /\ crc.sum # sum)
    BY <1>10
  <2>2. /\ w.ret # "DATA_LONG" /\ ~(s.finished /\ w.ret = "PARTIAL")
        /\ ~(~s.finished /\ w.ret = "OK")
    BY <1>10
  <2>3. len \in Nat /\ len <= LENGTH
    BY <1>0, <1>4, <2>1
  <2> HIDE DEF bad, odd
  <2>4. /\ s.off + Len(data) <= len /\ IsSeq(w.value)
        /\ SubSeq(w.value, 1, s.off + Len(data)) = SubSeq(od.value, 1, s.off) \o data
        /\ w.ret = "PARTIAL" => w.off = s.off + Len(data)
        /\ w.ret # "PARTIAL" => w.ret = "OK" /\ w.off = 0 /\ s.off + Len(data) = len
    <3> HIDE DEF len, done, v, g
    <3>1. x.off \in 0..LENGTH /\ x.len \in Nat /\ x.len <= LENGTH
      BY <1>6, <2>3
    <3>2. /\ w.ret # "DATA_LONG" =>
              /\ x.off + Len(data) <= x.len
              /\ IsSeq(w.value)
              /\ SubSeq(w.value, 1, x.off + Len(data)) = SubSeq(od.value, 1, x.off) \o data
              /\ w.ret = "PARTIAL" => w.off = x.off + Len(data)
              /\ w.ret # "PARTIAL" => w.ret = "OK" /\ w.off = 0 /\ x.off + Len(data) = x.len
      BY <1>3, <3>1, WriteIs DEF w
    <3> QED
      BY <1>6, <2>2, <3>2
  <2>5. Whole(o) /\ o.string = od.string /\ o.value = w.value
    <3> HIDE DEF done
    <3> USE DEF w
    <3>1. o = [od EXCEPT !.value = Write(x, data).value]
      BY <1>10
    <3> QED
      BY <3>1, WriteKeepsWhole
  <2>6. v.s = done /\ done = [s EXCEPT !.buf = <<>>, !.off = v.s.off, !.crc = s.crc \o s.buf,
                                     !.sizeTran = v.s.sizeTran]
    <3>1. v.s = done
      <4> HIDE DEF v, done, g, len
      <4> QED
        BY <1>10
    <3>2. v.s.off = w.off /\ v.s.sizeTran = size
      <4> HIDE DEF v, done, g, len
      <4> QED
        BY <1>7, <3>1
    <3> HIDE DEF v
    <3> QED
      BY <3>1, <3>2 DEF sum
  <2>7. w.off \in 0..LENGTH
    <3> HIDE DEF v, done, g, len
    <3>1. s.off + Len(data) <= len /\ (w.off = s.off + Len(data) \/ w.off = 0)
      BY <2>4
    <3>2. s.off \in Nat /\ Len(data) \in Nat /\ LENGTH \in Nat
      BY <1>0, <1>3
    <3> QED
      BY <2>3, <3>1, <3>2
  <2>8. ASSUME s.finished
        PROVE  SubSeq(o.value, 1, Len(g)) = g /\ (od.string \/ Len(g) = LENGTH)
    <3> DEFINE a == SubSeq(od.value, 1, s.off)  n == s.off + Len(data)
    <3>1. n = len
      BY <2>2, <2>4, <2>8
    <3>2. IsSeq(a) /\ Len(a) = s.off
      BY <1>0, PrefixIs
    <3>3. g = a \o s.buf
      BY DEF Got
    <3>4. /\ IsSeq(g) /\ Len(g) = s.off + Len(s.buf)
          /\ \A i \in 1..Len(a) : g[i] = a[i]
          /\ \A i \in 1..Len(s.buf) : g[Len(a) + i] = s.buf[i]
      <4> HIDE DEF a, g, v, done, len
      <4>1. /\ IsSeq(a \o s.buf) /\ Len(a \o s.buf) = Len(a) + Len(s.buf)
            /\ \A i \in 1..Len(a) : (a \o s.buf)[i] = a[i]
            /\ \A i \in 1..Len(s.buf) : (a \o s.buf)[Len(a) + i] = s.buf[i]
        BY <3>2, ConcatIs
      <4> QED
        BY <3>2, <3>3, <4>1
    <3>5. /\ IsSeq(a \o data) /\ Len(a \o data) = s.off + Len(data)
          /\ \A i \in 1..Len(a) : (a \o data)[i] = a[i]
          /\ \A i \in 1..Len(data) : (a \o data)[Len(a) + i] = data[i]
      <4> HIDE DEF a, g
      <4> QED
        BY <1>3, <3>2, ConcatIs
    <3>6. Len(o.value) = LENGTH /\ IsSeq(o.value)
      BY <2>5, ValueIs
    <3>7. Len(g) \in 0..n /\ n \in 0..LENGTH
      <4> HIDE DEF a, g, v, done, len
      <4>1. s.off \in Nat /\ Len(g) \in Nat
        BY <1>0, <1>3, <3>4
      <4> QED
        BY <1>0, <1>3, <2>3, <3>1, <3>4, <4>1
    <3>8. /\ IsSeq(SubSeq(o.value, 1, Len(g))) /\ Len(SubSeq(o.value, 1, Len(g))) = Len(g)
          /\ \A i \in 1..Len(g) : SubSeq(o.value, 1, Len(g))[i] = o.value[i]
      <4>1. Len(g) \in 0..Len(o.value)
        BY <3>6, <3>7
      <4> HIDE DEF g
      <4> QED
        BY <3>6, <4>1, PrefixIs
    <3>9. \A i \in 1..n : o.value[i] = (a \o data)[i]
      <4>1. n \in 0..Len(o.value)
        BY <3>6, <3>7
      <4> HIDE DEF n
      <4>2. \A i \in 1..n : SubSeq(o.value, 1, n)[i] = o.value[i]
        BY <3>6, <4>1, PrefixIs
      <4>3. SubSeq(o.value, 1, n) = a \o data
        BY <2>4, <2>5 DEF n
      <4> QED
        BY <4>2, <4>3
    <3>10. ASSUME NEW i \in 1..Len(g) PROVE SubSeq(o.value, 1, Len(g))[i] = g[i]
      <4>1. i \in 1..n /\ i \in Nat
        BY <3>7
      <4>2. CASE i <= s.off
        <5>1. i \in 1..Len(a)
          BY <3>2, <4>1, <4>2
        <5> HIDE DEF a, g, n
        <5> QED
          BY <3>4, <3>5, <3>8, <3>9, <4>1, <5>1
      <4>3. CASE i > s.off
        <5>1. i - s.off \in 1..Len(s.buf) /\ i - s.off \in 1..Len(data) /\ Len(a) + (i - s.off) = i
          BY <1>3, <3>2, <3>4, <4>1, <4>3
        <5>2. g[i] = s.buf[i - s.off] /\ (a \o data)[i] = data[i - s.off]
          BY <3>4, <3>5, <5>1
        <5> HIDE DEF a, g, n
        <5> QED
          BY <1>3, <3>8, <3>9, <4>1, <5>1, <5>2
      <4>4. i <= s.off \/ i > s.off
        BY <4>1
      <4> QED
        BY <4>2, <4>3, <4>4
    <3>11. SubSeq(o.value, 1, Len(g)) = g
      <4> HIDE DEF g
      <4> QED
        BY <3>4, <3>8, <3>10, SameSeq
    <3>12. ~od.string => Len(g) = LENGTH
      BY <1>3, <3>1, <3>4
    <3> QED
      BY <3>11, <3>12
  <2>9. ASSUME ~s.finished
        PROVE  w.off = s.off + Len(s.buf) /\ SubSeq(o.value, 1, w.off) = g
    BY <1>3, <2>2, <2>4, <2>5, <2>9 DEF Got
  <2>10. v.s.off = w.off /\ v.s.sizeTran \in Nat /\ DOMAIN v.s = DOMAIN Idle
         /\ v.s.finished = s.finished /\ v.s.pc = s.pc /\ v.s.state # "ABORT"
    BY <1>4, <1>7, <2>6
  <2> HIDE DEF v, done, g
  <2> QED
    BY <2>1, <2>5, <2>6, <2>7, <2>8, <2>9, <2>10 DEF sum, v, g
<1> HIDE DEF v, bad, odd, done
<1> QED
  BY <1>2, <1>8, <1>9, <1>10 DEF v

(* What validateAndWriteToOD has done. *)
Validated(s, crc, v, o) ==
  /\ Whole(o) /\ o.string = od.string
  /\ DOMAIN v.s = DOMAIN Idle /\ v.s.finished = s.finished /\ v.s.pc = s.pc
  /\ v.s.state # "ABORT" =>
       /\ v.s = [s EXCEPT !.buf = <<>>, !.off = v.s.off, !.crc = s.crc \o s.buf,
                          !.sizeTran = v.s.sizeTran]
       /\ v.s.off \in 0..LENGTH /\ v.s.sizeTran \in Nat
       /\ s.finished => /\ SubSeq(o.value, 1, Len(Got(s, od))) = Got(s, od)
                        /\ od.string \/ Len(Got(s, od)) = LENGTH
       /\ ~s.finished => /\ v.s.off = s.off + Len(s.buf)
                         /\ SubSeq(o.value, 1, v.s.off) = Got(s, od)
       /\ crc # None => crc.sum = s.crc \o s.buf

(* The same with the conclusion as one operator.                           *)
LEMMA ValidatedIs ==
  ASSUME Whole(od), NEW s, DOMAIN s = DOMAIN Idle, s.finished \in BOOLEAN, s.state # "ABORT",
         s.len = LENGTH, s.off \in 0..LENGTH, IsSeq(s.buf), s.sizeTran \in Nat, NEW crc
  PROVE  Validated(s, crc, Validate(s, crc), [od EXCEPT !.value = Validate(s, crc).value])
<1> DEFINE o == [od EXCEPT !.value = Validate(s, crc).value]
<1>1. o = [od EXCEPT !.value = Validate(s, crc).value]
  OBVIOUS
<1> QED
  BY <1>1, ValidateIs DEF Validated

(* validateAndWriteToOD does not touch the snapshot of the new-message     *)
(* flag.                                                                   *)
LEMMA ValidateKeeps ==
  ASSUME NEW s, DOMAIN s = DOMAIN Idle, NEW crc
  PROVE  Validate(s, crc).s.isNew = s.isNew
<1> DEFINE v == Validate(s, crc)
           sum  == s.crc \o s.buf
           data == IF s.finished THEN Padded(s, s.buf) ELSE s.buf
           size == s.sizeTran + Len(data) - Len(s.buf)
           len  == IF s.finished /\ od.string THEN size ELSE s.len
           w    == Write([s EXCEPT !.len = len], data)
           done == [s EXCEPT !.buf = <<>>, !.off = w.off, !.crc = sum, !.sizeTran = size]
<1>1. \E bad, odd : v.s = Aborted(s, bad) \/ v.s = Aborted(done, odd) \/ v.s = done
  BY DEF Validate
<1> HIDE DEF v, size, w, sum
<1>2. PICK bad, odd : v.s = Aborted(s, bad) \/ v.s = Aborted(done, odd) \/ v.s = done
  BY <1>1
<1>3. "isNew" \in DOMAIN s
  BY DEF Idle
<1> QED
  BY <1>2, <1>3 DEF Aborted, v

(* Parts of a part, and parts that follow each other.                      *)
LEMMA RangeIs ==
  ASSUME NEW x, IsSeq(x), NEW m \in 1..Len(x) + 1, NEW n \in (m - 1)..Len(x)
  PROVE  /\ \A k \in 0..(n - m + 1) : SubSeq(SubSeq(x, m, n), k + 1, n - m + 1) = SubSeq(x, m + k, n)
         /\ \A k \in n..Len(x) : SubSeq(x, m, n) \o SubSeq(x, n + 1, k) = SubSeq(x, m, k)
<1> DEFINE y == SubSeq(x, m, n)
<1>0. Len(x) \in Nat /\ m \in Nat /\ n \in Nat
  <2>1. Len(x) \in Nat
    BY SeqIs
  <2> QED
    BY <2>1
<1>1. IsSeq(y) /\ Len(y) = n - m + 1 /\ \A i \in 1..(n - m + 1) : y[i] = x[m + i - 1]
  BY SubIs
<1> HIDE DEF y
<1>2. ASSUME NEW k \in 0..(n - m + 1) PROVE SubSeq(y, k + 1, n - m + 1) = SubSeq(x, m + k, n)
  <2> DEFINE a == SubSeq(y, k + 1, n - m + 1)  b == SubSeq(x, m + k, n)  e == n - m + 1
  <2>1. /\ k + 1 \in 1..Len(y) + 1 /\ e \in ((k + 1) - 1)..Len(y)
        /\ m + k \in 1..Len(x) + 1 /\ n \in ((m + k) - 1)..Len(x)
        /\ n - (m + k) + 1 = e - (k + 1) + 1 /\ e \in Nat
    BY <1>0, <1>1
  <2>2. IsSeq(a) /\ Len(a) = e - (k + 1) + 1 /\ \A i \in 1..(e - (k + 1) + 1) : a[i] = y[k + 1 + i - 1]
    <3> HIDE DEF e
    <3> QED
      BY <1>1, <2>1, SubIs DEF e
  <2>3. IsSeq(b) /\ Len(b) = n - (m + k) + 1 /\ \A i \in 1..(n - (m + k) + 1) : b[i] = x[m + k + i - 1]
    BY <2>1, SubIs
  <2> HIDE DEF a, b, e
  <2>4. ASSUME NEW i \in 1..(e - (k + 1) + 1) PROVE a[i] = b[i]
    <3>1. /\ k + 1 + i - 1 \in 1..(n - m + 1) /\ i \in 1..(n - (m + k) + 1)
          /\ m + (k + 1 + i - 1) - 1 = m + k + i - 1
      BY <1>0, <2>1 DEF e
    <3>2. a[i] = y[k + 1 + i - 1] /\ b[i] = x[m + k + i - 1]
      BY <2>2, <2>3, <3>1
    <3> QED
      BY <1>1, <3>1, <3>2
  <2>5. a = b
    BY <2>1, <2>2, <2>3, <2>4, SameSeq
  <2> QED
    BY <2>5 DEF a, b, e
<1>3. ASSUME NEW k \in n..Len(x) PROVE y \o SubSeq(x, n + 1, k) = SubSeq(x, m, k)
  <2> DEFINE z == SubSeq(x, n + 1, k)  w == SubSeq(x, m, k)
  <2>1. /\ n + 1 \in 1..Len(x) + 1 /\ k \in ((n + 1) - 1)..Len(x) /\ k \in (m - 1)..Len(x)
        /\ k - (n + 1) + 1 = k - n /\ k - n \in Nat /\ k \in Nat
    BY <1>0
  <2>2. IsSeq(z) /\ Len(z) = k - n /\ \A i \in 1..(k - n) : z[i] = x[n + 1 + i - 1]
    <3>1. IsSeq(z) /\ Len(z) = k - (n + 1) + 1
          /\ \A i \in 1..(k - (n + 1) + 1) : z[i] = x[n + 1 + i - 1]
      BY <2>1, SubIs
    <3> QED
      BY <2>1, <3>1
  <2>3. IsSeq(w) /\ Len(w) = k - m + 1 /\ \A i \in 1..(k - m + 1) : w[i] = x[m + i - 1]
    BY <2>1, SubIs
  <2> HIDE DEF z, w
  <2>4. /\ IsSeq(y \o z) /\ Len(y \o z) = Len(y) + Len(z)
        /\ \A i \in 1..Len(y) : (y \o z)[i] = y[i]
        /\ \A i \in 1..Len(z) : (y \o z)[Len(y) + i] = z[i]
    <3>1. IsSeq(y) /\ IsSeq(z)
      BY <1>1, <2>2
    <3> QED
      BY <3>1, ConcatIs
  <2>5. Len(y \o z) = k - m + 1
    BY <1>0, <1>1, <2>1, <2>2, <2>4
  <2>6. ASSUME NEW i \in 1..(k - m + 1) PROVE (y \o z)[i] = w[i]
    <3>0. i \in Nat
      BY <1>0, <2>1
    <3>1. CASE i <= n - m + 1
      <4>1. i \in 1..Len(y)
        BY <1>0, <1>1, <3>0, <3>1
      <4> QED
        BY <1>1, <2>3, <2>4, <4>1
    <3>2. CASE i > n - m + 1
      <4> DEFINE j == i - (n - m + 1)
      <4>1. j \in 1..Len(z) /\ Len(y) + j = i /\ n + 1 + j - 1 = m + i - 1
        BY <1>0, <1>1, <2>1, <2>2, <3>0, <3>2
      <4> HIDE DEF j
      <4>2. (y \o z)[i] = z[j] /\ z[j] = x[m + i - 1]
        BY <2>2, <2>4, <4>1
      <4> QED
        BY <2>3, <4>2
    <3>3. i <= n - m + 1 \/ i > n - m + 1
      BY <1>0, <3>0
    <3> QED
      BY <3>1, <3>2, <3>3
  <2>7. y \o z = w
    BY <2>3, <2>4, <2>5, <2>6, SameSeq
  <2> QED
    BY <2>7 DEF z, w
<1> QED
  BY <1>2, <1>3 DEF y

(* readFromOd reads on, and forgets only what has been sent.               *)
LEMMA RefillIs ==
  ASSUME Whole(od), NEW s, DOMAIN s = DOMAIN Idle, s.finished \in BOOLEAN, s.state # "ABORT",
         Ahead(s, od), NEW min \in Nat
  PROVE  LET r == Refill(s, min) IN
         /\ DOMAIN r = DOMAIN Idle /\ r.finished \in BOOLEAN /\ r.pc = s.pc
         /\ r.state \in {s.state, "ABORT"} /\ r.sizeTran = s.sizeTran /\ r.sizeInd = s.sizeInd
         /\ r.toggle = s.toggle /\ r.seqno = s.seqno
         /\ Ahead(r, od)
         /\ r.off - Len(r.buf) + r.rd = s.off - Len(s.buf) + s.rd
         /\ r.rd \in {s.rd, 0}
         /\ r.state # "ABORT" => r.finished \/ Len(r.buf) - r.rd >= min
<1> DEFINE data == od.value
           held == SubSeq(s.buf, s.rd + 1, Len(s.buf))
           O == s.off  L == Len(s.buf)  R == s.rd  D == LENGTH  H == Len(held)
           free == CAPACITY - H
           room == IF D - O < free THEN D - O ELSE free
           n    == Brought(O, room)
           fin  == Terminators(O, room) # {} \/ s.off + n = LENGTH
           more == SubSeq(data, s.off + 1, s.off + n)
           full == [s EXCEPT !.buf = held \o more, !.rd = 0, !.off = s.off + n,
                             !.finished = fin, !.crc = s.crc \o more]
           r == Refill(s, min)
           from == O - L + R
<1>0. /\ DOMAIN s = {"state", "pc", "seen", "isNew", "code", "toggle", "finished", "sizeInd",
                     "sizeTran", "buf", "rd", "off", "len", "timer", "blkTimer", "blksize",
                     "seqno", "crc", "rxNew", "rx"}
  BY DEF Idle
<1>1. IsSeq(data) /\ Len(data) = LENGTH /\ LENGTH \in Nat /\ CAPACITY \in Nat
  BY ValueIs, SdoAssumption
<1>2. /\ s.off \in 0..LENGTH /\ Len(s.buf) \in 0..s.off /\ s.rd \in 0..Len(s.buf)
      /\ Len(s.buf) <= CAPACITY /\ s.crc = SubSeq(data, 1, s.off)
      /\ s.buf = SubSeq(data, s.off - Len(s.buf) + 1, s.off)
      /\ ~s.finished => NoEnd(od, s.off)
  BY DEF Ahead
<1>a. O \in 0..D /\ L \in 0..O /\ R \in 0..L /\ L <= CAPACITY /\ D \in Nat /\ CAPACITY \in Nat
  BY <1>1, <1>2
<1>3. O \in Nat /\ L \in Nat /\ R \in Nat /\ from \in Nat
  <2> HIDE DEF O, L, R, D
  <2> QED
    BY <1>a
<1>4. r = IF s.finished \/ Len(held) >= min THEN s
          ELSE IF ~full.finished /\ Len(full.buf) < min THEN Aborted(full, "DEVICE_INCOMPAT") ELSE full
  BY DEF Refill
<1> HIDE DEF data, r
<1>5. held = SubSeq(data, from + 1, s.off) /\ H = L - R
  <2> DEFINE m == O - L + 1
  <2>1. /\ m \in 1..D + 1 /\ O \in (m - 1)..D
        /\ O - m + 1 = L /\ R \in 0..(O - m + 1) /\ m + R = from + 1
    <3> HIDE DEF O, L, R, D
    <3> QED
      BY <1>a, <1>3
  <2>2. SubSeq(SubSeq(data, m, s.off), s.rd + 1, s.off - m + 1) = SubSeq(data, m + s.rd, s.off)
    <3> HIDE DEF m
    <3> QED
      BY <1>1, <2>1, RangeIs
  <2>3. held = SubSeq(data, from + 1, s.off)
    BY <1>2, <2>1, <2>2
  <2>4. from + 1 \in 1..D + 1 /\ O \in ((from + 1) - 1)..D /\ O - (from + 1) + 1 = L - R
    <3> HIDE DEF O, L, R, D
    <3> QED
      BY <1>a, <1>3
  <2>5. Len(SubSeq(data, from + 1, s.off)) = s.off - (from + 1) + 1
    <3> HIDE DEF from
    <3> QED
      BY <1>1, <2>4, SubIs
  <2> QED
    BY <2>3, <2>4, <2>5
<1>b. room \in 0..(D - O) /\ H + room <= CAPACITY /\ H \in Nat
  <2> HIDE DEF O, L, R, D, H
  <2> QED
    BY <1>a, <1>3, <1>5
<1>c. ~s.finished =>
        n \in 0..room /\ (IF fin THEN s.off + n > 0 /\ Ends(od, s.off + n) ELSE NoEnd(od, s.off + n))
  <2> SUFFICES ASSUME ~s.finished
               PROVE  n \in 0..room /\ (IF fin THEN s.off + n > 0 /\ Ends(od, s.off + n) ELSE NoEnd(od, s.off + n))
    OBVIOUS
  <2> HIDE DEF room
  <2> QED
    BY <1>2, <1>b, BroughtIs
<1>6. ~s.finished => n \in 0..(D - O) /\ H + n <= CAPACITY /\ H \in Nat
  <2> HIDE DEF O, L, R, D, H, room, n
  <2> QED
    BY <1>a, <1>3, <1>5, <1>b, <1>c
<1>d. fin \in BOOLEAN
  OBVIOUS
<1> HIDE DEF held, n, room, fin
<1>7. ~s.finished =>
      /\ held \o more = SubSeq(data, from + 1, s.off + n)
      /\ s.crc \o more = SubSeq(data, 1, s.off + n)
      /\ Len(SubSeq(data, from + 1, s.off + n)) = H + n
  <2> SUFFICES ASSUME ~s.finished
               PROVE  /\ held \o more = SubSeq(data, from + 1, s.off + n)
                      /\ s.crc \o more = SubSeq(data, 1, s.off + n)
                      /\ Len(SubSeq(data, from + 1, s.off + n)) = H + n
    OBVIOUS
  <2>1. /\ from + 1 \in 1..D + 1 /\ O \in ((from + 1) - 1)..D
        /\ O + n \in O..D /\ 1 \in 1..D + 1 /\ O \in (1 - 1)..D
        /\ O + n \in ((from + 1) - 1)..D
        /\ (O + n) - (from + 1) + 1 = H + n
    <3> HIDE DEF O, L, R, D, H
    <3> QED
      BY <1>a, <1>3, <1>5, <1>6
  <2> HIDE DEF from
  <2>2. held \o more = SubSeq(data, from + 1, s.off + n)
    BY <1>1, <1>5, <2>1, RangeIs
  <2>3. s.crc \o more = SubSeq(data, 1, s.off + n)
    BY <1>1, <1>2, <2>1, RangeIs
  <2>4. Len(SubSeq(data, from + 1, s.off + n)) = (s.off + n) - (from + 1) + 1
    <3> DEFINE k == s.off + n
    <3> HIDE DEF k
    <3> QED
      BY <1>1, <2>1, SubIs DEF k
  <2> QED
    BY <2>1, <2>2, <2>3, <2>4
<1> HIDE DEF more
<1>8. /\ full.buf = held \o more /\ full.rd = 0 /\ full.off = s.off + n
      /\ full.finished = fin /\ full.crc = s.crc \o more
      /\ full.state = s.state /\ full.pc = s.pc /\ full.sizeTran = s.sizeTran
      /\ full.sizeInd = s.sizeInd /\ full.toggle = s.toggle /\ full.seqno = s.seqno
      /\ DOMAIN full = DOMAIN s
  BY <1>0
<1>e. full.finished \in BOOLEAN
  BY <1>8, <1>d
<1> HIDE DEF full
<1>9. CASE s.finished \/ Len(held) >= min
  <2>1. r = s
    BY <1>4, <1>9
  <2>2. s.finished \/ Len(s.buf) - s.rd >= min
    BY <1>5, <1>9
  <2> QED
    BY <2>1, <2>2 DEF r
<1>10. CASE ~(s.finished \/ Len(held) >= min)
  <2> DEFINE ab == Aborted(full, "DEVICE_INCOMPAT")
  <2>1. /\ full.off \in 0..D /\ Len(full.buf) \in 0..full.off /\ Len(full.buf) <= CAPACITY
        /\ full.off - Len(full.buf) = from
    <3>1. full.off = O + n /\ Len(full.buf) = H + n
      BY <1>7, <1>8, <1>10
    <3> DEFINE fo == full.off  fl == Len(full.buf)
    <3>2. fo \in 0..D /\ fl \in 0..fo /\ fl <= CAPACITY /\ fo - fl = from
      <4>1. fo = O + n /\ fl = H + n
        BY <3>1
      <4> HIDE DEF O, L, R, D, H, fo, fl
      <4> QED
        BY <1>a, <1>3, <1>5, <1>6, <1>10, <4>1
    <3> QED
      BY <3>2
  <2>2. full.buf = SubSeq(data, full.off - Len(full.buf) + 1, full.off)
        /\ full.crc = SubSeq(data, 1, full.off)
    BY <1>7, <1>8, <1>10, <2>1
  <2>3. Ahead(full, od)
    <3>1. full.rd \in 0..Len(full.buf)
      BY <1>8, <2>1
    <3>2. IF full.finished THEN full.off > 0 /\ Ends(od, full.off) ELSE NoEnd(od, full.off)
      BY <1>8, <1>c, <1>10
    <3> QED
      BY <2>1, <2>2, <3>1, <3>2 DEF Ahead, data
  <2>4. full.off - Len(full.buf) + full.rd = from
    <3> HIDE DEF from
    <3> QED
      BY <1>3, <1>8, <2>1
  <2>5. /\ ab.buf = full.buf /\ ab.rd = full.rd /\ ab.off = full.off /\ ab.finished = full.finished
        /\ ab.crc = full.crc /\ ab.state = "ABORT" /\ ab.pc = full.pc /\ ab.sizeTran = full.sizeTran
        /\ ab.sizeInd = full.sizeInd /\ ab.toggle = full.toggle /\ ab.seqno = full.seqno
        /\ DOMAIN ab = DOMAIN full
    BY <1>0, <1>8 DEF Aborted
  <2> HIDE DEF ab
  <2>6. Ahead(ab, od)
    BY <2>3, <2>5 DEF Ahead
  <2>7. r = IF ~full.finished /\ Len(full.buf) < min THEN ab ELSE full
    BY <1>4, <1>10 DEF ab
  <2>8. CASE ~full.finished /\ Len(full.buf) < min
    <3>1. r = ab
      BY <2>7, <2>8
    <3> QED
      BY <1>8, <1>e, <2>4, <2>5, <2>6, <3>1 DEF r, from
  <2>9. CASE ~(~full.finished /\ Len(full.buf) < min)
    <3>1. r = full
      BY <2>7, <2>9
    <3>2. full.finished \/ Len(full.buf) - full.rd >= min
      BY <1>8, <2>1, <2>9
    <3> QED
      BY <1>8, <1>e, <2>3, <2>4, <3>1, <3>2 DEF r, from
  <2> QED
    BY <2>8, <2>9
<1> QED
  BY <1>9, <1>10

ClientStates == {"IDLE"} \cup Downloads \cup Uploads

(* What the state of the server tells of the other side.                   *)
LEMMA LinkServer ==
  ASSUME NEW c, NEW q, NEW p, NEW s, NEW o, NEW t, Linked(c, q, p, s, o, t),
         c.state \in ClientStates
  PROVE  /\ s.state = "DOWNLOAD_INITIATE_RSP" =>
              /\ c.state = "DOWNLOAD_INITIATE_RSP" /\ Silence(q, p)
              /\ s.finished = c.finished /\ (c.finished => Stored(o, t))
         /\ s.state = "DOWNLOAD_SEGMENT_RSP" =>
              /\ c.state = "DOWNLOAD_SEGMENT_RSP" /\ Silence(q, p) /\ s.finished = c.finished
              /\ IF c.finished THEN Stored(o, t) ELSE Got(s, o) \o c.fifo = t.data
         /\ s.state = "DOWNLOAD_BLK_INITIATE_RSP" =>
              c.state = "DOWNLOAD_BLK_INITIATE_RSP" /\ Silence(q, p)
         /\ s.state = "DOWNLOAD_BLK_END_RSP" =>
              c.state = "DOWNLOAD_BLK_END_RSP" /\ Silence(q, p) /\ Stored(o, t)
         /\ s.state = "UPLOAD_INITIATE_RSP" =>
              c.state \in {"UPLOAD_INITIATE_RSP", "UPLOAD_BLK_INITIATE_RSP"} /\ Silence(q, p)
         /\ s.state = "UPLOAD_SEGMENT_RSP" =>
              c.state = "UPLOAD_SEGMENT_RSP" /\ Silence(q, p) /\ Rcvd(c, t) = Sent(s, o)
         /\ s.state = "UPLOAD_BLK_INITIATE_RSP" =>
              c.state = "UPLOAD_BLK_INITIATE_RSP" /\ Silence(q, p)
         /\ At(s, BlockOut) /\ ~Rests(s) =>
              /\ c.state \in {"UPLOAD_BLK_SUBBLOCK_SREQ", "UPLOAD_BLK_SUBBLOCK_CRSP",
                              "UPLOAD_BLK_END_SREQ"}
              /\ Silence(q, p)
<1>1. At(s, BlockOut) => s.state \in {"UPLOAD_BLK_SUBBLOCK_SREQ", "UPLOAD_BLK_SUBBLOCK_CRSP", "UPLOAD_BLK_END_SREQ"}
  BY DEF At, BlockOut
<1>2. \/ c.state = "IDLE" \/ c.state = "DOWNLOAD_INITIATE_REQ" \/ c.state = "DOWNLOAD_INITIATE_RSP"
      \/ c.state = "DOWNLOAD_SEGMENT_REQ" \/ c.state = "DOWNLOAD_SEGMENT_RSP"
      \/ c.state = "DOWNLOAD_BLK_INITIATE_REQ" \/ c.state = "DOWNLOAD_BLK_INITIATE_RSP"
      \/ c.state = "DOWNLOAD_BLK_SUBBLOCK_REQ" \/ c.state = "DOWNLOAD_BLK_SUBBLOCK_RSP"
      \/ c.state = "DOWNLOAD_BLK_END_REQ" \/ c.state = "DOWNLOAD_BLK_END_RSP"
      \/ c.state = "UPLOAD_INITIATE_REQ" \/ c.state = "UPLOAD_INITIATE_RSP"
      \/ c.state = "UPLOAD_SEGMENT_REQ" \/ c.state = "UPLOAD_SEGMENT_RSP"
      \/ c.state = "UPLOAD_BLK_INITIATE_REQ" \/ c.state = "UPLOAD_BLK_INITIATE_RSP"
      \/ c.state = "UPLOAD_BLK_INITIATE_REQ2" \/ c.state = "UPLOAD_BLK_SUBBLOCK_SREQ"
      \/ c.state = "UPLOAD_BLK_SUBBLOCK_CRSP" \/ c.state = "UPLOAD_BLK_END_SREQ"
      \/ c.state = "UPLOAD_BLK_END_CRSP"
  BY DEF ClientStates, Downloads, Uploads
<1> USE DEF Rests, At
<1>3. CASE c.state \in {"IDLE", "DOWNLOAD_INITIATE_REQ", "DOWNLOAD_BLK_INITIATE_REQ", "UPLOAD_INITIATE_REQ", "UPLOAD_BLK_INITIATE_REQ", "UPLOAD_BLK_END_CRSP"}
  BY <1>1, <1>3 DEF Linked, Silence
<1>4. CASE c.state = "DOWNLOAD_INITIATE_RSP"
  BY <1>1, <1>4 DEF Linked, DownloadInitiated, Lost
<1>5. CASE c.state = "DOWNLOAD_SEGMENT_REQ"
  BY <1>1, <1>5 DEF Linked, Silence
<1>6. CASE c.state = "DOWNLOAD_SEGMENT_RSP"
  BY <1>1, <1>6 DEF Linked, DownloadSegmented, Lost
<1>7. CASE c.state = "DOWNLOAD_BLK_INITIATE_RSP"
  BY <1>1, <1>7 DEF Linked, DownloadBlkInitiated, Lost, BlockIn
<1>8. CASE c.state \in {"DOWNLOAD_BLK_SUBBLOCK_REQ", "DOWNLOAD_BLK_SUBBLOCK_RSP", "DOWNLOAD_BLK_END_REQ"}
  BY <1>1, <1>8 DEF Linked, Lost, BlockIn
<1>9. CASE c.state = "DOWNLOAD_BLK_END_RSP"
  BY <1>1, <1>9 DEF Linked, DownloadBlkEnded, Lost, BlockIn
<1>10. CASE c.state = "UPLOAD_INITIATE_RSP"
  BY <1>1, <1>10 DEF Linked, UploadInitiated1, InitRsp, Lost
<1>11. CASE c.state = "UPLOAD_SEGMENT_REQ"
  BY <1>1, <1>11 DEF Linked, Silence
<1>12. CASE c.state = "UPLOAD_SEGMENT_RSP"
  BY <1>1, <1>12 DEF Linked, UploadSegmented, Lost
<1>13. CASE c.state = "UPLOAD_BLK_INITIATE_RSP"
  BY <1>1, <1>13 DEF Linked, UploadBlkInitiated1, InitRsp, Lost
<1>14. CASE c.state = "UPLOAD_BLK_INITIATE_REQ2"
  BY <1>1, <1>14 DEF Linked, Lost
<1>15. CASE c.state \in {"UPLOAD_BLK_SUBBLOCK_SREQ", "UPLOAD_BLK_SUBBLOCK_CRSP", "UPLOAD_BLK_END_SREQ"}
  BY <1>1, <1>15 DEF Linked, UploadBlock, Lost, BlockOut
<1> QED
  BY <1>2, <1>3, <1>4, <1>5, <1>6, <1>7, <1>8, <1>9, <1>10, <1>11, <1>12, <1>13, <1>14, <1>15

(* What the request under way tells of the two sides.                      *)
LEMMA LinkRequest ==
  ASSUME NEW c, NEW q, NEW p, NEW s, NEW o, NEW t, Linked(c, q, p, s, o, t),
         c.state \in ClientStates, q.cs \in Requests
  PROVE  /\ p = None
         /\ q.cs = "dlInit" =>
              /\ c.state = "DOWNLOAD_INITIATE_RSP" /\ Rests(s) /\ q.expedited = c.finished
              /\ c.finished => q.data = t.data /\ Len(t.data) <= 1
         /\ q.cs = "dlSeg" =>
              /\ c.state = "DOWNLOAD_SEGMENT_RSP" /\ q.last = c.finished
              /\ Rests(s) \/ (s.state = "DOWNLOAD_SEGMENT_REQ" /\ (Got(s, o) \o q.data) \o c.fifo = t.data)
         /\ q.cs = "dlBlkInit" => c.state = "DOWNLOAD_BLK_INITIATE_RSP" /\ Rests(s)
         /\ q.cs = "dlBlkEnd" =>
              /\ c.state = "DOWNLOAD_BLK_END_RSP" /\ q.crc = t.data
              /\ Rests(s) \/ At(s, BlockIn)
         /\ q.cs = "ulInit" => c.state = "UPLOAD_INITIATE_RSP" /\ Rests(s)
         /\ q.cs = "ulSeg" =>
              /\ c.state = "UPLOAD_SEGMENT_RSP"
              /\ Rests(s) \/ (s.state = "UPLOAD_SEGMENT_REQ" /\ Rcvd(c, t) = Sent(s, o))
         /\ q.cs = "ulBlkInit" => c.state = "UPLOAD_BLK_INITIATE_RSP" /\ Rests(s)
         /\ q.cs = "ulBlkStart" =>
              /\ c.state \in {"UPLOAD_BLK_SUBBLOCK_SREQ", "UPLOAD_BLK_SUBBLOCK_CRSP",
                              "UPLOAD_BLK_END_SREQ"}
              /\ Rests(s) \/ s.state = "UPLOAD_BLK_INITIATE_REQ2"
<1>1. q # None
  BY DEF None, Requests
<1>2. \/ c.state = "IDLE" \/ c.state = "DOWNLOAD_INITIATE_REQ" \/ c.state = "DOWNLOAD_INITIATE_RSP"
      \/ c.state = "DOWNLOAD_SEGMENT_REQ" \/ c.state = "DOWNLOAD_SEGMENT_RSP"
      \/ c.state = "DOWNLOAD_BLK_INITIATE_REQ" \/ c.state = "DOWNLOAD_BLK_INITIATE_RSP"
      \/ c.state = "DOWNLOAD_BLK_SUBBLOCK_REQ" \/ c.state = "DOWNLOAD_BLK_SUBBLOCK_RSP"
      \/ c.state = "DOWNLOAD_BLK_END_REQ" \/ c.state = "DOWNLOAD_BLK_END_RSP"
      \/ c.state = "UPLOAD_INITIATE_REQ" \/ c.state = "UPLOAD_INITIATE_RSP"
      \/ c.state = "UPLOAD_SEGMENT_REQ" \/ c.state = "UPLOAD_SEGMENT_RSP"
      \/ c.state = "UPLOAD_BLK_INITIATE_REQ" \/ c.state = "UPLOAD_BLK_INITIATE_RSP"
      \/ c.state = "UPLOAD_BLK_INITIATE_REQ2" \/ c.state = "UPLOAD_BLK_SUBBLOCK_SREQ"
      \/ c.state = "UPLOAD_BLK_SUBBLOCK_CRSP" \/ c.state = "UPLOAD_BLK_END_SREQ"
      \/ c.state = "UPLOAD_BLK_END_CRSP"
  BY DEF ClientStates, Downloads, Uploads
<1>3. CASE c.state \in {"IDLE", "DOWNLOAD_INITIATE_REQ", "DOWNLOAD_BLK_INITIATE_REQ",
            "UPLOAD_INITIATE_REQ", "UPLOAD_BLK_INITIATE_REQ", "UPLOAD_BLK_END_CRSP"}
  BY <1>1, <1>3 DEF Linked, Silence
<1>4. CASE c.state = "DOWNLOAD_INITIATE_RSP"
  BY <1>1, <1>4 DEF Linked, DownloadInitiated, Lost, Silence
<1>5. CASE c.state = "DOWNLOAD_SEGMENT_REQ"
  BY <1>1, <1>5 DEF Linked, Silence
<1>6. CASE c.state = "DOWNLOAD_SEGMENT_RSP"
  BY <1>1, <1>6 DEF Linked, DownloadSegmented, Lost, Silence
<1>7. CASE c.state = "DOWNLOAD_BLK_INITIATE_RSP"
  BY <1>1, <1>7 DEF Linked, DownloadBlkInitiated, Lost, Silence
<1>8. CASE c.state \in {"DOWNLOAD_BLK_SUBBLOCK_REQ", "DOWNLOAD_BLK_SUBBLOCK_RSP",
            "DOWNLOAD_BLK_END_REQ"}
  BY <1>1, <1>8 DEF Linked, Lost, Silence
<1>9. CASE c.state = "DOWNLOAD_BLK_END_RSP"
  BY <1>1, <1>9 DEF Linked, DownloadBlkEnded, Lost, Silence
<1>10. CASE c.state = "UPLOAD_INITIATE_RSP"
  BY <1>1, <1>10 DEF Linked, UploadInitiated1, InitRsp, Lost, Silence
<1>11. CASE c.state = "UPLOAD_SEGMENT_REQ"
  BY <1>1, <1>11 DEF Linked, Silence
<1>12. CASE c.state = "UPLOAD_SEGMENT_RSP"
  BY <1>1, <1>12 DEF Linked, UploadSegmented, Lost, Silence
<1>13. CASE c.state = "UPLOAD_BLK_INITIATE_RSP"
  BY <1>1, <1>13 DEF Linked, UploadBlkInitiated1, InitRsp, Lost, Silence
<1>14. CASE c.state = "UPLOAD_BLK_INITIATE_REQ2"
  BY <1>1, <1>14 DEF Linked, Lost, Silence
<1>15. CASE c.state \in {"UPLOAD_BLK_SUBBLOCK_SREQ", "UPLOAD_BLK_SUBBLOCK_CRSP",
            "UPLOAD_BLK_END_SREQ"}
  BY <1>1, <1>15 DEF Linked, UploadBlock, Lost, Silence
<1> QED
  BY <1>2, <1>3, <1>4, <1>5, <1>6, <1>7, <1>8, <1>9, <1>10, <1>11, <1>12, <1>13, <1>14, <1>15

(* The timers do not touch the data of a transfer.                         *)
LEMMA TimersIs ==
  ASSUME NEW s, DOMAIN s = DOMAIN Idle, s.isNew \in BOOLEAN, NEW e
  PROVE  LET x == Timers(s, e) IN
         /\ Alike(s, x) /\ x.pc = s.pc /\ x.isNew = s.isNew
         /\ (x.rxNew = s.rxNew /\ x.rx = s.rx) \/ (x.rxNew = FALSE /\ x.rx = None)
         /\ \/ x.state \in {s.state, "ABORT"}
            \/ s.state = "DOWNLOAD_BLK_SUBBLOCK_REQ" /\ x.state = "DOWNLOAD_BLK_SUBBLOCK_RSP"
<1> DEFINE timer == IF s.timer < SRV_TIMEOUT THEN s.timer + e ELSE s.timer
           t == IF timer >= SRV_TIMEOUT THEN Aborted([s EXCEPT !.timer = timer], "TIMEOUT")
                ELSE [s EXCEPT !.timer = timer]
           blk == t.blkTimer + e
           x == Timers(s, e)
<1>0. /\ DOMAIN s = {"state", "pc", "seen", "isNew", "code", "toggle", "finished", "sizeInd",
                     "sizeTran", "buf", "rd", "off", "len", "timer", "blkTimer", "blksize",
                     "seqno", "crc", "rxNew", "rx"}
  BY DEF Idle
<1> HIDE DEF timer
<1>1. /\ Alike(s, t) /\ t.pc = s.pc /\ t.isNew = s.isNew /\ t.rxNew = s.rxNew /\ t.rx = s.rx
      /\ t.state \in {s.state, "ABORT"} /\ DOMAIN t = DOMAIN s
  BY <1>0 DEF Aborted, Alike
<1>2. x = IF t.state # "DOWNLOAD_BLK_SUBBLOCK_REQ" THEN t
          ELSE IF blk >= SRV_BLK_TIMEOUT
               THEN [t EXCEPT !.blkTimer = blk, !.rxNew = FALSE, !.rx = None,
                              !.state = "DOWNLOAD_BLK_SUBBLOCK_RSP"]
               ELSE [t EXCEPT !.blkTimer = blk]
  BY DEF Timers, timer
<1> HIDE DEF t, blk, x
<1>3. CASE t.state # "DOWNLOAD_BLK_SUBBLOCK_REQ"
  BY <1>1, <1>2, <1>3 DEF x
<1>4. CASE t.state = "DOWNLOAD_BLK_SUBBLOCK_REQ" /\ blk >= SRV_BLK_TIMEOUT
  <2>1. x = [t EXCEPT !.blkTimer = blk, !.rxNew = FALSE, !.rx = None,
                      !.state = "DOWNLOAD_BLK_SUBBLOCK_RSP"]
    BY <1>2, <1>4
  <2>2. /\ Alike(t, x) /\ x.pc = t.pc /\ x.isNew = t.isNew /\ x.rxNew = FALSE /\ x.rx = None
        /\ x.state = "DOWNLOAD_BLK_SUBBLOCK_RSP"
    BY <1>0, <1>1, <2>1 DEF Alike
  <2> QED
    BY <1>1, <1>4, <2>2 DEF x, Alike
<1>5. CASE t.state = "DOWNLOAD_BLK_SUBBLOCK_REQ" /\ ~(blk >= SRV_BLK_TIMEOUT)
  <2>1. x = [t EXCEPT !.blkTimer = blk]
    BY <1>2, <1>5
  <2>2. /\ Alike(t, x) /\ x.pc = t.pc /\ x.isNew = t.isNew /\ x.rxNew = t.rxNew /\ x.rx = t.rx
        /\ x.state = t.state
    BY <1>0, <1>1, <2>1 DEF Alike
  <2> QED
    BY <1>1, <1>5, <2>2 DEF x, Alike
<1> QED
  BY <1>3, <1>4, <1>5

(* A server after the timers fits as well as before.                       *)
LEMMA TimedIs ==
  ASSUME NEW c, NEW q, NEW p, NEW s, NEW o, NEW t, Linked(c, q, p, s, o, t), Core(s, o),
         NEW x, Alike(s, x),
         \/ x.state \in {s.state, "ABORT"}
         \/ s.state = "DOWNLOAD_BLK_SUBBLOCK_REQ" /\ x.state = "DOWNLOAD_BLK_SUBBLOCK_RSP"
  PROVE  Linked(c, q, p, x, o, t) /\ Core(x, o)
<1>1. CASE x.state = s.state
  BY <1>1, LinkSame, CoreSame
<1>2. CASE x.state = "ABORT"
  <2>1. Core(x, o) /\ Rests(x)
    BY <1>2, CoreRests DEF Alike, Core
  <2> QED
    BY <2>1, LinkRests
<1>3. CASE s.state = "DOWNLOAD_BLK_SUBBLOCK_REQ" /\ x.state = "DOWNLOAD_BLK_SUBBLOCK_RSP"
  <2>1. At(s, BlockIn) /\ At(x, BlockIn)
    BY <1>3 DEF At, BlockIn
  <2>2. Linked(c, q, p, x, o, t)
    BY <2>1, LinkBlock
  <2>3. Reads(x, o) /\ Sends(x, o)
    BY <1>3 DEF Core, Reads, Sends, Alike, At, BlockIn, SegmentsIn, Out, BlockOut
  <2> QED
    BY <1>3, <2>2, <2>3 DEF Core, Alike, CO_SDO_state_t
<1> QED
  BY <1>1, <1>2, <1>3

(* What a request under way tells of the two sides.                        *)
Requested(c, q, p, s, o, t) ==
    /\ p = None
    /\ q.cs = "dlInit" =>
         /\ c.state = "DOWNLOAD_INITIATE_RSP" /\ Rests(s) /\ q.expedited = c.finished
         /\ c.finished => q.data = t.data /\ Len(t.data) <= 1
    /\ q.cs = "dlSeg" =>
         /\ c.state = "DOWNLOAD_SEGMENT_RSP" /\ q.last = c.finished
         /\ Rests(s) \/ (s.state = "DOWNLOAD_SEGMENT_REQ" /\ (Got(s, o) \o q.data) \o c.fifo = t.data)
    /\ q.cs = "dlBlkInit" => c.state = "DOWNLOAD_BLK_INITIATE_RSP" /\ Rests(s)
    /\ q.cs = "dlBlkEnd" =>
         /\ c.state = "DOWNLOAD_BLK_END_RSP" /\ q.crc = t.data
         /\ Rests(s) \/ At(s, BlockIn)
    /\ q.cs = "ulInit" => c.state = "UPLOAD_INITIATE_RSP" /\ Rests(s)
    /\ q.cs = "ulSeg" =>
         /\ c.state = "UPLOAD_SEGMENT_RSP"
         /\ Rests(s) \/ (s.state = "UPLOAD_SEGMENT_REQ" /\ Rcvd(c, t) = Sent(s, o))
    /\ q.cs = "ulBlkInit" => c.state = "UPLOAD_BLK_INITIATE_RSP" /\ Rests(s)
    /\ q.cs = "ulBlkStart" =>
         /\ c.state \in {"UPLOAD_BLK_SUBBLOCK_SREQ", "UPLOAD_BLK_SUBBLOCK_CRSP",
                         "UPLOAD_BLK_END_SREQ"}
         /\ Rests(s) \/ s.state = "UPLOAD_BLK_INITIATE_REQ2"

(* With a request under way it is the one the client has sent.             *)
LEMMA RequestedIs ==
  ASSUME NEW c, NEW q, NEW p, NEW s, NEW o, NEW t, Linked(c, q, p, s, o, t),
         c.state \in ClientStates, q.cs \in Requests
  PROVE  Requested(c, q, p, s, o, t)
  BY LinkRequest DEF Requested

(* What a call does to a server whose timers it has compared.              *)
Ticked(s, x) ==
  /\ Alike(s, x) /\ x.pc = s.pc /\ x.isNew = s.isNew
  /\ (x.rxNew = s.rxNew /\ x.rx = s.rx) \/ (x.rxNew = FALSE /\ x.rx = None)
  /\ \/ x.state \in {s.state, "ABORT"}
     \/ s.state = "DOWNLOAD_BLK_SUBBLOCK_REQ" /\ x.state = "DOWNLOAD_BLK_SUBBLOCK_RSP"

(* The timers of the server do not touch the data of a transfer.           *)
LEMMA TickedIs ==
  ASSUME NEW s, DOMAIN s = DOMAIN Idle, s.isNew \in BOOLEAN, NEW e
  PROVE  Ticked(s, Timers(s, e))
  BY TimersIs DEF Ticked
-----------------------------------------------------------------------------
(* The steps of CO_SDOserver_process, but for the handlers of a message.   *)

(* Server and client fit, with the request q and the response p under way. *)
Fits(q, p) ==
  /\ Whole(od) /\ ServerOk(srv, od) /\ ClientOk(cli, transfer) /\ BusInv
  /\ Carries(Requests, srv.rxNew, srv.rx, toServer, q)
  /\ Carries(Responses, cli.rxNew, cli.rx, toClient, p)
  /\ Linked(cli, q, p, srv, od, transfer)

(* A client that is sound is in one of its states.                         *)
LEMMA ClientStateIs ==
  ASSUME NEW c, NEW t, ClientOk(c, t)
  PROVE  c.state \in ClientStates
  BY DEF ClientOk, ClientStates

(* A step of the server keeps the two fitting, if it leaves the mailbox or *)
(* clears it, and sends at most one frame.                                 *)
LEMMA ServerMoves ==
  ASSUME NEW q, NEW p, Fits(q, p), UNCHANGED <<cli, transfer, toServer>>, ServerOk(srv', od'),
         NEW q2, \/ srv'.rxNew = srv.rxNew /\ srv'.rx = srv.rx /\ q2 = q
                 \/ srv'.rxNew = FALSE /\ q2 = IF srv.rxNew /\ srv.rx.cs \in Requests THEN None ELSE q,
         NEW p2, NEW f, \/ toClient' = toClient /\ p2 = p
                        \/ /\ toClient' = Append(toClient, f) /\ FrameOk(f)
                           /\ \/ f.cs \notin Responses /\ p2 = p
                              \/ f.cs \in Responses /\ p = None /\ p2 = f,
         Linked(cli, q2, p2, srv', od', transfer)
  PROVE  Joint'
<1>1. ClientOk(cli', transfer')
  BY DEF Fits
<1>2. BusOk(Requests, srv.rxNew, srv.rx, toServer) /\ BusOk(Responses, cli.rxNew, cli.rx, toClient)
      /\ \A i \in DOMAIN toServer : toServer[i].cs # "abort"
  BY DEF Fits, BusInv
<1>3. BusOk(Requests, srv'.rxNew, srv'.rx, toServer')
  BY <1>2 DEF BusOk
<1>4. BusOk(Responses, cli'.rxNew, cli'.rx, toClient')
  <2>1. CASE toClient' = toClient
    BY <1>2, <2>1
  <2>2. CASE toClient' = Append(toClient, f) /\ FrameOk(f)
    BY <1>2, <2>2, BusAppend
  <2> QED
    BY <2>1, <2>2
<1>5. BusInv'
  BY <1>2, <1>3, <1>4 DEF BusInv
<1>6. Carries(Requests, srv'.rxNew, srv'.rx, toServer', q2)
  <2>1. CASE srv'.rxNew = srv.rxNew /\ srv'.rx = srv.rx /\ q2 = q
    BY <2>1 DEF Fits
  <2>2. CASE srv'.rxNew = FALSE /\ q2 = IF srv.rxNew /\ srv.rx.cs \in Requests THEN None ELSE q
    <3>1. Carries(Requests, srv.rxNew, srv.rx, toServer, q)
      BY DEF Fits
    <3>2. Carries(Requests, FALSE, srv'.rx, toServer, q2)
      BY <2>2, <3>1, CarriesClear
    <3> QED
      BY <2>2, <3>2
  <2> QED
    BY <2>1, <2>2
<1>7. Carries(Responses, cli'.rxNew, cli'.rx, toClient', p2)
  <2>1. CASE toClient' = toClient /\ p2 = p
    BY <2>1 DEF Fits
  <2>2. CASE /\ toClient' = Append(toClient, f)
             /\ (f.cs \notin Responses /\ p2 = p) \/ (f.cs \in Responses /\ p = None /\ p2 = f)
    <3>1. Carries(Responses, cli.rxNew, cli.rx, toClient, p) /\ IsSeq(toClient)
      BY <1>2 DEF Fits, BusOk
    <3>2. None.cs \notin Responses
      BY DEF None, Responses
    <3>3. Carries(Responses, cli.rxNew, cli.rx, Append(toClient, f), p2)
      BY <2>2, <3>1, <3>2, CarriesAppend
    <3> QED
      BY <2>2, <3>3
  <2> QED
    BY <2>1, <2>2
<1>8. q2 \in Held(srv'.rxNew, srv'.rx, toServer') /\ p2 \in Held(cli'.rxNew, cli'.rx, toClient')
  BY <1>6, <1>7, CarriesIs
<1>9. Linked(cli', q2, p2, srv', od', transfer')
  OBVIOUS
<1>10. LinkInv'
  BY <1>6, <1>7, <1>8, <1>9 DEF LinkInv
<1> QED
  BY <1>1, <1>5, <1>10 DEF Joint

(* The invariant names the request and the response under way.             *)
LEMMA JointFits ==
  ASSUME Whole(od), Joint
  PROVE  \E q, p : Fits(q, p)
  BY DEF Joint, LinkInv, Fits

(* The switch statement that sends has read the state as it is.            *)
LEMMA SendingIs ==
  ASSUME NEW s, s = srv, Steps(s), NEW st, Sending(st),
         st \notin {"DOWNLOAD_BLK_SUBBLOCK_REQ", "UPLOAD_BLK_END_CRSP"}
  PROVE  s.state = st /\ s.pc = "send"
  BY DEF Sending, Steps

(* An answer of the server keeps the two fitting if the client fits its    *)
(* frame and its next state.                                               *)
LEMMA AnswersIs ==
  ASSUME NEW q, NEW p, Fits(q, p), UNCHANGED <<cli, transfer>>,
         NEW st, NEW s, NEW f, Answers(st, s, f), DOMAIN s = DOMAIN Idle,
         (s.rxNew = srv.rxNew /\ s.rx = srv.rx) \/ s.rxNew = FALSE,
         FrameOk(f), NEW p2, \/ f.cs \notin Responses /\ p2 = p
                             \/ f.cs \in Responses /\ p = None /\ p2 = f,
         st = "IDLE" => Linked(cli, q, p2, Idle, od, transfer),
         NEW x, x = [s EXCEPT !.state = st, !.pc = "out", !.seen = "IDLE", !.code = "none"],
         st # "IDLE" => Core(x, od) /\ Linked(cli, q, p2, x, od, transfer)
  PROVE  Whole(od') /\ Joint'
<1>0. /\ DOMAIN s = {"state", "pc", "seen", "isNew", "code", "toggle", "finished", "sizeInd",
                     "sizeTran", "buf", "rd", "off", "len", "timer", "blkTimer", "blksize",
                     "seqno", "crc", "rxNew", "rx"}
  BY DEF Idle
<1>1. /\ toClient' = Append(toClient, f) /\ od' = od /\ toServer' = toServer
      /\ srv' = IF st = "IDLE" THEN Rest(s) ELSE x
  BY DEF Answers
<1>2. Whole(od')
  BY <1>1 DEF Fits
<1>3. CASE st = "IDLE"
  <2>1. srv' = Rest(s)
    BY <1>1, <1>3
  <2>2. /\ DOMAIN srv' = DOMAIN Idle /\ srv'.finished = FALSE /\ srv'.isNew = FALSE
        /\ srv'.state = "IDLE" /\ srv'.pc = "out" /\ srv'.rxNew = s.rxNew /\ srv'.rx = s.rx
    BY <2>1 DEF Rest, Idle
  <2>3. Core(srv', od') /\ Rests(srv')
    BY <2>2, CoreRests
  <2>4. ServerOk(srv', od')
    BY <2>2, <2>3 DEF ServerOk, Steps
  <2>5. Linked(cli, q, p2, srv', od', transfer) /\ Linked(cli, None, p2, srv', od', transfer)
    BY <1>1, <1>3, <2>3, LinkRests, LinkLoses
  <2>6. CASE s.rxNew = srv.rxNew /\ s.rx = srv.rx
    BY <1>1, <1>2, <2>2, <2>4, <2>5, <2>6, ServerMoves
  <2>7. CASE s.rxNew = FALSE
    <3> DEFINE q2 == IF srv.rxNew /\ srv.rx.cs \in Requests THEN None ELSE q
    <3>1. Linked(cli, q2, p2, srv', od', transfer)
      BY <2>5
    <3> HIDE DEF q2
    <3>2. srv'.rxNew = FALSE /\ q2 = IF srv.rxNew /\ srv.rx.cs \in Requests THEN None ELSE q
      BY <2>2, <2>7 DEF q2
    <3> QED
      BY <1>1, <1>2, <2>4, <3>1, <3>2, ServerMoves
  <2> QED
    BY <1>2, <2>6, <2>7
<1>4. CASE st # "IDLE"
  <2>1. srv' = x
    BY <1>1, <1>4
  <2>2. srv'.pc = "out" /\ srv'.rxNew = s.rxNew /\ srv'.rx = s.rx
    BY <1>0, <2>1
  <2>4. ServerOk(srv', od')
    BY <1>1, <1>4, <2>1, <2>2 DEF ServerOk, Steps
  <2>5. Linked(cli, q, p2, srv', od', transfer) /\ Linked(cli, None, p2, srv', od', transfer)
    BY <1>1, <1>4, <2>1, LinkLoses
  <2>6. CASE s.rxNew = srv.rxNew /\ s.rx = srv.rx
    BY <1>1, <1>2, <2>2, <2>4, <2>5, <2>6, ServerMoves
  <2>7. CASE s.rxNew = FALSE
    <3> DEFINE q2 == IF srv.rxNew /\ srv.rx.cs \in Requests THEN None ELSE q
    <3>1. Linked(cli, q2, p2, srv', od', transfer)
      BY <2>5
    <3> HIDE DEF q2
    <3>2. srv'.rxNew = FALSE /\ q2 = IF srv.rxNew /\ srv.rx.cs \in Requests THEN None ELSE q
      BY <2>2, <2>7 DEF q2
    <3> QED
      BY <1>1, <1>2, <2>4, <3>1, <3>2, ServerMoves
  <2> QED
    BY <1>2, <2>6, <2>7
<1> QED
  BY <1>3, <1>4

(* The steps of the server that send nothing.                              *)
LEMMA EnterKeeps ==
  ASSUME NEW q, NEW p, Fits(q, p), UNCHANGED <<cli, transfer>>, Enter PROVE Whole(od') /\ Joint'
<1>0. Core(srv, od) /\ Steps(srv) /\ DOMAIN srv = DOMAIN Idle /\ srv.isNew \in BOOLEAN
      /\ srv.rxNew \in BOOLEAN
  BY DEF Fits, ServerOk, Core, BusInv, BusOk
<1>1. /\ srv' = [srv EXCEPT !.pc = "handle", !.isNew = srv.rxNew, !.seen = srv.state, !.code = "none"]
      /\ srv.pc = "out" /\ od' = od /\ toServer' = toServer /\ toClient' = toClient
  BY DEF Enter
<1>2. /\ Alike(srv, srv') /\ srv'.state = srv.state /\ srv'.pc = "handle" /\ srv'.seen = srv'.state
      /\ srv'.isNew = srv.rxNew /\ srv'.rxNew = srv.rxNew /\ srv'.rx = srv.rx
  BY <1>0, <1>1 DEF Alike, Idle
<1>3. Core(srv', od') /\ Linked(cli, q, p, srv', od', transfer)
  BY <1>0, <1>1, <1>2, CoreSame, LinkSame DEF Fits
<1>4. ServerOk(srv', od')
  BY <1>2, <1>3 DEF ServerOk, Steps
<1>5. Joint'
  BY <1>1, <1>2, <1>3, <1>4, ServerMoves
<1> QED
  BY <1>1, <1>5 DEF Fits

(* CO_SDOserver_process without a message.                                 *)
LEMMA HandleTimersKeeps ==
  ASSUME NEW q, NEW p, Fits(q, p), UNCHANGED <<cli, transfer>>, HandleTimers
  PROVE  Whole(od') /\ Joint'
<1>0. Core(srv, od) /\ Steps(srv) /\ DOMAIN srv = DOMAIN Idle /\ srv.isNew \in BOOLEAN
  BY DEF Fits, ServerOk, Core
<1> DEFINE t == Timers(srv, 1)
<1>1. /\ srv' = [t EXCEPT !.pc = "send", !.seen = t.state]
      /\ srv.pc = "handle" /\ od' = od /\ toServer' = toServer /\ toClient' = toClient
  BY DEF HandleTimers
<1>2. /\ Alike(srv, t) /\ t.pc = srv.pc /\ t.isNew = srv.isNew
      /\ (t.rxNew = srv.rxNew /\ t.rx = srv.rx) \/ (t.rxNew = FALSE /\ t.rx = None)
      /\ \/ t.state \in {srv.state, "ABORT"}
         \/ srv.state = "DOWNLOAD_BLK_SUBBLOCK_REQ" /\ t.state = "DOWNLOAD_BLK_SUBBLOCK_RSP"
  BY <1>0, TimersIs
<1> HIDE DEF t
<1>3. /\ Alike(srv, srv') /\ srv'.state = t.state /\ srv'.pc = "send" /\ srv'.seen = srv'.state
      /\ srv'.rxNew = t.rxNew /\ srv'.rx = t.rx
  BY <1>0, <1>1, <1>2 DEF Alike, Idle
<1>4. Core(srv', od') /\ Linked(cli, q, p, srv', od', transfer)
  BY <1>0, <1>1, <1>2, <1>3, TimedIs DEF Fits
<1>5. ServerOk(srv', od')
  BY <1>3, <1>4 DEF ServerOk, Steps
<1>6. Linked(cli, None, p, srv', od', transfer)
  BY <1>4, LinkLoses
<1>7. CASE srv'.rxNew = srv.rxNew /\ srv'.rx = srv.rx
  <2>1. Joint'
    BY <1>1, <1>4, <1>5, <1>7, ServerMoves
  <2> QED
    BY <1>1, <2>1 DEF Fits
<1>8. CASE srv'.rxNew = FALSE
  <2> DEFINE q2 == IF srv.rxNew /\ srv.rx.cs \in Requests THEN None ELSE q
  <2>1. Linked(cli, q2, p, srv', od', transfer)
    BY <1>4, <1>6
  <2>2. srv'.rxNew = FALSE /\ q2 = IF srv.rxNew /\ srv.rx.cs \in Requests THEN None ELSE q
    BY <1>8
  <2> HIDE DEF q2
  <2>3. Joint'
    BY <1>1, <1>5, <2>1, <2>2, ServerMoves
  <2> QED
    BY <1>1, <2>3 DEF Fits
<1> QED
  BY <1>2, <1>3, <1>7, <1>8

(* The answer before is still in its buffer.                               *)
LEMMA BufferFullKeeps ==
  ASSUME NEW q, NEW p, Fits(q, p), UNCHANGED <<cli, transfer>>, BufferFull
  PROVE  Whole(od') /\ Joint'
<1>0. Core(srv, od) /\ DOMAIN srv = DOMAIN Idle /\ srv.isNew \in BOOLEAN
  BY DEF Fits, ServerOk, Core
<1>1. /\ srv' = [srv EXCEPT !.pc = "out"] /\ srv.pc = "send"
      /\ od' = od /\ toServer' = toServer /\ toClient' = toClient
  BY DEF BufferFull
<1>2. /\ Alike(srv, srv') /\ srv'.state = srv.state /\ srv'.pc = "out"
      /\ srv'.rxNew = srv.rxNew /\ srv'.rx = srv.rx
  BY <1>0, <1>1 DEF Alike, Idle
<1>3. Core(srv', od') /\ Linked(cli, q, p, srv', od', transfer)
  BY <1>0, <1>1, <1>2, CoreSame, LinkSame DEF Fits
<1>4. ServerOk(srv', od')
  BY <1>2, <1>3 DEF ServerOk, Steps
<1>5. Joint'
  BY <1>1, <1>2, <1>3, <1>4, ServerMoves
<1> QED
  BY <1>1, <1>5 DEF Fits

(* A state that has nothing to send.                                       *)
LEMMA SendNothingKeeps ==
  ASSUME NEW q, NEW p, Fits(q, p), UNCHANGED <<cli, transfer>>, SendNothing
  PROVE  Whole(od') /\ Joint'
<1>0. Core(srv, od) /\ DOMAIN srv = DOMAIN Idle /\ srv.isNew \in BOOLEAN
  BY DEF Fits, ServerOk, Core
<1>1. /\ srv' = IF srv.state = "IDLE" THEN Rest(srv) ELSE [srv EXCEPT !.pc = "out", !.seen = "IDLE"]
      /\ srv.pc = "send" /\ od' = od /\ toServer' = toServer /\ toClient' = toClient
  BY DEF SendNothing, Sending
<1>2. /\ srv'.pc = "out" /\ srv'.rxNew = srv.rxNew /\ srv'.rx = srv.rx
      /\ Core(srv', od') /\ Linked(cli, q, p, srv', od', transfer)
  <2>1. CASE srv.state = "IDLE"
    <3>1. /\ DOMAIN srv' = DOMAIN Idle /\ srv'.finished = FALSE /\ srv'.isNew = FALSE
          /\ srv'.state = "IDLE" /\ srv'.pc = "out" /\ srv'.rxNew = srv.rxNew /\ srv'.rx = srv.rx
      BY <1>1, <2>1 DEF Rest, Idle
    <3>2. Core(srv', od') /\ Rests(srv')
      BY <3>1, CoreRests
    <3> QED
      BY <1>1, <3>1, <3>2, LinkRests DEF Fits
  <2>2. CASE srv.state # "IDLE"
    <3>1. /\ Alike(srv, srv') /\ srv'.state = srv.state /\ srv'.pc = "out"
          /\ srv'.rxNew = srv.rxNew /\ srv'.rx = srv.rx
      BY <1>0, <1>1, <2>2 DEF Alike, Idle
    <3> QED
      BY <1>0, <1>1, <3>1, CoreSame, LinkSame DEF Fits
  <2> QED
    BY <2>1, <2>2
<1>4. ServerOk(srv', od')
  BY <1>2 DEF ServerOk, Steps
<1>5. Joint'
  BY <1>1, <1>2, <1>4, ServerMoves
<1> QED
  BY <1>1, <1>5 DEF Fits

(* The state that follows the end of a block upload.                       *)
LEMMA UploadBlkEndSentKeeps ==
  ASSUME NEW q, NEW p, Fits(q, p), UNCHANGED <<cli, transfer>>, UploadBlkEndSent
  PROVE  Whole(od') /\ Joint'
<1>0. Core(srv, od) /\ DOMAIN srv = DOMAIN Idle /\ srv.isNew \in BOOLEAN /\ srv.finished \in BOOLEAN
  BY DEF Fits, ServerOk, Core
<1>1. /\ srv' = [srv EXCEPT !.state = "UPLOAD_BLK_END_CRSP", !.pc = "out", !.seen = "IDLE", !.code = "none"]
      /\ od' = od /\ toServer' = toServer /\ toClient' = toClient
  BY DEF UploadBlkEndSent
<1>2. /\ DOMAIN srv' = DOMAIN Idle /\ srv'.finished \in BOOLEAN /\ srv'.isNew \in BOOLEAN
      /\ srv'.state = "UPLOAD_BLK_END_CRSP" /\ srv'.pc = "out"
      /\ srv'.rxNew = srv.rxNew /\ srv'.rx = srv.rx
  BY <1>0, <1>1 DEF Idle
<1>3. Core(srv', od') /\ Rests(srv')
  BY <1>2, CoreRests
<1>4. Linked(cli, q, p, srv', od', transfer)
  BY <1>1, <1>3, LinkRests DEF Fits
<1>5. ServerOk(srv', od')
  BY <1>2, <1>3 DEF ServerOk, Steps
<1>6. Joint'
  BY <1>1, <1>2, <1>4, <1>5, ServerMoves
<1> QED
  BY <1>1, <1>6 DEF Fits

(* The network leaves the states in which the server works.                *)
LEMMA NotOperationalKeeps ==
  ASSUME NEW q, NEW p, Fits(q, p), UNCHANGED <<cli, transfer>>, NotOperational
  PROVE  Whole(od') /\ Joint'
<1>1. srv' = Idle /\ od' = od /\ toServer' = toServer /\ toClient' = toClient
  BY DEF NotOperational
<1>2. srv'.rxNew = FALSE
  BY <1>1 DEF Idle
<1>3. ServerOk(srv', od') /\ Rests(srv')
  BY <1>1, IdleIs DEF ServerOk
<1> DEFINE q2 == IF srv.rxNew /\ srv.rx.cs \in Requests THEN None ELSE q
<1>4. Linked(cli, q2, p, srv', od', transfer)
  BY <1>1, <1>3, LinkRests, LinkLoses DEF Fits
<1>5. srv'.rxNew = FALSE /\ q2 = IF srv.rxNew /\ srv.rx.cs \in Requests THEN None ELSE q
  BY <1>2
<1> HIDE DEF q2
<1>6. Joint'
  BY <1>1, <1>3, <1>4, <1>5, ServerMoves
<1> QED
  BY <1>1, <1>6 DEF Fits

(* Of D units O have been read, the last L of them into the buffer, and K   *)
(* of these been sent.                                                     *)
LEMMA AheadNumbers ==
  ASSUME NEW D \in Nat, NEW O \in 0..D, NEW L \in 0..O, NEW K \in 0..L
  PROVE  /\ O \in Nat /\ L \in Nat /\ K \in Nat /\ O - L + K \in 0..D
         /\ O - L + 1 \in 1..D + 1 /\ O \in (O - L + 1 - 1)..D /\ O - (O - L + 1) + 1 = L
         /\ L - K # 0 => /\ K + 1 \in 1..L /\ O - L + K + 1 \in 1..D
                         /\ O - L + 1 + (K + 1) - 1 = O - L + K + 1
<1>1. O \in Nat /\ L \in Nat /\ K \in Nat /\ O <= D /\ L <= O /\ K <= L
  OBVIOUS
<1> QED
  BY <1>1

(* The numbers of a server that has read ahead.                            *)
LEMMA AheadIs ==
  ASSUME NEW o, Whole(o), NEW s, Ahead(s, o)
  PROVE  LET D == LENGTH  O == s.off  L == Len(s.buf)  K == s.rd IN
         /\ D \in Nat /\ O \in Nat /\ L \in Nat /\ K \in Nat
         /\ O \in 0..D /\ L \in 0..O /\ K \in 0..L /\ (s.finished => Ends(o, O) /\ O \in 1..LENGTH)
         /\ O - L + K \in 0..D
         /\ O - L + 1 \in 1..D + 1 /\ O \in (O - L + 1 - 1)..D /\ O - (O - L + 1) + 1 = L
         /\ L - K # 0 => /\ K + 1 \in 1..L /\ O - L + K + 1 \in 1..D
                         /\ O - L + 1 + (K + 1) - 1 = O - L + K + 1
         /\ s.buf = SubSeq(o.value, O - L + 1, O)
<1> DEFINE D == LENGTH  O == s.off  L == Len(s.buf)  K == s.rd
<1>1. D \in Nat
  BY SdoAssumption
<1>2. O \in 0..D /\ L \in 0..O /\ K \in 0..L
  BY DEF Ahead
<1>3. (s.finished => Ends(o, O) /\ O \in 1..LENGTH) /\ s.buf = SubSeq(o.value, O - L + 1, O)
  <2>1. s.buf = SubSeq(o.value, O - L + 1, O) /\ (s.finished => Ends(o, O) /\ O > 0)
    BY DEF Ahead
  <2>2. O > 0 => O \in 1..LENGTH
    BY <1>1, <1>2
  <2> QED
    BY <2>1, <2>2
<1>4. /\ O \in Nat /\ L \in Nat /\ K \in Nat /\ O - L + K \in 0..D
      /\ O - L + 1 \in 1..D + 1 /\ O \in (O - L + 1 - 1)..D /\ O - (O - L + 1) + 1 = L
      /\ L - K # 0 => /\ K + 1 \in 1..L /\ O - L + K + 1 \in 1..D
                      /\ O - L + 1 + (K + 1) - 1 = O - L + K + 1
  <2> HIDE DEF D, O, L, K
  <2> QED
    BY <1>1, <1>2, AheadNumbers
<1> QED
  BY <1>1, <1>2, <1>3, <1>4

(* The next unit of the buffer is the next of the object.                  *)
LEMMA NextIs ==
  ASSUME NEW o, Whole(o), NEW s, Ahead(s, o), NEW data,
         data = IF Len(s.buf) - s.rd = 0 THEN <<>> ELSE <<s.buf[s.rd + 1]>>,
         NEW x, x.off = s.off, x.buf = s.buf, x.rd = s.rd + Len(data)
  PROVE  /\ IsSeq(data) /\ x.rd \in 0..Len(x.buf) /\ Sent(x, o) = Sent(s, o) \o data
         /\ Len(s.buf) - s.rd = 0 => data = <<>> /\ Len(data) = 0
         /\ Len(s.buf) - s.rd # 0 => Len(data) = 1
         /\ s.finished /\ Len(s.buf) - s.rd \in {0, 1} => Sent(x, o) \in Uploaded(o)
         /\ IsSeq(Sent(s, o))
<1> DEFINE R == o.value  O == s.off  L == Len(s.buf)  K == s.rd  D == LENGTH  from == O - L + K
<1>1. IsSeq(R) /\ Len(R) = D /\ D \in Nat
  BY ValueIs
<1>4. /\ O \in Nat /\ L \in Nat /\ K \in Nat /\ from \in 0..D
      /\ O - L + 1 \in 1..D + 1 /\ O \in (O - L + 1 - 1)..D /\ O - (O - L + 1) + 1 = L
  BY AheadIs
<1>2. O \in 0..D /\ L \in 0..O /\ K \in 0..L /\ (s.finished => SubSeq(R, 1, O) \in Uploaded(o))
  BY AheadIs, UploadedIs
<1>3. s.buf = SubSeq(R, s.off - Len(s.buf) + 1, s.off)
  BY AheadIs
<1>5. Sent(s, o) = SubSeq(R, 1, from)
  BY DEF Sent
<1>6. IsSeq(Sent(s, o)) /\ Len(Sent(s, o)) = from
  <2> HIDE DEF R, from
  <2> QED
    BY <1>1, <1>4, <1>5, PrefixIs
<1>7. CASE L - K = 0
  <2>1. data = <<>> /\ Len(data) = 0 /\ IsSeq(data)
    <3>1. data = <<>>
      BY <1>7
    <3>2. <<>> = [i \in 1..0 |-> <<>>[i]]
      OBVIOUS
    <3> QED
      BY <3>1, <3>2, SeqIs
  <2>2. x.rd = K /\ x.rd \in 0..Len(x.buf)
    BY <1>2, <1>4, <2>1
  <2>3. Sent(x, o) = Sent(s, o)
    BY <2>2 DEF Sent
  <2>4. s.finished => Sent(s, o) \in Uploaded(o)
    <3>1. from = O
      <4> HIDE DEF R, O, L, K, D
      <4> QED
        BY <1>2, <1>4, <1>7
    <3> HIDE DEF R, from, D
    <3> QED
      BY <1>2, <1>5, <3>1
  <2>5. Sent(s, o) \o <<>> = Sent(s, o)
    BY <1>6, ConcatEmpty
  <2> QED
    BY <1>6, <1>7, <2>1, <2>2, <2>3, <2>4, <2>5
<1>8. CASE L - K # 0
  <2>1. K + 1 \in 1..L /\ from + 1 \in 1..D /\ O - L + 1 + (K + 1) - 1 = from + 1
    BY <1>8, AheadIs
  <2>2. s.buf[K + 1] = R[from + 1]
    <3> DEFINE m == O - L + 1
    <3>1. \A i \in 1..(O - m + 1) : SubSeq(R, m, O)[i] = R[m + i - 1]
      <4> HIDE DEF R, O, L, K, m
      <4> QED
        BY <1>1, <1>4, SubIs DEF m
    <3>2. s.buf[K + 1] = R[m + (K + 1) - 1]
      BY <1>3, <1>4, <2>1, <3>1
    <3> QED
      BY <2>1, <3>2
  <2>3. data = <<R[from + 1]>> /\ IsSeq(data) /\ Len(data) = 1 /\ data[1] = R[from + 1]
    <3>1. data = <<s.buf[K + 1]>>
      BY <1>8
    <3> HIDE DEF R, from
    <3> QED
      BY <2>2, <3>1, OneIs
  <2>4. x.rd = K + 1 /\ x.rd \in 0..Len(x.buf)
    BY <1>4, <2>1, <2>3
  <2>5. Sent(x, o) = SubSeq(R, 1, from + 1)
    <3>1. O - L + (K + 1) = from + 1
      <4> HIDE DEF O, L, K
      <4> QED
        BY <1>4
    <3>2. Sent(x, o) = SubSeq(R, 1, O - L + (K + 1))
      BY <2>4 DEF Sent
    <3> QED
      BY <3>1, <3>2
  <2>6. SubSeq(R, from + 1, from + 1) = data
    <3> DEFINE y == SubSeq(R, from + 1, from + 1)  a == from + 1
    <3>1. a \in 1..D + 1 /\ a \in (a - 1)..D /\ a - a + 1 = 1 /\ a + 1 - 1 = a
      <4> HIDE DEF R, D, from
      <4> QED
        BY <1>1, <2>1
    <3>2. IsSeq(SubSeq(R, a, a)) /\ Len(SubSeq(R, a, a)) = 1 /\ SubSeq(R, a, a)[1] = R[a]
      <4> HIDE DEF R, a
      <4>1. IsSeq(SubSeq(R, a, a)) /\ Len(SubSeq(R, a, a)) = a - a + 1
            /\ \A i \in 1..(a - a + 1) : SubSeq(R, a, a)[i] = R[a + i - 1]
        BY <1>1, <3>1, SubIs
      <4> QED
        BY <3>1, <4>1
    <3> HIDE DEF R, from
    <3>3. ASSUME NEW i \in 1..1 PROVE SubSeq(R, a, a)[i] = data[i]
      <4>1. i = 1
        OBVIOUS
      <4> QED
        BY <2>3, <3>2, <4>1
    <3> HIDE DEF a
    <3>4. SubSeq(R, a, a) = data
      BY <2>3, <3>2, <3>3, SameSeq
    <3> QED
      BY <3>4 DEF a
  <2>7. SubSeq(R, 1, from) \o SubSeq(R, from + 1, from + 1) = SubSeq(R, 1, from + 1)
    <3>1. from \in 0..D /\ from + 1 \in from..D
      <4> HIDE DEF R, D, from
      <4> QED
        BY <1>1, <1>4, <2>1
    <3> HIDE DEF R, from
    <3> QED
      BY <1>1, <3>1, SplitIs
  <2>8. Sent(x, o) = Sent(s, o) \o data
    BY <1>5, <2>5, <2>6, <2>7
  <2>9. (s.finished /\ L - K = 1) => Sent(x, o) \in Uploaded(o)
    <3>1. (L - K = 1) => from + 1 = O
      <4> HIDE DEF R, O, L, K, D
      <4> QED
        BY <1>2, <1>4
    <3> HIDE DEF R, from, D
    <3> QED
      BY <1>2, <2>5, <3>1
  <2> QED
    BY <1>6, <1>8, <2>3, <2>4, <2>8, <2>9
<1> QED
  BY <1>7, <1>8

(* readFromOd does not touch the mailbox.                                  *)
LEMMA RefillKeeps ==
  ASSUME NEW s, DOMAIN s = DOMAIN Idle, NEW min
  PROVE  LET r == Refill(s, min) IN
         r.rxNew = s.rxNew /\ r.rx = s.rx /\ r.isNew = s.isNew /\ r.blksize = s.blksize
<1> DEFINE held == SubSeq(s.buf, s.rd + 1, Len(s.buf))
           free == CAPACITY - Len(held)
           room == IF LENGTH - s.off < free THEN LENGTH - s.off ELSE free
           n    == Brought(s.off, room)
           fin  == Terminators(s.off, room) # {} \/ s.off + n = LENGTH
           more == SubSeq(od.value, s.off + 1, s.off + n)
           full == [s EXCEPT !.buf = held \o more, !.rd = 0, !.off = s.off + n,
                             !.finished = fin, !.crc = s.crc \o more]
           r == Refill(s, min)
<1>0. /\ DOMAIN s = {"state", "pc", "seen", "isNew", "code", "toggle", "finished", "sizeInd",
                     "sizeTran", "buf", "rd", "off", "len", "timer", "blkTimer", "blksize",
                     "seqno", "crc", "rxNew", "rx"}
  BY DEF Idle
<1>1. r = IF s.finished \/ Len(held) >= min THEN s
          ELSE IF ~full.finished /\ Len(full.buf) < min THEN Aborted(full, "DEVICE_INCOMPAT") ELSE full
  BY DEF Refill
<1> HIDE DEF held, free, room, n, fin, more, r
<1>2. /\ full.rxNew = s.rxNew /\ full.rx = s.rx /\ full.isNew = s.isNew /\ full.blksize = s.blksize
      /\ DOMAIN full = DOMAIN s
  BY <1>0
<1> DEFINE ab == Aborted(full, "DEVICE_INCOMPAT")
<1> HIDE DEF full
<1>3. /\ ab.rxNew = s.rxNew /\ ab.rx = s.rx /\ ab.isNew = s.isNew /\ ab.blksize = s.blksize
  BY <1>0, <1>2 DEF Aborted
<1>4. r = s \/ r = ab \/ r = full
  BY <1>1 DEF ab
<1> HIDE DEF ab
<1> QED
  BY <1>2, <1>3, <1>4 DEF r

(* What fitting means, part by part.                                       *)
LEMMA FitsIs ==
  ASSUME NEW q, NEW p, Fits(q, p)
  PROVE  /\ Whole(od) /\ Core(srv, od) /\ Steps(srv) /\ Reads(srv, od) /\ Sends(srv, od)
         /\ DOMAIN srv = DOMAIN Idle /\ srv.isNew \in BOOLEAN /\ srv.finished \in BOOLEAN
         /\ ClientOk(cli, transfer) /\ cli.state \in ClientStates
         /\ Linked(cli, q, p, srv, od, transfer) /\ Linked(cli, q, p, Idle, od, transfer)
  BY IdleIs, LinkRests, ClientStateIs DEF Fits, ServerOk, Core

(* The server gives up, and says so.                                       *)
LEMMA SendsAbortKeeps ==
  ASSUME NEW q, NEW p, Fits(q, p), UNCHANGED <<cli, transfer>>, NEW s, NEW code,
         SendsAbort(s, code), DOMAIN s = DOMAIN Idle, s.rxNew = srv.rxNew, s.rx = srv.rx
  PROVE  Whole(od') /\ Joint'
<1> DEFINE f == [cs |-> "abort", code |-> code]
           x == [s EXCEPT !.state = "IDLE", !.pc = "out", !.seen = "IDLE", !.code = "none"]
<1>1. Answers("IDLE", s, f)
  BY DEF SendsAbort
<1>2. f.cs \notin Responses /\ FrameOk(f)
  BY DEF Responses, FrameOk
<1>3. Linked(cli, q, p, Idle, od, transfer)
  BY FitsIs
<1> HIDE DEF f, x
<1>4. x = [s EXCEPT !.state = "IDLE", !.pc = "out", !.seen = "IDLE", !.code = "none"]
  BY DEF x
<1> QED
  BY <1>1, <1>2, <1>3, <1>4, AnswersIs

(* So does one whose state says so.                                        *)
LEMMA SendAbortKeeps ==
  ASSUME NEW q, NEW p, Fits(q, p), UNCHANGED <<cli, transfer>>, SendAbort
  PROVE  Whole(od') /\ Joint'
  BY FitsIs, SendsAbortKeeps DEF SendAbort

(* The answer to the request of a download.                                *)
LEMMA DownloadInitiateRspKeeps ==
  ASSUME NEW q, NEW p, Fits(q, p), UNCHANGED <<cli, transfer>>, DownloadInitiateRsp
  PROVE  Whole(od') /\ Joint'
<1> DEFINE st == IF srv.finished THEN "IDLE" ELSE "DOWNLOAD_SEGMENT_REQ"
           s == [srv EXCEPT !.timer = 0, !.toggle = 0, !.sizeTran = 0, !.buf = <<>>, !.rd = 0]
           f == [cs |-> "dlInitRsp"]
           x == [s EXCEPT !.state = st, !.pc = "out", !.seen = "IDLE", !.code = "none"]
<1>1. Answers(st, s, f) /\ Sending("DOWNLOAD_INITIATE_RSP")
  BY DEF DownloadInitiateRsp
<1>2. srv.state = "DOWNLOAD_INITIATE_RSP" /\ srv.pc = "send"
  BY <1>1, SendingIs, FitsIs
<1>3. /\ cli.state = "DOWNLOAD_INITIATE_RSP" /\ Silence(q, p)
      /\ srv.finished = cli.finished /\ (cli.finished => Stored(od, transfer))
  BY <1>2, FitsIs, LinkServer
<1>4. DOMAIN s = DOMAIN Idle /\ s.rxNew = srv.rxNew /\ s.rx = srv.rx
  BY FitsIs DEF Idle
<1>5. f.cs = "dlInitRsp" /\ f.cs \in Responses /\ FrameOk(f)
  BY DEF Responses, FrameOk
<1>6. ASSUME srv.finished PROVE st = "IDLE" /\ Linked(cli, q, f, Idle, od, transfer)
  <2>1. Rests(Idle)
    BY IdleIs
  <2>2. DownloadInitiated(cli, q, f, Idle, od, transfer)
    BY <1>3, <1>5, <1>6, <2>1 DEF DownloadInitiated, Silence
  <2> QED
    BY <1>3, <1>6, <2>2 DEF Linked
<1>7. ASSUME ~srv.finished
      PROVE  st = "DOWNLOAD_SEGMENT_REQ" /\ Core(x, od) /\ Linked(cli, q, f, x, od, transfer)
  <2>1. /\ DOMAIN x = DOMAIN Idle /\ x.finished = srv.finished /\ x.isNew = srv.isNew
        /\ x.state = "DOWNLOAD_SEGMENT_REQ" /\ x.buf = <<>> /\ x.off = srv.off /\ x.len = srv.len
        /\ x.sizeTran = 0
    BY <1>7, FitsIs DEF Idle
  <2>2. srv.off = 0 /\ srv.len = LENGTH
    BY <1>2, FitsIs DEF Reads, At
  <2>3. IsSeq(od.value) /\ LENGTH \in Nat
    BY FitsIs, ValueIs
  <2>4. IsSeq(<<>>) /\ <<>> \o <<>> = <<>>
    BY <2>3, EmptyIs
  <2>5. Got(x, od) = <<>>
    <3>1. SubSeq(od.value, 1, 0) = <<>>
      BY <2>3, WholeIs
    <3> QED
      BY <2>1, <2>2, <2>4, <3>1 DEF Got
  <2> HIDE DEF x
  <2>6. Reads(x, od) /\ Sends(x, od)
    BY <2>1, <2>2, <2>3, <2>4 DEF Reads, Sends, At, SegmentsIn, BlockIn, Out, BlockOut
  <2>7. Core(x, od)
    BY <2>1, <2>6, FitsIs DEF Core, CO_SDO_state_t
  <2>8. DownloadInitiated(cli, q, f, x, od, transfer)
    BY <1>3, <1>5, <1>7, <2>1, <2>5 DEF DownloadInitiated, Silence
  <2>9. Linked(cli, q, f, x, od, transfer)
    BY <1>3, <2>8 DEF Linked
  <2> QED
    BY <1>7, <2>7, <2>9
<1>8. p = None
  BY <1>3 DEF Silence
<1>9. (st = "IDLE" => srv.finished) /\ (st # "IDLE" => ~srv.finished)
  OBVIOUS
<1>10. x = [s EXCEPT !.state = st, !.pc = "out", !.seen = "IDLE", !.code = "none"]
  OBVIOUS
<1> HIDE DEF st, s, f, x
<1> QED
  BY <1>1, <1>4, <1>5, <1>6, <1>7, <1>8, <1>9, <1>10, AnswersIs

(* The answer to a segment of a download.                                  *)
LEMMA DownloadSegmentRspKeeps ==
  ASSUME NEW q, NEW p, Fits(q, p), UNCHANGED <<cli, transfer>>, DownloadSegmentRsp
  PROVE  Whole(od') /\ Joint'
<1> DEFINE st == IF srv.finished THEN "IDLE" ELSE "DOWNLOAD_SEGMENT_REQ"
           s == [srv EXCEPT !.timer = 0, !.toggle = 1 - @]
           f == [cs |-> "dlSegRsp", toggle |-> srv.toggle]
           x == [s EXCEPT !.state = st, !.pc = "out", !.seen = "IDLE", !.code = "none"]
<1>1. Answers(st, s, f) /\ Sending("DOWNLOAD_SEGMENT_RSP")
  BY DEF DownloadSegmentRsp
<1>2. srv.state = "DOWNLOAD_SEGMENT_RSP" /\ srv.pc = "send"
  BY <1>1, SendingIs, FitsIs
<1>3. /\ cli.state = "DOWNLOAD_SEGMENT_RSP" /\ Silence(q, p) /\ srv.finished = cli.finished
      /\ IF cli.finished THEN Stored(od, transfer) ELSE Got(srv, od) \o cli.fifo = transfer.data
  BY <1>2, FitsIs, LinkServer
<1>4. DOMAIN s = DOMAIN Idle /\ s.rxNew = srv.rxNew /\ s.rx = srv.rx
  BY FitsIs DEF Idle
<1>5. f.cs = "dlSegRsp" /\ f.cs \in Responses /\ FrameOk(f)
  BY DEF Responses, FrameOk
<1>6. ASSUME srv.finished PROVE st = "IDLE" /\ Linked(cli, q, f, Idle, od, transfer)
  <2>1. Rests(Idle)
    BY IdleIs
  <2>2. DownloadSegmented(cli, q, f, Idle, od, transfer)
    BY <1>3, <1>5, <1>6, <2>1 DEF DownloadSegmented, Silence
  <2> QED
    BY <1>3, <1>6, <2>2 DEF Linked
<1>7. ASSUME ~srv.finished
      PROVE  st = "DOWNLOAD_SEGMENT_REQ" /\ Core(x, od) /\ Linked(cli, q, f, x, od, transfer)
  <2>1. /\ DOMAIN x = DOMAIN Idle /\ x.finished = srv.finished /\ x.isNew = srv.isNew
        /\ x.state = "DOWNLOAD_SEGMENT_REQ" /\ x.buf = srv.buf /\ x.off = srv.off /\ x.len = srv.len
        /\ x.sizeTran = srv.sizeTran
    BY <1>7, FitsIs DEF Idle
  <2>2. srv.len = LENGTH /\ srv.off \in 0..LENGTH /\ IsSeq(srv.buf) /\ srv.sizeTran \in Nat
    BY <1>2, FitsIs DEF Reads, At, SegmentsIn
  <2>5. Got(x, od) = Got(srv, od)
    BY <2>1 DEF Got
  <2> HIDE DEF x
  <2>6. Reads(x, od) /\ Sends(x, od)
    BY <2>1, <2>2 DEF Reads, Sends, At, SegmentsIn, BlockIn, Out, BlockOut
  <2>7. Core(x, od)
    BY <2>1, <2>6, FitsIs DEF Core, CO_SDO_state_t
  <2>8. DownloadSegmented(cli, q, f, x, od, transfer)
    BY <1>3, <1>5, <1>7, <2>1, <2>5 DEF DownloadSegmented, Silence
  <2>9. Linked(cli, q, f, x, od, transfer)
    BY <1>3, <2>8 DEF Linked
  <2> QED
    BY <1>7, <2>7, <2>9
<1>8. p = None
  BY <1>3 DEF Silence
<1>9. (st = "IDLE" => srv.finished) /\ (st # "IDLE" => ~srv.finished)
  OBVIOUS
<1>10. x = [s EXCEPT !.state = st, !.pc = "out", !.seen = "IDLE", !.code = "none"]
  OBVIOUS
<1> HIDE DEF st, s, f, x
<1> QED
  BY <1>1, <1>4, <1>5, <1>6, <1>7, <1>8, <1>9, <1>10, AnswersIs

(* The answer to the request of an upload.                                 *)
LEMMA UploadInitiateRspKeeps ==
  ASSUME NEW q, NEW p, Fits(q, p), UNCHANGED <<cli, transfer>>, UploadInitiateRsp
  PROVE  Whole(od') /\ Joint'
<1>1. /\ Sending("UPLOAD_INITIATE_RSP")
      /\ IF srv.sizeInd = 1
         THEN Answers("IDLE", srv, [cs |-> "ulInitRsp", expedited |-> TRUE,
                                    size |-> 1, data |-> srv.buf])
         ELSE Answers("UPLOAD_SEGMENT_REQ", [srv EXCEPT !.toggle = 0, !.timer = 0],
                      [cs |-> "ulInitRsp", expedited |-> FALSE,
                       size |-> srv.sizeInd, data |-> <<>>])
  BY DEF UploadInitiateRsp
<1>2. srv.state = "UPLOAD_INITIATE_RSP" /\ srv.pc = "send"
  BY <1>1, SendingIs, FitsIs
<1>3. /\ cli.state \in {"UPLOAD_INITIATE_RSP", "UPLOAD_BLK_INITIATE_RSP"} /\ q = None /\ p = None
  BY <1>2, FitsIs, LinkServer DEF Silence
<1>4. /\ Ahead(srv, od) /\ srv.rd = 0 /\ srv.off = Len(srv.buf)
      /\ (srv.sizeInd = 1 => Ends(od, srv.off)) /\ srv.off > 0
  BY <1>2, FitsIs DEF Sends, At, Out, Fresh
<1>5. Whole(od) /\ LENGTH \in Nat /\ srv.off \in 0..LENGTH /\ srv.off \in Nat
  BY <1>4, FitsIs, AheadIs
<1>6. CASE srv.sizeInd = 1
  <2> DEFINE f == [cs |-> "ulInitRsp", expedited |-> TRUE, size |-> 1, data |-> srv.buf]
             x == [srv EXCEPT !.state = "IDLE", !.pc = "out", !.seen = "IDLE", !.code = "none"]
  <2>1. f.cs = "ulInitRsp" /\ f.expedited = TRUE /\ f.cs \in Responses /\ FrameOk(f) /\ f.data = srv.buf
    BY DEF Responses, FrameOk
  <2>2. srv.buf \in Uploaded(od)
    <3>1. srv.off - Len(srv.buf) + 1 = 1
      BY <1>4, <1>5
    <3>2. srv.buf = SubSeq(od.value, 1, srv.off)
      BY <1>4, <3>1 DEF Ahead
    <3>3. srv.off \in 1..LENGTH
      BY <1>4, <1>5
    <3> QED
      BY <1>4, <1>5, <1>6, <3>2, <3>3, UploadedIs
  <2>3. Rests(Idle)
    BY IdleIs
  <2>4. Answers("IDLE", srv, f)
    BY <1>1, <1>6
  <2>5. x = [srv EXCEPT !.state = "IDLE", !.pc = "out", !.seen = "IDLE", !.code = "none"]
    OBVIOUS
  <2> HIDE DEF f, x
  <2>6. InitRsp(q, f, Idle, od)
    BY <1>3, <2>1, <2>2, <2>3 DEF InitRsp
  <2>7. Linked(cli, q, f, Idle, od, transfer)
    BY <1>3, <2>6 DEF Linked, UploadInitiated1, UploadBlkInitiated1
  <2> QED
    <3>1. DOMAIN srv = DOMAIN Idle
      BY FitsIs
    <3> QED
      BY <1>3, <2>1, <2>4, <2>5, <2>7, <3>1, AnswersIs
<1>7. CASE srv.sizeInd # 1
  <2> DEFINE f == [cs |-> "ulInitRsp", expedited |-> FALSE, size |-> srv.sizeInd, data |-> <<>>]
             s == [srv EXCEPT !.toggle = 0, !.timer = 0]
             x == [s EXCEPT !.state = "UPLOAD_SEGMENT_REQ", !.pc = "out", !.seen = "IDLE", !.code = "none"]
  <2>1. f.cs = "ulInitRsp" /\ f.expedited = FALSE /\ f.cs \in Responses /\ FrameOk(f)
    BY DEF Responses, FrameOk
  <2>2. Answers("UPLOAD_SEGMENT_REQ", s, f)
    BY <1>1, <1>7
  <2>3. x = [s EXCEPT !.state = "UPLOAD_SEGMENT_REQ", !.pc = "out", !.seen = "IDLE", !.code = "none"]
    OBVIOUS
  <2>4. DOMAIN s = DOMAIN Idle /\ s.rxNew = srv.rxNew /\ s.rx = srv.rx
    BY FitsIs DEF Idle
  <2>5. /\ DOMAIN x = DOMAIN Idle /\ x.finished = srv.finished /\ x.isNew = srv.isNew
        /\ x.state = "UPLOAD_SEGMENT_REQ" /\ x.buf = srv.buf /\ x.off = srv.off /\ x.rd = srv.rd
        /\ x.crc = srv.crc /\ x.pc = "out"
    BY FitsIs DEF Idle
  <2> HIDE DEF f, s, x
  <2>6. Ahead(x, od)
    BY <1>4, <2>5 DEF Ahead
  <2>7. Reads(x, od) /\ Sends(x, od)
    BY <2>5, <2>6 DEF Reads, Sends, At, SegmentsIn, BlockIn, Fresh
  <2>8. Core(x, od)
    BY <2>5, <2>7, FitsIs DEF Core, CO_SDO_state_t
  <2>9. Sent(x, od) = <<>>
    <3>1. x.off - Len(x.buf) + x.rd = 0
      BY <1>4, <1>5, <2>5
    <3> QED
      BY <1>5, <3>1, WholeIs DEF Sent
  <2>10. InitRsp(q, f, x, od)
    BY <1>3, <2>1, <2>5, <2>9 DEF InitRsp
  <2>11. Linked(cli, q, f, x, od, transfer)
    BY <1>3, <2>10 DEF Linked, UploadInitiated1, UploadBlkInitiated1
  <2> QED
    BY <1>3, <2>1, <2>2, <2>3, <2>4, <2>8, <2>11, AnswersIs
<1> QED
  BY <1>6, <1>7

(* A segment of an upload.                                                 *)
LEMMA UploadSegmentRspKeeps ==
  ASSUME NEW q, NEW p, Fits(q, p), UNCHANGED <<cli, transfer>>, UploadSegmentRsp
  PROVE  Whole(od') /\ Joint'
<1> DEFINE s == Refill(srv, 1)
           left == Len(s.buf) - s.rd
           last == left = 0 \/ (s.finished /\ left = 1)
           data == IF left = 0 THEN <<>> ELSE <<s.buf[s.rd + 1]>>
           size == s.sizeTran + Len(data)
           st == IF last THEN "IDLE" ELSE "UPLOAD_SEGMENT_REQ"
           y == [s EXCEPT !.toggle = 1 - @, !.timer = 0, !.rd = @ + Len(data), !.sizeTran = size]
           f == [cs |-> "ulSegRsp", toggle |-> s.toggle, data |-> data, last |-> last]
           x == [y EXCEPT !.state = st, !.pc = "out", !.seen = "IDLE", !.code = "none"]
<1>1. /\ Sending("UPLOAD_SEGMENT_RSP")
      /\ IF s.state = "ABORT" THEN SendsAbort(s, s.code)
         ELSE IF last /\ s.sizeInd > size THEN SendsAbort(s, "DATA_SHORT")
         ELSE Answers(st, y, f)
  BY DEF UploadSegmentRsp
<1>2. srv.state = "UPLOAD_SEGMENT_RSP" /\ srv.pc = "send"
  BY <1>1, SendingIs, FitsIs
<1>3. cli.state = "UPLOAD_SEGMENT_RSP" /\ q = None /\ p = None /\ Rcvd(cli, transfer) = Sent(srv, od)
  BY <1>2, FitsIs, LinkServer DEF Silence
<1>4. Ahead(srv, od)
  BY <1>2, FitsIs DEF Sends, At, Out
<1>5. Whole(od) /\ DOMAIN srv = DOMAIN Idle /\ srv.finished \in BOOLEAN /\ srv.isNew \in BOOLEAN
  BY FitsIs
<1>6. /\ DOMAIN s = DOMAIN Idle /\ s.finished \in BOOLEAN /\ s.pc = srv.pc /\ Ahead(s, od)
      /\ s.off - Len(s.buf) + s.rd = srv.off - Len(srv.buf) + srv.rd
      /\ s.state # "ABORT" => s.finished \/ Len(s.buf) - s.rd >= 1
  BY <1>2, <1>4, <1>5, RefillIs
<1>7. s.rxNew = srv.rxNew /\ s.rx = srv.rx /\ s.isNew = srv.isNew
  BY <1>5, RefillKeeps
<1> HIDE DEF s
<1>8. Sent(s, od) = Rcvd(cli, transfer)
  BY <1>3, <1>6 DEF Sent
<1>9. DOMAIN y = DOMAIN Idle /\ y.rxNew = srv.rxNew /\ y.rx = srv.rx /\ y.isNew = srv.isNew
      /\ y.buf = s.buf /\ y.off = s.off /\ y.rd = s.rd + Len(data) /\ y.finished = s.finished
      /\ y.crc = s.crc
  BY <1>6, <1>7 DEF Idle
<1> HIDE DEF y, data
<1>10. /\ IsSeq(data) /\ y.rd \in 0..Len(y.buf) /\ Sent(y, od) = Sent(s, od) \o data
       /\ (s.finished /\ Len(s.buf) - s.rd \in {0, 1}) => Sent(y, od) \in Uploaded(od)
  <2>1. Whole(od) /\ Ahead(s, od) /\ y.off = s.off /\ y.buf = s.buf /\ y.rd = s.rd + Len(data)
    BY <1>5, <1>6, <1>9
  <2>2. data = IF Len(s.buf) - s.rd = 0 THEN <<>> ELSE <<s.buf[s.rd + 1]>>
    BY DEF data
  <2> HIDE DEF left
  <2>3. IsSeq(data) /\ y.rd \in 0..Len(y.buf) /\ Sent(y, od) = Sent(s, od) \o data
    BY <2>1, <2>2, NextIs
  <2>4. (s.finished /\ Len(s.buf) - s.rd \in {0, 1}) => Sent(y, od) \in Uploaded(od)
    BY <2>1, <2>2, NextIs
  <2> QED
    BY <2>3, <2>4
<1>11. f.cs = "ulSegRsp" /\ f.cs \in Responses /\ FrameOk(f) /\ f.data = data /\ f.last = last
  BY <1>10 DEF Responses, FrameOk
<1>12. CASE s.state = "ABORT" \/ (last /\ s.sizeInd > size)
  <2>1. SendsAbort(s, s.code) \/ SendsAbort(s, "DATA_SHORT")
    BY <1>1, <1>12
  <2> HIDE DEF last, size, st, f, x
  <2> QED
    BY <2>1, <1>6, <1>7, SendsAbortKeeps
<1>13. CASE ~(s.state = "ABORT" \/ (last /\ s.sizeInd > size))
  <2>1. Answers(st, y, f)
    BY <1>1, <1>13
  <2>2. left = 0 => s.finished
    <3>1. s.finished \/ left >= 1
      BY <1>6, <1>13
    <3> HIDE DEF left
    <3> QED
      BY <3>1
  <2>3. ASSUME last PROVE st = "IDLE" /\ Linked(cli, q, f, Idle, od, transfer)
    <3>1. Rests(Idle)
      BY IdleIs
    <3>2. s.finished /\ Len(s.buf) - s.rd \in {0, 1}
      BY <2>2, <2>3
    <3>3. Rcvd(cli, transfer) \o f.data \in Uploaded(od)
      BY <1>8, <1>10, <1>11, <3>2
    <3>4. f.last
      BY <1>11, <2>3
    <3> HIDE DEF f, last
    <3>5. UploadSegmented(cli, q, f, Idle, od, transfer)
      BY <1>3, <1>11, <3>1, <3>3, <3>4 DEF UploadSegmented
    <3>6. Linked(cli, q, f, Idle, od, transfer)
      BY <1>3, <3>5 DEF Linked
    <3> QED
      BY <2>3, <3>6 DEF last
  <2>4. ASSUME ~last
        PROVE  st = "UPLOAD_SEGMENT_REQ" /\ Core(x, od) /\ Linked(cli, q, f, x, od, transfer)
    <3>1. /\ DOMAIN x = DOMAIN Idle /\ x.finished = s.finished /\ x.isNew = srv.isNew
          /\ x.state = "UPLOAD_SEGMENT_REQ" /\ x.buf = s.buf /\ x.off = s.off /\ x.rd = y.rd
          /\ x.crc = s.crc /\ x.pc = "out"
      BY <1>9, <2>4 DEF Idle
    <3>2. ~f.last
      BY <1>11, <2>4
    <3> HIDE DEF f, x, last
    <3>3. Ahead(x, od)
      BY <1>6, <1>9, <1>10, <3>1 DEF Ahead
    <3>4. Reads(x, od) /\ Sends(x, od)
      BY <3>1, <3>3 DEF Reads, Sends, At, SegmentsIn, BlockIn, Fresh
    <3>5. Core(x, od)
      BY <1>5, <1>6, <3>1, <3>4 DEF Core, CO_SDO_state_t
    <3>6. Sent(x, od) = Sent(y, od)
      BY <1>9, <3>1 DEF Sent
    <3>7. Rcvd(cli, transfer) \o f.data = Sent(x, od)
      BY <1>8, <1>10, <1>11, <3>6
    <3>8. UploadSegmented(cli, q, f, x, od, transfer)
      BY <1>3, <1>11, <3>1, <3>2, <3>7 DEF UploadSegmented
    <3>9. Linked(cli, q, f, x, od, transfer)
      BY <1>3, <3>8 DEF Linked
    <3> QED
      BY <2>4, <3>5, <3>9 DEF last
  <2>5. (st = "IDLE" => last) /\ (st # "IDLE" => ~last)
    BY DEF last
  <2>6. x = [y EXCEPT !.state = st, !.pc = "out", !.seen = "IDLE", !.code = "none"]
    OBVIOUS
  <2> HIDE DEF st, f, x, last
  <2> QED
    BY <1>3, <1>9, <1>11, <2>1, <2>3, <2>4, <2>5, <2>6, AnswersIs
<1> HIDE DEF last, size
<1> QED
  BY <1>12, <1>13

(* The answer to the request of a block download.                          *)
LEMMA DownloadBlkInitiateRspKeeps ==
  ASSUME NEW q, NEW p, Fits(q, p), UNCHANGED <<cli, transfer>>, DownloadBlkInitiateRsp
  PROVE  Whole(od') /\ Joint'
<1> DEFINE st == "DOWNLOAD_BLK_SUBBLOCK_REQ"
           s == [srv EXCEPT !.blksize = CAPACITY, !.sizeTran = 0, !.finished = FALSE,
                            !.buf = <<>>, !.rd = 0, !.seqno = 0, !.crc = <<>>,
                            !.timer = 0, !.blkTimer = 0, !.rxNew = FALSE, !.rx = None]
           f == [cs |-> "dlBlkInitRsp", blksize |-> CAPACITY]
           x == [s EXCEPT !.state = st, !.pc = "out", !.seen = "IDLE", !.code = "none"]
<1>1. Answers(st, s, f) /\ Sending("DOWNLOAD_BLK_INITIATE_RSP")
  BY DEF DownloadBlkInitiateRsp
<1>2. srv.state = "DOWNLOAD_BLK_INITIATE_RSP" /\ srv.pc = "send"
  BY <1>1, SendingIs, FitsIs
<1>3. cli.state = "DOWNLOAD_BLK_INITIATE_RSP" /\ q = None /\ p = None
  BY <1>2, FitsIs, LinkServer DEF Silence
<1>4. DOMAIN s = DOMAIN Idle /\ s.rxNew = FALSE
  BY FitsIs DEF Idle
<1>5. f.cs = "dlBlkInitRsp" /\ f.cs \in Responses /\ FrameOk(f)
  BY DEF Responses, FrameOk
<1>6. /\ DOMAIN x = DOMAIN Idle /\ x.finished = FALSE /\ x.isNew = srv.isNew
      /\ x.state = "DOWNLOAD_BLK_SUBBLOCK_REQ" /\ x.buf = <<>> /\ x.off = srv.off /\ x.len = srv.len
      /\ x.sizeTran = 0 /\ x.crc = <<>> /\ x.seqno = 0
  BY FitsIs DEF Idle
<1>7. srv.off = 0 /\ srv.len = LENGTH
  BY <1>2, FitsIs DEF Reads, At
<1>8. IsSeq(od.value) /\ LENGTH \in Nat
  BY FitsIs, ValueIs
<1>9. IsSeq(<<>>) /\ SubSeq(od.value, 1, 0) = <<>>
  BY <1>8, EmptyIs, WholeIs
<1>10. x = [s EXCEPT !.state = st, !.pc = "out", !.seen = "IDLE", !.code = "none"]
  OBVIOUS
<1> HIDE DEF s, f, x
<1>11. Reads(x, od) /\ Sends(x, od)
  BY <1>6, <1>7, <1>8, <1>9 DEF Reads, Sends, At, SegmentsIn, BlockIn, Out, BlockOut
<1>12. Core(x, od)
  BY <1>6, <1>11, FitsIs DEF Core, CO_SDO_state_t
<1>13. DownloadBlkInitiated(q, f, x)
  BY <1>3, <1>5, <1>6 DEF DownloadBlkInitiated, At, BlockIn
<1>14. Linked(cli, q, f, x, od, transfer)
  BY <1>3, <1>13 DEF Linked
<1> QED
  BY <1>1, <1>3, <1>4, <1>5, <1>10, <1>12, <1>14, AnswersIs

(* The answer to the end of a block download.                              *)
LEMMA DownloadBlkEndRspKeeps ==
  ASSUME NEW q, NEW p, Fits(q, p), UNCHANGED <<cli, transfer>>, DownloadBlkEndRsp
  PROVE  Whole(od') /\ Joint'
<1> DEFINE f == [cs |-> "dlBlkEndRsp"]
           x == [srv EXCEPT !.state = "IDLE", !.pc = "out", !.seen = "IDLE", !.code = "none"]
<1>1. Answers("IDLE", srv, f) /\ Sending("DOWNLOAD_BLK_END_RSP")
  BY DEF DownloadBlkEndRsp
<1>2. srv.state = "DOWNLOAD_BLK_END_RSP"
  BY <1>1, SendingIs, FitsIs
<1>3. cli.state = "DOWNLOAD_BLK_END_RSP" /\ q = None /\ p = None /\ Stored(od, transfer)
  BY <1>2, FitsIs, LinkServer DEF Silence
<1>4. DOMAIN srv = DOMAIN Idle
  BY FitsIs
<1>5. f.cs = "dlBlkEndRsp" /\ f.cs \in Responses /\ FrameOk(f)
  BY DEF Responses, FrameOk
<1>6. x = [srv EXCEPT !.state = "IDLE", !.pc = "out", !.seen = "IDLE", !.code = "none"]
  OBVIOUS
<1> HIDE DEF f, x
<1>7. DownloadBlkEnded(q, f, Idle, od, transfer)
  BY <1>3, <1>5, IdleIs DEF DownloadBlkEnded
<1>8. Linked(cli, q, f, Idle, od, transfer)
  BY <1>3, <1>7 DEF Linked
<1> QED
  BY <1>1, <1>3, <1>4, <1>5, <1>6, <1>8, AnswersIs

(* The answer to the request of a block upload.                            *)
LEMMA UploadBlkInitiateRspKeeps ==
  ASSUME NEW q, NEW p, Fits(q, p), UNCHANGED <<cli, transfer>>, UploadBlkInitiateRsp
  PROVE  Whole(od') /\ Joint'
<1> DEFINE st == "UPLOAD_BLK_INITIATE_REQ2"
           s == [srv EXCEPT !.timer = 0, !.crc = srv.buf]
           f == [cs |-> "ulBlkInitRsp", size |-> srv.sizeInd]
           x == [s EXCEPT !.state = st, !.pc = "out", !.seen = "IDLE", !.code = "none"]
<1>1. Answers(st, s, f) /\ Sending("UPLOAD_BLK_INITIATE_RSP")
  BY DEF UploadBlkInitiateRsp
<1>2. srv.state = "UPLOAD_BLK_INITIATE_RSP" /\ srv.pc = "send"
  BY <1>1, SendingIs, FitsIs
<1>3. cli.state = "UPLOAD_BLK_INITIATE_RSP" /\ q = None /\ p = None
  BY <1>2, FitsIs, LinkServer DEF Silence
<1>4. Ahead(srv, od) /\ srv.rd = 0 /\ srv.off = Len(srv.buf) /\ srv.off > 0
  BY <1>2, FitsIs DEF Sends, At, Out, Fresh
<1>5. srv.off \in Nat /\ srv.buf = SubSeq(od.value, srv.off - Len(srv.buf) + 1, srv.off)
  BY <1>4, FitsIs, AheadIs
<1>6. srv.buf = SubSeq(od.value, 1, srv.off)
  <2>1. srv.off - Len(srv.buf) + 1 = 1
    BY <1>4, <1>5
  <2> QED
    BY <1>5, <2>1
<1>7. DOMAIN s = DOMAIN Idle /\ s.rxNew = srv.rxNew /\ s.rx = srv.rx
  BY FitsIs DEF Idle
<1>8. f.cs = "ulBlkInitRsp" /\ f.cs \in Responses /\ FrameOk(f)
  BY DEF Responses, FrameOk
<1>9. /\ DOMAIN x = DOMAIN Idle /\ x.finished = srv.finished /\ x.isNew = srv.isNew
      /\ x.state = "UPLOAD_BLK_INITIATE_REQ2" /\ x.buf = srv.buf /\ x.off = srv.off /\ x.rd = srv.rd
      /\ x.crc = srv.buf /\ x.pc = "out"
  BY FitsIs DEF Idle
<1>10. x = [s EXCEPT !.state = st, !.pc = "out", !.seen = "IDLE", !.code = "none"]
  OBVIOUS
<1> HIDE DEF s, f, x
<1>11. Ahead(x, od)
  BY <1>4, <1>6, <1>9 DEF Ahead
<1>12. Reads(x, od) /\ Sends(x, od)
  BY <1>4, <1>9, <1>11 DEF Reads, Sends, At, SegmentsIn, BlockIn, Fresh
<1>13. Core(x, od)
  BY <1>9, <1>12, FitsIs DEF Core, CO_SDO_state_t
<1>14. UploadBlkInitiated1(q, f, x, od)
  BY <1>3, <1>8, <1>9 DEF UploadBlkInitiated1
<1>15. Linked(cli, q, f, x, od, transfer)
  BY <1>3, <1>14 DEF Linked
<1> QED
  BY <1>1, <1>3, <1>7, <1>8, <1>10, <1>13, <1>15, AnswersIs

(* The arithmetic of a segment of a sub-block.                             *)
LEMMA NextNumbers ==
  ASSUME NEW L \in Nat, NEW K \in Nat, K < L, NEW n \in 0..K
  PROVE  L - K # 0 /\ n + 1 \in 0..K + 1 /\ (~(L - K <= 1) => K + 1 < L)
  OBVIOUS

(* A segment of a block upload.                                            *)
LEMMA UploadBlkSubblockKeeps ==
  ASSUME NEW q, NEW p, Fits(q, p), UNCHANGED <<cli, transfer>>, UploadBlkSubblock
  PROVE  Whole(od') /\ Joint'
<1> DEFINE left == Len(srv.buf) - srv.rd
           data == IF left = 0 THEN <<>> ELSE <<srv.buf[srv.rd + 1]>>
           last == left = 0 \/ (srv.finished /\ left = 1)
           st == IF left <= 1 \/ srv.seqno + 1 >= srv.blksize
                 THEN "UPLOAD_BLK_SUBBLOCK_CRSP" ELSE "UPLOAD_BLK_SUBBLOCK_SREQ"
           size == srv.sizeTran + Len(data)
           s == [srv EXCEPT !.seqno = @ + 1, !.rd = @ + Len(data), !.timer = 0,
                            !.sizeTran = size]
           f == [cs |-> "ulSub", seqno |-> srv.seqno + 1, data |-> data, last |-> last]
           x == [s EXCEPT !.state = st, !.pc = "out", !.seen = "IDLE", !.code = "none"]
<1>1. /\ Sending("UPLOAD_BLK_SUBBLOCK_SREQ")
      /\ \/ SendsAbort(srv, "DATA_LONG") \/ SendsAbort(srv, "DATA_SHORT")
         \/ Answers(st, s, f)
  BY DEF UploadBlkSubblock
<1>2. srv.state = "UPLOAD_BLK_SUBBLOCK_SREQ" /\ srv.pc = "send"
  BY <1>1, SendingIs, FitsIs
<1>3. /\ cli.state \in {"UPLOAD_BLK_SUBBLOCK_SREQ", "UPLOAD_BLK_SUBBLOCK_CRSP",
                        "UPLOAD_BLK_END_SREQ"}
      /\ q = None /\ p = None
  <2>1. At(srv, BlockOut) /\ ~Rests(srv)
    BY <1>2 DEF At, BlockOut, Rests
  <2> QED
    BY <2>1, FitsIs, LinkServer DEF Silence
<1>4. Ahead(srv, od) /\ srv.seqno \in 0..srv.rd /\ srv.rd < Len(srv.buf)
  BY <1>2, FitsIs DEF Sends, At, Out, BlockOut
<1>5. srv.rd \in Nat /\ Len(srv.buf) \in Nat /\ Whole(od)
  BY <1>4, FitsIs, AheadIs
<1>6. left # 0 /\ srv.seqno + 1 \in 0..srv.rd + 1 /\ (~(left <= 1) => srv.rd + 1 < Len(srv.buf))
  <2> DEFINE L == Len(srv.buf)  K == srv.rd  n == srv.seqno
  <2>1. L \in Nat /\ K \in Nat /\ K < L /\ n \in 0..K
    BY <1>4, <1>5
  <2> HIDE DEF L, K, n
  <2>2. L - K # 0 /\ n + 1 \in 0..K + 1 /\ (~(L - K <= 1) => K + 1 < L)
    BY <2>1, NextNumbers
  <2> QED
    BY <2>2 DEF L, K, n
<1>7. DOMAIN s = DOMAIN Idle /\ s.rxNew = srv.rxNew /\ s.rx = srv.rx
  BY FitsIs DEF Idle
<1>8. /\ DOMAIN x = DOMAIN Idle /\ x.finished = srv.finished /\ x.isNew = srv.isNew
      /\ x.state = st /\ x.buf = srv.buf /\ x.off = srv.off /\ x.rd = srv.rd + Len(data)
      /\ x.crc = srv.crc /\ x.pc = "out" /\ x.seqno = srv.seqno + 1
  BY FitsIs DEF Idle
<1>9. x = [s EXCEPT !.state = st, !.pc = "out", !.seen = "IDLE", !.code = "none"]
  OBVIOUS
<1>10. st \in {"UPLOAD_BLK_SUBBLOCK_CRSP", "UPLOAD_BLK_SUBBLOCK_SREQ"} /\ last \in BOOLEAN
       /\ (st = "UPLOAD_BLK_SUBBLOCK_SREQ" => ~(left <= 1))
  OBVIOUS
<1>11. data = IF Len(srv.buf) - srv.rd = 0 THEN <<>> ELSE <<srv.buf[srv.rd + 1]>>
  OBVIOUS
<1>12. f.cs = "ulSub" /\ f.data = data /\ f.last = last
  OBVIOUS
<1> HIDE DEF data, last, size, st, s, f, x
<1>13. IsSeq(data) /\ x.rd \in 0..Len(x.buf)
  <2> HIDE DEF left
  <2> QED
    BY <1>4, <1>5, <1>8, <1>11, NextIs
<1>14. Len(data) = 1
  <2>1. data = <<srv.buf[srv.rd + 1]>>
    BY <1>6, <1>11
  <2> QED
    BY <2>1
<1>15. Ahead(x, od)
  BY <1>4, <1>8, <1>13 DEF Ahead
<1>16. Reads(x, od)
  BY <1>8, <1>10 DEF Reads, At, SegmentsIn, BlockIn
<1>17. Sends(x, od)
  BY <1>6, <1>8, <1>10, <1>14, <1>15 DEF Sends, At, Fresh
<1>18. Core(x, od)
  BY <1>8, <1>10, <1>16, <1>17, FitsIs DEF Core, CO_SDO_state_t
<1>19. Linked(cli, q, p, x, od, transfer)
  BY <1>3, <1>8, <1>10 DEF Linked, UploadBlock, Lost, Silence, At, BlockOut
<1>20. f.cs \notin Responses /\ FrameOk(f) /\ st # "IDLE"
  BY <1>10, <1>12, <1>13 DEF Responses, FrameOk
<1>21. CASE Answers(st, s, f)
  BY <1>7, <1>9, <1>18, <1>19, <1>20, <1>21, AnswersIs
<1>22. CASE SendsAbort(srv, "DATA_LONG") \/ SendsAbort(srv, "DATA_SHORT")
  BY <1>22, FitsIs, SendsAbortKeeps
<1> QED
  BY <1>1, <1>21, <1>22

(* The end of a block upload.                                              *)
LEMMA UploadBlkEndKeeps ==
  ASSUME NEW q, NEW p, Fits(q, p), UNCHANGED <<cli, transfer>>, UploadBlkEnd
  PROVE  Whole(od') /\ Joint'
<1> DEFINE f == [cs |-> "ulBlkEnd", crc |-> srv.crc]
<1>1. /\ toClient' = Append(toClient, f) /\ srv' = [srv EXCEPT !.timer = 0, !.pc = "sent"]
      /\ od' = od /\ toServer' = toServer /\ Sending("UPLOAD_BLK_END_SREQ")
  BY DEF UploadBlkEnd
<1>2. srv.state = "UPLOAD_BLK_END_SREQ" /\ srv.pc = "send"
  BY <1>1, SendingIs, FitsIs
<1>3. /\ cli.state \in {"UPLOAD_BLK_SUBBLOCK_SREQ", "UPLOAD_BLK_SUBBLOCK_CRSP",
                        "UPLOAD_BLK_END_SREQ"}
      /\ q = None /\ p = None
  <2>1. At(srv, BlockOut) /\ ~Rests(srv)
    BY <1>2 DEF At, BlockOut, Rests
  <2> QED
    BY <2>1, FitsIs, LinkServer DEF Silence
<1>4. Ahead(srv, od) /\ srv.finished
  BY <1>2, FitsIs DEF Sends, At, Out, BlockOut
<1>5. srv.crc \in Uploaded(od)
  <2>1. Whole(od) /\ Ends(od, srv.off) /\ srv.off \in 1..LENGTH
    BY <1>4, FitsIs, AheadIs
  <2>2. srv.crc = SubSeq(od.value, 1, srv.off)
    BY <1>4 DEF Ahead
  <2> QED
    BY <2>1, <2>2, UploadedIs
<1>6. f.cs = "ulBlkEnd" /\ f.cs \in Responses /\ FrameOk(f) /\ f.crc = srv.crc
  BY DEF Responses, FrameOk
<1>7. /\ DOMAIN srv' = DOMAIN Idle /\ srv'.finished = srv.finished /\ srv'.isNew = srv.isNew
      /\ srv'.state = "UPLOAD_BLK_END_SREQ" /\ srv'.pc = "sent"
      /\ srv'.rxNew = srv.rxNew /\ srv'.rx = srv.rx
  BY <1>1, <1>2, FitsIs DEF Idle
<1> HIDE DEF f
<1>8. Core(srv', od')
  BY <1>7, FitsIs DEF Core, Reads, Sends, At, BlockIn, SegmentsIn, CO_SDO_state_t
<1>9. ServerOk(srv', od')
  BY <1>7, <1>8 DEF ServerOk, Steps
<1>10. Rests(srv')
  BY <1>7 DEF Rests
<1>11. Linked(cli, q, f, srv', od', transfer)
  BY <1>1, <1>3, <1>5, <1>6, <1>10 DEF Linked, UploadBlock
<1>12. Joint'
  BY <1>1, <1>3, <1>6, <1>7, <1>9, <1>11, ServerMoves
<1> QED
  BY <1>1, <1>12, FitsIs

(* The answer to a sub-block, which may write the object.                  *)
LEMMA DownloadBlkSubblockRspKeeps ==
  ASSUME NEW q, NEW p, Fits(q, p), UNCHANGED <<cli, transfer>>, DownloadBlkSubblockRsp
  PROVE  Whole(od') /\ Joint'
<1> DEFINE v == IF srv.finished \/ srv.buf = <<>> THEN Kept(srv) ELSE Validate(srv, None)
           o == [od EXCEPT !.value = v.value]
           x == [v.s EXCEPT !.state = IF srv.finished THEN "DOWNLOAD_BLK_END_REQ"
                                      ELSE "DOWNLOAD_BLK_SUBBLOCK_REQ",
                            !.seqno = IF srv.finished THEN @ ELSE 0,
                            !.rxNew = @ /\ srv.finished,
                            !.rx = IF srv.finished THEN @ ELSE None, !.blkTimer = 0,
                            !.blksize = CAPACITY, !.pc = "out", !.seen = "IDLE"]
           ab == [cs |-> "abort", code |-> v.s.code]
           ack == [cs |-> "dlBlkAck", ackseq |-> srv.seqno, blksize |-> CAPACITY]
<1>1. /\ Sending("DOWNLOAD_BLK_SUBBLOCK_RSP") /\ od' = o /\ toServer' = toServer
      /\ IF v.s.state = "ABORT"
         THEN toClient' = Append(toClient, ab) /\ srv' = Rest(srv)
         ELSE toClient' = Append(toClient, ack) /\ srv' = x
  BY DEF DownloadBlkSubblockRsp
<1>2. srv.state = "DOWNLOAD_BLK_SUBBLOCK_RSP" /\ srv.pc = "send"
  BY <1>1, SendingIs, FitsIs
<1>3. /\ srv.len = LENGTH /\ srv.off \in 0..LENGTH /\ IsSeq(srv.buf) /\ srv.sizeTran \in Nat
      /\ srv.crc = SubSeq(od.value, 1, srv.off) /\ srv.seqno \in Nat
  BY <1>2, FitsIs DEF Reads, At, BlockIn
<1>4. /\ Whole(od) /\ DOMAIN srv = DOMAIN Idle /\ srv.finished \in BOOLEAN /\ srv.isNew \in BOOLEAN
      /\ srv.rxNew \in BOOLEAN
  BY FitsIs DEF Fits, BusInv, BusOk
<1>5. /\ Whole(o) /\ DOMAIN v.s = DOMAIN Idle
      /\ v.s.state # "ABORT" =>
           /\ v.s.finished = srv.finished /\ v.s.isNew = srv.isNew /\ v.s.rxNew = srv.rxNew
           /\ v.s.rx = srv.rx /\ v.s.seqno = srv.seqno /\ v.s.len = LENGTH
           /\ v.s.off \in 0..LENGTH /\ v.s.sizeTran \in Nat /\ IsSeq(v.s.buf)
           /\ v.s.crc = SubSeq(o.value, 1, v.s.off)
  <2>1. CASE srv.finished \/ srv.buf = <<>>
    <3>1. v.s = srv /\ v.value = od.value
      BY <2>1 DEF Kept
    <3>2. o = od
      BY <1>4, <3>1 DEF Whole
    <3> QED
      BY <1>3, <1>4, <3>1, <3>2
  <2>2. CASE ~(srv.finished \/ srv.buf = <<>>)
    <3>1. v = Validate(srv, None)
      BY <2>2
    <3> DEFINE w == Validate(srv, None)
    <3>2. o = [od EXCEPT !.value = Validate(srv, None).value]
      BY <3>1
    <3> HIDE DEF v, o
    <3>3. /\ Whole(o) /\ DOMAIN w.s = DOMAIN Idle
          /\ w.s.state # "ABORT" =>
               /\ w.s = [srv EXCEPT !.buf = <<>>, !.off = w.s.off, !.crc = srv.crc \o srv.buf,
                                    !.sizeTran = w.s.sizeTran]
               /\ w.s.off \in 0..LENGTH /\ w.s.sizeTran \in Nat
               /\ ~srv.finished => SubSeq(o.value, 1, w.s.off) = Got(srv, od)
      <4>1. /\ Whole(od) /\ DOMAIN srv = DOMAIN Idle /\ srv.finished \in BOOLEAN /\ srv.state # "ABORT"
            /\ srv.len = LENGTH /\ srv.off \in 0..LENGTH /\ IsSeq(srv.buf) /\ srv.sizeTran \in Nat
        BY <1>2, <1>3, <1>4
      <4>2. Validated(srv, None, w, o)
        <5>1. Validated(srv, None, Validate(srv, None), [od EXCEPT !.value = Validate(srv, None).value])
          BY <4>1, ValidatedIs
        <5> QED
          BY <3>2, <5>1
      <4> HIDE DEF w
      <4> QED
        BY <4>2 DEF Validated
    <3> HIDE DEF w
    <3>4. ASSUME w.s.state # "ABORT"
          PROVE  /\ w.s.finished = srv.finished /\ w.s.isNew = srv.isNew /\ w.s.rxNew = srv.rxNew
                 /\ w.s.rx = srv.rx /\ w.s.seqno = srv.seqno /\ w.s.len = srv.len
                 /\ w.s.buf = <<>> /\ w.s.crc = srv.crc \o srv.buf
      BY <1>4, <3>3, <3>4 DEF Idle
    <3>5. IsSeq(<<>>)
      BY EmptyIs
    <3>6. srv.crc \o srv.buf = Got(srv, od)
      BY <1>3 DEF Got
    <3>7. v = w
      BY <3>1 DEF w
    <3> QED
      BY <1>3, <2>2, <3>3, <3>4, <3>5, <3>6, <3>7
  <2> QED
    BY <2>1, <2>2
<1>6. Linked(cli, q, p, srv, od, transfer) /\ At(srv, BlockIn)
  BY <1>2, FitsIs DEF At, BlockIn
<1>7. /\ ab.cs \notin Responses /\ FrameOk(ab) /\ ack.cs \notin Responses /\ FrameOk(ack)
  BY <1>3 DEF Responses, FrameOk
<1>8. CASE v.s.state = "ABORT"
  <2>1. toClient' = Append(toClient, ab) /\ srv' = Rest(srv)
    BY <1>1, <1>8
  <2>2. /\ DOMAIN srv' = DOMAIN Idle /\ srv'.finished = FALSE /\ srv'.isNew = FALSE
        /\ srv'.state = "IDLE" /\ srv'.pc = "out" /\ srv'.rxNew = srv.rxNew /\ srv'.rx = srv.rx
    BY <2>1 DEF Rest, Idle
  <2> HIDE DEF ab, ack, x, v, o
  <2>3. Core(srv', od') /\ Rests(srv')
    BY <2>2, CoreRests
  <2>4. ServerOk(srv', od')
    BY <2>2, <2>3 DEF ServerOk, Steps
  <2>5. Linked(cli, q, p, srv', od', transfer)
    BY <1>6, <2>3, LinkBlock
  <2>6. Joint'
    BY <1>1, <1>7, <2>1, <2>2, <2>4, <2>5, ServerMoves
  <2> QED
    BY <1>1, <1>5, <2>6
<1>9. CASE v.s.state # "ABORT"
  <2>1. toClient' = Append(toClient, ack) /\ srv' = x
    BY <1>1, <1>9
  <2>2. /\ DOMAIN x = DOMAIN Idle /\ x.finished = srv.finished /\ x.isNew = srv.isNew
        /\ x.state = (IF srv.finished THEN "DOWNLOAD_BLK_END_REQ" ELSE "DOWNLOAD_BLK_SUBBLOCK_REQ")
        /\ x.buf = v.s.buf /\ x.off = v.s.off /\ x.len = LENGTH /\ x.sizeTran = v.s.sizeTran
        /\ x.crc = v.s.crc /\ x.pc = "out"
        /\ x.seqno = (IF srv.finished THEN srv.seqno ELSE 0)
        /\ x.rxNew = (srv.rxNew /\ srv.finished) /\ x.rx = (IF srv.finished THEN srv.rx ELSE None)
    <3> HIDE DEF v
    <3> QED
      BY <1>5, <1>9 DEF Idle
  <2> HIDE DEF ab, ack, x, v, o
  <2>3. At(x, BlockIn) /\ x.state \in BlockIn
    BY <2>2 DEF At, BlockIn
  <2>4. Reads(x, o)
    BY <1>3, <1>5, <1>9, <2>2 DEF Reads, At, BlockIn, SegmentsIn
  <2>5. Sends(x, o)
    BY <2>2 DEF Sends, At, Out, BlockOut
  <2>6. Core(x, o)
    BY <1>4, <2>2, <2>4, <2>5 DEF Core, CO_SDO_state_t
  <2>7. ServerOk(srv', od')
    BY <1>1, <2>1, <2>2, <2>6 DEF ServerOk, Steps
  <2>8. Linked(cli, q, p, srv', od', transfer) /\ Linked(cli, None, p, srv', od', transfer)
    BY <1>6, <2>1, <2>3, LinkBlock, LinkLoses
  <2>9. CASE srv.finished
    <3>1. srv'.rxNew = srv.rxNew /\ srv'.rx = srv.rx
      BY <1>4, <2>1, <2>2, <2>9
    <3>2. Joint'
      BY <1>1, <1>7, <2>1, <2>7, <2>8, <3>1, ServerMoves
    <3> QED
      BY <1>1, <1>5, <3>2
  <2>10. CASE ~srv.finished
    <3> DEFINE q2 == IF srv.rxNew /\ srv.rx.cs \in Requests THEN None ELSE q
    <3>1. Linked(cli, q2, p, srv', od', transfer)
      BY <2>8
    <3>2. srv'.rxNew = FALSE /\ q2 = IF srv.rxNew /\ srv.rx.cs \in Requests THEN None ELSE q
      BY <2>1, <2>2, <2>10
    <3> HIDE DEF q2
    <3>3. Joint'
      BY <1>1, <1>7, <2>1, <2>7, <3>1, <3>2, ServerMoves
    <3> QED
      BY <1>1, <1>5, <3>3
  <2> QED
    BY <2>9, <2>10
<1> QED
  BY <1>8, <1>9
-----------------------------------------------------------------------------
(* The handlers of a message.                                              *)

(* The server handles the message f; the request under way is q before and *)
(* q2 after it.                                                            *)
Handles(q, p, q2, f) ==
  /\ Fits(q, p) /\ srv.pc = "handle" /\ srv.rxNew /\ f = srv.rx
  /\ q2 = IF srv.rxNew /\ srv.rx.cs \in Requests THEN None ELSE q

(* What it may be after the message.                                       *)
Handled(q2, p, x, o) ==
  /\ DOMAIN x = DOMAIN Idle /\ x.pc # "sent" /\ Core(x, o) /\ Whole(o)
  /\ Linked(cli, q2, p, x, o, transfer)

(* A message that is a request leaves none under way.                      *)
LEMMA HandlesIs ==
  ASSUME NEW q, NEW p, NEW q2, NEW f, Handles(q, p, q2, f)
  PROVE  /\ FrameOk(f) /\ Linked(cli, q2, p, srv, od, transfer)
         /\ f.cs \in Requests => /\ q = f /\ q2 = None /\ p = None
                                 /\ Linked(cli, f, None, srv, od, transfer)
         /\ f.cs \notin Requests => q2 = q
<1>1. FrameOk(f)
  BY DEF Handles, Fits, BusInv, BusOk
<1>2. Linked(cli, q2, p, srv, od, transfer)
  BY LinkLoses DEF Handles, Fits
<1>3. f.cs \in Requests => q = f /\ q2 = None
  <2>1. Carries(Requests, srv.rxNew, srv.rx, toServer, q)
    BY DEF Handles, Fits
  <2>2. srv.rxNew /\ srv.rx.cs \in Requests => q = srv.rx
    BY <2>1 DEF Carries
  <2> QED
    BY <2>2 DEF Handles
<1>4. ASSUME f.cs \in Requests PROVE p = None /\ Linked(cli, f, None, srv, od, transfer)
  <2>1. Fits(q, p) /\ q = f
    BY <1>3, <1>4 DEF Handles
  <2>2. Linked(cli, q, p, srv, od, transfer) /\ cli.state \in ClientStates
    BY <2>1, FitsIs
  <2>3. q.cs \in Requests
    BY <1>4, <2>1
  <2>4. p = None
    <3>1. Requested(cli, q, p, srv, od, transfer)
      BY <2>2, <2>3, RequestedIs
    <3> QED
      BY <3>1 DEF Requested
  <2> QED
    BY <2>1, <2>2, <2>4
<1> QED
  BY <1>1, <1>2, <1>3, <1>4 DEF Handles

(* An abort ends the transfer on the server's side.                        *)
LEMMA AbortedIs ==
  ASSUME NEW q2, NEW p, Linked(cli, q2, p, srv, od, transfer), Whole(od),
         NEW x, DOMAIN x = DOMAIN Idle, x.pc # "sent", x.finished \in BOOLEAN,
         x.isNew \in BOOLEAN, x.state = "ABORT"
  PROVE  Handled(q2, p, x, od)
<1>1. Core(x, od) /\ Rests(x)
  BY CoreRests
<1> QED
  BY <1>1, LinkRests DEF Handled

(* A handler that leaves the two fitting does so after the timers, too.    *)
LEMMA HandledIs ==
  ASSUME NEW q, NEW p, Fits(q, p), UNCHANGED <<cli, transfer, toServer, toClient>>,
         NEW q2, q2 = IF srv.rxNew /\ srv.rx.cs \in Requests THEN None ELSE q,
         NEW x, Handled(q2, p, x, od'),
         NEW t, t = Timers([x EXCEPT !.timer = 0, !.rxNew = FALSE, !.rx = None], 0),
         srv' = [t EXCEPT !.pc = "send", !.seen = t.state, !.isNew = FALSE]
  PROVE  Whole(od') /\ Joint'
<1> DEFINE y == [x EXCEPT !.timer = 0, !.rxNew = FALSE, !.rx = None]
<1>1. DOMAIN x = DOMAIN Idle /\ Core(x, od') /\ Linked(cli, q2, p, x, od', transfer) /\ Whole(od')
  BY DEF Handled
<1>2. x.pc # "sent" /\ x.isNew \in BOOLEAN
  BY DEF Handled, Core
<1>3. Alike(x, y) /\ y.state = x.state /\ y.pc # "sent" /\ y.rxNew = FALSE /\ y.isNew \in BOOLEAN
      /\ DOMAIN y = DOMAIN Idle
  BY <1>1, <1>2 DEF Alike, Idle
<1>4. t = Timers(y, 0)
  OBVIOUS
<1> HIDE DEF y
<1>5. Core(y, od') /\ Linked(cli, q2, p, y, od', transfer)
  BY <1>1, <1>3, CoreSame, LinkSame
<1>6. /\ Alike(y, t) /\ t.pc = y.pc
      /\ (t.rxNew = y.rxNew /\ t.rx = y.rx) \/ (t.rxNew = FALSE /\ t.rx = None)
      /\ \/ t.state \in {y.state, "ABORT"}
         \/ y.state = "DOWNLOAD_BLK_SUBBLOCK_REQ" /\ t.state = "DOWNLOAD_BLK_SUBBLOCK_RSP"
  <2> DEFINE u == Timers(y, 0)
  <2>1. /\ Alike(y, u) /\ u.pc = y.pc
        /\ (u.rxNew = y.rxNew /\ u.rx = y.rx) \/ (u.rxNew = FALSE /\ u.rx = None)
        /\ \/ u.state \in {y.state, "ABORT"}
           \/ y.state = "DOWNLOAD_BLK_SUBBLOCK_REQ" /\ u.state = "DOWNLOAD_BLK_SUBBLOCK_RSP"
    <3>1. Ticked(y, u)
      BY <1>3, TickedIs
    <3> HIDE DEF u
    <3> QED
      BY <3>1 DEF Ticked
  <2> HIDE DEF u
  <2>2. t = u
    BY <1>4 DEF u
  <2> QED
    BY <2>1, <2>2
<1>7. /\ Alike(y, srv') /\ srv'.state = t.state /\ srv'.pc = "send" /\ srv'.seen = srv'.state
      /\ srv'.rxNew = FALSE
  BY <1>3, <1>6 DEF Alike, Idle
<1>8. Core(srv', od') /\ Linked(cli, q2, p, srv', od', transfer)
  BY <1>5, <1>6, <1>7, TimedIs
<1>9. ServerOk(srv', od')
  BY <1>7, <1>8 DEF ServerOk, Steps
<1>10. Joint'
  BY <1>7, <1>8, <1>9, ServerMoves
<1> QED
  BY <1>1, <1>10

(* A handler that writes nothing.                                          *)
LEMMA KeptIs ==
  ASSUME Whole(od), NEW x
  PROVE  Kept(x).s = x /\ [od EXCEPT !.value = Kept(x).value] = od
  BY DEF Kept, Whole

(* What a download has brought so far is a sequence.                       *)
LEMMA GotIs ==
  ASSUME Whole(od), NEW s, s.off \in 0..LENGTH, IsSeq(s.buf)
  PROVE  IsSeq(Got(s, od)) /\ IsSeq(SubSeq(od.value, 1, s.off))
<1>1. IsSeq(od.value) /\ Len(od.value) = LENGTH
  BY ValueIs
<1>2. IsSeq(SubSeq(od.value, 1, s.off))
  BY <1>1, PrefixIs
<1> QED
  BY <1>2, ConcatIs DEF Got

(* A segment of a download adds its data to it.                            *)
LEMMA GotAppend ==
  ASSUME Whole(od), NEW s, s.off \in 0..LENGTH, IsSeq(s.buf), NEW d, IsSeq(d),
         NEW t, t.off = s.off, t.buf = s.buf \o d, IsSeq(t.buf)
  PROVE  IsSeq(Got(t, od)) /\ Got(t, od) = Got(s, od) \o d
<1> DEFINE a == SubSeq(od.value, 1, s.off)  b == s.buf
<1>1. IsSeq(a) /\ IsSeq(b) /\ IsSeq(Got(t, od))
  BY GotIs
<1>2. Got(t, od) = a \o (b \o d) /\ Got(s, od) = a \o b
  BY DEF Got
<1> HIDE DEF a, b
<1>3. (a \o b) \o d = a \o (b \o d)
  BY <1>1, ConcatAssoc
<1> QED
  BY <1>1, <1>2, <1>3

(* A download is given up after part of it has been written.               *)
LEMMA GivenUpIs ==
  ASSUME NEW o, Whole(o), NEW x, DOMAIN x = DOMAIN Idle, x.pc # "sent", x.finished \in BOOLEAN,
         x.isNew \in BOOLEAN, x.state = "ABORT",
         cli.state \in {"DOWNLOAD_SEGMENT_RSP", "DOWNLOAD_BLK_END_RSP"}
  PROVE  Handled(None, None, x, o)
<1>1. Core(x, o) /\ Rests(x)
  BY CoreRests
<1>2. Linked(cli, None, None, x, o, transfer)
  BY <1>1 DEF Linked, DownloadSegmented, DownloadBlkEnded, Lost, Silence
<1> QED
  BY <1>1, <1>2 DEF Handled

(* A segment of a download comes when the client waits for its answer.     *)
LEMMA SegmentIs ==
  ASSUME NEW q, NEW p, NEW q2, NEW f, Handles(q, p, q2, f),
         srv.state = "DOWNLOAD_SEGMENT_REQ", f.cs = "dlSeg"
  PROVE  /\ q2 = None /\ p = None /\ cli.state = "DOWNLOAD_SEGMENT_RSP"
         /\ f.last = cli.finished /\ f.last \in BOOLEAN /\ IsSeq(f.data)
         /\ (Got(srv, od) \o f.data) \o cli.fifo = transfer.data
         /\ (cli.finished <=> cli.fifo = <<>>)
         /\ srv.len = LENGTH /\ srv.off \in 0..LENGTH /\ IsSeq(srv.buf) /\ srv.sizeTran \in Nat
<1>1. Fits(q, p) /\ f.cs \in Requests
  BY DEF Handles, Requests
<1>2. q2 = None /\ p = None /\ FrameOk(f) /\ Linked(cli, f, None, srv, od, transfer)
  BY <1>1, HandlesIs
<1>3. Requested(cli, f, None, srv, od, transfer)
  BY <1>1, <1>2, FitsIs, RequestedIs
<1>4. ~Rests(srv)
  BY DEF Rests
<1>5. /\ cli.state = "DOWNLOAD_SEGMENT_RSP" /\ f.last = cli.finished
      /\ (Got(srv, od) \o f.data) \o cli.fifo = transfer.data
  BY <1>3, <1>4 DEF Requested
<1>6. f.last \in BOOLEAN /\ IsSeq(f.data)
  BY <1>2 DEF FrameOk
<1>7. cli.finished <=> cli.fifo = <<>>
  <2>1. ClientOk(cli, transfer)
    BY <1>1, FitsIs
  <2>2. Gives(cli, transfer)
    BY <1>5, <2>1 DEF ClientOk, Downloads, Uploads
  <2> QED
    BY <1>5, <2>2 DEF Gives
<1>8. srv.len = LENGTH /\ srv.off \in 0..LENGTH /\ IsSeq(srv.buf) /\ srv.sizeTran \in Nat
  <2>1. Reads(srv, od)
    BY <1>1, FitsIs
  <2> QED
    BY <2>1 DEF Reads, At, SegmentsIn
<1> QED
  BY <1>2, <1>5, <1>6, <1>7, <1>8

(* A segment of a download is handled.                                     *)
LEMMA DownloadSegmentReqIs ==
  ASSUME NEW q, NEW p, NEW q2, NEW f, Handles(q, p, q2, f),
         srv.state = "DOWNLOAD_SEGMENT_REQ",
         NEW r, r = DownloadSegmentReq(srv, f), NEW o, o = [od EXCEPT !.value = r.value]
  PROVE  Handled(q2, p, r.s, o)
<1>1. /\ Fits(q, p) /\ srv.pc = "handle" /\ Whole(od) /\ DOMAIN srv = DOMAIN Idle
      /\ srv.finished \in BOOLEAN /\ srv.isNew \in BOOLEAN
  BY FitsIs DEF Handles
<1>2. ASSUME NEW code, r = Kept(Aborted(srv, code)) PROVE Handled(q2, p, r.s, o)
  <2>1. r.s = Aborted(srv, code) /\ o = od
    BY <1>1, <1>2, KeptIs
  <2>2. /\ DOMAIN r.s = DOMAIN Idle /\ r.s.pc = "handle" /\ r.s.finished \in BOOLEAN
        /\ r.s.isNew \in BOOLEAN /\ r.s.state = "ABORT"
    BY <1>1, <2>1 DEF Aborted, Idle
  <2>3. Linked(cli, q2, p, srv, od, transfer)
    BY HandlesIs
  <2> QED
    BY <1>1, <2>1, <2>2, <2>3, AbortedIs
<1>3. CASE f.cs # "dlSeg"
  BY <1>2, <1>3 DEF DownloadSegmentReq
<1>4. CASE f.toggle # srv.toggle /\ f.cs = "dlSeg"
  BY <1>2, <1>4 DEF DownloadSegmentReq
<1>5. CASE f.toggle = srv.toggle /\ f.cs = "dlSeg"
  <2> DEFINE t == [srv EXCEPT !.finished = f.last, !.buf = srv.buf \o f.data,
                              !.sizeTran = srv.sizeTran + Len(f.data)]
             v == IF f.last \/ Len(t.buf) = CAPACITY THEN Validate(t, None) ELSE Kept(t)
  <2>1. r = IF t.sizeTran > srv.len THEN Kept(Aborted(t, "DATA_LONG"))
            ELSE IF v.s.state = "ABORT" THEN v ELSE [v EXCEPT !.s.state = "DOWNLOAD_SEGMENT_RSP"]
    BY <1>5 DEF DownloadSegmentReq
  <2>2. /\ q2 = None /\ p = None /\ cli.state = "DOWNLOAD_SEGMENT_RSP"
        /\ f.last = cli.finished /\ f.last \in BOOLEAN /\ IsSeq(f.data)
        /\ (Got(srv, od) \o f.data) \o cli.fifo = transfer.data
        /\ (cli.finished <=> cli.fifo = <<>>)
        /\ srv.len = LENGTH /\ srv.off \in 0..LENGTH /\ IsSeq(srv.buf) /\ srv.sizeTran \in Nat
    BY <1>5, SegmentIs
  <2>3. /\ DOMAIN t = DOMAIN Idle /\ t.finished = f.last /\ t.state # "ABORT" /\ t.pc = "handle"
        /\ t.isNew = srv.isNew /\ t.len = LENGTH /\ t.off = srv.off /\ t.buf = srv.buf \o f.data
        /\ t.sizeTran = srv.sizeTran + Len(f.data)
    BY <1>1, <2>2 DEF Idle
  <2> HIDE DEF t
  <2>4. IsSeq(t.buf) /\ t.sizeTran \in Nat
    <3>1. Len(f.data) \in Nat
      BY <2>2, SeqIs
    <3> QED
      BY <2>2, <2>3, <3>1, ConcatIs
  <2>5. IsSeq(Got(t, od)) /\ Got(t, od) \o cli.fifo = transfer.data
    <3>1. IsSeq(Got(t, od)) /\ Got(t, od) = Got(srv, od) \o f.data
      BY <1>1, <2>2, <2>3, <2>4, GotAppend
    <3> QED
      BY <2>2, <3>1
  <2>6. CASE t.sizeTran > srv.len
    <3>1. r = Kept(Aborted(t, "DATA_LONG"))
      BY <2>1, <2>6
    <3>2. r.s = Aborted(t, "DATA_LONG") /\ o = od
      BY <1>1, <3>1, KeptIs
    <3>3. /\ DOMAIN r.s = DOMAIN Idle /\ r.s.pc = "handle" /\ r.s.finished \in BOOLEAN
          /\ r.s.isNew \in BOOLEAN /\ r.s.state = "ABORT"
      BY <1>1, <2>2, <2>3, <3>2 DEF Aborted, Idle
    <3> QED
      BY <1>1, <2>2, <3>2, <3>3, GivenUpIs
  <2>7. CASE ~(t.sizeTran > srv.len)
    <3> DEFINE w == [od EXCEPT !.value = v.value]
    <3>1. /\ Whole(w) /\ DOMAIN v.s = DOMAIN Idle /\ v.s.pc = "handle" /\ v.s.isNew \in BOOLEAN
          /\ v.s.finished = f.last /\ DOMAIN v = {"s", "value"}
          /\ v.s.state # "ABORT" =>
               /\ v.s.len = LENGTH /\ v.s.off \in 0..LENGTH /\ IsSeq(v.s.buf) /\ v.s.sizeTran \in Nat
               /\ f.last => Stored(w, transfer)
               /\ ~f.last => Got(v.s, w) \o cli.fifo = transfer.data
      <4>1. CASE f.last \/ Len(t.buf) = CAPACITY
        <5>1. v = Validate(t, None)
          BY <4>1
        <5>2. Validated(t, None, Validate(t, None), [od EXCEPT !.value = Validate(t, None).value])
          BY <1>1, <2>2, <2>3, <2>4, ValidatedIs
        <5>3. Validated(t, None, v, w)
          BY <5>1, <5>2
        <5>4. DOMAIN v = {"s", "value"}
          BY <5>1 DEF Validate
        <5> HIDE DEF v, w
        <5>5. /\ Whole(w) /\ w.string = od.string /\ DOMAIN v.s = DOMAIN Idle /\ v.s.finished = f.last
              /\ v.s.pc = "handle"
          BY <2>3, <5>3 DEF Validated
        <5>6. ASSUME v.s.state # "ABORT"
              PROVE  /\ v.s = [t EXCEPT !.buf = <<>>, !.off = v.s.off, !.crc = t.crc \o t.buf,
                                        !.sizeTran = v.s.sizeTran]
                     /\ v.s.off \in 0..LENGTH /\ v.s.sizeTran \in Nat
          BY <5>3, <5>6 DEF Validated
        <5>7. ASSUME v.s.state # "ABORT", f.last
              PROVE  /\ SubSeq(w.value, 1, Len(Got(t, od))) = Got(t, od)
                     /\ od.string \/ Len(Got(t, od)) = LENGTH
          BY <2>3, <5>3, <5>7 DEF Validated
        <5>8. ASSUME v.s.state # "ABORT", ~f.last
              PROVE  SubSeq(w.value, 1, v.s.off) = Got(t, od)
          BY <2>3, <5>3, <5>8 DEF Validated
        <5>9. ASSUME v.s.state # "ABORT" PROVE v.s.len = LENGTH /\ v.s.buf = <<>> /\ IsSeq(<<>>)
          BY <2>3, <5>6, <5>9, EmptyIs DEF Idle
        <5>10. ASSUME v.s.state # "ABORT", f.last PROVE Stored(w, transfer)
          <6>1. Got(t, od) = transfer.data
            BY <2>2, <2>5, <5>10, ConcatEmpty
          <6> QED
            BY <5>5, <5>7, <5>10, <6>1 DEF Stored
        <5>11. ASSUME v.s.state # "ABORT", ~f.last PROVE Got(v.s, w) \o cli.fifo = transfer.data
          <6>1. Got(v.s, w) = Got(t, od) \o <<>>
            BY <5>8, <5>9, <5>11 DEF Got
          <6>2. Got(t, od) \o <<>> = Got(t, od)
            BY <2>5, ConcatEmpty
          <6> QED
            BY <2>5, <6>1, <6>2
        <5>12. v.s.isNew \in BOOLEAN
          <6>1. v.s.isNew = t.isNew
            BY <2>3, <5>1, ValidateKeeps
          <6> QED
            BY <1>1, <2>3, <6>1
        <5> QED
          BY <5>4, <5>5, <5>6, <5>9, <5>10, <5>11, <5>12
      <4>2. CASE ~(f.last \/ Len(t.buf) = CAPACITY)
        <5>1. v = Kept(t)
          BY <4>2
        <5>2. v.s = t /\ w = od /\ DOMAIN v = {"s", "value"}
          BY <1>1, <5>1, KeptIs DEF Kept
        <5> HIDE DEF v, w
        <5> QED
          BY <1>1, <2>2, <2>3, <2>4, <2>5, <4>2, <5>2
      <4> QED
        BY <4>1, <4>2
    <3> HIDE DEF v
    <3>2. CASE v.s.state = "ABORT"
      <4>1. r = v
        BY <2>1, <2>7, <3>2
      <4> QED
        BY <2>2, <3>1, <3>2, <4>1, GivenUpIs
    <3>3. CASE v.s.state # "ABORT"
      <4> DEFINE x == r.s
      <4>1. r = [v EXCEPT !.s.state = "DOWNLOAD_SEGMENT_RSP"]
        BY <2>1, <2>7, <3>3
      <4>2. x = [v.s EXCEPT !.state = "DOWNLOAD_SEGMENT_RSP"] /\ r.value = v.value
        BY <3>1, <4>1
      <4>3. o = w
        BY <4>2
      <4>4. /\ DOMAIN x = DOMAIN Idle /\ x.pc = "handle" /\ x.isNew \in BOOLEAN /\ x.finished = f.last
            /\ x.len = v.s.len /\ x.off = v.s.off /\ x.buf = v.s.buf /\ x.sizeTran = v.s.sizeTran
            /\ x.state = "DOWNLOAD_SEGMENT_RSP"
        BY <3>1, <4>2 DEF Idle
      <4> HIDE DEF x, w
      <4>5. Reads(x, o) /\ Sends(x, o)
        BY <3>1, <3>3, <4>4 DEF Reads, Sends, At, SegmentsIn, BlockIn, Out, BlockOut
      <4>6. Core(x, o)
        BY <2>2, <4>4, <4>5 DEF Core, CO_SDO_state_t
      <4>7. Got(x, o) = Got(v.s, w)
        BY <4>3, <4>4 DEF Got
      <4>8. DownloadSegmented(cli, None, None, x, o, transfer)
        BY <2>2, <3>1, <3>3, <4>3, <4>4, <4>7 DEF DownloadSegmented, Silence
      <4>9. Linked(cli, None, None, x, o, transfer)
        BY <2>2, <4>8 DEF Linked
      <4>10. Handled(q2, p, x, o)
        BY <2>2, <3>1, <4>3, <4>4, <4>6, <4>9 DEF Handled
      <4> QED
        BY <4>10 DEF x
    <3> QED
      BY <3>2, <3>3
  <2> QED
    BY <2>6, <2>7
<1> QED
  BY <1>3, <1>4, <1>5

(* A handler that gives up.                                                *)
LEMMA AbortsIs ==
  ASSUME NEW q, NEW p, NEW q2, NEW f, Handles(q, p, q2, f),
         NEW y, DOMAIN y = DOMAIN Idle, y.pc # "sent", y.finished \in BOOLEAN, y.isNew \in BOOLEAN,
         NEW code, NEW x, x = Aborted(y, code)
  PROVE  Handled(q2, p, x, od)
<1>1. Whole(od) /\ Linked(cli, q2, p, srv, od, transfer)
  BY HandlesIs, FitsIs DEF Handles
<1>2. /\ DOMAIN x = DOMAIN Idle /\ x.pc # "sent" /\ x.finished \in BOOLEAN
      /\ x.isNew \in BOOLEAN /\ x.state = "ABORT"
  BY DEF Aborted, Idle
<1> QED
  BY <1>1, <1>2, AbortedIs

(* What the server is when it handles a message.                           *)
LEMMA ServerIs ==
  ASSUME NEW q, NEW p, NEW q2, NEW f, Handles(q, p, q2, f)
  PROVE  /\ Fits(q, p) /\ srv.pc = "handle" /\ Whole(od) /\ DOMAIN srv = DOMAIN Idle
         /\ srv.finished \in BOOLEAN /\ srv.isNew \in BOOLEAN /\ Core(srv, od)
         /\ cli.state \in ClientStates
  BY FitsIs DEF Handles

(* The end of a block download is handled: the checksum is compared.       *)
LEMMA DownloadBlkEndReqIs ==
  ASSUME NEW q, NEW p, NEW q2, NEW f, Handles(q, p, q2, f),
         srv.state = "DOWNLOAD_BLK_END_REQ",
         NEW r, r = DownloadBlkEndReq(srv, f), NEW o, o = [od EXCEPT !.value = r.value]
  PROVE  Handled(q2, p, r.s, o)
<1>1. /\ Fits(q, p) /\ srv.pc = "handle" /\ Whole(od) /\ DOMAIN srv = DOMAIN Idle
      /\ srv.finished \in BOOLEAN /\ srv.isNew \in BOOLEAN /\ Core(srv, od)
      /\ cli.state \in ClientStates
  BY ServerIs
<1>2. CASE f.cs # "dlBlkEnd"
  <2>1. r = Kept(Aborted(srv, "CMD"))
    BY <1>2 DEF DownloadBlkEndReq
  <2>2. r.s = Aborted(srv, "CMD") /\ o = od
    BY <1>1, <2>1, KeptIs
  <2> QED
    BY <1>1, <2>2, AbortsIs
<1>3. CASE f.cs = "dlBlkEnd"
  <2> DEFINE crc == [sum |-> f.crc]
             v == Validate(srv, crc)
             w == [od EXCEPT !.value = v.value]
  <2>1. r = IF v.s.state = "ABORT" THEN v ELSE [v EXCEPT !.s.state = "DOWNLOAD_BLK_END_RSP"]
    BY <1>3 DEF DownloadBlkEndReq
  <2>2. crc.sum = f.crc /\ crc # None
    BY DEF None
  <2>3. /\ srv.len = LENGTH /\ srv.off \in 0..LENGTH /\ IsSeq(srv.buf) /\ srv.sizeTran \in Nat
        /\ srv.crc = SubSeq(od.value, 1, srv.off) /\ srv.finished
    <3>1. Reads(srv, od)
      BY <1>1, FitsIs
    <3> QED
      BY <3>1 DEF Reads, At, BlockIn
  <2>4. q2 = None /\ p = None /\ cli.state = "DOWNLOAD_BLK_END_RSP" /\ f.crc = transfer.data
    <3>1. f.cs \in Requests
      BY <1>3 DEF Requests
    <3>2. q2 = None /\ p = None /\ Linked(cli, f, None, srv, od, transfer)
      BY <3>1, HandlesIs
    <3>3. Requested(cli, f, None, srv, od, transfer)
      BY <1>1, <3>1, <3>2, RequestedIs
    <3> QED
      BY <1>3, <3>2, <3>3 DEF Requested
  <2>5. Validated(srv, crc, v, w)
    <3> HIDE DEF crc
    <3> QED
      BY <1>1, <2>3, ValidatedIs
  <2>6. DOMAIN v = {"s", "value"}
    BY DEF Validate
  <2>7. v.s.isNew = srv.isNew
    <3> HIDE DEF crc
    <3> QED
      BY <1>1, ValidateKeeps
  <2> HIDE DEF v, w, crc
  <2>8. Whole(w) /\ w.string = od.string /\ DOMAIN v.s = DOMAIN Idle /\ v.s.finished \in BOOLEAN /\ v.s.pc = "handle"
    BY <1>1, <2>5 DEF Validated
  <2>9. CASE v.s.state = "ABORT"
    <3>1. r = v
      BY <2>1, <2>9
    <3>2. o = w
      BY <3>1 DEF w
    <3> QED
      BY <1>1, <2>4, <2>7, <2>8, <2>9, <3>1, <3>2, GivenUpIs
  <2>10. CASE v.s.state # "ABORT"
    <3> DEFINE x == r.s
    <3>1. r = [v EXCEPT !.s.state = "DOWNLOAD_BLK_END_RSP"]
      BY <2>1, <2>10
    <3>2. x = [v.s EXCEPT !.state = "DOWNLOAD_BLK_END_RSP"] /\ r.value = v.value
      BY <2>6, <3>1
    <3>3. o = w
      BY <3>2 DEF w
    <3>4. /\ DOMAIN x = DOMAIN Idle /\ x.pc = "handle" /\ x.isNew \in BOOLEAN
          /\ x.finished \in BOOLEAN /\ x.state = "DOWNLOAD_BLK_END_RSP"
      BY <1>1, <2>7, <2>8, <3>2 DEF Idle
    <3> HIDE DEF x
    <3>5. Reads(x, o) /\ Sends(x, o)
      BY <3>4 DEF Reads, Sends, At, SegmentsIn, BlockIn, Out, BlockOut
    <3>6. Core(x, o)
      BY <3>4, <3>5 DEF Core, CO_SDO_state_t
    <3>7. Got(srv, od) = transfer.data
      BY <2>2, <2>3, <2>4, <2>5, <2>10 DEF Validated, Got
    <3>8. /\ SubSeq(w.value, 1, Len(Got(srv, od))) = Got(srv, od)
          /\ od.string \/ Len(Got(srv, od)) = LENGTH
      BY <2>3, <2>5, <2>10 DEF Validated
    <3>9. Stored(w, transfer)
      BY <2>8, <3>7, <3>8 DEF Stored
    <3>10. DownloadBlkEnded(None, None, x, o, transfer)
      BY <3>3, <3>4, <3>9 DEF DownloadBlkEnded, Silence
    <3>11. Linked(cli, None, None, x, o, transfer)
      BY <2>4, <3>10 DEF Linked
    <3>12. Handled(q2, p, x, o)
      BY <2>4, <2>8, <3>3, <3>4, <3>6, <3>11 DEF Handled
    <3> QED
      BY <3>12 DEF x
  <2> QED
    BY <2>9, <2>10
<1> QED
  BY <1>2, <1>3

(* The request of a segment of an upload is handled.                       *)
LEMMA UploadSegmentReqIs ==
  ASSUME NEW q, NEW p, NEW q2, NEW f, Handles(q, p, q2, f),
         srv.state = "UPLOAD_SEGMENT_REQ", NEW x, x = UploadSegmentReq(srv, f)
  PROVE  Handled(q2, p, x, od)
<1>1. /\ Fits(q, p) /\ srv.pc = "handle" /\ Whole(od) /\ DOMAIN srv = DOMAIN Idle
      /\ srv.finished \in BOOLEAN /\ srv.isNew \in BOOLEAN /\ Core(srv, od)
      /\ cli.state \in ClientStates
  BY ServerIs
<1>2. CASE f.cs # "ulSeg"
  <2>1. x = Aborted(srv, "CMD")
    BY <1>2 DEF UploadSegmentReq
  <2> QED
    BY <1>1, <2>1, AbortsIs
<1>3. CASE f.cs = "ulSeg" /\ f.toggle # srv.toggle
  <2>1. x = Aborted(srv, "TOGGLE_BIT")
    BY <1>3 DEF UploadSegmentReq
  <2> QED
    BY <1>1, <2>1, AbortsIs
<1>4. CASE f.cs = "ulSeg" /\ f.toggle = srv.toggle
  <2>1. x = [srv EXCEPT !.state = "UPLOAD_SEGMENT_RSP"]
    BY <1>4 DEF UploadSegmentReq
  <2>2. /\ q2 = None /\ p = None /\ cli.state = "UPLOAD_SEGMENT_RSP"
        /\ Rcvd(cli, transfer) = Sent(srv, od)
    <3>1. f.cs \in Requests
      BY <1>4 DEF Requests
    <3>2. q2 = None /\ p = None /\ Linked(cli, f, None, srv, od, transfer)
      BY <3>1, HandlesIs
    <3>3. Requested(cli, f, None, srv, od, transfer)
      BY <1>1, <3>1, <3>2, RequestedIs
    <3>4. ~Rests(srv)
      BY DEF Rests
    <3> QED
      BY <1>4, <3>2, <3>3, <3>4 DEF Requested
  <2>3. Ahead(srv, od)
    BY <1>1, FitsIs DEF Sends, At, Out
  <2>4. /\ DOMAIN x = DOMAIN Idle /\ x.pc = "handle" /\ x.isNew = srv.isNew /\ x.finished = srv.finished
        /\ x.state = "UPLOAD_SEGMENT_RSP" /\ x.buf = srv.buf /\ x.off = srv.off /\ x.rd = srv.rd
        /\ x.crc = srv.crc
    BY <1>1, <2>1 DEF Idle
  <2>5. Ahead(x, od)
    BY <2>3, <2>4 DEF Ahead
  <2>6. Reads(x, od) /\ Sends(x, od)
    BY <2>4, <2>5 DEF Reads, Sends, At, SegmentsIn, BlockIn, Fresh
  <2>7. Core(x, od)
    BY <1>1, <2>4, <2>6 DEF Core, CO_SDO_state_t
  <2>8. Sent(x, od) = Sent(srv, od)
    BY <2>4 DEF Sent
  <2>9. UploadSegmented(cli, None, None, x, od, transfer)
    BY <2>2, <2>4, <2>8 DEF UploadSegmented, Silence
  <2>10. Linked(cli, None, None, x, od, transfer)
    BY <2>2, <2>9 DEF Linked
  <2> QED
    BY <1>1, <2>2, <2>4, <2>7, <2>10 DEF Handled
<1> QED
  BY <1>2, <1>3, <1>4

(* The start of a block upload is handled.                                 *)
LEMMA UploadBlkInitiateReq2Is ==
  ASSUME NEW q, NEW p, NEW q2, NEW f, Handles(q, p, q2, f),
         srv.state = "UPLOAD_BLK_INITIATE_REQ2", NEW x, x = UploadBlkInitiateReq2(srv, f)
  PROVE  Handled(q2, p, x, od)
<1>1. /\ Fits(q, p) /\ srv.pc = "handle" /\ Whole(od) /\ DOMAIN srv = DOMAIN Idle
      /\ srv.finished \in BOOLEAN /\ srv.isNew \in BOOLEAN /\ Core(srv, od)
      /\ cli.state \in ClientStates
  BY ServerIs
<1>2. CASE f.cs # "ulBlkStart"
  <2>1. x = Aborted(srv, "CMD")
    BY <1>2 DEF UploadBlkInitiateReq2
  <2> QED
    BY <1>1, <2>1, AbortsIs
<1>3. CASE f.cs = "ulBlkStart"
  <2>1. x = [srv EXCEPT !.seqno = 0, !.state = "UPLOAD_BLK_SUBBLOCK_SREQ"]
    BY <1>3 DEF UploadBlkInitiateReq2
  <2>2. /\ q2 = None /\ p = None
        /\ cli.state \in {"UPLOAD_BLK_SUBBLOCK_SREQ", "UPLOAD_BLK_SUBBLOCK_CRSP",
                          "UPLOAD_BLK_END_SREQ"}
    <3>1. f.cs \in Requests
      BY <1>3 DEF Requests
    <3>2. q2 = None /\ p = None /\ Linked(cli, f, None, srv, od, transfer)
      BY <3>1, HandlesIs
    <3>3. Requested(cli, f, None, srv, od, transfer)
      BY <1>1, <3>1, <3>2, RequestedIs
    <3> QED
      BY <1>3, <3>2, <3>3 DEF Requested
  <2>3. Ahead(srv, od) /\ srv.rd = 0 /\ srv.off = Len(srv.buf) /\ srv.off > 0
    BY <1>1, FitsIs DEF Sends, At, Out, Fresh
  <2>4. /\ DOMAIN x = DOMAIN Idle /\ x.pc = "handle" /\ x.isNew = srv.isNew /\ x.finished = srv.finished
        /\ x.state = "UPLOAD_BLK_SUBBLOCK_SREQ" /\ x.buf = srv.buf /\ x.off = srv.off /\ x.rd = srv.rd
        /\ x.crc = srv.crc /\ x.seqno = 0
    BY <1>1, <2>1 DEF Idle
  <2>5. Ahead(x, od)
    BY <2>3, <2>4 DEF Ahead
  <2>6. Reads(x, od) /\ Sends(x, od)
    BY <2>3, <2>4, <2>5 DEF Reads, Sends, At, SegmentsIn, BlockIn, Fresh
  <2>7. Core(x, od)
    BY <1>1, <2>4, <2>6 DEF Core, CO_SDO_state_t
  <2>8. UploadBlock(None, None, x, od)
    BY <2>4 DEF UploadBlock, Lost, Silence, At, BlockOut
  <2>9. Linked(cli, None, None, x, od, transfer)
    BY <2>2, <2>8 DEF Linked
  <2> QED
    BY <1>1, <2>2, <2>4, <2>7, <2>9 DEF Handled
<1> QED
  BY <1>2, <1>3

(* What the client has missed goes back into the buffer.                   *)
LEMMA MissedNumbers ==
  ASSUME NEW K \in Nat, NEW n \in 0..K, NEW a \in Nat, a <= n, NEW L \in Nat, K <= L
  PROVE  K - (n - a) \in 0..L
  OBVIOUS

(* The arithmetic of an answer to a sub-block.                             *)
LEMMA LeftNumbers ==
  ASSUME NEW L \in Nat, NEW K \in 0..L, NEW b \in Nat \ {0}
  PROVE  /\ K = L => ~(L - K >= b)
         /\ K # L => K < L
         /\ 0 \in 0..K
  OBVIOUS

(* The answer of the client to a sub-block is handled: what it has missed  *)
(* is sent again.                                                          *)
LEMMA UploadBlkResponseIs ==
  ASSUME NEW q, NEW p, NEW q2, NEW f, Handles(q, p, q2, f),
         srv.state \in {"UPLOAD_BLK_SUBBLOCK_SREQ", "UPLOAD_BLK_SUBBLOCK_CRSP"},
         NEW x, x = UploadBlkResponse(srv, f)
  PROVE  Handled(q2, p, x, od)
<1>1. /\ Fits(q, p) /\ srv.pc = "handle" /\ Whole(od) /\ DOMAIN srv = DOMAIN Idle
      /\ srv.finished \in BOOLEAN /\ srv.isNew \in BOOLEAN /\ Core(srv, od)
      /\ cli.state \in ClientStates
  BY ServerIs
<1>2. CASE f.cs # "ulBlkAck" \/ f.ackseq > srv.seqno
  <2>1. x = Aborted(srv, "CMD")
    BY <1>2 DEF UploadBlkResponse
  <2> QED
    BY <1>1, <2>1, AbortsIs
<1>3. CASE f.cs = "ulBlkAck" /\ ~(f.ackseq > srv.seqno)
  <2> DEFINE missed == srv.seqno - f.ackseq
             s == [srv EXCEPT !.blksize = f.blksize, !.rd = @ - missed, !.sizeTran = @ - missed]
             t == Refill(s, f.blksize)
  <2>1. x = IF t.state = "ABORT" THEN t
            ELSE IF t.rd = Len(t.buf) THEN [t EXCEPT !.state = "UPLOAD_BLK_END_SREQ"]
            ELSE [t EXCEPT !.seqno = 0, !.state = "UPLOAD_BLK_SUBBLOCK_SREQ"]
    BY <1>3 DEF UploadBlkResponse
  <2>2. f.blksize \in Nat \ {0} /\ f.ackseq \in Nat /\ f.cs \notin Requests /\ q2 = q
    <3>1. f.cs \notin Requests
      BY <1>3 DEF Requests
    <3>2. FrameOk(f) /\ q2 = q
      BY <3>1, HandlesIs
    <3> QED
      BY <1>3, <3>1, <3>2 DEF FrameOk
  <2>3. Ahead(srv, od) /\ srv.seqno \in 0..srv.rd
    BY <1>1, FitsIs DEF Sends, At, Out, BlockOut
  <2>4. srv.rd \in Nat /\ Len(srv.buf) \in Nat /\ srv.rd <= Len(srv.buf) /\ f.ackseq <= srv.seqno
    <3>1. srv.rd \in Nat /\ Len(srv.buf) \in Nat
      BY <1>1, <2>3, AheadIs
    <3>2. srv.rd \in 0..Len(srv.buf)
      BY <2>3 DEF Ahead
    <3> QED
      BY <1>3, <2>2, <2>3, <3>1, <3>2
  <2>5. srv.rd - missed \in 0..Len(srv.buf)
    <3> DEFINE K == srv.rd  n == srv.seqno  a == f.ackseq  L == Len(srv.buf)
    <3>1. K \in Nat /\ n \in 0..K /\ a \in Nat /\ a <= n /\ L \in Nat /\ K <= L
      BY <2>2, <2>3, <2>4
    <3> HIDE DEF K, n, a, L
    <3>2. K - (n - a) \in 0..L
      BY <3>1, MissedNumbers
    <3> QED
      BY <3>2 DEF K, n, a, L
  <2>6. /\ DOMAIN s = DOMAIN Idle /\ s.pc = "handle" /\ s.isNew = srv.isNew /\ s.finished = srv.finished
        /\ s.state = srv.state /\ s.buf = srv.buf /\ s.off = srv.off /\ s.rd = srv.rd - missed
        /\ s.crc = srv.crc
    BY <1>1 DEF Idle
  <2> HIDE DEF s, missed
  <2>7. Ahead(s, od)
    BY <2>3, <2>5, <2>6 DEF Ahead
  <2>8. /\ DOMAIN t = DOMAIN Idle /\ t.finished \in BOOLEAN /\ t.pc = s.pc
        /\ t.state \in {s.state, "ABORT"} /\ Ahead(t, od)
        /\ t.state # "ABORT" => t.finished \/ Len(t.buf) - t.rd >= f.blksize
    BY <1>1, <2>2, <2>6, <2>7, RefillIs
  <2>9. t.isNew = s.isNew
    BY <2>6, RefillKeeps
  <2> HIDE DEF t
  <2>10. Linked(cli, q, p, srv, od, transfer) /\ At(srv, BlockOut) /\ ~Rests(srv)
    BY <1>1, FitsIs DEF At, BlockOut, Rests
  <2>11. CASE t.state = "ABORT"
    <3>1. x = t
      BY <2>1, <2>11
    <3> QED
      BY <1>1, <2>2, <2>6, <2>8, <2>9, <2>10, <2>11, <3>1, AbortedIs
  <2>12. CASE t.state # "ABORT"
    <3> DEFINE st == IF t.rd = Len(t.buf) THEN "UPLOAD_BLK_END_SREQ" ELSE "UPLOAD_BLK_SUBBLOCK_SREQ"
    <3>1. /\ DOMAIN x = DOMAIN Idle /\ x.pc = "handle" /\ x.isNew = srv.isNew
          /\ x.finished = t.finished /\ x.state = st /\ x.buf = t.buf /\ x.off = t.off /\ x.rd = t.rd
          /\ x.crc = t.crc /\ (st = "UPLOAD_BLK_SUBBLOCK_SREQ" => x.seqno = 0)
      BY <1>1, <2>1, <2>6, <2>8, <2>9, <2>12 DEF Idle
    <3>2. t.rd \in 0..Len(t.buf) /\ Len(t.buf) \in Nat
      BY <1>1, <2>8, AheadIs
    <3>3. /\ (t.rd = Len(t.buf) => t.finished) /\ (t.rd # Len(t.buf) => t.rd < Len(t.buf))
          /\ 0 \in 0..t.rd
      <4> DEFINE L == Len(t.buf)  K == t.rd  b == f.blksize
      <4>1. L \in Nat /\ K \in 0..L /\ b \in Nat \ {0}
        BY <2>2, <3>2
      <4>2. t.finished \/ L - K >= b
        BY <2>8, <2>12
      <4> HIDE DEF L, K, b
      <4>3. (K = L => ~(L - K >= b)) /\ (K # L => K < L) /\ 0 \in 0..K
        BY <4>1, LeftNumbers
      <4>4. (K = L => t.finished) /\ (K # L => K < L) /\ 0 \in 0..K
        BY <4>2, <4>3
      <4> QED
        BY <4>4 DEF L, K
    <3>4. st \in {"UPLOAD_BLK_END_SREQ", "UPLOAD_BLK_SUBBLOCK_SREQ"}
          /\ (st = "UPLOAD_BLK_END_SREQ" => t.finished)
          /\ (st = "UPLOAD_BLK_SUBBLOCK_SREQ" => t.rd < Len(t.buf))
      BY <3>3
    <3> HIDE DEF st
    <3>5. Ahead(x, od)
      BY <2>8, <3>1 DEF Ahead
    <3>6. Reads(x, od)
      BY <3>1, <3>4 DEF Reads, At, SegmentsIn, BlockIn
    <3>7. Sends(x, od)
      BY <3>1, <3>3, <3>4, <3>5 DEF Sends, At, Fresh
    <3>8. Core(x, od)
      BY <1>1, <2>8, <3>1, <3>4, <3>6, <3>7 DEF Core, CO_SDO_state_t
    <3>9. /\ cli.state \in {"UPLOAD_BLK_SUBBLOCK_SREQ", "UPLOAD_BLK_SUBBLOCK_CRSP",
                            "UPLOAD_BLK_END_SREQ"}
          /\ q = None /\ p = None
      BY <1>1, <2>10, LinkServer DEF Silence
    <3>10. UploadBlock(q, p, x, od)
      BY <3>1, <3>4, <3>9 DEF UploadBlock, Lost, Silence, At, BlockOut
    <3>11. Linked(cli, q, p, x, od, transfer)
      BY <3>9, <3>10 DEF Linked
    <3> QED
      BY <1>1, <2>2, <3>1, <3>8, <3>11 DEF Handled
  <2> QED
    BY <2>11, <2>12
<1> QED
  BY <1>2, <1>3

(* A sub-block takes no message.                                           *)
LEMMA SubblockIs ==
  ASSUME NEW q, NEW p, NEW q2, NEW f, Handles(q, p, q2, f), At(srv, BlockIn),
         NEW x, x = [srv EXCEPT !.state = "DOWNLOAD_BLK_SUBBLOCK_REQ"]
  PROVE  Handled(q2, p, x, od)
<1>1. /\ Fits(q, p) /\ srv.pc = "handle" /\ Whole(od) /\ DOMAIN srv = DOMAIN Idle
      /\ srv.finished \in BOOLEAN /\ srv.isNew \in BOOLEAN /\ Core(srv, od)
      /\ cli.state \in ClientStates
  BY ServerIs
<1>2. /\ DOMAIN x = DOMAIN Idle /\ x.pc = "handle" /\ x.isNew = srv.isNew /\ x.finished = srv.finished
      /\ x.state = "DOWNLOAD_BLK_SUBBLOCK_REQ" /\ x.buf = srv.buf /\ x.off = srv.off /\ x.len = srv.len
      /\ x.sizeTran = srv.sizeTran /\ x.crc = srv.crc /\ x.seqno = srv.seqno
  BY <1>1 DEF Idle
<1>3. Reads(x, od)
  <2>1. Reads(srv, od)
    BY <1>1, FitsIs
  <2> QED
    BY <1>2, <2>1 DEF Reads, At, SegmentsIn, BlockIn
<1>4. Sends(x, od) /\ At(x, BlockIn)
  BY <1>2 DEF Sends, At, Out, BlockOut, BlockIn
<1>5. Core(x, od)
  BY <1>1, <1>2, <1>3, <1>4 DEF Core, CO_SDO_state_t
<1>6. Linked(cli, q2, p, srv, od, transfer)
  BY HandlesIs
<1>7. Linked(cli, q2, p, x, od, transfer)
  BY <1>4, <1>6, LinkBlock
<1> QED
  BY <1>1, <1>2, <1>5, <1>7 DEF Handled

(* The server as a message in the idle state finds it.                     *)
Opening(t) ==
  /\ DOMAIN t = DOMAIN Idle /\ t.pc = "out" /\ t.finished = FALSE /\ t.isNew = FALSE
  /\ t.len = LENGTH /\ t.off = 0 /\ t.rd = 0 /\ t.buf = <<>> /\ t.crc = <<>> /\ t.sizeTran = 0

(* A server that starts a transfer has forgotten the last one.             *)
LEMMA RestIs ==
  ASSUME NEW t, t = [Rest(srv) EXCEPT !.len = LENGTH]
  PROVE  Opening(t) /\ t.state = "IDLE"
  BY DEF Opening, Rest, Idle

Begun(s, size, i) ==
  \/ i.state = "ABORT" /\ \E code : i = Aborted(s, code)
  \/ i.state = s.state /\ i = [s EXCEPT !.sizeInd = size, !.finished = FALSE]

(* The size a client announces.                                            *)
LEMMA InitiatedIs ==
  ASSUME NEW s, DOMAIN s = DOMAIN Idle, s.state # "ABORT", NEW size, NEW string
  PROVE  Begun(s, size, Initiated(s, size, string))
<1> DEFINE i == Initiated(s, size, string)
<1>1. \/ i = Aborted(s, "DATA_LONG") \/ i = Aborted(s, "DATA_SHORT")
      \/ i = [s EXCEPT !.sizeInd = size, !.finished = FALSE]
  BY DEF Initiated
<1> HIDE DEF i
<1>2. "state" \in DOMAIN s
  BY DEF Idle
<1> QED
  BY <1>1, <1>2 DEF Aborted, Begun, i

(* A request that is handled is the one the client has sent.               *)
LEMMA RequestIs ==
  ASSUME NEW q, NEW p, NEW q2, NEW f, Handles(q, p, q2, f), f.cs \in Requests
  PROVE  q2 = None /\ p = None /\ Requested(cli, f, None, srv, od, transfer)
<1>1. q2 = None /\ p = None /\ Linked(cli, f, None, srv, od, transfer)
  BY HandlesIs
<1>2. cli.state \in ClientStates
  BY ServerIs
<1> QED
  BY <1>1, <1>2, RequestedIs

(* A unit that a single frame brings is stored.                            *)
Lands(o, d) ==
  /\ Whole(o) /\ SubSeq(o.value, 1, Len(d)) = d
  /\ o.string \/ Len(d) = LENGTH

(* An expedited download stores its data, a string with its end.           *)
LEMMA ExpeditedIs ==
  ASSUME Whole(od), NEW s, s.off = 0, NEW d, IsSeq(d), Len(d) <= 1, NEW data, IsSeq(data),
         Len(d) <= Len(data), \A i \in 1..Len(d) : data[i] = d[i],
         ~od.string => data = d,
         s.len = IF od.string THEN Len(data) ELSE LENGTH,
         NEW w, w = Write(s, data), w.ret = "OK", NEW o, o = [od EXCEPT !.value = w.value]
  PROVE  Lands(o, d)
<1>1. /\ IsSeq(od.value) /\ Len(od.value) = LENGTH /\ DOMAIN od.value = 1..LENGTH
      /\ LENGTH \in Nat \ {0} /\ Len(d) \in Nat /\ Len(data) \in Nat /\ DOMAIN data = 1..Len(data)
  BY ValueIs, SeqIs
<1>2. Whole(o) /\ o.string = od.string /\ o.value = w.value
  BY WriteKeepsWhole
<1>3. w.value = [i \in DOMAIN od.value |-> IF i - s.off \in DOMAIN data THEN data[i - s.off] ELSE od.value[i]]
      /\ ~(s.len - s.off < Len(data)) /\ ~(s.len - s.off > Len(data))
  BY DEF Write
<1>4. s.len = Len(data)
  <2> DEFINE l == s.len  k == Len(data)
  <2>1. l \in Nat /\ k \in Nat /\ ~(l - 0 < k) /\ ~(l - 0 > k)
    BY <1>1, <1>3
  <2> HIDE DEF l, k
  <2>2. l = k
    BY <2>1
  <2> QED
    BY <2>2 DEF l, k
<1>5. ~od.string => Len(d) = LENGTH
  BY <1>4
<1>6. \A i \in 1..Len(d) : i \in 1..LENGTH /\ i - 0 = i /\ i \in 1..Len(data)
  <2> DEFINE l == Len(d)  k == Len(data)
  <2>1. l \in Nat /\ k \in Nat /\ l <= 1 /\ l <= k /\ LENGTH \in Nat \ {0}
    BY <1>1
  <2> HIDE DEF l, k
  <2>2. \A i \in 1..l : i \in 1..LENGTH /\ i - 0 = i /\ i \in 1..k
    BY <2>1
  <2> QED
    BY <2>2 DEF l, k
<1>7. \A i \in 1..Len(d) : o.value[i] = d[i]
  <2> TAKE i \in 1..Len(d)
  <2>1. o.value[i] = data[i]
    BY <1>1, <1>2, <1>3, <1>6
  <2> QED
    BY <2>1
<1>8. IsSeq(o.value) /\ Len(o.value) = LENGTH /\ Len(d) \in 0..Len(o.value)
  <2>1. IsSeq(o.value) /\ Len(o.value) = LENGTH
    BY <1>2, ValueIs
  <2> QED
    BY <1>1, <2>1
<1>9. SubSeq(o.value, 1, Len(d)) = d
  <2> DEFINE l == Len(d)  v == o.value
  <2>1. IsSeq(v) /\ l \in 0..Len(v)
    BY <1>8
  <2> HIDE DEF l, v
  <2>2. IsSeq(SubSeq(v, 1, l)) /\ Len(SubSeq(v, 1, l)) = l /\ \A i \in 1..l : SubSeq(v, 1, l)[i] = v[i]
    BY <2>1, PrefixIs
  <2>3. \A i \in 1..l : v[i] = d[i]
    BY <1>7 DEF l, v
  <2> QED
    BY <2>2, <2>3, SameSeq DEF l, v
<1> QED
  BY <1>2, <1>5, <1>9 DEF Lands

(* The request of a download is handled.                                   *)
LEMMA DownloadInitiateReqIs ==
  ASSUME NEW q, NEW p, NEW q2, NEW f, Handles(q, p, q2, f), f.cs = "dlInit",
         NEW s, Opening(s), s.state = "DOWNLOAD_INITIATE_REQ",
         NEW r, r = DownloadInitiateReq(s, f), NEW o, o = [od EXCEPT !.value = r.value]
  PROVE  Handled(q2, p, r.s, o)
<1>1. /\ Fits(q, p) /\ srv.pc = "handle" /\ Whole(od) /\ DOMAIN srv = DOMAIN Idle
      /\ srv.finished \in BOOLEAN /\ srv.isNew \in BOOLEAN /\ Core(srv, od)
      /\ cli.state \in ClientStates
  BY ServerIs
<1>2. /\ q2 = None /\ p = None /\ cli.state = "DOWNLOAD_INITIATE_RSP"
      /\ f.expedited = cli.finished
      /\ cli.finished => f.data = transfer.data /\ Len(transfer.data) <= 1
  <2>1. f.cs \in Requests
    BY DEF Requests
  <2>2. q2 = None /\ p = None /\ Requested(cli, f, None, srv, od, transfer)
    BY <2>1, RequestIs
  <2> QED
    BY <2>2 DEF Requested
<1>3. cli.finished \in BOOLEAN /\ IsSeq(transfer.data)
  BY <1>1, FitsIs DEF ClientOk
<1>4. /\ DOMAIN s = DOMAIN Idle /\ s.pc = "out" /\ s.finished = FALSE /\ s.isNew = FALSE
      /\ s.len = LENGTH /\ s.off = 0 /\ s.sizeTran = 0
  BY DEF Opening
<1>5. ASSUME NEW x, DOMAIN x = DOMAIN Idle, x.pc = "out", x.isNew = FALSE, x.finished = cli.finished,
             x.state = "DOWNLOAD_INITIATE_RSP", x.len = LENGTH, x.off = 0, Whole(o),
             cli.finished => Stored(o, transfer)
      PROVE  Handled(q2, p, x, o)
  <2>1. Reads(x, o) /\ Sends(x, o)
    BY <1>5 DEF Reads, Sends, At, SegmentsIn, BlockIn, Out, BlockOut
  <2>2. Core(x, o)
    BY <1>3, <1>5, <2>1 DEF Core, CO_SDO_state_t
  <2>3. DownloadInitiated(cli, None, None, x, o, transfer)
    BY <1>5 DEF DownloadInitiated, Silence
  <2>4. Linked(cli, None, None, x, o, transfer)
    BY <1>2, <2>3 DEF Linked
  <2> QED
    BY <1>2, <1>5, <2>2, <2>4 DEF Handled
<1>6. CASE ~f.expedited
  <2> DEFINE i == Initiated(s, f.size, od.string)
  <2>1. r = Kept(IF i.state = "ABORT" THEN i ELSE [i EXCEPT !.state = "DOWNLOAD_INITIATE_RSP"])
    BY <1>6 DEF DownloadInitiateReq
  <2>2. o = od /\ r.s = IF i.state = "ABORT" THEN i ELSE [i EXCEPT !.state = "DOWNLOAD_INITIATE_RSP"]
    BY <1>1, <2>1, KeptIs
  <2>3. \/ i.state = "ABORT" /\ \E code : i = Aborted(s, code)
        \/ i.state = s.state /\ i = [s EXCEPT !.sizeInd = f.size, !.finished = FALSE]
    <3>1. Begun(s, f.size, i)
      BY <1>4, InitiatedIs
    <3> HIDE DEF i
    <3> QED
      BY <3>1 DEF Begun
  <2> HIDE DEF i
  <2>4. CASE i.state = "ABORT"
    <3>1. PICK code : i = Aborted(s, code)
      BY <2>3, <2>4
    <3>2. r.s = Aborted(s, code)
      BY <2>2, <2>4, <3>1
    <3>3. Handled(q2, p, r.s, od)
      BY <1>4, <3>2, AbortsIs
    <3> QED
      BY <2>2, <3>3
  <2>5. CASE i.state # "ABORT"
    <3> DEFINE x == r.s
    <3>1. x = [i EXCEPT !.state = "DOWNLOAD_INITIATE_RSP"] /\ i = [s EXCEPT !.sizeInd = f.size, !.finished = FALSE]
      BY <2>2, <2>3, <2>5
    <3>2. /\ DOMAIN x = DOMAIN Idle /\ x.pc = "out" /\ x.isNew = FALSE /\ x.finished = FALSE
          /\ x.state = "DOWNLOAD_INITIATE_RSP" /\ x.len = LENGTH /\ x.off = 0
      BY <1>4, <3>1 DEF Idle
    <3>3. ~cli.finished /\ x.finished = cli.finished
      BY <1>2, <1>3, <1>6, <3>2
    <3> HIDE DEF x
    <3>4. Handled(q2, p, x, o)
      BY <1>1, <1>5, <2>2, <3>2, <3>3
    <3> QED
      BY <3>4 DEF x
  <2> QED
    BY <2>4, <2>5
<1>7. CASE f.expedited
  <2> DEFINE d == f.data
             s1 == [s EXCEPT !.sizeTran = 1]
             data == Padded(s1, d)
             z == [s EXCEPT !.len = IF od.string THEN Len(data) ELSE LENGTH]
             w == Write(z, data)
  <2>1. r = IF w.ret # "OK" THEN Kept(Aborted(s, "DATA_SHORT"))
            ELSE [s |-> [s EXCEPT !.state = "DOWNLOAD_INITIATE_RSP", !.finished = TRUE], value |-> w.value]
    BY <1>7 DEF DownloadInitiateReq
  <2>2. d = transfer.data /\ IsSeq(d) /\ Len(d) <= 1 /\ cli.finished = TRUE
    BY <1>2, <1>3, <1>7
  <2>3. s1.sizeTran = 1 /\ s1.sizeTran \in Int
    BY <1>4 DEF Idle
  <2>4. z.off = 0 /\ z.len = IF od.string THEN Len(data) ELSE LENGTH
    <3> HIDE DEF data
    <3> QED
      BY <1>4 DEF Idle
  <2>5. LENGTH \in Nat /\ od.string \in BOOLEAN
    BY <1>1, ValueIs DEF Whole
  <2> HIDE DEF d, s1, z
  <2>6. IsSeq(data) /\ Len(data) >= Len(d)
    BY <2>2, <2>3, <2>5, PaddedIs
  <2>7. \A i \in 1..Len(d) : data[i] = d[i]
    <3>1. IsSeq(d) /\ s1.sizeTran \in Int /\ LENGTH \in Nat /\ od.string \in BOOLEAN
      BY <2>2, <2>3, <2>5
    <3>2. \A i \in 1..Len(d) : Padded(s1, d)[i] = d[i]
      BY <3>1, PaddedIs
    <3> HIDE DEF data
    <3> QED
      BY <3>2 DEF data
  <2>8. ~od.string => data = d
    BY DEF Padded
  <2> HIDE DEF data
  <2>9. Len(d) <= Len(data)
    <3>1. Len(d) \in Nat /\ Len(data) \in Nat
      BY <2>2, <2>6, SeqIs
    <3> QED
      BY <2>6, <3>1
  <2> HIDE DEF w
  <2>10. CASE w.ret # "OK"
    <3>1. r = Kept(Aborted(s, "DATA_SHORT"))
      BY <2>1, <2>10
    <3>2. r.s = Aborted(s, "DATA_SHORT") /\ o = od
      BY <1>1, <3>1, KeptIs
    <3> QED
      BY <1>4, <3>2, AbortsIs
  <2>11. CASE w.ret = "OK"
    <3> DEFINE x == r.s
    <3>1. x = [s EXCEPT !.state = "DOWNLOAD_INITIATE_RSP", !.finished = TRUE] /\ r.value = w.value
      BY <2>1, <2>11
    <3>2. /\ DOMAIN x = DOMAIN Idle /\ x.pc = "out" /\ x.isNew = FALSE /\ x.finished = TRUE
          /\ x.state = "DOWNLOAD_INITIATE_RSP" /\ x.len = LENGTH /\ x.off = 0
      BY <1>4, <3>1 DEF Idle
    <3>3. o = [od EXCEPT !.value = w.value]
      BY <3>1
    <3>4. /\ Whole(o) /\ SubSeq(o.value, 1, Len(d)) = d
          /\ o.string \/ Len(d) = LENGTH
      <4>1. w = Write(z, data)
        BY DEF w
      <4>2. Lands(o, d)
        BY <1>1, <2>2, <2>4, <2>6, <2>7, <2>8, <2>9, <2>11, <3>3, <4>1, ExpeditedIs
      <4> QED
        BY <4>2 DEF Lands
    <3>5. Stored(o, transfer)
      BY <2>2, <3>4 DEF Stored
    <3> HIDE DEF x
    <3>6. Handled(q2, p, x, o)
      BY <1>5, <2>2, <3>2, <3>4, <3>5
    <3> QED
      BY <3>6 DEF x
  <2> QED
    BY <2>10, <2>11
<1>8. f.expedited \in BOOLEAN
  BY <1>2, <1>3
<1> QED
  BY <1>6, <1>7

(* The request of a block download is handled.                             *)
LEMMA DownloadBlkInitiateReqIs ==
  ASSUME NEW q, NEW p, NEW q2, NEW f, Handles(q, p, q2, f), f.cs = "dlBlkInit",
         NEW s, Opening(s), s.state = "DOWNLOAD_BLK_INITIATE_REQ",
         NEW x, x = DownloadBlkInitiateReq(s, f)
  PROVE  Handled(q2, p, x, od)
<1>1. /\ Fits(q, p) /\ srv.pc = "handle" /\ Whole(od) /\ DOMAIN srv = DOMAIN Idle
      /\ srv.finished \in BOOLEAN /\ srv.isNew \in BOOLEAN /\ Core(srv, od)
      /\ cli.state \in ClientStates
  BY ServerIs
<1>2. q2 = None /\ p = None /\ cli.state = "DOWNLOAD_BLK_INITIATE_RSP"
  <2>1. f.cs \in Requests
    BY DEF Requests
  <2>2. q2 = None /\ p = None /\ Requested(cli, f, None, srv, od, transfer)
    BY <2>1, RequestIs
  <2> QED
    BY <2>2 DEF Requested
<1>3. /\ DOMAIN s = DOMAIN Idle /\ s.pc = "out" /\ s.finished = FALSE /\ s.isNew = FALSE
      /\ s.len = LENGTH /\ s.off = 0
  BY DEF Opening
<1> DEFINE i == Initiated(s, f.size, od.string)
<1>4. x = IF i.state = "ABORT" THEN i ELSE [i EXCEPT !.state = "DOWNLOAD_BLK_INITIATE_RSP"]
  BY DEF DownloadBlkInitiateReq
<1>5. \/ i.state = "ABORT" /\ \E code : i = Aborted(s, code)
      \/ i.state = s.state /\ i = [s EXCEPT !.sizeInd = f.size, !.finished = FALSE]
  <2>1. s.state # "ABORT"
    OBVIOUS
  <2>2. Begun(s, f.size, i)
    BY <1>3, <2>1, InitiatedIs
  <2> HIDE DEF i
  <2> QED
    BY <2>2 DEF Begun
<1> HIDE DEF i
<1>6. CASE i.state = "ABORT"
  <2>1. PICK code : i = Aborted(s, code)
    BY <1>5, <1>6
  <2>2. x = Aborted(s, code)
    BY <1>4, <1>6, <2>1
  <2> QED
    BY <1>3, <2>2, AbortsIs
<1>7. CASE i.state # "ABORT"
  <2>1. x = [i EXCEPT !.state = "DOWNLOAD_BLK_INITIATE_RSP"] /\ i = [s EXCEPT !.sizeInd = f.size, !.finished = FALSE]
    BY <1>4, <1>5, <1>7
  <2>2. /\ DOMAIN x = DOMAIN Idle /\ x.pc = "out" /\ x.isNew = FALSE /\ x.finished = FALSE
        /\ x.state = "DOWNLOAD_BLK_INITIATE_RSP" /\ x.len = LENGTH /\ x.off = 0
    BY <1>3, <2>1 DEF Idle
  <2>3. Reads(x, od) /\ Sends(x, od)
    BY <2>2 DEF Reads, Sends, At, SegmentsIn, BlockIn, Out, BlockOut
  <2>4. Core(x, od)
    BY <2>2, <2>3 DEF Core, CO_SDO_state_t
  <2>5. DownloadBlkInitiated(None, None, x)
    BY <2>2 DEF DownloadBlkInitiated, Silence
  <2>6. Linked(cli, None, None, x, od, transfer)
    BY <1>2, <2>5 DEF Linked
  <2> QED
    BY <1>1, <1>2, <2>2, <2>4, <2>6 DEF Handled
<1> QED
  BY <1>6, <1>7

(* The server with the beginning of what it is asked for in its buffer.    *)
Offers(u) ==
  /\ DOMAIN u = DOMAIN Idle /\ u.pc = "out" /\ u.finished \in BOOLEAN /\ u.isNew = FALSE
  /\ u.state \in {"IDLE", "ABORT"}
  /\ Ahead(u, od) /\ u.rd = 0 /\ u.off = Len(u.buf)
  /\ u.state # "ABORT" => u.off > 0 /\ (u.sizeInd = 1 => Ends(od, u.off))

(* The arithmetic of the first read of an upload.                          *)
LEMMA OfferNumbers ==
  ASSUME NEW D \in 1..LENGTH, LENGTH \in Nat, NEW O \in 0..D, NEW L \in 0..O, O - L + 0 = 0
  PROVE  /\ O = L /\ (O = D \/ L - 0 >= 1 => O > 0)
         /\ (LENGTH = 1 /\ O > 0 => O = D)
  OBVIOUS

(* The sizes of the object and of the server's buffer.                     *)
LEMMA SizesAre ==
  LENGTH \in Nat /\ LENGTH \in 1..LENGTH /\ CAPACITY \in Nat
<1>1. LENGTH \in Nat \ {0} /\ CAPACITY \in 1..126
  BY SdoAssumption
<1>2. LENGTH \in Nat /\ LENGTH \in 1..LENGTH
  BY <1>1
<1>3. CAPACITY \in Nat
  BY <1>1
<1> QED
  BY <1>2, <1>3

(* The data an upload starts with.                                         *)
LEMMA OffersIs ==
  ASSUME Whole(od), NEW t, Opening(t), t.state = "IDLE",
         NEW ul, ul = Refill(t, 1),
         NEW up, up = IF ul.state = "ABORT" THEN ul
                      ELSE [ul EXCEPT !.sizeInd = IF ul.finished THEN Len(ul.buf)
                                                  ELSE IF od.string THEN 0 ELSE LENGTH]
  PROVE  Offers(up)
<1>1. /\ DOMAIN t = DOMAIN Idle /\ t.pc = "out" /\ t.finished = FALSE /\ t.isNew = FALSE
      /\ t.off = 0 /\ t.rd = 0 /\ t.buf = <<>> /\ t.crc = <<>>
  BY DEF Opening
<1>2. IsSeq(od.value) /\ LENGTH \in 1..LENGTH /\ LENGTH \in Nat /\ CAPACITY \in Nat
  BY ValueIs, SizesAre
<1>3. Ahead(t, od)
  <2>1. SubSeq(od.value, 1, 0) = <<>> /\ Len(<<>>) = 0
    BY <1>2, WholeIs, EmptyIs
  <2>2. 0 \in 0..LENGTH /\ 0 \in 0..0 /\ 0 <= CAPACITY /\ 0 - 0 + 1 = 1
    BY <1>2
  <2>3. NoEnd(od, 0)
    BY DEF NoEnd
  <2> QED
    BY <1>1, <2>1, <2>2, <2>3 DEF Ahead
<1>4. /\ DOMAIN ul = DOMAIN Idle /\ ul.finished \in BOOLEAN /\ ul.pc = "out"
      /\ ul.state \in {"IDLE", "ABORT"} /\ Ahead(ul, od) /\ ul.rd = 0
      /\ ul.off - Len(ul.buf) + ul.rd = t.off - Len(t.buf) + t.rd
      /\ ul.state # "ABORT" => ul.finished \/ Len(ul.buf) - ul.rd >= 1
  BY <1>1, <1>3, RefillIs
<1>5. ul.isNew = FALSE
  BY <1>1, RefillKeeps
<1>6. ul.off - Len(ul.buf) + 0 = 0
  BY <1>1, <1>4, EmptyIs
<1>7. /\ ul.off \in 0..LENGTH
      /\ Len(ul.buf) \in 0..ul.off /\ (ul.finished => ul.off > 0 /\ Ends(od, ul.off))
  BY <1>2, <1>4 DEF Ahead
<1>8. /\ ul.off = Len(ul.buf)
      /\ ul.off = LENGTH \/ Len(ul.buf) - 0 >= 1 => ul.off > 0
      /\ LENGTH = 1 /\ ul.off > 0 => ul.off = LENGTH
  <2> DEFINE D == LENGTH  O == ul.off  L == Len(ul.buf)
  <2>1. D \in 1..LENGTH /\ LENGTH \in Nat /\ O \in 0..D /\ L \in 0..O /\ O - L + 0 = 0
    BY <1>2, <1>6, <1>7
  <2> HIDE DEF D, O, L
  <2>2. /\ O = L /\ (O = D \/ L - 0 >= 1 => O > 0)
        /\ (LENGTH = 1 /\ O > 0 => O = D)
    BY <2>1, OfferNumbers
  <2> QED
    BY <2>2 DEF D, O, L
<1>9. ul.state # "ABORT" => ul.off > 0
  BY <1>4, <1>7, <1>8
<1>10. CASE ul.state = "ABORT"
  BY <1>4, <1>5, <1>8, <1>10 DEF Offers
<1>11. CASE ul.state # "ABORT"
  <2>1. /\ DOMAIN up = DOMAIN Idle /\ up.pc = "out" /\ up.finished = ul.finished /\ up.isNew = FALSE
        /\ up.state = "IDLE" /\ up.rd = 0 /\ up.off = ul.off /\ up.buf = ul.buf /\ up.crc = ul.crc
        /\ up.sizeInd = IF ul.finished THEN Len(ul.buf) ELSE IF od.string THEN 0 ELSE LENGTH
    BY <1>4, <1>5, <1>11 DEF Idle
  <2>2. Ahead(up, od)
    BY <1>4, <2>1 DEF Ahead
  <2>3. up.sizeInd = 1 => Ends(od, up.off)
    <3>1. CASE ul.finished
      BY <1>7, <2>1, <3>1
    <3>2. CASE ~ul.finished
      <4>1. up.sizeInd = 1 => LENGTH = 1 /\ ~od.string
        BY <2>1, <3>2
      <4>2. up.sizeInd = 1 => up.off = LENGTH
        BY <1>8, <1>9, <1>11, <2>1, <4>1
      <4> QED
        BY <4>1, <4>2 DEF Ends
    <3> QED
      BY <3>1, <3>2
  <2> QED
    BY <1>4, <1>8, <1>9, <1>11, <2>1, <2>2, <2>3 DEF Offers
<1> QED
  BY <1>10, <1>11

(* The answer to the opening of an upload is prepared.                     *)
LEMMA UploadInitiateReqIs ==
  ASSUME NEW q, NEW p, NEW q2, NEW f, Handles(q, p, q2, f), f.cs \in {"ulInit", "ulBlkInit"},
         NEW u, Offers(u), u.state = "IDLE",
         NEW x, DOMAIN x = DOMAIN Idle, x.pc = u.pc, x.finished = u.finished, x.isNew = u.isNew,
         x.buf = u.buf, x.off = u.off, x.rd = u.rd, x.crc = u.crc, x.sizeInd = u.sizeInd,
         \/ x.state = "UPLOAD_INITIATE_RSP"
         \/ x.state = "UPLOAD_BLK_INITIATE_RSP" /\ f.cs = "ulBlkInit"
  PROVE  Handled(q2, p, x, od)
<1>1. Whole(od)
  BY ServerIs
<1>2. /\ q2 = None /\ p = None
      /\ f.cs = "ulInit" => cli.state = "UPLOAD_INITIATE_RSP"
      /\ f.cs = "ulBlkInit" => cli.state = "UPLOAD_BLK_INITIATE_RSP"
  <2>1. f.cs \in Requests
    BY DEF Requests
  <2>2. q2 = None /\ p = None /\ Requested(cli, f, None, srv, od, transfer)
    BY <2>1, RequestIs
  <2> QED
    BY <2>2 DEF Requested
<1>3. /\ x.pc = "out" /\ x.finished \in BOOLEAN /\ x.isNew = FALSE
      /\ Ahead(u, od) /\ x.rd = 0 /\ x.off = Len(x.buf) /\ x.off > 0
      /\ x.sizeInd = 1 => Ends(od, x.off)
  BY DEF Offers
<1>4. Ahead(x, od)
  BY <1>3 DEF Ahead
<1>5. Reads(x, od) /\ Sends(x, od)
  BY <1>3, <1>4 DEF Reads, Sends, At, SegmentsIn, BlockIn, Fresh
<1>6. Core(x, od)
  BY <1>3, <1>5 DEF Core, CO_SDO_state_t
<1>7. Linked(cli, None, None, x, od, transfer)
  <2>1. CASE f.cs = "ulInit"
    <3>1. UploadInitiated1(None, None, x, od)
      BY <2>1 DEF UploadInitiated1, Lost, Silence, At
    <3> QED
      BY <1>2, <2>1, <3>1 DEF Linked
  <2>2. CASE f.cs = "ulBlkInit"
    <3>1. UploadBlkInitiated1(None, None, x, od)
      BY <2>2 DEF UploadBlkInitiated1, Lost, Silence, At
    <3> QED
      BY <1>2, <2>2, <3>1 DEF Linked
  <2> QED
    BY <2>1, <2>2
<1> QED
  BY <1>1, <1>2, <1>3, <1>6, <1>7 DEF Handled

(* A message in the idle state is handled.                                 *)
LEMMA OpenedIs ==
  ASSUME NEW q, NEW p, NEW q2, NEW f, Handles(q, p, q2, f),
         NEW s, s = Opened(srv, f), NEW r, r = Received(s, f),
         NEW o, o = [od EXCEPT !.value = r.value]
  PROVE  Handled(q2, p, r.s, o)
<1>0. Whole(od)
  BY ServerIs
<1> DEFINE t == [Rest(srv) EXCEPT !.len = LENGTH]
           ul == Refill(t, 1)
           up == IF ul.state = "ABORT" THEN ul
                 ELSE [ul EXCEPT !.sizeInd = IF ul.finished THEN Len(ul.buf)
                                             ELSE IF od.string THEN 0 ELSE LENGTH]
           Goes(x, st) == IF x.state = "ABORT" THEN x ELSE [x EXCEPT !.state = st]
<1>1. /\ f.cs = "dlInit" => s = Goes(t, "DOWNLOAD_INITIATE_REQ")
      /\ f.cs = "dlBlkInit" => s = Goes(t, "DOWNLOAD_BLK_INITIATE_REQ")
      /\ f.cs = "ulInit" => s = Goes(up, "UPLOAD_INITIATE_REQ")
      /\ f.cs = "ulBlkInit" => s = Goes(up, "UPLOAD_BLK_INITIATE_REQ")
      /\ f.cs \notin {"dlInit", "dlBlkInit", "ulInit", "ulBlkInit"} => s = Aborted(t, "CMD")
  BY DEF Opened
<1>2. Opening(t) /\ t.state = "IDLE"
  BY RestIs
<1> HIDE DEF t
<1>3. Offers(up)
  BY <1>0, <1>2, OffersIs
<1> HIDE DEF ul, up
<1>4. CASE f.cs = "dlInit"
  <2>1. Opening(s) /\ s.state = "DOWNLOAD_INITIATE_REQ"
    BY <1>1, <1>2, <1>4 DEF Opening, Idle
  <2>2. r = DownloadInitiateReq(s, f)
    BY <2>1 DEF Received
  <2> QED
    BY <1>4, <2>1, <2>2, DownloadInitiateReqIs
<1>5. CASE f.cs = "dlBlkInit"
  <2>1. Opening(s) /\ s.state = "DOWNLOAD_BLK_INITIATE_REQ"
    BY <1>1, <1>2, <1>5 DEF Opening, Idle
  <2> DEFINE x == DownloadBlkInitiateReq(s, f)
  <2>2. r = Kept(x)
    BY <2>1 DEF Received
  <2>3. Handled(q2, p, x, od)
    BY <1>5, <2>1, DownloadBlkInitiateReqIs
  <2> HIDE DEF x
  <2> QED
    BY <1>0, <2>2, <2>3, KeptIs
<1>6. CASE f.cs \in {"ulInit", "ulBlkInit"}
  <2>1. DOMAIN up = DOMAIN Idle /\ up.state \in {"IDLE", "ABORT"}
    BY <1>3 DEF Offers
  <2>2. CASE up.state = "ABORT"
    <3>1. s = up /\ r = Kept(s)
      <4>1. s = up
        BY <1>1, <1>6, <2>2
      <4> QED
        BY <2>2, <4>1 DEF Received
    <3>2. Handled(q2, p, up, od)
      <4>1. Linked(cli, q2, p, srv, od, transfer)
        BY HandlesIs
      <4>2. DOMAIN up = DOMAIN Idle /\ up.pc # "sent" /\ up.finished \in BOOLEAN /\ up.isNew \in BOOLEAN
        BY <1>3 DEF Offers
      <4> QED
        BY <1>0, <2>2, <4>1, <4>2, AbortedIs
    <3> QED
      BY <1>0, <3>1, <3>2, KeptIs
  <2>3. CASE up.state = "IDLE" /\ f.cs = "ulInit"
    <3> DEFINE x == [s EXCEPT !.state = "UPLOAD_INITIATE_RSP"]
    <3>1. s = [up EXCEPT !.state = "UPLOAD_INITIATE_REQ"]
      BY <1>1, <2>3
    <3>2. s.state = "UPLOAD_INITIATE_REQ"
      BY <2>1, <3>1 DEF Idle
    <3>3. r = Kept(x)
      BY <3>2 DEF Received
    <3>4. /\ DOMAIN x = DOMAIN Idle /\ x.pc = up.pc /\ x.finished = up.finished /\ x.isNew = up.isNew
          /\ x.buf = up.buf /\ x.off = up.off /\ x.rd = up.rd /\ x.crc = up.crc
          /\ x.sizeInd = up.sizeInd /\ x.state = "UPLOAD_INITIATE_RSP"
      BY <2>1, <3>1 DEF Idle
    <3> HIDE DEF x
    <3>5. Handled(q2, p, x, od)
      BY <1>3, <1>6, <2>3, <3>4, UploadInitiateReqIs
    <3> QED
      BY <1>0, <3>3, <3>5, KeptIs
  <2>4. CASE up.state = "IDLE" /\ f.cs = "ulBlkInit"
    <3> DEFINE x == UploadBlkInitiateReq(s, f)
    <3>1. s = [up EXCEPT !.state = "UPLOAD_BLK_INITIATE_REQ"]
      BY <1>1, <2>4
    <3>2. s.state = "UPLOAD_BLK_INITIATE_REQ" /\ DOMAIN s = DOMAIN Idle
      BY <2>1, <3>1 DEF Idle
    <3>3. r = Kept(x)
      BY <3>2 DEF Received
    <3>4. Handled(q2, p, x, od)
      <4>1. CASE x = Aborted(s, "DEVICE_INCOMPAT")
        <5>1. s.pc # "sent" /\ s.finished \in BOOLEAN /\ s.isNew \in BOOLEAN
          BY <1>3, <2>1, <3>1 DEF Offers, Idle
        <5> QED
          BY <3>2, <4>1, <5>1, AbortsIs
      <4>2. CASE \/ x = [s EXCEPT !.state = "UPLOAD_INITIATE_RSP"]
                 \/ x = [s EXCEPT !.blksize = f.blksize, !.state = "UPLOAD_BLK_INITIATE_RSP"]
        <5>1. /\ DOMAIN x = DOMAIN Idle /\ x.pc = up.pc /\ x.finished = up.finished /\ x.isNew = up.isNew
              /\ x.buf = up.buf /\ x.off = up.off /\ x.rd = up.rd /\ x.crc = up.crc
              /\ x.sizeInd = up.sizeInd
              /\ x.state \in {"UPLOAD_INITIATE_RSP", "UPLOAD_BLK_INITIATE_RSP"}
          <6> HIDE DEF x
          <6>1. /\ s.pc = up.pc /\ s.finished = up.finished /\ s.isNew = up.isNew
                /\ s.buf = up.buf /\ s.off = up.off /\ s.rd = up.rd /\ s.crc = up.crc
                /\ s.sizeInd = up.sizeInd
            BY <2>1, <3>1 DEF Idle
          <6>2. CASE x = [s EXCEPT !.state = "UPLOAD_INITIATE_RSP"]
            BY <3>2, <6>1, <6>2 DEF Idle
          <6>3. CASE x = [s EXCEPT !.blksize = f.blksize, !.state = "UPLOAD_BLK_INITIATE_RSP"]
            BY <3>2, <6>1, <6>3 DEF Idle
          <6> QED
            BY <4>2, <6>2, <6>3
        <5> HIDE DEF x
        <5> QED
          BY <1>3, <1>6, <2>4, <5>1, UploadInitiateReqIs
      <4> QED
        BY <4>1, <4>2 DEF UploadBlkInitiateReq
    <3> HIDE DEF x
    <3> QED
      BY <1>0, <3>3, <3>4, KeptIs
  <2> QED
    BY <1>6, <2>1, <2>2, <2>3, <2>4
<1>7. CASE f.cs \notin {"dlInit", "dlBlkInit", "ulInit", "ulBlkInit"}
  <2>1. s = Aborted(t, "CMD")
    BY <1>1, <1>7
  <2>2. DOMAIN t = DOMAIN Idle /\ t.pc # "sent" /\ t.finished \in BOOLEAN /\ t.isNew \in BOOLEAN
    BY <1>2 DEF Opening
  <2>3. s.state = "ABORT"
    BY <2>1, <2>2 DEF Aborted, Idle
  <2>4. r = Kept(s)
    BY <2>3 DEF Received
  <2>5. Handled(q2, p, s, od)
    BY <2>1, <2>2, AbortsIs
  <2> QED
    BY <1>0, <2>4, <2>5, KeptIs
<1> QED
  BY <1>4, <1>5, <1>6, <1>7

(* A message in the state the server is in.                                *)
LEMMA ReceivedIs ==
  ASSUME NEW q, NEW p, NEW q2, NEW f, Handles(q, p, q2, f), srv.state # "IDLE",
         NEW r, r = Received(srv, f), NEW o, o = [od EXCEPT !.value = r.value]
  PROVE  Handled(q2, p, r.s, o)
<1>0. /\ Whole(od) /\ DOMAIN srv = DOMAIN Idle /\ srv.finished \in BOOLEAN /\ srv.isNew \in BOOLEAN
      /\ srv.pc # "sent" /\ Core(srv, od)
  BY ServerIs
<1>1. srv.state \in CO_SDO_state_t \ {"DOWNLOAD_INITIATE_REQ", "UPLOAD_INITIATE_REQ",
        "DOWNLOAD_BLK_INITIATE_REQ", "UPLOAD_BLK_INITIATE_REQ"}
  BY <1>0 DEF Core
<1>2. CASE srv.state = "ABORT"
  <2>1. r = Kept(srv)
    BY <1>2 DEF Received
  <2>2. Linked(cli, q2, p, srv, od, transfer)
    BY HandlesIs
  <2>3. Handled(q2, p, srv, od)
    BY <1>0, <1>2, <2>2, AbortedIs
  <2> QED
    BY <1>0, <2>1, <2>3, KeptIs
<1>3. CASE srv.state = "DOWNLOAD_SEGMENT_REQ"
  <2>1. r = DownloadSegmentReq(srv, f)
    BY <1>3 DEF Received
  <2> QED
    BY <1>3, <2>1, DownloadSegmentReqIs
<1>4. CASE srv.state = "UPLOAD_SEGMENT_REQ"
  <2> DEFINE x == UploadSegmentReq(srv, f)
  <2>1. r = Kept(x)
    BY <1>4 DEF Received
  <2>2. Handled(q2, p, x, od)
    BY <1>4, UploadSegmentReqIs
  <2> HIDE DEF x
  <2> QED
    BY <1>0, <2>1, <2>2, KeptIs
<1>5. CASE srv.state = "DOWNLOAD_BLK_SUBBLOCK_REQ"
  <2>1. r = Kept(srv)
    BY <1>5 DEF Received
  <2>2. Linked(cli, q2, p, srv, od, transfer)
    BY HandlesIs
  <2>3. Handled(q2, p, srv, od)
    BY <1>0, <2>2 DEF Handled
  <2> QED
    BY <1>0, <2>1, <2>3, KeptIs
<1>6. CASE srv.state = "DOWNLOAD_BLK_END_REQ"
  <2>1. r = DownloadBlkEndReq(srv, f)
    BY <1>6 DEF Received
  <2> QED
    BY <1>6, <2>1, DownloadBlkEndReqIs
<1>7. CASE srv.state = "UPLOAD_BLK_INITIATE_REQ2"
  <2> DEFINE x == UploadBlkInitiateReq2(srv, f)
  <2>1. r = Kept(x)
    BY <1>7 DEF Received
  <2>2. Handled(q2, p, x, od)
    BY <1>7, UploadBlkInitiateReq2Is
  <2> HIDE DEF x
  <2> QED
    BY <1>0, <2>1, <2>2, KeptIs
<1>8. CASE srv.state \in {"UPLOAD_BLK_SUBBLOCK_SREQ", "UPLOAD_BLK_SUBBLOCK_CRSP"}
  <2> DEFINE x == UploadBlkResponse(srv, f)
  <2>1. r = Kept(x)
    BY <1>8 DEF Received
  <2>2. Handled(q2, p, x, od)
    BY <1>8, UploadBlkResponseIs
  <2> HIDE DEF x
  <2> QED
    BY <1>0, <2>1, <2>2, KeptIs
<1>9. CASE srv.state \notin {"ABORT", "DOWNLOAD_SEGMENT_REQ", "UPLOAD_SEGMENT_REQ",
             "DOWNLOAD_BLK_SUBBLOCK_REQ", "DOWNLOAD_BLK_END_REQ", "UPLOAD_BLK_INITIATE_REQ2",
             "UPLOAD_BLK_SUBBLOCK_SREQ", "UPLOAD_BLK_SUBBLOCK_CRSP"}
  <2> DEFINE x == Aborted(srv, "CMD")
  <2>1. r = Kept(x)
    BY <1>1, <1>9 DEF Received
  <2>2. Handled(q2, p, x, od)
    BY <1>0, AbortsIs
  <2> HIDE DEF x
  <2> QED
    BY <1>0, <2>1, <2>2, KeptIs
<1> QED
  BY <1>2, <1>3, <1>4, <1>5, <1>6, <1>7, <1>8, <1>9

(* A state that is written as it was changes nothing.                      *)
LEMMA RecordedIs ==
  ASSUME NEW s, Recorded(s), DOMAIN s = DOMAIN Idle, NEW st, st = s.state
  PROVE  [s EXCEPT !.state = st] = s
  BY DEF Recorded, Idle

(* CO_SDOserver_process with a message.                                    *)
LEMMA HandleMessageKeeps ==
  ASSUME NEW q, NEW p, Fits(q, p), Recorded(srv), UNCHANGED <<cli, transfer>>, HandleMessage
  PROVE  Whole(od') /\ Joint'
<1> DEFINE q2 == IF srv.rxNew /\ srv.rx.cs \in Requests THEN None ELSE q
           f == srv.rx
<1>0. srv.pc = "handle" /\ srv.isNew /\ toServer' = toServer /\ toClient' = toClient
  BY DEF HandleMessage
<1>1. Steps(srv) /\ DOMAIN srv = DOMAIN Idle
  BY FitsIs
<1>2. srv.rxNew
  BY <1>0, <1>1 DEF Steps
<1>3. Handles(q, p, q2, f)
  BY <1>0, <1>2 DEF Handles
<1>4. PICK st \in {srv.seen, srv.state} :
        LET s == IF st = "IDLE" THEN Opened(srv, srv.rx) ELSE [srv EXCEPT !.state = st]
            r == Received(s, srv.rx)
            t == Timers([r.s EXCEPT !.timer = 0, !.rxNew = FALSE, !.rx = None], 0)
        IN  /\ srv' = [t EXCEPT !.pc = "send", !.seen = t.state, !.isNew = FALSE]
            /\ od' = [od EXCEPT !.value = r.value]
  BY DEF HandleMessage
<1> DEFINE s == IF st = "IDLE" THEN Opened(srv, f) ELSE [srv EXCEPT !.state = st]
           r == Received(s, f)
           t == Timers([r.s EXCEPT !.timer = 0, !.rxNew = FALSE, !.rx = None], 0)
<1>5. srv' = [t EXCEPT !.pc = "send", !.seen = t.state, !.isNew = FALSE]
      /\ od' = [od EXCEPT !.value = r.value]
  BY <1>4
<1>6. /\ s = IF st = "IDLE" THEN Opened(srv, f) ELSE [srv EXCEPT !.state = st]
      /\ r = Received(s, f)
  OBVIOUS
<1>7. t = Timers([r.s EXCEPT !.timer = 0, !.rxNew = FALSE, !.rx = None], 0)
  OBVIOUS
<1>8. q2 = IF srv.rxNew /\ srv.rx.cs \in Requests THEN None ELSE q
  OBVIOUS
<1> HIDE DEF q2, f, s, r, t
<1>9. Handled(q2, p, r.s, od')
  <2>0. /\ Whole(od) /\ DOMAIN srv = DOMAIN Idle /\ srv.finished \in BOOLEAN /\ srv.isNew \in BOOLEAN
        /\ srv.pc # "sent" /\ Core(srv, od)
    BY <1>3, ServerIs
  <2>1. CASE st = srv.state /\ st = "IDLE"
    BY <1>3, <1>5, <1>6, <2>1, OpenedIs
  <2>2. CASE st = srv.state /\ st # "IDLE"
    <3>1. s = srv
      BY <1>1, <1>6, <2>2, RecordedIs
    <3> QED
      BY <1>3, <1>5, <1>6, <2>2, <3>1, ReceivedIs
  <2>3. CASE st = "DOWNLOAD_BLK_SUBBLOCK_REQ" /\ srv.state = "DOWNLOAD_BLK_SUBBLOCK_RSP"
    <3>1. s = [srv EXCEPT !.state = "DOWNLOAD_BLK_SUBBLOCK_REQ"]
      BY <1>6, <2>3
    <3>2. s.state = "DOWNLOAD_BLK_SUBBLOCK_REQ"
      BY <2>0, <3>1 DEF Idle
    <3>3. r = Kept(s)
      BY <1>6, <3>2 DEF Received
    <3>4. At(srv, BlockIn)
      BY <2>3 DEF At, BlockIn
    <3>5. Handled(q2, p, s, od)
      BY <1>3, <3>1, <3>4, SubblockIs
    <3> QED
      BY <1>5, <2>0, <3>3, <3>5, KeptIs
  <2>4. CASE st = "UPLOAD_BLK_END_CRSP" /\ srv.state = "IDLE"
    <3>1. s = [srv EXCEPT !.state = "UPLOAD_BLK_END_CRSP"]
      BY <1>6, <2>4
    <3>2. /\ s.state = "UPLOAD_BLK_END_CRSP" /\ DOMAIN s = DOMAIN Idle /\ s.pc # "sent"
          /\ s.finished \in BOOLEAN /\ s.isNew \in BOOLEAN
      BY <2>0, <3>1 DEF Idle
    <3> DEFINE x == Aborted(s, "CMD")
    <3>3. r = Kept(x)
      BY <1>6, <3>2 DEF Received
    <3>4. Handled(q2, p, x, od)
      BY <1>3, <3>2, AbortsIs
    <3> HIDE DEF x
    <3> QED
      BY <1>5, <2>0, <3>3, <3>4, KeptIs
  <2>5. \/ srv.seen = srv.state
        \/ srv.seen = "DOWNLOAD_BLK_SUBBLOCK_REQ" /\ srv.state = "DOWNLOAD_BLK_SUBBLOCK_RSP"
        \/ srv.seen = "UPLOAD_BLK_END_CRSP" /\ srv.state = "IDLE"
    BY <1>0, <1>1 DEF Steps
  <2> QED
    BY <1>4, <2>1, <2>2, <2>3, <2>4, <2>5
<1> QED
  <2> DEFINE x == r.s
  <2>1. Handled(q2, p, x, od')
    BY <1>9
  <2>2. t = Timers([x EXCEPT !.timer = 0, !.rxNew = FALSE, !.rx = None], 0)
    BY <1>7
  <2> HIDE DEF x
  <2>3. UNCHANGED <<cli, transfer, toServer, toClient>>
    BY <1>0
  <2> QED
    BY <1>5, <1>8, <2>1, <2>2, <2>3, HandledIs

(* A step of CO_SDOserver_process.                                         *)
LEMMA ServerKeeps ==
  ASSUME NEW q, NEW p, Fits(q, p), Recorded(srv), UNCHANGED <<cli, transfer>>, CO_SDOserver_process
  PROVE  Whole(od') /\ Joint'
  BY EnterKeeps, HandleMessageKeeps, HandleTimersKeeps, BufferFullKeeps, SendNothingKeeps,
     SendAbortKeeps, DownloadInitiateRspKeeps, DownloadSegmentRspKeeps, UploadInitiateRspKeeps,
     UploadSegmentRspKeeps, DownloadBlkInitiateRspKeeps, DownloadBlkSubblockRspKeeps,
     DownloadBlkEndRspKeeps, UploadBlkInitiateRspKeeps, UploadBlkSubblockKeeps, UploadBlkEndKeeps,
     UploadBlkEndSentKeeps DEF CO_SDOserver_process

(* A record stays a record in every step.                                  *)
LEMMA ServerRecorded ==
  ASSUME Recorded(srv), CO_SDOserver_process PROVE Recorded(srv')
<1> DEFINE Fun(s) == s = [x \in DOMAIN s |-> s[x]]
<1>0. Fun(Idle) /\ Fun(Rest(srv)) /\ \A s : Fun(Rest(s))
  BY DEF Rest, Idle
<1>1. ASSUME Enter \/ BufferFull \/ UploadBlkEnd \/ UploadBlkEndSent PROVE Fun(srv')
  BY <1>1 DEF Enter, BufferFull, UploadBlkEnd, UploadBlkEndSent
<1>2. ASSUME HandleMessage PROVE Fun(srv')
  <2>1. \E t : srv' = [t EXCEPT !.pc = "send", !.seen = t.state, !.isNew = FALSE]
    BY <1>2 DEF HandleMessage
  <2> QED
    BY <2>1
<1>3. ASSUME HandleTimers PROVE Fun(srv')
  <2>1. \E t : srv' = [t EXCEPT !.pc = "send", !.seen = t.state]
    BY <1>3 DEF HandleTimers
  <2> QED
    BY <2>1
<1>4. ASSUME SendNothing PROVE Fun(srv')
  <2>1. srv' = Rest(srv) \/ srv' = [srv EXCEPT !.pc = "out", !.seen = "IDLE"]
    BY <1>4 DEF SendNothing
  <2> QED
    BY <1>0, <2>1
<1>5. ASSUME NEW st, NEW s, NEW f, Answers(st, s, f) PROVE Fun(srv')
  <2>1. srv' = Rest(s) \/ srv' = [s EXCEPT !.state = st, !.pc = "out", !.seen = "IDLE", !.code = "none"]
    BY <1>5 DEF Answers
  <2> QED
    BY <1>0, <2>1
<1>6. ASSUME DownloadBlkSubblockRsp PROVE Fun(srv')
  <2> DEFINE v == IF srv.finished \/ srv.buf = <<>> THEN Kept(srv) ELSE Validate(srv, None)
  <2>1. \/ srv' = Rest(srv)
        \/ srv' = [v.s EXCEPT
                     !.state = IF srv.finished THEN "DOWNLOAD_BLK_END_REQ"
                               ELSE "DOWNLOAD_BLK_SUBBLOCK_REQ",
                     !.seqno = IF srv.finished THEN @ ELSE 0,
                     !.rxNew = @ /\ srv.finished,
                     !.rx = IF srv.finished THEN @ ELSE None, !.blkTimer = 0,
                     !.blksize = CAPACITY, !.pc = "out", !.seen = "IDLE"]
    BY <1>6 DEF DownloadBlkSubblockRsp
  <2> HIDE DEF v
  <2> QED
    BY <1>0, <2>1
<1> HIDE DEF Fun
<1>7. ASSUME \/ SendAbort \/ DownloadInitiateRsp \/ DownloadSegmentRsp \/ UploadInitiateRsp
             \/ UploadSegmentRsp \/ DownloadBlkInitiateRsp \/ DownloadBlkEndRsp
             \/ UploadBlkInitiateRsp \/ UploadBlkSubblock
      PROVE  Fun(srv')
  <2>1. CASE SendAbort
    BY <1>5, <2>1 DEF SendAbort, SendsAbort
  <2>2. CASE DownloadInitiateRsp
    BY <1>5, <2>2 DEF DownloadInitiateRsp
  <2>3. CASE DownloadSegmentRsp
    BY <1>5, <2>3 DEF DownloadSegmentRsp
  <2>4. CASE UploadInitiateRsp
    BY <1>5, <2>4 DEF UploadInitiateRsp
  <2>5. CASE UploadSegmentRsp
    BY <1>5, <2>5 DEF UploadSegmentRsp, SendsAbort
  <2>6. CASE DownloadBlkInitiateRsp
    BY <1>5, <2>6 DEF DownloadBlkInitiateRsp
  <2>7. CASE DownloadBlkEndRsp
    BY <1>5, <2>7 DEF DownloadBlkEndRsp
  <2>8. CASE UploadBlkInitiateRsp
    BY <1>5, <2>8 DEF UploadBlkInitiateRsp
  <2>9. CASE UploadBlkSubblock
    BY <1>5, <2>9 DEF UploadBlkSubblock, SendsAbort
  <2> QED
    BY <1>7, <2>1, <2>2, <2>3, <2>4, <2>5, <2>6, <2>7, <2>8, <2>9
<1>8. Fun(srv')
  BY <1>1, <1>2, <1>3, <1>4, <1>6, <1>7 DEF CO_SDOserver_process
<1> QED
  BY <1>8 DEF Fun, Recorded

(* Nor does the interrupt change the fields.                               *)
LEMMA InterruptRecorded ==
  ASSUME Recorded(srv), CO_SDO_receive \/ NotOperational PROVE Recorded(srv')
<1>1. ASSUME ReceiveAbort \/ ReceiveLost \/ ReceiveEnd \/ ReceiveMessage PROVE Recorded(srv')
  BY <1>1 DEF ReceiveAbort, ReceiveLost, ReceiveEnd, ReceiveMessage, Recorded
<1>2. ASSUME ReceiveSegment PROVE Recorded(srv')
  <2> DEFINE s == [srv EXCEPT !.timer = 0, !.blkTimer = 0]
  <2>1. srv' = Segment(s, Head(toServer))
    BY <1>2 DEF ReceiveSegment
  <2>2. Recorded(s)
    BY DEF Recorded
  <2> HIDE DEF s
  <2> QED
    BY <2>1, <2>2 DEF Segment, Recorded
<1>3. ASSUME NotOperational PROVE Recorded(srv')
  BY <1>3 DEF NotOperational, Recorded, Idle
<1> QED
  BY <1>1, <1>2, <1>3 DEF CO_SDO_receive
-----------------------------------------------------------------------------
(* The receive interrupt of the server.                                    *)

(* What makes the two fit after a step.                                    *)
LEMMA JointIs ==
  ASSUME ServerOk(srv', od'), ClientOk(cli', transfer'), BusInv', NEW q, NEW p,
         Carries(Requests, srv'.rxNew, srv'.rx, toServer', q),
         Carries(Responses, cli'.rxNew, cli'.rx, toClient', p),
         Linked(cli', q, p, srv', od', transfer')
  PROVE  Joint'
<1>1. q \in Held(srv'.rxNew, srv'.rx, toServer') /\ p \in Held(cli'.rxNew, cli'.rx, toClient')
  BY CarriesIs
<1>2. LinkInv'
  BY <1>1 DEF LinkInv
<1> QED
  BY <1>2 DEF Joint

(* A frame arrives at the server.                                          *)
LEMMA ArrivesMoves ==
  ASSUME NEW q, NEW p, Fits(q, p), UNCHANGED <<cli, transfer>>, Arrives, ServerOk(srv', od'),
         NEW q2, \/ /\ srv'.rxNew = srv.rxNew /\ srv'.rx = srv.rx
                    /\ q2 = IF Head(toServer).cs \in Requests THEN None ELSE q
                 \/ ~srv.rxNew /\ srv'.rxNew = TRUE /\ srv'.rx = Head(toServer) /\ q2 = q,
         Linked(cli, q2, p, srv', od', transfer)
  PROVE  Whole(od') /\ Joint'
<1>1. toServer # <<>> /\ toServer' = Tail(toServer) /\ od' = od /\ toClient' = toClient
  BY DEF Arrives
<1>2. /\ BusOk(Requests, srv.rxNew, srv.rx, toServer) /\ BusOk(Responses, cli.rxNew, cli.rx, toClient)
      /\ \A i \in DOMAIN toServer : toServer[i].cs # "abort"
  BY DEF Fits, BusInv
<1>3. /\ BusOk(Requests, srv.rxNew, srv.rx, toServer')
      /\ \A now : now = TRUE => BusOk(Requests, now, Head(toServer), toServer')
      /\ IsSeq(toServer)
      /\ \A i \in DOMAIN toServer' : toServer'[i] \in {toServer[k] : k \in DOMAIN toServer}
  <2> DEFINE full == srv.rxNew
  <2>1. BusOk(Requests, full, srv.rx, toServer) /\ toServer # <<>>
    BY <1>1, <1>2
  <2> HIDE DEF full
  <2>2. IsSeq(toServer)
    BY <2>1, BusTail
  <2>3. BusOk(Requests, full, srv.rx, Tail(toServer))
    BY <2>1, BusTail
  <2>4. ASSUME NEW now, now = TRUE PROVE BusOk(Requests, now, Head(toServer), Tail(toServer))
    BY <2>1, <2>4, BusTail
  <2>5. \A i \in DOMAIN Tail(toServer) : Tail(toServer)[i] \in {toServer[k] : k \in DOMAIN toServer}
    BY <2>1, BusTail
  <2> QED
    BY <1>1, <2>2, <2>3, <2>4, <2>5 DEF full
<1>4. BusOk(Requests, srv'.rxNew, srv'.rx, toServer')
  BY <1>3
<1>5. BusInv'
  BY <1>1, <1>2, <1>3, <1>4 DEF BusInv
<1>6. /\ Carries(Requests, srv.rxNew, srv.rx, toServer, q)
      /\ Carries(Responses, cli'.rxNew, cli'.rx, toClient', p)
  BY <1>1 DEF Fits
<1>7. Carries(Requests, srv'.rxNew, srv'.rx, toServer', q2)
  <2>1. CASE srv'.rxNew = srv.rxNew /\ srv'.rx = srv.rx
    BY <1>1, <1>3, <1>6, <2>1, CarriesTail
  <2>2. CASE ~srv.rxNew /\ srv'.rxNew = TRUE /\ srv'.rx = Head(toServer) /\ q2 = q
    <3>1. srv.rxNew \in BOOLEAN
      BY <1>2 DEF BusOk
    <3> DEFINE now == srv'.rxNew  full == srv.rxNew
    <3>2. now = TRUE /\ full = FALSE /\ Carries(Requests, full, srv.rx, toServer, q)
      BY <1>6, <2>2, <3>1
    <3> HIDE DEF now, full
    <3>3. Carries(Requests, now, Head(toServer), Tail(toServer), q)
      BY <1>1, <1>3, <3>2, CarriesMoves, Zenon
    <3> QED
      BY <1>1, <2>2, <3>3 DEF now
  <2> QED
    BY <2>1, <2>2
<1>8. ClientOk(cli', transfer')
  BY DEF Fits
<1>9. Joint'
  BY <1>5, <1>6, <1>7, <1>8, JointIs
<1> QED
  BY <1>1, <1>9 DEF Fits

(* The frame is dropped.                                                   *)
LEMMA ReceiveLostKeeps ==
  ASSUME NEW q, NEW p, Fits(q, p), UNCHANGED <<cli, transfer>>, ReceiveLost
  PROVE  Whole(od') /\ Joint'
<1> DEFINE q2 == IF Head(toServer).cs \in Requests THEN None ELSE q
<1>1. Arrives /\ srv' = srv /\ od' = od
  BY DEF ReceiveLost, Arrives
<1>2. ServerOk(srv', od')
  BY <1>1 DEF Fits
<1>3. Linked(cli, q2, p, srv', od', transfer)
  BY <1>1, LinkLoses DEF Fits
<1>4. srv'.rxNew = srv.rxNew /\ srv'.rx = srv.rx /\ q2 = IF Head(toServer).cs \in Requests THEN None ELSE q
  BY <1>1
<1> HIDE DEF q2
<1> QED
  BY <1>1, <1>2, <1>3, <1>4, ArrivesMoves

(* The frame confirms the end of a block upload.                           *)
LEMMA ReceiveEndKeeps ==
  ASSUME NEW q, NEW p, Fits(q, p), UNCHANGED <<cli, transfer>>, ReceiveEnd
  PROVE  Whole(od') /\ Joint'
<1> DEFINE q2 == IF Head(toServer).cs \in Requests THEN None ELSE q
<1>0. Steps(srv) /\ DOMAIN srv = DOMAIN Idle /\ srv.isNew \in BOOLEAN /\ srv.finished \in BOOLEAN
  BY FitsIs
<1>1. /\ Arrives /\ srv' = [srv EXCEPT !.state = "IDLE"] /\ od' = od
      /\ srv.state = "UPLOAD_BLK_END_CRSP"
  BY DEF ReceiveEnd, Arrives
<1>2. /\ DOMAIN srv' = DOMAIN Idle /\ srv'.state = "IDLE" /\ srv'.pc = srv.pc /\ srv'.seen = srv.seen
      /\ srv'.isNew = srv.isNew /\ srv'.rxNew = srv.rxNew /\ srv'.rx = srv.rx
      /\ srv'.finished = srv.finished
  BY <1>0, <1>1 DEF Idle
<1>3. Core(srv', od') /\ Rests(srv')
  BY <1>0, <1>2, CoreRests
<1>4. Steps(srv')
  BY <1>0, <1>1, <1>2 DEF Steps
<1>5. ServerOk(srv', od')
  BY <1>3, <1>4 DEF ServerOk
<1>6. Linked(cli, q2, p, srv', od', transfer)
  BY <1>1, <1>3, LinkLoses, LinkRests DEF Fits
<1>7. srv'.rxNew = srv.rxNew /\ srv'.rx = srv.rx /\ q2 = IF Head(toServer).cs \in Requests THEN None ELSE q
  BY <1>2
<1> HIDE DEF q2
<1> QED
  BY <1>1, <1>5, <1>6, <1>7, ArrivesMoves

(* A segment of a sub-block leaves a block download what it was.           *)
LEMMA SegmentIsBlock ==
  ASSUME NEW s, DOMAIN s = DOMAIN Idle, Core(s, od), s.state = "DOWNLOAD_BLK_SUBBLOCK_REQ",
         NEW f, FrameOk(f), NEW x, x = Segment(s, f)
  PROVE  /\ Core(x, od) /\ x.state \in {"DOWNLOAD_BLK_SUBBLOCK_REQ", "DOWNLOAD_BLK_SUBBLOCK_RSP"}
         /\ x.pc = s.pc /\ x.seen = s.seen /\ x.isNew = s.isNew /\ x.rxNew = s.rxNew /\ x.rx = s.rx
<1>1. /\ s.finished \in BOOLEAN /\ s.isNew \in BOOLEAN
      /\ s.len = LENGTH /\ s.off \in 0..LENGTH /\ IsSeq(s.buf) /\ s.sizeTran \in Nat
      /\ s.crc = SubSeq(od.value, 1, s.off) /\ s.seqno \in Nat
  BY DEF Core, Reads, At, SegmentsIn, BlockIn
<1>2. /\ DOMAIN x = DOMAIN Idle /\ x.finished \in BOOLEAN /\ x.isNew = s.isNew
      /\ x.len = LENGTH /\ x.off = s.off /\ IsSeq(x.buf) /\ x.sizeTran \in Nat
      /\ x.crc = s.crc /\ x.seqno \in Nat
      /\ x.state \in {"DOWNLOAD_BLK_SUBBLOCK_REQ", "DOWNLOAD_BLK_SUBBLOCK_RSP"}
      /\ x.pc = s.pc /\ x.seen = s.seen /\ x.rxNew = s.rxNew /\ x.rx = s.rx
  <2>1. CASE f.cs = "dlSub" /\ f.seqno = s.seqno + 1 /\ f.seqno <= s.blksize
    <3> DEFINE b == s.buf  d == f.data  w == b \o d
    <3>1. IsSeq(b) /\ IsSeq(d) /\ f.last \in BOOLEAN
      BY <1>1, <2>1 DEF FrameOk
    <3> HIDE DEF b, d
    <3>2. IsSeq(w) /\ Len(d) \in Nat
      BY <3>1, ConcatIs, SeqIs
    <3>3. x = [s EXCEPT !.seqno = f.seqno, !.buf = w,
                     !.sizeTran = s.sizeTran + Len(d), !.finished = f.last,
                     !.state = IF f.last \/ f.seqno = s.blksize
                               THEN "DOWNLOAD_BLK_SUBBLOCK_RSP" ELSE @]
      BY <2>1 DEF Segment, b, d
    <3> HIDE DEF w
    <3>4. s.sizeTran + Len(d) \in Nat /\ f.seqno \in Nat
      BY <1>1, <2>1, <3>2
    <3> QED
      BY <1>1, <3>1, <3>2, <3>3, <3>4 DEF Idle
  <2>2. CASE x = [s EXCEPT !.state = "DOWNLOAD_BLK_SUBBLOCK_RSP"]
    BY <1>1, <2>2 DEF Idle
  <2>3. CASE x = s
    BY <1>1, <2>3
  <2> QED
    BY <2>1, <2>2, <2>3 DEF Segment
<1>3. Reads(x, od) /\ Sends(x, od)
  BY <1>1, <1>2 DEF Reads, Sends, At, SegmentsIn, BlockIn, Out, BlockOut
<1> QED
  BY <1>1, <1>2, <1>3 DEF Core, CO_SDO_state_t

(* The frame is a segment of a block download.                             *)
LEMMA ReceiveSegmentKeeps ==
  ASSUME NEW q, NEW p, Fits(q, p), UNCHANGED <<cli, transfer>>, ReceiveSegment
  PROVE  Whole(od') /\ Joint'
<1> DEFINE q2 == IF Head(toServer).cs \in Requests THEN None ELSE q
           s == [srv EXCEPT !.timer = 0, !.blkTimer = 0]
<1>0. /\ Steps(srv) /\ DOMAIN srv = DOMAIN Idle /\ srv.isNew \in BOOLEAN /\ Core(srv, od)
      /\ Linked(cli, q, p, srv, od, transfer)
  BY FitsIs
<1>1. /\ Arrives /\ srv' = Segment(s, Head(toServer)) /\ od' = od
      /\ srv.state = "DOWNLOAD_BLK_SUBBLOCK_REQ" /\ toServer # <<>>
  BY DEF ReceiveSegment, Arrives
<1>2. /\ Alike(srv, s) /\ s.state = srv.state /\ s.pc = srv.pc /\ s.seen = srv.seen
      /\ s.isNew = srv.isNew /\ s.rxNew = srv.rxNew /\ s.rx = srv.rx /\ DOMAIN s = DOMAIN Idle
  BY <1>0 DEF Alike, Idle
<1> HIDE DEF s
<1>3. Core(s, od)
  BY <1>0, <1>2, CoreSame
<1>4. FrameOk(Head(toServer))
  BY <1>1, BusTail DEF Fits, BusInv
<1>5. /\ Core(srv', od) /\ srv'.state \in {"DOWNLOAD_BLK_SUBBLOCK_REQ", "DOWNLOAD_BLK_SUBBLOCK_RSP"}
      /\ srv'.pc = s.pc /\ srv'.seen = s.seen /\ srv'.isNew = s.isNew
      /\ srv'.rxNew = s.rxNew /\ srv'.rx = s.rx
  <2> DEFINE x == Segment(s, Head(toServer))
  <2>1. /\ Core(x, od) /\ x.state \in {"DOWNLOAD_BLK_SUBBLOCK_REQ", "DOWNLOAD_BLK_SUBBLOCK_RSP"}
        /\ x.pc = s.pc /\ x.seen = s.seen /\ x.isNew = s.isNew /\ x.rxNew = s.rxNew /\ x.rx = s.rx
    BY <1>1, <1>2, <1>3, <1>4, SegmentIsBlock
  <2> QED
    BY <1>1, <2>1
<1>6. Steps(srv')
  BY <1>0, <1>1, <1>2, <1>5 DEF Steps
<1>7. ServerOk(srv', od')
  BY <1>1, <1>5, <1>6 DEF ServerOk
<1>8. Linked(cli, q2, p, srv', od', transfer)
  <2>1. At(srv, BlockIn) /\ At(srv', BlockIn)
    BY <1>1, <1>5 DEF At, BlockIn
  <2>2. Linked(cli, q, p, srv', od', transfer)
    BY <1>0, <2>1, LinkBlock
  <2> QED
    BY <2>2, LinkLoses
<1>9. srv'.rxNew = srv.rxNew /\ srv'.rx = srv.rx /\ q2 = IF Head(toServer).cs \in Requests THEN None ELSE q
  BY <1>2, <1>5
<1> HIDE DEF q2
<1> QED
  BY <1>1, <1>7, <1>8, <1>9, ArrivesMoves

(* The frame goes to the mailbox.                                          *)
LEMMA ReceiveMessageKeeps ==
  ASSUME NEW q, NEW p, Fits(q, p), UNCHANGED <<cli, transfer>>, ReceiveMessage
  PROVE  Whole(od') /\ Joint'
<1>0. /\ Steps(srv) /\ DOMAIN srv = DOMAIN Idle /\ srv.isNew \in BOOLEAN /\ Core(srv, od)
      /\ Linked(cli, q, p, srv, od, transfer)
  BY FitsIs
<1>1. /\ Arrives /\ srv' = [srv EXCEPT !.rx = Head(toServer), !.rxNew = TRUE] /\ od' = od
      /\ ~srv.rxNew
  BY DEF ReceiveMessage, Arrives
<1>2. /\ Alike(srv, srv') /\ srv'.state = srv.state /\ srv'.pc = srv.pc /\ srv'.seen = srv.seen
      /\ srv'.isNew = srv.isNew /\ srv'.rxNew = TRUE /\ srv'.rx = Head(toServer)
  BY <1>0, <1>1 DEF Alike, Idle
<1>3. Core(srv', od') /\ Linked(cli, q, p, srv', od', transfer)
  BY <1>0, <1>1, <1>2, CoreSame, LinkSame
<1>4. ServerOk(srv', od')
  BY <1>0, <1>2, <1>3 DEF ServerOk, Steps
<1> QED
  BY <1>1, <1>2, <1>3, <1>4, ArrivesMoves

(* A frame in the receive interrupt of the server.                         *)
LEMMA InterruptKeeps ==
  ASSUME NEW q, NEW p, Fits(q, p), UNCHANGED <<cli, transfer>>, CO_SDO_receive
  PROVE  Whole(od') /\ Joint'
<1>1. ~ReceiveAbort
  <2>1. BusOk(Requests, srv.rxNew, srv.rx, toServer) /\ \A i \in DOMAIN toServer : toServer[i].cs # "abort"
    BY DEF Fits, BusInv
  <2>2. toServer # <<>> => Head(toServer) \in {toServer[i] : i \in DOMAIN toServer}
    BY <2>1, BusTail
  <2> QED
    BY <2>1, <2>2 DEF ReceiveAbort, Arrives
<1> QED
  BY <1>1, ReceiveLostKeeps, ReceiveEndKeeps, ReceiveSegmentKeeps, ReceiveMessageKeeps
  DEF CO_SDO_receive
-----------------------------------------------------------------------------
(* The handlers of the client.                                             *)

(* A step of the client keeps the two fitting, if it leaves the mailbox or *)
(* clears it, and sends at most one frame.                                 *)
LEMMA ClientMoves ==
  ASSUME NEW q, NEW p, Fits(q, p), UNCHANGED <<srv, od, toClient>>, ClientOk(cli', transfer'),
         NEW p2, \/ cli'.rxNew = cli.rxNew /\ cli'.rx = cli.rx /\ p2 = p
                 \/ cli'.rxNew = FALSE /\ p2 = IF cli.rxNew /\ cli.rx.cs \in Responses THEN None ELSE p,
         NEW q2, NEW f, \/ toServer' = toServer /\ q2 = q
                        \/ /\ toServer' = Append(toServer, f) /\ FrameOk(f) /\ f.cs # "abort"
                           /\ \/ f.cs \notin Requests /\ q2 = q
                              \/ f.cs \in Requests /\ q = None /\ q2 = f,
         Linked(cli', q2, p2, srv, od, transfer')
  PROVE  Whole(od') /\ Joint'
<1>1. ServerOk(srv', od') /\ Whole(od')
  BY DEF Fits
<1>2. BusOk(Requests, srv.rxNew, srv.rx, toServer) /\ BusOk(Responses, cli.rxNew, cli.rx, toClient)
      /\ \A i \in DOMAIN toServer : toServer[i].cs # "abort"
  BY DEF Fits, BusInv
<1>3. BusOk(Responses, cli'.rxNew, cli'.rx, toClient')
  BY <1>2 DEF BusOk
<1>4. BusOk(Requests, srv'.rxNew, srv'.rx, toServer') /\ \A i \in DOMAIN toServer' : toServer'[i].cs # "abort"
  <2>1. CASE toServer' = toServer
    BY <1>2, <2>1
  <2>2. CASE toServer' = Append(toServer, f) /\ FrameOk(f) /\ f.cs # "abort"
    <3> DEFINE c == Append(toServer, f)
    <3>1. /\ BusOk(Requests, srv.rxNew, srv.rx, c)
          /\ \A i \in DOMAIN c : c[i] \in {toServer[k] : k \in DOMAIN toServer} \cup {f}
      BY <1>2, <2>2, BusAppend
    <3>2. toServer' = c
      BY <2>2
    <3> HIDE DEF c
    <3>3. ASSUME NEW i \in DOMAIN c PROVE c[i].cs # "abort"
      BY <1>2, <2>2, <3>1
    <3> QED
      BY <3>1, <3>2, <3>3
  <2> QED
    BY <2>1, <2>2
<1>5. BusInv'
  BY <1>3, <1>4 DEF BusInv
<1>6. Carries(Responses, cli'.rxNew, cli'.rx, toClient', p2)
  <2>1. CASE cli'.rxNew = cli.rxNew /\ cli'.rx = cli.rx /\ p2 = p
    BY <2>1 DEF Fits
  <2>2. CASE cli'.rxNew = FALSE /\ p2 = IF cli.rxNew /\ cli.rx.cs \in Responses THEN None ELSE p
    <3>1. Carries(Responses, cli.rxNew, cli.rx, toClient, p)
      BY DEF Fits
    <3>2. Carries(Responses, FALSE, cli'.rx, toClient, p2)
      BY <2>2, <3>1, CarriesClear
    <3> QED
      BY <2>2, <3>2
  <2> QED
    BY <2>1, <2>2
<1>7. Carries(Requests, srv'.rxNew, srv'.rx, toServer', q2)
  <2>1. CASE toServer' = toServer /\ q2 = q
    BY <2>1 DEF Fits
  <2>2. CASE /\ toServer' = Append(toServer, f)
             /\ (f.cs \notin Requests /\ q2 = q) \/ (f.cs \in Requests /\ q = None /\ q2 = f)
    <3>1. Carries(Requests, srv.rxNew, srv.rx, toServer, q) /\ IsSeq(toServer)
      BY <1>2 DEF Fits, BusOk
    <3>2. None.cs \notin Requests
      BY DEF None, Requests
    <3>3. Carries(Requests, srv.rxNew, srv.rx, Append(toServer, f), q2)
      BY <2>2, <3>1, <3>2, CarriesAppend
    <3> QED
      BY <2>2, <3>3
  <2> QED
    BY <2>1, <2>2
<1>8. Linked(cli', q2, p2, srv', od', transfer')
  OBVIOUS
<1> QED
  BY <1>1, <1>5, <1>6, <1>7, <1>8, JointIs

-----------------------------------------------------------------------------
(* The client handles the message f, which is no abort; the response under *)
(* way is p before and p2 after it.                                        *)
Hears(q, p, p2, f) ==
  /\ Fits(q, p) /\ cli.rxNew /\ f = cli.rx
  /\ p2 = IF cli.rxNew /\ cli.rx.cs \in Responses THEN None ELSE p

(* What it may be after the message: it gives up, has ended well, or fits. *)
Follows(u, q, p2) ==
  \/ u.state = "ABORT"
  \/ /\ u.state = "ended" /\ IsSeq(u.fifo) /\ Transferred(u, od, transfer)
     /\ Silence(q, p2) /\ Rests(srv)
  \/ ClientOk(u, transfer) /\ Linked(u, q, p2, srv, od, transfer)

(* A message that is a response leaves none under way.                     *)
LEMMA HearsIs ==
  ASSUME NEW q, NEW p, NEW p2, NEW f, Hears(q, p, p2, f)
  PROVE  /\ FrameOk(f) /\ Linked(cli, q, p2, srv, od, transfer)
         /\ f.cs \in Responses => p = f /\ p2 = None /\ f # None
         /\ f.cs \notin Responses => p2 = p
         /\ Linked(cli, q, p, srv, od, transfer)
         /\ Whole(od) /\ Core(srv, od) /\ ClientOk(cli, transfer) /\ DOMAIN cli = DOMAIN Resting
<1>1. FrameOk(f)
  BY DEF Hears, Fits, BusInv, BusOk
<1>2. Linked(cli, q, p2, srv, od, transfer)
  BY LinkLoses DEF Hears, Fits
<1>3. f.cs \in Responses => p = f /\ p2 = None
  <2>1. Carries(Responses, cli.rxNew, cli.rx, toClient, p)
    BY DEF Hears, Fits
  <2>2. cli.rxNew /\ cli.rx.cs \in Responses => p = cli.rx
    BY <2>1 DEF Carries
  <2> QED
    BY <2>2 DEF Hears
<1>4. f.cs \in Responses => f # None
  BY DEF Responses, None
<1>5. Fits(q, p)
  BY DEF Hears
<1>6. Whole(od) /\ Core(srv, od) /\ ClientOk(cli, transfer) /\ Linked(cli, q, p, srv, od, transfer)
  BY <1>5, FitsIs
<1>7. DOMAIN cli = DOMAIN Resting
  BY <1>6 DEF ClientOk
<1> QED
  BY <1>1, <1>2, <1>3, <1>4, <1>6, <1>7 DEF Hears

(* The answer to the request of a download.                                *)
LEMMA InitiateRspIs ==
  ASSUME NEW q, NEW p, NEW p2, NEW f, Hears(q, p, p2, f), cli.state = "DOWNLOAD_INITIATE_RSP",
         NEW u, u = InitiateRsp(cli, f)
  PROVE  Follows(u, q, p2)
<1>0. /\ Whole(od) /\ Core(srv, od) /\ ClientOk(cli, transfer) /\ DOMAIN cli = DOMAIN Resting
      /\ Linked(cli, q, p, srv, od, transfer)
  BY HearsIs
<1>1. /\ transfer.kind \in {"download", "download_block"}
      /\ ~cli.finished => cli.fifo = transfer.data /\ cli.fifo # <<>>
      /\ transfer.result = "busy" /\ IsSeq(cli.fifo) /\ IsSeq(transfer.data) /\ IsSeq(cli.tail)
      /\ cli.finished \in BOOLEAN
  BY <1>0 DEF ClientOk, Gives, Takes, Uploads
<1>2. CASE f.cs # "dlInitRsp"
  BY <1>0, <1>2 DEF InitiateRsp, Failed, Follows, Resting
<1>3. CASE f.cs = "dlInitRsp"
  <2>1. p = f /\ p2 = None /\ f # None /\ p.cs = "dlInitRsp"
    BY <1>3, HearsIs DEF Responses
  <2>2. /\ q = None
        /\ cli.finished => Rests(srv) /\ Stored(od, transfer)
        /\ ~cli.finished => Rests(srv) \/ (srv.state = "DOWNLOAD_SEGMENT_REQ" /\ Got(srv, od) = <<>>)
    <3>1. DownloadInitiated(cli, q, p, srv, od, transfer)
      BY <1>0 DEF Linked
    <3> QED
      BY <2>1, <3>1 DEF DownloadInitiated, Lost, Silence
  <2>3. CASE cli.finished
    <3>1. u = [cli EXCEPT !.state = "ended"]
      BY <1>3, <2>3 DEF InitiateRsp, Ended
    <3>2. u.state = "ended" /\ u.fifo = cli.fifo
      BY <1>0, <3>1 DEF Resting
    <3>3. Transferred(u, od, transfer)
      BY <1>1, <2>2, <2>3 DEF Transferred
    <3> QED
      BY <1>1, <2>1, <2>2, <2>3, <3>2, <3>3 DEF Follows, Silence
  <2>4. CASE ~cli.finished
    <3>1. u = [cli EXCEPT !.toggle = 0, !.state = "DOWNLOAD_SEGMENT_REQ"]
      BY <1>3, <2>4 DEF InitiateRsp, To
    <3>2. /\ DOMAIN u = DOMAIN Resting /\ u.state = "DOWNLOAD_SEGMENT_REQ" /\ u.fifo = cli.fifo
          /\ u.finished = cli.finished /\ u.tail = cli.tail
      BY <1>0, <3>1 DEF Resting
    <3>3. ClientOk(u, transfer)
      <4>1. Gives(u, transfer)
        BY <1>1, <2>4, <3>2 DEF Gives
      <4> QED
        BY <1>1, <3>2, <4>1 DEF ClientOk, Downloads
    <3>4. srv.state = "DOWNLOAD_SEGMENT_REQ" /\ Got(srv, od) = <<>> => Got(srv, od) \o u.fifo = transfer.data
      BY <1>1, <2>4, <3>2, ConcatEmpty
    <3>5. Linked(u, q, p2, srv, od, transfer)
      BY <2>1, <2>2, <2>4, <3>2, <3>4 DEF Linked, Silence
    <3> QED
      BY <3>3, <3>5 DEF Follows
  <2> QED
    BY <2>3, <2>4
<1> QED
  BY <1>2, <1>3

(* The answer to a segment of a download.                                  *)
LEMMA SegmentRspIs ==
  ASSUME NEW q, NEW p, NEW p2, NEW f, Hears(q, p, p2, f), cli.state = "DOWNLOAD_SEGMENT_RSP",
         NEW u, u = SegmentRsp(cli, f)
  PROVE  Follows(u, q, p2)
<1>0. /\ Whole(od) /\ Core(srv, od) /\ ClientOk(cli, transfer) /\ DOMAIN cli = DOMAIN Resting
      /\ Linked(cli, q, p, srv, od, transfer)
  BY HearsIs
<1>1. /\ transfer.kind \in {"download", "download_block"}
      /\ cli.finished <=> cli.fifo = <<>>
      /\ transfer.result = "busy" /\ IsSeq(cli.fifo) /\ IsSeq(transfer.data) /\ IsSeq(cli.tail)
      /\ cli.finished \in BOOLEAN
  BY <1>0 DEF ClientOk, Gives, Takes, Uploads
<1>2. CASE f.cs # "dlSegRsp" \/ f.toggle # cli.toggle
  BY <1>0, <1>2 DEF SegmentRsp, Failed, Follows, Resting
<1>3. CASE f.cs = "dlSegRsp" /\ f.toggle = cli.toggle
  <2>1. p = f /\ p2 = None /\ f # None /\ p.cs = "dlSegRsp"
    BY <1>3, HearsIs DEF Responses
  <2>2. /\ q = None
        /\ cli.finished => Rests(srv) /\ Stored(od, transfer)
        /\ ~cli.finished =>
             Rests(srv) \/ (srv.state = "DOWNLOAD_SEGMENT_REQ" /\ Got(srv, od) \o cli.fifo = transfer.data)
    <3>1. DownloadSegmented(cli, q, p, srv, od, transfer)
      BY <1>0 DEF Linked
    <3> QED
      BY <2>1, <3>1 DEF DownloadSegmented, Lost, Silence
  <2>3. CASE cli.finished
    <3>1. u = [cli EXCEPT !.state = "ended"]
      BY <1>3, <2>3 DEF SegmentRsp, Ended
    <3>2. u.state = "ended" /\ u.fifo = cli.fifo
      BY <1>0, <3>1 DEF Resting
    <3>3. Transferred(u, od, transfer)
      BY <1>1, <2>2, <2>3 DEF Transferred
    <3> QED
      BY <1>1, <2>1, <2>2, <2>3, <3>2, <3>3 DEF Follows, Silence
  <2>4. CASE ~cli.finished
    <3>1. u = [cli EXCEPT !.toggle = 1 - @, !.state = "DOWNLOAD_SEGMENT_REQ"]
      BY <1>3, <2>4 DEF SegmentRsp, To
    <3>2. /\ DOMAIN u = DOMAIN Resting /\ u.state = "DOWNLOAD_SEGMENT_REQ" /\ u.fifo = cli.fifo
          /\ u.finished = cli.finished /\ u.tail = cli.tail
      BY <1>0, <3>1 DEF Resting
    <3>3. ClientOk(u, transfer)
      <4>1. Gives(u, transfer)
        BY <1>1, <2>4, <3>2 DEF Gives
      <4> QED
        BY <1>1, <3>2, <4>1 DEF ClientOk, Downloads
    <3>5. Linked(u, q, p2, srv, od, transfer)
      BY <2>1, <2>2, <2>4, <3>2 DEF Linked, Silence
    <3> QED
      BY <3>3, <3>5 DEF Follows
  <2> QED
    BY <2>3, <2>4
<1> QED
  BY <1>2, <1>3

(* The answer to the request of a block download.                          *)
LEMMA BlkInitiateRspIs ==
  ASSUME NEW q, NEW p, NEW p2, NEW f, Hears(q, p, p2, f), cli.state = "DOWNLOAD_BLK_INITIATE_RSP",
         NEW u, u = BlkInitiateRsp(cli, f)
  PROVE  Follows(u, q, p2)
<1>0. /\ Whole(od) /\ Core(srv, od) /\ ClientOk(cli, transfer) /\ DOMAIN cli = DOMAIN Resting
      /\ Linked(cli, q, p, srv, od, transfer)
  BY HearsIs
<1>1. /\ transfer.kind \in {"download", "download_block"}
      /\ cli.fifo = transfer.data /\ cli.fifo # <<>> /\ ~cli.finished
      /\ transfer.result = "busy" /\ IsSeq(cli.fifo) /\ IsSeq(transfer.data) /\ IsSeq(cli.tail)
      /\ cli.finished \in BOOLEAN
  BY <1>0 DEF ClientOk, Gives, Takes, Uploads
<1>2. CASE f.cs # "dlBlkInitRsp"
  BY <1>0, <1>2 DEF BlkInitiateRsp, Failed, Follows, Resting
<1>3. CASE f.cs = "dlBlkInitRsp"
  <2>1. p = f /\ p2 = None /\ f # None /\ p.cs = "dlBlkInitRsp"
    BY <1>3, HearsIs DEF Responses
  <2>2. q = None /\ (Rests(srv) \/ At(srv, BlockIn))
    <3>1. DownloadBlkInitiated(q, p, srv)
      BY <1>0 DEF Linked
    <3> QED
      BY <2>1, <3>1 DEF DownloadBlkInitiated, Lost, Silence
  <2>3. u = [cli EXCEPT !.blksize = f.blksize, !.seqno = 0, !.alt = 0, !.crc = <<>>,
                        !.state = "DOWNLOAD_BLK_SUBBLOCK_REQ"]
    BY <1>3 DEF BlkInitiateRsp, To
  <2>4. /\ DOMAIN u = DOMAIN Resting /\ u.state = "DOWNLOAD_BLK_SUBBLOCK_REQ" /\ u.fifo = cli.fifo
        /\ u.finished = cli.finished /\ u.tail = cli.tail /\ u.crc = <<>> /\ u.alt = 0 /\ u.seqno = 0
    BY <1>0, <2>3 DEF Resting
  <2>5. ClientOk(u, transfer)
    <3>1. <<>> \o cli.fifo = cli.fifo /\ IsSeq(<<>>) /\ Len(cli.fifo) \in Nat /\ Len(cli.fifo) # 0
      BY <1>1, ConcatEmpty, EmptyIs, SeqIs
    <3>2. 0 \in 0..Len(cli.fifo)
      BY <3>1
    <3>3. Gives(u, transfer)
      BY <1>1, <2>4, <3>1, <3>2 DEF Gives
    <3> QED
      BY <1>1, <2>4, <3>3 DEF ClientOk, Downloads
  <2>6. Linked(u, q, p2, srv, od, transfer)
    BY <2>1, <2>2, <2>4 DEF Linked, Lost, Silence
  <2> QED
    BY <2>5, <2>6 DEF Follows
<1> QED
  BY <1>2, <1>3

(* The answer to the end of a block download.                              *)
LEMMA BlkEndRspIs ==
  ASSUME NEW q, NEW p, NEW p2, NEW f, Hears(q, p, p2, f), cli.state = "DOWNLOAD_BLK_END_RSP",
         NEW u, u = BlkEndRsp(cli, f)
  PROVE  Follows(u, q, p2)
<1>0. /\ Whole(od) /\ Core(srv, od) /\ ClientOk(cli, transfer) /\ DOMAIN cli = DOMAIN Resting
      /\ Linked(cli, q, p, srv, od, transfer)
  BY HearsIs
<1>1. transfer.kind \in {"download", "download_block"} /\ IsSeq(cli.fifo)
  BY <1>0 DEF ClientOk, Gives, Takes, Uploads
<1>2. CASE f.cs # "dlBlkEndRsp"
  BY <1>0, <1>2 DEF BlkEndRsp, Failed, Follows, Resting
<1>3. CASE f.cs = "dlBlkEndRsp"
  <2>1. p = f /\ p2 = None /\ f # None /\ p.cs = "dlBlkEndRsp"
    BY <1>3, HearsIs DEF Responses
  <2>2. q = None /\ Rests(srv) /\ Stored(od, transfer)
    <3>1. DownloadBlkEnded(q, p, srv, od, transfer)
      BY <1>0 DEF Linked
    <3> QED
      BY <2>1, <3>1 DEF DownloadBlkEnded, Lost, Silence
  <2>3. u = [cli EXCEPT !.state = "ended"]
    BY <1>3 DEF BlkEndRsp, Ended
  <2>4. u.state = "ended" /\ u.fifo = cli.fifo
    BY <1>0, <2>3 DEF Resting
  <2>5. Transferred(u, od, transfer)
    BY <1>1, <2>2 DEF Transferred
  <2> QED
    BY <1>1, <2>1, <2>2, <2>4, <2>5 DEF Follows, Silence
<1> QED
  BY <1>2, <1>3

(* What the server has taken leaves the buffer.                            *)
LEMMA TakenNumbers ==
  ASSUME NEW L \in Nat, NEW alt \in 0..L, NEW ack \in Nat, ack <= alt,
         NEW n, n = IF ack < alt THEN ack ELSE alt
  PROVE  n \in 0..L /\ (ack < alt => n # L) /\ (~(ack < alt) => n = alt) /\ L - n \in Nat
         /\ (L - n = 0 <=> n = L)
  OBVIOUS

Taken(x, c, n, rest, crc) ==
  /\ IsSeq(rest) /\ IsSeq(crc) /\ Len(rest) = Len(x) - n /\ crc \o rest = c \o x
  /\ n = Len(x) => crc = c \o x

(* What the server has taken of a sub-block leaves the buffer.             *)
LEMMA TakenIs ==
  ASSUME NEW x, IsSeq(x), NEW c, IsSeq(c), NEW n \in 0..Len(x)
  PROVE  Taken(x, c, n, SubSeq(x, n + 1, Len(x)), c \o SubSeq(x, 1, n))
<1> DEFINE rest == SubSeq(x, n + 1, Len(x))  crc == c \o SubSeq(x, 1, n)
<1>1. Len(x) \in Nat
  BY SeqIs
<1>2. n + 1 \in 1..Len(x) + 1 /\ Len(x) \in (n + 1 - 1)..Len(x) /\ Len(x) - (n + 1) + 1 = Len(x) - n
      /\ Len(x) \in n..Len(x)
  BY <1>1
<1>3. IsSeq(rest) /\ Len(rest) = Len(x) - n
  <2> DEFINE m == n + 1  k == Len(x)
  <2>1. m \in 1..Len(x) + 1 /\ k \in (m - 1)..Len(x) /\ rest = SubSeq(x, m, k)
    BY <1>2
  <2>2. k - m + 1 = Len(x) - n
    BY <1>2
  <2> HIDE DEF m, k
  <2>3. IsSeq(rest) /\ Len(rest) = k - m + 1
    BY <2>1, SubIs
  <2> QED
    BY <2>2, <2>3
<1> DEFINE a == SubSeq(x, 1, n)
<1>4. IsSeq(a) /\ a \o rest = SubSeq(x, 1, Len(x)) /\ (n = Len(x) => a = x)
  BY <1>1, <1>2, PrefixIs, SplitIs, WholeIs
<1>5. a \o rest = x
  BY <1>4, WholeIs
<1>6. crc = c \o a
  OBVIOUS
<1> HIDE DEF a, rest, crc
<1>7. IsSeq(crc) /\ crc \o rest = c \o x
  <2>1. IsSeq(c \o a)
    BY <1>4, ConcatIs
  <2>2. (c \o a) \o rest = c \o (a \o rest)
    <3>1. IsSeq(c) /\ IsSeq(a) /\ IsSeq(rest)
      BY <1>3, <1>4
    <3> QED
      BY ONLY <3>1, ConcatAssoc
  <2> QED
    BY <1>5, <1>6, <2>1, <2>2
<1>8. Taken(x, c, n, rest, crc)
  BY <1>3, <1>4, <1>6, <1>7 DEF Taken
<1> QED
  BY <1>8 DEF rest, crc

(* The answer to a sub-block: the rest will be sent again.                 *)
LEMMA SubblockRspIs ==
  ASSUME NEW q, NEW p, NEW p2, NEW f, Hears(q, p, p2, f),
         cli.state \in {"DOWNLOAD_BLK_SUBBLOCK_REQ", "DOWNLOAD_BLK_SUBBLOCK_RSP"},
         NEW u, u = SubblockRsp(cli, f)
  PROVE  Follows(u, q, p2)
<1>0. /\ Whole(od) /\ Core(srv, od) /\ ClientOk(cli, transfer) /\ DOMAIN cli = DOMAIN Resting
      /\ Linked(cli, q, p2, srv, od, transfer) /\ FrameOk(f)
  BY HearsIs
<1>1. /\ transfer.kind \in {"download", "download_block"}
      /\ cli.crc \o cli.fifo = transfer.data /\ IsSeq(cli.crc)
      /\ cli.alt \in 0..Len(cli.fifo) /\ cli.seqno = cli.alt
      /\ cli.finished <=> cli.alt = Len(cli.fifo)
      /\ transfer.result = "busy" /\ IsSeq(cli.fifo) /\ IsSeq(transfer.data) /\ IsSeq(cli.tail)
      /\ cli.finished \in BOOLEAN
  BY <1>0 DEF ClientOk, Gives, Takes, Uploads
<1>2. CASE f.cs # "dlBlkAck" \/ f.ackseq > cli.seqno
  BY <1>0, <1>2 DEF SubblockRsp, Failed, Follows, Resting
<1>3. CASE f.cs = "dlBlkAck" /\ ~(f.ackseq > cli.seqno)
  <2> DEFINE missed == f.ackseq < cli.seqno
             n == IF missed THEN f.ackseq ELSE cli.alt
             rest == SubSeq(cli.fifo, n + 1, Len(cli.fifo))
             crc == cli.crc \o SubSeq(cli.fifo, 1, n)
             fin == cli.finished /\ ~missed
             t == [cli EXCEPT !.fifo = rest, !.crc = crc, !.alt = 0, !.finished = fin]
  <2>1. u = IF t.finished THEN To(t, "DOWNLOAD_BLK_END_REQ")
            ELSE To([t EXCEPT !.blksize = f.blksize, !.seqno = 0], "DOWNLOAD_BLK_SUBBLOCK_REQ")
    <3>1. SubblockRsp(cli, f) = IF t.finished THEN To(t, "DOWNLOAD_BLK_END_REQ")
            ELSE To([t EXCEPT !.blksize = f.blksize, !.seqno = 0], "DOWNLOAD_BLK_SUBBLOCK_REQ")
      BY <1>3 DEF SubblockRsp
    <3> QED
      BY <3>1
  <2>2. f.ackseq \in Nat /\ Len(cli.fifo) \in Nat /\ f.ackseq <= cli.alt
    <3>1. f.ackseq \in Nat /\ Len(cli.fifo) \in Nat
      BY <1>0, <1>1, <1>3, SeqIs DEF FrameOk
    <3> QED
      BY <1>1, <1>3, <3>1
  <2>3. /\ n \in 0..Len(cli.fifo) /\ (missed => n # Len(cli.fifo)) /\ (~missed => n = cli.alt)
        /\ Len(cli.fifo) - n \in Nat /\ (Len(cli.fifo) - n = 0 <=> n = Len(cli.fifo))
    <3> DEFINE L == Len(cli.fifo)  alt == cli.alt  ack == f.ackseq
    <3>1. L \in Nat /\ alt \in 0..L /\ ack \in Nat /\ ack <= alt /\ n = IF ack < alt THEN ack ELSE alt
      BY <1>1, <2>2
    <3>2. missed <=> ack < alt
      BY <1>1
    <3> HIDE DEF n, missed, L, alt, ack
    <3>3. n \in 0..L /\ (ack < alt => n # L) /\ (~(ack < alt) => n = alt) /\ L - n \in Nat
          /\ (L - n = 0 <=> n = L)
      BY <3>1, TakenNumbers
    <3> QED
      BY <3>2, <3>3 DEF L, alt
  <2>4. /\ IsSeq(rest) /\ IsSeq(crc) /\ Len(rest) = Len(cli.fifo) - n /\ crc \o rest = transfer.data
        /\ n = Len(cli.fifo) => crc = transfer.data
    <3> DEFINE x == cli.fifo  c == cli.crc
    <3>1. IsSeq(x) /\ IsSeq(c) /\ n \in 0..Len(x) /\ c \o x = transfer.data
      BY <1>1, <2>3
    <3> HIDE DEF x, c, n, missed, fin, t
    <3>2. Taken(x, c, n, SubSeq(x, n + 1, Len(x)), c \o SubSeq(x, 1, n))
      BY <3>1, TakenIs
    <3>3. Taken(x, c, n, rest, crc)
      BY <3>2 DEF x, c
    <3> HIDE DEF rest, crc
    <3> QED
      BY <3>1, <3>3 DEF Taken, x
  <2>5. fin \in BOOLEAN /\ (fin => n = Len(cli.fifo)) /\ (~fin => Len(rest) # 0)
    <3> HIDE DEF n, rest
    <3>1. fin \in BOOLEAN /\ (fin => cli.finished /\ ~missed) /\ (~fin => ~cli.finished \/ missed)
      BY <1>1
    <3> HIDE DEF fin, missed
    <3> QED
      BY <1>1, <2>3, <2>4, <3>1
  <2> HIDE DEF n, rest, crc, fin, missed
  <2>6. rest = <<>> <=> Len(rest) = 0
    BY <2>4, SeqIs
  <2>7. /\ DOMAIN t = DOMAIN Resting /\ t.fifo = rest /\ t.crc = crc /\ t.alt = 0 /\ t.finished = fin
        /\ t.tail = cli.tail
    BY <1>0 DEF Resting
  <2> HIDE DEF t
  <2>8. Lost(q, p2, srv, BlockIn)
    BY <1>0 DEF Linked
  <2>9. CASE fin
    <3>1. u = [t EXCEPT !.state = "DOWNLOAD_BLK_END_REQ"]
      BY <2>1, <2>7, <2>9 DEF To
    <3>2. /\ DOMAIN u = DOMAIN Resting /\ u.state = "DOWNLOAD_BLK_END_REQ" /\ u.fifo = rest
          /\ u.crc = crc /\ u.finished = fin /\ u.tail = cli.tail
      BY <2>7, <3>1 DEF Resting
    <3>3. Gives(u, transfer)
      BY <1>1, <2>4, <2>5, <2>9, <3>2 DEF Gives
    <3>4. ClientOk(u, transfer)
      BY <1>1, <2>4, <2>5, <3>2, <3>3 DEF ClientOk, Downloads
    <3>5. Linked(u, q, p2, srv, od, transfer)
      BY <2>8, <3>2 DEF Linked
    <3> QED
      BY <3>4, <3>5 DEF Follows
  <2>10. CASE ~fin
    <3>1. u = [t EXCEPT !.blksize = f.blksize, !.seqno = 0, !.state = "DOWNLOAD_BLK_SUBBLOCK_REQ"]
      BY <2>1, <2>7, <2>10 DEF To
    <3>2. /\ DOMAIN u = DOMAIN Resting /\ u.state = "DOWNLOAD_BLK_SUBBLOCK_REQ" /\ u.fifo = rest
          /\ u.crc = crc /\ u.finished = fin /\ u.tail = cli.tail /\ u.alt = 0 /\ u.seqno = 0
      BY <2>7, <3>1 DEF Resting
    <3>3. Len(rest) \in Nat
      BY <2>4, SeqIs
    <3>4. 0 \in 0..Len(rest)
      BY <3>3
    <3>5. Gives(u, transfer)
      BY <1>1, <2>4, <2>5, <2>6, <2>10, <3>2, <3>4 DEF Gives
    <3>6. ClientOk(u, transfer)
      BY <1>1, <2>4, <2>5, <3>2, <3>5 DEF ClientOk, Downloads
    <3>7. Linked(u, q, p2, srv, od, transfer)
      BY <2>8, <3>2 DEF Linked
    <3> QED
      BY <3>6, <3>7 DEF Follows
  <2> QED
    BY <2>9, <2>10
<1>4. (f.cs = "dlBlkAck" /\ ~(f.ackseq > cli.seqno)) \/ (f.cs # "dlBlkAck" \/ f.ackseq > cli.seqno)
  OBVIOUS
<1> QED
  BY <1>2, <1>3, <1>4

(* What the client has received grows by what a frame brings.              *)
LEMMA RcvdIs ==
  ASSUME NEW t, IsSeq(t.data), NEW c, IsSeq(c.fifo), NEW d, IsSeq(d),
         NEW u, u.fifo = c.fifo \o d
  PROVE  IsSeq(u.fifo) /\ Rcvd(u, t) = Rcvd(c, t) \o d
<1> DEFINE a == t.data  b == c.fifo  w == u.fifo
<1>1. IsSeq(a) /\ IsSeq(b) /\ IsSeq(d) /\ w = b \o d
  OBVIOUS
<1> HIDE DEF a, b, w
<1>2. IsSeq(w) /\ a \o w = (a \o b) \o d
  BY ONLY <1>1, ConcatIs, ConcatAssoc
<1> QED
  BY <1>2 DEF Rcvd, a, b, w

(* The answer to the request of an upload.                                 *)
LEMMA UploadInitiatedIs ==
  ASSUME NEW q, NEW p, NEW p2, NEW f, Hears(q, p, p2, f), f.cs = "ulInitRsp",
         cli.state \in {"UPLOAD_INITIATE_RSP", "UPLOAD_BLK_INITIATE_RSP"},
         NEW u, u = UploadInitiated(cli, f)
  PROVE  Follows(u, q, p2)
<1>0. /\ Whole(od) /\ Core(srv, od) /\ ClientOk(cli, transfer) /\ DOMAIN cli = DOMAIN Resting
      /\ Linked(cli, q, p, srv, od, transfer)
  BY HearsIs
<1>1. /\ transfer.kind \in {"upload", "upload_block"}
      /\ cli.fifo = <<>> /\ transfer.data = <<>>
      /\ transfer.result = "busy" /\ IsSeq(cli.tail) /\ cli.finished \in BOOLEAN
  BY <1>0 DEF ClientOk, Gives, Takes, Downloads
<1>2. p = f /\ p2 = None /\ f # None /\ p.cs = "ulInitRsp"
  BY HearsIs DEF Responses
<1>3. InitRsp(q, p, srv, od)
  <2>1. CASE cli.state = "UPLOAD_INITIATE_RSP"
    <3>1. UploadInitiated1(q, p, srv, od)
      BY <1>0, <2>1 DEF Linked
    <3> QED
      BY <1>2, <3>1 DEF UploadInitiated1, Lost, Silence
  <2>2. CASE cli.state = "UPLOAD_BLK_INITIATE_RSP"
    <3>1. UploadBlkInitiated1(q, p, srv, od)
      BY <1>0, <2>2 DEF Linked
    <3> QED
      BY <1>2, <3>1 DEF UploadBlkInitiated1, Lost, Silence
  <2> QED
    BY <2>1, <2>2
<1>4. /\ q = None /\ f.expedited \in BOOLEAN
      /\ f.expedited => Rests(srv) /\ f.data \in Uploaded(od)
      /\ ~f.expedited => Rests(srv) \/ (srv.state = "UPLOAD_SEGMENT_REQ" /\ Sent(srv, od) = <<>>)
  BY <1>2, <1>3 DEF InitRsp
<1>5. CASE f.expedited
  <2> DEFINE d == f.data  w == cli.fifo \o d
  <2>1. IsSeq(d) /\ d \in Uploaded(od)
    BY <1>0, <1>4, <1>5, UploadedSeq
  <2> HIDE DEF d
  <2>2. w \in Uploaded(od) /\ <<>> \o w \in Uploaded(od) /\ IsSeq(w)
    BY <1>1, <2>1, ConcatEmpty
  <2>3. u = [cli EXCEPT !.fifo = w, !.state = "ended"]
    BY <1>5 DEF UploadInitiated, Ended, d
  <2> HIDE DEF w
  <2>4. u.state = "ended" /\ u.fifo = w
    BY <1>0, <2>3 DEF Resting
  <2>5. Transferred(u, od, transfer)
    BY <1>1, <2>2, <2>4 DEF Transferred, Rcvd
  <2> QED
    BY <1>2, <1>4, <1>5, <2>2, <2>4, <2>5 DEF Follows, Silence
<1>6. CASE ~f.expedited
  <2>1. u = [cli EXCEPT !.sizeInd = f.size, !.toggle = 0, !.state = "UPLOAD_SEGMENT_REQ"]
    BY <1>6 DEF UploadInitiated, To
  <2>2. /\ DOMAIN u = DOMAIN Resting /\ u.state = "UPLOAD_SEGMENT_REQ" /\ u.fifo = <<>>
        /\ u.finished = cli.finished /\ u.tail = cli.tail
    BY <1>0, <1>1, <2>1 DEF Resting
  <2>3. ClientOk(u, transfer)
    <3>1. Takes(u, transfer)
      BY <1>1, <2>2 DEF Takes
    <3> QED
      BY <1>1, <2>2, <3>1, EmptyIs DEF ClientOk, Uploads
  <2>4. Rcvd(u, transfer) = <<>>
    BY <1>1, <2>2, EmptyIs DEF Rcvd
  <2>5. Linked(u, q, p2, srv, od, transfer)
    BY <1>2, <1>4, <1>6, <2>2, <2>4 DEF Linked, Silence
  <2> QED
    BY <2>3, <2>5 DEF Follows
<1> QED
  BY <1>4, <1>5, <1>6

(* A segment of an upload.                                                 *)
LEMMA UploadSegmentRcvIs ==
  ASSUME NEW q, NEW p, NEW p2, NEW f, Hears(q, p, p2, f), cli.state = "UPLOAD_SEGMENT_RSP",
         NEW u, u = UploadSegmentRcv(cli, f)
  PROVE  Follows(u, q, p2)
<1>0. /\ Whole(od) /\ Core(srv, od) /\ ClientOk(cli, transfer) /\ DOMAIN cli = DOMAIN Resting
      /\ Linked(cli, q, p, srv, od, transfer) /\ FrameOk(f)
  BY HearsIs
<1>1. /\ transfer.kind \in {"upload", "upload_block"}
      /\ transfer.result = "busy" /\ IsSeq(cli.tail) /\ cli.finished \in BOOLEAN
      /\ IsSeq(transfer.data) /\ IsSeq(cli.fifo)
  BY <1>0 DEF ClientOk, Gives, Takes, Downloads
<1>2. CASE f.cs # "ulSegRsp" \/ f.toggle # cli.toggle
  BY <1>0, <1>2 DEF UploadSegmentRcv, Failed, Follows, Resting
<1>3. CASE f.cs = "ulSegRsp" /\ f.toggle = cli.toggle
  <2>1. p = f /\ p2 = None /\ f # None /\ p.cs = "ulSegRsp"
    BY <1>3, HearsIs DEF Responses
  <2> DEFINE d == f.data  w == cli.fifo \o d
  <2>2. /\ q = None /\ f.last \in BOOLEAN /\ IsSeq(d)
        /\ f.last => Rests(srv) /\ Rcvd(cli, transfer) \o d \in Uploaded(od)
        /\ ~f.last =>
             Rests(srv) \/ (srv.state = "UPLOAD_SEGMENT_REQ" /\ Rcvd(cli, transfer) \o d = Sent(srv, od))
    <3>1. UploadSegmented(cli, q, p, srv, od, transfer)
      BY <1>0 DEF Linked
    <3>2. f.last \in BOOLEAN /\ IsSeq(d)
      BY <1>0, <1>3 DEF FrameOk
    <3> QED
      BY <2>1, <3>1, <3>2 DEF UploadSegmented, Lost, Silence
  <2> HIDE DEF d
  <2> DEFINE t == [cli EXCEPT !.fifo = w, !.sizeTran = @ + Len(d), !.toggle = 1 - @]
  <2>3. \/ \E code : u = Failed(t, code)
        \/ ~f.last /\ u = To(t, "UPLOAD_SEGMENT_REQ")
        \/ f.last /\ u = Ended(t)
    BY <1>3 DEF UploadSegmentRcv, d
  <2> HIDE DEF w
  <2>4. DOMAIN t = DOMAIN Resting /\ t.fifo = w /\ t.finished = cli.finished /\ t.tail = cli.tail
    BY <1>0 DEF Resting
  <2> HIDE DEF t
  <2>5. CASE \E code : u = Failed(t, code)
    BY <2>4, <2>5 DEF Failed, Follows, Resting
  <2>6. CASE ~f.last /\ u = To(t, "UPLOAD_SEGMENT_REQ")
    <3>1. /\ DOMAIN u = DOMAIN Resting /\ u.state = "UPLOAD_SEGMENT_REQ" /\ u.fifo = w
          /\ u.finished = cli.finished /\ u.tail = cli.tail
      BY <2>4, <2>6 DEF To, Resting
    <3>2. IsSeq(u.fifo) /\ Rcvd(u, transfer) = Rcvd(cli, transfer) \o d
      BY <1>1, <2>2, <3>1, RcvdIs DEF w
    <3>3. ClientOk(u, transfer)
      <4>1. Takes(u, transfer)
        BY <1>1, <3>1 DEF Takes
      <4> QED
        BY <1>1, <3>1, <3>2, <4>1 DEF ClientOk, Uploads
    <3>4. Linked(u, q, p2, srv, od, transfer)
      BY <2>1, <2>2, <2>6, <3>1, <3>2 DEF Linked, Silence
    <3> QED
      BY <3>3, <3>4 DEF Follows
  <2>7. CASE f.last /\ u = Ended(t)
    <3>1. u.state = "ended" /\ u.fifo = w
      BY <2>4, <2>7 DEF Ended, Resting
    <3>2. IsSeq(u.fifo) /\ Rcvd(u, transfer) = Rcvd(cli, transfer) \o d
      BY <1>1, <2>2, <3>1, RcvdIs DEF w
    <3>3. Transferred(u, od, transfer)
      BY <1>1, <2>2, <2>7, <3>2 DEF Transferred
    <3> QED
      BY <2>1, <2>2, <2>7, <3>1, <3>2, <3>3 DEF Follows, Silence
  <2> QED
    BY <2>3, <2>5, <2>6, <2>7
<1> QED
  BY <1>2, <1>3

(* The answer to the request of a block upload, which may be that of an    *)
(* upload.                                                                 *)
LEMMA UploadBlkInitiatedIs ==
  ASSUME NEW q, NEW p, NEW p2, NEW f, Hears(q, p, p2, f), cli.state = "UPLOAD_BLK_INITIATE_RSP",
         NEW u, u = UploadBlkInitiated(cli, f)
  PROVE  Follows(u, q, p2)
<1>0. /\ Whole(od) /\ Core(srv, od) /\ ClientOk(cli, transfer) /\ DOMAIN cli = DOMAIN Resting
      /\ Linked(cli, q, p, srv, od, transfer)
  BY HearsIs
<1>1. /\ transfer.kind \in {"upload", "upload_block"}
      /\ cli.fifo = <<>> /\ transfer.data = <<>> /\ cli.blksize \in Nat \ {0}
      /\ transfer.result = "busy" /\ IsSeq(cli.tail) /\ cli.finished \in BOOLEAN
  BY <1>0 DEF ClientOk, Gives, Takes, Downloads
<1>2. CASE f.cs = "ulBlkInitRsp"
  <2>1. p = f /\ p2 = None /\ f # None /\ p.cs = "ulBlkInitRsp"
    BY <1>2, HearsIs DEF Responses
  <2>2. q = None /\ (Rests(srv) \/ srv.state = "UPLOAD_BLK_INITIATE_REQ2")
    <3>1. UploadBlkInitiated1(q, p, srv, od)
      BY <1>0 DEF Linked
    <3> QED
      BY <2>1, <3>1 DEF UploadBlkInitiated1, Lost, Silence, InitRsp
  <2>3. u = [cli EXCEPT !.sizeInd = f.size, !.state = "UPLOAD_BLK_INITIATE_REQ2"]
    BY <1>2 DEF UploadBlkInitiated, To
  <2>4. /\ DOMAIN u = DOMAIN Resting /\ u.state = "UPLOAD_BLK_INITIATE_REQ2" /\ u.fifo = <<>>
        /\ u.finished = cli.finished /\ u.tail = cli.tail /\ u.blksize = cli.blksize
    BY <1>0, <1>1, <2>3 DEF Resting
  <2>5. ClientOk(u, transfer)
    <3>1. Takes(u, transfer)
      BY <1>1, <2>4 DEF Takes
    <3> QED
      BY <1>1, <2>4, <3>1, EmptyIs DEF ClientOk, Uploads
  <2>6. Linked(u, q, p2, srv, od, transfer)
    BY <2>1, <2>2, <2>4 DEF Linked, Lost, Silence, At
  <2> QED
    BY <2>5, <2>6 DEF Follows
<1>3. CASE f.cs = "ulInitRsp"
  <2>1. u = UploadInitiated(cli, f)
    BY <1>3 DEF UploadBlkInitiated
  <2> QED
    BY <1>3, <2>1, UploadInitiatedIs
<1>4. CASE f.cs \notin {"ulBlkInitRsp", "ulInitRsp"}
  BY <1>0, <1>4 DEF UploadBlkInitiated, Failed, Follows, Resting
<1> QED
  BY <1>2, <1>3, <1>4

(* The end of a block upload: the checksum is compared.                    *)
LEMMA UploadBlkEndRcvIs ==
  ASSUME NEW q, NEW p, NEW p2, NEW f, Hears(q, p, p2, f), cli.state = "UPLOAD_BLK_END_SREQ",
         NEW u, u = UploadBlkEndRcv(cli, f)
  PROVE  Follows(u, q, p2)
<1>0. /\ Whole(od) /\ Core(srv, od) /\ ClientOk(cli, transfer) /\ DOMAIN cli = DOMAIN Resting
      /\ Linked(cli, q, p, srv, od, transfer)
  BY HearsIs
<1>1. /\ transfer.kind \in {"upload", "upload_block"}
      /\ cli.crc = Rcvd(cli, transfer) /\ IsSeq(cli.tail)
      /\ transfer.result = "busy" /\ cli.finished \in BOOLEAN
      /\ IsSeq(transfer.data) /\ IsSeq(cli.fifo)
  BY <1>0 DEF ClientOk, Gives, Takes, Downloads
<1>2. CASE f.cs # "ulBlkEnd"
  BY <1>0, <1>2 DEF UploadBlkEndRcv, Failed, Follows, Resting
<1>3. CASE f.cs = "ulBlkEnd"
  <2>1. p = f /\ p2 = None /\ f # None /\ p.cs = "ulBlkEnd"
    BY <1>3, HearsIs DEF Responses
  <2>2. q = None /\ Rests(srv) /\ f.crc \in Uploaded(od)
    <3>1. UploadBlock(q, p, srv, od)
      BY <1>0 DEF Linked
    <3> QED
      BY <2>1, <3>1 DEF UploadBlock, Lost, Silence
  <2> DEFINE d == cli.tail  w == cli.fifo \o d  crc == cli.crc \o d
             t == [cli EXCEPT !.fifo = w, !.crc = crc, !.sizeTran = @ + Len(d)]
  <2>3. \/ \E code : u = Failed(t, code)
        \/ f.crc = t.crc /\ u = To(t, "UPLOAD_BLK_END_CRSP")
    BY <1>3 DEF UploadBlkEndRcv
  <2>4. crc = Rcvd(cli, transfer) \o d /\ IsSeq(d)
    BY <1>1
  <2>5. d = cli.tail
    OBVIOUS
  <2> HIDE DEF d
  <2>6. w = cli.fifo \o d
    OBVIOUS
  <2> HIDE DEF w, crc
  <2>7. DOMAIN t = DOMAIN Resting /\ t.fifo = w /\ t.finished = cli.finished /\ t.tail = d /\ t.crc = crc
    BY <1>0, <2>5 DEF Resting
  <2> HIDE DEF t
  <2>8. CASE \E code : u = Failed(t, code)
    BY <2>7, <2>8 DEF Failed, Follows, Resting
  <2>9. CASE f.crc = t.crc /\ u = To(t, "UPLOAD_BLK_END_CRSP")
    <3>1. /\ DOMAIN u = DOMAIN Resting /\ u.state = "UPLOAD_BLK_END_CRSP" /\ u.fifo = w
          /\ u.finished = cli.finished /\ u.tail = d
      BY <2>7, <2>9 DEF To, Resting
    <3>2. IsSeq(u.fifo) /\ Rcvd(u, transfer) = Rcvd(cli, transfer) \o d
      <4>1. u.fifo = cli.fifo \o d /\ IsSeq(transfer.data) /\ IsSeq(cli.fifo) /\ IsSeq(d)
        BY <1>1, <2>4, <2>6, <3>1
      <4> QED
        BY ONLY <4>1, RcvdIs
    <3>3. Rcvd(u, transfer) \in Uploaded(od)
      BY <2>2, <2>4, <2>7, <2>9, <3>2
    <3>4. ClientOk(u, transfer)
      <4>1. Takes(u, transfer)
        BY <1>1, <3>1 DEF Takes
      <4> QED
        BY <1>1, <2>4, <3>1, <3>2, <4>1 DEF ClientOk, Uploads
    <3>5. Transferred(u, od, transfer)
      BY <1>1, <3>3 DEF Transferred
    <3>6. Linked(u, q, p2, srv, od, transfer)
      BY <2>1, <2>2, <3>1, <3>5 DEF Linked, Silence
    <3> QED
      BY <3>4, <3>6 DEF Follows
  <2> QED
    BY <2>3, <2>8, <2>9
<1> QED
  BY <1>2, <1>3

(* A message that is no abort.                                             *)
LEMMA UnderstoodIs ==
  ASSUME NEW q, NEW p, NEW p2, NEW f, Hears(q, p, p2, f), NEW u, u = Understood(cli, f)
  PROVE  Follows(u, q, p2)
<1>0. /\ ClientOk(cli, transfer) /\ DOMAIN cli = DOMAIN Resting
      /\ Linked(cli, q, p2, srv, od, transfer)
  BY HearsIs
<1>1. CASE cli.state = "DOWNLOAD_INITIATE_RSP"
  BY <1>1, InitiateRspIs DEF Understood
<1>2. CASE cli.state = "DOWNLOAD_SEGMENT_RSP"
  BY <1>2, SegmentRspIs DEF Understood
<1>3. CASE cli.state = "DOWNLOAD_BLK_INITIATE_RSP"
  BY <1>3, BlkInitiateRspIs DEF Understood
<1>4. CASE cli.state \in {"DOWNLOAD_BLK_SUBBLOCK_REQ", "DOWNLOAD_BLK_SUBBLOCK_RSP"}
  BY <1>4, SubblockRspIs DEF Understood
<1>5. CASE cli.state = "DOWNLOAD_BLK_END_RSP"
  BY <1>5, BlkEndRspIs DEF Understood
<1>6. CASE cli.state = "UPLOAD_INITIATE_RSP"
  <2>1. CASE f.cs = "ulInitRsp"
    <3>1. u = UploadInitiated(cli, f)
      BY <1>6, <2>1 DEF Understood
    <3> QED
      BY <1>6, <2>1, <3>1, UploadInitiatedIs
  <2>2. CASE f.cs # "ulInitRsp"
    <3>1. u = Failed(cli, "CMD")
      BY <1>6, <2>2 DEF Understood
    <3> QED
      BY <1>0, <3>1 DEF Failed, Follows, Resting
  <2> QED
    BY <2>1, <2>2
<1>7. CASE cli.state = "UPLOAD_SEGMENT_RSP"
  BY <1>7, UploadSegmentRcvIs DEF Understood
<1>8. CASE cli.state = "UPLOAD_BLK_INITIATE_RSP"
  BY <1>8, UploadBlkInitiatedIs DEF Understood
<1>9. CASE cli.state = "UPLOAD_BLK_SUBBLOCK_SREQ"
  BY <1>0, <1>9 DEF Understood, Follows
<1>10. CASE cli.state = "UPLOAD_BLK_END_SREQ"
  BY <1>10, UploadBlkEndRcvIs DEF Understood
<1>11. CASE cli.state \notin {"DOWNLOAD_INITIATE_RSP", "DOWNLOAD_SEGMENT_RSP",
              "DOWNLOAD_BLK_INITIATE_RSP", "DOWNLOAD_BLK_SUBBLOCK_REQ", "DOWNLOAD_BLK_SUBBLOCK_RSP",
              "DOWNLOAD_BLK_END_RSP", "UPLOAD_INITIATE_RSP", "UPLOAD_SEGMENT_RSP",
              "UPLOAD_BLK_INITIATE_RSP", "UPLOAD_BLK_SUBBLOCK_SREQ", "UPLOAD_BLK_END_SREQ"}
  <2>1. u = Failed(cli, "CMD")
    BY <1>11 DEF Understood
  <2> QED
    BY <1>0, <2>1 DEF Failed, Follows, Resting
<1> QED
  BY <1>1, <1>2, <1>3, <1>4, <1>5, <1>6, <1>7, <1>8, <1>9, <1>10, <1>11

(* Clients that differ in their timers and mailbox only.                   *)
AlikeClient(c, u) ==
  /\ DOMAIN u = DOMAIN Resting
  /\ u.finished = c.finished /\ u.sizeInd = c.sizeInd /\ u.fifo = c.fifo /\ u.alt = c.alt
  /\ u.seqno = c.seqno /\ u.crc = c.crc /\ u.tail = c.tail /\ u.blksize = c.blksize

(* They are sound, and fit, alike.                                         *)
LEMMA ClientSame ==
  ASSUME NEW c, NEW u, NEW q, NEW p, NEW s, NEW o, NEW t, AlikeClient(c, u),
         ClientOk(c, t), Linked(c, q, p, s, o, t),
         \/ u.state = c.state
         \/ c.state = "UPLOAD_BLK_SUBBLOCK_SREQ" /\ u.state = "UPLOAD_BLK_SUBBLOCK_CRSP"
  PROVE  ClientOk(u, t) /\ Linked(u, q, p, s, o, t)
<1>1. Rcvd(u, t) = Rcvd(c, t)
  BY DEF Rcvd, AlikeClient
<1>2. CASE u.state = c.state
  <2>1. Gives(c, t) => Gives(u, t)
    BY <1>2 DEF Gives, AlikeClient
  <2>2. Takes(c, t) => Takes(u, t)
    BY <1>1, <1>2 DEF Takes, AlikeClient
  <2>3. ClientOk(u, t)
    BY <1>2, <2>1, <2>2 DEF ClientOk, AlikeClient
  <2>4. /\ DownloadInitiated(c, q, p, s, o, t) => DownloadInitiated(u, q, p, s, o, t)
        /\ DownloadSegmented(c, q, p, s, o, t) => DownloadSegmented(u, q, p, s, o, t)
        /\ UploadSegmented(c, q, p, s, o, t) => UploadSegmented(u, q, p, s, o, t)
        /\ Transferred(c, o, t) => Transferred(u, o, t)
    <3>1. DownloadInitiated(c, q, p, s, o, t) => DownloadInitiated(u, q, p, s, o, t)
      BY DEF DownloadInitiated, AlikeClient
    <3>2. DownloadSegmented(c, q, p, s, o, t) => DownloadSegmented(u, q, p, s, o, t)
      BY DEF DownloadSegmented, AlikeClient
    <3>3. UploadSegmented(c, q, p, s, o, t) => UploadSegmented(u, q, p, s, o, t)
      BY <1>1 DEF UploadSegmented
    <3>4. Transferred(c, o, t) => Transferred(u, o, t)
      BY <1>1 DEF Transferred
    <3> QED
      BY <3>1, <3>2, <3>3, <3>4
  <2>5. u.fifo = c.fifo
    BY DEF AlikeClient
  <2>6. Linked(u, q, p, s, o, t)
    BY <1>1, <1>2, <2>4, <2>5 DEF Linked
  <2> QED
    BY <2>3, <2>6
<1>3. CASE c.state = "UPLOAD_BLK_SUBBLOCK_SREQ" /\ u.state = "UPLOAD_BLK_SUBBLOCK_CRSP"
  <2>1. Takes(c, t)
    BY <1>3 DEF ClientOk, Downloads
  <2>2. Takes(u, t)
    BY <1>1, <1>3, <2>1 DEF Takes, AlikeClient
  <2>3. ClientOk(u, t)
    BY <1>3, <2>2 DEF ClientOk, AlikeClient, Uploads
  <2>4. Linked(u, q, p, s, o, t)
    BY <1>3 DEF Linked
  <2> QED
    BY <2>3, <2>4
<1> QED
  BY <1>2, <1>3

(* The timers do not touch the data of a transfer.                         *)
TickedClient(c, u) ==
  /\ AlikeClient(c, u)
  /\ (u.rxNew = c.rxNew /\ u.rx = c.rx) \/ (u.rxNew = FALSE /\ u.rx = None)
  /\ \/ u.state \in {c.state, "ABORT"}
     \/ c.state = "UPLOAD_BLK_SUBBLOCK_SREQ" /\ u.state = "UPLOAD_BLK_SUBBLOCK_CRSP"

(* Such are the timers of the client.                                      *)
LEMMA TickedClientIs ==
  ASSUME NEW c, DOMAIN c = DOMAIN Resting, NEW e
  PROVE  TickedClient(c, ClientTimers(c, e))
<1> DEFINE timer == IF c.timer < CLI_TIMEOUT THEN c.timer + e ELSE c.timer
           code == IF c.state \in {"UPLOAD_SEGMENT_REQ", "UPLOAD_BLK_SUBBLOCK_CRSP"}
                   THEN "GENERAL" ELSE "TIMEOUT"
           t == IF timer >= CLI_TIMEOUT THEN Failed([c EXCEPT !.timer = timer], code)
                ELSE [c EXCEPT !.timer = timer]
           blk == t.blkTimer + e
           u == ClientTimers(c, e)
<1>1. u = IF t.state # "UPLOAD_BLK_SUBBLOCK_SREQ" THEN t
          ELSE IF blk >= CLI_BLK_TIMEOUT
          THEN [t EXCEPT !.blkTimer = blk, !.rxNew = FALSE, !.rx = None, !.state = "UPLOAD_BLK_SUBBLOCK_CRSP"]
          ELSE [t EXCEPT !.blkTimer = blk]
  BY DEF ClientTimers
<1> HIDE DEF timer, code
<1>2. /\ AlikeClient(c, t) /\ t.rxNew = c.rxNew /\ t.rx = c.rx /\ t.state \in {c.state, "ABORT"}
  BY DEF AlikeClient, Failed, Resting
<1> HIDE DEF t, blk, u
<1>3. TickedClient(c, u)
  BY <1>1, <1>2 DEF TickedClient, AlikeClient, Resting
<1> QED
  BY <1>3 DEF u
-----------------------------------------------------------------------------
(* What the client sends.                                                  *)

(* The client fits, its mailbox is empty, and it is about to send.         *)
Ready(c, q, p) ==
  /\ Whole(od) /\ Core(srv, od) /\ ClientOk(c, transfer) /\ c.rxNew = FALSE
  /\ c.state \in ClientStates \ {"IDLE"}
  /\ Linked(c, q, p, srv, od, transfer)

(* What it may be after it: it gives up, has ended well, or fits.          *)
Posted(u, f, q, p) ==
  \/ u.state = "ABORT"
  \/ /\ u.state = "ended" /\ IsSeq(u.fifo) /\ Transferred(u, od, transfer)
     /\ Silence(q, p) /\ Rests(srv) /\ f.cs = "ulBlkEndAck"
  \/ /\ u.rxNew = FALSE /\ ClientOk(u, transfer) /\ u.state \in ClientStates \ {"IDLE"}
     /\ \/ f = None /\ Linked(u, q, p, srv, od, transfer)
        \/ /\ f # None /\ FrameOk(f) /\ f.cs \notin Requests \cup {"abort"}
           /\ Linked(u, q, p, srv, od, transfer)
        \/ /\ f # None /\ FrameOk(f) /\ f.cs \in Requests /\ q = None
           /\ Linked(u, f, p, srv, od, transfer)

(* What the client is when it is about to send.                            *)
LEMMA ReadyIs ==
  ASSUME NEW c, NEW q, NEW p, Ready(c, q, p)
  PROVE  /\ DOMAIN c = DOMAIN Resting /\ c.finished \in BOOLEAN /\ c.rxNew = FALSE
         /\ IsSeq(c.fifo) /\ IsSeq(transfer.data) /\ IsSeq(c.tail) /\ transfer.result = "busy"
         /\ c.state \in Downloads => Gives(c, transfer)
         /\ c.state \in Uploads => Takes(c, transfer)
         /\ Whole(od) /\ Core(srv, od) /\ Linked(c, q, p, srv, od, transfer)
  BY DEF Ready, ClientOk, Downloads, Uploads

(* A client that keeps its form is sound.                                  *)
LEMMA DownloadSame ==
  ASSUME NEW c, NEW q, NEW p, Ready(c, q, p), NEW u, DOMAIN u = DOMAIN Resting,
         u.finished \in BOOLEAN, IsSeq(u.fifo), IsSeq(u.tail),
         \/ u.state \in Downloads /\ Gives(u, transfer)
         \/ u.state \in Uploads /\ Takes(u, transfer)
  PROVE  ClientOk(u, transfer) /\ u.state \in ClientStates \ {"IDLE"}
  BY DEF Ready, ClientOk, Downloads, Uploads, ClientStates

(* The request of a download.                                              *)
LEMMA SendInitiateIs ==
  ASSUME NEW c, NEW q, NEW p, Ready(c, q, p), c.state = "DOWNLOAD_INITIATE_REQ",
         NEW u, NEW f, u = SendInitiate(c).c, f = SendInitiate(c).f
  PROVE  Posted(u, f, q, p)
<1>1. /\ DOMAIN c = DOMAIN Resting /\ c.finished = FALSE /\ c.rxNew = FALSE
      /\ IsSeq(c.fifo) /\ IsSeq(transfer.data) /\ IsSeq(c.tail)
      /\ transfer.kind \in {"download", "download_block"}
      /\ c.fifo = transfer.data /\ c.sizeInd \in {0, Len(transfer.data)}
      /\ Silence(q, p) /\ Rests(srv)
  BY ReadyIs DEF Gives, Linked, Downloads
<1>2. CASE Len(c.fifo) <= 1 \/ c.sizeInd = 1
  <2>1. /\ u = [c EXCEPT !.fifo = <<>>, !.finished = TRUE, !.state = "DOWNLOAD_INITIATE_RSP", !.timer = 0]
        /\ f = [cs |-> "dlInit", expedited |-> TRUE, size |-> c.sizeInd, data |-> c.fifo]
    BY <1>2 DEF SendInitiate, Frame, To
  <2>2. /\ DOMAIN u = DOMAIN Resting /\ u.fifo = <<>> /\ u.finished = TRUE /\ u.tail = c.tail
        /\ u.state = "DOWNLOAD_INITIATE_RSP" /\ u.rxNew = FALSE
    BY <1>1, <2>1 DEF Resting
  <2>3. f.cs = "dlInit" /\ f.expedited = TRUE /\ f.data = transfer.data /\ f # None
    BY <1>1, <2>1 DEF None
  <2>4. Len(transfer.data) <= 1
    <3>1. Len(transfer.data) \in Nat
      BY <1>1, SeqIs
    <3> QED
      BY <1>1, <1>2, <3>1
  <2>5. ClientOk(u, transfer) /\ u.state \in ClientStates \ {"IDLE"}
    <3>1. Gives(u, transfer)
      BY <1>1, <2>2 DEF Gives
    <3> QED
      BY <1>1, <2>2, <3>1, DownloadSame, EmptyIs DEF Downloads
  <2>6. Linked(u, f, p, srv, od, transfer)
    BY <1>1, <2>2, <2>3, <2>4 DEF Linked, DownloadInitiated, Silence
  <2>7. FrameOk(f) /\ f.cs \in Requests
    BY <2>3 DEF FrameOk, Requests
  <2> QED
    BY <1>1, <2>2, <2>3, <2>5, <2>6, <2>7 DEF Posted, Silence
<1>3. CASE ~(Len(c.fifo) <= 1 \/ c.sizeInd = 1)
  <2>1. /\ u = [c EXCEPT !.state = "DOWNLOAD_INITIATE_RSP", !.timer = 0]
        /\ f = [cs |-> "dlInit", expedited |-> FALSE, size |-> c.sizeInd, data |-> <<>>]
    BY <1>3 DEF SendInitiate, Frame, To
  <2>2. /\ DOMAIN u = DOMAIN Resting /\ u.fifo = c.fifo /\ u.finished = FALSE /\ u.tail = c.tail
        /\ u.state = "DOWNLOAD_INITIATE_RSP" /\ u.rxNew = FALSE
    BY <1>1, <2>1 DEF Resting
  <2>3. f.cs = "dlInit" /\ f.expedited = FALSE /\ f # None
    BY <2>1 DEF None
  <2>4. c.fifo # <<>>
    BY <1>3, EmptyIs
  <2>5. ClientOk(u, transfer) /\ u.state \in ClientStates \ {"IDLE"}
    <3>1. Gives(u, transfer)
      BY <1>1, <2>2, <2>4 DEF Gives
    <3> QED
      BY <1>1, <2>2, <3>1, DownloadSame DEF Downloads
  <2>6. Linked(u, f, p, srv, od, transfer)
    BY <1>1, <2>2, <2>3 DEF Linked, DownloadInitiated, Silence
  <2>7. FrameOk(f) /\ f.cs \in Requests
    BY <2>3 DEF FrameOk, Requests
  <2> QED
    BY <1>1, <2>2, <2>3, <2>5, <2>6, <2>7 DEF Posted, Silence
<1> QED
  BY <1>2, <1>3

(* A segment of a download.                                                *)
LEMMA SendSegmentIs ==
  ASSUME NEW c, NEW q, NEW p, Ready(c, q, p), c.state = "DOWNLOAD_SEGMENT_REQ",
         NEW u, NEW f, u = SendSegment(c).c, f = SendSegment(c).f
  PROVE  Posted(u, f, q, p)
<1>1. /\ DOMAIN c = DOMAIN Resting /\ c.rxNew = FALSE
      /\ IsSeq(c.fifo) /\ IsSeq(transfer.data) /\ IsSeq(c.tail)
      /\ transfer.kind \in {"download", "download_block"} /\ c.fifo # <<>>
      /\ Silence(q, p)
      /\ Rests(srv) \/ (srv.state = "DOWNLOAD_SEGMENT_REQ" /\ Got(srv, od) \o c.fifo = transfer.data)
      /\ Whole(od) /\ Core(srv, od)
  BY ReadyIs DEF Gives, Linked, Downloads
<1> DEFINE x == c.fifo  rest == Tail(x)  one == <<Head(x)>>  last == Len(x) = 1
<1>2. /\ u = [c EXCEPT !.fifo = rest, !.finished = last, !.state = "DOWNLOAD_SEGMENT_RSP", !.timer = 0]
      /\ f = [cs |-> "dlSeg", toggle |-> c.toggle, data |-> one, last |-> last]
  BY DEF SendSegment, Frame, To
<1>3. IsSeq(x) /\ x # <<>>
  BY <1>1
<1>4. /\ IsSeq(rest) /\ IsSeq(one) /\ one \o rest = x /\ (last <=> rest = <<>>) /\ last \in BOOLEAN
  <2> HIDE DEF x
  <2>1. IsSeq(rest) /\ Len(rest) = Len(x) - 1 /\ one \o rest = x /\ Len(x) \in Nat
    BY <1>3, TailIs, SeqIs
  <2>2. rest = <<>> <=> Len(rest) = 0
    BY <2>1, SeqIs
  <2>3. IsSeq(one)
    BY OneIs
  <2> QED
    BY <2>1, <2>2, <2>3
<1>5. srv.state = "DOWNLOAD_SEGMENT_REQ" /\ Got(srv, od) \o c.fifo = transfer.data
        => (Got(srv, od) \o one) \o rest = transfer.data
  <2> SUFFICES ASSUME srv.state = "DOWNLOAD_SEGMENT_REQ", Got(srv, od) \o c.fifo = transfer.data
               PROVE  (Got(srv, od) \o one) \o rest = transfer.data
    OBVIOUS
  <2> DEFINE g == Got(srv, od)
  <2>1. IsSeq(g) /\ g \o x = transfer.data
    <3>1. srv.off \in 0..LENGTH /\ IsSeq(srv.buf)
      BY <1>1 DEF Core, Reads, At, SegmentsIn
    <3> QED
      BY <1>1, <3>1, GotIs
  <2> HIDE DEF g, x, one, rest
  <2>2. (g \o one) \o rest = g \o (one \o rest)
    <3>1. IsSeq(g) /\ IsSeq(one) /\ IsSeq(rest)
      BY <1>4, <2>1
    <3> QED
      BY ONLY <3>1, ConcatAssoc
  <2> QED
    BY <1>4, <2>1, <2>2 DEF g
<1> HIDE DEF x, one, rest, last
<1>6. /\ DOMAIN u = DOMAIN Resting /\ u.fifo = rest /\ u.finished = last /\ u.tail = c.tail
      /\ u.state = "DOWNLOAD_SEGMENT_RSP" /\ u.rxNew = FALSE
  BY <1>1, <1>2 DEF Resting
<1>7. f.cs = "dlSeg" /\ f.data = one /\ f.last = last /\ f # None
  BY <1>2 DEF None
<1>8. ClientOk(u, transfer) /\ u.state \in ClientStates \ {"IDLE"}
  <2>1. Gives(u, transfer)
    BY <1>1, <1>4, <1>6 DEF Gives
  <2> QED
    BY <1>1, <1>4, <1>6, <2>1, DownloadSame DEF Downloads
<1>9. DownloadSegmented(u, f, p, srv, od, transfer)
  BY <1>1, <1>5, <1>6, <1>7 DEF DownloadSegmented, Silence
<1>10. Linked(u, f, p, srv, od, transfer)
  BY <1>6, <1>9 DEF Linked
<1>11. FrameOk(f) /\ f.cs \in Requests
  BY <1>4, <1>7 DEF FrameOk, Requests
<1> QED
  BY <1>1, <1>6, <1>7, <1>8, <1>10, <1>11 DEF Posted, Silence

(* The arithmetic of a segment of a block download.                        *)
LEMMA SubblockNumbers ==
  ASSUME NEW L \in Nat, NEW alt \in 0..L, alt # L
  PROVE  alt + 1 \in 0..L
  OBVIOUS

(* A segment of a block download.                                          *)
LEMMA SendSubblockIs ==
  ASSUME NEW c, NEW q, NEW p, Ready(c, q, p), c.state = "DOWNLOAD_BLK_SUBBLOCK_REQ",
         NEW u, NEW f, u = SendSubblock(c).c, f = SendSubblock(c).f
  PROVE  Posted(u, f, q, p)
<1>1. /\ DOMAIN c = DOMAIN Resting /\ c.rxNew = FALSE
      /\ IsSeq(c.fifo) /\ IsSeq(transfer.data) /\ IsSeq(c.tail)
      /\ transfer.kind \in {"download", "download_block"}
      /\ c.crc \o c.fifo = transfer.data /\ IsSeq(c.crc)
      /\ c.alt \in 0..Len(c.fifo) /\ c.seqno = c.alt /\ ~c.finished
      /\ c.finished <=> c.alt = Len(c.fifo)
      /\ Lost(q, p, srv, BlockIn)
  BY ReadyIs DEF Gives, Linked, Downloads
<1> DEFINE last == c.alt + 1 = Len(c.fifo)
           size == Counted(c, c.sizeTran + 1)
           st == IF last \/ c.seqno + 1 >= c.blksize THEN "DOWNLOAD_BLK_SUBBLOCK_RSP" ELSE c.state
           t == [c EXCEPT !.seqno = @ + 1, !.alt = @ + 1, !.sizeTran = size, !.finished = last, !.state = st]
<1>2. \/ \E code : u = Failed(c, code)
      \/ /\ u = [t EXCEPT !.timer = 0]
         /\ f = [cs |-> "dlSub", seqno |-> t.seqno, data |-> <<c.fifo[t.alt]>>, last |-> last]
  BY DEF SendSubblock, Silent, Frame
<1>3. CASE \E code : u = Failed(c, code)
  BY <1>1, <1>3 DEF Failed, Posted, Resting
<1>4. CASE /\ u = [t EXCEPT !.timer = 0]
           /\ f = [cs |-> "dlSub", seqno |-> t.seqno, data |-> <<c.fifo[t.alt]>>, last |-> last]
  <2>1. last \in BOOLEAN /\ (st = "DOWNLOAD_BLK_SUBBLOCK_REQ" => ~last)
        /\ st \in {"DOWNLOAD_BLK_SUBBLOCK_REQ", "DOWNLOAD_BLK_SUBBLOCK_RSP"}
    OBVIOUS
  <2>2. last <=> c.alt + 1 = Len(c.fifo)
    OBVIOUS
  <2> HIDE DEF last, size, st
  <2>3. /\ DOMAIN u = DOMAIN Resting /\ u.fifo = c.fifo /\ u.finished = last /\ u.tail = c.tail
        /\ u.state = st /\ u.rxNew = FALSE /\ u.crc = c.crc /\ u.alt = c.alt + 1 /\ u.seqno = c.seqno + 1
    BY <1>1, <1>4 DEF Resting
  <2>4. f.cs = "dlSub" /\ f.data = <<c.fifo[t.alt]>> /\ f.last = last /\ f # None
    BY <1>4 DEF None
  <2>5. c.alt + 1 \in 0..Len(c.fifo)
    <3>1. Len(c.fifo) \in Nat /\ c.alt # Len(c.fifo)
      BY <1>1, SeqIs
    <3> QED
      BY <1>1, <3>1, SubblockNumbers
  <2>6. ClientOk(u, transfer) /\ u.state \in ClientStates \ {"IDLE"}
    <3>1. Gives(u, transfer)
      BY <1>1, <2>1, <2>2, <2>3, <2>5 DEF Gives
    <3> QED
      BY <1>1, <2>1, <2>3, <3>1, DownloadSame DEF Downloads
  <2>7. Linked(u, q, p, srv, od, transfer)
    BY <1>1, <2>1, <2>3 DEF Linked
  <2>8. FrameOk(f) /\ f.cs \notin Requests \cup {"abort"}
    <3>1. IsSeq(f.data)
      BY <2>4, OneIs
    <3> QED
      BY <2>1, <2>4, <3>1 DEF FrameOk, Requests
  <2> QED
    BY <2>3, <2>4, <2>6, <2>7, <2>8 DEF Posted
<1> QED
  BY <1>2, <1>3, <1>4

(* A state that sends nothing.                                             *)
LEMMA SilentIs ==
  ASSUME NEW c, NEW q, NEW p, Ready(c, q, p), NEW u, NEW f, u = Silent(c).c, f = Silent(c).f
  PROVE  Posted(u, f, q, p)
<1>1. u = c /\ f = None
  BY DEF Silent
<1> QED
  BY <1>1 DEF Ready, Posted

(* The request of a block download.                                        *)
LEMMA SendBlkInitiateIs ==
  ASSUME NEW c, NEW q, NEW p, Ready(c, q, p), c.state = "DOWNLOAD_BLK_INITIATE_REQ",
         NEW u, NEW f, u = Transmitted(c).c, f = Transmitted(c).f
  PROVE  Posted(u, f, q, p)
<1>1. /\ DOMAIN c = DOMAIN Resting /\ c.rxNew = FALSE /\ c.finished = FALSE
      /\ IsSeq(c.fifo) /\ IsSeq(transfer.data) /\ IsSeq(c.tail)
      /\ transfer.kind \in {"download", "download_block"}
      /\ c.fifo = transfer.data /\ c.fifo # <<>> /\ Silence(q, p) /\ Rests(srv)
  BY ReadyIs DEF Gives, Linked, Downloads
<1>2. /\ u = [c EXCEPT !.state = "DOWNLOAD_BLK_INITIATE_RSP", !.timer = 0]
      /\ f = [cs |-> "dlBlkInit", size |-> c.sizeInd]
  BY DEF Transmitted, Frame, To
<1>3. /\ DOMAIN u = DOMAIN Resting /\ u.fifo = c.fifo /\ u.finished = c.finished /\ u.tail = c.tail
      /\ u.state = "DOWNLOAD_BLK_INITIATE_RSP" /\ u.rxNew = FALSE
  BY <1>1, <1>2 DEF Resting
<1>4. f.cs = "dlBlkInit" /\ f # None
  BY <1>2 DEF None
<1>5. ClientOk(u, transfer) /\ u.state \in ClientStates \ {"IDLE"}
  <2>1. Gives(u, transfer)
    BY <1>1, <1>3 DEF Gives
  <2> QED
    BY <1>1, <1>3, <2>1, DownloadSame DEF Downloads
<1>6. Linked(u, f, p, srv, od, transfer)
  BY <1>1, <1>3, <1>4 DEF Linked, DownloadBlkInitiated, Silence
<1>7. FrameOk(f) /\ f.cs \in Requests
  BY <1>4 DEF FrameOk, Requests
<1> QED
  BY <1>1, <1>3, <1>4, <1>5, <1>6, <1>7 DEF Posted, Silence

(* The end of a block download.                                            *)
LEMMA SendBlkEndIs ==
  ASSUME NEW c, NEW q, NEW p, Ready(c, q, p), c.state = "DOWNLOAD_BLK_END_REQ",
         NEW u, NEW f, u = Transmitted(c).c, f = Transmitted(c).f
  PROVE  Posted(u, f, q, p)
<1>1. /\ DOMAIN c = DOMAIN Resting /\ c.rxNew = FALSE /\ c.finished \in BOOLEAN
      /\ IsSeq(c.fifo) /\ IsSeq(transfer.data) /\ IsSeq(c.tail)
      /\ transfer.kind \in {"download", "download_block"}
      /\ c.crc = transfer.data /\ Lost(q, p, srv, BlockIn)
  BY ReadyIs DEF Gives, Linked, Downloads
<1>2. /\ u = [c EXCEPT !.state = "DOWNLOAD_BLK_END_RSP", !.timer = 0]
      /\ f = [cs |-> "dlBlkEnd", crc |-> c.crc]
  BY DEF Transmitted, Frame, To
<1>3. /\ DOMAIN u = DOMAIN Resting /\ u.fifo = c.fifo /\ u.finished = c.finished /\ u.tail = c.tail
      /\ u.crc = c.crc /\ u.state = "DOWNLOAD_BLK_END_RSP" /\ u.rxNew = FALSE
  BY <1>1, <1>2 DEF Resting
<1>4. f.cs = "dlBlkEnd" /\ f # None /\ f.crc = transfer.data
  BY <1>1, <1>2 DEF None
<1>5. ClientOk(u, transfer) /\ u.state \in ClientStates \ {"IDLE"}
  <2>1. Gives(u, transfer)
    BY <1>1, <1>3 DEF Gives
  <2> QED
    BY <1>1, <1>3, <2>1, DownloadSame DEF Downloads
<1>6. Linked(u, f, p, srv, od, transfer)
  BY <1>1, <1>3, <1>4 DEF Linked, DownloadBlkEnded, Lost, Silence
<1>7. FrameOk(f) /\ f.cs \in Requests
  BY <1>4 DEF FrameOk, Requests
<1> QED
  BY <1>1, <1>3, <1>4, <1>5, <1>6, <1>7 DEF Posted, Lost, Silence

(* The request of an upload.                                               *)
LEMMA SendUploadInitiateIs ==
  ASSUME NEW c, NEW q, NEW p, Ready(c, q, p), c.state = "UPLOAD_INITIATE_REQ",
         NEW u, NEW f, u = Transmitted(c).c, f = Transmitted(c).f
  PROVE  Posted(u, f, q, p)
<1>1. /\ DOMAIN c = DOMAIN Resting /\ c.rxNew = FALSE /\ c.finished \in BOOLEAN
      /\ IsSeq(c.fifo) /\ IsSeq(transfer.data) /\ IsSeq(c.tail)
      /\ transfer.kind \in {"upload", "upload_block"}
      /\ transfer.data = <<>> /\ c.fifo = <<>> /\ Silence(q, p) /\ Rests(srv)
  BY ReadyIs DEF Takes, Linked, Uploads
<1>2. u = [c EXCEPT !.state = "UPLOAD_INITIATE_RSP", !.timer = 0] /\ f = [cs |-> "ulInit"]
  BY DEF Transmitted, Frame, To
<1>3. /\ DOMAIN u = DOMAIN Resting /\ u.fifo = c.fifo /\ u.finished = c.finished /\ u.tail = c.tail
      /\ u.state = "UPLOAD_INITIATE_RSP" /\ u.rxNew = FALSE
  BY <1>1, <1>2 DEF Resting
<1>4. f.cs = "ulInit" /\ f # None
  BY <1>2 DEF None
<1>5. ClientOk(u, transfer) /\ u.state \in ClientStates \ {"IDLE"}
  <2>1. Takes(u, transfer)
    BY <1>1, <1>3 DEF Takes
  <2> QED
    BY <1>1, <1>3, <2>1, DownloadSame DEF Uploads
<1>6. Linked(u, f, p, srv, od, transfer)
  BY <1>1, <1>3, <1>4 DEF Linked, UploadInitiated1, Silence
<1>7. FrameOk(f) /\ f.cs \in Requests
  BY <1>4 DEF FrameOk, Requests
<1> QED
  BY <1>1, <1>3, <1>4, <1>5, <1>6, <1>7 DEF Posted, Silence

(* The request of a segment of an upload.                                  *)
LEMMA SendUploadSegmentIs ==
  ASSUME NEW c, NEW q, NEW p, Ready(c, q, p), c.state = "UPLOAD_SEGMENT_REQ",
         NEW u, NEW f, u = SendUploadSegment(c).c, f = SendUploadSegment(c).f
  PROVE  Posted(u, f, q, p)
<1>1. /\ DOMAIN c = DOMAIN Resting /\ c.rxNew = FALSE /\ c.finished \in BOOLEAN
      /\ IsSeq(c.fifo) /\ IsSeq(transfer.data) /\ IsSeq(c.tail)
      /\ transfer.kind \in {"upload", "upload_block"} /\ Silence(q, p)
      /\ Rests(srv) \/ (srv.state = "UPLOAD_SEGMENT_REQ" /\ Rcvd(c, transfer) = Sent(srv, od))
  BY ReadyIs DEF Takes, Linked, Uploads
<1>2. CASE Room(c) = 0
  BY <1>2, SilentIs DEF SendUploadSegment
<1>3. CASE Room(c) # 0
  <2>2. u = [c EXCEPT !.state = "UPLOAD_SEGMENT_RSP", !.timer = 0] /\ f = [cs |-> "ulSeg", toggle |-> c.toggle]
    BY <1>3 DEF SendUploadSegment, Frame, To
  <2>3. /\ DOMAIN u = DOMAIN Resting /\ u.fifo = c.fifo /\ u.finished = c.finished /\ u.tail = c.tail
        /\ u.state = "UPLOAD_SEGMENT_RSP" /\ u.rxNew = FALSE
    BY <1>1, <2>2 DEF Resting
  <2>4. f.cs = "ulSeg" /\ f # None
    BY <2>2 DEF None
  <2>5. ClientOk(u, transfer) /\ u.state \in ClientStates \ {"IDLE"}
    <3>1. Takes(u, transfer)
      BY <1>1, <2>3 DEF Takes
    <3> QED
      BY <1>1, <2>3, <3>1, DownloadSame DEF Uploads
  <2>6. Linked(u, f, p, srv, od, transfer)
    <3>1. Rcvd(u, transfer) = Rcvd(c, transfer)
      BY <2>3 DEF Rcvd
    <3>2. UploadSegmented(u, f, p, srv, od, transfer)
      BY <1>1, <2>3, <2>4, <3>1 DEF UploadSegmented, Silence
    <3> QED
      BY <2>3, <3>2 DEF Linked
  <2>7. FrameOk(f) /\ f.cs \in Requests
    BY <2>4 DEF FrameOk, Requests
  <2> QED
    BY <1>1, <2>3, <2>4, <2>5, <2>6, <2>7 DEF Posted, Silence
<1> QED
  BY <1>2, <1>3

(* An empty buffer has room.                                               *)
LEMMA RoomIs ==
  ASSUME NEW c, c.fifo = <<>> PROVE Room(c) \in Nat \ {0}
<1>1. Len(c.fifo) = 0
  BY EmptyIs
<1> QED
  BY <1>1, SdoAssumption DEF Room

(* The request of a block upload.                                          *)
LEMMA SendUploadBlkInitiateIs ==
  ASSUME NEW c, NEW q, NEW p, Ready(c, q, p), c.state = "UPLOAD_BLK_INITIATE_REQ",
         NEW u, NEW f, u = Transmitted(c).c, f = Transmitted(c).f
  PROVE  Posted(u, f, q, p)
<1>1. /\ DOMAIN c = DOMAIN Resting /\ c.rxNew = FALSE /\ c.finished \in BOOLEAN
      /\ IsSeq(c.fifo) /\ IsSeq(transfer.data) /\ IsSeq(c.tail)
      /\ transfer.kind \in {"upload", "upload_block"}
      /\ transfer.data = <<>> /\ c.fifo = <<>> /\ Silence(q, p) /\ Rests(srv)
  BY ReadyIs DEF Takes, Linked, Uploads
<1> DEFINE room == Room(c)
<1>2. /\ u = [c EXCEPT !.blksize = room, !.state = "UPLOAD_BLK_INITIATE_RSP", !.timer = 0]
      /\ f = [cs |-> "ulBlkInit", blksize |-> room, pst |-> PST]
  BY DEF Transmitted, Frame, To
<1>3. room \in Nat \ {0}
  BY <1>1, RoomIs
<1> HIDE DEF room
<1>4. /\ DOMAIN u = DOMAIN Resting /\ u.fifo = c.fifo /\ u.finished = c.finished /\ u.tail = c.tail
      /\ u.blksize = room /\ u.state = "UPLOAD_BLK_INITIATE_RSP" /\ u.rxNew = FALSE
  BY <1>1, <1>2 DEF Resting
<1>5. f.cs = "ulBlkInit" /\ f.blksize = room /\ f # None
  BY <1>2 DEF None
<1>6. ClientOk(u, transfer) /\ u.state \in ClientStates \ {"IDLE"}
  <2>1. Takes(u, transfer)
    BY <1>1, <1>3, <1>4 DEF Takes
  <2> QED
    BY <1>1, <1>4, <2>1, DownloadSame DEF Uploads
<1>7. Linked(u, f, p, srv, od, transfer)
  BY <1>1, <1>4, <1>5 DEF Linked, UploadBlkInitiated1, Silence
<1>8. FrameOk(f) /\ f.cs \in Requests
  BY <1>3, <1>5 DEF FrameOk, Requests
<1> QED
  BY <1>1, <1>4, <1>5, <1>6, <1>7, <1>8 DEF Posted, Silence

(* The start of a block upload.                                            *)
LEMMA SendUploadStartIs ==
  ASSUME NEW c, NEW q, NEW p, Ready(c, q, p), c.state = "UPLOAD_BLK_INITIATE_REQ2",
         NEW u, NEW f, u = Transmitted(c).c, f = Transmitted(c).f
  PROVE  Posted(u, f, q, p)
<1>1. /\ DOMAIN c = DOMAIN Resting /\ c.rxNew = FALSE /\ c.finished \in BOOLEAN
      /\ IsSeq(c.fifo) /\ IsSeq(transfer.data) /\ IsSeq(c.tail)
      /\ transfer.kind \in {"upload", "upload_block"} /\ c.blksize \in Nat \ {0}
      /\ transfer.data = <<>> /\ c.fifo = <<>> /\ Lost(q, p, srv, {"UPLOAD_BLK_INITIATE_REQ2"})
  BY ReadyIs DEF Takes, Linked, Uploads
<1>2. /\ u = [c EXCEPT !.blkTimer = 0, !.seqno = 0, !.crc = <<>>, !.rxNew = FALSE, !.rx = None,
                       !.state = "UPLOAD_BLK_SUBBLOCK_SREQ", !.timer = 0]
      /\ f = [cs |-> "ulBlkStart"]
  BY DEF Transmitted, Frame, To
<1>3. /\ DOMAIN u = DOMAIN Resting /\ u.fifo = c.fifo /\ u.finished = c.finished /\ u.tail = c.tail
      /\ u.blksize = c.blksize /\ u.seqno = 0 /\ u.crc = <<>>
      /\ u.state = "UPLOAD_BLK_SUBBLOCK_SREQ" /\ u.rxNew = FALSE
  BY <1>1, <1>2 DEF Resting
<1>4. f.cs = "ulBlkStart" /\ f # None
  BY <1>2 DEF None
<1>5. Rcvd(u, transfer) = <<>>
  BY <1>1, <1>3, EmptyIs DEF Rcvd
<1>6. ClientOk(u, transfer) /\ u.state \in ClientStates \ {"IDLE"}
  <2>1. Takes(u, transfer)
    BY <1>1, <1>3, <1>5 DEF Takes
  <2> QED
    BY <1>1, <1>3, <2>1, DownloadSame DEF Uploads
<1>7. Linked(u, f, p, srv, od, transfer)
  BY <1>1, <1>3, <1>4 DEF Linked, UploadBlock, Lost, Silence, At
<1>8. FrameOk(f) /\ f.cs \in Requests
  BY <1>4 DEF FrameOk, Requests
<1> QED
  BY <1>1, <1>3, <1>4, <1>6, <1>7, <1>8 DEF Posted, Lost, Silence

(* The answer to a sub-block of an upload.                                 *)
LEMMA SendUploadAnswerIs ==
  ASSUME NEW c, NEW q, NEW p, Ready(c, q, p), c.state = "UPLOAD_BLK_SUBBLOCK_CRSP",
         NEW u, NEW f, u = SendUploadAnswer(c).c, f = SendUploadAnswer(c).f
  PROVE  Posted(u, f, q, p)
<1>1. /\ DOMAIN c = DOMAIN Resting /\ c.rxNew = FALSE /\ c.finished \in BOOLEAN
      /\ IsSeq(c.fifo) /\ IsSeq(transfer.data) /\ IsSeq(c.tail)
      /\ transfer.kind \in {"upload", "upload_block"} /\ c.blksize \in Nat \ {0}
      /\ c.crc = Rcvd(c, transfer) /\ c.seqno \in Nat
      /\ UploadBlock(q, p, srv, od)
  BY ReadyIs DEF Takes, Linked, Uploads
<1> DEFINE room == Room(c)
           g == [cs |-> "ulBlkAck", ackseq |-> c.seqno,
                 blksize |-> IF c.finished THEN c.blksize ELSE room]
           t == [c EXCEPT !.blkTimer = 0, !.blksize = g.blksize]
<1>2. \/ c.finished /\ u = [t EXCEPT !.state = "UPLOAD_BLK_END_SREQ"] /\ f = g
      \/ u = Failed(c, "DATA_LONG")
      \/ u = Silent(c).c /\ f = Silent(c).f
      \/ /\ ~c.finished /\ c.fifo = <<>> /\ f = g
         /\ u = [t EXCEPT !.seqno = 0, !.rxNew = FALSE, !.rx = None, !.state = "UPLOAD_BLK_SUBBLOCK_SREQ"]
  BY DEF SendUploadAnswer, Silent, To
<1>3. g.cs = "ulBlkAck" /\ g.ackseq = c.seqno /\ g # None
      /\ g.blksize = IF c.finished THEN c.blksize ELSE room
  BY DEF None
<1>4. c.finished \/ c.fifo = <<>> => g.blksize \in Nat \ {0}
  BY <1>1, <1>3, RoomIs
<1> HIDE DEF room, g
<1>5. /\ DOMAIN t = DOMAIN Resting /\ t.fifo = c.fifo /\ t.finished = c.finished /\ t.tail = c.tail
      /\ t.blksize = g.blksize /\ t.seqno = c.seqno /\ t.crc = c.crc /\ t.rxNew = FALSE
  BY <1>1 DEF Resting
<1> HIDE DEF t
<1>6. CASE u = Silent(c).c /\ f = Silent(c).f
  BY <1>6, SilentIs
<1>7. CASE u = Failed(c, "DATA_LONG")
  BY <1>1, <1>7 DEF Failed, Posted, Resting
<1>8. CASE \/ c.finished /\ u = [t EXCEPT !.state = "UPLOAD_BLK_END_SREQ"] /\ f = g
           \/ /\ ~c.finished /\ c.fifo = <<>> /\ f = g
              /\ u = [t EXCEPT !.seqno = 0, !.rxNew = FALSE, !.rx = None, !.state = "UPLOAD_BLK_SUBBLOCK_SREQ"]
  <2>1. /\ DOMAIN u = DOMAIN Resting /\ u.fifo = c.fifo /\ u.finished = c.finished /\ u.tail = c.tail
        /\ u.blksize = g.blksize /\ u.seqno \in {c.seqno, 0} /\ u.crc = c.crc /\ u.rxNew = FALSE
        /\ u.state \in {"UPLOAD_BLK_END_SREQ", "UPLOAD_BLK_SUBBLOCK_SREQ"}
    BY <1>5, <1>8 DEF Resting
  <2>2. g.blksize \in Nat \ {0} /\ f = g
    BY <1>4, <1>8
  <2>3. Rcvd(u, transfer) = Rcvd(c, transfer) /\ u.seqno \in Nat
    BY <1>1, <2>1 DEF Rcvd
  <2>4. ClientOk(u, transfer) /\ u.state \in ClientStates \ {"IDLE"}
    <3>1. Takes(u, transfer)
      BY <1>1, <2>1, <2>2, <2>3 DEF Takes
    <3> QED
      BY <1>1, <2>1, <3>1, DownloadSame DEF Uploads
  <2>5. Linked(u, q, p, srv, od, transfer)
    BY <1>1, <2>1 DEF Linked
  <2>6. FrameOk(f) /\ f.cs \notin Requests \cup {"abort"} /\ f # None
    BY <1>1, <1>3, <2>2 DEF FrameOk, Requests
  <2> QED
    BY <2>1, <2>4, <2>5, <2>6 DEF Posted
<1> QED
  BY <1>2, <1>6, <1>7, <1>8

(* The confirmation of the end of a block upload.                          *)
LEMMA SendUploadEndIs ==
  ASSUME NEW c, NEW q, NEW p, Ready(c, q, p), c.state = "UPLOAD_BLK_END_CRSP",
         NEW u, NEW f, u = Transmitted(c).c, f = Transmitted(c).f
  PROVE  Posted(u, f, q, p)
<1>1. /\ DOMAIN c = DOMAIN Resting /\ IsSeq(c.fifo)
      /\ Silence(q, p) /\ Rests(srv) /\ Transferred(c, od, transfer)
  BY ReadyIs DEF Linked
<1>2. u = [c EXCEPT !.state = "ended", !.timer = 0] /\ f = [cs |-> "ulBlkEndAck"]
  BY DEF Transmitted, Frame, Ended
<1>3. u.state = "ended" /\ u.fifo = c.fifo /\ f.cs = "ulBlkEndAck"
  BY <1>1, <1>2 DEF Resting
<1>4. Transferred(u, od, transfer)
  BY <1>1, <1>3 DEF Transferred, Rcvd
<1> QED
  BY <1>1, <1>3, <1>4 DEF Posted

(* What the client sends in each of its states.                            *)
LEMMA TransmittedIs ==
  ASSUME NEW c, NEW q, NEW p, Ready(c, q, p),
         NEW u, NEW f, u = Transmitted(c).c, f = Transmitted(c).f
  PROVE  Posted(u, f, q, p)
<1>1. CASE c.state = "DOWNLOAD_INITIATE_REQ"
  BY <1>1, SendInitiateIs DEF Transmitted
<1>2. CASE c.state = "DOWNLOAD_SEGMENT_REQ"
  BY <1>2, SendSegmentIs DEF Transmitted
<1>3. CASE c.state = "DOWNLOAD_BLK_SUBBLOCK_REQ"
  BY <1>3, SendSubblockIs DEF Transmitted
<1>4. CASE c.state = "UPLOAD_SEGMENT_REQ"
  BY <1>4, SendUploadSegmentIs DEF Transmitted
<1>5. CASE c.state = "UPLOAD_BLK_SUBBLOCK_CRSP"
  BY <1>5, SendUploadAnswerIs DEF Transmitted
<1>6. CASE c.state \in {"DOWNLOAD_BLK_INITIATE_REQ", "DOWNLOAD_BLK_END_REQ", "UPLOAD_INITIATE_REQ",
             "UPLOAD_BLK_INITIATE_REQ", "UPLOAD_BLK_INITIATE_REQ2", "UPLOAD_BLK_END_CRSP"}
  BY <1>6, SendBlkInitiateIs, SendBlkEndIs, SendUploadInitiateIs, SendUploadBlkInitiateIs,
     SendUploadStartIs, SendUploadEndIs
<1>7. CASE c.state \notin {"DOWNLOAD_INITIATE_REQ", "DOWNLOAD_SEGMENT_REQ",
             "DOWNLOAD_BLK_SUBBLOCK_REQ", "UPLOAD_SEGMENT_REQ", "UPLOAD_BLK_SUBBLOCK_CRSP",
             "DOWNLOAD_BLK_INITIATE_REQ", "DOWNLOAD_BLK_END_REQ", "UPLOAD_INITIATE_REQ",
             "UPLOAD_BLK_INITIATE_REQ", "UPLOAD_BLK_INITIATE_REQ2", "UPLOAD_BLK_END_CRSP"}
  BY <1>7, SilentIs DEF Transmitted
<1> QED
  BY <1>1, <1>2, <1>3, <1>4, <1>5, <1>6, <1>7

(* Whatever the message, the client keeps its fields.                      *)
LEMMA UnderstoodDomain ==
  ASSUME NEW c, DOMAIN c = DOMAIN Resting, NEW f
  PROVE  /\ DOMAIN Understood(c, f) = DOMAIN Resting
         /\ c.state = "ABORT" => Understood(c, f).state = "ABORT"
<1>1. \A code : DOMAIN Failed(c, code) = DOMAIN Resting /\ Failed(c, code).state = "ABORT"
  BY DEF Failed, Resting
<1>2. DOMAIN InitiateRsp(c, f) = DOMAIN Resting /\ DOMAIN SegmentRsp(c, f) = DOMAIN Resting
  BY <1>1 DEF InitiateRsp, SegmentRsp, Ended, To
<1>3. DOMAIN BlkInitiateRsp(c, f) = DOMAIN Resting /\ DOMAIN BlkEndRsp(c, f) = DOMAIN Resting
  BY <1>1 DEF BlkInitiateRsp, BlkEndRsp, Ended, To
<1>4. DOMAIN SubblockRsp(c, f) = DOMAIN Resting
  BY <1>1 DEF SubblockRsp, To
<1>5. DOMAIN UploadInitiated(c, f) = DOMAIN Resting
  BY <1>1 DEF UploadInitiated, Ended, To
<1>6. DOMAIN UploadBlkInitiated(c, f) = DOMAIN Resting
  BY <1>1, <1>5 DEF UploadBlkInitiated, To
<1>7. DOMAIN UploadSegmentRcv(c, f) = DOMAIN Resting
  BY <1>1 DEF UploadSegmentRcv, Ended, To, Failed
<1>8. DOMAIN UploadBlkEndRcv(c, f) = DOMAIN Resting
  BY <1>1 DEF UploadBlkEndRcv, To, Failed
<1> QED
  BY <1>1, <1>2, <1>3, <1>4, <1>5, <1>6, <1>7, <1>8 DEF Understood

(* Whatever it sends, too.                                                 *)
LEMMA TransmittedDomain ==
  ASSUME NEW c, DOMAIN c = DOMAIN Resting
  PROVE  /\ DOMAIN Transmitted(c).c = DOMAIN Resting
         /\ c.state = "ABORT" => Transmitted(c).c.state = "ABORT"
<1>1. /\ DOMAIN SendInitiate(c).c = DOMAIN Resting /\ DOMAIN SendSegment(c).c = DOMAIN Resting
  BY DEF SendInitiate, SendSegment, Frame, To
<1>2. DOMAIN SendSubblock(c).c = DOMAIN Resting
  BY DEF SendSubblock, Frame, Silent, Failed
<1>3. DOMAIN SendUploadSegment(c).c = DOMAIN Resting
  BY DEF SendUploadSegment, Frame, Silent, To
<1>4. DOMAIN SendUploadAnswer(c).c = DOMAIN Resting
  BY DEF SendUploadAnswer, Silent, Failed, To
<1>5. \A u, f : DOMAIN u = DOMAIN Resting => DOMAIN Frame(c, u, f).c = DOMAIN Resting
  BY DEF Frame
<1>6. \A st : DOMAIN To(c, st) = DOMAIN Resting
  BY DEF To
<1>7. DOMAIN Ended(c) = DOMAIN Resting /\ DOMAIN Silent(c).c = DOMAIN Resting
  BY DEF Ended, Silent
<1>8. \A st, b : DOMAIN To([c EXCEPT !.blksize = b], st) = DOMAIN Resting
  BY DEF To
<1>9. \A st : DOMAIN To([c EXCEPT !.blkTimer = 0, !.seqno = 0, !.crc = <<>>, !.rxNew = FALSE, !.rx = None], st) = DOMAIN Resting
  BY DEF To
<1>10. c.state = "ABORT" => Transmitted(c).c = c
  BY DEF Transmitted, Silent
<1> QED
  BY <1>1, <1>2, <1>3, <1>4, <1>5, <1>6, <1>7, <1>8, <1>9, <1>10 DEF Transmitted
-----------------------------------------------------------------------------
(* A call of CO_SDOclientDownload or CO_SDOclientUpload.                   *)

(* What the client is when it has taken the message of its mailbox.        *)
LEMMA ClientGets ==
  ASSUME NEW q, NEW p, Fits(q, p),
         NEW g, g = IF cli.rxNew
                    THEN [Understood(cli, cli.rx) EXCEPT !.timer = 0, !.rxNew = FALSE, !.rx = None] ELSE cli,
         NEW p2, p2 = IF cli.rxNew /\ cli.rx.cs \in Responses THEN None ELSE p
  PROVE  g.rxNew = FALSE /\ DOMAIN g = DOMAIN Resting /\ Follows(g, q, p2)
<1>0. /\ cli.rxNew \in BOOLEAN /\ DOMAIN cli = DOMAIN Resting
      /\ ClientOk(cli, transfer) /\ Linked(cli, q, p, srv, od, transfer)
  BY DEF Fits, BusInv, BusOk, ClientOk
<1>1. CASE cli.rxNew
  <2> DEFINE u == Understood(cli, cli.rx)
  <2>1. Follows(u, q, p2)
    <3>1. Hears(q, p, p2, cli.rx)
      BY <1>1 DEF Hears
    <3> QED
      BY <3>1, UnderstoodIs
  <2>2. DOMAIN u = DOMAIN Resting
    BY <1>0, UnderstoodDomain
  <2>3. g = [u EXCEPT !.timer = 0, !.rxNew = FALSE, !.rx = None]
    BY <1>1
  <2> HIDE DEF u
  <2>4. g.rxNew = FALSE /\ AlikeClient(u, g) /\ g.state = u.state
    BY <2>2, <2>3 DEF AlikeClient, Resting
  <2>5. CASE u.state = "ABORT"
    BY <2>4, <2>5 DEF Follows, AlikeClient
  <2>6. CASE /\ u.state = "ended" /\ IsSeq(u.fifo) /\ Transferred(u, od, transfer)
             /\ Silence(q, p2) /\ Rests(srv)
    <3>1. g.fifo = u.fifo
      BY <2>4 DEF AlikeClient
    <3>2. Transferred(g, od, transfer)
      BY <3>1, <2>6 DEF Transferred, Rcvd
    <3> QED
      BY <3>1, <3>2, <2>4, <2>6 DEF Follows, AlikeClient
  <2>7. CASE ClientOk(u, transfer) /\ Linked(u, q, p2, srv, od, transfer)
    <3>1. ClientOk(g, transfer) /\ Linked(g, q, p2, srv, od, transfer)
      BY <2>4, <2>7, ClientSame
    <3> QED
      BY <3>1, <2>4 DEF Follows, AlikeClient
  <2> QED
    BY <2>1, <2>5, <2>6, <2>7 DEF Follows
<1>2. CASE ~cli.rxNew
  BY <1>0, <1>2 DEF Follows
<1> QED
  BY <1>0, <1>1, <1>2

(* A transfer that has ended well leaves the client at rest.               *)
LEMMA EndedWell ==
  ASSUME NEW c, IsSeq(c.fifo), Transferred(c, od, transfer), NEW q, NEW p, Silence(q, p), Rests(srv),
         IsSeq(transfer.data), DOMAIN transfer = {"n", "kind", "data", "result"},
         NEW u, u = [Resting EXCEPT !.fifo = c.fifo],
         NEW t, t = [transfer EXCEPT !.result = "ok"]
  PROVE  ClientOk(u, t) /\ Linked(u, q, p, srv, od, t) /\ u.rxNew = FALSE
<1>1. /\ DOMAIN u = DOMAIN Resting /\ u.state = "IDLE" /\ u.rxNew = FALSE /\ u.fifo = c.fifo
      /\ u.finished = FALSE /\ u.tail = <<>>
  BY DEF Resting
<1>2. t.result = "ok" /\ t.data = transfer.data /\ t.kind = transfer.kind
  OBVIOUS
<1>3. ClientOk(u, t)
  BY <1>1, <1>2, EmptyIs DEF ClientOk
<1>4. Transferred(u, od, t)
  BY <1>1, <1>2 DEF Transferred, Rcvd, Stored
<1> QED
  BY <1>1, <1>3, <1>4 DEF Linked

(* A call of CO_SDOclientDownload or CO_SDOclientUpload.                   *)
LEMMA ClientCallKeeps ==
  ASSUME NEW q, NEW p, Fits(q, p), Formed, ClientCall, Live'
  PROVE  Whole(od') /\ Joint'
<1> DEFINE got == IF cli.rxNew
                  THEN [Understood(cli, cli.rx) EXCEPT !.timer = 0, !.rxNew = FALSE, !.rx = None] ELSE cli
           e == IF cli.rxNew THEN 0 ELSE 1
           c == IF got.state = "ended" THEN got ELSE ClientTimers(got, e)
           out == Transmitted(c)
           p2 == IF cli.rxNew /\ cli.rx.cs \in Responses THEN None ELSE p
<1>0. /\ DOMAIN transfer = {"n", "kind", "data", "result"} /\ DOMAIN cli = DOMAIN Resting
      /\ IsSeq(transfer.data) /\ transfer.result = "busy"
      /\ Whole(od) /\ Core(srv, od)
      /\ UNCHANGED <<srv, od, toClient, late>>
  BY DEF Formed, ClientCall, Fits, ServerOk, ClientOk
<1>1. \/ Concluded(cli, "server_abort", None)
      \/ got.state = "ended" /\ Concluded(got, "ok", None)
      \/ got.state # "ended" /\ cli' = c /\ UNCHANGED <<transfer, toServer>>
      \/ Concluded(c, "client_abort", [cs |-> "abort"])
      \/ /\ got.state # "ended" /\ c.state # "ABORT" /\ out.c.state # "ABORT"
         /\ \/ out.c.state = "ended" /\ Concluded(out.c, "ok", out.f)
            \/ /\ out.c.state # "ended" /\ cli' = out.c /\ UNCHANGED transfer
               /\ toServer' = IF out.f = None THEN toServer ELSE Append(toServer, out.f)
  BY DEF ClientCall
<1>2. got.rxNew = FALSE /\ DOMAIN got = DOMAIN Resting /\ Follows(got, q, p2)
  <2>1. /\ got = IF cli.rxNew
                THEN [Understood(cli, cli.rx) EXCEPT !.timer = 0, !.rxNew = FALSE, !.rx = None] ELSE cli
        /\ p2 = IF cli.rxNew /\ cli.rx.cs \in Responses THEN None ELSE p
    OBVIOUS
  <2> HIDE DEF got, p2
  <2> QED
    BY <2>1, ClientGets
<1>3. p2 = IF cli.rxNew /\ cli.rx.cs \in Responses THEN None ELSE p
  OBVIOUS
<1>4. got.state # "ended" => TickedClient(got, c)
  <2> HIDE DEF got
  <2> QED
    BY <1>2, TickedClientIs
<1>5. out = Transmitted(c)
  OBVIOUS
<1> HIDE DEF got, e, c, p2, out
<1>6. transfer'.result \in {"busy", "ok"} /\ cli'.state # "ABORT"
  BY DEF Live
<1>7. CASE Concluded(cli, "server_abort", None) \/ Concluded(c, "client_abort", [cs |-> "abort"])
  <2>1. transfer'.result \in {"server_abort", "client_abort"}
    BY <1>0, <1>7 DEF Concluded
  <2> QED
    BY <1>6, <2>1
<1>8. CASE got.state = "ended" /\ Concluded(got, "ok", None)
  <2>1. IsSeq(got.fifo) /\ Transferred(got, od, transfer) /\ Silence(q, p2) /\ Rests(srv)
    BY <1>2, <1>8 DEF Follows, ClientOk, Downloads, Uploads
  <2>2. /\ cli' = [Resting EXCEPT !.fifo = got.fifo] /\ transfer' = [transfer EXCEPT !.result = "ok"]
        /\ toServer' = toServer
    BY <1>8 DEF Concluded
  <2>3. ClientOk(cli', transfer') /\ Linked(cli', q, p2, srv, od, transfer') /\ cli'.rxNew = FALSE
    BY <1>0, <2>1, <2>2, EndedWell
  <2> QED
    BY <1>0, <1>3, <2>2, <2>3, ClientMoves
<1>9. ASSUME got.state # "ended", c.state # "ABORT"
      PROVE  ClientOk(c, transfer) /\ Linked(c, q, p2, srv, od, transfer) /\ c.rxNew = FALSE
             /\ c.state \in ClientStates \ {"IDLE"}
  <2>1. TickedClient(got, c)
    BY <1>4, <1>9
  <2>2. got.state # "ABORT"
    BY <1>9, <2>1 DEF TickedClient
  <2>3. ClientOk(got, transfer) /\ Linked(got, q, p2, srv, od, transfer)
    BY <1>2, <1>9, <2>2 DEF Follows
  <2>4. ClientOk(c, transfer) /\ Linked(c, q, p2, srv, od, transfer)
    BY <1>9, <2>1, <2>3, ClientSame DEF TickedClient
  <2>5. c.rxNew = FALSE
    BY <1>2, <2>1 DEF TickedClient
  <2>6. c.state \in ClientStates \ {"IDLE"}
    BY <1>0, <2>4 DEF ClientOk, ClientStates
  <2> QED
    BY <2>4, <2>5, <2>6
<1>10. CASE got.state # "ended" /\ cli' = c /\ UNCHANGED <<transfer, toServer>>
  <2>1. ClientOk(cli', transfer') /\ Linked(cli', q, p2, srv, od, transfer') /\ cli'.rxNew = FALSE
    BY <1>6, <1>9, <1>10
  <2> QED
    BY <1>0, <1>3, <1>10, <2>1, ClientMoves
<1>11. CASE /\ got.state # "ended" /\ c.state # "ABORT" /\ out.c.state # "ABORT"
            /\ \/ out.c.state = "ended" /\ Concluded(out.c, "ok", out.f)
               \/ /\ out.c.state # "ended" /\ cli' = out.c /\ UNCHANGED transfer
                  /\ toServer' = IF out.f = None THEN toServer ELSE Append(toServer, out.f)
  <2> DEFINE u == out.c  f == out.f
  <2>1. Ready(c, q, p2)
    BY <1>0, <1>9, <1>11 DEF Ready
  <2>2. Posted(u, f, q, p2)
    BY <1>5, <2>1, TransmittedIs
  <2>3. u.state # "ABORT"
    BY <1>11
  <2>4. CASE u.state = "ended"
    <3>1. Concluded(u, "ok", f)
      BY <1>11, <2>4
    <3> HIDE DEF u, f
    <3>2. /\ IsSeq(u.fifo) /\ Transferred(u, od, transfer)
          /\ Silence(q, p2) /\ Rests(srv) /\ f.cs = "ulBlkEndAck"
      BY <2>2, <2>4 DEF Posted, ClientStates, Downloads, Uploads
    <3>3. f # None
      BY <3>2 DEF None
    <3>4. /\ cli' = [Resting EXCEPT !.fifo = u.fifo] /\ transfer' = [transfer EXCEPT !.result = "ok"]
          /\ toServer' = Append(toServer, f)
      BY <3>1, <3>3 DEF Concluded
    <3>5. ClientOk(cli', transfer') /\ Linked(cli', q, p2, srv, od, transfer') /\ cli'.rxNew = FALSE
      BY <1>0, <3>2, <3>4, EndedWell
    <3>6. FrameOk(f) /\ f.cs # "abort" /\ f.cs \notin Requests
      BY <3>2 DEF FrameOk, Requests
    <3> QED
      BY <1>0, <1>3, <3>4, <3>5, <3>6, ClientMoves
  <2>5. CASE u.state # "ended"
    <3>1. cli' = u /\ transfer' = transfer /\ toServer' = IF f = None THEN toServer ELSE Append(toServer, f)
      BY <1>11, <2>5
    <3> HIDE DEF u, f
    <3>2. u.rxNew = FALSE /\ ClientOk(u, transfer)
      BY <2>2, <2>3, <2>5 DEF Posted
    <3>3. \/ f = None /\ Linked(u, q, p2, srv, od, transfer)
          \/ /\ f # None /\ FrameOk(f) /\ f.cs \notin Requests \cup {"abort"}
             /\ Linked(u, q, p2, srv, od, transfer)
          \/ /\ f # None /\ FrameOk(f) /\ f.cs \in Requests /\ q = None
             /\ Linked(u, f, p2, srv, od, transfer)
      BY <2>2, <2>3, <2>5 DEF Posted
    <3>4. ClientOk(cli', transfer') /\ cli'.rxNew = FALSE
      BY <3>1, <3>2
    <3>5. CASE f = None /\ Linked(u, q, p2, srv, od, transfer)
      <4>1. Linked(cli', q, p2, srv, od, transfer') /\ toServer' = toServer
        BY <3>1, <3>5
      <4> QED
        BY <1>0, <1>3, <3>4, <4>1, ClientMoves
    <3>6. CASE /\ f # None /\ FrameOk(f) /\ f.cs \notin Requests \cup {"abort"}
               /\ Linked(u, q, p2, srv, od, transfer)
      <4>1. Linked(cli', q, p2, srv, od, transfer') /\ toServer' = Append(toServer, f)
        BY <3>1, <3>6
      <4>2. FrameOk(f) /\ f.cs # "abort" /\ f.cs \notin Requests
        BY <3>6
      <4> QED
        BY <1>0, <1>3, <3>4, <4>1, <4>2, ClientMoves
    <3>7. CASE /\ f # None /\ FrameOk(f) /\ f.cs \in Requests /\ q = None
               /\ Linked(u, f, p2, srv, od, transfer)
      <4>1. Linked(cli', f, p2, srv, od, transfer') /\ toServer' = Append(toServer, f)
        BY <3>1, <3>7
      <4>2. FrameOk(f) /\ f.cs # "abort" /\ f.cs \in Requests /\ q = None
        BY <3>7 DEF Requests
      <4> QED
        BY <1>0, <1>3, <3>4, <4>1, <4>2, ClientMoves
    <3> QED
      BY <3>3, <3>5, <3>6, <3>7
  <2> QED
    BY <2>4, <2>5
<1> QED
  BY <1>1, <1>7, <1>8, <1>10, <1>11
-----------------------------------------------------------------------------
(* The receive interrupt of the client.                                    *)

(* A frame arrives at the client.                                          *)
LEMMA ClientArrives ==
  ASSUME NEW q, NEW p, Fits(q, p), UNCHANGED <<srv, od, toServer, transfer>>,
         toClient # <<>>, toClient' = Tail(toClient), ClientOk(cli', transfer),
         NEW p1, p1 = IF cli.rxNew /\ cli.rx.cs \in Responses THEN None ELSE p,
         NEW p2, \/ /\ cli'.rxNew = cli.rxNew /\ cli'.rx = cli.rx
                    /\ p2 = IF Head(toClient).cs \in Responses THEN None ELSE p
                 \/ cli'.rxNew = TRUE /\ cli'.rx = Head(toClient) /\ p2 = p1,
         Linked(cli', q, p2, srv, od, transfer)
  PROVE  Whole(od') /\ Joint'
<1>2. /\ BusOk(Requests, srv.rxNew, srv.rx, toServer) /\ BusOk(Responses, cli.rxNew, cli.rx, toClient)
      /\ \A i \in DOMAIN toServer : toServer[i].cs # "abort"
  BY DEF Fits, BusInv
<1>3. /\ BusOk(Responses, cli.rxNew, cli.rx, toClient')
      /\ \A now : now = TRUE => BusOk(Responses, now, Head(toClient), toClient')
      /\ IsSeq(toClient)
  <2> DEFINE full == cli.rxNew
  <2>1. BusOk(Responses, full, cli.rx, toClient) /\ toClient # <<>>
    BY <1>2
  <2> HIDE DEF full
  <2>2. IsSeq(toClient)
    BY <2>1, BusTail
  <2>3. BusOk(Responses, full, cli.rx, Tail(toClient))
    BY <2>1, BusTail
  <2>4. ASSUME NEW now, now = TRUE PROVE BusOk(Responses, now, Head(toClient), Tail(toClient))
    BY <2>1, <2>4, BusTail
  <2> QED
    BY <2>2, <2>3, <2>4 DEF full
<1>4. BusOk(Responses, cli'.rxNew, cli'.rx, toClient')
  BY <1>3
<1>5. BusInv'
  BY <1>2, <1>4 DEF BusInv
<1>6. /\ Carries(Requests, srv'.rxNew, srv'.rx, toServer', q)
      /\ Carries(Responses, cli.rxNew, cli.rx, toClient, p)
  BY DEF Fits
<1>7. Carries(Responses, cli'.rxNew, cli'.rx, toClient', p2)
  <2>1. CASE cli'.rxNew = cli.rxNew /\ cli'.rx = cli.rx
             /\ p2 = IF Head(toClient).cs \in Responses THEN None ELSE p
    BY <1>3, <1>6, <2>1, CarriesTail
  <2>2. CASE cli'.rxNew = TRUE /\ cli'.rx = Head(toClient) /\ p2 = p1
    <3> DEFINE now == cli'.rxNew  full == FALSE
    <3>1. now = TRUE /\ full = FALSE
      BY <2>2
    <3>2. Carries(Responses, full, cli.rx, toClient, p1)
      BY <1>6, CarriesClear
    <3> HIDE DEF now, full
    <3>3. Carries(Responses, now, Head(toClient), Tail(toClient), p1)
      BY <1>3, <3>1, <3>2, CarriesMoves, Zenon
    <3> QED
      BY <2>2, <3>3 DEF now
  <2> QED
    BY <2>1, <2>2
<1>8. ServerOk(srv', od') /\ Whole(od') /\ ClientOk(cli', transfer') /\ Linked(cli', q, p2, srv', od', transfer')
  BY DEF Fits
<1>9. Joint'
  BY <1>5, <1>6, <1>7, <1>8, JointIs
<1> QED
  BY <1>8, <1>9

(* A segment of a block upload goes to the buffer, or to its tail.         *)
LEMMA UploadSegmentIs ==
  ASSUME NEW q, NEW p, NEW c, ClientOk(c, transfer), Linked(c, q, p, srv, od, transfer),
         c.state = "UPLOAD_BLK_SUBBLOCK_SREQ", NEW f, FrameOk(f),
         NEW u, u = UploadSegment(c, f)
  PROVE  /\ ClientOk(u, transfer) /\ Linked(u, q, p, srv, od, transfer)
         /\ u.rxNew = c.rxNew /\ u.rx = c.rx
<1>1. /\ DOMAIN c = DOMAIN Resting /\ c.finished \in BOOLEAN /\ IsSeq(c.fifo) /\ IsSeq(transfer.data)
      /\ IsSeq(c.tail) /\ transfer.result = "busy" /\ transfer.kind \in {"upload", "upload_block"}
      /\ c.crc = Rcvd(c, transfer) /\ c.seqno \in Nat /\ c.blksize \in Nat \ {0}
  BY DEF ClientOk, Takes, Downloads, Uploads
<1>2. UploadBlock(q, p, srv, od)
  BY DEF Linked
<1>3. ASSUME DOMAIN u = DOMAIN Resting, u.finished \in BOOLEAN, IsSeq(u.fifo), IsSeq(u.tail),
             u.crc = Rcvd(u, transfer), u.seqno \in Nat, u.blksize = c.blksize,
             u.state \in {"UPLOAD_BLK_SUBBLOCK_SREQ", "UPLOAD_BLK_SUBBLOCK_CRSP"}
      PROVE  ClientOk(u, transfer) /\ Linked(u, q, p, srv, od, transfer)
  <2>1. Takes(u, transfer)
    BY <1>1, <1>3 DEF Takes
  <2>2. Linked(u, q, p, srv, od, transfer)
    BY <1>2, <1>3 DEF Linked
  <2> QED
    BY <1>1, <1>3, <2>1, <2>2 DEF ClientOk, Uploads
<1> DEFINE next == f.cs = "ulSub" /\ f.seqno = c.seqno + 1 /\ f.seqno <= c.blksize
           d == f.data
           st == IF f.seqno = c.blksize THEN "UPLOAD_BLK_SUBBLOCK_CRSP" ELSE c.state
           w == c.fifo \o d
           r == c.crc \o d
           size == c.sizeTran + Len(d)
<1>4. \/ next /\ f.last /\ u = [c EXCEPT !.seqno = f.seqno, !.tail = d, !.finished = TRUE,
                                 !.state = "UPLOAD_BLK_SUBBLOCK_CRSP"]
      \/ next /\ ~f.last /\ u = [c EXCEPT !.seqno = f.seqno, !.fifo = w, !.crc = r,
                                  !.sizeTran = size, !.state = st]
      \/ u = [c EXCEPT !.state = "UPLOAD_BLK_SUBBLOCK_CRSP"]
      \/ u = c
  BY DEF UploadSegment
<1>5. next => IsSeq(d) /\ f.seqno \in Nat
  BY <1>1 DEF FrameOk
<1>6. st \in {"UPLOAD_BLK_SUBBLOCK_SREQ", "UPLOAD_BLK_SUBBLOCK_CRSP"}
  OBVIOUS
<1>7. CASE next /\ f.last /\ u = [c EXCEPT !.seqno = f.seqno, !.tail = d, !.finished = TRUE,
                                 !.state = "UPLOAD_BLK_SUBBLOCK_CRSP"]
  <2>1. IsSeq(d) /\ f.seqno \in Nat
    BY <1>5, <1>7
  <2>2. u = [c EXCEPT !.seqno = f.seqno, !.tail = d, !.finished = TRUE,
                      !.state = "UPLOAD_BLK_SUBBLOCK_CRSP"]
    BY <1>7
  <2> HIDE DEF next, d, st, w, r, size
  <2>3. /\ DOMAIN u = DOMAIN Resting /\ u.finished = TRUE /\ u.fifo = c.fifo /\ u.tail = d /\ u.crc = c.crc
        /\ u.seqno = f.seqno /\ u.blksize = c.blksize /\ u.state = "UPLOAD_BLK_SUBBLOCK_CRSP"
        /\ u.rxNew = c.rxNew /\ u.rx = c.rx
    BY <1>1, <2>2 DEF Resting
  <2>4. Rcvd(u, transfer) = Rcvd(c, transfer)
    BY <2>3 DEF Rcvd
  <2> QED
    BY <1>1, <1>3, <2>1, <2>3, <2>4
<1>8. CASE next /\ ~f.last /\ u = [c EXCEPT !.seqno = f.seqno, !.fifo = w, !.crc = r,
                                  !.sizeTran = size, !.state = st]
  <2>1. IsSeq(d) /\ f.seqno \in Nat /\ w = c.fifo \o d /\ r = c.crc \o d
    BY <1>5, <1>8
  <2>2. u = [c EXCEPT !.seqno = f.seqno, !.fifo = w, !.crc = r, !.sizeTran = size, !.state = st]
    BY <1>8
  <2> HIDE DEF next, d, st, w, r, size
  <2>3. /\ DOMAIN u = DOMAIN Resting /\ u.finished = c.finished /\ u.fifo = w /\ u.tail = c.tail /\ u.crc = r
        /\ u.seqno = f.seqno /\ u.blksize = c.blksize /\ u.state = st
        /\ u.rxNew = c.rxNew /\ u.rx = c.rx
    BY <1>1, <2>2 DEF Resting
  <2>4. IsSeq(u.fifo) /\ Rcvd(u, transfer) = Rcvd(c, transfer) \o d
    BY <1>1, <2>1, <2>3, RcvdIs
  <2> QED
    BY <1>1, <1>3, <1>6, <2>1, <2>3, <2>4
<1> HIDE DEF next, d, st, w, r, size
<1>9. CASE u = [c EXCEPT !.state = "UPLOAD_BLK_SUBBLOCK_CRSP"]
  <2>1. /\ DOMAIN u = DOMAIN Resting /\ u.finished = c.finished /\ u.fifo = c.fifo /\ u.tail = c.tail
        /\ u.crc = c.crc /\ u.seqno = c.seqno /\ u.blksize = c.blksize
        /\ u.state = "UPLOAD_BLK_SUBBLOCK_CRSP" /\ u.rxNew = c.rxNew /\ u.rx = c.rx
    BY <1>1, <1>9 DEF Resting
  <2>2. Rcvd(u, transfer) = Rcvd(c, transfer)
    BY <2>1 DEF Rcvd
  <2> QED
    BY <1>1, <1>3, <2>1, <2>2
<1>10. CASE u = c
  BY <1>10
<1> QED
  BY <1>4, <1>7, <1>8, <1>9, <1>10

(* A frame in the receive interrupt of the client.                         *)
LEMMA ClientReceiveKeeps ==
  ASSUME NEW q, NEW p, Fits(q, p), CO_SDOclient_receive
  PROVE  Whole(od') /\ Joint'
<1> DEFINE f == Head(toClient)
           p1 == IF cli.rxNew /\ cli.rx.cs \in Responses THEN None ELSE p
           p2 == IF f.cs \in Responses THEN None ELSE p
           c == [cli EXCEPT !.timer = 0, !.blkTimer = 0]
<1>1. /\ toClient # <<>> /\ toClient' = Tail(toClient) /\ UNCHANGED <<srv, od, toServer, transfer>>
      /\ ClientOk(cli, transfer) /\ Linked(cli, q, p, srv, od, transfer)
      /\ DOMAIN cli = DOMAIN Resting
  BY DEF CO_SDOclient_receive, Fits, ClientOk
<1>2. \/ cli' = cli
      \/ cli' = [cli EXCEPT !.rx = f, !.rxNew = TRUE]
      \/ cli.state = "UPLOAD_BLK_SUBBLOCK_SREQ" /\ cli' = UploadSegment(c, f)
  BY DEF CO_SDOclient_receive
<1>3. /\ Linked(cli, q, p1, srv, od, transfer) /\ Linked(cli, q, p2, srv, od, transfer)
  BY <1>1, LinkLoses
<1>4. FrameOk(f)
  <2>1. BusOk(Responses, cli.rxNew, cli.rx, toClient)
    BY DEF Fits, BusInv
  <2> QED
    BY <1>1, <2>1, BusTail
<1>5. /\ p1 = IF cli.rxNew /\ cli.rx.cs \in Responses THEN None ELSE p
      /\ p2 = IF Head(toClient).cs \in Responses THEN None ELSE p
      /\ f = Head(toClient)
  OBVIOUS
<1>6. DOMAIN c = DOMAIN Resting /\ AlikeClient(cli, c) /\ c.state = cli.state
      /\ c.rxNew = cli.rxNew /\ c.rx = cli.rx
  BY <1>1 DEF AlikeClient, Resting
<1> HIDE DEF f, p1, p2, c
<1>7. CASE cli' = cli
  BY <1>1, <1>3, <1>5, <1>7, ClientArrives
<1>8. CASE cli' = [cli EXCEPT !.rx = f, !.rxNew = TRUE]
  <2>1. AlikeClient(cli, cli') /\ cli'.state = cli.state /\ cli'.rx = f /\ cli'.rxNew = TRUE
    BY <1>1, <1>8 DEF AlikeClient, Resting
  <2>2. ClientOk(cli', transfer) /\ Linked(cli', q, p1, srv, od, transfer)
    BY <1>1, <1>3, <2>1, ClientSame
  <2> QED
    BY <1>1, <1>5, <2>1, <2>2, ClientArrives
<1>9. CASE cli.state = "UPLOAD_BLK_SUBBLOCK_SREQ" /\ cli' = UploadSegment(c, f)
  <2>1. ClientOk(c, transfer) /\ Linked(c, q, p2, srv, od, transfer)
    BY <1>1, <1>3, <1>6, ClientSame
  <2>2. ClientOk(cli', transfer) /\ Linked(cli', q, p2, srv, od, transfer)
        /\ cli'.rxNew = c.rxNew /\ cli'.rx = c.rx
    BY <1>4, <1>6, <1>9, <2>1, UploadSegmentIs
  <2> QED
    BY <1>1, <1>5, <1>6, <2>2, ClientArrives
<1> QED
  BY <1>2, <1>7, <1>8, <1>9
-----------------------------------------------------------------------------
(* The application, and the bus.                                           *)

(* The application takes what the buffer holds.                            *)
LEMMA BufReadKeeps ==
  ASSUME NEW q, NEW p, Fits(q, p), Formed, BufRead
  PROVE  Whole(od') /\ Joint'
<1> DEFINE d == transfer.data  b == cli.fifo
<1>1. /\ ClientOk(cli, transfer) /\ Linked(cli, q, p, srv, od, transfer)
      /\ DOMAIN cli = DOMAIN Resting /\ DOMAIN transfer = {"n", "kind", "data", "result"}
      /\ UNCHANGED <<srv, od, toServer, toClient, late>>
      /\ transfer.kind \in {"upload", "upload_block"} /\ b # <<>>
      /\ cli.state # "UPLOAD_BLK_SUBBLOCK_SREQ"
      /\ transfer' = [transfer EXCEPT !.data = d \o b]
      /\ cli' = [cli EXCEPT !.fifo = <<>>]
  BY DEF BufRead, Fits, ClientOk, Formed
<1>2. IsSeq(d) /\ IsSeq(b) /\ IsSeq(cli.tail) /\ cli.finished \in BOOLEAN
      /\ transfer.result = (IF cli.state = "IDLE" THEN "ok" ELSE "busy")
      /\ (cli.state = "IDLE" \/ (cli.state \in Uploads /\ Takes(cli, transfer)))
  BY <1>1 DEF ClientOk, Gives
<1> DEFINE w == d \o b
<1>3. IsSeq(w) /\ w \o <<>> = w /\ Rcvd(cli, transfer) = w
  <2>1. IsSeq(d) /\ IsSeq(b)
    BY <1>2
  <2>2. IsSeq(w) /\ w \o <<>> = w
    <3> HIDE DEF d, b
    <3> QED
      BY ONLY <2>1, ConcatIs, ConcatEmpty
  <2> QED
    BY <2>2 DEF Rcvd
<1> HIDE DEF w
<1>4. /\ transfer'.data = w /\ transfer'.kind = transfer.kind /\ transfer'.result = transfer.result
  BY <1>1 DEF w
<1>5. /\ DOMAIN cli' = DOMAIN Resting /\ cli'.fifo = <<>> /\ cli'.state = cli.state /\ cli'.tail = cli.tail
      /\ cli'.finished = cli.finished /\ cli'.crc = cli.crc /\ cli'.seqno = cli.seqno
      /\ cli'.blksize = cli.blksize /\ cli'.rxNew = cli.rxNew /\ cli'.rx = cli.rx
  BY <1>1 DEF Resting
<1>6. Rcvd(cli', transfer') = Rcvd(cli, transfer)
  BY <1>3, <1>4, <1>5 DEF Rcvd
<1>7. cli.state # "IDLE" => Takes(cli', transfer')
  BY <1>1, <1>2, <1>4, <1>5, <1>6 DEF Takes
<1>8. ClientOk(cli', transfer')
  BY <1>2, <1>3, <1>4, <1>5, <1>7, EmptyIs DEF ClientOk
<1>9. Linked(cli', q, p, srv, od, transfer')
  <2>1. Transferred(cli, od, transfer) => Transferred(cli', od, transfer')
    BY <1>1, <1>4, <1>6 DEF Transferred
  <2>2. UploadSegmented(cli, q, p, srv, od, transfer) => UploadSegmented(cli', q, p, srv, od, transfer')
    BY <1>6 DEF UploadSegmented
  <2> QED
    BY <1>1, <1>2, <1>5, <1>6, <2>1, <2>2 DEF Linked, Uploads
<1> QED
  BY <1>1, <1>5, <1>8, <1>9, ClientMoves

(* The bus loses a frame.                                                  *)
LEMMA LoseKeeps ==
  ASSUME NEW q, NEW p, Fits(q, p), Lose
  PROVE  Whole(od') /\ Joint'
<1> DEFINE q2 == IF Head(toServer).cs \in Requests THEN None ELSE q
           p1 == IF cli.rxNew /\ cli.rx.cs \in Responses THEN None ELSE p
           p2 == IF Head(toClient).cs \in Responses THEN None ELSE p
<1>1. /\ UNCHANGED <<srv, od, cli, transfer>>
      /\ ServerOk(srv, od) /\ ClientOk(cli, transfer) /\ Linked(cli, q, p, srv, od, transfer)
      /\ \/ toServer # <<>> /\ toServer' = Tail(toServer) /\ UNCHANGED toClient
         \/ toClient # <<>> /\ toClient' = Tail(toClient) /\ UNCHANGED toServer
  BY DEF Lose, Fits
<1>2. /\ q2 = IF Head(toServer).cs \in Requests THEN None ELSE q
      /\ p1 = IF cli.rxNew /\ cli.rx.cs \in Responses THEN None ELSE p
      /\ p2 = IF Head(toClient).cs \in Responses THEN None ELSE p
      /\ Linked(cli, q2, p, srv, od, transfer) /\ Linked(cli, q, p2, srv, od, transfer)
  BY <1>1, LinkLoses
<1> HIDE DEF q2, p1, p2
<1>3. CASE toServer # <<>> /\ toServer' = Tail(toServer) /\ UNCHANGED toClient
  <2>1. Arrives
    BY <1>1, <1>3 DEF Arrives
  <2> QED
    BY <1>1, <1>2, <2>1, ArrivesMoves
<1>4. CASE toClient # <<>> /\ toClient' = Tail(toClient) /\ UNCHANGED toServer
  BY <1>1, <1>2, <1>4, ClientArrives
<1> QED
  BY <1>1, <1>3, <1>4

(* What an application asks for.                                           *)
Asked == [kind : {"download", "upload", "download_block", "upload_block"}, size : Nat, sized : BOOLEAN]

(* The application asks for a transfer.                                    *)
LEMMA InitiateKeeps ==
  ASSUME NEW r \in Asked,
         SdoInv, Initiate(r), Live'
  PROVE  Whole(od') /\ Joint'
<1>0. ASSUME NEW q, NEW p, Silence(q, p), Rests(srv)
      PROVE  /\ ClientOk(cli', transfer') /\ Linked(cli', q, p, srv, od, transfer')
             /\ cli'.rxNew = FALSE
  <2> DEFINE n == transfer.n + 1
             down == r.kind \in {"download", "download_block"}
             data == IF down THEN Data(n, r.kind, r.size) ELSE <<>>
             ind == IF r.sized THEN Len(data) ELSE 0
             st == CASE r.kind = "download" -> "DOWNLOAD_INITIATE_REQ"
                     [] r.kind = "upload" -> "UPLOAD_INITIATE_REQ"
                     [] r.kind = "download_block" -> IF r.sized /\ r.size <= PST
                          THEN "DOWNLOAD_INITIATE_REQ" ELSE "DOWNLOAD_BLK_INITIATE_REQ"
                     [] OTHER -> "UPLOAD_BLK_INITIATE_REQ"
  <2>1. /\ transfer' = [n |-> n, kind |-> r.kind, data |-> data, result |-> "busy"]
        /\ cli' = [Resting EXCEPT !.sizeInd = ind, !.fifo = data, !.state = st]
        /\ r.kind = "download_block" => r.size > 0
    BY DEF Initiate
  <2>2. r.kind \in {"download", "upload", "download_block", "upload_block"} /\ r.size \in Nat
    BY DEF Asked
  <2>3. IsSeq(data) /\ (down => Len(data) = r.size) /\ (~down => data = <<>>)
    <3>1. ASSUME NEW d, d = Data(n, r.kind, r.size) PROVE IsSeq(d) /\ Len(d) = r.size
      <4>1. d = [i \in 1..r.size |-> d[i]]
        BY <3>1 DEF Data
      <4> QED
        BY <2>2, <4>1, SeqIs
    <3> QED
      BY <3>1, EmptyIs
  <2>4. ind \in {0, Len(data)}
    OBVIOUS
  <2>5. /\ st \in {"DOWNLOAD_INITIATE_REQ", "DOWNLOAD_BLK_INITIATE_REQ", "UPLOAD_INITIATE_REQ",
                   "UPLOAD_BLK_INITIATE_REQ"}
        /\ st \in {"DOWNLOAD_INITIATE_REQ", "DOWNLOAD_BLK_INITIATE_REQ"} <=> down
        /\ st = "DOWNLOAD_BLK_INITIATE_REQ" => r.size > 0
    BY <2>1, <2>2
  <2>6. st = "DOWNLOAD_BLK_INITIATE_REQ" => data # <<>>
    BY <2>2, <2>3, <2>5, EmptyIs
  <2>7. down <=> r.kind \in {"download", "download_block"}
    OBVIOUS
  <2> HIDE DEF n, down, data, ind, st
  <2>8. /\ DOMAIN cli' = DOMAIN Resting /\ cli'.state = st /\ cli'.fifo = data /\ cli'.sizeInd = ind
        /\ cli'.finished = FALSE /\ cli'.tail = <<>> /\ cli'.rxNew = FALSE
        /\ transfer'.kind = r.kind /\ transfer'.data = data /\ transfer'.result = "busy"
    BY <2>1 DEF Resting
  <2>9. CASE down
    <3>1. Gives(cli', transfer')
      BY <2>4, <2>5, <2>6, <2>7, <2>8, <2>9 DEF Gives
    <3>2. ClientOk(cli', transfer')
      BY <2>3, <2>5, <2>8, <2>9, <3>1, EmptyIs DEF ClientOk, Downloads
    <3> QED
      BY <1>0, <2>5, <2>8, <3>2 DEF Linked
  <2>10. CASE ~down
    <3>1. Takes(cli', transfer')
      BY <2>2, <2>3, <2>5, <2>7, <2>8, <2>10 DEF Takes
    <3>2. ClientOk(cli', transfer')
      BY <2>3, <2>5, <2>8, <2>10, <3>1, EmptyIs DEF ClientOk, Uploads
    <3> QED
      BY <1>0, <2>5, <2>8, <3>2 DEF Linked
  <2> QED
    BY <2>9, <2>10
<1>1. /\ cli.state = "IDLE" /\ UNCHANGED <<srv, od, toServer, toClient>>
      /\ ~late /\ (transfer.result = "ok" \/ Quiet)
  BY DEF Initiate, Live
<1>2. CASE transfer.result = "ok"
  <2>1. Live
    BY <1>1, <1>2 DEF Live
  <2>2. PICK q, p : Fits(q, p)
    BY <2>1, JointFits DEF SdoInv
  <2>3. Silence(q, p) /\ Rests(srv)
    BY <1>1, <2>2 DEF Fits, Linked
  <2> DEFINE p2 == IF cli.rxNew /\ cli.rx.cs \in Responses THEN None ELSE p
  <2>4. p2 = p
    BY <2>3 DEF Silence
  <2>5. Silence(q, p2) /\ p2 = IF cli.rxNew /\ cli.rx.cs \in Responses THEN None ELSE p
    BY <2>3, <2>4
  <2> HIDE DEF p2
  <2>6. ClientOk(cli', transfer') /\ Linked(cli', q, p2, srv, od, transfer') /\ cli'.rxNew = FALSE
    BY <2>3, <2>5, <1>0
  <2> QED
    BY <1>1, <2>2, <2>5, <2>6, ClientMoves
<1>3. CASE Quiet
  <2>1. srv = Idle /\ toServer = <<>> /\ toClient = <<>> /\ Silence(None, None)
    BY <1>3 DEF Quiet, Silence
  <2>2. ServerOk(srv', od') /\ Rests(srv) /\ srv'.rxNew = FALSE /\ Whole(od')
    <3>1. srv' = Idle /\ srv = Idle /\ od' = od
      BY <1>1, <2>1
    <3>2. srv'.rxNew = FALSE
      BY <3>1 DEF Idle
    <3>3. Core(Idle, od') /\ Steps(Idle) /\ Rests(Idle)
      BY IdleIs
    <3> QED
      BY <3>1, <3>2, <3>3 DEF ServerOk, SdoInv
  <2>3. ClientOk(cli', transfer') /\ Linked(cli', None, None, srv', od', transfer') /\ cli'.rxNew = FALSE
    <3>1. ClientOk(cli', transfer') /\ Linked(cli', None, None, srv, od, transfer') /\ cli'.rxNew = FALSE
      BY <2>1, <2>2, <1>0
    <3> QED
      BY <1>1, <3>1
  <2>4. toServer' = <<>> /\ toClient' = <<>> /\ DOMAIN <<>> = {}
    BY <1>1, <2>1
  <2>5. /\ Carries(Requests, srv'.rxNew, srv'.rx, toServer', None)
        /\ Carries(Responses, cli'.rxNew, cli'.rx, toClient', None)
    BY <2>2, <2>3, <2>4 DEF Carries
  <2>6. BusInv'
    BY <2>2, <2>3, <2>4, EmptyIs DEF BusInv, BusOk
  <2> QED
    BY <2>2, <2>3, <2>5, <2>6, JointIs
<1> QED
  BY <1>1, <1>2, <1>3
-----------------------------------------------------------------------------
(* The object stays whole, and the records keep their fields.              *)

(* The server writes the object by Write only.                             *)
Written(v) == v = od.value \/ \E s, data : v = Write(s, data).value

(* What is written so leaves the object whole.                             *)
LEMMA WrittenIs ==
  ASSUME Whole(od), NEW v, Written(v)
  PROVE  Whole([od EXCEPT !.value = v])
<1>1. CASE v = od.value
  BY <1>1 DEF Whole
<1>2. CASE \E s, data : v = Write(s, data).value
  BY <1>2, WriteKeepsWhole
<1> QED
  BY <1>1, <1>2 DEF Written

(* So does validateAndWriteToOD.                                           *)
LEMMA ValidateWrites ==
  ASSUME NEW s, NEW crc
  PROVE  Written(Validate(s, crc).value)
<1> DEFINE data == IF s.finished THEN Padded(s, s.buf) ELSE s.buf
           size == s.sizeTran + Len(data) - Len(s.buf)
           len  == IF s.finished /\ od.string THEN size ELSE s.len
           w    == Write([s EXCEPT !.len = len], data)
<1>1. Validate(s, crc).value \in {od.value, w.value}
  BY DEF Validate
<1> QED
  BY <1>1 DEF Written

(* So does every handler of a message.                                     *)
LEMMA ReceivedWrites ==
  ASSUME NEW s, NEW f
  PROVE  Written(Received(s, f).value)
<1>1. \A x : Written(Kept(x).value)
  BY DEF Written, Kept
<1>2. Written(DownloadInitiateReq(s, f).value)
  <2> DEFINE data == Padded([s EXCEPT !.sizeTran = 1], f.data)
             w == Write([s EXCEPT !.len = IF od.string THEN Len(data) ELSE LENGTH], data)
             x == Kept(Aborted(s, "DATA_SHORT"))
  <2>1. \/ \E y : DownloadInitiateReq(s, f) = Kept(y)
        \/ DownloadInitiateReq(s, f).value = w.value
    BY DEF DownloadInitiateReq
  <2> QED
    BY <1>1, <2>1 DEF Written
<1>3. Written(DownloadSegmentReq(s, f).value)
  <2> DEFINE t == [s EXCEPT !.finished = f.last, !.buf = s.buf \o f.data,
                          !.sizeTran = s.sizeTran + Len(f.data)]
             v == IF f.last \/ Len(t.buf) = CAPACITY THEN Validate(t, None) ELSE Kept(t)
             r == DownloadSegmentReq(s, f)
  <2>1. (\E y : r = Kept(y)) \/ r = v \/ r = [v EXCEPT !.s.state = "DOWNLOAD_SEGMENT_RSP"]
    BY DEF DownloadSegmentReq
  <2>2. Written(v.value) /\ "value" \in DOMAIN v
    <3>1. Written(Validate(t, None).value) /\ Written(Kept(t).value)
      BY <1>1, ValidateWrites
    <3>2. "value" \in DOMAIN Validate(t, None) /\ "value" \in DOMAIN Kept(t)
      BY DEF Validate, Kept
    <3> QED
      BY <3>1, <3>2
  <2> HIDE DEF v, r
  <2> QED
    BY <1>1, <2>1, <2>2 DEF r
<1>4. Written(DownloadBlkEndReq(s, f).value)
  <2> DEFINE v == Validate(s, [sum |-> f.crc])
             r == DownloadBlkEndReq(s, f)
  <2>1. (\E y : r = Kept(y)) \/ r = v \/ r = [v EXCEPT !.s.state = "DOWNLOAD_BLK_END_RSP"]
    BY DEF DownloadBlkEndReq
  <2>2. Written(v.value) /\ "value" \in DOMAIN v
    <3>1. "value" \in DOMAIN v
      BY DEF Validate
    <3> QED
      BY <3>1, ValidateWrites
  <2> HIDE DEF v, r
  <2> QED
    BY <1>1, <2>1, <2>2 DEF r
<1> QED
  BY <1>1, <1>2, <1>3, <1>4 DEF Received

(* So does every step of CO_SDOserver_process.                             *)
LEMMA ServerWhole ==
  ASSUME Whole(od), CO_SDOserver_process
  PROVE  Whole(od')
<1>1. CASE HandleMessage
  <2>1. \E s, f : od' = [od EXCEPT !.value = Received(s, f).value]
    BY <1>1 DEF HandleMessage
  <2> QED
    BY <2>1, ReceivedWrites, WrittenIs
<1>2. CASE DownloadBlkSubblockRsp
  <2>1. \E v : od' = [od EXCEPT !.value = v.value] /\ v \in {Kept(srv), Validate(srv, None)}
    BY <1>2 DEF DownloadBlkSubblockRsp
  <2>2. Written(Kept(srv).value)
    BY DEF Written, Kept
  <2> QED
    BY <2>1, <2>2, ValidateWrites, WrittenIs
<1>3. \/ HandleMessage \/ DownloadBlkSubblockRsp
      \/ od' = od
  <2>1. \A st, s, f : Answers(st, s, f) => od' = od
    BY DEF Answers
  <2>2. \A s, f : SendsAbort(s, f) => od' = od
    BY <2>1 DEF SendsAbort
  <2>3. UploadSegmentRsp => od' = od
    BY <2>1, <2>2 DEF UploadSegmentRsp
  <2>4. UploadBlkSubblock \/ UploadInitiateRsp => od' = od
    BY <2>1, <2>2 DEF UploadBlkSubblock, UploadInitiateRsp
  <2>5. SendAbort \/ DownloadInitiateRsp \/ DownloadSegmentRsp => od' = od
    BY <2>1, <2>2 DEF SendAbort, DownloadInitiateRsp, DownloadSegmentRsp
  <2>6. DownloadBlkInitiateRsp \/ DownloadBlkEndRsp \/ UploadBlkInitiateRsp => od' = od
    BY <2>1 DEF DownloadBlkInitiateRsp, DownloadBlkEndRsp, UploadBlkInitiateRsp
  <2>7. Enter \/ HandleTimers \/ BufferFull \/ SendNothing \/ UploadBlkEnd \/ UploadBlkEndSent => od' = od
    BY DEF Enter, HandleTimers, BufferFull, SendNothing, UploadBlkEnd, UploadBlkEndSent
  <2> QED
    BY <2>3, <2>4, <2>5, <2>6, <2>7 DEF CO_SDOserver_process
<1>4. CASE od' = od
  BY <1>4
<1> QED
  BY <1>1, <1>2, <1>3, <1>4

(* A call of the client keeps its fields; one that has given up does not   *)
(* end well.                                                               *)
LEMMA ClientCallForms ==
  ASSUME Formed, ClientCall
  PROVE  /\ DOMAIN cli' = DOMAIN Resting
         /\ DOMAIN transfer' = {"n", "kind", "data", "result"} /\ transfer'.n = transfer.n
         /\ cli'.state = "ABORT" => transfer'.result # "ok"
         /\ Live' => Live
<1> DEFINE got == IF cli.rxNew
                  THEN [Understood(cli, cli.rx) EXCEPT !.timer = 0, !.rxNew = FALSE, !.rx = None] ELSE cli
           e == IF cli.rxNew THEN 0 ELSE 1
           c == IF got.state = "ended" THEN got ELSE ClientTimers(got, e)
           out == Transmitted(c)
<1>0. /\ DOMAIN transfer = {"n", "kind", "data", "result"} /\ DOMAIN cli = DOMAIN Resting
      /\ transfer.result = "busy" /\ late' = late
  BY DEF Formed, ClientCall
<1>1. \/ Concluded(cli, "server_abort", None)
      \/ got.state = "ended" /\ Concluded(got, "ok", None)
      \/ cli' = c /\ transfer' = transfer
      \/ Concluded(c, "client_abort", [cs |-> "abort"])
      \/ c.state # "ABORT" /\ Concluded(out.c, "ok", out.f)
      \/ c.state # "ABORT" /\ cli' = out.c /\ transfer' = transfer
  BY DEF ClientCall
<1>2. DOMAIN got = DOMAIN Resting /\ (cli.state = "ABORT" => got.state = "ABORT")
  <2> DEFINE u == Understood(cli, cli.rx)
  <2>1. DOMAIN u = DOMAIN Resting /\ (cli.state = "ABORT" => u.state = "ABORT")
    BY <1>0, UnderstoodDomain
  <2>2. got = IF cli.rxNew THEN [u EXCEPT !.timer = 0, !.rxNew = FALSE, !.rx = None] ELSE cli
    OBVIOUS
  <2> HIDE DEF u, got
  <2> QED
    BY <1>0, <2>1, <2>2 DEF Resting
<1>3. DOMAIN c = DOMAIN Resting /\ (got.state = "ABORT" => c.state = "ABORT")
  <2> HIDE DEF got
  <2>1. TickedClient(got, ClientTimers(got, e))
    BY <1>2, TickedClientIs
  <2> QED
    BY <1>2, <2>1 DEF TickedClient, AlikeClient
<1>4. DOMAIN out.c = DOMAIN Resting
  <2> HIDE DEF c
  <2> QED
    BY <1>3, TransmittedDomain
<1> HIDE DEF got, e, c, out
<1>5. \A x, r, f : Concluded(x, r, f) =>
        /\ DOMAIN cli' = DOMAIN Resting /\ cli'.state = "IDLE"
        /\ DOMAIN transfer' = {"n", "kind", "data", "result"} /\ transfer'.result = r
        /\ transfer'.n = transfer.n
  BY <1>0 DEF Concluded, Resting
<1>6. /\ DOMAIN cli' = DOMAIN Resting
      /\ DOMAIN transfer' = {"n", "kind", "data", "result"} /\ transfer'.n = transfer.n
      /\ cli'.state = "ABORT" => transfer'.result # "ok"
  BY <1>0, <1>1, <1>2, <1>3, <1>4, <1>5
<1>7. ASSUME Live' PROVE cli.state # "ABORT"
  <2>1. transfer'.result \in {"busy", "ok"} /\ cli'.state # "ABORT"
    BY <1>7 DEF Live
  <2>2. CASE got.state = "ended" \/ c.state # "ABORT"
    BY <1>2, <1>3, <2>2
  <2>3. CASE Concluded(cli, "server_abort", None) \/ Concluded(c, "client_abort", [cs |-> "abort"])
    BY <1>5, <2>1, <2>3
  <2>4. CASE cli' = c
    BY <1>2, <1>3, <2>1, <2>4
  <2> QED
    BY <1>1, <2>2, <2>3, <2>4
<1>8. Live' => Live
  BY <1>0, <1>7 DEF Live
<1> QED
  BY <1>6, <1>8

(* So does the receive interrupt of the client.                            *)
LEMMA ClientReceiveForms ==
  ASSUME Formed, CO_SDOclient_receive
  PROVE  DOMAIN cli' = DOMAIN Resting /\ (cli'.state = "ABORT" <=> cli.state = "ABORT")
<1> DEFINE f == Head(toClient)
           c == [cli EXCEPT !.timer = 0, !.blkTimer = 0]
           d == f.data
           st == IF f.seqno = c.blksize THEN "UPLOAD_BLK_SUBBLOCK_CRSP" ELSE c.state
           w == c.fifo \o d
           r == c.crc \o d
           size == c.sizeTran + Len(d)
           u == UploadSegment(c, f)
<1>0. DOMAIN cli = DOMAIN Resting
  BY DEF Formed
<1>1. \/ cli' = cli
      \/ cli' = [cli EXCEPT !.rx = f, !.rxNew = TRUE]
      \/ cli.state = "UPLOAD_BLK_SUBBLOCK_SREQ" /\ cli' = u
  BY DEF CO_SDOclient_receive
<1>2. \/ u = [c EXCEPT !.seqno = f.seqno, !.tail = d, !.finished = TRUE,
                       !.state = "UPLOAD_BLK_SUBBLOCK_CRSP"]
      \/ u = [c EXCEPT !.seqno = f.seqno, !.fifo = w, !.crc = r, !.sizeTran = size, !.state = st]
      \/ u = [c EXCEPT !.state = "UPLOAD_BLK_SUBBLOCK_CRSP"]
      \/ u = c
  BY DEF UploadSegment
<1>3. st \in {"UPLOAD_BLK_SUBBLOCK_CRSP", c.state}
  OBVIOUS
<1>4. DOMAIN c = DOMAIN Resting /\ c.state = cli.state
  BY <1>0 DEF Resting
<1> HIDE DEF f, c, d, st, w, r, size, u
<1>5. CASE cli.state = "UPLOAD_BLK_SUBBLOCK_SREQ" /\ cli' = u
  <2>1. DOMAIN u = DOMAIN Resting
    BY <1>2, <1>4
  <2>2. u.state \in {"UPLOAD_BLK_SUBBLOCK_CRSP", c.state}
    BY <1>2, <1>3, <1>4 DEF Resting
  <2> QED
    BY <1>4, <1>5, <2>1, <2>2
<1> QED
  BY <1>0, <1>1, <1>5 DEF Resting

(* Every step keeps the form of the records.                               *)
LEMMA FormedKeeps ==
  ASSUME Formed, SdoNext
  PROVE  /\ Formed'
         /\ Live' => Live \/ Starts
<1>0. /\ Recorded(srv) /\ DOMAIN cli = DOMAIN Resting /\ DOMAIN transfer = {"n", "kind", "data", "result"} /\ transfer.n \in Nat
      /\ cli.state = "ABORT" => transfer.result # "ok"
  BY DEF Formed
<1>1. CASE Server \/ Interrupt \/ Stopped
  <2>1. Recorded(srv') /\ UNCHANGED <<cli, transfer, late>>
    BY <1>0, <1>1, ServerRecorded, InterruptRecorded DEF Server, Interrupt, Stopped, clientVars
  <2>2. Recorded(srv)'
    BY <2>1 DEF Recorded
  <2> QED
    BY <1>0, <2>1, <2>2 DEF Formed, Live
<1>2. CASE Client
  <2>1. srv' = srv
    BY <1>2 DEF Client, ClientCall, CO_SDOclient_receive
  <2>2. Recorded(srv)'
    BY <1>0, <2>1 DEF Recorded
  <2>3. CASE ClientCall
    BY <2>2, <2>3, ClientCallForms DEF Formed
  <2>4. CASE CO_SDOclient_receive
    <3>1. DOMAIN cli' = DOMAIN Resting /\ (cli'.state = "ABORT" <=> cli.state = "ABORT")
      BY <2>4, ClientReceiveForms
    <3>2. transfer' = transfer /\ late' = late
      BY <2>4 DEF CO_SDOclient_receive
    <3> QED
      BY <1>0, <2>2, <3>1, <3>2 DEF Formed, Live
  <2> QED
    BY <1>2, <2>3, <2>4 DEF Client
<1>3. CASE Application
  <2>1. /\ srv' = srv /\ late' = late /\ cli' = [cli EXCEPT !.fifo = <<>>]
        /\ transfer' = [transfer EXCEPT !.data = @ \o cli.fifo]
    BY <1>3 DEF Application, BufRead
  <2>2. /\ DOMAIN cli' = DOMAIN Resting /\ cli'.state = cli.state
    BY <1>0, <2>1 DEF Resting
  <2>3. /\ DOMAIN transfer' = {"n", "kind", "data", "result"} /\ transfer'.result = transfer.result
        /\ transfer'.n = transfer.n
    BY <1>0, <2>1
  <2>4. Recorded(srv)'
    BY <1>0, <2>1 DEF Recorded
  <2> QED
    BY <1>0, <2>1, <2>2, <2>3, <2>4 DEF Formed, Live
<1>4. CASE Starts
  <2>1. PICK r \in Request[transfer.n + 1] : Initiate(r)
    BY <1>4 DEF Starts
  <2>2. /\ srv' = srv
        /\ \E k, d : transfer' = [n |-> transfer.n + 1, kind |-> k, data |-> d, result |-> "busy"]
    BY <2>1 DEF Initiate
  <2>3. \E i, d, st : cli' = [Resting EXCEPT !.sizeInd = i, !.fifo = d, !.state = st]
    BY <2>1 DEF Initiate
  <2>4. DOMAIN cli' = DOMAIN Resting
    BY <2>3
  <2>5. DOMAIN transfer' = {"n", "kind", "data", "result"} /\ transfer'.result = "busy" /\ transfer'.n \in Nat
    BY <1>0, <2>2
  <2>6. Recorded(srv)'
    BY <1>0, <2>2 DEF Recorded
  <2> QED
    BY <1>4, <2>4, <2>5, <2>6 DEF Formed
<1>5. CASE Lose
  <2>1. UNCHANGED <<srv, cli, transfer, late>>
    BY <1>5 DEF Lose
  <2>2. Recorded(srv)'
    BY <1>0, <2>1 DEF Recorded
  <2> QED
    BY <1>0, <2>1, <2>2 DEF Formed, Live
<1> QED
  BY <1>1, <1>2, <1>3, <1>4, <1>5 DEF SdoNext
-----------------------------------------------------------------------------
(* The theorems.                                                           *)

(* The inductive invariant.                                                *)
LEMMA SdoInvInit ==
  SdoInit => SdoInv
<1> SUFFICES ASSUME SdoInit PROVE SdoInv
  OBVIOUS
<1>1. /\ srv = Idle /\ cli = Resting /\ late = FALSE /\ toServer = <<>> /\ toClient = <<>>
      /\ transfer = [n |-> 0, kind |-> "none", data |-> <<>>, result |-> "ok"]
      /\ od \in [string : BOOLEAN, value : {Data(0, "none", LENGTH)}]
  BY DEF SdoInit, ServerInit, ClientInit
<1>2. Whole(od)
  BY <1>1 DEF Whole, Data
<1>3. Recorded(srv)
  BY <1>1 DEF Recorded, Idle
<1>4. /\ cli.state = "IDLE" /\ cli.rxNew = FALSE /\ cli.finished = FALSE /\ cli.fifo = <<>> /\ cli.tail = <<>>
      /\ srv.rxNew = FALSE /\ DOMAIN cli = DOMAIN Resting
      /\ transfer.kind = "none" /\ transfer.data = <<>> /\ transfer.result = "ok"
      /\ DOMAIN transfer = {"n", "kind", "data", "result"} /\ transfer.n \in Nat
  BY <1>1 DEF Idle, Resting
<1>5. Formed
  BY <1>3, <1>4 DEF Formed
<1>6. ServerOk(srv, od) /\ Rests(srv)
  BY <1>1, IdleIs DEF ServerOk
<1>7. ClientOk(cli, transfer)
  BY <1>4, EmptyIs DEF ClientOk
<1>8. BusInv
  <2>1. DOMAIN <<>> = {}
    OBVIOUS
  <2> QED
    BY <1>1, <1>4, <2>1, EmptyIs DEF BusInv, BusOk
<1>9. Linked(cli, None, None, srv, od, transfer)
  BY <1>4, <1>6 DEF Linked, Silence, Transferred
<1>10. /\ Carries(Requests, srv.rxNew, srv.rx, toServer, None)
       /\ Carries(Responses, cli.rxNew, cli.rx, toClient, None)
  BY <1>1, <1>4 DEF Carries
<1>11. LinkInv
  BY <1>9, <1>10, CarriesIs DEF LinkInv
<1> QED
  BY <1>2, <1>5, <1>6, <1>7, <1>8, <1>11 DEF SdoInv, Joint

(* Every step keeps it.                                                    *)
LEMMA SdoInvStep ==
  SdoInv /\ [SdoNext]_sdoVars => SdoInv'
<1> SUFFICES ASSUME SdoInv, [SdoNext]_sdoVars PROVE SdoInv'
  OBVIOUS
<1>0. Whole(od) /\ Formed
  BY DEF SdoInv
<1>1. CASE SdoNext
  <2>1. Formed' /\ (Live' => Live \/ Starts)
    BY <1>0, <1>1, FormedKeeps
  <2>2. Whole(od)'
    <3>1. Whole(od')
      <4>1. CASE Server
        BY <1>0, <4>1, ServerWhole DEF Server
      <4>2. CASE ~Server
        <5>1. od' = od
          BY <1>1, <4>2 DEF SdoNext, Interrupt, Stopped, Client, Application, Starts, Lose,
            CO_SDO_receive, ReceiveAbort, ReceiveLost, ReceiveEnd, ReceiveSegment, ReceiveMessage,
            Arrives, NotOperational, ClientCall, CO_SDOclient_receive, BufRead, Initiate
        <5> QED
          BY <1>0, <5>1
      <4> QED
        BY <4>1, <4>2
    <3> QED
      BY <3>1 DEF Whole
  <2>3. ASSUME Live' PROVE Joint'
    <3>1. CASE Starts
      <4>1. PICK r \in Request[transfer.n + 1] : transfer.n < Len(Request) /\ Initiate(r)
        BY <3>1 DEF Starts
      <4>2. r \in Asked
        <5>1. transfer.n \in Nat
          BY <1>0 DEF Formed
        <5>2. transfer.n + 1 \in 1..Len(Request) /\ Request \in Seq(SUBSET Asked)
          BY <4>1, <5>1, SdoAssumption DEF Asked
        <5>3. Request[transfer.n + 1] \in SUBSET Asked
          <6> HIDE DEF Asked
          <6> QED
            BY <5>2
        <5> QED
          BY <4>1, <5>3
      <4> QED
        BY <2>3, <4>1, <4>2, InitiateKeeps
    <3>2. CASE ~Starts
      <4>1. Live
        BY <2>1, <2>3, <3>2 DEF Starts
      <4>2. PICK q, p : Fits(q, p)
        BY <1>0, <4>1, JointFits DEF SdoInv
      <4>3. Recorded(srv)
        BY <1>0 DEF Formed
      <4>4. CASE Server
        BY <4>2, <4>3, <4>4, ServerKeeps DEF Server, clientVars
      <4>5. CASE Interrupt
        BY <4>2, <4>5, InterruptKeeps DEF Interrupt, clientVars
      <4>6. CASE Stopped
        BY <4>2, <4>6, NotOperationalKeeps DEF Stopped, clientVars
      <4>7. CASE Client
        BY <1>0, <2>3, <4>2, <4>7, ClientCallKeeps, ClientReceiveKeeps DEF Client
      <4>8. CASE Application
        BY <1>0, <4>2, <4>8, BufReadKeeps DEF Application
      <4>9. CASE Lose
        BY <4>2, <4>9, LoseKeeps
      <4> QED
        BY <1>1, <3>2, <4>4, <4>5, <4>6, <4>7, <4>8, <4>9 DEF SdoNext
    <3> QED
      BY <3>1, <3>2
  <2> QED
    BY <2>1, <2>2, <2>3 DEF SdoInv
<1>2. CASE UNCHANGED sdoVars
  BY <1>2 DEF SdoInv, sdoVars, Whole, Formed, Recorded, Live, Joint, ServerOk, ClientOk, BusInv, LinkInv
<1> QED
  BY <1>1, <1>2

(* What the server has confirmed is stored, and what an upload brought is  *)
(* what the object holds, as long as no transfer was started on the rest   *)
(* of one that was given up.                                               *)
LEMMA SdoInvMeans ==
  SdoInv => ConfirmedIsStored /\ UploadedIsStored
<1>0. ASSUME NEW d \in Uploaded(od)
      PROVE  \E n \in 1..LENGTH : Ends(od, n) /\ d = SubSeq(od.value, 1, n)
  BY DEF Uploaded
<1> SUFFICES ASSUME SdoInv, transfer.result = "ok", ~late
             PROVE  /\ transfer.kind \in {"download", "download_block"} => Stored(od, transfer)
                    /\ transfer.kind \in {"upload", "upload_block"} =>
                         Rcvd(cli, transfer) \in Uploaded(od)
  BY <1>0 DEF ConfirmedIsStored, UploadedIsStored, Stored, Rcvd
<1>1. Live
  BY DEF SdoInv, Formed, Live
<1>2. PICK q, p : Fits(q, p)
  BY <1>1, JointFits DEF SdoInv
<1>3. cli.state = "IDLE"
  BY <1>2 DEF Fits, ClientOk
<1>4. Transferred(cli, od, transfer)
  BY <1>2, <1>3 DEF Fits, Linked
<1> QED
  BY <1>4 DEF Transferred

(* The invariant holds throughout.                                         *)
THEOREM SdoInvAlways == SdoSpec => []SdoInv
  BY SdoInvInit, SdoInvStep, PTL DEF SdoSpec

(* A download of any kind that the client reports as ended well            *)
(* (CO_SDOclientDownload returns CO_SDO_RT_ok_communicationEnd) is what    *)
(* the object holds, for objects, buffers, channels and time-outs of every *)
(* size, whatever the bus loses and whichever requests the application     *)
(* makes, if none was started on the rest of one that was given up.        *)
THEOREM ConfirmedIsStoredAlways == SdoSpec => []ConfirmedIsStored
  BY SdoInvAlways, SdoInvMeans, PTL

(* An upload that the client reports as ended well has brought the units   *)
(* the object holds, under the same conditions.                            *)
THEOREM UploadedIsStoredAlways == SdoSpec => []UploadedIsStored
  BY SdoInvAlways, SdoInvMeans, PTL
=============================================================================
