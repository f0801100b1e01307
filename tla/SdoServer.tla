----------------------------- MODULE SdoServer -----------------------------
(***************************************************************************)
(* The SDO server of the stack (CO_SDOserver.c) in front of one object.    *)
(* A unit of data is what one segment carries; an object of one unit is    *)
(* what fits into an expedited frame.  CO_SDO_receive runs in the receive  *)
(* interrupt, also between the steps of CO_SDOserver_process: "seen" is    *)
(* the state as a switch statement has read it, which the interrupt may    *)
(* have set to idle before the statement's branch assigns the next one.    *)
(***************************************************************************)
EXTENDS Integers, Sequences

CONSTANTS
  LENGTH,           (* units of the object                                 *)
  CAPACITY,         (* whole units in CO_CONFIG_SDO_SRV_BUFFER_SIZE: the   *)
                    (* default of 32 bytes is four segments and a rest     *)
  SRV_TIMEOUT,      (* calls without a message before SDOtimeoutTime_us    *)
  SRV_BLK_TIMEOUT,  (* and before block_SDOtimeoutTime_us                  *)
  CHANNEL           (* frames under way before the buffer counts as full   *)

VARIABLES
  srv,        (* the CO_SDOserver_t                                        *)
  od,         (* the object: its units, and whether it is a string         *)
  toServer, toClient   (* frames on their way                              *)

CO_SDO_state_t ==
  {"IDLE", "ABORT", "DOWNLOAD_INITIATE_REQ", "DOWNLOAD_INITIATE_RSP",
   "DOWNLOAD_SEGMENT_REQ", "DOWNLOAD_SEGMENT_RSP", "UPLOAD_INITIATE_REQ",
   "UPLOAD_INITIATE_RSP", "UPLOAD_SEGMENT_REQ", "UPLOAD_SEGMENT_RSP",
   "DOWNLOAD_BLK_INITIATE_REQ", "DOWNLOAD_BLK_INITIATE_RSP",
   "DOWNLOAD_BLK_SUBBLOCK_REQ", "DOWNLOAD_BLK_SUBBLOCK_RSP",
   "DOWNLOAD_BLK_END_REQ", "DOWNLOAD_BLK_END_RSP", "UPLOAD_BLK_INITIATE_REQ",
   "UPLOAD_BLK_INITIATE_RSP", "UPLOAD_BLK_INITIATE_REQ2",
   "UPLOAD_BLK_SUBBLOCK_SREQ", "UPLOAD_BLK_SUBBLOCK_CRSP",
   "UPLOAD_BLK_END_SREQ", "UPLOAD_BLK_END_CRSP"}

Zero == [kind |-> "zero"]       \* the unit that ends a string
None == [cs |-> "none"]

(* Everything but the mailbox is set up by the transfer that uses it, so   *)
(* it has one value between transfers.                                     *)
Idle == [state |-> "IDLE", pc |-> "out", seen |-> "IDLE", isNew |-> FALSE,
         code |-> "none", toggle |-> 0, finished |-> FALSE, sizeInd |-> 0,
         sizeTran |-> 0, buf |-> <<>>, rd |-> 0, off |-> 0, len |-> 0,
         timer |-> 0, blkTimer |-> 0, blksize |-> 0, seqno |-> 0,
         crc |-> <<>>, rxNew |-> FALSE, rx |-> None]
Rest(s) == [Idle EXCEPT !.rxNew = s.rxNew, !.rx = s.rx]
Aborted(s, c) == [s EXCEPT !.state = "ABORT", !.code = c]

ServerInit == srv = Idle
-----------------------------------------------------------------------------
(* OD_writeOriginal: the units go behind those of the writes before; the   *)
(* rest of the object stays.                                               *)
Write(s, data) ==
  LET left == s.len - s.off IN
  IF left < Len(data)
  THEN [ret |-> "DATA_LONG", value |-> od.value, off |-> 0]
  ELSE [ret |-> IF left > Len(data) THEN "PARTIAL" ELSE "OK",
        value |-> [i \in DOMAIN od.value |->
                     IF i - s.off \in DOMAIN data THEN data[i - s.off]
                                                  ELSE od.value[i]],
        off |-> IF left > Len(data) THEN s.off + Len(data) ELSE 0]

(* A short string is written with the zeros that end it.                   *)
Padded(s, data) ==
  IF ~od.string THEN data
  ELSE LET room == LENGTH - s.sizeTran
       IN  data \o [i \in 1..(IF room > 2 THEN 2 ELSE room) |-> Zero]

(* Mutant: a block download is not verified by its checksum.               *)
ValidateUnchecked(s, crc) ==
  LET sum  == s.crc \o s.buf
      data == IF s.finished THEN Padded(s, s.buf) ELSE s.buf
      size == s.sizeTran + Len(data) - Len(s.buf)
      len  == IF s.finished /\ od.string THEN size ELSE s.len
      w    == Write([s EXCEPT !.len = len], data)
      bad  == IF s.sizeInd > 0 /\ s.sizeTran > s.sizeInd THEN "DATA_LONG"
              ELSE IF s.finished /\ s.sizeInd > 0 /\ s.sizeTran < s.sizeInd
                   THEN "DATA_SHORT"
              ELSE IF s.finished /\ size > s.len THEN "DATA_LONG"
              ELSE IF s.finished /\ size < len THEN "DATA_SHORT"
              ELSE "none"
      odd  == IF w.ret = "DATA_LONG" THEN w.ret
              ELSE IF s.finished /\ w.ret = "PARTIAL" THEN "DATA_SHORT"
              ELSE IF ~s.finished /\ w.ret = "OK" THEN "DATA_LONG" ELSE "none"
      done == [s EXCEPT !.buf = <<>>, !.off = w.off, !.crc = sum, !.sizeTran = size]
  IN  IF bad # "none" THEN [s |-> Aborted(s, bad), value |-> od.value]
      ELSE [s |-> IF odd # "none" THEN Aborted(done, odd) ELSE done, value |-> w.value]

(* validateAndWriteToOD: the buffer goes to the object.  The client's      *)
(* checksum is compared at the end of a block download only; it stands     *)
(* here for the data it is calculated from.                                *)
Validate(s, crc) ==
  LET sum  == s.crc \o s.buf
      data == IF s.finished THEN Padded(s, s.buf) ELSE s.buf
      size == s.sizeTran + Len(data) - Len(s.buf)
      len  == IF s.finished /\ od.string THEN size ELSE s.len
      w    == Write([s EXCEPT !.len = len], data)
      bad  == IF s.sizeInd > 0 /\ s.sizeTran > s.sizeInd THEN "DATA_LONG"
              ELSE IF s.finished /\ s.sizeInd > 0 /\ s.sizeTran < s.sizeInd
                   THEN "DATA_SHORT"
              ELSE IF s.finished /\ size > s.len THEN "DATA_LONG"
              ELSE IF s.finished /\ size < len THEN "DATA_SHORT"
              ELSE IF crc # None /\ crc.sum # sum THEN "CRC" ELSE "none"
      odd  == IF w.ret = "DATA_LONG" THEN w.ret
              ELSE IF s.finished /\ w.ret = "PARTIAL" THEN "DATA_SHORT"
              ELSE IF ~s.finished /\ w.ret = "OK" THEN "DATA_LONG" ELSE "none"
      done == [s EXCEPT !.buf = <<>>, !.off = w.off, !.crc = sum, !.sizeTran = size]
  IN  IF bad # "none" THEN [s |-> Aborted(s, bad), value |-> od.value]
      ELSE [s |-> IF odd # "none" THEN Aborted(done, odd) ELSE done, value |-> w.value]

(* A read of up to room units from off on: the zeros that end a string are *)
(* looked for in what this read has brought, and one unit counts always.   *)
Terminators(off, room) == {i \in 1..room : od.string /\ od.value[off + i] = Zero}
Brought(off, room) ==
  LET ends == Terminators(off, room)
  IN  IF ends = {} THEN room
      ELSE IF 1 \in ends THEN 1
      ELSE (CHOOSE i \in ends : \A j \in ends : i <= j) - 1

(* readFromOd: the buffer is refilled when it holds less than min units.   *)
Refill(s, min) ==
  LET held == SubSeq(s.buf, s.rd + 1, Len(s.buf))
      free == CAPACITY - Len(held)
      room == IF LENGTH - s.off < free THEN LENGTH - s.off ELSE free
      n    == Brought(s.off, room)
      more == SubSeq(od.value, s.off + 1, s.off + n)
      full == [s EXCEPT !.buf = held \o more, !.rd = 0, !.off = s.off + n,
                        !.finished = (Terminators(s.off, room) # {} \/ s.off + n = LENGTH),
                        !.crc = s.crc \o more]
  IN  IF s.finished \/ Len(held) >= min THEN s
      ELSE IF ~full.finished /\ Len(full.buf) < min
           THEN Aborted(full, "DEVICE_INCOMPAT") ELSE full
-----------------------------------------------------------------------------
(* CO_SDO_receive.                                                         *)
Arrives ==
  /\ toServer # <<>>
  /\ toServer' = Tail(toServer)
  /\ UNCHANGED <<od, toClient>>

ReceiveAbort ==
  /\ Arrives /\ Head(toServer).cs = "abort"
  /\ srv' = [srv EXCEPT !.state = "IDLE"]

ReceiveLost ==      \* the mailbox is full, or a sub-block is being answered
  /\ Arrives /\ Head(toServer).cs # "abort"
  /\ srv.rxNew \/ srv.state = "DOWNLOAD_BLK_SUBBLOCK_RSP"
  /\ UNCHANGED srv

ReceiveEnd ==
  /\ Arrives /\ Head(toServer).cs = "ulBlkEndAck"
  /\ ~srv.rxNew /\ srv.state = "UPLOAD_BLK_END_CRSP"
  /\ srv' = [srv EXCEPT !.state = "IDLE"]

(* A segment of a sub-block in the order of the sequence numbers; another  *)
(* one ends the sub-block, unless it repeats the last or none has come.    *)
Segment(s, f) ==
  LET next == f.cs = "dlSub" /\ f.seqno = s.seqno + 1 /\ f.seqno <= s.blksize
      same == f.cs = "dlSub" /\ f.seqno = s.seqno
  IN  IF next
      THEN [s EXCEPT !.seqno = f.seqno, !.buf = s.buf \o f.data,
                     !.sizeTran = s.sizeTran + Len(f.data), !.finished = f.last,
                     !.state = IF f.last \/ f.seqno = s.blksize
                               THEN "DOWNLOAD_BLK_SUBBLOCK_RSP" ELSE @]
      ELSE IF ~same /\ s.seqno # 0
           THEN [s EXCEPT !.state = "DOWNLOAD_BLK_SUBBLOCK_RSP"] ELSE s

ReceiveSegment ==
  /\ Arrives /\ Head(toServer).cs # "abort"
  /\ ~srv.rxNew /\ srv.state = "DOWNLOAD_BLK_SUBBLOCK_REQ"
  /\ srv' = Segment([srv EXCEPT !.timer = 0, !.blkTimer = 0], Head(toServer))

ReceiveMessage ==
  /\ Arrives /\ Head(toServer).cs # "abort"
  /\ ~(srv.state = "UPLOAD_BLK_END_CRSP" /\ Head(toServer).cs = "ulBlkEndAck")
  /\ ~srv.rxNew
  /\ srv.state \notin {"DOWNLOAD_BLK_SUBBLOCK_REQ", "DOWNLOAD_BLK_SUBBLOCK_RSP"}
  /\ srv' = [srv EXCEPT !.rx = Head(toServer), !.rxNew = TRUE]

CO_SDO_receive ==
  \/ ReceiveAbort \/ ReceiveLost \/ ReceiveEnd \/ ReceiveSegment \/ ReceiveMessage
-----------------------------------------------------------------------------
(* CO_SDOserver_process: the handlers of a message, by state.  A handler   *)
(* that writes the object returns its value, too.                          *)
Kept(s) == [s |-> s, value |-> od.value]

Initiated(s, size, string) ==    \* the size a client announces
  IF size > LENGTH THEN Aborted(s, "DATA_LONG")
  ELSE IF size # 0 /\ size < LENGTH /\ ~string THEN Aborted(s, "DATA_SHORT")
  ELSE [s EXCEPT !.sizeInd = size, !.finished = FALSE]

DownloadInitiateReq(s, f) ==
  IF ~f.expedited
  THEN LET i == Initiated(s, f.size, od.string)
       IN  Kept(IF i.state = "ABORT" THEN i ELSE [i EXCEPT !.state = "DOWNLOAD_INITIATE_RSP"])
  ELSE LET data == Padded([s EXCEPT !.sizeTran = 1], f.data)
           w == Write([s EXCEPT !.len = IF od.string THEN Len(data) ELSE LENGTH], data)
       IN  IF w.ret # "OK"
           THEN Kept(Aborted(s, "DATA_SHORT"))
           ELSE [s |-> [s EXCEPT !.state = "DOWNLOAD_INITIATE_RSP", !.finished = TRUE],
                 value |-> w.value]

(* Mutant: the toggle bit is not verified, and the buffer is not checked.  *)
DownloadSegmentBackwards(s, f) ==
  IF f.cs # "dlSeg" THEN Kept(Aborted(s, "CMD"))
  ELSE LET t == [s EXCEPT !.finished = f.last, !.buf = f.data \o s.buf,
                          !.sizeTran = s.sizeTran + Len(f.data)]
           v == IF f.last \/ Len(t.buf) = CAPACITY THEN Validate(t, None) ELSE Kept(t)
       IN  IF t.sizeTran > s.len THEN Kept(Aborted(t, "DATA_LONG"))
           ELSE IF v.s.state = "ABORT" THEN v
           ELSE [v EXCEPT !.s.state = "DOWNLOAD_SEGMENT_RSP"]

DownloadSegmentReq(s, f) ==
  IF f.cs # "dlSeg" THEN Kept(Aborted(s, "CMD"))
  ELSE IF f.toggle # s.toggle THEN Kept(Aborted(s, "TOGGLE_BIT"))
  ELSE LET t == [s EXCEPT !.finished = f.last, !.buf = s.buf \o f.data,
                          !.sizeTran = s.sizeTran + Len(f.data)]
           v == IF f.last \/ Len(t.buf) = CAPACITY THEN Validate(t, None) ELSE Kept(t)
       IN  IF t.sizeTran > s.len THEN Kept(Aborted(t, "DATA_LONG"))
           ELSE IF v.s.state = "ABORT" THEN v
           ELSE [v EXCEPT !.s.state = "DOWNLOAD_SEGMENT_RSP"]

UploadSegmentReq(s, f) ==
  IF f.cs # "ulSeg" THEN Aborted(s, "CMD")
  ELSE IF f.toggle # s.toggle THEN Aborted(s, "TOGGLE_BIT")
  ELSE [s EXCEPT !.state = "UPLOAD_SEGMENT_RSP"]

DownloadBlkInitiateReq(s, f) ==
  LET i == Initiated(s, f.size, od.string)
  IN  IF i.state = "ABORT" THEN i ELSE [i EXCEPT !.state = "DOWNLOAD_BLK_INITIATE_RSP"]

DownloadBlkEndReq(s, f) ==
  IF f.cs # "dlBlkEnd" THEN Kept(Aborted(s, "CMD"))
  ELSE LET v == Validate(s, [sum |-> f.crc])
       IN  IF v.s.state = "ABORT" THEN v ELSE [v EXCEPT !.s.state = "DOWNLOAD_BLK_END_RSP"]

UploadBlkInitiateReq(s, f) ==
  IF s.sizeInd \in 1..f.pst    \* the client's threshold
  THEN [s EXCEPT !.state = "UPLOAD_INITIATE_RSP"]
  ELSE IF ~s.finished /\ Len(s.buf) < f.blksize THEN Aborted(s, "DEVICE_INCOMPAT")
  ELSE [s EXCEPT !.blksize = f.blksize, !.state = "UPLOAD_BLK_INITIATE_RSP"]

UploadBlkInitiateReq2(s, f) ==
  IF f.cs # "ulBlkStart" THEN Aborted(s, "CMD")
  ELSE [s EXCEPT !.seqno = 0, !.state = "UPLOAD_BLK_SUBBLOCK_SREQ"]

(* The client's answer to a sub-block: what it has missed is sent again.   *)
UploadBlkResponse(s, f) ==
  IF f.cs # "ulBlkAck" \/ f.ackseq > s.seqno THEN Aborted(s, "CMD")
  ELSE LET missed == s.seqno - f.ackseq
           t == Refill([s EXCEPT !.blksize = f.blksize, !.rd = @ - missed,
                                 !.sizeTran = @ - missed], f.blksize)
       IN  IF t.state = "ABORT" THEN t
           ELSE IF t.rd = Len(t.buf) THEN [t EXCEPT !.state = "UPLOAD_BLK_END_SREQ"]
           ELSE [t EXCEPT !.seqno = 0, !.state = "UPLOAD_BLK_SUBBLOCK_SREQ"]

(* A message in the idle state: the object is looked up, and its data is   *)
(* read ahead for an upload.                                               *)
Opened(s, f) ==
  LET t  == [Rest(s) EXCEPT !.len = LENGTH]
      ul == Refill(t, 1)
      up == IF ul.state = "ABORT" THEN ul
            ELSE [ul EXCEPT !.sizeInd = IF ul.finished THEN Len(ul.buf)
                                        ELSE IF od.string THEN 0 ELSE LENGTH]
      To(x, st) == IF x.state = "ABORT" THEN x ELSE [x EXCEPT !.state = st]
  IN  CASE f.cs = "dlInit"    -> To(t, "DOWNLOAD_INITIATE_REQ")
        [] f.cs = "dlBlkInit" -> To(t, "DOWNLOAD_BLK_INITIATE_REQ")
        [] f.cs = "ulInit"    -> To(up, "UPLOAD_INITIATE_REQ")
        [] f.cs = "ulBlkInit" -> To(up, "UPLOAD_BLK_INITIATE_REQ")
        [] OTHER -> Aborted(t, "CMD")

Received(s, f) ==
  CASE s.state = "ABORT"                     -> Kept(s)
    [] s.state = "DOWNLOAD_INITIATE_REQ"     -> DownloadInitiateReq(s, f)
    [] s.state = "DOWNLOAD_SEGMENT_REQ"      -> DownloadSegmentReq(s, f)
    [] s.state = "UPLOAD_INITIATE_REQ"       -> Kept([s EXCEPT !.state = "UPLOAD_INITIATE_RSP"])
    [] s.state = "UPLOAD_SEGMENT_REQ"        -> Kept(UploadSegmentReq(s, f))
    [] s.state = "DOWNLOAD_BLK_INITIATE_REQ" -> Kept(DownloadBlkInitiateReq(s, f))
    [] s.state = "DOWNLOAD_BLK_SUBBLOCK_REQ" -> Kept(s)
    [] s.state = "DOWNLOAD_BLK_END_REQ"      -> DownloadBlkEndReq(s, f)
    [] s.state = "UPLOAD_BLK_INITIATE_REQ"   -> Kept(UploadBlkInitiateReq(s, f))
    [] s.state = "UPLOAD_BLK_INITIATE_REQ2"  -> Kept(UploadBlkInitiateReq2(s, f))
    [] s.state \in {"UPLOAD_BLK_SUBBLOCK_SREQ", "UPLOAD_BLK_SUBBLOCK_CRSP"}
                                             -> Kept(UploadBlkResponse(s, f))
    [] OTHER                                 -> Kept(Aborted(s, "CMD"))

(* The timers; elapsed is 0 in a call that has handled a message.          *)
Timers(s, elapsed) ==
  LET timer == IF s.timer < SRV_TIMEOUT THEN s.timer + elapsed ELSE s.timer
      t == IF timer >= SRV_TIMEOUT THEN Aborted([s EXCEPT !.timer = timer], "TIMEOUT")
           ELSE [s EXCEPT !.timer = timer]
      blk == t.blkTimer + elapsed
  IN  IF t.state # "DOWNLOAD_BLK_SUBBLOCK_REQ" THEN t
      ELSE IF blk >= SRV_BLK_TIMEOUT
           THEN [t EXCEPT !.blkTimer = blk, !.rxNew = FALSE, !.rx = None,
                          !.state = "DOWNLOAD_BLK_SUBBLOCK_RSP"]
           ELSE [t EXCEPT !.blkTimer = blk]
-----------------------------------------------------------------------------
(* The steps of CO_SDOserver_process.                                      *)
Enter ==
  /\ srv.pc = "out"
  /\ srv.state # "IDLE" \/ srv.rxNew
  /\ srv' = [srv EXCEPT !.pc = "handle", !.isNew = srv.rxNew, !.seen = srv.state,
                        !.code = "none"]
  /\ UNCHANGED <<od, toServer, toClient>>

(* In another state of the network the server is idle.                     *)
NotOperational ==
  /\ srv.pc = "out" /\ (srv.state # "IDLE" \/ srv.rxNew)
  /\ srv' = Idle
  /\ UNCHANGED <<od, toServer, toClient>>

HandleMessage ==
  /\ srv.pc = "handle" /\ srv.isNew
  /\ \E st \in {srv.seen, srv.state} :
       LET s == IF st = "IDLE" THEN Opened(srv, srv.rx) ELSE [srv EXCEPT !.state = st]
           r == Received(s, srv.rx)
           t == Timers([r.s EXCEPT !.timer = 0, !.rxNew = FALSE, !.rx = None], 0)
       IN  /\ srv' = [t EXCEPT !.pc = "send", !.seen = t.state, !.isNew = FALSE]
           /\ od' = [od EXCEPT !.value = r.value]
  /\ UNCHANGED <<toServer, toClient>>

HandleTimers ==
  /\ srv.pc = "handle" /\ ~srv.isNew
  /\ LET t == Timers(srv, 1)
     IN  srv' = [t EXCEPT !.pc = "send", !.seen = t.state]
  /\ UNCHANGED <<od, toServer, toClient>>

(* With the previous answer still in its buffer nothing is sent: the call  *)
(* ends, and with it the reason of an abort is forgotten.                  *)
BufferFull ==
  /\ srv.pc = "send" /\ Len(toClient) = CHANNEL
  /\ srv' = [srv EXCEPT !.pc = "out"]
  /\ UNCHANGED <<od, toServer, toClient>>

Answers(st, s, f) ==
  /\ toClient' = Append(toClient, f)
  /\ srv' = IF st = "IDLE" THEN Rest(s)
            ELSE [s EXCEPT !.state = st, !.pc = "out", !.seen = "IDLE", !.code = "none"]
  /\ UNCHANGED <<od, toServer>>
SendsAbort(s, c) == Answers("IDLE", s, [cs |-> "abort", code |-> c])

Sending(st) ==
  /\ srv.pc = "send" /\ Len(toClient) < CHANNEL
  /\ st \in {srv.seen, srv.state}

SendNothing ==
  /\ \E st \in {"IDLE", "DOWNLOAD_SEGMENT_REQ", "UPLOAD_SEGMENT_REQ",
               "DOWNLOAD_BLK_SUBBLOCK_REQ", "DOWNLOAD_BLK_END_REQ",
               "UPLOAD_BLK_INITIATE_REQ2", "UPLOAD_BLK_SUBBLOCK_CRSP",
               "UPLOAD_BLK_END_CRSP"} : Sending(st)
  /\ srv' = IF srv.state = "IDLE" THEN Rest(srv) ELSE [srv EXCEPT !.pc = "out", !.seen = "IDLE"]
  /\ UNCHANGED <<od, toServer, toClient>>

SendAbort ==
  /\ Sending("ABORT")
  /\ SendsAbort(srv, srv.code)

DownloadInitiateRsp ==
  /\ Sending("DOWNLOAD_INITIATE_RSP")
  /\ Answers(IF srv.finished THEN "IDLE" ELSE "DOWNLOAD_SEGMENT_REQ",
             [srv EXCEPT !.timer = 0, !.toggle = 0, !.sizeTran = 0, !.buf = <<>>, !.rd = 0],
             [cs |-> "dlInitRsp"])

DownloadSegmentRsp ==
  /\ Sending("DOWNLOAD_SEGMENT_RSP")
  /\ Answers(IF srv.finished THEN "IDLE" ELSE "DOWNLOAD_SEGMENT_REQ",
             [srv EXCEPT !.timer = 0, !.toggle = 1 - @],
             [cs |-> "dlSegRsp", toggle |-> srv.toggle])

UploadInitiateRsp ==
  /\ Sending("UPLOAD_INITIATE_RSP")
  /\ IF srv.sizeInd = 1
     THEN Answers("IDLE", srv, [cs |-> "ulInitRsp", expedited |-> TRUE,
                                size |-> 1, data |-> srv.buf])
     ELSE Answers("UPLOAD_SEGMENT_REQ", [srv EXCEPT !.toggle = 0, !.timer = 0],
                  [cs |-> "ulInitRsp", expedited |-> FALSE,
                   size |-> srv.sizeInd, data |-> <<>>])

(* Mutant: the last unit of the buffer ends the upload.                    *)
UploadSegmentRspEarly ==
  /\ Sending("UPLOAD_SEGMENT_RSP")
  /\ LET s == Refill(srv, 1)
         left == Len(s.buf) - s.rd
         last == left = 0 \/ left = 1
         data == IF left = 0 THEN <<>> ELSE <<s.buf[s.rd + 1]>>
         size == s.sizeTran + Len(data)
     IN  IF s.state = "ABORT" THEN SendsAbort(s, s.code)
         ELSE IF last /\ s.sizeInd > size THEN SendsAbort(s, "DATA_SHORT")
         ELSE Answers(IF last THEN "IDLE" ELSE "UPLOAD_SEGMENT_REQ",
                      [s EXCEPT !.toggle = 1 - @, !.timer = 0, !.rd = @ + Len(data),
                                !.sizeTran = size],
                      [cs |-> "ulSegRsp", toggle |-> s.toggle, data |-> data, last |-> last])

UploadSegmentRsp ==
  /\ Sending("UPLOAD_SEGMENT_RSP")
  /\ LET s == Refill(srv, 1)
         left == Len(s.buf) - s.rd
         last == left = 0 \/ (s.finished /\ left = 1)
         data == IF left = 0 THEN <<>> ELSE <<s.buf[s.rd + 1]>>
         size == s.sizeTran + Len(data)
     IN  IF s.state = "ABORT" THEN SendsAbort(s, s.code)
         ELSE IF last /\ s.sizeInd > size THEN SendsAbort(s, "DATA_SHORT")
         ELSE Answers(IF last THEN "IDLE" ELSE "UPLOAD_SEGMENT_REQ",
                      [s EXCEPT !.toggle = 1 - @, !.timer = 0, !.rd = @ + Len(data),
                                !.sizeTran = size],
                      [cs |-> "ulSegRsp", toggle |-> s.toggle, data |-> data, last |-> last])

DownloadBlkInitiateRsp ==
  /\ Sending("DOWNLOAD_BLK_INITIATE_RSP")
  /\ Answers("DOWNLOAD_BLK_SUBBLOCK_REQ",
             [srv EXCEPT !.blksize = CAPACITY, !.sizeTran = 0, !.finished = FALSE,
                         !.buf = <<>>, !.rd = 0, !.seqno = 0, !.crc = <<>>,
                         !.timer = 0, !.blkTimer = 0, !.rxNew = FALSE, !.rx = None],
             [cs |-> "dlBlkInitRsp", blksize |-> CAPACITY])

(* The buffer is emptied after a sub-block: it has no room for the 127     *)
(* segments with which it would be kept.                                   *)
DownloadBlkSubblockRsp ==
  /\ Sending("DOWNLOAD_BLK_SUBBLOCK_RSP")
  /\ LET v == IF srv.finished \/ srv.buf = <<>> THEN Kept(srv) ELSE Validate(srv, None)
     IN  IF v.s.state = "ABORT"
         THEN /\ toClient' = Append(toClient, [cs |-> "abort", code |-> v.s.code])
              /\ srv' = Rest(srv)
              /\ od' = [od EXCEPT !.value = v.value] /\ UNCHANGED toServer
         ELSE /\ toClient' = Append(toClient, [cs |-> "dlBlkAck", ackseq |-> srv.seqno,
                                               blksize |-> CAPACITY])
              /\ srv' = [v.s EXCEPT
                           !.state = IF srv.finished THEN "DOWNLOAD_BLK_END_REQ"
                                     ELSE "DOWNLOAD_BLK_SUBBLOCK_REQ",
                           !.seqno = IF srv.finished THEN @ ELSE 0,
                           !.rxNew = @ /\ srv.finished,
                           !.rx = IF srv.finished THEN @ ELSE None, !.blkTimer = 0,
                           !.blksize = CAPACITY, !.pc = "out", !.seen = "IDLE"]
              /\ od' = [od EXCEPT !.value = v.value] /\ UNCHANGED toServer

DownloadBlkEndRsp ==
  /\ Sending("DOWNLOAD_BLK_END_RSP")
  /\ Answers("IDLE", srv, [cs |-> "dlBlkEndRsp"])

UploadBlkInitiateRsp ==
  /\ Sending("UPLOAD_BLK_INITIATE_RSP")
  /\ Answers("UPLOAD_BLK_INITIATE_REQ2", [srv EXCEPT !.timer = 0, !.crc = srv.buf],
             [cs |-> "ulBlkInitRsp", size |-> srv.sizeInd])

(* Unless the read is finished a rest of the buffer is left, less than a   *)
(* unit, so that only then the size can turn out too short.                *)
UploadBlkSubblock ==
  /\ Sending("UPLOAD_BLK_SUBBLOCK_SREQ")
  /\ LET left == Len(srv.buf) - srv.rd
         data == IF left = 0 THEN <<>> ELSE <<srv.buf[srv.rd + 1]>>
         last == left = 0 \/ (srv.finished /\ left = 1)
         size == srv.sizeTran + Len(data)
     IN  IF srv.sizeInd > 0 /\ size > srv.sizeInd THEN SendsAbort(srv, "DATA_LONG")
         ELSE IF srv.sizeInd > size /\ srv.finished /\ left <= 1 THEN SendsAbort(srv, "DATA_SHORT")
         ELSE Answers(IF left <= 1 \/ srv.seqno + 1 >= srv.blksize
                 THEN "UPLOAD_BLK_SUBBLOCK_CRSP" ELSE "UPLOAD_BLK_SUBBLOCK_SREQ",
                 [srv EXCEPT !.seqno = @ + 1, !.rd = @ + Len(data), !.timer = 0,
                             !.sizeTran = size],
                 [cs |-> "ulSub", seqno |-> srv.seqno + 1, data |-> data, last |-> last])

UploadBlkEnd ==
  /\ Sending("UPLOAD_BLK_END_SREQ")
  /\ toClient' = Append(toClient, [cs |-> "ulBlkEnd", crc |-> srv.crc])
  /\ srv' = [srv EXCEPT !.timer = 0, !.pc = "sent"]
  /\ UNCHANGED <<od, toServer>>

(* The state follows when the frame is already under way.                  *)
UploadBlkEndSent ==
  /\ srv.pc = "sent"
  /\ srv' = [srv EXCEPT !.state = "UPLOAD_BLK_END_CRSP", !.pc = "out", !.seen = "IDLE",
                        !.code = "none"]
  /\ UNCHANGED <<od, toServer, toClient>>

CO_SDOserver_process ==
  \/ Enter \/ HandleMessage \/ HandleTimers \/ BufferFull \/ SendNothing \/ SendAbort
  \/ DownloadInitiateRsp \/ DownloadSegmentRsp \/ UploadInitiateRsp \/ UploadSegmentRsp
  \/ DownloadBlkInitiateRsp \/ DownloadBlkSubblockRsp \/ DownloadBlkEndRsp
  \/ UploadBlkInitiateRsp \/ UploadBlkSubblock \/ UploadBlkEnd \/ UploadBlkEndSent
=============================================================================
