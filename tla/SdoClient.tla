----------------------------- MODULE SdoClient -----------------------------
(***************************************************************************)
(* The SDO client of the stack (CO_SDOclient.c) with an application that   *)
(* fills its buffer, or empties it, and calls CO_SDOclientDownload or      *)
(* CO_SDOclientUpload until the transfer ends.  The client is in another   *)
(* node than the server of SdoServer; of its interrupt only the mailbox    *)
(* and the segments of a block upload are shared with the calls.           *)
(***************************************************************************)
EXTENDS SdoServer

CONSTANTS
  Request,      (* what the application may ask for in its first, second   *)
                (* ... transfer: the kind, the size of the data, and       *)
                (* whether it announces the size                           *)
  FIFO,         (* units the client's buffer holds                         *)
  PST,          (* CO_CONFIG_SDO_CLI_PST: up to so many units are not      *)
                (* worth a block transfer                                  *)
  CLI_TIMEOUT,  (* calls without a message before SDOtimeoutTime_us        *)
  CLI_BLK_TIMEOUT

VARIABLES
  cli,        (* the CO_SDOclient_t                                        *)
  transfer,   (* number of the transfer, its request, data and result      *)
  late        (* the client gave up a transfer and started the next while  *)
              (* the server had not come to rest or a frame was under way  *)

clientVars == <<cli, transfer, late>>

Resting == [state |-> "IDLE", rxNew |-> FALSE, rx |-> None, toggle |-> 0,
            finished |-> FALSE, sizeInd |-> 0, sizeTran |-> 0, fifo |-> <<>>,
            alt |-> 0, timer |-> 0, blkTimer |-> 0, blksize |-> 0, seqno |-> 0,
            crc |-> <<>>, tail |-> <<>>, code |-> "none"]
Failed(c, code) == [c EXCEPT !.state = "ABORT", !.code = code]

(* The data of the n-th transfer.                                          *)
Data(n, kind, size) == [i \in 1..size |-> [n |-> n, kind |-> kind, at |-> i]]

ClientInit ==
  /\ cli = Resting
  /\ transfer = [n |-> 0, kind |-> "none", data |-> <<>>, result |-> "ok"]
  /\ late = FALSE
-----------------------------------------------------------------------------
(* CO_SDOclientDownloadInitiate, ..BufWrite, CO_SDOclientUploadInitiate.   *)
Quiet == toServer = <<>> /\ toClient = <<>> /\ srv = Idle

Initiate(r) ==
  /\ cli.state = "IDLE" /\ transfer.n < Len(Request)
  /\ transfer.result # "busy"
  /\ r.kind = "download_block" => r.size > 0
  /\ LET n == transfer.n + 1
         data == IF r.kind \in {"download", "download_block"} THEN Data(n, r.kind, r.size) ELSE <<>>
     IN  /\ transfer' = [n |-> n, kind |-> r.kind, data |-> data, result |-> "busy"]
         /\ cli' = [Resting EXCEPT
                      !.sizeInd = IF r.sized THEN Len(data) ELSE 0, !.fifo = data,
                      !.state = CASE r.kind = "download" -> "DOWNLOAD_INITIATE_REQ"
                                  [] r.kind = "upload" -> "UPLOAD_INITIATE_REQ"
                                  [] r.kind = "download_block" -> IF r.sized /\ r.size <= PST
                                       THEN "DOWNLOAD_INITIATE_REQ"
                                       ELSE "DOWNLOAD_BLK_INITIATE_REQ"
                                  [] OTHER -> "UPLOAD_BLK_INITIATE_REQ"]
  /\ late' = (late \/ (transfer.result # "ok" /\ ~Quiet))
  /\ UNCHANGED <<srv, od, toServer, toClient>>

(* CO_SDOclientUploadBufRead, by an application that takes all there is,   *)
(* but not while segments of a block are being received.                   *)
BufRead ==
  /\ transfer.kind \in {"upload", "upload_block"} /\ cli.fifo # <<>>
  /\ cli.state # "UPLOAD_BLK_SUBBLOCK_SREQ"
  /\ transfer' = [transfer EXCEPT !.data = @ \o cli.fifo]
  /\ cli' = [cli EXCEPT !.fifo = <<>>]
  /\ UNCHANGED <<srv, od, toServer, toClient, late>>
-----------------------------------------------------------------------------
(* CO_SDOclient_receive.                                                   *)
UploadSegment(c, f) ==
  LET next == f.cs = "ulSub" /\ f.seqno = c.seqno + 1 /\ f.seqno <= c.blksize
      same == f.cs = "ulSub" /\ f.seqno = c.seqno
  IN  IF next /\ f.last
      THEN [c EXCEPT !.seqno = f.seqno, !.tail = f.data, !.finished = TRUE,
                     !.state = "UPLOAD_BLK_SUBBLOCK_CRSP"]
      ELSE IF next
      THEN [c EXCEPT !.seqno = f.seqno, !.fifo = @ \o f.data, !.crc = @ \o f.data,
                     !.sizeTran = @ + Len(f.data),
                     !.state = IF f.seqno = c.blksize THEN "UPLOAD_BLK_SUBBLOCK_CRSP" ELSE @]
      ELSE IF ~same /\ c.seqno # 0
      THEN [c EXCEPT !.state = "UPLOAD_BLK_SUBBLOCK_CRSP"] ELSE c

CO_SDOclient_receive ==
  /\ toClient # <<>>
  /\ toClient' = Tail(toClient)
  /\ LET f == Head(toClient) IN
     cli' = IF cli.state = "IDLE" \/ (cli.rxNew /\ f.cs # "abort") THEN cli
            ELSE IF f.cs = "abort" \/ cli.state \notin {"UPLOAD_BLK_SUBBLOCK_SREQ",
                                                       "UPLOAD_BLK_SUBBLOCK_CRSP"}
            THEN [cli EXCEPT !.rx = f, !.rxNew = TRUE]
            ELSE IF cli.state = "UPLOAD_BLK_SUBBLOCK_SREQ"
            THEN UploadSegment([cli EXCEPT !.timer = 0, !.blkTimer = 0], f)
            ELSE cli
  /\ UNCHANGED <<srv, od, toServer, transfer, late>>
-----------------------------------------------------------------------------
(* The handlers of a message; "ended" is a state that stands for idle and  *)
(* the result ok_communicationEnd.                                         *)
Ended(c) == [c EXCEPT !.state = "ended"]
To(c, st) == [c EXCEPT !.state = st]

InitiateRsp(c, f) ==
  IF f.cs # "dlInitRsp" THEN Failed(c, "CMD")
  ELSE IF c.finished THEN Ended(c)
  ELSE To([c EXCEPT !.toggle = 0], "DOWNLOAD_SEGMENT_REQ")

SegmentRsp(c, f) ==
  IF f.cs # "dlSegRsp" THEN Failed(c, "CMD")
  ELSE IF f.toggle # c.toggle THEN Failed(c, "TOGGLE_BIT")
  ELSE IF c.finished THEN Ended(c)
  ELSE To([c EXCEPT !.toggle = 1 - @], "DOWNLOAD_SEGMENT_REQ")

BlkInitiateRsp(c, f) ==
  IF f.cs # "dlBlkInitRsp" THEN Failed(c, "CMD")
  ELSE To([c EXCEPT !.blksize = f.blksize, !.seqno = 0, !.alt = 0, !.crc = <<>>],
          "DOWNLOAD_BLK_SUBBLOCK_REQ")

(* What the server has taken leaves the buffer; the rest will be sent      *)
(* again.  sizeTran keeps counting what has been sent.                     *)
SubblockRsp(c, f) ==
  IF f.cs # "dlBlkAck" \/ f.ackseq > c.seqno THEN Failed(c, "CMD")
  ELSE LET missed == f.ackseq < c.seqno
           taken == IF missed THEN f.ackseq ELSE c.alt
           t == [c EXCEPT !.fifo = SubSeq(@, taken + 1, Len(@)),
                          !.crc = @ \o SubSeq(c.fifo, 1, taken), !.alt = 0,
                          !.finished = @ /\ ~missed]
       IN  IF t.finished THEN To(t, "DOWNLOAD_BLK_END_REQ")
           ELSE To([t EXCEPT !.blksize = f.blksize, !.seqno = 0], "DOWNLOAD_BLK_SUBBLOCK_REQ")

BlkEndRsp(c, f) == IF f.cs = "dlBlkEndRsp" THEN Ended(c) ELSE Failed(c, "CMD")

UploadInitiated(c, f) ==
  IF f.expedited THEN Ended([c EXCEPT !.fifo = @ \o f.data])
  ELSE To([c EXCEPT !.sizeInd = f.size, !.toggle = 0], "UPLOAD_SEGMENT_REQ")

UploadSegmentRcv(c, f) ==
  IF f.cs # "ulSegRsp" THEN Failed(c, "CMD")
  ELSE IF f.toggle # c.toggle THEN Failed(c, "TOGGLE_BIT")
  ELSE LET t == [c EXCEPT !.fifo = @ \o f.data, !.sizeTran = @ + Len(f.data),
                          !.toggle = 1 - @]
       IN  IF t.sizeInd > 0 /\ t.sizeTran > t.sizeInd THEN Failed(t, "DATA_LONG")
           ELSE IF ~f.last THEN To(t, "UPLOAD_SEGMENT_REQ")
           ELSE IF t.sizeInd > 0 /\ t.sizeTran < t.sizeInd THEN Failed(t, "DATA_SHORT")
           ELSE Ended(t)

UploadBlkInitiated(c, f) ==
  CASE f.cs = "ulBlkInitRsp" -> To([c EXCEPT !.sizeInd = f.size], "UPLOAD_BLK_INITIATE_REQ2")
    [] f.cs = "ulInitRsp" -> UploadInitiated(c, f)
    [] OTHER -> Failed(c, "CMD")

UploadBlkEndRcv(c, f) ==
  IF f.cs # "ulBlkEnd" THEN Failed(c, "CMD")
  ELSE LET t == [c EXCEPT !.fifo = @ \o c.tail, !.crc = @ \o c.tail,
                          !.sizeTran = @ + Len(c.tail)]
       IN  IF t.sizeInd > 0 /\ t.sizeTran # t.sizeInd
           THEN Failed(t, IF t.sizeTran > t.sizeInd THEN "DATA_LONG" ELSE "DATA_SHORT")
           ELSE IF f.crc # t.crc THEN Failed(t, "CRC")
           ELSE To(t, "UPLOAD_BLK_END_CRSP")

Understood(c, f) ==
  CASE c.state = "DOWNLOAD_INITIATE_RSP" -> InitiateRsp(c, f)
    [] c.state = "DOWNLOAD_SEGMENT_RSP" -> SegmentRsp(c, f)
    [] c.state = "DOWNLOAD_BLK_INITIATE_RSP" -> BlkInitiateRsp(c, f)
    [] c.state \in {"DOWNLOAD_BLK_SUBBLOCK_REQ", "DOWNLOAD_BLK_SUBBLOCK_RSP"} -> SubblockRsp(c, f)
    [] c.state = "DOWNLOAD_BLK_END_RSP" -> BlkEndRsp(c, f)
    [] c.state = "UPLOAD_INITIATE_RSP" ->
         IF f.cs = "ulInitRsp" THEN UploadInitiated(c, f) ELSE Failed(c, "CMD")
    [] c.state = "UPLOAD_SEGMENT_RSP" -> UploadSegmentRcv(c, f)
    [] c.state = "UPLOAD_BLK_INITIATE_RSP" -> UploadBlkInitiated(c, f)
    [] c.state = "UPLOAD_BLK_SUBBLOCK_SREQ" -> c
    [] c.state = "UPLOAD_BLK_END_SREQ" -> UploadBlkEndRcv(c, f)
    [] OTHER -> Failed(c, "CMD")

ClientTimers(c, elapsed) ==
  LET timer == IF c.timer < CLI_TIMEOUT THEN c.timer + elapsed ELSE c.timer
      t == IF timer >= CLI_TIMEOUT
           THEN Failed([c EXCEPT !.timer = timer],
                       IF c.state \in {"UPLOAD_SEGMENT_REQ", "UPLOAD_BLK_SUBBLOCK_CRSP"}
                       THEN "GENERAL" ELSE "TIMEOUT")
           ELSE [c EXCEPT !.timer = timer]
      blk == t.blkTimer + elapsed
  IN  IF t.state # "UPLOAD_BLK_SUBBLOCK_SREQ" THEN t
      ELSE IF blk >= CLI_BLK_TIMEOUT
           THEN [t EXCEPT !.blkTimer = blk, !.rxNew = FALSE, !.rx = None, !.state = "UPLOAD_BLK_SUBBLOCK_CRSP"]
           ELSE [t EXCEPT !.blkTimer = blk]
-----------------------------------------------------------------------------
(* The frame each state sends, and the client after it.  A state that      *)
(* sends nothing is its own successor.                                     *)
Frame(c, next, f) == [c |-> [next EXCEPT !.timer = 0], f |-> f]
Silent(c) == [c |-> c, f |-> None]

(* What has been sent is counted where it is compared later.               *)
Counted(c, size) == IF c.sizeInd > 0 THEN size ELSE 0

SendInitiate(c) ==
  IF Len(c.fifo) <= 1 \/ c.sizeInd = 1
  THEN Frame(c, To([c EXCEPT !.fifo = <<>>, !.finished = TRUE], "DOWNLOAD_INITIATE_RSP"),
             [cs |-> "dlInit", expedited |-> TRUE, size |-> c.sizeInd, data |-> c.fifo])
  ELSE Frame(c, To(c, "DOWNLOAD_INITIATE_RSP"),
             [cs |-> "dlInit", expedited |-> FALSE, size |-> c.sizeInd, data |-> <<>>])

SendSegment(c) ==
  LET last == Len(c.fifo) = 1
  IN  Frame(c, To([c EXCEPT !.fifo = Tail(@), !.finished = last],
                  "DOWNLOAD_SEGMENT_RSP"),
            [cs |-> "dlSeg", toggle |-> c.toggle, data |-> <<Head(c.fifo)>>, last |-> last])

SendSubblock(c) ==
  LET last == c.alt + 1 = Len(c.fifo)
      t == [c EXCEPT !.seqno = @ + 1, !.alt = @ + 1, !.sizeTran = Counted(c, @ + 1), !.finished = last,
                     !.state = IF last \/ c.seqno + 1 >= c.blksize
                               THEN "DOWNLOAD_BLK_SUBBLOCK_RSP" ELSE @]
  IN  IF c.sizeInd > 0 /\ t.sizeTran > c.sizeInd THEN Silent(Failed(c, "DATA_LONG"))
      ELSE IF last /\ c.sizeInd > 0 /\ t.sizeTran < c.sizeInd THEN Silent(Failed(c, "DATA_SHORT"))
      ELSE Frame(c, t, [cs |-> "dlSub", seqno |-> t.seqno, data |-> <<c.fifo[t.alt]>>,
                        last |-> last])

Room(c) == FIFO - Len(c.fifo)

SendUploadSegment(c) ==
  IF Room(c) = 0 THEN Silent(c)
  ELSE Frame(c, To(c, "UPLOAD_SEGMENT_RSP"), [cs |-> "ulSeg", toggle |-> c.toggle])

SendUploadAnswer(c) ==
  LET f == [cs |-> "ulBlkAck", ackseq |-> c.seqno,
            blksize |-> IF c.finished THEN c.blksize ELSE Room(c)]
      t == [c EXCEPT !.blkTimer = 0, !.blksize = f.blksize]
  IN  IF c.finished THEN [c |-> To(t, "UPLOAD_BLK_END_SREQ"), f |-> f]
      ELSE IF c.sizeInd > 0 /\ c.sizeTran > c.sizeInd THEN Silent(Failed(c, "DATA_LONG"))
      ELSE IF c.fifo # <<>> THEN Silent(c)      \* the application reads first
      ELSE [c |-> To([t EXCEPT !.seqno = 0, !.rxNew = FALSE, !.rx = None], "UPLOAD_BLK_SUBBLOCK_SREQ"), f |-> f]

Transmitted(c) ==
  CASE c.state = "DOWNLOAD_INITIATE_REQ" -> SendInitiate(c)
    [] c.state = "DOWNLOAD_SEGMENT_REQ" -> SendSegment(c)
    [] c.state = "DOWNLOAD_BLK_INITIATE_REQ" ->
         Frame(c, To(c, "DOWNLOAD_BLK_INITIATE_RSP"), [cs |-> "dlBlkInit", size |-> c.sizeInd])
    [] c.state = "DOWNLOAD_BLK_SUBBLOCK_REQ" -> SendSubblock(c)
    [] c.state = "DOWNLOAD_BLK_END_REQ" ->
         Frame(c, To(c, "DOWNLOAD_BLK_END_RSP"), [cs |-> "dlBlkEnd", crc |-> c.crc])
    [] c.state = "UPLOAD_INITIATE_REQ" ->
         Frame(c, To(c, "UPLOAD_INITIATE_RSP"), [cs |-> "ulInit"])
    [] c.state = "UPLOAD_SEGMENT_REQ" -> SendUploadSegment(c)
    [] c.state = "UPLOAD_BLK_INITIATE_REQ" ->
         Frame(c, To([c EXCEPT !.blksize = Room(c)], "UPLOAD_BLK_INITIATE_RSP"),
               [cs |-> "ulBlkInit", blksize |-> Room(c), pst |-> PST])
    [] c.state = "UPLOAD_BLK_INITIATE_REQ2" ->
         Frame(c, To([c EXCEPT !.blkTimer = 0, !.seqno = 0, !.crc = <<>>, !.rxNew = FALSE, !.rx = None],
                     "UPLOAD_BLK_SUBBLOCK_SREQ"), [cs |-> "ulBlkStart"])
    [] c.state = "UPLOAD_BLK_SUBBLOCK_CRSP" -> SendUploadAnswer(c)
    [] c.state = "UPLOAD_BLK_END_CRSP" -> Frame(c, Ended(c), [cs |-> "ulBlkEndAck"])
    [] OTHER -> Silent(c)

(* One call of CO_SDOclientDownload or CO_SDOclientUpload.                 *)
Concluded(c, result, f) ==
  /\ cli' = [Resting EXCEPT !.fifo = IF result = "ok" THEN c.fifo ELSE <<>>]
  /\ transfer' = [transfer EXCEPT !.result = result]
  /\ toServer' = IF f = None THEN toServer ELSE Append(toServer, f)

ClientCall ==
  /\ transfer.result = "busy" /\ cli.state # "IDLE"
  /\ LET got == IF cli.rxNew
                THEN [Understood(cli, cli.rx) EXCEPT !.timer = 0, !.rxNew = FALSE, !.rx = None] ELSE cli
         c == IF got.state = "ended" THEN got ELSE ClientTimers(got, IF cli.rxNew THEN 0 ELSE 1)
         out == Transmitted(c)
     IN  IF cli.rxNew /\ cli.rx.cs = "abort"
         THEN Concluded(cli, "server_abort", None)
         ELSE IF got.state = "ended" THEN Concluded(got, "ok", None)
         ELSE IF Len(toServer) >= CHANNEL
         THEN /\ cli' = c
              /\ UNCHANGED <<transfer, toServer>>
         ELSE IF c.state = "ABORT" \/ out.c.state = "ABORT"
         THEN Concluded(c, "client_abort", [cs |-> "abort"])
         ELSE IF out.c.state = "ended" THEN Concluded(out.c, "ok", out.f)
         ELSE /\ cli' = out.c
              /\ toServer' = IF out.f = None THEN toServer ELSE Append(toServer, out.f)
              /\ UNCHANGED transfer
  /\ UNCHANGED <<srv, od, toClient, late>>
=============================================================================
