--------------------------------- MODULE Fifo ---------------------------------
(***************************************************************************)
(* CO_fifo.c and the inline functions of CO_fifo.h: a ring in which one    *)
(* place stays free.  A writer that is interrupted by the reader, or the   *)
(* other way round, shares nothing but the pointers; the store of a        *)
(* character and the step of writePtr are two actions.                     *)
(***************************************************************************)
EXTENDS Integers

CONSTANTS BufSize, FifoTokenSize

Place == 0..(BufSize - 1)
Symbol == {"c", " ", "n", "#"}
NotAhead == -1

VARIABLES
  buf, readPtr, writePtr, altReadPtr,
  storing,       (* a character is stored, writePtr not yet stepped        *)
  returned       (* by the last call of the reader                         *)

fifoVars == <<buf, readPtr, writePtr, altReadPtr, storing, returned>>

FifoInit ==
  /\ buf = [p \in Place |-> "c"] /\ readPtr = 0 /\ writePtr = 0
  /\ altReadPtr = NotAhead /\ storing = FALSE
  /\ returned = [found |-> FALSE, size |-> 0]

(* Mutant: the pointer wraps a place late.                                 *)
AfterLate(p) == IF p = BufSize THEN 0 ELSE p + 1

After(p) == IF p + 1 = BufSize THEN 0 ELSE p + 1
Found(f) == [found |-> f, size |-> 0]

-----------------------------------------------------------------------------
NoRoom == writePtr + 1 = readPtr \/ (writePtr + 1 = BufSize /\ readPtr = 0)

(* One turn of the loop of CO_fifo_write; CO_fifo_putc.                    *)
Store(c) ==
  /\ ~storing /\ ~NoRoom
  /\ buf' = [buf EXCEPT ![writePtr] = c] /\ storing' = TRUE
  /\ UNCHANGED <<readPtr, writePtr, altReadPtr, returned>>

Step ==
  /\ storing
  /\ storing' = FALSE /\ writePtr' = After(writePtr)
  /\ UNCHANGED <<buf, readPtr, altReadPtr, returned>>

CO_fifo_putc_ov(c) ==
  /\ ~storing /\ altReadPtr = NotAhead
  /\ buf' = [buf EXCEPT ![writePtr] = c]
  /\ writePtr' = After(writePtr)
  /\ readPtr' = IF readPtr = After(writePtr) THEN After(readPtr) ELSE readPtr
  /\ UNCHANGED <<altReadPtr, storing, returned>>

CO_fifo_getc ==
  /\ altReadPtr = NotAhead /\ readPtr # writePtr
  /\ readPtr' = After(readPtr)
  /\ UNCHANGED <<buf, writePtr, altReadPtr, storing, returned>>

CO_fifo_purge ==
  /\ altReadPtr = NotAhead /\ ~storing
  /\ readPtr' = 0 /\ writePtr' = 0
  /\ UNCHANGED <<buf, altReadPtr, storing, returned>>

CO_fifo_getOccupied ==
  IF writePtr < readPtr THEN writePtr - readPtr + BufSize ELSE writePtr - readPtr

(* The loop of CO_fifo_altBegin.                                           *)
Ahead[x \in (0..BufSize) \X Place] ==
  LET k == x[1]
      p == x[2] IN
  IF k = 0 \/ p = writePtr THEN p ELSE Ahead[<<k - 1, After(p)>>]

CO_fifo_altBegin(offset) ==
  /\ altReadPtr = NotAhead
  /\ altReadPtr' = Ahead[<<offset, readPtr>>]
  /\ UNCHANGED <<buf, readPtr, writePtr, storing, returned>>

CO_fifo_altRead ==
  /\ altReadPtr # NotAhead /\ altReadPtr # writePtr
  /\ altReadPtr' = After(altReadPtr)
  /\ UNCHANGED <<buf, readPtr, writePtr, storing, returned>>

CO_fifo_altFinish ==
  /\ altReadPtr # NotAhead
  /\ readPtr' = altReadPtr /\ altReadPtr' = NotAhead
  /\ UNCHANGED <<buf, writePtr, storing, returned>>

-----------------------------------------------------------------------------
(* The calls of memchr in CO_fifo_CommSearch, which starts at r.           *)
Delimiters(from, to) == {p \in from..to : buf[p] = "n"}
Smallest(S) == CHOOSE p \in S : \A q \in S : p <= q
FirstPart(r) == Delimiters(r, IF r < writePtr THEN writePtr - 1 ELSE BufSize - 1)

(* Mutant: the beginning of the ring is not searched.                      *)
SecondPartNever(r) == {}

SecondPart(r) ==
  IF FirstPart(r) = {} /\ r > writePtr THEN Delimiters(0, writePtr - 1) ELSE {}

NewCommand(r) ==
  /\ r # writePtr
  /\ \/ FirstPart(r) # {} \/ SecondPart(r) # {}
     \/ r = writePtr + 1
     \/ r = 0 /\ writePtr = BufSize - 1

ClearedTo(r) ==
  IF r = writePtr THEN r
  ELSE IF FirstPart(r) # {} THEN After(Smallest(FirstPart(r)))
  ELSE IF SecondPart(r) # {} THEN After(Smallest(SecondPart(r)))
  ELSE writePtr

CO_fifo_CommSearch(clear) ==
  /\ altReadPtr = NotAhead
  /\ returned' = Found(NewCommand(readPtr))
  /\ readPtr' = IF clear THEN ClearedTo(readPtr) ELSE readPtr
  /\ UNCHANGED <<buf, writePtr, altReadPtr, storing>>

-----------------------------------------------------------------------------
(* The loop of CO_fifo_trimSpaces: where readPtr ends and whether a line   *)
(* ended.                                                                  *)
Trimmed[x \in Place \X BOOLEAN] ==
  LET p == x[1]
      inComment == x[2] IN
  IF p = writePtr \/ (buf[p] = "c" /\ ~inComment) THEN [ptr |-> p, line |-> FALSE]
  ELSE IF buf[p] = "n" THEN [ptr |-> After(p), line |-> TRUE]
  ELSE Trimmed[<<After(p), inComment \/ buf[p] = "#">>]

CO_fifo_trimSpaces(inComment) ==
  /\ altReadPtr = NotAhead
  /\ readPtr' = Trimmed[<<readPtr, inComment>>].ptr
  /\ returned' = Found(Trimmed[<<readPtr, inComment>>].line)
  /\ UNCHANGED <<buf, writePtr, altReadPtr, storing>>

EndOfData(p, step, size) ==
  IF step = 2 THEN [ptr |-> p, line |-> FALSE, size |-> size]
  ELSE [ptr |-> readPtr, line |-> FALSE, size |-> 0]

(* The loop of CO_fifo_readToken: step 0 before, 1 in and 2 behind the     *)
(* token.                                                                  *)
Scan[x \in Place \X (0..2) \X (0..FifoTokenSize)] ==
  LET p == x[1]
      step == x[2]
      size == x[3]
      char == buf[p]
      more == IF size < FifoTokenSize THEN size + 1 ELSE size
      newSize == IF char = "c" /\ step < 2 THEN more ELSE size
      newStep == IF char = "c" /\ step = 0 THEN 1
                 ELSE IF char = " " /\ step = 1 THEN 2 ELSE step IN
  CASE char = "#" -> [ptr |-> ClearedTo(p), line |-> NewCommand(p), size |-> size]
    [] char = "n" -> [ptr |-> After(p), line |-> TRUE, size |-> size]
    [] char = "c" /\ step = 2 -> [ptr |-> p, line |-> FALSE, size |-> size]
    [] OTHER -> IF After(p) = writePtr THEN EndOfData(After(p), newStep, newSize)
                ELSE Scan[<<After(p), newStep, newSize>>]

CO_fifo_readToken ==
  /\ altReadPtr = NotAhead
  /\ LET t == IF readPtr = writePtr THEN EndOfData(readPtr, 0, 0) ELSE Scan[<<readPtr, 0, 0>>] IN
     /\ readPtr' = t.ptr
     /\ returned' = [found |-> t.line, size |-> IF t.size = FifoTokenSize THEN 0 ELSE t.size]
  /\ UNCHANGED <<buf, writePtr, altReadPtr, storing>>

FifoNext ==
  \/ \E c \in Symbol : Store(c) \/ CO_fifo_putc_ov(c)
  \/ Step \/ CO_fifo_getc \/ CO_fifo_purge
  \/ \E k \in 0..(BufSize - 1) : CO_fifo_altBegin(k)
  \/ CO_fifo_altRead \/ CO_fifo_altFinish
  \/ \E b \in BOOLEAN : CO_fifo_CommSearch(b) \/ CO_fifo_trimSpaces(b)
  \/ CO_fifo_readToken

FifoSpec == FifoInit /\ [][FifoNext]_fifoVars

-----------------------------------------------------------------------------
FifoTypeOK ==
  /\ readPtr \in Place /\ writePtr \in Place /\ altReadPtr \in Place \cup {NotAhead}
  /\ buf \in [Place -> Symbol] /\ storing \in BOOLEAN
  /\ returned.size \in 0..(FifoTokenSize - 1)

(* What is in the ring, and how far it has been read ahead.                *)
Contents == [k \in 1..CO_fifo_getOccupied |-> buf[(readPtr + k - 1) % BufSize]]
ReadAhead ==
  IF altReadPtr = NotAhead THEN NotAhead ELSE (altReadPtr - readPtr + BufSize) % BufSize

Queue == INSTANCE FifoQueue
  WITH Capacity <- BufSize - 1, TokenSize <- FifoTokenSize,
       queue <- Contents, alt <- ReadAhead, answer <- returned

(* The ring is the bounded queue: however the reader and the writer are    *)
(* interleaved no character is lost, doubled or moved, and lines, comments *)
(* and tokens are found across the end of the ring as in one piece.        *)
ImplementsQueue == Queue!QueueSpec
=============================================================================
