------------------------------- MODULE FifoQueue -------------------------------
(***************************************************************************)
(* What CO_fifo promises: a bounded queue of characters from which a       *)
(* reader takes single characters, lines, comments and tokens, or which it *)
(* reads ahead and then takes as a whole.                                  *)
(***************************************************************************)
EXTENDS Integers, Sequences

CONSTANTS
  Capacity,
  TokenSize      (* size of the reader's buffer for tokens, above 1        *)

(* Graphical, blank, DELIM_COMMAND and DELIM_COMMENT.                      *)
Char == {"c", " ", "n", "#"}
NoAlt == -1
Nothing == [found |-> FALSE, size |-> 0]

VARIABLES
  queue,
  alt,           (* characters read ahead, or NoAlt                        *)
  answer         (* what the last call of the reader returned              *)

queueVars == <<queue, alt, answer>>

QueueInit == queue = <<>> /\ alt = NoAlt /\ answer = Nothing

Lesser(a, b) == IF a < b THEN a ELSE b
Drop(k) == SubSeq(queue, k + 1, Len(queue))

(* Index of the first of the characters C from i on, Len + 1 for none.     *)
First(i, C) ==
  CHOOSE k \in i..(Len(queue) + 1) :
    /\ k <= Len(queue) => queue[k] \in C
    /\ \A j \in i..(k - 1) : queue[j] \notin C

-----------------------------------------------------------------------------
Put(c) ==
  /\ Len(queue) < Capacity
  /\ queue' = Append(queue, c)
  /\ UNCHANGED <<alt, answer>>

PutOver(c) ==
  /\ queue' = Append(IF Len(queue) = Capacity THEN Tail(queue) ELSE queue, c)
  /\ UNCHANGED <<alt, answer>>

Get ==
  /\ queue # <<>>
  /\ queue' = Tail(queue)
  /\ UNCHANGED <<alt, answer>>

Purge ==
  /\ queue' = <<>>
  /\ UNCHANGED <<alt, answer>>

AltBegin(offset) ==
  /\ alt' = Lesser(offset, Len(queue))
  /\ UNCHANGED <<queue, answer>>

AltRead ==
  /\ alt # NoAlt /\ alt < Len(queue)
  /\ alt' = alt + 1
  /\ UNCHANGED <<queue, answer>>

AltFinish ==
  /\ alt # NoAlt
  /\ queue' = Drop(alt) /\ alt' = NoAlt
  /\ UNCHANGED answer

(* Whether a whole line is there, or as much of one as can be; Search can  *)
(* drop it.                                                                *)
HasLine(i) == First(i, {"n"}) <= Len(queue) \/ Len(queue) - i + 1 = Capacity
EndOfLine(i) == Lesser(First(i, {"n"}), Len(queue))

Search(clear) ==
  /\ answer' = [found |-> HasLine(1), size |-> 0]
  /\ queue' = IF clear THEN Drop(EndOfLine(1)) ELSE queue
  /\ UNCHANGED alt

(* Drop blanks and a comment, up to a character or behind the line.        *)
Trim(inComment) ==
  LET start == First(1, IF inComment THEN {"n"} ELSE {"c", "n", "#"})
      stop == IF start <= Len(queue) /\ queue[start] = "#" THEN First(start, {"n"}) ELSE start
      line == stop <= Len(queue) /\ queue[stop] = "n" IN
  /\ queue' = Drop(IF line THEN stop ELSE stop - 1)
  /\ answer' = [found |-> line, size |-> 0]
  /\ UNCHANGED alt

(* The next token, what follows it up to the next one, and whether it is   *)
(* the last of its line.  One that is not known to be whole stays; one     *)
(* that is too long is dropped.                                            *)
Token ==
  LET n == Len(queue)
      start == First(1, {"c", "n", "#"})
      stop == IF start <= n /\ queue[start] = "c" THEN First(start, {" ", "n", "#"}) ELSE start
      next == IF stop > n THEN stop ELSE First(stop, {"c", "n", "#"})
      comment == next <= n /\ queue[next] = "#"
      line == next <= n /\ (queue[next] = "n" \/ (comment /\ HasLine(next))) IN
  /\ queue' = IF stop > n THEN queue
              ELSE IF next > n THEN <<>>
              ELSE IF comment THEN Drop(EndOfLine(next))
              ELSE Drop(IF line THEN next ELSE next - 1)
  /\ answer' = [found |-> line,
                size |-> IF stop > n \/ stop - start >= TokenSize THEN 0 ELSE stop - start]
  /\ UNCHANGED alt

Consume ==
  /\ alt = NoAlt
  /\ \/ Get \/ Purge \/ Token
     \/ \E b \in BOOLEAN : Search(b) \/ Trim(b)

QueueNext ==
  \/ \E c \in Char : Put(c) \/ (alt = NoAlt /\ PutOver(c))
  \/ Consume
  \/ \E k \in 0..Capacity : alt = NoAlt /\ AltBegin(k)
  \/ AltRead \/ AltFinish

QueueSpec == QueueInit /\ [][QueueNext]_queueVars
=============================================================================
