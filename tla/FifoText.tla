------------------------------- MODULE FifoText -------------------------------
(***************************************************************************)
(* The streaming conversions of CO_fifo.c between the bytes of an SDO      *)
(* transfer and the text of the gateway: readHex2a, readVs2a and readB642a *)
(* one way, cpyTok2Hex, cpyTok2Vs and cpyTok2B64 the other.  Both sides    *)
(* stop wherever a fifo is empty or full and go on from what they have     *)
(* memorized.  One turn of their loops is one action.                      *)
(***************************************************************************)
EXTENDS Integers, Sequences

CONSTANTS
  Bytes,         (* the data of each format: a function to sets of bytes   *)
  Chars,         (* the characters of arbitrary texts of each format       *)
  MaxData, MaxText,           (* bounds on their lengths                   *)
  Space          (* of the fifo for bytes                                  *)

(* Characters are numbers: a hex digit or base64 code by its value.        *)
BLANK == 100
NL == 101
HASH == 102
QUOTE == 103
PAD == 104
isgraph(c) == c \notin {BLANK, NL}
Format == {"hex", "vs", "b64"}

VARIABLES
  format,
  data,          (* bytes to be written as text                            *)
  given,         (* those there were, or NoData when the text was given    *)
  eStep, eWord,  (* memorized by readB642a                                 *)
  text, ended,   (* the text so far, and whether it is whole               *)
  arrived,       (* characters of it that are in the source fifo           *)
  free,          (* CO_fifo_getSpace(dest)                                 *)
  reader         (* the reading side                                       *)

NoData == <<-1>>
textVars == <<format, data, given, eStep, eWord, text, ended, arrived, free, reader>>

Word == 0..65535        \* a uint16_t
UpTo(S, n) == UNION {[1..k -> S] : k \in 0..n}
Fresh == [state |-> "new", step |-> 0, aux |-> 0, pos |-> 1, out |-> <<>>]

TextInit ==
  /\ format \in Format
  /\ \/ /\ given \in UpTo(Bytes[format], MaxData) \ {<<>>}
        /\ data = given /\ ended = FALSE
        /\ text = IF format = "vs" THEN <<QUOTE>> ELSE <<>>
     \/ /\ given = NoData /\ data = <<>> /\ ended = TRUE
        /\ text \in {Append(t, NL) : t \in UpTo(Chars[format], MaxText)}
  /\ eStep = 0 /\ eWord = 0
  /\ arrived = 0 /\ free = Space /\ reader = Fresh

-----------------------------------------------------------------------------
(* Bytes to text.                                                          *)
HexOf(b) == (IF text = <<>> THEN <<>> ELSE <<BLANK>>) \o <<b \div 16, b % 16>>
VsOf(b) == IF b = QUOTE THEN <<QUOTE, QUOTE>> ELSE <<b>>

(* Mutant: the step is not memorized.                                      *)
NextStepNever == 0

NextStep == (eStep + 1) % 3

B64Of(b) ==
  LET word == eWord + b IN
  CASE eStep = 0 -> <<(word \div 4) % 64>>
    [] eStep = 1 -> <<(word \div 16) % 64>>
    [] OTHER -> <<(word \div 64) % 64, word % 64>>

WriteByte ==
  /\ data # <<>>
  /\ data' = Tail(data)
  /\ text' = text \o CASE format = "hex" -> HexOf(Head(data))
                       [] format = "vs" -> VsOf(Head(data))
                       [] OTHER -> B64Of(Head(data))
  /\ IF format = "b64"
     THEN eStep' = NextStep /\ eWord' = ((eWord + Head(data)) * 256) % 65536
     ELSE UNCHANGED <<eStep, eWord>>
  /\ UNCHANGED <<format, given, ended, arrived, free, reader>>

Padding ==
  CASE eStep = 1 -> <<(eWord \div 16) % 64, PAD, PAD>>
    [] eStep = 2 -> <<(eWord \div 64) % 64, PAD>>
    [] OTHER -> <<>>

(* The transfer has ended; the text becomes a line.                        *)
WriteEnd ==
  /\ data = <<>> /\ ~ended
  /\ ended' = TRUE
  /\ text' = text \o (CASE format = "vs" -> <<QUOTE>>
                        [] format = "b64" -> Padding
                        [] OTHER -> <<>>) \o <<NL>>
  /\ UNCHANGED <<format, data, given, eStep, eWord, arrived, free, reader>>

-----------------------------------------------------------------------------
(* Text to bytes: r is the reading side, n the characters that are there.  *)
(* CO_fifo_trimSpaces from p on.                                           *)
Trim(n, p, inside) ==
  LET stops == {q \in p..n : text[q] = NL \/ (isgraph(text[q]) /\ text[q] # HASH
                                /\ ~inside /\ \A s \in p..q : text[s] # HASH)}
      stop == CHOOSE q \in stops : \A s \in stops : q <= s IN
  IF stops = {}
  THEN [pos |-> n + 1, line |-> FALSE, inside |-> inside \/ \E q \in p..n : text[q] = HASH]
  ELSE [pos |-> IF text[stop] = NL THEN stop + 1 ELSE stop, line |-> text[stop] = NL,
        inside |-> FALSE]

Fail(r) == [r EXCEPT !.state = "error"]
PutBytes(r, s) == [r EXCEPT !.out = @ \o s]

(* Mutant: that a comment has begun is not memorized.                      *)
FinishOutside(r, n, c) ==
  LET t == Trim(n, r.pos, FALSE) IN
  IF c = NL THEN [r EXCEPT !.state = "closed"]
  ELSE IF t.line THEN [r EXCEPT !.state = "closed", !.pos = t.pos]
  ELSE [r EXCEPT !.pos = t.pos, !.step = 5]

(* The characters behind a token, of which c has been read.                *)
Finish(r, n, c) ==
  LET t == Trim(n, r.pos, FALSE) IN
  IF c = NL THEN [r EXCEPT !.state = "closed"]
  ELSE IF t.line THEN [r EXCEPT !.state = "closed", !.pos = t.pos]
  ELSE [r EXCEPT !.pos = t.pos, !.step = IF t.inside THEN 6 ELSE 5]

(* Behind the token: in a comment, or only blanks so far.                  *)
Trail(r, n, c, pad) ==
  LET t == Trim(n, r.pos, r.step > 5) IN
  IF c = NL THEN [r EXCEPT !.state = "closed"]
  ELSE IF t.line THEN [r EXCEPT !.state = "closed", !.pos = t.pos]
  ELSE IF t.inside \/ (r.step = 5 /\ c = HASH) THEN [r EXCEPT !.pos = t.pos, !.step = 6]
  ELSE IF isgraph(c) /\ c # pad THEN Fail(r) ELSE [r EXCEPT !.pos = t.pos]

(* Steps 0 and 1 are the first and the second digit.                       *)
Hex(r, n, c) ==
  LET t == Trim(n, r.pos, FALSE)
      whole == IF r.step = 1 THEN PutBytes([r EXCEPT !.step = 0], <<r.aux>>) ELSE r IN
  IF r.step = 6 THEN Trail(r, n, c, PAD)
  ELSE IF c < 16
  THEN IF r.step = 0 THEN [r EXCEPT !.aux = c, !.step = 1]
       ELSE PutBytes([r EXCEPT !.step = 0], <<16 * r.aux + c>>)
  ELSE IF c = HASH THEN [r EXCEPT !.step = 6]
  ELSE IF isgraph(c) THEN Fail(r)
  ELSE IF c = NL \/ t.line
       THEN [whole EXCEPT !.state = "closed", !.pos = IF c = NL THEN @ ELSE t.pos]
       ELSE [whole EXCEPT !.pos = t.pos, !.step = IF t.inside THEN 6 ELSE 0]

(* After a quote: another one is a character, anything else ends a quoted  *)
(* string and is wrong in a word.                                          *)
QuoteQuote(r, n, c) ==
  CASE c = QUOTE -> PutBytes([r EXCEPT !.step = @ - 2], <<QUOTE>>)
    [] c # QUOTE /\ (r.step = 4 \/ isgraph(c)) -> Fail(r)
    [] OTHER -> Finish(r, n, c)

(* Step 1 is in a quoted string, 2 in a word, 3 and 4 after a quote there. *)
Vs(r, n, c) ==
  CASE r.step = 0 /\ c = QUOTE -> [r EXCEPT !.step = 1]
    [] r.step = 0 /\ c # QUOTE -> PutBytes([r EXCEPT !.step = 2], <<c>>)
    [] r.step \in {1, 2} ->
         IF c = QUOTE THEN [r EXCEPT !.step = @ + 2]
         ELSE IF ~isgraph(c) /\ r.step = 2 THEN Finish(r, n, c)
         ELSE IF c = NL THEN Fail(r) ELSE PutBytes(r, <<c>>)
    [] r.step \in {3, 4} -> QuoteQuote(r, n, c)
    [] OTHER -> Trail(r, n, c, NL)

(* Mutant: the bits of the byte before are left in.                        *)
RestWide(r) ==
  CASE r.step = 2 -> <<r.aux \div 16>>
    [] r.step = 3 -> <<r.aux \div 1024, r.aux \div 4>>
    [] OTHER -> <<>>

Rest(r) ==
  CASE r.step = 2 -> <<(r.aux \div 16) % 256>>
    [] r.step = 3 -> <<(r.aux \div 1024) % 256, (r.aux \div 4) % 256>>
    [] OTHER -> <<>>

B64(r, n, c) ==
  LET dword == r.aux * 64 + c IN
  CASE r.step >= 5 -> Trail(r, n, c, PAD)
    [] r.step < 5 /\ c \in {PAD, NL, BLANK} -> Finish(PutBytes(r, Rest(r)), n, c)
    [] r.step < 5 /\ c \in {HASH, QUOTE} -> Fail(r)
    [] r.step = 3 /\ c < 64 ->
         PutBytes([r EXCEPT !.step = 0, !.aux = 0],
                  <<(dword \div 65536) % 256, (dword \div 256) % 256, dword % 256>>)
    [] OTHER -> [r EXCEPT !.step = @ + 1, !.aux = dword]

(* The first call trims the text; it is wrong when nothing follows.        *)
Open(r, n) ==
  LET t == Trim(n, 1, FALSE) IN
  [r EXCEPT !.pos = t.pos, !.state = IF t.line \/ t.inside THEN "error" ELSE "open"]

Turn(r, n) ==
  LET c == text[r.pos]
      s == [r EXCEPT !.pos = @ + 1] IN
  CASE format = "hex" -> Hex(s, n, c)
    [] format = "vs" -> Vs(s, n, c)
    [] OTHER -> B64(s, n, c)

(* The gateway starts to read when CO_fifo_CommSearch has found a line.    *)
Start ==
  /\ reader.state = "new" /\ ended /\ arrived = Len(text)
  /\ reader' = Open(reader, arrived)
  /\ UNCHANGED <<format, data, given, eStep, eWord, text, ended, arrived, free>>

(* A line longer than the fifo: what there is starts with a character.     *)
StartFull ==
  /\ reader.state = "new" /\ arrived > 0 /\ arrived < Len(text)
  /\ text[arrived] # BLANK /\ \A p \in 1..arrived : text[p] \notin {NL, HASH}
  /\ reader' = Open(reader, arrived)
  /\ UNCHANGED <<format, data, given, eStep, eWord, text, ended, arrived, free>>

Read ==
  /\ reader.state = "open" /\ reader.pos <= arrived
  /\ free >= IF format = "b64" THEN 3 ELSE 1
  /\ reader' = Turn(reader, arrived)
  /\ free' = free - (Len(reader'.out) - Len(reader.out))
  /\ UNCHANGED <<format, data, given, eStep, eWord, text, ended, arrived>>

(* The other ends of the fifos.                                            *)
Arrive ==
  /\ arrived < Len(text) /\ arrived' = arrived + 1
  /\ UNCHANGED <<format, data, given, eStep, eWord, text, ended, free, reader>>

Drain ==
  /\ free < Space /\ free' = Space
  /\ UNCHANGED <<format, data, given, eStep, eWord, text, ended, arrived, reader>>

TextNext == WriteByte \/ WriteEnd \/ Start \/ StartFull \/ Read \/ Arrive \/ Drain
TextSpec == TextInit /\ [][TextNext]_textVars

-----------------------------------------------------------------------------
TextTypeOK ==
  /\ free \in 0..Space /\ reader.step \in 0..6 /\ reader.pos \in 1..(Len(text) + 1)
  /\ eStep \in 0..2 /\ eWord \in Word
  /\ reader.state \in {"new", "open", "closed", "error"}
  /\ \A i \in 1..Len(reader.out) : reader.out[i] \in 0..255

(* What has been written as text is read back as the same bytes, wherever  *)
(* the fifos ran empty or full on either side.                             *)
RoundTrip ==
  given # NoData => /\ reader.state # "error"
                    /\ reader.state = "closed" => reader.out = given

(* The whole text read at once into a fifo with room enough.               *)
AtOnce ==
  LET run[k \in 0..(MaxText + 1)] ==
        IF k = 0 THEN Open(Fresh, Len(text))
        ELSE IF run[k - 1].state = "open" THEN Turn(run[k - 1], Len(text)) ELSE run[k - 1] IN
  run[MaxText + 1]

(* Where a line is cut by the ends of the fifos does not matter: it is     *)
(* read as when it comes at once.  The exception is a single character     *)
(* behind the blank or padding after the token: it is an error when the    *)
(* rest of the line has not come, and is passed over when it has.          *)
ChunksDoNotMatter ==
  given = NoData =>
    /\ reader.state = "closed" => AtOnce.state = "closed" /\ AtOnce.out = reader.out
    /\ reader.state = "error" /\ AtOnce.state # "error"
         => reader.step = 5 /\ text[reader.pos - 2] \in {BLANK, PAD}
=============================================================================
