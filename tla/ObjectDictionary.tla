-------------------------- MODULE ObjectDictionary --------------------------
(***************************************************************************)
(* CO_ODinterface.c: an object is found by its index, a sub-object becomes *)
(* a stream, and the stream is read or written in pieces, as the SDO       *)
(* server does, or in one piece of an expected length, as the rest of the  *)
(* stack does.  Others write the object between the pieces.  One access a  *)
(* behaviour.                                                              *)
(***************************************************************************)
EXTENDS Integers, SequencesExt

CONSTANTS
  Lists,     (* dictionaries: sequences of entries, ordered by index       *)
  Indexes,   (* indexes that are looked for                                *)
  SubIndexes,
  OwnerOf,   (* whom each byte of the memory belongs to: <<index, sub>>    *)
  Counts     (* lengths of a piece                                         *)

None == "none"
NULL == -1
Address == DOMAIN OwnerOf
Position == 1 .. 1 + Cardinality(Address)
Old == 0
Others == -1
Byte == {Old, Others} \cup Position
Code == {"ODR_OK", "ODR_PARTIAL", "ODR_IDX_NOT_EXIST", "ODR_SUB_NOT_EXIST",
         "ODR_DEV_INCOMPAT", "ODR_UNSUPP_ACCESS", "ODR_TYPE_MISMATCH",
         "ODR_DATA_LONG"}

VARIABLES
  list, index,       (* od->list and the index looked for                  *)
  search,            (* OD_find: min, max and, a history, its passes       *)
  entry,             (* what it has returned, an element of list           *)
  stream,            (* OD_IO_t                                            *)
  memory,            (* what the objects hold; a byte that is written is   *)
                     (* its position in what is transferred                *)
  data,              (* what has been read                                 *)
  op, code,          (* the last call and its answer                       *)
  pieces, touched    (* history: how many pieces there were, whether the   *)
                     (* object was written by others between them          *)

odVars == <<list, index, search, entry, stream, memory, data, op, code, pieces,
            touched>>

Original == [read |-> "original", write |-> "original"]
NoEntry == [index |-> NULL]
Search == [min |-> 0, max |-> Len(list) - 1, passes |-> 0]
Closed == [addr |-> NULL, length |-> 0, sub |-> 0, offset |-> 0, io |-> Original]

OdInit ==
  /\ list \in Lists /\ index \in Indexes
  /\ search = Search /\ entry = NoEntry /\ stream = Closed
  /\ memory = [a \in Address |-> Old] /\ data = <<>>
  /\ op = "OD_find" /\ code = None
  /\ pieces = 0 /\ touched = FALSE
-----------------------------------------------------------------------------
(* Mutant: the half that is kept still has the entry looked at.           *)
HalvedKeeps(cur) ==
  IF index < list[cur + 1].index THEN [search EXCEPT !.max = cur]
  ELSE [search EXCEPT !.min = cur]

(* A pass of the loop of OD_find behind the entry in the middle.           *)
Halved(cur) ==
  IF index < list[cur + 1].index
    THEN [search EXCEPT !.max = IF cur > 0 THEN cur - 1 ELSE cur]
    ELSE [search EXCEPT !.min = cur + 1]

Found(e) == entry' = e /\ op' = "found" /\ UNCHANGED <<search, code>>
Missing == op' = "done" /\ code' = "ODR_IDX_NOT_EXIST" /\ UNCHANGED <<search, entry>>

Pass ==
  LET cur == (search.min + search.max) \div 2
  IN IF list[cur + 1].index = index
       THEN Found(list[cur + 1])
       ELSE /\ search' = [Halved(cur) EXCEPT !.passes = @ + 1]
            /\ UNCHANGED <<entry, op, code>>

OD_find ==
  /\ op = "OD_find"
  /\ \/ list # <<>> /\ search.min < search.max /\ Pass
     \/ /\ list # <<>> /\ search.min = search.max
        /\ IF list[search.min + 1].index = index THEN Found(list[search.min + 1]) ELSE Missing
     \/ (list = <<>> \/ search.min > search.max) /\ Missing
  /\ UNCHANGED <<list, index, stream, memory, data, pieces, touched>>
-----------------------------------------------------------------------------
NoSub == [addr |-> NULL, length |-> -1]

(* Mutant: the elements of an array are taken for adjoining.               *)
SubObjectPacked(e, s) ==
  CASE e.type = "ARR" /\ s \in 1 .. e.count - 1 ->
         [addr |-> e.addr + e.length * (s - 1), length |-> e.length]
    [] OTHER -> [addr |-> e.addr, length |-> e.length]

(* Where a sub-object is, by the type of its object; a record is searched. *)
SubObject(e, s) ==
  CASE e.type = "VAR" /\ s = 0 -> [addr |-> e.addr, length |-> e.length]
    [] e.type = "ARR" /\ s = 0 -> [addr |-> e.addr0, length |-> 1]
    [] e.type = "ARR" /\ s \in 1 .. e.count - 1 ->
         [addr |-> IF e.addr = NULL THEN NULL ELSE e.addr + e.size * (s - 1),
          length |-> e.length]
    [] e.type = "REC" /\ \E i \in DOMAIN e.records : e.records[i].sub = s ->
         LET i == SelectInSeq(e.records, LAMBDA r : r.sub = s)
         IN [addr |-> e.records[i].addr, length |-> e.records[i].length]
    [] OTHER -> NoSub

(* io->read and io->write: the original ones, or those of the extension,   *)
(* of which one that is not given is disabled.                             *)
IO(odOrig) == IF odOrig THEN Original ELSE entry.extension

Stream(s, odOrig) ==
  [addr |-> SubObject(entry, s).addr, length |-> SubObject(entry, s).length, sub |-> s, offset |-> 0,
   io |-> IO(odOrig)]

(* OD_getSub, for a transfer in pieces.                                    *)
OD_getSub(s, odOrig) ==
  /\ op = "found"
  /\ IF SubObject(entry, s) = NoSub
       THEN op' = "done" /\ code' = "ODR_SUB_NOT_EXIST" /\ UNCHANGED stream
       ELSE op' = "open" /\ stream' = Stream(s, odOrig) /\ UNCHANGED code
  /\ UNCHANGED <<list, index, search, entry, memory, data, pieces, touched>>
-----------------------------------------------------------------------------
(* Mutant: the offset is left where the last piece began.                  *)
CopyFromStart(st, count) ==
  LET rest == st.length - st.offset
  IN IF rest > count
       THEN [n |-> count, offset |-> count, code |-> "ODR_PARTIAL"]
       ELSE [n |-> rest, offset |-> 0, code |-> "ODR_OK"]

(* The common part of OD_readOriginal and OD_writeOriginal: how much is    *)
(* copied, the next offset and the answer.                                 *)
Copy(st, count) ==
  LET rest == st.length - st.offset
  IN IF rest > count
       THEN [n |-> count, offset |-> st.offset + count, code |-> "ODR_PARTIAL"]
       ELSE [n |-> rest, offset |-> 0, code |-> "ODR_OK"]

Area(st, n) == st.addr + st.offset .. st.addr + st.offset + n - 1
Refused(c) == code' = c /\ UNCHANGED <<memory, data>>

OD_readOriginal(st, count) ==
  LET c == Copy(st, count)
  IN /\ data' = data \o [i \in 1 .. c.n |-> memory[st.addr + st.offset + i - 1]]
     /\ stream' = [st EXCEPT !.offset = c.offset]
     /\ code' = c.code
     /\ UNCHANGED memory

OD_writeOriginal(st, count) ==
  LET c == Copy(st, count)
  IN /\ stream' = [st EXCEPT !.offset = c.offset]
     /\ IF c.n < count THEN Refused("ODR_DATA_LONG")
        ELSE /\ memory' = [a \in Address |-> IF a \in Area(st, c.n) THEN a - st.addr + 1
                                             ELSE memory[a]]
             /\ code' = c.code /\ UNCHANGED data

(* A call through the stream, which may have nothing behind it.            *)
Call(st, what, count) ==
  \/ /\ st.io[what] = "disabled" /\ stream' = st /\ Refused("ODR_UNSUPP_ACCESS")
  \/ /\ st.io[what] = "original" /\ st.addr = NULL
     /\ stream' = st /\ Refused("ODR_SUB_NOT_EXIST")
  \/ /\ st.io[what] = "original" /\ st.addr # NULL
     /\ IF what = "read" THEN OD_readOriginal(st, count) ELSE OD_writeOriginal(st, count)

Piece(what, count) ==
  /\ op = "open" \/ (op = what /\ code = "ODR_PARTIAL")
  /\ Call(stream, what, count)
  /\ op' = what /\ pieces' = pieces + 1
  /\ UNCHANGED <<list, index, search, entry, touched>>

(* OD_get_value and OD_set_value: the whole object, of the right length.   *)
Value(what, s, length) ==
  /\ op = "found"
  /\ IF SubObject(entry, s) = NoSub
       THEN stream' = stream /\ Refused("ODR_SUB_NOT_EXIST")
     ELSE IF SubObject(entry, s).length # length
       THEN stream' = stream /\ Refused("ODR_TYPE_MISMATCH")
     ELSE \E odOrig \in BOOLEAN : Call(Stream(s, odOrig), what, length)
  /\ op' = what /\ pieces' = 1
  /\ UNCHANGED <<list, index, search, entry, touched>>

(* OD_getPtr; a length of 0 takes any.                                     *)
OD_getPtr(s, length) ==
  /\ op = "found"
  /\ op' = "ptr"
  /\ LET sub == SubObject(entry, s)
     IN /\ code' = IF sub = NoSub THEN "ODR_SUB_NOT_EXIST"
                   ELSE IF sub.addr = NULL \/ sub.length = 0 THEN "ODR_DEV_INCOMPAT"
                   ELSE IF length # 0 /\ length # sub.length THEN "ODR_TYPE_MISMATCH"
                   ELSE "ODR_OK"
        /\ stream' = IF code' = "ODR_OK" THEN Stream(s, TRUE) ELSE stream
  /\ UNCHANGED <<list, index, search, entry, memory, data, pieces, touched>>

(* Another task writes the object; it holds CO_LOCK_OD, as each piece      *)
(* does, but not the transfer.                                             *)
Touch(a) ==
  /\ code = "ODR_PARTIAL" /\ OwnerOf[a] = <<index, stream.sub>>
  /\ memory' = [memory EXCEPT ![a] = Others]
  /\ touched' = TRUE
  /\ UNCHANGED <<list, index, search, entry, stream, data, op, code, pieces>>

OdNext ==
  \/ OD_find
  \/ \E s \in SubIndexes, odOrig \in BOOLEAN : OD_getSub(s, odOrig)
  \/ \E what \in {"read", "write"}, n \in Counts :
       Piece(what, n) \/ \E s \in SubIndexes : Value(what, s, n)
  \/ \E s \in SubIndexes, n \in Counts \cup {0} : OD_getPtr(s, n)
  \/ \E a \in Address : Touch(a)
-----------------------------------------------------------------------------
OdTypeOK ==
  /\ search.min \in 0 .. Len(list) /\ search.max \in -1 .. Len(list) - 1
  /\ stream.offset = 0 \/ stream.offset \in 1 .. stream.length - 1
  /\ memory \in [Address -> Byte] /\ data \in Seq(Byte)
  /\ code \in Code \cup {None}

(* OD_find returns the entry with the index if there is one, and after no  *)
(* more than log2(N) passes (CO_ODinterface.c:157).                        *)
Twice[n \in Nat] == IF n = 0 THEN 1 ELSE 2 * Twice[n - 1]
Hit == {i \in DOMAIN list : list[i].index = index}
FoundIsSought ==
  /\ op # "OD_find" => (entry = NoEntry <=> Hit = {})
  /\ entry # NoEntry => entry.index = index
  /\ list # <<>> => Twice[search.passes] <= Len(list)

(* The bytes of the sub-object that is accessed, by the layout.            *)
Mine == {a \in Address : OwnerOf[a] = <<index, stream.sub>>}
Place(a) == 1 + Cardinality({b \in Mine : b < a})

(* A byte is written only where it belongs to the sub-object, also when    *)
(* the transfer fails.                                                     *)
WritesStayInside == \A a \in Address : memory[a] # Old => a \in Mine

(* A transfer that has ended well has read or written every byte once and  *)
(* in its place, however it was cut, unless others wrote in between; a     *)
(* pointer that was given points at it.                                    *)
WholeInItsPlace ==
  code = "ODR_OK" /\ ~touched =>
    /\ op = "read" => /\ Len(data) = Cardinality(Mine)
                      /\ \A a \in Mine : data[Place(a)] = memory[a]
    /\ op = "write" => \A a \in Mine : memory[a] = Place(a)
    /\ op = "ptr" => stream.addr \in Mine /\ Place(stream.addr) = 1

(* A write that is refused in its first piece has changed nothing.         *)
RefusedIsUnchanged ==
  op = "write" /\ pieces = 1 /\ code \notin {"ODR_OK", "ODR_PARTIAL"} =>
    \A a \in Address : memory[a] = Old
=============================================================================
