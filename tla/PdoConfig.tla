------------------------------- MODULE PdoConfig -------------------------------
(***************************************************************************)
(* How a PDO is configured over the bus: the mapping and the COB-ID        *)
(* entries of CO_PDO.c, which keep the object dictionary, the mapping in   *)
(* effect and the CAN buffer in step, and what a communication reset makes *)
(* of the dictionary.  One PDO, which is an RPDO or a TPDO.                *)
(***************************************************************************)
EXTENDS Integers, Functions

CONSTANTS
  Entries,       (* CO_PDO_MAX_MAPPED_ENTRIES                              *)
  MaxSize,       (* CO_PDO_MAX_SIZE                                        *)
  Size,          (* length of each object of the dictionary                *)
  Mappable,      (* those that the attributes let be mapped                *)
  Maps,          (* mapping entries: [obj, len, aligned], obj in DOMAIN    *)
                 (* Size, "dummy" or missing                               *)
  NodeIds

Entry == 1..Entries
(* CAN identifiers: the default one without node-ID, with it, and another. *)
NoId == 0
Base == 10
Predefined(n) == Base + n
Other == 20
Id == {Base, Other} \cup {Predefined(n) : n \in NodeIds}

VARIABLES
  isRPDO, node,
  stored, storedCount, storedId, storedValid,   (* the object dictionary   *)
  io,            (* OD_IO of each entry: object, its length, mapped length *)
  flagOf,        (* whose request flag the entry of a TPDO watches         *)
  mappedObjectsCount, dataLength, valid, configuredCanId,
  buffer,        (* what the CAN buffer was set up with: id and length     *)
  pinned         (* history: the COB-ID was written as it was, or with the *)
                 (* default identifier without node-ID                     *)

mapVars == <<io, flagOf, mappedObjectsCount, dataLength>>
cobVars == <<storedId, storedValid, valid, configuredCanId, buffer, pinned>>
pcVars == <<isRPDO, node, stored, storedCount, mapVars, cobVars>>

Mapped(f) == [i \in Entry |-> f[i].mapped]
Length(f, n) == SumFunctionOnSet(Mapped(f), 1..n)
Erroneous == [obj |-> "none", size |-> 0, mapped |-> 255]

-----------------------------------------------------------------------------
(* PDOconfigMap.                                                           *)
MapIsGood(m) ==
  /\ m.len <= MaxSize
  /\ (m.obj = "dummy") \/ (m.obj \in Mappable /\ m.aligned /\ m.len <= Size[m.obj])

EntryFor(m) ==
  [obj |-> m.obj, mapped |-> m.len,
   size |-> IF m.obj = "dummy" THEN m.len ELSE Size[m.obj]]

(* Mutant: the flag is only taken once.                                    *)
FlagForFirst(m, old) == IF isRPDO \/ old # "none" THEN old ELSE m.obj

(* A dummy entry leaves the flag as it is.                                 *)
FlagFor(m, old) == IF isRPDO \/ m.obj = "dummy" THEN old ELSE m.obj

-----------------------------------------------------------------------------
(* CO_RPDO_init and CO_TPDO_init, with PDO_initMapping.                    *)
InitIo == [i \in Entry |-> IF MapIsGood(stored'[i]) THEN EntryFor(stored'[i]) ELSE Erroneous]

ErroneousMap(length) ==
  \/ \E i \in Entry : ~MapIsGood(stored'[i])
  \/ length > MaxSize
  \/ length = 0 /\ storedCount' > 0

Setup(n) ==
  LET length == Length(InitIo, storedCount')
      count == IF ErroneousMap(length) THEN 0 ELSE storedCount'
      v == storedValid' /\ count > 0
      id == IF ~v THEN NoId ELSE IF storedId' = Base THEN Predefined(n) ELSE storedId' IN
  /\ node' = n
  /\ io' = InitIo
  /\ flagOf' = [i \in Entry |-> IF MapIsGood(stored'[i]) THEN FlagFor(stored'[i], "none")
                                ELSE "none"]
  /\ mappedObjectsCount' = count
  /\ dataLength' = IF count = 0 /\ ErroneousMap(length) THEN 0 ELSE length
  /\ valid' = v /\ configuredCanId' = id
  /\ buffer' = [id |-> id, length |-> IF isRPDO' THEN 0 ELSE dataLength']

(* A communication reset, with a node-ID that may be new.                  *)
Reset(n) ==
  /\ UNCHANGED <<isRPDO, stored, storedCount, storedId, storedValid, pinned>>
  /\ Setup(n)

-----------------------------------------------------------------------------
(* OD_write_PDO_mapping.                                                   *)
(* Mutant: the dictionary is written before the entry is looked at.        *)
WriteMapFirst(i, m) ==
  /\ ~valid /\ mappedObjectsCount = 0
  /\ stored' = [stored EXCEPT ![i] = m]
  /\ IF MapIsGood(m)
     THEN /\ io' = [io EXCEPT ![i] = EntryFor(m)]
          /\ flagOf' = [flagOf EXCEPT ![i] = FlagFor(m, @)]
     ELSE UNCHANGED <<io, flagOf>>
  /\ UNCHANGED <<isRPDO, node, storedCount, mappedObjectsCount, dataLength, cobVars>>

WriteMap(i, m) ==
  /\ ~valid /\ mappedObjectsCount = 0 /\ MapIsGood(m)
  /\ io' = [io EXCEPT ![i] = EntryFor(m)]
  /\ flagOf' = [flagOf EXCEPT ![i] = FlagFor(m, @)]
  /\ stored' = [stored EXCEPT ![i] = m]
  /\ UNCHANGED <<isRPDO, node, storedCount, mappedObjectsCount, dataLength, cobVars>>

(* Mutant: the entries that are switched on are not looked at again.       *)
CountIsGoodBlindly(n) == Length(io, n) > 0 \/ n = 0

CountIsGood(n) ==
  /\ \A i \in 1..n : io[i].mapped <= io[i].size
  /\ Length(io, n) <= MaxSize
  /\ Length(io, n) > 0 \/ n = 0

WriteCount(n) ==
  /\ ~valid /\ CountIsGood(n)
  /\ dataLength' = Length(io, n) /\ mappedObjectsCount' = n /\ storedCount' = n
  /\ UNCHANGED <<isRPDO, node, stored, io, flagOf, cobVars>>

-----------------------------------------------------------------------------
(* Subindex 1 in OD_write_14xx and OD_write_18xx.                          *)
CobIdIsGood(v, id) ==
  v => /\ valid => id = configuredCanId
       /\ mappedObjectsCount # 0

(* Mutant: the buffer of a PDO that is switched on again keeps its set-up. *)
BufferForOld(v, id) ==
  IF buffer.id = NoId THEN [id |-> IF v THEN id ELSE NoId, length |-> buffer.length]
  ELSE buffer

BufferFor(v, id) ==
  [id |-> IF v THEN id ELSE NoId, length |-> IF isRPDO THEN 0 ELSE dataLength]

(* An RPDO that is switched off keeps its configuredCanId.                 *)
Configured(v, id) == IF v THEN id ELSE IF isRPDO THEN configuredCanId ELSE NoId

(* Mutant: the identifier is stored as it was written.                     *)
StoredVerbatim(changed, id) == id

(* The default identifier goes into the dictionary without node-ID, but    *)
(* only by a write that changes something.                                 *)
StoredFor(changed, id) == IF changed /\ id = Predefined(node) THEN Base ELSE id

WriteCobId(v, id) ==
  LET changed == v # valid \/ id # configuredCanId IN
  /\ CobIdIsGood(v, id)
  /\ storedValid' = v
  /\ storedId' = StoredFor(changed, id)
  /\ pinned' = (~changed \/ id # Predefined(node))
  /\ IF changed
     THEN /\ valid' = v /\ configuredCanId' = Configured(v, id)
          /\ buffer' = BufferFor(v, id)
     ELSE UNCHANGED <<valid, configuredCanId, buffer>>
  /\ UNCHANGED <<isRPDO, node, stored, storedCount, mapVars>>

(* OD_read_PDO_commParam.                                                  *)
ReadCobId ==
  [valid |-> valid /\ storedValid, id |-> IF storedId = Base THEN Predefined(node) ELSE storedId]

-----------------------------------------------------------------------------
(* Whatever mapping the dictionary holds when the device starts.           *)
PcInit ==
  /\ isRPDO \in BOOLEAN /\ node \in NodeIds
  /\ stored \in [Entry -> Maps] /\ storedCount \in 0..Entries
  /\ storedId \in {Base, Other} /\ storedValid \in BOOLEAN
  /\ io = [i \in Entry |-> Erroneous] /\ flagOf = [i \in Entry |-> "none"]
  /\ mappedObjectsCount = 0 /\ dataLength = 0 /\ valid = FALSE /\ configuredCanId = NoId
  /\ buffer = [id |-> NoId, length |-> 0]
  /\ pinned = (storedId = Other)

PcNext ==
  \/ \E n \in NodeIds : Reset(n)
  \/ \E i \in Entry, m \in Maps : WriteMap(i, m)
  \/ \E n \in 0..Entries : WriteCount(n)
  \/ \E v \in BOOLEAN, id \in Id : WriteCobId(v, id)

PcSpec == PcInit /\ [][PcNext]_pcVars

-----------------------------------------------------------------------------
PcTypeOK ==
  /\ mappedObjectsCount \in 0..Entries /\ dataLength \in 0..MaxSize
  /\ configuredCanId \in Id \cup {NoId} /\ buffer.id \in Id \cup {NoId}
  /\ storedCount \in 0..Entries /\ stored \in [Entry -> Maps]

(* An enabled PDO copies, entry by entry, exactly the bytes of its frame,  *)
(* never more than a frame holds and never past the end of an object; the  *)
(* frame of a TPDO was set up with that length.                            *)
FrameMatchesMapping ==
  valid => /\ mappedObjectsCount > 0 /\ dataLength \in 1..MaxSize
           /\ dataLength = Length(io, mappedObjectsCount)
           /\ \A i \in 1..mappedObjectsCount : io[i].mapped <= io[i].size
           /\ isRPDO \/ buffer.length = dataLength

(* What the dictionary tells of an enabled PDO's mapping is in effect.     *)
DictionaryIsInEffect ==
  valid => /\ storedCount = mappedObjectsCount
           /\ \A i \in 1..storedCount : io[i] = EntryFor(stored[i])

(* A request for an object is a request for the TPDOs that map it, and for *)
(* no other unless a dummy entry has taken its place.                      *)
RequestsReachTheirPdo ==
  ~isRPDO => \A i \in Entry : io[i].obj \notin {"none", "dummy"} => flagOf[i] = io[i].obj

(* The identifier that is read back is the one in use, and a PDO with the  *)
(* default identifier follows the node-ID, unless the COB-ID was last      *)
(* written without changing it or with another identifier.                 *)
DefaultFollowsNode ==
  valid /\ ~pinned => /\ configuredCanId = Predefined(node)
                      /\ ReadCobId = [valid |-> TRUE, id |-> configuredCanId]
=============================================================================
