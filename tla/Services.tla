------------------------------ MODULE Services ------------------------------
(***************************************************************************)
(* The services of the stack that do not act on one another within the     *)
(* properties stated of them, side by side: a behaviour exercises one of   *)
(* them, the subject, and leaves the others where they start.              *)
(***************************************************************************)
EXTENDS Integers, Sequences, FiniteSets

CONSTANTS
  Subjects,                          (* the services that are exercised    *)
  LssSlaves, LssTargets, LssScans,   (* see Lss                            *)
  LssSupported, LssParts, LssBits, LssNodeIds, BitRates, InitialRate,
  LssLosses, LssCalls,
  Period, RpdoTime, TimerStop,       (* see SyncPdo                        *)
  Cyclic, EventTimes, InhibitTimes,  (* see TpdoTypes                      *)
  StartValues, Overflow, Differences, Longest,
  ObjectSize, ObjectMaps, Mappable,  (* see PdoConfig                      *)
  Entries, MaxSize, PdoNodeIds,
  BufSize, FifoTokenSize,            (* see Fifo                           *)
  TextBytes, TextChars,              (* see FifoText                       *)
  MaxData, MaxText, Space,
  GatewayLines, COMM, RESP, SDO_BUF, (* see Gateway                        *)
  DL_LOW, HELP, OBJECT, WAIT, LOGS,
  SCT, SRVT, REFRESH, DELAY, START,  (* see Srdo                           *)
  SrdoValues, SrdoConfigured, SrdoStored, SrdoMaps, CHANNEL, CHANGES,
  Configs,                           (* see CanOpenObjects                 *)
  Dictionaries, DictionaryLayout,    (* see ObjectDictionary               *)
  OdIndexes, OdSubIndexes, OdCounts

VARIABLES
  subject,
  mState, command, mailbox, fs, found, chosen, result, slave, toSlaves,
  losses, calls, disturbed,
  nmt, period, isProducer, syncTimer, syncNew, CANrxToggle, timeoutError,
  synchronous, buffer, rxNew, rpdoValid, timeoutTime, rpdoTimer,
  syncErrors, step, bufNo, received, crossed, unlinked,
  valid, operational, transmissionType, sendRequest, syncCounter,
  syncStartValue, eventTime, eventTimer, inhibitTime, inhibitTimer, flag,
  counter, outside, pending, syncFlag, gap, cycling, elapsed, excused,
  retyped, timing,
  isRPDO, node, stored, storedCount, storedId, storedValid, io, flagOf,
  mappedObjectsCount, dataLength, pdoValid, configuredCanId, pdoBuffer,
  pinned,
  buf, readPtr, writePtr, altReadPtr, storing, returned,
  format, data, given, eStep, eWord, text, ended, arrived, free, reader,
  gtwa, commFifo, script, client, master, due, told, past,
  side, obj, txData, agree, bus, rxData, CANrxNew, changes, stage, ghost,
  cfg, pc, heap, callersNmt, taken, todo, done,
  list, index, search, entry, stream, memory, odData, op, code, pieces,
  touched

lssVars == <<mState, command, mailbox, fs, found, chosen, result, slave,
             toSlaves, losses, calls, disturbed>>
syncVars == <<nmt, period, isProducer, syncTimer, syncNew, CANrxToggle,
              timeoutError, synchronous, buffer, rxNew, rpdoValid,
              timeoutTime, rpdoTimer, syncErrors, step, bufNo, received, crossed, unlinked>>
tpdoVars == <<valid, operational, transmissionType, sendRequest,
              syncCounter, syncStartValue, eventTime, eventTimer,
              inhibitTime, inhibitTimer, flag, counter, outside, pending,
              syncFlag, gap, cycling, elapsed, excused, retyped, timing>>
configVars == <<isRPDO, node, stored, storedCount, storedId, storedValid,
                io, flagOf, mappedObjectsCount, dataLength, pdoValid,
                configuredCanId, pdoBuffer, pinned>>
fifoVars == <<buf, readPtr, writePtr, altReadPtr, storing, returned>>
textVars == <<format, data, given, eStep, eWord, text, ended, arrived, free,
              reader>>
gtwaVars == <<gtwa, commFifo, script, client, master, due, told, past>>
srdoVars == <<side, obj, txData, agree, bus, rxData, CANrxNew, changes,
              stage, ghost>>
objectVars == <<cfg, pc, heap, callersNmt, taken, todo, done>>
odVars == <<list, index, search, entry, stream, memory, odData, op, code,
            pieces, touched>>
vars == <<subject, lssVars, syncVars, tpdoVars, configVars, fifoVars, textVars,
          gtwaVars, srdoVars, objectVars, odVars>>

Lss == INSTANCE Lss WITH Slaves <- LssSlaves, Parts <- LssParts, Bits <- LssBits,
         NodeIds <- LssNodeIds, Supported <- LssSupported, Targets <- LssTargets,
         Scans <- LssScans
Sync == INSTANCE SyncPdo
Tpdo == INSTANCE TpdoTypes
Config == INSTANCE PdoConfig WITH Size <- ObjectSize, Maps <- ObjectMaps,
            NodeIds <- PdoNodeIds, valid <- pdoValid, buffer <- pdoBuffer
Ring == INSTANCE Fifo
Text == INSTANCE FifoText WITH Bytes <- TextBytes, Chars <- TextChars
Gtwa == INSTANCE Gateway WITH Lines <- GatewayLines
Safety == INSTANCE Srdo WITH Values <- SrdoValues, Configured <- SrdoConfigured,
            Stored <- SrdoStored, Maps <- SrdoMaps
Objects == INSTANCE CanOpenObjects
Dictionary == INSTANCE ObjectDictionary WITH Lists <- Dictionaries, Indexes <- OdIndexes,
                SubIndexes <- OdSubIndexes, OwnerOf <- DictionaryLayout,
                Counts <- OdCounts, data <- odData

-----------------------------------------------------------------------------
(* A cycle time and a validation time of 0 are refused when they are       *)
(* written (CO_ODF_SRDOcom).  The delay, which is 0 in this build, is      *)
(* within the refresh time from which it is subtracted.  The parameters of *)
(* a side that is not written can be used.                                 *)
SrdoPar ==
  [used : BOOLEAN, com : {"stored", "bad", "new"}, count : {0, 2}, maps : [1..2 -> SrdoMaps]]
ASSUME SrdoAssumption ==
  /\ SCT \in Nat \ {0} /\ SRVT \in Nat \ {0}
  /\ REFRESH \in Nat /\ DELAY \in 0..REFRESH /\ START \in Nat /\ CHANNEL \in Nat
  /\ SrdoStored \subseteq SrdoPar /\ \E p \in SrdoStored : Safety!Usable(p)
  /\ SrdoValues # {}

(* The slaves have different addresses; the scan of a part begins at its   *)
(* highest bit.  A fast scan takes in the vendor and another part, and the *)
(* parts that it skips are not needed to tell the slaves apart: partial    *)
(* scans are in the responsibility of the user (CO_LSSmaster.h).           *)
ASSUME LssAssumption ==
  /\ LssParts \in Nat \ {0} /\ LssBits \in 1..Lss!Confirm
  /\ LssSlaves \subseteq [Lss!Part -> Lss!Number] /\ DOMAIN LssSupported \subseteq LssSlaves
  /\ LssTargets \subseteq [Lss!Part -> Nat]
  /\ LssScans \subseteq [scan : [Lss!Part -> {"scan", "match", "skip"}], match : [Lss!Part -> Lss!Number]]
  /\ \A x \in LssScans :
       /\ x.scan[0] # "skip" /\ \E p \in Lss!Part : p # 0 /\ x.scan[p] # "skip"
       /\ \A a, b \in LssSlaves :
            (\A p \in Lss!Part : x.scan[p] # "skip" => a[p] = b[p]) => a = b

(* An RPDO's event timer is a number of milliseconds and so of calls of    *)
(* the periodic task; a cyclic transmission type is at most 240.           *)
ASSUME SyncAssumption ==
  /\ Period \in Nat /\ TimerStop \in Nat
  /\ RpdoTime \in Nat \ {0} /\ RpdoTime % Sync!Diff = 0
ASSUME TpdoAssumption ==
  /\ Cyclic \subseteq 1..240 /\ Differences \subseteq Nat /\ Longest \in Nat
  /\ EventTimes \subseteq 0..Longest /\ InhibitTimes \subseteq 0..Longest
  /\ {0} \subseteq EventTimes \cap InhibitTimes \cap StartValues /\ Overflow \in Nat

(* A mapping entry tells a length.                                         *)
ASSUME PdoConfigAssumption ==
  /\ Entries \in Nat /\ MaxSize \in Nat
  /\ \A m \in ObjectMaps : m.len \in Nat

(* CO_fifo_init refuses a buffer of less than two bytes.                   *)
ASSUME FifoAssumption == BufSize \in Nat /\ BufSize >= 2 /\ FifoTokenSize \in Nat \ {0}

(* Bytes and characters; a newline ends a text and is not part of one.     *)
ASSUME TextAssumption ==
  /\ \A f \in Text!Format : TextBytes[f] \cup TextChars[f] \subseteq 0..255
  /\ Text!NL \notin TextBytes["vs"]
  /\ MaxData \in Nat /\ MaxText \in Nat /\ Space \in Nat

(* The application numbers its command lines in order, and only a write is *)
(* followed by a value.  A final response, which ends with a piece of its  *)
(* own, goes into respBuf.                                                 *)
Token ==
  [t : {"line", "write"}, seq : Nat, kind : STRING] \cup {Gtwa!Data, Gtwa!Junk, Gtwa!NL}
Numbered(tok) == tok.t = "line" \/ tok.t = "write"
OfValue(tok) == tok.t = "data" \/ tok.t = "junk"
InOrder(l) ==
  /\ \A i \in DOMAIN l : Numbered(l[i]) => l[i].seq > 0
  /\ \A i, j \in DOMAIN l : i < j /\ Numbered(l[i]) /\ Numbered(l[j]) => l[i].seq < l[j].seq
  /\ \A i \in DOMAIN l : OfValue(l[i]) => i > 1 /\ ~Gtwa!Ends(l[i - 1])
ASSUME GatewayAssumption ==
  /\ GatewayLines \subseteq Seq(Token) /\ \A l \in GatewayLines : InOrder(l)
  /\ COMM \in Nat \ {0} /\ RESP \in Nat \ {0, 1} /\ SDO_BUF \in Nat \ {0}
  /\ HELP \in Nat /\ OBJECT \in Nat

(* A dictionary is ordered by index, as the editor writes it, and the      *)
(* bytes of a sub-object adjoin in a memory that is finite.                *)
Ordered(l) == \A i, j \in DOMAIN l : i < j => l[i].index < l[j].index
BytesOf(i, s) == {a \in DOMAIN DictionaryLayout : DictionaryLayout[a] = <<i, s>>}
ASSUME DictionaryAssumption ==
  /\ DOMAIN DictionaryLayout \subseteq Nat /\ IsFiniteSet(DOMAIN DictionaryLayout)
  /\ OdIndexes \subseteq Nat /\ OdCounts \subseteq Nat
  /\ \A l \in Dictionaries :
       /\ l \in Seq({l[i] : i \in DOMAIN l}) /\ Ordered(l)
       /\ \A i \in DOMAIN l : l[i].index \in Nat
       /\ \A i \in DOMAIN l, s \in OdSubIndexes :
            LET sub == Dictionary!SubObject(l[i], s) IN
            sub.addr # Dictionary!NULL =>
              /\ sub.addr \in Nat /\ sub.length \in Nat
              /\ BytesOf(l[i].index, s) = sub.addr .. sub.addr + sub.length - 1

(* The counts of the objects and the entries of 0x1016 are numbers.        *)
ASSUME ObjectsAssumption ==
  \A c \in Configs : c.nodes \in Nat /\ c.n \in [Objects!Kinds -> Nat]
-----------------------------------------------------------------------------
Is(s) == subject = s

(* Where a service that has several beginnings waits.                      *)
ConfigRests ==
  /\ isRPDO /\ node = CHOOSE n \in PdoNodeIds : TRUE
  /\ storedCount = 0 /\ storedId = Config!Base /\ storedValid
  /\ stored = [i \in 1..Entries |-> CHOOSE m \in ObjectMaps : TRUE]
TextRests == format = "hex" /\ ended /\ text = <<Text!NL>>
SrdoRests == \A x \in Safety!Sides : side[x].par = Safety!Good
GatewayRests == script = CHOOSE l \in GatewayLines : TRUE
ObjectsRest == cfg = CHOOSE c \in Configs : TRUE
DictionaryRests == list = <<>> /\ index = 1

Init ==
  /\ subject \in Subjects
  /\ Lss!LssInit /\ Sync!SpInit /\ Tpdo!TpInit /\ Ring!FifoInit
  /\ Config!PcInit /\ (Is("config") \/ ConfigRests)
  /\ Text!TextInit /\ (Is("text") \/ TextRests)
  /\ Gtwa!GatewayInit /\ (Is("gateway") \/ GatewayRests)
  /\ Safety!SrdoInit /\ (Is("srdo") \/ SrdoRests)
  /\ Objects!ObjectsInit /\ (Is("objects") \/ ObjectsRest)
  /\ Dictionary!OdInit /\ (Is("dictionary") \/ DictionaryRests)

Next ==
  /\ UNCHANGED subject
  /\ IF Is("lss") THEN Lss!LssNext ELSE UNCHANGED lssVars
  /\ IF Is("sync") THEN Sync!SpNext ELSE UNCHANGED syncVars
  /\ IF Is("tpdo") THEN Tpdo!TpNext ELSE UNCHANGED tpdoVars
  /\ IF Is("config") THEN Config!PcNext ELSE UNCHANGED configVars
  /\ IF Is("fifo") THEN Ring!FifoNext ELSE UNCHANGED fifoVars
  /\ IF Is("text") THEN Text!TextNext ELSE UNCHANGED textVars
  /\ IF Is("gateway") THEN Gtwa!GatewayNext ELSE UNCHANGED gtwaVars
  /\ IF Is("srdo") THEN Safety!SrdoNext ELSE UNCHANGED srdoVars
  /\ IF Is("objects") THEN Objects!ObjectsNext ELSE UNCHANGED objectVars
  /\ IF Is("dictionary") THEN Dictionary!OdNext ELSE UNCHANGED odVars

Spec == Init /\ [][Next]_vars
-----------------------------------------------------------------------------
(* Every service keeps its types: pointers, counters and timers stay       *)
(* inside their bounds.                                                    *)
TypeOK ==
  /\ Lss!LssTypeOK
  /\ Sync!SpTypeOK
  /\ Tpdo!TpTypeOK
  /\ Config!PcTypeOK
  /\ Ring!FifoTypeOK
  /\ Text!TextTypeOK
  /\ Gtwa!GatewayTypeOK
  /\ Safety!SrdoTypeOK
  /\ Dictionary!OdTypeOK

(* Unless a frame was lost, only a slave with the address that the master  *)
(* selected or found is in configuration state, the answer to an inquiry   *)
(* is the number of the chosen slave, what was confirmed (node id, bit     *)
(* rate, store) is what the chosen slave has, an activation reaches every  *)
(* slave, and the node id confirmed is the one it comes up with.           *)
LssReachesChosen ==
  /\ Lss!SelectedAreChosen
  /\ Lss!ConfirmedByChosen
  /\ Lss!ActivatedUsePending
  /\ Lss!AssignedBecomesActive

(* A missing SYNC and an RPDO that stays away are reported and the reports *)
(* withdrawn in time, and a SYNC applies the frame of the cycle before it, *)
(* whole, and none of the cycle it opens.  A cyclic synchronous TPDO is    *)
(* sent with every n-th SYNC, two frames keep the inhibit time, an event   *)
(* timer is met, and the end of the SYNC window takes only synchronous     *)
(* frames out of the transmit buffer.                                      *)
PdosKeepTime ==
  /\ [](Sync!SyncTimeoutIsReported /\ Sync!OverdueIsReported /\ Sync!ActsOnLastCycle)
  /\ []Tpdo!EveryNthSync
  /\ []Tpdo!TimersAreKept
  /\ Tpdo!WindowTakesSynchronous

(* A valid PDO has the length, pointers and flags of its mapping, what is  *)
(* read back of its parameters is in effect, a request of an object asks   *)
(* the PDO that maps it, and a PDO left at its default identifier has that *)
(* of the node id.                                                         *)
PdoIsInEffect ==
  /\ Config!FrameMatchesMapping
  /\ Config!DictionaryIsInEffect
  /\ Config!RequestsReachTheirPdo
  /\ Config!DefaultFollowsNode

(* The circular buffer with its alternative reader implements a bounded    *)
(* queue.                                                                  *)
ImplementsQueue == Ring!ImplementsQueue

(* What is written as text and read back as a token is the same bytes, in  *)
(* whatever pieces the text was offered.                                   *)
TextSurvives ==
  /\ Text!RoundTrip
  /\ Text!ChunksDoNotMatter

(* However the application takes the responses, it gets them whole; every  *)
(* command line gets one answer, in order; and the LSS master is left at   *)
(* rest with its default time-out.                                         *)
GatewayAnswers ==
  /\ Gtwa!TakenInParts
  /\ Gtwa!AnsweredOnce
  /\ Gtwa!MasterLeftClean

(* A receiver of safety data gets a pair that agrees or enters its safe    *)
(* state in time; a pair is one value sent twice within the validation     *)
(* time, also over an NMT command between its frames, unless a frame was   *)
(* lost or came too soon; and only parameters with a verified checksum are *)
(* in operation.                                                           *)
SrdoIsSafe ==
  /\ Safety!SafeInTime
  /\ Safety!PairInTime
  /\ Safety!UnequalHasCause
  /\ Safety!ObjectsAgree
  /\ Safety!RunsVerified

(* An object that is initialised has its CAN buffers to itself, a node     *)
(* without a node id listens to the LSS master only, and what was taken    *)
(* from the heap is given back, also when an allocation fails.             *)
ObjectsAreWhole ==
  /\ Objects!NothingLeaks
  /\ Objects!BuffersAreTheirs
  /\ Objects!OnlyLssListens

(* The dictionary finds what it has and nothing else, in logarithmic time; *)
(* a transfer, in pieces or in one, reaches every byte of the sub-object   *)
(* once and in its place and no byte of another, and one that is refused   *)
(* at once has changed nothing.                                            *)
DictionaryIsSound ==
  /\ Dictionary!FoundIsSought
  /\ Dictionary!WritesStayInside
  /\ Dictionary!WholeInItsPlace
  /\ Dictionary!RefusedIsUnchanged
=============================================================================
