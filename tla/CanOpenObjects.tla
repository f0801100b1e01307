--------------------------- MODULE CanOpenObjects ---------------------------
(***************************************************************************)
(* The objects of the stack (CANopen.c): CO_new takes them from the heap,  *)
(* one after the other, and gives everything back when one allocation      *)
(* fails; the initialisations give each object its CAN buffers, by indexes *)
(* that are sums of counts, again at every communication reset.            *)
(***************************************************************************)
EXTENDS Integers, Sequences

CONSTANT Configs    (* multi: CO_MULTIPLE_OD; n: how many of each object;  *)
                    (* nodes: entries of 0x1016                            *)

VARIABLES
  cfg,
  pc,       (* none, new, allocated, can, lss, open, unconfigured, stopped *)
            (* or running                                                  *)
  heap,     (* blocks in use                                               *)
  callersNmt, (* co->NMT is the caller's                                    *)
  taken,    (* the object each receive and transmit buffer belongs to      *)
  todo,     (* place in InitOrder of the object that is initialised next,  *)
            (* 0 when none is                                              *)
  done

objectVars == <<cfg, pc, heap, callersNmt, taken, todo, done>>

None == "none"
N(k) == cfg.n[k]

(* Blocks, each with the object it is for, in the order of CO_new;         *)
(* CO_delete frees the same ones.                                          *)
NewOrder ==
  << <<"CO", "co">>, <<"NMT", "NMT">>, <<"HB_CONS", "HBcons">>, <<"HB_CONS", "HBconsMonitoredNodes">>,
     <<"EM", "em">>, <<"EM", "em_fifo">>, <<"SDO_SRV", "SDOserver">>, <<"SDO_CLI", "SDOclient">>,
     <<"TIME", "TIME">>, <<"SYNC", "SYNC">>, <<"RPDO", "RPDO">>, <<"TPDO", "TPDO">>,
     <<"LEDS", "LEDs">>, <<"GFC", "GFC">>, <<"SRDO", "SRDOGuard">>, <<"SRDO", "SRDO">>,
     <<"LSS_SLV", "LSSslave">>, <<"LSS_MST", "LSSmaster">>, <<"GTWA", "gtwa">>, <<"TRACE", "trace">>,
     <<"CAN", "CANmodule">>, <<"CAN", "CANrx">>, <<"CAN", "CANtx">> >>
Places == DOMAIN NewOrder
Kinds == {NewOrder[i][1] : i \in Places} \ {"CO", "CAN"}
Needed(i) == NewOrder[i][1] \in Kinds => N(NewOrder[i][1]) > 0
Callers == IF N("NMT") = 0 THEN {<<"caller", "NMT">>} ELSE {}

(* Mutant: a block that belongs to another is forgotten.                   *)
DeletedFirst ==
  {NewOrder[i] : i \in {j \in Places : j = 1 \/ NewOrder[j][1] # NewOrder[j - 1][1]}}
    \union (IF callersNmt THEN Callers ELSE {})

Deleted == {NewOrder[i] : i \in Places} \union (IF callersNmt THEN Callers ELSE {})
-----------------------------------------------------------------------------
(* The buffers: objects with the highest priority on the bus come first.   *)
Order(d) ==
  IF d = "rx"
  THEN <<"NMT", "SYNC", "EM", "TIME", "GFC", "SRDO", "RPDO", "SDO_SRV", "SDO_CLI", "HB_CONS",
         "LSS_SLV", "LSS_MST">>
  ELSE <<"NMT_MST", "SYNC", "EM", "TIME", "GFC", "SRDO", "TPDO", "SDO_SRV", "SDO_CLI", "NMT",
         "LSS_SLV", "LSS_MST">>

(* How many an object takes, and how many are set aside for it.            *)
Takes(d, k) == CASE k = "SRDO"    -> 2 * N(k)
                 [] k = "HB_CONS" -> N(k) * cfg.nodes
                 [] k = "NMT_MST" -> N("NMT")
                 [] OTHER         -> N(k)

(* Mutant: a single buffer is set aside for each SRDO.                     *)
ReservedOne(d, k) == IF k = "SRDO" THEN N(k) ELSE Takes(d, k)

Reserved(d, k) == IF k = "SRDO" /\ cfg.multi THEN 2 * Takes(d, k) ELSE Takes(d, k)

(* Where the buffers of each object in the order end.                      *)
Ends(d) ==
  LET e[i \in 0..Len(Order(d))] == IF i = 0 THEN 0 ELSE e[i - 1] + Reserved(d, Order(d)[i])
  IN  e
Size(d) == Ends(d)[Len(Order(d))]

(* The NMT object has a buffer for its master's commands as well.          *)
Buffers(d, k) ==
  UNION {Ends(d)[i - 1] + 1 .. Ends(d)[i - 1] + Takes(d, Order(d)[i]) :
           i \in {j \in DOMAIN Order(d) : Order(d)[j] = k \/ (k = "NMT" /\ Order(d)[j] = "NMT_MST")}}
-----------------------------------------------------------------------------
ObjectsInit ==
  /\ cfg \in Configs
  /\ pc = "none" /\ heap = Callers /\ callersNmt = FALSE
  /\ taken = [rx |-> <<>>, tx |-> <<>>] /\ todo = 0 /\ done = {}

Begin == pc = "none" /\ pc' = "new" /\ UNCHANGED <<cfg, heap, callersNmt, taken, todo, done>>

(* The next block; behind the last one everything is there.                *)
CO_new ==
  /\ pc = "new"
  /\ \E i \in Places :
       /\ Needed(i) /\ NewOrder[i] \notin heap
       /\ \A j \in 1..(i - 1) : Needed(j) => NewOrder[j] \in heap
       /\ heap' = heap \union {NewOrder[i]}
       /\ IF i = Len(NewOrder)
          THEN /\ pc' = "allocated"
               /\ taken' = [d \in {"rx", "tx"} |-> [j \in 1..Size(d) |-> None]]
          ELSE UNCHANGED <<pc, taken>>
  /\ UNCHANGED <<cfg, callersNmt, todo, done>>

(* CO_delete, also of what an allocation that failed has left.             *)
CO_delete ==
  /\ pc \notin {"none", "open"}
  /\ pc' = "none" /\ heap' = heap \ Deleted
  /\ callersNmt' = FALSE /\ taken' = [rx |-> <<>>, tx |-> <<>>] /\ todo' = 0 /\ done' = {}
  /\ UNCHANGED cfg

(* Mutant: what listened before the reset listens on.                      *)
CO_CANinitKeeps ==
  /\ pc \in {"allocated", "unconfigured", "stopped", "running"}
  /\ pc' = "can" /\ done' = {}
  /\ UNCHANGED <<cfg, heap, callersNmt, taken, todo>>

(* At the start and at a communication reset.  Transmit buffers keep their *)
(* identifiers.                                                            *)
CO_CANinit ==
  /\ pc \in {"allocated", "unconfigured", "stopped", "running"}
  /\ pc' = "can" /\ done' = {}
  /\ taken' = [taken EXCEPT !.rx = [i \in DOMAIN @ |-> None]]
  /\ UNCHANGED <<cfg, heap, callersNmt, todo>>

(* The init of an object, which fails when an index is outside.            *)
Initialised(k) ==
  /\ \A d \in {"rx", "tx"} : Buffers(d, k) \subseteq DOMAIN taken[d]
  /\ taken' = [d \in {"rx", "tx"} |->
                 [i \in DOMAIN taken[d] |-> IF i \in Buffers(d, k) THEN k ELSE taken[d][i]]]
  /\ done' = done \union {k}

CO_LSSinit ==
  /\ pc = "can" /\ N("LSS_SLV") = 1
  /\ Initialised("LSS_SLV") /\ pc' = "lss"
  /\ UNCHANGED <<cfg, heap, callersNmt, todo>>

InitOrder == <<"EM", "NMT", "HB_CONS", "SDO_SRV", "SDO_CLI", "TIME", "SYNC", "GFC", "SRDO", "LSS_MST",
               "RPDO", "TPDO">>

(* Without a node-ID a node stops here, and waits for the LSS master.      *)
CO_CANopenInit ==
  /\ pc = "lss" \/ (pc = "can" /\ N("LSS_SLV") = 0)
  /\ \/ N("LSS_SLV") = 1 /\ pc' = "unconfigured" /\ UNCHANGED todo
     \/ pc' = "open" /\ todo' = 1
  /\ callersNmt' = (N("NMT") = 0)
  /\ UNCHANGED <<cfg, heap, taken, done>>

(* An object that is not there is passed over.                             *)
InitObject ==
  /\ pc = "open"
  /\ LET k == InitOrder[todo] IN
     \/ /\ IF N(k) = 0 THEN UNCHANGED <<taken, done>> ELSE Initialised(k)
        /\ IF todo = Len(InitOrder) THEN pc' = "running" /\ todo' = 0
                                    ELSE todo' = todo + 1 /\ UNCHANGED pc
     \/ N(k) > 0 /\ pc' = "stopped" /\ todo' = 0 /\ UNCHANGED <<taken, done>>
  /\ UNCHANGED <<cfg, heap, callersNmt>>

ObjectsNext ==
  Begin \/ CO_new \/ CO_delete \/ CO_CANinit \/ CO_LSSinit \/ CO_CANopenInit \/ InitObject
-----------------------------------------------------------------------------
(* What CO_new has taken from the heap is given back, also when it fails   *)
(* half way.                                                               *)
NothingLeaks == pc = "none" => heap \subseteq Callers

(* Every object that is initialised has all of its buffers, of which no    *)
(* other object has taken one.                                             *)
BuffersAreTheirs ==
  \A d \in {"rx", "tx"}, k \in done : \A i \in Buffers(d, k) : taken[d][i] = k

(* A node without a node-ID listens to the LSS master only.                *)
OnlyLssListens ==
  pc = "unconfigured" => \A i \in DOMAIN taken.rx : taken.rx[i] \in {None, "LSS_SLV"}
=============================================================================
