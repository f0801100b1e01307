----------------------------- MODULE HbConsumer -----------------------------
(***************************************************************************)
(* CO_HBconsumer.c: supervision of other nodes.  CO_HBconsumer_process and *)
(* the writes of 0x1016 run in one task; CO_HBcons_receive is an interrupt *)
(* and may come between any two steps of either.                           *)
(***************************************************************************)
EXTENDS Integers

CONSTANTS
  Entries,     (* numberOfMonitoredNodes                                   *)
  Remote,      (* node ids that send heartbeats                            *)
  HbTimes      (* consumer times, in units of one process period           *)

None == "none"        \* node id 0
(* What a message tells: a boot-up, or a heartbeat in any other state.     *)
States == {"initializing", "running"}

VARIABLES
  node,        (* CO_HBconsNode_t of every entry                           *)
  filter,      (* the node whose heartbeats the receive buffer accepts     *)
  allActive,   (* allMonitoredActive                                       *)
  wasOn,       (* NMTisPreOrOperationalPrev                                *)
  errors,      (* the two error status bits of the consumer                *)
  at,          (* where the task is: entry, stage, time difference left,   *)
               (* allMonitoredActiveCurrent                                *)
  heard        (* history: an entry accepted a message since it was set up *)

hbVars == <<node, filter, allActive, wasOn, errors, at, heard>>

Index == 1..Entries
Idle == [entry |-> 0, stage |-> "idle", diff |-> 0, active |-> TRUE]
Unused == [id |-> None, time |-> 0, nmt |-> "unknown", new |-> FALSE,
           hb |-> "UNCONFIGURED", timer |-> 0]

HbInit ==
  /\ node = [i \in Index |-> Unused]
  /\ filter = [i \in Index |-> None]
  /\ allActive = FALSE /\ wasOn = FALSE /\ errors = {}
  /\ at = Idle
  /\ heard = [i \in Index |-> FALSE]

-----------------------------------------------------------------------------
(* The driver gives the message to the first buffer whose identifier       *)
(* matches.                                                                *)
HbReceive(n, s) ==
  \E i \in Index :
    /\ filter[i] = n /\ \A j \in 1..(i - 1) : filter[j] # n
    /\ node' = [node EXCEPT ![i].nmt = s, ![i].new = TRUE]
    /\ heard' = [heard EXCEPT ![i] = TRUE]
    /\ UNCHANGED <<filter, allActive, wasOn, errors, at>>

(* CO_HBconsumer_initEntry up to the call of CO_CANrxBufferInit.           *)
InitEntry(i, n, t) ==
  LET used == n # None /\ t # 0 IN
  /\ at.stage = "idle"
  /\ used => \A j \in Index \ {i} : node[j].time = 0 \/ node[j].id # n
  /\ node' = [node EXCEPT ![i] =
                [Unused EXCEPT !.id = n, !.time = IF used THEN t ELSE 0,
                               !.hb = IF used THEN "UNKNOWN" ELSE "UNCONFIGURED",
                               !.timer = node[i].timer]]
  /\ heard' = [heard EXCEPT ![i] = FALSE]
  /\ at' = [Idle EXCEPT !.entry = i, !.stage = "filter"]
  /\ UNCHANGED <<filter, allActive, wasOn, errors>>

Subscribe ==
  /\ at.stage = "filter"
  /\ LET e == node[at.entry] IN
     filter' = [filter EXCEPT ![at.entry] = IF e.time = 0 THEN None ELSE e.id]
  /\ at' = Idle
  /\ UNCHANGED <<node, allActive, wasOn, errors, heard>>

-----------------------------------------------------------------------------
(* The end of CO_HBconsumer_process.                                       *)
Finish(active, on, errs) ==
  /\ errors' = IF active /\ ~allActive THEN {} ELSE errs
  /\ allActive' = active
  /\ wasOn' = on
  /\ at' = Idle

(* Mutant: the flags survive the change of the NMT state.                  *)
ForgetKeepsFlag ==
  /\ node' = [i \in Index |->
        [node[i] EXCEPT !.nmt = "unknown",
                        !.hb = IF @ = "UNCONFIGURED" THEN @ ELSE "UNKNOWN"]]
  /\ heard' = [i \in Index |-> FALSE]

(* NMT state changed: everything heard before is forgotten.                *)
Forget ==
  /\ node' = [i \in Index |->
        [node[i] EXCEPT !.nmt = "unknown", !.new = FALSE,
                        !.hb = IF @ = "UNCONFIGURED" THEN @ ELSE "UNKNOWN"]]
  /\ heard' = [i \in Index |-> FALSE]

CO_HBconsumer_process(on) ==
  /\ at.stage = "idle"
  /\ \/ /\ on /\ wasOn
        /\ at' = [entry |-> 1, stage |-> "message", diff |-> 1, active |-> TRUE]
        /\ UNCHANGED <<node, allActive, wasOn, errors, heard>>
     \/ on # wasOn /\ Forget /\ Finish(FALSE, on, errors)
     \/ /\ ~on /\ ~wasOn
        /\ Finish(TRUE, on, errors)
        /\ UNCHANGED <<node, heard>>
  /\ UNCHANGED filter

Next(active, errs) ==
  IF at.entry < Entries
  THEN /\ at' = [entry |-> at.entry + 1, stage |-> "message", diff |-> 1,
                 active |-> active]
       /\ errors' = errs
       /\ UNCHANGED <<allActive, wasOn>>
  ELSE Finish(active, TRUE, errs)

Skip ==
  /\ at.stage = "message" /\ node[at.entry].hb = "UNCONFIGURED"
  /\ Next(at.active, errors)
  /\ UNCHANGED <<node, filter, heard>>

(* Mutant: the entry that is heard clears the emergency of all.            *)
MessageClears ==
  LET i == at.entry  e == node[i] IN
  /\ at.stage = "message" /\ e.hb # "UNCONFIGURED"
  /\ node' = IF e.new THEN [node EXCEPT ![i].hb = "ACTIVE", ![i].timer = 0] ELSE node
  /\ errors' = IF e.new THEN {} ELSE errors
  /\ at' = [at EXCEPT !.stage = "clear"]
  /\ UNCHANGED <<filter, allActive, wasOn, heard>>

(* A heartbeat or a boot-up message, or none.                              *)
Message ==
  LET i == at.entry  e == node[i]  boot == e.nmt = "initializing" IN
  /\ at.stage = "message" /\ e.hb # "UNCONFIGURED"
  /\ IF e.new
     THEN /\ errors' = IF boot /\ e.hb = "ACTIVE" THEN errors \cup {"reset"} ELSE errors
          /\ node' = [node EXCEPT ![i].hb = IF boot THEN "UNKNOWN" ELSE "ACTIVE",
                                  ![i].timer = IF boot THEN @ ELSE 0]
          /\ at' = [at EXCEPT !.stage = "clear", !.diff = IF boot THEN @ ELSE 0]
     ELSE at' = [at EXCEPT !.stage = "timeout"] /\ UNCHANGED <<node, errors>>
  /\ UNCHANGED <<filter, allActive, wasOn, heard>>

(* Mutant: the flag is left set.                                           *)
ClearNot ==
  /\ at.stage = "clear"
  /\ at' = [at EXCEPT !.stage = "timeout"]
  /\ UNCHANGED <<node, filter, allActive, wasOn, errors, heard>>

Clear ==
  /\ at.stage = "clear"
  /\ node' = [node EXCEPT ![at.entry].new = FALSE]
  /\ at' = [at EXCEPT !.stage = "timeout"]
  /\ UNCHANGED <<filter, allActive, wasOn, errors, heard>>

(* Mutant: one period too many.                                            *)
ExpiredLate(e) == e.timer + at.diff > e.time

Expired(e) == e.timer + at.diff >= e.time

(* The timer is compared and then kept; the model stops it at the          *)
(* consumer time, after which it is not read before the next heartbeat.    *)
Timeout ==
  LET i == at.entry  e == node[i] IN
  /\ at.stage = "timeout"
  /\ \/ /\ e.hb = "ACTIVE" /\ Expired(e)
        /\ node' = [node EXCEPT ![i].timer = @ + at.diff,
                                ![i].nmt = "unknown", ![i].hb = "TIMEOUT"]
        /\ Next(FALSE, errors \cup {"consumer"})
     \/ /\ e.hb = "ACTIVE" /\ ~Expired(e)
        /\ node' = [node EXCEPT ![i].timer = @ + at.diff]
        /\ Next(at.active, errors)
     \/ /\ e.hb # "ACTIVE"
        /\ Next(FALSE, errors)
        /\ UNCHANGED node
  /\ UNCHANGED <<filter, heard>>

HbTask == (\E on \in BOOLEAN : CO_HBconsumer_process(on)) \/ Skip \/ Message \/ Clear \/ Timeout
HbNext ==
  \/ HbTask \/ Subscribe
  \/ \E n \in Remote, s \in States : HbReceive(n, s)
  \/ \E i \in Index, n \in Remote \cup {None}, t \in HbTimes : InitEntry(i, n, t)

HbFair == WF_hbVars(HbTask \/ Subscribe)
HbSpec == HbInit /\ [][HbNext]_hbVars /\ HbFair

-----------------------------------------------------------------------------
HbTypeOK ==
  /\ \A i \in Index :
       /\ node[i].id \in Remote \cup {None} /\ node[i].time \in HbTimes \cup {0}
       /\ node[i].nmt \in States \cup {"unknown"} /\ node[i].new \in BOOLEAN
       /\ node[i].hb \in {"UNCONFIGURED", "UNKNOWN", "ACTIVE", "TIMEOUT"}
       /\ \E t \in HbTimes : node[i].timer \in 0..t
       /\ filter[i] \in Remote \cup {None}
  /\ errors \subseteq {"consumer", "reset"}

(* A node that has timed out stays reported for as long as it is in that   *)
(* state: neither another node that comes back, nor a change of the NMT    *)
(* state, nor a write of 0x1016 to another entry clears the emergency that *)
(* all entries share.                                                      *)
TimeoutIsReported ==
  \A i \in Index : node[i].hb = "TIMEOUT" => "consumer" \in errors

(* Monitoring starts with a message that the entry received since it was   *)
(* set up or since the NMT state changed (CO_HBconsumer.h:60), never with  *)
(* one that was still waiting then.  Until Subscribe it may be a message   *)
(* of the node the entry watched before.                                   *)
ActiveWasHeard == \A i \in Index : node[i].hb = "ACTIVE" => heard[i]

(* An entry becomes active without knowing the state of its node, so that  *)
(* a boot-up counts as a heartbeat, in one case only: the message came     *)
(* between the test of the flag and the time-out of the same pass, which   *)
(* overwrites the state and leaves the flag.                               *)
UnknownOnlyByRace ==
  [][\A i \in Index :
       node[i].hb # "ACTIVE" /\ node'[i].hb = "ACTIVE" /\ node[i].nmt = "unknown"
         => node[i].hb = "TIMEOUT"]_hbVars

(* When the nodes fall silent while this one stays (pre)operational, no    *)
(* entry stays active, whatever raced with the last heartbeat.             *)
SilenceIsNoticed ==
  <>[][HbTask \/ Subscribe]_hbVars /\ <>[]wasOn
    => <>[](\A i \in Index : node[i].hb # "ACTIVE")
=============================================================================
