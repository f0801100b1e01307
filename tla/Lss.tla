--------------------------------- MODULE Lss ---------------------------------
(***************************************************************************)
(* CO_LSSmaster.c and CO_LSSslave.c: a master that selects, scans and      *)
(* configures slaves over a bus that may lose frames.  Both receive in an  *)
(* interrupt into a one-message mailbox guarded by a flag, which makes the *)
(* processing of a message one step.  Time is abstract: a time-out may     *)
(* come at any moment, and the history variable `disturbed` tells whether  *)
(* it came before the answer it gave up.  The callbacks of the application *)
(* say which bit rates a slave supports, whether it could store, and when  *)
(* it has to use the pending bit rate.                                     *)
(***************************************************************************)
EXTENDS Integers, Sequences

CONSTANTS
  Slaves,       (* the addresses of the slaves, functions Part -> number   *)
  Parts,        (* numbers of an LSS address: vendor ... serial, 4         *)
  Bits,         (* bits of a number, 32                                    *)
  NodeIds,      (* node ids the master assigns                             *)
  BitRates,     (* bit rates the master configures                         *)
  Supported,    (* those a slave supports, for the slaves with a callback  *)
                (* that checks bit rates                                   *)
  InitialRate,  (* the bit rate of the bus                                 *)
  Targets,      (* addresses the master selects                            *)
  Scans,        (* CO_LSSmaster_fastscan_t: for every part "scan", "match" *)
                (* or "skip", and the numbers to match                     *)
  LssLosses,    (* bound: frames lost on the bus and time-outs that come   *)
                (* before an answer                                        *)
  LssCalls      (* bound: services the application starts                  *)

Part == 0..(Parts - 1)
Twice[n \in Nat] == IF n = 0 THEN 1 ELSE 2 * Twice[n - 1]     \* the power of two
Number == 0..(Twice[Bits] - 1)
Unconfigured == 255
Confirm == 128        \* CO_LSS_FASTSCAN_CONFIRM
Unasked == -1         \* a part of an address that was not asked for
Nothing == [cs |-> "none"]

VARIABLES
  mState, command,   (* CO_LSSmaster_t                                     *)
  mailbox,           (* CANrxData, Nothing when CANrxNew is clear          *)
  fs,                (* fsState, fsLssSub, fsBitChecked, fsIdNumber        *)
  found,             (* the numbers scanned or inquired                    *)
  chosen,            (* what the application selected: part -> number or   *)
                     (* Unasked                                            *)
  result,            (* the last finished service and what it returned     *)
  slave,             (* CO_LSSslave_t of every slave                       *)
  toSlaves,          (* frames of the master on the bus                    *)
  losses, calls,
  disturbed          (* history: since the last clean deselection a frame  *)
                     (* was lost on the bus or in a full mailbox, or a     *)
                     (* time-out came before the answer                    *)

masterVars == <<mState, command, mailbox, fs, found, chosen, result>>
busVars == <<toSlaves, losses, calls, disturbed>>
lssVars == <<masterVars, slave, busVars>>

NoResult == [service |-> Nothing, ret |-> "none"]
NoScan == [state |-> "none", sub |-> 0, bit |-> 0, id |-> 0]
Fresh(id) == [mode |-> "waiting", active |-> id, pending |-> id,
              rate |-> InitialRate,        \* pendingBitRate
              used |-> Unasked,            \* what the application was told to use
              stored |-> Nothing,          \* what the application has stored
              select |-> [p \in Part |-> 0], pos |-> 0, request |-> Nothing]

LssInit ==
  /\ mState = "waiting" /\ command = Nothing /\ mailbox = Nothing
  /\ fs = NoScan /\ found = [p \in Part |-> 0] /\ chosen = [p \in Part |-> Unasked]
  /\ result = NoResult
  /\ slave = [a \in Slaves |-> Fresh(Unconfigured)]
  /\ toSlaves = <<>>
  /\ losses = 0 /\ calls = 0 /\ disturbed = FALSE

-----------------------------------------------------------------------------
(* CO_LSSslave_receive, for one slave that has no request in its mailbox.  *)
Same(x, y, bit) == x \div Twice[bit] = y \div Twice[bit]

(* Mutant: the position of the scan is not compared.                       *)
ScannedAnywhere(a, s, m) ==
  IF m.bit = Confirm THEN [s EXCEPT !.pos = 0, !.request = m]
  ELSE IF Same(a[m.sub], m.id, m.bit)
  THEN [s EXCEPT !.pos = m.next, !.request = m,
          !.mode = IF m.bit = 0 /\ m.next < m.sub THEN "configuration" ELSE @]
  ELSE s

Scanned(a, s, m) ==
  IF m.bit = Confirm THEN [s EXCEPT !.pos = 0, !.request = m]
  ELSE IF s.pos = m.sub /\ Same(a[m.sub], m.id, m.bit)
  THEN [s EXCEPT !.pos = m.next, !.request = m,
          !.mode = IF m.bit = 0 /\ m.next < m.sub THEN "configuration" ELSE @]
  ELSE s

Selected(a, s, m) ==
  LET got == [s.select EXCEPT ![m.part] = m.value] IN
  IF m.part = Parts - 1 /\ got = a
  THEN [s EXCEPT !.select = got, !.mode = "configuration", !.request = m]
  ELSE [s EXCEPT !.select = got]

Switched(s, m) ==
  [s EXCEPT !.mode = "waiting", !.select = [p \in Part |-> 0],
            !.request = IF s.mode = "configuration" /\ s.active = Unconfigured
                           /\ s.pending # Unconfigured THEN m ELSE @]

(* Mutant: a global switch is taken while a request waits.                 *)
ReceiveAlways(a, s, m) ==
  CASE m.cs = "waiting" -> Switched(s, m)
    [] m.cs # "waiting" /\ s.request # Nothing -> s
    [] m.cs = "configuration" /\ s.request = Nothing -> [s EXCEPT !.mode = "configuration"]
    [] m.cs \notin {"waiting", "configuration"} /\ s.request = Nothing /\ s.mode = "configuration" -> [s EXCEPT !.request = m]
    [] m.cs = "select" /\ s.request = Nothing /\ s.mode = "waiting" -> Selected(a, s, m)
    [] OTHER -> s

Receive(a, s, m) ==
  IF s.request # Nothing THEN s
  ELSE CASE m.cs = "waiting" -> Switched(s, m)
         [] m.cs = "configuration" -> [s EXCEPT !.mode = "configuration"]
         [] m.cs \notin {"waiting", "configuration"} /\ s.mode = "configuration" ->
              [s EXCEPT !.request = m]
         [] m.cs = "select" /\ s.mode = "waiting" -> Selected(a, s, m)
         [] m.cs = "fastscan" /\ s.mode = "waiting" ->
              IF s.active = Unconfigured /\ s.pending = Unconfigured THEN Scanned(a, s, m) ELSE s
         [] OTHER -> s

(* A frame reaches all slaves at once.                                     *)
Deliver ==
  /\ toSlaves # <<>>
  /\ slave' = [a \in Slaves |-> Receive(a, slave[a], Head(toSlaves))]
  /\ disturbed' = (disturbed \/ \E a \in Slaves : slave[a].request # Nothing)
  /\ toSlaves' = Tail(toSlaves)
  /\ UNCHANGED <<masterVars, losses, calls>>

(* Mutant: a bit rate that the application refuses is confirmed.           *)
RateAnswerOk(a, rate) ==
  IF a \in DOMAIN Supported THEN <<[cs |-> "bit timing", err |-> 0]>> ELSE <<>>

(* Without the callback the request is dropped; the master only sends      *)
(* entries of the table that are valid.                                    *)
RateAnswer(a, rate) ==
  IF a \in DOMAIN Supported
  THEN <<[cs |-> "bit timing", err |-> IF rate \in Supported[a] THEN 0 ELSE 255]>>
  ELSE <<>>

(* CO_LSSslave_process.  A request that came in configuration state and    *)
(* asks for nothing is answered all the same.                              *)
Answer(a, s, kept) ==
  CASE s.request.cs = "select" ->
         IF s.request.part = Parts - 1 THEN <<[cs |-> "selected"]>> ELSE <<>>
    [] s.request.cs = "fastscan" -> <<[cs |-> "identify"]>>
    [] s.request.cs = "inquire" -> <<[cs |-> "inquire", part |-> s.request.part, value |-> a[s.request.part]]>>
    [] s.request.cs = "node id" -> <<[cs |-> "node id", err |-> 0]>>
    [] s.request.cs = "store" -> <<[cs |-> "store", err |-> IF kept THEN 0 ELSE 1]>>
    [] s.request.cs = "bit timing" -> RateAnswer(a, s.request.rate)
    [] s.request.cs \in {"waiting", "activate"} -> <<>>

(* What the request does to the slave.                                     *)
Served(a, s, kept) ==
  LET done == [s EXCEPT !.request = Nothing] IN
  CASE s.request.cs = "waiting" ->                          \* reset communication
         [Fresh(s.pending) EXCEPT !.rate = s.rate, !.used = s.used, !.stored = s.stored]
    [] s.request.cs = "node id" -> [done EXCEPT !.pending = s.request.id]
    [] s.request.cs = "bit timing" /\ a \in DOMAIN Supported ->
         [done EXCEPT !.rate = IF s.request.rate \in Supported[a] THEN s.request.rate ELSE @]
    [] s.request.cs = "activate" /\ a \in DOMAIN Supported -> [done EXCEPT !.used = s.rate]
    [] s.request.cs = "store" /\ kept -> [done EXCEPT !.stored = <<s.pending, s.rate>>]
    [] OTHER -> done

(* CO_LSSmaster_receive: the answer is dropped when nothing is asked or    *)
(* the mailbox is full.                                                    *)
Reply(frames) ==
  mailbox' = IF frames # <<>> /\ mailbox = Nothing /\ command # Nothing
             THEN frames[1] ELSE mailbox

(* `kept`: the application has a callback to store, which succeeds.        *)
CO_LSSslave_process(a, kept) ==
  LET s == slave[a]  frames == Answer(a, s, kept) IN
  /\ s.request # Nothing
  /\ slave' = [slave EXCEPT ![a] = Served(a, s, kept)]
  /\ \/ Reply(frames) /\ UNCHANGED <<losses, disturbed>>
     \/ /\ frames # <<>> /\ losses < LssLosses
        /\ losses' = losses + 1 /\ disturbed' = TRUE
        /\ UNCHANGED mailbox
  /\ UNCHANGED <<mState, command, fs, found, chosen, result, toSlaves, calls>>

LoseFrame ==
  /\ toSlaves # <<>> /\ losses < LssLosses
  /\ toSlaves' = Tail(toSlaves)
  /\ losses' = losses + 1 /\ disturbed' = TRUE
  /\ UNCHANGED <<masterVars, slave, calls>>

-----------------------------------------------------------------------------
(* The master.  A service is started by one call and goes on with the next *)
(* ones; one that is not confirmed returns at once.                        *)
Start(state, service, frames) ==
  /\ calls < LssCalls /\ calls' = calls + 1
  /\ mState' = state /\ command' = service /\ mailbox' = Nothing
  /\ toSlaves' = toSlaves \o frames
  /\ result' = IF service = Nothing THEN [service |-> frames[1], ret |-> "ok"] ELSE NoResult
  /\ UNCHANGED <<found, slave, losses>>

Select(t) ==
  /\ mState = "waiting" /\ command = Nothing
  /\ Start("selective", [cs |-> "switch"],
           [k \in 1..Parts |-> [cs |-> "select", part |-> k - 1, value |-> t[k - 1]]])
  /\ chosen' = t
  /\ UNCHANGED <<fs, disturbed>>

SelectAll ==
  /\ mState = "waiting" /\ command = Nothing
  /\ Start("global", Nothing, <<[cs |-> "configuration"]>>)
  /\ chosen' = [p \in Part |-> Unasked]
  /\ UNCHANGED <<fs, disturbed>>

Quiet ==
  /\ toSlaves = <<>>
  /\ \A a \in Slaves : slave[a].request = Nothing

(* CO_LSSmaster_switchStateDeselect, allowed at any time.                  *)
Deselect ==
  /\ Start("waiting", Nothing, <<[cs |-> "waiting"]>>)
  /\ disturbed' = ~Quiet
  /\ UNCHANGED <<fs, chosen>>

ConfigureNodeId(n) ==
  /\ mState = "selective" \/ (mState = "global" /\ n = Unconfigured)
  /\ command = Nothing
  /\ LET m == [cs |-> "node id", id |-> n] IN Start(mState, m, <<m>>)
  /\ UNCHANGED <<fs, chosen, disturbed>>

ConfigureStore ==
  /\ mState = "selective" /\ command = Nothing
  /\ LET m == [cs |-> "store"] IN Start(mState, m, <<m>>)
  /\ UNCHANGED <<fs, chosen, disturbed>>

ConfigureBitTiming(rate) ==
  /\ mState = "selective" /\ command = Nothing
  /\ LET m == [cs |-> "bit timing", rate |-> rate] IN Start(mState, m, <<m>>)
  /\ UNCHANGED <<fs, chosen, disturbed>>

(* CO_LSSmaster_ActivateBit, for all slaves and without a confirmation.    *)
ActivateBit ==
  /\ mState = "global" /\ command = Nothing
  /\ Start(mState, Nothing, <<[cs |-> "activate"]>>)
  /\ UNCHANGED <<fs, chosen, disturbed>>

(* CO_LSSmaster_Inquire for one part, CO_LSSmaster_InquireLssAddress for   *)
(* all of them, one after the other.                                       *)
Inquire(p, q) ==
  /\ mState # "waiting" /\ command = Nothing
  /\ Start(mState, [cs |-> "inquire", part |-> p, upto |-> q], <<[cs |-> "inquire", part |-> p]>>)
  /\ UNCHANGED <<fs, chosen, disturbed>>

Return(ret) ==
  /\ command' = Nothing
  /\ result' = [service |-> command, ret |-> ret]

Expected(m) ==
  CASE command.cs = "switch" -> m.cs = "selected"
    [] command.cs = "inquire" -> m.cs = "inquire" /\ m.part = command.part
    [] command.cs \in {"node id", "bit timing", "store"} -> m.cs = command.cs

(* What CO_LSSmaster_configureCheckWait makes of an error code.            *)
Outcome(m) ==
  CASE m.cs \in {"selected", "inquire"} -> "ok"
    [] m.cs \in {"node id", "bit timing", "store"} ->
         IF m.err = 0 THEN "ok" ELSE IF m.err = 255 THEN "manufacturer" ELSE "illegal argument"

(* A confirmed service finds an answer in the mailbox.                     *)
Confirmed ==
  /\ command # Nothing /\ command.cs # "fastscan" /\ mailbox # Nothing
  /\ mailbox' = Nothing
  /\ IF ~Expected(mailbox)
     THEN UNCHANGED <<command, result, found, toSlaves>>
     ELSE /\ found' = IF command.cs = "inquire"
                      THEN [found EXCEPT ![command.part] = mailbox.value] ELSE found
          /\ IF command.cs = "inquire" /\ command.part < command.upto
             THEN /\ command' = [command EXCEPT !.part = @ + 1]
                  /\ toSlaves' = Append(toSlaves, [cs |-> "inquire", part |-> command.part + 1])
                  /\ UNCHANGED result
             ELSE Return(Outcome(mailbox)) /\ UNCHANGED toSlaves
  /\ UNCHANGED <<mState, fs, chosen, slave, losses, calls, disturbed>>

(* CO_LSSmaster_check_timeout of a confirmed service.                      *)
TimeOut ==
  /\ Quiet \/ losses < LssLosses
  /\ losses' = IF Quiet THEN losses ELSE losses + 1
  /\ disturbed' = (disturbed \/ ~Quiet)

Expire ==
  /\ command # Nothing /\ command.cs # "fastscan" /\ mailbox = Nothing
  /\ Return("timeout")
  /\ mState' = IF command.cs = "switch" THEN "waiting" ELSE mState
  /\ TimeOut
  /\ UNCHANGED <<mailbox, fs, found, chosen, slave, toSlaves, calls>>

-----------------------------------------------------------------------------
(* CO_LSSmaster_IdentifyFastscan.                                          *)
Probe(id, bit, sub, next) ==
  [cs |-> "fastscan", id |-> id, bit |-> bit, sub |-> sub, next |-> next]

Fastscan(x) ==
  /\ mState = "waiting" /\ command = Nothing
  /\ Start("waiting", [cs |-> "fastscan", scan |-> x.scan, match |-> x.match],
           <<Probe(0, Confirm, 0, 0)>>)
  /\ fs' = [NoScan EXCEPT !.state = "check"]
  /\ UNCHANGED <<chosen, disturbed>>

NextSub(sub) ==      \* CO_LSSmaster_FsSearchNext
  LET rest == {p \in Part : p > sub /\ command.scan[p] # "skip"} IN
  IF rest = {} THEN 0 ELSE CHOOSE p \in rest : \A q \in rest : p <= q

SendProbe(state, sub, bit, id, next) ==
  /\ fs' = [state |-> state, sub |-> sub, bit |-> bit, id |-> id]
  /\ toSlaves' = Append(toSlaves, Probe(id, bit, sub, next))
  /\ UNCHANGED <<mState, command, result, chosen>>

Verify(sub, id) == SendProbe("verify", sub, 0, id, NextSub(sub))

(* Mutant: the scan starts one bit too high.                               *)
ScanPartHigh(sub) == SendProbe("scan", sub, Bits, 0, sub)

(* A part to match is verified without a scan, in the next call.           *)
ScanPart(sub) ==
  IF command.scan[sub] = "match" THEN Verify(sub, command.match[sub])
  ELSE SendProbe("scan", sub, Bits - 1, 0, sub)

GiveUp(ret) ==
  /\ Return(ret)
  /\ UNCHANGED <<mState, fs, toSlaves, chosen>>

(* Every step of the scan waits for the whole time-out.                    *)
FsExpire ==
  LET ack == mailbox.cs = "identify"  wrong == mailbox # Nothing /\ ~ack
      id == IF ack THEN fs.id ELSE fs.id + Twice[fs.bit] IN
  /\ command # Nothing /\ command.cs = "fastscan"
  /\ mailbox' = Nothing
  /\ TimeOut
  /\ \/ fs.state = "check" /\ ack /\ found' = [p \in Part |-> 0] /\ ScanPart(0)
     \/ fs.state = "check" /\ ~ack /\ UNCHANGED found /\ GiveUp("noack")
     \/ fs.state = "scan" /\ wrong /\ UNCHANGED found /\ GiveUp("failed")
     \/ /\ fs.state = "scan" /\ ~wrong /\ UNCHANGED found
        /\ IF fs.bit = 0 THEN Verify(fs.sub, id) ELSE SendProbe("scan", fs.sub, fs.bit - 1, id, fs.sub)
     \/ /\ fs.state = "verify" /\ ~ack /\ found' = [found EXCEPT ![fs.sub] = 0]
        /\ GiveUp(IF wrong THEN "failed" ELSE "noack")
     \/ /\ fs.state = "verify" /\ ack /\ found' = [found EXCEPT ![fs.sub] = fs.id]
        /\ IF NextSub(fs.sub) # 0 THEN ScanPart(NextSub(fs.sub))
           ELSE /\ Return("ok")
                /\ mState' = "selective"
                /\ chosen' = [p \in Part |-> IF command.scan[p] = "skip" THEN Unasked ELSE found'[p]]
                /\ UNCHANGED <<fs, toSlaves>>
  /\ UNCHANGED <<slave, calls>>

LssNext ==
  \/ Deliver \/ LoseFrame
  \/ \E a \in Slaves, kept \in BOOLEAN : CO_LSSslave_process(a, kept)
  \/ \E t \in Targets : Select(t)
  \/ SelectAll \/ Deselect \/ ConfigureStore \/ ActivateBit
  \/ \E rate \in BitRates : ConfigureBitTiming(rate)
  \/ \E n \in NodeIds \cup {Unconfigured} : ConfigureNodeId(n)
  \/ \E p \in Part : Inquire(p, p) \/ Inquire(0, Parts - 1)
  \/ \E x \in Scans : Fastscan(x)
  \/ Confirmed \/ Expire \/ FsExpire

LssSpec == LssInit /\ [][LssNext]_lssVars

-----------------------------------------------------------------------------
LssTypeOK ==
  /\ mState \in {"waiting", "selective", "global"}
  /\ \A p \in Part : found[p] \in Number
  /\ fs.bit \in 0..(Bits - 1) /\ fs.sub \in Part
  /\ \A a \in Slaves :
       /\ slave[a].mode \in {"waiting", "configuration"} /\ slave[a].pos \in Part
       /\ {slave[a].active, slave[a].pending} \subseteq NodeIds \cup {Unconfigured}
       /\ slave[a].rate \in BitRates \cup {InitialRate}

InConfiguration == {a \in Slaves : slave[a].mode = "configuration"}
Matching == {a \in Slaves : \A p \in Part : chosen[p] \in {Unasked, a[p]}}

(* When the master believes that it has selected or found a node, the      *)
(* slaves in configuration state are those with the address it asked for,  *)
(* or that the scan put together bit by bit, and there is one.             *)
SelectedAreChosen ==
  ~disturbed /\ mState = "selective" /\ command.cs # "switch"
    => InConfiguration = Matching /\ Matching # {}

(* A confirmed node id or bit rate is pending in every selected slave, a   *)
(* confirmed store has kept what is pending, and a confirmed inquiry       *)
(* returned a number of one of them.                                       *)
ConfirmedByChosen ==
  ~disturbed /\ mState = "selective" /\ command = Nothing /\ result.ret = "ok"
    => CASE result.service.cs = "node id" ->
              \A a \in Matching : slave[a].pending = result.service.id
         [] result.service.cs = "bit timing" ->
              \A a \in Matching : slave[a].rate = result.service.rate
         [] result.service.cs = "store" ->
              \A a \in Matching : slave[a].stored = <<slave[a].pending, slave[a].rate>>
         [] result.service.cs = "inquire" ->
              \E a \in Matching : found[result.service.part] = a[result.service.part]
         [] OTHER -> TRUE

(* Once an activation is through, every slave that can change its bit rate *)
(* was told to use the one that is pending in it.                          *)
ActivatedUsePending ==
  ~disturbed /\ mState = "global" /\ result.service.cs = "activate" /\ Quiet
    => \A a \in DOMAIN Supported : slave[a].used = slave[a].rate

(* A slave that got its first node id and has left configuration state is  *)
(* about to reset and use it, whatever was lost or came late.              *)
AssignedBecomesActive ==
  \A a \in Slaves :
    slave[a].mode = "waiting" /\ slave[a].active = Unconfigured
      /\ slave[a].pending # Unconfigured => slave[a].request.cs = "waiting"
=============================================================================
