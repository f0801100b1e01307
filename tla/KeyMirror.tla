----------------------------- MODULE KeyMirror -----------------------------
(***************************************************************************)
(* What the keyboard of the keypad promises, without scan, debouncing,     *)
(* queue size or tasks: every change of a debounced key state, and every   *)
(* auto-repeat, becomes an event; the events reach object 0x2000 one at a  *)
(* time, none lost, none twice, in the order they happened.                *)
(***************************************************************************)
EXTENDS Integers, Sequences

CONSTANT Key

VARIABLES
  pressed,  (* the keys whose debounced state is "on"                      *)
  backlog,  (* events that object 0x2000 does not show yet, oldest first   *)
  shown     (* the keys whose bit is set in 0x2000:1                       *)

vars == <<pressed, backlog, shown>>

Make(k) == [KeyCode |-> k, Status |-> "MAKECODE"]
Brake(k) == [KeyCode |-> k, Status |-> "BRAKECODE"]
Event == [KeyCode : Key, Status : {"MAKECODE", "BRAKECODE"}]

(* What one event does to the set of shown keys.                           *)
Apply(S, e) == IF e.Status = "MAKECODE" THEN S \cup {e.KeyCode}
                                        ELSE S \ {e.KeyCode}

Init == pressed = {} /\ backlog = <<>> /\ shown = {}

Press(k) ==
  /\ k \notin pressed
  /\ pressed' = pressed \cup {k}
  /\ backlog' = Append(backlog, Make(k))
  /\ UNCHANGED shown

Repeat(k) ==
  /\ k \in pressed
  /\ backlog' = Append(backlog, Make(k))
  /\ UNCHANGED <<pressed, shown>>

Release(k) ==
  /\ k \in pressed
  /\ pressed' = pressed \ {k}
  /\ backlog' = Append(backlog, Brake(k))
  /\ UNCHANGED shown

Deliver ==
  /\ backlog # <<>>
  /\ shown' = Apply(shown, Head(backlog))
  /\ backlog' = Tail(backlog)
  /\ UNCHANGED pressed

Next == (\E k \in Key : Press(k) \/ Repeat(k) \/ Release(k)) \/ Deliver

Spec == Init /\ [][Next]_vars
-----------------------------------------------------------------------------
TypeOK ==
  /\ pressed \subseteq Key
  /\ backlog \in Seq(Event)
  /\ shown \subseteq Key

(* i is the last event of its key in the backlog.                          *)
IsLast(i) == \A j \in DOMAIN backlog :
               j > i => backlog[j].KeyCode # backlog[i].KeyCode

(* The last event waiting for a key tells its debounced state, and a key   *)
(* with no event waiting is shown as it is: once the backlog is empty,     *)
(* 0x2000 is the debounced keyboard.                                       *)
Mirror ==
  /\ \A i \in DOMAIN backlog : IsLast(i) =>
       (backlog[i].Status = "MAKECODE" <=> backlog[i].KeyCode \in pressed)
  /\ \A k \in Key : (\A i \in DOMAIN backlog : backlog[i].KeyCode # k) =>
       (k \in shown <=> k \in pressed)
=============================================================================
