------------------------------ MODULE MCKeypad ------------------------------
(* Two keys and two slots: the order of two waiting events matters, and the *)
(* scanner is blocked with a third; a register value of 2 gives a press     *)
(* that needs two samples.                                                  *)
EXTENDS Keypad
MCThreshold == {0, 2}
=============================================================================
