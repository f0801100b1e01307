---------------------------- MODULE MCRpdoReceive ----------------------------
(* Two PDOs, so that they share the error bit; one maps two objects, so     *)
(* that an interrupt can come between the two writes.                       *)
EXTENDS RpdoReceive
MCMapped == <<2, 1>>
=============================================================================
