----------------------------- MODULE ArmedRelay -----------------------------
(***************************************************************************)
(* What the hardware command gate promises about arm motion, without       *)
(* saying when it stops: it drives the arms only while armed and free of a *)
(* fault, a fault disarms it in the same step, and a fault is cleared only *)
(* while it is disarmed, so that driving again takes a new arming.         *)
(* CommandGate implements this specification.                              *)
(***************************************************************************)
VARIABLES armed, driving, fault
vars == <<armed, driving, fault>>

TypeOK == {armed, driving, fault} \subseteq BOOLEAN

Init == armed = FALSE /\ driving = FALSE /\ fault = FALSE

Arm == ~armed /\ armed' = TRUE /\ driving' = FALSE /\ UNCHANGED fault

Drive == armed /\ ~fault /\ driving' = TRUE /\ UNCHANGED <<armed, fault>>

\* Stop driving without giving up the arming.
Rest == driving' = FALSE /\ UNCHANGED <<armed, fault>>

Disarm == armed' = FALSE /\ driving' = FALSE /\ UNCHANGED fault

Trip == fault' = TRUE /\ armed' = FALSE /\ driving' = FALSE

Clear == ~armed /\ fault' = FALSE /\ driving' = FALSE /\ UNCHANGED armed

Next == Arm \/ Drive \/ Rest \/ Disarm \/ Trip \/ Clear

Spec == Init /\ [][Next]_vars
=============================================================================
