---------------------------- MODULE MCTokenLock ----------------------------
(***************************************************************************)
(* Small instances of TokenLock: slot s1 starts uninitialized, any other   *)
(* slot initialized; no slot has objects yet.  Slot ID sx is in no slot.   *)
(* Slot s1 overrides its mechanism list.                                   *)
(***************************************************************************)
EXTENDS TokenLock

CONSTANTS s1, sx, factory, a, b, m1, m2, m3

MCSlotIDs == Slots \cup {sx}
MCLabels == {factory, a, b}
\* One label as it is, and one with padding.
MCWireLabels == {[text |-> a, pad |-> 0], [text |-> b, pad |-> 1]}
MCMechs == {m1, m2, m3}
MCMechsFew == {m1, m3}
MCDefaultMechs == {m1, m2}
MCCounts == 0..2
MCConfigured == [s \in Slots |->
  [label       |-> factory,
   initialized |-> s # s1,
   objects     |-> << >>,
   mechanisms  |-> IF s = s1 THEN {m1} ELSE NoArg,
   mechanismInfo |-> NoArg]]
MCAllOps == AllOps

=============================================================================
