------------------------------ MODULE DataStore ------------------------------
(***************************************************************************)
(* What a store of lib-base promises, whichever way it reads the chain: it *)
(* is loaded once and for all, and from then on every property it shows is *)
(* one that the property really had.  Not that the properties are of one   *)
(* moment, nor that they only ever move forward.                           *)
(*                                                                         *)
(* A value is the number of changes that led to it.  shown[f] is the set   *)
(* of values that f may be shown with; 0 is the default before the load.   *)
(* loads counts the loads: _load() and onLoaded() run once at most.        *)
(***************************************************************************)
EXTENDS Naturals

CONSTANT Field
VARIABLES truth, loads, shown

storeVars == <<truth, loads, shown>>

Init ==
  /\ truth \in [Field -> Nat \ {0}]
  /\ loads = 0
  /\ shown = [f \in Field |-> {0}]

\* The chain changes any of the properties.
Write ==
  /\ \A f \in Field : truth'[f] >= truth[f]
  /\ UNCHANGED <<loads, shown>>

\* The store is loaded, for the first time, or updated.
Show ==
  /\ loads' = 1
  /\ \A f \in Field : shown'[f] # {} /\ shown'[f] \subseteq 1 .. truth[f]
  /\ UNCHANGED truth

Next == Write \/ Show

Spec == Init /\ [][Next]_storeVars
=============================================================================
