----------------------------- MODULE WallClock -----------------------------
(***************************************************************************)
(* The host's clock in whole seconds, as both `unix_secs' helpers read it  *)
(* (intent-pool/src/handlers.rs, auctioneer/src/lib.rs).  It is assumed    *)
(* not to be set back.                                                     *)
(***************************************************************************)
EXTENDS Integers

CONSTANT MaxTime      \* bound on the seconds a run lasts
ASSUME MaxTimeAssumption == MaxTime \in Nat

VARIABLE clock

ClockInit == clock = 0

Tick == clock < MaxTime /\ clock' = clock + 1
=============================================================================
