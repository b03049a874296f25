----------------------------- MODULE Settlement -----------------------------
(***************************************************************************)
(* JitoSink (crates/oxdex-node/src/main.rs) over a BundleSubmitter         *)
(* (crates/oxdex-jito-client): a winning solution becomes one bundle of    *)
(* one transaction, which lands whole or not at all.  The sink logs the    *)
(* submitter's answer and drops it, so the only thing that differs between *)
(* outcomes is whether the bundle landed.  "landed" may have been answered *)
(* with an error (a reply that came after the 5 s HttpJitoClient waits, or *)
(* could not be decoded), "lost" with an id (accepted, but never landed).  *)
(***************************************************************************)
EXTENDS OrderStore

CONSTANT BundleOutcomes       \* which of "landed", "lost" can happen
ASSUME BundleOutcomesAssumption == BundleOutcomes \subseteq {"landed", "lost"}

VARIABLES
    landed,       \* the fill each executed order was last executed with
    repeated,     \* orders executed more than once
    dropped       \* orders whose last bundle was lost

settlementVars == <<landed, repeated, dropped>>

NoTrades == [o \in {} |-> Unfilled]

SettlementInit ==
    /\ landed = NoTrades
    /\ repeated = {}
    /\ dropped = {}

Executed(o) == o \in DOMAIN landed

Lands(trades) ==
    /\ landed' = [o \in DOMAIN trades \cup DOMAIN landed |->
                    IF o \in DOMAIN trades THEN trades[o] ELSE landed[o]]
    /\ repeated' = repeated \cup {o \in DOMAIN trades : Executed(o)}
    /\ dropped' = dropped \ DOMAIN trades

Loses(trades) ==
    /\ dropped' = dropped \cup DOMAIN trades
    /\ UNCHANGED <<landed, repeated>>

\* `deliver' of a solution with these trades.
DeliverBundle(trades) ==
    \/ "landed" \in BundleOutcomes /\ Lands(trades)
    \/ "lost" \in BundleOutcomes /\ Loses(trades)
=============================================================================
