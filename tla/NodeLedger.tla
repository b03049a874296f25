----------------------------- MODULE NodeLedger -----------------------------
(***************************************************************************)
(* Node implements SettlementLedger as long as every start opens the same  *)
(* database: store calls may fail, the process may crash, and bundles may  *)
(* be lost.                                                                *)
(***************************************************************************)
EXTENDS Node

\* An execution the book does not show, and a mark without a bundle, are in no
\* state of the ledger.
LedgerStateOf(o) ==
    CASE o \in Reserved               -> "reserved"
      [] book[o].status = "absent"    -> "unknown"
      [] book[o].status = "auctioned" /\ o \notin Reserved ->
            IF o \in stranded THEN "stranded"
            ELSE IF o \in dropped THEN "failed"
            ELSE IF Executed(o) THEN "settled" ELSE "leaked"
      [] book[o].status \in {"open", "cancelled", "expired"} ->
            IF Executed(o) /\ o \notin lostMarks THEN "leaked"
            ELSE CASE book[o].status = "open"      -> "listed"
                   [] book[o].status = "cancelled" -> "withdrawn"
                   [] book[o].status = "expired"   -> "lapsed"

Ledger == INSTANCE SettlementLedger
            WITH state <- [o \in OrderId |-> LedgerStateOf(o)], held <- batch

\* Every behaviour of the node is a behaviour of the ledger: a round's trades
\* are settled all at once or not at all, an order it holds does not lapse, and
\* what is reserved is settled, failed or stranded in the end, through failing
\* marks, a graceful shutdown and crashes.
ImplementsLedger == Ledger!Spec
=============================================================================
