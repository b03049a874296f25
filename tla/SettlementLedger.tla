-------------------------- MODULE SettlementLedger --------------------------
(***************************************************************************)
(* What the node promises about an order, without requests, statements,    *)
(* solvers, faults or a clock: an abstract specification that Node         *)
(* implements as long as it is restarted on the same database (see         *)
(* NodeLedger).                                                            *)
(*                                                                         *)
(* A round holds orders that are listed, reserves some of those it holds,  *)
(* and concludes everything reserved in one step: all of it is settled, or *)
(* all failed, or all stranded by a crash.  What is concluded or lapsed,   *)
(* and a withdrawn order that no round holds, never changes again.         *)
(***************************************************************************)
CONSTANT OrderId

VARIABLES
    state,        \* what has become of each order
    held          \* the orders the current round has picked up

ledgerVars == <<state, held>>

Orders(st) == {o \in OrderId : state[o] = st}

Move(S, st) == state' = [o \in OrderId |-> IF o \in S THEN st ELSE state[o]]

Init == state = [o \in OrderId |-> "unknown"] /\ held = {}

List(o) == state[o] = "unknown" /\ Move({o}, "listed") /\ UNCHANGED held

\* A withdrawal succeeds even while a round holds the order.
Withdraw(o) == state[o] = "listed" /\ Move({o}, "withdrawn") /\ UNCHANGED held

\* Orders a round holds do not lapse under it.
Lapse(S) == /\ S \subseteq Orders("listed") \ held
            /\ Move(S, "lapsed")
            /\ UNCHANGED held

Hold(S) == /\ S \subseteq Orders("listed")
           /\ held' = held \cup S
           /\ UNCHANGED state

\* The round reserves what it holds, withdrawn meanwhile or not.
Reserve(o) == /\ o \in held
              /\ state[o] \in {"listed", "withdrawn"}
              /\ Move({o}, "reserved")
              /\ UNCHANGED held

\* The round ends for everything it has reserved.
Conclude(st) == /\ Orders("reserved") # {}
                /\ Move(Orders("reserved"), st)
                /\ held' = {}

ConcludeSomehow == \E st \in {"settled", "failed", "stranded"} : Conclude(st)

\* The round ends without trades.
Release == Orders("reserved") = {} /\ held' = {} /\ UNCHANGED state

Next == \/ \E o \in OrderId : List(o) \/ Withdraw(o) \/ Reserve(o)
        \/ \E S \in SUBSET OrderId : Lapse(S) \/ Hold(S)
        \/ ConcludeSomehow
        \/ Release

\* What the ledger never does, and what it does in the end.
SafeSpec == Init /\ [][Next]_ledgerVars

Spec == SafeSpec /\ WF_ledgerVars(ConcludeSomehow)
=============================================================================
