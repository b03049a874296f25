------------------------------- MODULE Orders -------------------------------
(***************************************************************************)
(* Orders and signed orders (crates/oxdex-types/src/order.rs).             *)
(*                                                                         *)
(* An order is content addressed: its id is the SHA-256 of all its fields, *)
(* so an id determines the order and is used for the order throughout; the *)
(* fields the protocol looks at are a function of the id.  nonce, kind and *)
(* receiver only make ids differ and have no field here.                   *)
(***************************************************************************)
EXTENDS Integers

CONSTANTS
    OrderId,      \* the orders clients may submit
    Address,      \* owners
    Mint,         \* token mints
    Order,        \* the fields of each order, by id
    Signature,    \* 64-byte strings clients may attach
    Genuine       \* the signed orders whose signature verifies

SignedOrder == [id : OrderId, sig : Signature]

ASSUME OrderAssumption ==
    Order \in [OrderId -> [owner : Address, sellMint : Mint, buyMint : Mint,
                           sellAmount : Nat, buyAmount : Nat, validTo : Int]]

ASSUME GenuineAssumption == Genuine \subseteq SignedOrder

(***************************************************************************)
(* `validate' against the wall clock, and `verify' against the owner's key.*)
(***************************************************************************)
Validate(o, now) ==
    /\ Order[o].sellMint # Order[o].buyMint
    /\ Order[o].sellAmount > 0
    /\ Order[o].buyAmount > 0
    /\ Order[o].validTo > now

Verify(s) == s \in Genuine

\* o and p trade the same two mints in opposite directions.
Opposite(o, p) ==
    /\ Order[o].sellMint = Order[p].buyMint
    /\ Order[o].buyMint = Order[p].sellMint

\* The sets of orders the matcher can trade: each has a counterparty in it.
Tradable(S) == \A o \in S : \E p \in S : Opposite(o, p)
=============================================================================
