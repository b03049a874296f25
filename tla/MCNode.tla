------------------------------- MODULE MCNode -------------------------------
(***************************************************************************)
(* Small instances of Node.  "ask" and "ask2" sell mint A for B and        *)
(* compete for "bid", which sells B for A; "ask" falls due during the run, *)
(* the others outlive it.  Signature "forged" verifies for no order, every *)
(* other signature for all of them.                                        *)
(***************************************************************************)
EXTENDS NodeLedger

MCAddress == {"alice", "bob"}
MCMint == {"A", "B"}

MCOrderOf(owner, sell, buy, validTo) ==
    [owner |-> owner, sellMint |-> sell, buyMint |-> buy,
     sellAmount |-> 1, buyAmount |-> 1, validTo |-> validTo]

MCOrder == [o \in OrderId |->
              IF o = "bid" THEN MCOrderOf("bob", "B", "A", 9)
              ELSE MCOrderOf("alice", "A", "B", IF o = "ask" THEN 1 ELSE 9)]

MCGenuine == {s \in SignedOrder : s.sig # "forged"}
=============================================================================
