-------------------------- MODULE MCReferenceSolver --------------------------
(***************************************************************************)
(* Small instances of ReferenceSolver.  Every order is named for the mint  *)
(* it sells and the mint it wants.  Three orders compete in the market of  *)
(* A and B, and match_pair leaves one of them; A is also traded for C.     *)
(***************************************************************************)
EXTENDS ReferenceSolver

MCMint == {"A", "B", "C"}
MCRank == [m \in MCMint |-> CASE m = "A" -> 1 [] m = "B" -> 3 [] m = "C" -> 2]

MCOrderOf(sell, buy) ==
    [owner |-> "alice", sellMint |-> sell, buyMint |-> buy,
     sellAmount |-> 1, buyAmount |-> 1, validTo |-> 9]

MCOrder == [o \in OrderId |->
              CASE o \in {"AB", "AB2"} -> MCOrderOf("A", "B")
                [] o = "BA" -> MCOrderOf("B", "A")
                [] o = "AC" -> MCOrderOf("A", "C")
                [] o = "CA" -> MCOrderOf("C", "A")]

\* Without a counterparty nothing is matched; of "AB" and "AB2" only one is.
MCMatched == [S \in SUBSET OrderId |->
                LET T == IF "AB" \in S THEN S \ {"AB2"} ELSE S
                IN  {o \in T : \E p \in T : Opposite(o, p)}]

\* Two markets with surplus 2 and 3 overflow a score of at most MaxU128 = 4.
MCSurplus == [S \in SUBSET OrderId |-> IF "BA" \in S THEN 2 ELSE 3]

MCBatches == {{"AB", "AB2", "BA", "AC", "CA"}, {"AB2", "BA", "AC"}}
=============================================================================
