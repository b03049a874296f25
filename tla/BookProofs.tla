----------------------------- MODULE BookProofs -----------------------------
(***************************************************************************)
(* What may become of a record of the book, and what follows for those who *)
(* rely on it: only signed orders are ever stored, closed orders stay      *)
(* closed, and the answers clients were given stay true.                   *)
(***************************************************************************)
EXTENDS NodeProofs

\* The record of o was signed by the owner of an order that validates.
WellSigned(o, sig) == /\ [id |-> o, sig |-> sig] \in Genuine
                      /\ Order[o].sellMint # Order[o].buyMint

\* `submit_order' has checked what it hands to the store.
RequestsVerified ==
    \A c \in Client : request[c] # NoRequest =>
        WellSigned(request[c].signed.id, request[c].signed.sig)

\* What one step of a running process can do to the record of o: nothing, ...
RecordAdded(o) == /\ book[o].status = "absent"
                  /\ book'[o].status = "open"
                  /\ WellSigned(o, book'[o].sig)

RecordClosed(o) == /\ book[o].status = "open"
                   /\ \/ book'[o] = [book[o] EXCEPT !.status = "cancelled"]
                      \/ /\ book'[o] = [book[o] EXCEPT !.status = "expired"]
                         /\ phase = "expiring"

RecordMarked(o) == /\ o \in toMark
                   /\ Present(o)
                   /\ book'[o].status = "auctioned"
                   /\ book'[o].sig = book[o].sig

RecordMoves(o) == \/ book'[o] = book[o]
                  \/ RecordAdded(o)
                  \/ RecordClosed(o)

BookMoves == \A o \in OrderId : RecordMoves(o)

RoundMarks == \E o \in OrderId : MarkAuctioned(o) \/ MarkFails(o)

\* What nobody can undo.
RecordKept(o) == Present(o) => /\ Present(o)'
                               /\ book'[o].sig = book[o].sig
                               /\ Open(o)' => Open(o)

RecordsKept == \A o \in OrderId : RecordKept(o)

-----------------------------------------------------------------------------
(***************************************************************************)
(* The store's operations, as steps of single records.                     *)
(***************************************************************************)
LEMMA BookUnchanged == ASSUME UNCHANGED book PROVE BookMoves
BY DEF BookMoves, RecordMoves

LEMMA InsertRecord ==
    ASSUME TypeOK, NEW s \in SignedOrder, Insert(s), WellSigned(s.id, s.sig)
    PROVE  BookMoves
BY DEF TypeOK, StoreTypeOK, SignedOrder, Insert, Present, BookMoves,
       RecordMoves, RecordAdded

LEMMA CancelRecord ==
    ASSUME TypeOK, NEW o \in OrderId, Open(o), Cancel(o)
    PROVE  BookMoves
BY DEF TypeOK, StoreTypeOK, Open, Cancel, BookMoves, RecordMoves, RecordClosed

LEMMA ExpireRecord ==
    ASSUME TypeOK, NEW S, NEW t, ExpireDue(S, t), phase = "expiring"
    PROVE  BookMoves
BY DEF TypeOK, StoreTypeOK, ExpireDue, Due, Open, BookMoves, RecordMoves,
       RecordClosed

LEMMA UpdateRecord ==
    ASSUME TypeOK, NEW o \in OrderId, MarkAuctioned(o) \/ MarkFails(o)
    PROVE  /\ o \in toMark /\ toMark' = toMark \ {o} /\ phase = "marking"
           /\ \A p \in OrderId \ {o} : book'[p] = book[p]
           /\ \/ book'[o] = book[o]
              \/ RecordMarked(o)
BY DEF TypeOK, StoreTypeOK, OrderRecord, MarkAuctioned, MarkFails,
       UpdateStatus, Present, RecordMarked

\* A cancel is answered 204 only for an open order.
LEMMA CancelledWasOpen ==
    ASSUME NEW o, NEW w, CancelStatus(backend, o, w) = 204
    PROVE  Open(o)
BY DEF CancelStatus, CancelInMemory, CancelInPostgres, Cancellable, StatusCode

LEMMA ApiRecords ==
    ASSUME TypeOK, RequestsVerified, ApiStep
    PROVE  BookMoves
<1>1. ASSUME NEW c \in Client, InsertOrder(c) \/ SubmitFails(c)
      PROVE  BookMoves
  <2>1. request[c] # NoRequest
    BY <1>1 DEF InsertOrder, SubmitFails, NoRequest
  <2>2. /\ request[c].signed \in SignedOrder
        /\ WellSigned(request[c].signed.id, request[c].signed.sig)
    BY <2>1, SignedType DEF RequestsVerified, TypeOK
  <2> QED BY <1>1, <2>2, InsertRecord, BookUnchanged
          DEF InsertOrder, SubmitFails
<1>2. ASSUME NEW o \in OrderId, NEW w \in Address,
             CancelOrder(o, w) \/ CancelFails(o, w)
      PROVE  BookMoves
  BY <1>2, CancelledWasOpen, CancelRecord
     DEF CancelOrder, CancelFails, Cancellable
<1>3. ASSUME NEW c \in Client,
             (\E s \in SignedOrder : SubmitOrder(c, s))
             \/ InsertConflicts(c) \/ FetchExisting(c)
      PROVE  BookMoves
  BY <1>3, BookUnchanged DEF SubmitOrder, InsertConflicts, FetchExisting,
                             storeVars
<1> QED BY <1>1, <1>2, <1>3 DEF ApiStep, IntentPoolStep

LEMMA BackgroundRecords ==
    ASSUME TypeOK, BackgroundStep, ~RoundMarks
    PROVE  BookMoves
<1>0. AuctioneerStep
  BY DEF BackgroundStep, Background
<1>1. CASE Sweep \/ RoundFails
  BY <1>1, ExpireRecord, BookUnchanged DEF Sweep, RoundFails
<1>2. CASE StartRound \/ StartListing \/ List \/ NoOpenOrders \/ SealBatch
           \/ ChooseWinner \/ NoWinner \/ Deliver \/ TakeShutdown
  BY <1>2, BookUnchanged
     DEF StartRound, StartListing, List, NoOpenOrders, SealBatch, ChooseWinner,
         NoWinner, Deliver, TakeShutdown, storeVars
<1>3. ASSUME NEW s \in Solver, SolverReturns(s)
      PROVE  BookMoves
  BY <1>3, BookUnchanged DEF SolverReturns, SolverAnswers, SolverFails
<1> QED BY <1>0, <1>1, <1>2, <1>3 DEF AuctioneerStep, RoundStep, RoundMarks

\* Every step but a start and a mark moves each record as above.
LEMMA RunningRecords ==
    ASSUME TypeOK, RequestsVerified, [Next]_vars,
           ~ \E b \in Backends : Restart(b), ~RoundMarks
    PROVE  BookMoves
<1>1. CASE ClockTicks \/ ServerReturns \/ SendShutdown \/ UNCHANGED vars
  BY <1>1, BookUnchanged
     DEF ClockTicks, ServerReturns, SendShutdown, vars, storeVars
<1> QED BY <1>1, ApiRecords, BackgroundRecords DEF Next

\* While the process runs no record goes away, changes its signature or is
\* opened again, and a record that is new is signed.
LEMMA RecordsAreKept ==
    ASSUME TypeOK, RequestsVerified, [Next]_vars,
           ~ \E b \in Backends : Restart(b)
    PROVE  RecordsKept /\ \A o \in OrderId : Present(o) \/ book'[o] = book[o]
                                             \/ RecordAdded(o)
<1> USE DEF Present, Open
<1>1. CASE RoundMarks
  BY <1>1, UpdateRecord DEF RoundMarks, RecordMarked, RecordsKept, RecordKept
<1>2. CASE ~RoundMarks
  <2>1. SUFFICES ASSUME NEW o \in OrderId
                 PROVE  /\ RecordKept(o)
                        /\ Present(o) \/ book'[o] = book[o] \/ RecordAdded(o)
    BY DEF RecordsKept
  <2>2. RecordMoves(o)
    BY <1>2, RunningRecords DEF BookMoves
  <2>3. CASE book'[o] = book[o] \/ RecordAdded(o)
    BY <2>3 DEF RecordKept, RecordAdded
  <2>4. CASE RecordClosed(o)
    <3>1. /\ book[o] \in OrderRecord
          /\ book[o].status = "open"
      BY <2>4 DEF TypeOK, StoreTypeOK, RecordClosed
    <3>2. /\ book'[o].status \in {"cancelled", "expired"}
          /\ book'[o].sig = book[o].sig
      BY <2>4, <3>1 DEF RecordClosed, OrderRecord
    <3> QED BY <3>1, <3>2 DEF RecordKept
  <2> QED BY <2>2, <2>3, <2>4 DEF RecordMoves
<1> QED BY <1>1, <1>2

-----------------------------------------------------------------------------
(***************************************************************************)
(* Signatures.                                                             *)
(***************************************************************************)
RecordsSigned(records) ==
    \A o \in OrderId :
        records[o].status # "absent" => WellSigned(o, records[o].sig)

SignedInv == /\ RequestsVerified
             /\ RecordsSigned(book)
             /\ RecordsSigned(shelf)

\* A record keeps its signature, and a new one comes from a verified request.
LEMMA RecordsStaySigned ==
    ASSUME TypeOK, SignedInv, [Next]_vars, ~ \E b \in Backends : Restart(b)
    PROVE  RecordsSigned(book')
<1>1. SUFFICES ASSUME NEW o \in OrderId, book'[o].status # "absent"
               PROVE  WellSigned(o, book'[o].sig)
  BY DEF RecordsSigned
<1> QED BY <1>1, RecordsAreKept
        DEF SignedInv, RecordsSigned, RecordsKept, RecordKept, RecordAdded,
            Present

LEMMA RequestsStayVerified ==
    ASSUME TypeOK, RequestsVerified, [Next]_vars
    PROVE  RequestsVerified'
<1> USE DEF RequestsVerified, WellSigned
<1>1. CASE ApiStep
  <2>1. ASSUME NEW c \in Client, Finish(c)
        PROVE  RequestsVerified'
    BY <2>1 DEF Finish, TypeOK, IntentTypeOK
  <2>2. ASSUME NEW c \in Client, NEW s \in SignedOrder, SubmitOrder(c, s)
        PROVE  RequestsVerified'
    <3>1. WellSigned(s.id, s.sig)
      BY <2>2 DEF SubmitOrder, Verify, Validate, SignedOrder
    <3>2. request' = [request EXCEPT ![c] = [pc |-> "checked", signed |-> s]]
      BY <2>2 DEF SubmitOrder
    <3> QED BY <3>1, <3>2 DEF TypeOK, IntentTypeOK
  <2>3. ASSUME NEW c \in Client, InsertConflicts(c)
        PROVE  RequestsVerified'
    <3>1. CASE backend = "memory"
      BY <2>1, <2>3, <3>1 DEF InsertConflicts
    <3>2. CASE backend # "memory"
      <4>1. /\ request' = [request EXCEPT ![c].pc = "conflict"]
            /\ request[c].pc = "checked"
        BY <2>3, <3>2 DEF InsertConflicts
      <4>2. request[c] # NoRequest
        BY <4>1 DEF NoRequest
      <4>3. /\ request'[c].signed = request[c].signed
            /\ \A d \in Client \ {c} : request'[d] = request[d]
        BY <4>1 DEF TypeOK, IntentTypeOK
      <4> QED BY <4>2, <4>3
    <3> QED BY <3>1, <3>2
  <2>4. ASSUME NEW o \in OrderId, NEW w \in Address,
               CancelOrder(o, w) \/ CancelFails(o, w)
        PROVE  RequestsVerified'
    BY <2>4 DEF CancelOrder, CancelFails, intentVars
  <2> QED BY <1>1, <2>1, <2>2, <2>3, <2>4
          DEF ApiStep, IntentPoolStep, InsertOrder, FetchExisting, SubmitFails
<1>2. CASE BackgroundStep \/ ClockTicks \/ SendShutdown \/ UNCHANGED vars
  BY <1>2 DEF BackgroundStep, Background, ClockTicks, SendShutdown, vars,
              intentVars
<1>3. CASE ServerReturns \/ \E b \in Backends : Restart(b)
  BY <1>3 DEF ServerReturns, Restart
<1> QED BY <1>1, <1>2, <1>3 DEF Next

LEMMA SignedNext ==
    ASSUME TypeOK, SignedInv, [Next]_vars
    PROVE  SignedInv'
<1>1. RequestsVerified'
  BY RequestsStayVerified DEF SignedInv
<1>2. CASE \E b \in Backends : Restart(b)
  <2>1. /\ book' \in {book, shelf, EmptyBook}
        /\ shelf' \in {book, shelf, EmptyBook}
    BY <1>2 DEF Restart, OpenStore, Database
  <2>2. RecordsSigned(EmptyBook)
    BY DEF RecordsSigned, EmptyBook, Vacant
  <2> QED BY <1>1, <2>1, <2>2 DEF SignedInv, RecordsSigned
<1>3. CASE ~ \E b \in Backends : Restart(b)
  <2>1. RecordsSigned(book')
    BY <1>3, RecordsStaySigned
  <2>2. shelf' = shelf
    BY <1>3 DEF Next, ApiStep, BackgroundStep, Background, ClockTicks,
                ServerReturns, SendShutdown, vars, nodeVars, restartVars
  <2> QED BY <1>1, <2>1, <2>2 DEF SignedInv, RecordsSigned
<1> QED BY <1>2, <1>3

THEOREM SignedInvHolds == Spec => []SignedInv
<1>1. Init => SignedInv
  BY DEF Init, IntentInit, StoreInit, EmptyBook, Vacant, SignedInv,
         RequestsVerified, RecordsSigned
<1>2. TypeOK /\ SignedInv /\ [Next]_vars => SignedInv'
  BY SignedNext
<1> QED BY <1>1, <1>2, TypeCorrect, PTL DEF Spec

\* Only orders their owner signed, with two different mints, are executed.
THEOREM OnlySignedOrdersExecuteHolds == Spec => []OnlySignedOrdersExecute
<1>1. SignedInv => OnlySignedOrdersExecute
  BY DEF SignedInv, RecordsSigned, WellSigned, OnlySignedOrdersExecute, Present
<1> QED BY <1>1, SignedInvHolds, PTL

-----------------------------------------------------------------------------
(***************************************************************************)
(* The batch.  Outside a round, and while the sweep runs, it is empty; an  *)
(* order a round holds is open or was cancelled under it, until its mark   *)
(* is written.  So marks fall on no closed order but a cancelled one of    *)
(* the batch, and a cancelled order is never picked up.                    *)
(***************************************************************************)
Markable(o) == \/ book[o].status \in {"open", "cancelled"}
               \/ phase = "marking" /\ o \in DOMAIN best.trades \ toMark

BatchInv == /\ phase \in {"idle", "expiring", "stopped"} => batch = {}
            /\ \A o \in batch : Markable(o)

LEMMA BatchKept ==
    ASSUME TypeOK, BatchInv, BookMoves, UNCHANGED <<phase, batch, best, toMark>>
    PROVE  BatchInv'
<1>1. SUFFICES ASSUME NEW o \in batch
               PROVE  Markable(o)'
  BY DEF BatchInv
<1>2. o \in OrderId /\ Markable(o) /\ phase # "expiring"
  BY DEF TypeOK, AuctioneerTypeOK, BatchInv
<1>3. book[o] \in OrderRecord
  BY <1>2 DEF TypeOK, StoreTypeOK
<1>4. RecordMoves(o)
  BY <1>2 DEF BookMoves
<1>5. CASE RecordClosed(o)
  BY <1>2, <1>3, <1>5 DEF RecordClosed, OrderRecord, Markable
<1>6. CASE book'[o] = book[o] \/ RecordAdded(o)
  BY <1>2, <1>6 DEF RecordAdded, Markable
<1> QED BY <1>4, <1>5, <1>6 DEF RecordMoves

LEMMA BatchMarked ==
    ASSUME TypeOK, BatchInv, RoundConsistent, NEW o \in OrderId,
           MarkAuctioned(o) \/ MarkFails(o)
    PROVE  BatchInv'
<1>1. /\ o \in toMark /\ toMark' = toMark \ {o} /\ phase = "marking"
      /\ \A p \in OrderId \ {o} : book'[p] = book[p]
      /\ UNCHANGED <<phase, batch, best>>
  BY UpdateRecord DEF MarkAuctioned, MarkFails
<1>2. o \in DOMAIN best.trades /\ batch \subseteq OrderId
  BY <1>1 DEF TypeOK, AuctioneerTypeOK
<1> QED BY <1>1, <1>2 DEF BatchInv, Markable

LEMMA BatchBackground ==
    ASSUME TypeOK, BatchInv, RoundConsistent, BackgroundStep
    PROVE  BatchInv'
<1>0. AuctioneerStep
  BY DEF BackgroundStep, Background
<1>1. CASE StartRound \/ StartListing \/ SealBatch \/ ChooseWinner
           \/ TakeShutdown
  BY <1>1 DEF StartRound, StartListing, SealBatch, ChooseWinner, TakeShutdown,
              BatchInv, Markable
<1>2. CASE Sweep
  BY <1>2, ExpireRecord, BatchKept DEF Sweep
<1>3. CASE List
  BY <1>3 DEF List, BatchInv, Markable, Open
<1>4. CASE RoundFails \/ NoOpenOrders \/ NoWinner \/ Deliver
  BY <1>4 DEF RoundFails, NoOpenOrders, NoWinner, Deliver, EndRound, BatchInv
<1>5. ASSUME NEW s \in Solver, SolverReturns(s)
      PROVE  BatchInv'
  BY <1>5 DEF SolverReturns, SolverAnswers, SolverFails, BatchInv, Markable
<1> QED BY <1>0, <1>1, <1>2, <1>3, <1>4, <1>5, BatchMarked
        DEF AuctioneerStep, RoundStep

LEMMA BatchNext ==
    ASSUME TypeOK, SettlementInv, SignedInv, BatchInv, [Next]_vars
    PROVE  BatchInv'
<1>1. CASE ApiStep
  BY <1>1, ApiRecords, BatchKept DEF ApiStep, auctioneerVars, SignedInv
<1>2. CASE BackgroundStep
  BY <1>2, BatchBackground DEF SettlementInv
<1>3. CASE ClockTicks \/ ServerReturns \/ SendShutdown \/ UNCHANGED vars
  BY <1>3, BookUnchanged, BatchKept
     DEF ClockTicks, ServerReturns, SendShutdown, vars, storeVars,
         auctioneerVars
<1>4. CASE \E b \in Backends : Restart(b)
  BY <1>4 DEF Restart, EndRound, BatchInv
<1> QED BY <1>1, <1>2, <1>3, <1>4 DEF Next

\* The three invariants of the book together.
BookInv == SettlementInv /\ SignedInv /\ BatchInv

THEOREM BookInvHolds == Spec => []BookInv
<1>1. Init => BatchInv
  BY DEF Init, AuctioneerInit, BatchInv
<1>2. TypeOK /\ SettlementInv /\ SignedInv /\ BatchInv /\ [Next]_vars
      => BatchInv'
  BY BatchNext
<1> QED BY <1>1, <1>2, TypeCorrect, SettlementSafe, SignedInvHolds, PTL
        DEF Spec, BookInv

\* Only an order that is open joins the batch of a round.
LEMMA BatchGrowsByOpen ==
    ASSUME TypeOK, [Next]_vars, NEW o \in batch' \ batch
    PROVE  Open(o) /\ book' = book
<1>1. CASE List
  BY <1>1 DEF List
<1>2. CASE BackgroundStep /\ ~List
  <2>1. batch' \in {batch, {}}
    BY <1>2 DEF BackgroundStep, Background, AuctioneerStep, RoundStep,
                StartRound, Sweep, StartListing, NoOpenOrders, SealBatch,
                ChooseWinner, NoWinner, MarkAuctioned, Deliver, RoundFails,
                SolverReturns, SolverAnswers, SolverFails, MarkFails,
                TakeShutdown, EndRound
  <2> QED BY <2>1
<1>3. CASE ApiStep \/ ClockTicks \/ ServerReturns \/ SendShutdown
           \/ UNCHANGED vars
  BY <1>3 DEF ApiStep, ClockTicks, ServerReturns, SendShutdown, vars,
              auctioneerVars
<1>4. CASE \E b \in Backends : Restart(b)
  BY <1>4 DEF Restart, EndRound
<1> QED BY <1>1, <1>2, <1>3, <1>4 DEF Next

LEMMA ClosedStaysClosed ==
    ASSUME TypeOK, BookInv, [Next]_vars, NEW o \in OrderId \ forgotten'
    PROVE  StaysClosed(o)
<1> USE DEF BookInv, StaysClosed
<1>0. book[o] \in OrderRecord
  BY DEF TypeOK, StoreTypeOK
<1>1. o \in batch' \ batch => Open(o)
  BY BatchGrowsByOpen
<1>2. CASE \E b \in Backends : Restart(b)
  BY <1>1, <1>2 DEF Restart, Open
<1>3. CASE RoundMarks
  <2>1. PICK p \in OrderId : MarkAuctioned(p) \/ MarkFails(p)
    BY <1>3 DEF RoundMarks
  <2>2. CASE o = p
    <3>1. Markable(o) /\ o \in batch /\ o \in toMark
      BY <2>1, <2>2, UpdateRecord
         DEF SettlementInv, RoundConsistent, TypeOK, AuctioneerTypeOK, BatchInv
    <3> QED BY <2>1, <2>2, <3>1, UpdateRecord DEF Markable, RecordMarked
  <2>3. CASE o # p
    BY <1>1, <2>1, <2>3, UpdateRecord DEF Open
  <2> QED BY <2>2, <2>3
<1>4. CASE ~RoundMarks /\ ~ \E b \in Backends : Restart(b)
  <2>1. RecordMoves(o)
    BY <1>4, RunningRecords DEF BookMoves, SignedInv
  <2> QED BY <1>0, <1>1, <2>1
          DEF RecordMoves, RecordAdded, RecordClosed, OrderRecord, Present, Open
<1> QED BY <1>2, <1>3, <1>4

\* Whatever interleaves with a round, a closed order stays closed, but for a
\* cancelled one a running round holds.
THEOREM ClosedOrdersStayClosedHolds == Spec => ClosedOrdersStayClosed
<1>1. TypeOK /\ BookInv /\ [Next]_vars
      => [\A o \in OrderId \ forgotten' : StaysClosed(o)]_vars
  BY ClosedStaysClosed
<1> QED BY <1>1, TypeCorrect, BookInvHolds, PTL DEF Spec, ClosedOrdersStayClosed

\* What a running round may rely on while others write the book.
THEOREM RoundConsistentHolds == Spec => []RoundConsistent
<1>1. SettlementInv => RoundConsistent
  BY DEF SettlementInv
<1> QED BY <1>1, SettlementSafe, PTL

-----------------------------------------------------------------------------
(***************************************************************************)
(* The answers.  What the clients of a backend were told agrees with the   *)
(* records it has: those of the running process, and those of the database *)
(* it has left.  Nothing is left of an in-memory store, nor of what its    *)
(* clients were told.                                                      *)
(***************************************************************************)
Told(b, records) ==
    /\ \A s \in acked[b] : /\ records[s.id].status # "absent"
                           /\ records[s.id].sig = s.sig
    /\ \A s \in conflicted[b] : /\ records[s.id].status # "absent"
                                /\ records[s.id].sig # s.sig
    /\ \A o \in cancelAcked[b] : records[o].status \notin {"absent", "open"}

\* A submit that lost the race for its id will find the record it lost to.
ConflictsPresent ==
    \A c \in Client :
        request[c].pc = "conflict" => Present(request[c].signed.id)

AnswersInv == /\ Told(backend, book)
              /\ backend = "memory" => Told("postgres", shelf)
              /\ backend = "postgres" => Told("memory", EmptyBook)
              /\ ConflictsPresent

Answers == <<acked, conflicted, cancelAcked>>

LEMMA ToldIds ==
    ASSUME TypeOK, NEW b \in Backend
    PROVE  /\ \A s \in acked[b] \cup conflicted[b] : s.id \in OrderId
           /\ cancelAcked[b] \subseteq OrderId
BY DEF TypeOK, IntentTypeOK, SignedOrder

\* What was told of records that are kept stays true.
LEMMA StillTold ==
    ASSUME TypeOK, RecordsKept, Told(backend, book)
    PROVE  /\ \A s \in acked[backend] : /\ book'[s.id].status # "absent"
                                        /\ book'[s.id].sig = s.sig
           /\ \A s \in conflicted[backend] : /\ book'[s.id].status # "absent"
                                             /\ book'[s.id].sig # s.sig
           /\ \A o \in cancelAcked[backend] :
                 book'[o].status \notin {"absent", "open"}
<1>1. backend \in Backend
  BY DEF TypeOK
<1> QED BY <1>1, ToldIds DEF Told, RecordsKept, RecordKept, Present, Open

LEMMA ToldKept ==
    ASSUME TypeOK, RecordsKept, Told(backend, book),
           UNCHANGED <<backend, Answers>>
    PROVE  Told(backend, book)'
BY StillTold DEF Told, Answers

\* One more answer of the backend in use; the other's are left alone.
LEMMA WithAnswers ==
    ASSUME TypeOK, NEW S, NEW answers \in [Backend -> SUBSET S], NEW x
    PROVE  /\ With(answers, x)[backend] = answers[backend] \cup {x}
           /\ \A b \in Backend \ {backend} : With(answers, x)[b] = answers[b]
BY DEF TypeOK, With

\* The reply of an insert whose id is taken is what the record says.
LEMMA ReplyTold ==
    ASSUME TypeOK, NEW s \in SignedOrder, Present(s.id), Reply(s),
           Told(backend, book), UNCHANGED <<backend, book, cancelAcked>>
    PROVE  /\ Told(backend, book)'
           /\ \A b \in Backend \ {backend} :
                 acked'[b] = acked[b] /\ conflicted'[b] = conflicted[b]
<1>1. /\ acked \in [Backend -> SUBSET SignedOrder]
      /\ conflicted \in [Backend -> SUBSET SignedOrder]
  BY DEF TypeOK, IntentTypeOK
<1>2. CASE SameSigned(s)
  <2>1. acked' = With(acked, s) /\ conflicted' = conflicted
    BY <1>2 DEF Reply
  <2>2. /\ acked'[backend] = acked[backend] \cup {s}
        /\ \A b \in Backend \ {backend} : acked'[b] = acked[b]
    BY <1>1, <2>1 DEF TypeOK, With
  <2> QED BY <1>2, <2>1, <2>2 DEF Told, SameSigned, Present
<1>3. CASE ~SameSigned(s)
  <2>1. conflicted' = With(conflicted, s) /\ acked' = acked
    BY <1>3 DEF Reply
  <2>2. /\ conflicted'[backend] = conflicted[backend] \cup {s}
        /\ \A b \in Backend \ {backend} : conflicted'[b] = conflicted[b]
    BY <1>1, <2>1, WithAnswers
  <2> QED BY <1>3, <2>1, <2>2 DEF Told, SameSigned, Present
<1> QED BY <1>2, <1>3

\* What an API step answers holds of the records it leaves.
ElsewhereSame == \A b \in Backend \ {backend} :
                     /\ acked'[b] = acked[b]
                     /\ conflicted'[b] = conflicted[b]
                     /\ cancelAcked'[b] = cancelAcked[b]

LEMMA InsertTold ==
    ASSUME TypeOK, RecordsKept, Told(backend, book), UNCHANGED backend,
           NEW c \in Client, InsertOrder(c)
    PROVE  Told(backend, book)' /\ ElsewhereSame
<1>1. PICK s \in SignedOrder : s = request[c].signed
  BY SignedType DEF InsertOrder, TypeOK, NoRequest
<1>2. /\ ~Present(s.id) /\ Insert(s) /\ s.id \in OrderId
      /\ acked' = With(acked, s)
      /\ UNCHANGED <<conflicted, cancelAcked>>
  BY <1>1 DEF InsertOrder, SignedOrder
<1>3. book'[s.id].status = "open" /\ book'[s.id].sig = s.sig
  BY <1>2 DEF Insert, TypeOK, StoreTypeOK
<1>4. /\ acked'[backend] = acked[backend] \cup {s}
      /\ \A b \in Backend \ {backend} : acked'[b] = acked[b]
  BY <1>2, WithAnswers DEF TypeOK, IntentTypeOK
<1> QED BY <1>2, <1>3, <1>4, StillTold DEF Told, ElsewhereSame

LEMMA CancelTold ==
    ASSUME TypeOK, RecordsKept, Told(backend, book), UNCHANGED backend,
           NEW o \in OrderId, NEW w \in Address, CancelOrder(o, w)
    PROVE  Told(backend, book)' /\ ElsewhereSame
<1>1. book'[o].status = "cancelled"
  BY DEF CancelOrder, Cancel, TypeOK, StoreTypeOK, OrderRecord
<1>2. /\ cancelAcked'[backend] = cancelAcked[backend] \cup {o}
      /\ \A b \in Backend \ {backend} : cancelAcked'[b] = cancelAcked[b]
  <2>1. /\ cancelAcked \in [Backend -> SUBSET OrderId]
        /\ cancelAcked' = With(cancelAcked, o)
    BY DEF CancelOrder, TypeOK, IntentTypeOK
  <2> QED BY <2>1, WithAnswers
<1>3. /\ acked' = acked /\ conflicted' = conflicted
  BY DEF CancelOrder
<1> QED BY <1>1, <1>2, <1>3, StillTold DEF Told, ElsewhereSame

LEMMA ApiTold ==
    ASSUME TypeOK, RecordsKept, AnswersInv, ApiStep
    PROVE  Told(backend, book)' /\ ElsewhereSame
<1>0. /\ Told(backend, book) /\ ConflictsPresent
      /\ UNCHANGED backend
  BY DEF AnswersInv, ApiStep, nodeVars, restartVars
<1>1. ASSUME NEW c \in Client, InsertConflicts(c) \/ FetchExisting(c)
      PROVE  Told(backend, book)' /\ ElsewhereSame
  <2>1. PICK s \in SignedOrder : s = request[c].signed
    BY <1>1, SignedType DEF InsertConflicts, FetchExisting, TypeOK, NoRequest
  <2>2. UNCHANGED <<book, cancelAcked>>
    BY <1>1 DEF InsertConflicts, FetchExisting, storeVars
  <2>3. CASE Reply(request[c].signed)
    <3>1. Present(s.id)
      BY <1>0, <1>1, <2>1
         DEF InsertConflicts, FetchExisting, ConflictsPresent
    <3>2. Reply(s)
      BY <2>1, <2>3
    <3> QED BY <1>0, <2>2, <3>1, <3>2, ReplyTold DEF ElsewhereSame
  <2>4. CASE UNCHANGED <<acked, conflicted>>
    BY <1>0, <2>2, <2>4, ToldKept DEF ElsewhereSame, Answers
  <2> QED BY <1>1, <2>3, <2>4 DEF InsertConflicts, FetchExisting
<1>2. ASSUME NEW c \in Client, (\E s \in SignedOrder : SubmitOrder(c, s))
                               \/ SubmitFails(c)
      PROVE  Told(backend, book)' /\ ElsewhereSame
  BY <1>0, <1>2, ToldKept DEF SubmitOrder, SubmitFails, ElsewhereSame, Answers
<1>3. ASSUME NEW o \in OrderId, NEW w \in Address, CancelFails(o, w)
      PROVE  Told(backend, book)' /\ ElsewhereSame
  BY <1>0, <1>3, ToldKept DEF CancelFails, intentVars, ElsewhereSame, Answers
<1> QED BY <1>0, <1>1, <1>2, <1>3, InsertTold, CancelTold
        DEF ApiStep, IntentPoolStep

\* A handler goes on to fetch a record only when there is one.
LEMMA ConflictsStayPresent ==
    ASSUME TypeOK, RecordsKept, ConflictsPresent, ApiStep
    PROVE  ConflictsPresent'
<1>1. SUFFICES ASSUME NEW d \in Client, request'[d].pc = "conflict"
               PROVE  book'[request'[d].signed.id].status # "absent"
  BY DEF ConflictsPresent, Present
<1>2. request \in [Client -> Request] /\ NoRequest.pc = "idle"
  BY DEF TypeOK, IntentTypeOK, NoRequest
<1>3. CASE request'[d] = request[d]
  <2>1. request[d].signed.id \in OrderId /\ Present(request[d].signed.id)
    BY <1>1, <1>2, <1>3, SignedType
       DEF ConflictsPresent, TypeOK, SignedOrder
  <2> QED BY <1>3, <2>1 DEF RecordsKept, RecordKept, Present
<1>4. CASE request'[d] # request[d]
  <2>1. InsertConflicts(d)
    BY <1>1, <1>2, <1>4
       DEF ApiStep, IntentPoolStep, SubmitOrder, InsertOrder, InsertConflicts,
           FetchExisting, SubmitFails, Finish, CancelOrder, CancelFails,
           intentVars
  <2>2. /\ request[d].signed \in SignedOrder
        /\ Present(request[d].signed.id)
        /\ request'[d].signed = request[d].signed
        /\ book' = book
    <3>1. /\ request[d].pc = "checked" /\ Present(request[d].signed.id)
          /\ book' = book
      BY <2>1 DEF InsertConflicts, storeVars
    <3>2. request[d].signed \in SignedOrder
      BY <1>2, <3>1, SignedType DEF TypeOK
    <3>3. request' = [request EXCEPT ![d].pc = "conflict"]
      BY <1>1, <1>2, <2>1 DEF InsertConflicts, Finish
    <3>4. request[d] \in [pc : {"checked", "conflict"}, signed : SignedOrder]
      BY <1>2, <3>1 DEF Request
    <3>5. request'[d].signed = request[d].signed
      BY <1>2, <3>3, <3>4
    <3> QED BY <3>1, <3>2, <3>5
  <2> QED BY <2>2 DEF Present
<1> QED BY <1>3, <1>4

\* A start forgets what the clients of an in-memory store were told, and opens
\* an empty one or the database as it was left.
LEMMA RestartTold ==
    ASSUME TypeOK, AnswersInv, NEW b \in Backends, Restart(b)
    PROVE  AnswersInv'
<1>1. /\ acked'["memory"] = {} /\ conflicted'["memory"] = {}
      /\ cancelAcked'["memory"] = {}
      /\ acked'["postgres"] = acked["postgres"]
      /\ conflicted'["postgres"] = conflicted["postgres"]
      /\ cancelAcked'["postgres"] = cancelAcked["postgres"]
  BY DEF Restart, Durable, TypeOK, IntentTypeOK, Backend
<1>2. Told("postgres", Database)
  BY DEF AnswersInv, Database, TypeOK, Backend
<1>3. \A records : Told("memory", records)'
  BY <1>1 DEF Told
<1>4. CASE b = "postgres"
  <2>1. book' = Database /\ backend' = "postgres"
    BY <1>4 DEF Restart, OpenStore
  <2>2. Told("postgres", book)'
    BY <1>1, <1>2, <2>1 DEF Told
  <2>3. Told("memory", EmptyBook)'
    BY <1>1 DEF Told
  <2> QED BY <2>1, <2>2, <2>3 DEF AnswersInv, ConflictsPresent, Restart, NoRequest
<1>5. CASE b = "memory"
  <2>1. shelf' = Database /\ backend' = "memory"
    BY <1>5 DEF Restart, OpenStore
  <2>2. Told("postgres", shelf)'
    BY <1>1, <1>2, <2>1 DEF Told
  <2>3. Told("memory", book)'
    BY <1>1 DEF Told
  <2> QED BY <2>1, <2>2, <2>3 DEF AnswersInv, ConflictsPresent, Restart, NoRequest
<1> QED BY <1>4, <1>5, BackendsAssumption DEF Backend

LEMMA AnswersNext ==
    ASSUME TypeOK, RequestsVerified, AnswersInv, [Next]_vars
    PROVE  AnswersInv'
<1>1. CASE \E b \in Backends : Restart(b)
  BY <1>1, RestartTold
<1>2. CASE ~ \E b \in Backends : Restart(b)
  <2>1. RecordsKept
    BY <1>2, RecordsAreKept
  <2>2. UNCHANGED <<backend, shelf>>
    BY <1>2 DEF Next, ApiStep, BackgroundStep, Background, ClockTicks,
                ServerReturns, SendShutdown, vars, nodeVars, restartVars
  <2>3. /\ Told(backend, book)
        /\ backend = "memory" => Told("postgres", shelf)
        /\ backend = "postgres" => Told("memory", EmptyBook)
        /\ ConflictsPresent
    BY DEF AnswersInv
  <2>4. Told(backend, book)' /\ ElsewhereSame /\ ConflictsPresent'
    <3>1. CASE ApiStep
      BY <2>1, <2>3, <3>1, ApiTold, ConflictsStayPresent
    <3>2. CASE UNCHANGED Answers /\ ~ApiStep
      <4>1. Told(backend, book)' /\ ElsewhereSame
        BY <2>1, <2>2, <2>3, <3>2, ToldKept DEF ElsewhereSame, Answers
      <4>2. request' = request \/ request' = [c \in Client |-> NoRequest]
        BY <1>2, <3>2 DEF Next, BackgroundStep, Background, ClockTicks,
                ServerReturns, SendShutdown, vars, intentVars
      <4>3. ConflictsPresent'
        <5>1. \A c \in Client : request[c].pc = "conflict" =>
                 request[c].signed.id \in OrderId
          BY SignedType DEF TypeOK, SignedOrder, NoRequest
        <5> QED BY <2>1, <2>3, <4>2, <5>1
            DEF ConflictsPresent, RecordsKept, RecordKept, Present, NoRequest
      <4> QED BY <4>1, <4>3
    <3>3. ApiStep \/ UNCHANGED Answers
      BY <1>2 DEF Next, BackgroundStep, Background, ClockTicks, ServerReturns,
                  SendShutdown, vars, intentVars, Answers
    <3> QED BY <3>1, <3>2, <3>3
  <2>5. /\ backend' = "memory" => Told("postgres", shelf)'
        /\ backend' = "postgres" => Told("memory", EmptyBook)'
    BY <2>2, <2>3, <2>4 DEF ElsewhereSame, Told, Backend
  <2> QED BY <2>4, <2>5 DEF AnswersInv
<1> QED BY <1>1, <1>2

THEOREM AnswersInvHolds == Spec => []AnswersInv
<1>1. Init => AnswersInv
  BY BackendsAssumption
     DEF Init, IntentInit, StoreInit, AnswersInv, Told, ConflictsPresent,
         NoRequest, Backend
<1>2. TypeOK /\ SignedInv /\ AnswersInv /\ [Next]_vars => AnswersInv'
  BY AnswersNext DEF SignedInv
<1> QED BY <1>1, <1>2, TypeCorrect, SignedInvHolds, PTL DEF Spec

\* However inserts of one order, failed calls and starts interleave, what a
\* client was told of an order stays true.
THEOREM AnswersStayTrueHolds == Spec => []AnswersStayTrue
<1>1. ASSUME TypeOK, AnswersInv PROVE AnswersStayTrue
  <2>1. /\ backend \in Backend
        /\ Told(backend, book)
    BY <1>1 DEF TypeOK, AnswersInv
  <2>2. ASSUME NEW s \in acked[backend]
        PROVE  /\ GetStatus(s.id) = 200
               /\ SubmitStatus(s) # 409
               /\ Open(s.id) =>
                    s.id \in ListOrders(Order[s.id].sellMint,
                                        Order[s.id].buyMint)
    <3>1. Present(s.id) /\ SameSigned(s) /\ s.id \in OrderId
      BY <1>1, <2>1, <2>2, ToldIds DEF Told, Present, SameSigned
    <3> QED BY <3>1 DEF GetStatus, SubmitStatus, StatusCode, ListOrders,
                        ListOpen
  <2>3. ASSUME NEW s \in conflicted[backend]
        PROVE  SubmitStatus(s) \in {400, 409}
    <3>1. Present(s.id) /\ ~SameSigned(s)
      BY <2>1, <2>3 DEF Told, Present, SameSigned
    <3> QED BY <3>1 DEF SubmitStatus, StatusCode
  <2>4. ASSUME NEW o \in cancelAcked[backend]
        PROVE  o \notin ListOpen(Mint \X Mint)
    BY <2>1, <2>4 DEF Told, ListOpen, Open
  <2> QED BY <2>2, <2>3, <2>4 DEF AnswersStayTrue
<1> QED BY <1>1, TypeCorrect, AnswersInvHolds, PTL
=============================================================================
