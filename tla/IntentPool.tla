----------------------------- MODULE IntentPool -----------------------------
(***************************************************************************)
(* The HTTP API (crates/oxdex-intent-pool/src/handlers.rs).  Each client   *)
(* has one request in flight.  A handler suspends at every call of the     *)
(* store, so a submit is several steps: the checks, then insert -- which   *)
(* in Postgres is one statement and, when the id is taken, a second one    *)
(* that fetches the record.  A cancel is a single store call.              *)
(*                                                                         *)
(* Requests that are refused before they reach the store (400) and the     *)
(* reading endpoints change nothing and have no action; what every         *)
(* endpoint answers in a state is given by the operators ...Status.        *)
(***************************************************************************)
EXTENDS OrderStore, WallClock

CONSTANT Client       \* the requests that can be in flight at once

VARIABLES
    request,      \* what each client's submit handler is doing
    acked,        \* signed orders some submit was answered 201 for
    conflicted,   \* signed orders some submit was answered 409 for
    cancelAcked   \* orders some cancel was answered 204 for
                  \* (each by the backend that answered)

intentVars == <<request, acked, conflicted, cancelAcked>>

NoRequest == [pc |-> "idle"]

Request == {NoRequest} \cup [pc : {"checked", "conflict"}, signed : SignedOrder]

IntentInit ==
    /\ request = [c \in Client |-> NoRequest]
    /\ acked = [b \in Backend |-> {}]
    /\ conflicted = [b \in Backend |-> {}]
    /\ cancelAcked = [b \in Backend |-> {}]

-----------------------------------------------------------------------------
(***************************************************************************)
(* What the endpoints answer when the store does not fail (503 if it does).*)
(***************************************************************************)
StatusCode(error) ==
    CASE error = "InvalidOrder" -> 400
      [] error = "NotFound" -> 404
      [] error = "Conflict" -> 409

SubmitStatus(s) ==
    CASE ~Validate(s.id, clock) \/ ~Verify(s) -> StatusCode("InvalidOrder")
      [] Validate(s.id, clock) /\ Verify(s) ->
            IF Present(s.id) /\ ~SameSigned(s) THEN StatusCode("Conflict")
            ELSE 201

GetStatus(o) == IF Present(o) THEN 200 ELSE StatusCode("NotFound")

\* GET of the open orders that sell one mint for another.
ListOrders(sellMint, buyMint) == ListOpen({<<sellMint, buyMint>>})

CancelStatus(b, o, owner) ==
    LET result == IF b = "memory" THEN CancelInMemory(o, owner)
                                  ELSE CancelInPostgres(o, owner)
    IN  CASE result = "true"     -> 204
          [] result = "false"    -> StatusCode("Conflict")
          [] result = "NotFound" -> StatusCode("NotFound")

-----------------------------------------------------------------------------
Finish(c) == request' = [request EXCEPT ![c] = NoRequest]

MutSubmitUnverified(c, s) ==
    /\ request[c] = NoRequest
    /\ Validate(s.id, clock)
    /\ request' = [request EXCEPT ![c] = [pc |-> "checked", signed |-> s]]
    /\ UNCHANGED <<acked, conflicted, cancelAcked, storeVars>>

\* submit_order up to its first await: validate against the clock, verify.
SubmitOrder(c, s) ==
    /\ request[c] = NoRequest
    /\ Validate(s.id, clock)
    /\ Verify(s)
    /\ request' = [request EXCEPT ![c] = [pc |-> "checked", signed |-> s]]
    /\ UNCHANGED <<acked, conflicted, cancelAcked, storeVars>>

\* One more answer of the backend in use.
With(answers, x) == [answers EXCEPT ![backend] = @ \cup {x}]

\* The reply once the record of s.id is known to exist.
Reply(s) ==
    IF SameSigned(s)
    THEN acked' = With(acked, s) /\ UNCHANGED conflicted
    ELSE conflicted' = With(conflicted, s) /\ UNCHANGED acked

MutInsertAcksAll(c) ==
    LET s == request[c].signed IN
    /\ request[c].pc = "checked"
    /\ Insert(s)
    /\ acked' = With(acked, s)
    /\ Finish(c)
    /\ UNCHANGED <<conflicted, cancelAcked, faults>>

\* insert, when the id is free: the record is stored and acknowledged.
InsertOrder(c) ==
    LET s == request[c].signed IN
    /\ request[c].pc = "checked"
    /\ ~Present(s.id)
    /\ Insert(s)
    /\ acked' = With(acked, s)
    /\ Finish(c)
    /\ UNCHANGED <<conflicted, cancelAcked, faults>>

MutConflictReopens(c) ==
    LET s == request[c].signed IN
    /\ request[c].pc = "checked"
    /\ Present(s.id)
    /\ book' = [book EXCEPT ![s.id].status = "open"]
    /\ Reply(s)
    /\ Finish(c)
    /\ UNCHANGED <<cancelAcked, faults>>

\* insert, when the id is taken.  The DashMap entry is compared at once;
\* Postgres has done nothing and goes on to fetch the record.
InsertConflicts(c) ==
    LET s == request[c].signed IN
    /\ request[c].pc = "checked"
    /\ Present(s.id)
    /\ IF backend = "memory"
       THEN Reply(s) /\ Finish(c)
       ELSE /\ request' = [request EXCEPT ![c].pc = "conflict"]
            /\ UNCHANGED <<acked, conflicted>>
    /\ UNCHANGED <<cancelAcked, storeVars>>

\* The second statement of a Postgres insert.
FetchExisting(c) ==
    /\ request[c].pc = "conflict"
    /\ Reply(request[c].signed)
    /\ Finish(c)
    /\ UNCHANGED <<cancelAcked, storeVars>>

\* A statement of insert fails (503); the INSERT may have been committed.
SubmitFails(c) ==
    /\ request[c] # NoRequest
    /\ CallFails
    /\ \/ request[c].pc = "checked" /\ Insert(request[c].signed)
       \/ UNCHANGED book
    /\ Finish(c)
    /\ UNCHANGED <<acked, conflicted, cancelAcked>>

\* cancel_order: one store call, 204 when it changed the record.
CancelOrder(o, owner) ==
    /\ CancelStatus(backend, o, owner) = 204
    /\ Cancel(o)
    /\ cancelAcked' = With(cancelAcked, o)
    /\ UNCHANGED <<request, acked, conflicted, faults>>

\* The UPDATE is committed but its reply is lost (503).  A cancel that fails
\* without effect changes nothing but the budget of faults.
CancelFails(o, owner) ==
    /\ Cancellable(o, owner)
    /\ CallFails
    /\ Cancel(o)
    /\ UNCHANGED intentVars

IntentPoolStep ==
    \/ \E c \in Client, s \in SignedOrder : SubmitOrder(c, s)
    \/ \E c \in Client : InsertOrder(c)
    \/ \E c \in Client : InsertConflicts(c)
    \/ \E c \in Client : FetchExisting(c)
    \/ \E c \in Client : SubmitFails(c)
    \/ \E o \in OrderId, w \in Address : CancelOrder(o, w)
    \/ \E o \in OrderId, w \in Address : CancelFails(o, w)
=============================================================================
