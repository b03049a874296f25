----------------------------- MODULE OrderStore -----------------------------
(***************************************************************************)
(* The order repository (crates/oxdex-storage): the trait's operations on  *)
(* the book, with what differs between the two backends.                   *)
(*                                                                         *)
(*   "memory"    a DashMap; a call on one entry is atomic, a call over all *)
(*               entries visits them one at a time; no call fails.         *)
(*   "postgres"  a call is one SQL statement (insert may need two); a call *)
(*               can fail, and a call that fails may have been committed.  *)
(***************************************************************************)
EXTENDS Orders

CONSTANTS
    Backends,     \* the backends a start of the process may end up with
    Fill,         \* executed (sell, buy) amounts a trade can have, 0 for 0
                  \* (Unfilled) among them or not
    Unfilled,     \* filled_sell = filled_buy = 0
    NoSig,        \* the signature of an absent record
    MaxFaults     \* bound on the Postgres calls that fail

Backend == {"memory", "postgres"}

ASSUME BackendsAssumption == Backends \subseteq Backend
ASSUME MaxFaultsAssumption == MaxFaults \in Nat

VARIABLES
    backend,      \* the backend the process opened when it started
    book,         \* the record of every order, "absent" when there is none
    shelf,        \* what the database holds while the process does without it
    faults        \* Postgres calls that have failed so far

storeVars == <<book, faults>>     \* what a call of the store can change

\* No code sets Filled or PartiallyFilled, so the book never holds them.
Status == {"open", "auctioned", "cancelled", "expired"}

OrderRecord == [status : Status \cup {"absent"},
                sig    : Signature \cup {NoSig},
                filled : Fill \cup {Unfilled}]

Vacant == [status |-> "absent", sig |-> NoSig, filled |-> Unfilled]

EmptyBook == [o \in OrderId |-> Vacant]

StoreInit == /\ backend \in Backends
             /\ book = EmptyBook
             /\ shelf = EmptyBook
             /\ faults = 0

Database == IF backend = "postgres" THEN book ELSE shelf

\* What main does at a start: connect to the database and migrate it, or, when
\* it cannot be reached, begin with an empty in-memory book.
OpenStore(b) ==
    /\ backend' = b
    /\ book' = IF b = "postgres" THEN Database ELSE EmptyBook
    /\ shelf' = IF b = "postgres" THEN EmptyBook ELSE Database

-----------------------------------------------------------------------------
Present(o) == book[o].status # "absent"
Open(o) == book[o].status = "open"
Due(o, now) == Open(o) /\ Order[o].validTo <= now

\* The reply of insert once the id is taken: the record when the signed order
\* is the same, Duplicate when only the signature differs.
SameSigned(s) == book[s.id].sig = s.sig

\* list_open: the open orders of one (sell, buy) pair of mints, or of any.
ListOpen(pairs) ==
    {o \in OrderId : Open(o) /\ <<Order[o].sellMint, Order[o].buyMint>> \in pairs}

\* Insert the record, or leave the one that is there.
Insert(s) ==
    book' = IF Present(s.id) THEN book
            ELSE [book EXCEPT ![s.id] =
                    [status |-> "open", sig |-> s.sig, filled |-> Unfilled]]

MutUpdateOnlyOpen(o, status, fill) ==
    book' = IF Open(o)
            THEN [book EXCEPT ![o].status = status, ![o].filled = fill]
            ELSE book

\* Overwrites whatever status the record has; an absent id is NotFound.
UpdateStatus(o, status, fill) ==
    book' = IF Present(o)
            THEN [book EXCEPT ![o].status = status, ![o].filled = fill]
            ELSE book

\* The rows the UPDATE of a Postgres `cancel' changes, none or the order's.
Cancellable(o, owner) == Open(o) /\ Order[o].owner = owner

\* What `cancel' answers in memory, where the entry is looked up first.
CancelInMemory(o, owner) ==
    CASE ~Present(o)              -> "NotFound"
      [] Present(o) /\ Order[o].owner # owner -> "false"
      [] Present(o) /\ Order[o].owner = owner -> IF Open(o) THEN "true" ELSE "false"

CancelInPostgres(o, owner) == IF Cancellable(o, owner) THEN "true" ELSE "false"

MutCancelMisspelt(o) == book' = [book EXCEPT ![o].status = "canceled"]

Cancel(o) == book' = [book EXCEPT ![o].status = "cancelled"]

\* What expire_due does to the entries in S.
ExpireDue(S, now) ==
    book' = [o \in OrderId |-> IF o \in S /\ Due(o, now)
                               THEN [book[o] EXCEPT !.status = "expired"]
                               ELSE book[o]]

\* The groups of entries a call over all entries can read or write in one
\* atomic step, of those it has still to visit.
Visit(unvisited) ==
    IF backend = "memory" THEN {{o} : o \in unvisited} ELSE {unvisited}

\* A call to Postgres that returns RepoError::Backend.
CallFails == /\ backend = "postgres"
             /\ faults < MaxFaults
             /\ faults' = faults + 1
=============================================================================
