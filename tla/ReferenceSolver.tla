--------------------------- MODULE ReferenceSolver ---------------------------
(***************************************************************************)
(* ReferenceSolver (crates/oxdex-solver/src/lib.rs), one per member of     *)
(* Solver, asked by the rounds of the auctioneer.  A call of `solve' hands *)
(* match_batch to the blocking threads of the runtime and waits for it     *)
(* until the deadline.  A call that gives up drops the join handle and no  *)
(* more: its task stays in the queue, or runs on, beside those of later    *)
(* rounds.  The pairs of a batch come out of a hash map in any order, are  *)
(* matched by rayon's workers and merged in that order, while other tasks  *)
(* do the same.  The deadline is not measured: it can pass whenever the    *)
(* task is not done.                                                       *)
(***************************************************************************)
EXTENDS BatchMatching, SequencesExt

CONSTANTS
    Solver,       \* the registered solvers
    Batches,      \* the batches a round may seal
    TaskId,       \* places for the tasks queued or running at once
    MaxThreads    \* the runtime's limit on blocking threads

\* A batch is a vector of orders.
ASSUME BatchesAssumption == /\ Batches \subseteq (SUBSET OrderId) \ {{}}
                            /\ \A b \in Batches : IsFiniteSet(b)
VARIABLES
    asked,        \* the batch of the round, {} between rounds
    call,         \* the task each solver's call waits for
    reply,        \* what each call has returned in this round
    tasks,        \* the closures handed to spawn_blocking
    queue         \* the tasks that wait for a thread

vars == <<asked, call, reply, tasks, queue>>

NoTask == "none"

ASSUME TaskAssumption == /\ IsFiniteSet(Solver)
                         /\ NoTask \notin TaskId
                         /\ MaxThreads \in Nat \ {0}

NoReply == [result |-> "none"]
Failed == [result |-> "error"]
Solved(sol) == [result |-> "solution", trades |-> sol.trades,
                prices |-> sol.prices, score |-> sol.score]

Free == [pc |-> "free"]
Done(sol) == [pc |-> "done", solution |-> sol]
Queued(batch) == [pc |-> "queued", batch |-> batch, merged |-> {},
                  solution |-> Nothing]

Init ==
    /\ asked = {}
    /\ call = [s \in Solver |-> NoTask]
    /\ reply = [s \in Solver |-> NoReply]
    /\ tasks = [t \in TaskId |-> Free]
    /\ queue = <<>>

-----------------------------------------------------------------------------
FreeTasks == {t \in TaskId : tasks[t] = Free}

\* There are n places, or more.
Places(n) == \E S \in SUBSET FreeTasks : IsFiniteSet(S) /\ Cardinality(S) >= n

\* The bound TaskId sets where the runtime's queue has none.  Without it, when
\* TaskId is infinite, this holds in every state (SolverProofs!NoBound).
RoomForRound == Places(Cardinality(Solver))

\* The auctioneer seals a batch and asks every solver about it.
Ask(b) ==
    /\ asked = {}
    /\ RoomForRound
    /\ asked' = b
    /\ UNCHANGED <<call, reply, tasks, queue>>

\* solve, up to its await: a copy of the batch goes to spawn_blocking.
Solve(s) ==
    /\ asked # {}
    /\ reply[s] = NoReply
    /\ call[s] = NoTask
    /\ LET t == CHOOSE t \in FreeTasks : TRUE
       IN  /\ tasks' = [tasks EXCEPT ![t] = Queued(asked)]
           /\ queue' = Append(queue, t)
           /\ call' = [call EXCEPT ![s] = t]
    /\ UNCHANGED <<asked, reply>>

Running == {t \in TaskId : tasks[t].pc = "running"}

\* A thread of the runtime takes the oldest task.
StartTask ==
    /\ queue # <<>>
    /\ Cardinality(Running) < MaxThreads
    /\ tasks' = [tasks EXCEPT ![Head(queue)].pc = "running"]
    /\ queue' = Tail(queue)
    /\ UNCHANGED <<asked, call, reply>>

Unmerged(t) == Pairs(tasks[t].batch) \ tasks[t].merged

\* One turn of the merge.  match_pair reads nothing but its group, so that when a
\* worker runs it makes no difference; the order of the pairs, any, may.
MergeOnePair(t) ==
    /\ tasks[t].pc = "running"
    /\ \E pair \in Unmerged(t) :
          LET outcome == MatchPair(pair, Group(pair, tasks[t].batch))
          IN  tasks' = [tasks EXCEPT ![t].merged = @ \cup {pair},
                                     ![t].solution = Add(@, outcome)]
    /\ UNCHANGED <<asked, call, reply, queue>>

Awaited(t) == \E s \in Solver : call[s] = t

\* All pairs are merged.  The solution is kept for the call that waits for it;
\* nobody ever sees that of an abandoned task.
FinishTask(t) ==
    /\ tasks[t].pc = "running"
    /\ Unmerged(t) = {}
    /\ tasks' = [tasks EXCEPT ![t] = IF Awaited(t) THEN Done(@.solution) ELSE Free]
    /\ UNCHANGED <<asked, call, reply, queue>>

Waiting(s) == call[s] \in TaskId

\* timeout(deadline, join) finds the task done.
ReturnSolution(s) ==
    LET t == call[s] IN
    /\ Waiting(s)
    /\ tasks[t].pc = "done"
    /\ reply' = [reply EXCEPT ![s] = Solved(tasks[t].solution)]
    /\ tasks' = [tasks EXCEPT ![t] = Free]
    /\ call' = [call EXCEPT ![s] = NoTask]
    /\ UNCHANGED <<asked, queue>>

MutTimeOutCancels(s) ==
    /\ Waiting(s)
    /\ tasks[call[s]].pc # "done"
    /\ reply' = [reply EXCEPT ![s] = Failed]
    /\ tasks' = [tasks EXCEPT ![call[s]] = Free]
    /\ call' = [call EXCEPT ![s] = NoTask]
    /\ UNCHANGED <<asked, queue>>

MutTimeOutKeepsHandle(s) ==
    /\ Waiting(s)
    /\ reply[s] = NoReply
    /\ tasks[call[s]].pc # "done"
    /\ reply' = [reply EXCEPT ![s] = Failed]
    /\ UNCHANGED <<asked, call, tasks, queue>>

MutTimeOutOnceStarted(s) ==
    /\ Waiting(s)
    /\ tasks[call[s]].pc = "running"
    /\ reply' = [reply EXCEPT ![s] = Failed]
    /\ call' = [call EXCEPT ![s] = NoTask]
    /\ UNCHANGED <<asked, tasks, queue>>

\* The deadline passes first.
TimeOut(s) ==
    /\ Waiting(s)
    /\ tasks[call[s]].pc # "done"
    /\ reply' = [reply EXCEPT ![s] = Failed]
    /\ call' = [call EXCEPT ![s] = NoTask]
    /\ UNCHANGED <<asked, tasks, queue>>

\* Every call has returned: the race is over.
EndRace ==
    /\ asked # {}
    /\ \A s \in Solver : reply[s] # NoReply
    /\ asked' = {}
    /\ reply' = [s \in Solver |-> NoReply]
    /\ UNCHANGED <<call, tasks, queue>>

Next ==
    \/ \E b \in Batches : Ask(b)
    \/ \E s \in Solver : Solve(s)
    \/ StartTask
    \/ \E t \in TaskId : MergeOnePair(t) \/ FinishTask(t)
    \/ \E s \in Solver : ReturnSolution(s) \/ TimeOut(s)
    \/ EndRace

Spec == Init /\ [][Next]_vars

\* The race polls its calls, and the timer of a call goes off.  Nothing is
\* assumed of the threads: a task may wait, or run, for ever.
FairSpec ==
    Spec /\ \A s \in Solver :
                WF_vars(Solve(s) \/ ReturnSolution(s) \/ TimeOut(s))

-----------------------------------------------------------------------------
(***************************************************************************)
(* Properties.                                                             *)
(***************************************************************************)
IsSolution(r) == /\ IsABag(r.trades) /\ DOMAIN r.trades \subseteq OrderId
                 /\ IsABag(r.prices) /\ DOMAIN r.prices \subseteq Mint
                 /\ r.score \in U128

IsTask(t) ==
    \/ t = Free
    \/ /\ t.pc \in {"queued", "running"}
       /\ t.batch \in Batches
       /\ t.merged \subseteq Mint \X Mint
       /\ IsSolution(t.solution)
    \/ t.pc = "done" /\ IsSolution(t.solution)

\* Every variable holds a value the program can hold; what is queued is what
\* waits for a thread, and what is done is waited for.
TypeOK ==
    /\ asked \in Batches \cup {{}}
    /\ call \in [Solver -> TaskId \cup {NoTask}]
    /\ DOMAIN reply = Solver
    /\ \A s \in Solver :
          \/ reply[s] \in {NoReply, Failed}
          \/ reply[s].result = "solution" /\ IsSolution(reply[s])
    /\ DOMAIN tasks = TaskId
    /\ \A t \in TaskId : IsTask(tasks[t])
    /\ queue \in Seq(TaskId)
    /\ Range(queue) = {t \in TaskId : tasks[t].pc = "queued"}
    /\ \A t \in TaskId : tasks[t].pc = "done" => Awaited(t)

\* A solver's solution is the reference definition applied to the batch it was
\* asked about: every market of it matched, both directions together, every
\* traded order traded once, the surpluses added up without wrapping -- in
\* whatever order its pairs come, and whatever tasks of earlier rounds still run
\* beside it.
AnswersMatchReference ==
    \A s \in Solver :
        reply[s].result = "solution" =>
            /\ reply[s].trades = SetToBag(TradedIn(asked))
            /\ reply[s].score = ScoreOf(asked)

\* A solution is what match_batch makes of the batch of the round, all of its
\* pairs and no others, the same in any order of the pairs: what is still
\* computed for calls that gave up in earlier rounds reaches nobody, and no two
\* calls share a task.
AnswersAreOfTheRound ==
    \A s \in Solver :
        reply[s].result = "solution" =>
            asked # {} /\ reply[s] = Solved(Merge(Pairs(asked), asked))

\* What the auctioneer sees of a reply.
Seen(r) == IF r.result = "solution"
           THEN [result |-> r.result, trades |-> r.trades, score |-> r.score]
           ELSE r

Contract == INSTANCE SolverContract
            WITH outcome <- [s \in Solver |-> Seen(reply[s])], Score <- U128

\* The solvers keep the contract the auctioneer relies on: each call returns,
\* even when its task never gets a thread or never ends, and it returns once,
\* for its own round, with an error or with orders of that round's batch.
ImplementsContract == Contract!Spec

-----------------------------------------------------------------------------
(***************************************************************************)
(* What a comment says and the code does not do.                           *)
(***************************************************************************)
\* "One ClearingPrice per distinct token referenced by the trades."
OnePricePerToken ==
    \A s \in Solver :
        reply[s].result = "solution" =>
            reply[s].prices =
                SetToBag(UNION {MintsOf(o) : o \in DOMAIN reply[s].trades})
=============================================================================
