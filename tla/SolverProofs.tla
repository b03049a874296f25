---------------------------- MODULE SolverProofs ----------------------------
(***************************************************************************)
(* Theorems about ReferenceSolver, for any number of solvers, tasks and    *)
(* threads and any batches: which answers reach which round, that they are *)
(* right, that no task is lost, and that the steps of the solvers are      *)
(* steps of SolverContract.                                                *)
(***************************************************************************)
EXTENDS ReferenceSolver, BatchProofs

\* A task that waits for a thread or has one.  It holds what merging some of its
\* pairs comes to, in whatever order they were merged.
Working(task) == task.pc \in {"queued", "running"}

WorkingTask == [pc : {"queued", "running"}, batch : Batches,
                merged : SUBSET UNION {Pairs(b) : b \in Batches},
                solution : Outcome]

Task == {Free} \cup {Done(Answer(b)) : b \in Batches} \cup WorkingTask

MergedSoFar(task) ==
    /\ task.merged \subseteq Pairs(task.batch)
    /\ MergedRight(task.solution, task.batch, task.merged)

TasksWellFormed ==
    /\ tasks \in [TaskId -> Task]
    /\ \A t \in TaskId : Working(tasks[t]) => MergedSoFar(tasks[t])

\* Every task in the queue waits for a thread, and is in it once.
QueueWellFormed ==
    /\ queue \in Seq(TaskId)
    /\ \A k \in 1..Len(queue) : tasks[queue[k]].pc = "queued"
    /\ \A k, l \in 1..Len(queue) : queue[k] = queue[l] => k = l

\* A call waits for a task of this round, and for one no other call waits for.
CallsOfTheRound ==
    /\ call \in [Solver -> TaskId \cup {NoTask}]
    /\ \A s \in Solver : call[s] # NoTask =>
          /\ asked # {}
          /\ reply[s] = NoReply
          /\ \/ Working(tasks[call[s]]) /\ tasks[call[s]].batch = asked
             \/ tasks[call[s]] = Done(Answer(asked))
    /\ \A s, u \in Solver : call[s] = call[u] => s = u \/ call[s] = NoTask

RepliesOfTheRound ==
    /\ asked \in Batches \cup {{}}
    /\ DOMAIN reply = Solver
    /\ \A s \in Solver :
          \/ reply[s] = NoReply
          \/ asked # {} /\ reply[s] \in {Failed, Solved(Answer(asked))}

\* The calls that have still to hand over their task find a place for it.
Unsolved == {s \in Solver : reply[s] = NoReply /\ call[s] = NoTask}

PlacesSuffice == asked # {} => Places(Cardinality(Unsolved))

SolverInv == /\ TasksWellFormed
             /\ QueueWellFormed
             /\ CallsOfTheRound
             /\ RepliesOfTheRound
             /\ PlacesSuffice
-----------------------------------------------------------------------------
LEMMA TaskKinds ==
    ASSUME NEW task \in Task
    PROVE  /\ task.pc \in {"free", "done", "queued", "running"}
           /\ task.pc = "free" => task = Free
           /\ task.pc = "done" => task = Done(task.solution)
           /\ Working(task) => task \in WorkingTask
BY DEF Task, Free, Done, WorkingTask, Working

LEMMA Kinds == /\ Free.pc = "free" /\ ~Working(Free)
               /\ \A x : Done(x).pc = "done" /\ ~Working(Done(x))
                        /\ Done(x).solution = x
               /\ \A b : Queued(b).pc = "queued" /\ Working(Queued(b))
                        /\ Queued(b).batch = b /\ Queued(b).merged = {}
                        /\ Queued(b).solution = Nothing
               /\ NoReply # Failed
               /\ \A x : Solved(x) # NoReply /\ Solved(x) # Failed
BY DEF Free, Done, Queued, Working, NoReply, Failed, Solved

LEMMA UnsolvedFinite ==
    /\ IsFiniteSet(Unsolved) /\ Cardinality(Unsolved) \in Nat
    /\ Cardinality(Solver) \in Nat /\ Cardinality(Unsolved) <= Cardinality(Solver)
<1>1. Unsolved \in SUBSET Solver
  BY DEF Unsolved
<1> QED BY <1>1, TaskAssumption, FS_Subset, FS_CardinalityType

\* Places for many are places for fewer, and none is lost by freeing some.
LEMMA FewerPlaces ==
    ASSUME NEW m \in Nat, NEW n \in Nat, m <= n, Places(n)
    PROVE  Places(m)
<1>1. PICK S \in SUBSET FreeTasks : IsFiniteSet(S) /\ Cardinality(S) >= n
  BY DEF Places
<1>2. Cardinality(S) \in Nat
  BY <1>1, FS_CardinalityType
<1> QED BY <1>1, <1>2 DEF Places

\* Taking one place leaves places for one less.
LEMMA PlaceTaken ==
    ASSUME NEW n \in Nat \ {0}, Places(n)
    PROVE  /\ FreeTasks # {}
           /\ \A t \in FreeTasks : \E S \in SUBSET (FreeTasks \ {t}) :
                 IsFiniteSet(S) /\ Cardinality(S) >= n - 1
<1>1. PICK S \in SUBSET FreeTasks : IsFiniteSet(S) /\ Cardinality(S) >= n
  BY DEF Places
<1>2. Cardinality(S) \in Nat /\ S # {}
  BY <1>1, FS_CardinalityType, FS_EmptySet
<1>3. ASSUME NEW t \in FreeTasks
      PROVE  \E R \in SUBSET (FreeTasks \ {t}) :
                IsFiniteSet(R) /\ Cardinality(R) >= n - 1
  <2>1. CASE t \in S
    <3>1. IsFiniteSet(S \ {t}) /\ Cardinality(S \ {t}) = Cardinality(S) - 1
      BY <1>1, <2>1, FS_RemoveElement
    <3>2. S \ {t} \in SUBSET (FreeTasks \ {t})
      BY <1>1
    <3>3. Cardinality(S \ {t}) >= n - 1
      BY <1>1, <1>2, <3>1
    <3> QED BY <3>1, <3>2, <3>3
  <2>2. CASE t \notin S
    <3>1. S \in SUBSET (FreeTasks \ {t})
      BY <1>1, <2>2
    <3>2. Cardinality(S) >= n - 1
      BY <1>1, <1>2
    <3> QED BY <1>1, <3>1, <3>2
  <2> QED BY <2>1, <2>2
<1> QED BY <1>1, <1>2, <1>3

LEMMA SolverInit == Init => SolverInv
<1> SUFFICES ASSUME Init PROVE SolverInv
  OBVIOUS
<1>1. TasksWellFormed
  BY Kinds DEF Init, TasksWellFormed, Task
<1>2. QueueWellFormed
  BY DEF Init, QueueWellFormed
<1>3. CallsOfTheRound
  BY DEF Init, CallsOfTheRound
<1>4. RepliesOfTheRound /\ PlacesSuffice
  BY DEF Init, RepliesOfTheRound, PlacesSuffice
<1> QED BY <1>1, <1>2, <1>3, <1>4 DEF SolverInv

\* Sealing a batch: no call is under way.
LEMMA AskKeeps ==
    ASSUME SolverInv, NEW b \in Batches, Ask(b)
    PROVE  SolverInv'
<1>1. TasksWellFormed' /\ QueueWellFormed'
  BY DEF Ask, SolverInv, TasksWellFormed, QueueWellFormed
<1>2. b # {}
  BY BatchesAssumption
<1>3. CallsOfTheRound' /\ RepliesOfTheRound'
  BY <1>2 DEF Ask, SolverInv, CallsOfTheRound, RepliesOfTheRound
<1>4. PlacesSuffice'
  <2>1. Places(Cardinality(Unsolved))
    BY UnsolvedFinite, FewerPlaces DEF Ask, RoomForRound
  <2>2. Unsolved' = Unsolved /\ FreeTasks' = FreeTasks
    BY DEF Ask, Unsolved, FreeTasks
  <2> QED BY <2>1, <2>2 DEF PlacesSuffice, Places
<1> QED BY <1>1, <1>3, <1>4 DEF SolverInv

\* A call takes a free place: there is one, and no other call waits for it.
LEMMA PlaceFound ==
    ASSUME SolverInv, NEW s \in Solver, Solve(s)
    PROVE  \E t \in FreeTasks :
              /\ tasks' = [tasks EXCEPT ![t] = Queued(asked)]
              /\ queue' = Append(queue, t)
              /\ call' = [call EXCEPT ![s] = t]
<1>1. s \in Unsolved /\ asked # {}
  BY DEF Solve, Unsolved
<1>2. Cardinality(Unsolved) # 0 /\ Cardinality(Unsolved) \in Nat
  BY <1>1, UnsolvedFinite, FS_EmptySet
<1>4. FreeTasks # {}
  BY <1>1, <1>2, PlaceTaken DEF SolverInv, PlacesSuffice
<1> DEFINE place == CHOOSE t \in FreeTasks : TRUE
<1>5. place \in FreeTasks
  BY <1>4
<1> QED BY <1>5 DEF Solve

LEMMA SolveKeeps ==
    ASSUME SolverInv, NEW s \in Solver, Solve(s)
    PROVE  SolverInv'
<1>1. PICK t \in FreeTasks :
              /\ tasks' = [tasks EXCEPT ![t] = Queued(asked)]
              /\ queue' = Append(queue, t)
              /\ call' = [call EXCEPT ![s] = t]
  BY PlaceFound
<1>2. /\ asked # {} /\ reply[s] = NoReply /\ call[s] = NoTask
      /\ asked' = asked /\ reply' = reply
  BY DEF Solve
<1>3. t \in TaskId /\ tasks[t] = Free /\ t # NoTask
  BY TaskAssumption DEF FreeTasks
<1>4. asked \in Batches
  BY <1>2 DEF SolverInv, RepliesOfTheRound
<1>5. TasksWellFormed'
  <2>1. Nothing \in Outcome /\ IsFiniteSet(asked) /\ asked \subseteq OrderId
    BY <1>4, BatchesAssumption, OutcomeType
  <2>2. Queued(asked) \in WorkingTask
    BY <1>4, <2>1 DEF Queued, WorkingTask
  <2>3. MergedSoFar(Queued(asked))
    BY <2>1, MergeNothing, Kinds DEF MergedSoFar
  <2>4. tasks' \in [TaskId -> Task]
    BY <1>1, <1>3, <2>2 DEF SolverInv, TasksWellFormed, Task
  <2>5. \A u \in TaskId : u # t => tasks'[u] = tasks[u]
    BY <1>1 DEF SolverInv, TasksWellFormed
  <2>6. tasks'[t] = Queued(asked)
    BY <1>1, <1>3 DEF SolverInv, TasksWellFormed
  <2> QED BY <2>3, <2>4, <2>5, <2>6 DEF SolverInv, TasksWellFormed
<1>6. QueueWellFormed'
  <2>1. \A k \in 1..Len(queue) : queue[k] # t
    BY <1>3, Kinds DEF SolverInv, QueueWellFormed
  <2>2. \A k \in 1..Len(queue) : queue[k] \in TaskId
    BY DEF SolverInv, QueueWellFormed
  <2> QED BY <1>1, <1>3, <2>1, <2>2, Kinds
          DEF SolverInv, QueueWellFormed, TasksWellFormed
<1>7. CallsOfTheRound'
  <2>1. \A u \in Solver : call[u] # t
    BY <1>3, Kinds DEF SolverInv, CallsOfTheRound
  <2>2. \A u \in Solver : call[u] # NoTask => tasks'[call[u]] = tasks[call[u]]
    BY <1>1, <2>1 DEF SolverInv, CallsOfTheRound, TasksWellFormed
  <2>3. tasks'[t] = Queued(asked)
    BY <1>1, <1>3 DEF SolverInv, TasksWellFormed
  <2> QED BY <1>1, <1>2, <1>3, <2>1, <2>2, <2>3, Kinds
          DEF SolverInv, CallsOfTheRound
<1>8. RepliesOfTheRound'
  BY <1>2 DEF SolverInv, RepliesOfTheRound
<1>9. PlacesSuffice'
  <2>1. FreeTasks' = FreeTasks \ {t}
    BY <1>1, <1>3, Kinds DEF FreeTasks, SolverInv, TasksWellFormed
  <2>2. Unsolved' = Unsolved \ {s} /\ s \in Unsolved
    BY <1>1, <1>2, <1>3 DEF Unsolved, SolverInv, CallsOfTheRound
  <2> DEFINE n == Cardinality(Unsolved)
  <2>3. Cardinality(Unsolved') = n - 1 /\ n \in Nat \ {0} /\ Places(n)
    BY <1>2, <2>2, UnsolvedFinite, FS_RemoveElement, FS_EmptySet
       DEF SolverInv, PlacesSuffice
  <2> HIDE DEF n
  <2>4. \E S \in SUBSET (FreeTasks \ {t}) :
           IsFiniteSet(S) /\ Cardinality(S) >= n - 1
    BY <2>3, PlaceTaken
  <2> QED BY <2>1, <2>3, <2>4 DEF PlacesSuffice, Places
<1> QED BY <1>5, <1>6, <1>7, <1>8, <1>9 DEF SolverInv

\* A task goes on: nothing else changes, and no call can tell.
LEMMA WorkKeeps ==
    ASSUME SolverInv, NEW t \in TaskId, NEW task \in WorkingTask,
           Working(tasks[t]), task.batch = tasks[t].batch,
           MergedSoFar(task),
           tasks' = [tasks EXCEPT ![t] = task],
           UNCHANGED <<asked, call, reply>>
    PROVE  /\ TasksWellFormed' /\ CallsOfTheRound' /\ RepliesOfTheRound'
           /\ PlacesSuffice'
<1>1. Working(task)
  BY DEF WorkingTask, Working
<1>2. \A u \in TaskId : u # t => tasks'[u] = tasks[u]
  BY DEF SolverInv, TasksWellFormed
<1>3. tasks'[t] = task
  BY DEF SolverInv, TasksWellFormed
<1>4. TasksWellFormed'
  BY <1>2, <1>3 DEF SolverInv, TasksWellFormed, Task
<1>5. CallsOfTheRound'
  BY <1>1, <1>2, <1>3, Kinds DEF SolverInv, CallsOfTheRound
<1>6. RepliesOfTheRound'
  BY DEF SolverInv, RepliesOfTheRound
<1>7. FreeTasks' = FreeTasks /\ Unsolved' = Unsolved
  BY <1>1, <1>2, <1>3, Kinds DEF FreeTasks, Unsolved
<1> QED BY <1>4, <1>5, <1>6, <1>7 DEF SolverInv, PlacesSuffice, Places

LEMMA StartTaskKeeps ==
    ASSUME SolverInv, StartTask
    PROVE  SolverInv'
<1> DEFINE t == Head(queue)
           task == [tasks[t] EXCEPT !.pc = "running"]
<1>1. /\ queue \in Seq(TaskId) /\ queue # <<>>
      /\ tasks' = [tasks EXCEPT ![t] = task] /\ queue' = Tail(queue)
      /\ UNCHANGED <<asked, call, reply>>
  BY DEF StartTask, SolverInv, QueueWellFormed
<1>2. t \in TaskId /\ t = queue[1] /\ 1 \in 1..Len(queue)
  BY <1>1
<1>3. tasks[t].pc = "queued" /\ Working(tasks[t]) /\ tasks[t] \in WorkingTask
  BY <1>2, TaskKinds DEF SolverInv, QueueWellFormed, TasksWellFormed, Working
<1>4. /\ task \in WorkingTask /\ task.batch = tasks[t].batch
      /\ task.merged = tasks[t].merged /\ task.solution = tasks[t].solution
      /\ task.pc = "running"
  BY <1>3 DEF WorkingTask
<1>5. MergedSoFar(task)
  BY <1>2, <1>3, <1>4 DEF SolverInv, TasksWellFormed, MergedSoFar
<1>6. QueueWellFormed'
  <2>1. /\ Tail(queue) \in Seq(TaskId) /\ Len(Tail(queue)) = Len(queue) - 1
        /\ \A k \in 1..Len(queue) - 1 :
              Tail(queue)[k] = queue[k + 1] /\ k + 1 \in 1..Len(queue)
    BY <1>1
  <2>2. \A k \in 1..Len(queue) - 1 : queue[k + 1] # t
    BY <1>2, <2>1 DEF SolverInv, QueueWellFormed
  <2>3. \A k \in 1..Len(queue) - 1 :
           queue[k + 1] \in TaskId /\ tasks'[queue[k + 1]] = tasks[queue[k + 1]]
    BY <1>1, <2>1, <2>2 DEF SolverInv, TasksWellFormed
  <2>4. \A k \in 1..Len(queue') : tasks'[queue'[k]].pc = "queued"
    BY <1>1, <2>1, <2>3 DEF SolverInv, QueueWellFormed
  <2>5. \A k, l \in 1..Len(queue') : queue'[k] = queue'[l] => k = l
    BY <1>1, <2>1 DEF SolverInv, QueueWellFormed
  <2> QED BY <1>1, <2>1, <2>4, <2>5 DEF QueueWellFormed
<1> HIDE DEF t, task
<1> QED BY <1>1, <1>2, <1>3, <1>4, <1>5, <1>6, WorkKeeps DEF SolverInv

LEMMA MergeOnePairKeeps ==
    ASSUME SolverInv, NEW t \in TaskId, MergeOnePair(t)
    PROVE  SolverInv'
<1> DEFINE outcome(pair) == MatchPair(pair, Group(pair, tasks[t].batch))
<1>1. PICK pair \in Unmerged(t) :
         tasks' = [tasks EXCEPT ![t].merged = @ \cup {pair},
                                ![t].solution = Add(@, outcome(pair))]
  BY DEF MergeOnePair
<1> DEFINE task == [tasks[t] EXCEPT !.merged = @ \cup {pair},
                                    !.solution = Add(@, outcome(pair))]
<1>2. tasks' = [tasks EXCEPT ![t] = task]
  BY <1>1
<1>3. /\ tasks[t].pc = "running" /\ Working(tasks[t])
      /\ tasks[t] \in WorkingTask
      /\ UNCHANGED <<asked, call, reply, queue>>
  BY TaskKinds DEF MergeOnePair, Working, SolverInv, TasksWellFormed
<1>4. /\ pair \in Pairs(tasks[t].batch) \ tasks[t].merged
      /\ tasks[t].batch \in Batches /\ MergedSoFar(tasks[t])
  BY <1>1, <1>3 DEF Unmerged, WorkingTask, SolverInv, TasksWellFormed
<1> DEFINE solution == Add(tasks[t].solution, outcome(pair))
           merged == tasks[t].merged \cup {pair}
<1>a. MergedRight(solution, tasks[t].batch, merged)
  BY <1>4, BatchesAssumption, MergeTurn DEF MergedSoFar
<1> HIDE DEF outcome, solution, merged
<1>b. solution \in Outcome /\ merged \subseteq Pairs(tasks[t].batch)
  BY <1>4, <1>a DEF MergedRight, MergedSoFar, merged
<1>c. task = [tasks[t] EXCEPT !.merged = merged, !.solution = solution]
  BY DEF merged, solution
<1>5. /\ task \in WorkingTask /\ task.batch = tasks[t].batch
      /\ task.merged = merged /\ task.solution = solution
      /\ task.pc = "running"
  <2> HIDE DEF task
  <2> QED BY <1>3, <1>4, <1>b, <1>c DEF WorkingTask
<1>6. MergedSoFar(task)
  <2> HIDE DEF task
  <2> QED BY <1>5, <1>a, <1>b DEF MergedSoFar
<1>7. QueueWellFormed'
  <2>1. \A k \in 1..Len(queue) : queue[k] # t /\ queue[k] \in TaskId
    BY <1>3 DEF SolverInv, QueueWellFormed
  <2> QED BY <1>2, <1>3, <2>1 DEF SolverInv, QueueWellFormed, TasksWellFormed
<1> HIDE DEF task
<1> QED BY <1>2, <1>3, <1>5, <1>6, <1>7, WorkKeeps DEF SolverInv

\* Places that become free do not take any from the calls.
LEMMA MorePlaces ==
    ASSUME SolverInv, FreeTasks \subseteq FreeTasks',
           Unsolved' \subseteq Unsolved, asked' = asked
    PROVE  PlacesSuffice'
<1>1. /\ IsFiniteSet(Unsolved') /\ Cardinality(Unsolved') \in Nat
      /\ Cardinality(Unsolved') <= Cardinality(Unsolved)
  BY UnsolvedFinite, FS_Subset, FS_CardinalityType
<1>2. asked # {} => Places(Cardinality(Unsolved'))
  BY <1>1, UnsolvedFinite, FewerPlaces DEF SolverInv, PlacesSuffice
<1> QED BY <1>2 DEF PlacesSuffice, Places

\* All pairs of the batch are matched: what is merged is its answer.
LEMMA FinishTaskKeeps ==
    ASSUME SolverInv, NEW t \in TaskId, FinishTask(t)
    PROVE  SolverInv'
<1>1. /\ tasks[t].pc = "running" /\ Working(tasks[t])
      /\ tasks[t] \in WorkingTask
      /\ UNCHANGED <<asked, call, reply, queue>>
  BY TaskKinds DEF FinishTask, Working, SolverInv, TasksWellFormed
<1>2. /\ tasks[t].solution = Answer(tasks[t].batch)
      /\ tasks[t].batch \in Batches
  <2>1. /\ tasks[t].merged = Pairs(tasks[t].batch) /\ tasks[t].batch \in Batches
        /\ MergedRight(tasks[t].solution, tasks[t].batch, tasks[t].merged)
    BY <1>1 DEF FinishTask, Unmerged, SolverInv, TasksWellFormed, WorkingTask,
                MergedSoFar
  <2>2. MergedRight(Answer(tasks[t].batch), tasks[t].batch, Pairs(tasks[t].batch))
    BY <2>1, BatchesAssumption, MergeRight
  <2> QED BY <2>1, <2>2, MergedOnce
<1> DEFINE task == IF Awaited(t) THEN Done(Answer(tasks[t].batch)) ELSE Free
<1>3. tasks' = [tasks EXCEPT ![t] = task]
  BY <1>2 DEF FinishTask
<1>4. task \in Task /\ ~Working(task) /\ task.pc # "queued"
  BY <1>2, Kinds DEF Task
<1>5. /\ tasks'[t] = task
      /\ \A u \in TaskId : u # t => tasks'[u] = tasks[u]
  BY <1>3 DEF SolverInv, TasksWellFormed
<1>6. TasksWellFormed'
  BY <1>3, <1>4, <1>5 DEF SolverInv, TasksWellFormed
<1>7. QueueWellFormed'
  <2>1. \A k \in 1..Len(queue) : queue[k] # t /\ queue[k] \in TaskId
    BY <1>1 DEF SolverInv, QueueWellFormed
  <2> QED BY <1>1, <1>5, <2>1 DEF SolverInv, QueueWellFormed
<1>8. CallsOfTheRound'
  <2>1. ASSUME NEW s \in Solver, call[s] = t
        PROVE  tasks'[t] = Done(Answer(asked))
    <3>1. Awaited(t) /\ t # NoTask
      BY <2>1, TaskAssumption DEF Awaited
    <3>2. tasks[t].batch = asked
      BY <1>1, <2>1, <3>1, Kinds DEF SolverInv, CallsOfTheRound
    <3> QED BY <1>5, <3>1, <3>2
  <2>2. \A s \in Solver : call[s] # NoTask => call[s] \in TaskId
    BY DEF SolverInv, CallsOfTheRound
  <2> HIDE DEF task
  <2> QED BY <1>1, <1>5, <2>1, <2>2 DEF SolverInv, CallsOfTheRound
<1>9. RepliesOfTheRound'
  BY <1>1 DEF SolverInv, RepliesOfTheRound
<1>10. PlacesSuffice'
  <2>1. FreeTasks \subseteq FreeTasks' /\ Unsolved' = Unsolved
    BY <1>1, <1>5, Kinds DEF FreeTasks, Unsolved
  <2> QED BY <1>1, <2>1, MorePlaces
<1> QED BY <1>6, <1>7, <1>8, <1>9, <1>10 DEF SolverInv

\* A call that is over is not unsolved, and waits for nothing.
LEMMA ReturnKeeps ==
    ASSUME SolverInv, NEW s \in Solver, Waiting(s),
           NEW r \in {Failed, Solved(Answer(asked))},
           reply' = [reply EXCEPT ![s] = r],
           call' = [call EXCEPT ![s] = NoTask],
           asked' = asked,
           \A u \in TaskId : u # call[s] => tasks'[u] = tasks[u],
           TasksWellFormed', QueueWellFormed', FreeTasks \subseteq FreeTasks'
    PROVE  SolverInv'
<1>1. call[s] \in TaskId /\ call[s] # NoTask /\ asked # {} /\ r # NoReply
  BY TaskAssumption, Kinds DEF Waiting, SolverInv, CallsOfTheRound
<1>2. RepliesOfTheRound'
  BY <1>1 DEF SolverInv, RepliesOfTheRound
<1>3. CallsOfTheRound'
  <2>1. \A u \in Solver : u # s /\ call[u] # NoTask =>
           tasks'[call[u]] = tasks[call[u]] /\ reply'[u] = reply[u]
    BY <1>1 DEF SolverInv, CallsOfTheRound, RepliesOfTheRound
  <2> QED BY <2>1 DEF SolverInv, CallsOfTheRound
<1>4. PlacesSuffice'
  <2>1. Unsolved' \subseteq Unsolved
    BY <1>1 DEF Unsolved, SolverInv, CallsOfTheRound, RepliesOfTheRound
  <2> QED BY <2>1, MorePlaces
<1> QED BY <1>2, <1>3, <1>4 DEF SolverInv

LEMMA ReturnSolutionKeeps ==
    ASSUME SolverInv, NEW s \in Solver, ReturnSolution(s)
    PROVE  SolverInv'
<1> DEFINE t == call[s]
<1>1. /\ Waiting(s) /\ t \in TaskId /\ t # NoTask /\ tasks[t].pc = "done"
      /\ reply' = [reply EXCEPT ![s] = Solved(tasks[t].solution)]
      /\ tasks' = [tasks EXCEPT ![t] = Free]
      /\ call' = [call EXCEPT ![s] = NoTask]
      /\ UNCHANGED <<asked, queue>>
  BY TaskAssumption DEF ReturnSolution, Waiting
<1>2. tasks[t].solution = Answer(asked)
  BY <1>1, Kinds DEF SolverInv, CallsOfTheRound, Working
<1>3. /\ tasks'[t] = Free
      /\ \A u \in TaskId : u # t => tasks'[u] = tasks[u]
  BY <1>1 DEF SolverInv, TasksWellFormed
<1>4. TasksWellFormed'
  BY <1>1, <1>3, Kinds DEF SolverInv, TasksWellFormed, Task
<1>5. QueueWellFormed'
  <2>1. \A k \in 1..Len(queue) : queue[k] # t /\ queue[k] \in TaskId
    BY <1>1 DEF SolverInv, QueueWellFormed
  <2> QED BY <1>1, <1>3, <2>1 DEF SolverInv, QueueWellFormed
<1>6. FreeTasks \subseteq FreeTasks'
  BY <1>1, <1>3 DEF FreeTasks
<1> QED BY <1>1, <1>2, <1>3, <1>4, <1>5, <1>6, ReturnKeeps

LEMMA TimeOutKeeps ==
    ASSUME SolverInv, NEW s \in Solver, TimeOut(s)
    PROVE  SolverInv'
<1>1. /\ Waiting(s) /\ UNCHANGED <<asked, tasks, queue>>
      /\ reply' = [reply EXCEPT ![s] = Failed]
      /\ call' = [call EXCEPT ![s] = NoTask]
  BY DEF TimeOut
<1>2. TasksWellFormed' /\ QueueWellFormed' /\ FreeTasks' = FreeTasks
  BY <1>1 DEF SolverInv, TasksWellFormed, QueueWellFormed, FreeTasks
<1> QED BY <1>1, <1>2, ReturnKeeps

\* The round is over when no call is under way.
LEMMA EndRaceKeeps ==
    ASSUME SolverInv, EndRace
    PROVE  SolverInv'
<1>1. /\ \A s \in Solver : reply[s] # NoReply
      /\ asked' = {} /\ reply' = [s \in Solver |-> NoReply]
      /\ UNCHANGED <<call, tasks, queue>>
  BY DEF EndRace
<1>2. \A s \in Solver : call[s] = NoTask
  BY <1>1 DEF SolverInv, CallsOfTheRound
<1>3. CallsOfTheRound'
  BY <1>1, <1>2 DEF SolverInv, CallsOfTheRound
<1>4. TasksWellFormed' /\ QueueWellFormed' /\ RepliesOfTheRound' /\ PlacesSuffice'
  BY <1>1 DEF SolverInv, TasksWellFormed, QueueWellFormed, RepliesOfTheRound,
              PlacesSuffice
<1> QED BY <1>3, <1>4 DEF SolverInv

LEMMA StutterKeeps ==
    ASSUME SolverInv, UNCHANGED vars
    PROVE  SolverInv'
<1>1. UNCHANGED <<asked, call, reply, tasks, queue>>
  BY DEF vars
<1>2. FreeTasks' = FreeTasks /\ Unsolved' = Unsolved
  BY <1>1 DEF FreeTasks, Unsolved
<1> QED BY <1>1, <1>2 DEF SolverInv, TasksWellFormed, QueueWellFormed,
                          CallsOfTheRound, RepliesOfTheRound, PlacesSuffice, Places

\* Every call waits for a task of its own, of this round's batch, and what was
\* returned is this round's: tasks that were given up on touch neither, and take
\* no place a call needs.
THEOREM SolverInvHolds == Spec => []SolverInv
<1>1. ASSUME SolverInv, [Next]_vars PROVE SolverInv'
  BY <1>1, AskKeeps, SolveKeeps, StartTaskKeeps, MergeOnePairKeeps,
     FinishTaskKeeps, ReturnSolutionKeeps, TimeOutKeeps, EndRaceKeeps,
     StutterKeeps DEF Next
<1> QED BY SolverInit, <1>1, PTL DEF Spec

\* For all solvers, batches, tasks and threads, a solution the auctioneer is
\* given is what match_batch makes of the batch of its round.
THEOREM AnswersAreOfTheRoundHolds == Spec => []AnswersAreOfTheRound
<1>1. SolverInv => AnswersAreOfTheRound
  <2>1. NoReply.result # "solution" /\ Failed.result # "solution"
    BY DEF NoReply, Failed
  <2> QED BY <2>1 DEF SolverInv, RepliesOfTheRound, AnswersAreOfTheRound, Answer
<1> QED BY <1>1, SolverInvHolds, PTL

-----------------------------------------------------------------------------
\* The places that are taken: the backlog of the runtime and what it works on.
Taken == TaskId \ FreeTasks

\* A step touches one task, or none.
LEMMA OneTaskChanges ==
    ASSUME tasks \in [TaskId -> Task], [Next]_vars
    PROVE  \E t : \A u \in TaskId : u # t => tasks'[u] = tasks[u]
<1>1. CASE \E s \in Solver : Solve(s)
  BY <1>1 DEF Solve
<1>2. CASE StartTask
  BY <1>2 DEF StartTask
<1>3. CASE \E t \in TaskId : MergeOnePair(t) \/ FinishTask(t)
  <2>1. PICK t \in TaskId : MergeOnePair(t) \/ FinishTask(t)
    BY <1>3
  <2>2. \E task : tasks' = [tasks EXCEPT ![t] = task]
    BY <2>1 DEF MergeOnePair, FinishTask
  <2> QED BY <2>2
<1>4. CASE \E s \in Solver : ReturnSolution(s) \/ TimeOut(s)
  BY <1>4 DEF ReturnSolution, TimeOut
<1>5. CASE (\E b \in Batches : Ask(b)) \/ EndRace \/ UNCHANGED vars
  BY <1>5 DEF Ask, EndRace, vars
<1> QED BY <1>1, <1>2, <1>3, <1>4, <1>5 DEF Next

\* With as many places as the runtime's unbounded queue has, the guard that
\* bounds them never holds a round up: a batch can be sealed in every state
\* between two rounds, however many tasks were given up on before.
THEOREM NoBound ==
    ASSUME ~IsFiniteSet(TaskId)
    PROVE  Spec => []RoomForRound
<1> DEFINE Backlog == IsFiniteSet(Taken)
<1>1. Init => Backlog
  <2>1. ASSUME Init PROVE Taken = {}
    BY <2>1 DEF Init, Taken, FreeTasks
  <2> QED BY <2>1, FS_EmptySet
<1>2. ASSUME SolverInv, Backlog, [Next]_vars PROVE Backlog'
  <2>1. PICK t : \A u \in TaskId : u # t => tasks'[u] = tasks[u]
    BY <1>2, OneTaskChanges DEF SolverInv, TasksWellFormed
  <2>2. Taken' \subseteq Taken \cup {t}
    BY <2>1 DEF Taken, FreeTasks
  <2>3. IsFiniteSet(Taken \cup {t})
    BY <1>2, FS_AddElement
  <2> QED BY <2>2, <2>3, FS_Subset
<1>3. Backlog => RoomForRound
  <2>1. ASSUME Backlog, IsFiniteSet(FreeTasks) PROVE FALSE
    <3>1. TaskId = Taken \cup FreeTasks
      BY DEF Taken, FreeTasks
    <3> QED BY <2>1, <3>1, FS_Union
  <2>2. ASSUME Backlog PROVE RoomForRound
    <3>1. PICK S \in SUBSET FreeTasks :
             IsFiniteSet(S) /\ Cardinality(S) = Cardinality(Solver)
      BY <2>1, <2>2, UnsolvedFinite, FiniteParts
    <3>2. Cardinality(S) >= Cardinality(Solver)
      BY <3>1, UnsolvedFinite
    <3> QED BY <3>1, <3>2 DEF RoomForRound, Places
  <2> QED BY <2>2
<1> QED BY <1>1, <1>2, <1>3, SolverInvHolds, PTL DEF Spec

-----------------------------------------------------------------------------
\* For all solvers, batches, tasks and threads, a solution trades what every
\* market of the round's batch trades, both directions together, each order
\* once, with the sum of the surpluses, saturated and never wrapped.
THEOREM AnswersMatchReferenceHolds == Spec => []AnswersMatchReference
<1>1. SolverInv => AnswersMatchReference
  <2>1. SUFFICES ASSUME SolverInv, NEW s \in Solver,
                        reply[s].result = "solution"
                 PROVE  /\ reply[s].trades = SetToBag(TradedIn(asked))
                        /\ reply[s].score = ScoreOf(asked)
    BY DEF AnswersMatchReference
  <2>2. NoReply.result # "solution" /\ Failed.result # "solution"
    BY DEF NoReply, Failed
  <2>3. asked \in Batches /\ reply[s] = Solved(Answer(asked))
    BY <2>1, <2>2 DEF SolverInv, RepliesOfTheRound
  <2>4. /\ reply[s].trades = Answer(asked).trades
        /\ reply[s].score = Answer(asked).score
    BY <2>3 DEF Solved
  <2> QED BY <2>3, <2>4, BatchesAssumption, AnswerIsReference
<1> QED BY <1>1, SolverInvHolds, PTL

-----------------------------------------------------------------------------
(***************************************************************************)
(* Tasks are neither lost nor left behind: what waits for a thread is in   *)
(* the queue, and what is done is waited for.                              *)
(***************************************************************************)
NoTaskLost ==
    /\ \A t \in TaskId :
          tasks[t].pc = "queued" => \E k \in 1..Len(queue) : queue[k] = t
    /\ \A t \in TaskId : tasks[t].pc = "done" => Awaited(t)

\* A step of a task or a call that queues nothing and finishes no task.
LEMMA NothingQueued ==
    ASSUME NoTaskLost, queue' = queue,
           \A t \in TaskId : tasks'[t].pc = "queued" => tasks[t].pc = "queued",
           \A t \in TaskId : tasks'[t].pc = "done" =>
                 tasks[t].pc = "done" /\ \A s \in Solver :
                                            call[s] = t => call'[s] = t
    PROVE  NoTaskLost'
BY DEF NoTaskLost, Awaited

LEMMA NoTaskLostNext ==
    ASSUME SolverInv, NoTaskLost, [Next]_vars
    PROVE  NoTaskLost'
<1>1. ASSUME NEW s \in Solver, Solve(s) PROVE NoTaskLost'
  <2>1. PICK t \in FreeTasks :
              /\ tasks' = [tasks EXCEPT ![t] = Queued(asked)]
              /\ queue' = Append(queue, t)
              /\ call' = [call EXCEPT ![s] = t]
    BY <1>1, PlaceFound
  <2>2. /\ t \in TaskId /\ queue \in Seq(TaskId) /\ call[s] = NoTask
        /\ tasks'[t] = Queued(asked)
        /\ \A u \in TaskId : u # t => tasks'[u] = tasks[u]
    BY <1>1, <2>1 DEF Solve, FreeTasks, SolverInv, TasksWellFormed, QueueWellFormed
  <2>3. ASSUME NEW u \in TaskId, tasks'[u].pc = "queued"
        PROVE  \E k \in 1..Len(queue') : queue'[k] = u
    <3>1. CASE u = t
      <4>1. Len(queue) + 1 \in 1..Len(queue') /\ queue'[Len(queue) + 1] = t
        BY <2>1, <2>2
      <4> QED BY <3>1, <4>1
    <3>2. CASE u # t
      <4>1. PICK k \in 1..Len(queue) : queue[k] = u
        BY <2>2, <2>3, <3>2 DEF NoTaskLost
      <4>2. k \in 1..Len(queue') /\ queue'[k] = u
        BY <2>1, <2>2, <4>1
      <4> QED BY <4>2
    <3> QED BY <3>1, <3>2
  <2>4. ASSUME NEW u \in TaskId, tasks'[u].pc = "done"
        PROVE  Awaited(u)'
    <3>1. u # t
      BY <2>2, <2>4, Kinds
    <3>2. PICK r \in Solver : call[r] = u
      BY <2>2, <2>4, <3>1 DEF NoTaskLost, Awaited
    <3>3. r # s
      BY <2>2, <3>2, TaskAssumption
    <3>4. call'[r] = u
      BY <2>1, <3>2, <3>3 DEF SolverInv, CallsOfTheRound
    <3> QED BY <3>4 DEF Awaited
  <2> QED BY <2>3, <2>4 DEF NoTaskLost
<1>2. ASSUME StartTask PROVE NoTaskLost'
  <2>1. /\ queue \in Seq(TaskId) /\ queue # <<>> /\ Head(queue) \in TaskId
        /\ Head(queue) = queue[1]
        /\ tasks' = [tasks EXCEPT ![Head(queue)].pc = "running"]
        /\ queue' = Tail(queue) /\ call' = call
    BY <1>2 DEF StartTask, SolverInv, QueueWellFormed
  <2>2. tasks[queue[1]] \in WorkingTask
    <3>1. 1 \in 1..Len(queue)
      BY <2>1
    <3>2. tasks[queue[1]] \in Task /\ tasks[queue[1]].pc = "queued"
      BY <2>1, <3>1 DEF SolverInv, QueueWellFormed, TasksWellFormed
    <3> QED BY <3>2, TaskKinds DEF Working
  <2>3. /\ tasks'[queue[1]].pc = "running"
        /\ \A u \in TaskId : u # queue[1] => tasks'[u] = tasks[u]
    BY <2>1, <2>2 DEF SolverInv, TasksWellFormed, WorkingTask
  <2>4. ASSUME NEW u \in TaskId, tasks'[u].pc = "queued"
        PROVE  \E k \in 1..Len(queue') : queue'[k] = u
    <3>1. PICK k \in 1..Len(queue) : queue[k] = u
      BY <2>3, <2>4 DEF NoTaskLost
    <3>2. k # 1
      BY <2>3, <2>4, <3>1
    <3>3. k - 1 \in 1..Len(queue') /\ queue'[k - 1] = u
      BY <2>1, <3>1, <3>2
    <3> QED BY <3>3
  <2>5. ASSUME NEW u \in TaskId, tasks'[u].pc = "done"
        PROVE  Awaited(u)'
    BY <2>1, <2>3, <2>5 DEF NoTaskLost, Awaited
  <2> QED BY <2>4, <2>5 DEF NoTaskLost
<1>3. ASSUME NEW t \in TaskId, MergeOnePair(t) PROVE NoTaskLost'
  <2>1. PICK merged, solution :
           tasks' = [tasks EXCEPT ![t].merged = merged, ![t].solution = solution]
    BY <1>3 DEF MergeOnePair
  <2>2. /\ tasks[t].pc = "running" /\ tasks[t] \in WorkingTask
        /\ queue' = queue /\ call' = call
    BY <1>3, TaskKinds DEF MergeOnePair, Working, SolverInv, TasksWellFormed
  <2>3. \A u \in TaskId : tasks'[u].pc = tasks[u].pc
    BY <2>1, <2>2 DEF SolverInv, TasksWellFormed, WorkingTask
  <2> QED BY <2>2, <2>3, NothingQueued
<1>4. ASSUME NEW t \in TaskId, FinishTask(t) PROVE NoTaskLost'
  <2>1. /\ tasks[t].pc = "running" /\ queue' = queue /\ call' = call
        /\ \A u \in TaskId : u # t => tasks'[u] = tasks[u]
        /\ \/ Awaited(t) /\ tasks'[t].pc = "done"
           \/ tasks'[t] = Free
    BY <1>4, Kinds DEF FinishTask, SolverInv, TasksWellFormed
  <2>2. ASSUME NEW u \in TaskId, tasks'[u].pc = "queued"
        PROVE  tasks[u].pc = "queued"
    BY <2>1, <2>2, Kinds
  <2>3. ASSUME NEW u \in TaskId, tasks'[u].pc = "done"
        PROVE  Awaited(u)
    BY <2>1, <2>3, Kinds DEF NoTaskLost
  <2> QED BY <2>1, <2>2, <2>3 DEF NoTaskLost, Awaited
<1>5. ASSUME NEW s \in Solver, ReturnSolution(s) PROVE NoTaskLost'
  <2>1. /\ call[s] \in TaskId /\ queue' = queue
        /\ tasks' = [tasks EXCEPT ![call[s]] = Free]
        /\ call' = [call EXCEPT ![s] = NoTask]
    BY <1>5 DEF ReturnSolution, Waiting
  <2>2. /\ tasks'[call[s]] = Free
        /\ \A u \in TaskId : u # call[s] => tasks'[u] = tasks[u]
        /\ \A r \in Solver : r # s => call'[r] = call[r]
    BY <2>1 DEF SolverInv, TasksWellFormed, CallsOfTheRound
  <2> QED BY <2>1, <2>2, Kinds, NothingQueued
<1>6. ASSUME NEW s \in Solver, TimeOut(s) PROVE NoTaskLost'
  <2>1. /\ call[s] \in TaskId /\ queue' = queue /\ tasks' = tasks
        /\ tasks[call[s]].pc # "done"
        /\ call' = [call EXCEPT ![s] = NoTask]
    BY <1>6 DEF TimeOut, Waiting
  <2>2. \A r \in Solver : r # s => call'[r] = call[r]
    BY <2>1 DEF SolverInv, CallsOfTheRound
  <2> QED BY <2>1, <2>2, NothingQueued
<1>7. CASE (\E b \in Batches : Ask(b)) \/ EndRace \/ UNCHANGED vars
  BY <1>7, NothingQueued DEF Ask, EndRace, vars
<1> QED BY <1>1, <1>2, <1>3, <1>4, <1>5, <1>6, <1>7 DEF Next

LEMMA NoTaskLostHolds == Spec => []NoTaskLost
<1>1. Init => NoTaskLost
  BY Kinds DEF Init, NoTaskLost
<1> QED BY <1>1, NoTaskLostNext, SolverInvHolds, PTL DEF Spec

LEMMA AnswerIsSolution ==
    ASSUME NEW b \in Batches
    PROVE  /\ IsSolution(Answer(b))
           /\ IsSolution(Solved(Answer(b))) /\ Solved(Answer(b)).result = "solution"
<1> DEFINE v == Answer(b)
<1>1. v \in Outcome
  BY BatchesAssumption, AnswerIsReference
<1> HIDE DEF v
<1>2. IsSolution(v)
  BY <1>1, BagFacts DEF Outcome, IsSolution
<1>3. IsSolution(Solved(v)) /\ Solved(v).result = "solution"
  BY <1>2 DEF IsSolution, Solved
<1> QED BY <1>2, <1>3 DEF v

\* For any number of solvers, tasks and threads every variable holds a value the
\* program can hold; in particular the queue holds what waits for a thread and
\* nothing else, and a finished task is one a call waits for.
THEOREM SolverTypeCorrect == Spec => []TypeOK
<1>1. SolverInv /\ NoTaskLost => TypeOK
  <2>1. SUFFICES ASSUME SolverInv, NoTaskLost PROVE TypeOK
    OBVIOUS
  <2>2. ASSUME NEW s \in Solver
        PROVE  \/ reply[s] \in {NoReply, Failed}
               \/ reply[s].result = "solution" /\ IsSolution(reply[s])
    BY <2>1, AnswerIsSolution DEF SolverInv, RepliesOfTheRound
  <2>3. ASSUME NEW t \in TaskId
        PROVE  IsTask(tasks[t])
    <3>1. tasks[t] \in Task
      BY <2>1 DEF SolverInv, TasksWellFormed
    <3>2. CASE tasks[t] = Free
      BY <3>2 DEF IsTask
    <3>3. CASE tasks[t] \in {Done(Answer(b)) : b \in Batches}
      BY <3>3, AnswerIsSolution, Kinds DEF IsTask
    <3>4. CASE tasks[t] \in WorkingTask
      <4>1. \A b \in Batches : Pairs(b) \subseteq Mint \X Mint
        BY BatchesAssumption, PairFacts DEF Pairs
      <4>2. UNION {Pairs(b) : b \in Batches} \subseteq Mint \X Mint
        BY <4>1
      <4>3. tasks[t].pc \in {"queued", "running"} /\ tasks[t].batch \in Batches
            /\ tasks[t].merged \subseteq Mint \X Mint
            /\ tasks[t].solution \in Outcome
        BY <3>4, <4>2 DEF WorkingTask
      <4>4. IsSolution(tasks[t].solution)
        BY <4>3, BagFacts DEF Outcome, IsSolution
      <4> QED BY <4>3, <4>4 DEF IsTask
    <3> QED BY <3>1, <3>2, <3>3, <3>4 DEF Task
  <2>4. Range(queue) = {t \in TaskId : tasks[t].pc = "queued"}
    <3>1. queue \in Seq(TaskId) /\ DOMAIN queue = 1..Len(queue)
      BY <2>1 DEF SolverInv, QueueWellFormed
    <3>2. ASSUME NEW t \in Range(queue)
          PROVE  t \in TaskId /\ tasks[t].pc = "queued"
      BY <2>1, <3>1, <3>2 DEF Range, SolverInv, QueueWellFormed
    <3>3. ASSUME NEW t \in TaskId, tasks[t].pc = "queued"
          PROVE  t \in Range(queue)
      BY <2>1, <3>1, <3>3 DEF Range, NoTaskLost
    <3> QED BY <3>2, <3>3
  <2> QED BY <2>1, <2>2, <2>3, <2>4
          DEF TypeOK, SolverInv, NoTaskLost, TasksWellFormed, QueueWellFormed,
              CallsOfTheRound, RepliesOfTheRound
<1> QED BY <1>1, SolverInvHolds, NoTaskLostHolds, PTL

-----------------------------------------------------------------------------
(***************************************************************************)
(* The contract.                                                           *)
(***************************************************************************)
\* Without trades there is no surplus.
LEMMA NothingScoresNothing ==
    ASSUME NEW b \in SUBSET OrderId, TradedIn(b) = {}
    PROVE  ScoreOf(b) = 0
<1>1. {m \in Markets(b) : Matched[m] # {}} = {}
  BY DEF TradedIn
<1>2. Sum(Surplus, {}) = 0
  <2>1. Summable(Surplus, {})
    BY FS_EmptySet DEF Summable
  <2> QED BY <2>1, SumSteps
<1>3. ScoreOf(b) = Lesser(Sum(Surplus, {}), MaxU128)
  BY <1>1 DEF ScoreOf, Sum
<1> QED BY <1>2, <1>3, WidthAssumption DEF Lesser

\* match_batch answers every batch: it trades orders of the batch, each once
\* and none without a counterparty.
LEMMA MatchBatchAnswers ==
    ASSUME NEW b \in Batches
    PROVE  Contract!IsAnswer(Seen(Solved(Answer(b))), b)
<1> DEFINE r == Seen(Solved(Answer(b)))
<1>1. /\ r.result = "solution"
      /\ r.trades = SetToBag(TradedIn(b))
      /\ r.score \in U128 /\ r.score = ScoreOf(b)
  BY BatchesAssumption, AnswerIsReference DEF Seen, Solved, Outcome
<1>2. BagToSet(r.trades) = TradedIn(b)
  BY <1>1 DEF BagToSet, SetToBag
<1>3. \A m \in Markets(b) : m \in SUBSET OrderId /\ m \subseteq b
  BY BatchesAssumption DEF Markets
<1>4. TradedIn(b) \subseteq b /\ Tradable(TradedIn(b))
  <2>1. \A m \in Markets(b) :
           Matched[m] \subseteq m /\ Tradable(Matched[m])
    BY <1>3, MatchedAssumption
  <2> QED BY <1>3, <2>1 DEF TradedIn, Tradable
<1>s. TradedIn(b) = {} => r.score = 0
  BY <1>1, BatchesAssumption, NothingScoresNothing
<1> HIDE DEF r
<1>5. /\ Contract!BagToSet(r.trades) = TradedIn(b)
      /\ Contract!SetToBag(TradedIn(b)) = SetToBag(TradedIn(b))
      /\ Contract!Tradable(TradedIn(b))
  BY <1>2, <1>4 DEF Contract!BagToSet, BagToSet, Contract!SetToBag, SetToBag,
                    Contract!Tradable, Tradable, Contract!Opposite, Opposite
<1>6. Contract!IsAnswer(r, b)
  BY <1>1, <1>4, <1>5, <1>s DEF Contract!IsAnswer
<1> QED BY <1>6 DEF r

Outcomes == [s \in Solver |-> Seen(reply[s])]

LEMMA SeenKinds ==
    /\ Seen(NoReply) = Contract!NoReply
    /\ Seen(Failed) = Contract!Failed
    /\ Contract!Failed # Contract!NoReply
    /\ \A x : Seen(Solved(x)) # Contract!NoReply
BY DEF Seen, NoReply, Failed, Solved, Contract!NoReply, Contract!Failed

LEMMA ContractInit == Init => Contract!Init
BY SeenKinds DEF Init, Contract!Init

\* Returning is a step of the contract.
LEMMA ReturnIsReturn ==
    ASSUME SolverInv, NEW s \in Solver, Waiting(s),
           NEW r \in {Failed, Solved(Answer(asked))},
           reply' = [reply EXCEPT ![s] = r], asked' = asked
    PROVE  Contract!Return(s)
<1>1. /\ call[s] # NoTask /\ asked # {} /\ reply[s] = NoReply
      /\ asked \in Batches
  BY TaskAssumption DEF Waiting, SolverInv, CallsOfTheRound, RepliesOfTheRound
<1>2. Contract!IsAnswer(Seen(r), asked)
  BY <1>1, SeenKinds, MatchBatchAnswers DEF Contract!IsAnswer
<1>3. /\ Outcomes[s] = Contract!NoReply /\ Outcomes'[s] = Seen(r)
      /\ \A t \in Solver \ {s} : Outcomes'[t] = Outcomes[t]
  BY <1>1, SeenKinds DEF Outcomes, SolverInv, RepliesOfTheRound
<1> QED BY <1>1, <1>2, <1>3 DEF Contract!Return, Outcomes

LEMMA EndRaceConcludes ==
    ASSUME SolverInv, EndRace
    PROVE  Contract!Conclude
<1>1. /\ asked # {} /\ asked' = {} /\ reply' = [s \in Solver |-> NoReply]
      /\ \A s \in Solver : reply[s] # NoReply
  BY DEF EndRace
<1>2. \A s \in Solver : Seen(reply[s]) # Contract!NoReply
  BY <1>1, SeenKinds DEF SolverInv, RepliesOfTheRound
<1> QED BY <1>1, <1>2, SeenKinds DEF Contract!Conclude

LEMMA StepIsContractStep ==
    ASSUME SolverInv, [Next]_vars
    PROVE  [Contract!Next]_Contract!vars
<1>1. ASSUME NEW b \in Batches, Ask(b) PROVE Contract!Ask(b)
  BY <1>1 DEF Ask, Contract!Ask
<1>2. ASSUME NEW s \in Solver, ReturnSolution(s) PROVE Contract!Return(s)
  <2>1. /\ Waiting(s) /\ tasks[call[s]].pc = "done" /\ asked' = asked
        /\ reply' = [reply EXCEPT ![s] = Solved(tasks[call[s]].solution)]
    BY <1>2 DEF ReturnSolution
  <2>2. tasks[call[s]].solution = Answer(asked)
    BY <2>1, TaskAssumption, Kinds
       DEF Waiting, SolverInv, CallsOfTheRound, Working
  <2> QED BY <2>1, <2>2, ReturnIsReturn
<1>3. ASSUME NEW s \in Solver, TimeOut(s) PROVE Contract!Return(s)
  BY <1>3, ReturnIsReturn DEF TimeOut
<1>4. ASSUME EndRace PROVE Contract!Conclude
  BY <1>4, EndRaceConcludes
<1>5. ASSUME UNCHANGED <<asked, reply>> PROVE UNCHANGED Contract!vars
  BY <1>5 DEF Contract!vars
<1>6. CASE UNCHANGED <<asked, reply>>
  BY <1>5, <1>6
<1>7. \/ \E b \in Batches : Ask(b)
      \/ \E s \in Solver : ReturnSolution(s) \/ TimeOut(s)
      \/ EndRace
      \/ UNCHANGED <<asked, reply>>
  BY DEF Next, Solve, StartTask, MergeOnePair, FinishTask, vars
<1> QED BY <1>1, <1>2, <1>3, <1>4, <1>6, <1>7 DEF Contract!Next

\* The solvers implement the safety part of the contract: every step of threads,
\* workers and timers is a step of the contract, or one the auctioneer does not
\* see.
THEOREM ContractKept == Spec => Contract!Init /\ [][Contract!Next]_Contract!vars
<1>1. SolverInv /\ [Next]_vars => [Contract!Next]_Contract!vars
  BY StepIsContractStep
<1> QED BY ContractInit, SolverInvHolds, <1>1, PTL DEF Spec
=============================================================================
