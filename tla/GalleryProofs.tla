---------------------------- MODULE GalleryProofs ----------------------------
(***************************************************************************)
(* Proofs about the gallery page, for every size of a batch and of a load, *)
(* any number of pictures and any number of tasks that wait.               *)
(***************************************************************************)
EXTENDS Gallery, FiniteSetTheorems, WellFoundedInduction, TLAPS

\* What a task may be: an idle one keeps nothing, and one that waits for a
\* batch asked for at least one picture, at most all from its position down.
TaskOK(task) ==
  /\ task.at = "idle" => task = Idle
  /\ task.at = "batch" => /\ 1 <= task.limit /\ task.limit <= task.from
                          /\ task.batches < BATCHES_PER_PAGE

TypeInv == TypeOK /\ \A t \in Tasks : TaskOK(tasks[t])

TaskSet == [at : {"idle", "start", "batch", "pause"}, from : 0..MaxPictures,
            limit : 0..DEFAULT_LIMIT, batches : 0..BATCHES_PER_PAGE]

Positions == {Null} \cup 0..MaxPictures

\* A non-empty set of numbers has a least one.
LEMMA LeastExists ==
  ASSUME NEW S \in SUBSET Nat, S # {}
  PROVE  \E m \in S : \A n \in S : m <= n
<1> DEFINE R == OpToRel(<, Nat)
<1>1. IsWellFoundedOn(R, Nat)
  BY NatLessThanWellFounded
<1>2. PICK m \in S : \A n \in S : <<n, m>> \notin R
  BY <1>1, WFMin
<1>3. \A n \in S : <<n, m>> \in R <=> n < m
  BY DEF OpToRel
<1>4. \A n \in S : ~(n < m)
  BY <1>2, <1>3
<1> QED
  BY <1>4

\* A new task is one that does not wait.
LEMMA NewTaskIsIdle ==
  ASSUME Waiting # Tasks
  PROVE  NewTask \in Tasks /\ tasks[NewTask] = Idle
<1> DEFINE S == Tasks \ Waiting
<1>1. S \in SUBSET Nat /\ S # {}
  BY BoundsAssumption DEF Tasks, Waiting
<1>2. \E t \in S : \A u \in S : t <= u
  <2> HIDE DEF S
  <2> QED
    BY <1>1, LeastExists
<1>3. NewTask \in S
  BY <1>2 DEF NewTask
<1> QED
  BY <1>3 DEF Waiting

(***************************************************************************)
(* The outcomes of the loop and of loadMultipleBatches, for a position c.  *)
(***************************************************************************)
\* The task asks for the next batch and moves the position below it.
Asks(t, c, batches) ==
  /\ hasMore /\ hasMore' = TRUE
  /\ \E limit \in 1..DEFAULT_LIMIT :
       /\ limit <= c
       /\ currentImgId' = c - limit
       /\ tasks' = [tasks EXCEPT ![t] = Waits("batch", c, limit, batches)]

\* The task ends and leaves the position c; it may have found that nothing is left.
Stops(t, c) ==
  /\ Return(t) /\ currentImgId' = c
  /\ hasMore' = hasMore \/ (hasMore' = FALSE /\ c = 0)

\* The head of the loop asks for a batch, or ends the load.
LEMMA IterateOutcome ==
  ASSUME TypeInv, NEW t \in Tasks, NEW c \in Positions, NEW batches \in Nat, Iterate(t, c, batches)
  PROVE  \/ batches < BATCHES_PER_PAGE /\ Asks(t, c, batches)
         \/ isLoading' = FALSE /\ Stops(t, c)
<1>1. CASE /\ batches < BATCHES_PER_PAGE /\ hasMore /\ c # Null
           /\ FetchSingleBatch(t, c, batches)
  <2>1. c \in 0..MaxPictures /\ c \in Nat /\ DEFAULT_LIMIT \in Nat /\ DEFAULT_LIMIT >= 1
    BY <1>1, BoundsAssumption, LimitsAssumption DEF Positions
  <2>2. PICK limit \in Nat : limit = Smaller(c, DEFAULT_LIMIT)
    BY <2>1 DEF Smaller
  <2>3. limit <= c /\ limit <= DEFAULT_LIMIT /\ (limit = c \/ limit = DEFAULT_LIMIT)
    BY <2>1, <2>2 DEF Smaller
  <2>4. /\ currentImgId' = c - limit
        /\ \/ limit < 1 /\ hasMore' = FALSE /\ isLoading' = FALSE /\ Return(t)
           \/ /\ limit >= 1 /\ tasks' = [tasks EXCEPT ![t] = Waits("batch", c, limit, batches)]
              /\ hasMore' = hasMore
    BY <1>1, <2>2 DEF FetchSingleBatch
  <2>5. CASE limit < 1
    <3>1. c = 0 /\ c - limit = c
      BY <2>1, <2>3, <2>5
    <3>2. currentImgId' = c
      BY <2>4, <3>1
    <3>3. hasMore' = FALSE /\ isLoading' = FALSE /\ Return(t)
      BY <2>4, <2>5
    <3> QED
      BY <3>1, <3>2, <3>3, Zenon DEF Stops
  <2>6. CASE limit >= 1
    <3>1. limit \in 1..DEFAULT_LIMIT /\ ~(limit < 1)
      BY <2>1, <2>3, <2>6
    <3> QED
      BY <1>1, <2>3, <2>4, <3>1, Zenon DEF Asks
  <2>7. limit < 1 \/ limit >= 1
    OBVIOUS
  <2> QED
    BY <2>5, <2>6, <2>7, Zenon
<1>2. CASE /\ isLoading' = FALSE /\ Return(t)
           /\ currentImgId' = c /\ UNCHANGED hasMore
  BY <1>2 DEF Stops
<1> QED
  BY <1>1, <1>2 DEF Iterate

\* A load begins only when none is under way; otherwise the task ends.  A load
\* that finds no position says so in early.
LEMMA LoadOutcome ==
  ASSUME TypeInv, NEW t \in Tasks, NEW c \in Positions, LoadMultipleBatches(t, c)
  PROVE  \/ /\ ~isLoading /\ isLoading' = TRUE /\ early' = early
            /\ Asks(t, c, 0)
         \/ isLoading' = isLoading /\ early' = early /\ Stops(t, c)
         \/ /\ isLoading' = isLoading /\ early' = TRUE /\ c = Null
            /\ Return(t) /\ currentImgId' = c /\ hasMore' = FALSE
<1>0. isLoading \in BOOLEAN /\ tasks \in [Tasks -> TaskSet]
  BY DEF TypeInv, TypeOK, TaskSet
<1>1. CASE ~isLoading /\ Iterate(t, c, 0) /\ (tasks'[t] # Idle => isLoading' = TRUE) /\ early' = early
  <2>1. Asks(t, c, 0) => tasks'[t] # Idle
    BY <1>0 DEF Asks, Waits, Idle
  <2>2. Asks(t, c, 0) \/ (isLoading' = FALSE /\ Stops(t, c))
    BY <1>1, IterateOutcome
  <2> QED
    BY <1>0, <1>1, <2>1, <2>2
<1>2. CASE Return(t) /\ currentImgId' = c /\ UNCHANGED <<isLoading, hasMore, early>>
  BY <1>2 DEF Stops
<1>3. CASE /\ ~isLoading /\ hasMore /\ c = Null
           /\ hasMore' = FALSE /\ early' = TRUE
           /\ Return(t)
           /\ currentImgId' = c /\ UNCHANGED isLoading
  BY <1>3
<1> QED
  BY <1>1, <1>2, <1>3 DEF LoadMultipleBatches

-----------------------------------------------------------------------------
(***************************************************************************)
(* Types.                                                                  *)
(***************************************************************************)
TasksOK == tasks \in [Tasks -> TaskSet] /\ \A t \in Tasks : TaskOK(tasks[t])

RestOK ==
  /\ currentImgId \in Positions
  /\ isLoading \in BOOLEAN /\ hasMore \in BOOLEAN /\ ticking \in BOOLEAN
  /\ shown \in Seq(1..MaxPictures)
  /\ length \in 0..MaxPictures /\ unanswered \in 0..length /\ begun \in 0..length
  /\ skipped \subseteq 1..MaxPictures
  /\ mixed \subseteq {"start", "batch", "pause"} /\ early \in BOOLEAN

\* The type invariant in two parts: what the tasks wait for, and the rest.
LEMMA TypeParts == TypeInv <=> TasksOK /\ RestOK
BY DEF TypeInv, TypeOK, TasksOK, RestOK, TaskSet, Positions

\* A task that ends leaves the tasks in order.
LEMMA ReturnType ==
  ASSUME TasksOK, NEW t \in Tasks, Return(t)
  PROVE  TasksOK'
<1>1. Idle \in TaskSet /\ TaskOK(Idle)
  BY LimitsAssumption, BoundsAssumption DEF TaskSet, Idle, Waits, TaskOK
<1>2. tasks' = [tasks EXCEPT ![t] = Idle]
  BY DEF Return
<1> QED
  BY <1>1, <1>2 DEF TasksOK

\* So does one that asks for a batch, and the position stays one.
LEMMA AsksType ==
  ASSUME TasksOK, NEW t \in Tasks, NEW c \in Positions, NEW batches \in 0..BATCHES_PER_PAGE,
         batches < BATCHES_PER_PAGE, Asks(t, c, batches)
  PROVE  TasksOK' /\ currentImgId' \in Positions /\ hasMore' \in BOOLEAN
<1>1. PICK limit \in 1..DEFAULT_LIMIT :
        /\ limit <= c /\ currentImgId' = c - limit
        /\ tasks' = [tasks EXCEPT ![t] = Waits("batch", c, limit, batches)]
  BY DEF Asks
<1>2. /\ DEFAULT_LIMIT \in Nat /\ BATCHES_PER_PAGE \in Nat /\ MaxPictures \in Nat
  BY LimitsAssumption, BoundsAssumption
<1>3. c \in 0..MaxPictures /\ c - limit \in 0..MaxPictures /\ limit \in 0..DEFAULT_LIMIT /\ 1 <= limit
  BY <1>1, <1>2 DEF Positions, Null
<1>4. Waits("batch", c, limit, batches) \in TaskSet
  BY <1>3 DEF Waits, TaskSet
<1>5. TaskOK(Waits("batch", c, limit, batches))
  BY <1>1, <1>3 DEF Waits, TaskOK
<1> QED
  BY <1>1, <1>3, <1>4, <1>5 DEF TasksOK, Positions, Asks

\* So does a task that stops.
LEMMA StopsType ==
  ASSUME TasksOK, RestOK, NEW t \in Tasks, NEW c \in Positions, Stops(t, c)
  PROVE  TasksOK' /\ currentImgId' \in Positions /\ hasMore' \in BOOLEAN
<1>1. TasksOK'
  BY ReturnType DEF Stops
<1>2. currentImgId' \in Positions
  BY DEF Stops
<1>3. hasMore' \in BOOLEAN
  BY Zenon DEF Stops, RestOK
<1> QED
  BY <1>1, <1>2, <1>3

\* A load keeps the types.
LEMMA LoadType ==
  ASSUME TypeInv, NEW t \in Tasks, NEW c \in Positions, LoadMultipleBatches(t, c)
  PROVE  /\ TasksOK' /\ currentImgId' \in Positions
         /\ isLoading' \in BOOLEAN /\ hasMore' \in BOOLEAN /\ early' \in BOOLEAN
<1>1. TasksOK /\ RestOK
  BY TypeParts
<1>2. CASE ~isLoading /\ isLoading' = TRUE /\ early' = early /\ Asks(t, c, 0)
  <2>1. 0 \in 0..BATCHES_PER_PAGE /\ 0 < BATCHES_PER_PAGE
    BY LimitsAssumption
  <2>2. TasksOK' /\ currentImgId' \in Positions /\ hasMore' \in BOOLEAN
    BY <1>1, <1>2, <2>1, AsksType
  <2> QED
    BY <1>1, <1>2, <2>2, Zenon DEF RestOK
<1>3. CASE isLoading' = isLoading /\ early' = early /\ Stops(t, c)
  <2>1. TasksOK' /\ currentImgId' \in Positions /\ hasMore' \in BOOLEAN
    BY <1>1, <1>3, StopsType
  <2> QED
    BY <1>1, <1>3, <2>1, Zenon DEF RestOK
<1>4. CASE /\ isLoading' = isLoading /\ early' = TRUE
           /\ Return(t) /\ currentImgId' = c /\ hasMore' = FALSE
  <2>1. TasksOK'
    BY <1>1, <1>4, ReturnType
  <2> QED
    BY <1>1, <1>4, <2>1, Zenon DEF RestOK
<1> QED
  BY <1>2, <1>3, <1>4, LoadOutcome

\* A batch lists its window, from the newest picture down.
LEMMA BatchFacts ==
  ASSUME NEW task \in TaskSet, TaskOK(task), task.at = "batch"
  PROVE  /\ Batch(task) \in Seq(1..MaxPictures) /\ Len(Batch(task)) = task.limit
         /\ \A k \in 1..task.limit : Batch(task)[k] = task.from + 1 - k
         /\ ToSet(Batch(task)) = Window(task)
         /\ Window(task) \subseteq 1..MaxPictures
<1>1. PICK from \in 0..MaxPictures, limit \in 1..DEFAULT_LIMIT :
        task.from = from /\ task.limit = limit /\ limit <= from
  BY LimitsAssumption DEF TaskSet, TaskOK
<1>2. from \in Nat /\ limit \in Nat /\ MaxPictures \in Nat /\ from <= MaxPictures
  BY <1>1, LimitsAssumption, BoundsAssumption
<1>3. Batch(task) = [k \in 1..limit |-> from + 1 - k] /\ Window(task) = (from - limit + 1)..from
  BY <1>1 DEF Batch, Window
<1>4. \A k \in 1..limit : from + 1 - k \in 1..MaxPictures
  BY <1>1, <1>2
<1>5. Batch(task) \in Seq(1..MaxPictures) /\ Len(Batch(task)) = limit /\ DOMAIN Batch(task) = 1..limit
  BY <1>2, <1>3, <1>4
<1>6. ToSet(Batch(task)) = (from - limit + 1)..from
  <2>1. \A x \in (from - limit + 1)..from : from + 1 - x \in 1..limit /\ x = from + 1 - (from + 1 - x)
    BY <1>2
  <2>2. \A k \in 1..limit : from + 1 - k \in (from - limit + 1)..from
    BY <1>2
  <2>3. \A k \in 1..limit : Batch(task)[k] = from + 1 - k
    BY <1>3
  <2>4. ASSUME NEW x \in (from - limit + 1)..from
        PROVE  \E k \in 1..limit : Batch(task)[k] = x
    BY <2>1, <2>3
  <2>5. ToSet(Batch(task)) = {Batch(task)[k] : k \in 1..limit}
    BY <1>5 DEF ToSet
  <2>6. {Batch(task)[k] : k \in 1..limit} \subseteq (from - limit + 1)..from
    BY <2>2, <2>3
  <2>7. (from - limit + 1)..from \subseteq {Batch(task)[k] : k \in 1..limit}
    BY <2>4
  <2> QED
    BY <2>5, <2>6, <2>7
<1>7. (from - limit + 1)..from \subseteq 1..MaxPictures
  BY <1>1, <1>2
<1> QED
  BY <1>1, <1>3, <1>5, <1>6, <1>7

\* The cards of two sequences are those of both.
LEMMA ToSetConcat ==
  ASSUME NEW S, NEW s \in Seq(S), NEW u \in Seq(S)
  PROVE  ToSet(s \o u) = ToSet(s) \cup ToSet(u)
<1>1. DOMAIN (s \o u) = 1..(Len(s) + Len(u)) /\ DOMAIN s = 1..Len(s) /\ DOMAIN u = 1..Len(u)
  OBVIOUS
<1>2. \A i \in 1..Len(s) : (s \o u)[i] = s[i] /\ i \in 1..(Len(s) + Len(u))
  OBVIOUS
<1>3. \A i \in 1..Len(u) : (s \o u)[Len(s) + i] = u[i] /\ Len(s) + i \in 1..(Len(s) + Len(u))
  OBVIOUS
<1>4. \A i \in 1..(Len(s) + Len(u)) : i \in 1..Len(s) \/ (i - Len(s) \in 1..Len(u) /\ i = Len(s) + (i - Len(s)))
  OBVIOUS
<1> QED
  BY <1>1, <1>2, <1>3, <1>4 DEF ToSet

\* A task that waits was given what it waits for.
LEMMA WaitingAt ==
  ASSUME TasksOK, NEW t \in Tasks
  PROVE  /\ tasks[t] \in TaskSet /\ TaskOK(tasks[t])
         /\ t \in Waiting => tasks[t].at \in {"start", "batch", "pause"}
         /\ t \notin Waiting => tasks[t].at = "idle"
BY DEF TasksOK, TaskSet, TaskOK, Waiting, Idle, Waits

\* Every step of the page keeps the types.
LEMMA TypeNext ==
  ASSUME TypeInv, [Next]_vars
  PROVE  TypeInv'
<1>0. TasksOK /\ RestOK
  BY TypeParts
<1>. SUFFICES TasksOK' /\ RestOK'
  <2>1. TypeInv <=> TasksOK /\ RestOK
    BY TypeParts
  <2>2. TypeInv' <=> TasksOK' /\ RestOK'
    BY DEF TypeInv, TypeOK, TasksOK, RestOK, TaskSet, Positions
  <2> QED
    BY <2>2
<1>1. ASSUME NEW t \in Tasks, BatchArrives(t)
      PROVE  TasksOK' /\ RestOK'
  <2>1. /\ tasks[t] \in TaskSet /\ TaskOK(tasks[t]) /\ tasks[t].at = "batch"
        /\ tasks' = [tasks EXCEPT ![t] = Waits("pause", 0, 0, tasks[t].batches + 1)]
    BY <1>0, <1>1, WaitingAt DEF BatchArrives, At, Idle
  <2>2. /\ Waits("pause", 0, 0, tasks[t].batches + 1) \in TaskSet
        /\ TaskOK(Waits("pause", 0, 0, tasks[t].batches + 1))
    <3>1. /\ BATCHES_PER_PAGE \in Nat /\ DEFAULT_LIMIT \in Nat /\ MaxPictures \in Nat
          /\ tasks[t].batches \in 0..BATCHES_PER_PAGE /\ tasks[t].batches < BATCHES_PER_PAGE
      BY <2>1, LimitsAssumption, BoundsAssumption DEF TaskSet, TaskOK
    <3>2. tasks[t].batches + 1 \in 0..BATCHES_PER_PAGE
      BY <3>1
    <3> QED
      BY <3>1, <3>2 DEF TaskSet, TaskOK, Waits
  <2>3. TasksOK'
    BY <1>0, <2>1, <2>2 DEF TasksOK
  <2>4. shown' \in Seq(1..MaxPictures)
    <3>1. Batch(tasks[t]) \in Seq(1..MaxPictures)
      BY <2>1, BatchFacts
    <3> QED
      BY <1>0, <1>1, <3>1 DEF BatchArrives, RestOK
  <2>5. hasMore' \in BOOLEAN
    BY <1>0, <1>1 DEF BatchArrives, RestOK
  <2> QED
    BY <1>0, <1>1, <2>3, <2>4, <2>5 DEF BatchArrives, RestOK, store, history
<1>2. ASSUME NEW t \in Tasks, BatchFails(t)
      PROVE  TasksOK' /\ RestOK'
  <2>1. Window(tasks[t]) \subseteq 1..MaxPictures
    BY <1>0, <1>2, WaitingAt, BatchFacts DEF BatchFails, At
  <2>2. TasksOK'
    BY <1>0, <1>2, ReturnType DEF BatchFails
  <2> QED
    BY <1>0, <1>2, <2>1, <2>2 DEF BatchFails, RestOK, store
<1>3. ASSUME NEW t \in Tasks, PauseEnds(t)
      PROVE  TasksOK' /\ RestOK'
  <2>1. /\ tasks[t].batches \in 0..BATCHES_PER_PAGE /\ tasks[t].batches \in Nat
        /\ currentImgId \in Positions /\ isLoading \in BOOLEAN
    BY <1>0, LimitsAssumption DEF TasksOK, TaskSet, RestOK
  <2>2. CASE /\ tasks[t].batches < BATCHES_PER_PAGE
             /\ Asks(t, currentImgId, tasks[t].batches)
    <3>1. TasksOK' /\ currentImgId' \in Positions /\ hasMore' \in BOOLEAN
      BY <1>0, <2>1, <2>2, AsksType
    <3>2. tasks'[t] # Idle
      BY <1>0, <2>2 DEF Asks, TasksOK, Waits, Idle
    <3> QED
      BY <1>0, <1>3, <3>1, <3>2 DEF PauseEnds, RestOK, store, history
  <2>3. CASE isLoading' = FALSE /\ Stops(t, currentImgId)
    <3>1. TasksOK' /\ currentImgId' \in Positions /\ hasMore' \in BOOLEAN
      BY <1>0, <2>1, <2>3, StopsType
    <3> QED
      BY <1>0, <1>3, <2>3, <3>1 DEF PauseEnds, RestOK, store, history
  <2> QED
    BY <1>3, <2>1, <2>2, <2>3, IterateOutcome DEF PauseEnds
<1>4. ASSUME NEW t \in Tasks, StartArrives(t)
      PROVE  TasksOK' /\ RestOK'
  <2>1. PICK maxIdx \in tasks[t].from..length : LoadMultipleBatches(t, maxIdx) /\ begun' = maxIdx
    BY <1>4 DEF StartArrives
  <2>2. maxIdx \in 0..length /\ maxIdx \in Positions
    <3>1. tasks[t].from \in 0..MaxPictures /\ length \in 0..MaxPictures /\ MaxPictures \in Nat
      BY <1>0, BoundsAssumption DEF TasksOK, TaskSet, RestOK
    <3> QED
      BY <3>1 DEF Positions
  <2>3. /\ TasksOK' /\ currentImgId' \in Positions
        /\ isLoading' \in BOOLEAN /\ hasMore' \in BOOLEAN /\ early' \in BOOLEAN
    BY <2>1, <2>2, LoadType
  <2> QED
    BY <1>0, <1>4, <2>1, <2>2, <2>3 DEF StartArrives, RestOK, store
<1>5. ASSUME NEW t \in Tasks, StartFails(t)
      PROVE  TasksOK' /\ RestOK'
  BY <1>0, <1>5, ReturnType DEF StartFails, RestOK, page, store, history
<1>6. ASSUME UploadAnswered
      PROVE  TasksOK' /\ RestOK'
  <2>1. NewTask \in Tasks /\ tasks[NewTask] = Idle
    BY <1>6, NewTaskIsIdle DEF UploadAnswered
  <2>2. tasks' = [tasks EXCEPT ![NewTask] = Waits("start", length, 0, 0)]
    BY <1>6 DEF UploadAnswered, InitGallery
  <2>3. Waits("start", length, 0, 0) \in TaskSet /\ TaskOK(Waits("start", length, 0, 0))
    BY <1>0, LimitsAssumption DEF TaskSet, RestOK, Waits, TaskOK
  <2>4. TasksOK'
    BY <1>0, <2>1, <2>2, <2>3 DEF TasksOK
  <2>5. mixed' \subseteq {"start", "batch", "pause"}
    BY <1>0, <1>6, WaitingAt DEF UploadAnswered, InitGallery, Waiting
  <2>6. unanswered' \in 0..length' /\ begun' \in 0..length' /\ length' \in 0..MaxPictures
    BY <1>0, <1>6, BoundsAssumption DEF UploadAnswered, InitGallery, RestOK
  <2>7. /\ currentImgId' \in Positions /\ shown' \in Seq(1..MaxPictures)
        /\ isLoading' = FALSE /\ hasMore' = TRUE /\ early' = FALSE /\ ticking' = ticking
        /\ skipped' = {}
    BY <1>6 DEF UploadAnswered, InitGallery, Positions
  <2>8. ticking' \in BOOLEAN
    BY <1>0, <2>7, Zenon DEF RestOK
  <2> QED
    BY <2>4, <2>5, <2>6, <2>7, <2>8 DEF RestOK
<1>7. ASSUME Store
      PROVE  TasksOK' /\ RestOK'
  <2>1. length' \in 0..MaxPictures /\ unanswered' \in 0..length' /\ begun' \in 0..length'
    BY <1>0, <1>7, BoundsAssumption DEF Store, RestOK, history
  <2> QED
    BY <1>0, <1>7, <2>1 DEF Store, RestOK, TasksOK, page, history
<1>8. ASSUME Scroll
      PROVE  TasksOK' /\ RestOK'
  BY <1>0, <1>8 DEF Scroll, RestOK, TasksOK, page, store, history
<1>9. ASSUME ScrollTimer
      PROVE  TasksOK' /\ RestOK'
  <2>1. NewTask \in Tasks
    BY <1>9, NewTaskIsIdle DEF ScrollTimer
  <2>2. currentImgId \in Positions
    BY <1>0 DEF RestOK
  <2>3. /\ TasksOK' /\ currentImgId' \in Positions
        /\ isLoading' \in BOOLEAN /\ hasMore' \in BOOLEAN /\ early' \in BOOLEAN
    BY <1>9, <2>1, <2>2, LoadType DEF ScrollTimer
  <2> QED
    BY <1>0, <1>9, <2>3 DEF ScrollTimer, RestOK, store
<1>10. ASSUME UNCHANGED vars
       PROVE  TasksOK' /\ RestOK'
  BY <1>0, <1>10 DEF RestOK, TasksOK, vars, page, store, history
<1> QED
  BY <1>1, <1>2, <1>3, <1>4, <1>5, <1>6, <1>7, <1>8, <1>9, <1>10 DEF Next, Continue

\* The page starts with its types.
LEMMA TypeInit == Init => TypeInv
<1> SUFFICES ASSUME Init PROVE TypeInv
  OBVIOUS
<1>1. /\ DEFAULT_LIMIT \in Nat /\ BATCHES_PER_PAGE \in Nat /\ MaxPictures \in Nat
      /\ length \in 0..MaxPictures
  BY LimitsAssumption, BoundsAssumption DEF Init
<1>2. /\ Idle \in TaskSet /\ TaskOK(Idle)
      /\ Waits("start", length, 0, 0) \in TaskSet /\ TaskOK(Waits("start", length, 0, 0))
  BY <1>1 DEF TaskSet, TaskOK, Idle, Waits
<1>3. tasks = [t \in Tasks |-> IF t = 1 THEN Waits("start", length, 0, 0) ELSE Idle]
  BY DEF Init
<1>4. TasksOK
  BY <1>2, <1>3 DEF TasksOK
<1>5. /\ currentImgId \in Positions /\ shown \in Seq(1..MaxPictures)
      /\ unanswered \in 0..length /\ begun \in 0..length
  BY <1>1 DEF Init, Positions
<1>6. RestOK
  BY <1>1, <1>5 DEF Init, RestOK
<1> QED
  BY <1>4, <1>6, TypeParts

\* The types hold of every behaviour.
THEOREM TypeInvariance == Spec => []TypeInv
<1> QED
  BY TypeInit, TypeNext, PTL DEF Spec

\* Every variable of the page keeps its type: the position never falls below
\* the first picture, no load asks for more batches than a page has, and only
\* pictures of the store are shown.
THEOREM TypeAlways == Spec => []TypeOK
<1>1. TypeInv => TypeOK
  BY DEF TypeInv
<1> QED
  BY <1>1, TypeInvariance, PTL

-----------------------------------------------------------------------------
(***************************************************************************)
(* The steps of the page, by what they do to the tasks and the position.   *)
(***************************************************************************)

\* A pause ends and the load asks for its next batch, or stops.
PauseStep(t) ==
  /\ At(t, "pause")
  /\ UNCHANGED <<shown, history>>
  /\ \/ isLoading' = isLoading /\ \E batches \in Nat : Asks(t, currentImgId, batches)
     \/ isLoading' = FALSE /\ Stops(t, currentImgId)

\* A call of loadMultipleBatches, by the answer to a start or by a scroll.
LoadStep(t, c) ==
  /\ \/ At(t, "start") /\ c \in 0..MaxPictures /\ begun' = c
     \/ At(t, "idle") /\ c \in Positions /\ c = currentImgId /\ begun' = begun
  /\ UNCHANGED <<shown, skipped, mixed>>
  /\ \/ /\ ~isLoading /\ isLoading' = TRUE /\ early' = early
        /\ Asks(t, c, 0)
     \/ isLoading' = isLoading /\ early' = early /\ Stops(t, c)
     \/ /\ isLoading' = isLoading /\ early' = TRUE
        /\ Return(t) /\ currentImgId' = c /\ hasMore' = FALSE

\* Every step is one of these, or changes nothing the properties speak of.
LEMMA PageSteps ==
  ASSUME TypeInv, [Next]_vars
  PROVE  \/ \E t \in Tasks : BatchArrives(t) \/ BatchFails(t) \/ PauseStep(t) \/ StartFails(t)
         \/ \E t \in Tasks, c \in Positions : LoadStep(t, c)
         \/ UploadAnswered
         \/ UNCHANGED <<page, tasks, shown, history>>
<1>0. TasksOK /\ RestOK
  BY TypeParts
<1>1. ASSUME NEW t \in Tasks, PauseEnds(t)
      PROVE  PauseStep(t)
  <2>1. tasks[t].batches \in Nat /\ currentImgId \in Positions
    BY <1>0, LimitsAssumption DEF TasksOK, TaskSet, RestOK
  <2>2. Iterate(t, currentImgId, tasks[t].batches)
    BY <1>1 DEF PauseEnds
  <2>3. Asks(t, currentImgId, tasks[t].batches) => tasks'[t] # Idle
    BY <1>0 DEF Asks, TasksOK, Waits, Idle
  <2>4. At(t, "pause") /\ UNCHANGED <<shown, history>> /\ (tasks'[t] # Idle => isLoading' = isLoading)
    BY <1>1 DEF PauseEnds
  <2>5. CASE Asks(t, currentImgId, tasks[t].batches)
    BY <2>1, <2>3, <2>4, <2>5 DEF PauseStep
  <2>6. CASE isLoading' = FALSE /\ Stops(t, currentImgId)
    BY <2>4, <2>6 DEF PauseStep
  <2> QED
    BY <2>1, <2>2, <2>5, <2>6, IterateOutcome
<1>2. ASSUME NEW t \in Tasks, StartArrives(t)
      PROVE  \E c \in Positions : LoadStep(t, c)
  <2>1. PICK c \in tasks[t].from..length : LoadMultipleBatches(t, c) /\ begun' = c
    BY <1>2 DEF StartArrives
  <2>2. c \in 0..MaxPictures /\ c \in Positions
    <3>1. tasks[t].from \in 0..MaxPictures /\ length \in 0..MaxPictures /\ MaxPictures \in Nat
      BY <1>0, BoundsAssumption DEF TasksOK, TaskSet, RestOK
    <3> QED
      BY <3>1 DEF Positions
  <2>3. At(t, "start") /\ UNCHANGED <<shown, skipped, mixed>>
    BY <1>2 DEF StartArrives
  <2> QED
    BY <2>1, <2>2, <2>3, LoadOutcome DEF LoadStep
<1>3. ASSUME ScrollTimer
      PROVE  \E t \in Tasks, c \in Positions : LoadStep(t, c)
  <2>1. NewTask \in Tasks /\ tasks[NewTask] = Idle
    BY <1>3, NewTaskIsIdle DEF ScrollTimer
  <2>2. PICK t \in Tasks : t = NewTask /\ At(t, "idle")
    BY <2>1 DEF At, Idle, Waits
  <2>3. currentImgId \in Positions
    BY <1>0 DEF RestOK
  <2>4. LoadMultipleBatches(t, currentImgId) /\ begun' = begun /\ UNCHANGED <<shown, skipped, mixed>>
    BY <1>3, <2>2 DEF ScrollTimer
  <2> QED
    BY <2>2, <2>3, <2>4, LoadOutcome DEF LoadStep
<1>4. Store \/ Scroll \/ UNCHANGED vars => UNCHANGED <<page, tasks, shown, history>>
  BY DEF Store, Scroll, vars
<1> QED
  BY <1>1, <1>2, <1>3, <1>4 DEF Next, Continue

\* What a step leaves of the places where the tasks wait.
LEMMA TaskMoves ==
  ASSUME TasksOK, NEW t \in Tasks, NEW v, tasks' = [tasks EXCEPT ![t] = v]
  PROVE  /\ tasks'[t] = v
         /\ \A u \in Tasks : u # t => tasks'[u] = tasks[u]
BY DEF TasksOK

\* An idle task waits nowhere, and the place of the others is what they wait for.
LEMMA Places ==
  /\ Idle.at = "idle"
  /\ \A at, from, limit, batches : Waits(at, from, limit, batches).at = at
  /\ \A at, from, limit, batches : Waits(at, from, limit, batches).from = from
  /\ \A at, from, limit, batches : Waits(at, from, limit, batches).limit = limit
BY DEF Idle, Waits

-----------------------------------------------------------------------------
(***************************************************************************)
(* One loader.                                                             *)
(***************************************************************************)
Loads(place) == place = "batch" \/ place = "pause"

Loaders == {t \in Tasks : Loads(tasks[t].at)}

\* isLoading says whether a load is under way, and at most one is, unless the
\* gallery was started again while a task waited.
LoaderInv == mixed = {} => IF isLoading THEN \E t \in Tasks : Loaders = {t} ELSE Loaders = {}

\* Where a step of task t leaves the loaders.
LEMMA LoadersMove ==
  ASSUME TasksOK, NEW t \in Tasks, NEW v, tasks' = [tasks EXCEPT ![t] = v]
  PROVE  Loaders' = IF Loads(v.at) THEN Loaders \cup {t} ELSE Loaders \ {t}
<1>1. /\ tasks'[t] = v
      /\ \A u \in Tasks : u # t => tasks'[u] = tasks[u]
  BY TaskMoves
<1>2. CASE Loads(v.at)
  BY <1>1, <1>2 DEF Loaders
<1>3. CASE ~Loads(v.at)
  BY <1>1, <1>3 DEF Loaders
<1> QED
  BY <1>2, <1>3

\* A task that asks is a loader, one that ends is none.
LEMMA LoadersFacts ==
  ASSUME TasksOK, NEW t \in Tasks
  PROVE  /\ \A c, batches : Asks(t, c, batches) => Loaders' = Loaders \cup {t}
         /\ Return(t) => Loaders' = Loaders \ {t}
         /\ \A c : Stops(t, c) => Loaders' = Loaders \ {t}
<1>1. \A c, limit, batches : Loads(Waits("batch", c, limit, batches).at)
  BY Places DEF Loads
<1>2. ~Loads(Idle.at)
  BY Places DEF Loads
<1>3. Return(t) => Loaders' = Loaders \ {t}
  BY <1>2, LoadersMove DEF Return
<1>4. ASSUME NEW c, NEW batches, Asks(t, c, batches)
      PROVE  Loaders' = Loaders \cup {t}
  <2>1. PICK limit : tasks' = [tasks EXCEPT ![t] = Waits("batch", c, limit, batches)]
    BY <1>4 DEF Asks
  <2> QED
    BY <1>1, <2>1, LoadersMove
<1> QED
  BY <1>3, <1>4 DEF Stops

\* Every step keeps the single loader.
LEMMA LoaderNext ==
  ASSUME TypeInv, LoaderInv, [Next]_vars
  PROVE  LoaderInv'
<1>0. TasksOK /\ RestOK
  BY TypeParts
<1>. SUFFICES ASSUME mixed' = {}
              PROVE  IF isLoading' THEN \E t \in Tasks : Loaders' = {t} ELSE Loaders' = {}
  BY DEF LoaderInv
<1>1. ASSUME NEW t \in Tasks, mixed = {}, t \in Loaders
      PROVE  isLoading /\ Loaders = {t}
  BY <1>1 DEF LoaderInv
<1>2. ASSUME NEW t \in Tasks, BatchArrives(t)
      PROVE  IF isLoading' THEN \E u \in Tasks : Loaders' = {u} ELSE Loaders' = {}
  <2>1. t \in Loaders /\ mixed = {} /\ isLoading' = isLoading
    BY <1>2 DEF BatchArrives, At, Loaders, Loads, history
  <2>2. Loaders' = Loaders \cup {t}
    <3>1. Loads(Waits("pause", 0, 0, tasks[t].batches + 1).at)
      BY Places DEF Loads
    <3> QED
      BY <1>0, <1>2, <3>1, LoadersMove DEF BatchArrives
  <2> QED
    BY <1>1, <2>1, <2>2
<1>3. ASSUME NEW t \in Tasks, BatchFails(t)
      PROVE  IF isLoading' THEN \E u \in Tasks : Loaders' = {u} ELSE Loaders' = {}
  <2>1. t \in Loaders /\ mixed = {} /\ isLoading' = FALSE
    BY <1>3 DEF BatchFails, At, Loaders, Loads
  <2>2. Loaders' = Loaders \ {t}
    BY <1>0, <1>3, LoadersFacts DEF BatchFails
  <2> QED
    BY <1>1, <2>1, <2>2
<1>4. ASSUME NEW t \in Tasks, PauseStep(t)
      PROVE  IF isLoading' THEN \E u \in Tasks : Loaders' = {u} ELSE Loaders' = {}
  <2>1. t \in Loaders /\ mixed = {}
    BY <1>4 DEF PauseStep, At, Loaders, Loads, history
  <2>2. isLoading /\ Loaders = {t}
    BY <1>1, <2>1
  <2>3. CASE isLoading' = isLoading /\ \E batches \in Nat : Asks(t, currentImgId, batches)
    <3>1. Loaders' = Loaders \cup {t}
      BY <1>0, <2>3, LoadersFacts
    <3> QED
      BY <2>2, <2>3, <3>1
  <2>4. CASE isLoading' = FALSE /\ Stops(t, currentImgId)
    <3>1. Loaders' = Loaders \ {t}
      BY <1>0, <2>4, LoadersFacts
    <3> QED
      BY <2>2, <2>4, <3>1
  <2> QED
    BY <1>4, <2>3, <2>4 DEF PauseStep
<1>5. ASSUME NEW t \in Tasks, NEW c \in Positions, LoadStep(t, c)
      PROVE  IF isLoading' THEN \E u \in Tasks : Loaders' = {u} ELSE Loaders' = {}
  <2>1. t \notin Loaders /\ mixed = {}
    BY <1>5 DEF LoadStep, At, Loaders, Loads
  <2>2. CASE ~isLoading /\ isLoading' = TRUE /\ Asks(t, c, 0)
    <3>1. Loaders = {} /\ Loaders' = Loaders \cup {t}
      BY <1>0, <2>1, <2>2, LoadersFacts DEF LoaderInv
    <3> QED
      BY <2>2, <3>1
  <2>3. CASE isLoading' = isLoading /\ (Stops(t, c) \/ Return(t))
    <3>1. Loaders' = Loaders
      BY <1>0, <2>1, <2>3, LoadersFacts
    <3> QED
      BY <2>1, <2>3, <3>1 DEF LoaderInv
  <2> QED
    BY <1>5, <2>2, <2>3 DEF LoadStep
<1>6. ASSUME NEW t \in Tasks, StartFails(t)
      PROVE  IF isLoading' THEN \E u \in Tasks : Loaders' = {u} ELSE Loaders' = {}
  <2>1. t \notin Loaders /\ mixed = {} /\ isLoading' = isLoading
    BY <1>6 DEF StartFails, At, Loaders, Loads, history, page
  <2>2. Loaders' = Loaders \ {t}
    BY <1>0, <1>6, LoadersFacts DEF StartFails
  <2> QED
    BY <2>1, <2>2 DEF LoaderInv
<1>7. ASSUME UploadAnswered
      PROVE  IF isLoading' THEN \E u \in Tasks : Loaders' = {u} ELSE Loaders' = {}
  <2>1. Waiting = {} /\ isLoading' = FALSE
    BY <1>7 DEF UploadAnswered, InitGallery
  <2>2. Loaders = {}
    BY <2>1, Places DEF Loaders, Loads, Waiting
  <2>3. Loaders' = Loaders \ {NewTask}
    <3>1. ~Loads(Waits("start", length, 0, 0).at)
      BY Places DEF Loads
    <3>2. NewTask \in Tasks
      BY <1>7, NewTaskIsIdle DEF UploadAnswered
    <3> QED
      BY <1>0, <1>7, <3>1, <3>2, LoadersMove DEF UploadAnswered, InitGallery
  <2> QED
    BY <2>1, <2>2, <2>3
<1>8. ASSUME UNCHANGED <<page, tasks, shown, history>>
      PROVE  IF isLoading' THEN \E u \in Tasks : Loaders' = {u} ELSE Loaders' = {}
  <2>1. mixed = {} /\ isLoading' = isLoading /\ Loaders' = Loaders
    BY <1>8 DEF page, history, Loaders
  <2> QED
    BY <2>1 DEF LoaderInv
<1> QED
  BY <1>2, <1>3, <1>4, <1>5, <1>6, <1>7, <1>8, PageSteps

\* The page starts with no load under way.
LEMMA LoaderInit == Init => LoaderInv
<1> SUFFICES ASSUME Init PROVE Loaders = {} /\ ~isLoading
  BY DEF LoaderInv
<1>1. \A t \in Tasks : tasks[t].at \in {"idle", "start"}
  BY Places DEF Init
<1> QED
  BY <1>1 DEF Init, Loaders, Loads

\* At most one load is under way, and isLoading says so, whatever the user
\* scrolls and whatever fails, unless the gallery was started again while a
\* task waited.
THEOREM OneLoaderAlways == Spec => []OneLoader
<1>1. LoaderInv => OneLoader
  <2> SUFFICES ASSUME LoaderInv, mixed = {}
               PROVE  Cardinality(Loaders) = (IF isLoading THEN 1 ELSE 0)
    BY DEF OneLoader, Loaders, Loads, At
  <2> QED
    BY FS_EmptySet, FS_Singleton DEF LoaderInv
<1> QED
  BY <1>1, TypeInvariance, LoaderInit, LoaderNext, PTL DEF Spec

-----------------------------------------------------------------------------
(***************************************************************************)
(* The end of the pictures.  An answer to a start sets the position anew;  *)
(* the page may have stopped asking before it comes only if a load came    *)
(* before it (early) or two were under way.                                *)
(***************************************************************************)
StartsAlone ==
  Undisturbed =>
    \A t \in Tasks : At(t, "start") =>
      /\ currentImgId = Null /\ hasMore
      /\ \A u \in Tasks : At(u, "start") => u = t

EndInv == StartsAlone /\ EndIsTheEnd

\* A task that moves on, and not to a start, leaves only the starts of others.
LEMMA StartsMove ==
  ASSUME TasksOK, NEW t \in Tasks, NEW v, tasks' = [tasks EXCEPT ![t] = v], v.at # "start"
  PROVE  \A u \in Tasks : At(u, "start")' => At(u, "start") /\ u # t
BY TaskMoves DEF At

\* So do the tasks that ask, end or stop.
LEMMA StartsFacts ==
  ASSUME TasksOK, NEW t \in Tasks, NEW c,
         (\E batches : Asks(t, c, batches)) \/ Return(t) \/ Stops(t, c)
  PROVE  \A u \in Tasks : At(u, "start")' => At(u, "start") /\ u # t
<1>1. CASE \E batches : Asks(t, c, batches)
  <2>1. PICK limit, batches : tasks' = [tasks EXCEPT ![t] = Waits("batch", c, limit, batches)]
    BY <1>1 DEF Asks
  <2> QED
    BY <2>1, Places, StartsMove
<1>2. CASE Return(t) \/ Stops(t, c)
  BY <1>2, Places, StartsMove DEF Return, Stops
<1> QED
  BY <1>1, <1>2

\* A position from which a batch was asked for was one, and hasMore is true.
LEMMA AsksFacts ==
  ASSUME NEW t, NEW c \in Positions, NEW batches, Asks(t, c, batches)
  PROVE  c # Null /\ currentImgId' # Null /\ hasMore' = TRUE
<1>1. PICK limit \in 1..DEFAULT_LIMIT : limit <= c /\ currentImgId' = c - limit
  BY DEF Asks
<1>2. limit \in Nat /\ 1 <= limit /\ c \in {-1} \cup 0..MaxPictures /\ MaxPictures \in Nat
  BY LimitsAssumption, BoundsAssumption DEF Positions, Null
<1> QED
  BY <1>1, <1>2 DEF Asks, Null

\* A load or a pause that works on the current position keeps the invariant.
LEMMA EndAtPosition ==
  ASSUME TypeInv, EndInv, NEW t \in Tasks, mixed' = mixed, early' = early,
         (\E batches \in Nat : Asks(t, currentImgId, batches)) \/ Stops(t, currentImgId)
  PROVE  EndInv'
<1>0. TasksOK /\ RestOK /\ currentImgId \in Positions
  BY TypeParts DEF RestOK
<1>1. SUFFICES ASSUME Undisturbed PROVE EndInv'
  BY DEF EndInv, StartsAlone, EndIsTheEnd, Undisturbed
<1>2. \A u \in Tasks : At(u, "start")' => At(u, "start") /\ u # t
  BY <1>0, StartsFacts
<1>3. CASE \E batches \in Nat : Asks(t, currentImgId, batches)
  <2>1. currentImgId # Null /\ hasMore' = TRUE
    BY <1>0, <1>3, AsksFacts
  <2>2. \A u \in Tasks : ~At(u, "start")'
    BY <1>1, <1>2, <2>1 DEF EndInv, StartsAlone
  <2> QED
    BY <2>1, <2>2 DEF EndInv, StartsAlone, EndIsTheEnd
<1>4. CASE Stops(t, currentImgId)
  <2>1. /\ currentImgId' = currentImgId
        /\ hasMore' = hasMore \/ (hasMore' = FALSE /\ currentImgId = 0)
    BY <1>4 DEF Stops
  <2>2. currentImgId = Null => hasMore' = hasMore
    BY <2>1 DEF Null
  <2>3. StartsAlone'
    BY <1>1, <1>2, <2>1, <2>2 DEF EndInv, StartsAlone
  <2>4. EndIsTheEnd'
    BY <1>1, <2>1 DEF EndInv, EndIsTheEnd
  <2> QED
    BY <2>3, <2>4 DEF EndInv
<1> QED
  BY <1>3, <1>4

\* Every step keeps it.
LEMMA EndNext ==
  ASSUME TypeInv, EndInv, [Next]_vars
  PROVE  EndInv'
<1>0. TasksOK /\ RestOK
  BY TypeParts
<1>1. ASSUME NEW t \in Tasks, BatchArrives(t)
      PROVE  EndInv'
  <2>1. \A u \in Tasks : At(u, "start")' => At(u, "start") /\ u # t
    BY <1>0, <1>1, Places, StartsMove DEF BatchArrives
  <2>2. /\ currentImgId' = currentImgId /\ mixed' = mixed /\ early' = early
        /\ hasMore' <=> (hasMore /\ currentImgId # 0)
    BY <1>1 DEF BatchArrives, history
  <2>3. EndIsTheEnd'
    BY <2>2 DEF EndInv, EndIsTheEnd, Undisturbed
  <2>4. currentImgId = Null /\ hasMore => hasMore'
    BY <2>2 DEF Null
  <2>5. StartsAlone'
    BY <2>1, <2>2, <2>4 DEF EndInv, StartsAlone, Undisturbed
  <2> QED
    BY <2>3, <2>5 DEF EndInv
<1>2. ASSUME NEW t \in Tasks, BatchFails(t) \/ StartFails(t)
      PROVE  EndInv'
  <2>1. \A u \in Tasks : At(u, "start")' => At(u, "start") /\ u # t
    BY <1>0, <1>2, StartsFacts DEF BatchFails, StartFails
  <2>2. currentImgId' = currentImgId /\ mixed' = mixed /\ early' = early /\ hasMore' = hasMore
    BY <1>2 DEF BatchFails, StartFails, page, history
  <2> QED
    BY <2>1, <2>2 DEF EndInv, StartsAlone, EndIsTheEnd, Undisturbed
<1>3. ASSUME NEW t \in Tasks, PauseStep(t)
      PROVE  EndInv'
  BY <1>3, EndAtPosition DEF PauseStep, history
<1>4. ASSUME NEW t \in Tasks, NEW c \in Positions, LoadStep(t, c)
      PROVE  EndInv'
  <2>1. CASE early' = TRUE
    BY <2>1 DEF EndInv, StartsAlone, EndIsTheEnd, Undisturbed
  <2>2. CASE early' = early /\ (Asks(t, c, 0) \/ Stops(t, c)) /\ At(t, "start")
    <3>1. SUFFICES ASSUME Undisturbed PROVE EndInv'
      BY <1>4, <2>2 DEF EndInv, StartsAlone, EndIsTheEnd, Undisturbed, LoadStep
    <3>2. \A u \in Tasks : At(u, "start")' => At(u, "start") /\ u # t
      BY <1>0, <2>2, StartsFacts
    <3>3. \A u \in Tasks : ~At(u, "start")'
      BY <2>2, <3>1, <3>2 DEF EndInv, StartsAlone
    <3>4. hasMore
      BY <2>2, <3>1 DEF EndInv, StartsAlone
    <3>5. hasMore' \/ currentImgId' = 0
      BY <2>2, <3>4, AsksFacts DEF Stops
    <3> QED
      BY <3>3, <3>5 DEF EndInv, StartsAlone, EndIsTheEnd
  <2>3. CASE early' = early /\ (Asks(t, c, 0) \/ Stops(t, c)) /\ c = currentImgId
    BY <1>4, <2>3, EndAtPosition DEF LoadStep
  <2> QED
    BY <1>4, <2>1, <2>2, <2>3 DEF LoadStep
<1>5. ASSUME UploadAnswered
      PROVE  EndInv'
  <2>1. /\ currentImgId' = Null /\ hasMore' = TRUE
        /\ tasks' = [tasks EXCEPT ![NewTask] = Waits("start", length, 0, 0)]
        /\ mixed' = {tasks[t].at : t \in Waiting}
    BY <1>5 DEF UploadAnswered, InitGallery
  <2>2. NewTask \in Tasks
    BY <1>5, NewTaskIsIdle DEF UploadAnswered
  <2>3. "start" \notin mixed' => \A u \in Tasks : At(u, "start")' => u = NewTask
    <3>1. SUFFICES ASSUME NEW u \in Tasks, u # NewTask, tasks'[u].at = "start"
                   PROVE  "start" \in mixed'
      BY DEF At
    <3>2. tasks[u].at = "start"
      BY <1>0, <2>1, <2>2, <3>1, TaskMoves
    <3>3. u \in Waiting
      BY <3>2, Places DEF Waiting
    <3> QED
      BY <2>1, <3>2, <3>3
  <2> QED
    BY <2>1, <2>3 DEF EndInv, StartsAlone, EndIsTheEnd, Undisturbed
<1>6. ASSUME UNCHANGED <<page, tasks, shown, history>>
      PROVE  EndInv'
  BY <1>6 DEF EndInv, StartsAlone, EndIsTheEnd, Undisturbed, At, page, history
<1> QED
  BY <1>1, <1>2, <1>3, <1>4, <1>5, <1>6, PageSteps

\* The page starts with one start under way.
LEMMA EndInit == Init => EndInv
<1> SUFFICES ASSUME Init PROVE EndInv
  OBVIOUS
<1>1. \A t \in Tasks : tasks[t].at = "start" => t = 1
  BY Places DEF Init
<1> QED
  BY <1>1 DEF Init, EndInv, StartsAlone, EndIsTheEnd, At

\* The page says that there are no more images only when it has asked for
\* every one, unless a load came before the answer to the start, or two answers
\* to a start were under way.
THEOREM EndAlwaysIsTheEnd == Spec => []EndIsTheEnd
<1>1. EndInv => EndIsTheEnd
  BY DEF EndInv
<1> QED
  BY <1>1, TypeInvariance, EndInit, EndNext, PTL DEF Spec

-----------------------------------------------------------------------------
(***************************************************************************)
(* Shown from the top: every picture above the position is accounted for.  *)
(***************************************************************************)
Seen == ToSet(shown) \cup Asked \cup skipped

Covered ==
  currentImgId # Null => (currentImgId + 1)..begun \subseteq Seen

\* What a step of task t leaves of the pictures that are asked for.
LEMMA AskedMoves ==
  ASSUME TasksOK, NEW t \in Tasks, NEW v, tasks' = [tasks EXCEPT ![t] = v]
  PROVE  /\ v.at = "batch" /\ ~At(t, "batch") => Asked' = Asked \cup Window(v)
         /\ v.at # "batch" => Asked' \subseteq Asked
         /\ v.at # "batch" /\ At(t, "batch") => Asked \subseteq Asked' \cup Window(tasks[t])
         /\ v.at # "batch" /\ ~At(t, "batch") => Asked' = Asked
<1>1. \A x : x \in Asked <=> \E u \in Tasks : tasks[u].at = "batch" /\ x \in Window(tasks[u])
  BY DEF Asked, At
<1>2. \A x : x \in Asked' <=> \E u \in Tasks : tasks'[u].at = "batch" /\ x \in Window(tasks'[u])
  BY DEF Asked, At, Window
<1>3. tasks'[t] = v /\ \A u \in Tasks : u # t => tasks'[u] = tasks[u]
  BY TaskMoves
<1>4. \A x : x \in Asked' <=> \/ v.at = "batch" /\ x \in Window(v)
                              \/ \E u \in Tasks : u # t /\ tasks[u].at = "batch" /\ x \in Window(tasks[u])
  BY <1>2, <1>3
<1>5. \A x : x \in Asked <=> \/ tasks[t].at = "batch" /\ x \in Window(tasks[t])
                             \/ \E u \in Tasks : u # t /\ tasks[u].at = "batch" /\ x \in Window(tasks[u])
  BY <1>1
<1> QED
  BY <1>4, <1>5 DEF At

\* A load that asks for a batch asks for the pictures it moves the position by.
LEMMA AsksWindow ==
  ASSUME TasksOK, NEW t \in Tasks, ~At(t, "batch"), NEW c \in Positions, NEW batches, Asks(t, c, batches)
  PROVE  \E limit \in Nat : /\ 1 <= limit /\ limit <= c /\ c \in Nat
                            /\ currentImgId' = c - limit
                            /\ Asked' = Asked \cup ((c - limit + 1)..c)
<1>1. PICK limit \in 1..DEFAULT_LIMIT :
        /\ limit <= c /\ currentImgId' = c - limit
        /\ tasks' = [tasks EXCEPT ![t] = Waits("batch", c, limit, batches)]
  BY DEF Asks
<1>2. limit \in Nat /\ 1 <= limit /\ c \in Nat
  BY <1>1, LimitsAssumption, BoundsAssumption DEF Positions, Null
<1>3. Window(Waits("batch", c, limit, batches)) = (c - limit + 1)..c
  BY Places DEF Window
<1>4. Asked' = Asked \cup ((c - limit + 1)..c)
  <2>1. Waits("batch", c, limit, batches).at = "batch"
    BY Places
  <2>2. Asked' = Asked \cup Window(Waits("batch", c, limit, batches))
    BY <1>1, <2>1, AskedMoves
  <2> QED
    BY <1>3, <2>2
<1> QED
  BY <1>1, <1>2, <1>4

\* A task that is not waiting for a batch and ends changes nothing asked for.
LEMMA EndsAsked ==
  ASSUME TasksOK, NEW t \in Tasks, ~At(t, "batch"), Return(t)
  PROVE  Asked' = Asked
BY Places, AskedMoves DEF Return

\* A load or a pause at the current position keeps the pictures accounted for.
LEMMA CoveredAtPosition ==
  ASSUME TypeInv, Covered, NEW t \in Tasks, ~At(t, "batch"), UNCHANGED <<shown, skipped, begun>>,
         \/ \E batches \in Nat : Asks(t, currentImgId, batches)
         \/ Return(t) /\ currentImgId' = currentImgId
  PROVE  Covered'
<1>0. TasksOK /\ RestOK /\ currentImgId \in Positions /\ begun \in Nat
  BY TypeParts, BoundsAssumption DEF RestOK
<1>1. CASE \E batches \in Nat : Asks(t, currentImgId, batches)
  <2>1. PICK limit \in Nat : /\ 1 <= limit /\ limit <= currentImgId /\ currentImgId \in Nat
                             /\ currentImgId' = currentImgId - limit
                             /\ Asked' = Asked \cup ((currentImgId - limit + 1)..currentImgId)
    BY <1>0, <1>1, AsksWindow
  <2>2. (currentImgId + 1)..begun \subseteq Seen
    BY <2>1 DEF Covered, Null
  <2>3. Seen' = Seen \cup ((currentImgId - limit + 1)..currentImgId)
    BY <2>1 DEF Seen
  <2>4. \A x \in (currentImgId - limit + 1)..begun :
          x \in (currentImgId - limit + 1)..currentImgId \/ x \in (currentImgId + 1)..begun
    BY <1>0, <2>1
  <2>5. (currentImgId' + 1)..begun' \subseteq Seen'
    BY <2>1, <2>2, <2>3, <2>4
  <2> QED
    BY <2>5 DEF Covered
<1>2. CASE Return(t) /\ currentImgId' = currentImgId
  <2>1. Asked' = Asked
    BY <1>0, <1>2, EndsAsked
  <2> QED
    BY <1>2, <2>1 DEF Covered, Seen
<1> QED
  BY <1>1, <1>2

\* Every step keeps the pictures above the position accounted for.
LEMMA CoveredNext ==
  ASSUME TypeInv, Covered, [Next]_vars
  PROVE  Covered'
<1>0. TasksOK /\ RestOK
  BY TypeParts
<1>1. ASSUME NEW t \in Tasks, BatchArrives(t)
      PROVE  Covered'
  <2>1. tasks[t] \in TaskSet /\ TaskOK(tasks[t]) /\ tasks[t].at = "batch"
    BY <1>0, <1>1, WaitingAt DEF BatchArrives, At
  <2>2. ToSet(shown') = ToSet(shown) \cup Window(tasks[t])
    <3>1. Batch(tasks[t]) \in Seq(1..MaxPictures) /\ ToSet(Batch(tasks[t])) = Window(tasks[t])
      BY <2>1, BatchFacts
    <3>2. shown \in Seq(1..MaxPictures) /\ shown' = shown \o Batch(tasks[t])
      BY <1>0, <1>1 DEF RestOK, BatchArrives
    <3> QED
      BY <3>1, <3>2, ToSetConcat
  <2>3. Asked \subseteq Asked' \cup Window(tasks[t])
    <3> DEFINE pause == Waits("pause", 0, 0, tasks[t].batches + 1)
    <3>1. pause.at # "batch"
      BY Places
    <3>2. At(t, "batch") /\ tasks' = [tasks EXCEPT ![t] = pause]
      BY <1>1 DEF BatchArrives
    <3>3. pause.at # "batch" /\ At(t, "batch") => Asked \subseteq Asked' \cup Window(tasks[t])
      <4> HIDE DEF pause
      <4> QED
        BY <1>0, <3>2, AskedMoves, Zenon
    <3> QED
      BY <3>1, <3>3, <3>2
  <2>4. Seen \subseteq Seen'
    BY <1>1, <2>2, <2>3 DEF Seen, BatchArrives, history
  <2> QED
    BY <1>1, <2>4 DEF Covered, BatchArrives, history
<1>2. ASSUME NEW t \in Tasks, BatchFails(t)
      PROVE  Covered'
  <2>1. Asked \subseteq Asked' \cup Window(tasks[t])
    <3>1. Idle.at # "batch"
      BY Places
    <3>2. At(t, "batch") /\ tasks' = [tasks EXCEPT ![t] = Idle]
      BY <1>2 DEF BatchFails, Return
    <3>3. Idle.at # "batch" /\ At(t, "batch") => Asked \subseteq Asked' \cup Window(tasks[t])
      BY <1>0, <3>2, AskedMoves, Zenon
    <3> QED
      BY <3>1, <3>2, <3>3
  <2>2. Seen \subseteq Seen'
    BY <1>2, <2>1 DEF Seen, BatchFails
  <2> QED
    BY <1>2, <2>2 DEF Covered, BatchFails
<1>3. ASSUME NEW t \in Tasks, PauseStep(t)
      PROVE  Covered'
  <2>1. ~At(t, "batch") /\ UNCHANGED <<shown, skipped, begun>>
    BY <1>3 DEF PauseStep, At, history
  <2> QED
    BY <1>3, <2>1, CoveredAtPosition DEF PauseStep, Stops
<1>4. ASSUME NEW t \in Tasks, StartFails(t)
      PROVE  Covered'
  <2>1. ~At(t, "batch") /\ Return(t) /\ UNCHANGED <<shown, skipped, begun, currentImgId>>
    BY <1>4 DEF StartFails, At, history, page
  <2> QED
    BY <2>1, CoveredAtPosition
<1>5. ASSUME NEW t \in Tasks, NEW c \in Positions, LoadStep(t, c)
      PROVE  Covered'
  <2>1. ~At(t, "batch") /\ UNCHANGED <<shown, skipped>>
    BY <1>5 DEF LoadStep, At
  <2>2. Asks(t, c, 0) \/ (Return(t) /\ currentImgId' = c)
    BY <1>5 DEF LoadStep, Stops
  <2>3. CASE c = currentImgId /\ begun' = begun
    BY <2>1, <2>2, <2>3, CoveredAtPosition
  <2>4. CASE c \in 0..MaxPictures /\ begun' = c
    <3>1. CASE Asks(t, c, 0)
      <4>1. PICK limit \in Nat : currentImgId' = c - limit /\ Asked' = Asked \cup ((c - limit + 1)..c)
        BY <1>0, <2>1, <3>1, AsksWindow
      <4> QED
        BY <2>4, <4>1 DEF Covered, Seen
    <3>2. CASE Return(t) /\ currentImgId' = c
      BY <2>4, <3>2 DEF Covered
    <3> QED
      BY <2>2, <3>1, <3>2
  <2> QED
    BY <1>5, <2>3, <2>4 DEF LoadStep
<1>6. ASSUME UploadAnswered
      PROVE  Covered'
  BY <1>6 DEF UploadAnswered, InitGallery, Covered
<1>7. ASSUME UNCHANGED <<page, tasks, shown, history>>
      PROVE  Covered'
  BY <1>7 DEF Covered, Seen, Asked, At, Window, page, history
<1> QED
  BY <1>1, <1>2, <1>3, <1>4, <1>5, <1>6, <1>7, PageSteps

\* A new gallery has no position.
LEMMA CoveredInit == Init => Covered
BY DEF Init, Covered

-----------------------------------------------------------------------------
(***************************************************************************)
(* In order.  In a gallery that was started while nothing waited, every    *)
(* picture that was asked for lies above the position, and the one window  *)
(* that is asked for lies below every card.                                *)
(***************************************************************************)
Decreasing(s) == \A i, j \in 1..Len(s) : i < j => s[i] > s[j]

OneStart ==
  /\ \A t, u \in Tasks : At(t, "start") /\ At(u, "start") => t = u
  /\ (\E t \in Tasks : At(t, "start")) => currentImgId = Null

AboveThePosition ==
  /\ currentImgId = Null => Seen = {}
  /\ \A x \in Seen : currentImgId < x

Sorted ==
  /\ Decreasing(shown)
  /\ \A x \in ToSet(shown), y \in Asked : y < x
  /\ skipped \cap (ToSet(shown) \cup Asked) = {}

OrderInv == mixed = {} => OneStart /\ AboveThePosition /\ Sorted

\* Two decreasing lists, the second below the first, are one decreasing list.
LEMMA DecreasingConcat ==
  ASSUME NEW s \in Seq(Int), NEW r \in Seq(Int), Decreasing(s), Decreasing(r),
         \A x \in ToSet(s), y \in ToSet(r) : y < x
  PROVE  Decreasing(s \o r)
<1>1. SUFFICES ASSUME NEW i \in 1..Len(s \o r), NEW j \in 1..Len(s \o r), i < j
               PROVE  (s \o r)[i] > (s \o r)[j]
  BY DEF Decreasing
<1>2. /\ Len(s) \in Nat /\ Len(r) \in Nat /\ Len(s \o r) = Len(s) + Len(r)
      /\ \A k \in 1..Len(s) : (s \o r)[k] = s[k] /\ s[k] \in ToSet(s) /\ s[k] \in Int
      /\ \A k \in 1..Len(r) : r[k] \in ToSet(r) /\ r[k] \in Int
      /\ \A k \in (Len(s) + 1)..(Len(s) + Len(r)) : (s \o r)[k] = r[k - Len(s)]
  BY DEF ToSet
<1>3. CASE j <= Len(s)
  BY <1>1, <1>2, <1>3 DEF Decreasing
<1>4. CASE i <= Len(s) /\ j > Len(s)
  <2>1. j - Len(s) \in 1..Len(r) /\ (s \o r)[j] = r[j - Len(s)]
    BY <1>1, <1>2, <1>4
  <2>2. i \in 1..Len(s) /\ (s \o r)[i] = s[i]
    BY <1>1, <1>2, <1>4
  <2>3. r[j - Len(s)] < s[i]
    BY <1>2, <2>1, <2>2
  <2> QED
    BY <1>2, <2>1, <2>2, <2>3
<1>5. CASE i > Len(s)
  <2>1. /\ j - Len(s) \in 1..Len(r) /\ (s \o r)[j] = r[j - Len(s)]
        /\ i - Len(s) \in 1..Len(r) /\ (s \o r)[i] = r[i - Len(s)]
        /\ i - Len(s) < j - Len(s)
    BY <1>1, <1>2, <1>5
  <2> QED
    BY <2>1 DEF Decreasing
<1>6. j <= Len(s) \/ (i <= Len(s) /\ j > Len(s)) \/ i > Len(s)
  <2>1. i \in Int /\ j \in Int /\ Len(s) \in Int
    BY <1>1, <1>2
  <2> QED
    BY <2>1
<1> QED
  BY <1>3, <1>4, <1>5, <1>6

\* A batch is decreasing.
LEMMA BatchDecreasing ==
  ASSUME NEW task \in TaskSet, TaskOK(task), task.at = "batch"
  PROVE  Decreasing(Batch(task))
<1>1. task.from \in Nat /\ task.limit \in Nat
  BY LimitsAssumption, BoundsAssumption DEF TaskSet
<1>2. Len(Batch(task)) = task.limit /\ \A k \in 1..task.limit : Batch(task)[k] = task.from + 1 - k
  BY BatchFacts
<1> QED
  BY <1>1, <1>2 DEF Decreasing

\* What is asked for are pictures.
LEMMA AskedAreNumbers ==
  ASSUME TasksOK
  PROVE  Asked \subseteq Int
<1>1. \A t \in Tasks : tasks[t].from \in Int /\ tasks[t].limit \in Int
  BY LimitsAssumption, BoundsAssumption DEF TasksOK, TaskSet
<1> QED
  BY <1>1 DEF Asked, Window

\* While only task t loads, what is asked for is what t waits for.
LEMMA AskedOfOne ==
  ASSUME TasksOK, NEW t \in Tasks, Loaders \subseteq {t}
  PROVE  /\ At(t, "batch") => Asked = Window(tasks[t])
         /\ ~At(t, "batch") => Asked = {}
<1>1. \A u \in Tasks : tasks[u].at = "batch" => u = t
  BY DEF Loaders, Loads
<1> QED
  BY <1>1 DEF Asked, At

\* And nothing is once t waits for something else.
LEMMA AskedNoMore ==
  ASSUME TasksOK, NEW t \in Tasks, Loaders \subseteq {t},
         NEW v, tasks' = [tasks EXCEPT ![t] = v], v.at # "batch"
  PROVE  Asked' = {}
<1>1. \A u \in Tasks : tasks[u].at = "batch" => u = t
  BY DEF Loaders, Loads
<1>2. \A u \in Tasks : tasks'[u].at # "batch"
  BY <1>1, TaskMoves
<1> QED
  BY <1>2 DEF Asked, At

\* A load that asks for a batch while nothing is asked for asks below every
\* card, and one that ends changes nothing.
LEMMA OrderAt ==
  ASSUME TypeInv, NEW t \in Tasks, NEW c \in Positions, Loaders \subseteq {t}, ~At(t, "batch"),
         UNCHANGED <<shown, skipped>>,
         Sorted, c = Null => Seen = {}, \A x \in Seen : c < x,
         \/ \E batches : Asks(t, c, batches)
         \/ Return(t) /\ currentImgId' = c
  PROVE  AboveThePosition' /\ Sorted'
<1>0. TasksOK /\ RestOK
  BY TypeParts
<1>1. Asked = {}
  BY <1>0, AskedOfOne
<1>2. CASE \E batches : Asks(t, c, batches)
  <2>1. PICK limit \in Nat : /\ 1 <= limit /\ limit <= c /\ c \in Nat
                             /\ currentImgId' = c - limit
                             /\ Asked' = (c - limit + 1)..c
    BY <1>0, <1>1, <1>2, AsksWindow
  <2>2. \A x \in ToSet(shown) \cup skipped : x \in Int
    <3>1. shown \in Seq(Int) /\ skipped \subseteq Int
      BY <1>0, BoundsAssumption DEF RestOK
    <3>2. \A i \in DOMAIN shown : shown[i] \in Int
      BY <3>1
    <3> QED
      BY <3>1, <3>2 DEF ToSet
  <2>3. \A x \in ToSet(shown) \cup skipped, y \in Asked' : y < x
    <3>1. SUFFICES ASSUME NEW x \in ToSet(shown) \cup skipped, NEW y \in (c - limit + 1)..c
                   PROVE  y < x
      BY <2>1
    <3>2. c < x /\ x \in Int
      BY <2>2 DEF Seen
    <3> QED
      BY <2>1, <3>2
  <2>4. Sorted'
    <3>1. \A x \in skipped : x \notin Asked'
      BY <2>1, <2>2, <2>3
    <3> QED
      BY <2>3, <3>1 DEF Sorted, Decreasing
  <2>5. AboveThePosition'
    <3>1. c - limit # Null
      BY <2>1 DEF Null
    <3>2. \A x \in ToSet(shown) \cup skipped : c - limit < x
      BY <2>1, <2>2 DEF Seen
    <3>3. \A x \in (c - limit + 1)..c : c - limit < x
      BY <2>1
    <3> QED
      BY <2>1, <3>1, <3>2, <3>3 DEF AboveThePosition, Seen
  <2> QED
    BY <2>4, <2>5
<1>3. CASE Return(t) /\ currentImgId' = c
  <2>1. Asked' = Asked
    BY <1>0, <1>3, EndsAsked
  <2> QED
    BY <1>3, <2>1 DEF AboveThePosition, Seen, Sorted, Decreasing
<1> QED
  BY <1>2, <1>3

\* A step that leaves the cards, the position and the starts, or has no start
\* left, keeps the starts in order.
LEMMA StartKept ==
  ASSUME OneStart, \A u \in Tasks : At(u, "start")' => At(u, "start"),
         currentImgId' = currentImgId \/ \A u \in Tasks : ~At(u, "start")'
  PROVE  OneStart'
BY DEF OneStart

\* After a step of the task at the start no task is there; and before a step of
\* another one that moves the position none was.
LEMMA StartLeaves ==
  ASSUME TasksOK, OneStart, NEW t \in Tasks, NEW c,
         (\E batches : Asks(t, c, batches)) \/ (Return(t) /\ currentImgId' = c),
         At(t, "start") \/ (c = currentImgId /\ (currentImgId' = c \/ c # Null))
  PROVE  OneStart'
<1>1. \A u \in Tasks : At(u, "start")' => At(u, "start") /\ u # t
  BY StartsFacts
<1>2. CASE At(t, "start")
  BY <1>1, <1>2, StartKept DEF OneStart
<1>3. CASE c = currentImgId /\ c # Null
  BY <1>1, <1>3, StartKept DEF OneStart
<1>4. CASE c = currentImgId /\ currentImgId' = c
  BY <1>1, <1>4, StartKept
<1> QED
  BY <1>2, <1>3, <1>4

\* Every step keeps the gallery in order.
LEMMA OrderNext ==
  ASSUME TypeInv, LoaderInv, OrderInv, [Next]_vars
  PROVE  OrderInv'
<1>0. TasksOK /\ RestOK /\ currentImgId \in Positions
  BY TypeParts DEF RestOK
<1> SUFFICES ASSUME mixed' = {}
             PROVE  OneStart' /\ AboveThePosition' /\ Sorted'
  BY DEF OrderInv
<1>1. ASSUME mixed = {}
      PROVE  OneStart /\ AboveThePosition /\ Sorted
  BY <1>1 DEF OrderInv
<1>2. ASSUME mixed = {}, NEW t \in Tasks, t \in Loaders
      PROVE  Loaders = {t}
  BY <1>2 DEF LoaderInv
<1>3. ASSUME NEW t \in Tasks, BatchArrives(t)
      PROVE  OneStart' /\ AboveThePosition' /\ Sorted'
  <2>1. /\ tasks[t] \in TaskSet /\ TaskOK(tasks[t]) /\ tasks[t].at = "batch"
        /\ mixed = {} /\ t \in Loaders
    BY <1>0, <1>3, WaitingAt DEF BatchArrives, At, history, Loaders, Loads
  <2>2. OneStart /\ AboveThePosition /\ Sorted /\ Loaders = {t}
    BY <1>1, <1>2, <2>1
  <2>3. Asked = Window(tasks[t])
    BY <1>0, <2>1, <2>2, AskedOfOne DEF At
  <2>4. Asked' = {} /\ \A u \in Tasks : At(u, "start")' => At(u, "start")
    <3> DEFINE pause == Waits("pause", 0, 0, tasks[t].batches + 1)
    <3>1. pause.at = "pause" /\ tasks' = [tasks EXCEPT ![t] = pause]
      BY <1>3, Places DEF BatchArrives
    <3> HIDE DEF pause
    <3>2. pause.at # "batch" /\ pause.at # "start"
      BY <3>1
    <3> QED
      BY <1>0, <2>2, <3>1, <3>2, AskedNoMore, StartsMove
  <2>5. /\ Batch(tasks[t]) \in Seq(1..MaxPictures) /\ ToSet(Batch(tasks[t])) = Asked
        /\ Decreasing(Batch(tasks[t]))
    BY <2>1, <2>3, BatchFacts, BatchDecreasing
  <2>6. /\ shown \in Seq(1..MaxPictures) /\ shown' = shown \o Batch(tasks[t])
        /\ UNCHANGED <<currentImgId, skipped>>
    BY <1>0, <1>3 DEF RestOK, BatchArrives, history
  <2>7. ToSet(shown') = ToSet(shown) \cup Asked
    BY <2>5, <2>6, ToSetConcat
  <2>8. Decreasing(shown')
    <3>1. shown \in Seq(Int) /\ Batch(tasks[t]) \in Seq(Int)
      BY <2>5, <2>6, BoundsAssumption
    <3> QED
      BY <2>2, <2>5, <2>6, <3>1, DecreasingConcat DEF Sorted
  <2>9. Sorted'
    BY <2>2, <2>4, <2>6, <2>7, <2>8 DEF Sorted, Decreasing
  <2>10. AboveThePosition'
    BY <2>2, <2>4, <2>6, <2>7 DEF AboveThePosition, Seen
  <2> QED
    BY <2>2, <2>4, <2>6, <2>9, <2>10, StartKept
<1>4. ASSUME NEW t \in Tasks, BatchFails(t)
      PROVE  OneStart' /\ AboveThePosition' /\ Sorted'
  <2>1. At(t, "batch") /\ mixed = {} /\ t \in Loaders
    BY <1>4 DEF BatchFails, At, Loaders, Loads
  <2>2. OneStart /\ AboveThePosition /\ Sorted /\ Loaders = {t}
    BY <1>1, <1>2, <2>1
  <2>3. Asked = Window(tasks[t])
    BY <1>0, <2>1, <2>2, AskedOfOne
  <2>4. Asked' = {} /\ \A u \in Tasks : At(u, "start")' => At(u, "start")
    <3>1. Idle.at # "batch" /\ Idle.at # "start"
      BY Places
    <3>2. tasks' = [tasks EXCEPT ![t] = Idle]
      BY <1>4 DEF BatchFails, Return
    <3> QED
      BY <1>0, <2>2, <3>1, <3>2, AskedNoMore, StartsMove
  <2>5. UNCHANGED <<currentImgId, shown>> /\ skipped' = skipped \cup Asked
    BY <1>4, <2>3 DEF BatchFails
  <2>6. ToSet(shown) \cap Asked = {}
    <3>1. Asked \subseteq Int
      BY <1>0, AskedAreNumbers
    <3>2. \A x \in ToSet(shown), y \in Asked : y < x /\ y \in Int
      BY <2>2, <3>1 DEF Sorted
    <3> QED
      BY <3>2
  <2>7. Sorted'
    BY <2>2, <2>4, <2>5, <2>6 DEF Sorted, Decreasing
  <2>8. AboveThePosition'
    BY <2>2, <2>4, <2>5 DEF AboveThePosition, Seen
  <2> QED
    BY <2>2, <2>4, <2>5, <2>7, <2>8, StartKept
<1>5. ASSUME NEW t \in Tasks, PauseStep(t)
      PROVE  OneStart' /\ AboveThePosition' /\ Sorted'
  <2>1. At(t, "pause") /\ mixed = {} /\ t \in Loaders /\ UNCHANGED <<shown, skipped>> /\ ~At(t, "batch")
    BY <1>5 DEF PauseStep, At, history, Loaders, Loads
  <2>2. OneStart /\ AboveThePosition /\ Sorted /\ Loaders = {t}
    BY <1>1, <1>2, <2>1
  <2>3. (\E batches : Asks(t, currentImgId, batches)) \/ (Return(t) /\ currentImgId' = currentImgId)
    BY <1>5 DEF PauseStep, Stops
  <2>4. AboveThePosition' /\ Sorted'
    BY <1>0, <2>1, <2>2, <2>3, OrderAt DEF AboveThePosition
  <2>5. currentImgId' = currentImgId \/ currentImgId # Null
    BY <1>0, <2>3, AsksFacts
  <2>6. OneStart'
    BY <1>0, <2>2, <2>3, <2>5, StartLeaves
  <2> QED
    BY <2>4, <2>6
<1>6. ASSUME NEW t \in Tasks, StartFails(t)
      PROVE  OneStart' /\ AboveThePosition' /\ Sorted'
  <2>1. /\ At(t, "start") /\ ~At(t, "batch") /\ Return(t) /\ mixed = {}
        /\ UNCHANGED <<shown, skipped, currentImgId>>
    BY <1>6 DEF StartFails, At, history, page
  <2>2. OneStart /\ AboveThePosition /\ Sorted
    BY <1>1, <2>1
  <2>3. Asked' = Asked
    BY <1>0, <2>1, EndsAsked
  <2>4. OneStart'
    BY <1>0, <2>1, <2>2, StartLeaves
  <2> QED
    BY <2>1, <2>2, <2>3, <2>4 DEF AboveThePosition, Seen, Sorted, Decreasing
<1>7. ASSUME NEW t \in Tasks, NEW c \in Positions, LoadStep(t, c)
      PROVE  OneStart' /\ AboveThePosition' /\ Sorted'
  <2>1. /\ ~At(t, "batch") /\ mixed = {} /\ UNCHANGED <<shown, skipped>>
        /\ At(t, "start") \/ c = currentImgId
    BY <1>7 DEF LoadStep, At
  <2>2. OneStart /\ AboveThePosition /\ Sorted
    BY <1>1, <2>1
  <2>3. (c = Null => Seen = {}) /\ \A x \in Seen : c < x
    <3>1. CASE At(t, "start")
      BY <2>2, <3>1 DEF OneStart, AboveThePosition
    <3>2. CASE c = currentImgId
      BY <2>2, <3>2 DEF AboveThePosition
    <3> QED
      BY <2>1, <3>1, <3>2
  <2>4. CASE ~isLoading /\ Asks(t, c, 0)
    <3>1. Loaders = {}
      BY <2>1, <2>4 DEF LoaderInv
    <3>2. AboveThePosition' /\ Sorted'
      BY <2>1, <2>2, <2>3, <2>4, <3>1, OrderAt
    <3>3. c # Null
      BY <2>4, AsksFacts
    <3>4. OneStart'
      BY <1>0, <2>1, <2>2, <2>4, <3>3, StartLeaves
    <3> QED
      BY <3>2, <3>4
  <2>5. CASE Return(t) /\ currentImgId' = c
    <3>1. Asked' = Asked
      BY <1>0, <2>1, <2>5, EndsAsked
    <3>2. AboveThePosition' /\ Sorted'
      BY <2>1, <2>2, <2>3, <2>5, <3>1 DEF AboveThePosition, Seen, Sorted, Decreasing
    <3>3. OneStart'
      BY <1>0, <2>1, <2>2, <2>5, StartLeaves
    <3> QED
      BY <3>2, <3>3
  <2> QED
    BY <1>7, <2>4, <2>5 DEF LoadStep, Stops
<1>8. ASSUME UploadAnswered
      PROVE  OneStart' /\ AboveThePosition' /\ Sorted'
  <2>1. /\ currentImgId' = Null /\ shown' = <<>> /\ skipped' = {}
        /\ tasks' = [tasks EXCEPT ![NewTask] = Waits("start", length, 0, 0)]
        /\ {tasks[t].at : t \in Waiting} = {}
    BY <1>8 DEF UploadAnswered, InitGallery
  <2>2. NewTask \in Tasks
    BY <1>8, NewTaskIsIdle DEF UploadAnswered
  <2>3. \A u \in Tasks : tasks[u].at = "idle"
    BY <2>1, Places DEF Waiting
  <2>4. \A u \in Tasks : u # NewTask => tasks'[u].at = "idle"
    BY <1>0, <2>1, <2>2, <2>3, TaskMoves
  <2>5. tasks'[NewTask].at = "start"
    <3>1. tasks'[NewTask] = Waits("start", length, 0, 0)
      BY <1>0, <2>1, <2>2, TaskMoves
    <3>2. Waits("start", length, 0, 0).at = "start"
      BY Places
    <3> QED
      BY <3>1, <3>2
  <2>6. Asked' = {}
    BY <2>4, <2>5 DEF Asked, At
  <2>7. OneStart'
    BY <2>1, <2>4 DEF OneStart, At
  <2>8. ToSet(shown') = {} /\ Len(shown') = 0
    BY <2>1 DEF ToSet
  <2> QED
    BY <2>1, <2>6, <2>7, <2>8 DEF AboveThePosition, Seen, Sorted, Decreasing
<1>9. ASSUME UNCHANGED <<page, tasks, shown, history>>
      PROVE  OneStart' /\ AboveThePosition' /\ Sorted'
  <2>1. OneStart /\ AboveThePosition /\ Sorted
    BY <1>1, <1>9 DEF history
  <2>2. Asked' = Asked
    BY <1>9 DEF Asked, At, Window
  <2> QED
    BY <1>9, <2>1, <2>2 DEF OneStart, AboveThePosition, Seen, Sorted, Decreasing, At, page, history
<1> QED
  BY <1>3, <1>4, <1>5, <1>6, <1>7, <1>8, <1>9, PageSteps

\* The page starts in order.
LEMMA OrderInit == Init => OrderInv
<1> SUFFICES ASSUME Init PROVE OrderInv
  OBVIOUS
<1>1. \A t \in Tasks : t # 1 => tasks[t].at = "idle"
  BY Places DEF Init
<1>2. tasks[1].at = "start"
  BY Places, BoundsAssumption DEF Init, Tasks
<1>3. Asked = {}
  BY <1>1, <1>2 DEF Asked, At
<1>4. OneStart
  BY <1>1 DEF Init, OneStart, At
<1>5. ToSet(shown) = {} /\ Len(shown) = 0
  BY DEF Init, ToSet
<1> QED
  BY <1>3, <1>4, <1>5 DEF Init, OrderInv, AboveThePosition, Seen, Sorted, Decreasing

\* The gallery shows the pictures from the newest down, though others upload
\* meanwhile and batches fail: a picture above the position is shown, asked for
\* or was in a batch that failed; and unless the gallery was started again while
\* a task waited, each card is there once, the newer above the older.
THEOREM ShownFromTheTopAlways == Spec => []ShownFromTheTop
<1>1. TypeInv /\ Covered /\ OrderInv => ShownFromTheTop
  <2> SUFFICES ASSUME TypeInv, Covered, OrderInv PROVE ShownFromTheTop
    OBVIOUS
  <2>1. mixed = {} => InOrder
    <3> SUFFICES ASSUME mixed = {} PROVE InOrder
      OBVIOUS
    <3>1. Asked \subseteq Int /\ Sorted
      BY TypeParts, AskedAreNumbers DEF OrderInv
    <3>2. \A x \in ToSet(shown), y \in Asked : y < x /\ y \in Int
      BY <3>1 DEF Sorted
    <3>3. ToSet(shown) \cap Asked = {}
      BY <3>2
    <3> QED
      BY <3>1, <3>3 DEF Sorted, Decreasing, InOrder
  <2> QED
    BY <2>1 DEF Covered, Seen, ShownFromTheTop
<1> QED
  BY <1>1, TypeInvariance, LoaderInit, LoaderNext, CoveredInit, CoveredNext, OrderInit, OrderNext, PTL DEF Spec
=============================================================================
