------------------------------- MODULE Gallery -------------------------------
(***************************************************************************)
(* The gallery page of frontend/scripts/index.js: it asks the server how   *)
(* many pictures there are and pages down from there, a few batches at a   *)
(* time, when the user scrolls.                                            *)
(*                                                                         *)
(* The page is one thread that is cut at every await.  An activation of    *)
(* initGallery or loadMultipleBatches that waits is a task; while it       *)
(* waits, other tasks run over the same global variables.  An action is    *)
(* what one task does between two awaits.                                  *)
(*                                                                         *)
(* The server is what ImageStore promises to clients that upload one       *)
(* picture at a time: pictures 1..length, of which length only grows, and  *)
(* a batch that lists exactly the window that was asked for.               *)
(***************************************************************************)
EXTENDS Integers, Sequences, FiniteSets, SequencesExt

CONSTANTS
  DEFAULT_LIMIT,      \* pictures of a batch
  BATCHES_PER_PAGE,   \* batches of one load
  MaxPictures,        \* bound: pictures in the store
  MaxTasks            \* bound: activations that wait at one time

ASSUME LimitsAssumption == DEFAULT_LIMIT \in Nat \ {0} /\ BATCHES_PER_PAGE \in Nat \ {0}
ASSUME BoundsAssumption == MaxPictures \in Nat /\ MaxTasks \in Nat \ {0}

Null == -1            \* currentImgId is null or negative: the code treats them alike

VARIABLES
  currentImgId,       \* the next picture to ask for
  isLoading, hasMore,
  ticking,            \* the timer of a scroll event is running
  tasks,              \* what each activation waits for
  shown,              \* the cards of the gallery, from the top
  length,             \* pictures in the store
  unanswered,         \* uploads of this page that are stored and not answered
  begun,              \* history: the length this gallery was started with
  skipped,            \* history: pictures of batches that failed in this gallery
  mixed,              \* history: what tasks waited for when this gallery was started
  early               \* history: a load found no currentImgId in this gallery

page == <<currentImgId, isLoading, hasMore>>
history == <<begun, skipped, mixed, early>>
store == <<length, unanswered>>
vars == <<page, ticking, tasks, shown, store, history>>

\* What a task waits for, with its local variables.
Waits(at, from, limit, batches) ==
  [at |-> at, from |-> from, limit |-> limit, batches |-> batches]

Idle == Waits("idle", 0, 0, 0)
Tasks == 1..MaxTasks
Waiting == {t \in Tasks : tasks[t] # Idle}
At(t, place) == tasks[t].at = place
NewTask == CHOOSE t \in Tasks \ Waiting : \A u \in Tasks \ Waiting : t <= u
Smaller(a, b) == IF a < b THEN a ELSE b

\* A batch lists from, from - 1, and so on, limit pictures.
Window(task) == (task.from - task.limit + 1)..task.from
Batch(task) == [k \in 1..task.limit |-> task.from + 1 - k]

(***************************************************************************)
(* loadMultipleBatches.  c is currentImgId as the task sees it.            *)
(***************************************************************************)
Return(t) == tasks' = [tasks EXCEPT ![t] = Idle]

\* Faulty: always asks for a full batch.
FetchFullBatch(t, c, batches) ==
  /\ currentImgId' = c - DEFAULT_LIMIT
  /\ tasks' = [tasks EXCEPT ![t] = Waits("batch", c, DEFAULT_LIMIT, batches)]
  /\ UNCHANGED hasMore

\* Faulty: moves the position one too far.
FetchSkipsOne(t, c, batches) ==
  LET dynamicLimit == Smaller(c, DEFAULT_LIMIT) IN
  /\ currentImgId' = c - dynamicLimit - 1
  /\ \/ /\ dynamicLimit < 1
        /\ hasMore' = FALSE /\ isLoading' = FALSE /\ Return(t)
     \/ /\ dynamicLimit >= 1
        /\ tasks' = [tasks EXCEPT ![t] = Waits("batch", c, dynamicLimit, batches)]
        /\ UNCHANGED hasMore

\* fetchSingleBatch up to its await: the position moves before the answer is
\* there.  Nothing left to ask for ends the gallery.
FetchSingleBatch(t, c, batches) ==
  LET dynamicLimit == Smaller(c, DEFAULT_LIMIT) IN
  /\ currentImgId' = c - dynamicLimit
  /\ \/ /\ dynamicLimit < 1
        /\ hasMore' = FALSE /\ isLoading' = FALSE /\ Return(t)
     \/ /\ dynamicLimit >= 1
        /\ tasks' = [tasks EXCEPT ![t] = Waits("batch", c, dynamicLimit, batches)]
        /\ UNCHANGED hasMore

\* The head of the loop, which ends by releasing isLoading.
Iterate(t, c, batches) ==
  \/ /\ batches < BATCHES_PER_PAGE /\ hasMore /\ c # Null
     /\ FetchSingleBatch(t, c, batches)
  \/ /\ batches = BATCHES_PER_PAGE \/ ~hasMore \/ c = Null
     /\ isLoading' = FALSE /\ Return(t)
     /\ currentImgId' = c /\ UNCHANGED hasMore

LoadMultipleBatches(t, c) ==
  \/ /\ isLoading \/ ~hasMore
     /\ Return(t)
     /\ currentImgId' = c /\ UNCHANGED <<isLoading, hasMore, early>>
  \/ /\ ~isLoading /\ hasMore /\ c = Null
     /\ hasMore' = FALSE /\ early' = TRUE
     /\ Return(t)
     /\ currentImgId' = c /\ UNCHANGED isLoading
  \/ /\ ~isLoading /\ hasMore /\ c # Null
     /\ Iterate(t, c, 0)
     /\ tasks'[t] # Idle => isLoading' = TRUE
     /\ UNCHANGED early

\* The answer of a batch: its pictures are appended to whatever is shown now.
\* (The branch for an answer without pictures is left out: the server gives
\* none to a batch of the gallery.)
BatchArrives(t) ==
  /\ At(t, "batch")
  /\ shown' = shown \o Batch(tasks[t])
  /\ hasMore' = (hasMore /\ currentImgId # 0)
  /\ tasks' = [tasks EXCEPT ![t] = Waits("pause", 0, 0, tasks[t].batches + 1)]
  /\ UNCHANGED <<currentImgId, isLoading, ticking, store, history>>

\* Faulty: takes a failure for the end of the pictures.
BatchFailsEnds(t) ==
  /\ At(t, "batch")
  /\ isLoading' = FALSE /\ hasMore' = FALSE
  /\ skipped' = skipped \cup Window(tasks[t])
  /\ Return(t)
  /\ UNCHANGED <<currentImgId, ticking, shown, store, begun, mixed, early>>

\* Faulty: does not release isLoading.
BatchFailsKeepsLoading(t) ==
  /\ At(t, "batch")
  /\ skipped' = skipped \cup Window(tasks[t])
  /\ Return(t)
  /\ UNCHANGED <<page, ticking, shown, store, begun, mixed, early>>

\* The request fails or is answered with an error: the load ends, and the
\* position stays behind the batch.
BatchFails(t) ==
  /\ At(t, "batch")
  /\ isLoading' = FALSE
  /\ skipped' = skipped \cup Window(tasks[t])
  /\ Return(t)
  /\ UNCHANGED <<currentImgId, hasMore, ticking, shown, store, begun, mixed, early>>

\* Faulty: releases isLoading after each batch.
PauseEndsReleased(t) ==
  /\ At(t, "pause")
  /\ Iterate(t, currentImgId, tasks[t].batches)
  /\ isLoading' = FALSE
  /\ UNCHANGED <<ticking, shown, store, history>>

\* The 50 ms between two batches are over.
PauseEnds(t) ==
  /\ At(t, "pause")
  /\ Iterate(t, currentImgId, tasks[t].batches)
  /\ tasks'[t] # Idle => UNCHANGED isLoading
  /\ UNCHANGED <<ticking, shown, store, history>>

(***************************************************************************)
(* initGallery, at the start of the page and after an upload of its own.   *)
(***************************************************************************)
InitGallery ==
  /\ currentImgId' = Null /\ isLoading' = FALSE /\ hasMore' = TRUE
  /\ shown' = <<>>
  /\ tasks' = [tasks EXCEPT ![NewTask] = Waits("start", length, 0, 0)]
  /\ begun' = 0 /\ skipped' = {} /\ early' = FALSE
  /\ mixed' = {tasks[t].at : t \in Waiting}

\* The answer to an upload of this page: uploadImage starts the gallery again.
UploadAnswered ==
  /\ unanswered > 0 /\ unanswered' = unanswered - 1
  /\ Waiting # Tasks
  /\ InitGallery
  /\ UNCHANGED <<ticking, length>>

\* The server read its length at some time since it was asked.
StartArrives(t) ==
  /\ At(t, "start")
  /\ \E maxIdx \in tasks[t].from..length :
       LoadMultipleBatches(t, maxIdx) /\ begun' = maxIdx
  /\ UNCHANGED <<ticking, shown, store, skipped, mixed>>

StartFails(t) ==
  /\ At(t, "start")
  /\ Return(t)
  /\ UNCHANGED <<page, ticking, shown, store, history>>

(***************************************************************************)
(* The user scrolls, and the server stores a picture: from this page or    *)
(* from another client.                                                    *)
(***************************************************************************)
Scroll ==
  /\ ~ticking /\ ticking' = TRUE
  /\ UNCHANGED <<page, tasks, shown, store, history>>

\* 20 ms later.  The condition written there guards an empty statement.  The
\* page's "Load More" button calls the same function: a scroll stands for it too.
ScrollTimer ==
  /\ ticking /\ ticking' = FALSE
  /\ Waiting # Tasks
  /\ LoadMultipleBatches(NewTask, currentImgId)
  /\ UNCHANGED <<shown, store, begun, skipped, mixed>>

Store ==
  /\ length < MaxPictures /\ length' = length + 1
  /\ unanswered' \in {unanswered, unanswered + 1}
  /\ UNCHANGED <<page, ticking, tasks, shown, history>>

Init ==
  /\ currentImgId = Null /\ isLoading = FALSE /\ hasMore = TRUE
  /\ ticking = FALSE
  /\ length \in 0..MaxPictures /\ unanswered = 0
  /\ tasks = [t \in Tasks |-> IF t = 1 THEN Waits("start", length, 0, 0) ELSE Idle]
  /\ shown = <<>>
  /\ begun = 0 /\ skipped = {} /\ mixed = {} /\ early = FALSE

Continue(t) == BatchArrives(t) \/ BatchFails(t) \/ PauseEnds(t) \/ StartArrives(t) \/ StartFails(t)

Next ==
  \/ \E t \in Tasks : Continue(t)
  \/ UploadAnswered \/ Store
  \/ Scroll \/ ScrollTimer

Spec == Init /\ [][Next]_vars

\* Requests are answered or fail, timers fire.
PageFairness == WF_vars(ScrollTimer) /\ \A t \in Tasks : WF_vars(Continue(t))

\* And a user who goes on scrolling.
ScrollingSpec == Spec /\ PageFairness /\ WF_vars(Scroll)

-----------------------------------------------------------------------------
(***************************************************************************)
(* Properties.                                                             *)
(***************************************************************************)

Asked == UNION {Window(tasks[t]) : t \in {u \in Tasks : At(u, "batch")}}

\* Every variable has its type.
TypeOK ==
  /\ currentImgId \in {Null} \cup 0..MaxPictures
  /\ isLoading \in BOOLEAN /\ hasMore \in BOOLEAN /\ ticking \in BOOLEAN
  /\ tasks \in [Tasks -> [at : {"idle", "start", "batch", "pause"},
                          from : 0..MaxPictures, limit : 0..DEFAULT_LIMIT,
                          batches : 0..BATCHES_PER_PAGE]]
  /\ shown \in Seq(1..MaxPictures)
  /\ length \in 0..MaxPictures /\ unanswered \in 0..length /\ begun \in 0..length
  /\ skipped \subseteq 1..MaxPictures
  /\ mixed \subseteq {"start", "batch", "pause"} /\ early \in BOOLEAN

\* At most one load is under way, and isLoading says so, whatever the user
\* does, unless the gallery was started again while a task waited.
OneLoader ==
  mixed = {} =>
    LET loads == {t \in Tasks : At(t, "batch") \/ At(t, "pause")} IN
    Cardinality(loads) = (IF isLoading THEN 1 ELSE 0)

\* Each picture once, and the newer above the older.
InOrder ==
  /\ \A i, j \in 1..Len(shown) : i < j => shown[i] > shown[j]
  /\ ToSet(shown) \cap (Asked \cup skipped) = {}

\* The gallery shows the pictures from the newest down, though others upload
\* meanwhile and batches fail.  A picture above the position is shown, is asked
\* for, or was in a batch that failed, also when two loads move the position;
\* and the cards are in order, unless the gallery was started again while a
\* task waited.
ShownFromTheTop ==
  /\ currentImgId # Null =>
       (currentImgId + 1)..begun \subseteq ToSet(shown) \cup Asked \cup skipped
  /\ mixed = {} => InOrder

Undisturbed == ~early /\ "start" \notin mixed

\* "No more images" is true: the page stops asking only when it asked for
\* every picture, unless a load came before the answer to the start, or two
\* answers to a start were under way.
EndIsTheEnd == Undisturbed /\ ~hasMore => currentImgId = 0

\* A user who goes on scrolling sees in the end every picture there was when
\* the gallery was last started, but for batches that failed, under the
\* condition of EndIsTheEnd.
EverythingIsSeen == <>[](~Undisturbed \/ 1..begun \subseteq ToSet(shown) \cup skipped)
=============================================================================
