-------------------------- MODULE SerialStoreProofs ---------------------------
(***************************************************************************)
(* Proofs about a store whose uploads do not overlap: one server_machine,  *)
(* whatever its uploads, their failures and the crashes.  An id is then    *)
(* given out again only until a thumbnail of it is recorded, so a picture  *)
(* answered 201 is never overwritten, and the store implements the Album.  *)
(***************************************************************************)
EXTENDS ImageContentProofs, WellFoundedInduction

\* Uploads do not overlap.
OneMachine == \E only : Machines = {only}

\* No write() stores less than it was given.
DiskHolds == MaxCut = 0

\* The first n ids, each at its own position.
UpTo(n) == [i \in 1..n |-> i]

\* An empty catalogue is in order.
LEMMA EmptyInOrder == <<>> = UpTo(Len(<<>>))
BY DEF UpTo

-----------------------------------------------------------------------------
(***************************************************************************)
(* The invariant.  Position and id agree, so the id of the upload in       *)
(* progress is the one after the last recorded: it is not the id of an     *)
(* acknowledged picture, although earlier uploads that failed may have had *)
(* it.  AckedIsIntact alone says nothing of the upload in progress.        *)
(***************************************************************************)
InOrder == images = UpTo(Len(images))

NextInLine == \A m \in InProgress : IdOf(m) = Len(images) + 1

BodiesIntact == \A m \in InProgress : Pic(m) \notin cut => Intact(m)

AckedUncut == \A p \in acked \ cut : HoldsBody(p)

SerialInv == InOrder /\ NextInLine /\ BodiesIntact /\ AckedUncut

\* What position and id agreeing says of a running store.
LEMMA SerialFacts ==
  ASSUME IInv, InOrder, up
  PROVE  /\ Len(images) \in Nat /\ images = UpTo(Len(images))
         /\ Recorded(images) = 1..Len(images)
         /\ GetNextIndex(images) = Len(images) + 1
         /\ \E k \in {Len(images), Len(images) + 1} : DOMAIN thumbnail = 1..k
<1> DEFINE n == Len(images)
<1>1. n \in Nat /\ images = UpTo(n)
  BY DEF IInv, TypeOK, InOrder
<1>2. \A i \in 1..n : images[i] = i
  BY <1>1 DEF UpTo
<1>3. Recorded(images) = 1..n
  BY <1>1, <1>2 DEF Recorded
<1>4. GetNextIndex(images) = n + 1
  BY <1>1, <1>2 DEF GetNextIndex, GetCurrent
<1>5. PICK k, j \in Nat : DOMAIN thumbnail = 1..k /\ Recorded(images) = 1..j /\ j <= k /\ k <= j + 1
  BY DEF IInv, GaplessIds, Gapless
<1>6. j = n
  BY <1>1, <1>3, <1>5
<1> QED
  BY <1>1, <1>3, <1>4, <1>5, <1>6

\* Every upload call is of the id after the last recorded, which no
\* acknowledged picture has.
LEMMA SerialCallId ==
  ASSUME IInv, SerialInv, NEW m \in Machines, NEW p \in Nat, NEW id \in Nat,
         UploadCall(m, p, id), FirstCall(p, id) \/ LaterCall(m, p, id)
  PROVE  /\ id = Len(images) + 1
         /\ \A q \in acked : uploads[q].my_idx # id /\ uploads[q].my_idx \in 1..Len(images)
<1>1. up
  BY DEF UploadCall
<1>2. /\ Len(images) \in Nat /\ Recorded(images) = 1..Len(images)
      /\ GetNextIndex(images) = Len(images) + 1
  BY <1>1, SerialFacts DEF SerialInv
<1>3. id = Len(images) + 1
  BY <1>2 DEF FirstCall, LaterCall, SerialInv, NextInLine, IdOf
<1>4. \A q \in acked : uploads[q].my_idx \in 1..Len(images)
  BY <1>1, <1>2 DEF IInv, AckedIsKept
<1> QED
  BY <1>2, <1>3, <1>4

\* Every upload call of a single machine keeps the invariant.
LEMMA SerialCall ==
  ASSUME OneMachine, IInv, IInv', ContextsDistinct, SerialInv,
         NEW m \in Machines, NEW p \in Nat, NEW id \in Nat, UploadCall(m, p, id), Writes(m, p, id),
         (FirstCall(p, id) /\ m \notin InProgress) \/ LaterCall(m, p, id)
  PROVE  SerialInv'
<1>1. /\ id = Len(images) + 1
      /\ \A q \in acked : uploads[q].my_idx # id
  BY SerialCallId
<1>2. /\ up /\ LogGrows /\ p \in Pictures' /\ uploads'[p].my_idx = id
      /\ TypeOK /\ TypeOK' /\ AckedIsKept
  BY DEF UploadCall, IInv
<1>3. /\ Len(images) \in Nat /\ images = UpTo(Len(images)) /\ images \in Seq(Nat)
  BY <1>2, SerialFacts DEF SerialInv, TypeOK
<1>4. \A q \in Machines : q = m
  BY DEF OneMachine
<1>5. InOrder' /\ NextInLine'
  <2>1. CASE Continues(m, p)
    <3>1. \A q \in InProgress' : Pic(q)' = p
      BY <1>2, <1>4, <2>1 DEF Continues, TypeOK, InProgress, Pic
    <3> QED
      BY <1>1, <1>2, <1>3, <2>1, <3>1 DEF Continues, InOrder, NextInLine, IdOf
  <2>2. CASE Ends(m, p, id)
    <3>1. InProgress' = {}
      BY <1>2, <1>4, <2>2 DEF Ends, Done, Failed, Died, Freed, Die, InProgress, TypeOK
    <3>2. InOrder'
      <4>1. CASE Done(m, p, id)
        BY <1>1, <1>3, <4>1 DEF Done, RecordFile, InOrder, UpTo
      <4>2. CASE Failed(m, p, id)
        BY <1>3, <4>2 DEF Failed, InOrder
      <4>3. CASE Died(p, id)
        BY <4>3, EmptyInOrder DEF Died, Die, InOrder
      <4> QED
        BY <2>2, <4>1, <4>2, <4>3 DEF Ends
    <3> QED
      BY <3>1, <3>2 DEF NextInLine
  <2> QED
    BY <2>1, <2>2 DEF UploadCall
<1>6. p \notin cut' => /\ m \in InProgress' => Intact(m)'
                       /\ acked' # acked => HoldsBody(p)'
  <2> SUFFICES ASSUME p \notin cut'
               PROVE  /\ m \in InProgress' => Intact(m)'
                      /\ acked' # acked => HoldsBody(p)'
    OBVIOUS
  <2>1. Whole(m, p)
    BY DEF Whole, Writes, LaterCall, SerialInv, BodiesIntact
  <2> QED
    BY <1>2, <2>1, WholeContent
<1>7. m \in InProgress' => Pic(m)' = p
  <2>1. CASE Leaves(m)
    BY <2>1 DEF Leaves
  <2>2. CASE \E ctx \in Context : /\ endpoint_ctx' = [endpoint_ctx EXCEPT ![m] = ctx]
                                  /\ ctx.pic = p
    BY <1>2, <2>2 DEF Pic, TypeOK
  <2> QED
    BY <2>1, <2>2 DEF Writes
<1>8. BodiesIntact'
  BY <1>4, <1>6, <1>7 DEF BodiesIntact, InProgress
<1>9. AckedUncut'
  <2> SUFFICES ASSUME NEW q \in acked' \ cut'
               PROVE  HoldsBody(q)'
    BY DEF AckedUncut
  <2>1. /\ p \notin acked
        /\ cut \subseteq cut' /\ (acked' = acked \/ acked' = acked \cup {p})
    BY <1>2 DEF FirstCall, LaterCall, TypeOK, Pictures, ContextsDistinct, Writes
  <2>2. CASE q = p
    BY <1>6, <2>1, <2>2
  <2>3. CASE q # p
    <3>1. q \in acked \ cut /\ q \in Pictures /\ uploads[q].my_idx # id
      BY <1>1, <1>2, <2>1, <2>3 DEF TypeOK
    <3>2. HoldsBody(q)
      BY <3>1 DEF SerialInv, AckedUncut
    <3>3. /\ uploads[q].my_idx \in DOMAIN thumbnail /\ uploads[q].my_idx \in DOMAIN cache
          /\ PathOf(q) \in DOMAIN original
      BY <1>2, <3>1 DEF AckedIsKept
    <3> QED
      BY <1>2, <3>1, <3>2, <3>3, WritesElsewhere DEF HoldsBody
  <2> QED
    BY <2>2, <2>3
<1> QED
  BY <1>5, <1>8, <1>9 DEF SerialInv

\* Every step of a store with a single machine keeps the invariant: a start
\* records the thumbnails in the order of their ids.
LEMMA SerialNext ==
  ASSUME OneMachine, IInv, IInv', ContextsDistinct, SerialInv, [Next]_vars
  PROVE  SerialInv'
<1>1. TypeOK /\ TypeOK'
  BY DEF IInv
<1>2. CASE \E m \in Machines : \E p, id \in Nat :
             /\ UploadCall(m, p, id) /\ Writes(m, p, id)
             /\ (FirstCall(p, id) /\ m \notin InProgress) \/ LaterCall(m, p, id)
  BY <1>2, SerialCall
<1>3. CASE \/ \E m \in Machines : DropUpload(m)
           \/ Crash
           \/ Restart
           \/ UNCHANGED vars
  <2>1. UNCHANGED <<original, thumbnail, cache, uploads, acked, cut>>
    BY <1>3 DEF DropUpload, Crash, Restart, vars
  <2>2. \A q \in InProgress' : q \in InProgress /\ endpoint_ctx'[q] = endpoint_ctx[q] /\ images' = images
    BY <1>1, <1>3 DEF DropUpload, Crash, Die, Restart, vars, InProgress, TypeOK
  <2>3. InOrder'
    <3>1. CASE Restart
      <4>1. PICK k \in Nat : DOMAIN thumbnail = 1..k
        BY DEF IInv, GaplessIds, Gapless
      <4>2. images' = UpTo(k)
        BY <3>1, <4>1, InitOnInterval DEF Restart, UpTo
      <4>3. Len(images') = k
        BY <4>2 DEF UpTo
      <4> QED
        BY <4>2, <4>3 DEF InOrder
    <3>2. CASE Crash
      BY <3>2, EmptyInOrder DEF Crash, Die, InOrder
    <3>3. CASE (\E m \in Machines : DropUpload(m)) \/ UNCHANGED vars
      BY <3>3 DEF DropUpload, vars, InOrder, SerialInv
    <3> QED
      BY <1>3, <3>1, <3>2, <3>3
  <2>4. NextInLine' /\ BodiesIntact' /\ AckedUncut'
    BY <2>1, <2>2 DEF SerialInv, NextInLine, BodiesIntact, AckedUncut, IdOf, Intact,
       Pic, HoldsBody, PathOf, Body
  <2> QED
    BY <2>3, <2>4 DEF SerialInv
<1> QED
  BY <1>1, <1>2, <1>3, StepWrites

\* The invariant holds of every behaviour of a single machine.
THEOREM SerialInvariance ==
  ASSUME OneMachine
  PROVE  Spec => [](IInv /\ ContentInv /\ SerialInv)
<1>1. Init => ContentInv /\ SerialInv
  BY DEF Init, ContentInv, ContextsDistinct, ProgressIntact, AloneIsIntact, InProgress,
     SerialInv, InOrder, NextInLine, BodiesIntact, AckedUncut, UpTo
<1>2. IInv /\ IInv' /\ ContentInv /\ SerialInv /\ [Next]_vars => ContentInv' /\ SerialInv'
  BY ContentNext, SerialNext DEF ContentInv
<1> QED
  BY <1>1, <1>2, Invariance, PTL DEF Spec

-----------------------------------------------------------------------------
(***************************************************************************)
(* What was answered 201.                                                  *)
(***************************************************************************)

\* While the disk holds all it is given, no upload can be cut short.
LEMMA DiskNeverFills ==
  ASSUME DiskHolds, cut = {}, NEW p, NEW n
  PROVE  /\ Accepted(p, n) = {n} /\ AcceptedFirst(p, n) \subseteq {0, n}
         /\ \A content : Encodings(p, content) = {content}
<1>1. ~DiskFills(p)
  BY FS_EmptySet DEF DiskFills, DiskHolds
<1> QED
  BY <1>1 DEF Accepted, AcceptedFirst, Encodings

\* Then the end of an upload cuts nothing.
LEMMA CompleteCutsNothing ==
  ASSUME DiskHolds, cut = {}, NEW m, NEW p, NEW content, NEW stored \in Nat, NEW n \in Nat,
         Complete(m, p, content, stored < n), ~(stored < n)
  PROVE  cut' = {}
<1>1. PICK thumb \in Encodings(p, content), compressed \in Encodings(p, content), e \in 0..6 :
        /\ e > 0 => Decodable(content)
        /\ Effects(p, e, thumb, compressed, stored < n)
  BY DEF Complete
<1>2. thumb = content /\ compressed = content
  BY DiskNeverFills
<1>3. Decodable(content) => content # Torn
  BY DEF Decodable, Torn
<1>4. ~(e > 1 /\ thumb = Torn) /\ ~(e > 3 /\ compressed = Torn)
  BY <1>1, <1>2, <1>3
<1> QED
  BY <1>1, <1>4 DEF Effects, Record

\* Nor does any other step.
LEMMA NextCutsNothing ==
  ASSUME DiskHolds, cut = {}, [Next]_vars
  PROVE  cut' = {}
<1>1. ASSUME NEW m \in Machines, NEW ft \in FileTypes, NEW length \in 1..MaxSegments,
             NEW first \in 1..(length + 1), NEW stored \in AcceptedFirst(Len(uploads) + 1, first),
             StartUpload(m, ft, length, first, stored)
      PROVE  cut' = {}
  <2> DEFINE p == Len(uploads) + 1
  <2>1. first \in Nat /\ stored \in {0, first}
    <3>1. AcceptedFirst(p, first) \subseteq {0, first}
      BY DiskNeverFills
    <3> QED
      BY <3>1, SegmentsAssumption
  <2>2. CASE stored = 0
    BY <1>1, <2>2 DEF StartUpload
  <2>3. CASE stored = first
    <3>1. ~(stored < first) /\ stored \in Nat
      BY <2>1, <2>3
    <3> QED
      BY <1>1, <2>1, <3>1, CompleteCutsNothing DEF StartUpload, Record
  <2> QED
    BY <2>1, <2>2, <2>3
<1>2. ASSUME NEW m \in Machines, NEW n \in 1..MaxSegments, NEW stored \in 1..n,
             ReceiveBody(m, n, stored)
      PROVE  cut' = {}
  <2>1. n \in Nat /\ stored \in Accepted(Pic(m), n)
    BY <1>2, SegmentsAssumption DEF ReceiveBody
  <2>2. stored = n /\ ~(stored < n)
    <3>1. Accepted(Pic(m), n) = {n}
      BY DiskNeverFills
    <3> QED
      BY <2>1, <3>1
  <2> QED
    BY <1>2, <2>1, <2>2, CompleteCutsNothing DEF ReceiveBody, Record
<1> QED
  BY <1>1, <1>2 DEF Next, DieInStart, DropUpload, Crash, Restart, vars

Uncut == cut = {}

\* A disk that holds all it is given never cuts an upload short.
THEOREM NothingCut ==
  ASSUME DiskHolds
  PROVE  Spec => []Uncut
<1>1. Init => Uncut
  BY DEF Init, Uncut
<1>2. Uncut /\ [Next]_vars => Uncut'
  BY NextCutsNothing DEF Uncut
<1> QED
  BY <1>1, <1>2, PTL DEF Spec

\* A picture answered 201, and no write() of which met a full disk, keeps its
\* three files for ever, when uploads do not overlap; ids of uploads that
\* failed are given out again.
THEOREM UncutStaysIntact ==
  ASSUME OneMachine
  PROVE  Spec => []AckedUncut
<1>1. SerialInv => AckedUncut
  BY DEF SerialInv
<1> QED
  BY <1>1, SerialInvariance, PTL

\* A picture answered 201 keeps its three files for ever, when uploads do not
\* overlap and the disk holds all it is given.
THEOREM AckedStaysIntact ==
  ASSUME OneMachine, DiskHolds
  PROVE  Spec => []AckedIsIntact
<1>1. AckedUncut /\ Uncut => AckedIsIntact
  BY DEF Uncut, AckedUncut, AckedIsIntact
<1> QED
  BY <1>1, UncutStaysIntact, NothingCut, PTL

\* The id of a new upload was never answered 201 before, when uploads do not
\* overlap: its truncating open cannot destroy an acknowledged original.
THEOREM NextIdAlwaysFresh ==
  ASSUME OneMachine
  PROVE  Spec => []NextIdIsFresh
<1>1. IInv /\ SerialInv => NextIdIsFresh
  <2> SUFFICES ASSUME IInv, SerialInv, up, NEW p \in acked
               PROVE  uploads[p].my_idx # GetNextIndex(images)
    BY DEF NextIdIsFresh
  <2>1. /\ Len(images) \in Nat /\ Recorded(images) = 1..Len(images)
        /\ GetNextIndex(images) = Len(images) + 1
    BY SerialFacts DEF SerialInv
  <2>2. uploads[p].my_idx \in 1..Len(images)
    BY <2>1 DEF IInv, AckedIsKept
  <2> QED
    BY <2>1, <2>2
<1> QED
  BY <1>1, SerialInvariance, PTL

-----------------------------------------------------------------------------
(***************************************************************************)
(* The batch endpoint.                                                     *)
(***************************************************************************)

\* A limit that fits in 16 bits is not changed by them.
LEMMA SmallLimit ==
  ASSUME NEW limit \in Nat, limit < 65536
  PROVE  limit % 65536 = limit
OBVIOUS

\* A batch of a catalogue in order lists the ids below its start, each once, if
\* its limit fits in 16 bits.
LEMMA BatchInOrder ==
  ASSUME IInv, InOrder, up, NEW current \in 1..CursorStart, NEW limit \in 1..CursorStart,
         limit <= current, limit <= 65535
  PROVE  CursorReply(current, limit).ids = [k \in 1..limit |-> current + 1 - k]
<1>1. Len(images) \in Nat /\ images = UpTo(Len(images)) /\ images \in Seq(Nat)
  BY SerialFacts DEF IInv, TypeOK
<1>2. CursorStart = Len(images)
  BY DEF CursorStart, GetLength
<1>3. limit % 65536 = limit
  <2>1. limit \in Nat /\ limit < 65536
    BY <1>1, <1>2
  <2> QED
    BY <2>1, SmallLimit
<1>4. /\ current \in Nat /\ limit \in 1..current /\ current <= Len(images)
      /\ ~(current = 0 \/ limit = 0 \/ current < limit \/ current > CursorStart)
  BY <1>1, <1>2
<1>5. CursorReply(current, limit).ids = GetBatch(images, current, limit)
  BY <1>3, <1>4 DEF CursorReply
<1>6. GetBatch(images, current, limit) = Window(current, limit)
  BY <1>1, <1>4, BatchWalksDown
<1>7. \A k \in 1..limit : images[current + 1 - k] = current + 1 - k
  BY <1>1, <1>4 DEF UpTo
<1> QED
  BY <1>5, <1>6, <1>7 DEF Window

\* The uploads admitted are at most MaxUploads.
Admitted == Len(uploads) <= MaxUploads

\* The bound of the uploads holds.
LEMMA AdmittedAlways == Spec => []Admitted
<1>1. Init => Admitted
  BY UploadsAssumption DEF Init, Admitted
<1>2. TypeOK /\ Admitted /\ [Next]_vars => Admitted'
  <2> SUFFICES ASSUME TypeOK, Admitted, [Next]_vars PROVE Admitted'
    OBVIOUS
  <2>1. uploads \in Seq(Upload) /\ MaxUploads \in Nat
    BY UploadsAssumption DEF TypeOK
  <2>2. UNCHANGED uploads \/ (Len(uploads) < MaxUploads /\ \E u : uploads' = Append(uploads, u))
    <3>1. ASSUME NEW m \in Machines, NEW ft \in FileTypes, NEW length \in 1..MaxSegments,
                 NEW first \in 1..(length + 1),
                 NEW stored \in AcceptedFirst(Len(uploads) + 1, first),
                 StartUpload(m, ft, length, first, stored)
          PROVE  Len(uploads) < MaxUploads /\ \E u : uploads' = Append(uploads, u)
      BY <3>1, Zenon DEF StartUpload
    <3>2. ASSUME NEW m \in Machines, NEW ft \in FileTypes, NEW length \in 1..MaxSegments,
                 DieInStart(m, ft, length)
          PROVE  Len(uploads) < MaxUploads /\ \E u : uploads' = Append(uploads, u)
      BY <3>2, Zenon DEF DieInStart
    <3>3. ASSUME NEW m \in Machines, NEW k \in 1..MaxSegments, NEW stored \in 1..k,
                 ReceiveBody(m, k, stored)
          PROVE  UNCHANGED uploads
      BY <3>3, Zenon DEF ReceiveBody
    <3>4. (\E m \in Machines : DropUpload(m)) \/ Crash \/ Restart \/ UNCHANGED vars
          => UNCHANGED uploads
      BY Zenon DEF DropUpload, Crash, Restart, vars
    <3> QED
      BY <3>1, <3>2, <3>3, <3>4, Zenon DEF Next
  <2> QED
    BY <2>1, <2>2 DEF Admitted
<1> QED
  BY <1>1, <1>2, TypeCorrect, PTL DEF Spec

\* A client that pages down a catalogue of at most 65535 pictures gets each
\* picture of each page once, when uploads do not overlap.  A larger catalogue
\* takes limits that the 16 bits of the code would cut.
THEOREM BatchAlwaysListsItsWindow ==
  ASSUME OneMachine, MaxUploads <= 65535
  PROVE  Spec => []BatchListsItsWindow
<1> DEFINE IsWindow(current, limit) ==
             CursorReply(current, limit).ids = [k \in 1..limit |-> current + 1 - k]
<1>1. ASSUME IInv, SerialInv, Admitted, up,
             NEW current \in 1..CursorStart, NEW limit \in 1..CursorStart, limit <= current
      PROVE  IsWindow(current, limit)
  <2>1. Len(images) \in Nat /\ Recorded(images) = 1..Len(images)
    BY <1>1, SerialFacts DEF SerialInv
  <2>2. PICK total, j \in Nat : Recorded(images) = 1..j /\ j <= total /\ total <= Len(uploads)
    BY <1>1 DEF IInv, GaplessIds, Gapless
  <2>3. j = Len(images) /\ Len(uploads) \in Nat /\ MaxUploads \in Nat
    BY <1>1, <2>1, <2>2, UploadsAssumption DEF IInv, TypeOK
  <2>4. CursorStart <= 65535 /\ CursorStart \in Nat
    BY <1>1, <2>2, <2>3 DEF CursorStart, GetLength, Admitted
  <2> QED
    BY <1>1, <2>4, BatchInOrder DEF SerialInv
<1>0. (up => \A current \in 1..CursorStart, limit \in 1..CursorStart :
               limit <= current => IsWindow(current, limit)) => BatchListsItsWindow
  BY DEF BatchListsItsWindow, IsWindow
<1> HIDE DEF IsWindow
<1>2. IInv /\ SerialInv /\ Admitted => BatchListsItsWindow
  BY <1>0, <1>1
<1> QED
  BY <1>2, SerialInvariance, AdmittedAlways, PTL

-----------------------------------------------------------------------------
(***************************************************************************)
(* The binary search of a catalogue in order.                              *)
(***************************************************************************)

\* A non-empty set of numbers has a least one.
LEMMA LeastExists ==
  ASSUME NEW S \in SUBSET Nat, S # {}
  PROVE  \E m \in S : \A n \in S : m <= n
<1> DEFINE R == OpToRel(<, Nat)
<1>1. IsWellFoundedOn(R, Nat)
  BY NatLessThanWellFounded
<1>2. PICK m \in S : \A n \in S : <<n, m>> \notin R
  BY <1>1, WFMin
<1>3. \A n \in S : <<n, m>> \in R <=> n < m
  BY DEF OpToRel
<1>4. \A n \in S : ~(n < m)
  BY <1>2, <1>3
<1> QED
  BY <1>4

Ranges(n) == (0..n) \X (0..n)

\* What bsearch answers for the range [lo, hi), if f answers for the others.
Probe(f, ids, id, lo, hi) ==
  LET mid == (lo + hi) \div 2
  IN  IF lo >= hi THEN NotFound
      ELSE IF id < ids[mid + 1] THEN f[<<lo, mid>>]
      ELSE IF id > ids[mid + 1] THEN f[<<mid + 1, hi>>]
      ELSE mid

IsProbe(f, ids, id) ==
  f = [range \in Ranges(Len(ids)) |-> Probe(f, ids, id, range[1], range[2])]

\* What it must answer: position i of a catalogue in order holds i + 1.
FoundIn(id, lo, hi) == IF lo < id /\ id <= hi THEN id - 1 ELSE NotFound

\* f answers right for the ranges shorter than d.
RightBelow(f, id, n, d) ==
  \A l, h \in 0..n : l <= h /\ h - l < d => f[<<l, h>>] = FoundIn(id, l, h)

\* The middle of a range is in it.
LEMMA MiddleInRange ==
  ASSUME NEW lo \in Nat, NEW hi \in Nat, lo < hi
  PROVE  \E mid \in Nat : mid = (lo + hi) \div 2 /\ lo <= mid /\ mid < hi
OBVIOUS

\* One probe is right if the probes of shorter ranges are.
LEMMA ProbeStep ==
  ASSUME NEW n \in Nat, NEW id \in Nat, NEW f, NEW lo \in 0..n, NEW hi \in 0..n,
         RightBelow(f, id, n, hi - lo)
  PROVE  Probe(f, UpTo(n), id, lo, hi) = FoundIn(id, lo, hi)
<1>1. CASE lo >= hi
  BY <1>1 DEF Probe, FoundIn
<1>2. CASE lo < hi
  <2>1. PICK mid \in Nat : mid = (lo + hi) \div 2 /\ lo <= mid /\ mid < hi
    BY <1>2, MiddleInRange
  <2>2. UpTo(n)[mid + 1] = mid + 1
    BY <2>1 DEF UpTo
  <2>3. ~(lo >= hi)
    BY <1>2
  <2>4. Probe(f, UpTo(n), id, lo, hi) =
          IF id < mid + 1 THEN f[<<lo, mid>>]
          ELSE IF id > mid + 1 THEN f[<<mid + 1, hi>>] ELSE mid
    BY <2>1, <2>2, <2>3 DEF Probe
  <2>5. CASE id < mid + 1
    <3>1. f[<<lo, mid>>] = FoundIn(id, lo, mid)
      BY <2>1 DEF RightBelow
    <3> QED
      BY <2>1, <2>4, <2>5, <3>1 DEF FoundIn
  <2>6. CASE id > mid + 1
    <3>1. f[<<mid + 1, hi>>] = FoundIn(id, mid + 1, hi)
      BY <2>1 DEF RightBelow
    <3>2. Probe(f, UpTo(n), id, lo, hi) = f[<<mid + 1, hi>>]
      BY <2>1, <2>4, <2>6
    <3> QED
      BY <2>1, <2>6, <3>1, <3>2 DEF FoundIn
  <2>7. CASE id = mid + 1
    BY <2>1, <2>4, <2>7 DEF FoundIn
  <2> QED
    BY <2>1, <2>5, <2>6, <2>7
<1> QED
  BY <1>1, <1>2

\* The search is that of some function that probes: one exists, the right answer.
LEMMA SearchProbes ==
  ASSUME NEW n \in Nat, NEW id \in Nat
  PROVE  \E f : IsProbe(f, UpTo(n), id) /\ BSearch(UpTo(n), id) = f[<<0, n>>]
<1> DEFINE g == [range \in Ranges(n) |-> FoundIn(id, range[1], range[2])]
           f == CHOOSE f : IsProbe(f, UpTo(n), id)
<1>1. Len(UpTo(n)) = n
  BY DEF UpTo
<1>2. \A l, h \in 0..n : g[<<l, h>>] = FoundIn(id, l, h)
  BY DEF Ranges
<1>3. \A range \in Ranges(n) :
        Probe(g, UpTo(n), id, range[1], range[2]) = FoundIn(id, range[1], range[2])
  <2> SUFFICES ASSUME NEW range \in Ranges(n)
               PROVE  Probe(g, UpTo(n), id, range[1], range[2]) = FoundIn(id, range[1], range[2])
    OBVIOUS
  <2>1. range[1] \in 0..n /\ range[2] \in 0..n
    BY DEF Ranges
  <2> HIDE DEF g
  <2>2. RightBelow(g, id, n, range[2] - range[1])
    BY <1>2 DEF RightBelow
  <2> QED
    BY <2>1, <2>2, ProbeStep
<1>4. IsProbe(g, UpTo(n), id)
  BY <1>1, <1>3 DEF IsProbe
<1>5. IsProbe(f, UpTo(n), id)
  BY <1>4, Zenon
<1>6. BSearch(UpTo(n), id) = f[<<0, Len(UpTo(n))>>]
  BY Zenon DEF BSearch, IsProbe, Probe, Ranges
<1> QED
  BY <1>1, <1>5, <1>6

\* The search of a catalogue in order finds the ids that are in it, each at its
\* position, and no other: otherwise there is a shortest range on which it errs.
LEMMA SearchInOrder ==
  ASSUME NEW n \in Nat, NEW id \in Nat
  PROVE  BSearch(UpTo(n), id) = FoundIn(id, 0, n)
<1>1. PICK f : IsProbe(f, UpTo(n), id) /\ BSearch(UpTo(n), id) = f[<<0, n>>]
  BY SearchProbes
<1>2. Len(UpTo(n)) = n
  BY DEF UpTo
<1>3. \A l, h \in 0..n : f[<<l, h>>] = Probe(f, UpTo(n), id, l, h)
  BY <1>1, <1>2 DEF IsProbe, Ranges
<1> DEFINE Wrong(l, h) == f[<<l, h>>] # FoundIn(id, l, h)
           S == {d \in 0..n : \E l, h \in 0..n : l <= h /\ d = h - l /\ Wrong(l, h)}
<1>4. S = {}
  <2> SUFFICES ASSUME S # {} PROVE FALSE
    OBVIOUS
  <2>1. S \in SUBSET Nat
    OBVIOUS
  <2>2. PICK d \in S : \A e \in S : d <= e
    <3> HIDE DEF S
    <3> QED
      BY <2>1, LeastExists
  <2>3. PICK l \in 0..n, h \in 0..n : l <= h /\ d = h - l /\ Wrong(l, h)
    BY <2>2
  <2>4. RightBelow(f, id, n, h - l)
    <3> SUFFICES ASSUME NEW l1 \in 0..n, NEW h1 \in 0..n, l1 <= h1, h1 - l1 < h - l, Wrong(l1, h1)
                 PROVE  FALSE
      BY DEF RightBelow
    <3>1. h1 - l1 \in 0..n
      OBVIOUS
    <3>2. h1 - l1 \in S
      BY <3>1
    <3>3. d <= h1 - l1
      BY <2>2, <3>2
    <3> QED
      BY <2>3, <3>1, <3>3
  <2>5. Probe(f, UpTo(n), id, l, h) = FoundIn(id, l, h)
    BY <2>4, ProbeStep
  <2> QED
    BY <1>3, <2>3, <2>5
<1>5. ~Wrong(0, n)
  <2>1. n \in 0..n /\ 0 \in 0..n /\ 0 <= n /\ n = n - 0
    OBVIOUS
  <2>2. Wrong(0, n) => n \in S
    BY <2>1
  <2> QED
    BY <1>4, <2>2
<1> QED
  BY <1>1, <1>5

\* A recorded id is found by the binary search, when uploads do not overlap.
THEOREM RecordedAlwaysFound ==
  ASSUME OneMachine
  PROVE  Spec => []RecordedIsFound
<1>1. IInv /\ SerialInv => RecordedIsFound
  <2> SUFFICES ASSUME IInv, SerialInv, NEW id \in Recorded(images)
               PROVE  IsRegistered(images, id)
    BY DEF RecordedIsFound
  <2>1. PICK n \in Nat : images = UpTo(n) /\ Len(images) = n
    BY DEF SerialInv, InOrder, IInv, TypeOK
  <2>2. Recorded(images) = 1..n
    BY <2>1 DEF Recorded, UpTo
  <2>3. BSearch(images, id) = id - 1 /\ id \in 1..n
    BY <2>1, <2>2, SearchInOrder DEF FoundIn
  <2> QED
    BY <2>3 DEF IsRegistered, NotFound
<1> QED
  BY <1>1, SerialInvariance, PTL

-----------------------------------------------------------------------------
(***************************************************************************)
(* The originals a request can open.  open_img_at takes a file whose digits*)
(* are a decimal prefix of the id: below 10 that is the id alone, from 10  *)
(* on it may be the file of another picture.                               *)
(***************************************************************************)

\* The numbers that lead from id down by dropping digits: the least set with
\* id in it that has the quotient by 10 of each of its members from 10 on.
Descent(S) == \A y \in S : y >= 10 => y \div 10 \in S

Prefixes(id) == {x \in Nat : \A S \in SUBSET Nat : id \in S /\ Descent(S) => x \in S}

\* Dropping a digit leaves a number.
LEMMA DropDigit == \A id \in Nat : id \div 10 \in Nat
OBVIOUS

\* The prefixes are themselves such a set.
LEMMA PrefixesDescend ==
  ASSUME NEW id \in Nat
  PROVE  id \in Prefixes(id) /\ Prefixes(id) \in SUBSET Nat /\ Descent(Prefixes(id))
BY DropDigit DEF Prefixes, Descent

\* The prefixes satisfy the equation that defines DigitPrefixes.
LEMMA PrefixesEquation ==
  ASSUME NEW id \in Nat
  PROVE  Prefixes(id) = {id} \cup (IF id < 10 THEN {} ELSE Prefixes(id \div 10))
<1> DEFINE T == {id} \cup (IF id < 10 THEN {} ELSE Prefixes(id \div 10))
<1>1. T \subseteq Prefixes(id)
  <2>1. id \in Prefixes(id)
    BY PrefixesDescend
  <2>2. ASSUME NEW x \in Prefixes(id \div 10), id >= 10
        PROVE  x \in Prefixes(id)
    BY <2>2 DEF Prefixes, Descent
  <2> QED
    BY <2>1, <2>2
<1>2. T \in SUBSET Nat /\ id \in T /\ Descent(T)
  <2>1. id \div 10 \in Nat
    BY DropDigit
  <2>2. /\ id \div 10 \in Prefixes(id \div 10) /\ Prefixes(id \div 10) \in SUBSET Nat
        /\ Descent(Prefixes(id \div 10))
    BY <2>1, PrefixesDescend
  <2> QED
    BY <2>1, <2>2 DEF Descent
<1>3. Prefixes(id) \subseteq T
  <2> HIDE DEF T
  <2> QED
    BY <1>2 DEF Prefixes
<1> QED
  BY <1>1, <1>3

\* A number of one digit has no prefix but itself.
LEMMA OneDigit ==
  ASSUME NEW id \in Nat, id < 10
  PROVE  DigitPrefixes[id] = {id}
<1> DEFINE Is(f) == f = [i \in Nat |-> {i} \cup (IF i < 10 THEN {} ELSE f[i \div 10])]
           g == [i \in Nat |-> Prefixes(i)]
<1>1. Is(g)
  <2>1. \A i \in Nat : g[i] = {i} \cup (IF i < 10 THEN {} ELSE g[i \div 10])
    <3>1. \A i \in Nat : g[i] = Prefixes(i)
      OBVIOUS
    <3> HIDE DEF g
    <3> QED
      BY <3>1, DropDigit, PrefixesEquation
  <2> QED
    BY <2>1
<1>2. DigitPrefixes = CHOOSE f : Is(f)
  BY DEF DigitPrefixes
<1>3. Is(DigitPrefixes)
  <2> HIDE DEF Is, g
  <2> QED
    BY <1>1, <1>2
<1>4. DigitPrefixes[id] = {id} \cup (IF id < 10 THEN {} ELSE DigitPrefixes[id \div 10])
  BY <1>3
<1> QED
  BY <1>4

\* Every original was opened for an upload, which has its id and its type.
OriginalsOwned == \A n \in DOMAIN original : \E p \in Pictures : n = PathOf(p)

\* The originals stay owned: a call opens or writes that of its own upload.
LEMMA OriginalsOwnedAlways == Spec => []OriginalsOwned
<1>1. Init => OriginalsOwned
  BY DEF Init, OriginalsOwned
<1>2. TypeOK /\ OriginalsOwned /\ [Next]_vars => OriginalsOwned'
  <2> SUFFICES ASSUME TypeOK, OriginalsOwned, [Next]_vars PROVE OriginalsOwned'
    OBVIOUS
  <2>1. CASE \E m \in Machines : \E p, id \in Nat : UploadCall(m, p, id) /\ Writes(m, p, id)
    <3>1. PICK m \in Machines, p \in Nat, id \in Nat : UploadCall(m, p, id) /\ Writes(m, p, id)
      BY <2>1
    <3>2. /\ p \in Pictures' /\ uploads'[p].my_idx = id
          /\ \A q \in Pictures : q \in Pictures' /\ uploads'[q] = uploads[q]
      BY <3>1 DEF UploadCall, LogGrows
    <3>3. DOMAIN original' = DOMAIN original \cup {<<id, uploads'[p].ft>>}
      BY <3>1 DEF Writes, Put
    <3> QED
      BY <3>2, <3>3 DEF OriginalsOwned, PathOf
  <2>2. CASE UNCHANGED <<original, uploads>>
    BY <2>2 DEF OriginalsOwned, PathOf, Pictures
  <2> QED
    BY <2>1, <2>2, StepWrites DEF DropUpload, Crash, Restart, vars
<1> QED
  BY <1>1, <1>2, TypeCorrect, PTL DEF Spec

\* The uploads that were given the id of p all had its type.  An upload of
\* another type that failed leaves a file of its own under the id.
OneType(p) ==
  \A q \in Pictures : uploads[q].my_idx = uploads[p].my_idx => uploads[q].ft = uploads[p].ft

\* The only original of an acknowledged picture's id is its own file, when the
\* uploads given that id all had its type.
LEMMA OwnOriginal ==
  ASSUME OriginalsOwned, AckedIsIntact, NEW p \in acked, OneType(p),
         NEW n \in DOMAIN original, n[1] = uploads[p].my_idx
  PROVE  original[n] = Body(p)
<1>1. PICK q \in Pictures : n = PathOf(q)
  BY DEF OriginalsOwned
<1>2. n = PathOf(p)
  BY <1>1 DEF PathOf, OneType
<1> QED
  BY <1>2 DEF AckedIsIntact, HoldsBody

\* A request of the original of an acknowledged picture returns the bytes that
\* were uploaded, for every id of one digit: below ten no id is a prefix of
\* another (files.c:107), so a lookup opens a file of its own id.
THEOREM LowIdsAsUploaded ==
  ASSUME OneMachine, DiskHolds
  PROVE  Spec => [](\A p \in acked : OneType(p) /\ uploads[p].my_idx < 10 =>
                      \A n \in OriginalsFor(uploads[p].my_idx) : original[n] = Body(p))
<1>1. TypeOK /\ OriginalsOwned /\ AckedIsIntact =>
        \A p \in acked : OneType(p) /\ uploads[p].my_idx < 10 =>
          \A n \in OriginalsFor(uploads[p].my_idx) : original[n] = Body(p)
  <2> SUFFICES ASSUME TypeOK, OriginalsOwned, AckedIsIntact,
                      NEW p \in acked, OneType(p), uploads[p].my_idx < 10,
                      NEW n \in OriginalsFor(uploads[p].my_idx)
               PROVE  original[n] = Body(p)
    OBVIOUS
  <2>1. uploads[p].my_idx \in Nat
    <3>1. p \in 1..Len(uploads) /\ uploads \in Seq(Upload)
      BY DEF TypeOK, Pictures
    <3>2. uploads[p] \in Upload
      BY <3>1
    <3> QED
      BY <3>2 DEF Upload
  <2>2. DigitPrefixes[uploads[p].my_idx] = {uploads[p].my_idx}
    BY <2>1, OneDigit
  <2>3. n \in DOMAIN original /\ n[1] = uploads[p].my_idx
    BY <2>2 DEF OriginalsFor, Candidates
  <2> QED
    BY <2>3, OwnOriginal
<1> QED
  BY <1>1, TypeCorrect, OriginalsOwnedAlways, AckedStaysIntact, PTL

\* A store that is down has no catalogue.
LEMMA DownIsEmpty == Spec => [](up \/ images = <<>>)
<1>1. Init => up \/ images = <<>>
  BY DEF Init
<1>2. TypeOK /\ (up \/ images = <<>>) /\ [Next]_vars => (up \/ images = <<>>)'
  <2> SUFFICES ASSUME TypeOK, up \/ images = <<>>, [Next]_vars PROVE up' \/ images' = <<>>
    OBVIOUS
  <2>1. CASE \E m \in Machines : \E p, id \in Nat : UploadCall(m, p, id)
    <3>1. PICK m \in Machines, p, id \in Nat : UploadCall(m, p, id)
      BY <2>1
    <3>2. up /\ (Continues(m, p) \/ Done(m, p, id) \/ Failed(m, p, id) \/ Died(p, id))
      BY <3>1, Zenon DEF UploadCall, Ends
    <3>3. Continues(m, p) \/ Failed(m, p, id) \/ Done(m, p, id) => up' = up
      BY Zenon DEF Continues, Failed, Done, Freed
    <3>4. Died(p, id) => images' = <<>>
      BY Zenon DEF Died, Die
    <3> QED
      BY <3>2, <3>3, <3>4
  <2>2. CASE \E m \in Machines : DropUpload(m)
    BY <2>2 DEF DropUpload
  <2>3. CASE Crash \/ Restart \/ UNCHANGED vars
    BY <2>3 DEF Crash, Die, Restart, vars
  <2> QED
    BY <2>1, <2>2, <2>3, StepCases
<1> QED
  BY <1>1, <1>2, TypeCorrect, PTL DEF Spec

\* A request of a recorded id is answered with the thumbnail of that id and no
\* other, in a store of at most 9 uploads, whatever the uploads, crashes and
\* restarts.  The tenth upload is what it takes to break it.
THEOREM ThumbnailAlwaysOfItsId ==
  ASSUME MaxUploads <= 9
  PROVE  Spec => []ThumbnailIsOfItsId
<1>1. IInv /\ Admitted /\ (up \/ images = <<>>) => ThumbnailIsOfItsId
  <2> SUFFICES ASSUME IInv, Admitted, up \/ images = <<>>, NEW id \in Recorded(images)
               PROVE  ThumbnailsFor(id) \subseteq {id}
    BY DEF ThumbnailIsOfItsId
  <2>1. up
    <3>1. images # <<>>
      BY DEF Recorded
    <3> QED
      BY <3>1
  <2>2. PICK k, j \in Nat : Recorded(images) = 1..j /\ j <= k /\ k <= Len(uploads)
    BY <2>1 DEF IInv, GaplessIds, Gapless
  <2>3. Len(uploads) \in Nat /\ MaxUploads \in Nat /\ Len(uploads) <= 9
    BY UploadsAssumption DEF IInv, TypeOK, Admitted
  <2>4. id \in Nat /\ id < 10
    BY <2>2, <2>3
  <2>5. DigitPrefixes[id] = {id}
    BY <2>4, OneDigit
  <2> QED
    BY <2>5 DEF ThumbnailsFor, Candidates
<1> QED
  BY <1>1, Invariance, AdmittedAlways, DownIsEmpty, PTL

-----------------------------------------------------------------------------
(***************************************************************************)
(* The album.  Its length n is that of the catalogue while the server runs *)
(* and the number of thumbnails while it does not.  A call changes no      *)
(* thumbnail of the album, since its id is n + 1: it adds that page, or    *)
(* nothing a client can see.                                               *)
(***************************************************************************)
Pages == [i \in 1..Len(Listed) |-> thumbnail[Listed[i]]]

\* The pages of a directory listed in order.
Shelf(dir, n) == [i \in 1..n |-> dir[i]]

\* The album of a listing in order has its pages at the positions of their ids.
LEMMA ShelfFacts ==
  ASSUME NEW n \in Nat, NEW listed, listed = UpTo(n), NEW dir
  PROVE  [i \in 1..Len(listed) |-> dir[listed[i]]] = Shelf(dir, n)
BY DEF UpTo, Shelf

ListedIs(n) ==
  /\ Listed = UpTo(n)
  /\ up => n = Len(images)
  /\ ~up => DOMAIN thumbnail = 1..n

InListing == \E n \in Nat : ListedIs(n)

\* The listing is in order, at all times.
LEMMA ListedInOrder == IInv /\ InOrder => InListing
<1> SUFFICES ASSUME IInv, InOrder
             PROVE  \E n \in Nat : ListedIs(n)
  BY DEF InListing
<1> USE DEF ListedIs
<1>1. CASE up
  BY <1>1, SerialFacts DEF Listed
<1>2. CASE ~up
  <2>1. PICK k \in Nat : DOMAIN thumbnail = 1..k
    BY DEF IInv, GaplessIds, Gapless
  <2>2. ControllerInit(DOMAIN thumbnail) = UpTo(k)
    BY <2>1, InitOnInterval DEF UpTo
  <2> QED
    BY <1>2, <2>1, <2>2 DEF Listed
<1> QED
  BY <1>1, <1>2

\* A step that adds one page or none, and promises no page or the one it adds,
\* is a step of the album.
LEMMA AlbumStep ==
  ASSUME NEW n \in Nat, NEW n1 \in {n, n + 1}, Listed = UpTo(n), Listed' = UpTo(n1),
         \A i \in 1..n : thumbnail'[i] = thumbnail[i],
         \/ Promised' = Promised
         \/ n1 = n + 1 /\ Promised' = Promised \cup {thumbnail'[n + 1]}
  PROVE  [Store!Next]_<<Pages, Promised>>
<1>1. Pages = Shelf(thumbnail, n)
  BY ShelfFacts DEF Pages
<1>2. Pages' = Shelf(thumbnail', n1)
  <2>1. n1 \in Nat
    OBVIOUS
  <2> QED
    BY <2>1, ShelfFacts DEF Pages
<1>3. CASE n1 = n
  <2>1. Pages' = Pages
    BY <1>1, <1>2, <1>3 DEF Shelf
  <2> QED
    BY <1>3, <2>1
<1>4. CASE n1 = n + 1
  <2>1. Len(Pages) = n /\ Len(Pages') = n + 1
    BY <1>1, <1>2, <1>4 DEF Shelf
  <2>2. SubSeq(Pages', 1, n) = Pages
    BY <1>1, <1>2, <1>4 DEF Shelf
  <2>3. Pages'[Len(Pages')] = thumbnail'[n + 1]
    BY <1>2, <1>4, <2>1 DEF Shelf
  <2>4. Store!Added
    BY <2>1, <2>2 DEF Store!Added, Pages
  <2>5. CASE Promised' = Promised
    BY <2>4, <2>5 DEF Store!Next, Store!Add
  <2>6. CASE Promised' = Promised \cup {thumbnail'[n + 1]}
    BY <2>3, <2>4, <2>6 DEF Store!Next, Store!AddAndPromise, Pages
  <2> QED
    BY <2>5, <2>6
<1> QED
  BY <1>3, <1>4

\* What an upload call answers it promises: the body of its upload, or nothing.
LEMMA CallPromises ==
  ASSUME TypeOK, NEW m \in Machines, NEW p \in Nat, NEW id \in Nat, UploadCall(m, p, id)
  PROVE  /\ acked' = acked => Promised' = Promised
         /\ acked' = acked \cup {p} => Promised' = Promised \cup {Body(p)'}
<1>1. \A q \in acked : Body(q)' = Body(q)
  BY DEF UploadCall, LogGrows, TypeOK, Body
<1> QED
  BY <1>1 DEF Promised

\* A call of a single machine is a step of the album or changes nothing of it.
LEMMA CallIsAlbumStep ==
  ASSUME IInv, SerialInv, IInv', InOrder', AckedIsIntact',
         NEW m \in Machines, NEW p \in Nat, NEW id \in Nat, UploadCall(m, p, id),
         FirstCall(p, id) \/ LaterCall(m, p, id)
  PROVE  [Store!Next]_<<Pages, Promised>>
<1> DEFINE n == Len(images)
<1>1. /\ up /\ TypeOK /\ uploads'[p].my_idx = id
      /\ Continues(m, p) \/ Ends(m, p, id)
  BY DEF UploadCall, IInv
<1>2. /\ n \in Nat /\ images = UpTo(n) /\ id = n + 1 /\ Listed = UpTo(n)
      /\ \E k \in {n, n + 1} : DOMAIN thumbnail = 1..k
  BY <1>1, SerialFacts, SerialCallId DEF SerialInv, Listed
<1>3. Grown(thumbnail, thumbnail', id)
  BY <1>1 DEF Continues, Ends, Grown
<1>4. PICK k \in {n, n + 1} : DOMAIN thumbnail = 1..k
  BY <1>2
<1> HIDE DEF n
<1>5. \A i \in 1..n : thumbnail'[i] = thumbnail[i]
  <2> SUFFICES ASSUME NEW i \in 1..n
               PROVE  thumbnail'[i] = thumbnail[i]
    OBVIOUS
  <2>1. i # id /\ i \in 1..k
    BY <1>2
  <2> QED
    BY <1>3, <1>4, <2>1 DEF Grown, Put
<1>6. PICK n1 \in Nat : /\ Listed' = UpTo(n1)
                        /\ up' => n1 = Len(images')
                        /\ ~up' => DOMAIN thumbnail' = 1..n1
  <2>1. IInv' /\ InOrder' => InListing'
    BY ListedInOrder, PTL
  <2> QED
    BY <2>1 DEF InListing, ListedIs
<1>7. \/ n1 \in {n, n + 1} /\ acked' = acked
      \/ n1 = n + 1 /\ acked' = acked \cup {p} /\ p \in acked'
  <2>1. CASE Continues(m, p) \/ Failed(m, p, id)
    BY <1>1, <1>6, <2>1 DEF Continues, Failed, Freed, n
  <2>2. CASE Done(m, p, id)
    <3>1. up' /\ images' = Append(images, id)
      BY <1>1, <2>2 DEF Done, Freed, RecordFile
    <3>2. Len(images') = n + 1
      BY <1>1, <3>1 DEF n, IInv, TypeOK
    <3> QED
      BY <1>6, <2>2, <3>1, <3>2 DEF Done
  <2>3. CASE Died(p, id)
    <3>1. ~up' /\ DOMAIN thumbnail' = 1..n1
      BY <1>6, <2>3 DEF Died, Die
    <3>2. id \in 1..(k + 1) /\ (IF id = k + 1 THEN k + 1 ELSE k) \in Nat /\ k \in Nat
      BY <1>2, <1>4
    <3>3. n1 \in {k, (IF id = k + 1 THEN k + 1 ELSE k)}
      <4>1. DOMAIN thumbnail' \in {1..k, 1..(IF id = k + 1 THEN k + 1 ELSE k)}
        BY <1>3, <1>4, <3>2, GrownDomain
      <4> QED
        BY <3>1, <3>2, <4>1
    <3>4. n1 \in {n, n + 1}
      BY <1>2, <1>4, <3>3
    <3>5. acked' = acked \/ (acked' = acked \cup {p} /\ id \in DOMAIN thumbnail')
      BY <2>3 DEF Died, Written, Put
    <3> QED
      BY <1>2, <3>1, <3>4, <3>5
  <2> QED
    BY <1>1, <2>1, <2>2, <2>3 DEF Ends
<1>8. \/ Promised' = Promised
      \/ n1 = n + 1 /\ Promised' = Promised \cup {thumbnail'[n + 1]}
  <2>1. CASE acked' = acked
    BY <1>1, <2>1, CallPromises
  <2>2. CASE n1 = n + 1 /\ acked' = acked \cup {p} /\ p \in acked'
    <3>1. thumbnail'[id] = Body(p)'
      BY <1>1, <2>2 DEF AckedIsIntact, HoldsBody
    <3> QED
      BY <1>1, <1>2, <2>2, <3>1, CallPromises
  <2> QED
    BY <1>7, <2>1, <2>2
<1>9. n1 \in {n, n + 1}
  BY <1>7
<1> QED
  BY <1>2, <1>5, <1>6, <1>8, <1>9, AlbumStep

\* A crash adds the page whose thumbnail was written and not yet recorded, if
\* there is one; a start, and an upload that is dropped, change nothing.
LEMMA OtherIsAlbumStep ==
  ASSUME IInv, SerialInv,
         (\E m \in Machines : DropUpload(m)) \/ Crash \/ Restart \/ UNCHANGED vars
  PROVE  [Store!Next]_<<Pages, Promised>>
<1>1. UNCHANGED <<thumbnail, uploads, acked>>
  BY DEF DropUpload, Crash, Restart, vars
<1>2. Promised' = Promised
  BY <1>1 DEF Promised, Body
<1>3. PICK n \in Nat : Listed = UpTo(n) /\ (up => n = Len(images))
  BY ListedInOrder DEF SerialInv, InListing, ListedIs
<1>4. CASE Crash
  <2>1. up
    BY <1>4 DEF Crash
  <2>2. PICK k \in {n, n + 1} : DOMAIN thumbnail = 1..k
    BY <1>3, <2>1, SerialFacts DEF SerialInv
  <2>3. Listed' = UpTo(k)
    <3>1. k \in Nat /\ ~up' /\ DOMAIN thumbnail' = 1..k
      BY <1>1, <1>4, <2>2 DEF Crash, Die
    <3> QED
      BY <3>1, InitOnInterval DEF Listed, UpTo
  <2> QED
    BY <1>1, <1>2, <1>3, <2>2, <2>3, AlbumStep
<1>5. CASE (\E m \in Machines : DropUpload(m)) \/ Restart \/ UNCHANGED vars
  <2>1. Listed' = Listed
    BY <1>5 DEF DropUpload, Restart, vars, Listed
  <2> QED
    BY <1>1, <1>2, <1>3, <2>1, AlbumStep
<1> QED
  BY <1>4, <1>5

\* The store implements the Album, when uploads do not overlap and the disk
\* holds all it is given: positions are never reassigned, a listed picture is
\* never replaced, and what was answered 201 stays listed, across crashes.
THEOREM StoreImplementsAlbum ==
  ASSUME OneMachine, DiskHolds
  PROVE  Spec => ImplementsAlbum
<1>1. Init => Store!Init
  BY DEF Init, Store!Init, Listed, Promised
<1>2. /\ IInv /\ SerialInv /\ IInv' /\ SerialInv' /\ AckedIsIntact' /\ [Next]_vars
      => [Store!Next]_<<Pages, Promised>>
  BY StepWrites, CallIsAlbumStep, OtherIsAlbumStep DEF IInv, SerialInv
<1>3. [Store!Next]_<<Pages, Promised>> =>
        [Store!Next]_<<[i \in 1..Len(Listed) |-> thumbnail[Listed[i]]], Promised>>
  BY DEF Pages
<1> QED
  BY <1>1, <1>2, <1>3, SerialInvariance, AckedStaysIntact, PTL DEF Spec, Store!Spec, ImplementsAlbum

\* What was answered 201 is a page of the album at all times, while the server
\* runs and, after a crash, for the next start to find.
THEOREM PromisesAlwaysKept ==
  ASSUME OneMachine, DiskHolds
  PROVE  Spec => []Store!PromisesKept
<1>1. IInv /\ SerialInv /\ AckedIsIntact => Store!PromisesKept
  <2> SUFFICES ASSUME IInv, SerialInv, AckedIsIntact, NEW p \in acked
               PROVE  \E i \in 1..Len(Pages) : Pages[i] = Body(p)
    BY DEF Store!PromisesKept, Pages, Promised
  <2>1. PICK n \in Nat : ListedIs(n)
    BY ListedInOrder DEF SerialInv, InListing
  <2>2. Pages = Shelf(thumbnail, n)
    BY <2>1, ShelfFacts DEF Pages, ListedIs
  <2>3. uploads[p].my_idx \in 1..n
    <3>1. CASE up
      BY <2>1, <3>1, SerialFacts DEF ListedIs, IInv, SerialInv, AckedIsKept
    <3>2. CASE ~up
      BY <2>1, <3>2 DEF ListedIs, IInv, AckedIsKept
    <3> QED
      BY <3>1, <3>2
  <2>4. thumbnail[uploads[p].my_idx] = Body(p)
    BY DEF AckedIsIntact, HoldsBody
  <2> QED
    BY <2>2, <2>3, <2>4 DEF Shelf
<1> QED
  BY <1>1, SerialInvariance, AckedStaysIntact, PTL
=============================================================================
