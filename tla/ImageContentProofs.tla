-------------------------- MODULE ImageContentProofs --------------------------
(***************************************************************************)
(* Proofs about what the files of the store hold, and about what the batch *)
(* endpoint reads, for every pool of machines and every bound.             *)
(***************************************************************************)
EXTENDS ImageStoreProofs, ImageQueries

(***************************************************************************)
(* What one call writes.                                                   *)
(***************************************************************************)

\* The first n segments of the body of upload p.
Prefix(p, n) == [i \in 1..n |-> p]

\* A write at the end of what was written continues it; so does the first one.
LEMMA WritePrefix ==
  ASSUME NEW p, NEW a \in Nat, NEW n \in Nat
  PROVE  /\ WriteAt(Prefix(p, a), a, n, p) = Prefix(p, a + n)
         /\ WriteAt(<<>>, 0, n, p) = Prefix(p, n)
<1>1. Len(Prefix(p, a)) = a
  BY DEF Prefix
<1>2. \A i \in 1..a : Prefix(p, a)[i] = p
  BY DEF Prefix
<1>3. \A i \in 1..(a + n) : i \in (a + 1)..(a + n) \/ i \in 1..a
  OBVIOUS
<1>4. WriteAt(Prefix(p, a), a, n, p) = Prefix(p, a + n)
  <2>1. (IF a > a + n THEN a ELSE a + n) = a + n
    OBVIOUS
  <2> HIDE DEF Prefix
  <2>2. WriteAt(Prefix(p, a), a, n, p) =
          [i \in 1..(a + n) |-> IF i \in (a + 1)..(a + n) THEN p
                                ELSE IF i <= a THEN Prefix(p, a)[i] ELSE Hole]
    BY <1>1, <2>1 DEF WriteAt
  <2>3. \A i \in 1..(a + n) : (IF i \in (a + 1)..(a + n) THEN p
                               ELSE IF i <= a THEN Prefix(p, a)[i] ELSE Hole) = p
    BY <1>2, <1>3
  <2> QED
    BY <2>2, <2>3 DEF Prefix
<1>5. WriteAt(<<>>, 0, n, p) = Prefix(p, n)
  BY DEF WriteAt, Prefix
<1> QED
  BY <1>4, <1>5

\* What the upload on machine m has received is on disk, as it came.
Intact(m) ==
  /\ endpoint_ctx[m].pos = endpoint_ctx[m].bytes_received
  /\ original[PathOf(Pic(m))] = Prefix(Pic(m), endpoint_ctx[m].bytes_received)

\* Nothing went wrong with the file of upload p up to the end of this call.
Whole(m, p) == p \notin cut' /\ (m \in InProgress => Intact(m))

\* The call noticed that its write stored less than it was given.
ShortIsCut(p, stored, n) == cut \subseteq cut' /\ (p \notin cut' => ~(stored < n))

\* The call answered 500 or nothing, or 201 and then both variants are whole.
Answered(p, id, content) ==
  \/ acked' = acked
  \/ /\ acked' = acked \cup {p}
     /\ p \notin cut' => thumbnail'[id] = content /\ cache'[id] = content

\* Machine m is free after the call, and no other one has a new upload.
Leaves(m) ==
  \A q \in InProgress' : q # m /\ q \in InProgress /\ endpoint_ctx'[q] = endpoint_ctx[q]

\* A call that reaches the end of an upload keeps its body if it acknowledges it.
LEMMA CompleteContent ==
  ASSUME TypeOK, NEW m \in Machines, NEW p, NEW content \in Seq(Nat), NEW stored \in Nat, NEW n \in Nat,
         Complete(m, p, content, stored < n), NEW id, uploads'[p].my_idx = id
  PROVE  ShortIsCut(p, stored, n) /\ Answered(p, id, content) /\ Leaves(m)
<1>1. PICK thumb \in Encodings(p, content), compressed \in Encodings(p, content) :
        \E e \in 0..6 : Effects(p, e, thumb, compressed, stored < n)
  BY DEF Complete
<1>2. PICK e \in 0..6 : Effects(p, e, thumb, compressed, stored < n)
  BY <1>1
<1>3. thumb \in {content, Torn} /\ compressed \in {content, Torn}
  BY DEF Encodings
<1>4. cut \subseteq cut' /\ (p \notin cut' => ~(stored < n))
  BY <1>2 DEF Effects, Record
<1>5. p \notin cut' /\ e >= 5 => thumb = content /\ compressed = content
  BY <1>2, <1>3 DEF Effects, Record
<1>6. e >= 5 => thumbnail'[id] = thumb /\ cache'[id] = compressed /\ acked' = acked \cup {p}
  <2> SUFFICES ASSUME e >= 5
               PROVE  thumbnail'[id] = thumb /\ cache'[id] = compressed /\ acked' = acked \cup {p}
    OBVIOUS
  <2>1. ~(e < 1) /\ ~(e < 2) /\ ~(e < 3) /\ ~(e < 4) /\ ~(e < 5)
    OBVIOUS
  <2>2. /\ thumbnail' = Put(thumbnail, id, thumb) /\ cache' = Put(cache, id, compressed)
        /\ acked' = acked \cup {p}
    BY <1>2, <2>1 DEF Effects
  <2>3. Put(thumbnail, id, thumb)[id] = thumb /\ Put(cache, id, compressed)[id] = compressed
    BY DEF Put
  <2> QED
    BY <2>2, <2>3
<1>7. e < 5 => acked' = acked
  BY <1>2 DEF Effects
<1>8. ASSUME NEW q \in InProgress'
      PROVE  q # m /\ q \in InProgress /\ endpoint_ctx'[q] = endpoint_ctx[q]
  <2>1. endpoint_ctx' = [endpoint_ctx EXCEPT ![m] = NoUpload] \/ Die
    BY DEF Complete
  <2>2. q \in Machines /\ endpoint_ctx'[q] # NoUpload
    BY DEF InProgress
  <2>3. CASE endpoint_ctx' = [endpoint_ctx EXCEPT ![m] = NoUpload]
    BY <2>2, <2>3 DEF TypeOK, InProgress
  <2>4. CASE Die
    BY <2>2, <2>4 DEF Die
  <2> QED
    BY <2>1, <2>3, <2>4
<1> QED
  BY <1>4, <1>5, <1>6, <1>7, <1>8 DEF ShortIsCut, Answered, Leaves

\* What a call of upload p on machine m writes: the original of p, the variants
\* of its id, and, if nothing went wrong with its file, the next part of the body
\* or, when it is acknowledged, all of it.
Writes(m, p, id) ==
  /\ cut \subseteq cut'
  /\ Grown(thumbnail, thumbnail', id) /\ Grown(cache, cache', id)
  /\ \E content \in Seq(Nat) :
       /\ original' = Put(original, <<id, uploads'[p].ft>>, content)
       /\ \/ \E ctx \in Context :
               /\ endpoint_ctx' = [endpoint_ctx EXCEPT ![m] = ctx]
               /\ ctx.pic = p /\ acked' = acked
               /\ Whole(m, p) => /\ ctx.pos = ctx.bytes_received
                                 /\ content = Prefix(p, ctx.bytes_received)
          \/ /\ Leaves(m)
             /\ \/ acked' = acked
                \/ /\ acked' = acked \cup {p}
                   /\ Whole(m, p) => /\ content = Prefix(p, uploads'[p].content_length)
                                     /\ thumbnail'[id] = content /\ cache'[id] = content

\* The call writes on from what is there, and ends or leaves its context.
LEMMA CallWrites ==
  ASSUME TypeOK, LogGrows, NEW m \in Machines, NEW p \in Nat, NEW id \in Nat,
         uploads'[p].my_idx = id, NEW content \in Seq(Nat), NEW stored \in Nat, NEW n \in Nat, NEW received \in Nat,
         NEW pos \in Nat,
         original' = Put(original, <<id, uploads'[p].ft>>, content),
         Whole(m, p) /\ ~(stored < n) => pos = received /\ content = Prefix(p, received),
         \/ /\ endpoint_ctx' = [endpoint_ctx EXCEPT ![m] =
                 [pic |-> p, bytes_received |-> received, pos |-> pos]]
            /\ Record(p, stored < n)
            /\ UNCHANGED <<thumbnail, cache, acked>>
         \/ received = uploads'[p].content_length /\ Complete(m, p, content, stored < n)
  PROVE  Writes(m, p, id)
<1>1. CASE /\ endpoint_ctx' = [endpoint_ctx EXCEPT ![m] =
                [pic |-> p, bytes_received |-> received, pos |-> pos]]
           /\ Record(p, stored < n)
           /\ UNCHANGED <<thumbnail, cache, acked>>
  <2> DEFINE ctx == [pic |-> p, bytes_received |-> received, pos |-> pos]
  <2>1. ctx \in Context
    BY DEF Context
  <2>2. cut \subseteq cut' /\ (p \notin cut' => ~(stored < n))
    BY <1>1 DEF Record
  <2>3. Whole(m, p) => ctx.pos = ctx.bytes_received /\ content = Prefix(p, ctx.bytes_received)
    BY <2>2 DEF Whole
  <2> QED
    BY <1>1, <2>1, <2>2, <2>3 DEF Writes, Grown
<1>2. CASE received = uploads'[p].content_length /\ Complete(m, p, content, stored < n)
  <2>1. Grown(thumbnail, thumbnail', id) /\ Grown(cache, cache', id)
    BY <1>2, CompleteOutcomes
  <2>2. ShortIsCut(p, stored, n) /\ Answered(p, id, content) /\ Leaves(m)
    BY <1>2, CompleteContent
  <2>3. Whole(m, p) => content = Prefix(p, uploads'[p].content_length)
    BY <1>2, <2>2 DEF Whole, ShortIsCut
  <2> QED
    BY <2>1, <2>2, <2>3 DEF Writes, Whole, ShortIsCut, Answered
<1> QED
  BY <1>1, <1>2

\* So does the first call of an upload.
LEMMA StartWrites ==
  ASSUME TypeOK, NEW m \in Machines,
         NEW ft \in FileTypes, NEW length \in 1..MaxSegments,
         NEW first \in 1..(length + 1), NEW stored \in AcceptedFirst(Len(uploads) + 1, first),
         StartUpload(m, ft, length, first, stored)
  PROVE  \E p, id \in Nat : UploadCall(m, p, id) /\ FirstCall(p, id) /\ Writes(m, p, id)
<1>1. PICK p \in Nat, id \in Nat : UploadCall(m, p, id) /\ FirstCall(p, id)
  BY StartIsUploadCall
<1>2. p = Len(uploads) + 1 /\ id = GetNextIndex(images) /\ LogGrows /\ uploads'[p].my_idx = id
  BY <1>1 DEF FirstCall, UploadCall
<1>3. length \in Nat /\ first \in Nat /\ stored \in Nat
  BY SegmentsAssumption, AcceptedFirstType
<1>4. WriteAt(<<>>, 0, stored, p) = Prefix(p, stored)
  BY <1>2, <1>3, WritePrefix
<1>5. Prefix(p, stored) \in Seq(Nat)
  BY <1>3 DEF Prefix
<1>6. endpoint_ctx[m] = NoUpload /\ m \notin InProgress
  BY DEF StartUpload, InProgress
<1> DEFINE upload == [my_idx |-> id, ft |-> ft, content_length |-> length]
<1>7. uploads'[p] = upload
  <2>1. uploads' = Append(uploads, upload)
    BY <1>2 DEF StartUpload
  <2> QED
    BY <1>2, <2>1 DEF TypeOK
<1>8. original' = Put(original, <<id, uploads'[p].ft>>, Prefix(p, stored))
  BY <1>2, <1>4, <1>7 DEF StartUpload
<1>9. stored <= first
  BY <1>3 DEF AcceptedFirst, Accepted
<1>10. ~(stored < first) => stored = first
  BY <1>3, <1>9
<1>11. \/ /\ endpoint_ctx' = [endpoint_ctx EXCEPT ![m] =
                [pic |-> p, bytes_received |-> first, pos |-> stored]]
          /\ Record(p, stored < first)
          /\ UNCHANGED <<thumbnail, cache, acked>>
       \/ first = length /\ Complete(m, p, Prefix(p, stored), stored < first)
       \/ UNCHANGED <<up, images, endpoint_ctx, thumbnail, cache, acked, cut>>
  BY <1>2, <1>4 DEF StartUpload
<1>12. CASE UNCHANGED <<up, images, endpoint_ctx, thumbnail, cache, acked, cut>>
  <2>1. Leaves(m)
    BY <1>6, <1>12 DEF InProgress, Leaves
  <2>2. Writes(m, p, id)
    BY <1>5, <1>8, <1>12, <2>1 DEF Writes, Grown
  <2> QED
    BY <1>1, <2>2
<1>13. CASE \/ /\ endpoint_ctx' = [endpoint_ctx EXCEPT ![m] =
                     [pic |-> p, bytes_received |-> first, pos |-> stored]]
               /\ Record(p, stored < first)
               /\ UNCHANGED <<thumbnail, cache, acked>>
            \/ first = length /\ Complete(m, p, Prefix(p, stored), stored < first)
  <2>1. uploads'[p].content_length = length
    BY <1>7
  <2>2. Writes(m, p, id)
    BY <1>2, <1>3, <1>5, <1>8, <1>10, <1>13, <2>1, CallWrites
  <2> QED
    BY <1>1, <2>2
<1> QED
  BY <1>11, <1>12, <1>13

\* And the first call in which the process dies.
LEMMA DieInStartWrites ==
  ASSUME TypeOK, NEW m \in Machines,
         NEW ft \in FileTypes, NEW length \in 1..MaxSegments,
         DieInStart(m, ft, length)
  PROVE  \E p, id \in Nat : UploadCall(m, p, id) /\ FirstCall(p, id) /\ Writes(m, p, id)
<1>1. PICK p \in Nat, id \in Nat : UploadCall(m, p, id) /\ FirstCall(p, id)
  BY DieInStartIsUploadCall
<1>2. p = Len(uploads) + 1 /\ id = GetNextIndex(images)
  BY <1>1 DEF FirstCall
<1> DEFINE upload == [my_idx |-> id, ft |-> ft, content_length |-> length]
<1>3. uploads'[p] = upload
  <2>1. uploads' = Append(uploads, upload)
    BY <1>2 DEF DieInStart
  <2> QED
    BY <1>2, <2>1 DEF TypeOK
<1>4. original' = Put(original, <<id, uploads'[p].ft>>, <<>>) /\ <<>> \in Seq(Nat)
  BY <1>2, <1>3 DEF DieInStart
<1>5. Leaves(m)
  BY DEF DieInStart, Die, InProgress, Leaves
<1>6. Writes(m, p, id)
  BY <1>4, <1>5 DEF Writes, Grown, DieInStart
<1> QED
  BY <1>1, <1>6

\* And a later call.
LEMMA ReceiveWrites ==
  ASSUME TypeOK, NEW m \in Machines,
         NEW n \in 1..MaxSegments, NEW stored \in 1..n,
         ReceiveBody(m, n, stored)
  PROVE  \E p, id \in Nat : UploadCall(m, p, id) /\ LaterCall(m, p, id) /\ Writes(m, p, id)
<1>1. PICK p \in Nat, id \in Nat : UploadCall(m, p, id) /\ LaterCall(m, p, id)
  BY ReceiveIsUploadCall
<1>2. /\ p = Pic(m) /\ id = uploads[p].my_idx /\ uploads' = uploads /\ m \in InProgress
      /\ LogGrows /\ uploads'[p].my_idx = id
  BY <1>1 DEF LaterCall, UploadCall
<1>3. n \in Nat /\ stored \in Nat /\ stored <= n
  BY SegmentsAssumption
<1>4. endpoint_ctx[m] \in Context
  BY <1>2 DEF TypeOK, Context, InProgress
<1>5. endpoint_ctx[m].bytes_received \in Nat /\ endpoint_ctx[m].pos \in Nat
  BY <1>4 DEF Context
<1>6. PathOf(p) = <<id, uploads'[p].ft>> /\ PathOf(p) \in DOMAIN original
  BY <1>2 DEF PathOf, TypeOK
<1> DEFINE received == endpoint_ctx[m].bytes_received + n
           pos == endpoint_ctx[m].pos + stored
           content == WriteAt(original[PathOf(p)], endpoint_ctx[m].pos, stored, p)
<1>7. content \in Seq(Nat) /\ received \in Nat /\ pos \in Nat
  <2>1. original[PathOf(p)] \in Seq(Nat)
    BY <1>6 DEF TypeOK
  <2>2. content \in Seq(Nat)
    BY <1>3, <1>5, <2>1, WriteAtType
  <2>3. received \in Nat /\ pos \in Nat
    BY <1>3, <1>5
  <2> QED
    BY <2>2, <2>3
<1>8. Whole(m, p) /\ ~(stored < n) => pos = received /\ content = Prefix(p, received)
  <2> SUFFICES ASSUME Whole(m, p), ~(stored < n)
               PROVE  pos = received /\ content = Prefix(p, received)
    OBVIOUS
  <2>1. stored = n
    BY <1>3
  <2>2. /\ endpoint_ctx[m].pos = endpoint_ctx[m].bytes_received
        /\ original[PathOf(p)] = Prefix(p, endpoint_ctx[m].bytes_received)
    BY <1>2 DEF Whole, Intact
  <2>3. content = Prefix(p, received)
    BY <1>3, <1>5, <2>1, <2>2, WritePrefix
  <2> QED
    BY <2>1, <2>2, <2>3
<1>9. /\ original' = Put(original, PathOf(p), content)
      /\ \/ /\ endpoint_ctx' = [endpoint_ctx EXCEPT ![m] =
                 [pic |-> p, bytes_received |-> received, pos |-> pos]]
            /\ Record(p, stored < n)
            /\ UNCHANGED <<thumbnail, cache, acked>>
         \/ received = uploads[p].content_length /\ Complete(m, p, content, stored < n)
  BY <1>2 DEF ReceiveBody
<1> HIDE DEF content, received, pos
<1>10. Writes(m, p, id)
  <2>1. original' = Put(original, <<id, uploads'[p].ft>>, content)
    BY <1>6, <1>9
  <2>2. \/ /\ endpoint_ctx' = [endpoint_ctx EXCEPT ![m] =
                 [pic |-> p, bytes_received |-> received, pos |-> pos]]
           /\ Record(p, stored < n)
           /\ UNCHANGED <<thumbnail, cache, acked>>
        \/ received = uploads'[p].content_length /\ Complete(m, p, content, stored < n)
    BY <1>2, <1>9
  <2> QED
    BY <1>2, <1>3, <1>7, <1>8, <2>1, <2>2, CallWrites
<1> QED
  BY <1>1, <1>10

\* The steps of the specification and what they write.
LEMMA StepWrites ==
  ASSUME TypeOK, [Next]_vars
  PROVE  \/ \E m \in Machines : \E p, id \in Nat :
              /\ UploadCall(m, p, id) /\ Writes(m, p, id)
              /\ (FirstCall(p, id) /\ m \notin InProgress) \/ LaterCall(m, p, id)
         \/ \E m \in Machines : DropUpload(m)
         \/ Crash
         \/ Restart
         \/ UNCHANGED vars
<1>1. ASSUME NEW m \in Machines, NEW ft \in FileTypes, NEW length \in 1..MaxSegments,
             NEW first \in 1..(length + 1),
             NEW stored \in AcceptedFirst(Len(uploads) + 1, first),
             StartUpload(m, ft, length, first, stored)
      PROVE  /\ \E p, id \in Nat : UploadCall(m, p, id) /\ FirstCall(p, id) /\ Writes(m, p, id)
             /\ m \notin InProgress
  BY <1>1, StartWrites DEF StartUpload, InProgress
<1>2. ASSUME NEW m \in Machines, NEW ft \in FileTypes, NEW length \in 1..MaxSegments,
             DieInStart(m, ft, length)
      PROVE  /\ \E p, id \in Nat : UploadCall(m, p, id) /\ FirstCall(p, id) /\ Writes(m, p, id)
             /\ m \notin InProgress
  BY <1>2, DieInStartWrites DEF DieInStart, InProgress
<1>3. ASSUME NEW m \in Machines, NEW n \in 1..MaxSegments, NEW stored \in 1..n,
             ReceiveBody(m, n, stored)
      PROVE  \E p, id \in Nat : UploadCall(m, p, id) /\ LaterCall(m, p, id) /\ Writes(m, p, id)
  BY <1>3, ReceiveWrites
<1> QED
  BY <1>1, <1>2, <1>3 DEF Next

-----------------------------------------------------------------------------
(***************************************************************************)
(* The invariant.  AloneIsIntact says nothing of an upload in progress,    *)
(* whose file becomes an acknowledged picture: the invariant adds that     *)
(* what it received is on disk, and that no two machines continue one      *)
(* upload.                                                                 *)
(***************************************************************************)
ContextsDistinct ==
  /\ \A m \in InProgress : Pic(m) \notin acked
  /\ \A m, n \in InProgress : Pic(m) = Pic(n) => m = n

ProgressIntact == \A m \in InProgress : Alone(Pic(m)) /\ Pic(m) \notin cut => Intact(m)

ContentInv == ContextsDistinct /\ ProgressIntact /\ AloneIsIntact

\* An upload that is alone after a step was alone before it.
LEMMA AloneBefore ==
  ASSUME TypeOK, LogGrows, NEW q \in Pictures, Alone(q)'
  PROVE  Alone(q)
BY DEF Alone, LogGrows

\* What a call writes is not of another upload that shares no id with it.
LEMMA WritesElsewhere ==
  ASSUME TypeOK, LogGrows, NEW m \in Machines, NEW p \in Nat, NEW id \in Nat, Writes(m, p, id),
         NEW q \in Pictures, uploads[q].my_idx # id
  PROVE  /\ PathOf(q)' = PathOf(q) /\ Body(q)' = Body(q)
         /\ PathOf(q) \in DOMAIN original => original'[PathOf(q)] = original[PathOf(q)]
         /\ uploads[q].my_idx \in DOMAIN thumbnail =>
              thumbnail'[uploads[q].my_idx] = thumbnail[uploads[q].my_idx]
         /\ uploads[q].my_idx \in DOMAIN cache =>
              cache'[uploads[q].my_idx] = cache[uploads[q].my_idx]
         /\ uploads'[q] = uploads[q]
<1>1. uploads'[q] = uploads[q]
  BY DEF LogGrows
<1>2. PathOf(q)' = PathOf(q) /\ Body(q)' = Body(q)
  BY <1>1 DEF PathOf, Body
<1>3. PICK content \in Seq(Nat) : original' = Put(original, <<id, uploads'[p].ft>>, content)
  BY DEF Writes
<1>4. PathOf(q) # <<id, uploads'[p].ft>>
  BY DEF PathOf
<1>5. PathOf(q) \in DOMAIN original => original'[PathOf(q)] = original[PathOf(q)]
  BY <1>3, <1>4 DEF Put
<1>6. ASSUME NEW old, NEW new, Grown(old, new, id)
      PROVE  \A i \in DOMAIN old \ {id} : new[i] = old[i]
  BY <1>6 DEF Grown, Put
<1>7. Grown(thumbnail, thumbnail', id) /\ Grown(cache, cache', id)
  BY DEF Writes
<1> QED
  BY <1>1, <1>2, <1>5, <1>6, <1>7

\* The call's own upload: whole before the call, it is whole after it.
LEMMA WholeContent ==
  ASSUME TypeOK, NEW m \in Machines, NEW p \in Pictures', NEW id \in Nat,
         Writes(m, p, id), uploads'[p].my_idx = id, Whole(m, p)
  PROVE  /\ m \in InProgress' => Intact(m)'
         /\ acked' # acked => HoldsBody(p)'
<1>1. PICK content \in Seq(Nat) :
        /\ original' = Put(original, <<id, uploads'[p].ft>>, content)
        /\ \/ \E ctx \in Context :
                /\ endpoint_ctx' = [endpoint_ctx EXCEPT ![m] = ctx]
                /\ ctx.pic = p /\ acked' = acked
                /\ Whole(m, p) => /\ ctx.pos = ctx.bytes_received
                                  /\ content = Prefix(p, ctx.bytes_received)
           \/ /\ Leaves(m)
              /\ \/ acked' = acked
                 \/ /\ acked' = acked \cup {p}
                    /\ Whole(m, p) => /\ content = Prefix(p, uploads'[p].content_length)
                                      /\ thumbnail'[id] = content /\ cache'[id] = content
  BY DEF Writes
<1>2. original'[PathOf(p)'] = content
  BY <1>1 DEF Put, PathOf
<1>3. CASE \E ctx \in Context :
             /\ endpoint_ctx' = [endpoint_ctx EXCEPT ![m] = ctx]
             /\ ctx.pic = p /\ acked' = acked
             /\ Whole(m, p) => /\ ctx.pos = ctx.bytes_received
                               /\ content = Prefix(p, ctx.bytes_received)
  <2>1. PICK ctx \in Context :
             /\ endpoint_ctx' = [endpoint_ctx EXCEPT ![m] = ctx]
             /\ ctx.pic = p /\ acked' = acked
             /\ ctx.pos = ctx.bytes_received
             /\ content = Prefix(p, ctx.bytes_received)
    BY <1>3
  <2>2. endpoint_ctx'[m] = ctx
    BY <2>1 DEF TypeOK
  <2> QED
    BY <1>2, <2>1, <2>2 DEF Intact, Pic
<1>4. CASE /\ Leaves(m)
           /\ \/ acked' = acked
              \/ /\ acked' = acked \cup {p}
                 /\ Whole(m, p) => /\ content = Prefix(p, uploads'[p].content_length)
                                   /\ thumbnail'[id] = content /\ cache'[id] = content
  <2>1. m \notin InProgress'
    BY <1>4 DEF Leaves
  <2>2. acked' # acked => /\ content = Prefix(p, uploads'[p].content_length)
                          /\ thumbnail'[id] = content /\ cache'[id] = content
    BY <1>4
  <2>3. Prefix(p, uploads'[p].content_length) = Body(p)'
    BY DEF Prefix, Body
  <2> QED
    BY <1>2, <2>1, <2>2, <2>3 DEF HoldsBody
<1> QED
  BY <1>1, <1>3, <1>4

\* In particular an upload that is alone.
LEMMA OwnContent ==
  ASSUME TypeOK, LogGrows, ContentInv, NEW m \in Machines, NEW p \in Pictures', NEW id \in Nat,
         Writes(m, p, id), uploads'[p].my_idx = id,
         m \in InProgress => p = Pic(m) /\ p \in Pictures,
         Alone(p)', p \notin cut'
  PROVE  /\ m \in InProgress' => Intact(m)'
         /\ acked' # acked => HoldsBody(p)'
<1>1. Whole(m, p)
  BY AloneBefore DEF Whole, Writes, ContentInv, ProgressIntact
<1> QED
  BY <1>1, WholeContent

\* Every upload call keeps the contents.
LEMMA ContentCall ==
  ASSUME TypeOK, TypeOK', AckedIsKept, ContentInv,
         NEW m \in Machines, NEW p \in Nat, NEW id \in Nat, UploadCall(m, p, id), Writes(m, p, id),
         (FirstCall(p, id) /\ m \notin InProgress) \/ LaterCall(m, p, id)
  PROVE  ContentInv'
<1>1. LogGrows /\ p \in Pictures' /\ uploads'[p].my_idx = id
  BY DEF UploadCall
<1>2. /\ m \in InProgress => p = Pic(m) /\ p \in Pictures
      /\ p \notin acked
      /\ \A q \in InProgress : q # m => Pic(q) # p
  BY DEF FirstCall, LaterCall, TypeOK, Pictures, ContentInv, ContextsDistinct
<1>3. /\ cut \subseteq cut' /\ (acked' = acked \/ acked' = acked \cup {p})
      /\ \A q \in InProgress' : q # m => q \in InProgress /\ endpoint_ctx'[q] = endpoint_ctx[q]
      /\ m \in InProgress' => Pic(m)' = p /\ acked' = acked
  <2>1. CASE Leaves(m)
    BY <2>1 DEF Writes, Leaves
  <2>2. CASE \E ctx \in Context : /\ endpoint_ctx' = [endpoint_ctx EXCEPT ![m] = ctx]
                                  /\ ctx.pic = p /\ acked' = acked
    BY <2>2 DEF Writes, InProgress, Pic, TypeOK
  <2> QED
    BY <2>1, <2>2 DEF Writes
<1>4. \A q \in InProgress' : q # m => Pic(q)' = Pic(q) /\ Pic(q) # p /\ Pic(q) \in Pictures
  BY <1>2, <1>3 DEF Pic, TypeOK
<1>5. ContextsDistinct'
  <2>1. \A q \in InProgress' : Pic(q)' \notin acked'
    BY <1>2, <1>3, <1>4 DEF ContentInv, ContextsDistinct
  <2>2. \A q, r \in InProgress' : Pic(q)' = Pic(r)' => q = r
    BY <1>3, <1>4 DEF ContentInv, ContextsDistinct
  <2> QED
    BY <2>1, <2>2 DEF ContextsDistinct
<1>6. ASSUME NEW q \in Pictures, q # p, Alone(q)'
      PROVE  Alone(q) /\ uploads[q].my_idx # id
  <2>1. q \in Pictures' /\ uploads'[q] = uploads[q]
    BY <1>1 DEF LogGrows
  <2>2. uploads'[p].my_idx # uploads'[q].my_idx
    BY <1>1, <1>6, <2>1 DEF Alone
  <2> QED
    BY <1>1, <1>6, <2>1, <2>2, AloneBefore
<1>7. ProgressIntact'
  <2> SUFFICES ASSUME NEW q \in InProgress', Alone(Pic(q))', Pic(q)' \notin cut'
               PROVE  Intact(q)'
    BY DEF ProgressIntact
  <2>1. CASE q = m
    BY <1>1, <1>2, <1>3, <2>1, OwnContent
  <2>2. CASE q # m
    <3>1. /\ q \in InProgress /\ endpoint_ctx'[q] = endpoint_ctx[q]
          /\ Pic(q)' = Pic(q) /\ Pic(q) # p /\ Pic(q) \in Pictures
          /\ PathOf(Pic(q)) \in DOMAIN original
      BY <1>3, <1>4, <2>2 DEF TypeOK
    <3>2. PICK r \in Pictures : r = Pic(q)
      BY <3>1
    <3>3. Alone(r)'
      BY <3>1, <3>2 DEF Alone
    <3>4. Alone(r) /\ uploads[r].my_idx # id
      BY <1>6, <3>1, <3>2, <3>3
    <3>5. Intact(q)
      BY <1>3, <3>1, <3>2, <3>4 DEF ContentInv, ProgressIntact
    <3>6. PathOf(r)' = PathOf(r) /\ original'[PathOf(r)] = original[PathOf(r)]
      BY <1>1, <3>1, <3>2, <3>4, WritesElsewhere
    <3>7. PathOf(Pic(q))' = PathOf(Pic(q))
      BY <3>1, <3>2, <3>6 DEF PathOf
    <3> QED
      BY <3>1, <3>2, <3>5, <3>6, <3>7 DEF Intact
  <2> QED
    BY <2>1, <2>2
<1>8. AloneIsIntact'
  <2> SUFFICES ASSUME NEW q \in acked' \ cut', Alone(q)'
               PROVE  HoldsBody(q)'
    BY DEF AloneIsIntact
  <2>1. CASE q = p
    BY <1>1, <1>2, <2>1, OwnContent
  <2>2. CASE q # p
    <3>1. q \in acked \ cut /\ q \in Pictures
      BY <1>3, <2>2 DEF TypeOK
    <3>2. Alone(q) /\ uploads[q].my_idx # id
      BY <1>6, <2>2, <3>1
    <3>3. HoldsBody(q)
      BY <3>1, <3>2 DEF ContentInv, AloneIsIntact
    <3>4. /\ uploads[q].my_idx \in DOMAIN thumbnail /\ uploads[q].my_idx \in DOMAIN cache
          /\ PathOf(q) \in DOMAIN original
      BY <3>1 DEF AckedIsKept
    <3> QED
      BY <1>1, <3>1, <3>2, <3>3, <3>4, WritesElsewhere DEF HoldsBody
  <2> QED
    BY <2>1, <2>2
<1> QED
  BY <1>5, <1>7, <1>8 DEF ContentInv

\* Every step keeps the contents.
LEMMA ContentNext ==
  ASSUME IInv, IInv', ContentInv, [Next]_vars
  PROVE  ContentInv'
<1>1. TypeOK /\ TypeOK' /\ AckedIsKept
  BY DEF IInv
<1>2. CASE \E m \in Machines : \E p, id \in Nat :
             /\ UploadCall(m, p, id) /\ Writes(m, p, id)
             /\ (FirstCall(p, id) /\ m \notin InProgress) \/ LaterCall(m, p, id)
  BY <1>1, <1>2, ContentCall
<1>3. CASE \/ \E m \in Machines : DropUpload(m)
           \/ Crash
           \/ Restart
           \/ UNCHANGED vars
  <2>1. UNCHANGED <<original, thumbnail, cache, uploads, acked, cut>>
    BY <1>3 DEF DropUpload, Crash, Restart, vars
  <2>2. \A q \in InProgress' : q \in InProgress /\ endpoint_ctx'[q] = endpoint_ctx[q]
    BY <1>1, <1>3 DEF DropUpload, Crash, Die, Restart, vars, InProgress, TypeOK
  <2> QED
    BY <2>1, <2>2 DEF ContentInv, ContextsDistinct, ProgressIntact, AloneIsIntact, Intact,
       Pic, Alone, Pictures, HoldsBody, PathOf, Body
<1> QED
  BY <1>1, <1>2, <1>3, StepWrites

\* The files of an upload that shares its id with no other are disturbed by
\* none, whatever uploads overlap, fail, are dropped or die, and however many
\* there are.
THEOREM AloneAlwaysIntact == Spec => []AloneIsIntact
<1>1. Init => ContentInv
  BY DEF Init, ContentInv, ContextsDistinct, ProgressIntact, AloneIsIntact, InProgress
<1>2. IInv /\ IInv' /\ ContentInv /\ [Next]_vars => ContentInv'
  BY ContentNext
<1>3. ContentInv => AloneIsIntact
  BY DEF ContentInv
<1> QED
  BY <1>1, <1>2, <1>3, Invariance, PTL DEF Spec

-----------------------------------------------------------------------------
(***************************************************************************)
(* The batch endpoint.                                                     *)
(***************************************************************************)

\* The ids at the positions current, current - 1 and so on, lim of them.
Window(current, lim) == [k \in 1..lim |-> images[current + 1 - k]]

\* A batch of lim ids walks down the array from position current.
LEMMA BatchWalksDown ==
  ASSUME images \in Seq(Nat), NEW current \in Nat, NEW lim \in 1..current,
         current <= Len(images)
  PROVE  GetBatch(images, current, lim) = Window(current, lim)
<1>1. (IF lim < Len(images) THEN lim ELSE Len(images)) = lim
  OBVIOUS
<1>2. \A k \in 1..lim : ThisAt(images, current - k) = images[current + 1 - k]
  <2> SUFFICES ASSUME NEW k \in 1..lim
               PROVE  ThisAt(images, current - k) = images[current + 1 - k]
    OBVIOUS
  <2>1. current - k \in 0..(Len(images) - 1) /\ current - k + 1 = current + 1 - k
    OBVIOUS
  <2> QED
    BY <2>1 DEF ThisAt
<1> QED
  BY <1>1, <1>2 DEF GetBatch, Window

\* A limit of 16 bits is a number.
LEMMA LimitType == \A limit \in Nat : limit % 65536 \in Nat
OBVIOUS

\* The batch of an accepted request begins in the array and fits above its start.
LEMMA AcceptedBatch ==
  ASSUME images \in Seq(Nat), NEW current \in Nat, NEW limit \in Nat,
         CursorReply(current, limit).ids # <<>>
  PROVE  \E lim \in 1..current :
           /\ current <= Len(images)
           /\ CursorReply(current, limit).ids = Window(current, lim)
<1>1. PICK lim \in Nat : lim = limit % 65536
  BY LimitType
<1>2. /\ ~(current = 0 \/ lim = 0 \/ current < lim \/ current > Len(images))
      /\ CursorReply(current, limit).ids = GetBatch(images, current, lim)
  BY <1>1 DEF CursorReply, Rejected, CursorStart, GetLength
<1>3. lim \in 1..current /\ current <= Len(images)
  <2>1. lim # 0 /\ ~(current < lim) /\ ~(current > Len(images)) /\ Len(images) \in Nat
    BY <1>2
  <2> QED
    BY <2>1
<1>4. GetBatch(images, current, lim) = Window(current, lim)
  BY <1>3, BatchWalksDown
<1> QED
  BY <1>2, <1>3, <1>4

\* No request of the batch endpoint reads outside the array of ids or names a
\* thumbnail that does not exist, for any current and any limit, also one that
\* does not fit in its 16 bits, and whatever uploads overlap, fail or die.
THEOREM BatchAlwaysInBounds == Spec => []BatchInBounds
<1>1. IInv => BatchInBounds
  <2> SUFFICES ASSUME IInv, up, NEW current \in Positions, NEW limit \in Limits,
                      NEW k \in 1..Len(CursorReply(current, limit).ids)
               PROVE  CursorReply(current, limit).ids[k] \in DOMAIN thumbnail
    BY DEF BatchInBounds
  <2>1. images \in Seq(Nat)
    BY DEF IInv, TypeOK
  <2>2. current \in Nat /\ limit \in Nat
    BY UploadsAssumption DEF Positions, Limits
  <2>3. PICK j, i \in Nat : DOMAIN thumbnail = 1..j /\ Recorded(images) = 1..i /\ i <= j
    BY DEF IInv, GaplessIds, Gapless
  <2>4. CursorReply(current, limit).ids # <<>>
    OBVIOUS
  <2>5. PICK lim \in 1..current :
          /\ current <= Len(images)
          /\ CursorReply(current, limit).ids = Window(current, lim)
    BY <2>1, <2>2, <2>4, AcceptedBatch
  <2>7. k \in 1..lim
    BY <2>2, <2>5 DEF Window
  <2>8. current + 1 - k \in 1..Len(images)
    BY <2>1, <2>2, <2>5, <2>7
  <2>9. images[current + 1 - k] \in Recorded(images)
    BY <2>8 DEF Recorded
  <2> QED
    BY <2>3, <2>5, <2>7, <2>9 DEF Window
<1> QED
  BY <1>1, Invariance, PTL
=============================================================================
