-------------------------- MODULE ImageStoreProofs --------------------------
(***************************************************************************)
(* Proofs about ImageStore, for every pool of machines and every bound:    *)
(* types, gap-free ids, and that an acknowledged picture is kept.          *)
(***************************************************************************)
EXTENDS ImageStore, FiniteSetTheorems, TLAPS

(***************************************************************************)
(* Lemmas about the operators.                                             *)
(***************************************************************************)

\* Writing one entry of a directory adds its name and changes no other entry.
LEMMA PutFacts ==
  ASSUME NEW dir, NEW name, NEW content
  PROVE  /\ DOMAIN Put(dir, name, content) = DOMAIN dir \cup {name}
         /\ Put(dir, name, content)[name] = content
         /\ \A n \in DOMAIN dir \ {name} : Put(dir, name, content)[n] = dir[n]
BY DEF Put

\* Writing segments into a directory of segments keeps it one.
LEMMA PutType ==
  ASSUME NEW dir, NEW name, NEW content \in Seq(Nat),
         \A n \in DOMAIN dir : dir[n] \in Seq(Nat)
  PROVE  \A n \in DOMAIN Put(dir, name, content) :
           Put(dir, name, content)[n] \in Seq(Nat)
BY DEF Put

\* A write leaves a file of segments.
LEMMA WriteAtType ==
  ASSUME NEW file \in Seq(Nat), NEW pos \in Nat, NEW n \in Nat, NEW p \in Nat
  PROVE  WriteAt(file, pos, n, p) \in Seq(Nat)
<1> DEFINE len == IF Len(file) > pos + n THEN Len(file) ELSE pos + n
<1>1. len \in Nat
  OBVIOUS
<1>2. \A i \in 1..len : (IF i \in (pos + 1)..(pos + n) THEN p
                         ELSE IF i <= Len(file) THEN file[i] ELSE Hole) \in Nat
  BY DEF Hole
<1> QED
  BY <1>1, <1>2 DEF WriteAt

\* Recording an id adds it, and only it, to the recorded ids.
LEMMA RecordFacts ==
  ASSUME NEW ids \in Seq(Nat), NEW id \in Nat
  PROVE  /\ RecordFile(ids, id) \in Seq(Nat)
         /\ Recorded(RecordFile(ids, id)) = Recorded(ids) \cup {id}
<1>1. Len(Append(ids, id)) = Len(ids) + 1
  OBVIOUS
<1>2. \A i \in 1..Len(ids) : Append(ids, id)[i] = ids[i]
  OBVIOUS
<1>3. Append(ids, id)[Len(ids) + 1] = id
  OBVIOUS
<1>4. 1..(Len(ids) + 1) = 1..Len(ids) \cup {Len(ids) + 1}
  OBVIOUS
<1> QED
  BY <1>1, <1>2, <1>3, <1>4 DEF RecordFile, Recorded

\* The id of the next upload follows a recorded one, or is 1.
LEMMA NextIndexFacts ==
  ASSUME NEW ids \in Seq(Nat), NEW j \in Nat, Recorded(ids) = 1..j
  PROVE  GetNextIndex(ids) \in 1..(j + 1)
<1>1. CASE Len(ids) = 0
  BY <1>1 DEF GetNextIndex
<1>2. CASE Len(ids) # 0
  <2>1. Len(ids) \in 1..Len(ids)
    BY <1>2
  <2>2. ids[Len(ids)] \in 1..j
    BY <2>1 DEF Recorded
  <2> QED
    BY <1>2, <2>2 DEF GetNextIndex, GetCurrent
<1> QED
  BY <1>1, <1>2

\* Adding an id to a gap-free set of ids, at most one past its end, leaves it
\* gap-free.
LEMMA IntervalGrows ==
  ASSUME NEW k \in Nat, NEW id \in 1..(k + 1)
  PROVE  1..k \cup {id} = 1..(IF id = k + 1 THEN k + 1 ELSE k)
OBVIOUS

\* A start over gap-free thumbnails 1..k records them in ascending order.
LEMMA InitOnInterval ==
  ASSUME NEW k \in Nat
  PROVE  ControllerInit(1..k) = [i \in 1..k |-> i]
<1>1. \A x \in 1..k : Cardinality({y \in 1..k : y <= x}) = x
  <2> SUFFICES ASSUME NEW x \in 1..k
               PROVE  Cardinality({y \in 1..k : y <= x}) = x
    OBVIOUS
  <2>1. {y \in 1..k : y <= x} = 1..x
    OBVIOUS
  <2>2. Cardinality(1..x) = x
    BY FS_Interval
  <2> QED
    BY <2>1, <2>2
<1>2. Cardinality(1..k) = k
  BY FS_Interval
<1>3. \A i \in 1..k : (CHOOSE x \in 1..k : Cardinality({y \in 1..k : y <= x}) = i) = i
  BY <1>1
<1> QED
  BY <1>2, <1>3 DEF ControllerInit

-----------------------------------------------------------------------------
(***************************************************************************)
(* What a call that reaches the end of an upload may do, in the words of   *)
(* the proofs: directories grow by the upload's id, and the call is done   *)
(* (201 and recorded), failed (500), or the process died in it.            *)
(***************************************************************************)
Grown(old, new, id) == new = old \/ \E c \in Seq(Nat) : new = Put(old, id, c)

Written(old, new, id) == \E c \in Seq(Nat) : new = Put(old, id, c)

Freed(m) == up' = up /\ endpoint_ctx' = [endpoint_ctx EXCEPT ![m] = NoUpload]

Done(m, p, id) ==
  /\ Freed(m)
  /\ images' = RecordFile(images, id)
  /\ acked' = acked \cup {p}
  /\ Written(thumbnail, thumbnail', id) /\ Written(cache, cache', id)

Failed(m, p, id) == Freed(m) /\ images' = images /\ acked' = acked

Died(p, id) ==
  /\ Die
  /\ \/ acked' = acked
     \/ /\ acked' = acked \cup {p}
        /\ Written(thumbnail, thumbnail', id) /\ Written(cache, cache', id)

\* At most the upload of the call had a write cut short.
CutGrows(p) == cut' \subseteq cut \cup {p}

\* Every call that completes an upload has one of the three outcomes.
LEMMA CompleteOutcomes ==
  ASSUME NEW m \in Machines, NEW p, NEW content \in Seq(Nat), NEW short,
         Complete(m, p, content, short)
  PROVE  LET id == uploads'[p].my_idx IN
         /\ Grown(thumbnail, thumbnail', id) /\ Grown(cache, cache', id)
         /\ Done(m, p, id) \/ Failed(m, p, id) \/ Died(p, id)
         /\ CutGrows(p)
<1> DEFINE id == uploads'[p].my_idx
<1>1. PICK thumb \in Encodings(p, content), compressed \in Encodings(p, content) :
        \/ /\ Effects(p, 6, thumb, compressed, short)
           /\ images' = RecordFile(images, id)
           /\ Freed(m)
        \/ \E n \in 0..3 : /\ Effects(p, n, thumb, compressed, short)
                           /\ Freed(m)
                           /\ images' = images
        \/ \E n \in 1..5 : Effects(p, n, thumb, compressed, short) /\ Die
  BY DEF Complete, Freed
<1>2. /\ Torn \in Seq(Nat)
      /\ thumb \in Seq(Nat) /\ compressed \in Seq(Nat)
  <2>1. Torn \in Seq(Nat)
    BY DEF Torn
  <2>2. Encodings(p, content) \subseteq Seq(Nat)
    BY <2>1 DEF Encodings
  <2> QED
    BY <2>1, <2>2
<1>3. ASSUME NEW n \in 0..6, Effects(p, n, thumb, compressed, short)
      PROVE  /\ Grown(thumbnail, thumbnail', id) /\ Grown(cache, cache', id)
             /\ n < 5 => acked' = acked
             /\ n >= 5 => /\ acked' = acked \cup {p}
                         /\ Written(thumbnail, thumbnail', id)
                         /\ Written(cache, cache', id)
             /\ CutGrows(p)
  BY <1>2, <1>3 DEF Effects, Grown, Written, Record, CutGrows
<1>4. CASE /\ Effects(p, 6, thumb, compressed, short)
           /\ images' = RecordFile(images, id)
           /\ Freed(m)
  BY <1>3, <1>4 DEF Done
<1>5. CASE \E n \in 0..3 : /\ Effects(p, n, thumb, compressed, short)
                          /\ Freed(m)
                          /\ images' = images
  BY <1>3, <1>5 DEF Failed
<1>6. CASE \E n \in 1..5 : Effects(p, n, thumb, compressed, short) /\ Die
  <2>1. PICK n \in 1..5 : Effects(p, n, thumb, compressed, short) /\ Die
    BY <1>6
  <2>2. n \in 0..6 /\ (n < 5 \/ n >= 5)
    OBVIOUS
  <2> QED
    BY <1>3, <2>1, <2>2 DEF Died
<1>7. CutGrows(p)
  <2>1. 6 \in 0..6 /\ 0..3 \subseteq 0..6 /\ 1..5 \subseteq 0..6
    OBVIOUS
  <2> QED
    BY <1>1, <1>3, <2>1
<1> QED
  BY <1>1, <1>4, <1>5, <1>6, <1>7

-----------------------------------------------------------------------------
(***************************************************************************)
(* Type correctness.                                                       *)
(***************************************************************************)

\* What every step does to the history and to the originals.
LogGrows ==
  /\ uploads' \in Seq(Upload)
  /\ Pictures \subseteq Pictures'
  /\ \A p \in Pictures : uploads'[p] = uploads[p]

OriginalsGrow ==
  /\ DOMAIN original \subseteq DOMAIN original'
  /\ DOMAIN original' \subseteq Nat \X FileTypes
  /\ \A n \in DOMAIN original' : original'[n] \in Seq(Nat)

\* A step that admits no upload leaves the history as it is.
LEMMA LogUnchanged == TypeOK /\ UNCHANGED uploads => LogGrows
BY DEF TypeOK, LogGrows, Pictures

\* Admitting an upload adds it at the end of the history and changes no earlier one.
LEMMA LogAppend ==
  ASSUME TypeOK, NEW u \in Upload, uploads' = Append(uploads, u)
  PROVE  /\ LogGrows
         /\ Len(uploads') = Len(uploads) + 1
         /\ uploads'[Len(uploads) + 1] = u
         /\ Len(uploads) + 1 \in Pictures'
BY DEF TypeOK, LogGrows, Pictures

\* A step that leaves the originals alone does not lose one.
LEMMA OriginalsUnchanged == TypeOK /\ UNCHANGED original => OriginalsGrow
BY DEF TypeOK, OriginalsGrow

\* Opening or writing an original (O_CREAT | O_TRUNC) does not lose one.
LEMMA OriginalsPut ==
  ASSUME TypeOK, NEW name \in Nat \X FileTypes, NEW content \in Seq(Nat),
         original' = Put(original, name, content)
  PROVE  OriginalsGrow /\ name \in DOMAIN original'
<1>1. DOMAIN original' = DOMAIN original \cup {name}
  BY PutFacts
<1>2. \A n \in DOMAIN original' : original'[n] \in Seq(Nat)
  <2>1. \A n \in DOMAIN original : original[n] \in Seq(Nat)
    BY DEF TypeOK
  <2> QED
    BY <2>1, PutType
<1> QED
  BY <1>1, <1>2 DEF TypeOK, OriginalsGrow

\* A directory of variants that grew by id lost no name and gained at most id.
LEMMA GrownFacts ==
  ASSUME NEW old, NEW new, NEW id \in Nat, Grown(old, new, id),
         DOMAIN old \subseteq Nat, \A n \in DOMAIN old : old[n] \in Seq(Nat)
  PROVE  /\ DOMAIN old \subseteq DOMAIN new
         /\ DOMAIN new \subseteq DOMAIN old \cup {id}
         /\ DOMAIN new \subseteq Nat
         /\ \A n \in DOMAIN new : new[n] \in Seq(Nat)
<1>1. CASE new = old
  BY <1>1
<1>2. CASE \E c \in Seq(Nat) : new = Put(old, id, c)
  <2>1. PICK c \in Seq(Nat) : new = Put(old, id, c)
    BY <1>2
  <2>2. DOMAIN new = DOMAIN old \cup {id}
    BY <2>1, PutFacts
  <2>3. \A n \in DOMAIN new : new[n] \in Seq(Nat)
    BY <2>1, PutType
  <2> QED
    BY <2>2, <2>3
<1> QED
  BY <1>1, <1>2 DEF Grown

\* The three outcomes of a completed upload preserve the types.
LEMMA OutcomeTypes ==
  ASSUME TypeOK, LogGrows, OriginalsGrow, up,
         NEW m \in Machines, NEW p \in Pictures', NEW id \in Nat, CutGrows(p),
         Grown(thumbnail, thumbnail', id), Grown(cache, cache', id),
         Done(m, p, id) \/ Failed(m, p, id) \/ Died(p, id)
  PROVE  TypeOK'
<1>1. /\ DOMAIN thumbnail' \subseteq Nat /\ DOMAIN cache' \subseteq Nat
      /\ \A n \in DOMAIN thumbnail' : thumbnail'[n] \in Seq(Nat)
      /\ \A n \in DOMAIN cache' : cache'[n] \in Seq(Nat)
  BY GrownFacts DEF TypeOK
<1>2. acked' \subseteq Pictures' /\ cut' \subseteq Pictures'
  BY DEF TypeOK, LogGrows, Done, Failed, Died, CutGrows
<1>3. up' \in BOOLEAN /\ images' \in Seq(Nat)
  <2>1. images \in Seq(Nat)
    BY DEF TypeOK
  <2>2. RecordFile(images, id) \in Seq(Nat) /\ <<>> \in Seq(Nat)
    BY <2>1, RecordFacts
  <2>3. images' \in Seq(Nat)
    BY <2>1, <2>2 DEF Done, Failed, Died, Die
  <2>4. up' = up \/ up' = FALSE
    BY Zenon DEF Done, Failed, Died, Freed, Die
  <2>5. up \in BOOLEAN
    BY DEF TypeOK
  <2>6. up' \in BOOLEAN
    BY <2>4, <2>5, Zenon
  <2> QED
    BY <2>3, <2>6
<1>4. /\ endpoint_ctx' \in [Machines -> {NoUpload} \cup
                             [pic : Nat, bytes_received : Nat, pos : Nat]]
      /\ \A k \in InProgress' : k \in InProgress /\ endpoint_ctx'[k] = endpoint_ctx[k] /\ up'
  BY DEF TypeOK, Done, Failed, Died, Freed, Die, InProgress
<1>5. \A k \in InProgress' :
        /\ up'
        /\ Pic(k)' \in Pictures'
        /\ PathOf(Pic(k))' \in DOMAIN original'
        /\ endpoint_ctx'[k].bytes_received < uploads'[Pic(k)'].content_length
  BY <1>4 DEF TypeOK, LogGrows, OriginalsGrow, Pic, PathOf
<1> QED
  BY <1>1, <1>2, <1>3, <1>4, <1>5 DEF TypeOK, LogGrows, OriginalsGrow

\* The next index is a number, whatever was recorded.
LEMMA NextIndexType ==
  ASSUME NEW ids \in Seq(Nat)
  PROVE  GetNextIndex(ids) \in Nat
<1>1. CASE Len(ids) = 0
  BY <1>1 DEF GetNextIndex
<1>2. CASE Len(ids) # 0
  BY <1>2 DEF GetNextIndex, GetCurrent
<1> QED
  BY <1>1, <1>2

\* Accepted(p, n) is a number of segments.
LEMMA AcceptedType ==
  ASSUME NEW p, NEW n \in Nat, NEW stored \in Accepted(p, n)
  PROVE  stored \in Nat
BY DEF Accepted

\* So is what the first write of an upload stores, which may be nothing.
LEMMA AcceptedFirstType ==
  ASSUME NEW p, NEW n \in Nat, NEW stored \in AcceptedFirst(p, n)
  PROVE  stored \in Nat
BY AcceptedType DEF AcceptedFirst

(***************************************************************************)
(* Every call of post_api_image for an upload p, first or later, has this  *)
(* shape: it goes on and leaves its context in machine m, or it ends.      *)
(***************************************************************************)
Context == [pic : Nat, bytes_received : Nat, pos : Nat]

Continues(m, p) ==
  /\ \E ctx \in Context :
       /\ ctx.pic = p /\ ctx.bytes_received < uploads'[p].content_length
       /\ endpoint_ctx' = [endpoint_ctx EXCEPT ![m] = ctx]
  /\ UNCHANGED <<up, images, thumbnail, cache, acked>>

Ends(m, p, id) ==
  /\ Grown(thumbnail, thumbnail', id) /\ Grown(cache, cache', id)
  /\ Done(m, p, id) \/ Failed(m, p, id) \/ Died(p, id)

UploadCall(m, p, id) ==
  /\ up /\ LogGrows /\ OriginalsGrow /\ CutGrows(p)
  /\ p \in Pictures' /\ uploads'[p].my_idx = id
  /\ <<id, uploads'[p].ft>> \in DOMAIN original'
  /\ Continues(m, p) \/ Ends(m, p, id)

\* The call is the first of a new upload, whose id follows the last recorded.
FirstCall(p, id) ==
  /\ Len(uploads') = Len(uploads) + 1 /\ p = Len(uploads) + 1
  /\ id = GetNextIndex(images)

\* The call is a later one of the upload in progress on machine m.
LaterCall(m, p, id) ==
  /\ UNCHANGED uploads
  /\ m \in InProgress /\ p = Pic(m) /\ id = uploads[p].my_idx

\* The first call of post_api_image is an upload call of a new upload.
LEMMA StartIsUploadCall ==
  ASSUME TypeOK, NEW m \in Machines,
         NEW ft \in FileTypes, NEW length \in 1..MaxSegments,
         NEW first \in 1..(length + 1), NEW stored \in AcceptedFirst(Len(uploads) + 1, first),
         StartUpload(m, ft, length, first, stored)
  PROVE  \E p, id \in Nat : UploadCall(m, p, id) /\ FirstCall(p, id)
<1>1. PICK p \in Nat : p = Len(uploads) + 1
  BY DEF TypeOK
<1>2. PICK id \in Nat : id = GetNextIndex(images)
  BY NextIndexType DEF TypeOK
<1>3. length \in Nat /\ first \in Nat /\ stored \in Nat
  BY SegmentsAssumption, AcceptedFirstType
<1>4. PICK content \in Seq(Nat) : content = WriteAt(<<>>, 0, stored, p)
  <2>1. <<>> \in Seq(Nat) /\ 0 \in Nat
    OBVIOUS
  <2> QED
    BY <1>3, <2>1, WriteAtType
<1> DEFINE upload == [my_idx |-> id, ft |-> ft, content_length |-> length]
           ctx == [pic |-> p, bytes_received |-> first, pos |-> stored]
<1>5. /\ up /\ endpoint_ctx[m] = NoUpload
      /\ uploads' = Append(uploads, upload)
      /\ original' = Put(original, <<id, ft>>, content)
      /\ \/ /\ first < length
            /\ endpoint_ctx' = [endpoint_ctx EXCEPT ![m] = ctx]
            /\ UNCHANGED <<up, images, thumbnail, cache, acked>>
            /\ CutGrows(p)
         \/ \E short : Complete(m, p, content, short)
         \/ UNCHANGED <<up, images, endpoint_ctx, thumbnail, cache, acked, cut>>
  BY <1>1, <1>2, <1>4 DEF StartUpload, BodyMissing, Record, CutGrows
<1>6. upload \in Upload
  BY <1>3 DEF Upload
<1>7. LogGrows /\ p \in Pictures' /\ uploads'[p] = upload /\ FirstCall(p, id)
  BY <1>1, <1>2, <1>5, <1>6, LogAppend DEF FirstCall
<1>8. OriginalsGrow /\ <<id, ft>> \in DOMAIN original'
  <2>1. <<id, ft>> \in Nat \X FileTypes
    OBVIOUS
  <2> QED
    BY <1>5, <2>1, OriginalsPut
<1>9. ASSUME first < length, endpoint_ctx' = [endpoint_ctx EXCEPT ![m] = ctx],
             UNCHANGED <<up, images, thumbnail, cache, acked>>
      PROVE  Continues(m, p)
  <2>1. ctx \in Context
    BY <1>3 DEF Context
  <2>2. ctx.pic = p /\ ctx.bytes_received < uploads'[p].content_length
    BY <1>7, <1>9
  <2> QED
    BY <1>9, <2>1, <2>2 DEF Continues
<1>10. ASSUME NEW short, Complete(m, p, content, short)
       PROVE  Ends(m, p, id)
  <2>1. uploads'[p].my_idx = id
    BY <1>7
  <2> QED
    BY <1>10, <2>1, CompleteOutcomes DEF Ends
<1>11. ASSUME UNCHANGED <<up, images, endpoint_ctx, thumbnail, cache, acked>>
       PROVE  Ends(m, p, id)
  BY <1>5, <1>11 DEF TypeOK, Ends, Failed, Freed, Grown
<1>12. CutGrows(p)
  BY <1>4, <1>5, CompleteOutcomes DEF CutGrows
<1>13. UploadCall(m, p, id)
  <2>1. uploads'[p].my_idx = id /\ uploads'[p].ft = ft
    BY <1>7
  <2> QED
    BY <1>5, <1>7, <1>8, <1>9, <1>10, <1>11, <1>12, <2>1 DEF UploadCall
<1> QED
  BY <1>7, <1>13

\* So is the first call in which the process dies: it ends, with a truncated original.
LEMMA DieInStartIsUploadCall ==
  ASSUME TypeOK, NEW m \in Machines,
         NEW ft \in FileTypes, NEW length \in 1..MaxSegments,
         DieInStart(m, ft, length)
  PROVE  \E p, id \in Nat : UploadCall(m, p, id) /\ FirstCall(p, id)
<1>1. PICK p \in Nat : p = Len(uploads) + 1
  BY DEF TypeOK
<1>2. PICK id \in Nat : id = GetNextIndex(images)
  BY NextIndexType DEF TypeOK
<1> DEFINE upload == [my_idx |-> id, ft |-> ft, content_length |-> length]
<1>3. /\ up /\ Die
      /\ uploads' = Append(uploads, upload)
      /\ original' = Put(original, <<id, ft>>, <<>>)
      /\ UNCHANGED <<thumbnail, cache, acked, cut>>
  BY <1>2 DEF DieInStart
<1>4. upload \in Upload
  BY SegmentsAssumption DEF Upload
<1>5. LogGrows /\ p \in Pictures' /\ uploads'[p] = upload /\ FirstCall(p, id)
  BY <1>1, <1>2, <1>3, <1>4, LogAppend DEF FirstCall
<1>6. OriginalsGrow /\ <<id, ft>> \in DOMAIN original'
  <2>1. <<id, ft>> \in Nat \X FileTypes /\ <<>> \in Seq(Nat)
    OBVIOUS
  <2> QED
    BY <1>3, <2>1, OriginalsPut
<1>7. Ends(m, p, id)
  BY <1>3 DEF Ends, Died, Grown
<1>8. UploadCall(m, p, id)
  <2>1. uploads'[p].my_idx = id /\ uploads'[p].ft = ft
    BY <1>5
  <2> QED
    BY <1>3, <1>5, <1>6, <1>7, <2>1 DEF UploadCall, CutGrows
<1> QED
  BY <1>5, <1>8

\* A later call of post_api_image is an upload call of the upload in progress.
LEMMA ReceiveIsUploadCall ==
  ASSUME TypeOK, NEW m \in Machines,
         NEW n \in 1..MaxSegments, NEW stored \in 1..n,
         ReceiveBody(m, n, stored)
  PROVE  \E p, id \in Nat : UploadCall(m, p, id) /\ LaterCall(m, p, id)
<1>1. m \in InProgress /\ endpoint_ctx[m] \in Context
  BY DEF ReceiveBody, InProgress, TypeOK, Context
<1>2. PICK p \in Pictures : p = Pic(m) /\ PathOf(p) \in DOMAIN original
  BY <1>1 DEF TypeOK
<1>3. p \in Nat /\ uploads[p] \in Upload
  BY <1>2 DEF TypeOK, Pictures
<1>4. PICK id \in Nat : id = uploads[p].my_idx
  BY <1>3 DEF Upload
<1>5. n \in Nat /\ stored \in Nat
  BY SegmentsAssumption
<1>6. PICK content \in Seq(Nat) :
        content = WriteAt(original[PathOf(p)], endpoint_ctx[m].pos, stored, p)
  <2>1. original[PathOf(p)] \in Seq(Nat)
    BY <1>2 DEF TypeOK
  <2>2. endpoint_ctx[m].pos \in Nat
    BY <1>1 DEF Context
  <2> QED
    BY <1>3, <1>5, <2>1, <2>2, WriteAtType
<1>7. PICK ctx \in Context :
        ctx = [pic |-> p, bytes_received |-> endpoint_ctx[m].bytes_received + n,
               pos |-> endpoint_ctx[m].pos + stored]
  <2>1. /\ endpoint_ctx[m].bytes_received + n \in Nat
        /\ endpoint_ctx[m].pos + stored \in Nat
    BY <1>1, <1>5 DEF Context
  <2> QED
    BY <1>3, <2>1 DEF Context
<1>8. /\ up /\ UNCHANGED uploads
      /\ original' = Put(original, PathOf(p), content)
      /\ \/ /\ endpoint_ctx[m].bytes_received + n < uploads[p].content_length
            /\ endpoint_ctx' = [endpoint_ctx EXCEPT ![m] = ctx]
            /\ UNCHANGED <<up, images, thumbnail, cache, acked>>
            /\ CutGrows(p)
         \/ \E short : Complete(m, p, content, short)
  BY <1>2, <1>6, <1>7 DEF ReceiveBody, BodyMissing, Record, CutGrows
<1>9. LogGrows /\ p \in Pictures' /\ uploads'[p] = uploads[p] /\ LaterCall(m, p, id)
  BY <1>1, <1>2, <1>4, <1>8, LogUnchanged DEF LaterCall, Pictures
<1>10. OriginalsGrow /\ <<id, uploads'[p].ft>> \in DOMAIN original'
  <2>1. PathOf(p) \in Nat \X FileTypes /\ PathOf(p) = <<id, uploads'[p].ft>>
    BY <1>3, <1>4, <1>9 DEF PathOf, Upload
  <2> QED
    BY <1>8, <2>1, OriginalsPut
<1>11. ASSUME endpoint_ctx[m].bytes_received + n < uploads[p].content_length,
              endpoint_ctx' = [endpoint_ctx EXCEPT ![m] = ctx],
              UNCHANGED <<up, images, thumbnail, cache, acked>>
       PROVE  Continues(m, p)
  <2>1. ctx.pic = p /\ ctx.bytes_received < uploads'[p].content_length
    BY <1>7, <1>9, <1>11
  <2> QED
    BY <1>11, <2>1 DEF Continues
<1>12. ASSUME NEW short, Complete(m, p, content, short)
       PROVE  Ends(m, p, id)
  <2>1. uploads'[p].my_idx = id
    BY <1>4, <1>9
  <2> QED
    BY <1>12, <2>1, CompleteOutcomes DEF Ends
<1>13. uploads'[p].my_idx = id
  BY <1>4, <1>9
<1>14. CutGrows(p)
  BY <1>6, <1>8, CompleteOutcomes
<1>15. UploadCall(m, p, id)
  BY <1>8, <1>9, <1>10, <1>11, <1>12, <1>13, <1>14 DEF UploadCall
<1> QED
  BY <1>3, <1>4, <1>9, <1>15

\* The context a call leaves, and those of the other machines, have their types.
LEMMA ContinueTypes ==
  ASSUME TypeOK, NEW m \in Machines, NEW p \in Nat, NEW id \in Nat,
         UploadCall(m, p, id), Continues(m, p)
  PROVE  TypeOK'
<1>1. PICK ctx \in Context :
        /\ ctx.pic = p /\ ctx.bytes_received < uploads'[p].content_length
        /\ endpoint_ctx' = [endpoint_ctx EXCEPT ![m] = ctx]
  BY DEF Continues
<1>2. /\ UNCHANGED <<up, images, thumbnail, cache, acked>>
      /\ up /\ LogGrows /\ OriginalsGrow /\ CutGrows(p) /\ p \in Pictures'
      /\ <<uploads'[p].my_idx, uploads'[p].ft>> \in DOMAIN original'
  BY DEF Continues, UploadCall
<1>3. endpoint_ctx' \in [Machines -> {NoUpload} \cup Context]
  BY <1>1 DEF TypeOK, Context
<1>4. ASSUME NEW k \in InProgress'
      PROVE  /\ up'
             /\ Pic(k)' \in Pictures'
             /\ PathOf(Pic(k))' \in DOMAIN original'
             /\ endpoint_ctx'[k].bytes_received < uploads'[Pic(k)'].content_length
  <2>1. CASE k = m
    <3>1. endpoint_ctx'[k] = ctx
      BY <1>1, <2>1 DEF TypeOK
    <3> QED
      BY <1>1, <1>2, <3>1 DEF Pic, PathOf
  <2>2. CASE k # m
    <3>1. k \in InProgress /\ endpoint_ctx'[k] = endpoint_ctx[k]
      BY <1>1, <1>4, <2>2 DEF TypeOK, InProgress
    <3> QED
      BY <1>2, <3>1 DEF TypeOK, LogGrows, OriginalsGrow, Pic, PathOf
  <2> QED
    BY <2>1, <2>2
<1> QED
  BY <1>2, <1>3, <1>4 DEF TypeOK, LogGrows, OriginalsGrow, CutGrows, Context

\* Every upload call preserves the types.
LEMMA UploadCallTypes ==
  ASSUME TypeOK, NEW m \in Machines, NEW p \in Nat, NEW id \in Nat,
         UploadCall(m, p, id)
  PROVE  TypeOK'
<1>1. CASE Continues(m, p)
  BY <1>1, ContinueTypes
<1>2. CASE Ends(m, p, id)
  BY <1>2, OutcomeTypes DEF UploadCall, Ends
<1> QED
  BY <1>1, <1>2 DEF UploadCall

\* The steps of the specification, in the words of the proofs.
LEMMA StepCases ==
  ASSUME TypeOK, [Next]_vars
  PROVE  \/ \E m \in Machines : \E p, id \in Nat :
              UploadCall(m, p, id) /\ (FirstCall(p, id) \/ LaterCall(m, p, id))
         \/ \E m \in Machines : DropUpload(m)
         \/ Crash
         \/ Restart
         \/ UNCHANGED vars
<1>1. CASE \E m \in Machines :
             \E ft \in FileTypes, length \in 1..MaxSegments :
             \E first \in 1..(length + 1) : \E stored \in AcceptedFirst(Len(uploads) + 1, first) :
               StartUpload(m, ft, length, first, stored)
  BY <1>1, StartIsUploadCall
<1>2. CASE \E m \in Machines :
             \E ft \in FileTypes, length \in 1..MaxSegments : DieInStart(m, ft, length)
  BY <1>2, DieInStartIsUploadCall
<1>3. CASE \E m \in Machines : \E n \in 1..MaxSegments :
             \E stored \in 1..n : ReceiveBody(m, n, stored)
  BY <1>3, ReceiveIsUploadCall
<1> QED
  BY <1>1, <1>2, <1>3 DEF Next

-----------------------------------------------------------------------------
(***************************************************************************)
(* The inductive invariant.  DenseIds alone is not inductive: it says      *)
(* nothing of the ids held by uploads in progress, and one of them, given  *)
(* out long ago, becomes a thumbnail when its upload ends.  Gapless bounds *)
(* them by the ids recorded, and hence by the ids on disk.                 *)
(***************************************************************************)
IdOf(m) == uploads[Pic(m)].my_idx

Gapless(k, j) ==
  /\ DOMAIN thumbnail = 1..k
  /\ k <= Len(uploads)
  /\ up => Recorded(images) = 1..j /\ j <= k /\ k <= j + 1
  /\ \A m \in InProgress : IdOf(m) \in 1..(j + 1) /\ IdOf(m) <= Len(uploads)

GaplessIds == \E k, j \in Nat : Gapless(k, j)

IInv == TypeOK /\ GaplessIds /\ AckedIsKept

\* The empty store satisfies the invariant.
LEMMA InitInvariant == Init => IInv
<1> SUFFICES ASSUME Init PROVE IInv
  OBVIOUS
<1>1. TypeOK
  BY DEF Init, TypeOK, InProgress, Pictures, Upload
<1>2. Gapless(0, 0)
  BY DEF Init, Gapless, Recorded, InProgress
<1>3. AckedIsKept
  BY DEF Init, AckedIsKept
<1> QED
  BY <1>1, <1>2, <1>3 DEF IInv, GaplessIds

\* A crash preserves the types: what the process held is gone, the disk stays.
LEMMA CrashTypes == TypeOK /\ Crash => TypeOK'
<1> SUFFICES ASSUME TypeOK, Crash PROVE TypeOK'
  OBVIOUS
<1>1. up' = FALSE /\ images' = <<>> /\ endpoint_ctx' = [m \in Machines |-> NoUpload]
  BY DEF Crash, Die
<1>2. InProgress' = {}
  BY <1>1 DEF InProgress
<1>3. endpoint_ctx' \in [Machines -> {NoUpload} \cup
                           [pic : Nat, bytes_received : Nat, pos : Nat]]
  BY <1>1
<1>4. <<>> \in Seq(Nat) /\ FALSE \in BOOLEAN
  OBVIOUS
<1> QED
  BY <1>1, <1>2, <1>3, <1>4 DEF TypeOK, Crash, Pictures

\* A start over gap-free thumbnails yields a catalogue of exactly their ids.
LEMMA RestartCatalogue ==
  ASSUME NEW k \in Nat, DOMAIN thumbnail = 1..k, Restart
  PROVE  images' \in Seq(Nat) /\ Recorded(images)' = 1..k
<1>1. images' = [i \in 1..k |-> i]
  BY InitOnInterval DEF Restart
<1>2. Len(images') = k
  BY <1>1
<1> QED
  BY <1>1, <1>2 DEF Recorded

\* Every step preserves the types.
LEMMA NextTypes ==
  ASSUME TypeOK, GaplessIds, [Next]_vars
  PROVE  TypeOK'
<1>1. CASE \E m \in Machines : \E p, id \in Nat :
             UploadCall(m, p, id) /\ (FirstCall(p, id) \/ LaterCall(m, p, id))
  BY <1>1, UploadCallTypes
<1>2. CASE \E m \in Machines : DropUpload(m)
  <2>1. PICK m \in Machines : DropUpload(m)
    BY <1>2
  <2>2. \A k \in InProgress' : k \in InProgress /\ endpoint_ctx'[k] = endpoint_ctx[k]
    BY <2>1 DEF TypeOK, DropUpload, InProgress
  <2> QED
    BY <2>1, <2>2 DEF TypeOK, DropUpload, Pic, PathOf, Pictures
<1>3. CASE Crash
  BY <1>3, CrashTypes
<1>4. CASE Restart
  <2>1. PICK k \in Nat : DOMAIN thumbnail = 1..k
    BY DEF GaplessIds, Gapless
  <2>2. images' \in Seq(Nat)
    BY <1>4, <2>1, RestartCatalogue
  <2>3. InProgress' = {}
    BY <1>4 DEF TypeOK, Restart, InProgress
  <2>4. up' \in BOOLEAN
    BY <1>4 DEF Restart
  <2> QED
    BY <1>4, <2>2, <2>3, <2>4 DEF TypeOK, Restart, Pictures
<1>5. CASE UNCHANGED vars
  BY <1>5 DEF TypeOK, vars, Pictures, InProgress, Pic, PathOf
<1> QED
  BY <1>1, <1>2, <1>3, <1>4, <1>5, StepCases

-----------------------------------------------------------------------------
(***************************************************************************)
(* No gaps.                                                                *)
(***************************************************************************)

\* The id of a call is at most one past the recorded ids.
LEMMA CallId ==
  ASSUME TypeOK, NEW k \in Nat, NEW j \in Nat, Gapless(k, j),
         NEW m \in Machines, NEW p \in Nat, NEW id \in Nat, UploadCall(m, p, id),
         FirstCall(p, id) \/ LaterCall(m, p, id)
  PROVE  /\ id \in 1..(j + 1) /\ id <= Len(uploads')
         /\ Len(uploads) \in Nat /\ Len(uploads') \in Nat
         /\ Len(uploads) <= Len(uploads')
         /\ j <= k /\ k <= j + 1 /\ k <= Len(uploads)
         /\ Recorded(images) = 1..j
<1>1. /\ Recorded(images) = 1..j /\ j <= k /\ k <= j + 1 /\ k <= Len(uploads)
      /\ images \in Seq(Nat) /\ Len(uploads) \in Nat /\ Len(uploads') \in Nat
  BY DEF UploadCall, Gapless, TypeOK, LogGrows
<1>2. CASE FirstCall(p, id)
  <2>1. id \in 1..(j + 1)
    BY <1>1, <1>2, NextIndexFacts DEF FirstCall
  <2> QED
    BY <1>1, <1>2, <2>1 DEF FirstCall
<1>3. CASE LaterCall(m, p, id)
  BY <1>1, <1>3 DEF LaterCall, Gapless, IdOf
<1> QED
  BY <1>1, <1>2, <1>3

\* The thumbnails 1..k, grown by an id of 1..k+1, are 1..k or 1..k+1.
LEMMA GrownDomain ==
  ASSUME NEW old, NEW new, NEW k \in Nat, DOMAIN old = 1..k, NEW id \in 1..(k + 1)
  PROVE  /\ Grown(old, new, id) =>
              DOMAIN new \in {1..k, 1..(IF id = k + 1 THEN k + 1 ELSE k)}
         /\ Written(old, new, id) =>
              DOMAIN new = 1..(IF id = k + 1 THEN k + 1 ELSE k)
<1>1. 1..k \cup {id} = 1..(IF id = k + 1 THEN k + 1 ELSE k)
  BY IntervalGrows
<1>2. \A c : DOMAIN Put(old, id, c) = 1..k \cup {id}
  BY DEF Put
<1> QED
  BY <1>1, <1>2 DEF Grown, Written

\* Contexts that stay hold the ids they held.
LEMMA KeptContexts ==
  ASSUME TypeOK, LogGrows, NEW q \in InProgress, q \in InProgress',
         endpoint_ctx'[q] = endpoint_ctx[q]
  PROVE  IdOf(q)' = IdOf(q)
BY DEF TypeOK, LogGrows, IdOf, Pic

\* Every upload call keeps the ids gap-free.
LEMMA GaplessCall ==
  ASSUME TypeOK, NEW k \in Nat, NEW j \in Nat, Gapless(k, j),
         NEW m \in Machines, NEW p \in Nat, NEW id \in Nat, UploadCall(m, p, id),
         FirstCall(p, id) \/ LaterCall(m, p, id)
  PROVE  GaplessIds'
<1>1. /\ id \in 1..(j + 1) /\ id <= Len(uploads')
      /\ Len(uploads) \in Nat /\ Len(uploads') \in Nat
      /\ Len(uploads) <= Len(uploads')
      /\ j <= k /\ k <= j + 1 /\ k <= Len(uploads)
      /\ Recorded(images) = 1..j
  BY CallId
<1>2. /\ up /\ LogGrows /\ p \in Pictures' /\ uploads'[p].my_idx = id
      /\ DOMAIN thumbnail = 1..k
      /\ \A q \in InProgress : IdOf(q) \in 1..(j + 1) /\ IdOf(q) <= Len(uploads)
  BY DEF UploadCall, Gapless
<1>3. id \in 1..(k + 1)
  BY <1>1
<1> DEFINE k1 == IF id = k + 1 THEN k + 1 ELSE k
           j1 == IF id = j + 1 THEN j + 1 ELSE j
<1>4. k1 \in Nat /\ j1 \in Nat /\ k1 <= Len(uploads') /\ k1 <= j + 1 /\ k1 <= j1 + 1 /\ j1 <= k1
  BY <1>1
<1>5. CASE Continues(m, p)
  <2>1. PICK ctx \in Context : ctx.pic = p /\ endpoint_ctx' = [endpoint_ctx EXCEPT ![m] = ctx]
    BY <1>5 DEF Continues
  <2>2. ASSUME NEW q \in InProgress'
        PROVE  IdOf(q)' \in 1..(j + 1) /\ IdOf(q)' <= Len(uploads')
    <3>1. CASE q = m
      <4>1. endpoint_ctx'[q] = ctx
        BY <2>1, <3>1 DEF TypeOK
      <4> QED
        BY <1>1, <1>2, <2>1, <4>1 DEF IdOf, Pic
    <3>2. CASE q # m
      <4>1. q \in InProgress /\ endpoint_ctx'[q] = endpoint_ctx[q]
        BY <2>1, <2>2, <3>2 DEF TypeOK, InProgress
      <4>2. IdOf(q)' = IdOf(q)
        BY <1>2, <2>2, <4>1, KeptContexts
      <4> QED
        BY <1>1, <1>2, <4>1, <4>2
    <3> QED
      BY <3>1, <3>2
  <2>3. Gapless(k, j)'
    BY <1>1, <1>2, <1>5, <2>2 DEF Gapless, Continues, Recorded
  <2> QED
    BY <2>3 DEF GaplessIds
<1>6. CASE Ends(m, p, id)
  <2>1. DOMAIN thumbnail' \in {1..k, 1..k1}
    BY <1>2, <1>3, <1>6, GrownDomain DEF Ends
  <2>2. ASSUME Freed(m), NEW q \in InProgress'
        PROVE  IdOf(q)' \in 1..(j + 1) /\ IdOf(q)' <= Len(uploads')
    <3>1. q \in InProgress /\ endpoint_ctx'[q] = endpoint_ctx[q]
      BY <2>2 DEF TypeOK, InProgress, Freed
    <3>2. IdOf(q)' = IdOf(q)
      BY <1>2, <2>2, <3>1, KeptContexts
    <3> QED
      BY <1>1, <1>2, <3>1, <3>2
  <2>3. CASE Done(m, p, id)
    <3>1. DOMAIN thumbnail' = 1..k1
      BY <1>2, <1>3, <2>3, GrownDomain DEF Done
    <3>2. Recorded(images') = 1..j1
      <4>1. images \in Seq(Nat) /\ images' = RecordFile(images, id)
        BY <2>3 DEF TypeOK, Done
      <4>2. Recorded(images') = 1..j \cup {id}
        BY <1>1, <4>1, RecordFacts
      <4> QED
        BY <1>1, <4>2, IntervalGrows
    <3>3. \A q \in InProgress' : IdOf(q)' \in 1..(j1 + 1) /\ IdOf(q)' <= Len(uploads')
      <4>1. 1..(j + 1) \subseteq 1..(j1 + 1)
        BY <1>1
      <4> QED
        BY <2>2, <2>3, <4>1 DEF Done
    <3> HIDE DEF k1, j1
    <3>4. Gapless(k1, j1)'
      BY <1>4, <3>1, <3>2, <3>3 DEF Gapless, Recorded
    <3> QED
      BY <1>4, <3>4 DEF GaplessIds
  <2>4. CASE Failed(m, p, id)
    <3>1. PICK k2 \in Nat : DOMAIN thumbnail' = 1..k2 /\ (k2 = k \/ k2 = k1)
      BY <1>4, <2>1
    <3>2. k2 <= Len(uploads') /\ j <= k2 /\ k2 <= j + 1
      BY <1>1, <1>4, <3>1
    <3>3. Recorded(images') = 1..j
      BY <1>1, <2>4 DEF Failed
    <3>4. Gapless(k2, j)'
      BY <2>2, <2>4, <3>1, <3>2, <3>3 DEF Gapless, Recorded, Failed
    <3> QED
      BY <3>4 DEF GaplessIds
  <2>5. CASE Died(p, id)
    <3>1. PICK k2 \in Nat : DOMAIN thumbnail' = 1..k2 /\ (k2 = k \/ k2 = k1)
      BY <1>4, <2>1
    <3>2. k2 <= Len(uploads')
      BY <1>1, <1>4, <3>1
    <3>3. InProgress' = {} /\ ~up'
      BY <2>5 DEF Died, Die, InProgress
    <3>4. Gapless(k2, 0)'
      BY <3>1, <3>2, <3>3 DEF Gapless
    <3> QED
      BY <3>4 DEF GaplessIds
  <2> QED
    BY <1>6, <2>3, <2>4, <2>5 DEF Ends
<1> QED
  BY <1>5, <1>6 DEF UploadCall

\* Every step keeps the ids gap-free, also when uploads that hold one id overlap.
LEMMA GaplessNext ==
  ASSUME TypeOK, GaplessIds, [Next]_vars
  PROVE  GaplessIds'
<1>1. PICK k \in Nat, j \in Nat : Gapless(k, j)
  BY DEF GaplessIds
<1>2. CASE \E m \in Machines : \E p, id \in Nat :
             UploadCall(m, p, id) /\ (FirstCall(p, id) \/ LaterCall(m, p, id))
  BY <1>1, <1>2, GaplessCall
<1>3. CASE \E m \in Machines : DropUpload(m)
  <2>1. PICK m \in Machines : DropUpload(m)
    BY <1>3
  <2>2. \A q \in InProgress' : q \in InProgress /\ IdOf(q)' = IdOf(q)
    BY <2>1 DEF TypeOK, DropUpload, InProgress, IdOf, Pic
  <2>3. Gapless(k, j)'
    BY <1>1, <2>1, <2>2 DEF Gapless, DropUpload
  <2> QED
    BY <2>3 DEF GaplessIds
<1>4. CASE Crash
  <2>1. InProgress' = {} /\ ~up'
    BY <1>4 DEF Crash, Die, InProgress
  <2>2. Gapless(k, j)'
    BY <1>1, <1>4, <2>1 DEF Gapless, Crash
  <2> QED
    BY <2>2 DEF GaplessIds
<1>5. CASE Restart
  <2>1. InProgress' = {}
    BY <1>5 DEF TypeOK, Restart, InProgress
  <2>2. Recorded(images)' = 1..k
    BY <1>1, <1>5, RestartCatalogue DEF Gapless
  <2>3. Gapless(k, k)'
    BY <1>1, <1>5, <2>1, <2>2 DEF Gapless, Restart
  <2> QED
    BY <2>3 DEF GaplessIds
<1>6. CASE UNCHANGED vars
  BY <1>1, <1>6 DEF GaplessIds, Gapless, vars, InProgress, IdOf, Pic
<1> QED
  BY <1>2, <1>3, <1>4, <1>5, <1>6, StepCases

-----------------------------------------------------------------------------
(***************************************************************************)
(* What was acknowledged is kept.                                          *)
(***************************************************************************)
Kept(p) ==
  /\ uploads[p].my_idx \in DOMAIN thumbnail \cap DOMAIN cache
  /\ PathOf(p) \in DOMAIN original
  /\ up => uploads[p].my_idx \in Recorded(images)

\* Every upload call keeps what was acknowledged, and keeps what it acknowledges.
LEMMA KeptCall ==
  ASSUME TypeOK, AckedIsKept, up,
         NEW m \in Machines, NEW p \in Nat, NEW id \in Nat, UploadCall(m, p, id)
  PROVE  AckedIsKept'
<1>1. /\ LogGrows /\ OriginalsGrow /\ uploads'[p].my_idx = id
      /\ <<id, uploads'[p].ft>> \in DOMAIN original'
  BY DEF UploadCall
<1>2. \A q \in acked : q \in Pictures /\ Kept(q) /\ uploads'[q] = uploads[q]
  BY <1>1 DEF TypeOK, AckedIsKept, Kept, LogGrows
<1>3. CASE Continues(m, p)
  BY <1>1, <1>2, <1>3 DEF Continues, AckedIsKept, Kept, PathOf, OriginalsGrow
<1>4. CASE Ends(m, p, id)
  <2>1. DOMAIN thumbnail \subseteq DOMAIN thumbnail' /\ DOMAIN cache \subseteq DOMAIN cache'
    BY <1>4, GrownFacts DEF Ends, TypeOK
  <2>2. \/ acked' = acked
        \/ /\ acked' = acked \cup {p}
           /\ id \in DOMAIN thumbnail' \cap DOMAIN cache'
    <3>1. \A old, new : Written(old, new, id) => id \in DOMAIN new
      BY DEF Written, Put
    <3> QED
      BY <1>4, <3>1 DEF Ends, Done, Failed, Died
  <2>3. up' => Recorded(images) \subseteq Recorded(images')
    <3>1. images \in Seq(Nat)
      BY DEF TypeOK
    <3>2. Recorded(RecordFile(images, id)) = Recorded(images) \cup {id}
      BY <3>1, RecordFacts
    <3> QED
      BY <1>4, <3>2 DEF Ends, Done, Failed, Died, Die
  <2>4. up' /\ acked' # acked => id \in Recorded(images')
    <3>1. images \in Seq(Nat)
      BY DEF TypeOK
    <3>2. Recorded(RecordFile(images, id)) = Recorded(images) \cup {id}
      BY <3>1, RecordFacts
    <3> QED
      BY <1>4, <3>2 DEF Ends, Done, Failed, Died, Die
  <2>5. \A q \in acked : Kept(q)'
    BY <1>1, <1>2, <2>1, <2>3 DEF Kept, PathOf, OriginalsGrow, Recorded
  <2>6. acked' # acked => Kept(p)'
    BY <1>1, <2>2, <2>4 DEF Kept, PathOf, Recorded
  <2> QED
    BY <2>2, <2>5, <2>6 DEF AckedIsKept, Kept
<1> QED
  BY <1>3, <1>4 DEF UploadCall

\* Every step keeps what was acknowledged; a restart finds it in the thumbnails.
LEMMA KeptNext ==
  ASSUME TypeOK, GaplessIds, AckedIsKept, [Next]_vars
  PROVE  AckedIsKept'
<1>1. CASE \E m \in Machines : \E p, id \in Nat :
             UploadCall(m, p, id) /\ (FirstCall(p, id) \/ LaterCall(m, p, id))
  BY <1>1, KeptCall DEF UploadCall
<1>2. CASE \E m \in Machines : DropUpload(m)
  BY <1>2 DEF DropUpload, AckedIsKept, PathOf
<1>3. CASE Crash
  BY <1>3 DEF Crash, Die, AckedIsKept, PathOf
<1>4. CASE Restart
  <2>1. PICK k \in Nat : DOMAIN thumbnail = 1..k
    BY DEF GaplessIds, Gapless
  <2>2. Recorded(images)' = DOMAIN thumbnail
    BY <1>4, <2>1, RestartCatalogue
  <2> QED
    BY <1>4, <2>2 DEF Restart, AckedIsKept, PathOf
<1>5. CASE UNCHANGED vars
  BY <1>5 DEF vars, AckedIsKept, PathOf
<1> QED
  BY <1>1, <1>2, <1>3, <1>4, <1>5, StepCases

-----------------------------------------------------------------------------
(***************************************************************************)
(* The theorems.                                                           *)
(***************************************************************************)

\* The invariant is inductive: uploads that overlap, fail or die in any order
\* keep types, gap-free ids and acknowledged pictures.
THEOREM Invariance == Spec => []IInv
<1>1. Init => IInv
  BY InitInvariant
<1>2. IInv /\ [Next]_vars => IInv'
  BY NextTypes, GaplessNext, KeptNext DEF IInv
<1> QED
  BY <1>1, <1>2, PTL DEF Spec

\* Every variable of the store keeps its type, and no upload in progress ever
\* holds its whole body (post_api_image completes it in the same call).
THEOREM TypeCorrect == Spec => []TypeOK
<1>1. IInv => TypeOK
  BY DEF IInv
<1> QED
  BY <1>1, Invariance, PTL

\* The thumbnails are always 1..k and the catalogue of a running server is all
\* of them but perhaps the last, for any pool and any number of uploads.
THEOREM DenseIdsAlways == Spec => []DenseIds
<1>1. IInv => DenseIds
  <2> SUFFICES ASSUME IInv PROVE DenseIds
    OBVIOUS
  <2>1. PICK k \in Nat, j \in Nat : Gapless(k, j)
    BY DEF IInv, GaplessIds
  <2>2. k \in 0..Len(uploads) /\ DOMAIN thumbnail = 1..k
    BY <2>1 DEF IInv, TypeOK, Gapless
  <2>3. up => Recorded(images) = 1..j /\ (j = k \/ j = k - 1)
    BY <2>1 DEF Gapless
  <2>4. up => Recorded(images) \in {1..k, 1..(k - 1)}
    BY <2>3
  <2> QED
    BY <2>2, <2>4 DEF DenseIds
<1> QED
  BY <1>1, Invariance, PTL

\* A picture answered 201 has all its files and is in the catalogue of every
\* running server from then on, across any number of crashes and restarts.
THEOREM AckedIsKeptAlways == Spec => []AckedIsKept
<1>1. IInv => AckedIsKept
  BY DEF IInv
<1> QED
  BY <1>1, Invariance, PTL
=============================================================================
