----------------------------- MODULE ImageStore -----------------------------
(***************************************************************************)
(* Storing and naming images: post_api_image of backend/src/api-image.c,   *)
(* with the catalogue of FileController and the three directories it       *)
(* writes (IMG_ORIGINAL_DIR, IMG_THUMBNAIL_DIR, IMG_CACHE_DIR).            *)
(*                                                                         *)
(* The server is one thread around epoll.  Every event on a connection is  *)
(* one call of post_api_image, so calls of different connections           *)
(* interleave but do not overlap: an action below is one whole call, from  *)
(* the event to its return.  Between two calls of an upload its state is   *)
(* the endpoint_ctx of its server_machine.  The process may die inside a   *)
(* call; what it had written by then stays on disk.                        *)
(*                                                                         *)
(* Bytes are counted in segments, the pieces in which a body arrives; a    *)
(* file is the sequence of its segments, each named by the upload that     *)
(* wrote it.                                                               *)
(***************************************************************************)
EXTENDS FileController

CONSTANTS
  Machines,       \* the server_machine pool (main.c: MAX_EVENTS of them)
  FileTypes,      \* extensions of the accepted magic numbers
  MaxSegments,    \* bound: longest body, in segments (MAX_BYTES_SIZE)
  MaxUploads,     \* bound: uploads admitted in a behaviour
  MayCrash,       \* may the process die and be started again
  StorageFails,   \* may opening, writing or encoding a variant fail
  MaxCut,         \* bound: uploads of which a full disk stores only a part
  NoUpload        \* endpoint_ctx == nullptr

ASSUME SegmentsAssumption == MaxSegments \in Nat \ {0}
ASSUME UploadsAssumption == MaxUploads \in Nat
ASSUME FlagsAssumption == MayCrash \in BOOLEAN /\ StorageFails \in BOOLEAN
ASSUME CutAssumption == MaxCut \in Nat
ASSUME NoUploadAssumption ==
  NoUpload \notin [pic : Nat, bytes_received : Nat, pos : Nat]

VARIABLES
  up,             \* the process is running
  images,         \* file_controller.images: the recorded ids, in order
  endpoint_ctx,   \* per machine: NoUpload or the upload in progress
  original,       \* IMG_ORIGINAL_DIR: <<id, extension>> -> segments
  thumbnail,      \* IMG_THUMBNAIL_DIR: id -> segments it was encoded from
  cache,          \* IMG_CACHE_DIR: id -> segments it was encoded from
  uploads,        \* history: the uploads admitted, in order
  acked,          \* history: the uploads answered 201 Created
  cut             \* history: the uploads that had a write() store only a part

disk == <<original, thumbnail, cache>>
vars == <<up, images, endpoint_ctx, original, thumbnail, cache, uploads, acked, cut>>

(***************************************************************************)
(* Uploads.  An upload is named by its position in `uploads`, which holds  *)
(* the fields of struct post_api_image that never change.                  *)
(***************************************************************************)
Upload == [my_idx : Nat, ft : FileTypes, content_length : Nat]
Pictures == 1..Len(uploads)
InProgress == {m \in Machines : endpoint_ctx[m] # NoUpload}
Pic(m) == endpoint_ctx[m].pic
PathOf(p) == <<uploads[p].my_idx, uploads[p].ft>>

\* The body of upload p as its client sent it.
Body(p) == [i \in 1..uploads[p].content_length |-> p]

(***************************************************************************)
(* Files.  Every open is O_CREAT | O_TRUNC; nothing is ever unlinked.  A   *)
(* descriptor writes at its own offset, so it leaves a hole of zeros when  *)
(* another open truncated the file underneath it.                          *)
(***************************************************************************)
Hole == 0
Torn == <<>>    \* a variant created but not written, or written in part

Put(dir, name, content) ==
  [n \in DOMAIN dir \cup {name} |-> IF n = name THEN content ELSE dir[n]]

\* Faulty: every write goes to the start of the file.
WriteAtStart(file, pos, n, p) ==
  [i \in 1..(IF Len(file) > n THEN Len(file) ELSE n) |->
     IF i <= n THEN p ELSE file[i]]

WriteAt(file, pos, n, p) ==
  [i \in 1..(IF Len(file) > pos + n THEN Len(file) ELSE pos + n) |->
     IF i \in (pos + 1)..(pos + n) THEN p
     ELSE IF i <= Len(file) THEN file[i] ELSE Hole]

\* May a write() of upload p store fewer bytes than it was given.
DiskFills(p) == p \in cut \/ Cardinality(cut) < MaxCut

\* How many of n bytes one write() call stores.
Accepted(p, n) == IF DiskFills(p) THEN 1..n ELSE {n}

\* The first write of an upload may also fail.
AcceptedFirst(p, n) == Accepted(p, n) \cup (IF StorageFails THEN {0} ELSE {})

\* What a variant file may hold once it was encoded from content and written
\* by a write() whose result is compared with 0 only.
Encodings(p, content) == IF DiskFills(p) THEN {content, Torn} ELSE {content}

Record(p, short) == cut' = IF short THEN cut \cup {p} ELSE cut

\* libvips recognises the format by the first bytes of the file.
Decodable(content) == Len(content) > 0 /\ content[1] # Hole

\* Faulty: the receive loop leaves after the last byte was read.
BodyMissingOrEqual(received, length) == received <= length

\* The condition of the receive loop: the body is not complete.
BodyMissing(received, length) == received < length

(***************************************************************************)
(* The end of an upload, once bytes_received has reached content_length:   *)
(* six effects in this order, of which a call performs all or a prefix.    *)
(*    1 truncate the thumbnail     4 write the compressed variant          *)
(*    2 write the thumbnail        5 answer 201                            *)
(*    3 truncate the compressed    6 record the id                         *)
(* A call that fails (no decodable image, or a file or encoder error)      *)
(* answers 500 after 0, 1, 2 or 3 of them; a process that dies may stop    *)
(* after any number of them.                                               *)
(***************************************************************************)
\* Faulty: 201 is answered as soon as the thumbnail is written.
EffectsAckEarly(p, n, thumb, compressed, short) ==
  LET id == uploads'[p].my_idx IN
  /\ thumbnail' = IF n < 1 THEN thumbnail
                  ELSE Put(thumbnail, id, IF n < 2 THEN Torn ELSE thumb)
  /\ cache' = IF n < 3 THEN cache
              ELSE Put(cache, id, IF n < 4 THEN Torn ELSE compressed)
  /\ acked' = IF n < 2 THEN acked ELSE acked \cup {p}
  /\ Record(p, short \/ (n > 1 /\ thumb = Torn) \/ (n > 3 /\ compressed = Torn))

Effects(p, n, thumb, compressed, short) ==
  LET id == uploads'[p].my_idx IN
  /\ thumbnail' = IF n < 1 THEN thumbnail
                  ELSE Put(thumbnail, id, IF n < 2 THEN Torn ELSE thumb)
  /\ cache' = IF n < 3 THEN cache
              ELSE Put(cache, id, IF n < 4 THEN Torn ELSE compressed)
  /\ acked' = IF n < 5 THEN acked ELSE acked \cup {p}
  /\ Record(p, short \/ (n > 1 /\ thumb = Torn) \/ (n > 3 /\ compressed = Torn))

Die ==
  /\ up' = FALSE
  /\ images' = <<>>
  /\ endpoint_ctx' = [m \in Machines |-> NoUpload]

Complete(m, p, content, short) ==
  \E thumb \in Encodings(p, content), compressed \in Encodings(p, content) :
    \/ /\ Decodable(content)
       /\ Effects(p, 6, thumb, compressed, short)
       /\ images' = RecordFile(images, uploads'[p].my_idx)
       /\ endpoint_ctx' = [endpoint_ctx EXCEPT ![m] = NoUpload]
       /\ UNCHANGED up
    \/ \E n \in 0..3 :
         /\ n > 0 => StorageFails /\ Decodable(content)
         /\ Effects(p, n, thumb, compressed, short)
         /\ endpoint_ctx' = [endpoint_ctx EXCEPT ![m] = NoUpload]
         /\ UNCHANGED <<up, images>>
    \/ \E n \in 1..5 :
         /\ MayCrash /\ Decodable(content)
         /\ Effects(p, n, thumb, compressed, short)
         /\ Die

(***************************************************************************)
(* First call of an upload: the length, the magic number, the id and the   *)
(* file.  The id is read from the catalogue now and recorded only by the   *)
(* last effect of the last call.  `first` segments came with the headers;  *)
(* more of them than content_length is answered 500, and when they cannot  *)
(* be written (stored = 0) the upload ends too.  Rejected requests (length *)
(* 0, too large or missing, unknown type) touch nothing.                   *)
(***************************************************************************)
StartUpload(m, ft, length, first, stored) ==
  LET p == Len(uploads) + 1
      id == GetNextIndex(images)
      content == WriteAt(<<>>, 0, stored, p)
  IN
  /\ up /\ endpoint_ctx[m] = NoUpload /\ Len(uploads) < MaxUploads
  /\ uploads' = Append(uploads, [my_idx |-> id, ft |-> ft, content_length |-> length])
  /\ original' = Put(original, <<id, ft>>, content)
  /\ \/ /\ stored > 0 /\ BodyMissing(first, length)
        /\ endpoint_ctx' = [endpoint_ctx EXCEPT ![m] =
             [pic |-> p, bytes_received |-> first, pos |-> stored]]
        /\ Record(p, stored < first)
        /\ UNCHANGED <<up, images, thumbnail, cache, acked>>
     \/ stored > 0 /\ first = length /\ Complete(m, p, content, stored < first)
     \/ /\ stored = 0 \/ first > length
        /\ UNCHANGED <<up, images, endpoint_ctx, thumbnail, cache, acked, cut>>

\* The process dies between the truncating open and the first write.
DieInStart(m, ft, length) ==
  LET id == GetNextIndex(images) IN
  /\ MayCrash /\ up /\ endpoint_ctx[m] = NoUpload /\ Len(uploads) < MaxUploads
  /\ uploads' = Append(uploads, [my_idx |-> id, ft |-> ft, content_length |-> length])
  /\ original' = Put(original, <<id, ft>>, <<>>)
  /\ Die
  /\ UNCHANGED <<thumbnail, cache, acked, cut>>

(***************************************************************************)
(* A later call: the loop receives and writes until EAGAIN or until the    *)
(* length is reached, then the upload is completed in the same call.       *)
(* bytes_received counts what was received, not what write() stored.       *)
(***************************************************************************)
ReceiveBody(m, n, stored) ==
  LET p == Pic(m)
      ctx == endpoint_ctx[m]
      received == ctx.bytes_received + n
      content == WriteAt(original[PathOf(p)], ctx.pos, stored, p)
  IN
  /\ up /\ endpoint_ctx[m] # NoUpload /\ stored \in Accepted(p, n)
  /\ original' = Put(original, PathOf(p), content)
  /\ UNCHANGED uploads
  /\ \/ /\ BodyMissing(received, uploads[p].content_length)
        /\ endpoint_ctx' = [endpoint_ctx EXCEPT ![m] =
             [pic |-> p, bytes_received |-> received, pos |-> ctx.pos + stored]]
        /\ Record(p, stored < n)
        /\ UNCHANGED <<up, images, thumbnail, cache, acked>>
     \/ received = uploads[p].content_length /\ Complete(m, p, content, stored < n)

(***************************************************************************)
(* The connection ends first: the client closes (recv returns 0), hangs up *)
(* (EPOLLHUP), is silent for a second (the 408 timer), or recv or write    *)
(* fails.  The machine frees endpoint_ctx and closes the file, which stays *)
(* on disk as far as it was written.                                       *)
(***************************************************************************)
DropUpload(m) ==
  /\ up /\ endpoint_ctx[m] # NoUpload
  /\ endpoint_ctx' = [endpoint_ctx EXCEPT ![m] = NoUpload]
  /\ UNCHANGED <<up, images, original, thumbnail, cache, uploads, acked, cut>>

Crash ==
  /\ MayCrash /\ up
  /\ Die
  /\ UNCHANGED <<original, thumbnail, cache, uploads, acked, cut>>

\* Faulty: the catalogue starts empty.
RestartEmpty ==
  /\ ~up
  /\ up' = TRUE
  /\ images' = <<>>
  /\ UNCHANGED <<endpoint_ctx, original, thumbnail, cache, uploads, acked, cut>>

\* main() again: the catalogue is rebuilt from the thumbnail directory.
Restart ==
  /\ ~up
  /\ up' = TRUE
  /\ images' = ControllerInit(DOMAIN thumbnail)
  /\ UNCHANGED <<endpoint_ctx, original, thumbnail, cache, uploads, acked, cut>>

Init ==
  /\ up = TRUE
  /\ images = <<>>
  /\ endpoint_ctx = [m \in Machines |-> NoUpload]
  /\ original = [n \in {} |-> <<>>]
  /\ thumbnail = [n \in {} |-> <<>>]
  /\ cache = [n \in {} |-> <<>>]
  /\ uploads = <<>>
  /\ acked = {}
  /\ cut = {}

Next ==
  \/ \E m \in Machines :
       \/ \E ft \in FileTypes, length \in 1..MaxSegments :
            \/ \E first \in 1..(length + 1) : \E stored \in AcceptedFirst(Len(uploads) + 1, first) :
                 StartUpload(m, ft, length, first, stored)
            \/ DieInStart(m, ft, length)
       \/ \E n \in 1..MaxSegments : \E stored \in 1..n :
            ReceiveBody(m, n, stored)
       \/ DropUpload(m)
  \/ Crash
  \/ Restart

Spec == Init /\ [][Next]_vars

-----------------------------------------------------------------------------
(***************************************************************************)
(* Properties.                                                             *)
(***************************************************************************)

\* Every variable has its type.  An upload in progress never holds its whole
\* body: the call that receives the last segment also completes the upload.
TypeOK ==
  /\ up \in BOOLEAN
  /\ images \in Seq(Nat)
  /\ uploads \in Seq(Upload)
  /\ endpoint_ctx \in [Machines -> {NoUpload} \cup
                         [pic : Nat, bytes_received : Nat, pos : Nat]]
  /\ \A m \in InProgress : /\ up
                            /\ Pic(m) \in Pictures
                            /\ PathOf(Pic(m)) \in DOMAIN original
                            /\ endpoint_ctx[m].bytes_received < uploads[Pic(m)].content_length
  /\ DOMAIN original \subseteq Nat \X FileTypes
  /\ DOMAIN thumbnail \subseteq Nat
  /\ DOMAIN cache \subseteq Nat
  /\ \A n \in DOMAIN original : original[n] \in Seq(Nat)
  /\ \A n \in DOMAIN thumbnail : thumbnail[n] \in Seq(Nat)
  /\ \A n \in DOMAIN cache : cache[n] \in Seq(Nat)
  /\ acked \subseteq Pictures /\ cut \subseteq Pictures

\* The ids on disk have no gap, whatever uploads overlap, fail or die: the
\* thumbnails are 1..k, and the running server has recorded all of them except
\* perhaps the last.  The cursor endpoints take a position of the catalogue
\* for an id, and the next id is computed from the last one only.
DenseIds ==
  \E k \in 0..Len(uploads) :
    /\ DOMAIN thumbnail = 1..k
    /\ up => Recorded(images) \in {1..k, 1..(k - 1)}

\* A picture answered 201 is never forgotten: its id has all three variants
\* and, whenever the server runs, is in the catalogue, also when the process
\* died between the answer and file_controller_record_file.
AckedIsKept ==
  \A p \in acked :
    /\ uploads[p].my_idx \in DOMAIN thumbnail \cap DOMAIN cache
    /\ PathOf(p) \in DOMAIN original
    /\ up => uploads[p].my_idx \in Recorded(images)

\* An upload whose id no other upload was given.
Alone(p) == \A q \in Pictures \ {p} : uploads[q].my_idx # uploads[p].my_idx

HoldsBody(p) ==
  /\ original[PathOf(p)] = Body(p)
  /\ thumbnail[uploads[p].my_idx] = Body(p)
  /\ cache[uploads[p].my_idx] = Body(p)

\* Uploads that share no id never disturb each other: the files of a picture
\* answered 201 hold what its client sent and nothing else, at all times after
\* the answer, if its id was given to no other upload and no write() of its own
\* met a full disk.
AloneIsIntact == \A p \in acked \ cut : Alone(p) => HoldsBody(p)

\* A picture answered 201 keeps its three files for ever.  True when uploads
\* do not overlap, although ids of failed uploads are given out again.
AckedIsIntact == \A p \in acked : HoldsBody(p)

\* The id of a new upload was not promised to an earlier one: its truncating
\* open cannot destroy an acknowledged original.
NextIdIsFresh ==
  up => \A p \in acked : uploads[p].my_idx # GetNextIndex(images)

-----------------------------------------------------------------------------
(***************************************************************************)
(* What the store promises a client that uploads one picture at a time is  *)
(* an Album.  The album a client can page through is the thumbnails of the *)
(* catalogue; while the process is down, it is what the next start finds.  *)
(***************************************************************************)
Listed == IF up THEN images ELSE ControllerInit(DOMAIN thumbnail)

Promised == {Body(p) : p \in acked}

Store == INSTANCE Album WITH
           album <- [i \in 1..Len(Listed) |-> thumbnail[Listed[i]]],
           promised <- Promised

\* The store implements the album: positions are never reassigned, a picture
\* once listed is never replaced, and what was answered 201 stays listed.
ImplementsAlbum == Store!Spec
=============================================================================
