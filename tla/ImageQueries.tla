---------------------------- MODULE ImageQueries ----------------------------
(***************************************************************************)
(* The requests that read the store, as operators over its state: they     *)
(* change nothing but their own endpoint_ctx.  get_api_image (one variant  *)
(* of one id), get_api_image_cursor (a batch of thumbnails) and            *)
(* get_api_image_cursor_start, of backend/src/api-image.c.                 *)
(***************************************************************************)
EXTENDS ImageStore

\* The ids and names open_img_at may open for a request of id, one of which
\* it takes in readdir order.
OriginalsFor(id) ==
  IF ~IsRegistered(images, id) THEN {}
  ELSE {n \in DOMAIN original : n[1] \in Candidates({n[1]}, id)}

ThumbnailsFor(id) ==
  IF ~IsRegistered(images, id) THEN {} ELSE Candidates(DOMAIN thumbnail, id)

CompressedFor(id) ==
  IF ~IsRegistered(images, id) THEN {} ELSE Candidates(DOMAIN cache, id)

(***************************************************************************)
(* The batch endpoint.  The limit is cut to 16 bits before it is checked.  *)
(***************************************************************************)
Rejected == [status |-> 400, ids |-> <<>>]

CursorStart == GetLength(images)

\* Faulty: current is not compared with the number of images.
CursorReplyUnchecked(current, limit) ==
  LET lim == limit % 65536 IN
  IF current = 0 \/ lim = 0 \/ current < lim
  THEN Rejected
  ELSE [status |-> 200, ids |-> GetBatch(images, current, lim)]

CursorReply(current, limit) ==
  LET lim == limit % 65536 IN
  IF current = 0 \/ lim = 0 \/ current < lim \/ current > CursorStart
  THEN Rejected
  ELSE [status |-> 200, ids |-> GetBatch(images, current, lim)]

-----------------------------------------------------------------------------
\* The positions and limits tried: around the catalogue's length, and around
\* the wrap of a 16-bit limit.
Positions == 0..(MaxUploads + 1)
Limits == Positions \cup 65535..65538

\* No request, whatever its current and limit, reads outside the recorded ids,
\* and every thumbnail of an accepted batch exists: its file can be opened.
BatchInBounds ==
  up => \A current \in Positions, limit \in Limits :
          LET ids == CursorReply(current, limit).ids IN
          \A k \in 1..Len(ids) : ids[k] \in DOMAIN thumbnail

\* A batch of limit pictures from current lists exactly the ids current,
\* current - 1, and so on, each once: what a client that pages down relies on.
\* True when uploads do not overlap.
BatchListsItsWindow ==
  up => \A current \in 1..CursorStart, limit \in 1..CursorStart :
          limit <= current =>
            CursorReply(current, limit).ids = [k \in 1..limit |-> current + 1 - k]

\* A recorded id is found by the binary search.
RecordedIsFound == \A id \in Recorded(images) : IsRegistered(images, id)

\* A request of a recorded id can only be answered with the thumbnail of that id.
ThumbnailIsOfItsId == \A id \in Recorded(images) : ThumbnailsFor(id) \subseteq {id}
=============================================================================
