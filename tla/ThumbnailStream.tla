--------------------------- MODULE ThumbnailStream ---------------------------
(***************************************************************************)
(* One response of the batch endpoint: get_api_image_cursor of             *)
(* backend/src/api-image.c from the moment its context exists.  The        *)
(* headers, then for each thumbnail its metadata and its bytes, go to the  *)
(* socket, and a call goes on where the last one found it full.            *)
(***************************************************************************)
EXTENDS Sending

CONSTANTS MetaLen         \* bytes of one img_metadata

ASSUME MetaAssumption == MetaLen \in Nat \ {0}

VARIABLES
  headers_written, idx_metadata_written, metadata_off, idx_img_written, img_off,
  sent            \* local variable: bytes of the headers written by this call

ctx == <<headers_written, idx_metadata_written, metadata_off, idx_img_written, img_off>>

Image == idx_img_written + 1       \* the image in progress, counted from 1

\* The bytes that the headers' Content-Length and the format of the batch
\* announce: for each thumbnail its metadata, and then its data.
Frames ==
  UNION {ToSet(Bytes("meta", i, 0, MetaLen)) \cup ToSet(Bytes("data", i, 0, sizes[i])) : i \in 1..Lim}
Batch == ToSet(Bytes("header", 0, 0, HeaderLen)) \cup Frames

(***************************************************************************)
(* What the call does next, in the order in which the code tries it.       *)
(***************************************************************************)
AtHeaders == Running /\ ~headers_written
AtMetadata == Running /\ headers_written /\ Image <= Lim /\ idx_metadata_written < Image
AtData == /\ Running /\ headers_written /\ Image <= Lim /\ idx_metadata_written = Image
          /\ img_off < sizes[Image]
AtEndOfFile == AtData /\ img_off >= length[Image]
Writing == AtHeaders \/ AtMetadata \/ (AtData /\ ~AtEndOfFile)

WriteHeaders ==
  LET n == Smaller(room, HeaderLen - sent) IN
  /\ AtHeaders
  /\ Put(Bytes("header", 0, sent, sent + n))
  /\ sent' = sent + n
  /\ headers_written' = (sent + n = HeaderLen)
  /\ UNCHANGED <<files, status, idx_metadata_written, metadata_off, idx_img_written, img_off>>

\* Faulty: the offset is not reset for the next record.
WriteMetadataNoReset ==
  LET n == Smaller(room, MetaLen - metadata_off)
      whole == metadata_off + n = MetaLen
  IN
  /\ AtMetadata
  /\ Put(Bytes("meta", Image, metadata_off, metadata_off + n))
  /\ idx_metadata_written' = idx_metadata_written + (IF whole THEN 1 ELSE 0)
  /\ metadata_off' = metadata_off + n
  /\ UNCHANGED <<files, status, headers_written, idx_img_written, img_off, sent>>

WriteMetadata ==
  LET n == Smaller(room, MetaLen - metadata_off)
      whole == metadata_off + n = MetaLen
  IN
  /\ AtMetadata
  /\ Put(Bytes("meta", Image, metadata_off, metadata_off + n))
  /\ idx_metadata_written' = idx_metadata_written + (IF whole THEN 1 ELSE 0)
  /\ metadata_off' = IF whole THEN 0 ELSE metadata_off + n
  /\ UNCHANGED <<files, status, headers_written, idx_img_written, img_off, sent>>

SendImage ==
  LET n == Smaller(room, Smaller(sizes[Image], length[Image]) - img_off) IN
  /\ AtData /\ ~AtEndOfFile
  /\ Put(Bytes("data", Image, img_off, img_off + n))
  /\ img_off' = img_off + n
  /\ UNCHANGED <<files, status, headers_written, idx_metadata_written, metadata_off,
                 idx_img_written, sent>>

\* The file's size was reached, or sendfile met its end earlier.
NextImage ==
  /\ Running /\ headers_written /\ Image <= Lim /\ idx_metadata_written = Image
  /\ img_off = sizes[Image] \/ AtEndOfFile
  /\ idx_img_written' = idx_img_written + 1
  /\ img_off' = 0
  /\ UNCHANGED <<files, socket, status, headers_written, idx_metadata_written,
                 metadata_off, sent>>

Return(result) ==
  /\ status' = result
  /\ sent' = 0
  /\ UNCHANGED <<files, socket, ctx>>

\* Faulty: a full buffer ends the response.
BlockAsError == Writing /\ peer = "there" /\ room = 0 /\ Return("failed")

Block == Writing /\ peer = "there" /\ room = 0 /\ Return("blocked")
Fail == Writing /\ peer = "gone" /\ Return("failed")

Finish == Running /\ headers_written /\ Image > Lim /\ Return("finished")

BatchCall ==
  WriteHeaders \/ WriteMetadata \/ SendImage \/ NextImage \/ Block \/ Fail \/ Finish

BatchInit ==
  /\ headers_written = FALSE
  /\ idx_metadata_written = 0 /\ metadata_off = 0
  /\ idx_img_written = 0 /\ img_off = 0
  /\ sent = 0

BatchTypes ==
  /\ headers_written \in BOOLEAN
  /\ idx_metadata_written \in 0..Lim /\ metadata_off \in 0..(MetaLen - 1)
  /\ idx_img_written \in 0..Lim /\ img_off \in 0..MaxSize
  /\ sent \in 0..HeaderLen /\ (~Running => sent = 0)
=============================================================================
