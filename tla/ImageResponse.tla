---------------------------- MODULE ImageResponse ----------------------------
(***************************************************************************)
(* One response of GET /api/image: get_api_image of                        *)
(* backend/src/api-image.c.  The first call looks the picture up, writes   *)
(* the headers without looking at the result and sends a first piece of    *)
(* the file; later calls send the rest.  The offset of the next piece is   *)
(* what the first sendfile returned, its -1 included.                      *)
(***************************************************************************)
EXTENDS Sending

VARIABLES
  step,           \* where the call is: "open", "headers", "first" or "rest"
  refused,        \* answered with a canned 400
  fd,             \* ctx->f.fd: "open", or "none" when open_file failed
  offset          \* ctx->offset

image_ctx == <<step, refused, fd, offset>>

Picture == ToSet(Bytes("header", 0, 0, HeaderLen)) \cup ToSet(Bytes("data", 1, 0, sizes[1]))
Answer == IF refused THEN ToSet(Canned("bad_request")) ELSE Picture

SendingAt(s) == Running /\ step = s
GoTo(s) == step' = s /\ UNCHANGED <<files, status, refused, fd, offset>>

ReturnImage(result) == status' = result /\ UNCHANGED <<files, refused, fd>>

\* The variant is not supported or the picture is not found: answered 400.
Refuse ==
  /\ SendingAt("open")
  /\ WriteCanned("bad_request")
  /\ status' = "finished" /\ refused' = TRUE
  /\ UNCHANGED <<files, step, fd, offset>>

\* The directory entry was found.  When it cannot be opened or its size not be
\* read, the file has descriptor -1 and size 0, and the response goes on.
OpenImage ==
  /\ SendingAt("open")
  /\ \/ UNCHANGED <<fd, files>>
     \/ fd' = "none" /\ sizes' = <<0>> /\ length' = <<0>> /\ UNCHANGED rewritten
  /\ step' = "headers"
  /\ UNCHANGED <<socket, status, refused, offset>>

\* One write(), asserted not to return 0.
WriteImageHeaders ==
  /\ SendingAt("headers") /\ GoTo("first")
  /\ \/ Put(Bytes("header", 0, 0, HeaderLen))
     \/ peer = "gone" /\ UNCHANGED socket

(***************************************************************************)
(* sendfile(): -1, or the number of bytes it sent, 0 at the end of the     *)
(* file.                                                                   *)
(***************************************************************************)
Sendable(from) == Smaller(room, Smaller(sizes[1], length[1]) - from)

Sendfile(from) ==
  IF fd = "none" \/ peer = "gone" \/ from < 0 THEN -1
  ELSE IF from >= length[1] \/ from >= sizes[1] THEN 0
  ELSE IF room = 0 THEN -1
  ELSE Sendable(from)

Sent(from, n) ==
  IF n > 0 THEN Put(Bytes("data", 1, from, from + n)) ELSE UNCHANGED socket

\* Faulty: the first piece is not counted.
SendFirstNotCounted ==
  LET n == Sendfile(0) IN
  /\ SendingAt("first") /\ Sent(0, n)
  /\ offset' = 0 /\ step' = "rest"
  /\ ReturnImage(CASE n = 0 -> "failed"
                   [] n = sizes[1] -> "finished"
                   [] OTHER -> "blocked")

SendFirst ==
  LET n == Sendfile(0) IN
  /\ SendingAt("first") /\ Sent(0, n)
  /\ offset' = n /\ step' = "rest"
  /\ ReturnImage(CASE n = 0 -> "failed"
                   [] n = sizes[1] -> "finished"
                   [] OTHER -> "blocked")

\* Faulty: the end of a file that became shorter ends the response.
SendRestAnyEnd ==
  LET n == Sendfile(offset)
      full == peer = "there" /\ room = 0
  IN
  /\ SendingAt("rest") /\ Sent(offset, n)
  /\ UNCHANGED step
  /\ IF n > 0
     THEN offset' = offset + n /\ UNCHANGED <<files, status, refused, fd>>
     ELSE /\ UNCHANGED offset
          /\ ReturnImage(IF n = 0 THEN "finished" ELSE IF full THEN "blocked" ELSE "failed")

\* Faulty: every error is taken for a full socket.
SendRestRetries ==
  LET n == Sendfile(offset) IN
  /\ SendingAt("rest") /\ Sent(offset, n)
  /\ UNCHANGED step
  /\ IF n > 0
     THEN offset' = offset + n /\ UNCHANGED <<files, status, refused, fd>>
     ELSE /\ UNCHANGED offset
          /\ ReturnImage(CASE offset = sizes[1] -> "finished"
                           [] offset # sizes[1] /\ n < 0 -> "blocked"
                           [] OTHER -> "failed")

\* One round of the loop of the later calls.
SendRest ==
  LET n == Sendfile(offset)
      full == peer = "there" /\ room = 0 /\ offset >= 0
  IN
  /\ SendingAt("rest") /\ Sent(offset, n)
  /\ UNCHANGED step
  /\ IF n > 0
     THEN offset' = offset + n /\ UNCHANGED <<files, status, refused, fd>>
     ELSE /\ UNCHANGED offset
          /\ ReturnImage(CASE offset = sizes[1] -> "finished"
                           [] offset # sizes[1] /\ n < 0 /\ full -> "blocked"
                           [] OTHER -> "failed")

ImageCall ==
  Refuse \/ OpenImage \/ WriteImageHeaders \/ SendFirst \/ SendRest

ImageInit ==
  step = "open" /\ refused = FALSE /\ fd = "open" /\ offset = 0

ImageTypes ==
  /\ step \in {"open", "headers", "first", "rest"} /\ refused \in BOOLEAN
  /\ fd \in {"open", "none"} /\ offset \in -1..MaxSize
=============================================================================
