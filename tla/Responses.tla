------------------------------ MODULE Responses ------------------------------
(***************************************************************************)
(* A response on one connection, of either endpoint that sends files, from *)
(* its first call to the end of the connection: ThumbnailStream or         *)
(* ImageResponse, with the calls of process_work (backend/src/server.c)    *)
(* and what Sending says may happen between them.                          *)
(***************************************************************************)
EXTENDS ThumbnailStream, ImageResponse

CONSTANTS MaxBatch        \* bound: thumbnails of a batch

ASSUME BatchAssumption == MaxBatch \in Nat \ {0}

VARIABLES endpoint        \* the route's handler: "cursor" or "image"

endpoint_ctx == <<ctx, sent, image_ctx>>
vars == <<endpoint, files, socket, status, endpoint_ctx>>

\* api_jump_table of process_work.
Call ==
  \/ endpoint = "cursor" /\ BatchCall /\ UNCHANGED image_ctx
  \/ endpoint = "image" /\ ImageCall /\ UNCHANGED <<ctx, sent>>

Init ==
  /\ \/ /\ endpoint = "cursor"
        /\ \E n \in 1..MaxBatch : sizes \in [1..n -> 0..MaxSize]
     \/ endpoint = "image" /\ sizes \in [1..1 -> 0..MaxSize]
  /\ SendingInit /\ BatchInit /\ ImageInit

Next ==
  \/ Call /\ UNCHANGED endpoint
  \/ Between /\ UNCHANGED <<endpoint, endpoint_ctx>>

Spec == Init /\ [][Next]_vars

\* The loop runs, and a peer that is there reads.
Fairness ==
  /\ WF_vars(Call /\ UNCHANGED endpoint)
  /\ WF_vars((Resume \/ HangUp) /\ UNCHANGED <<endpoint, endpoint_ctx>>)
  /\ WF_vars(Drain /\ UNCHANGED <<endpoint, endpoint_ctx>>)
FairSpec == Spec /\ Fairness

-----------------------------------------------------------------------------
(***************************************************************************)
(* Properties.                                                             *)
(***************************************************************************)

\* Every variable has its type; a batch call that returned has forgotten how
\* much of the headers it wrote.
TypeOK ==
  /\ endpoint \in {"cursor", "image"}
  /\ sizes \in Seq(0..MaxSize) /\ length \in [1..Lim -> 0..MaxSize]
  /\ rewritten \subseteq 1..Lim
  /\ room \in 0..Capacity
  /\ peer \in {"there", "gone"}
  /\ status \in {"running", "blocked"} \/ Ended
  /\ BatchTypes /\ ImageTypes

\* a comes before b in what a connection may carry.
Before(a, b) ==
  \/ b.part = "timeout" /\ a.part # "timeout"
  \/ a.file < b.file
  \/ a.file = b.file /\ IF a.part = b.part THEN a.byte < b.byte ELSE b.part = "data"

\* Even when files are truncated and rewritten while the response is under way,
\* bytes can only be missing: none is sent twice or out of order, and nothing
\* follows the 408 of the timer.
OnlyMissing == \A k \in 1..(Len(wire) - 1) : Before(wire[k], wire[k + 1])

\* What the response announces, and what of the wire is not a 408.
Response == IF endpoint = "cursor" THEN Batch ELSE Answer
Answered == {b \in ToSet(wire) : b.part # "timeout"}
Timed == {b \in ToSet(wire) : b.part = "timeout"}

\* The bytes without the data of the files that were rewritten.
Steady(bytes) == {b \in bytes : b.part # "data" \/ b.file \notin rewritten}

\* The bytes are those of whole up to some place.
BeginningOf(bytes, whole) ==
  bytes \subseteq whole /\ \A a \in whole, b \in bytes : Before(a, b) => a \in bytes

\* However the writes are cut by a slow reader, the bytes on the wire, which
\* OnlyMissing says are in order, are at every moment the beginning of the
\* announced response, but for the data of files rewritten meanwhile; a 408 of
\* the timer may only follow when the response is given up.
WireIsResponse ==
  /\ BeginningOf(Steady(Answered), Steady(Response))
  /\ BeginningOf(Timed, ToSet(Canned("timeout")))
  /\ Timed # {} => status = "timed_out"

\* An endpoint returns FINISHED only when everything it announced was written
\* to its last byte, but for the data of a batch's rewritten files, or a canned
\* answer to a peer that is gone.  A picture that cannot be sent to its end,
\* because its file cannot be opened or has become shorter, is never reported as
\* finished.
FinishedIsWhole ==
  status = "finished" /\ ~(refused /\ peer = "gone") =>
    /\ Steady(Answered) = Steady(Response) /\ Timed = {}
    /\ endpoint = "image" /\ ~refused => fd = "open" /\ Answered = Response

\* No response is given up because the socket is full: one fails only for a peer
\* that has gone, or for a picture that cannot be opened, is empty, or was
\* rewritten while it was sent.
FailuresAreReal ==
  status = "failed" =>
    \/ peer = "gone"
    \/ endpoint = "image" /\ (fd = "none" \/ sizes[1] = 0 \/ rewritten # {})

\* Every response ends: written to its end, failed, timed out, or dropped
\* because its peer has gone.
Concluded == <>Ended
=============================================================================
