------------------------------- MODULE Sending -------------------------------
(***************************************************************************)
(* What the endpoints that send files share: a non-blocking socket, the    *)
(* files they opened, and what happens between two calls of an endpoint    *)
(* (backend/main.c, backend/src/common-response.c).  An endpoint whose     *)
(* socket is full returns NEED_WRITE_MORE_DATA and is called again when    *)
(* epoll reports room; what it must remember is in its endpoint_ctx.       *)
(*                                                                         *)
(* An action is one write() or sendfile().  Other requests run between two *)
(* calls only; one of them may be an upload that was given the id of a     *)
(* file being sent and now truncates and rewrites it.                      *)
(***************************************************************************)
EXTENDS Integers, Sequences, SequencesExt

CONSTANTS
  HeaderLen,      \* bytes of the headers of a response
  CannedLen,      \* BUFFER: bytes of a canned response, padded with zeros
  Capacity,       \* size of the socket's send buffer
  LowWater,       \* free bytes from which epoll reports EPOLLOUT
  MaxSize,        \* bound: bytes of a file
  Rewrites        \* may a file be written again while it is sent

\* The headers, or a canned response, are the first bytes of a connection, and
\* its empty buffer has room for them and for a byte more.
ASSUME SocketAssumption ==
  /\ HeaderLen \in Nat \ {0} /\ CannedLen \in Nat \ {0} /\ Capacity \in Nat
  /\ Capacity > HeaderLen /\ Capacity >= CannedLen /\ LowWater \in 1..Capacity
ASSUME FilesAssumption == MaxSize \in Nat /\ Rewrites \in BOOLEAN

VARIABLES
  sizes,          \* file.size of each open file, from fstat
  length,         \* how long each file is now
  room,           \* free space in the send buffer
  peer,           \* "there", or "gone": the connection was reset
  status,         \* of the call: "running", or what the last one returned
  wire,           \* history: every byte written, in order
  rewritten       \* history: the files that were rewritten meanwhile

files == <<sizes, length, rewritten>>
socket == <<room, peer, wire>>

Lim == Len(sizes)
Running == status = "running"
Ended == status \in {"finished", "failed", "timed_out", "dropped"}

Smaller(a, b) == IF a < b THEN a ELSE b

\* Bytes from..to of a part of a response, which may belong to a file.
Bytes(part, file, from, to) ==
  [k \in 1..(to - from) |-> [part |-> part, file |-> file, byte |-> from + k]]

\* A write() or sendfile() of bytes that the buffer has room for.
Put(bytes) ==
  /\ peer = "there" /\ Len(bytes) > 0
  /\ wire' = wire \o bytes
  /\ room' = room - Len(bytes)
  /\ UNCHANGED peer

Canned(name) == Bytes(name, 0, 0, CannedLen)

\* bad_request, request_timeout and the like: one write() of the whole buffer.
\* It stores what there is room for, and nobody looks at its result.
WriteCanned(name) ==
  LET n == Smaller(room, CannedLen) IN
  \/ n > 0 /\ Put(SubSeq(Canned(name), 1, n))
  \/ (n = 0 \/ peer = "gone") /\ UNCHANGED socket

(***************************************************************************)
(* Between two calls.                                                      *)
(***************************************************************************)
\* EPOLLOUT: the endpoint is called again.
Resume ==
  /\ status = "blocked" /\ peer = "there" /\ room >= LowWater
  /\ status' = "running"
  /\ UNCHANGED <<files, socket>>

\* EPOLLHUP: the machine is reset, and with it the connection.
HangUp ==
  /\ status = "blocked" /\ peer = "gone"
  /\ status' = "dropped"
  /\ UNCHANGED <<files, socket>>

\* Faulty: the connection stays open after the 408.
TimeoutStaysOpen ==
  /\ status = "blocked"
  /\ WriteCanned("timeout")
  /\ UNCHANGED <<files, status>>

\* The machine's timer: a 408 goes out whatever was sent before, and the
\* connection is closed.  The timer may also win over an EPOLLOUT.
Timeout ==
  /\ status = "blocked"
  /\ WriteCanned("timeout")
  /\ status' = "timed_out"
  /\ UNCHANGED files

Drain ==
  /\ peer = "there" /\ room < Capacity
  /\ \E r \in (room + 1)..Capacity : room' = r
  /\ UNCHANGED <<files, peer, status, wire>>

Leave ==
  /\ peer = "there" /\ peer' = "gone"
  /\ UNCHANGED <<files, room, status, wire>>

Rewrite ==
  /\ Rewrites /\ status = "blocked"
  /\ \E i \in 1..Lim, n \in 0..MaxSize :
       /\ length' = [length EXCEPT ![i] = n]
       /\ rewritten' = rewritten \cup {i}
  /\ UNCHANGED <<sizes, socket, status>>

Between == Resume \/ HangUp \/ Timeout \/ Drain \/ Leave \/ Rewrite

SendingInit ==
  /\ length = sizes /\ rewritten = {}
  /\ room = Capacity /\ peer = "there" /\ status = "running" /\ wire = <<>>
=============================================================================
