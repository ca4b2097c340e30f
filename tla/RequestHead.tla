----------------------------- MODULE RequestHead -----------------------------
(***************************************************************************)
(* Reading the head of one request: server_job of backend/src/server.c     *)
(* with process_request_line, process_headers, find_carriage               *)
(* (backend/src/defines.c), the routes and the header validators, until    *)
(* the request is answered or handed to its endpoint.                      *)
(*                                                                         *)
(* The bytes of a request arrive in pieces.  Every iteration of            *)
(* server_job's loop reads what has arrived, at most BUFFER - 1 bytes, and *)
(* processes it: an action below is one such iteration.  Only the fields   *)
(* of server_ctx and of its cursor live on to the next one; the buffer     *)
(* does not, and neither do the local variables that look for the blank    *)
(* line.                                                                   *)
(*                                                                         *)
(* The stream is a sequence of characters.  A header is a key, which is    *)
(* one of them ("length" or another), and a value of any length.  A        *)
(* request line is matched by a route once the character Url is in the     *)
(* buffer.                                                                 *)
(***************************************************************************)
EXTENDS Integers, Sequences, FiniteSets

CONSTANTS
  BUFFER,           \* size of the read buffer
  LineLengths,      \* lengths of a request line, without its CRLF
  HeaderLengths,    \* lengths of a header, without its CRLF
  MaxHeaders,       \* bound: headers of a request
  Bodies            \* what may follow the head

CR == "CR"
LF == "LF"
Url == "url"        \* the end of the URL and the blank after it
Text == "text"      \* any other character of a line or a body

\* The headers of a client: a Content-Length, one whose value is no number,
\* and any other header.
Header(key, value, length) == [i \in 1..length |-> IF i = 1 THEN key ELSE value]
ContentLengths == {Header("length", "digits", l) : l \in HeaderLengths}
BadContentLengths == {Header("length", Text, l) : l \in HeaderLengths}
OtherHeaders == {Header(Text, Text, l) : l \in HeaderLengths}
Headers == ContentLengths \cup BadContentLengths \cup OtherHeaders

ASSUME BufferAssumption == BUFFER \in Nat /\ BUFFER > 4
ASSUME LineAssumption == \A n \in LineLengths : n \in 2..(BUFFER - 2)
ASSUME HeaderAssumption == \A l \in HeaderLengths : l \in Nat /\ l > 1
ASSUME BoundsAssumption == MaxHeaders \in Nat
ASSUME BodiesAssumption == \A b \in Bodies : b \in Seq({CR, LF, Text})

VARIABLES
  request,          \* the client's request
  stream,           \* what the client sends: its characters
  arrived,          \* characters that reached the socket's buffer
  read,             \* characters the server has read of them
  state,            \* server_machine.state
  curr,             \* cursor.curr between two reads
  memory,           \* cursor.memory: the unfinished line
  completed,        \* completed_headers: is bit 0 set
  headers,          \* server_machine.headers
  answer,           \* status of the error answered, or NotYet
  body,             \* characters consumed before the endpoint's body, or NotYet
  parsable          \* history: no read so far was cut at a place that confuses it

vars == <<request, stream, arrived, read, state, curr, memory, completed, headers,
          answer, body, parsable>>

NotYet == -1

(***************************************************************************)
(* The client's request.                                                   *)
(***************************************************************************)
Request == [method : {"GET", "POST"}, line : LineLengths,
            headers : UNION {[1..n -> Headers] : n \in 0..MaxHeaders}, body : Bodies]

\* Where the CR behind each header is; header 0 is the request line.
LineEnds(r) ==
  LET end[k \in 0..Len(r.headers)] ==
        IF k = 0 THEN r.line + 1 ELSE end[k - 1] + Len(r.headers[k]) + 2
  IN  end

\* A line break behind every line, and the blank line behind the last.
HeadOf(r) ==
  LET end == LineEnds(r)
      last == end[Len(r.headers)]
      Carriages == {end[k] : k \in 0..Len(r.headers)} \cup {last + 2}
      HeaderAt(i) == CHOOSE k \in 1..Len(r.headers) : i \in (end[k - 1] + 2)..(end[k] - 1)
  IN  [i \in 1..(last + 3) |->
         IF i \in Carriages THEN CR
         ELSE IF i - 1 \in Carriages THEN LF
         ELSE IF i = r.line - 1 THEN Url
         ELSE IF i <= r.line THEN Text
         ELSE r.headers[HeaderAt(i)][i - end[HeaderAt(i) - 1] - 1]]

StreamOf(r) == HeadOf(r) \o r.body
HeadEnd == Len(stream) - Len(request.body)

\* The head gets to a place from which the rest can be parsed: the first piece
\* holds the request line and a CR beyond it, every later piece holds a CR, and
\* the blank line is not cut.
CutWell(from, to) ==
  \/ from >= HeadEnd
  \/ /\ \E i \in (IF from = 0 THEN request.line + 2 ELSE from + 1)..to : stream[i] = CR
     /\ to \notin (HeadEnd - 3)..(HeadEnd - 1)

(***************************************************************************)
(* One iteration: the bytes it reads.                                      *)
(***************************************************************************)
Smaller(a, b) == IF a < b THEN a ELSE b

n == Smaller(BUFFER - 1, arrived - read)
read_buffer == SubSeq(stream, read + 1, read + n)

Answered == answer # NotYet
Dispatched == body # NotYet
Overflown == state = "OVERFLOWN"

Read ==
  /\ ~Answered /\ ~Dispatched /\ ~Overflown /\ n > 0
  /\ read' = read + n
  /\ parsable' = (parsable /\ CutWell(read, read + n))
  /\ UNCHANGED <<request, stream, arrived>>

\* An error is answered.  The machine is reset next, so nothing else that the
\* iteration left in it is kept.
Answer(status) ==
  /\ state' = "ENDING" /\ answer' = status
  /\ UNCHANGED <<curr, memory, completed, headers, body>>

\* check_url: a route's regular expression matches somewhere in the buffer.
Matched == \E i \in 1..n : read_buffer[i] = Url

\* Faulty: also a line break that was passed counts.
FindCarriageAnywhere(at) == \E i \in 1..n : read_buffer[i] = CR

\* find_carriage: is there a CR from position at on (counted from 0).
FindCarriage(at) == \E i \in (at + 1)..n : read_buffer[i] = CR

\* The position after the first CR.
AfterCarriage ==
  CHOOSE i \in 1..n : read_buffer[i] = CR /\ \A j \in 1..(i - 1) : read_buffer[j] # CR

InLine == state = "PROCESSING_REQUEST_LINE"

NotFound == Read /\ InLine /\ ~Matched /\ Answer(404)

BadLine == Read /\ InLine /\ Matched /\ ~FindCarriage(0) /\ Answer(400)

\* The iteration goes on to the headers, or is in them, from position start.
InHeaders(start) ==
  \/ InLine /\ Matched /\ FindCarriage(0) /\ start = AfterCarriage
  \/ state = "PROCESSING_HEADERS" /\ start = curr

(***************************************************************************)
(* The loop over the characters.  last_char and skips start anew with      *)
(* every read.  A completed line is offered to the route's headers: a      *)
(* POST requires a Content-Length, once; the other routes look at none.    *)
(***************************************************************************)
\* validator_header_key and validator_header_content.
GoodHeader(line) == request.method = "POST" /\ line \in ContentLengths

\* Faulty: the unfinished line is forgotten between two reads.
ScanStartEmpty ==
  [memory |-> <<>>, completed |-> completed, headers |-> headers,
   last_char |-> "", skips |-> 0, bad |-> FALSE, over |-> FALSE]

ScanStart ==
  [memory |-> memory, completed |-> completed, headers |-> headers,
   last_char |-> "", skips |-> 0, bad |-> FALSE, over |-> FALSE]

BlankLine(s) == s.last_char = LF /\ s.skips = 4
Stopped(s) == s.bad \/ s.over \/ BlankLine(s)

\* Faulty: that a header was seen is not remembered.
EndLineBitNotSet(s) ==
  LET ended == [s EXCEPT !.memory = <<>>, !.last_char = CR, !.skips = @ + 1] IN
  IF ~GoodHeader(s.memory) THEN ended
  ELSE [ended EXCEPT !.headers = Append(@, s.memory)]

\* Faulty: the line that ended is not cleared from the memory.
EndLineKeepsMemory(s) ==
  LET ended == [s EXCEPT !.last_char = CR, !.skips = @ + 1] IN
  IF ~GoodHeader(s.memory) THEN ended
  ELSE IF s.completed THEN [s EXCEPT !.bad = TRUE]
  ELSE [ended EXCEPT !.completed = TRUE, !.headers = Append(@, s.memory)]

EndLine(s) ==
  LET ended == [s EXCEPT !.memory = <<>>, !.last_char = CR, !.skips = @ + 1] IN
  IF ~GoodHeader(s.memory) THEN ended
  ELSE IF s.completed THEN [s EXCEPT !.bad = TRUE]
  ELSE [ended EXCEPT !.completed = TRUE, !.headers = Append(@, s.memory)]

\* The memory has BUFFER characters; that there is one left is not checked.
Remember(s, char) ==
  IF Len(s.memory) = BUFFER THEN [s EXCEPT !.over = TRUE]
  ELSE [s EXCEPT !.memory = Append(@, char), !.last_char = "", !.skips = 0]

\* Faulty: an ordinary character does not start the count anew.
StepKeepsSkips(s, char) ==
  CASE char = CR -> EndLine(s)
    [] char = LF -> [s EXCEPT !.last_char = LF, !.skips = @ + 1]
    [] OTHER     -> [s EXCEPT !.memory = Append(@, char), !.last_char = ""]

Step(s, char) ==
  CASE char = CR -> EndLine(s)
    [] char = LF -> [s EXCEPT !.last_char = LF, !.skips = @ + 1]
    [] OTHER     -> Remember(s, char)

\* The scan of the buffer from start, and how many characters it consumed.
Scan(start) ==
  LET scan[i \in start..n] ==
        IF i = start THEN [s |-> ScanStart, at |-> start]
        ELSE LET before == scan[i - 1] IN
             IF Stopped(before.s) THEN before
             ELSE [s |-> Step(before.s, read_buffer[i]), at |-> i]
  IN  scan[n]

Missing(s) == request.method = "POST" /\ ~s.completed

(***************************************************************************)
(* What an iteration does with the headers.                                *)
(***************************************************************************)
Keep(s) == completed' = s.completed /\ headers' = s.headers

\* The CR of the request line is the last character the buffer has room for:
\* this and every later read is skipped.
Skip(start) ==
  /\ Read /\ InHeaders(start) /\ start = BUFFER - 1
  /\ state' = "PROCESSING_HEADERS" /\ curr' = start
  /\ UNCHANGED <<memory, completed, headers, answer, body>>

\* No line ends in the buffer: "Header too large".
HeaderTooLarge(start) ==
  /\ Read /\ InHeaders(start) /\ start # BUFFER - 1
  /\ ~FindCarriage(start)
  /\ Answer(400)

\* A line is longer than the memory: the character behind its last is written
\* over the rest of the cursor, and the program does no longer what it says.
Overflow(start) ==
  /\ Read /\ InHeaders(start) /\ start # BUFFER - 1 /\ FindCarriage(start)
  /\ Scan(start).s.over
  /\ state' = "OVERFLOWN"
  /\ UNCHANGED <<curr, memory, completed, headers, answer, body>>

\* A header twice, or the blank line before a required one.
BadHeaders(start) ==
  /\ Read /\ InHeaders(start) /\ start # BUFFER - 1 /\ FindCarriage(start)
  /\ LET s == Scan(start).s IN s.bad \/ (BlankLine(s) /\ ~s.over /\ Missing(s))
  /\ Answer(400)

\* The buffer ends before the head does.
KeepReading(start) ==
  /\ Read /\ InHeaders(start) /\ start # BUFFER - 1 /\ FindCarriage(start)
  /\ LET s == Scan(start).s IN
       ~Stopped(s) /\ Keep(s) /\ memory' = s.memory
  /\ state' = "PROCESSING_HEADERS" /\ curr' = 0
  /\ UNCHANGED <<answer, body>>

\* The head is complete.  When nothing follows it in the buffer, a POST waits
\* for its body; otherwise the endpoint is called.
EndOfHead(start) ==
  /\ Read /\ InHeaders(start) /\ start # BUFFER - 1 /\ FindCarriage(start)
  /\ LET scan == Scan(start)
         s == scan.s
         waits == request.method = "POST" /\ scan.at = n
     IN  /\ BlankLine(s) /\ ~s.bad /\ ~s.over /\ ~Missing(s)
         /\ Keep(s)
         /\ body' = IF waits THEN NotYet ELSE read + scan.at
         /\ curr' = IF scan.at = n THEN 0 ELSE scan.at
  /\ state' = "WORKING" /\ memory' = <<>>
  /\ UNCHANGED answer

\* The first bytes of a body that did not come with its head.
BodyArrives ==
  /\ Read /\ state = "WORKING"
  /\ body' = read + curr
  /\ UNCHANGED <<state, curr, memory, completed, headers, answer>>

ServerJob ==
  \/ NotFound
  \/ BadLine
  \/ \E start \in 0..(BUFFER - 1) : \/ Skip(start)
                                    \/ HeaderTooLarge(start)
                                    \/ Overflow(start)
                                    \/ BadHeaders(start)
                                    \/ KeepReading(start)
                                    \/ EndOfHead(start)
  \/ BodyArrives

\* More of the request arrives.
Arrive ==
  /\ \E to \in (arrived + 1)..Len(stream) : arrived' = to
  /\ UNCHANGED <<request, stream, read, state, curr, memory, completed, headers,
                 answer, body, parsable>>

Init ==
  /\ request \in Request /\ stream = StreamOf(request)
  /\ arrived = 0 /\ read = 0
  /\ state = "PROCESSING_REQUEST_LINE" /\ curr = 0
  /\ memory = <<>> /\ completed = FALSE /\ headers = <<>>
  /\ answer = NotYet /\ body = NotYet
  /\ parsable = TRUE

Next == ServerJob \/ Arrive

Spec == Init /\ [][Next]_vars

-----------------------------------------------------------------------------
(***************************************************************************)
(* Properties.                                                             *)
(***************************************************************************)

\* Every variable has its type; a Content-Length is recorded exactly when its
\* bit is set.
TypeOK ==
  /\ request \in Request /\ stream = StreamOf(request)
  /\ read \in 0..arrived /\ arrived \in 0..Len(stream)
  /\ state \in {"PROCESSING_REQUEST_LINE", "PROCESSING_HEADERS", "WORKING", "ENDING", "OVERFLOWN"}
  /\ curr \in 0..(BUFFER - 1)
  /\ memory \in Seq({Url, Text, "length", "digits"})
  /\ completed \in BOOLEAN /\ parsable \in BOOLEAN
  /\ IF completed THEN \E h \in ContentLengths : headers = <<h>> ELSE headers = <<>>
  /\ answer \in {NotYet, 400, 404}
  /\ Answered = (state = "ENDING")
  /\ body \in {NotYet} \cup 0..Len(stream) /\ (Dispatched => state = "WORKING")

\* What the head says, read as a whole.
Lengths == {i \in 1..Len(request.headers) : request.headers[i] \in ContentLengths}
Valid == request.method = "POST" => Cardinality(Lengths) = 1
HeadersFit == \A i \in 1..Len(request.headers) : Len(request.headers[i]) <= BUFFER

\* However a request is cut, when it reaches its endpoint the endpoint has what
\* its client sent: a valid head, the client's Content-Length once, and the body
\* from its first byte.  (For bodies that do not begin with a line break and hold
\* no blank line: after a cut in the blank line of the head, theirs would end it.)
DispatchedIsRight ==
  Dispatched =>
    /\ Valid
    /\ IF request.method = "POST" THEN \E i \in Lengths : headers = <<request.headers[i]>>
       ELSE headers = <<>>
    /\ body = HeadEnd

\* A request with at least one header, whose headers fit the memory and which is
\* cut at no place that confuses the parser, is treated as it would be in one
\* piece: handed to its endpoint, or answered 400 if its Content-Length is
\* missing, repeated or no number.
WellCutIsParsed ==
  parsable /\ read >= HeadEnd /\ request.headers # <<>> /\ HeadersFit =>
    IF Valid
    THEN state = "WORKING" /\ (Dispatched \/ (request.method = "POST" /\ read = HeadEnd))
    ELSE answer = 400

\* Any other cut inside the head is fatal: the request is never handed to its
\* endpoint, whatever follows.  It is answered 400 or 404, overflows the memory,
\* or waits for the rest of a head that is complete until it is timed out.
BadlyCutIsNotServed == ~parsable => ~Dispatched

\* The memory of the unfinished line, which nothing bounds (server.c:582), only
\* overflows when the client sends more than BUFFER characters with no CR
\* between them: never for lines that fit, however many there are and however
\* they are cut.
OnlyLongLinesOverflow ==
  Overflown =>
    \E i \in 1..(read - BUFFER) :
      stream[i] # LF /\ \A j \in i..(i + BUFFER) : stream[j] # CR
=============================================================================
