# Verification of hermit-purple

hermit-purple is an image host: a single-threaded C server around epoll that
accepts pictures (PNG, JPEG, HEIC), stores three variants of each on disk, and
serves them one by one or in batches to a paging web page. This directory holds
TLA+ models of the parts of the server and of its page in which control is hard to follow, the
TLC runs that check them on small instances, and TLAPS proofs that hold for
every instance. Paths below are relative to the repository; `src/` in
`PROJECT.json` is its root.

## 1. The system

| Component | Source (`src/backend`) | State | Operations |
|---|---|---|---|
| Event loop | `main.c`, `src/event-handler.c`, `init_client` of `src/server.c` | the epoll set, the batch being handled, `s.client_fd` | accept, hang-up, timer, client event, outcome of `server_job` |
| Server machine | `src/server-machine.c`, `src/server-timer.c` | per machine: `client_fd`, `state`, `timer` (a timerfd), `server_ctx` with buffers, cursor and `endpoint_ctx` | reset, adopt, start and stop the timer |
| Request parser | `src/server.c`, `src/http-sanitize.c` | read buffer, cursor, memory of an unfinished line, completed-headers bits | request line, headers, dispatch |
| Upload endpoint | `post_api_image` in `src/api-image.c` | `struct post_api_image`, three directories | first call, later calls, completion, abort |
| Image catalogue | `src/file-controller.c` over `src/list.c` | the ids in a growable list | start-up scan, record, next id, find, batch |
| Directory lookup | `src/files.c` | none | open by id, open a list |
| Single-image query | `get_api_image` | the descriptor and offset of the file sent | look up, stream |
| Batch query | `get_api_image_cursor`, `..._cursor_start` | `struct get_api_image_cursor` | check, list, stream |
| Growable list | `src/list.c` | array, capacity, length | append, free |
| Gallery page | `src/frontend/scripts/index.js` | position, loading flags, the cards shown | start, load, scroll, upload |

How they interact. Everything in the server runs in one thread. A client event
selects a machine and runs `server_job`, which parses and calls an endpoint; an
endpoint that would block returns `NEED_READ_MORE_DATA` or
`NEED_WRITE_MORE_DATA` and is called again at the next event of its connection.
So calls of different connections interleave at every return, and what an
endpoint read before a return may be stale after it. The endpoints share the
catalogue (memory) and the directories (disk). The catalogue is lost when the
process ends and is rebuilt from the thumbnail directory by the next start.
Descriptors are numbers, and a batch of events names them by number after some
were closed and given out again.

What is hard here, and what makes each part correct:

* **Uploads.** The id is taken at the first call and recorded at the last; in
  between other uploads take ids. The end of an upload is two variants, an
  answer and a record, and the process may die after any of them.
  Correct: an id that was answered is never forgotten, its files are never
  somebody else's, ids stay dense (the cursor treats a position as an id).
* **Catalogue.** `bsearch` and the batches rely on an order that nobody
  maintains after start-up. Correct: what is recorded is found, and a batch
  lists its window.
* **Event loop.** A fixed pool, one-second timers, events that may be stale.
  Correct: timers survive and run exactly for busy machines, no machine or
  connection is touched by another's event, nothing leaks with a request,
  every machine becomes free unless its client writes for ever, every connection
  is accepted, and the process goes down only when machines or descriptors run out.
* **Responses.** A non-blocking socket cuts them anywhere, the timer may end
  them, and a file may be rewritten while it is sent. Correct: what arrives is a
  prefix of what was announced, FINISHED means all of it, and a response is given
  up only for a reason.
* **Parser.** A request arrives in pieces of any size, and some of what the
  parser knows lives in local variables that a return forgets. Correct: what
  reaches an endpoint is what was sent, and an unlucky cut is refused, never misread.
* **A machine's lists.** They outlive requests and own heap strings. Correct:
  each string is freed once, and a request sees its own parameters.
* **Gallery.** Its functions wait for answers and timers and share global
  variables meanwhile. Correct: one load at a time, pictures from the newest down,
  none passed over, "END" only at the end.

## 2. The modules

| Module | Models | Depends on |
|---|---|---|
| `FileController` | the catalogue's functions and the directory match, as operators on a sequence of ids | |
| `ImageStore` | uploads of all machines, the three directories, failures, crash and restart | `FileController`, `Album` |
| `Album` | what the store promises: an append-only sequence of pictures | |
| `ImageQueries` | which ids and files the reading endpoints choose | `ImageStore` |
| `EventLoop` | the loop, pool, timers, descriptors, clients and kernel queue | |
| `Sending` | a socket of bounded capacity, open files, and what happens between two calls of an endpoint that sends files: EPOLLOUT, hang-up, timer, a reader, a rewritten file | |
| `ThumbnailStream` | the calls of the batch endpoint | `Sending` |
| `ImageResponse` | the calls of the single-image endpoint | `Sending` |
| `Responses` | a connection with either endpoint | `ThumbnailStream`, `ImageResponse` |
| `RequestHead` | reading and parsing the head of a request that arrives in pieces | |
| `DynList` | the functions of the growable list | |
| `MachineLists` | parameters and headers of a machine over many requests | `DynList` |
| `Gallery` | the paging page, over a server that keeps the promises of `Album` | |
| `ImageStoreProofs` | proofs: types, dense ids and kept ids of the store | `ImageStore`, TLAPS |
| `ImageContentProofs` | proofs: what the files hold, while uploads overlap; batches stay in the catalogue | `ImageStoreProofs`, `ImageQueries` |
| `SerialStoreProofs` | proofs for one upload at a time: contents, fresh ids, lookups, batches, the refinement of `Album` | `ImageContentProofs` |
| `EventLoopProofs` | proofs about the loop in every mode, and about a prompt one | `EventLoop`, TLAPS |
| `ResponsesProofs` | proofs about the bytes both endpoints send | `Responses`, TLAPS |
| `RequestHeadProofs` | proofs about the parser | `RequestHead`, TLAPS |
| `MachineListsProofs` | proofs about a machine's lists and `get_param` | `MachineLists`, TLAPS |
| `GalleryProofs` | proofs about the paging page | `Gallery`, TLAPS |
| `MCImageStore`, `MCEventLoop`, `MCRequestHead`, `MCMachineLists` | TLC instances (symmetry of machines, of connections; bodies; parameter names) | |

Definitions have the names of the code's functions and fields. A definition
whose comment begins with "Faulty:" is a plausible bug in the definition that follows
it; no specification uses it. `PROJECT.json` maps every other definition to its lines
and lists which faulty variant breaks which property.

### ImageStore

An action is one call of `post_api_image`, from the event to its return:
`StartUpload` (magic number, id, truncating open, the part of the body that came
with the headers), `ReceiveBody` (the receive loop up to EAGAIN), each followed
by `Complete` in the same step when the body is whole. `Effects(p, n, ...)` is the
first n of the six effects of a completion; failing calls stop after 0 to 3 of
them, a dying process after any number. `DropUpload` stands for every way in
which a connection ends early (close, EPOLLHUP, the 408 timer, a failed recv or
write): all lead to `free_wrapper`. `Restart` is `main`, which rebuilds the
catalogue with `ControllerInit`.

A body is a sequence of *segments* named after the upload that wrote them. That
is what the properties tell apart: whose bytes a file holds, and whether all of
them. Descriptors keep their offset, so writing on after somebody truncated the
file leaves a hole, and a file that starts with a hole is not decodable. Requests that
are refused before the id is taken (length 0 or too large, unknown type) change
nothing and are left out. A variant that exists but was not fully written is
`Torn`. The mode constants say which failures a run admits: `MayCrash`,
`StorageFails` (open, write or encoder errors), and of how many uploads a full
disk may store only a part (`MaxCut`; the code ignores what `write` returns unless
it is negative). `cut` is the history of those uploads.

### EventLoop

An action is the handling of one event by the body of the loop; `Wait` is
`epoll_wait`, which returns at most MAX_EVENTS ready numbers in any order. `fds` is the
descriptor table. Numbers are given out lowest first as the kernel does, and an
event holds a number only, so reuse within a batch is in the model. Parsing and
endpoints appear by their outcome: more to read (`NeedReadMoreData`), an upload that
has opened its original (`BeginUpload`), a response that does not end in the call that
begins it (`BeginImage`, `BeginBatch`, then `NeedWriteMoreData`), the end
(`Finish`). A response needs up to `MaxChunks` full send buffers, and a batch reads
up to `MaxFiles` files. The other end may connect, send, half-close, reset and read
at any time, and send as often as it likes. Errors of the code that depend on the
model's numbers are kept: closing a timer that read EAGAIN, the listener's `break`,
`selected` left null (`alive' = FALSE`), and `s.client_fd`, tested before it was
ever assigned (`NegativeGarbage` lets it start negative).

What a request does when descriptors run out differs from endpoint to endpoint. An
upload is refused (`api-image.c:383`, part of `Finish`). A request of a
picture opens its directory first: with no descriptor left `opendir` fails and
`assert(dir)` ends the process (`NoDirectory`, `files.c:100`); with one, the directory
has it, the picture's file is -1, and the response goes on without it until `sendfile`
refuses (`BeginImage`). A batch opens what it can and sends the rest as
empty (`BeginBatch`). A read of eight bytes from a number that used to be a timer,
in `server_timer_has_expired` and `server_timer_stop`, may take them from a connection (`Eaten`).

`Prompt = TRUE` says that an event is handled well within the second a timer
runs: a timer expires only when the loop has handled all that its client did,
and is handled before the client goes on. `Prompt = FALSE` drops that, as when a
conversion of a large picture keeps the thread busy for longer.

### Sending, ThumbnailStream, ImageResponse, Responses

An action is one `write` or `sendfile`, or what happens between two calls.
`Block` returns to the loop and `Resume` is the next event with room;
`Timeout` is the timer's event, which writes a 408 whatever was sent before and
closes, and which may win over an EPOLLOUT; `HangUp` is EPOLLHUP. Local variables
are lost by a return (`sent`), fields of the context are not. `wire` is the
history of bytes written, each named by its place in the response, so order, loss
and repetition can be told apart. `Rewrite` may change the length of an open file
between two calls: the truncating open of an upload that was given the same id.

`ImageResponse` keeps what `get_api_image` does with sendfile's result: the first
one becomes the offset of the next call, -1 included, and a result of 0 (end of
file) fails the response unless the offset is already the size. `fd = "none"` is
`open_file` failing, which the endpoint does not look at.

`SocketAssumption` is the reason why the local variable `sent` and the unchecked
first writes do no harm: they are the first bytes of a connection (the server does
not keep connections alive), so its send buffer is empty and larger than they are.

### DynList and MachineLists

`DynList` has the functions of `list.c` that have callers, by their names.
`MachineLists` runs requests on one machine: `QueryLine` cuts the parameters out of
the buffer and appends them, `AddHeader` keeps an upload's length, `Reset` and
`Shutdown` free. `strings` is the heap. The read buffer is a sequence of tokens from the
'?' of the URL to its end; `rest`, what was read behind the URL, may hold any token,
since a header may.

### Gallery

An activation of `initGallery` or `loadMultipleBatches` that waits for an answer or
for the 50 ms between two batches is a task; an action is what one task does
between two awaits, over the page's global variables. `skipped`, `begun`, `mixed`
and `early` are histories: the pictures of failed batches, the length the gallery
was started with, what other tasks waited for when it was started, and whether a
scroll came before the answer to the start. The "Load More" button (`index.html:25`)
calls `loadMultipleBatches` as the scroll timer does, so `ScrollTimer` stands for both; the
branch for an answer without pictures (`index.js:174`) is left out, since the server
gives a batch of the gallery one only when memory runs out. The server is reduced to its promise
to clients that upload one at a time: a length that grows, and batches that list
their window.

### RequestHead

An action is one iteration of the loop of `server_job`: it reads what has
arrived, at most `BUFFER - 1` characters, and parses it, with one action for each
way in which that ends. `Scan` is the loop over the characters of
`process_headers`, a recursive function over the buffer. `memory`, `curr` and the
completed bits live on from read to read, as in `server_ctx`; the count of line
breaks (`skips`, `last_char`) starts anew, as in the code. `Arrive` moves the
request on by any number of characters, so every cut into reads occurs.

The text is reduced to what the parser tells apart. A header is a key of one character
and a value of any number, and may be split anywhere; `url` is the place at which
a route is recognised. A `Content-Length` is the only header any route asks for,
so `completed` is its bit alone (the comparison with 1 at `server.c:598`
is right for bit 0 only, and there is no other). Some branches of the code are
never taken and left out: `empty_mem` is FALSE until the head is complete, so
`find_carriage` never pushes the buffer, and it finds no double CRLF, for which it
looks for line breaks in a memory that never holds any; the test of
`n == cursor.curr` at `server.c:613` comes after `curr` was set to 0.

The memory holds `BUFFER` characters and nothing checks that there is room for the next
(`server.c:582`): "Header too large" is answered only for a read without any carriage
return, so a header that begins behind a line end in one read and goes on in the next
may be longer. `Overflow` is the read in which the character behind the last one is
written over the rest of the cursor. What the program does after that is undefined, so
the state `OVERFLOWN` is the last.

`parsable` is a history variable: no read so far ended at a place that the parser
cannot go on from. The properties say what happens on either side of it.

## 3. The runs

Passing runs explore the whole state space of their instance.

| Run | Instance | Shows |
|---|---|---|
| `store_concurrent` | 3 machines, 3 uploads of up to 2 segments and 2 types, one write cut short, failures, crashes, restarts | `DenseIds`, `AckedIsKept`, `AloneIsIntact`, `BatchInBounds` |
| `store_serial` | 1 machine, 3 uploads, 2 types, failures, crashes, restarts | `AckedIsIntact`, `NextIdIsFresh`, `BatchListsItsWindow`, `RecordedIsFound`, the refinement `ImplementsAlbum` |
| `loop_safety` | 2 machines, 3 connections, 5 descriptors, batches of up to 2 files, prompt | `TimersIntact`, `BusyIsTimed`, `ClientsOwned`, `FilesOwned`, `EventsAreCurrent`, `ClosedByItsOwn`, `DownOnlyWhenExhausted` |
| `loop_liveness` | 2 machines, 2 connections, 5 descriptors, prompt | `BusyIsFreed`, `QueueMoves`, `HeardIsClosed` |
| `request_head` | requests of up to 2 headers, short or as long as the memory or longer, cut anywhere; a buffer of 13 characters | `DispatchedIsRight`, `WellCutIsParsed`, `BadlyCutIsNotServed`, `OnlyLongLinesOverflow` |
| `responses` | batches of up to 3 images of 0 to 2 bytes and single images, a buffer of 3 bytes, rewrites, timer | `WireIsResponse`, `FinishedIsWhole`, `OnlyMissing`, `FailuresAreReal`, `Concluded` |
| `gallery` | up to 5 pictures, batches of 2, 2 batches a load, 2 waiting tasks | `OneLoader`, `ShownFromTheTop`, `EndIsTheEnd`, `EverythingIsSeen` |
| `machine_lists` | requests with up to 5 tokens behind the URL | `StringsOwned`, `ParamsAreTheUrls` |

Runs that end in a counterexample, each a disagreement between the code and
what the repository says of it (quoted under `findings` in `PROJECT.json`):

| Run | Property | What happens |
|---|---|---|
| `overlap_loses` | `AckedIsIntact` | two overlapping uploads have one id; the second overwrites an answered picture |
| `prefix_lookup` | `ThumbnailIsOfItsId` | with ten pictures, a request of 10 may open 1 |
| `loop_pool_exhausted` | `ServerStaysUp` | one request more than machines: a null machine is dereferenced |
| `loop_timer_lost` | `BusyIsTimed` | client event, then timer event, in one batch: the timer is closed for good |

### Reading the results together

The store keeps every *promise of existence* (dense ids, never forgotten)
however uploads overlap, but the *content* of a picture only when no other
upload was given its id (`AloneIsIntact`), also while a full disk cuts short the
files of another. One upload at a time is enough for
everything: then the store is an `Album`. The refinement maps `album` to the
thumbnails of the catalogue (while the process is down, of the catalogue the
next start would build) and `promised` to the bodies answered 201. It says
that positions are never reassigned, that a listed picture is never replaced,
and that a promised picture is listed at the moment of the promise, at the latest when
the process that died between the answer and the record is started again.

The loop's safety properties need promptness and nothing else: they hold with
more connections than machines and than descriptors. Of them, `ClientsOwned`,
`FilesOwned` and `ClosedByItsOwn` also hold without it; `TimersIntact` and `BusyIsTimed`
do not (`loop_timer_lost`), and `EventsAreCurrent` is not claimed. That `Prompt` keeps a
client's event and its timer's out of one batch is part of why the other three
hold: in a slow loop stale events do occur.

The server goes down in two ways, and `DownOnlyWhenExhausted` says that there is
nothing else: a request finds no machine (`main.c:245`), with more
open connections than machines, or a request of a picture finds no descriptor for its
directory (`files.c:100`). A machine that was not given back would let it go
down earlier. `ServerStaysUp` itself is true only of pools and tables that are large
enough (`ServerAlwaysUp` in section 5), and `loop_pool_exhausted` shows the first way.

A client *can* keep a machine for ever: each event starts the timer again
(`main.c:245`), so one that writes a little every 0.9 seconds is never timed out.
`BusyIsFreed` says that this is the only way, and `HeardIsClosed`, the loop's answer to
leaked descriptors, that from its first byte on the connection of any other client is
closed in the end, on every path. Before that byte it has no machine and no timer: one
that stays silent stays open, and one that is reset is neither closed nor taken out of
epoll.

`QueueMoves` is checked where `accept` does not fail. Once it has failed, for want of a
descriptor or because `s.client_fd` was negative from the start, nothing is accepted any
more; section 6 says how to see it.

`responses` says that a client which counts bytes cannot be deceived by a
*finished* response, unless its file was rewritten: then a batch frame may be
shorter than announced, and a single picture of the same length may be a mixture.
A 408 may follow a response that is partly sent, as the last thing on the
connection.

`gallery` holds for uploads and failures at any moment, with two conditions that
the properties name. `early`: a scroll whose timer fires before the answer to the
start takes the missing position for the end (`index.js:152`), and the gallery stays empty
under "END". `mixed`: starting again (after an upload) while a load waits clears
`isLoading`, so two loads run and the cards of the former one are appended to the
new gallery (`OneLoader` and `InOrder` fail); no picture is lost even so. Two
starts under way at once may end the gallery by the older answer. Both are
behaviours of the code; nothing in the repository says otherwise, so they are
conditions of the properties and not findings.

`machine_lists`: the first parameter of a URL is always read right; the second
only if no '&' was read behind the URL. With one, say in a Referer, the second
parameter ends there and takes in part of the headers (`server.c:369`). The
second parameter of both routes is a number, `id` or `limit`, of which the code goes on to
read the leading digits only, so the request is still served as a rule.

`request_head` says where a request may be cut without harm: the first read holds the
request line and the end of a line after it, each later read holds the end of a line, and
the blank line comes whole. Anything else is refused with 400 or 404, or
not served until the timer ends it, even if the client has sent a perfectly
valid request; so is a request without any header. Nothing in the repository
promises more, so this is recorded as a property and not as a finding.
All of it is about headers that fit the memory. `OnlyLongLinesOverflow` says what
an overflow takes: more than `BUFFER` characters without a carriage return between them.
It would be false if the memory were not emptied at each line end, in whichever read
that comes. The overflow itself is what the code does with such a line.

### Bounds

* Two overlapping uploads are the smallest case of every race between uploads.
  The interesting orders need a third: one recorded before them, one that follows
  them, or one that shares no id with the two that race. `store_concurrent` has
  three, on as many machines, so that all of them may also overlap. Two segments
  tell a first call, a later call and a completion apart; a third adds only more
  later calls. `MaxUploads` bounds the history, nothing else; the theorems hold
  for every value of it.
* `store_serial` needs two types, since a failed upload leaves an original of
  one type under an id that another type gets next.
* `prefix_lookup` needs ten pictures, and no crash or failure.
* `BatchInBounds` tries every `current` and `limit` around the number of
  pictures, and limits around 65535, where the code cuts to 16 bits.
* `loop_safety`: two machines tell an owner from another; three connections are
  one more than the pool. Five descriptors are two timers and three more, which
  connections and files share: they run out in every way, at an accept, at a
  directory, in the middle of a batch of two files. A batch holds two events,
  as many as the pool has machines, as in the code. Clients write without bound; they
  do not half-close (`HalfCloses = FALSE`), which to the loop is one more way of
  being readable again and again.
* `loop_liveness`: two connections on two machines, since with one more the
  server dies (`loop_pool_exhausted`), and five descriptors, two timers, two
  connections and one file, so that `accept` does not fail and a second request that
  needs a file meets the lack of one; behaviours in which the server goes down are
  part of the run. `MaxChunks = 2` gives responses that need one event more than they
  began with. Clients write without bound and half-close.
* `request_head`: request lines of 2 and 11 characters, of which the second ends
  with the last character a buffer of 13 holds (`Skip`). Headers of 2, 13 and 14
  characters are shorter than the memory, as long, and longer by one (`Overflow`).
  Two headers are enough to repeat a `Content-Length`, to put it before, after or between
  cuts, and to send a wrong one. A head of up to 47 characters takes four reads or as many
  as it has characters. Bodies neither begin with a line break nor hold a blank line: none,
  and the first bytes of a PNG. Section 5 says what this leaves out.
* `store_concurrent` lets one upload be cut short (`MaxCut = 1`): one that is cut
  among others that are not is what `AloneIsIntact` is about.
* `responses`: a buffer of 3 bytes, headers and metadata of 2 cut every
  record at every place; images of 0, 1 and 2 bytes; three images give a
  first, a middle and a last.
* `gallery`: five pictures are two loads, the second with a shorter last batch. Two tasks
  are what it takes for a load to overlap with a start or with another load.
* `machine_lists`: four tokens after the first allow three '&' to follow the two
  parameters, which makes a list grow twice. State kept from request to request
  is the capacity only, so the state graph is small.

`CHECK_DEADLOCK FALSE` stands where a behaviour really ends: the store when its
uploads are used up, the loop when the process has died, a response when it
has ended, the lists when the program has, the parser when it has answered or called the endpoint.

## 4. Fairness

* `LoopFairness`: the one thread runs whenever an event waits (weak fairness of
  `Loop`) and an armed timer expires if nothing stops or restarts it (weak
  fairness of `Expire`). The first is written out as `[]<>~Running \/ []<><<TRUE>>_batch`,
  which TLC evaluates several times faster; `LoopChangesBatch` in `EventLoopProofs`
  is why it means the same. Clients need not do anything.
* `ReadingSpec` adds that a client whose connection stays readable, because it half-closed
  or sent more than its request, also reads its response. Without it
  `BusyIsFreed` is false: every level-triggered event starts the timer again. A client that is silent
  needs no assumption: its timer expires. A client that never stops writing is
  the exception which `BusyIsFreed` and `HeardIsClosed` name.
* `FairSpec` of `Responses`: calls run, a connection with room or a hang-up is
  reported (`Resume`, `HangUp`), and a client that is there reads (`Drain`). It may
  leave at any time. The timer is not needed for `Concluded`, so it is not assumed.
* `ScrollingSpec` of `Gallery`: requests are answered or fail, timers fire, and the
  user goes on scrolling or pressing the button, without which the page loads one page and stops.

## 5. What is proved

Every theorem holds for all values of the constants, under the named assumptions of
the modules that declare them; a theorem that needs more states it as its hypothesis,
and this section names it. Each invariant that is not inductive is a conjunct of one
that is; the step proofs have one case per action, and each leaf names what it uses.

### The store, uploads overlapping (`ImageStoreProofs`, `ImageContentProofs`)

For any set of machines and file types, any number of segments and uploads, with or
without crashes, failures and full disks (any `MaxCut`): `TypeOK`, `DenseIds`,
`AckedIsKept`, `AloneIsIntact`, `BatchInBounds`. The first invariant is

    IInv == TypeOK /\ GaplessIds /\ AckedIsKept

`DenseIds` alone is not inductive. It says that the thumbnails are `1..k` and
the recorded ids `1..k` or `1..(k-1)`, but nothing of the uploads in progress,
which hold the ids they will write. `GaplessIds` adds that: with `k` thumbnails
and `1..j` recorded, `j = k` or `j = k - 1`, every upload in progress holds an id
of `1..(j + 1)`. A completion then grows `1..k` by an id of `1..(k + 1)`, a
record grows `1..j` by an id of `1..(j + 1)`, and the next id, one more
than *some* recorded id, stays in `1..(j + 1)`, in whatever order uploads were
recorded. A failed upload may write the thumbnail `k + 1` without a record, but
all later uploads hold ids up to `k + 1` only.

Every call of an upload, first, later or fatal, has the shape
`UploadCall` (it continues, or it is `Done`, `Failed` or `Died`); the lemmas
`StartIsUploadCall`, `DieInStartIsUploadCall` and `ReceiveIsUploadCall` show that, from
`CompleteOutcomes`. So each conjunct is preserved by one argument about
`UploadCall` and one each about `DropUpload`, `Crash` and `Restart`.
`InitOnInterval` shows that sorting the thumbnails `1..k` gives the catalogue
`<<1, ..., k>>`, which is why a restart finds every acknowledged id.

`AloneIsIntact` needs what the uploads under way have written:

    ContentInv == ContextsDistinct /\ ProgressIntact /\ AloneIsIntact

`ProgressIntact` says that the original of an upload with an id of its own, no write
of which was cut short, holds exactly what it received, with the descriptor behind it.
`StepWrites` gives each call a second shape, `Writes`: it touches the three files of
its own upload's id only, so it leaves those of every upload alone.

### The store, one upload at a time (`SerialStoreProofs`)

Hypotheses, but for `ThumbnailAlwaysOfItsId`: `OneMachine`, the case in which uploads do
not overlap, and where a write must not be cut short, `DiskHolds` (`MaxCut = 0`).
Failures, crashes and restarts stay.

    SerialInv == InOrder /\ NextInLine /\ BodiesIntact /\ AckedUncut

`InOrder`, the catalogue being `<<1, ..., n>>`, is what overlapping uploads destroy, and
almost everything else rests on it:

* `AckedStaysIntact`: `AckedIsIntact` with `DiskHolds`; `UncutStaysIntact` is the part
  of it that holds on any disk.
* `NextIdAlwaysFresh`: `NextIdIsFresh`.
* `BatchAlwaysListsItsWindow`: `BatchListsItsWindow`, for at most 65535 uploads,
  because the code cuts limits to 16 bits.
* `RecordedAlwaysFound`: `RecordedIsFound`. The search halves a range that holds the
  id; the least range for which it went wrong would have a smaller one.
* `LowIdsAsUploaded`: with `DiskHolds`, a lookup of an answered picture opens the
  original that was uploaded, for ids of one digit that no upload of another type was
  given. Its lemma `OriginalsOwned`: every original has the id and the type of some upload.
  From the id ten on the prefix lookup may open another (`prefix_lookup`); a second type
  leaves a file of an earlier failed upload under the id, and either may be opened.
* `ThumbnailAlwaysOfItsId`: `ThumbnailIsOfItsId` for at most 9 uploads. It needs neither
  `OneMachine` nor `DiskHolds`, since ids never exceed the number of uploads
  (`IInv`) and `DownIsEmpty` says that a server that is down has no catalogue. The
  run `prefix_lookup` is the same property with a tenth upload, so 9 is sharp.
* `StoreImplementsAlbum`: the refinement `ImplementsAlbum`, with `DiskHolds`.
  `CallIsAlbumStep` maps a call to `Add`, `AddAndPromise` or a stutter, and
  `OtherIsAlbumStep` the other actions to stutters; that a crash and a restart do not
  move the album is `ListedInOrder`. `PromisesAlwaysKept` is the corollary that
  every picture answered 201 is on a page at all times.

### The event loop (`EventLoopProofs`)

For any pool, any number of connections and descriptors, in any mode:
`TypeOK`, `ClientsOwned`, `FilesOwned`, and the action property `ClosedByItsOwn`, from

    LoopInv == TypeOK /\ TablesInv /\ BatchSound /\ PoolInv

`TablesInv` is the kernel's side: a descriptor is watched by epoll unless it is free or
a file, a connection has one descriptor or waits in the queue once. `BatchSound`: a
batch names a number at most once, and the listener only while somebody waits. `PoolInv`
is `ClientsOwned`, and that no client has the number of a timer. `FilesOwned` is inductive
on top of it: files are opened by a machine that then has a client, and the reset that
takes the client away closes all of them, also when some could not be opened.

With the hypothesis `Prompt`: `TimersIntact`, `BusyIsTimed`, `EventsAreCurrent` and the
action property `DownOnlyWhenExhausted`, from

    PromptInv == LoopInv /\ MachinesInv /\ EventsInv

`MachinesInv` is the first two. They hold because no event can be stale: `EventsInv`
is `EventsAreCurrent` with `ExpiredIsQuiet` (the client of an expired timer has nothing
to be handled, so no batch holds an event of both that would close a timer twice) and
`TimerEventsDue` (a timer's event is handled before the timer is set again).
`GoesDownOnlyWhenExhausted` counts: when no machine waits, each owns a connection of its
own, and the event's is one more. `ServerAlwaysUp` proves `ServerStaysUp` under what it
takes: at most as many connections as machines (`|Conns| <= MaxMachines`), and descriptors
for all timers, all connections, the files of all machines but one, and the directory of
that one (`MaxMachines + |Conns| + (MaxMachines - 1) * MaxFiles + 1 <= MaxFd`); the
count of files is `FilesOwned`. Without such a hypothesis it is false.

### Responses (`ResponsesProofs`)

For any sizes, batches, buffers and rewrites: `TypeOK`, `WireIsResponse`,
`FinishedIsWhole`, `OnlyMissing`, `FailuresAreReal`, from `Inv == TypeInv /\ WireInv`.
The core of `WireInv` ties the bytes sent to the fields of the context that survive a
return: `Behind(b)` says of a byte of a batch, and `Carried(b)` of a byte of a picture,
that it lies before the place where the next call goes on, and the wire holds exactly
these, except for data of rewritten files. The properties take the wire as a
*set* of bytes whose order is a property of its own (`OnlyMissing`): together they say
that it is a prefix, without a sequence of the whole response, about
which the provers could not reason.

### The parser (`RequestHeadProofs`)

For any buffer, request lines, headers of any lengths and any number, and cuts. `TypeOK`,
`WellCutIsParsed` (of headers that fit the memory) and `OnlyLongLinesOverflow` hold for
any body. Nothing is proved of how long an unfinished line is: nothing bounds it.
`DispatchedIsRight` and `BadlyCutIsNotServed` are false for some (section 6) and have
the hypothesis `PlainBodies`: no body begins with a line break or holds four
line-break characters in a row.

    IInv == TypeOK /\ HeadInv

`HeadInv` goes by the state of the machine. Between two reads, the parser is at the
beginning of a line or in the middle of one; its memory is the part of that line
it has read, and the completed bit is right for the lines before. Or the cut was
no good: then it lies in the blank line, or the cursor is at the end of the buffer and
every read is skipped, and the end of the head is not found any more. The memory holds
at most what was read since the last carriage return, line breaks left out: that is
`TailIs`, and what `OnlyLongLinesOverflow` rests on. `StreamShape` gives the text of a request by place (`HeadShape`). The
scan of a read is a recursive function; `ScanExists` shows that it is defined, and
`ScanResult` carries `Scanned` from each character to the next: `skips` is the number of
line-break characters just before. `BlankOnlyThere` and `StopsThere` say that four of
them stand at the end of the head and at no other place.

### A machine's lists (`MachineListsProofs`)

For any parameter names, any length of the buffer and any sequence of requests, with
the assumptions `MachineLists` names (the two parameters of a route have different
names, none of which is a separator; a null pointer is not a text): `TypeOK`,
`StringsOwned` and `ParamsAreTheUrls`, from an invariant of the machine's state.

    IInv == Sized lists, typed heap, and
      request # Upload   => headers.len = 0 /\ Owned(params, strings)
      request = Upload   => params.len = 0 /\ Owned(headers, strings)
      request is a query => Holds(params, strings, Pieces(BufferOf(request)))

`StringsOwned` alone is not inductive: it does not say that the lists are empty
between two requests, which is what makes the heap free for the next one and what
puts its first parameter first. `Filling` is the lemma of both actions that
allocate: an empty list on an empty heap, filled with copies of some texts, owns them
and holds them in order. It rests on what the operators do:

* `AppendFacts`: an append keeps the elements and doubles the array only when it is
  full. `AppendAllFacts` carries this over any number of appends and bounds the
  array by twice the elements.
* `AscendingFacts`: the listing of a finite set of numbers by rank is a
  strictly increasing bijection. `MallocFacts` and `CutFacts` follow.
* `PiecesFacts`: a query has between 2 and `MaxRest + 2` pieces, fewer than the heap has
  addresses. The first is the first parameter of the URL; the second is cut at the
  blank behind the URL if no '&' follows.
* `ParameterFacts`: a parameter has the key before its '=', and no other.

### The gallery (`GalleryProofs`)

For any number of pictures and tasks and any batch sizes: `TypeOK`, `OneLoader`,
`EndIsTheEnd`, `ShownFromTheTop`, with the conditions these properties name.
`TypeInv` adds what each waiting task waits for. `LoaderInv` names the one loader;
`EndInv` adds that a start under way is alone and finds the page as it left
it; `Covered` says that each picture above the position was shown, was in a failed
batch, or is in a batch being waited for; `OrderInv` places a batch being waited for
between what is shown and the position, so that it can be appended in order.

### Model-checked only

* Liveness under fairness, which is out of the proof system's reach:
  `BusyIsFreed`, `QueueMoves`, `HeardIsClosed`, `Concluded`, `EverythingIsSeen`.

## 6. Reproducing other effects

Changing one constant of a run shows behaviours that have no run of their own:
`MaxCut = 1` in `MCStoreSerial` breaks `AckedIsIntact` (an answered
picture is stored in part); a second machine there breaks `RecordedIsFound` and
`BatchListsItsWindow` (ids recorded out of order hide a picture from `bsearch`);
`MaxFd = 4` or `NegativeGarbage = TRUE` in `MCLoopLiveness` breaks `QueueMoves`
(nothing is accepted ever after);
`LoopSpec` in place of `ReadingSpec` there breaks `BusyIsFreed`: a client that
half-closes and does not read keeps its machine. `ServerStaysUp` as an invariant of
`MCLoopLiveness` shows the failed assertion of `files.c:100`: two connections, two files
in use and a third descriptor wanted.
`status = "finished" => Answered = Response` fails in `MCResponses`: a thumbnail that is
truncated while it is sent leaves a frame shorter than its metadata announced.
A crash between the two variants leaves a picture that the next start lists
without its compressed form; `AckedIsKept` speaks of answered pictures only for
this reason.
Leaving out `early` or `mixed` from a property of `Gallery` shows the behaviours
of section 3, and leaving out the condition of `ParamsAreTheUrls` the '&' in a header.
A body `<<CR, LF, Text>>` or `<<Text, CR, LF, CR, LF>>` in `MCRequestHead` breaks
`DispatchedIsRight` and `BadlyCutIsNotServed`: after a cut in the blank line of the
head, the parser takes the line break that completes the four it counts, or the next
blank line, from the body. No picture begins with a line break; one may hold
the four characters of a blank line.

## 7. Plan

Done: the store with its queries, the loop, both responses with the loop's timer,
the request head, the machine's lists, the gallery, and the proofs of section 5. Next:

* Composition of the store with the responses: `Rewrite` as an upload with a
  repeated id, in place of a file that changes at will.

## 8. Not modelled

* The text of requests and responses, the route table beyond what `RequestHead`
  and `MachineLists` need, logging and string conversion: no property is about
  them, and they keep no state. The OPTIONS endpoints and `cursor/start` are one
  write each.
* The page's picture dialog and its download button. The dialog shows the answer
  that comes last, whichever picture is open: nothing in the code could make a
  property about it hold.
* libvips: external; an image is decodable or not, and encoding may fail. Its
  headers are vendored under `src/backend/includes/libs` and declare
  about 9000 of the repository's 12500 lines of implementation; they contain nothing
  to model, so the lines the modules stand for are a small share of the repository
  and most of its own control.
* Memory allocation: the code does not handle its failure. A timeout drops the
  machine's `server_ctx` without freeing it (`main.c:195`) and allocates another.
* `list_insert`, `list_pop`, `list_remove`, `get_biggest_index` and `close_file`
  have no caller.
* TLS, the container, build and test scripts.
