------------------------------ MODULE EventLoop ------------------------------
(***************************************************************************)
(* The event loop of backend/main.c with init_client of server.c, the      *)
(* reset of server-machine.c, the timers of server-timer.c and the part of *)
(* server_job that decides how a call on a connection ends.                *)
(*                                                                         *)
(* One thread waits in epoll_wait for a batch of events and handles them   *)
(* one after another: an action below is the handling of one event.  An    *)
(* event names a descriptor NUMBER that was ready when the batch was       *)
(* fetched; a number that is closed while an earlier event of the batch is *)
(* handled may already name something else when its turn comes.  Each      *)
(* server_machine has a timerfd for its whole life and serves at most one  *)
(* connection at a time.                                                   *)
(***************************************************************************)
EXTENDS Integers, Sequences, FiniteSets, Functions

CONSTANTS
  MaxMachines,      \* main.c: MAX_EVENTS, the size of the pool and of a batch
  Conns,            \* connections that can exist at one time
  MaxFd,            \* RLIMIT_NOFILE: descriptors are 1..MaxFd
  MaxFiles,         \* bound: files the thumbnails of a batch are read from
  MaxChunks,        \* bound: full socket buffers a response needs
  HalfCloses,       \* bound: may a client shut down its side and go on reading
  Prompt,           \* every event is handled well within the one second of a
                    \* timer; FALSE when a conversion keeps the loop busy
  NegativeGarbage   \* may the uninitialised s.client_fd read as negative

ASSUME PoolAssumption == MaxMachines \in Nat \ {0} /\ MaxFd \in Nat /\ MaxFd >= MaxMachines
ASSUME BoundsAssumption == MaxFiles \in Nat \ {0} /\ MaxChunks \in Nat \ {0}
ASSUME ModesAssumption == {HalfCloses, Prompt, NegativeGarbage} \subseteq BOOLEAN

Machines == 1..MaxMachines
Fds == 1..MaxFd     \* timers are created first: machine m has `timer` = m
Listener == 0       \* s.server_fd
NoFd == -1

VARIABLES
  alive,            \* no null machine dereferenced, no assertion failed
  accepting,        \* s.client_fd >= 0
  batch,            \* events fetched and not yet handled
  fds,              \* the descriptor table: what each number refers to
  mask,             \* what epoll watches each number for
  timer,            \* state of machine m's timerfd
  client_fd, phase, \* fields of server_machine
  left,             \* buffers of the response not yet written; 0 if the next
                    \* call on it fails
  queue,            \* established connections not yet accepted
  peer,             \* what the other end did
  input,            \* unread bytes in the receive buffer
  full              \* the send buffer is full

pool == <<client_fd, phase, left>>
kernel == <<fds, mask, timer>>
sockets == <<queue, peer, input, full>>
vars == <<alive, accepting, batch, kernel, pool, sockets>>

Free == [kind |-> "free", of |-> 0]
Timer(m) == [kind |-> "timer", of |-> m]
File(m) == [kind |-> "file", of |-> m]      \* opened by the endpoint m runs
Conn(c) == [kind |-> "conn", of |-> c]

IsConn(f) == f \in Fds /\ fds[f].kind = "conn"
FreeFds == {f \in Fds : fds[f] = Free}
Busy(m) == client_fd[m] # NoFd
Owners(f) == {m \in Machines : client_fd[m] = f}
Smaller(a, b) == IF a < b THEN a ELSE b
First(S) == CHOOSE m \in S : \A n \in S : m <= n
LowestFree == First(FreeFds)
FilesOf(m) == {f \in Fds : fds[f] = File(m)}

(***************************************************************************)
(* Readiness, as epoll_wait reports it.  A half-closed peer makes its      *)
(* connection readable; EPOLLRDHUP is never asked for.  EPOLLHUP is always *)
(* reported.                                                               *)
(***************************************************************************)
Readable(c) == input[c] \/ peer[c] # "open"

Ready(f) ==
  /\ mask[f] # "off"
  /\ \/ fds[f].kind = "timer" /\ timer[fds[f].of] = "expired"
     \/ /\ IsConn(f)
        /\ \/ Readable(fds[f].of)
           \/ mask[f] = "inout" /\ ~full[fds[f].of]

ReadyFds == {f \in Fds : Ready(f)} \cup (IF queue = <<>> THEN {} ELSE {Listener})

HungUp(f) == IsConn(f) /\ peer[fds[f].of] = "rst"

\* epoll_wait reports as many of them as its array holds, in any order.
Wait ==
  /\ alive /\ batch = <<>> /\ ReadyFds # {}
  /\ LET reported == 1..Smaller(MaxMachines, Cardinality(ReadyFds)) IN
     \E order \in Injection(reported, ReadyFds) :
       batch' = [i \in reported |-> [fd |-> order[i], hup |-> HungUp(order[i])]]
  /\ UNCHANGED <<alive, accepting, kernel, pool, sockets>>

(***************************************************************************)
(* server_machine_reset, after its callers freed the endpoint's context:   *)
(* closes the endpoint's files and the client, disarms the timer.  Closing *)
(* a descriptor also takes it out of epoll.  `also` is what the caller     *)
(* closes itself.                                                          *)
(***************************************************************************)
\* Faulty: the endpoint's files are forgotten.
HeldClientOnly(m) == {f \in Fds : f = client_fd[m]}

\* Faulty: the client is forgotten.
HeldFilesOnly(m) == FilesOf(m)

Held(m) == {f \in Fds : fds[f] = File(m) \/ f = client_fd[m]}

Close(gone, eaten) ==
  LET dead == {c \in Conns : \E f \in gone : fds[f] = Conn(c)} IN
  /\ fds' = [f \in Fds |-> IF f \in gone THEN Free ELSE fds[f]]
  /\ mask' = [f \in Fds |-> IF f \in gone THEN "off" ELSE mask[f]]
  /\ peer' = [c \in Conns |-> IF c \in dead THEN "absent" ELSE peer[c]]
  /\ input' = [c \in Conns |-> IF c \in dead \cup eaten THEN FALSE ELSE input[c]]
  /\ full' = [c \in Conns |-> IF c \in dead THEN FALSE ELSE full[c]]
  /\ UNCHANGED queue

\* server_timer_start and server_timer_stop: timerfd_settime on the number in
\* `timer`, which fails when that number is no longer the timerfd.  Both clear
\* an expiration that nobody has read.
SetTimer(m, value) ==
  timer' = [timer EXCEPT ![m] = IF fds[m] = Timer(m) THEN value ELSE @]

\* server_timer_stop then reads 8 bytes of the number in `timer`, as
\* server_timer_has_expired did: of a connection that has this number by now
\* they may be all there is.
Eaten(m, gone) == {c \in Conns : m \notin gone /\ fds[m] = Conn(c)}

CloseAndStop(m, gone) ==
  \E eaten \in SUBSET Eaten(m, gone) : Close(gone, eaten)

\* Faulty: the timer is left running.
ResetKeepsTimer(m, also) ==
  /\ CloseAndStop(m, Held(m) \cup also)
  /\ client_fd' = [client_fd EXCEPT ![m] = NoFd]
  /\ phase' = [phase EXCEPT ![m] = "WAITING"]
  /\ left' = [left EXCEPT ![m] = 0]
  /\ UNCHANGED timer

\* Faulty: the state is left as it was.
ResetKeepsPhase(m, also) ==
  /\ CloseAndStop(m, Held(m) \cup also)
  /\ SetTimer(m, "idle")
  /\ client_fd' = [client_fd EXCEPT ![m] = NoFd]
  /\ UNCHANGED <<phase, left>>

Reset(m, also) ==
  /\ CloseAndStop(m, Held(m) \cup also)
  /\ SetTimer(m, "idle")
  /\ client_fd' = [client_fd EXCEPT ![m] = NoFd]
  /\ phase' = [phase EXCEPT ![m] = "WAITING"]
  /\ left' = [left EXCEPT ![m] = 0]

(***************************************************************************)
(* The branches of the loop body, in the order in which it tries them.     *)
(***************************************************************************)
Event == Head(batch)
Handles(f) == alive /\ batch # <<>> /\ Event.fd = f

\* Faulty: the search for the machine always ends at the first one.
HangUpFirst(f) ==
  /\ Handles(f) /\ Event.hup
  /\ batch' = Tail(batch)
  /\ Reset(First(Machines), {})
  /\ UNCHANGED <<alive, accepting>>

\* EPOLLHUP: the connection's machine is reset.  A connection that has no
\* machine yet is left as it is, open and watched.
HangUp(f) ==
  /\ Handles(f) /\ Event.hup
  /\ batch' = Tail(batch)
  /\ IF Owners(f) # {} THEN Reset(First(Owners(f)), {})
     ELSE UNCHANGED <<kernel, pool, sockets>>
  /\ UNCHANGED <<alive, accepting>>

\* Faulty: s.client_fd is set to -1 once the connection is registered.
AcceptOnce ==
  /\ Handles(Listener)
  /\ batch' = IF accepting THEN Tail(batch) ELSE <<>>
  /\ accepting' = FALSE
  /\ IF accepting /\ FreeFds # {}
     THEN /\ fds' = [fds EXCEPT ![LowestFree] = Conn(Head(queue))]
          /\ mask' = [mask EXCEPT ![LowestFree] = "in"]
          /\ queue' = Tail(queue)
     ELSE UNCHANGED <<fds, mask, queue>>
  /\ UNCHANGED <<alive, timer, pool, peer, input, full>>

\* A new connection.  Once accept has failed, s.client_fd stays negative and
\* the listener's event drops the rest of its batch.
Accept ==
  /\ Handles(Listener)
  /\ \/ /\ ~accepting
        /\ batch' = <<>>
        /\ UNCHANGED <<accepting, kernel, queue>>
     \/ /\ accepting /\ FreeFds # {}
        /\ batch' = Tail(batch)
        /\ fds' = [fds EXCEPT ![LowestFree] = Conn(Head(queue))]
        /\ mask' = [mask EXCEPT ![LowestFree] = "in"]
        /\ queue' = Tail(queue)
        /\ UNCHANGED <<accepting, timer>>
     \/ /\ accepting /\ FreeFds = {}
        /\ batch' = Tail(batch)
        /\ accepting' = FALSE
        /\ UNCHANGED <<kernel, queue>>
  /\ UNCHANGED <<alive, pool, peer, input, full>>

\* Faulty: the negation is missing.
HasExpiredNegated(m) == timer[m] # "expired"

\* server_timer_has_expired: an 8-byte read of the number in `timer`, true
\* unless it says EAGAIN.
HasExpired(m) ==
  CASE fds[m].kind = "timer" -> timer[m] = "expired"
    [] fds[m].kind = "conn"  -> Readable(fds[m].of)
    [] OTHER                 -> TRUE

\* Faulty: the timeout is answered, but the machine is not reset.
TimerEventOnlyAnswers(m) ==
  /\ Handles(m) /\ ~Event.hup
  /\ batch' = Tail(batch)
  /\ SetTimer(m, "idle")
  /\ UNCHANGED <<alive, accepting, fds, mask, pool, sockets>>

\* A timer: answer 408 and reset the machine.  When the timer turns out not to
\* have expired the loop closes the descriptor of the event.
TimerEvent(m) ==
  /\ Handles(m) /\ ~Event.hup
  /\ batch' = Tail(batch)
  /\ Reset(m, IF HasExpired(m) THEN {} ELSE {m})
  /\ UNCHANGED <<alive, accepting>>

\* A connection: its machine, or else the first one that waits.
ClientEvent(f) ==
  /\ Handles(f) /\ ~Event.hup
  /\ batch' = Tail(batch)

\* Faulty: the first machine is taken, whatever it does.
SelectedFirst(f) == Machines

\* Faulty: a waiting machine is preferred to the owner.
SelectedWaiting(f) ==
  LET waiting == {m \in Machines : phase[m] = "WAITING"} IN
  IF waiting # {} THEN waiting ELSE Owners(f)

Selected(f) ==
  IF Owners(f) # {} THEN Owners(f)
  ELSE {m \in Machines : phase[m] = "WAITING"}

\* No machine waits: server_timer_start(selected->timer) with selected null.
NoMachine(f) ==
  /\ ClientEvent(f) /\ Selected(f) = {}
  /\ alive' = FALSE
  /\ UNCHANGED <<accepting, kernel, pool, sockets>>

Serve(m, f) == ClientEvent(f) /\ m \in Selected(f) /\ m = First(Selected(f))

Adopt(m, f, next) ==
  /\ client_fd' = [client_fd EXCEPT ![m] = f]
  /\ phase' = [phase EXCEPT ![m] = next]

\* open() gives every file the lowest number that is free.
Lowest(opened) == \A f \in opened, g \in FreeFds \ opened : f < g
OpenFiles(m, opened) == fds' = [f \in Fds |-> IF f \in opened THEN File(m) ELSE fds[f]]

\* There is more of a request to read, and its endpoint has not opened a file.
Reads(m, f) ==
  /\ Serve(m, f) /\ phase[m] # "SENDING" /\ FilesOf(m) = {}
  /\ IsConn(f) /\ input[fds[f].of]

\* The request or its body is incomplete, and everything there is was read.
NeedReadMoreData(m, f) ==
  LET c == fds[f].of IN
  /\ Serve(m, f)
  /\ IsConn(f) /\ peer[c] = "open" /\ phase[m] # "SENDING"
  /\ Adopt(m, f, "READING")
  /\ SetTimer(m, "armed")
  /\ input' = [input EXCEPT ![c] = FALSE]
  /\ UNCHANGED <<alive, accepting, fds, mask, left, queue, peer, full>>

\* POST /api/image: the first call opens the original, and reads no further.
BeginUpload(m, f) ==
  /\ Reads(m, f) /\ FreeFds # {}
  /\ Adopt(m, f, "READING")
  /\ SetTimer(m, "armed")
  /\ OpenFiles(m, {LowestFree})
  /\ \E unread \in BOOLEAN : input' = [input EXCEPT ![fds[f].of] = unread]
  /\ UNCHANGED <<alive, accepting, mask, left, queue, peer, full>>

\* A request is complete, and its response does not end in the same call.
BeginResponse(m, f) ==
  /\ Reads(m, f) /\ peer[fds[f].of] # "rst"
  /\ Adopt(m, f, "SENDING")
  /\ SetTimer(m, "armed")
  /\ mask' = [mask EXCEPT ![f] = "inout"]
  /\ \E unread \in BOOLEAN : input' = [input EXCEPT ![fds[f].of] = unread]
  /\ UNCHANGED <<alive, accepting, queue, peer>>

\* GET /api/image: open_img_at opens the picture's file while its directory is
\* open.  If the directory had the last number the file's fd is -1, which
\* sendfile refuses now and again in the next call.  With its file the response
\* fills the send buffer; the next call fails if its header alone did.
BeginImage(m, f) ==
  LET rest == FreeFds \ {LowestFree} IN
  /\ BeginResponse(m, f) /\ FreeFds # {}
  /\ \/ /\ rest # {} /\ OpenFiles(m, {First(rest)})
        /\ \E k \in 0..MaxChunks : left' = [left EXCEPT ![m] = k]
        /\ full' = [full EXCEPT ![fds[f].of] = TRUE]
     \/ /\ rest = {} /\ UNCHANGED fds
        /\ left' = [left EXCEPT ![m] = 0]
        /\ \E filled \in BOOLEAN : full' = [full EXCEPT ![fds[f].of] = filled]

\* The thumbnails of a batch: a file that open() refuses is sent as an empty one.
BeginBatch(m, f) ==
  /\ BeginResponse(m, f)
  /\ \E opened \in SUBSET FreeFds :
       Cardinality(opened) <= MaxFiles /\ Lowest(opened) /\ OpenFiles(m, opened)
  /\ \E k \in 1..MaxChunks : left' = [left EXCEPT ![m] = k]
  /\ full' = [full EXCEPT ![fds[f].of] = TRUE]

\* GET /api/image when every number is taken: opendir returns null, and
\* open_img_at asserts that it did not.
NoDirectory(m, f) ==
  /\ Reads(m, f) /\ FreeFds = {}
  /\ alive' = FALSE
  /\ UNCHANGED <<accepting, kernel, pool, sockets>>

\* Faulty: the response's end is not noticed.
NeedWriteMoreDataEndless(m, f) ==
  LET c == fds[f].of IN
  /\ Serve(m, f)
  /\ IsConn(f) /\ peer[c] # "rst" /\ phase[m] = "SENDING"
  /\ left' = [left EXCEPT ![m] = IF full[c] THEN @ ELSE @ - 1]
  /\ full' = [full EXCEPT ![c] = TRUE]
  /\ SetTimer(m, "armed")
  /\ UNCHANGED <<alive, accepting, fds, mask, client_fd, phase, queue, peer, input>>

\* A later call on a response: it writes when it can, and reads nothing.
NeedWriteMoreData(m, f) ==
  LET c == fds[f].of IN
  /\ Serve(m, f)
  /\ IsConn(f) /\ peer[c] # "rst" /\ phase[m] = "SENDING"
  /\ \/ full[c] /\ left[m] > 0 /\ UNCHANGED left
     \/ ~full[c] /\ left[m] > 1 /\ left' = [left EXCEPT ![m] = @ - 1]
  /\ full' = [full EXCEPT ![c] = TRUE]
  /\ SetTimer(m, "armed")
  /\ UNCHANGED <<alive, accepting, fds, mask, client_fd, phase, queue, peer, input>>

\* FINISHED or SOMETHING_WENT_WRONG: answered, refused (as an upload is when its
\* file cannot be opened), the response fails, the peer is gone, or the number
\* names no connection.
Finish(m, f) ==
  LET c == fds[f].of IN
  /\ Serve(m, f)
  /\ IsConn(f) => IF phase[m] = "SENDING"
                  THEN peer[c] = "rst" \/ left[m] = 0 \/ (~full[c] /\ left[m] = 1)
                  ELSE Readable(c)
  /\ Reset(m, {f})
  /\ UNCHANGED <<alive, accepting>>

Loop ==
  \/ Wait
  \/ Accept
  \/ \E f \in Fds : HangUp(f)
  \/ \E m \in Machines : TimerEvent(m)
  \/ \E f \in Fds \ Machines :
       \/ NoMachine(f)
       \/ \E m \in Machines : \/ NeedReadMoreData(m, f)
                              \/ BeginUpload(m, f)
                              \/ BeginImage(m, f)
                              \/ BeginBatch(m, f)
                              \/ NoDirectory(m, f)
                              \/ NeedWriteMoreData(m, f)
                              \/ Finish(m, f)

(***************************************************************************)
(* The peers and the clock.  When the loop is prompt, a timer expires only *)
(* after everything its client did was handled, and is itself handled      *)
(* before the client does anything else.  What they do after the server    *)
(* has gone down is left out.                                              *)
(***************************************************************************)
Outstanding(f) == Ready(f) \/ \E i \in 1..Len(batch) : batch[i].fd = f

Expire(m) ==
  /\ alive /\ timer[m] = "armed" /\ fds[m] = Timer(m)
  /\ Prompt => ~Outstanding(client_fd[m])
  /\ timer' = [timer EXCEPT ![m] = "expired"]
  /\ UNCHANGED <<alive, accepting, batch, fds, mask, pool, sockets>>

MayAct(c) ==
  /\ alive
  /\ Prompt => ~\E m \in Machines :
                  /\ Busy(m) /\ timer[m] = "expired"
                  /\ fds[client_fd[m]] = Conn(c)

Connect(c) ==
  /\ alive /\ peer[c] = "absent"
  /\ peer' = [peer EXCEPT ![c] = "open"]
  /\ queue' = Append(queue, c)
  /\ UNCHANGED <<alive, accepting, batch, kernel, pool, input, full>>

Send(c) ==
  /\ peer[c] = "open" /\ MayAct(c)
  /\ input' = [input EXCEPT ![c] = TRUE]
  /\ UNCHANGED <<alive, accepting, batch, kernel, pool, queue, peer, full>>

HalfClose(c) ==
  /\ HalfCloses /\ peer[c] = "open" /\ MayAct(c)
  /\ peer' = [peer EXCEPT ![c] = "fin"]
  /\ UNCHANGED <<alive, accepting, batch, kernel, pool, queue, input, full>>

Abort(c) ==
  /\ peer[c] \in {"open", "fin"} /\ MayAct(c)
  /\ peer' = [peer EXCEPT ![c] = "rst"]
  /\ full' = [full EXCEPT ![c] = FALSE]
  /\ UNCHANGED <<alive, accepting, batch, kernel, pool, queue, input>>

Drain(c) ==
  /\ full[c] /\ MayAct(c)
  /\ full' = [full EXCEPT ![c] = FALSE]
  /\ UNCHANGED <<alive, accepting, batch, kernel, pool, queue, peer, input>>

Init ==
  /\ alive = TRUE
  /\ accepting \in (IF NegativeGarbage THEN BOOLEAN ELSE {TRUE})
  /\ batch = <<>>
  /\ fds = [f \in Fds |-> IF f \in Machines THEN Timer(f) ELSE Free]
  /\ mask = [f \in Fds |-> IF f \in Machines THEN "in" ELSE "off"]
  /\ timer = [m \in Machines |-> "idle"]
  /\ client_fd = [m \in Machines |-> NoFd]
  /\ phase = [m \in Machines |-> "WAITING"]
  /\ left = [m \in Machines |-> 0]
  /\ queue = <<>>
  /\ peer = [c \in Conns |-> "absent"]
  /\ input = [c \in Conns |-> FALSE]
  /\ full = [c \in Conns |-> FALSE]

Next ==
  \/ Loop
  \/ \E m \in Machines : Expire(m)
  \/ \E c \in Conns : Connect(c) \/ Send(c) \/ HalfClose(c) \/ Abort(c) \/ Drain(c)

Spec == Init /\ [][Next]_vars

\* The thread runs, and clocks tick; the peers owe nothing.  Every step of Loop
\* changes the batch and no other step does, and Loop can go on while Running: the
\* first conjunct is WF_vars(Loop) written out, which TLC evaluates faster.
Running == alive /\ (batch # <<>> \/ ReadyFds # {})

LoopFairness ==
  /\ []<>~Running \/ []<><<TRUE>>_batch
  /\ \A m \in Machines : WF_vars(Expire(m))

LoopSpec == Spec /\ LoopFairness

\* A peer that keeps its connection readable, by half-closing it or by sending
\* more than its request, also reads its response.
ReadingPeers == \A c \in Conns : WF_vars(Readable(c) /\ Drain(c))
ReadingSpec == LoopSpec /\ ReadingPeers

-----------------------------------------------------------------------------
(***************************************************************************)
(* Properties.                                                             *)
(***************************************************************************)

\* Every variable has its type.
TypeOK ==
  /\ alive \in BOOLEAN /\ accepting \in BOOLEAN
  /\ batch \in Seq([fd : {Listener} \cup Fds, hup : BOOLEAN])
  /\ fds \in [Fds -> {Free} \cup {Timer(m) : m \in Machines}
                \cup {File(m) : m \in Machines} \cup {Conn(c) : c \in Conns}]
  /\ mask \in [Fds -> {"off", "in", "inout"}]
  /\ timer \in [Machines -> {"idle", "armed", "expired"}]
  /\ client_fd \in [Machines -> {NoFd} \cup Fds]
  /\ phase \in [Machines -> {"WAITING", "READING", "SENDING"}]
  /\ left \in [Machines -> 0..MaxChunks]
  /\ queue \in Seq(Conns)
  /\ peer \in [Conns -> {"absent", "open", "fin", "rst"}]
  /\ input \in [Conns -> BOOLEAN] /\ full \in [Conns -> BOOLEAN]

\* The loop never closes the timer of a machine: the number it keeps in
\* `timer` stays the timerfd it created, whatever order events arrive in.
TimersIntact == \A m \in Machines : fds[m] = Timer(m) /\ mask[m] # "off"

\* Exactly the machines that serve a connection are timed: no request is left
\* without its one second, and no timer fires on an idle machine.
BusyIsTimed == \A m \in Machines : Busy(m) <=> timer[m] # "idle"

\* A machine's client_fd is an open, watched connection, and no other
\* machine's: never a number closed earlier or given out again since.
ClientsOwned ==
  \A m \in Machines :
    /\ Busy(m) <=> phase[m] # "WAITING"
    /\ Busy(m) => IsConn(client_fd[m]) /\ mask[client_fd[m]] # "off"
    /\ \A n \in Machines : Busy(m) /\ client_fd[m] = client_fd[n] => m = n

\* No file outlives the request whose endpoint opened it, however the request
\* ends, and a request never holds more files than one batch: descriptors do not
\* leak.  (A response may well be without a file: open() may have failed.)
FilesOwned ==
  \A m \in Machines : Cardinality(FilesOf(m)) <= IF Busy(m) THEN MaxFiles ELSE 0

\* An event that waits in the batch still means what it meant when it was
\* fetched: no earlier event of the batch closed its descriptor.
EventsAreCurrent ==
  \A i \in 1..Len(batch) :
    LET f == batch[i].fd IN f # Listener => mask[f] # "off" /\ fds[f].kind # "file"

\* The server goes down for want of a machine or of a descriptor only: while the
\* open connections have a machine each and a descriptor is free, no step takes
\* it down, however many connections came and went, timed out or were refused.
Open == {c \in Conns : \E f \in Fds : fds[f] = Conn(c)}

DownOnlyWhenExhausted ==
  [][alive /\ ~alive' => FreeFds = {} \/ Cardinality(Open) > MaxMachines]_vars

\* The server stays up.
ServerStaysUp == alive

\* A connection is closed only by its own event or by its machine's timer.
ClosedByItsOwn ==
  [][\A f \in Fds : IsConn(f) /\ fds'[f] # fds[f] =>
       /\ batch # <<>>
       /\ Event.fd = f \/ (Event.fd \in Machines /\ client_fd[Event.fd] = f)]_vars

Serves(m, c) == Busy(m) /\ fds[client_fd[m]] = Conn(c)

\* A client can keep a machine for ever in one way only: by never ceasing to
\* write, since every event on its connection starts the timer again.  In every
\* other case the request ends or is timed out, while the server is up.  True
\* when clients whose connection stays readable read their responses.
BusyIsFreed ==
  \A m \in Machines, c \in Conns :
    <>[](alive /\ Serves(m, c)) => []<><<Send(c)>>_vars

\* A connection on which anything arrived is closed some day, by its request or
\* by its timeout, unless its client writes for ever or the server goes down: of
\* those that fall silent only one that never spoke, or is reset before it is
\* served, keeps its descriptor.
HeardIsClosed ==
  \A c \in Conns :
    \/ []<><<Send(c)>>_vars
    \/ (Readable(c) /\ peer[c] # "rst") ~> (peer[c] \in {"absent", "rst"} \/ ~alive)

\* The connection at the head of the accept queue is accepted some day, while the
\* server is up.
QueueMoves == \A c \in Conns : []<>~(alive /\ queue # <<>> /\ Head(queue) = c)
=============================================================================
