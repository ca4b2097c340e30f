--------------------------- MODULE EventLoopProofs ---------------------------
(***************************************************************************)
(* Proofs about EventLoop.  The first part holds however late the loop     *)
(* handles events: types, who owns a connection or a file, who closes one. *)
(* The second part is about a prompt loop: timers, current events, and     *)
(* what the loop can go down for.                                          *)
(***************************************************************************)
EXTENDS EventLoop, FiniteSetTheorems, WellFoundedInduction, TLAPS

\* Every non-empty set of numbers has a least one.
LEMMA LeastExists ==
  ASSUME NEW S \in SUBSET Nat, S # {}
  PROVE  \E m \in S : \A n \in S : m <= n
<1> DEFINE R == OpToRel(<, Nat)
<1>1. IsWellFoundedOn(R, Nat)
  BY NatLessThanWellFounded
<1>2. PICK m \in S : \A n \in S : <<n, m>> \notin R
  BY <1>1, WFMin
<1>3. \A n \in S : <<n, m>> \in R <=> n < m
  BY DEF OpToRel
<1>4. \A n \in S : ~(n < m)
  BY <1>2, <1>3
<1> QED
  BY <1>4

\* First(S) is an element of S, for sets of machines and of descriptors.
LEMMA FirstFacts ==
  ASSUME NEW S, S \subseteq Machines \/ S \subseteq Fds, S # {}
  PROVE  First(S) \in S
<1>1. S \in SUBSET Nat
  BY DEF Machines, Fds
<1>2. \E m \in S : \A n \in S : m <= n
  BY <1>1, LeastExists
<1> QED
  BY <1>2 DEF First

\* accept and open return a free number.
LEMMA LowestFreeFacts ==
  ASSUME FreeFds # {}
  PROVE  LowestFree \in Fds /\ fds[LowestFree] = Free
<1>1. FreeFds \subseteq Fds
  BY DEF FreeFds
<1>2. LowestFree \in FreeFds
  BY <1>1, FirstFacts DEF LowestFree
<1> QED
  BY <1>2 DEF FreeFds

-----------------------------------------------------------------------------
(***************************************************************************)
(* The descriptor table.                                                   *)
(***************************************************************************)
Descriptor ==
  {Free} \cup {Timer(m) : m \in Machines} \cup {File(m) : m \in Machines}
    \cup {Conn(c) : c \in Conns}

\* What a number refers to can be told by its kind and its owner.
LEMMA Kinds ==
  /\ Free.kind = "free"
  /\ \A m : Timer(m).kind = "timer" /\ Timer(m).of = m
  /\ \A m : File(m).kind = "file" /\ File(m).of = m
  /\ \A c : Conn(c).kind = "conn" /\ Conn(c).of = c
BY DEF Free, Timer, File, Conn

\* A descriptor's kind tells which of the four sorts it is.
LEMMA KindFacts ==
  ASSUME NEW d \in Descriptor
  PROVE  /\ d.kind \in {"free", "timer", "file", "conn"}
         /\ d.kind = "free" => d = Free
         /\ d.kind = "timer" => d.of \in Machines /\ d = Timer(d.of)
         /\ d.kind = "file" => d.of \in Machines /\ d = File(d.of)
         /\ d.kind = "conn" => d.of \in Conns /\ d = Conn(d.of)
BY Kinds DEF Descriptor

\* Timers have the first numbers.
LEMMA MachinesAreFds == Machines \subseteq Fds /\ NoFd \notin Fds /\ Listener \notin Fds
BY PoolAssumption DEF Machines, Fds, NoFd, Listener

(***************************************************************************)
(* The invariant of the loop in every mode.                                *)
(***************************************************************************)
DescriptorsSound ==
  /\ \A f \in Fds : mask[f] = "off" <=> fds[f].kind \in {"free", "file"}
  /\ \A f \in Fds : fds[f].kind = "timer" => fds[f] = Timer(f)
  /\ \A f \in Fds : IsConn(f) => peer[fds[f].of] # "absent"
  /\ \A f, g \in Fds : IsConn(f) /\ fds[f] = fds[g] => f = g

QueueSound ==
  /\ \A i \in 1..Len(queue) : /\ peer[queue[i]] # "absent"
                              /\ \A f \in Fds : fds[f] # Conn(queue[i])
  /\ \A i, j \in 1..Len(queue) : queue[i] = queue[j] => i = j

BatchSound ==
  /\ \A i, j \in 1..Len(batch) : batch[i].fd = batch[j].fd => i = j
  /\ \A i \in 1..Len(batch) : batch[i].fd = Listener => queue # <<>>

ClientsBeyondTimers == \A m \in Machines : client_fd[m] \notin Machines

TablesInv == DescriptorsSound /\ QueueSound
PoolInv == ClientsOwned /\ ClientsBeyondTimers

LoopInv == TypeOK /\ TablesInv /\ BatchSound /\ PoolInv

EventType == [fd : {Listener} \cup Fds, hup : BOOLEAN]

\* The types but those of the loop's own variables.
WorldTypes ==
  /\ fds \in [Fds -> Descriptor]
  /\ mask \in [Fds -> {"off", "in", "inout"}]
  /\ timer \in [Machines -> {"idle", "armed", "expired"}]
  /\ client_fd \in [Machines -> {NoFd} \cup Fds]
  /\ phase \in [Machines -> {"WAITING", "READING", "SENDING"}]
  /\ left \in [Machines -> 0..MaxChunks]
  /\ queue \in Seq(Conns)
  /\ peer \in [Conns -> {"absent", "open", "fin", "rst"}]
  /\ input \in [Conns -> BOOLEAN] /\ full \in [Conns -> BOOLEAN]

\* The type invariant, without and with the loop's own variables.
LEMMA TypesSplit ==
  TypeOK <=> alive \in BOOLEAN /\ accepting \in BOOLEAN /\ batch \in Seq(EventType) /\ WorldTypes
BY DEF TypeOK, WorldTypes, Descriptor, EventType

\* Closing numbers keeps the tables sound.
LEMMA CloseKeepsTables ==
  ASSUME WorldTypes, TablesInv, NEW gone \in SUBSET Fds, NEW eaten, Close(gone, eaten)
  PROVE  TablesInv'
<1>1. /\ \A f \in Fds : fds'[f] = IF f \in gone THEN Free ELSE fds[f]
      /\ \A f \in Fds : mask'[f] = IF f \in gone THEN "off" ELSE mask[f]
      /\ queue' = queue
  BY DEF Close
<1>2. \A c \in Conns : (\A f \in gone : fds[f] # Conn(c)) => peer'[c] = peer[c]
  BY DEF Close
<1>3. \A f \in Fds : IsConn(f)' => f \notin gone /\ IsConn(f) /\ fds'[f] = fds[f]
  BY <1>1, Kinds DEF IsConn
<1>4. \A f \in Fds : IsConn(f)' => peer'[fds'[f].of] # "absent"
  <2> SUFFICES ASSUME NEW f \in Fds, IsConn(f)'
               PROVE  peer'[fds'[f].of] # "absent"
    OBVIOUS
  <2>1. f \notin gone /\ IsConn(f) /\ fds'[f] = fds[f] /\ fds[f] \in Descriptor
    BY <1>3 DEF WorldTypes
  <2>2. fds[f].of \in Conns /\ fds[f] = Conn(fds[f].of)
    BY <2>1, KindFacts DEF IsConn
  <2>3. \A g \in gone : fds[g] # Conn(fds[f].of)
    BY <2>1, <2>2 DEF TablesInv, DescriptorsSound
  <2> QED
    BY <1>2, <2>1, <2>2, <2>3 DEF TablesInv, DescriptorsSound
<1>5. DescriptorsSound'
  <2>1. \A f \in Fds : mask'[f] = "off" <=> fds'[f].kind \in {"free", "file"}
    BY <1>1, Kinds DEF TablesInv, DescriptorsSound
  <2>2. \A f \in Fds : fds'[f].kind = "timer" => fds'[f] = Timer(f)
    BY <1>1, Kinds DEF TablesInv, DescriptorsSound
  <2>3. \A f, g \in Fds : IsConn(f)' /\ fds'[f] = fds'[g] => f = g
    <3> SUFFICES ASSUME NEW f \in Fds, NEW g \in Fds, IsConn(f)', fds'[f] = fds'[g]
                 PROVE  f = g
      OBVIOUS
    <3>1. IsConn(f) /\ fds'[f] = fds[f] /\ fds[f].kind = "conn"
      BY <1>3 DEF IsConn
    <3>2. fds'[g] = fds[g]
      BY <1>1, <3>1, Kinds
    <3> QED
      BY <3>1, <3>2 DEF TablesInv, DescriptorsSound
  <2> QED
    BY <1>4, <2>1, <2>2, <2>3 DEF DescriptorsSound
<1>6. QueueSound'
  <2>1. \A i \in 1..Len(queue) : queue[i] \in Conns /\ peer'[queue[i]] = peer[queue[i]]
    BY <1>2 DEF TablesInv, QueueSound, WorldTypes
  <2>2. \A i \in 1..Len(queue) : \A f \in Fds : fds'[f] # Conn(queue[i])
    BY <1>1, Kinds DEF TablesInv, QueueSound
  <2> QED
    BY <1>1, <2>1, <2>2 DEF TablesInv, QueueSound
<1> QED
  BY <1>5, <1>6 DEF TablesInv

\* Files are opened at free numbers.
Opens(m) == \E opened \in SUBSET FreeFds : OpenFiles(m, opened)

\* Whatever opens at most files keeps the tables sound, if it watches what was
\* watched and no connection disappears.
LEMMA KeepsTables ==
  ASSUME WorldTypes, TablesInv,
         fds' = fds \/ \E m \in Machines : Opens(m),
         \A f \in Fds : mask'[f] = "off" <=> mask[f] = "off",
         \A c \in Conns : peer[c] # "absent" => peer'[c] # "absent",
         queue' = queue
  PROVE  /\ TablesInv'
         /\ \A f \in Fds : IsConn(f) <=> IsConn(f)'
         /\ \A f \in Fds : IsConn(f) => fds'[f] = fds[f]
<1>1. CASE fds' = fds
  <2>1. \A f \in Fds : IsConn(f) <=> IsConn(f)'
    BY <1>1 DEF IsConn
  <2>2. \A f \in Fds : IsConn(f) => fds[f].of \in Conns
    BY KindFacts DEF IsConn, WorldTypes
  <2>3. DescriptorsSound'
    BY <1>1, <2>1, <2>2 DEF TablesInv, DescriptorsSound
  <2>4. QueueSound'
    <3>1. \A i \in 1..Len(queue) : queue[i] \in Conns /\ peer'[queue[i]] # "absent"
      BY DEF TablesInv, QueueSound, WorldTypes
    <3> QED
      BY <1>1, <3>1 DEF TablesInv, QueueSound
  <2> QED
    BY <1>1, <2>1, <2>3, <2>4 DEF TablesInv
<1>2. CASE \E m \in Machines : Opens(m)
  <2>1. PICK m \in Machines, opened \in SUBSET FreeFds : OpenFiles(m, opened)
    BY <1>2 DEF Opens
  <2>2. \A f \in opened : f \in Fds /\ fds[f] = Free
    BY DEF FreeFds
  <2>3. \A f \in Fds : fds'[f] = IF f \in opened THEN File(m) ELSE fds[f]
    BY <2>1 DEF OpenFiles
  <2>4. \A f \in Fds : (IsConn(f) <=> IsConn(f)') /\ (IsConn(f) => fds'[f] = fds[f])
    BY <2>2, <2>3, Kinds DEF IsConn
  <2>5. \A f \in Fds : IsConn(f) => fds[f].of \in Conns
    BY KindFacts DEF IsConn, WorldTypes
  <2>6. \A f \in Fds : mask'[f] = "off" <=> fds'[f].kind \in {"free", "file"}
    BY <2>2, <2>3, Kinds DEF TablesInv, DescriptorsSound
  <2>7. \A f \in Fds : fds'[f].kind = "timer" => fds'[f] = Timer(f)
    BY <2>2, <2>3, Kinds DEF TablesInv, DescriptorsSound
  <2>8. \A f, g \in Fds : IsConn(f)' /\ fds'[f] = fds'[g] => f = g
    BY <2>2, <2>3, <2>4, Kinds DEF TablesInv, DescriptorsSound, IsConn
  <2>9. \A f \in Fds : IsConn(f)' => peer'[fds'[f].of] # "absent"
    BY <2>4, <2>5 DEF TablesInv, DescriptorsSound
  <2>10. QueueSound'
    BY <2>2, <2>3, Kinds DEF TablesInv, QueueSound, WorldTypes
  <2> QED
    BY <2>4, <2>6, <2>7, <2>8, <2>9, <2>10 DEF TablesInv, DescriptorsSound
<1> QED
  BY <1>1, <1>2

(***************************************************************************)
(* The batch and the pool.                                                 *)
(***************************************************************************)

\* Handling the first event leaves the others, in their order.
LEMMA TailFacts ==
  ASSUME batch \in Seq(EventType), batch # <<>>, batch' = Tail(batch)
  PROVE  /\ batch' \in Seq(EventType)
         /\ Event \in EventType /\ Event = batch[1] /\ 1 \in 1..Len(batch)
         /\ \A i \in 1..Len(batch') : i + 1 \in 1..Len(batch) /\ batch'[i] = batch[i + 1]
BY DEF Event

\* What is left of a batch names other numbers than the event taken from it.
LEMMA TailKeepsBatch ==
  ASSUME batch \in Seq(EventType), batch # <<>>, batch' = Tail(batch), BatchSound,
         Event.fd = Listener \/ queue' = queue
  PROVE  BatchSound' /\ \A i \in 1..Len(batch') : batch'[i].fd # Event.fd
<1>1. /\ batch' \in Seq(EventType)
      /\ Event = batch[1] /\ 1 \in 1..Len(batch)
      /\ \A i \in 1..Len(batch') : i + 1 \in 1..Len(batch) /\ batch'[i] = batch[i + 1]
  BY TailFacts
<1>2. \A i \in 1..Len(batch') : batch'[i].fd # Event.fd
  BY <1>1 DEF BatchSound
<1> QED
  BY <1>1, <1>2 DEF BatchSound

\* Who serves an event either has its connection or none, and nobody else has it.
LEMMA ServeFacts ==
  ASSUME WorldTypes, PoolInv,
         NEW m \in Machines, NEW f \in Fds \ Machines, Serve(m, f)
  PROVE  /\ client_fd[m] = f \/ client_fd[m] = NoFd
         /\ \A n \in Machines \ {m} : client_fd[n] # f
         /\ phase[m] = "WAITING" <=> client_fd[m] = NoFd
<1>1. /\ m \in Selected(f)
      /\ f # NoFd
      /\ \A n \in Machines : client_fd[n] # NoFd <=> phase[n] # "WAITING"
  BY MachinesAreFds DEF Serve, PoolInv, ClientsOwned, Busy
<1>2. CASE Owners(f) # {}
  BY <1>1, <1>2 DEF Selected, Owners, PoolInv, ClientsOwned, Busy
<1>3. CASE Owners(f) = {}
  BY <1>1, <1>3 DEF Selected, Owners
<1> QED
  BY <1>2, <1>3

\* The pool stays sound while no connection of a machine is closed.
LEMMA SameClientsKeepPool ==
  ASSUME WorldTypes, PoolInv, UNCHANGED <<client_fd, phase>>,
         \A f \in Fds : IsConn(f) => IsConn(f)',
         \A f \in Fds : mask'[f] = "off" => mask[f] = "off"
  PROVE  PoolInv'
BY DEF PoolInv, ClientsOwned, ClientsBeyondTimers, Busy, IsConn, WorldTypes

\* A machine that takes over a connection nobody else has leaves the pool sound.
LEMMA AdoptKeepsPool ==
  ASSUME WorldTypes, PoolInv, DescriptorsSound,
         NEW m \in Machines, NEW f \in Fds \ Machines, NEW next \in {"READING", "SENDING"},
         \A n \in Machines \ {m} : client_fd[n] # f,
         IsConn(f), Adopt(m, f, next),
         \A g \in Fds : IsConn(g) => IsConn(g)',
         \A g \in Fds : mask'[g] = "off" => mask[g] = "off"
  PROVE  PoolInv'
<1>1. /\ \A n \in Machines : client_fd'[n] = IF n = m THEN f ELSE client_fd[n]
      /\ \A n \in Machines : phase'[n] = IF n = m THEN next ELSE phase[n]
  BY DEF Adopt, WorldTypes
<1>2. f # NoFd /\ mask[f] # "off"
  BY MachinesAreFds DEF DescriptorsSound, IsConn
<1>3. ClientsBeyondTimers'
  BY <1>1 DEF PoolInv, ClientsBeyondTimers
<1>4. \A n \in Machines : Busy(n)' <=> phase'[n] # "WAITING"
  BY <1>1, <1>2 DEF PoolInv, ClientsOwned, Busy
<1>5. \A n \in Machines : Busy(n)' => IsConn(client_fd[n])' /\ mask'[client_fd'[n]] # "off"
  <2> SUFFICES ASSUME NEW n \in Machines, Busy(n)'
               PROVE  IsConn(client_fd[n])' /\ mask'[client_fd'[n]] # "off"
    OBVIOUS
  <2>1. CASE n = m
    BY <1>1, <1>2, <2>1 DEF IsConn
  <2>2. CASE n # m
    <3>1. IsConn(client_fd[n]) /\ mask[client_fd[n]] # "off" /\ client_fd'[n] = client_fd[n]
      BY <1>1, <2>2 DEF PoolInv, ClientsOwned, Busy
    <3>2. client_fd[n] \in Fds
      BY <3>1 DEF IsConn
    <3> QED
      BY <3>1, <3>2 DEF IsConn
  <2> QED
    BY <2>1, <2>2
<1>6. \A n, k \in Machines : Busy(n)' /\ client_fd'[n] = client_fd'[k] => n = k
  BY <1>1, <1>2 DEF PoolInv, ClientsOwned, Busy
<1> QED
  BY <1>3, <1>4, <1>5, <1>6 DEF PoolInv, ClientsOwned, Busy, IsConn

(***************************************************************************)
(* A reset.                                                                *)
(***************************************************************************)

\* Resetting a machine closes nothing of another one, unless the caller does.
LEMMA ResetKeepsSound ==
  ASSUME WorldTypes, TablesInv, PoolInv,
         NEW m \in Machines, NEW also \in SUBSET Fds, Reset(m, also),
         \A n \in Machines \ {m} : client_fd[n] \notin also
  PROVE  WorldTypes' /\ TablesInv' /\ PoolInv' /\ queue' = queue
<1> DEFINE gone == Held(m) \cup also
<1>1. gone \in SUBSET Fds
  BY DEF Held
<1>0. PICK eaten : Close(gone, eaten)
  BY DEF Reset, CloseAndStop
<1>2. TablesInv' /\ queue' = queue
  BY <1>0, <1>1, CloseKeepsTables DEF Close
<1>3. WorldTypes'
  <2>1. fds' \in [Fds -> Descriptor] /\ mask' \in [Fds -> {"off", "in", "inout"}]
    BY <1>0 DEF Close, WorldTypes, Descriptor
  <2>2. timer' \in [Machines -> {"idle", "armed", "expired"}]
    BY DEF Reset, SetTimer, WorldTypes
  <2>3. /\ client_fd' \in [Machines -> {NoFd} \cup Fds]
        /\ phase' \in [Machines -> {"WAITING", "READING", "SENDING"}]
        /\ left' \in [Machines -> 0..MaxChunks]
    BY BoundsAssumption DEF Reset, WorldTypes
  <2>4. queue' \in Seq(Conns) /\ peer' \in [Conns -> {"absent", "open", "fin", "rst"}]
    BY <1>0 DEF Close, WorldTypes
  <2>5. input' \in [Conns -> BOOLEAN] /\ full' \in [Conns -> BOOLEAN]
    <3>1. \E drained, dead :
            /\ input' = [c \in Conns |-> IF c \in drained THEN FALSE ELSE input[c]]
            /\ full' = [c \in Conns |-> IF c \in dead THEN FALSE ELSE full[c]]
      BY <1>0, Zenon DEF Close
    <3>2. input \in [Conns -> BOOLEAN] /\ full \in [Conns -> BOOLEAN]
      BY DEF WorldTypes
    <3> QED
      BY <3>1, <3>2, Zenon
  <2> QED
    BY <2>1, <2>2, <2>3, <2>4, <2>5 DEF WorldTypes
<1>4. /\ \A n \in Machines : client_fd'[n] = IF n = m THEN NoFd ELSE client_fd[n]
      /\ \A n \in Machines : phase'[n] = IF n = m THEN "WAITING" ELSE phase[n]
      /\ \A f \in Fds : f \notin Held(m) \cup also => fds'[f] = fds[f] /\ mask'[f] = mask[f]
  BY <1>0 DEF Reset, Close, WorldTypes
<1>5. \A n \in Machines \ {m} : Busy(n) => client_fd[n] \notin Held(m) \cup also
  <2> SUFFICES ASSUME NEW n \in Machines \ {m}, Busy(n)
               PROVE  client_fd[n] \notin Held(m)
    OBVIOUS
  <2>1. client_fd[n] # client_fd[m] /\ IsConn(client_fd[n])
    BY DEF PoolInv, ClientsOwned, Busy
  <2> QED
    BY <2>1, Kinds DEF Held, IsConn
<1>6. \A n \in Machines : Busy(n)' => /\ n # m /\ Busy(n)
                                      /\ IsConn(client_fd[n])' /\ mask'[client_fd'[n]] # "off"
  <2> SUFFICES ASSUME NEW n \in Machines, Busy(n)'
               PROVE  n # m /\ Busy(n) /\ IsConn(client_fd[n])' /\ mask'[client_fd'[n]] # "off"
    OBVIOUS
  <2>1. n # m /\ Busy(n) /\ client_fd'[n] = client_fd[n]
    BY <1>4 DEF Busy
  <2>2. IsConn(client_fd[n]) /\ mask[client_fd[n]] # "off"
    BY <2>1 DEF PoolInv, ClientsOwned
  <2> QED
    BY <1>4, <1>5, <2>1, <2>2 DEF IsConn
<1>7. PoolInv'
  <2>1. ClientsBeyondTimers'
    BY <1>4, MachinesAreFds DEF PoolInv, ClientsBeyondTimers
  <2>2. \A n \in Machines : Busy(n)' <=> phase'[n] # "WAITING"
    BY <1>4 DEF PoolInv, ClientsOwned, Busy
  <2>3. \A n, k \in Machines : Busy(n)' /\ client_fd'[n] = client_fd'[k] => n = k
    BY <1>4 DEF PoolInv, ClientsOwned, Busy
  <2> QED
    BY <1>6, <2>1, <2>2, <2>3 DEF PoolInv, ClientsOwned
<1> QED
  BY <1>2, <1>3, <1>7

-----------------------------------------------------------------------------
(***************************************************************************)
(* Every action keeps the invariant of the loop, whatever the clients do   *)
(* and however late the loop is.                                           *)
(***************************************************************************)

\* A batch names ready numbers, each once.
LEMMA Fetched ==
  ASSUME WorldTypes, Wait
  PROVE  /\ batch' \in Seq(EventType) /\ BatchSound'
         /\ \A i \in 1..Len(batch') : batch'[i].fd \in ReadyFds
<1> DEFINE count == Smaller(MaxMachines, Cardinality(ReadyFds))
<1>1. PICK order \in Injection(1..count, ReadyFds) :
        batch' = [i \in 1..count |-> [fd |-> order[i], hup |-> HungUp(order[i])]]
  BY DEF Wait
<1>3. ReadyFds \subseteq {Listener} \cup Fds
  BY DEF ReadyFds
<1>4. count \in Nat
  <2>1. {Listener} \cup Fds \subseteq 0..MaxFd
    BY PoolAssumption DEF Listener, Fds
  <2>2. IsFiniteSet(0..MaxFd)
    BY PoolAssumption, FS_Interval
  <2>3. Cardinality(ReadyFds) \in Nat
    BY <1>3, <2>1, <2>2, FS_Subset, FS_CardinalityType
  <2> QED
    BY <2>3, PoolAssumption DEF Smaller
<1> HIDE DEF count
<1>5. /\ order \in [1..count -> ReadyFds]
      /\ \A i, j \in 1..count : i # j => order[i] # order[j]
  BY DEF Injection, IsInjective
<1>8. \A i \in 1..count : [fd |-> order[i], hup |-> HungUp(order[i])] \in EventType
  BY <1>3, <1>5 DEF EventType, HungUp, IsConn
<1>9. batch' \in Seq(EventType) /\ Len(batch') = count
  BY <1>1, <1>4, <1>8
<1>10. \A i \in 1..Len(batch') : batch'[i].fd = order[i] /\ order[i] \in ReadyFds
  BY <1>1, <1>5, <1>9
<1>11. queue' = queue
  BY DEF Wait, sockets
<1>12. Listener \in ReadyFds => queue # <<>>
  BY MachinesAreFds DEF ReadyFds
<1>13. BatchSound'
  BY <1>5, <1>9, <1>10, <1>11, <1>12 DEF BatchSound
<1> QED
  BY <1>9, <1>10, <1>13

\* Nothing changed but the batch.
LEMMA SameWorld ==
  ASSUME WorldTypes, TablesInv, PoolInv, UNCHANGED <<kernel, pool, sockets>>
  PROVE  WorldTypes' /\ TablesInv' /\ PoolInv'
<1>1. /\ fds' = fds /\ mask' = mask /\ timer' = timer
      /\ client_fd' = client_fd /\ phase' = phase /\ left' = left
      /\ queue' = queue /\ peer' = peer /\ input' = input /\ full' = full
  BY DEF kernel, pool, sockets
<1>2. WorldTypes'
  BY <1>1 DEF WorldTypes
<1>3. TablesInv' /\ \A f \in Fds : IsConn(f) <=> IsConn(f)'
  BY <1>1, KeepsTables
<1>4. PoolInv'
  BY <1>1, <1>3, SameClientsKeepPool
<1> QED
  BY <1>2, <1>3, <1>4

\* epoll_wait keeps the invariant.
LEMMA WaitKeeps == LoopInv /\ Wait => LoopInv'
<1> SUFFICES ASSUME LoopInv, Wait PROVE LoopInv'
  OBVIOUS
<1>1. WorldTypes /\ alive \in BOOLEAN /\ accepting \in BOOLEAN
  BY TypesSplit DEF LoopInv
<1>2. batch' \in Seq(EventType) /\ BatchSound'
  BY <1>1, Fetched
<1>3. WorldTypes' /\ TablesInv' /\ PoolInv'
  BY <1>1, SameWorld DEF LoopInv, Wait
<1>4. alive' = alive /\ accepting' = accepting
  BY DEF Wait
<1>5. TypeOK'
  BY <1>1, <1>2, <1>3, <1>4 DEF TypeOK, WorldTypes, Descriptor, EventType
<1> QED
  BY <1>2, <1>3, <1>5 DEF LoopInv

\* The invariant from its parts.
LEMMA Parts ==
  ASSUME alive' \in BOOLEAN, accepting' \in BOOLEAN, batch' \in Seq(EventType),
         WorldTypes', TablesInv', BatchSound', PoolInv'
  PROVE  LoopInv'
BY DEF LoopInv, TypeOK, WorldTypes, Descriptor, EventType

\* What the invariant gives to a step that handles an event.
LEMMA Handling ==
  ASSUME LoopInv, NEW f, Handles(f)
  PROVE  /\ WorldTypes /\ TablesInv /\ PoolInv /\ BatchSound
         /\ alive \in BOOLEAN /\ accepting \in BOOLEAN
         /\ batch \in Seq(EventType) /\ batch # <<>> /\ Event.fd = f
         /\ \E i \in 1..Len(batch) : batch[i] = Event
<1>1. batch \in Seq(EventType) /\ batch # <<>>
  BY TypesSplit DEF LoopInv, Handles
<1>2. Event = batch[1] /\ 1 \in 1..Len(batch)
  BY <1>1 DEF Event
<1> QED
  BY <1>1, <1>2, TypesSplit DEF LoopInv, Handles

\* The head of the queue becomes a connection of the lowest free number.
LEMMA AcceptKeepsTables ==
  ASSUME WorldTypes, TablesInv, queue # <<>>, FreeFds # {},
         fds' = [fds EXCEPT ![LowestFree] = Conn(Head(queue))],
         mask' = [mask EXCEPT ![LowestFree] = "in"],
         queue' = Tail(queue), peer' = peer
  PROVE  /\ TablesInv'
         /\ fds' \in [Fds -> Descriptor] /\ mask' \in [Fds -> {"off", "in", "inout"}]
         /\ queue' \in Seq(Conns)
         /\ \A f \in Fds : IsConn(f) => f # LowestFree /\ IsConn(f)' /\ fds'[f] = fds[f]
<1>1. LowestFree \in Fds /\ fds[LowestFree] = Free
  BY LowestFreeFacts
<1> DEFINE c == Head(queue)
<1>2. /\ queue \in Seq(Conns) /\ c = queue[1] /\ 1 \in 1..Len(queue) /\ c \in Conns
      /\ \A i \in 1..Len(queue') : i + 1 \in 1..Len(queue) /\ queue'[i] = queue[i + 1]
      /\ queue' \in Seq(Conns)
  BY DEF WorldTypes
<1>3. /\ \A f \in Fds : fds'[f] = IF f = LowestFree THEN Conn(c) ELSE fds[f]
      /\ \A f \in Fds : mask'[f] = IF f = LowestFree THEN "in" ELSE mask[f]
  BY DEF WorldTypes
<1>4. \A f \in Fds : fds[f] # Conn(c) /\ peer[c] # "absent"
  BY <1>2 DEF TablesInv, QueueSound
<1>5. \A i \in 1..Len(queue') : queue'[i] # c
  BY <1>2 DEF TablesInv, QueueSound
<1> HIDE DEF c
<1>6. \A f \in Fds : IsConn(f)' <=> f = LowestFree \/ IsConn(f)
  BY <1>1, <1>3, Kinds DEF IsConn
<1>7. \A f \in Fds : IsConn(f) => f # LowestFree /\ fds'[f] = fds[f]
  BY <1>1, <1>3, Kinds DEF IsConn
<1>8. DescriptorsSound'
  <2>1. \A f \in Fds : mask'[f] = "off" <=> fds'[f].kind \in {"free", "file"}
    BY <1>1, <1>3, Kinds DEF TablesInv, DescriptorsSound
  <2>2. \A f \in Fds : fds'[f].kind = "timer" => fds'[f] = Timer(f)
    BY <1>1, <1>3, Kinds DEF TablesInv, DescriptorsSound
  <2>3. \A f \in Fds : IsConn(f)' => peer'[fds'[f].of] # "absent"
    BY <1>3, <1>4, <1>6, <1>7, Kinds DEF TablesInv, DescriptorsSound
  <2>4. \A f, g \in Fds : IsConn(f)' /\ fds'[f] = fds'[g] => f = g
    BY <1>3, <1>4, <1>6, <1>7 DEF TablesInv, DescriptorsSound
  <2> QED
    BY <2>1, <2>2, <2>3, <2>4 DEF DescriptorsSound
<1>9. QueueSound'
  <2>1. \A i, j \in 1..Len(queue') : queue'[i] = queue'[j] => i = j
    <3> SUFFICES ASSUME NEW i \in 1..Len(queue'), NEW j \in 1..Len(queue'), queue'[i] = queue'[j]
                 PROVE  i = j
      OBVIOUS
    <3>1. i + 1 = j + 1
      BY <1>2 DEF TablesInv, QueueSound
    <3> QED
      BY <3>1
  <2>2. \A i \in 1..Len(queue') : queue'[i] \in Conns /\ peer'[queue'[i]] # "absent"
    BY <1>2 DEF TablesInv, QueueSound
  <2>3. \A i \in 1..Len(queue') : \A f \in Fds : fds'[f] # Conn(queue'[i])
    <3> SUFFICES ASSUME NEW i \in 1..Len(queue'), NEW f \in Fds
                 PROVE  fds'[f] # Conn(queue'[i])
      OBVIOUS
    <3>1. fds[f] # Conn(queue'[i])
      BY <1>2 DEF TablesInv, QueueSound
    <3>2. Conn(c) # Conn(queue'[i])
      BY <1>5, Kinds
    <3> QED
      BY <1>3, <3>1, <3>2
  <2> QED
    BY <2>1, <2>2, <2>3 DEF QueueSound
<1>10. fds' \in [Fds -> Descriptor] /\ mask' \in [Fds -> {"off", "in", "inout"}]
  BY <1>2, <1>1 DEF WorldTypes, Descriptor, c
<1> QED
  BY <1>2, <1>6, <1>7, <1>8, <1>9, <1>10 DEF TablesInv

\* The listener's event keeps the invariant, whether accept succeeds, fails, or
\* failed before.
LEMMA AcceptKeeps == LoopInv /\ Accept => LoopInv'
<1> SUFFICES ASSUME LoopInv, Accept PROVE LoopInv'
  OBVIOUS
<1>1. /\ WorldTypes /\ TablesInv /\ PoolInv /\ BatchSound
      /\ alive \in BOOLEAN /\ accepting \in BOOLEAN
      /\ batch \in Seq(EventType) /\ batch # <<>> /\ Event.fd = Listener
  BY Handling DEF Accept
<1>2. alive' = alive
  BY DEF Accept
<1>3. CASE batch' = <<>> /\ UNCHANGED <<accepting, kernel, queue>>
  <2>1. UNCHANGED <<kernel, pool, sockets>>
    BY <1>3 DEF Accept, sockets
  <2>2. WorldTypes' /\ TablesInv' /\ PoolInv'
    BY <1>1, <2>1, SameWorld
  <2>3. batch' \in Seq(EventType) /\ BatchSound' /\ accepting' \in BOOLEAN
    BY <1>1, <1>3 DEF BatchSound
  <2> QED
    BY <1>1, <1>2, <2>2, <2>3, Parts
<1>4. CASE batch' = Tail(batch)
  <2>1. batch' \in Seq(EventType) /\ BatchSound'
    BY <1>1, <1>4, TailFacts, TailKeepsBatch
  <2>2. accepting' \in BOOLEAN
    BY <1>1 DEF Accept
  <2>3. CASE UNCHANGED <<kernel, queue>>
    <3>1. UNCHANGED <<kernel, pool, sockets>>
      BY <2>3 DEF Accept, sockets
    <3>2. WorldTypes' /\ TablesInv' /\ PoolInv'
      BY <1>1, <3>1, SameWorld
    <3> QED
      BY <1>1, <1>2, <2>1, <2>2, <3>2, Parts
  <2>4. CASE /\ FreeFds # {}
             /\ fds' = [fds EXCEPT ![LowestFree] = Conn(Head(queue))]
             /\ mask' = [mask EXCEPT ![LowestFree] = "in"]
             /\ queue' = Tail(queue)
             /\ UNCHANGED timer
    <3>1. queue # <<>>
      BY <1>1, Handling DEF BatchSound, Accept
    <3>2. /\ client_fd' = client_fd /\ phase' = phase /\ left' = left
          /\ peer' = peer /\ input' = input /\ full' = full
      BY DEF Accept, pool
    <3>3. /\ TablesInv'
          /\ fds' \in [Fds -> Descriptor] /\ mask' \in [Fds -> {"off", "in", "inout"}]
          /\ queue' \in Seq(Conns)
          /\ \A f \in Fds : IsConn(f) => IsConn(f)'
      BY <1>1, <2>4, <3>1, <3>2, AcceptKeepsTables
    <3>4. WorldTypes'
      BY <1>1, <2>4, <3>2, <3>3 DEF WorldTypes
    <3>5. PoolInv'
      <4>1. \A f \in Fds : mask'[f] = "off" => mask[f] = "off"
        BY <1>1, <2>4 DEF WorldTypes
      <4> QED
        BY <1>1, <3>2, <3>3, <4>1, SameClientsKeepPool
    <3> QED
      BY <1>1, <1>2, <2>1, <2>2, <3>3, <3>4, <3>5, Parts
  <2> QED
    BY <1>4, <2>3, <2>4 DEF Accept
<1> QED
  BY <1>3, <1>4 DEF Accept

\* A step that handles the first event and nothing but the queue's head keeps the
\* invariant if it keeps its parts.
LEMMA Handled ==
  ASSUME LoopInv, NEW f, Handles(f), batch' = Tail(batch), queue' = queue,
         alive' \in BOOLEAN, accepting' = accepting, WorldTypes', TablesInv', PoolInv'
  PROVE  LoopInv'
<1>1. /\ batch \in Seq(EventType) /\ batch # <<>> /\ BatchSound /\ accepting \in BOOLEAN
  BY Handling
<1>2. batch' \in Seq(EventType) /\ BatchSound'
  BY <1>1, TailFacts, TailKeepsBatch
<1> QED
  BY <1>1, <1>2, Parts

\* EPOLLHUP keeps the invariant, with an owner to reset or without one.
LEMMA HangUpKeeps ==
  ASSUME LoopInv, NEW f \in Fds, HangUp(f)
  PROVE  LoopInv'
<1>1. Handles(f) /\ batch' = Tail(batch) /\ alive' = alive /\ accepting' = accepting
  BY DEF HangUp
<1>2. WorldTypes /\ TablesInv /\ PoolInv /\ alive \in BOOLEAN
  BY <1>1, Handling
<1>3. WorldTypes' /\ TablesInv' /\ PoolInv' /\ queue' = queue
  <2>1. CASE Owners(f) # {}
    <3>1. Reset(First(Owners(f)), {}) /\ First(Owners(f)) \in Machines
      BY <2>1, FirstFacts DEF HangUp, Owners
    <3> QED
      BY <1>2, <3>1, ResetKeepsSound
  <2>2. CASE Owners(f) = {}
    <3>1. UNCHANGED <<kernel, pool, sockets>>
      BY <2>2 DEF HangUp
    <3> QED
      BY <1>2, <3>1, SameWorld DEF sockets
  <2> QED
    BY <2>1, <2>2
<1> QED
  BY <1>1, <1>2, <1>3, Handled

\* A timeout keeps the invariant, even when the loop closes the timer's number.
LEMMA TimerEventKeeps ==
  ASSUME LoopInv, NEW m \in Machines, TimerEvent(m)
  PROVE  LoopInv'
<1>1. Handles(m) /\ batch' = Tail(batch) /\ alive' = alive /\ accepting' = accepting
  BY DEF TimerEvent
<1>2. WorldTypes /\ TablesInv /\ PoolInv /\ alive \in BOOLEAN
  BY <1>1, Handling
<1>3. PICK also \in SUBSET {m} : Reset(m, also)
  BY DEF TimerEvent
<1>4. also \in SUBSET Fds /\ \A n \in Machines : client_fd[n] \notin also
  BY <1>2, MachinesAreFds DEF PoolInv, ClientsBeyondTimers
<1>5. WorldTypes' /\ TablesInv' /\ PoolInv' /\ queue' = queue
  BY <1>2, <1>3, <1>4, ResetKeepsSound
<1> QED
  BY <1>1, <1>2, <1>5, Handled

\* The event that stops the server leaves its tables sound.
LEMMA DownKeeps ==
  ASSUME LoopInv, NEW f \in Fds, NEW m, NoMachine(f) \/ NoDirectory(m, f)
  PROVE  LoopInv'
<1>1. /\ Handles(f) /\ batch' = Tail(batch) /\ alive' \in BOOLEAN /\ accepting' = accepting
      /\ UNCHANGED <<kernel, pool, sockets>>
  BY DEF NoMachine, NoDirectory, Reads, Serve, ClientEvent
<1>2. WorldTypes /\ TablesInv /\ PoolInv
  BY <1>1, Handling
<1>3. WorldTypes' /\ TablesInv' /\ PoolInv'
  BY <1>1, <1>2, SameWorld
<1> QED
  BY <1>1, <1>3, Handled DEF sockets

\* The end of a request keeps the invariant.
LEMMA FinishKeeps ==
  ASSUME LoopInv, NEW m \in Machines, NEW f \in Fds \ Machines, Finish(m, f)
  PROVE  LoopInv'
<1>1. /\ Handles(f) /\ batch' = Tail(batch) /\ alive' = alive /\ accepting' = accepting
      /\ Serve(m, f) /\ Reset(m, {f})
  BY DEF Finish, Serve, ClientEvent
<1>2. WorldTypes /\ TablesInv /\ PoolInv /\ alive \in BOOLEAN
  BY <1>1, Handling
<1>3. \A n \in Machines \ {m} : client_fd[n] # f
  BY <1>1, <1>2, ServeFacts
<1>4. WorldTypes' /\ TablesInv' /\ PoolInv' /\ queue' = queue
  BY <1>1, <1>2, <1>3, ResetKeepsSound
<1> QED
  BY <1>1, <1>2, <1>4, Handled

\* The type of a table with files opened in it.
LEMMA OpensType ==
  ASSUME WorldTypes, NEW m \in Machines, fds' = fds \/ Opens(m)
  PROVE  fds' \in [Fds -> Descriptor]
<1>1. File(m) \in Descriptor
  BY DEF Descriptor
<1>2. CASE Opens(m)
  <2>1. PICK opened \in SUBSET FreeFds : OpenFiles(m, opened)
    BY <1>2 DEF Opens
  <2> QED
    BY <1>1, <2>1 DEF WorldTypes, OpenFiles
<1> QED
  BY <1>2 DEF WorldTypes

\* A call that continues: the machine holds the connection and is timed, and at
\* most files were opened.
LEMMA ServedKeeps ==
  ASSUME LoopInv, NEW m \in Machines, NEW f \in Fds \ Machines, Serve(m, f), IsConn(f),
         fds' = fds \/ Opens(m),
         mask' \in [Fds -> {"off", "in", "inout"}],
         \A g \in Fds : mask'[g] = "off" <=> mask[g] = "off",
         left' \in [Machines -> 0..MaxChunks],
         input' \in [Conns -> BOOLEAN], full' \in [Conns -> BOOLEAN],
         SetTimer(m, "armed"),
         UNCHANGED <<alive, accepting, queue, peer>>,
         \/ \E next \in {"READING", "SENDING"} : Adopt(m, f, next)
         \/ UNCHANGED <<client_fd, phase>>
  PROVE  LoopInv'
<1>1. Handles(f) /\ batch' = Tail(batch)
  BY DEF Serve, ClientEvent
<1>2. /\ WorldTypes /\ TablesInv /\ PoolInv
      /\ alive \in BOOLEAN
  BY <1>1, Handling
<1>3. TablesInv' /\ \A g \in Fds : IsConn(g) => IsConn(g)'
  BY <1>2, KeepsTables
<1>4. PoolInv'
  <2>1. CASE UNCHANGED <<client_fd, phase>>
    BY <1>2, <1>3, <2>1, SameClientsKeepPool
  <2>2. CASE \E next \in {"READING", "SENDING"} : Adopt(m, f, next)
    <3>1. \A n \in Machines \ {m} : client_fd[n] # f
      BY <1>2, ServeFacts
    <3>2. PICK next \in {"READING", "SENDING"} : Adopt(m, f, next)
      BY <2>2
    <3> QED
      BY <1>2, <1>3, <3>1, <3>2, AdoptKeepsPool DEF TablesInv
  <2> QED
    BY <2>1, <2>2
<1>5. WorldTypes'
  <2>1. fds' \in [Fds -> Descriptor]
    BY <1>2, OpensType
  <2>2. timer' \in [Machines -> {"idle", "armed", "expired"}]
    BY <1>2 DEF WorldTypes, SetTimer
  <2>3. client_fd' \in [Machines -> {NoFd} \cup Fds]
        /\ phase' \in [Machines -> {"WAITING", "READING", "SENDING"}]
    <3>1. ASSUME NEW next \in {"READING", "SENDING"}, Adopt(m, f, next)
          PROVE  /\ client_fd' \in [Machines -> {NoFd} \cup Fds]
                 /\ phase' \in [Machines -> {"WAITING", "READING", "SENDING"}]
      BY <1>2, <3>1 DEF WorldTypes, Adopt
    <3>2. CASE UNCHANGED <<client_fd, phase>>
      BY <1>2, <3>2 DEF WorldTypes
    <3> QED
      BY <3>1, <3>2
  <2> QED
    BY <1>2, <2>1, <2>2, <2>3 DEF WorldTypes
<1> QED
  BY <1>1, <1>2, <1>3, <1>4, <1>5, Handled

\* An incomplete request keeps the invariant.
LEMMA NeedReadKeeps ==
  ASSUME LoopInv, NEW m \in Machines, NEW f \in Fds \ Machines, NeedReadMoreData(m, f)
  PROVE  LoopInv'
<1>1. WorldTypes
  BY TypesSplit DEF LoopInv
<1>2. input' \in [Conns -> BOOLEAN]
  BY <1>1, Zenon DEF NeedReadMoreData, WorldTypes
<1>3. /\ Serve(m, f) /\ IsConn(f) /\ Adopt(m, f, "READING") /\ SetTimer(m, "armed")
      /\ fds' = fds \/ Opens(m)
      /\ UNCHANGED <<alive, accepting, mask, left, queue, peer, full>>
  BY DEF NeedReadMoreData
<1>4. /\ mask' \in [Fds -> {"off", "in", "inout"}]
      /\ left' \in [Machines -> 0..MaxChunks] /\ full' \in [Conns -> BOOLEAN]
  BY <1>1, <1>3 DEF WorldTypes
<1> QED
  BY <1>2, <1>3, <1>4, ServedKeeps

\* One entry of a Boolean table is set.
LEMMA SetFlag ==
  ASSUME NEW S, NEW old \in [S -> BOOLEAN], NEW x, NEW flag \in BOOLEAN, NEW new,
         new = [old EXCEPT ![x] = flag]
  PROVE  new \in [S -> BOOLEAN] /\ \A y \in S \ {x} : new[y] = old[y]
BY Zenon

\* An upload that opens its original keeps the invariant.
LEMMA BeginUploadKeeps ==
  ASSUME LoopInv, NEW m \in Machines, NEW f \in Fds \ Machines, BeginUpload(m, f)
  PROVE  LoopInv'
<1>1. WorldTypes
  BY TypesSplit DEF LoopInv
<1>2. input' \in [Conns -> BOOLEAN]
  <2>1. PICK unread \in BOOLEAN : input' = [input EXCEPT ![fds[f].of] = unread]
    BY Zenon DEF BeginUpload
  <2>2. input \in [Conns -> BOOLEAN]
    BY <1>1 DEF WorldTypes
  <2> QED
    BY <2>1, <2>2, SetFlag
<1>3. /\ Serve(m, f) /\ IsConn(f) /\ Adopt(m, f, "READING") /\ SetTimer(m, "armed")
      /\ UNCHANGED <<alive, accepting, mask, left, queue, peer, full>>
  BY DEF BeginUpload, Reads
<1>4. Opens(m)
  <2>1. LowestFree \in FreeFds
    BY LowestFreeFacts DEF BeginUpload, FreeFds
  <2> QED
    BY <2>1 DEF BeginUpload, Opens
<1>5. /\ mask' \in [Fds -> {"off", "in", "inout"}]
      /\ left' \in [Machines -> 0..MaxChunks] /\ full' \in [Conns -> BOOLEAN]
  BY <1>1, <1>3 DEF WorldTypes
<1> QED
  BY <1>2, <1>3, <1>4, <1>5, ServedKeeps

\* What every response starts with.
LEMMA ResponseFacts ==
  ASSUME LoopInv, NEW m \in Machines, NEW f \in Fds \ Machines,
         BeginImage(m, f) \/ BeginBatch(m, f)
  PROVE  /\ Serve(m, f) /\ IsConn(f) /\ Adopt(m, f, "SENDING") /\ SetTimer(m, "armed")
         /\ FilesOf(m) = {}
         /\ mask' \in [Fds -> {"off", "in", "inout"}]
         /\ \A g \in Fds : mask'[g] = "off" <=> mask[g] = "off"
         /\ \A g \in Fds \ {f} : mask'[g] = mask[g]
         /\ input' \in [Conns -> BOOLEAN]
         /\ \A c \in Conns \ {fds[f].of} : input'[c] = input[c]
         /\ UNCHANGED <<alive, accepting, queue, peer>>
<1>1. WorldTypes /\ DescriptorsSound
  BY TypesSplit DEF LoopInv, TablesInv
<1>2. BeginResponse(m, f)
  BY DEF BeginImage, BeginBatch
<1>3. /\ Serve(m, f) /\ IsConn(f) /\ Adopt(m, f, "SENDING") /\ SetTimer(m, "armed")
      /\ FilesOf(m) = {}
      /\ mask' = [mask EXCEPT ![f] = "inout"]
      /\ UNCHANGED <<alive, accepting, queue, peer>>
  BY <1>2 DEF BeginResponse, Reads
<1>4. /\ input' \in [Conns -> BOOLEAN]
      /\ \A c \in Conns \ {fds[f].of} : input'[c] = input[c]
  <2>1. PICK unread \in BOOLEAN : input' = [input EXCEPT ![fds[f].of] = unread]
    BY <1>2, Zenon DEF BeginResponse
  <2>2. input \in [Conns -> BOOLEAN]
    BY <1>1 DEF WorldTypes
  <2> QED
    BY <2>1, <2>2, SetFlag
<1>5. /\ mask' \in [Fds -> {"off", "in", "inout"}]
      /\ \A g \in Fds : mask'[g] = "off" <=> mask[g] = "off"
      /\ \A g \in Fds \ {f} : mask'[g] = mask[g]
  BY <1>1, <1>3 DEF WorldTypes, DescriptorsSound, IsConn
<1> QED
  BY <1>3, <1>4, <1>5

\* What it opens, and what it leaves to be written.
LEMMA ResponseFiles ==
  ASSUME LoopInv, NEW m \in Machines, NEW f \in Fds \ Machines,
         BeginImage(m, f) \/ BeginBatch(m, f)
  PROVE  /\ fds' = fds \/ Opens(m)
         /\ left' \in [Machines -> 0..MaxChunks]
         /\ full' \in [Conns -> BOOLEAN]
         /\ \A c \in Conns \ {fds[f].of} : full'[c] = full[c]
<1>1. WorldTypes
  BY TypesSplit DEF LoopInv
<1>2. CASE BeginImage(m, f)
  <2> DEFINE rest == FreeFds \ {LowestFree}
  <2>1. rest # {} => First(rest) \in FreeFds
    <3>1. rest \subseteq Fds
      BY DEF FreeFds
    <3> QED
      BY <3>1, FirstFacts
  <2>2. fds' = fds \/ Opens(m)
    BY <1>2, <2>1 DEF BeginImage, Opens
  <2>3. PICK k \in 0..MaxChunks : left' = [left EXCEPT ![m] = k]
    BY <1>2, BoundsAssumption DEF BeginImage
  <2>4. PICK filled \in BOOLEAN : full' = [full EXCEPT ![fds[f].of] = filled]
    BY <1>2, Zenon DEF BeginImage
  <2>5. full \in [Conns -> BOOLEAN]
    BY <1>1 DEF WorldTypes
  <2>6. full' \in [Conns -> BOOLEAN] /\ \A c \in Conns \ {fds[f].of} : full'[c] = full[c]
    BY <2>4, <2>5, SetFlag
  <2> QED
    BY <1>1, <2>2, <2>3, <2>6 DEF WorldTypes
<1>3. CASE BeginBatch(m, f)
  <2>1. Opens(m)
    BY <1>3 DEF BeginBatch, Opens
  <2>2. PICK k \in 1..MaxChunks : left' = [left EXCEPT ![m] = k]
    BY <1>3 DEF BeginBatch
  <2>3. full' = [full EXCEPT ![fds[f].of] = TRUE]
    BY <1>3, Zenon DEF BeginBatch
  <2>4. k \in 0..MaxChunks
    BY BoundsAssumption
  <2>5. full \in [Conns -> BOOLEAN]
    BY <1>1 DEF WorldTypes
  <2>6. full' \in [Conns -> BOOLEAN] /\ \A c \in Conns \ {fds[f].of} : full'[c] = full[c]
    BY <2>3, <2>5, SetFlag
  <2> QED
    BY <1>1, <2>1, <2>2, <2>4, <2>6 DEF WorldTypes
<1> QED
  BY <1>2, <1>3

\* The start of a response keeps the invariant.
LEMMA BeginResponseKeeps ==
  ASSUME LoopInv, NEW m \in Machines, NEW f \in Fds \ Machines,
         BeginImage(m, f) \/ BeginBatch(m, f)
  PROVE  LoopInv'
BY ResponseFacts, ResponseFiles, ServedKeeps

\* A response that continues keeps the invariant.
LEMMA NeedWriteKeeps ==
  ASSUME LoopInv, NEW m \in Machines, NEW f \in Fds \ Machines, NeedWriteMoreData(m, f)
  PROVE  LoopInv'
<1>1. WorldTypes
  BY TypesSplit DEF LoopInv
<1>2. full' \in [Conns -> BOOLEAN]
  BY <1>1, Zenon DEF NeedWriteMoreData, WorldTypes
<1>3. /\ Serve(m, f) /\ IsConn(f) /\ SetTimer(m, "armed")
      /\ UNCHANGED <<alive, accepting, fds, mask, client_fd, phase, queue, peer, input>>
  BY DEF NeedWriteMoreData
<1>4. left' \in [Machines -> 0..MaxChunks]
  <2>1. left \in [Machines -> 0..MaxChunks]
    BY <1>1 DEF WorldTypes
  <2>2. left' = left \/ (left[m] > 1 /\ left' = [left EXCEPT ![m] = @ - 1])
    BY DEF NeedWriteMoreData
  <2>3. left[m] \in Nat /\ left[m] <= MaxChunks
    BY <2>1, BoundsAssumption
  <2>4. left[m] > 1 => left[m] - 1 \in 0..MaxChunks
    BY <2>3, BoundsAssumption
  <2> QED
    BY <2>1, <2>2, <2>4
<1>5. mask' \in [Fds -> {"off", "in", "inout"}] /\ input' \in [Conns -> BOOLEAN]
  BY <1>1, <1>3 DEF WorldTypes
<1> QED
  BY <1>2, <1>3, <1>4, <1>5, ServedKeeps

\* The clock keeps the invariant.
LEMMA ExpireKeeps ==
  ASSUME LoopInv, NEW m \in Machines, Expire(m)
  PROVE  LoopInv'
<1>1. /\ WorldTypes /\ TablesInv /\ PoolInv /\ BatchSound
      /\ alive \in BOOLEAN /\ accepting \in BOOLEAN /\ batch \in Seq(EventType)
  BY TypesSplit DEF LoopInv
<1>2. /\ timer' = [timer EXCEPT ![m] = "expired"]
      /\ alive' = alive /\ accepting' = accepting /\ batch' = batch
      /\ fds' = fds /\ mask' = mask
      /\ client_fd' = client_fd /\ phase' = phase /\ left' = left
      /\ queue' = queue /\ peer' = peer /\ input' = input /\ full' = full
  BY DEF Expire, pool, sockets
<1>3. WorldTypes'
  BY <1>1, <1>2 DEF WorldTypes
<1>4. TablesInv' /\ \A f \in Fds : IsConn(f) <=> IsConn(f)'
  BY <1>1, <1>2, KeepsTables
<1>5. PoolInv' /\ BatchSound'
  BY <1>1, <1>2, <1>4, SameClientsKeepPool DEF BatchSound
<1> QED
  BY <1>1, <1>2, <1>3, <1>4, <1>5, Parts

\* A client that connects stands at the end of the queue, once.
LEMMA ConnectKeeps ==
  ASSUME LoopInv, NEW c \in Conns, Connect(c)
  PROVE  LoopInv'
<1>1. /\ WorldTypes /\ TablesInv /\ PoolInv /\ BatchSound
      /\ alive \in BOOLEAN /\ accepting \in BOOLEAN /\ batch \in Seq(EventType)
  BY TypesSplit DEF LoopInv
<1>2. /\ peer[c] = "absent" /\ peer' = [peer EXCEPT ![c] = "open"]
      /\ queue' = Append(queue, c)
      /\ alive' = alive /\ accepting' = accepting /\ batch' = batch
      /\ fds' = fds /\ mask' = mask /\ timer' = timer
      /\ client_fd' = client_fd /\ phase' = phase /\ left' = left
      /\ input' = input /\ full' = full
  BY DEF Connect, pool, kernel
<1>3. WorldTypes'
  BY <1>1, <1>2 DEF WorldTypes
<1>4. \A f \in Fds : fds[f] # Conn(c)
  BY <1>1, <1>2, Kinds DEF TablesInv, DescriptorsSound, IsConn
<1>5. /\ queue \in Seq(Conns) /\ Len(queue') = Len(queue) + 1
      /\ \A i \in 1..Len(queue) : queue'[i] = queue[i] /\ queue[i] \in Conns
      /\ queue'[Len(queue) + 1] = c
  BY <1>1, <1>2 DEF WorldTypes
<1>6. \A i \in 1..Len(queue) : queue[i] # c
  BY <1>1, <1>2 DEF TablesInv, QueueSound
<1>7. \A d \in Conns : peer[d] # "absent" => peer'[d] # "absent"
  BY <1>1, <1>2 DEF WorldTypes
<1>8. DescriptorsSound'
  <2>1. \A f \in Fds : IsConn(f) => fds[f].of \in Conns
    BY <1>1, KindFacts DEF WorldTypes, IsConn
  <2> QED
    BY <1>1, <1>2, <1>7, <2>1 DEF TablesInv, DescriptorsSound, IsConn
<1>9. QueueSound'
  <2>1. \A i \in 1..Len(queue') : i \in 1..Len(queue) \/ i = Len(queue) + 1
    BY <1>5
  <2>2. peer'[c] # "absent"
    BY <1>1, <1>2 DEF WorldTypes
  <2>3. \A i \in 1..Len(queue') : peer'[queue'[i]] # "absent" /\ \A f \in Fds : fds'[f] # Conn(queue'[i])
    BY <1>1, <1>2, <1>4, <1>5, <1>7, <2>1, <2>2 DEF TablesInv, QueueSound
  <2>4. \A i, j \in 1..Len(queue') : queue'[i] = queue'[j] => i = j
    BY <1>1, <1>5, <1>6, <2>1 DEF TablesInv, QueueSound
  <2> QED
    BY <2>3, <2>4 DEF QueueSound
<1>10. PoolInv' /\ BatchSound'
  <2>1. queue' # <<>>
    BY <1>5
  <2> QED
    BY <1>1, <1>2, <2>1, SameClientsKeepPool DEF BatchSound, IsConn
<1> QED
  BY <1>1, <1>2, <1>3, <1>8, <1>9, <1>10, Parts DEF TablesInv

\* Whatever else a client does changes its own side only.
LEMMA PeerKeeps ==
  ASSUME LoopInv, NEW c \in Conns, Send(c) \/ HalfClose(c) \/ Abort(c) \/ Drain(c)
  PROVE  LoopInv'
<1>1. /\ WorldTypes /\ TablesInv /\ PoolInv /\ BatchSound
      /\ alive \in BOOLEAN /\ accepting \in BOOLEAN /\ batch \in Seq(EventType)
  BY TypesSplit DEF LoopInv
<1>2. /\ alive' = alive /\ accepting' = accepting /\ batch' = batch
      /\ fds' = fds /\ mask' = mask /\ timer' = timer
      /\ client_fd' = client_fd /\ phase' = phase /\ left' = left /\ queue' = queue
  BY DEF Send, HalfClose, Abort, Drain, kernel, pool
<1>3. /\ peer' \in [Conns -> {"absent", "open", "fin", "rst"}]
      /\ \A d \in Conns : peer[d] # "absent" => peer'[d] # "absent"
  BY <1>1 DEF WorldTypes, Send, HalfClose, Abort, Drain
<1>5. input' \in [Conns -> BOOLEAN] /\ full' \in [Conns -> BOOLEAN]
  <2>1. input \in [Conns -> BOOLEAN] /\ full \in [Conns -> BOOLEAN]
    BY <1>1 DEF WorldTypes
  <2>2. input' = input \/ input' = [input EXCEPT ![c] = TRUE]
    BY Zenon DEF Send, HalfClose, Abort, Drain
  <2>3. full' = full \/ full' = [full EXCEPT ![c] = FALSE]
    BY Zenon DEF Send, HalfClose, Abort, Drain
  <2> QED
    BY <2>1, <2>2, <2>3, Zenon
<1>6. WorldTypes'
  BY <1>1, <1>2, <1>3, <1>5 DEF WorldTypes
<1>7. TablesInv' /\ \A f \in Fds : IsConn(f) <=> IsConn(f)'
  BY <1>1, <1>2, <1>3, KeepsTables
<1>8. PoolInv' /\ BatchSound'
  BY <1>1, <1>2, <1>7, SameClientsKeepPool DEF BatchSound
<1> QED
  BY <1>1, <1>2, <1>6, <1>7, <1>8, Parts

\* The loop starts in its invariant.
LEMMA LoopInit == Init => LoopInv
<1> SUFFICES ASSUME Init PROVE LoopInv
  OBVIOUS
<1>1. TypeOK
  <2>1. \A f \in Fds : (IF f \in Machines THEN Timer(f) ELSE Free) \in Descriptor
    BY DEF Descriptor
  <2>2. fds \in [Fds -> Descriptor]
    BY <2>1 DEF Init
  <2>3. accepting \in BOOLEAN /\ alive \in BOOLEAN
    BY DEF Init
  <2>4. input \in [Conns -> BOOLEAN] /\ full \in [Conns -> BOOLEAN]
    BY Zenon DEF Init
  <2>5. left \in [Machines -> 0..MaxChunks]
    BY BoundsAssumption DEF Init
  <2>6. WorldTypes
    BY <2>2, <2>4, <2>5 DEF Init, WorldTypes
  <2> QED
    BY <2>3, <2>6, TypesSplit DEF Init
<1>2. \A f \in Fds : ~IsConn(f)
  BY Kinds DEF Init, IsConn
<1>3. TablesInv
  BY <1>2, Kinds DEF Init, TablesInv, DescriptorsSound, QueueSound
<1>4. PoolInv /\ BatchSound
  BY MachinesAreFds DEF Init, PoolInv, ClientsOwned, ClientsBeyondTimers, Busy, BatchSound
<1> QED
  BY <1>1, <1>3, <1>4 DEF LoopInv

\* Every step of the loop, its clients and the clock keeps the invariant.
LEMMA LoopNext == LoopInv /\ [Next]_vars => LoopInv'
<1> SUFFICES ASSUME LoopInv, [Next]_vars PROVE LoopInv'
  OBVIOUS
<1>1. CASE Loop
  BY <1>1, WaitKeeps, AcceptKeeps, HangUpKeeps, TimerEventKeeps, DownKeeps, NeedReadKeeps,
     BeginUploadKeeps, BeginResponseKeeps, NeedWriteKeeps, FinishKeeps DEF Loop
<1>2. CASE \E m \in Machines : Expire(m)
  BY <1>2, ExpireKeeps
<1>3. CASE \E c \in Conns : Connect(c) \/ Send(c) \/ HalfClose(c) \/ Abort(c) \/ Drain(c)
  BY <1>3, ConnectKeeps, PeerKeeps
<1>4. CASE UNCHANGED vars
  <2>1. /\ UNCHANGED <<kernel, pool, sockets>>
        /\ alive' = alive /\ accepting' = accepting /\ batch' = batch /\ queue' = queue
    BY <1>4 DEF vars, sockets
  <2>2. WorldTypes' /\ TablesInv' /\ PoolInv' /\ BatchSound'
    BY <2>1, TypesSplit, SameWorld DEF LoopInv, BatchSound
  <2> QED
    BY <2>1, <2>2, TypesSplit, Parts DEF LoopInv
<1> QED
  BY <1>1, <1>2, <1>3, <1>4 DEF Next

\* The loop's invariant, for any number of machines, connections and descriptors,
\* however late the loop handles its events.
THEOREM LoopInvariance == Spec => []LoopInv
<1> QED
  BY LoopInit, LoopNext, PTL DEF Spec

\* Every variable of the loop keeps its type, for every size of the pool and every
\* number of connections and descriptors.
THEOREM TypeCorrect == Spec => []TypeOK
<1>1. LoopInv => TypeOK
  BY DEF LoopInv
<1> QED
  BY <1>1, LoopInvariance, PTL

\* A machine's client_fd is always an open connection that epoll watches and no
\* other machine serves: server_machine_reset and close never leave a stale number,
\* even in a loop so late that it has closed a machine's timer.
THEOREM ClientsAlwaysOwned == Spec => []ClientsOwned
<1>1. LoopInv => ClientsOwned
  BY DEF LoopInv, PoolInv
<1> QED
  BY <1>1, LoopInvariance, PTL

\* A reset closes the machine's connection and what its caller adds, and no other.
LEMMA ResetCloses ==
  ASSUME WorldTypes, NEW m \in Machines, NEW also \in SUBSET Fds, Reset(m, also),
         NEW f \in Fds, IsConn(f), fds'[f] # fds[f]
  PROVE  f = client_fd[m] \/ f \in also
<1>1. f \in Held(m) \cup also
  BY DEF Reset, CloseAndStop, Close
<1> QED
  BY <1>1, Kinds DEF Held, IsConn

\* The numbers that opened files get were no connections.
LEMMA OpensNoConn ==
  ASSUME WorldTypes, NEW m \in Machines, fds' = fds \/ Opens(m), NEW f \in Fds, IsConn(f)
  PROVE  fds'[f] = fds[f]
BY Kinds DEF Opens, OpenFiles, FreeFds, IsConn

\* The number an accepted connection gets was no connection.
LEMMA LowestFreeIsNoConn ==
  ASSUME WorldTypes, FreeFds # {}, NEW d, fds' = [fds EXCEPT ![LowestFree] = d],
         NEW f \in Fds, IsConn(f)
  PROVE  fds'[f] = fds[f]
<1>1. fds[LowestFree] = Free
  BY LowestFreeFacts
<1> QED
  BY <1>1, Kinds DEF IsConn, WorldTypes

\* A call that continues opens at most files.
LEMMA CallOpens ==
  ASSUME LoopInv, NEW m \in Machines, NEW f \in Fds \ Machines,
         \/ NeedReadMoreData(m, f) \/ BeginUpload(m, f) \/ BeginImage(m, f)
         \/ BeginBatch(m, f) \/ NeedWriteMoreData(m, f)
  PROVE  fds' = fds \/ Opens(m)
<1>1. CASE BeginUpload(m, f)
  <2>1. LowestFree \in FreeFds
    BY <1>1, LowestFreeFacts DEF BeginUpload, FreeFds
  <2> QED
    BY <1>1, <2>1 DEF BeginUpload, Opens
<1>2. CASE BeginImage(m, f) \/ BeginBatch(m, f)
  BY <1>2, ResponseFiles
<1> QED
  BY <1>1, <1>2 DEF NeedReadMoreData, NeedWriteMoreData

\* A step closes the connection its event names, or the one whose machine the
\* event's timer times; late loop or not.
LEMMA CloseIsOwn ==
  ASSUME LoopInv, [Next]_vars, NEW f \in Fds, IsConn(f), fds'[f] # fds[f]
  PROVE  /\ batch # <<>>
         /\ Event.fd = f \/ (Event.fd \in Machines /\ client_fd[Event.fd] = f)
<1>1. WorldTypes /\ TablesInv /\ PoolInv
  BY TypesSplit DEF LoopInv
<1>2. ~Accept
  BY <1>1, LowestFreeIsNoConn DEF Accept, kernel
<1>3. ASSUME NEW g \in Fds, HangUp(g)
      PROVE  batch # <<>> /\ Event.fd = f
  <2>1. Owners(g) # {}
    BY <1>3 DEF HangUp, kernel
  <2>2. /\ First(Owners(g)) \in Machines /\ client_fd[First(Owners(g))] = g
        /\ Reset(First(Owners(g)), {}) /\ batch # <<>> /\ Event.fd = g
    BY <1>3, <2>1, FirstFacts DEF HangUp, Owners, Handles
  <2> QED
    BY <1>1, <2>2, ResetCloses
<1>4. ASSUME NEW m \in Machines, TimerEvent(m)
      PROVE  batch # <<>> /\ Event.fd = m /\ (m = f \/ client_fd[m] = f)
  <2>1. PICK also \in SUBSET {m} : Reset(m, also)
    BY <1>4 DEF TimerEvent
  <2>2. also \in SUBSET Fds
    BY MachinesAreFds
  <2> QED
    BY <1>1, <1>4, <2>1, <2>2, ResetCloses DEF TimerEvent, Handles
<1>5. ASSUME NEW m \in Machines, NEW g \in Fds \ Machines, Finish(m, g)
      PROVE  batch # <<>> /\ Event.fd = f
  <2>1. Serve(m, g) /\ Reset(m, {g}) /\ batch # <<>> /\ Event.fd = g
    BY <1>5 DEF Finish, Serve, ClientEvent, Handles
  <2>2. client_fd[m] = g \/ client_fd[m] = NoFd
    BY <1>1, <2>1, ServeFacts
  <2> QED
    BY <1>1, <2>1, <2>2, MachinesAreFds, ResetCloses
<1>6. ASSUME NEW m \in Machines, NEW g \in Fds \ Machines,
             \/ NeedReadMoreData(m, g) \/ BeginUpload(m, g) \/ BeginImage(m, g)
             \/ BeginBatch(m, g) \/ NeedWriteMoreData(m, g)
      PROVE  FALSE
  <2>1. fds' = fds \/ Opens(m)
    BY <1>6, CallOpens
  <2> QED
    BY <1>1, <2>1, OpensNoConn
<1>7. /\ ~Wait /\ \A g \in Fds : ~NoMachine(g)
      /\ \A g \in Fds, m \in Machines : ~NoDirectory(m, g)
  BY DEF Wait, NoMachine, NoDirectory, kernel
<1>8. CASE Loop
  <2>1. \/ \E g \in Fds : HangUp(g)
        \/ \E m \in Machines : TimerEvent(m)
        \/ \E m \in Machines, g \in Fds \ Machines : Finish(m, g)
    <3> DEFINE goes(m, g) == \/ NeedReadMoreData(m, g) \/ BeginUpload(m, g) \/ BeginImage(m, g)
                             \/ BeginBatch(m, g) \/ NeedWriteMoreData(m, g)
    <3>1. \A m \in Machines, g \in Fds \ Machines : ~goes(m, g)
      BY <1>6
    <3>2. \A m \in Machines, g \in Fds \ Machines : ~NoMachine(g) /\ ~NoDirectory(m, g)
      BY <1>7
    <3> QED
      BY <1>2, <1>7, <1>8, <3>1, <3>2 DEF Loop
  <2> QED
    BY <1>3, <1>4, <1>5, <2>1
<1>9. CASE ~Loop
  BY <1>9 DEF Next, vars, kernel, Expire, Connect, Send, HalfClose, Abort, Drain
<1> QED
  BY <1>8, <1>9

\* A connection is closed only by its own event or by its machine's timer, for
\* any number of machines and connections, however late the loop handles events.
THEOREM ClosedByItsOwnEvent == Spec => ClosedByItsOwn
<1>1. LoopInv /\ [Next]_vars =>
        [\A f \in Fds : IsConn(f) /\ fds'[f] # fds[f] =>
           /\ batch # <<>>
           /\ Event.fd = f \/ (Event.fd \in Machines /\ client_fd[Event.fd] = f)]_vars
  BY CloseIsOwn
<1> QED
  BY <1>1, LoopInvariance, PTL DEF Spec, ClosedByItsOwn

-----------------------------------------------------------------------------
(***************************************************************************)
(* Files.  A machine opens them for the request it serves, and its reset   *)
(* closes all of them; this too holds however late the loop is.            *)
(***************************************************************************)

\* There are finitely many descriptors.
LEMMA FiniteFds ==
  /\ IsFiniteSet(Fds) /\ Cardinality(Fds) = MaxFd
  /\ \A S \in SUBSET Fds : IsFiniteSet(S) /\ Cardinality(S) \in Nat
<1>1. IsFiniteSet(Fds) /\ Cardinality(Fds) = MaxFd
  BY PoolAssumption, FS_Interval DEF Fds
<1>2. ASSUME NEW S \in SUBSET Fds
      PROVE  IsFiniteSet(S) /\ Cardinality(S) \in Nat
  <2>1. IsFiniteSet(S)
    BY <1>1, FS_Subset
  <2> QED
    BY <2>1, FS_CardinalityType
<1> QED
  BY <1>1, <1>2

\* Files stay owned when each machine lost some, lost all, or opened few enough for
\* a request it serves.
LEMMA FilesKept ==
  ASSUME FilesOwned,
         \A m \in Machines :
           \/ FilesOf(m)' = {}
           \/ FilesOf(m)' \subseteq FilesOf(m) /\ (Busy(m) => Busy(m)')
           \/ Cardinality(FilesOf(m)') <= MaxFiles /\ Busy(m)'
  PROVE  FilesOwned'
<1> SUFFICES ASSUME NEW m \in Machines
             PROVE  Cardinality(FilesOf(m)') <= IF Busy(m)' THEN MaxFiles ELSE 0
  BY DEF FilesOwned
<1>1. CASE FilesOf(m)' = {}
  BY <1>1, FS_EmptySet, BoundsAssumption
<1>2. CASE FilesOf(m)' \subseteq FilesOf(m) /\ (Busy(m) => Busy(m)')
  <2>1. IsFiniteSet(FilesOf(m)) /\ Cardinality(FilesOf(m)) \in Nat
    BY FiniteFds DEF FilesOf
  <2>2. Cardinality(FilesOf(m)') <= Cardinality(FilesOf(m)) /\ Cardinality(FilesOf(m)') \in Nat
    BY <1>2, <2>1, FS_Subset, FS_CardinalityType
  <2>3. Cardinality(FilesOf(m)) <= IF Busy(m) THEN MaxFiles ELSE 0
    BY DEF FilesOwned
  <2> QED
    BY <1>2, <2>1, <2>2, <2>3, BoundsAssumption
<1>3. CASE Cardinality(FilesOf(m)') <= MaxFiles /\ Busy(m)'
  BY <1>3
<1> QED
  BY <1>1, <1>2, <1>3

\* A step that touches no file and no machine's connection keeps files owned.
LEMMA SameFiles ==
  ASSUME FilesOwned, fds' = fds, client_fd' = client_fd
  PROVE  FilesOwned'
<1>1. \A m \in Machines : FilesOf(m)' = FilesOf(m) /\ (Busy(m) => Busy(m)')
  BY DEF FilesOf, Busy
<1> QED
  BY <1>1, FilesKept

\* A reset closes all files of its machine, and opens none.
LEMMA ResetFiles ==
  ASSUME WorldTypes, FilesOwned, NEW m \in Machines, NEW also, Reset(m, also)
  PROVE  FilesOwned'
<1>1. \A f \in Fds : fds'[f] = IF f \in Held(m) \cup also THEN Free ELSE fds[f]
  BY DEF Reset, CloseAndStop, Close
<1>2. \A n \in Machines : FilesOf(n)' \subseteq FilesOf(n)
  BY <1>1, Kinds DEF FilesOf
<1>3. FilesOf(m)' = {}
  BY <1>1, Kinds DEF FilesOf, Held
<1>4. \A n \in Machines \ {m} : Busy(n) => Busy(n)'
  BY DEF Reset, Busy, WorldTypes
<1> QED
  BY <1>2, <1>3, <1>4, FilesKept

\* A machine that opens files has those, and no other machine's files change.
LEMMA OpenedFiles ==
  ASSUME WorldTypes, NEW m \in Machines, FilesOf(m) = {}, NEW opened \in SUBSET FreeFds,
         OpenFiles(m, opened)
  PROVE  FilesOf(m)' = opened /\ \A n \in Machines \ {m} : FilesOf(n)' = FilesOf(n)
<1>1. \A f \in Fds : fds'[f] = IF f \in opened THEN File(m) ELSE fds[f]
  BY DEF OpenFiles
<1>2. \A f \in opened : f \in Fds /\ fds[f] = Free
  BY DEF FreeFds
<1>3. FilesOf(m)' = opened
  BY <1>1, <1>2 DEF FilesOf
<1>4. ASSUME NEW n \in Machines \ {m}
      PROVE  FilesOf(n)' = FilesOf(n)
  BY <1>1, <1>2, Kinds DEF FilesOf
<1> QED
  BY <1>3, <1>4

\* A call that takes a connection on holds few enough files.
LEMMA AdoptFiles ==
  ASSUME WorldTypes, FilesOwned, NEW m \in Machines, NEW f \in Fds, NEW next, Adopt(m, f, next),
         \/ fds' = fds
         \/ /\ FilesOf(m) = {}
            /\ \E opened \in SUBSET FreeFds :
                 OpenFiles(m, opened) /\ Cardinality(opened) <= MaxFiles
  PROVE  FilesOwned'
<1>1. Busy(m)' /\ \A n \in Machines \ {m} : Busy(n) => Busy(n)'
  BY MachinesAreFds DEF Adopt, Busy, WorldTypes
<1>2. CASE fds' = fds
  <2>1. \A n \in Machines : FilesOf(n)' = FilesOf(n)
    BY <1>2 DEF FilesOf
  <2> QED
    BY <1>1, <2>1, FilesKept
<1>3. CASE /\ FilesOf(m) = {}
           /\ \E opened \in SUBSET FreeFds :
                OpenFiles(m, opened) /\ Cardinality(opened) <= MaxFiles
  <2>1. PICK opened \in SUBSET FreeFds : OpenFiles(m, opened) /\ Cardinality(opened) <= MaxFiles
    BY <1>3
  <2>2. FilesOf(m)' = opened /\ \A n \in Machines \ {m} : FilesOf(n)' = FilesOf(n)
    BY <1>3, <2>1, OpenedFiles
  <2> QED
    BY <1>1, <2>1, <2>2, FilesKept
<1> QED
  BY <1>2, <1>3

\* One file is few enough.
LEMMA OneFile ==
  ASSUME NEW f
  PROVE  Cardinality({f}) <= MaxFiles
<1>1. Cardinality({f}) = 1
  BY FS_Singleton
<1> QED
  BY <1>1, BoundsAssumption

\* A call that continues keeps files owned.
LEMMA CallFiles ==
  ASSUME LoopInv, FilesOwned, NEW m \in Machines, NEW f \in Fds \ Machines,
         \/ NeedReadMoreData(m, f) \/ BeginUpload(m, f) \/ BeginImage(m, f)
         \/ BeginBatch(m, f) \/ NeedWriteMoreData(m, f)
  PROVE  FilesOwned'
<1>1. WorldTypes
  BY TypesSplit DEF LoopInv
<1>2. CASE NeedReadMoreData(m, f)
  BY <1>1, <1>2, AdoptFiles DEF NeedReadMoreData
<1>3. CASE BeginUpload(m, f)
  <2>1. LowestFree \in FreeFds
    BY <1>3, LowestFreeFacts DEF BeginUpload, FreeFds
  <2>2. /\ Adopt(m, f, "READING") /\ FilesOf(m) = {} /\ OpenFiles(m, {LowestFree})
    BY <1>3 DEF BeginUpload, Reads
  <2> QED
    BY <1>1, <2>1, <2>2, OneFile, AdoptFiles
<1>4. CASE BeginImage(m, f)
  <2> DEFINE rest == FreeFds \ {LowestFree}
  <2>1. /\ Adopt(m, f, "SENDING") /\ FilesOf(m) = {}
        /\ fds' = fds \/ (rest # {} /\ OpenFiles(m, {First(rest)}))
    BY <1>4 DEF BeginImage, BeginResponse, Reads
  <2>2. rest # {} => First(rest) \in FreeFds
    <3>1. rest \subseteq Fds
      BY DEF FreeFds
    <3> QED
      BY <3>1, FirstFacts
  <2> QED
    BY <1>1, <2>1, <2>2, OneFile, AdoptFiles
<1>5. CASE BeginBatch(m, f)
  <2>1. /\ Adopt(m, f, "SENDING") /\ FilesOf(m) = {}
        /\ \E opened \in SUBSET FreeFds : OpenFiles(m, opened) /\ Cardinality(opened) <= MaxFiles
    BY <1>5 DEF BeginBatch, BeginResponse, Reads
  <2> QED
    BY <1>1, <2>1, AdoptFiles
<1>6. CASE NeedWriteMoreData(m, f)
  BY <1>6, SameFiles DEF NeedWriteMoreData
<1> QED
  BY <1>2, <1>3, <1>4, <1>5, <1>6

\* Every step keeps files owned.
LEMMA FilesNext == LoopInv /\ FilesOwned /\ [Next]_vars => FilesOwned'
<1> SUFFICES ASSUME LoopInv, FilesOwned, [Next]_vars PROVE FilesOwned'
  OBVIOUS
<1>1. WorldTypes
  BY TypesSplit DEF LoopInv
<1>2. CASE \E m \in Machines : \E also : Reset(m, also)
  BY <1>1, <1>2, ResetFiles
<1>3. CASE fds' = fds /\ client_fd' = client_fd
  BY <1>3, SameFiles
<1>4. ASSUME NEW m \in Machines, NEW f \in Fds \ Machines,
             \/ NeedReadMoreData(m, f) \/ BeginUpload(m, f) \/ BeginImage(m, f)
             \/ BeginBatch(m, f) \/ NeedWriteMoreData(m, f)
      PROVE  FilesOwned'
  BY <1>4, CallFiles
<1>5. CASE Accept
  <2>1. CASE fds' = fds
    BY <1>3, <1>5, <2>1 DEF Accept, pool
  <2>2. CASE fds' = [fds EXCEPT ![LowestFree] = Conn(Head(queue))]
    <3>1. \A m \in Machines : FilesOf(m)' \subseteq FilesOf(m) /\ (Busy(m) => Busy(m)')
      BY <1>1, <1>5, <2>2, Kinds DEF Accept, pool, FilesOf, Busy, WorldTypes
    <3> QED
      BY <3>1, FilesKept
  <2> QED
    BY <1>5, <2>1, <2>2 DEF Accept, kernel
<1>6. ASSUME NEW f \in Fds, HangUp(f)
      PROVE  FilesOwned'
  <2>1. CASE Owners(f) # {}
    BY <1>2, <1>6, <2>1, FirstFacts DEF HangUp, Owners
  <2>2. CASE Owners(f) = {}
    BY <1>3, <1>6, <2>2 DEF HangUp, kernel, pool
  <2> QED
    BY <2>1, <2>2
<1>7. ASSUME NEW f \in Fds, NEW m \in Machines, \/ TimerEvent(m) \/ Finish(m, f)
      PROVE  FilesOwned'
  BY <1>2, <1>7 DEF TimerEvent, Finish
<1>8. ASSUME NEW f \in Fds, NEW m, Wait \/ NoMachine(f) \/ NoDirectory(m, f)
      PROVE  FilesOwned'
  BY <1>3, <1>8 DEF Wait, NoMachine, NoDirectory, kernel, pool
<1>9. CASE Loop
  <2>1. \A m \in Machines : m \in Fds
    BY MachinesAreFds
  <2>2. CASE Wait \/ Accept
    <3>1. 1 \in Fds
      BY PoolAssumption DEF Fds
    <3> QED
      BY <1>5, <1>8, <2>2, <3>1
  <2>3. CASE (\E f \in Fds : HangUp(f)) \/ (\E m \in Machines : TimerEvent(m))
    BY <1>6, <1>7, <2>1, <2>3
  <2>4. ASSUME NEW f \in Fds \ Machines, NoMachine(f)
        PROVE  FilesOwned'
    BY <1>8, <2>4
  <2>5. ASSUME NEW f \in Fds \ Machines, NEW m \in Machines, NoDirectory(m, f) \/ Finish(m, f)
        PROVE  FilesOwned'
    BY <1>7, <1>8, <2>5
  <2> QED
    BY <1>4, <1>9, <2>2, <2>3, <2>4, <2>5 DEF Loop
<1>10. CASE ~Loop
  BY <1>3, <1>10 DEF Next, vars, kernel, pool, Expire, Connect, Send, HalfClose, Abort, Drain
<1> QED
  BY <1>9, <1>10

\* No file outlives its request, and a request holds at most the files of one
\* batch, whatever ends it and however late the loop handles events.
THEOREM FilesAlwaysOwned == Spec => []FilesOwned
<1>1. Init => FilesOwned
  <2> SUFFICES ASSUME Init, NEW m \in Machines PROVE FilesOf(m) = {}
    BY FS_EmptySet, BoundsAssumption DEF FilesOwned
  <2> QED
    BY Kinds DEF Init, FilesOf
<1>2. LoopInv /\ FilesOwned /\ [Next]_vars => FilesOwned'
  BY FilesNext
<1> QED
  BY <1>1, <1>2, LoopInvariance, PTL DEF Spec

-----------------------------------------------------------------------------
(***************************************************************************)
(* What holds of the event loop of backend/main.c while it is prompt: when *)
(* a timer expires, everything its client did has been handled, and its    *)
(* event is handled before the client does anything else.  The run         *)
(* loop_timer_lost shows that without it the first of these invariants     *)
(* does not hold.                                                          *)
(***************************************************************************)

\* The client of an expired timer has nothing to be handled.
ExpiredIsQuiet == \A m \in Machines : timer[m] = "expired" => ~Outstanding(client_fd[m])

\* A timer's event is handled before its timer is set again.
TimerEventsDue ==
  \A i \in 1..Len(batch) : batch[i].fd \in Machines => timer[batch[i].fd] = "expired"

MachinesInv == TimersIntact /\ BusyIsTimed
EventsInv == EventsAreCurrent /\ ExpiredIsQuiet /\ TimerEventsDue

PromptInv == LoopInv /\ MachinesInv /\ EventsInv

-----------------------------------------------------------------------------
(***************************************************************************)
(* What the invariant gives to every step.                                 *)
(***************************************************************************)
LEMMA Facts ==
  ASSUME PromptInv
  PROVE  /\ WorldTypes /\ TablesInv /\ PoolInv /\ BatchSound /\ batch \in Seq(EventType)
         /\ \A m \in Machines : m \in Fds /\ fds[m] = Timer(m) /\ mask[m] # "off"
         /\ \A m \in Machines : client_fd[m] \notin Machines
         /\ \A m \in Machines : Busy(m) => IsConn(client_fd[m]) /\ client_fd[m] \in Fds
         /\ \A m \in Machines : timer[m] = "expired" => Busy(m)
BY TypesSplit, MachinesAreFds DEF PromptInv, LoopInv, MachinesInv, TimersIntact, BusyIsTimed,
   PoolInv, ClientsBeyondTimers, ClientsOwned, IsConn

\* A number in the batch that is nobody's timer is a connection.
LEMMA EventIsConn ==
  ASSUME PromptInv, NEW i \in 1..Len(batch), batch[i].fd \in Fds \ Machines
  PROVE  IsConn(batch[i].fd)
<1> DEFINE f == batch[i].fd
<1>1. mask[f] # "off" /\ f \in Fds \ Machines
  BY MachinesAreFds DEF PromptInv, EventsInv, EventsAreCurrent
<1>2. fds[f] \in Descriptor /\ fds[f].kind \notin {"free", "file"}
  BY <1>1, Facts DEF WorldTypes, TablesInv, DescriptorsSound
<1>3. fds[f].kind = "timer" => fds[f] = Timer(f) /\ f \in Machines
  BY <1>1, <1>2, Facts, Kinds, KindFacts DEF TablesInv, DescriptorsSound
<1> QED
  BY <1>1, <1>2, <1>3, KindFacts DEF IsConn

\* Two connections of the table are two connections.
LEMMA OtherConn ==
  ASSUME PromptInv, NEW f \in Fds, NEW g \in Fds, IsConn(f), IsConn(g), f # g
  PROVE  fds[f].of \in Conns /\ fds[g].of \in Conns /\ fds[f].of # fds[g].of
<1>1. /\ fds[f] \in Descriptor /\ fds[g] \in Descriptor
      /\ fds[f].kind = "conn" /\ fds[g].kind = "conn" /\ fds[f] # fds[g]
  BY Facts DEF WorldTypes, TablesInv, DescriptorsSound, IsConn
<1> QED
  BY <1>1, KindFacts

\* While a machine's client is handled the machine's timer has not expired, and
\* what is left in the batch is neither the client nor the timer.
LEMMA OthersLeft ==
  ASSUME PromptInv, NEW f, Handles(f), batch' = Tail(batch), NEW m \in Machines,
         client_fd[m] = f \/ client_fd[m] = NoFd
  PROVE  /\ timer[m] # "expired"
         /\ \A i \in 1..Len(batch') : batch'[i].fd \notin {f, m, NoFd, client_fd[m]}
<1>1. /\ batch \in Seq(EventType) /\ batch # <<>> /\ Event.fd = f
      /\ Event = batch[1] /\ 1 \in 1..Len(batch)
      /\ batch' \in Seq(EventType)
      /\ \A i \in 1..Len(batch') : i + 1 \in 1..Len(batch) /\ batch'[i] = batch[i + 1]
  BY Facts, TailFacts DEF Handles
<1>2. timer[m] # "expired"
  BY <1>1, Facts DEF PromptInv, EventsInv, ExpiredIsQuiet, Outstanding, Busy
<1>3. \A i \in 1..Len(batch') : batch'[i].fd # f
  BY <1>1, Facts DEF BatchSound
<1>4. \A i \in 1..Len(batch') : batch'[i].fd # m
  BY <1>1, <1>2 DEF PromptInv, EventsInv, TimerEventsDue
<1>5. \A i \in 1..Len(batch') : batch'[i].fd # NoFd
  <2>1. \A i \in 1..Len(batch') : batch'[i] \in EventType
    BY <1>1
  <2>2. \A e \in EventType : e.fd = Listener \/ e.fd \in Fds
    BY DEF EventType
  <2>3. Listener # NoFd
    BY DEF Listener, NoFd
  <2> QED
    BY <2>1, <2>2, <2>3, MachinesAreFds
<1> QED
  BY <1>2, <1>3, <1>4, <1>5

-----------------------------------------------------------------------------
(***************************************************************************)
(* The events that wait, when the world changes under them.                *)
(***************************************************************************)

\* A step that leaves some of the waiting events keeps them current if it closes
\* none of their numbers, wakes no client of an expired timer, and sets no timer
\* whose event is left.
LEMMA KeepsEvents ==
  ASSUME PromptInv, LoopInv',
         \A i \in 1..Len(batch') : \E j \in 1..Len(batch) : batch'[i] = batch[j],
         \A i \in 1..Len(batch') : batch'[i].fd \in Fds =>
           /\ mask[batch'[i].fd] # "off" => mask'[batch'[i].fd] # "off"
           /\ fds'[batch'[i].fd].kind # "file" \/ fds'[batch'[i].fd] = fds[batch'[i].fd],
         \A i \in 1..Len(batch') : batch'[i].fd \in Machines =>
           timer'[batch'[i].fd] = timer[batch'[i].fd],
         \A m \in Machines : timer'[m] = "expired" =>
           /\ timer[m] = "expired" /\ client_fd'[m] = client_fd[m]
           /\ Ready(client_fd[m])' => Ready(client_fd[m])
  PROVE  EventsInv'
<1>1. EventsAreCurrent'
  <2> SUFFICES ASSUME NEW i \in 1..Len(batch'), batch'[i].fd # Listener
               PROVE  mask'[batch'[i].fd] # "off" /\ fds'[batch'[i].fd].kind # "file"
    BY DEF EventsAreCurrent
  <2>1. PICK j \in 1..Len(batch) : batch'[i] = batch[j]
    OBVIOUS
  <2>2. batch[j].fd \in Fds
    <3>1. batch[j] \in EventType
      BY <2>1, Facts
    <3> QED
      BY <2>1, <3>1 DEF EventType
  <2>3. mask[batch[j].fd] # "off" /\ fds[batch[j].fd].kind # "file"
    BY <2>1 DEF PromptInv, EventsInv, EventsAreCurrent
  <2> QED
    BY <2>1, <2>2, <2>3
<1>2. ExpiredIsQuiet'
  <2> SUFFICES ASSUME NEW m \in Machines, timer'[m] = "expired", Outstanding(client_fd[m])'
               PROVE  FALSE
    BY DEF ExpiredIsQuiet
  <2>1. /\ timer[m] = "expired" /\ client_fd'[m] = client_fd[m]
        /\ Ready(client_fd[m])' => Ready(client_fd[m])
    OBVIOUS
  <2>2. Outstanding(client_fd[m])
    BY <2>1 DEF Outstanding
  <2> QED
    BY <2>1, <2>2 DEF PromptInv, EventsInv, ExpiredIsQuiet
<1>3. TimerEventsDue'
  BY DEF PromptInv, EventsInv, TimerEventsDue
<1> QED
  BY <1>1, <1>2, <1>3 DEF EventsInv

\* A number's readiness depends on what it refers to and on nothing else.
LEMMA SameReady ==
  ASSUME PromptInv, NEW f \in Fds, IsConn(f),
         fds'[f] = fds[f], mask'[f] = mask[f],
         LET c == fds[f].of IN
           peer'[c] = peer[c] /\ (input'[c] => input[c]) /\ (full[c] => full'[c])
  PROVE  Ready(f)' => Ready(f)
BY DEF Ready, IsConn, Readable

-----------------------------------------------------------------------------
(***************************************************************************)
(* Every action keeps the invariant.                                       *)
(***************************************************************************)

\* A reset ends the request and its timer together, and disturbs no
\* other request and no event that waits.
LEMMA ResetKeepsPrompt ==
  ASSUME PromptInv, LoopInv', NEW f, Handles(f), batch' = Tail(batch),
         NEW m \in Machines, NEW also \in SUBSET (Fds \ Machines), Reset(m, also),
         \A g \in also : IsConn(g),
         \A n \in Machines \ {m} : client_fd[n] \notin also,
         \A i \in 1..Len(batch') : batch'[i].fd \notin also \cup {m, client_fd[m]}
  PROVE  PromptInv'
<1>1. /\ WorldTypes /\ TablesInv /\ PoolInv /\ batch \in Seq(EventType) /\ batch # <<>>
      /\ \A n \in Machines : n \in Fds /\ fds[n] = Timer(n) /\ mask[n] # "off"
      /\ \A n \in Machines : client_fd[n] \notin Machines
      /\ \A n \in Machines : Busy(n) => IsConn(client_fd[n]) /\ client_fd[n] \in Fds
  BY Facts DEF Handles
<1>2. /\ \A n \in Machines : client_fd'[n] = IF n = m THEN NoFd ELSE client_fd[n]
      /\ \A n \in Machines : phase'[n] = IF n = m THEN "WAITING" ELSE phase[n]
      /\ \A n \in Machines : timer'[n] = IF n = m THEN "idle" ELSE timer[n]
      /\ \A g \in Fds : g \notin Held(m) \cup also => fds'[g] = fds[g] /\ mask'[g] = mask[g]
      /\ \A g \in Fds : g \in Held(m) \cup also => fds'[g] = Free
  BY <1>1 DEF Reset, CloseAndStop, SetTimer, Close, WorldTypes
<1>3. \A n \in Machines : n \notin Held(m) \cup also
  BY <1>1, Kinds DEF Held
<1>4. TimersIntact'
  BY <1>1, <1>2, <1>3 DEF TimersIntact
<1>5. BusyIsTimed'
  BY <1>2 DEF PromptInv, MachinesInv, BusyIsTimed, Busy
<1>7. EventsInv'
  <2>1. \A i \in 1..Len(batch') : \E j \in 1..Len(batch) : batch'[i] = batch[j]
    BY <1>1, TailFacts
  <2>2. ASSUME NEW i \in 1..Len(batch'), batch'[i].fd \in Fds
        PROVE  /\ mask[batch'[i].fd] # "off" => mask'[batch'[i].fd] # "off"
               /\ fds'[batch'[i].fd].kind # "file" \/ fds'[batch'[i].fd] = fds[batch'[i].fd]
    <3>1. CASE batch'[i].fd \in Held(m)
      <4>1. fds[batch'[i].fd] = File(m) /\ mask[batch'[i].fd] = "off"
        BY <1>1, <3>1, Kinds DEF Held, TablesInv, DescriptorsSound
      <4> QED
        BY <1>2, <2>2, <3>1, <4>1, Kinds
    <3>2. CASE batch'[i].fd \notin Held(m)
      BY <1>2, <2>2, <3>2
    <3> QED
      BY <3>1, <3>2
  <2>3. \A i \in 1..Len(batch') : batch'[i].fd \in Machines =>
          timer'[batch'[i].fd] = timer[batch'[i].fd]
    BY <1>2
  <2>4. ASSUME NEW n \in Machines, timer'[n] = "expired"
        PROVE  /\ timer[n] = "expired" /\ client_fd'[n] = client_fd[n]
               /\ Ready(client_fd[n])' => Ready(client_fd[n])
    <3>1. /\ n # m /\ timer[n] = "expired" /\ client_fd'[n] = client_fd[n]
          /\ Busy(n) /\ IsConn(client_fd[n]) /\ client_fd[n] \in Fds
      BY <1>1, <1>2, <2>4, Facts
    <3> DEFINE g == client_fd[n]
    <3>2. g \notin Held(m) \cup also
      BY <3>1, Kinds DEF Held, IsConn, PromptInv, LoopInv, PoolInv, ClientsOwned
    <3>3. fds'[g] = fds[g] /\ mask'[g] = mask[g]
      BY <1>2, <3>1, <3>2
    <3>4. \A h \in Held(m) \cup also : fds[h] # Conn(fds[g].of)
      <4>1. fds[g] = Conn(fds[g].of) /\ Held(m) \cup also \subseteq Fds
        BY <1>1, <3>1, KindFacts DEF IsConn, WorldTypes, Held
      <4> QED
        BY <1>1, <3>1, <3>2, <4>1 DEF TablesInv, DescriptorsSound
    <3>5. fds[g].of \in Conns
      BY <1>1, <3>1, KindFacts DEF IsConn, WorldTypes
    <3>6. /\ peer'[fds[g].of] = peer[fds[g].of]
          /\ input'[fds[g].of] => input[fds[g].of]
          /\ full'[fds[g].of] = full[fds[g].of]
      BY <3>4, <3>5 DEF Reset, CloseAndStop, Close
    <3>7. Ready(g)' => Ready(g)
      BY <3>1, <3>3, <3>6, SameReady
    <3> QED
      BY <3>1, <3>7
  <2> QED
    BY <2>1, <2>2, <2>3, <2>4, KeepsEvents
<1> QED
  BY <1>4, <1>5, <1>7 DEF PromptInv, MachinesInv

\* A timer that fires: it has expired, so the loop closes nothing but what the
\* machine holds.
LEMMA TimerEventPrompt ==
  ASSUME PromptInv, LoopInv', NEW m \in Machines, TimerEvent(m)
  PROVE  PromptInv'
<1>1. Handles(m) /\ batch' = Tail(batch)
  BY DEF TimerEvent
<1>2. /\ batch \in Seq(EventType) /\ batch # <<>> /\ Event.fd = m
      /\ Event = batch[1] /\ 1 \in 1..Len(batch)
      /\ batch' \in Seq(EventType)
      /\ \A i \in 1..Len(batch') : i + 1 \in 1..Len(batch) /\ batch'[i] = batch[i + 1]
  BY <1>1, Facts, TailFacts DEF Handles
<1>3. timer[m] = "expired"
  BY <1>2 DEF PromptInv, EventsInv, TimerEventsDue
<1>4. Reset(m, {})
  BY <1>3, Facts, Kinds DEF TimerEvent, HasExpired
<1>5. \A i \in 1..Len(batch') : batch'[i].fd # m
  BY <1>2, Facts DEF BatchSound
<1>6. \A i \in 1..Len(batch') : batch'[i].fd # client_fd[m]
  BY <1>2, <1>3 DEF PromptInv, EventsInv, ExpiredIsQuiet, Outstanding
<1> QED
  BY <1>1, <1>4, <1>5, <1>6, ResetKeepsPrompt

\* Handling an event that changes nothing.
LEMMA IgnoredPrompt ==
  ASSUME PromptInv, LoopInv', UNCHANGED <<kernel, pool, sockets>>,
         \A i \in 1..Len(batch') : \E j \in 1..Len(batch) : batch'[i] = batch[j]
  PROVE  PromptInv'
<1>1. /\ fds' = fds /\ mask' = mask /\ timer' = timer
      /\ client_fd' = client_fd /\ phase' = phase /\ left' = left
      /\ queue' = queue /\ peer' = peer /\ input' = input /\ full' = full
  BY DEF kernel, pool, sockets
<1>2. MachinesInv'
  BY <1>1 DEF PromptInv, MachinesInv, TimersIntact, BusyIsTimed, Busy
<1>3. \A m \in Machines : Ready(client_fd[m])' => Ready(client_fd[m])
  BY <1>1 DEF Ready, IsConn, Readable
<1>4. EventsInv'
  BY <1>1, <1>3, KeepsEvents
<1> QED
  BY <1>2, <1>4 DEF PromptInv

\* EPOLLHUP resets the owner of the connection, or nothing.
LEMMA HangUpPrompt ==
  ASSUME PromptInv, LoopInv', NEW f \in Fds, HangUp(f)
  PROVE  PromptInv'
<1>1. Handles(f) /\ batch' = Tail(batch)
  BY DEF HangUp
<1>2. CASE Owners(f) # {}
  <2> DEFINE m == First(Owners(f))
  <2>1. m \in Machines /\ client_fd[m] = f /\ Reset(m, {})
    BY <1>2, FirstFacts DEF HangUp, Owners
  <2>2. \A i \in 1..Len(batch') : batch'[i].fd \notin {f, m}
    BY <1>1, <2>1, OthersLeft
  <2> QED
    BY <1>1, <2>1, <2>2, ResetKeepsPrompt
<1>3. CASE Owners(f) = {}
  <2>1. UNCHANGED <<kernel, pool, sockets>>
    BY <1>3 DEF HangUp
  <2>2. \A i \in 1..Len(batch') : \E j \in 1..Len(batch) : batch'[i] = batch[j]
    BY <1>1, Facts, TailFacts DEF Handles
  <2> QED
    BY <2>1, <2>2, IgnoredPrompt
<1> QED
  BY <1>2, <1>3

\* The event that stops the server changes no table.
LEMMA DownPrompt ==
  ASSUME PromptInv, LoopInv', NEW f \in Fds \ Machines, NEW m,
         NoMachine(f) \/ NoDirectory(m, f)
  PROVE  PromptInv'
<1>1. Handles(f) /\ batch' = Tail(batch) /\ UNCHANGED <<kernel, pool, sockets>>
  BY DEF NoMachine, NoDirectory, Reads, Serve, ClientEvent
<1>2. \A i \in 1..Len(batch') : \E j \in 1..Len(batch) : batch'[i] = batch[j]
  BY <1>1, Facts, TailFacts DEF Handles
<1> QED
  BY <1>1, <1>2, IgnoredPrompt

\* The end of a request closes the event's connection and what its machine held.
LEMMA FinishPrompt ==
  ASSUME PromptInv, LoopInv', NEW m \in Machines, NEW f \in Fds \ Machines, Finish(m, f)
  PROVE  PromptInv'
<1>1. /\ Handles(f) /\ batch' = Tail(batch) /\ Serve(m, f) /\ Reset(m, {f})
  BY DEF Finish, Serve, ClientEvent
<1>2. /\ client_fd[m] = f \/ client_fd[m] = NoFd
      /\ \A n \in Machines \ {m} : client_fd[n] # f
  BY <1>1, Facts, ServeFacts
<1>3. IsConn(f)
  <2>1. Event = batch[1] /\ 1 \in 1..Len(batch) /\ Event.fd = f
    BY <1>1, Facts, TailFacts DEF Handles
  <2> QED
    BY <2>1, EventIsConn
<1>4. \A i \in 1..Len(batch') : batch'[i].fd \notin {f, m, client_fd[m]}
  BY <1>1, <1>2, OthersLeft
<1> QED
  BY <1>1, <1>2, <1>3, <1>4, ResetKeepsPrompt

\* A connection that is accepted takes a number no waiting event names.
LEMMA AcceptPrompt ==
  ASSUME PromptInv, LoopInv', Accept
  PROVE  PromptInv'
<1>1. \A i \in 1..Len(batch') : \E j \in 1..Len(batch) : batch'[i] = batch[j]
  <2>1. batch \in Seq(EventType) /\ batch # <<>>
    BY Facts DEF Accept, Handles
  <2>2. batch' = <<>> \/ batch' = Tail(batch)
    BY DEF Accept
  <2> QED
    BY <2>1, <2>2
<1>2. CASE UNCHANGED <<kernel, queue>>
  <2>1. UNCHANGED <<kernel, pool, sockets>>
    BY <1>2 DEF Accept, sockets
  <2> QED
    BY <1>1, <2>1, IgnoredPrompt
<1>3. CASE /\ FreeFds # {}
           /\ fds' = [fds EXCEPT ![LowestFree] = Conn(Head(queue))]
           /\ mask' = [mask EXCEPT ![LowestFree] = "in"]
           /\ UNCHANGED timer
  <2>1. LowestFree \in Fds /\ fds[LowestFree] = Free
    BY <1>3, LowestFreeFacts
  <2>2. /\ \A f \in Fds : f # LowestFree => fds'[f] = fds[f] /\ mask'[f] = mask[f]
        /\ fds'[LowestFree] = Conn(Head(queue)) /\ mask'[LowestFree] = "in"
    BY <1>3, <2>1, Facts DEF WorldTypes
  <2>3. /\ timer' = timer /\ client_fd' = client_fd /\ phase' = phase
        /\ peer' = peer /\ input' = input /\ full' = full
    BY <1>3 DEF Accept, pool
  <2>4. TimersIntact' /\ BusyIsTimed'
    BY <2>1, <2>2, <2>3, Kinds, Facts DEF PromptInv, MachinesInv, TimersIntact, BusyIsTimed, Busy
  <2>6. EventsInv'
    <3>1. \A m \in Machines : timer[m] = "expired" => (Ready(client_fd[m])' => Ready(client_fd[m]))
      <4> SUFFICES ASSUME NEW m \in Machines, timer[m] = "expired"
                   PROVE  Ready(client_fd[m])' => Ready(client_fd[m])
        OBVIOUS
      <4>1. client_fd[m] \in Fds /\ IsConn(client_fd[m])
        BY Facts
      <4>2. fds'[client_fd[m]] = fds[client_fd[m]] /\ mask'[client_fd[m]] = mask[client_fd[m]]
        BY <2>1, <2>2, <4>1, Kinds DEF IsConn
      <4> QED
        BY <2>3, <4>1, <4>2, SameReady
    <3>2. \A f \in Fds : /\ mask[f] # "off" => mask'[f] # "off"
                         /\ fds'[f].kind # "file" \/ fds'[f] = fds[f]
      BY <2>2, Kinds
    <3> QED
      BY <1>1, <2>3, <3>1, <3>2, KeepsEvents
  <2> QED
    BY <2>4, <2>6 DEF PromptInv, MachinesInv
<1> QED
  BY <1>2, <1>3 DEF Accept

\* epoll_wait reports a timer only when it has expired, and never the client of
\* one.
LEMMA WaitPrompt ==
  ASSUME PromptInv, LoopInv', Wait
  PROVE  PromptInv'
<1>1. \A i \in 1..Len(batch') : batch'[i].fd \in ReadyFds
  BY Facts, Fetched
<1>2. /\ fds' = fds /\ mask' = mask /\ timer' = timer
      /\ client_fd' = client_fd /\ phase' = phase
      /\ peer' = peer /\ input' = input /\ full' = full
  BY DEF Wait, kernel, pool, sockets
<1>3. MachinesInv'
  BY <1>2 DEF PromptInv, MachinesInv, TimersIntact, BusyIsTimed, Busy
<1>4. EventsAreCurrent'
  <2>1. \A f \in Fds : Ready(f) => mask[f] # "off" /\ fds[f].kind # "file"
    BY DEF Ready, IsConn
  <2>2. \A i \in 1..Len(batch') : batch'[i].fd # Listener => Ready(batch'[i].fd) /\ batch'[i].fd \in Fds
    BY <1>1 DEF ReadyFds
  <2> QED
    BY <1>2, <2>1, <2>2 DEF EventsAreCurrent
<1>5. ExpiredIsQuiet'
  <2> SUFFICES ASSUME NEW m \in Machines, timer'[m] = "expired"
               PROVE  ~Outstanding(client_fd[m])'
    BY DEF ExpiredIsQuiet
  <2>1. ~Ready(client_fd[m]) /\ client_fd[m] \in Fds
    BY <1>2, Facts DEF PromptInv, EventsInv, ExpiredIsQuiet, Outstanding
  <2>2. client_fd[m] \notin ReadyFds
    BY <2>1, MachinesAreFds DEF ReadyFds
  <2>3. ~Ready(client_fd[m])'
    BY <1>2, <2>1 DEF Ready, IsConn, Readable
  <2> QED
    BY <1>1, <1>2, <2>2, <2>3 DEF Outstanding
<1>6. TimerEventsDue'
  <2> SUFFICES ASSUME NEW i \in 1..Len(batch'), batch'[i].fd \in Machines
               PROVE  timer'[batch'[i].fd] = "expired"
    BY DEF TimerEventsDue
  <2> DEFINE m == batch'[i].fd
  <2>1. Ready(m)
    BY <1>1, MachinesAreFds DEF ReadyFds
  <2>2. fds[m] = Timer(m)
    BY Facts
  <2> QED
    BY <1>2, <2>1, <2>2, Kinds DEF Ready, IsConn
<1> QED
  BY <1>3, <1>4, <1>5, <1>6 DEF PromptInv, EventsInv

\* A call that continues starts the machine's timer again, opens at most the
\* machine's own files, and touches no other request.
LEMMA ServedPrompt ==
  ASSUME PromptInv, LoopInv', NEW m \in Machines, NEW f \in Fds \ Machines, Serve(m, f), IsConn(f),
         fds' = fds \/ Opens(m),
         \A g \in Fds : mask'[g] = "off" <=> mask[g] = "off",
         \A g \in Fds \ {f} : mask'[g] = mask[g],
         SetTimer(m, "armed"), peer' = peer,
         \A c \in Conns \ {fds[f].of} : input'[c] = input[c] /\ full'[c] = full[c],
         client_fd' = [client_fd EXCEPT ![m] = f]
  PROVE  PromptInv'
<1>1. /\ Handles(f) /\ batch' = Tail(batch)
      /\ client_fd[m] = f \/ client_fd[m] = NoFd
      /\ \A n \in Machines \ {m} : client_fd[n] # f
  BY Facts, ServeFacts DEF Serve, ClientEvent
<1>2. /\ \A n \in Machines : client_fd'[n] = IF n = m THEN f ELSE client_fd[n]
      /\ \A n \in Machines : timer'[n] = IF n = m THEN "armed" ELSE timer[n]
      /\ f # NoFd
  BY Facts, MachinesAreFds DEF WorldTypes, SetTimer
<1>3. \A g \in Fds : fds'[g] = fds[g] \/ (fds[g] = Free /\ fds'[g] = File(m))
  BY DEF Opens, OpenFiles, FreeFds
<1>4. TimersIntact'
  BY <1>3, Facts, Kinds DEF TimersIntact
<1>5. BusyIsTimed'
  BY <1>2 DEF PromptInv, MachinesInv, BusyIsTimed, Busy
<1>7. EventsInv'
  <2>1. \A i \in 1..Len(batch') : \E j \in 1..Len(batch) : batch'[i] = batch[j]
    BY <1>1, Facts, TailFacts DEF Handles
  <2>2. ASSUME NEW i \in 1..Len(batch'), batch'[i].fd \in Fds
        PROVE  /\ mask[batch'[i].fd] # "off" => mask'[batch'[i].fd] # "off"
               /\ fds'[batch'[i].fd].kind # "file" \/ fds'[batch'[i].fd] = fds[batch'[i].fd]
    <3>1. PICK j \in 1..Len(batch) : batch'[i] = batch[j]
      BY <2>1
    <3>2. mask[batch'[i].fd] # "off"
      BY <2>2, <3>1, MachinesAreFds DEF PromptInv, EventsInv, EventsAreCurrent
    <3>3. fds[batch'[i].fd] # Free
      BY <2>2, <3>2, Facts, Kinds DEF TablesInv, DescriptorsSound
    <3> QED
      BY <1>3, <2>2, <3>3
  <2>3. \A i \in 1..Len(batch') : batch'[i].fd \in Machines =>
          timer'[batch'[i].fd] = timer[batch'[i].fd]
    BY <1>1, <1>2, OthersLeft
  <2>4. ASSUME NEW n \in Machines, timer'[n] = "expired"
        PROVE  /\ timer[n] = "expired" /\ client_fd'[n] = client_fd[n]
               /\ Ready(client_fd[n])' => Ready(client_fd[n])
    <3>1. /\ n # m /\ timer[n] = "expired" /\ client_fd'[n] = client_fd[n]
          /\ IsConn(client_fd[n]) /\ client_fd[n] \in Fds /\ client_fd[n] # f
      BY <1>1, <1>2, <2>4, Facts
    <3> DEFINE g == client_fd[n]
    <3>2. fds[g].of \in Conns /\ fds[g].of # fds[f].of
      BY <3>1, OtherConn
    <3>3. fds'[g] = fds[g] /\ mask'[g] = mask[g]
      BY <1>3, <3>1, Kinds DEF IsConn
    <3>4. /\ peer'[fds[g].of] = peer[fds[g].of]
          /\ input'[fds[g].of] = input[fds[g].of]
          /\ full'[fds[g].of] = full[fds[g].of]
      BY <3>2
    <3>5. Ready(g)' => Ready(g)
      BY <3>1, <3>3, <3>4, SameReady
    <3> QED
      BY <3>1, <3>5
  <2> QED
    BY <2>1, <2>2, <2>3, <2>4, KeepsEvents
<1> QED
  BY <1>4, <1>5, <1>7 DEF PromptInv, MachinesInv

\* An incomplete request is timed.
LEMMA NeedReadPrompt ==
  ASSUME PromptInv, LoopInv', NEW m \in Machines, NEW f \in Fds \ Machines, NeedReadMoreData(m, f)
  PROVE  PromptInv'
<1>1. /\ Serve(m, f) /\ IsConn(f) /\ client_fd' = [client_fd EXCEPT ![m] = f]
      /\ SetTimer(m, "armed") /\ UNCHANGED <<fds, mask, peer, full>>
  BY DEF NeedReadMoreData, Adopt
<1>2. \A c \in Conns \ {fds[f].of} : input'[c] = input[c]
  BY Facts DEF NeedReadMoreData, WorldTypes
<1> QED
  BY <1>1, <1>2, ServedPrompt

\* So is an upload that opens its original.
LEMMA BeginUploadPrompt ==
  ASSUME PromptInv, LoopInv', NEW m \in Machines, NEW f \in Fds \ Machines, BeginUpload(m, f)
  PROVE  PromptInv'
<1>1. /\ Serve(m, f) /\ IsConn(f) /\ client_fd' = [client_fd EXCEPT ![m] = f]
      /\ SetTimer(m, "armed") /\ UNCHANGED <<mask, peer, full>>
  BY DEF BeginUpload, Reads, Adopt
<1>2. \A c \in Conns \ {fds[f].of} : input'[c] = input[c]
  BY Facts DEF BeginUpload, WorldTypes
<1>3. fds' = fds \/ Opens(m)
  BY CallOpens DEF PromptInv
<1> QED
  BY <1>1, <1>2, <1>3, ServedPrompt

\* A response that starts is timed.
LEMMA BeginResponsePrompt ==
  ASSUME PromptInv, LoopInv', NEW m \in Machines, NEW f \in Fds \ Machines,
         BeginImage(m, f) \/ BeginBatch(m, f)
  PROVE  PromptInv'
<1>1. LoopInv
  BY DEF PromptInv
<1>2. /\ Serve(m, f) /\ IsConn(f) /\ Adopt(m, f, "SENDING") /\ SetTimer(m, "armed")
      /\ \A g \in Fds : mask'[g] = "off" <=> mask[g] = "off"
      /\ \A g \in Fds \ {f} : mask'[g] = mask[g]
      /\ \A c \in Conns \ {fds[f].of} : input'[c] = input[c]
      /\ UNCHANGED peer
  BY <1>1, ResponseFacts
<1>3. /\ fds' = fds \/ Opens(m)
      /\ \A c \in Conns \ {fds[f].of} : full'[c] = full[c]
  BY <1>1, ResponseFiles
<1>4. client_fd' = [client_fd EXCEPT ![m] = f]
  BY <1>2 DEF Adopt
<1> QED
  BY <1>2, <1>3, <1>4, ServedPrompt

\* A response that continues is timed.
LEMMA NeedWritePrompt ==
  ASSUME PromptInv, LoopInv', NEW m \in Machines, NEW f \in Fds \ Machines, NeedWriteMoreData(m, f)
  PROVE  PromptInv'
<1>1. /\ Serve(m, f) /\ IsConn(f) /\ phase[m] = "SENDING" /\ SetTimer(m, "armed")
      /\ UNCHANGED <<fds, mask, client_fd, phase, peer, input>>
  BY DEF NeedWriteMoreData
<1>2. \A c \in Conns \ {fds[f].of} : full'[c] = full[c]
  BY Facts DEF NeedWriteMoreData, WorldTypes
<1>3. client_fd[m] = f
  BY <1>1, Facts, ServeFacts
<1>4. client_fd' = [client_fd EXCEPT ![m] = f]
  BY <1>1, <1>3, Facts DEF WorldTypes
<1> QED
  BY <1>1, <1>2, <1>4, ServedPrompt

\* A timer of a prompt loop expires when nothing of its client is left to handle.
LEMMA ExpirePrompt ==
  ASSUME Prompt, PromptInv, LoopInv', NEW m \in Machines, Expire(m)
  PROVE  PromptInv'
<1>1. /\ timer[m] = "armed" /\ ~Outstanding(client_fd[m])
      /\ \A n \in Machines : timer'[n] = IF n = m THEN "expired" ELSE timer[n]
      /\ batch' = batch /\ fds' = fds /\ mask' = mask
      /\ client_fd' = client_fd /\ phase' = phase
      /\ peer' = peer /\ input' = input /\ full' = full
  BY Facts DEF Expire, pool, sockets, WorldTypes
<1>2. TimersIntact'
  BY <1>1 DEF PromptInv, MachinesInv, TimersIntact
<1>3. BusyIsTimed'
  BY <1>1 DEF PromptInv, MachinesInv, BusyIsTimed, Busy
<1>4. EventsAreCurrent'
  BY <1>1 DEF PromptInv, EventsInv, EventsAreCurrent
<1>5. ExpiredIsQuiet'
  <2> SUFFICES ASSUME NEW n \in Machines, timer'[n] = "expired"
               PROVE  ~Outstanding(client_fd[n])'
    BY DEF ExpiredIsQuiet
  <2>1. ~Outstanding(client_fd[n])
    BY <1>1 DEF PromptInv, EventsInv, ExpiredIsQuiet
  <2>2. client_fd[n] \in Fds /\ IsConn(client_fd[n])
    BY <1>1, Facts DEF PromptInv, MachinesInv, BusyIsTimed
  <2>3. Ready(client_fd[n])' => Ready(client_fd[n])
    BY <1>1, <2>2, SameReady
  <2> QED
    BY <1>1, <2>1, <2>3 DEF Outstanding
<1>6. TimerEventsDue'
  BY <1>1 DEF PromptInv, EventsInv, TimerEventsDue
<1> QED
  BY <1>2, <1>3, <1>4, <1>5, <1>6 DEF PromptInv, MachinesInv, EventsInv

\* What a client does disturbs no other client, and none whose timer has expired
\* does anything before its event is handled.
LEMMA ClientPrompt ==
  ASSUME PromptInv, LoopInv', NEW c \in Conns,
         UNCHANGED <<batch, kernel, pool>>,
         \A d \in Conns \ {c} : peer'[d] = peer[d] /\ input'[d] = input[d] /\ full'[d] = full[d],
         \A m \in Machines : timer[m] = "expired" => fds[client_fd[m]] # Conn(c)
  PROVE  PromptInv'
<1>1. /\ batch' = batch /\ fds' = fds /\ mask' = mask /\ timer' = timer
      /\ client_fd' = client_fd /\ phase' = phase
  BY DEF kernel, pool
<1>2. MachinesInv'
  BY <1>1 DEF PromptInv, MachinesInv, TimersIntact, BusyIsTimed, Busy
<1>3. ASSUME NEW m \in Machines, timer[m] = "expired"
      PROVE  Ready(client_fd[m])' => Ready(client_fd[m])
  <2> DEFINE g == client_fd[m]
  <2>1. g \in Fds /\ IsConn(g) /\ fds[g] # Conn(c)
    BY <1>3, Facts
  <2>2. fds[g].of \in Conns \ {c}
    BY <2>1, Facts, KindFacts DEF IsConn, WorldTypes
  <2>3. peer'[fds[g].of] = peer[fds[g].of] /\ input'[fds[g].of] = input[fds[g].of]
        /\ full'[fds[g].of] = full[fds[g].of]
    BY <2>2
  <2> QED
    BY <1>1, <2>1, <2>3, SameReady
<1>4. EventsInv'
  BY <1>1, <1>3, KeepsEvents
<1> QED
  BY <1>2, <1>4 DEF PromptInv

\* Every step of a client keeps the invariant of a prompt loop.
LEMMA PeerPrompt ==
  ASSUME Prompt, PromptInv, LoopInv', NEW c \in Conns,
         Connect(c) \/ Send(c) \/ HalfClose(c) \/ Abort(c) \/ Drain(c)
  PROVE  PromptInv'
<1>1. UNCHANGED <<batch, kernel, pool>>
  BY DEF Connect, Send, HalfClose, Abort, Drain
<1>2. \A d \in Conns \ {c} : peer'[d] = peer[d] /\ input'[d] = input[d] /\ full'[d] = full[d]
  BY Facts DEF Connect, Send, HalfClose, Abort, Drain, WorldTypes
<1>3. \A m \in Machines : timer[m] = "expired" => fds[client_fd[m]] # Conn(c)
  <2>1. CASE Connect(c)
    <3>1. \A f \in Fds : IsConn(f) => fds[f] # Conn(c)
      BY <2>1, Facts, Kinds DEF Connect, TablesInv, DescriptorsSound
    <3> QED
      BY <3>1, Facts
  <2>2. CASE MayAct(c)
    BY <2>2, Facts DEF MayAct
  <2> QED
    BY <2>1, <2>2 DEF Send, HalfClose, Abort, Drain
<1> QED
  BY <1>1, <1>2, <1>3, ClientPrompt

-----------------------------------------------------------------------------
\* The loop starts in the invariant of a prompt loop.
LEMMA PromptInit == Init => PromptInv
<1> SUFFICES ASSUME Init PROVE PromptInv
  OBVIOUS
<1>1. LoopInv
  BY LoopInit
<1>2. MachinesInv
  BY MachinesAreFds, Kinds
     DEF Init, MachinesInv, TimersIntact, BusyIsTimed, Busy
<1>3. EventsInv
  BY DEF Init, EventsInv, EventsAreCurrent, ExpiredIsQuiet, TimerEventsDue
<1> QED
  BY <1>1, <1>2, <1>3 DEF PromptInv

\* Every step of a prompt loop, its clients and the clock keeps the invariant.
LEMMA PromptNext == Prompt /\ PromptInv /\ [Next]_vars => PromptInv'
<1> SUFFICES ASSUME Prompt, PromptInv, [Next]_vars PROVE PromptInv'
  OBVIOUS
<1>1. LoopInv'
  BY LoopNext DEF PromptInv
<1>2. CASE Loop
  BY <1>1, <1>2, WaitPrompt, AcceptPrompt, HangUpPrompt, TimerEventPrompt, DownPrompt,
     NeedReadPrompt, BeginUploadPrompt, BeginResponsePrompt, NeedWritePrompt, FinishPrompt DEF Loop
<1>3. CASE \E m \in Machines : Expire(m)
  BY <1>1, <1>3, ExpirePrompt
<1>4. CASE \E c \in Conns : Connect(c) \/ Send(c) \/ HalfClose(c) \/ Abort(c) \/ Drain(c)
  BY <1>1, <1>4, PeerPrompt
<1>5. CASE UNCHANGED vars
  BY <1>1, <1>5, IgnoredPrompt DEF vars
<1> QED
  BY <1>2, <1>3, <1>4, <1>5 DEF Next

\* The invariant of a prompt loop, for any number of machines, connections and
\* descriptors.
THEOREM PromptInvariance ==
  ASSUME Prompt
  PROVE  Spec => []PromptInv
<1>1. PromptInv /\ [Next]_vars => PromptInv'
  BY PromptNext
<1> QED
  BY <1>1, PromptInit, PTL DEF Spec

\* A prompt loop never closes a machine's timerfd.
THEOREM TimersStayIntact ==
  ASSUME Prompt
  PROVE  Spec => []TimersIntact
<1>1. PromptInv => TimersIntact
  BY DEF PromptInv, MachinesInv
<1> QED
  BY <1>1, PromptInvariance, PTL

\* In a prompt loop exactly the machines that serve a connection are timed.
THEOREM BusyIsAlwaysTimed ==
  ASSUME Prompt
  PROVE  Spec => []BusyIsTimed
<1>1. PromptInv => BusyIsTimed
  BY DEF PromptInv, MachinesInv
<1> QED
  BY <1>1, PromptInvariance, PTL

\* In a prompt loop no event of a batch outlives the descriptor it names, in
\* whatever order the batch is handled.
THEOREM EventsStayCurrent ==
  ASSUME Prompt
  PROVE  Spec => []EventsAreCurrent
<1>1. PromptInv => EventsAreCurrent
  BY DEF PromptInv, EventsInv
<1> QED
  BY <1>1, PromptInvariance, PTL

-----------------------------------------------------------------------------
(***************************************************************************)
(* What the server goes down for.  Each busy machine holds a connection of *)
(* its own, and the connection of an event no machine can take is one      *)
(* more.                                                                   *)
(***************************************************************************)

\* The open connections are no more than the descriptors.
LEMMA OpenIsFinite == IsFiniteSet(Open) /\ Cardinality(Open) \in Nat
<1> DEFINE place == [c \in Open |-> CHOOSE f \in Fds : fds[f] = Conn(c)]
<1>1. \A c \in Open : place[c] \in Fds /\ fds[place[c]] = Conn(c)
  BY DEF Open
<1>2. \A c, d \in Open : place[c] = place[d] => c = d
  BY <1>1, Kinds
<1>3. place \in Injection(Open, Fds)
  BY <1>1, <1>2 DEF Injection, IsInjective
<1>4. IsFiniteSet(Open)
  BY <1>3, FiniteFds, FS_Injection
<1> QED
  BY <1>4, FS_CardinalityType

\* When no machine is left there are more open connections than machines.
LEMMA NoMachineMeansMany ==
  ASSUME PromptInv, NEW f \in Fds \ Machines, NoMachine(f)
  PROVE  Cardinality(Open) > MaxMachines
<1> SUFFICES ASSUME ~(Cardinality(Open) > MaxMachines) PROVE FALSE
  OBVIOUS
<1>1. /\ Handles(f) /\ batch' = Tail(batch)
      /\ Owners(f) = {} /\ \A m \in Machines : phase[m] # "WAITING"
  BY DEF NoMachine, ClientEvent, Selected
<1>2. IsConn(f)
  <2>1. Event = batch[1] /\ 1 \in 1..Len(batch) /\ Event.fd = f
    BY <1>1, Facts, TailFacts DEF Handles
  <2> QED
    BY <2>1, EventIsConn
<1>3. \A m \in Machines : /\ client_fd[m] \in Fds /\ IsConn(client_fd[m]) /\ client_fd[m] # f
                          /\ \A n \in Machines : client_fd[m] = client_fd[n] => m = n
  BY <1>1, Facts DEF Owners, PoolInv, ClientsOwned
<1> DEFINE held == [m \in Machines |-> fds[client_fd[m]].of]
           rest == Open \ {fds[f].of}
<1>4. \A g \in Fds : IsConn(g) => fds[g].of \in Open
  BY Facts, KindFacts DEF IsConn, WorldTypes, Open
<1>5. fds[f].of \in Open /\ \A m \in Machines : held[m] \in rest
  BY <1>2, <1>3, <1>4, OtherConn
<1>6. \A m, n \in Machines : m # n => held[m] # held[n]
  BY <1>3, OtherConn
<1>7. IsFiniteSet(rest) /\ Cardinality(rest) = Cardinality(Open) - 1
  BY <1>5, OpenIsFinite, FS_RemoveElement
<1>8. IsFiniteSet(Machines) /\ Cardinality(Machines) = MaxMachines
  BY PoolAssumption, FS_Interval DEF Machines
<1>9. Cardinality(rest) < Cardinality(Machines)
  BY <1>7, <1>8, OpenIsFinite, PoolAssumption
<1>10. held \in [Machines -> rest]
  BY <1>5
<1> HIDE DEF held, rest
<1>11. \E m, n \in Machines : m # n /\ held[m] = held[n]
  BY <1>7, <1>8, <1>9, <1>10, FS_PigeonHole
<1> QED
  BY <1>6, <1>11

\* Only two steps take the server down.
LEMMA WhatTakesItDown ==
  ASSUME LoopInv, alive, ~alive', [Next]_vars
  PROVE  \/ \E f \in Fds \ Machines : NoMachine(f)
         \/ \E f \in Fds \ Machines, m \in Machines : NoDirectory(m, f)
BY DEF Next, Loop, vars, Wait, Accept, HangUp, TimerEvent, NeedReadMoreData, BeginUpload, BeginResponse,
   BeginImage, BeginBatch, NeedWriteMoreData, Finish, Expire, Connect, Send, HalfClose, Abort, Drain

\* A prompt server goes down for want of a machine or of a descriptor only, for any
\* number of machines, connections and descriptors.
THEOREM GoesDownOnlyWhenExhausted ==
  ASSUME Prompt
  PROVE  Spec => DownOnlyWhenExhausted
<1>1. PromptInv /\ [Next]_vars =>
        [alive /\ ~alive' => FreeFds = {} \/ Cardinality(Open) > MaxMachines]_vars
  <2> SUFFICES ASSUME PromptInv, alive, ~alive', [Next]_vars
               PROVE  FreeFds = {} \/ Cardinality(Open) > MaxMachines
    OBVIOUS
  <2>1. CASE \E f \in Fds \ Machines : NoMachine(f)
    BY <2>1, NoMachineMeansMany
  <2>2. CASE \E f \in Fds \ Machines, m \in Machines : NoDirectory(m, f)
    BY <2>2 DEF NoDirectory
  <2> QED
    BY <2>1, <2>2, WhatTakesItDown DEF PromptInv
<1> QED
  BY <1>1, PromptInvariance, PTL DEF Spec, DownOnlyWhenExhausted

-----------------------------------------------------------------------------
(***************************************************************************)
(* How many descriptors are enough.  The numbers are counted by what they  *)
(* refer to: timers, connections, and files of the machines but the one    *)
(* that needs another.                                                     *)
(***************************************************************************)

\* The elements of a small enough set can be numbered.
LEMMA Numbering ==
  ASSUME NEW S, IsFiniteSet(S), NEW N \in Nat, Cardinality(S) <= N
  PROVE  Injection(S, 1..N) # {}
<1> DEFINE K == Cardinality(S)
<1>1. K \in Nat /\ ExistsBijection(1..K, S)
  BY FS_CardinalityType
<1>2. PICK b \in [1..K -> S] : \A x \in S : \E i \in 1..K : b[i] = x
  BY <1>1 DEF ExistsBijection, Bijection, Injection, Surjection
<1> HIDE DEF K
<1> DEFINE rank == [x \in S |-> CHOOSE i \in 1..K : b[i] = x]
<1>3. \A x \in S : rank[x] \in 1..K /\ b[rank[x]] = x
  BY <1>2
<1>4. \A x \in S : rank[x] \in 1..N
  BY <1>1, <1>3 DEF K
<1>5. rank \in [S -> 1..N] /\ \A x, y \in S : rank[x] = rank[y] => x = y
  BY <1>3, <1>4
<1> QED
  BY <1>5 DEF Injection, IsInjective

ConnFds == {f \in Fds : fds[f].kind = "conn"}
FileFds == {f \in Fds : fds[f].kind = "file"}

\* There are no more descriptors of connections than connections.
LEMMA FewConns ==
  ASSUME LoopInv, IsFiniteSet(Conns)
  PROVE  IsFiniteSet(ConnFds) /\ Cardinality(ConnFds) <= Cardinality(Conns)
<1> DEFINE place == [f \in ConnFds |-> fds[f].of]
<1>1. \A f \in ConnFds : f \in Fds /\ fds[f].of \in Conns /\ fds[f] = Conn(fds[f].of) /\ IsConn(f)
  BY TypesSplit, KindFacts DEF LoopInv, WorldTypes, ConnFds, IsConn
<1>2. \A f, g \in ConnFds : place[f] = place[g] => f = g
  BY <1>1 DEF LoopInv, TablesInv, DescriptorsSound
<1>3. place \in Injection(ConnFds, Conns)
  BY <1>1, <1>2 DEF Injection, IsInjective
<1> HIDE DEF place
<1> QED
  BY <1>3, FS_Injection

\* There are no more descriptors of files than MaxFiles for each machine but one
\* that has none.
LEMMA FewFiles ==
  ASSUME LoopInv, FilesOwned, NEW m \in Machines, FilesOf(m) = {}
  PROVE  IsFiniteSet(FileFds) /\ Cardinality(FileFds) <= (MaxMachines - 1) * MaxFiles
<1> DEFINE others == Machines \ {m}
           rank(n) == CHOOSE r \in Injection(FilesOf(n), 1..MaxFiles) : TRUE
           place == [f \in FileFds |-> <<fds[f].of, rank(fds[f].of)[f]>>]
<1>1. \A f \in FileFds : fds[f].of \in others /\ f \in FilesOf(fds[f].of)
  <2>1. \A f \in FileFds : f \in Fds /\ fds[f].of \in Machines /\ fds[f] = File(fds[f].of)
    BY TypesSplit, KindFacts DEF LoopInv, WorldTypes, FileFds
  <2> QED
    BY <2>1 DEF FilesOf
<1>2. ASSUME NEW n \in others
      PROVE  /\ rank(n) \in [FilesOf(n) -> 1..MaxFiles]
             /\ \A f, g \in FilesOf(n) : rank(n)[f] = rank(n)[g] => f = g
  <2>1. IsFiniteSet(FilesOf(n)) /\ Cardinality(FilesOf(n)) \in Nat
    BY FiniteFds DEF FilesOf
  <2>2. Cardinality(FilesOf(n)) <= MaxFiles
    BY <2>1, BoundsAssumption DEF FilesOwned
  <2>3. Injection(FilesOf(n), 1..MaxFiles) # {}
    BY <2>1, <2>2, BoundsAssumption, Numbering
  <2>4. rank(n) \in Injection(FilesOf(n), 1..MaxFiles)
    BY <2>3
  <2> HIDE DEF rank
  <2> QED
    BY <2>4 DEF Injection, IsInjective
<1> HIDE DEF rank
<1>3. \A f \in FileFds : place[f] \in others \X (1..MaxFiles)
  BY <1>1, <1>2
<1>4. \A f, g \in FileFds : place[f] = place[g] => f = g
  BY <1>1, <1>2
<1>5. place \in Injection(FileFds, others \X (1..MaxFiles))
  BY <1>3, <1>4 DEF Injection, IsInjective
<1>6. IsFiniteSet(others) /\ Cardinality(others) = MaxMachines - 1
  <2>1. IsFiniteSet(Machines) /\ Cardinality(Machines) = MaxMachines
    BY PoolAssumption, FS_Interval DEF Machines
  <2> QED
    BY <2>1, FS_RemoveElement
<1>7. IsFiniteSet(1..MaxFiles) /\ Cardinality(1..MaxFiles) = MaxFiles
  BY BoundsAssumption, FS_Interval
<1> DEFINE numbers == 1..MaxFiles
           places == others \X numbers
<1> HIDE DEF others, place, numbers
<1>8. IsFiniteSet(places) /\ Cardinality(places) = Cardinality(others) * Cardinality(numbers)
  <2>1. IsFiniteSet(numbers)
    BY <1>7 DEF numbers
  <2> QED
    BY <1>6, <2>1, FS_Product
<1>9. Cardinality(places) = (MaxMachines - 1) * MaxFiles
  BY <1>6, <1>7, <1>8 DEF numbers
<1>10. place \in Injection(FileFds, places)
  BY <1>5 DEF numbers
<1> HIDE DEF places
<1> QED
  BY <1>8, <1>9, <1>10, FS_Injection

\* When no descriptor is free there are as many as that, at the most.
LEMMA Counted ==
  ASSUME PromptInv, FilesOwned, IsFiniteSet(Conns),
         NEW m \in Machines, FilesOf(m) = {}, FreeFds = {}
  PROVE  MaxFd <= MaxMachines + Cardinality(Conns) + (MaxMachines - 1) * MaxFiles
<1>1. Fds \subseteq Machines \cup (ConnFds \cup FileFds)
  <2> SUFFICES ASSUME NEW f \in Fds, f \notin ConnFds, f \notin FileFds PROVE f \in Machines
    OBVIOUS
  <2>1. fds[f] \in Descriptor /\ fds[f] # Free
    BY Facts DEF WorldTypes, FreeFds
  <2>2. fds[f].kind = "timer" /\ fds[f].of \in Machines
    BY <2>1, KindFacts DEF ConnFds, FileFds
  <2>3. fds[f] = Timer(f)
    BY <2>2, Facts DEF TablesInv, DescriptorsSound
  <2> QED
    BY <2>2, <2>3, Kinds
<1>2. /\ IsFiniteSet(Machines) /\ Cardinality(Machines) = MaxMachines
  BY PoolAssumption, FS_Interval DEF Machines
<1>3. IsFiniteSet(ConnFds) /\ Cardinality(ConnFds) <= Cardinality(Conns)
  BY FewConns DEF PromptInv
<1>4. IsFiniteSet(FileFds) /\ Cardinality(FileFds) <= (MaxMachines - 1) * MaxFiles
  BY FewFiles DEF PromptInv
<1>5. /\ Cardinality(ConnFds) \in Nat /\ Cardinality(FileFds) \in Nat /\ Cardinality(Conns) \in Nat
  BY <1>3, <1>4, FS_CardinalityType
<1> DEFINE held == ConnFds \cup FileFds
           all == Machines \cup held
<1>6. /\ IsFiniteSet(held) /\ Cardinality(held) \in Nat
      /\ Cardinality(held) <= Cardinality(ConnFds) + Cardinality(FileFds)
  <2>1. /\ IsFiniteSet(held)
        /\ Cardinality(held) = Cardinality(ConnFds) + Cardinality(FileFds) - Cardinality(ConnFds \cap FileFds)
    BY <1>3, <1>4, FS_Union
  <2>2. IsFiniteSet(ConnFds \cap FileFds)
    BY <1>3, FS_Subset
  <2>3. Cardinality(ConnFds \cap FileFds) \in Nat /\ Cardinality(held) \in Nat
    BY <2>1, <2>2, FS_CardinalityType
  <2> QED
    BY <1>5, <2>1, <2>3
<1> HIDE DEF held
<1>7. /\ IsFiniteSet(all) /\ Cardinality(all) <= MaxMachines + Cardinality(held)
  <2>1. /\ IsFiniteSet(all)
        /\ Cardinality(all) = MaxMachines + Cardinality(held) - Cardinality(Machines \cap held)
    BY <1>2, <1>6, FS_Union
  <2>2. IsFiniteSet(Machines \cap held)
    BY <1>2, FS_Subset
  <2>3. Cardinality(Machines \cap held) \in Nat
    BY <2>2, FS_CardinalityType
  <2> QED
    BY <1>6, <2>1, <2>3, PoolAssumption
<1>8. Fds \subseteq all
  BY <1>1 DEF held
<1> HIDE DEF all
<1>9. MaxFd <= Cardinality(all) /\ Cardinality(all) \in Nat
  BY <1>7, <1>8, FiniteFds, FS_Subset, FS_CardinalityType
<1> DEFINE files == (MaxMachines - 1) * MaxFiles
<1>10. files \in Int /\ Cardinality(FileFds) <= files
  BY <1>4, PoolAssumption, BoundsAssumption
<1> HIDE DEF files
<1>11. MaxFd <= MaxMachines + Cardinality(Conns) + files
  BY <1>3, <1>5, <1>6, <1>7, <1>9, <1>10, PoolAssumption
<1> QED
  BY <1>11 DEF files

\* A prompt server stays up for ever when there are no more connections at a time
\* than it has machines, and descriptors for its timers, the connections, the files
\* of all machines but one, and the directory in which that one looks for its file.
THEOREM ServerAlwaysUp ==
  ASSUME Prompt, IsFiniteSet(Conns), Cardinality(Conns) <= MaxMachines,
         MaxMachines + Cardinality(Conns) + (MaxMachines - 1) * MaxFiles + 1 <= MaxFd
  PROVE  Spec => []ServerStaysUp
<1>1. Init => ServerStaysUp
  BY DEF Init, ServerStaysUp
<1>2. PromptInv /\ FilesOwned /\ ServerStaysUp /\ [Next]_vars => ServerStaysUp'
  <2> SUFFICES ASSUME PromptInv, FilesOwned, alive, ~alive', [Next]_vars PROVE FALSE
    BY DEF ServerStaysUp
  <2>1. Cardinality(Conns) \in Nat /\ Cardinality(Open) <= Cardinality(Conns)
    BY FS_Subset, FS_CardinalityType DEF Open
  <2>2. CASE \E f \in Fds \ Machines : NoMachine(f)
    BY <2>1, <2>2, NoMachineMeansMany, OpenIsFinite, PoolAssumption
  <2>3. ASSUME NEW f \in Fds \ Machines, NEW m \in Machines, NoDirectory(m, f)
        PROVE  FALSE
    <3>1. FilesOf(m) = {} /\ FreeFds = {}
      BY <2>3 DEF NoDirectory, Reads
    <3> DEFINE enough == MaxMachines + Cardinality(Conns) + (MaxMachines - 1) * MaxFiles
    <3>2. MaxFd <= enough
      BY <3>1, Counted
    <3>3. enough \in Int /\ enough + 1 <= MaxFd
      BY <2>1, PoolAssumption, BoundsAssumption
    <3> HIDE DEF enough
    <3> QED
      BY <3>2, <3>3, PoolAssumption
  <2> QED
    BY <2>2, <2>3, WhatTakesItDown DEF PromptInv
<1> QED
  BY <1>1, <1>2, PromptInvariance, FilesAlwaysOwned, PTL DEF Spec

\* The steps of the loop are those that change the batch, which is what the fairness
\* of the loop is written with; and when it cannot go on it does not.
THEOREM LoopChangesBatch ==
  ASSUME LoopInv, Next
  PROVE  /\ Loop => Running /\ batch' # batch
         /\ ~Loop => batch' = batch
<1>1. batch \in Seq(EventType)
  BY TypesSplit DEF LoopInv
<1>2. batch # <<>> => Tail(batch) # batch
  BY <1>1
<1>3. CASE Wait
  <2>1. IsFiniteSet(ReadyFds) /\ ReadyFds # {}
    <3>1. ReadyFds \subseteq Fds \cup {Listener}
      BY DEF ReadyFds
    <3> QED
      BY <1>3, <3>1, FiniteFds, FS_AddElement, FS_Subset DEF Wait
  <2>2. Cardinality(ReadyFds) \in Nat \ {0}
    BY <2>1, FS_CardinalityType, FS_EmptySet
  <2>3. 1 \in 1..Smaller(MaxMachines, Cardinality(ReadyFds))
    BY <2>2, PoolAssumption DEF Smaller
  <2>4. 1 \in DOMAIN batch'
    BY <1>3, <2>3 DEF Wait
  <2> QED
    BY <1>3, <2>4 DEF Wait, Running, Loop
<1>4. CASE Loop /\ ~Wait
  <2>1. alive /\ batch # <<>> /\ (batch' = Tail(batch) \/ batch' = <<>>)
    <3>1. CASE Accept \/ (\E f \in Fds : HangUp(f)) \/ (\E m \in Machines : TimerEvent(m))
      BY <3>1 DEF Accept, HangUp, TimerEvent, Handles
    <3>2. ASSUME NEW f, ClientEvent(f)
          PROVE  alive /\ batch # <<>> /\ batch' = Tail(batch)
      BY <3>2 DEF ClientEvent, Handles
    <3>3. ASSUME NEW f, NEW m,
                 \/ NoMachine(f) \/ NeedReadMoreData(m, f) \/ BeginUpload(m, f) \/ BeginImage(m, f)
                 \/ BeginBatch(m, f) \/ NoDirectory(m, f) \/ NeedWriteMoreData(m, f) \/ Finish(m, f)
          PROVE  ClientEvent(f)
      BY <3>3 DEF NoMachine, NeedReadMoreData, BeginUpload, BeginImage, BeginBatch, BeginResponse, Reads,
         NoDirectory, NeedWriteMoreData, Finish, Serve
    <3> QED
      BY <1>4, <3>1, <3>2, <3>3 DEF Loop
  <2> QED
    BY <1>2, <1>4, <2>1 DEF Running
<1>5. CASE ~Loop
  BY <1>5 DEF Next, Expire, Connect, Send, HalfClose, Abort, Drain
<1> QED
  BY <1>3, <1>4, <1>5

=============================================================================
