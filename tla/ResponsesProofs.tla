--------------------------- MODULE ResponsesProofs ---------------------------
(***************************************************************************)
(* Proofs about the responses, for headers, records, files, batches and    *)
(* buffers of any size.                                                    *)
(***************************************************************************)
EXTENDS Responses, TLAPS

Parts == {"header", "meta", "data", "bad_request", "timeout"}
ByteSet == [part : Parts, file : Nat, byte : Nat]
Statuses == {"running", "blocked", "finished", "failed", "timed_out", "dropped"}

-----------------------------------------------------------------------------
(***************************************************************************)
(* Bytes and the wire.                                                     *)
(***************************************************************************)
\* The bytes of a part, one by one and as a set.
LEMMA BytesFacts ==
  ASSUME NEW part \in Parts, NEW file \in Nat, NEW from \in Nat, NEW to \in Nat, from <= to
  PROVE  /\ Bytes(part, file, from, to) \in Seq(ByteSet)
         /\ Len(Bytes(part, file, from, to)) = to - from
         /\ \A k \in 1..(to - from) :
              Bytes(part, file, from, to)[k] = [part |-> part, file |-> file, byte |-> from + k]
<1>1. \A k \in 1..(to - from) : [part |-> part, file |-> file, byte |-> from + k] \in ByteSet
  BY DEF ByteSet
<1>2. to - from \in Nat
  OBVIOUS
<1> QED
  BY <1>1, <1>2 DEF Bytes

\* Membership in the bytes of a part.
LEMMA BytesSet ==
  ASSUME NEW part \in Parts, NEW file \in Nat, NEW from \in Nat, NEW to \in Nat, from <= to
  PROVE  \A b : b \in ToSet(Bytes(part, file, from, to)) <=>
                  /\ b \in ByteSet /\ b.part = part /\ b.file = file
                  /\ from < b.byte /\ b.byte <= to
<1> DEFINE s == Bytes(part, file, from, to)
<1>1. /\ Len(s) = to - from /\ s \in Seq(ByteSet)
      /\ \A k \in 1..(to - from) : s[k] = [part |-> part, file |-> file, byte |-> from + k]
  BY BytesFacts
<1> HIDE DEF s
<1>2. DOMAIN s = 1..(to - from)
  BY <1>1
<1>3. \A b : b \in ToSet(s) <=> \E k \in 1..(to - from) : b = s[k]
  BY <1>2 DEF ToSet
<1>4. ASSUME NEW b \in ByteSet, b.part = part, b.file = file, from < b.byte, b.byte <= to
      PROVE  b \in ToSet(s)
  <2>1. b.byte \in Nat /\ b = [part |-> part, file |-> file, byte |-> b.byte]
    BY <1>4 DEF ByteSet
  <2>2. b.byte - from \in 1..(to - from) /\ from + (b.byte - from) = b.byte
    BY <1>4, <2>1
  <2>3. s[b.byte - from] = b
    BY <1>1, <2>1, <2>2
  <2> QED
    BY <1>3, <2>2, <2>3
<1>5. ASSUME NEW b, b \in ToSet(s)
      PROVE  /\ b \in ByteSet /\ b.part = part /\ b.file = file
             /\ from < b.byte /\ b.byte <= to
  <2>1. PICK k \in 1..(to - from) : b = s[k]
    BY <1>3, <1>5
  <2>2. b = [part |-> part, file |-> file, byte |-> from + k]
    BY <1>1, <2>1
  <2> QED
    BY <2>2 DEF ByteSet
<1> QED
  BY <1>4, <1>5 DEF s

\* One list behind another.
LEMMA ConcatFacts ==
  ASSUME NEW S, NEW s \in Seq(S), NEW r \in Seq(S)
  PROVE  /\ Len(s) \in Nat /\ Len(r) \in Nat /\ Len(s \o r) = Len(s) + Len(r)
         /\ DOMAIN s = 1..Len(s) /\ DOMAIN r = 1..Len(r) /\ DOMAIN (s \o r) = 1..(Len(s) + Len(r))
         /\ \A k \in 1..Len(s) : (s \o r)[k] = s[k]
         /\ \A k \in (Len(s) + 1)..(Len(s) + Len(r)) : (s \o r)[k] = r[k - Len(s)]
OBVIOUS

\* The elements of two lists together.
LEMMA ToSetConcat ==
  ASSUME NEW S, NEW s \in Seq(S), NEW r \in Seq(S)
  PROVE  ToSet(s \o r) = ToSet(s) \cup ToSet(r)
<1>1. /\ Len(s) \in Nat /\ Len(r) \in Nat /\ Len(s \o r) = Len(s) + Len(r)
      /\ DOMAIN s = 1..Len(s) /\ DOMAIN r = 1..Len(r) /\ DOMAIN (s \o r) = 1..(Len(s) + Len(r))
      /\ \A k \in 1..Len(s) : (s \o r)[k] = s[k]
      /\ \A k \in (Len(s) + 1)..(Len(s) + Len(r)) : (s \o r)[k] = r[k - Len(s)]
  BY ConcatFacts
<1>2. \A k \in 1..Len(r) : /\ Len(s) + k \in (Len(s) + 1)..(Len(s) + Len(r))
                           /\ (s \o r)[Len(s) + k] = r[k]
  BY <1>1
<1>3. ToSet(s \o r) \subseteq ToSet(s) \cup ToSet(r)
  <2>1. SUFFICES ASSUME NEW k \in 1..(Len(s) + Len(r))
                 PROVE  (s \o r)[k] \in ToSet(s) \cup ToSet(r)
    BY <1>1 DEF ToSet
  <2>2. CASE k <= Len(s)
    BY <1>1, <2>1, <2>2 DEF ToSet
  <2>3. CASE k > Len(s)
    <3>1. k - Len(s) \in 1..Len(r) /\ k \in (Len(s) + 1)..(Len(s) + Len(r))
      BY <1>1, <2>1, <2>3
    <3> QED
      BY <1>1, <3>1 DEF ToSet
  <2> QED
    BY <1>1, <2>2, <2>3
<1>4. ToSet(s) \cup ToSet(r) \subseteq ToSet(s \o r)
  <2>1. \A k \in 1..Len(s) : s[k] \in ToSet(s \o r)
    BY <1>1 DEF ToSet
  <2>2. \A k \in 1..Len(r) : r[k] \in ToSet(s \o r)
    <3>1. \A k \in 1..Len(r) : Len(s) + k \in DOMAIN (s \o r) /\ (s \o r)[Len(s) + k] = r[k]
      BY <1>1, <1>2
    <3> QED
      BY <3>1 DEF ToSet
  <2> QED
    BY <1>1, <2>1, <2>2 DEF ToSet
<1> QED
  BY <1>3, <1>4

\* What is on the wire are bytes.
LEMMA WireElements ==
  ASSUME NEW s \in Seq(ByteSet)
  PROVE  ToSet(s) \subseteq ByteSet
BY DEF ToSet

\* A write of from..to of a part: what it leaves of the wire and of the buffer.
LEMMA PutBytes ==
  ASSUME wire \in Seq(ByteSet), room \in 0..Capacity,
         NEW part \in Parts, NEW file \in Nat, NEW from \in Nat, NEW to \in Nat,
         from <= to, to - from <= room, Put(Bytes(part, file, from, to))
  PROVE  /\ wire' \in Seq(ByteSet) /\ room' \in 0..Capacity /\ peer = "there" /\ peer' = peer
         /\ room' = room - (to - from) /\ from < to
         /\ wire' = wire \o Bytes(part, file, from, to)
         /\ ToSet(wire') = ToSet(wire) \cup ToSet(Bytes(part, file, from, to))
<1>1. Bytes(part, file, from, to) \in Seq(ByteSet) /\ Len(Bytes(part, file, from, to)) = to - from
  BY BytesFacts
<1>2. /\ wire' = wire \o Bytes(part, file, from, to) /\ room' = room - (to - from)
      /\ peer = "there" /\ peer' = peer /\ to - from > 0
  BY <1>1 DEF Put
<1>3. ToSet(wire') = ToSet(wire) \cup ToSet(Bytes(part, file, from, to))
  BY <1>1, <1>2, ToSetConcat
<1>4. Capacity \in Nat
  BY SocketAssumption
<1> QED
  BY <1>1, <1>2, <1>3, <1>4

\* Bytes that all come after what is on the wire keep it in order.
LEMMA OrderedPut ==
  ASSUME wire \in Seq(ByteSet), OnlyMissing,
         NEW part \in Parts, NEW file \in Nat, NEW from \in Nat, NEW to \in Nat, from < to,
         wire' = wire \o Bytes(part, file, from, to),
         \A b \in ToSet(wire) : Before(b, [part |-> part, file |-> file, byte |-> from + 1])
  PROVE  OnlyMissing'
<1> DEFINE s == Bytes(part, file, from, to)
<1>0. from <= to /\ to - from \in Nat /\ to - from >= 1
  OBVIOUS
<1>1. /\ s \in Seq(ByteSet) /\ Len(s) = to - from
      /\ \A k \in 1..(to - from) : s[k] = [part |-> part, file |-> file, byte |-> from + k]
  BY <1>0, BytesFacts
<1>2. wire' = wire \o s
  OBVIOUS
<1> HIDE DEF s
<1>3. /\ Len(wire) \in Nat /\ Len(wire') = Len(wire) + (to - from)
      /\ \A k \in 1..Len(wire) : wire'[k] = wire[k] /\ wire[k] \in ToSet(wire)
      /\ \A k \in (Len(wire) + 1)..(Len(wire) + (to - from)) : wire'[k] = s[k - Len(wire)]
  <2>1. \A k \in 1..Len(wire) : wire[k] \in ToSet(wire)
    BY DEF ToSet
  <2> QED
    <3>1. \A k \in 1..Len(wire) : (wire \o s)[k] = wire[k]
      BY <1>1, ConcatFacts
    <3>2. \A k \in (Len(wire) + 1)..(Len(wire) + Len(s)) : (wire \o s)[k] = s[k - Len(wire)]
      BY <1>1, ConcatFacts
    <3>3. Len(wire) \in Nat /\ Len(wire \o s) = Len(wire) + Len(s)
      BY <1>1, ConcatFacts
    <3> QED
      BY <1>1, <1>2, <2>1, <3>1, <3>2, <3>3
<1>4. SUFFICES ASSUME NEW k \in 1..(Len(wire') - 1)
               PROVE  Before(wire'[k], wire'[k + 1])
  BY DEF OnlyMissing, Before
<1>5. CASE k < Len(wire)
  <2>1. k \in 1..(Len(wire) - 1) /\ k \in 1..Len(wire) /\ k + 1 \in 1..Len(wire)
    BY <1>3, <1>5
  <2> QED
    BY <1>3, <2>1 DEF OnlyMissing
<1>6. CASE k = Len(wire)
  <2>1. k \in 1..Len(wire) /\ k + 1 \in (Len(wire) + 1)..(Len(wire) + (to - from)) /\ k + 1 - Len(wire) = 1
    BY <1>0, <1>3, <1>6
  <2>2. wire'[k + 1] = s[1] /\ 1 \in 1..(to - from)
    BY <1>0, <1>3, <2>1
  <2>3. wire'[k + 1] = [part |-> part, file |-> file, byte |-> from + 1]
    BY <1>1, <2>2
  <2> QED
    BY <1>3, <2>1, <2>3
<1>7. CASE k > Len(wire)
  <2>1. /\ k \in (Len(wire) + 1)..(Len(wire) + (to - from)) /\ k - Len(wire) \in 1..(to - from)
        /\ k + 1 \in (Len(wire) + 1)..(Len(wire) + (to - from)) /\ (k + 1) - Len(wire) \in 1..(to - from)
    BY <1>3, <1>7
  <2>2. /\ wire'[k] = [part |-> part, file |-> file, byte |-> from + (k - Len(wire))]
        /\ wire'[k + 1] = [part |-> part, file |-> file, byte |-> from + ((k + 1) - Len(wire))]
    BY <1>1, <1>3, <2>1
  <2>3. from + (k - Len(wire)) < from + ((k + 1) - Len(wire))
    BY <1>3
  <2> QED
    BY <2>2, <2>3 DEF Before
<1>8. k < Len(wire) \/ k = Len(wire) \/ k > Len(wire)
  <2>1. k \in Int /\ Len(wire) \in Int
    BY <1>3, <1>4
  <2> QED
    BY <2>1
<1> QED
  BY <1>5, <1>6, <1>7, <1>8

-----------------------------------------------------------------------------
(***************************************************************************)
(* The invariant.  Behind says which bytes of a batch lie behind the place *)
(* where the call goes on; of a picture, Carried are the bytes that were   *)
(* sent.                                                                   *)
(***************************************************************************)
Common ==
  /\ endpoint \in {"cursor", "image"}
  /\ sizes \in Seq(0..MaxSize) /\ length \in [1..Lim -> 0..MaxSize]
  /\ rewritten \subseteq 1..Lim
  /\ room \in 0..Capacity /\ peer \in {"there", "gone"} /\ status \in Statuses
  /\ wire \in Seq(ByteSet)

\* Only a rewritten file has another length than when it was opened.
Files == \A i \in 1..Lim : i \notin rewritten => length[i] = sizes[i]

MetaSoFar == IF idx_metadata_written = Image THEN MetaLen ELSE metadata_off

\* The offsets of a batch fit together, and the headers go out in one write.
BatchPlace ==
  /\ ~headers_written => /\ wire = <<>> /\ room = Capacity /\ sent = 0
                         /\ status \in {"running", "failed"}
                         /\ idx_img_written = 0 /\ idx_metadata_written = 0 /\ metadata_off = 0
  /\ idx_metadata_written \in {idx_img_written, Image}
  /\ idx_metadata_written = idx_img_written => img_off = 0
  /\ idx_metadata_written = Image => metadata_off = 0
  /\ status = "finished" => headers_written /\ Image > Lim

Behind(b) ==
  /\ headers_written
  /\ \/ b.file < Image
     \/ b.file = Image /\ b.part = "meta" /\ b.byte <= MetaSoFar
     \/ b.file = Image /\ b.part = "data" /\ idx_metadata_written = Image /\ b.byte <= img_off

\* The wire carries what is behind, and all of it but for rewritten data.
BatchWire ==
  /\ \A b \in Answered : b \in Batch /\ Behind(b)
  /\ \A b \in Steady(Batch) : Behind(b) => b \in Answered

BatchInv == endpoint = "cursor" => BatchPlace /\ BatchWire

\* Where the call for a picture is, and what is known there.
ImagePlace ==
  /\ Lim = 1 /\ sent = 0
  /\ step \in {"open", "headers"} /\ ~refused => wire = <<>> /\ room = Capacity /\ status = "running"
  /\ refused => step = "open" /\ status = "finished"
  /\ step = "first" => status = "running" /\ (peer = "there" => room > 0)
  /\ step = "rest" /\ offset < 0 => fd = "none" \/ peer = "gone"
  /\ step = "rest" /\ offset >= 0 => fd = "open" /\ offset <= sizes[1]
  /\ status = "finished" => refused \/ (step = "rest" /\ offset = sizes[1])

\* The bytes of the picture, or of its refusal, that the calls sent.
Carried(b) ==
  \/ refused /\ b.part = "bad_request" /\ b.file = 0 /\ 0 < b.byte /\ b.byte <= CannedLen
  \/ step \in {"first", "rest"} /\ b.part = "header" /\ b.file = 0 /\ 0 < b.byte /\ b.byte <= HeaderLen
  \/ step = "rest" /\ b.part = "data" /\ b.file = 1 /\ 0 < b.byte /\ b.byte <= offset

\* The wire carries them; nothing, if the peer left before the headers.
ImageWire ==
  \/ \A b \in ByteSet : b \in Answered <=> Carried(b)
  \/ Answered = {} /\ peer = "gone" /\ (step = "rest" => offset < 0)

ImageInv == endpoint = "image" => ImagePlace /\ ImageWire

\* A 408 is the beginning of its canned bytes, and the last thing sent.
TimedInv ==
  /\ BeginningOf(Timed, ToSet(Canned("timeout")))
  /\ Timed # {} => status = "timed_out"

TypeInv == Common /\ Files /\ BatchTypes /\ ImageTypes
WireInv == BatchInv /\ ImageInv /\ TimedInv /\ OnlyMissing
Inv == TypeInv /\ WireInv

\* The type invariant says what TypeOK does, and a little more.
LEMMA TypeInvOK == TypeInv => TypeOK
BY DEF TypeInv, Common, TypeOK, Ended, Statuses

\* The numbers among the constants.
LEMMA Sizes ==
  /\ HeaderLen \in Nat /\ HeaderLen > 0 /\ CannedLen \in Nat /\ CannedLen > 0
  /\ Capacity \in Nat /\ Capacity > HeaderLen /\ Capacity >= CannedLen
  /\ MetaLen \in Nat /\ MetaLen > 0 /\ MaxSize \in Nat
BY SocketAssumption, FilesAssumption, MetaAssumption

\* The number of files.
LEMMA LimNat ==
  ASSUME Common
  PROVE  Lim \in Nat /\ DOMAIN sizes = 1..Lim /\ \A i \in 1..Lim : sizes[i] \in 0..MaxSize
<1>1. sizes \in Seq(0..MaxSize)
  BY DEF Common
<1>2. \A S, s : s \in Seq(S) => Len(s) \in Nat /\ DOMAIN s = 1..Len(s) /\ \A i \in 1..Len(s) : s[i] \in S
  OBVIOUS
<1>3. Len(sizes) \in Nat /\ DOMAIN sizes = 1..Len(sizes) /\ \A i \in 1..Len(sizes) : sizes[i] \in 0..MaxSize
  BY <1>1, <1>2
<1> QED
  BY <1>3 DEF Lim

\* What is on the wire before the timer has written.
LEMMA AllAnswered ==
  ASSUME Common, TimedInv, status # "timed_out"
  PROVE  ToSet(wire) = Answered
BY DEF TimedInv, Timed, Answered

\* The bytes a batch announces, one by one.
LEMMA InBatch ==
  ASSUME Common
  PROVE  \A b : b \in Batch <=>
           /\ b \in ByteSet
           /\ \/ b.part = "header" /\ b.file = 0 /\ 0 < b.byte /\ b.byte <= HeaderLen
              \/ b.part = "meta" /\ b.file \in 1..Lim /\ 0 < b.byte /\ b.byte <= MetaLen
              \/ b.part = "data" /\ b.file \in 1..Lim /\ 0 < b.byte /\ b.byte <= sizes[b.file]
<1>1. \A b : b \in ToSet(Bytes("header", 0, 0, HeaderLen)) <=>
        b \in ByteSet /\ b.part = "header" /\ b.file = 0 /\ 0 < b.byte /\ b.byte <= HeaderLen
  <2>1. "header" \in Parts /\ 0 \in Nat /\ HeaderLen \in Nat /\ 0 <= HeaderLen
    BY Sizes DEF Parts
  <2> QED
    BY <2>1, BytesSet
<1>2. \A i \in 1..Lim : \A b : b \in ToSet(Bytes("meta", i, 0, MetaLen)) <=>
        b \in ByteSet /\ b.part = "meta" /\ b.file = i /\ 0 < b.byte /\ b.byte <= MetaLen
  <2> SUFFICES ASSUME NEW i \in 1..Lim
               PROVE  \A b : b \in ToSet(Bytes("meta", i, 0, MetaLen)) <=>
                        b \in ByteSet /\ b.part = "meta" /\ b.file = i /\ 0 < b.byte /\ b.byte <= MetaLen
    OBVIOUS
  <2>1. "meta" \in Parts /\ 0 \in Nat /\ MetaLen \in Nat /\ 0 <= MetaLen /\ i \in Nat
    BY Sizes, LimNat DEF Parts
  <2> QED
    BY <2>1, BytesSet
<1>3. \A i \in 1..Lim : \A b : b \in ToSet(Bytes("data", i, 0, sizes[i])) <=>
        b \in ByteSet /\ b.part = "data" /\ b.file = i /\ 0 < b.byte /\ b.byte <= sizes[i]
  <2> SUFFICES ASSUME NEW i \in 1..Lim
               PROVE  \A b : b \in ToSet(Bytes("data", i, 0, sizes[i])) <=>
                        b \in ByteSet /\ b.part = "data" /\ b.file = i /\ 0 < b.byte /\ b.byte <= sizes[i]
    OBVIOUS
  <2>1. "data" \in Parts /\ 0 \in Nat /\ sizes[i] \in Nat /\ 0 <= sizes[i] /\ i \in Nat
    BY Sizes, LimNat DEF Parts
  <2> QED
    BY <2>1, BytesSet
<1>4. \A b : b \in Frames <=> \E i \in 1..Lim : \/ b \in ToSet(Bytes("meta", i, 0, MetaLen))
                                                \/ b \in ToSet(Bytes("data", i, 0, sizes[i]))
  BY DEF Frames
<1>5. \A b : b \in Frames <=>
        /\ b \in ByteSet /\ b.file \in 1..Lim /\ 0 < b.byte
        /\ (b.part = "meta" /\ b.byte <= MetaLen) \/ (b.part = "data" /\ b.byte <= sizes[b.file])
  BY <1>2, <1>3, <1>4
<1> QED
  BY <1>1, <1>5 DEF Batch

-----------------------------------------------------------------------------
(***************************************************************************)
(* The steps of a batch.                                                   *)
(***************************************************************************)
\* What the files announce changes only with their sizes.
LEMMA SameBatch == ASSUME sizes' = sizes PROVE Batch' = Batch /\ Lim' = Lim
BY DEF Batch, Frames, Lim

\* A write of a batch that begins where what is behind ends.
LEMMA BatchPut ==
  ASSUME Inv, endpoint = "cursor", status = "running", UNCHANGED <<files, status, endpoint>>,
         NEW part \in {"header", "meta", "data"}, NEW file \in Nat, NEW from \in Nat, NEW to \in Nat,
         from <= to, to - from <= room, Put(Bytes(part, file, from, to)),
         \A b \in Batch : Behind(b) => Before(b, [part |-> part, file |-> file, byte |-> from + 1]),
         \A b \in ByteSet : b.part = part /\ b.file = file /\ from < b.byte /\ b.byte <= to => b \in Batch,
         \A b \in Batch : Behind(b)' <=> \/ Behind(b)
                                         \/ b.part = part /\ b.file = file /\ from < b.byte /\ b.byte <= to
  PROVE  Common' /\ Files' /\ BatchWire' /\ TimedInv' /\ OnlyMissing'
<1> DEFINE new == ToSet(Bytes(part, file, from, to))
<1>0. /\ Common /\ Files /\ BatchWire /\ TimedInv /\ OnlyMissing
      /\ wire \in Seq(ByteSet) /\ room \in 0..Capacity /\ part \in Parts /\ part # "timeout"
  BY DEF Inv, TypeInv, WireInv, BatchInv, Common, Parts
<1>1. /\ wire' \in Seq(ByteSet) /\ room' \in 0..Capacity /\ peer' = peer /\ from < to
      /\ wire' = wire \o Bytes(part, file, from, to)
      /\ ToSet(wire') = ToSet(wire) \cup new
  BY <1>0, PutBytes
<1>2. \A b : b \in new <=>
        /\ b \in ByteSet /\ b.part = part /\ b.file = file
        /\ from < b.byte /\ b.byte <= to
  BY <1>0, BytesSet
<1> HIDE DEF new
<1>3. UNCHANGED <<sizes, length, rewritten>> /\ Batch' = Batch /\ Lim' = Lim
  BY SameBatch DEF files
<1>4. Common' /\ Files'
  BY <1>0, <1>1, <1>3 DEF Common, Files
<1>5. ToSet(wire) = Answered
  BY <1>0, AllAnswered
<1>6. Answered' = Answered \cup new /\ Timed' = Timed
  BY <1>0, <1>1, <1>2 DEF Answered, Timed
<1>7. BatchWire'
  <2>1. \A b \in Answered' : b \in Batch /\ Behind(b)'
    BY <1>0, <1>2, <1>6 DEF BatchWire
  <2>2. Steady(Batch)' = Steady(Batch)
    BY <1>3 DEF Steady
  <2>3. \A b \in Steady(Batch) : b \in Batch /\ b \in ByteSet
    BY <1>0, InBatch DEF Steady
  <2>4. \A b \in Steady(Batch) : Behind(b)' => b \in Answered'
    BY <1>0, <1>2, <1>6, <2>3 DEF BatchWire
  <2> QED
    BY <1>3, <2>1, <2>2, <2>4 DEF BatchWire
<1>8. TimedInv'
  <2>1. BeginningOf(Timed, ToSet(Canned("timeout")))'
    BY <1>0, <1>6 DEF TimedInv, BeginningOf, Before
  <2> QED
    BY <1>0, <1>6, <2>1 DEF TimedInv
<1>9. OnlyMissing'
  BY <1>0, <1>1, <1>5, OrderedPut DEF BatchWire
<1> QED
  BY <1>4, <1>7, <1>8, <1>9

\* The headers go out in one write, since they are the first thing in the buffer.
LEMMA WriteHeadersStep ==
  ASSUME Inv, endpoint = "cursor", WriteHeaders, UNCHANGED <<image_ctx, endpoint>>
  PROVE  Inv'
<1>0. Common /\ Files /\ BatchPlace /\ BatchTypes /\ ImageTypes /\ BatchWire
  BY DEF Inv, TypeInv, WireInv, BatchInv
<1>1. /\ wire = <<>> /\ room = Capacity /\ sent = 0 /\ status = "running" /\ ~headers_written
      /\ idx_img_written = 0 /\ idx_metadata_written = 0 /\ metadata_off = 0 /\ img_off = 0
  BY <1>0 DEF BatchPlace, WriteHeaders, AtHeaders, Running
<1>2. Smaller(room, HeaderLen - sent) = HeaderLen
  BY <1>1, Sizes DEF Smaller
<1>3. /\ Put(Bytes("header", 0, 0, HeaderLen))
      /\ sent' = HeaderLen /\ headers_written' = TRUE
      /\ UNCHANGED <<files, status, endpoint, idx_metadata_written, metadata_off, idx_img_written, img_off>>
  <2>1. /\ Put(Bytes("header", 0, sent, sent + HeaderLen))
        /\ sent' = sent + HeaderLen /\ headers_written' = (sent + HeaderLen = HeaderLen)
        /\ UNCHANGED <<files, status, idx_metadata_written, metadata_off, idx_img_written, img_off>>
    BY <1>2 DEF WriteHeaders
  <2>2. sent + HeaderLen = HeaderLen
    BY <1>1, Sizes
  <2> QED
    BY <1>1, <2>1, <2>2
<1>4. Lim \in Nat /\ Lim' = Lim
  BY <1>0, <1>3, LimNat, SameBatch DEF files
<1>5. Common' /\ Files' /\ BatchWire' /\ TimedInv' /\ OnlyMissing'
  <2>1. \A b \in Batch : ~Behind(b)
    BY <1>1 DEF Behind
  <2>2. \A b \in ByteSet : b.part = "header" /\ b.file = 0 /\ 0 < b.byte /\ b.byte <= HeaderLen => b \in Batch
    BY <1>0, InBatch
  <2>3. \A b \in Batch : Behind(b)' <=> b.part = "header" /\ b.file = 0 /\ 0 < b.byte /\ b.byte <= HeaderLen
    <3>1. /\ headers_written' = TRUE /\ Image' = 1 /\ MetaSoFar' = 0 /\ idx_metadata_written' = 0
      BY <1>1, <1>3 DEF Image, MetaSoFar
    <3>2. \A b \in Batch : b.file \in Nat /\ b.byte \in Nat /\ (b.file < 1 <=> b.part = "header")
      BY <1>0, <1>4, InBatch DEF ByteSet
    <3>3. \A b \in Batch : b.part = "meta" => b.byte > 0
      BY <1>0, InBatch
    <3>4. \A b \in Batch : Behind(b)' <=> b.part = "header"
      BY <3>1, <3>2, <3>3 DEF Behind
    <3> QED
      BY <1>0, <3>4, InBatch
  <2>4. /\ 0 \in Nat /\ HeaderLen \in Nat /\ 0 <= HeaderLen /\ HeaderLen - 0 <= room
        /\ "header" \in {"header", "meta", "data"}
    BY <1>1, Sizes
  <2> QED
    BY <1>1, <1>3, <2>1, <2>2, <2>3, <2>4, BatchPut
<1>6. BatchTypes' /\ ImageTypes'
  BY <1>0, <1>1, <1>3, <1>4, Sizes DEF BatchTypes, ImageTypes, Running, image_ctx
<1>7. BatchPlace'
  BY <1>1, <1>3 DEF BatchPlace, Image
<1> QED
  BY <1>3, <1>5, <1>6, <1>7 DEF Inv, TypeInv, WireInv, BatchInv, ImageInv

\* A record of metadata is written from where it stopped.
LEMMA WriteMetadataStep ==
  ASSUME Inv, endpoint = "cursor", WriteMetadata, UNCHANGED <<image_ctx, endpoint>>
  PROVE  Inv'
<1> DEFINE n == Smaller(room, MetaLen - metadata_off)
<1>0. Common /\ Files /\ BatchPlace /\ BatchTypes /\ ImageTypes /\ BatchWire
  BY DEF Inv, TypeInv, WireInv, BatchInv
<1>1. Lim \in Nat /\ room \in Nat /\ metadata_off \in Nat /\ metadata_off < MetaLen /\ idx_img_written \in Nat
  BY <1>0, Sizes, LimNat DEF Common, BatchTypes
<1>2. /\ status = "running" /\ headers_written /\ Image <= Lim
      /\ idx_metadata_written = idx_img_written /\ img_off = 0 /\ Image \in 1..Lim
  BY <1>0, <1>1 DEF WriteMetadata, AtMetadata, Running, BatchPlace, Image
<1>3. n \in Nat /\ n <= room /\ metadata_off + n <= MetaLen
  BY <1>1, Sizes DEF Smaller
<1>4. /\ Put(Bytes("meta", Image, metadata_off, metadata_off + n))
      /\ idx_metadata_written' = idx_metadata_written + (IF metadata_off + n = MetaLen THEN 1 ELSE 0)
      /\ metadata_off' = IF metadata_off + n = MetaLen THEN 0 ELSE metadata_off + n
      /\ UNCHANGED <<files, status, endpoint, headers_written, idx_img_written, img_off, sent>>
  BY DEF WriteMetadata
<1> HIDE DEF n
<1>5. Lim' = Lim /\ Image' = Image
  BY <1>4, SameBatch DEF files, Image
<1>6. MetaSoFar = metadata_off /\ MetaSoFar' = metadata_off + n
  BY <1>1, <1>2, <1>3, <1>4, <1>5, Sizes DEF MetaSoFar, Image
<1>7. Common' /\ Files' /\ BatchWire' /\ TimedInv' /\ OnlyMissing'
  <2>1. \A b \in Batch : Behind(b) =>
          Before(b, [part |-> "meta", file |-> Image, byte |-> metadata_off + 1])
    <3>1. \A b \in Batch : b.file \in Nat /\ b.byte \in Nat /\ b.part # "timeout"
      BY <1>0, InBatch DEF ByteSet
    <3>2. idx_metadata_written # Image
      BY <1>1, <1>2 DEF Image
    <3> QED
      BY <1>1, <1>6, <3>1, <3>2 DEF Behind, Before
  <2>2. \A b \in ByteSet : b.part = "meta" /\ b.file = Image /\ metadata_off < b.byte /\ b.byte <= metadata_off + n
                             => b \in Batch
    <3> SUFFICES ASSUME NEW b \in ByteSet, b.part = "meta", b.file = Image,
                        metadata_off < b.byte, b.byte <= metadata_off + n
                 PROVE  b \in Batch
      OBVIOUS
    <3>1. b.byte \in Nat
      BY DEF ByteSet
    <3>2. b.file \in 1..Lim /\ 0 < b.byte /\ b.byte <= MetaLen
      BY <1>1, <1>2, <1>3, <3>1, Sizes
    <3> QED
      BY <1>0, <3>2, InBatch
  <2>3. \A b \in Batch : Behind(b)' <=>
          \/ Behind(b)
          \/ b.part = "meta" /\ b.file = Image /\ metadata_off < b.byte /\ b.byte <= metadata_off + n
    <3> SUFFICES ASSUME NEW b \in Batch
                 PROVE  Behind(b)' <=>
                          \/ Behind(b)
                          \/ b.part = "meta" /\ b.file = Image /\ metadata_off < b.byte /\ b.byte <= metadata_off + n
      OBVIOUS
    <3>1. b.file \in Nat /\ b.byte \in Nat /\ b.byte > 0
      BY <1>0, InBatch DEF ByteSet
    <3>2. Behind(b)' <=> \/ b.file < Image
                         \/ b.file = Image /\ b.part = "meta" /\ b.byte <= metadata_off + n
      <4>1. headers_written' /\ img_off' = 0
        BY <1>2, <1>4
      <4> QED
        BY <1>5, <1>6, <3>1, <4>1 DEF Behind
    <3>3. Behind(b) <=> \/ b.file < Image
                        \/ b.file = Image /\ b.part = "meta" /\ b.byte <= metadata_off
      BY <1>2, <1>6, <3>1 DEF Behind
    <3> QED
      BY <1>1, <1>3, <3>1, <3>2, <3>3
  <2>4. /\ Image \in Nat /\ metadata_off + n \in Nat /\ metadata_off <= metadata_off + n
        /\ (metadata_off + n) - metadata_off <= room
        /\ "meta" \in {"header", "meta", "data"}
    BY <1>1, <1>2, <1>3
  <2> QED
    BY <1>1, <1>2, <1>4, <2>1, <2>2, <2>3, <2>4, BatchPut
<1>8. idx_metadata_written' \in {idx_img_written, Image} /\ metadata_off' \in 0..(MetaLen - 1)
  BY <1>1, <1>2, <1>3, <1>4, Sizes DEF Image
<1>9. BatchTypes' /\ ImageTypes'
  <2>1. idx_metadata_written' \in 0..Lim
    BY <1>1, <1>2, <1>8 DEF Image
  <2> QED
    BY <1>0, <1>4, <1>5, <1>8, <2>1 DEF BatchTypes, ImageTypes, Running, image_ctx
<1>10. BatchPlace'
  <2>1. idx_metadata_written' = Image => metadata_off' = 0
    BY <1>1, <1>2, <1>4 DEF Image
  <2>2. idx_metadata_written' = idx_img_written => img_off' = 0
    BY <1>2, <1>4
  <2> QED
    BY <1>0, <1>2, <1>4, <1>5, <1>8, <2>1, <2>2 DEF BatchPlace
<1> QED
  BY <1>4, <1>7, <1>9, <1>10 DEF Inv, TypeInv, WireInv, BatchInv, ImageInv

\* The data of a thumbnail is sent from where it stopped.
LEMMA SendImageStep ==
  ASSUME Inv, endpoint = "cursor", SendImage, UNCHANGED <<image_ctx, endpoint>>
  PROVE  Inv'
<1> DEFINE n == Smaller(room, Smaller(sizes[Image], length[Image]) - img_off)
<1>0. Common /\ Files /\ BatchPlace /\ BatchTypes /\ ImageTypes /\ BatchWire
  BY DEF Inv, TypeInv, WireInv, BatchInv
<1>1. Lim \in Nat /\ room \in Nat /\ img_off \in Nat /\ idx_img_written \in Nat
  BY <1>0, Sizes, LimNat DEF Common, BatchTypes
<1>2. /\ status = "running" /\ headers_written /\ Image <= Lim /\ idx_metadata_written = Image
      /\ metadata_off = 0 /\ Image \in 1..Lim /\ img_off < sizes[Image] /\ img_off < length[Image]
      /\ sizes[Image] \in 0..MaxSize /\ length[Image] \in 0..MaxSize
  <2>1. /\ status = "running" /\ headers_written /\ Image <= Lim /\ idx_metadata_written = Image
        /\ img_off < sizes[Image] /\ ~(img_off >= length[Image])
    BY DEF SendImage, AtEndOfFile, AtData, Running
  <2>2. Image \in 1..Lim /\ metadata_off = 0
    BY <1>0, <1>1, <2>1 DEF Image, BatchPlace
  <2>3. sizes[Image] \in 0..MaxSize /\ length[Image] \in 0..MaxSize
    BY <1>0, <2>2, LimNat DEF Common
  <2> QED
    BY <1>1, <2>1, <2>2, <2>3, Sizes
<1>3. n \in Nat /\ n <= room /\ img_off + n <= sizes[Image] /\ img_off + n <= MaxSize
  BY <1>1, <1>2, Sizes DEF Smaller
<1>4. /\ Put(Bytes("data", Image, img_off, img_off + n))
      /\ img_off' = img_off + n
      /\ UNCHANGED <<files, status, endpoint, headers_written, idx_metadata_written, metadata_off,
                     idx_img_written, sent>>
  BY DEF SendImage
<1> HIDE DEF n
<1>5. Lim' = Lim /\ Image' = Image /\ MetaSoFar = MetaLen /\ MetaSoFar' = MetaLen
  BY <1>2, <1>4, SameBatch DEF files, Image, MetaSoFar
<1>6. Common' /\ Files' /\ BatchWire' /\ TimedInv' /\ OnlyMissing'
  <2>1. \A b \in Batch : Behind(b) =>
          Before(b, [part |-> "data", file |-> Image, byte |-> img_off + 1])
    <3>1. \A b \in Batch : b.file \in Nat /\ b.byte \in Nat /\ b.part # "timeout"
      BY <1>0, InBatch DEF ByteSet
    <3> QED
      BY <1>1, <3>1 DEF Behind, Before
  <2>2. \A b \in ByteSet : b.part = "data" /\ b.file = Image /\ img_off < b.byte /\ b.byte <= img_off + n
                             => b \in Batch
    <3> SUFFICES ASSUME NEW b \in ByteSet, b.part = "data", b.file = Image,
                        img_off < b.byte, b.byte <= img_off + n
                 PROVE  b \in Batch
      OBVIOUS
    <3>1. b.byte \in Nat
      BY DEF ByteSet
    <3>2. b.file \in 1..Lim /\ 0 < b.byte /\ b.byte <= sizes[b.file]
      BY <1>1, <1>2, <1>3, <3>1, Sizes
    <3> QED
      BY <1>0, <3>2, InBatch
  <2>3. \A b \in Batch : Behind(b)' <=>
          \/ Behind(b)
          \/ b.part = "data" /\ b.file = Image /\ img_off < b.byte /\ b.byte <= img_off + n
    <3> SUFFICES ASSUME NEW b \in Batch
                 PROVE  Behind(b)' <=>
                          \/ Behind(b)
                          \/ b.part = "data" /\ b.file = Image /\ img_off < b.byte /\ b.byte <= img_off + n
      OBVIOUS
    <3>1. b.file \in Nat /\ b.byte \in Nat
      BY <1>0, InBatch DEF ByteSet
    <3>2. Behind(b)' <=> \/ b.file < Image
                         \/ b.file = Image /\ b.part = "meta" /\ b.byte <= MetaLen
                         \/ b.file = Image /\ b.part = "data" /\ b.byte <= img_off + n
      BY <1>2, <1>4, <1>5 DEF Behind
    <3>3. Behind(b) <=> \/ b.file < Image
                        \/ b.file = Image /\ b.part = "meta" /\ b.byte <= MetaLen
                        \/ b.file = Image /\ b.part = "data" /\ b.byte <= img_off
      BY <1>2, <1>5 DEF Behind
    <3> QED
      BY <1>1, <1>3, <3>1, <3>2, <3>3
  <2>4. /\ Image \in Nat /\ img_off + n \in Nat /\ img_off <= img_off + n
        /\ (img_off + n) - img_off <= room
        /\ "data" \in {"header", "meta", "data"}
    BY <1>1, <1>2, <1>3
  <2> QED
    BY <1>1, <1>2, <1>4, <2>1, <2>2, <2>3, <2>4, BatchPut
<1>7. BatchTypes' /\ ImageTypes'
  <2>1. img_off' \in 0..MaxSize
    BY <1>1, <1>3, <1>4, Sizes
  <2> QED
    BY <1>0, <1>4, <1>5, <2>1 DEF BatchTypes, ImageTypes, Running, image_ctx
<1>8. BatchPlace'
  <2>1. idx_metadata_written' # idx_img_written'
    BY <1>1, <1>2, <1>4 DEF Image
  <2> QED
    BY <1>0, <1>2, <1>4, <1>5, <2>1 DEF BatchPlace
<1> QED
  BY <1>4, <1>6, <1>7, <1>8 DEF Inv, TypeInv, WireInv, BatchInv, ImageInv

\* A step that leaves the files and the wire alone leaves what is said of them.
LEMMA WireUnchanged ==
  ASSUME Common, UNCHANGED <<sizes, rewritten, wire>>
  PROVE  /\ Answered' = Answered /\ Timed' = Timed /\ Batch' = Batch /\ Lim' = Lim
         /\ Steady(Batch)' = Steady(Batch)
         /\ OnlyMissing => OnlyMissing'
         /\ TimedInv /\ (status' = status \/ status # "timed_out") => TimedInv'
<1>1. Answered' = Answered /\ Timed' = Timed /\ Batch' = Batch /\ Lim' = Lim
  BY SameBatch DEF Answered, Timed
<1>2. OnlyMissing => OnlyMissing'
  BY DEF OnlyMissing, Before
<1>3. TimedInv /\ (status' = status \/ status # "timed_out") => TimedInv'
  BY <1>1 DEF TimedInv, BeginningOf, Before
<1>4. Steady(Batch)' = Steady(Batch)
  BY <1>1 DEF Steady
<1> QED
  BY <1>1, <1>2, <1>3, <1>4

\* The next thumbnail begins when this one's size was reached, or when its file
\* ends earlier, which is one that was rewritten.
LEMMA NextImageStep ==
  ASSUME Inv, endpoint = "cursor", NextImage, UNCHANGED <<image_ctx, endpoint>>
  PROVE  Inv'
<1>0. Common /\ Files /\ BatchPlace /\ BatchTypes /\ ImageTypes /\ BatchWire /\ TimedInv /\ OnlyMissing
  BY DEF Inv, TypeInv, WireInv, BatchInv
<1>1. /\ status = "running" /\ headers_written /\ Image <= Lim /\ idx_metadata_written = Image
      /\ idx_img_written' = Image /\ img_off' = 0 /\ metadata_off = 0
      /\ UNCHANGED <<sizes, length, rewritten, room, peer, wire, status, headers_written,
                     idx_metadata_written, metadata_off, sent, endpoint>>
  BY <1>0 DEF NextImage, Running, files, socket, Image, BatchPlace
<1>2. Lim \in Nat /\ img_off \in Nat /\ idx_img_written \in Nat /\ Image \in 1..Lim
  BY <1>0, <1>1, Sizes, LimNat DEF BatchTypes, Image
<1>3. /\ Answered' = Answered /\ Batch' = Batch /\ Lim' = Lim /\ Steady(Batch)' = Steady(Batch)
      /\ OnlyMissing' /\ TimedInv'
  BY <1>0, <1>1, WireUnchanged
<1>4. Image' = Image + 1 /\ MetaSoFar' = 0 /\ MetaSoFar = MetaLen
  BY <1>1, <1>2 DEF Image, MetaSoFar
<1>5. img_off = sizes[Image] \/ Image \in rewritten
  <2>1. img_off = sizes[Image] \/ (img_off < sizes[Image] /\ img_off >= length[Image])
    BY DEF NextImage, AtEndOfFile, AtData
  <2>2. Image \notin rewritten => length[Image] = sizes[Image]
    BY <1>0, <1>2 DEF Files
  <2>3. sizes[Image] \in Nat
    BY <1>0, <1>2, LimNat, Sizes
  <2> QED
    BY <1>2, <2>1, <2>2, <2>3
<1>6. \A b \in Batch : Behind(b)' <=> b.file <= Image
  <2> SUFFICES ASSUME NEW b \in Batch PROVE Behind(b)' <=> b.file <= Image
    OBVIOUS
  <2>1. b.file \in Nat /\ b.byte \in Nat /\ 0 < b.byte
    BY <1>0, InBatch DEF ByteSet
  <2>2. idx_metadata_written' # Image'
    BY <1>1, <1>2, <1>4
  <2> QED
    BY <1>1, <1>2, <1>4, <2>1, <2>2 DEF Behind
<1>7. BatchWire'
  <2>1. \A b \in Answered : b \in Batch /\ Behind(b)'
    <3>1. \A b \in Answered : b \in Batch /\ Behind(b) /\ b.file \in Nat
      BY <1>0, InBatch DEF BatchWire, ByteSet
    <3> QED
      BY <1>2, <1>6, <3>1 DEF Behind
  <2>2. ASSUME NEW b \in Steady(Batch), b.file <= Image
        PROVE  b \in Answered
    <3>1. b \in Batch /\ (b.part # "data" \/ b.file \notin rewritten)
      BY <2>2 DEF Steady
    <3>2. /\ b.file \in Nat /\ b.byte \in Nat
          /\ \/ b.part = "header" /\ b.file = 0
             \/ b.part = "meta" /\ b.byte <= MetaLen
             \/ b.part = "data" /\ b.byte <= sizes[b.file]
      BY <1>0, <3>1, InBatch DEF ByteSet
    <3>3. Behind(b)
      <4>1. CASE b.file < Image
        BY <1>1, <4>1 DEF Behind
      <4>2. CASE b.file = Image /\ b.part = "meta"
        BY <1>1, <1>4, <3>2, <4>2 DEF Behind
      <4>3. CASE b.file = Image /\ b.part = "data"
        BY <1>1, <1>5, <3>1, <3>2, <4>3 DEF Behind
      <4> QED
        BY <1>2, <2>2, <3>2, <4>1, <4>2, <4>3
    <3> QED
      BY <1>0, <2>2, <3>3 DEF BatchWire
  <2>3. \A b \in Steady(Batch) : b \in Batch
    BY DEF Steady
  <2> QED
    BY <1>3, <1>6, <2>1, <2>2, <2>3 DEF BatchWire
<1>8. Common' /\ Files'
  BY <1>0, <1>1, <1>3 DEF Common, Files
<1>9. BatchTypes' /\ ImageTypes'
  BY <1>0, <1>1, <1>2, <1>3, Sizes DEF BatchTypes, ImageTypes, Running, image_ctx
<1>10. BatchPlace'
  BY <1>1, <1>2, <1>4 DEF BatchPlace
<1> QED
  BY <1>1, <1>3, <1>7, <1>8, <1>9, <1>10 DEF Inv, TypeInv, WireInv, BatchInv, ImageInv

\* A return of a batch call changes its status and nothing on the wire.
LEMMA BatchReturns ==
  ASSUME Inv, endpoint = "cursor", Block \/ Fail \/ Finish, UNCHANGED <<image_ctx, endpoint>>
  PROVE  Inv'
<1>0. Common /\ Files /\ BatchPlace /\ BatchTypes /\ ImageTypes /\ BatchWire /\ TimedInv /\ OnlyMissing
  BY DEF Inv, TypeInv, WireInv, BatchInv
<1>1. PICK result \in {"blocked", "failed", "finished"} :
        /\ status' = result /\ sent' = 0
        /\ UNCHANGED <<sizes, length, rewritten, room, peer, wire, ctx, endpoint>>
        /\ result = "finished" => headers_written /\ Image > Lim
        /\ result = "blocked" => room = 0
  BY DEF Block, Fail, Finish, Return, files, socket
<1>2. status = "running"
  BY DEF Block, Fail, Finish, Writing, AtHeaders, AtMetadata, AtData, Running
<1>3. UNCHANGED <<headers_written, idx_metadata_written, metadata_off, idx_img_written, img_off>>
  BY <1>1 DEF ctx
<1>4. /\ Answered' = Answered /\ Batch' = Batch /\ Lim' = Lim /\ Steady(Batch)' = Steady(Batch)
      /\ OnlyMissing' /\ TimedInv'
  BY <1>0, <1>1, <1>2, WireUnchanged
<1>5. \A b : Behind(b)' <=> Behind(b)
  BY <1>3 DEF Behind, Image, MetaSoFar
<1>6. BatchWire'
  BY <1>0, <1>4, <1>5 DEF BatchWire
<1>7. Common' /\ Files'
  BY <1>0, <1>1, <1>4 DEF Common, Files, Statuses
<1>8. BatchTypes' /\ ImageTypes'
  BY <1>0, <1>1, <1>3, <1>4, Sizes DEF BatchTypes, ImageTypes, image_ctx
<1>9. BatchPlace'
  <2>1. ~headers_written => status' # "blocked"
    BY <1>0, <1>1, Sizes DEF BatchPlace
  <2> QED
    BY <1>0, <1>1, <1>3, <1>4, <2>1 DEF BatchPlace, Image
<1> QED
  BY <1>1, <1>4, <1>6, <1>7, <1>8, <1>9 DEF Inv, TypeInv, WireInv, BatchInv, ImageInv

-----------------------------------------------------------------------------
(***************************************************************************)
(* The steps of a picture.                                                 *)
(***************************************************************************)
ImageTyped == Common /\ Files /\ BatchTypes /\ ImageTypes /\ ImagePlace /\ ImageWire /\ TimedInv /\ OnlyMissing

\* What the invariant says of a picture.
LEMMA ImageParts ==
  ASSUME endpoint = "image"
  PROVE  Inv <=> ImageTyped
BY DEF Inv, TypeInv, WireInv, BatchInv, ImageInv, ImageTyped

\* A step that leaves the wire alone leaves what is said of it.
LEMMA WireKept ==
  ASSUME UNCHANGED wire
  PROVE  /\ Answered' = Answered /\ Timed' = Timed
         /\ OnlyMissing => OnlyMissing'
         /\ TimedInv /\ (status' = status \/ status # "timed_out") => TimedInv'
<1>1. Answered' = Answered /\ Timed' = Timed
  BY DEF Answered, Timed
<1>2. OnlyMissing => OnlyMissing'
  BY DEF OnlyMissing, Before
<1>3. TimedInv /\ (status' = status \/ status # "timed_out") => TimedInv'
  BY <1>1 DEF TimedInv, BeginningOf, Before
<1> QED
  BY <1>1, <1>2, <1>3

\* A write for a picture that begins where what was carried ends.
LEMMA ImagePut ==
  ASSUME Common, TimedInv, OnlyMissing, status = "running",
         NEW part \in {"header", "data", "bad_request"}, NEW file \in Nat, NEW from \in Nat, NEW to \in Nat,
         from <= to, to - from <= room, Put(Bytes(part, file, from, to)),
         \A b \in ByteSet : b \in Answered <=> Carried(b),
         \A b \in ByteSet : Carried(b) => Before(b, [part |-> part, file |-> file, byte |-> from + 1]),
         \A b \in ByteSet : Carried(b)' <=> \/ Carried(b)
                                            \/ b.part = part /\ b.file = file /\ from < b.byte /\ b.byte <= to
  PROVE  /\ wire' \in Seq(ByteSet) /\ room' \in 0..Capacity /\ room' = room - (to - from)
         /\ peer = "there" /\ peer' = peer
         /\ ImageWire' /\ TimedInv' /\ OnlyMissing'
<1> DEFINE new == ToSet(Bytes(part, file, from, to))
<1>0. wire \in Seq(ByteSet) /\ room \in 0..Capacity /\ part \in Parts /\ part # "timeout"
  BY DEF Common, Parts
<1>1. /\ wire' \in Seq(ByteSet) /\ room' \in 0..Capacity /\ room' = room - (to - from)
      /\ peer = "there" /\ peer' = peer /\ from < to
      /\ wire' = wire \o Bytes(part, file, from, to)
      /\ ToSet(wire') = ToSet(wire) \cup new
  BY <1>0, PutBytes
<1>2. \A b : b \in new <=>
        /\ b \in ByteSet /\ b.part = part /\ b.file = file
        /\ from < b.byte /\ b.byte <= to
  BY <1>0, BytesSet
<1> HIDE DEF new
<1>3. ToSet(wire) = Answered /\ Timed = {} /\ ToSet(wire) \subseteq ByteSet
  BY <1>0, AllAnswered, WireElements DEF TimedInv
<1>4. Answered' = Answered \cup new /\ Timed' = {}
  BY <1>0, <1>1, <1>2, <1>3 DEF Answered, Timed
<1>5. ImageWire'
  <2>1. \A b \in ByteSet : b \in Answered' <=> Carried(b)'
    BY <1>2, <1>4
  <2> QED
    BY <2>1 DEF ImageWire
<1>6. TimedInv'
  BY <1>4 DEF TimedInv, BeginningOf
<1>7. OnlyMissing'
  BY <1>0, <1>1, <1>3, OrderedPut
<1> QED
  BY <1>1, <1>5, <1>6, <1>7

\* The whole of a canned answer.
LEMMA CannedWhole ==
  /\ SubSeq(Canned("bad_request"), 1, CannedLen) = Bytes("bad_request", 0, 0, CannedLen)
  /\ Len(Canned("bad_request")) = CannedLen
<1>1. "bad_request" \in Parts /\ 0 \in Nat /\ CannedLen \in Nat /\ 0 <= CannedLen
  BY Sizes DEF Parts
<1>2. Canned("bad_request") \in Seq(ByteSet) /\ Len(Canned("bad_request")) = CannedLen - 0
  BY <1>1, BytesFacts DEF Canned
<1>3. \A s \in Seq(ByteSet) : SubSeq(s, 1, Len(s)) = s
  OBVIOUS
<1> QED
  <2>1. CannedLen - 0 = CannedLen
    BY <1>1
  <2>2. SubSeq(Canned("bad_request"), 1, CannedLen) = Canned("bad_request")
    BY <1>2, <1>3, <2>1
  <2> QED
    BY <1>2, <2>1, <2>2 DEF Canned

\* A picture that is refused is answered with the whole canned answer, which an
\* empty buffer has room for.
LEMMA RefuseStep ==
  ASSUME Inv, endpoint = "image", Refuse, UNCHANGED <<ctx, sent, endpoint>>
  PROVE  Inv'
<1>0. ImageTyped
  BY ImageParts
<1>1. /\ status = "running" /\ step = "open" /\ ~refused /\ wire = <<>> /\ room = Capacity
      /\ status' = "finished" /\ refused' = TRUE
      /\ UNCHANGED <<sizes, length, rewritten, step, fd, offset, ctx, sent, endpoint>>
      /\ WriteCanned("bad_request")
  BY <1>0 DEF Refuse, SendingAt, Running, ImageTyped, ImagePlace, files
<1>10. room = Capacity /\ wire = <<>> /\ WriteCanned("bad_request")
  BY <1>1
<1>2. Smaller(room, CannedLen) = CannedLen /\ CannedLen > 0
  BY <1>10, Sizes DEF Smaller
<1>3. ToSet(wire) = {} /\ Answered = {} /\ Timed = {}
  BY <1>10 DEF ToSet, Answered, Timed
<1>4. /\ \A b \in ByteSet : ~Carried(b)
      /\ \A b \in ByteSet : Carried(b)' <=> b.part = "bad_request" /\ b.file = 0 /\ 0 < b.byte /\ b.byte <= CannedLen
  BY <1>1 DEF Carried
<1>5. wire' \in Seq(ByteSet) /\ room' \in 0..Capacity /\ peer' = peer /\ ImageWire' /\ TimedInv' /\ OnlyMissing'
  <2>1. CASE Put(SubSeq(Canned("bad_request"), 1, CannedLen))
    <3>1. Put(Bytes("bad_request", 0, 0, CannedLen))
      BY <2>1, CannedWhole
    <3>2. /\ 0 \in Nat /\ CannedLen \in Nat /\ 0 <= CannedLen /\ CannedLen - 0 <= room
          /\ "bad_request" \in {"header", "data", "bad_request"}
      BY <1>10, Sizes
    <3> QED
      BY <1>0, <1>1, <1>3, <1>4, <3>1, <3>2, ImagePut DEF ImageTyped
  <2>2. CASE peer = "gone" /\ UNCHANGED socket
    <3>1. UNCHANGED <<wire, room, peer>> /\ peer = "gone"
      BY <2>2 DEF socket
    <3> QED
      BY <1>0, <1>1, <1>3, <3>1, WireKept DEF ImageTyped, ImageWire, Common
  <2> QED
    <3>1. \/ Put(SubSeq(Canned("bad_request"), 1, CannedLen))
          \/ (CannedLen = 0 \/ peer = "gone") /\ UNCHANGED socket
      BY <1>10, <1>2 DEF WriteCanned
    <3> QED
      BY <1>2, <2>1, <2>2, <3>1
<1>6. Lim' = Lim
  BY <1>1, SameBatch
<1>7. Common' /\ Files'
  BY <1>0, <1>1, <1>5, <1>6 DEF ImageTyped, Common, Files, Statuses
<1>8. BatchTypes' /\ ImageTypes'
  BY <1>0, <1>1, <1>6 DEF ImageTyped, BatchTypes, ImageTypes, ImagePlace, ctx
<1>9. ImagePlace'
  BY <1>0, <1>1, <1>6 DEF ImageTyped, ImagePlace
<1> QED
  BY <1>1, <1>5, <1>7, <1>8, <1>9, ImageParts DEF Inv, TypeInv, WireInv, BatchInv, ImageInv

\* A file that is found is opened, or has size 0 and no descriptor.
LEMMA OpenImageStep ==
  ASSUME Inv, endpoint = "image", OpenImage, UNCHANGED <<ctx, sent, endpoint>>
  PROVE  Inv'
<1>0. ImageTyped
  BY ImageParts
<1>1. /\ status = "running" /\ step = "open" /\ ~refused /\ wire = <<>> /\ room = Capacity
      /\ step' = "headers"
      /\ UNCHANGED <<wire, room, peer, rewritten, status, refused, offset, ctx, sent, endpoint>>
      /\ \/ UNCHANGED <<fd, sizes, length>>
         \/ fd' = "none" /\ sizes' = <<0>> /\ length' = <<0>>
  BY <1>0 DEF OpenImage, SendingAt, Running, ImageTyped, ImagePlace, files, socket
<1>2. /\ sizes' \in Seq(0..MaxSize) /\ length' \in [1..Lim' -> 0..MaxSize] /\ Lim' = 1 /\ Lim = 1
      /\ Files' /\ fd' \in {"open", "none"}
  <2>1. Common /\ Files /\ Lim = 1 /\ fd \in {"open", "none"} /\ rewritten \subseteq 1..1
    BY <1>0 DEF ImageTyped, ImagePlace, ImageTypes, Common
  <2>2. CASE UNCHANGED <<fd, sizes, length>>
    <3>1. Lim' = Lim
      BY <2>2, SameBatch
    <3> QED
      BY <1>1, <2>1, <2>2, <3>1 DEF Common, Files
  <2>3. CASE fd' = "none" /\ sizes' = <<0>> /\ length' = <<0>>
    <3>1. 0 \in 0..MaxSize
      BY Sizes
    <3>2. Len(<<0>>) = 1 /\ <<0>> \in Seq(0..MaxSize) /\ <<0>> \in [1..1 -> 0..MaxSize]
      BY <3>1
    <3>3. Lim' = 1
      BY <2>3, <3>2 DEF Lim
    <3> QED
      BY <2>1, <2>3, <3>2, <3>3 DEF Files
  <2> QED
    BY <1>1, <2>2, <2>3
<1>3. Answered = {} /\ Answered' = {} /\ TimedInv' /\ OnlyMissing'
  <2>1. ToSet(wire) = {}
    BY <1>1 DEF ToSet
  <2> QED
    BY <1>0, <1>1, <2>1, WireKept DEF ImageTyped, Answered
<1>4. Common'
  BY <1>0, <1>1, <1>2 DEF ImageTyped, Common
<1>5. BatchTypes' /\ ImageTypes'
  BY <1>0, <1>1, <1>2 DEF ImageTyped, BatchTypes, ImageTypes, ctx, Running
<1>6. ImagePlace'
  BY <1>0, <1>1, <1>2 DEF ImageTyped, ImagePlace
<1>7. ImageWire'
  BY <1>1, <1>3 DEF ImageWire, Carried
<1> QED
  BY <1>1, <1>2, <1>3, <1>4, <1>5, <1>6, <1>7 DEF Inv, TypeInv, WireInv, BatchInv, ImageInv

\* The headers go out whole, unless the peer has left.
LEMMA WriteImageHeadersStep ==
  ASSUME Inv, endpoint = "image", WriteImageHeaders, UNCHANGED <<ctx, sent, endpoint>>
  PROVE  Inv'
<1>0. ImageTyped
  BY ImageParts
<1>1. /\ status = "running" /\ step = "headers" /\ ~refused /\ wire = <<>> /\ room = Capacity
      /\ step' = "first"
      /\ UNCHANGED <<sizes, length, rewritten, status, refused, fd, offset, ctx, sent, endpoint>>
      /\ Put(Bytes("header", 0, 0, HeaderLen)) \/ (peer = "gone" /\ UNCHANGED socket)
  BY <1>0 DEF WriteImageHeaders, SendingAt, GoTo, Running, ImageTyped, ImagePlace, files
<1>2. ToSet(wire) = {} /\ Answered = {} /\ Timed = {}
  BY <1>1 DEF ToSet, Answered, Timed
<1>3. /\ \A b \in ByteSet : ~Carried(b)
      /\ \A b \in ByteSet : Carried(b)' <=> b.part = "header" /\ b.file = 0 /\ 0 < b.byte /\ b.byte <= HeaderLen
  BY <1>1 DEF Carried
<1>4. /\ wire' \in Seq(ByteSet) /\ room' \in 0..Capacity /\ peer' = peer /\ ImageWire' /\ TimedInv' /\ OnlyMissing'
      /\ peer = "there" => room' > 0
  <2>1. CASE Put(Bytes("header", 0, 0, HeaderLen))
    <3>1. /\ 0 \in Nat /\ HeaderLen \in Nat /\ 0 <= HeaderLen /\ HeaderLen - 0 <= room
          /\ "header" \in {"header", "data", "bad_request"} /\ room - (HeaderLen - 0) > 0
      BY <1>1, Sizes
    <3> QED
      BY <1>0, <1>1, <1>2, <1>3, <2>1, <3>1, ImagePut DEF ImageTyped
  <2>2. CASE peer = "gone" /\ UNCHANGED socket
    <3>1. UNCHANGED <<wire, room, peer>> /\ peer = "gone"
      BY <2>2 DEF socket
    <3> QED
      BY <1>0, <1>1, <1>2, <3>1, WireKept DEF ImageTyped, ImageWire, Common
  <2> QED
    BY <1>1, <2>1, <2>2
<1>5. Lim' = Lim
  BY <1>1, SameBatch
<1>6. Common' /\ Files'
  BY <1>0, <1>1, <1>4, <1>5 DEF ImageTyped, Common, Files
<1>7. BatchTypes' /\ ImageTypes'
  BY <1>0, <1>1, <1>5 DEF ImageTyped, BatchTypes, ImageTypes, ctx, Running
<1>8. ImagePlace'
  BY <1>0, <1>1, <1>4, <1>5 DEF ImageTyped, ImagePlace
<1> QED
  BY <1>1, <1>4, <1>6, <1>7, <1>8 DEF Inv, TypeInv, WireInv, BatchInv, ImageInv

\* What sendfile may return, and why.
LEMMA SendfileFacts ==
  ASSUME Common, Lim = 1, NEW from \in -1..MaxSize, NEW n, n = Sendfile(from)
  PROVE  /\ n \in Int /\ n >= -1
         /\ n >= 0 => fd # "none" /\ peer # "gone" /\ from >= 0
         /\ n > 0 => n <= room /\ from + n <= sizes[1]
         /\ n = 0 => from >= length[1] \/ from >= sizes[1]
         /\ n < 0 => fd = "none" \/ peer = "gone" \/ from < 0 \/ room = 0
<1>1. room \in Nat /\ from \in Int /\ sizes[1] \in Nat /\ length[1] \in Nat
  <2>1. sizes[1] \in 0..MaxSize /\ length[1] \in 0..MaxSize
    BY LimNat DEF Common
  <2> QED
    BY <2>1, Sizes DEF Common
<1>2. CASE fd = "none" \/ peer = "gone" \/ from < 0
  BY <1>2 DEF Sendfile
<1>3. CASE ~(fd = "none" \/ peer = "gone" \/ from < 0) /\ (from >= length[1] \/ from >= sizes[1])
  <2>1. n = 0
    BY <1>3 DEF Sendfile
  <2> QED
    BY <1>1, <1>3, <2>1
<1>4. CASE ~(fd = "none" \/ peer = "gone" \/ from < 0) /\ ~(from >= length[1] \/ from >= sizes[1])
  <2>1. n = IF room = 0 THEN -1 ELSE Sendable(from)
    BY <1>4 DEF Sendfile
  <2>2. CASE room = 0
    BY <2>1, <2>2
  <2>3. CASE room # 0
    <3>1. n = Smaller(room, Smaller(sizes[1], length[1]) - from)
      BY <2>1, <2>3 DEF Sendable
    <3>2. n \in Nat /\ n > 0 /\ n <= room /\ from + n <= sizes[1]
      BY <1>1, <1>4, <2>3, <3>1 DEF Smaller
    <3> QED
      BY <1>1, <1>4, <3>2
  <2> QED
    BY <2>2, <2>3
<1> QED
  BY <1>2, <1>3, <1>4

\* A piece of the picture is sent behind what was carried: the wire then
\* carries it up to the new offset.
LEMMA PieceSent ==
  ASSUME ImageTyped, status = "running", step \in {"first", "rest"}, ~refused,
         NEW from \in 0..MaxSize, step = "first" => from = 0, step = "rest" => from = offset,
         NEW n \in Nat, n > 0, n <= room, peer = "there", step = "rest" => offset >= 0,
         Put(Bytes("data", 1, from, from + n)),
         step' = "rest", offset' = from + n, refused' = refused
  PROVE  /\ wire' \in Seq(ByteSet) /\ room' \in 0..Capacity /\ peer' = peer
         /\ ImageWire' /\ TimedInv' /\ OnlyMissing'
<1>1. from \in Nat /\ room \in Nat /\ Common /\ TimedInv /\ OnlyMissing /\ ImageWire
  BY Sizes DEF ImageTyped, Common
<1>2. \A b \in ByteSet : b \in Answered <=> Carried(b)
  BY <1>1 DEF ImageWire
<1>3. \A b \in ByteSet : Carried(b) <=>
        \/ b.part = "header" /\ b.file = 0 /\ 0 < b.byte /\ b.byte <= HeaderLen
        \/ b.part = "data" /\ b.file = 1 /\ 0 < b.byte /\ b.byte <= from
  <2> SUFFICES ASSUME NEW b \in ByteSet
               PROVE  Carried(b) <=>
                        \/ b.part = "header" /\ b.file = 0 /\ 0 < b.byte /\ b.byte <= HeaderLen
                        \/ b.part = "data" /\ b.file = 1 /\ 0 < b.byte /\ b.byte <= from
    OBVIOUS
  <2>1. b.byte \in Nat
    BY DEF ByteSet
  <2> QED
    BY <2>1 DEF Carried
<1>4. \A b \in ByteSet : Carried(b)' <=>
        \/ b.part = "header" /\ b.file = 0 /\ 0 < b.byte /\ b.byte <= HeaderLen
        \/ b.part = "data" /\ b.file = 1 /\ 0 < b.byte /\ b.byte <= from + n
  BY DEF Carried
<1>5. \A b \in ByteSet : Carried(b) => Before(b, [part |-> "data", file |-> 1, byte |-> from + 1])
  <2>1. \A b \in ByteSet : b.byte \in Nat
    BY DEF ByteSet
  <2> QED
    BY <1>1, <1>3, <2>1 DEF Before
<1>6. \A b \in ByteSet : Carried(b)' <=>
        \/ Carried(b)
        \/ b.part = "data" /\ b.file = 1 /\ from < b.byte /\ b.byte <= from + n
  <2>1. \A b \in ByteSet : b.byte \in Nat
    BY DEF ByteSet
  <2> QED
    BY <1>1, <1>3, <1>4, <2>1
<1>7. /\ 1 \in Nat /\ from + n \in Nat /\ from <= from + n /\ (from + n) - from <= room
      /\ "data" \in {"header", "data", "bad_request"}
  BY <1>1
<1> QED
  BY <1>1, <1>2, <1>5, <1>6, <1>7, ImagePut

\* The first piece.  What sendfile returned becomes the offset, its -1 as well,
\* which it returns only without a descriptor or a peer.
LEMMA SendFirstStep ==
  ASSUME Inv, endpoint = "image", SendFirst, UNCHANGED <<ctx, sent, endpoint>>
  PROVE  Inv'
<1> DEFINE n == Sendfile(0)
<1>0. ImageTyped /\ Common /\ Files /\ ImagePlace /\ ImageTypes
  BY ImageParts DEF ImageTyped
<1>1. /\ status = "running" /\ step = "first" /\ Sent(0, n)
      /\ offset' = n /\ step' = "rest"
      /\ status' = CASE n = 0 -> "failed" [] n = sizes[1] -> "finished" [] OTHER -> "blocked"
      /\ UNCHANGED <<sizes, length, rewritten, refused, fd>>
  BY DEF SendFirst, SendingAt, Running, ReturnImage, files
<1>2. /\ ~refused /\ Lim = 1 /\ (peer = "there" => room > 0) /\ room \in Nat
      /\ peer \in {"there", "gone"} /\ fd \in {"open", "none"} /\ sizes[1] \in 0..MaxSize
  BY <1>0, <1>1, LimNat, Sizes DEF ImagePlace, Common, ImageTypes
<1>3. /\ n \in Int /\ n >= -1
      /\ n >= 0 => fd # "none" /\ peer # "gone"
      /\ n > 0 => n <= room /\ n <= sizes[1]
      /\ n < 0 => fd = "none" \/ peer = "gone"
  <2>1. 0 \in -1..MaxSize
    BY Sizes
  <2> QED
    BY <1>0, <1>2, <2>1, SendfileFacts
<1> HIDE DEF n
<1>4. status' \in {"failed", "finished", "blocked"} /\ (status' = "finished" => n = sizes[1])
  BY <1>1
<1>5. /\ wire' \in Seq(ByteSet) /\ room' \in 0..Capacity /\ peer' = peer
      /\ ImageWire' /\ TimedInv' /\ OnlyMissing'
  <2>1. CASE n > 0
    <3>1. n \in Nat /\ 0 \in 0..MaxSize /\ 0 + n = n
      BY <1>3, <2>1, Sizes
    <3>2. Put(Bytes("data", 1, 0, 0 + n)) /\ offset' = 0 + n /\ refused' = refused /\ peer = "there"
      BY <1>1, <1>2, <1>3, <2>1, <3>1 DEF Sent
    <3> QED
      BY <1>0, <1>1, <1>2, <1>3, <2>1, <3>1, <3>2, PieceSent
  <2>2. CASE n <= 0
    <3>1. UNCHANGED <<wire, room, peer>>
      BY <1>1, <1>3, <2>2 DEF Sent, socket
    <3>2. Answered' = Answered /\ TimedInv' /\ OnlyMissing'
      BY <1>0, <1>1, <3>1, WireKept DEF ImageTyped
    <3>3. ImageWire'
      <4>1. \A b \in ByteSet : Carried(b)' <=> Carried(b)
        <5>1. \A b \in ByteSet : b.byte \in Nat
          BY DEF ByteSet
        <5> QED
          BY <1>1, <1>2, <1>3, <2>2, <5>1 DEF Carried
      <4>2. Answered = {} /\ peer = "gone" => offset' < 0
        BY <1>1, <1>3
      <4> QED
        BY <1>0, <3>1, <3>2, <4>1, <4>2 DEF ImageTyped, ImageWire
    <3> QED
      BY <1>0, <3>1, <3>2, <3>3 DEF Common
  <2> QED
    BY <1>3, <2>1, <2>2
<1>6. Lim' = Lim
  BY <1>1, SameBatch
<1>7. Common' /\ Files'
  BY <1>0, <1>1, <1>4, <1>5, <1>6 DEF Common, Files, Statuses
<1>8. BatchTypes'
  BY <1>0, <1>1, <1>6 DEF ImageTyped, BatchTypes, ImagePlace, ctx
<1>9. offset' \in -1..MaxSize /\ offset' <= sizes[1]
  BY <1>1, <1>2, <1>3, Sizes
<1>10. ImageTypes'
  BY <1>0, <1>1, <1>9 DEF ImageTypes
<1>11. ImagePlace'
  BY <1>0, <1>1, <1>2, <1>3, <1>4, <1>5, <1>6, <1>9 DEF ImagePlace
<1> QED
  BY <1>5, <1>7, <1>8, <1>10, <1>11 DEF Inv, TypeInv, WireInv, BatchInv, ImageInv

\* A later piece.  An offset that is negative sends nothing and ends the call.
LEMMA SendRestStep ==
  ASSUME Inv, endpoint = "image", SendRest, UNCHANGED <<ctx, sent, endpoint>>
  PROVE  Inv'
<1> DEFINE n == Sendfile(offset)
           full == peer = "there" /\ room = 0 /\ offset >= 0
<1>0. ImageTyped /\ Common /\ Files /\ ImagePlace /\ ImageTypes
  BY ImageParts DEF ImageTyped
<1>1. /\ status = "running" /\ step = "rest" /\ Sent(offset, n) /\ step' = step
      /\ \/ n > 0 /\ offset' = offset + n /\ status' = status
         \/ /\ ~(n > 0) /\ offset' = offset
            /\ status' = CASE offset = sizes[1] -> "finished"
                           [] offset # sizes[1] /\ n < 0 /\ full -> "blocked"
                           [] OTHER -> "failed"
      /\ UNCHANGED <<sizes, length, rewritten, refused, fd>>
  BY DEF SendRest, SendingAt, Running, ReturnImage, files
<1>2. /\ ~refused /\ Lim = 1 /\ room \in Nat /\ offset \in -1..MaxSize
      /\ peer \in {"there", "gone"} /\ fd \in {"open", "none"} /\ sizes[1] \in 0..MaxSize
      /\ offset < 0 => fd = "none" \/ peer = "gone"
      /\ offset >= 0 => fd = "open" /\ offset <= sizes[1]
  BY <1>0, <1>1, LimNat, Sizes DEF ImagePlace, Common, ImageTypes
<1>3. /\ n \in Int /\ n >= -1
      /\ n >= 0 => fd # "none" /\ peer # "gone" /\ offset >= 0
      /\ n > 0 => n <= room /\ offset + n <= sizes[1]
  BY <1>0, <1>2, SendfileFacts
<1> HIDE DEF n
<1>4. CASE n > 0
  <2>1. n \in Nat /\ offset \in 0..MaxSize /\ peer = "there" /\ offset' = offset + n /\ status' = "running"
    BY <1>1, <1>2, <1>3, <1>4
  <2>2. Put(Bytes("data", 1, offset, offset + n))
    BY <1>1, <1>4 DEF Sent
  <2>3. /\ wire' \in Seq(ByteSet) /\ room' \in 0..Capacity /\ peer' = peer
        /\ ImageWire' /\ TimedInv' /\ OnlyMissing'
    BY <1>0, <1>1, <1>2, <1>3, <1>4, <2>1, <2>2, PieceSent
  <2>4. Lim' = Lim /\ offset' \in -1..MaxSize /\ offset' <= sizes[1] /\ offset' >= 0
    BY <1>1, <1>2, <1>3, <2>1, SameBatch, Sizes
  <2>5. Common' /\ Files'
    BY <1>0, <1>1, <2>1, <2>3, <2>4 DEF Common, Files, Statuses
  <2>6. BatchTypes' /\ ImageTypes'
    BY <1>0, <1>1, <2>4 DEF ImageTyped, BatchTypes, ImageTypes, ImagePlace, ctx, Running
  <2>7. ImagePlace'
    BY <1>0, <1>1, <1>2, <2>1, <2>3, <2>4 DEF ImagePlace
  <2> QED
    BY <2>3, <2>5, <2>6, <2>7 DEF Inv, TypeInv, WireInv, BatchInv, ImageInv
<1>5. CASE ~(n > 0)
  <2>1. /\ offset' = offset /\ UNCHANGED <<wire, room, peer>>
        /\ status' \in {"failed", "finished", "blocked"} /\ (status' = "finished" => offset = sizes[1])
    <3>1. UNCHANGED <<wire, room, peer>>
      BY <1>1, <1>5 DEF Sent, socket
    <3> QED
      BY <1>1, <1>5, <3>1
  <2>2. Answered' = Answered /\ TimedInv' /\ OnlyMissing'
    BY <1>0, <1>1, <2>1, WireKept DEF ImageTyped
  <2>3. ImageWire'
    BY <1>0, <1>1, <2>1, <2>2 DEF ImageTyped, ImageWire, Carried
  <2>4. Lim' = Lim
    BY <1>1, SameBatch
  <2>5. Common' /\ Files'
    BY <1>0, <1>1, <2>1, <2>4 DEF Common, Files, Statuses
  <2>6. BatchTypes' /\ ImageTypes'
    BY <1>0, <1>1, <2>1, <2>4 DEF ImageTyped, BatchTypes, ImageTypes, ImagePlace, ctx
  <2>7. ImagePlace'
    BY <1>0, <1>1, <1>2, <2>1, <2>4 DEF ImagePlace
  <2> QED
    BY <2>2, <2>3, <2>5, <2>6, <2>7 DEF Inv, TypeInv, WireInv, BatchInv, ImageInv
<1> QED
  BY <1>4, <1>5

-----------------------------------------------------------------------------
(***************************************************************************)
(* Between two calls, the beginning, and the invariant.                    *)
(***************************************************************************)
Calls == <<headers_written, idx_metadata_written, metadata_off, idx_img_written, img_off, sent,
           step, refused, fd, offset>>

\* While a response is blocked, its headers are out.
LEMMA BlockedPlace ==
  ASSUME Inv, status = "blocked"
  PROVE  (endpoint = "cursor" => headers_written) /\ (endpoint = "image" => step = "rest")
<1>1. endpoint = "cursor" => BatchPlace
  BY DEF Inv, WireInv, BatchInv
<1>2. endpoint = "image" => ImagePlace /\ ImageTypes
  BY DEF Inv, TypeInv, WireInv, ImageInv
<1> QED
  BY <1>1, <1>2 DEF BatchPlace, ImagePlace, ImageTypes

\* A step that writes nothing: the reader reads or leaves, a call is resumed or
\* dropped.
LEMMA QuietStep ==
  ASSUME Inv, UNCHANGED <<sizes, length, rewritten, wire, endpoint, Calls>>,
         peer' = peer \/ peer' = "gone",
         room' \in 0..Capacity, room' >= room, room = Capacity => room' = room,
         status' = status \/ (status = "blocked" /\ status' \in {"running", "dropped"})
  PROVE  Inv'
<1>0. Common /\ Files /\ BatchTypes /\ ImageTypes /\ BatchInv /\ ImageInv /\ TimedInv /\ OnlyMissing
  BY DEF Inv, TypeInv, WireInv
<1>1. UNCHANGED <<headers_written, idx_metadata_written, metadata_off, idx_img_written, img_off, sent,
                  step, refused, fd, offset>>
  BY DEF Calls
<1>2. /\ Answered' = Answered /\ Batch' = Batch /\ Lim' = Lim /\ Steady(Batch)' = Steady(Batch)
      /\ OnlyMissing' /\ TimedInv'
  BY <1>0, WireUnchanged
<1>3. Common' /\ Files'
  BY <1>0, <1>2 DEF Common, Files, Statuses
<1>4. BatchTypes' /\ ImageTypes'
  BY <1>0, <1>1, <1>2 DEF BatchTypes, ImageTypes, Running
<1>5. status' = status \/ ((endpoint = "cursor" => headers_written) /\ (endpoint = "image" => step = "rest"))
  BY BlockedPlace
<1>6. BatchInv'
  <2> SUFFICES ASSUME endpoint = "cursor" PROVE BatchPlace' /\ BatchWire'
    BY DEF BatchInv
  <2>1. BatchPlace /\ BatchWire
    BY <1>0 DEF BatchInv
  <2>2. \A b : Behind(b)' <=> Behind(b)
    BY <1>1 DEF Behind, Image, MetaSoFar
  <2>3. BatchWire'
    BY <1>2, <2>1, <2>2 DEF BatchWire
  <2>4. BatchPlace'
    BY <1>1, <1>2, <1>5, <2>1 DEF BatchPlace, Image
  <2> QED
    BY <2>3, <2>4
<1>7. ImageInv'
  <2> SUFFICES ASSUME endpoint = "image" PROVE ImagePlace' /\ ImageWire'
    BY DEF ImageInv
  <2>1. ImagePlace /\ ImageWire /\ room \in Nat /\ room' \in Nat
    BY <1>0, Sizes DEF ImageInv, Common
  <2>2. ImageWire'
    BY <1>1, <1>2, <2>1 DEF ImageWire, Carried
  <2>3. ImagePlace'
    BY <1>1, <1>2, <1>5, <2>1 DEF ImagePlace
  <2> QED
    BY <2>2, <2>3
<1> QED
  BY <1>2, <1>3, <1>4, <1>6, <1>7 DEF Inv, TypeInv, WireInv

\* A file of a blocked response is rewritten: less of the data is steady.
LEMMA RewriteStep ==
  ASSUME Inv, Rewrite, UNCHANGED <<endpoint, Calls>>
  PROVE  Inv'
<1>0. Common /\ Files /\ BatchTypes /\ ImageTypes /\ BatchInv /\ ImageInv /\ TimedInv /\ OnlyMissing
  BY DEF Inv, TypeInv, WireInv
<1>1. UNCHANGED <<headers_written, idx_metadata_written, metadata_off, idx_img_written, img_off, sent,
                  step, refused, fd, offset>>
  BY DEF Calls
<1>2. PICK i \in 1..Lim, m \in 0..MaxSize :
        length' = [length EXCEPT ![i] = m] /\ rewritten' = rewritten \cup {i}
  BY DEF Rewrite
<1>3. UNCHANGED <<sizes, room, peer, wire, status>>
  BY DEF Rewrite, socket
<1>4. Answered' = Answered /\ OnlyMissing' /\ TimedInv' /\ Lim' = Lim /\ Batch' = Batch
  BY <1>0, <1>3, WireKept, SameBatch
<1>5. Common' /\ Files'
  BY <1>0, <1>2, <1>3, <1>4 DEF Common, Files
<1>6. BatchTypes' /\ ImageTypes'
  BY <1>0, <1>1, <1>3, <1>4 DEF BatchTypes, ImageTypes, Running
<1>7. BatchInv'
  <2>1. \A b : Behind(b)' <=> Behind(b)
    BY <1>1 DEF Behind, Image, MetaSoFar
  <2>2. Steady(Batch)' \subseteq Steady(Batch)
    BY <1>2, <1>4 DEF Steady
  <2>3. BatchWire => BatchWire'
    BY <1>4, <2>1, <2>2 DEF BatchWire
  <2>4. BatchPlace => BatchPlace'
    BY <1>1, <1>3, <1>4 DEF BatchPlace, Image
  <2> QED
    BY <1>0, <2>3, <2>4 DEF BatchInv
<1>8. ImageInv'
  BY <1>0, <1>1, <1>3, <1>4 DEF ImageInv, ImagePlace, ImageWire, Carried
<1> QED
  BY <1>4, <1>5, <1>6, <1>7, <1>8 DEF Inv, TypeInv, WireInv

\* The timer writes as much of the 408 as there is room for.
LEMMA TimeoutStep ==
  ASSUME Inv, Timeout, UNCHANGED <<endpoint, Calls>>
  PROVE  Inv'
<1>0. Common /\ Files /\ BatchTypes /\ ImageTypes /\ BatchInv /\ ImageInv /\ TimedInv /\ OnlyMissing
  BY DEF Inv, TypeInv, WireInv
<1>1. UNCHANGED <<headers_written, idx_metadata_written, metadata_off, idx_img_written, img_off, sent,
                  step, refused, fd, offset>>
  BY DEF Calls
<1>2. status = "blocked" /\ status' = "timed_out" /\ UNCHANGED <<sizes, length, rewritten>>
  BY DEF Timeout, files
<1>3. (endpoint = "cursor" => headers_written) /\ (endpoint = "image" => step = "rest")
  BY <1>2, BlockedPlace
<1>4. /\ wire' \in Seq(ByteSet) /\ room' \in 0..Capacity /\ peer' = peer
      /\ Answered' = Answered /\ TimedInv' /\ OnlyMissing'
  <2> DEFINE m == Smaller(room, CannedLen)
  <2>1. m \in Nat /\ m <= room /\ m <= CannedLen /\ room \in Nat
    BY <1>0, Sizes DEF Smaller, Common
  <2>2. \/ Put(SubSeq(Canned("timeout"), 1, m)) \/ UNCHANGED socket
    BY DEF Timeout, WriteCanned
  <2> HIDE DEF m
  <2>3. /\ 0 \in Nat /\ 0 <= m /\ m - 0 <= room /\ m - 0 = m /\ "timeout" \in Parts
        /\ CannedLen \in Nat /\ 0 <= CannedLen /\ CannedLen - 0 = CannedLen
    BY <2>1, Sizes DEF Parts
  <2>4. \A b : b \in ToSet(Canned("timeout")) <=>
          b \in ByteSet /\ b.part = "timeout" /\ b.file = 0 /\ 0 < b.byte /\ b.byte <= CannedLen
    BY <2>3, BytesSet DEF Canned
  <2>5. ToSet(wire) = Answered /\ Timed = {}
    BY <1>0, <1>2, AllAnswered DEF TimedInv
  <2>6. CASE Put(SubSeq(Canned("timeout"), 1, m))
    <3>1. SubSeq(Canned("timeout"), 1, m) = Bytes("timeout", 0, 0, m)
      <4>1. /\ Canned("timeout") \in Seq(ByteSet) /\ Len(Canned("timeout")) = CannedLen
            /\ \A k \in 1..CannedLen :
                 Canned("timeout")[k] = [part |-> "timeout", file |-> 0, byte |-> 0 + k]
        <5>1. /\ Canned("timeout") \in Seq(ByteSet) /\ Len(Canned("timeout")) = CannedLen - 0
              /\ \A k \in 1..(CannedLen - 0) :
                   Canned("timeout")[k] = [part |-> "timeout", file |-> 0, byte |-> 0 + k]
          BY <2>3, BytesFacts DEF Canned
        <5> QED
          BY <2>3, <5>1
      <4>2. SubSeq(Canned("timeout"), 1, m) = [k \in 1..m |-> Canned("timeout")[k]]
        BY <2>1, <4>1
      <4>3. \A k \in 1..m : Canned("timeout")[k] = [part |-> "timeout", file |-> 0, byte |-> 0 + k]
        <5>1. \A k \in 1..m : k \in 1..CannedLen
          BY <2>1, <2>3
        <5> QED
          BY <4>1, <5>1
      <4>4. Bytes("timeout", 0, 0, m) = [k \in 1..m |-> [part |-> "timeout", file |-> 0, byte |-> 0 + k]]
        BY <2>3 DEF Bytes
      <4> QED
        BY <4>2, <4>3, <4>4
    <3>2. Put(Bytes("timeout", 0, 0, m))
      BY <2>6, <3>1
    <3>3. /\ wire' \in Seq(ByteSet) /\ room' \in 0..Capacity /\ peer' = peer /\ 0 < m
          /\ wire' = wire \o Bytes("timeout", 0, 0, m)
          /\ ToSet(wire') = ToSet(wire) \cup ToSet(Bytes("timeout", 0, 0, m))
      BY <1>0, <2>1, <2>3, <3>2, PutBytes DEF Common
    <3>4. \A b : b \in ToSet(Bytes("timeout", 0, 0, m)) <=>
            b \in ByteSet /\ b.part = "timeout" /\ b.file = 0 /\ 0 < b.byte /\ b.byte <= m
      BY <2>1, <2>3, BytesSet
    <3>5. Answered' = Answered /\ Timed' = ToSet(Bytes("timeout", 0, 0, m))
      BY <2>5, <3>3, <3>4 DEF Answered, Timed
    <3>6. BeginningOf(Timed', ToSet(Canned("timeout")))
      <4>1. \A b \in ByteSet : b.byte \in Nat
        BY DEF ByteSet
      <4>2. Timed' \subseteq ToSet(Canned("timeout"))
        BY <2>1, <2>4, <3>4, <3>5, <4>1, Sizes
      <4>3. ASSUME NEW a \in ToSet(Canned("timeout")), NEW b \in Timed', Before(a, b)
            PROVE  a \in Timed'
        <5>1. /\ a \in ByteSet /\ a.part = "timeout" /\ a.file = 0 /\ 0 < a.byte
              /\ b \in ByteSet /\ b.part = "timeout" /\ b.file = 0 /\ b.byte <= m
          BY <2>4, <3>4, <3>5, <4>3
        <5>2. a.byte < b.byte
          BY <4>3, <5>1 DEF Before
        <5>3. a.byte <= m
          BY <2>1, <4>1, <5>1, <5>2
        <5> QED
          BY <3>4, <3>5, <5>1, <5>3
      <4> QED
        BY <4>2, <4>3 DEF BeginningOf
    <3>7. TimedInv'
      <4>1. BeginningOf(Timed, ToSet(Canned("timeout")))'
        BY <3>6 DEF BeginningOf, Before, Canned, Bytes
      <4> QED
        BY <1>2, <4>1 DEF TimedInv
    <3>8. OnlyMissing'
      <4>1. \A b \in ToSet(wire) : Before(b, [part |-> "timeout", file |-> 0, byte |-> 0 + 1])
        BY <2>5 DEF Answered, Before
      <4> QED
        BY <1>0, <2>1, <2>3, <3>3, <4>1, OrderedPut DEF Common
    <3> QED
      BY <3>3, <3>5, <3>7, <3>8
  <2>7. CASE UNCHANGED socket
    <3>1. UNCHANGED <<wire, room, peer>>
      BY <2>7 DEF socket
    <3> QED
      BY <1>0, <1>2, <3>1, WireKept DEF Common
  <2> QED
    BY <2>2, <2>6, <2>7
<1>5. Lim' = Lim /\ Batch' = Batch
  BY <1>2, SameBatch
<1>6. Common' /\ Files'
  BY <1>0, <1>2, <1>4, <1>5 DEF Common, Files, Statuses
<1>7. BatchTypes' /\ ImageTypes'
  BY <1>0, <1>1, <1>2, <1>5 DEF BatchTypes, ImageTypes, Running
<1>8. BatchInv'
  <2>1. \A b : Behind(b)' <=> Behind(b)
    BY <1>1 DEF Behind, Image, MetaSoFar
  <2>2. Steady(Batch)' = Steady(Batch)
    BY <1>2, <1>5 DEF Steady
  <2>3. BatchWire => BatchWire'
    BY <1>4, <1>5, <2>1, <2>2 DEF BatchWire
  <2>4. endpoint = "cursor" /\ BatchPlace => BatchPlace'
    BY <1>1, <1>2, <1>3 DEF BatchPlace, Image
  <2> QED
    BY <1>0, <1>6, <2>3, <2>4 DEF BatchInv
<1>9. ImageInv'
  <2> SUFFICES ASSUME endpoint = "image" PROVE ImagePlace' /\ ImageWire'
    BY <1>6 DEF ImageInv
  <2>1. ImagePlace /\ ImageWire
    BY <1>0 DEF ImageInv
  <2>2. ImageWire'
    BY <1>1, <1>4, <2>1 DEF ImageWire, Carried
  <2>3. ImagePlace'
    BY <1>1, <1>2, <1>3, <1>4, <1>5, <2>1 DEF ImagePlace
  <2> QED
    BY <2>2, <2>3
<1> QED
  BY <1>4, <1>6, <1>7, <1>8, <1>9 DEF Inv, TypeInv, WireInv

\* Every step keeps the invariant.
LEMMA InvNext ==
  ASSUME Inv, [Next]_vars
  PROVE  Inv'
<1>0. Common
  BY DEF Inv, TypeInv
<1>1. ASSUME Call, UNCHANGED endpoint
      PROVE  Inv'
  BY <1>1, WriteHeadersStep, WriteMetadataStep, SendImageStep, NextImageStep, BatchReturns,
     RefuseStep, OpenImageStep, WriteImageHeadersStep, SendFirstStep, SendRestStep
     DEF Call, BatchCall, ImageCall
<1>2. ASSUME Between, UNCHANGED <<endpoint, endpoint_ctx>>
      PROVE  Inv'
  <2>1. UNCHANGED <<endpoint, Calls>>
    BY <1>2 DEF endpoint_ctx, ctx, image_ctx, Calls
  <2>2. room \in Nat /\ room <= Capacity /\ Capacity \in Nat
    BY <1>0, Sizes DEF Common
  <2>3. ASSUME Resume \/ HangUp \/ Leave \/ Drain
        PROVE  Inv'
    <3>1. /\ UNCHANGED <<sizes, length, rewritten, wire>>
          /\ peer' = peer \/ peer' = "gone"
          /\ status' = status \/ (status = "blocked" /\ status' \in {"running", "dropped"})
      BY <2>3 DEF Resume, HangUp, Leave, Drain, files, socket
    <3>2. room' \in 0..Capacity /\ room' >= room /\ (room = Capacity => room' = room)
      BY <2>2, <2>3 DEF Resume, HangUp, Leave, Drain, socket
    <3> QED
      BY <2>1, <3>1, <3>2, QuietStep
  <2> QED
    BY <1>2, <2>1, <2>3, RewriteStep, TimeoutStep DEF Between
<1>3. ASSUME UNCHANGED vars
      PROVE  Inv'
  <2>1. UNCHANGED <<sizes, length, rewritten, wire, endpoint, Calls, peer, room, status>>
    BY <1>3 DEF vars, files, socket, endpoint_ctx, ctx, image_ctx, Calls
  <2>2. room' \in 0..Capacity /\ room' >= room
    BY <1>0, <2>1, Sizes DEF Common
  <2> QED
    BY <2>1, <2>2, QuietStep
<1> QED
  BY <1>1, <1>2, <1>3 DEF Next

\* A response starts with an empty buffer and nothing sent.
LEMMA InvInit == Init => Inv
<1> SUFFICES ASSUME Init PROVE Inv
  OBVIOUS
<1>1. /\ wire = <<>> /\ room = Capacity /\ peer = "there" /\ status = "running"
      /\ length = sizes /\ rewritten = {} /\ endpoint \in {"cursor", "image"}
      /\ sent = 0 /\ ~headers_written /\ headers_written \in BOOLEAN
      /\ idx_metadata_written = 0 /\ metadata_off = 0 /\ idx_img_written = 0 /\ img_off = 0
      /\ step = "open" /\ refused = FALSE /\ fd = "open" /\ offset = 0
  BY DEF Init, SendingInit, BatchInit, ImageInit
<1>2. PICK n \in Nat : sizes \in [1..n -> 0..MaxSize] /\ (endpoint = "image" => n = 1)
  <2>1. CASE endpoint = "cursor"
    <3>1. PICK n \in 1..MaxBatch : sizes \in [1..n -> 0..MaxSize]
      BY <2>1 DEF Init
    <3> QED
      BY <2>1, <3>1, BatchAssumption
  <2>2. CASE endpoint = "image"
    BY <2>2 DEF Init
  <2> QED
    BY <1>1, <2>1, <2>2
<1>3. sizes \in Seq(0..MaxSize) /\ Len(sizes) = n
  <2>1. \A S, s : s \in [1..n -> S] => s \in Seq(S) /\ Len(s) = n
    OBVIOUS
  <2> QED
    BY <1>2, <2>1
<1>4. Lim = n /\ length \in [1..Lim -> 0..MaxSize]
  BY <1>1, <1>2, <1>3 DEF Lim
<1>5. ToSet(wire) = {} /\ Answered = {} /\ Timed = {}
  BY <1>1 DEF ToSet, Answered, Timed
<1>6. Common /\ Files
  BY <1>1, <1>3, <1>4, Sizes DEF Common, Files, Statuses
<1>7. BatchTypes /\ ImageTypes
  <2>1. /\ 0 \in 0..Lim /\ 0 \in 0..(MetaLen - 1) /\ 0 \in 0..MaxSize /\ 0 \in 0..HeaderLen
        /\ 0 \in -1..MaxSize
    BY <1>2, <1>4, Sizes
  <2>2. refused \in BOOLEAN
    BY <1>1
  <2> QED
    BY <1>1, <2>1, <2>2 DEF BatchTypes, ImageTypes, Running
<1>8. BatchPlace /\ BatchWire
  BY <1>1, <1>5 DEF BatchPlace, BatchWire, Behind, Image
<1>9. endpoint = "image" => ImagePlace /\ ImageWire
  BY <1>1, <1>2, <1>4, <1>5 DEF ImagePlace, ImageWire, Carried
<1>10. TimedInv
  BY <1>5 DEF TimedInv, BeginningOf
<1>11. OnlyMissing
  <2>1. Len(wire) = 0
    BY <1>1
  <2> QED
    BY <2>1 DEF OnlyMissing
<1> QED
  BY <1>6, <1>7, <1>8, <1>9, <1>10, <1>11 DEF Inv, TypeInv, WireInv, BatchInv, ImageInv

\* The invariant holds in every reachable state.
THEOREM ResponseInvariance == Spec => []Inv
  BY InvInit, InvNext, PTL DEF Spec

\* Every variable has its type, for any sizes and any number of thumbnails.
THEOREM TypeAlways == Spec => []TypeOK
<1>1. Inv => TypeOK
  BY TypeInvOK DEF Inv
<1> QED
  BY <1>1, ResponseInvariance, PTL

\* Nothing is sent twice or out of order, and nothing follows a 408, whatever is
\* rewritten while a response is under way.
THEOREM OnlyMissingAlways == Spec => []OnlyMissing
<1>1. Inv => OnlyMissing
  BY DEF Inv, WireInv
<1> QED
  BY <1>1, ResponseInvariance, PTL

\* What lies behind the place of a batch call has everything behind it that
\* comes before it in the announced order.
LEMMA BehindClosed ==
  ASSUME Common, BatchTypes, NEW a \in Batch, NEW b \in Batch, Before(a, b), Behind(b)
  PROVE  Behind(a)
<1>1. /\ a.file \in Nat /\ a.byte \in Nat /\ b.file \in Nat /\ b.byte \in Nat
      /\ a.part \in {"header", "meta", "data"} /\ b.part \in {"header", "meta", "data"}
      /\ a.part = "header" => a.file = 0
      /\ a.part = "meta" => a.byte <= MetaLen
  BY InBatch DEF ByteSet
<1>2. Image \in Nat /\ Image > 0 /\ MetaSoFar \in Nat /\ img_off \in Nat
  BY LimNat, Sizes DEF BatchTypes, Image, MetaSoFar
<1>3. \/ a.file < b.file
      \/ a.file = b.file /\ a.part = b.part /\ a.byte < b.byte
      \/ a.file = b.file /\ a.part # b.part /\ b.part = "data"
  BY <1>1 DEF Before
<1>4. CASE a.file < Image
  BY <1>4 DEF Behind
<1>5. CASE ~(a.file < Image)
  <2>1. a.file = Image /\ b.file = Image
    BY <1>1, <1>2, <1>3, <1>5 DEF Behind
  <2>2. (a.part = b.part /\ a.byte < b.byte) \/ (b.part = "data" /\ a.part = "meta")
    BY <1>1, <1>2, <1>3, <2>1
  <2>3. b.part = "data" => idx_metadata_written = Image
    BY <1>2, <2>1 DEF Behind
  <2>4. idx_metadata_written = Image => MetaSoFar = MetaLen
    BY DEF MetaSoFar
  <2> QED
    BY <1>1, <1>2, <2>1, <2>2, <2>3, <2>4, Sizes DEF Behind
<1> QED
  BY <1>4, <1>5

\* The bytes a picture announces.
LEMMA InAnswer ==
  ASSUME Common, Lim = 1
  PROVE  \A b : b \in Answer <=>
           /\ b \in ByteSet
           /\ IF refused
              THEN b.part = "bad_request" /\ b.file = 0 /\ 0 < b.byte /\ b.byte <= CannedLen
              ELSE \/ b.part = "header" /\ b.file = 0 /\ 0 < b.byte /\ b.byte <= HeaderLen
                   \/ b.part = "data" /\ b.file = 1 /\ 0 < b.byte /\ b.byte <= sizes[1]
<1>1. /\ "header" \in Parts /\ "data" \in Parts /\ "bad_request" \in Parts
      /\ 0 \in Nat /\ 1 \in Nat /\ HeaderLen \in Nat /\ 0 <= HeaderLen
      /\ CannedLen \in Nat /\ 0 <= CannedLen
  BY Sizes DEF Parts
<1>2. sizes[1] \in Nat /\ 0 <= sizes[1]
  BY LimNat, Sizes
<1>3. \A b : b \in ToSet(Bytes("header", 0, 0, HeaderLen)) <=>
        b \in ByteSet /\ b.part = "header" /\ b.file = 0 /\ 0 < b.byte /\ b.byte <= HeaderLen
  BY <1>1, BytesSet
<1>4. \A b : b \in ToSet(Bytes("data", 1, 0, sizes[1])) <=>
        b \in ByteSet /\ b.part = "data" /\ b.file = 1 /\ 0 < b.byte /\ b.byte <= sizes[1]
  BY <1>1, <1>2, BytesSet
<1>5. \A b : b \in ToSet(Canned("bad_request")) <=>
        b \in ByteSet /\ b.part = "bad_request" /\ b.file = 0 /\ 0 < b.byte /\ b.byte <= CannedLen
  BY <1>1, BytesSet DEF Canned
<1> QED
  BY <1>3, <1>4, <1>5 DEF Answer, Picture

\* For a picture: what was carried is the beginning of what is announced.
LEMMA CarriedIsBeginning ==
  ASSUME Common, ImageTypes, ImagePlace
  PROVE  /\ \A b \in ByteSet : Carried(b) => b \in Answer
         /\ \A a \in Answer, b \in ByteSet : Carried(b) /\ Before(a, b) => Carried(a)
<1>1. /\ refused => step = "open"
      /\ step = "rest" /\ offset >= 0 => offset <= sizes[1]
      /\ sizes[1] \in Nat /\ offset \in Int /\ Lim = 1
  BY LimNat, Sizes DEF ImagePlace, ImageTypes
<1>2. \A b \in ByteSet : b.byte \in Nat /\ b.file \in Nat
  BY DEF ByteSet
<1>3. \A b \in ByteSet : Carried(b) => b \in Answer
  <2> SUFFICES ASSUME NEW b \in ByteSet, Carried(b)
               PROVE  b \in Answer
    OBVIOUS
  <2>1. CASE refused
    <3>1. b.part = "bad_request" /\ b.file = 0 /\ 0 < b.byte /\ b.byte <= CannedLen
      BY <1>1, <2>1 DEF Carried
    <3> QED
      BY <1>1, <2>1, <3>1, InAnswer
  <2>2. CASE ~refused
    <3>1. \/ b.part = "header" /\ b.file = 0 /\ 0 < b.byte /\ b.byte <= HeaderLen
          \/ b.part = "data" /\ b.file = 1 /\ 0 < b.byte /\ b.byte <= sizes[1]
      BY <1>1, <1>2, <2>2 DEF Carried
    <3> QED
      BY <1>1, <2>2, <3>1, InAnswer
  <2> QED
    BY <2>1, <2>2
<1>4. ASSUME NEW a \in Answer, NEW b \in ByteSet, Carried(b), Before(a, b)
      PROVE  Carried(a)
  <2>1. /\ a \in ByteSet
        /\ IF refused
           THEN a.part = "bad_request" /\ a.file = 0 /\ 0 < a.byte /\ a.byte <= CannedLen
           ELSE \/ a.part = "header" /\ a.file = 0 /\ 0 < a.byte /\ a.byte <= HeaderLen
                \/ a.part = "data" /\ a.file = 1 /\ 0 < a.byte /\ a.byte <= sizes[1]
    BY <1>1, InAnswer
  <2>2. CASE refused
    BY <2>1, <2>2 DEF Carried
  <2>3. CASE ~refused /\ a.part = "header"
    BY <1>4, <2>1, <2>3 DEF Carried
  <2>4. CASE ~refused /\ a.part = "data"
    <3>1. a.file = 1 /\ 0 < a.byte /\ a.byte \in Nat /\ b.byte \in Nat
      BY <1>2, <2>1, <2>4
    <3>2. b.part = "data" /\ b.file = 1 /\ step = "rest" /\ b.byte <= offset
      BY <1>4, <2>4, <3>1 DEF Carried, Before
    <3>3. a.byte < b.byte
      BY <1>4, <2>4, <3>1, <3>2 DEF Before
    <3>4. a.byte <= offset
      BY <1>1, <3>1, <3>2, <3>3
    <3> QED
      BY <2>4, <3>1, <3>2, <3>4 DEF Carried
  <2> QED
    BY <2>1, <2>2, <2>3, <2>4
<1> QED
  BY <1>3, <1>4

\* At every moment the wire carries the beginning of the announced response,
\* but for the data of rewritten files, however slowly the peer reads; and a 408
\* is written only when the response is given up.
THEOREM WireIsAlwaysResponse == Spec => []WireIsResponse
<1>1. Inv => WireIsResponse
  <2> SUFFICES ASSUME Inv PROVE BeginningOf(Steady(Answered), Steady(Response))
    BY DEF WireIsResponse, Inv, WireInv, TimedInv
  <2>0. Common /\ BatchTypes /\ ImageTypes /\ (endpoint = "cursor" \/ endpoint = "image")
    BY DEF Inv, TypeInv, Common
  <2>1. CASE endpoint = "cursor"
    <3>1. BatchWire /\ Response = Batch
      BY <2>1 DEF Inv, WireInv, BatchInv, Response
    <3>2. Steady(Answered) \subseteq Steady(Batch)
      BY <3>1 DEF BatchWire, Steady
    <3>3. ASSUME NEW a \in Steady(Batch), NEW b \in Steady(Answered), Before(a, b)
          PROVE  a \in Steady(Answered)
      <4>1. a \in Batch /\ b \in Batch /\ Behind(b)
        BY <3>1 DEF BatchWire, Steady
      <4>2. Behind(a)
        BY <2>0, <3>3, <4>1, BehindClosed
      <4> QED
        BY <3>1, <4>2 DEF BatchWire, Steady
    <3> QED
      BY <3>1, <3>2, <3>3 DEF BeginningOf
  <2>2. CASE endpoint = "image"
    <3>1. ImagePlace /\ ImageWire /\ Response = Answer
      BY <2>2 DEF Inv, WireInv, ImageInv, Response
    <3>2. Answered \subseteq ByteSet
      BY <2>0, WireElements DEF Answered, Common
    <3>3. \A a \in Answer, b \in Answered : b \in Answer /\ (Before(a, b) => a \in Answered)
      <4>1. CASE Answered = {}
        BY <4>1
      <4>2. CASE \A b \in ByteSet : b \in Answered <=> Carried(b)
        <5>1. \A a \in Answer : a \in ByteSet
          BY <2>0, <3>1, InAnswer DEF ImagePlace
        <5> QED
          BY <2>0, <3>1, <3>2, <4>2, <5>1, CarriedIsBeginning
      <4> QED
        BY <3>1, <4>1, <4>2 DEF ImageWire
    <3>4. Answered \subseteq Answer
      <4>1. CASE Answered = {}
        BY <4>1
      <4>2. CASE \A b \in ByteSet : b \in Answered <=> Carried(b)
        BY <2>0, <3>1, <3>2, <4>2, CarriedIsBeginning
      <4> QED
        BY <3>1, <4>1, <4>2 DEF ImageWire
    <3> QED
      BY <3>1, <3>3, <3>4 DEF BeginningOf, Steady
  <2> QED
    BY <2>0, <2>1, <2>2
<1> QED
  BY <1>1, ResponseInvariance, PTL

\* A response that is reported as finished was written to its last byte, but
\* for the data of a batch's rewritten files, or a refusal to a peer that is
\* gone.
THEOREM FinishedIsAlwaysWhole == Spec => []FinishedIsWhole
<1>1. Inv => FinishedIsWhole
  <2> SUFFICES ASSUME Inv, status = "finished", ~(refused /\ peer = "gone")
               PROVE  /\ Steady(Answered) = Steady(Response) /\ Timed = {}
                      /\ endpoint = "image" /\ ~refused => fd = "open" /\ Answered = Response
    BY DEF FinishedIsWhole
  <2>0. Common /\ BatchTypes /\ ImageTypes /\ (endpoint = "cursor" \/ endpoint = "image") /\ Timed = {}
    BY DEF Inv, TypeInv, Common, WireInv, TimedInv
  <2>1. CASE endpoint = "cursor"
    <3>1. BatchPlace /\ BatchWire /\ Response = Batch
      BY <2>1 DEF Inv, WireInv, BatchInv, Response
    <3>2. headers_written /\ Image > Lim /\ Lim \in Nat /\ Image \in Nat
      BY <2>0, <3>1, LimNat DEF BatchPlace, BatchTypes, Image
    <3>3. \A b \in Batch : b.file \in Nat /\ b.file <= Lim
      BY <2>0, <3>2, InBatch DEF ByteSet
    <3>4. \A b \in Batch : Behind(b)
      BY <3>2, <3>3 DEF Behind
    <3>5. Steady(Batch) \subseteq Steady(Answered)
      BY <3>1, <3>4 DEF BatchWire, Steady
    <3>6. Steady(Answered) \subseteq Steady(Batch)
      BY <3>1 DEF BatchWire, Steady
    <3> QED
      BY <2>0, <2>1, <3>1, <3>5, <3>6
  <2>2. CASE endpoint = "image"
    <3>1. ImagePlace /\ ImageWire /\ Response = Answer
      BY <2>2 DEF Inv, WireInv, ImageInv, Response
    <3>2. /\ Lim = 1 /\ sizes[1] \in Nat /\ offset \in Int
          /\ (refused /\ step = "open") \/ (~refused /\ step = "rest" /\ offset = sizes[1] /\ fd = "open")
      BY <2>0, <3>1, LimNat, Sizes DEF ImagePlace, ImageTypes
    <3>3. \A b \in ByteSet : b \in Answered <=> Carried(b)
      BY <3>1, <3>2 DEF ImageWire
    <3>4. \A b \in ByteSet : Carried(b) <=> b \in Answer
      BY <2>0, <3>2, InAnswer DEF Carried
    <3>5. Answered \subseteq ByteSet /\ Answer \subseteq ByteSet
      BY <2>0, <3>2, WireElements, InAnswer DEF Answered, Common
    <3>6. Answered = Answer
      BY <3>3, <3>4, <3>5
    <3> QED
      BY <2>0, <3>1, <3>2, <3>6
  <2> QED
    BY <2>0, <2>1, <2>2
<1> QED
  BY <1>1, ResponseInvariance, PTL

-----------------------------------------------------------------------------
(***************************************************************************)
(* Failures.                                                               *)
(***************************************************************************)
Excuse ==
  \/ peer = "gone"
  \/ endpoint = "image" /\ (fd = "none" \/ sizes[1] = 0 \/ rewritten # {})

\* A piece of a picture fails only for one of these reasons.
LEMMA PieceFails ==
  ASSUME Inv, endpoint = "image", SendFirst \/ SendRest, status' = "failed"
  PROVE  Excuse
<1>0. Common /\ Files /\ ImagePlace /\ ImageTypes
  BY DEF Inv, TypeInv, WireInv, ImageInv
<1>1. /\ Lim = 1 /\ sizes[1] \in Nat /\ room \in Nat /\ offset \in -1..MaxSize /\ offset \in Int
      /\ peer \in {"there", "gone"}
  BY <1>0, LimNat, Sizes DEF ImagePlace, ImageTypes, Common, Files
<1>2. CASE SendFirst
  <2> DEFINE n == Sendfile(0)
  <2>1. n = 0
    BY <1>2 DEF SendFirst, ReturnImage
  <2>2. 0 \in -1..MaxSize
    BY Sizes
  <2>3. 0 >= length[1] \/ 0 >= sizes[1]
    BY <1>0, <1>1, <2>1, <2>2, SendfileFacts
  <2>4. rewritten = {} => sizes[1] = 0
    BY <1>0, <1>1, <2>3 DEF Files
  <2> QED
    BY <2>4 DEF Excuse
<1>3. CASE SendRest
  <2> DEFINE n == Sendfile(offset)
             full == peer = "there" /\ room = 0 /\ offset >= 0
  <2>1. /\ status = "running" /\ step = "rest" /\ ~(n > 0) /\ offset # sizes[1] /\ ~(n < 0 /\ full)
    BY <1>3 DEF SendRest, SendingAt, Running, ReturnImage
  <2>2. /\ n \in Int
        /\ n = 0 => offset >= length[1] \/ offset >= sizes[1]
        /\ n < 0 => fd = "none" \/ peer = "gone" \/ offset < 0 \/ room = 0
        /\ n >= 0 => offset >= 0
    BY <1>0, <1>1, SendfileFacts
  <2> HIDE DEF n
  <2>3. offset < 0 => fd = "none" \/ peer = "gone"
    BY <1>0, <2>1 DEF ImagePlace
  <2>4. offset >= 0 => offset <= sizes[1]
    BY <1>0, <2>1 DEF ImagePlace
  <2>5. CASE n = 0
    <3>1. rewritten = {} => length[1] = sizes[1]
      BY <1>0, <1>1 DEF Files
    <3>2. rewritten # {}
      BY <1>1, <2>1, <2>2, <2>4, <2>5, <3>1
    <3> QED
      BY <3>2 DEF Excuse
  <2>6. CASE n < 0
    <3>1. ~(peer = "there" /\ room = 0 /\ offset >= 0)
      BY <2>1, <2>6
    <3>2. peer = "there" \/ peer = "gone"
      BY <1>1
    <3>3. offset < 0 \/ offset >= 0
      BY <1>1
    <3>4. peer = "gone" \/ fd = "none"
      BY <2>2, <2>3, <2>6, <3>1, <3>2, <3>3
    <3> QED
      BY <3>4 DEF Excuse
  <2> QED
    BY <2>1, <2>2, <2>5, <2>6
<1> QED
  BY <1>2, <1>3

\* A response that failed keeps its reason, and one that fails has one.
LEMMA FailuresNext ==
  ASSUME Inv, FailuresAreReal, [Next]_vars
  PROVE  FailuresAreReal'
<1> SUFFICES ASSUME status' = "failed"
             PROVE  Excuse'
  BY DEF FailuresAreReal, Excuse
<1>1. status = "failed" => Excuse
  BY DEF FailuresAreReal, Excuse
<1>2. ASSUME Excuse, UNCHANGED <<endpoint, fd, sizes>>, peer' = peer \/ peer' = "gone",
             rewritten \subseteq rewritten'
      PROVE  Excuse'
  BY <1>2 DEF Excuse
<1>3. CASE Call /\ UNCHANGED endpoint
  <2>1. CASE BatchCall
    <3>1. status = "running"
      BY <2>1 DEF BatchCall, WriteHeaders, WriteMetadata, SendImage, NextImage, Block, Fail, Finish,
         Writing, AtHeaders, AtMetadata, AtData, Running
    <3>2. Fail
      BY <2>1, <3>1 DEF BatchCall, WriteHeaders, WriteMetadata, SendImage, NextImage, Block, Finish, Return
    <3> QED
      BY <3>2 DEF Fail, Return, socket, Excuse
  <2>2. CASE endpoint = "image" /\ ImageCall
    <3>1. status = "running"
      BY <2>2 DEF ImageCall, Refuse, OpenImage, WriteImageHeaders, SendFirst, SendRest, SendingAt, Running
    <3>2. SendFirst \/ SendRest
      BY <2>2, <3>1 DEF ImageCall, Refuse, OpenImage, WriteImageHeaders, GoTo
    <3>3. Excuse
      BY <2>2, <3>2, PieceFails
    <3>4. UNCHANGED <<fd, sizes, rewritten>>
      BY <3>2 DEF SendFirst, SendRest, ReturnImage, files
    <3>5. peer' = peer
      BY <3>2 DEF SendFirst, SendRest, Sent, Put, socket
    <3> QED
      BY <1>2, <1>3, <3>3, <3>4, <3>5
  <2> QED
    BY <1>3, <2>1, <2>2 DEF Call
<1>4. CASE Between /\ UNCHANGED <<endpoint, endpoint_ctx>>
  <2>1. status = "failed"
    BY <1>4 DEF Between, Resume, HangUp, Timeout, Drain, Leave, Rewrite
  <2>2. Drain \/ Leave
    BY <1>4, <2>1 DEF Between, Resume, HangUp, Timeout, Rewrite
  <2>3. UNCHANGED <<endpoint, fd, sizes, rewritten>> /\ (peer' = peer \/ peer' = "gone")
    BY <1>4, <2>2 DEF Drain, Leave, files, endpoint_ctx, image_ctx
  <2> QED
    BY <1>1, <1>2, <2>1, <2>3
<1>5. CASE UNCHANGED vars
  BY <1>1, <1>2, <1>5 DEF vars, files, socket, endpoint_ctx, image_ctx
<1> QED
  BY <1>3, <1>4, <1>5 DEF Next

\* No response fails because the socket is full: only for a peer that has gone,
\* or a picture that cannot be opened, is empty or was rewritten.
THEOREM FailuresAreAlwaysReal == Spec => []FailuresAreReal
<1>1. Init => FailuresAreReal
  BY DEF Init, SendingInit, FailuresAreReal
<1> QED
  BY <1>1, ResponseInvariance, FailuresNext, PTL DEF Spec
=============================================================================
