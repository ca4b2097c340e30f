-------------------------- MODULE RequestHeadProofs --------------------------
(***************************************************************************)
(* Proofs about reading the head of a request, for every size of the read  *)
(* buffer, any number of headers of any lengths, any line, and every way   *)
(* in which the request is cut into reads.                                 *)
(***************************************************************************)
EXTENDS RequestHead, FiniteSetTheorems, WellFoundedInduction, TLAPS

Breaks == {CR, LF}
HeadChars == {Url, Text, "length", "digits"}
Chars == HeadChars \cup Breaks

\* A body that cannot be taken for the end of a head: it does not begin with a
\* line break and holds no blank line.
Plain(b) ==
  /\ b # <<>> => b[1] \notin Breaks
  /\ \A i \in 1..(Len(b) - 3) : \E j \in i..(i + 3) : b[j] \notin Breaks

PlainBodies == \A b \in Bodies : Plain(b)

\* A non-empty set of numbers has a least one.
LEMMA LeastExists ==
  ASSUME NEW S \in SUBSET Nat, S # {}
  PROVE  \E m \in S : \A k \in S : m <= k
<1> DEFINE R == OpToRel(<, Nat)
<1>1. IsWellFoundedOn(R, Nat)
  BY NatLessThanWellFounded
<1>2. PICK m \in S : \A k \in S : <<k, m>> \notin R
  BY <1>1, WFMin
<1>3. \A k \in S : <<k, m>> \in R <=> k < m
  BY DEF OpToRel
<1>4. \A k \in S : ~(k < m)
  BY <1>2, <1>3
<1> QED
  BY <1>4

-----------------------------------------------------------------------------
(***************************************************************************)
(* Where the characters of a request are.  Header k ends with the CR at    *)
(* Ends(k); the request line is header 0, and the blank line ends the head.*)
(***************************************************************************)
Line == request.line
Count == Len(request.headers)
Ends(k) == LineEnds(request)[k]

\* A request, and its characters.
Given == request \in Request /\ stream = StreamOf(request)

\* A header is a line of at least two characters.
LEMMA HeaderChars ==
  ASSUME NEW h \in Headers
  PROVE  /\ h \in Seq(HeadChars) /\ Len(h) \in Nat /\ Len(h) > 1
         /\ \A i \in 1..Len(h) : h[i] \in HeadChars
<1>1. PICK key \in HeadChars, value \in HeadChars, l \in HeaderLengths : h = Header(key, value, l)
  BY DEF Headers, ContentLengths, BadContentLengths, OtherHeaders, HeadChars
<1>2. l \in Nat /\ l > 1
  BY HeaderAssumption
<1>3. h = [i \in 1..l |-> IF i = 1 THEN key ELSE value]
  BY <1>1 DEF Header
<1>4. h \in Seq(HeadChars) /\ Len(h) = l
  BY <1>2, <1>3
<1> QED
  BY <1>2, <1>3, <1>4

\* A request has a line, headers and a body of the kinds the constants admit.
LEMMA RequestTypes ==
  ASSUME Given
  PROVE  /\ Line \in Nat /\ Line >= 2 /\ Line <= BUFFER - 2 /\ BUFFER \in Nat /\ BUFFER > 4
         /\ Count \in Nat /\ request.headers \in [1..Count -> Headers]
         /\ request.body \in Bodies /\ request.body \in Seq({CR, LF, Text})
         /\ request.method \in {"GET", "POST"}
<1>1. PICK m \in 0..MaxHeaders : request.headers \in [1..m -> Headers]
  BY DEF Request, Given
<1>2. Count = m /\ m \in Nat
  BY <1>1, BoundsAssumption DEF Count
<1> QED
  BY <1>1, <1>2, LineAssumption, BufferAssumption, BodiesAssumption DEF Request, Line, Given

\* The pieces of which a request is made, by position.
LEMMA Concatenated ==
  ASSUME NEW S, NEW a \in Seq(S), NEW b \in Seq(S)
  PROVE  /\ a \o b \in Seq(S) /\ Len(a \o b) = Len(a) + Len(b)
         /\ \A i \in 1..Len(a) : (a \o b)[i] = a[i]
         /\ \A i \in 1..Len(b) : (a \o b)[Len(a) + i] = b[i]
OBVIOUS

\* A line break is no character of a line.
LEMMA BreaksApart == CR # LF /\ CR \notin HeadChars /\ LF \notin HeadChars
BY DEF HeadChars, CR, LF, Text, Url

\* The recursive function of the line ends, up to header m.
IsEnds(f, m) ==
  f = [k \in 0..m |-> IF k = 0 THEN request.line + 1
                      ELSE f[k - 1] + Len(request.headers[k]) + 2]

\* It goes one header further.
LEMMA EndsGrow ==
  ASSUME NEW m \in Nat, m > 0, NEW f, IsEnds(f, m - 1)
  PROVE  \E g : IsEnds(g, m)
<1> DEFINE next(k) == f[k - 1] + Len(request.headers[k]) + 2
           g == [k \in 0..m |-> IF k < m THEN f[k] ELSE next(m)]
           entry(k) == IF k = 0 THEN request.line + 1 ELSE g[k - 1] + Len(request.headers[k]) + 2
<1>1. \A k \in 0..(m - 1) : f[k] = IF k = 0 THEN request.line + 1 ELSE next(k)
  BY DEF IsEnds
<1> HIDE DEF next
<1>2. ASSUME NEW k \in 0..m PROVE g[k] = entry(k)
  <2>1. CASE k = 0
    <3>1. k \in 0..(m - 1) /\ g[k] = f[k]
      BY <2>1
    <3> HIDE DEF g
    <3> QED
      BY <1>1, <2>1, <3>1
  <2>2. CASE k # 0
    <3>1. g[k - 1] = f[k - 1] /\ entry(k) = next(k)
      <4>1. k - 1 \in 0..m /\ k - 1 < m
        BY <2>2
      <4>2. g[k - 1] = f[k - 1]
        BY <4>1
      <4> HIDE DEF g
      <4> QED
        BY <2>2, <4>2 DEF next
    <3>2. g[k] = next(k)
      <4>1. CASE k < m
        <5>1. k \in 0..(m - 1) /\ g[k] = f[k]
          BY <4>1
        <5> HIDE DEF g
        <5> QED
          BY <1>1, <2>2, <5>1
      <4>2. CASE k = m
        BY <4>2
      <4> QED
        BY <4>1, <4>2
    <3> HIDE DEF g
    <3> QED
      BY <3>1, <3>2
  <2> QED
    BY <2>1, <2>2
<1>3. g = [k \in 0..m |-> g[k]]
  OBVIOUS
<1> HIDE DEF g
<1>4. IsEnds(g, m)
  BY <1>2, <1>3 DEF IsEnds
<1> QED
  BY <1>4

\* So it exists, for any number of headers.
LEMMA EndsExist ==
  ASSUME NEW m \in Nat
  PROVE  \E f : IsEnds(f, m)
<1> DEFINE S == {k \in Nat : ~\E f : IsEnds(f, k)}
<1>1. S = {}
  <2> SUFFICES ASSUME S # {} PROVE FALSE
    OBVIOUS
  <2>1. S \in SUBSET Nat
    OBVIOUS
  <2>2. PICK k \in S : \A j \in S : k <= j
    <3> HIDE DEF S
    <3> QED
      BY <2>1, LeastExists
  <2>3. k \in Nat /\ ~\E f : IsEnds(f, k)
    BY <2>2
  <2>4. k # 0
    <3> DEFINE f == [i \in 0..0 |-> request.line + 1]
    <3>1. \A i \in 0..0 : i = 0
      OBVIOUS
    <3>2. IsEnds(f, 0)
      BY <3>1 DEF IsEnds
    <3> QED
      BY <2>3, <3>2
  <2>5. k - 1 \in Nat /\ k > 0 /\ k - 1 < k
    BY <2>3, <2>4
  <2>6. k - 1 \notin S
    BY <2>2, <2>5
  <2>7. PICK f : IsEnds(f, k - 1)
    BY <2>5, <2>6
  <2> QED
    BY <2>3, <2>5, <2>7, EndsGrow
<1> QED
  BY <1>1

\* A line ends behind its characters and the line break of the one before it.
LEMMA EndsFollow ==
  ASSUME Given
  PROVE  /\ Ends(0) = Line + 1
         /\ \A k \in 1..Count : Ends(k) = Ends(k - 1) + Len(request.headers[k]) + 2
<1> DEFINE f == CHOOSE g : IsEnds(g, Count)
<1>1. Count \in Nat
  BY RequestTypes
<1>2. IsEnds(f, Count)
  BY <1>1, EndsExist, Zenon
<1>3. LineEnds(request) = f
  BY Zenon DEF LineEnds, IsEnds, Count
<1> HIDE DEF f
<1>4. \A k \in 0..Count : f[k] = IF k = 0 THEN request.line + 1
                                 ELSE f[k - 1] + Len(request.headers[k]) + 2
  BY <1>2 DEF IsEnds
<1>5. 0 \in 0..Count /\ \A k \in 1..Count : k \in 0..Count /\ k # 0
  BY <1>1
<1>6. f[0] = request.line + 1 /\ \A k \in 1..Count : f[k] = f[k - 1] + Len(request.headers[k]) + 2
  BY <1>4, <1>5
<1> QED
  BY <1>3, <1>6 DEF Ends, Line

\* The lines are in their order, at least four characters apart.
LEMMA EndsInOrder ==
  ASSUME Given
  PROVE  /\ \A k \in 0..Count : Ends(k) \in Nat /\ Ends(k) >= Line + 1
         /\ \A j, k \in 0..Count : j < k => Ends(j) + 4 <= Ends(k)
         /\ \A j, k \in 0..Count : j <= k => Ends(j) <= Ends(k)
<1>1. /\ Line \in Nat /\ Count \in Nat /\ Ends(0) = Line + 1
      /\ \A k \in 1..Count : /\ Ends(k) = Ends(k - 1) + Len(request.headers[k]) + 2
                             /\ Len(request.headers[k]) \in Nat /\ Len(request.headers[k]) > 1
  BY RequestTypes, HeaderChars, EndsFollow
<1> DEFINE Fine(k) == /\ Ends(k) \in Nat /\ Ends(k) >= Line + 1
                      /\ \A j \in 0..(k - 1) : Ends(j) + 4 <= Ends(k)
           S == {k \in 0..Count : ~Fine(k)}
<1>2. S = {}
  <2> SUFFICES ASSUME S # {} PROVE FALSE
    OBVIOUS
  <2>1. S \in SUBSET Nat
    BY <1>1
  <2>2. PICK k \in S : \A j \in S : k <= j
    <3> HIDE DEF S
    <3> QED
      BY <2>1, LeastExists
  <2>3. k \in 0..Count /\ ~Fine(k)
    BY <2>2
  <2>4. k # 0
    BY <1>1, <2>3
  <2>5. k \in 1..Count /\ k - 1 \in 0..Count /\ k - 1 < k
    BY <1>1, <2>3, <2>4
  <2>6. Fine(k - 1)
    BY <2>2, <2>5
  <2>7. Ends(k) \in Nat /\ Ends(k) >= Line + 1 /\ Ends(k - 1) + 4 <= Ends(k)
    <3> DEFINE e == Ends(k - 1)
               l == Len(request.headers[k])
    <3>1. e \in Nat /\ e >= Line + 1
      BY <2>6
    <3>2. l \in Nat /\ l > 1 /\ Ends(k) = e + l + 2
      BY <1>1, <2>5
    <3> HIDE DEF e, l
    <3>3. e + l + 2 \in Nat /\ e + l + 2 >= Line + 1 /\ e + 4 <= e + l + 2
      BY <1>1, <3>1, <3>2
    <3> QED
      BY <3>2, <3>3 DEF e
  <2>8. \A j \in 0..(k - 1) : Ends(j) + 4 <= Ends(k)
    <3> SUFFICES ASSUME NEW j \in 0..(k - 1) PROVE Ends(j) + 4 <= Ends(k)
      OBVIOUS
    <3>1. CASE j = k - 1
      BY <2>7, <3>1
    <3>2. CASE j # k - 1
      <4>1. j \in 0..((k - 1) - 1)
        BY <2>5, <3>2
      <4>2. Ends(j) + 4 <= Ends(k - 1)
        BY <2>6, <4>1
      <4>3. j \in 0..Count /\ j \in Nat /\ j < k
        BY <1>1, <2>5
      <4>4. Fine(j)
        BY <2>2, <2>5, <4>3
      <4> QED
        BY <2>6, <2>7, <4>2, <4>4
    <3> QED
      BY <3>1, <3>2
  <2> QED
    BY <2>3, <2>7, <2>8
<1>3. \A k \in 0..Count : Fine(k)
  BY <1>2
<1>4. \A j, k \in 0..Count : j < k => j \in 0..(k - 1)
  BY <1>1
<1>5. \A j, k \in 0..Count : j < k => Ends(j) + 4 <= Ends(k)
  BY <1>3, <1>4
<1>6. ASSUME NEW j \in 0..Count, NEW k \in 0..Count, j <= k PROVE Ends(j) <= Ends(k)
  <2>1. Ends(j) \in Nat /\ Ends(k) \in Nat
    BY <1>3
  <2>2. j = k \/ j < k
    BY <1>1, <1>6
  <2> QED
    BY <1>5, <2>1, <2>2
<1> QED
  BY <1>3, <1>5, <1>6

\* The header that is being read behind place q: the one after line k.
At(k, q) == Ends(k) <= q /\ (k < Count => q < Ends(k + 1))

\* Every place behind the request line is at one header.
LEMMA Places ==
  ASSUME Given, NEW q \in Nat, Line < q
  PROVE  /\ \E k \in 0..Count : At(k, q)
         /\ \A j, k \in 0..Count : At(j, q) /\ At(k, q) => j = k
<1>1. /\ Line \in Nat /\ Count \in Nat /\ Ends(0) = Line + 1
      /\ \A k \in 0..Count : Ends(k) \in Nat
      /\ \A j, k \in 0..Count : j < k => Ends(j) + 4 <= Ends(k)
  BY RequestTypes, EndsFollow, EndsInOrder
<1> DEFINE S == {k \in 0..Count : Ends(k) > q}
<1>2. \E k \in 0..Count : At(k, q)
  <2>1. CASE S = {}
    <3>1. Count \in 0..Count /\ Ends(Count) <= q
      BY <1>1, <2>1
    <3> QED
      BY <1>1, <3>1 DEF At
  <2>2. CASE S # {}
    <3>1. S \in SUBSET Nat
      BY <1>1
    <3>2. PICK m \in S : \A j \in S : m <= j
      <4> HIDE DEF S
      <4> QED
        BY <2>2, <3>1, LeastExists
    <3>3. m \in 0..Count /\ Ends(m) > q
      BY <3>2
    <3>4. m # 0
      BY <1>1, <3>3
    <3>5. m - 1 \in 0..Count /\ m - 1 < m /\ (m - 1) + 1 = m
      BY <1>1, <3>3, <3>4
    <3>6. Ends(m - 1) <= q
      BY <1>1, <3>2, <3>5
    <3>7. At(m - 1, q)
      BY <3>3, <3>5, <3>6 DEF At
    <3> QED
      BY <3>5, <3>7
  <2> QED
    BY <2>1, <2>2
<1>3. ASSUME NEW j \in 0..Count, NEW k \in 0..Count, At(j, q), At(k, q), j < k PROVE FALSE
  <2>1. j + 1 \in 0..Count /\ (j + 1 = k \/ j + 1 < k) /\ j < Count
    BY <1>1, <1>3
  <2>2. Ends(j + 1) <= Ends(k)
    BY <1>1, <2>1
  <2> QED
    BY <1>1, <1>3, <2>1, <2>2 DEF At
<1>4. \A j, k \in 0..Count : j = k \/ j < k \/ k < j
  BY <1>1
<1> QED
  BY <1>2, <1>3, <1>4

\* Where everything is in what a client sends.
HeadShape ==
  /\ HeadEnd = Ends(Count) + 3
  /\ stream \in Seq(Chars) /\ Len(stream) = HeadEnd + Len(request.body)
  /\ \A i \in 1..Line : stream[i] \in HeadChars /\ (stream[i] = Url <=> i = Line - 1)
  /\ \A k \in 0..Count : stream[Ends(k)] = CR /\ stream[Ends(k) + 1] = LF
  /\ \A k \in 1..Count : \A i \in 1..Len(request.headers[k]) :
       stream[Ends(k - 1) + 1 + i] = request.headers[k][i]
  /\ stream[HeadEnd - 1] = CR /\ stream[HeadEnd] = LF
  /\ \A i \in 1..Len(request.body) : stream[HeadEnd + i] = request.body[i]

Carriages == {Ends(k) : k \in 0..Count} \cup {Ends(Count) + 2}
HeaderAt(i) == CHOOSE k \in 1..Count : i \in (Ends(k - 1) + 2)..(Ends(k) - 1)
CharAt(i) ==
  IF i \in Carriages THEN CR
  ELSE IF i - 1 \in Carriages THEN LF
  ELSE IF i = Line - 1 THEN Url
  ELSE IF i <= Line THEN Text
  ELSE request.headers[HeaderAt(i)][i - Ends(HeaderAt(i) - 1) - 1]

\* A head is its characters, place by place.
LEMMA HeadByPlace == HeadOf(request) = [i \in 1..(Ends(Count) + 3) |-> CharAt(i)]
BY Zenon DEF HeadOf, Ends, Count, Line, Carriages, HeaderAt, CharAt

\* What is at each place of a head.
LEMMA CharsOfHead ==
  ASSUME Given
  PROVE  /\ \A i \in 1..Line : CharAt(i) \in HeadChars /\ (CharAt(i) = Url <=> i = Line - 1)
         /\ \A k \in 0..Count : CharAt(Ends(k)) = CR /\ CharAt(Ends(k) + 1) = LF
         /\ \A k \in 1..Count : \A i \in 1..Len(request.headers[k]) :
              CharAt(Ends(k - 1) + 1 + i) = request.headers[k][i]
         /\ CharAt(Ends(Count) + 2) = CR /\ CharAt(Ends(Count) + 3) = LF
         /\ \A i \in 1..(Ends(Count) + 3) : CharAt(i) \in Chars
<1>1. /\ Line \in Nat /\ Line >= 2 /\ Count \in Nat
      /\ request.headers \in [1..Count -> Headers]
      /\ \A k \in 0..Count : Ends(k) \in Nat /\ Ends(k) >= Line + 1
      /\ \A j, k \in 0..Count : j < k => Ends(j) + 4 <= Ends(k)
      /\ \A j, k \in 0..Count : j <= k => Ends(j) <= Ends(k)
      /\ \A k \in 1..Count : /\ Ends(k) = Ends(k - 1) + Len(request.headers[k]) + 2
                             /\ Len(request.headers[k]) \in Nat
                             /\ \A i \in 1..Len(request.headers[k]) :
                                  request.headers[k][i] \in HeadChars
  BY RequestTypes, EndsFollow, EndsInOrder, HeaderChars
<1>2. Count \in 0..Count
  BY <1>1
<1>3. \A k \in 0..Count : Ends(k) <= Ends(Count)
  <2>1. \A k \in 0..Count : k <= Count
    BY <1>1
  <2> QED
    BY <1>1, <1>2, <2>1
<1>4. /\ \A k \in 0..Count : Ends(k) \in Carriages
      /\ Ends(Count) + 2 \in Carriages
      /\ \A i : i \in Carriages <=> i = Ends(Count) + 2 \/ \E k \in 0..Count : i = Ends(k)
  BY DEF Carriages
<1>5. \A i \in 1..Line : CharAt(i) = IF i = Line - 1 THEN Url ELSE Text
  <2> SUFFICES ASSUME NEW i \in 1..Line PROVE CharAt(i) = IF i = Line - 1 THEN Url ELSE Text
    OBVIOUS
  <2>1. \A k \in 0..Count : i # Ends(k) /\ i - 1 # Ends(k)
    BY <1>1
  <2>2. i # Ends(Count) + 2 /\ i - 1 # Ends(Count) + 2
    BY <1>1, <1>2
  <2>3. i \notin Carriages /\ i - 1 \notin Carriages /\ i <= Line
    BY <1>1, <1>4, <2>1, <2>2
  <2> QED
    BY <2>3 DEF CharAt
<1>6. ASSUME NEW k \in 0..Count PROVE CharAt(Ends(k)) = CR /\ CharAt(Ends(k) + 1) = LF
  <2>1. \A j \in 0..Count : Ends(k) + 1 # Ends(j)
    <3> SUFFICES ASSUME NEW j \in 0..Count, Ends(k) + 1 = Ends(j) PROVE FALSE
      OBVIOUS
    <3>1. j = k \/ j < k \/ k < j
      BY <1>1
    <3> QED
      BY <1>1, <3>1
  <2>2. Ends(k) + 1 # Ends(Count) + 2
    BY <1>1, <1>2, <1>3
  <2>3. Ends(k) + 1 \notin Carriages /\ (Ends(k) + 1) - 1 = Ends(k)
    BY <1>1, <1>4, <2>1, <2>2
  <2> QED
    BY <1>4, <2>3 DEF CharAt
<1>7. ASSUME NEW k \in 1..Count, NEW i \in (Ends(k - 1) + 2)..(Ends(k) - 1)
      PROVE  CharAt(i) = request.headers[k][i - Ends(k - 1) - 1]
  <2>0. k \in 0..Count /\ k - 1 \in 0..Count /\ k \in Nat
    BY <1>1
  <2>1. i \in Nat /\ Ends(k - 1) + 2 <= i /\ i + 1 <= Ends(k)
    BY <1>1, <2>0
  <2>2. \A j \in 0..Count : Ends(j) <= Ends(k - 1) \/ Ends(j) >= Ends(k)
    <3> SUFFICES ASSUME NEW j \in 0..Count PROVE Ends(j) <= Ends(k - 1) \/ Ends(j) >= Ends(k)
      OBVIOUS
    <3>1. j <= k - 1 \/ k <= j
      BY <1>1
    <3> QED
      BY <1>1, <2>0, <3>1
  <2>3. \A j \in 0..Count : i # Ends(j) /\ i - 1 # Ends(j)
    <3> SUFFICES ASSUME NEW j \in 0..Count PROVE i # Ends(j) /\ i - 1 # Ends(j)
      OBVIOUS
    <3>1. Ends(k) \in Nat /\ Ends(k - 1) \in Nat /\ Ends(j) \in Nat
      BY <1>1, <2>0
    <3> QED
      BY <2>1, <2>2, <3>1
  <2>4. i # Ends(Count) + 2 /\ i - 1 # Ends(Count) + 2
    <3>1. Ends(k) \in Nat /\ Ends(Count) \in Nat /\ Ends(k) <= Ends(Count)
      BY <1>1, <1>2, <1>3, <2>0
    <3> QED
      BY <2>1, <3>1
  <2>5. i \notin Carriages /\ i - 1 \notin Carriages
    BY <1>4, <2>3, <2>4
  <2>6. ~(i <= Line) /\ i # Line - 1
    BY <1>1, <2>0, <2>1
  <2>7. \A j \in 1..Count : i \in (Ends(j - 1) + 2)..(Ends(j) - 1) => j = k
    <3> SUFFICES ASSUME NEW j \in 1..Count, i \in (Ends(j - 1) + 2)..(Ends(j) - 1), j # k
                 PROVE  FALSE
      OBVIOUS
    <3>1. j \in 0..Count /\ j - 1 \in 0..Count /\ j \in Nat /\ (j <= k - 1 \/ k <= j - 1)
      BY <1>1, <2>0
    <3>2. Ends(j - 1) + 2 <= i /\ i + 1 <= Ends(j)
      <4>1. Ends(j - 1) \in Nat /\ Ends(j) \in Nat
        BY <1>1, <3>1
      <4> QED
        BY <4>1
    <3>3. CASE j <= k - 1
      <4>1. j <= k - 1 /\ Ends(j) <= Ends(k - 1)
        BY <1>1, <2>0, <3>1, <3>3
      <4>2. Ends(j) \in Nat /\ Ends(k - 1) \in Nat
        BY <1>1, <2>0, <3>1
      <4> QED
        BY <2>1, <3>2, <4>1, <4>2
    <3>4. CASE k <= j - 1
      <4>1. k <= j - 1 /\ Ends(k) <= Ends(j - 1)
        BY <1>1, <2>0, <3>1, <3>4
      <4>2. Ends(j - 1) \in Nat /\ Ends(k) \in Nat
        BY <1>1, <2>0, <3>1
      <4> QED
        BY <2>1, <3>2, <4>1, <4>2
    <3> QED
      BY <3>1, <3>3, <3>4
  <2>8. HeaderAt(i) = k
    BY <1>7, <2>7 DEF HeaderAt
  <2> QED
    BY <2>5, <2>6, <2>8 DEF CharAt
<1>8. ASSUME NEW k \in 1..Count, NEW i \in 1..Len(request.headers[k])
      PROVE  CharAt(Ends(k - 1) + 1 + i) = request.headers[k][i]
  <2> DEFINE p == Ends(k - 1) + 1 + i
  <2>0. k \in 0..Count /\ k - 1 \in 0..Count
    BY <1>1
  <2>1. p \in (Ends(k - 1) + 2)..(Ends(k) - 1) /\ p - Ends(k - 1) - 1 = i
    <3> DEFINE e == Ends(k - 1)
               l == Len(request.headers[k])
    <3>1. e \in Nat /\ l \in Nat /\ Ends(k) = e + l + 2 /\ i \in 1..l /\ p = e + 1 + i
      BY <1>1, <2>0
    <3> HIDE DEF e, l, p
    <3>2. p \in (e + 2)..((e + l + 2) - 1) /\ p - e - 1 = i
      BY <3>1
    <3> QED
      BY <3>1, <3>2 DEF e
  <2> HIDE DEF p
  <2>2. CharAt(p) = request.headers[k][i]
    BY <1>7, <2>1
  <2> QED
    BY <2>2 DEF p
<1>9. CharAt(Ends(Count) + 2) = CR
  BY <1>4 DEF CharAt
<1>10. CharAt(Ends(Count) + 3) = LF
  <2>1. \A k \in 0..Count : Ends(Count) + 3 # Ends(k)
    BY <1>1, <1>2, <1>3
  <2>2. Ends(Count) + 3 # Ends(Count) + 2 /\ (Ends(Count) + 3) - 1 = Ends(Count) + 2
    BY <1>1, <1>2
  <2> QED
    BY <1>4, <2>1, <2>2 DEF CharAt
<1>11. ASSUME NEW i \in 1..(Ends(Count) + 3) PROVE CharAt(i) \in Chars
  <2>0. i \in Nat /\ i >= 1 /\ i <= Ends(Count) + 3
    BY <1>1, <1>2
  <2>1. CASE i \in Carriages \/ i - 1 \in Carriages
    BY <2>1 DEF CharAt, Chars, Breaks
  <2>2. CASE i <= Line
    <3>1. i \in 1..Line
      BY <1>1, <2>0, <2>2
    <3> QED
      BY <1>5, <3>1 DEF Chars, HeadChars
  <2>3. CASE i \notin Carriages /\ i - 1 \notin Carriages /\ ~(i <= Line)
    <3>0. Line < i
      <4>1. Line \in Nat
        BY <1>1
      <4> QED
        BY <2>0, <2>3, <4>1
    <3>1. PICK k \in 0..Count : At(k, i)
      BY <2>0, <3>0, Places
    <3>2. i # Ends(k) /\ i - 1 # Ends(k) /\ i # Ends(Count) + 2 /\ i - 1 # Ends(Count) + 2
      BY <1>4, <2>3
    <3>3. i >= Ends(k) + 2
      <4> DEFINE e == Ends(k)
      <4>1. e \in Nat /\ e <= i /\ i # e /\ i - 1 # e
        BY <1>1, <3>1, <3>2 DEF At
      <4> HIDE DEF e
      <4>2. i >= e + 2
        BY <2>0, <4>1
      <4> QED
        BY <4>2 DEF e
    <3>4. k # Count
      <4> SUFFICES ASSUME k = Count PROVE FALSE
        OBVIOUS
      <4> DEFINE e == Ends(Count)
      <4>1. e \in Nat /\ i >= e + 2 /\ i <= e + 3 /\ i # e + 2 /\ i - 1 # e + 2
        BY <1>1, <1>2, <2>0, <3>2, <3>3
      <4> HIDE DEF e
      <4> QED
        BY <2>0, <4>1
    <3> DEFINE h == k + 1
    <3>5. h \in 1..Count /\ h - 1 = k /\ k < Count
      BY <1>1, <3>4
    <3>6. i < Ends(h)
      BY <3>1, <3>5 DEF At
    <3> HIDE DEF h
    <3>7. h \in 0..Count
      BY <1>1, <3>5
    <3>8. i \in (Ends(h - 1) + 2)..(Ends(h) - 1)
      BY <1>1, <2>0, <3>3, <3>5, <3>6, <3>7
    <3>9. CharAt(i) = request.headers[h][i - Ends(h - 1) - 1]
      BY <1>7, <3>5, <3>8
    <3>10. i - Ends(h - 1) - 1 \in 1..Len(request.headers[h])
      <4> DEFINE e == Ends(h - 1)
                 l == Len(request.headers[h])
      <4>1. e \in Nat /\ l \in Nat /\ Ends(h) = e + l + 2
        BY <1>1, <3>5
      <4>2. e + 2 <= i /\ i < e + l + 2
        BY <3>3, <3>5, <3>6, <4>1
      <4> HIDE DEF e, l
      <4>3. i - e - 1 \in 1..l
        BY <2>0, <4>1, <4>2
      <4> QED
        BY <4>3 DEF e, l
    <3> QED
      BY <1>1, <3>5, <3>9, <3>10 DEF Chars
  <2> QED
    BY <2>1, <2>2, <2>3
<1>12. \A i \in 1..Line : CharAt(i) \in HeadChars /\ (CharAt(i) = Url <=> i = Line - 1)
  <2>1. Url # Text /\ Url \in HeadChars /\ Text \in HeadChars
    BY DEF Url, Text, HeadChars
  <2> QED
    BY <1>5, <2>1
<1> QED
  BY <1>6, <1>8, <1>9, <1>10, <1>11, <1>12

\* The characters of a request are where HeadShape says.
LEMMA StreamShape ==
  ASSUME Given
  PROVE  HeadShape
<1> DEFINE h == HeadOf(request)
           d == request.body
           m == Ends(Count) + 3
<1>1. /\ Line \in Nat /\ Line >= 2 /\ Count \in Nat
      /\ \A k \in 0..Count : Ends(k) \in Nat /\ Ends(k) >= Line + 1 /\ Ends(k) <= Ends(Count)
      /\ \A k \in 1..Count : /\ Ends(k) = Ends(k - 1) + Len(request.headers[k]) + 2
                             /\ Len(request.headers[k]) \in Nat
  <2>1. /\ Line \in Nat /\ Line >= 2 /\ Count \in Nat
        /\ \A k \in 0..Count : Ends(k) \in Nat /\ Ends(k) >= Line + 1
        /\ \A j, k \in 0..Count : j < k => Ends(j) + 4 <= Ends(k)
        /\ \A k \in 1..Count : /\ Ends(k) = Ends(k - 1) + Len(request.headers[k]) + 2
                               /\ Len(request.headers[k]) \in Nat
    BY RequestTypes, EndsFollow, EndsInOrder, HeaderChars
  <2>2. Count \in 0..Count /\ \A k \in 0..Count : k = Count \/ k < Count
    BY <2>1
  <2>3. ASSUME NEW k \in 0..Count PROVE Ends(k) <= Ends(Count)
    <3>1. Ends(k) \in Nat /\ Ends(Count) \in Nat
      BY <2>1, <2>2
    <3>2. CASE k = Count
      BY <3>1, <3>2
    <3>3. CASE k < Count
      BY <2>1, <2>2, <3>1, <3>3
    <3> QED
      BY <2>2, <3>2, <3>3
  <2> QED
    BY <2>1, <2>3
<1>2. m \in Nat /\ m >= 1 /\ m = Ends(Count) + 3
  <2>1. Count \in 0..Count
    BY <1>1
  <2> QED
    BY <1>1, <2>1
<1>3. \A i \in 1..m : CharAt(i) \in Chars
  BY CharsOfHead
<1>4. h = [i \in 1..m |-> CharAt(i)]
  BY HeadByPlace
<1>5. d \in Seq(Chars)
  <2>1. {CR, LF, Text} \subseteq Chars
    BY DEF Chars, Breaks, HeadChars
  <2> QED
    BY <2>1, RequestTypes
<1>6. stream = h \o d
  BY DEF Given, StreamOf
<1>7. HeadEnd = Len(stream) - Len(d)
  BY DEF HeadEnd
<1> HIDE DEF h, d, m
<1>8. h \in Seq(Chars) /\ Len(h) = m /\ \A i \in 1..m : h[i] = CharAt(i)
  BY <1>2, <1>3, <1>4
<1>9. /\ stream \in Seq(Chars) /\ Len(stream) = m + Len(d)
      /\ \A i \in 1..m : stream[i] = CharAt(i)
      /\ \A i \in 1..Len(d) : stream[m + i] = d[i]
  <2>1. h \in Seq(Chars) /\ d \in Seq(Chars)
    BY <1>5, <1>8
  <2>2. /\ h \o d \in Seq(Chars) /\ Len(h \o d) = Len(h) + Len(d)
        /\ \A i \in 1..Len(h) : (h \o d)[i] = h[i]
        /\ \A i \in 1..Len(d) : (h \o d)[Len(h) + i] = d[i]
    BY <2>1, Concatenated
  <2> QED
    BY <1>6, <1>8, <2>2
<1>10. HeadEnd = m
  <2>1. Len(d) \in Nat
    BY <1>5
  <2> QED
    BY <1>2, <1>7, <1>9, <2>1
<1>11. \A i \in 1..Line : i \in 1..m
  <2>1. Count \in 0..Count
    BY <1>1
  <2> QED
    BY <1>1, <1>2, <2>1
<1>12. \A k \in 0..Count : Ends(k) \in 1..m /\ Ends(k) + 1 \in 1..m
  BY <1>1, <1>2
<1>13. \A k \in 1..Count : \A i \in 1..Len(request.headers[k]) : Ends(k - 1) + 1 + i \in 1..m
  <2> SUFFICES ASSUME NEW k \in 1..Count, NEW i \in 1..Len(request.headers[k])
               PROVE  Ends(k - 1) + 1 + i \in 1..m
    OBVIOUS
  <2> DEFINE e == Ends(k - 1)
             l == Len(request.headers[k])
  <2>1. k \in 0..Count /\ k - 1 \in 0..Count
    BY <1>1
  <2>2. e \in Nat /\ l \in Nat /\ Ends(k) = e + l + 2 /\ Ends(k) <= Ends(Count)
    BY <1>1, <2>1
  <2> HIDE DEF e, l
  <2>3. e + 1 + i \in 1..m
    <3>1. i \in 1..l
      BY DEF l
    <3> QED
      <4> DEFINE last == Ends(Count)
      <4>1. last \in Nat /\ e + l + 2 <= last /\ m = last + 3
        <5>1. Ends(Count) \in Nat
          BY <1>1
        <5> QED
          BY <1>2, <2>2, <5>1
      <4> HIDE DEF last
      <4> QED
        BY <2>2, <3>1, <4>1
  <2> QED
    BY <2>3 DEF e
<1>14. m - 1 \in 1..m /\ m \in 1..m /\ m - 1 = Ends(Count) + 2
  <2>1. Count \in 0..Count
    BY <1>1
  <2> QED
    BY <1>1, <1>2, <2>1
<1>15. stream[HeadEnd - 1] = CR /\ stream[HeadEnd] = LF
  BY <1>2, <1>9, <1>10, <1>14, CharsOfHead
<1> QED
  BY <1>2, <1>9, <1>10, <1>11, <1>12, <1>13, <1>15, CharsOfHead DEF HeadShape, d

-----------------------------------------------------------------------------
(***************************************************************************)
(* The scan is a recursive function: it exists, and what one character     *)
(* preserves holds of all it has passed.                                   *)
(***************************************************************************)
Advance(before, i) ==
  IF Stopped(before.s) THEN before ELSE [s |-> Step(before.s, read_buffer[i]), at |-> i]

Entry(f, start, i) ==
  IF i = start THEN [s |-> ScanStart, at |-> start] ELSE Advance(f[i - 1], i)

IsScan(f, start, m) == f = [i \in start..m |-> Entry(f, start, i)]

\* A scan of one character more.
LEMMA ScanGrows ==
  ASSUME NEW start \in Nat, NEW m \in Nat, start < m, NEW f, IsScan(f, start, m - 1)
  PROVE  \E g : IsScan(g, start, m)
<1> DEFINE g == [i \in start..m |-> IF i < m THEN f[i] ELSE Advance(f[m - 1], m)]
<1>1. \A i \in start..(m - 1) : f[i] = Entry(f, start, i)
  BY DEF IsScan
<1>2. ASSUME NEW i \in start..m
      PROVE  g[i] = Entry(g, start, i)
  <2>1. CASE i = start
    <3>1. i \in start..(m - 1) /\ g[i] = f[i]
      BY <2>1
    <3> QED
      BY <1>1, <2>1, <3>1 DEF Entry
  <2>2. CASE i # start /\ i < m
    <3>1. i \in start..(m - 1) /\ g[i] = f[i] /\ i - 1 \in start..m /\ i - 1 < m
      BY <2>2
    <3>2. g[i - 1] = f[i - 1]
      BY <3>1
    <3>3. f[i] = Advance(f[i - 1], i)
      BY <1>1, <2>2, <3>1 DEF Entry
    <3> HIDE DEF g
    <3> QED
      BY <2>2, <3>1, <3>2, <3>3 DEF Entry
  <2>3. CASE i = m
    <3>1. g[i] = Advance(f[m - 1], m) /\ g[m - 1] = f[m - 1] /\ i # start
      BY <2>3
    <3> HIDE DEF g
    <3> QED
      BY <2>3, <3>1 DEF Entry
  <2> QED
    BY <2>1, <2>2, <2>3
<1>3. g = [i \in start..m |-> g[i]]
  OBVIOUS
<1> HIDE DEF g
<1>4. IsScan(g, start, m)
  BY <1>2, <1>3 DEF IsScan
<1> QED
  BY <1>4

\* However long the buffer is, there is a scan of it.
LEMMA ScanExists ==
  ASSUME NEW start \in Nat, NEW m \in Nat, start <= m
  PROVE  \E f : IsScan(f, start, m)
<1> DEFINE S == {k \in Nat : start <= k /\ ~\E f : IsScan(f, start, k)}
<1>1. S = {}
  <2> SUFFICES ASSUME S # {} PROVE FALSE
    OBVIOUS
  <2>1. S \in SUBSET Nat
    OBVIOUS
  <2>2. PICK k \in S : \A j \in S : k <= j
    <3> HIDE DEF S
    <3> QED
      BY <2>1, LeastExists
  <2>3. k \in Nat /\ start <= k /\ ~\E f : IsScan(f, start, k)
    BY <2>2
  <2>4. k # start
    <3> DEFINE f == [i \in start..start |-> [s |-> ScanStart, at |-> start]]
    <3>1. \A i \in start..start : i = start
      OBVIOUS
    <3>2. f = [i \in start..start |-> Entry(f, start, i)]
      BY <3>1 DEF Entry
    <3>3. IsScan(f, start, start)
      BY <3>2 DEF IsScan
    <3> QED
      BY <2>3, <3>3
  <2>5. k - 1 \in Nat /\ start <= k - 1 /\ start < k
    BY <2>3, <2>4
  <2>6. k - 1 \notin S
    BY <2>2, <2>5
  <2>7. PICK f : IsScan(f, start, k - 1)
    BY <2>5, <2>6
  <2> QED
    BY <2>3, <2>5, <2>7, ScanGrows
<1> QED
  BY <1>1

\* Scan is the last entry of such a function.
LEMMA ScanIsEntry ==
  ASSUME NEW start \in Nat, n \in Nat, start <= n
  PROVE  \E f : IsScan(f, start, n) /\ Scan(start) = f[n]
<1> DEFINE f == CHOOSE g : IsScan(g, start, n)
<1>1. IsScan(f, start, n)
  BY ScanExists, Zenon
<1>2. Scan(start) = f[n]
  BY Zenon DEF Scan, IsScan, Entry, Advance
<1> QED
  BY <1>1, <1>2

-----------------------------------------------------------------------------
(***************************************************************************)
(* What one character does to the scan.                                    *)
(***************************************************************************)
HeaderLists == {<<>>} \cup {<<h>> : h \in ContentLengths}
LastChars == {"", CR, LF}
Memories == Seq(HeadChars)
Scans == [memory : Memories, completed : BOOLEAN, headers : HeaderLists,
          last_char : LastChars, skips : Nat, bad : BOOLEAN, over : BOOLEAN]

\* The five ways in which a character changes the record of a scan.
Counted(s, l, k) == [s EXCEPT !.last_char = l, !.skips = k]
Ended(s, m, l, k) == [s EXCEPT !.memory = m, !.last_char = l, !.skips = k]
Entered(s, h) == [s EXCEPT !.completed = TRUE, !.headers = h]
Spoiled(s) == [s EXCEPT !.bad = TRUE]
Full(s) == [s EXCEPT !.over = TRUE]

\* A character of a line break updates the count.
LEMMA CountFields ==
  ASSUME NEW s \in Scans, NEW l \in LastChars, NEW k \in Nat
  PROVE  LET t == Counted(s, l, k) IN
         /\ t \in Scans /\ t.last_char = l /\ t.skips = k
         /\ t.memory = s.memory /\ t.completed = s.completed
         /\ t.headers = s.headers /\ t.bad = s.bad /\ t.over = s.over
BY DEF Scans, Counted

\* Any other one updates the memory too, as the end of a line does.
LEMMA MemoryFields ==
  ASSUME NEW s \in Scans,
         NEW m \in Memories, NEW l \in LastChars, NEW k \in Nat
  PROVE  LET t == Ended(s, m, l, k) IN
         /\ t \in Scans /\ t.last_char = l /\ t.skips = k
         /\ t.memory = m /\ t.completed = s.completed
         /\ t.headers = s.headers /\ t.bad = s.bad /\ t.over = s.over
BY DEF Scans, Ended

\* A header that is required is kept.
LEMMA HeaderFields ==
  ASSUME NEW s \in Scans, NEW h \in HeaderLists
  PROVE  LET t == Entered(s, h) IN
         /\ t \in Scans /\ t.last_char = s.last_char /\ t.skips = s.skips
         /\ t.memory = s.memory /\ t.completed = TRUE /\ t.headers = h
         /\ t.bad = s.bad /\ t.over = s.over
BY DEF Scans, Entered

\* A second one of its kind makes the head bad.
LEMMA BadFields ==
  ASSUME NEW s \in Scans
  PROVE  LET t == Spoiled(s) IN
         /\ t \in Scans /\ t.completed = s.completed
         /\ t.headers = s.headers /\ t.bad = TRUE /\ t.over = s.over
BY DEF Scans, Spoiled

\* A character behind the last of the memory.
LEMMA OverFields ==
  ASSUME NEW s \in Scans
  PROVE  LET t == Full(s) IN
         /\ t \in Scans /\ t.completed = s.completed
         /\ t.headers = s.headers /\ t.bad = s.bad /\ t.over = TRUE
BY DEF Scans, Full

\* A Content-Length is in the headers exactly when its bit is set.
Kept(s) ==
  IF s.completed THEN \E h \in ContentLengths : s.headers = <<h>> ELSE s.headers = <<>>

\* Nothing but the fields named by the comment of a line changes.
SameHeaders(t, s) == t.completed = s.completed /\ t.headers = s.headers

StepOf(t, s, char) ==
  \/ /\ char = LF /\ t.last_char = LF /\ t.skips = s.skips + 1
     /\ ~t.bad /\ ~t.over /\ t.memory = s.memory /\ SameHeaders(t, s)
  \/ /\ char \in HeadChars /\ Len(s.memory) # BUFFER /\ t.last_char = "" /\ t.skips = 0
     /\ ~t.bad /\ ~t.over /\ t.memory = Append(s.memory, char) /\ SameHeaders(t, s)
  \/ /\ char \in HeadChars /\ Len(s.memory) = BUFFER
     /\ ~t.bad /\ t.over /\ SameHeaders(t, s)
  \/ /\ char = CR /\ ~GoodHeader(s.memory) /\ t.last_char = CR /\ t.skips = s.skips + 1
     /\ ~t.bad /\ ~t.over /\ t.memory = <<>> /\ SameHeaders(t, s)
  \/ /\ char = CR /\ GoodHeader(s.memory) /\ s.completed
     /\ t.bad /\ ~t.over /\ SameHeaders(t, s)
  \/ /\ char = CR /\ GoodHeader(s.memory) /\ ~s.completed /\ t.last_char = CR
     /\ t.skips = s.skips + 1 /\ ~t.bad /\ ~t.over /\ t.memory = <<>>
     /\ t.completed /\ t.headers = <<s.memory>>

\* A step of the scan, field by field.
LEMMA StepFields ==
  ASSUME NEW s \in Scans, ~s.bad, ~s.over, Kept(s), NEW char \in Chars
  PROVE  Step(s, char) \in Scans /\ StepOf(Step(s, char), s, char)
<1>1. char \in HeadChars => char # CR /\ char # LF
  BY BreaksApart
<1>2. char = CR \/ char = LF \/ char \in HeadChars
  BY DEF Chars, Breaks
<1>0. /\ s \in Scans
      /\ s.memory \in Memories /\ s.skips \in Nat /\ s.skips + 1 \in Nat /\ 0 \in Nat
      /\ "" \in LastChars /\ CR \in LastChars /\ LF \in LastChars
      /\ <<>> \in Memories /\ <<>> \in HeaderLists
  <2>1. s \in Scans
    OBVIOUS
  <2>2. s.skips \in Nat /\ s.memory \in Memories
    BY <2>1 DEF Scans
  <2>3. <<>> \in Memories
    BY DEF Memories
  <2>4. "" \in LastChars /\ CR \in LastChars /\ LF \in LastChars
    BY DEF LastChars
  <2>5. <<>> \in HeaderLists
    BY Zenon DEF HeaderLists
  <2>6. s.skips + 1 \in Nat /\ 0 \in Nat
    BY <2>2
  <2> QED
    BY <2>1, <2>2, <2>3, <2>4, <2>5, <2>6, Zenon
<1>3. CASE char = LF
  <2> DEFINE t == [s EXCEPT !.last_char = LF, !.skips = s.skips + 1]
  <2>1. Step(s, char) = t
    BY <1>3, BreaksApart DEF Step
  <2>2. /\ t \in Scans /\ t.last_char = LF /\ t.skips = s.skips + 1
        /\ t.memory = s.memory /\ t.completed = s.completed
        /\ t.headers = s.headers /\ t.bad = s.bad /\ t.over = s.over
    <3> DEFINE k == s.skips + 1
    <3>1. t = Counted(s, LF, k)
      BY DEF Counted
    <3>2. k \in Nat /\ LF \in LastChars
      BY <1>0
    <3> HIDE DEF t, k
    <3>3. /\ t \in Scans /\ t.last_char = LF /\ t.skips = k
          /\ t.memory = s.memory /\ t.completed = s.completed
          /\ t.headers = s.headers /\ t.bad = s.bad /\ t.over = s.over
      BY <3>1, <3>2, CountFields
    <3> QED
      BY <3>3 DEF k
  <2> HIDE DEF t
  <2> QED
    BY <1>3, <2>1, <2>2 DEF StepOf, SameHeaders
<1>4. CASE char \in HeadChars /\ Len(s.memory) # BUFFER
  <2> DEFINE t == [s EXCEPT !.memory = Append(s.memory, char), !.last_char = "", !.skips = 0]
  <2>1. Step(s, char) = t
    BY <1>1, <1>4 DEF Step, Remember
  <2>2. Append(s.memory, char) \in Memories
    <3>1. \A S, m, c : m \in Seq(S) /\ c \in S => Append(m, c) \in Seq(S)
      OBVIOUS
    <3> QED
      BY <1>0, <1>4, <3>1 DEF Memories
  <2>3. /\ t \in Scans /\ t.last_char = "" /\ t.skips = 0
        /\ t.memory = Append(s.memory, char) /\ t.completed = s.completed
        /\ t.headers = s.headers /\ t.bad = s.bad /\ t.over = s.over
    <3>1. t = Ended(s, Append(s.memory, char), "", 0)
      BY DEF Ended
    <3> DEFINE m == Append(s.memory, char)
               l == ""
               k == 0
    <3> HIDE DEF t, m, l, k
    <3>2. m \in Memories /\ t = Ended(s, m, l, k) /\ l \in LastChars /\ k \in Nat
      BY <1>0, <2>2, <3>1 DEF m, l, k
    <3>3. /\ t \in Scans /\ t.last_char = l /\ t.skips = k
          /\ t.memory = m /\ t.completed = s.completed
          /\ t.headers = s.headers /\ t.bad = s.bad /\ t.over = s.over
      BY <3>2, MemoryFields
    <3> QED
      BY <3>3 DEF m, l, k
  <2> HIDE DEF t
  <2> QED
    BY <1>4, <2>1, <2>3 DEF StepOf, SameHeaders
<1>6. CASE char \in HeadChars /\ Len(s.memory) = BUFFER
  <2> DEFINE t == [s EXCEPT !.over = TRUE]
  <2>1. Step(s, char) = t
    BY <1>1, <1>6 DEF Step, Remember
  <2>2. t \in Scans /\ t.completed = s.completed /\ t.headers = s.headers
        /\ t.bad = s.bad /\ t.over = TRUE
    <3>1. t = Full(s)
      BY DEF Full
    <3> HIDE DEF t
    <3> QED
      BY <1>0, <3>1, OverFields
  <2> HIDE DEF t
  <2> QED
    BY <1>6, <2>1, <2>2 DEF StepOf, SameHeaders
<1>5. CASE char = CR
  <2>1. Step(s, char) = EndLine(s)
    BY <1>5, BreaksApart DEF Step
  <2> DEFINE ended == [s EXCEPT !.memory = <<>>, !.last_char = CR, !.skips = s.skips + 1]
  <2>2. /\ ended \in Scans /\ ended.memory = <<>> /\ ended.last_char = CR
        /\ ended.skips = s.skips + 1 /\ ended.completed = s.completed
        /\ ended.headers = s.headers /\ ended.bad = s.bad /\ ended.over = s.over
    <3>1. ended = Ended(s, <<>>, CR, s.skips + 1)
      BY DEF Ended
    <3> DEFINE m == <<>>
               k == s.skips + 1
    <3> HIDE DEF ended, m, k
    <3>2. m \in Memories /\ ended = Ended(s, m, CR, k) /\ CR \in LastChars /\ k \in Nat
      BY <1>0, <3>1 DEF m, k
    <3>3. /\ ended \in Scans /\ ended.last_char = CR /\ ended.skips = k
          /\ ended.memory = m /\ ended.completed = s.completed
          /\ ended.headers = s.headers /\ ended.bad = s.bad /\ ended.over = s.over
      BY <3>2, MemoryFields
    <3> QED
      BY <3>3 DEF m, k
  <2>3. CASE ~GoodHeader(s.memory)
    <3>1. EndLine(s) = ended
      BY <2>3 DEF EndLine
    <3> HIDE DEF ended
    <3> QED
      BY <1>5, <2>1, <2>2, <2>3, <3>1 DEF StepOf, SameHeaders
  <2>4. CASE GoodHeader(s.memory) /\ s.completed
    <3> DEFINE t == [s EXCEPT !.bad = TRUE]
    <3>1. EndLine(s) = t
      BY <2>4 DEF EndLine
    <3>2. t \in Scans /\ t.completed = s.completed /\ t.headers = s.headers
          /\ t.bad = TRUE /\ t.over = s.over
      <4>1. t = Spoiled(s)
        BY DEF Spoiled
      <4> HIDE DEF t
      <4> QED
        BY <1>0, <4>1, BadFields
    <3> HIDE DEF t
    <3> QED
      BY <1>5, <2>1, <2>4, <3>1, <3>2 DEF StepOf, SameHeaders
  <2>5. CASE GoodHeader(s.memory) /\ ~s.completed
    <3> DEFINE longer == Append(ended.headers, s.memory)
               t == [ended EXCEPT !.completed = TRUE, !.headers = longer]
    <3>1. EndLine(s) = t
      BY <2>5 DEF EndLine
    <3>2. longer = <<s.memory>> /\ s.memory \in ContentLengths
      <4>1. ended.headers = <<>> /\ s.memory \in ContentLengths
        BY <2>2, <2>5 DEF Kept, GoodHeader
      <4>2. \A x : Append(<<>>, x) = <<x>>
        OBVIOUS
      <4> HIDE DEF ended
      <4> QED
        BY <4>1, <4>2
    <3> HIDE DEF ended
    <3>3. longer \in HeaderLists
      BY <3>2, Zenon DEF HeaderLists
    <3> HIDE DEF longer
    <3>4. /\ t \in Scans /\ t.memory = ended.memory /\ t.last_char = ended.last_char
          /\ t.skips = ended.skips /\ t.bad = ended.bad /\ t.over = ended.over
          /\ t.completed = TRUE /\ t.headers = longer
      <4>1. t = Entered(ended, longer)
        BY DEF Entered
      <4> HIDE DEF t
      <4> QED
        BY <1>0, <2>2, <3>3, <4>1, HeaderFields
    <3> HIDE DEF t
    <3> QED
      BY <1>5, <2>1, <2>2, <2>5, <3>1, <3>2, <3>4 DEF StepOf
  <2> QED
    BY <2>3, <2>4, <2>5
<1> QED
  BY <1>2, <1>3, <1>4, <1>5, <1>6

-----------------------------------------------------------------------------
(***************************************************************************)
(* What the scan knows behind the first q characters of the stream, when   *)
(* it began behind the first from of them.                                 *)
(***************************************************************************)

\* Nothing but line breaks from place a to place b.
Solid(a, b) == \A p \in a..b : stream[p] \in Breaks

\* skips counts the line breaks right behind the place, from `from` on.
Run(from, q, s) ==
  /\ s.skips <= q - from
  /\ Solid(q - s.skips + 1, q)
  /\ s.skips < q - from => stream[q - s.skips] \notin Breaks
  /\ s.last_char = LF <=> q > from /\ stream[q] = LF

\* The text of an unfinished line is not longer than what was sent of the line.
TailIs(q, text) ==
  text = <<>> \/ \E p \in 1..q : /\ stream[p] \notin Breaks
                                /\ \A j \in p..q : stream[j] # CR
                                /\ Len(text) <= q - p + 1

\* More than BUFFER characters were sent with no CR between them.
LongLine(q) ==
  \E i \in 1..(q - BUFFER) :
    stream[i] # LF /\ \A j \in i..(i + BUFFER) : stream[j] # CR

\* The memory holds as much of a header as was read of it.
TextAt(k, q) ==
  IF k < Count /\ q > Ends(k) THEN SubSeq(request.headers[k + 1], 1, q - Ends(k) - 1)
  ELSE <<>>
MemoryIs(q, text) == \E k \in 0..Count : At(k, q) /\ text = TextAt(k, q)

\* The Content-Lengths whose line has ended.
Seen(q) == {k \in Lengths : Ends(k) <= q}

SeenIs(q, done, hs) ==
  /\ done <=> request.method = "POST" /\ Seen(q) # {}
  /\ done => \E k \in Seen(q) : hs = <<request.headers[k]>>
  /\ request.method = "POST" => \A j, k \in Seen(q) : j = k

Twice == request.method = "POST" /\ \E j, k \in Lengths : j # k
TooLong == \E k \in 1..Count : Len(request.headers[k]) > BUFFER

HeadRead(q, s) ==
  IF s.bad THEN Twice
  ELSE IF s.over THEN TooLong
  ELSE MemoryIs(q, s.memory) /\ SeenIs(q, s.completed, s.headers)

\* The scan stops at the blank line that ends a head with headers.
NotPast(from, q, s) ==
  Count > 0 /\ from <= HeadEnd - 4 => q < HeadEnd \/ (q = HeadEnd /\ Stopped(s))

Scanned(from, q, s) ==
  /\ s \in Scans /\ Kept(s) /\ (s.completed => request.method = "POST")
  /\ ~s.bad \/ ~s.over
  /\ ~s.bad /\ ~s.over => Run(from, q, s) /\ TailIs(q, s.memory)
  /\ s.over => LongLine(q)
  /\ q <= HeadEnd => HeadRead(q, s)
  /\ NotPast(from, q, s)

\* The count of line breaks is kept.
LEMMA RunStep ==
  ASSUME NEW from \in Nat, NEW q \in Nat, from <= q, NEW s \in Scans, NEW t \in Scans,
         ~t.bad, ~t.over, Run(from, q, s), StepOf(t, s, stream[q + 1])
  PROVE  Run(from, q + 1, t)
<1> DEFINE char == stream[q + 1]
<1>1. s.skips \in Nat /\ t.skips \in Nat
  BY DEF Scans
<1>2. CASE char \in HeadChars
  <2>1. t.skips = 0 /\ t.last_char = "" /\ char \notin Breaks /\ char # LF
    BY <1>2, BreaksApart DEF StepOf, Breaks
  <2>2. "" # LF
    BY DEF LF
  <2> DEFINE k == t.skips
  <2> HIDE DEF k
  <2>3. k = 0
    BY <2>1 DEF k
  <2>4. k <= (q + 1) - from /\ (q + 1) - k = q + 1
    BY <2>3
  <2>5. Solid((q + 1) - k + 1, q + 1)
    BY <2>3 DEF Solid
  <2>6. stream[(q + 1) - k] \notin Breaks
    BY <2>1, <2>4
  <2>7. t.last_char = LF <=> q + 1 > from /\ stream[q + 1] = LF
    BY <2>1, <2>2
  <2> QED
    <3>1. t.skips <= (q + 1) - from /\ Solid((q + 1) - t.skips + 1, q + 1)
      BY <2>4, <2>5 DEF k
    <3>2. stream[(q + 1) - t.skips] \notin Breaks
      BY <2>6 DEF k
    <3> QED
      BY <2>7, <3>1, <3>2 DEF Run
<1>3. CASE char \notin HeadChars
  <2>1. /\ char \in Breaks /\ t.skips = s.skips + 1
        /\ t.last_char = LF <=> char = LF
    BY <1>3, BreaksApart DEF StepOf, Breaks
  <2> DEFINE k == s.skips
             j == t.skips
  <2>2. /\ k \in Nat /\ j = k + 1 /\ k <= q - from /\ Solid(q - k + 1, q)
        /\ k < q - from => stream[q - k] \notin Breaks
    BY <1>1, <2>1 DEF Run
  <2> HIDE DEF k, j
  <2>3. /\ (q + 1) - j = q - k /\ j <= (q + 1) - from
        /\ j < (q + 1) - from => k < q - from
        /\ q + 1 > from
    BY <2>2
  <2>4. Solid((q + 1) - j + 1, q + 1)
    <3> SUFFICES ASSUME NEW p \in ((q + 1) - j + 1)..(q + 1) PROVE stream[p] \in Breaks
      BY DEF Solid
    <3>1. p = q + 1 \/ p \in (q - k + 1)..q
      BY <2>2
    <3> QED
      BY <2>1, <2>2, <3>1 DEF Solid
  <2>5. j < (q + 1) - from => stream[(q + 1) - j] \notin Breaks
    BY <2>2, <2>3
  <2>6. t.last_char = LF <=> q + 1 > from /\ stream[q + 1] = LF
    BY <2>1, <2>3
  <2> QED
    <3>1. t.skips <= (q + 1) - from /\ Solid((q + 1) - t.skips + 1, q + 1)
      BY <2>3, <2>4 DEF j
    <3>2. t.skips < (q + 1) - from => stream[(q + 1) - t.skips] \notin Breaks
      BY <2>5 DEF j
    <3> QED
      BY <2>6, <3>1, <3>2 DEF Run
<1> QED
  BY <1>2, <1>3

\* A line that grows by a character grows by one that was sent.
LEMMA TailStep ==
  ASSUME Given, NEW q \in Nat, NEW s \in Scans, NEW t \in Scans,
         TailIs(q, s.memory), StepOf(t, s, stream[q + 1])
  PROVE  /\ ~t.bad /\ ~t.over => TailIs(q + 1, t.memory)
         /\ t.over => LongLine(q + 1)
<1> DEFINE m == s.memory
           c == stream[q + 1]
<1>1. m \in Memories /\ Len(m) \in Nat /\ BUFFER \in Nat /\ BUFFER > 4
  BY BufferAssumption DEF Scans, Memories
<1>2. c \in HeadChars => c \notin Breaks /\ c # CR
  BY BreaksApart DEF Breaks
<1>3. LF # CR
  BY BreaksApart
<1>4. CASE t.memory = <<>> /\ ~t.over
  BY <1>4 DEF TailIs
<1>5. CASE ~t.over /\ ((t.memory = m /\ c = LF) \/ (c \in HeadChars /\ t.memory = Append(m, c)))
  <2>1. CASE m = <<>> /\ c = LF
    BY <1>3, <1>5, <2>1, BreaksApart DEF TailIs
  <2>2. CASE m = <<>> /\ c \in HeadChars
    <3>1. t.memory = Append(<<>>, c)
      BY <1>5, <2>2, BreaksApart
    <3>2. Len(t.memory) = 1
      BY <3>1
    <3>3. /\ q + 1 \in 1..(q + 1) /\ \A j \in (q + 1)..(q + 1) : j = q + 1
          /\ 1 <= (q + 1) - (q + 1) + 1
      OBVIOUS
    <3> QED
      BY <1>2, <1>5, <2>2, <3>2, <3>3 DEF TailIs
  <2>3. CASE m # <<>>
    <3>1. PICK p \in 1..q : /\ stream[p] \notin Breaks
                            /\ \A j \in p..q : stream[j] # CR
                            /\ Len(m) <= q - p + 1
      BY <2>3 DEF TailIs
    <3>2. Len(t.memory) \in Nat /\ Len(t.memory) <= Len(m) + 1
      <4>1. Len(Append(m, c)) = Len(m) + 1
        BY <1>1 DEF Memories
      <4> QED
        BY <1>1, <1>5, <4>1
    <3>3. Len(t.memory) <= (q + 1) - p + 1
      BY <1>1, <3>1, <3>2
    <3>4. c # CR
      BY <1>2, <1>3, <1>5
    <3>5. \A j \in p..(q + 1) : stream[j] # CR
      <4>1. \A j \in p..(q + 1) : j \in p..q \/ j = q + 1
        OBVIOUS
      <4> QED
        BY <3>1, <3>4, <4>1
    <3>6. p \in 1..(q + 1)
      OBVIOUS
    <3> QED
      BY <1>5, <3>1, <3>3, <3>5, <3>6 DEF TailIs
  <2> QED
    BY <1>5, <2>1, <2>2, <2>3
<1>6. CASE t.over
  <2>1. c \in HeadChars /\ Len(m) = BUFFER
    BY <1>6 DEF StepOf
  <2>2. m # <<>>
    BY <1>1, <2>1
  <2>3. PICK p \in 1..q : /\ stream[p] \notin Breaks
                          /\ \A j \in p..q : stream[j] # CR
                          /\ Len(m) <= q - p + 1
    BY <2>2 DEF TailIs
  <2>4. p \in 1..((q + 1) - BUFFER) /\ \A j \in p..(p + BUFFER) : j \in p..q \/ j = q + 1
    BY <1>1, <2>1, <2>3
  <2>5. stream[p] # LF /\ \A j \in p..(p + BUFFER) : stream[j] # CR
    BY <1>2, <2>1, <2>3, <2>4 DEF Breaks
  <2> QED
    BY <1>6, <2>4, <2>5 DEF LongLine
<1>7. \/ t.over
      \/ /\ ~t.over
         /\ \/ t.bad
            \/ t.memory = <<>>
            \/ t.memory = m /\ c = LF
            \/ c \in HeadChars /\ t.memory = Append(m, c)
  BY DEF StepOf
<1> QED
  BY <1>4, <1>5, <1>6, <1>7

\* What was sent stays sent.
LEMMA LongLineGrows ==
  ASSUME NEW p \in Nat, NEW q \in Nat, p <= q, LongLine(p)
  PROVE  LongLine(q)
<1>1. BUFFER \in Nat
  BY BufferAssumption
<1>2. \A i \in 1..(p - BUFFER) : i \in 1..(q - BUFFER)
  BY <1>1
<1> QED
  BY <1>2 DEF LongLine

\* The characters of a header, by their places.
LEMMA HeaderPlace ==
  ASSUME Given, NEW k \in 1..Count, NEW q \in Nat, Ends(k - 1) + 2 <= q, q < Ends(k)
  PROVE  /\ q - Ends(k - 1) - 1 \in 1..Len(request.headers[k])
         /\ stream[q] = request.headers[k][q - Ends(k - 1) - 1]
         /\ stream[q] \in HeadChars
<1> DEFINE e == Ends(k - 1)
           h == request.headers[k]
           l == Len(h)
           i == q - e - 1
<1>1. k - 1 \in 0..Count /\ h \in Headers
  BY RequestTypes
<1>2. e \in Nat /\ l \in Nat /\ Ends(k) = e + l + 2 /\ \A j \in 1..l : h[j] \in HeadChars
  BY <1>1, EndsInOrder, EndsFollow, HeaderChars
<1>3. \A j \in 1..l : stream[e + 1 + j] = h[j]
  BY StreamShape DEF HeadShape
<1>4. e + 2 <= q /\ q < e + l + 2
  BY <1>2
<1> HIDE DEF e, l, h
<1>5. i \in 1..l /\ e + 1 + i = q
  BY <1>2, <1>4
<1>6. stream[q] = h[i] /\ h[i] \in HeadChars
  BY <1>2, <1>3, <1>5
<1> QED
  BY <1>5, <1>6 DEF e, h, l

\* A header's CR follows a character of the header.
LEMMA BeforeCarriage ==
  ASSUME Given, NEW k \in 1..Count
  PROVE  stream[Ends(k) - 1] \in HeadChars /\ stream[Ends(k) - 1] \notin Breaks
<1>1. k - 1 \in 0..Count /\ k \in 0..Count /\ k - 1 < k
  BY RequestTypes
<1>2. Ends(k) \in Nat /\ Ends(k - 1) \in Nat /\ Ends(k - 1) + 4 <= Ends(k)
  BY <1>1, EndsInOrder
<1>3. Ends(k) - 1 \in Nat /\ Ends(k - 1) + 2 <= Ends(k) - 1 /\ Ends(k) - 1 < Ends(k)
  BY <1>2
<1>4. stream[Ends(k) - 1] \in HeadChars
  BY <1>3, HeaderPlace
<1> QED
  BY <1>4, BreaksApart DEF Breaks

\* The line breaks at the end of a head and what is before them.
LEMMA HeadTail ==
  ASSUME Given
  PROVE  /\ HeadEnd \in Nat /\ Line \in Nat /\ Count \in Nat
         /\ HeadEnd = Ends(Count) + 3 /\ Ends(Count) \in Nat /\ Ends(Count) >= Line + 1
         /\ Count = 0 => Ends(Count) = Line + 1
         /\ Solid(HeadEnd - 3, HeadEnd) /\ stream[HeadEnd - 4] \notin Breaks
         /\ stream[HeadEnd] = LF
<1>1. HeadShape /\ Line \in Nat /\ Count \in Nat /\ Line >= 2
  BY RequestTypes, StreamShape
<1>2. Count \in 0..Count
  BY <1>1
<1>3. Ends(Count) \in Nat /\ Ends(Count) >= Line + 1 /\ (Count = 0 => Ends(Count) = Line + 1)
  BY <1>2, EndsInOrder, EndsFollow
<1>4. HeadEnd = Ends(Count) + 3
  BY <1>1 DEF HeadShape
<1> DEFINE e == Ends(Count)
           d == HeadEnd
<1>5. stream[e] = CR /\ stream[e + 1] = LF /\ stream[d - 1] = CR /\ stream[d] = LF
  BY <1>1, <1>2 DEF HeadShape
<1>6. stream[e - 1] \notin Breaks
  <2>1. CASE Count = 0
    <3>1. e - 1 = Line /\ Line \in 1..Line
      BY <1>1, <1>3, <2>1
    <3>2. \A i \in 1..Line : stream[i] \in HeadChars
      BY <1>1 DEF HeadShape
    <3>3. stream[e - 1] \in HeadChars
      BY <3>1, <3>2
    <3> QED
      BY <3>3, BreaksApart DEF Breaks
  <2>2. CASE Count # 0
    <3>1. Count \in 1..Count
      BY <1>1, <2>2
    <3> QED
      BY <3>1, BeforeCarriage
  <2> QED
    BY <2>1, <2>2
<1>7. e \in Nat /\ d = e + 3
  BY <1>3, <1>4
<1> HIDE DEF e, d
<1>8. Solid(d - 3, d)
  <2> SUFFICES ASSUME NEW p \in (d - 3)..d PROVE stream[p] \in Breaks
    BY DEF Solid
  <2>1. p = e \/ p = e + 1 \/ p = d - 1 \/ p = d
    BY <1>7
  <2> QED
    BY <1>5, <2>1 DEF Breaks
<1>9. d - 4 = e - 1 /\ d \in Nat
  BY <1>7
<1> QED
  BY <1>1, <1>3, <1>4, <1>5, <1>6, <1>8, <1>9 DEF d

\* A scan that began before the blank line knows it when it is behind it.
LEMMA StopsThere ==
  ASSUME Given, NEW from \in Nat, from <= HeadEnd - 4,
         NEW s \in Scans, Run(from, HeadEnd, s)
  PROVE  BlankLine(s)
<1> DEFINE k == s.skips
           e == HeadEnd
<1>1. /\ e \in Nat /\ Solid(e - 3, e) /\ stream[e - 4] \notin Breaks /\ stream[e] = LF
      /\ k \in Nat /\ k <= e - from /\ Solid(e - k + 1, e)
      /\ k < e - from => stream[e - k] \notin Breaks
      /\ from <= e - 4
  BY HeadTail DEF Run, Scans
<1>2. s.last_char = LF
  <2>1. HeadEnd > from
    BY <1>1
  <2> QED
    BY <1>1, <2>1 DEF Run
<1> HIDE DEF k, e
<1>3. ~(k > 4)
  <2> SUFFICES ASSUME k > 4 PROVE FALSE
    OBVIOUS
  <2>1. e - 4 \in (e - k + 1)..e
    BY <1>1
  <2> QED
    BY <1>1, <2>1 DEF Solid
<1>4. ~(k < 4)
  <2> SUFFICES ASSUME k < 4 PROVE FALSE
    OBVIOUS
  <2>1. e - k \in (e - 3)..e /\ k < e - from
    BY <1>1
  <2> QED
    BY <1>1, <2>1 DEF Solid
<1>5. k = 4
  BY <1>1, <1>3, <1>4
<1> QED
  BY <1>2, <1>5 DEF BlankLine, k

\* Four line breaks behind the request line are those of the blank line, in the
\* head and in a body that holds no blank line.
LEMMA BlankOnlyThere ==
  ASSUME Given, NEW from \in Nat, from >= Line + 1, NEW q \in Nat,
         q <= Len(stream), q <= HeadEnd \/ Plain(request.body),
         NEW s \in Scans, Run(from, q, s), BlankLine(s)
  PROVE  q = HeadEnd /\ Count > 0 /\ from <= HeadEnd - 4
<1>1. /\ HeadShape /\ HeadEnd \in Nat /\ Line \in Nat /\ Count \in Nat
      /\ HeadEnd = Ends(Count) + 3 /\ Ends(Count) \in Nat /\ Ends(Count) >= Line + 1
      /\ Count = 0 => Ends(Count) = Line + 1
      /\ request.body \in Seq({CR, LF, Text})
  BY RequestTypes, StreamShape, HeadTail
<1>2. 4 <= q - from /\ \A p \in (q - 3)..q : stream[p] \in Breaks
  <2>1. s.skips = 4
    BY DEF BlankLine
  <2>2. Solid(q - 4 + 1, q) /\ 4 <= q - from
    BY <2>1 DEF Run
  <2>3. q - 4 + 1 = q - 3
    OBVIOUS
  <2> QED
    BY <2>2, <2>3 DEF Solid
<1>3. ASSUME q <= HeadEnd PROVE q = HeadEnd
  <2>1. q > Line /\ q >= Line + 5
    BY <1>1, <1>2
  <2>2. PICK k \in 0..Count : At(k, q)
    BY <2>1, Places
  <2>3. Ends(k) \in Nat /\ Ends(k) <= q /\ k \in Nat
    BY <1>1, <2>2, EndsInOrder DEF At
  <2>4. ASSUME NEW j \in 1..Count, Ends(j) - 1 \in (q - 3)..q PROVE FALSE
    BY <1>2, <2>4, BeforeCarriage
  <2>5. ASSUME q = Ends(k) \/ q = Ends(k) + 1 \/ q = Ends(k) + 2 PROVE k = 0
    <3> SUFFICES ASSUME k # 0 PROVE FALSE
      OBVIOUS
    <3>1. k \in 1..Count
      BY <1>1, <2>3
    <3> DEFINE e == Ends(k)
    <3>2. e \in Nat /\ (q = e \/ q = e + 1 \/ q = e + 2)
      BY <2>3, <2>5
    <3> HIDE DEF e
    <3>3. e - 1 \in (q - 3)..q
      BY <3>2
    <3> QED
      BY <2>4, <3>1, <3>3 DEF e
  <2>6. CASE k = Count
    <3> DEFINE e == Ends(Count)
               d == HeadEnd
    <3>1. e \in Nat /\ d = e + 3 /\ e <= q /\ q <= d /\ (Count = 0 => e = Line + 1)
      BY <1>1, <1>3, <2>3, <2>6
    <3>2. q = e \/ q = e + 1 \/ q = e + 2 => Count = 0
      BY <2>5, <2>6
    <3> HIDE DEF e, d
    <3>3. q = d
      BY <1>1, <2>1, <3>1, <3>2
    <3> QED
      BY <3>3 DEF d
  <2>7. CASE k # Count
    <3> DEFINE m == k + 1
    <3>1. m \in 1..Count /\ m - 1 = k /\ q < Ends(m)
      BY <1>1, <2>2, <2>3, <2>7 DEF At
    <3>2. q < Ends(k) + 2
      <4> SUFFICES ASSUME ~(q < Ends(k) + 2) PROVE FALSE
        OBVIOUS
      <4>1. Ends(k) + 2 <= q
        BY <2>3
      <4> HIDE DEF m
      <4>2. stream[q] \in HeadChars
        BY <3>1, <4>1, HeaderPlace
      <4>3. stream[q] \in Breaks
        BY <1>2
      <4> QED
        BY <4>2, <4>3, BreaksApart DEF Breaks
    <3>3. q = Ends(k) \/ q = Ends(k) + 1
      BY <2>3, <3>2
    <3>4. k = 0
      BY <2>5, <3>3
    <3>5. Ends(0) = Line + 1
      BY EndsFollow
    <3> QED
      BY <1>1, <2>1, <3>3, <3>4, <3>5
  <2> QED
    BY <2>6, <2>7
<1>4. ASSUME q > HeadEnd PROVE FALSE
  <2>1. /\ Plain(request.body)
        /\ Len(stream) = HeadEnd + Len(request.body) /\ Len(request.body) \in Nat
    BY <1>1, <1>4 DEF HeadShape
  <2>2. \A i \in 1..Len(request.body) : stream[HeadEnd + i] = request.body[i]
    BY <1>1 DEF HeadShape
  <2>3. CASE q - 3 <= HeadEnd
    <3>1. 1 \in 1..Len(request.body) /\ HeadEnd + 1 \in (q - 3)..q
      <4> DEFINE m == Len(request.body)
                 e == HeadEnd
      <4>1. e \in Nat /\ m \in Nat /\ q <= e + m /\ q - 3 <= e /\ q > e
        BY <1>1, <1>4, <2>1, <2>3
      <4> HIDE DEF m, e
      <4>2. 1 \in 1..m /\ e + 1 \in (q - 3)..q
        BY <4>1
      <4> QED
        BY <4>2 DEF m, e
    <3>2. request.body[1] \in Breaks
      BY <1>2, <2>2, <3>1
    <3>3. request.body # <<>>
      BY <3>1
    <3> QED
      BY <2>1, <3>2, <3>3 DEF Plain
  <2>4. CASE q - 3 > HeadEnd
    <3> DEFINE i == q - 3 - HeadEnd
               m == Len(request.body)
               e == HeadEnd
    <3>1. e \in Nat /\ m \in Nat /\ q <= e + m /\ i = q - 3 - e /\ q - 3 > e
      BY <1>1, <2>1, <2>4
    <3> HIDE DEF i, m, e
    <3>2. i \in 1..(m - 3)
      BY <3>1
    <3>3. PICK j \in i..(i + 3) : request.body[j] \notin Breaks
      BY <2>1, <3>2 DEF Plain, m
    <3>4. j \in 1..m /\ e + j \in (q - 3)..q
      BY <3>1, <3>2, <3>3
    <3>5. stream[e + j] = request.body[j]
      BY <2>2, <3>4 DEF e, m
    <3> QED
      BY <1>2, <3>3, <3>4, <3>5
  <2> QED
    BY <1>1, <2>3, <2>4
<1>5. q = HeadEnd
  BY <1>1, <1>3, <1>4
<1> QED
  BY <1>1, <1>2, <1>5

\* The memory of a place is that of the header it is at.
LEMMA MemoryPlace ==
  ASSUME Given, NEW k \in 0..Count, NEW q \in Nat, Line < q, At(k, q), NEW text
  PROVE  MemoryIs(q, text) <=> text = TextAt(k, q)
<1>1. \A j \in 0..Count : At(j, q) => j = k
  BY Places
<1> QED
  BY <1>1 DEF MemoryIs

\* The beginnings of a header.
LEMMA PrefixGrows ==
  ASSUME NEW S, NEW h \in Seq(S)
  PROVE  /\ SubSeq(h, 1, 0) = <<>> /\ SubSeq(h, 1, Len(h)) = h
         /\ \A m \in 0..Len(h) : Len(SubSeq(h, 1, m)) = m
         /\ \A m \in 0..(Len(h) - 1) : SubSeq(h, 1, m + 1) = Append(SubSeq(h, 1, m), h[m + 1])
<1>1. SubSeq(h, 1, 0) = <<>>
  OBVIOUS
<1>2. SubSeq(h, 1, Len(h)) = h
  OBVIOUS
<1>3. \A m \in 0..Len(h) : Len(SubSeq(h, 1, m)) = m
  OBVIOUS
<1>4. ASSUME NEW m \in 0..(Len(h) - 1)
      PROVE  SubSeq(h, 1, m + 1) = Append(SubSeq(h, 1, m), h[m + 1])
  OBVIOUS
<1> QED
  BY <1>1, <1>2, <1>3, <1>4

\* The character behind a place of the head, and what the memory is there.
NextInHead(q, c, before, after) ==
  \/ /\ before = <<>> /\ after = <<>> /\ c \in Breaks
     /\ \A k \in 1..Count : q + 1 # Ends(k)
  \/ /\ c \in HeadChars /\ after = Append(before, c)
     /\ \E k \in 1..Count : Len(before) < Len(request.headers[k])
     /\ \A k \in 1..Count : q + 1 # Ends(k)
  \/ /\ \E k \in 1..Count : q + 1 = Ends(k) /\ before = request.headers[k]
     /\ c = CR /\ after = <<>>

\* The memory of the next place of the head follows from its next character.
LEMMA HeadGoesOn ==
  ASSUME Given, NEW q \in Nat, q >= Line + 1, q < HeadEnd,
         NEW before, MemoryIs(q, before)
  PROVE  \E after : MemoryIs(q + 1, after) /\ NextInHead(q, stream[q + 1], before, after)
<1>1. /\ HeadShape /\ Line \in Nat /\ Count \in Nat /\ HeadEnd = Ends(Count) + 3
      /\ request.headers \in [1..Count -> Headers] /\ Line < q /\ Line < q + 1 /\ q + 1 \in Nat
  BY RequestTypes, StreamShape, HeadTail
<1>2. PICK k \in 0..Count : At(k, q)
  BY <1>1, Places
<1>3. k \in Nat /\ Ends(k) \in Nat /\ Ends(k) <= q
  BY <1>1, <1>2, EndsInOrder DEF At
<1>4. before = TextAt(k, q)
  BY <1>1, <1>2, MemoryPlace
<1>5. k < Count => /\ k + 1 \in 1..Count /\ k + 1 \in 0..Count /\ q < Ends(k + 1)
                   /\ Ends(k + 1) = Ends(k) + Len(request.headers[k + 1]) + 2
                   /\ Ends(k) + 4 <= Ends(k + 1) /\ Ends(k + 1) \in Nat
  <2> SUFFICES ASSUME k < Count
               PROVE  /\ k + 1 \in 1..Count /\ k + 1 \in 0..Count /\ q < Ends(k + 1)
                      /\ Ends(k + 1) = Ends(k) + Len(request.headers[k + 1]) + 2
                      /\ Ends(k) + 4 <= Ends(k + 1) /\ Ends(k + 1) \in Nat
    OBVIOUS
  <2> DEFINE m == k + 1
  <2>1. m \in 1..Count /\ m \in 0..Count /\ m - 1 = k /\ k < m
    BY <1>1, <1>3
  <2>2. q < Ends(m)
    BY <1>2 DEF At
  <2> HIDE DEF m
  <2>3. Ends(m) = Ends(k) + Len(request.headers[m]) + 2
    BY <2>1, EndsFollow
  <2>4. Ends(k) + 4 <= Ends(m) /\ Ends(m) \in Nat
    BY <2>1, EndsInOrder
  <2> QED
    BY <2>1, <2>2, <2>3, <2>4 DEF m
<1>6. ASSUME At(k, q + 1) PROVE \A j \in 1..Count : q + 1 # Ends(j)
  <2> SUFFICES ASSUME NEW j \in 1..Count, q + 1 = Ends(j) PROVE FALSE
    OBVIOUS
  <2>1. /\ j \in 0..Count /\ j \in Nat
        /\ (j < Count => j \in 0..Count /\ j + 1 \in 0..Count /\ j < j + 1)
    BY <1>1
  <2>2. j < Count => Ends(j) + 4 <= Ends(j + 1) /\ Ends(j) \in Nat /\ Ends(j + 1) \in Nat
    BY <2>1, EndsInOrder
  <2>3. At(j, q + 1)
    BY <1>1, <2>2 DEF At
  <2>4. j = k
    BY <1>1, <1>6, <2>1, <2>3, Places
  <2> QED
    BY <1>3, <2>4
<1>7. CASE q = Ends(k)
  <2>1. before = <<>>
    BY <1>3, <1>4, <1>7 DEF TextAt
  <2>2. At(k, q + 1)
    BY <1>3, <1>5, <1>7 DEF At
  <2>3. TextAt(k, q + 1) = <<>>
    <3>1. CASE k < Count
      <4>1. (q + 1) - Ends(k) - 1 = 0
        BY <1>3, <1>7
      <4>2. request.headers[k + 1] \in Seq(HeadChars)
        BY <1>1, <1>5, <3>1, HeaderChars
      <4>3. SubSeq(request.headers[k + 1], 1, 0) = <<>>
        BY <4>2, PrefixGrows
      <4> QED
        BY <4>1, <4>3 DEF TextAt
    <3>2. CASE ~(k < Count)
      BY <3>2 DEF TextAt
    <3> QED
      BY <3>1, <3>2
  <2>4. MemoryIs(q + 1, <<>>)
    BY <2>2, <2>3 DEF MemoryIs
  <2>5. stream[q + 1] \in Breaks
    BY <1>1, <1>7 DEF HeadShape, Breaks
  <2>6. NextInHead(q, stream[q + 1], before, <<>>)
    BY <1>6, <2>1, <2>2, <2>5 DEF NextInHead
  <2> QED
    BY <2>4, <2>6
<1>8. CASE k < Count /\ q # Ends(k) /\ q + 1 < Ends(k + 1)
  <2> DEFINE h == request.headers[k + 1]
             i == q - Ends(k) - 1
             c == stream[q + 1]
  <2>1. h \in Seq(HeadChars) /\ Len(h) \in Nat
    BY <1>1, <1>5, <1>8, HeaderChars
  <2>2. before = SubSeq(h, 1, i)
    BY <1>3, <1>4, <1>8 DEF TextAt
  <2>3. At(k, q + 1) /\ TextAt(k, q + 1) = SubSeq(h, 1, i + 1)
    <3>1. q + 1 > Ends(k) /\ (q + 1) - Ends(k) - 1 = i + 1 /\ Ends(k) <= q + 1
      BY <1>3, <1>8
    <3>2. At(k, q + 1)
      BY <1>8, <3>1 DEF At
    <3>3. TextAt(k, q + 1) = SubSeq(h, 1, (q + 1) - Ends(k) - 1)
      BY <1>8, <3>1 DEF TextAt
    <3> QED
      BY <3>1, <3>2, <3>3
  <2>4. c = h[i + 1] /\ c \in HeadChars /\ i \in 0..(Len(h) - 1)
    <3> DEFINE m == k + 1
    <3>1. m \in 1..Count /\ m - 1 = k /\ q + 1 < Ends(m)
      BY <1>3, <1>5, <1>8
    <3>2. Ends(m - 1) + 2 <= q + 1
      BY <1>3, <1>8, <3>1
    <3> HIDE DEF m
    <3>3. /\ (q + 1) - Ends(m - 1) - 1 \in 1..Len(request.headers[m])
          /\ c = request.headers[m][(q + 1) - Ends(m - 1) - 1]
          /\ c \in HeadChars
      BY <1>1, <3>1, <3>2, HeaderPlace
    <3>4. (q + 1) - Ends(m - 1) - 1 = i + 1 /\ i \in Int
      BY <1>3, <3>1
    <3> HIDE DEF i, c
    <3>5. i + 1 \in 1..Len(h) /\ c = h[i + 1] /\ c \in HeadChars
      BY <3>3, <3>4 DEF m
    <3> QED
      BY <2>1, <3>4, <3>5
  <2> HIDE DEF h, i, c
  <2>5. SubSeq(h, 1, i + 1) = Append(SubSeq(h, 1, i), h[i + 1]) /\ Len(SubSeq(h, 1, i)) = i
    <3>1. i \in 0..Len(h)
      BY <2>1, <2>4
    <3> QED
      BY <2>1, <2>4, <3>1, PrefixGrows
  <2>6. MemoryIs(q + 1, SubSeq(h, 1, i + 1))
    BY <2>3 DEF MemoryIs
  <2>7. \E j \in 1..Count : Len(before) < Len(request.headers[j])
    <3>1. Len(before) < Len(h)
      BY <2>1, <2>2, <2>4, <2>5
    <3> QED
      BY <1>5, <1>8, <3>1 DEF h
  <2>8. NextInHead(q, c, before, SubSeq(h, 1, i + 1))
    BY <1>6, <2>2, <2>3, <2>4, <2>5, <2>7 DEF NextInHead
  <2> QED
    BY <2>6, <2>8 DEF c
<1>9. CASE k < Count /\ q # Ends(k) /\ q + 1 = Ends(k + 1)
  <2> DEFINE m == k + 1
             h == request.headers[m]
  <2>1. /\ m \in 1..Count /\ m \in 0..Count /\ Ends(m) = Ends(k) + Len(h) + 2
        /\ q + 1 = Ends(m) /\ m \in Nat /\ Ends(m) \in Nat
    BY <1>1, <1>5, <1>9
  <2>2. h \in Seq(HeadChars) /\ Len(h) \in Nat
    BY <1>1, <2>1, HeaderChars
  <2>3. before = SubSeq(h, 1, q - Ends(k) - 1)
    BY <1>3, <1>4, <1>9 DEF TextAt
  <2> HIDE DEF h, m
  <2>4. q - Ends(k) - 1 = Len(h)
    BY <1>3, <2>1, <2>2
  <2>5. before = h
    BY <2>2, <2>3, <2>4, PrefixGrows
  <2>6. stream[q + 1] = CR
    BY <1>1, <2>1 DEF HeadShape
  <2>7. At(m, q + 1)
    <3>1. m < Count => m + 1 \in 0..Count /\ m < m + 1
      BY <1>1, <2>1
    <3>2. m < Count => Ends(m) + 4 <= Ends(m + 1) /\ Ends(m + 1) \in Nat
      BY <2>1, <3>1, EndsInOrder
    <3> QED
      BY <2>1, <3>2 DEF At
  <2>8. TextAt(m, q + 1) = <<>>
    BY <2>1 DEF TextAt
  <2>9. MemoryIs(q + 1, <<>>)
    BY <2>1, <2>7, <2>8 DEF MemoryIs
  <2>10. NextInHead(q, stream[q + 1], before, <<>>)
    BY <2>1, <2>5, <2>6 DEF NextInHead, h
  <2> QED
    BY <2>9, <2>10
<1>10. CASE k = Count /\ q # Ends(k)
  <2>1. before = <<>> /\ TextAt(k, q + 1) = <<>>
    BY <1>1, <1>4, <1>10 DEF TextAt
  <2>2. At(k, q + 1)
    BY <1>1, <1>3, <1>10 DEF At
  <2>3. MemoryIs(q + 1, <<>>)
    BY <2>1, <2>2 DEF MemoryIs
  <2>4. q + 1 = HeadEnd - 1 \/ q + 1 = HeadEnd
    BY <1>1, <1>3, <1>10
  <2>5. stream[q + 1] \in Breaks
    BY <1>1, <2>4 DEF HeadShape, Breaks
  <2>6. NextInHead(q, stream[q + 1], before, <<>>)
    BY <1>6, <2>1, <2>2, <2>5 DEF NextInHead
  <2> QED
    BY <2>3, <2>6
<1> QED
  <2>1. k < Count \/ k = Count
    BY <1>1, <1>3
  <2>2. k < Count => q + 1 < Ends(k + 1) \/ q + 1 = Ends(k + 1)
    BY <1>5
  <2> QED
    BY <1>7, <1>8, <1>9, <1>10, <2>1, <2>2

\* A Content-Length is seen when its line ends, and only then.
LEMMA SeenGrows ==
  ASSUME Given, NEW q \in Nat
  PROVE  /\ (\A k \in 1..Count : q + 1 # Ends(k)) => Seen(q + 1) = Seen(q)
         /\ \A k \in 1..Count : q + 1 = Ends(k) =>
              Seen(q + 1) = Seen(q) \cup ({k} \cap Lengths) /\ k \notin Seen(q)
<1>1. Count \in Nat /\ \A k \in 0..Count : Ends(k) \in Nat
  BY RequestTypes, EndsInOrder
<1>2. Lengths \subseteq 1..Count
  BY DEF Lengths, Count
<1>3. ASSUME NEW k \in 1..Count PROVE Ends(k) <= q + 1 <=> Ends(k) <= q \/ q + 1 = Ends(k)
  <2>1. Ends(k) \in Nat
    BY <1>1
  <2> QED
    BY <2>1
<1>4. ASSUME NEW j \in 1..Count, NEW k \in 1..Count, Ends(j) = Ends(k) PROVE j = k
  <2>1. j \in 0..Count /\ k \in 0..Count /\ (j = k \/ j < k \/ k < j)
    BY <1>1
  <2>2. /\ Ends(j) \in Nat /\ Ends(k) \in Nat
        /\ j < k => Ends(j) + 4 <= Ends(k)
        /\ k < j => Ends(k) + 4 <= Ends(j)
    BY <2>1, EndsInOrder
  <2> QED
    BY <1>4, <2>1, <2>2
<1>5. (\A k \in 1..Count : q + 1 # Ends(k)) => Seen(q + 1) = Seen(q)
  BY <1>2, <1>3 DEF Seen
<1>6. ASSUME NEW k \in 1..Count, q + 1 = Ends(k)
      PROVE  Seen(q + 1) = Seen(q) \cup ({k} \cap Lengths) /\ k \notin Seen(q)
  <2>1. \A j \in 1..Count : Ends(j) <= q + 1 <=> Ends(j) <= q \/ j = k
    BY <1>3, <1>4, <1>6
  <2>2. ~(Ends(k) <= q)
    BY <1>6
  <2> QED
    BY <1>2, <2>1, <2>2 DEF Seen
<1> QED
  BY <1>5, <1>6

\* What the scan has of the head is right one character later.
LEMMA HeadStep ==
  ASSUME Given, NEW q \in Nat, q >= Line + 1, q < HeadEnd,
         NEW s \in Scans, NEW t \in Scans, ~s.bad, ~s.over, s.completed => request.method = "POST",
         HeadRead(q, s), StepOf(t, s, stream[q + 1])
  PROVE  HeadRead(q + 1, t) /\ (t.completed => request.method = "POST")
<1> DEFINE c == stream[q + 1]
<1>0. MemoryIs(q, s.memory) /\ SeenIs(q, s.completed, s.headers)
  BY DEF HeadRead
<1>1. PICK after : MemoryIs(q + 1, after) /\ NextInHead(q, c, s.memory, after)
  BY <1>0, HeadGoesOn
<1>2. \A h : GoodHeader(h) <=> request.method = "POST" /\ h \in ContentLengths
  BY DEF GoodHeader
<1>3. CASE s.memory = <<>> /\ after = <<>> /\ c \in Breaks /\ \A k \in 1..Count : q + 1 # Ends(k)
  <2>1. ~GoodHeader(<<>>)
    <3>1. <<>> \notin ContentLengths
      <4>1. \A h \in ContentLengths : h \in Headers /\ Len(h) > 1
        BY HeaderChars DEF Headers
      <4>2. Len(<<>>) = 0
        OBVIOUS
      <4> QED
        BY <4>1, <4>2
    <3> QED
      BY <1>2, <3>1
  <2>2. t.memory = <<>> /\ ~t.bad /\ ~t.over /\ SameHeaders(t, s)
    BY <1>3, <2>1, BreaksApart DEF StepOf, Breaks
  <2>3. Seen(q + 1) = Seen(q)
    BY <1>3, SeenGrows
  <2> QED
    BY <1>0, <1>1, <1>3, <2>2, <2>3 DEF HeadRead, SeenIs, SameHeaders
<1>4. CASE /\ c \in HeadChars /\ after = Append(s.memory, c)
           /\ \E k \in 1..Count : Len(s.memory) < Len(request.headers[k])
           /\ \A k \in 1..Count : q + 1 # Ends(k)
  <2>1. CASE Len(s.memory) # BUFFER
    <3>1. t.memory = after /\ ~t.bad /\ ~t.over /\ SameHeaders(t, s)
      BY <1>4, <2>1, BreaksApart DEF StepOf
    <3>2. Seen(q + 1) = Seen(q)
      BY <1>4, SeenGrows
    <3> QED
      BY <1>0, <1>1, <3>1, <3>2 DEF HeadRead, SeenIs, SameHeaders
  <2>2. CASE Len(s.memory) = BUFFER
    <3>1. ~t.bad /\ t.over /\ SameHeaders(t, s)
      BY <1>4, <2>2, BreaksApart DEF StepOf
    <3>2. PICK k \in 1..Count : BUFFER < Len(request.headers[k])
      BY <1>4, <2>2
    <3>3. request.headers[k] \in Headers
      BY RequestTypes
    <3>4. Len(request.headers[k]) > BUFFER
      BY <3>2, <3>3, HeaderChars, BufferAssumption
    <3>5. TooLong
      BY <3>4 DEF TooLong
    <3> QED
      BY <3>1, <3>5 DEF HeadRead, SameHeaders
  <2> QED
    BY <2>1, <2>2
<1>5. CASE /\ \E k \in 1..Count : q + 1 = Ends(k) /\ s.memory = request.headers[k]
           /\ c = CR /\ after = <<>>
  <2>1. PICK k \in 1..Count : q + 1 = Ends(k) /\ s.memory = request.headers[k]
    BY <1>5
  <2>2. Seen(q + 1) = Seen(q) \cup ({k} \cap Lengths) /\ k \notin Seen(q)
    BY <2>1, SeenGrows
  <2>3. k \in Lengths <=> s.memory \in ContentLengths
    BY <2>1 DEF Lengths, Count
  <2>4. CASE ~GoodHeader(s.memory)
    <3>1. t.memory = <<>> /\ ~t.bad /\ ~t.over /\ SameHeaders(t, s)
      BY <1>5, <2>4, BreaksApart DEF StepOf
    <3>2. request.method = "POST" => Seen(q + 1) = Seen(q)
      BY <1>2, <2>2, <2>3, <2>4
    <3> QED
      BY <1>0, <1>1, <1>5, <3>1, <3>2 DEF HeadRead, SeenIs, SameHeaders
  <2>5. CASE GoodHeader(s.memory) /\ s.completed
    <3>1. t.bad /\ SameHeaders(t, s)
      BY <1>5, <2>5, BreaksApart DEF StepOf
    <3>2. PICK j : j \in Seen(q)
      BY <1>0, <2>5 DEF SeenIs
    <3>3. j \in Lengths /\ k \in Lengths /\ j # k /\ request.method = "POST"
      BY <1>2, <2>2, <2>3, <2>5, <3>2 DEF Seen
    <3> QED
      BY <3>1, <3>3 DEF HeadRead, Twice, SameHeaders
  <2>6. CASE GoodHeader(s.memory) /\ ~s.completed
    <3>1. ~t.bad /\ ~t.over /\ t.memory = <<>> /\ t.completed /\ t.headers = <<request.headers[k]>>
      BY <1>5, <2>1, <2>6, BreaksApart DEF StepOf
    <3>2. Seen(q) = {} /\ request.method = "POST" /\ k \in Lengths
      BY <1>0, <1>2, <2>3, <2>6 DEF SeenIs
    <3>3. Seen(q + 1) = {k}
      BY <2>2, <3>2
    <3> QED
      BY <1>1, <1>5, <3>1, <3>2, <3>3 DEF HeadRead, SeenIs
  <2> QED
    BY <2>4, <2>5, <2>6
<1> QED
  BY <1>1, <1>3, <1>4, <1>5 DEF NextInHead

\* One character more, as far as the scan has not stopped.
LEMMA ScannedStep ==
  ASSUME Given, NEW from \in Nat, from >= Line + 1, NEW q \in Nat, from <= q,
         q < Len(stream), NEW s, Scanned(from, q, s), ~Stopped(s)
  PROVE  Scanned(from, q + 1, Step(s, stream[q + 1]))
<1> DEFINE c == stream[q + 1]
           t == Step(s, c)
<1>1. /\ s \in Scans /\ Kept(s) /\ (s.completed => request.method = "POST")
      /\ ~s.bad /\ ~s.over /\ ~BlankLine(s) /\ Run(from, q, s) /\ TailIs(q, s.memory)
      /\ q <= HeadEnd => HeadRead(q, s)
      /\ NotPast(from, q, s)
  BY DEF Scanned, Stopped
<1>2. c \in Chars
  <2>1. stream \in Seq(Chars)
    BY StreamShape DEF HeadShape
  <2>2. q + 1 \in 1..Len(stream)
    BY <2>1
  <2> HIDE DEF c
  <2>3. \A f : f \in Seq(Chars) => \A i \in 1..Len(f) : f[i] \in Chars
    OBVIOUS
  <2> QED
    BY <2>1, <2>2, <2>3 DEF c
<1>3. t \in Scans /\ StepOf(t, s, c)
  BY <1>1, <1>2, StepFields
<1> HIDE DEF t
<1>4. Kept(t)
  <2>1. CASE SameHeaders(t, s)
    BY <1>1, <2>1 DEF Kept, SameHeaders
  <2>2. CASE ~SameHeaders(t, s)
    <3>1. GoodHeader(s.memory) /\ t.completed /\ t.headers = <<s.memory>>
      BY <1>3, <2>2 DEF StepOf
    <3> QED
      BY <3>1 DEF Kept, GoodHeader
  <2> QED
    BY <2>1, <2>2
<1>5. t.completed => request.method = "POST"
  BY <1>1, <1>3 DEF StepOf, SameHeaders, GoodHeader
<1>6. /\ ~t.bad /\ ~t.over => Run(from, q + 1, t) /\ TailIs(q + 1, t.memory)
      /\ t.over => LongLine(q + 1)
  BY <1>1, <1>3, RunStep, TailStep
<1>7. q + 1 <= HeadEnd => HeadRead(q + 1, t)
  <2>1. HeadEnd \in Nat /\ Line \in Nat
    BY HeadTail
  <2>2. q + 1 <= HeadEnd => q < HeadEnd /\ q <= HeadEnd /\ q >= Line + 1
    BY <2>1
  <2> QED
    BY <1>1, <1>3, <2>2, HeadStep
<1>8. NotPast(from, q + 1, t)
  <2> SUFFICES ASSUME Count > 0, from <= HeadEnd - 4
               PROVE  q + 1 < HeadEnd \/ (q + 1 = HeadEnd /\ Stopped(t))
    BY DEF NotPast
  <2>1. HeadEnd \in Nat
    BY HeadTail
  <2>2. q < HeadEnd
    BY <1>1 DEF NotPast, Stopped
  <2>3. q + 1 < HeadEnd \/ q + 1 = HeadEnd
    BY <2>1, <2>2
  <2>4. ASSUME q + 1 = HeadEnd, ~t.bad, ~t.over PROVE BlankLine(t)
    <3>1. Run(from, HeadEnd, t)
      BY <1>6, <2>4
    <3> QED
      BY <1>3, <3>1, StopsThere
  <2> QED
    BY <2>3, <2>4 DEF Stopped
<1>9. ~t.bad \/ ~t.over
  BY <1>3 DEF StepOf
<1> QED
  BY <1>3, <1>4, <1>5, <1>6, <1>7, <1>8, <1>9 DEF Scanned, t

-----------------------------------------------------------------------------
(***************************************************************************)
(* The scan of a buffer.                                                   *)
(***************************************************************************)

\* What an iteration reads.
LEMMA ReadFacts ==
  ASSUME TypeOK, Read
  PROVE  /\ n \in Nat /\ n > 0 /\ n <= BUFFER - 1 /\ read \in Nat
         /\ read + n <= arrived /\ arrived <= Len(stream) /\ arrived \in Nat /\ Len(stream) \in Nat
         /\ \A i \in 1..n : read_buffer[i] = stream[read + i]
         /\ read' = read + n /\ parsable' = (parsable /\ CutWell(read, read + n))
         /\ UNCHANGED <<request, stream, arrived>>
<1>0. Given
  BY DEF TypeOK, Given
<1>1. stream \in Seq(Chars) /\ BUFFER \in Nat /\ BUFFER > 4
  BY <1>0, RequestTypes, StreamShape DEF HeadShape
<1> DEFINE l == Len(stream)
<1>2. l \in Nat
  BY <1>1
<1> HIDE DEF l
<1>3. read \in 0..arrived /\ arrived \in 0..l
  BY DEF TypeOK, l
<1>4. n \in Nat /\ n > 0 /\ n <= BUFFER - 1 /\ read \in Nat /\ arrived \in Nat
      /\ read + n <= arrived /\ arrived <= l
  <2>1. n > 0
    BY DEF Read
  <2>2. n = BUFFER - 1 \/ n = arrived - read
    BY DEF n, Smaller
  <2>3. n <= BUFFER - 1 /\ n <= arrived - read
    BY <1>1, <1>2, <1>3 DEF n, Smaller
  <2> QED
    BY <1>1, <1>2, <1>3, <2>1, <2>2, <2>3
<1>5. \A i \in 1..n : read_buffer[i] = stream[read + i]
  <2> DEFINE a == read + 1
             b == read + n
  <2>1. read_buffer = SubSeq(stream, a, b)
    BY DEF read_buffer
  <2>2. a \in 1..(l + 1) /\ b \in Nat /\ b <= l /\ b + 1 - a = n
    BY <1>2, <1>4
  <2>3. \A f, x, y : f \in Seq(Chars) /\ x \in 1..(Len(f) + 1) /\ y \in Nat /\ y <= Len(f) =>
          \A i \in 1..(y + 1 - x) : SubSeq(f, x, y)[i] = f[x + i - 1]
    OBVIOUS
  <2>4. \A i \in 1..(b + 1 - a) : SubSeq(stream, a, b)[i] = stream[a + i - 1]
    BY <1>1, <2>2, <2>3 DEF l
  <2>5. \A i \in 1..n : a + i - 1 = read + i
    BY <1>4
  <2> QED
    BY <2>1, <2>2, <2>4, <2>5
<1> QED
  BY <1>2, <1>4, <1>5 DEF Read, l

\* The place of the stream behind an entry of the scan.
Behind(e, start, i) ==
  /\ e.at \in start..i /\ (e.at = i \/ Stopped(e.s))
  /\ Scanned(read + start, read + e.at, e.s)

\* What the scan of a buffer ends with.
LEMMA ScanResult ==
  ASSUME TypeOK, Read, NEW start \in Nat, start <= n, read + start >= Line + 1,
         Scanned(read + start, read + start, ScanStart)
  PROVE  Behind(Scan(start), start, n)
<1>1. /\ n \in Nat /\ read \in Nat /\ read + n <= Len(stream) /\ Len(stream) \in Nat
      /\ Given
      /\ \A i \in 1..n : read_buffer[i] = stream[read + i]
  <2>1. read + n <= arrived /\ arrived <= Len(stream) /\ n \in Nat /\ read \in Nat
        /\ arrived \in Nat /\ Len(stream) \in Nat
        /\ \A i \in 1..n : read_buffer[i] = stream[read + i]
    BY ReadFacts
  <2>2. read + n <= Len(stream)
    BY <2>1
  <2> QED
    BY <2>1, <2>2 DEF TypeOK, Given
<1>2. PICK f : IsScan(f, start, n) /\ Scan(start) = f[n]
  BY <1>1, ScanIsEntry
<1>3. \A i \in start..n : f[i] = Entry(f, start, i)
  BY <1>2 DEF IsScan
<1>4. Behind(f[start], start, start)
  <2>1. f[start] = [s |-> ScanStart, at |-> start]
    BY <1>1, <1>3 DEF Entry
  <2>2. f[start].s = ScanStart /\ f[start].at = start
    BY <2>1
  <2> QED
    BY <2>2 DEF Behind
<1>5. ASSUME NEW i \in (start + 1)..n, Behind(f[i - 1], start, i - 1)
      PROVE  Behind(f[i], start, i)
  <2>1. i \in start..n /\ i # start /\ i \in 1..n /\ i - 1 \in Nat
    BY <1>1
  <2>2. f[i] = Advance(f[i - 1], i)
    BY <1>3, <2>1 DEF Entry
  <2> DEFINE e == f[i - 1]
  <2>3. /\ e.at \in start..(i - 1) /\ (e.at = i - 1 \/ Stopped(e.s))
        /\ Scanned(read + start, read + e.at, e.s)
    BY <1>5 DEF Behind
  <2>4. CASE Stopped(e.s)
    <3>1. f[i] = e
      BY <2>2, <2>4 DEF Advance
    <3>2. e.at \in start..i
      BY <1>1, <2>3
    <3> QED
      BY <2>3, <2>4, <3>1, <3>2 DEF Behind
  <2>5. CASE ~Stopped(e.s)
    <3> DEFINE q == read + (i - 1)
    <3>1. f[i] = [s |-> Step(e.s, read_buffer[i]), at |-> i]
      BY <2>2, <2>5 DEF Advance
    <3>2. f[i].s = Step(e.s, read_buffer[i]) /\ f[i].at = i
      BY <3>1
    <3>3. e.at = i - 1 /\ Scanned(read + start, q, e.s)
      BY <2>3, <2>5
    <3>4. /\ q \in Nat /\ q + 1 = read + i
          /\ read + start <= q /\ q < Len(stream) /\ read + start \in Nat
      BY <1>1, <2>1
    <3>5. read_buffer[i] = stream[q + 1]
      BY <1>1, <2>1, <3>4
    <3> HIDE DEF e, q
    <3>6. Scanned(read + start, q + 1, Step(e.s, stream[q + 1]))
      BY <1>1, <2>5, <3>3, <3>4, ScannedStep
    <3>7. i \in start..i
      BY <2>1
    <3> QED
      BY <3>2, <3>4, <3>5, <3>6, <3>7 DEF Behind
  <2> HIDE DEF e
  <2> QED
    BY <2>4, <2>5
<1>6. \A i \in start..n : Behind(f[i], start, i)
  <2> DEFINE S == {i \in start..n : ~Behind(f[i], start, i)}
  <2> SUFFICES ASSUME S # {} PROVE FALSE
    OBVIOUS
  <2>1. S \in SUBSET Nat
    BY <1>1
  <2>2. PICK k \in S : \A j \in S : k <= j
    <3> HIDE DEF S
    <3> QED
      BY <2>1, LeastExists
  <2>3. k \in start..n /\ ~Behind(f[k], start, k)
    BY <2>2
  <2>4. k # start
    BY <1>4, <2>3
  <2>5. k \in (start + 1)..n /\ k - 1 \in start..n /\ k - 1 < k
    BY <1>1, <2>3, <2>4
  <2>6. k - 1 \notin S
    BY <2>1, <2>2, <2>5
  <2> QED
    BY <1>5, <2>3, <2>5, <2>6
<1> QED
  BY <1>1, <1>2, <1>6

-----------------------------------------------------------------------------
(***************************************************************************)
(* The invariant, by state of the machine.                                 *)
(***************************************************************************)

\* The end of the head is not missed.
Clean == PlainBodies \/ (parsable /\ Count > 0)

LineInv == read = 0 /\ curr = 0 /\ memory = <<>> /\ ~completed /\ parsable

\* Either every read is skipped, or a read begins at a place of the head that the
\* cursor knows.  A cut that was no good was in the blank line.
HeadersInv ==
  \/ curr = BUFFER - 1 /\ ~parsable
  \/ /\ curr = 0 /\ read >= Line + 1 /\ TailIs(read, memory)
     /\ read <= HeadEnd => MemoryIs(read, memory) /\ SeenIs(read, completed, headers)
     /\ IF parsable THEN read <= HeadEnd - 4 \/ Count = 0 ELSE read >= HeadEnd - 3

\* The headers an endpoint is called with.
RightHeaders(hs) ==
  IF request.method = "POST" THEN \E k \in Lengths : hs = <<request.headers[k]>> ELSE hs = <<>>

WorkingInv ==
  /\ ~Dispatched => curr = 0
  /\ Clean => /\ parsable /\ Count > 0 /\ Valid
              /\ RightHeaders(headers)
              /\ IF Dispatched THEN body = HeadEnd ELSE request.method = "POST" /\ read = HeadEnd

EndingInv == parsable /\ read >= HeadEnd /\ Count > 0 => answer = 400 /\ ~Valid

\* A line that overflows the memory is a long one, and a header unless a cut
\* was no good.
OverflownInv == LongLine(read) /\ (parsable /\ Count > 0 => TooLong)

HeadInv ==
  /\ completed => request.method = "POST"
  /\ state = "PROCESSING_REQUEST_LINE" => LineInv
  /\ state = "PROCESSING_HEADERS" => HeadersInv
  /\ state = "WORKING" => WorkingInv
  /\ state = "ENDING" => EndingInv
  /\ state = "OVERFLOWN" => OverflownInv

IInv == TypeOK /\ HeadInv

\* In the first read, the first CR ends the request line.
LEMMA LineStart ==
  ASSUME IInv, Read, InLine, FindCarriage(0)
  PROVE  AfterCarriage = Line + 1 /\ Line + 1 <= n /\ read = 0
<1>1. /\ n \in Nat /\ read = 0 /\ Given /\ n <= Len(stream)
      /\ \A i \in 1..n : read_buffer[i] = stream[i]
  <2>1. read = 0 /\ Given
    BY DEF IInv, HeadInv, InLine, LineInv, TypeOK, Given
  <2>2. /\ n \in Nat /\ read + n <= arrived /\ arrived <= Len(stream)
        /\ arrived \in Nat /\ Len(stream) \in Nat
        /\ \A i \in 1..n : read_buffer[i] = stream[read + i]
    BY ReadFacts DEF IInv
  <2>3. n <= Len(stream)
    BY <2>1, <2>2
  <2>4. \A i \in 1..n : 0 + i = i
    BY <2>2
  <2> QED
    BY <2>1, <2>2, <2>3, <2>4
<1>2. /\ Line \in Nat /\ \A i \in 1..Line : stream[i] # CR
      /\ stream[Line + 1] = CR
  <2>1. HeadShape /\ Line \in Nat /\ Count \in Nat
    BY <1>1, RequestTypes, StreamShape
  <2>2. stream[Ends(0)] = CR
    <3>1. 0 \in 0..Count
      BY <2>1
    <3> QED
      BY <2>1, <3>1 DEF HeadShape
  <2>3. Ends(0) = Line + 1
    BY <1>1, EndsFollow
  <2> QED
    BY <2>1, <2>2, <2>3, BreaksApart DEF HeadShape
<1>3. PICK i \in 1..n : stream[i] = CR
  <2>1. \A i \in (0 + 1)..n : i \in 1..n
    BY <1>1
  <2> QED
    BY <1>1, <2>1 DEF FindCarriage
<1>4. i > Line
  BY <1>1, <1>2, <1>3
<1>5. Line + 1 \in 1..n /\ Line + 1 <= n
  BY <1>1, <1>2, <1>4
<1> DEFINE First(x) == read_buffer[x] = CR /\ \A j \in 1..(x - 1) : read_buffer[j] # CR
<1>6. First(Line + 1)
  <2>1. \A j \in 1..((Line + 1) - 1) : j \in 1..Line /\ j \in 1..n
    BY <1>1, <1>2, <1>5
  <2> QED
    BY <1>1, <1>2, <1>5, <2>1
<1>7. \A x \in 1..n : First(x) => x = Line + 1
  <2> SUFFICES ASSUME NEW x \in 1..n, First(x), x # Line + 1 PROVE FALSE
    OBVIOUS
  <2>1. x < Line + 1 \/ x > Line + 1
    BY <1>1, <1>2
  <2>2. CASE x < Line + 1
    <3>1. x \in 1..Line
      BY <1>1, <1>2, <2>2
    <3> QED
      BY <1>1, <1>2, <3>1
  <2>3. CASE x > Line + 1
    <3>1. Line + 1 \in 1..(x - 1)
      BY <1>1, <1>2, <2>3
    <3> QED
      BY <1>6, <3>1
  <2> QED
    BY <2>1, <2>2, <2>3
<1>8. AfterCarriage = CHOOSE x \in 1..n : First(x)
  BY DEF AfterCarriage
<1> HIDE DEF First
<1>9. AfterCarriage = Line + 1
  BY <1>5, <1>6, <1>7, <1>8
<1> QED
  BY <1>1, <1>5, <1>9

\* Where the scan of a read begins, and that the cursor is right there.
Begins(from) ==
  /\ from >= Line + 1
  /\ TailIs(from, memory)
  /\ from <= HeadEnd => MemoryIs(from, memory) /\ SeenIs(from, completed, headers)
  /\ IF parsable THEN from <= HeadEnd - 4 \/ Count = 0 ELSE read >= HeadEnd - 3

\* A scan begins behind the request line or, in a later read, at its first
\* character.
LEMMA WhereItBegins ==
  ASSUME IInv, Read, NEW start \in 0..(BUFFER - 1), InHeaders(start), start # BUFFER - 1
  PROVE  /\ start \in Nat /\ start <= n /\ Begins(read + start)
         /\ (read = 0 /\ start = Line + 1) \/ (start = 0 /\ read >= Line + 1)
<1>0. Given
  BY DEF IInv, TypeOK, Given
<1>1. /\ n \in Nat /\ read \in Nat /\ Line \in Nat /\ Count \in Nat /\ BUFFER \in Nat
      /\ HeadEnd \in Nat /\ HeadEnd = Ends(Count) + 3
  BY <1>0, ReadFacts, HeadTail, RequestTypes DEF IInv
<1>2. CASE InLine /\ Matched /\ FindCarriage(0) /\ start = AfterCarriage
  <2>1. /\ start = Line + 1 /\ start <= n /\ read = 0 /\ parsable
        /\ memory = <<>> /\ ~completed
    BY <1>2, LineStart DEF IInv, HeadInv, InLine, LineInv
  <2>2. read + start = Ends(0) /\ Ends(0) = Line + 1
    BY <1>0, <1>1, <2>1, EndsFollow
  <2>3. \A k \in 1..Count : Ends(k) \in Nat /\ Ends(0) + 4 <= Ends(k)
    <3>1. 0 \in 0..Count /\ \A k \in 1..Count : k \in 0..Count /\ 0 < k
      BY <1>1
    <3> QED
      BY <1>0, <3>1, EndsInOrder
  <2>4. MemoryIs(read + start, memory)
    <3>1. 0 \in 0..Count /\ (0 < Count => 0 + 1 \in 1..Count)
      BY <1>1
    <3>2. At(0, Ends(0))
      BY <1>1, <2>2, <2>3, <3>1 DEF At
    <3>3. TextAt(0, Ends(0)) = <<>>
      BY <1>1, <2>2 DEF TextAt
    <3> QED
      BY <2>1, <2>2, <3>1, <3>2, <3>3 DEF MemoryIs
  <2>5. Seen(read + start) = {}
    <3> SUFFICES ASSUME NEW k \in Lengths, Ends(k) <= read + start PROVE FALSE
      BY DEF Seen
    <3>1. k \in 1..Count
      BY DEF Lengths, Count
    <3> QED
      BY <1>1, <2>2, <2>3, <3>1
  <2>6. read + start <= HeadEnd - 4 \/ Count = 0
    <3>1. Count \in 1..Count \/ Count = 0
      BY <1>1
    <3> QED
      BY <1>1, <2>2, <2>3, <3>1
  <2>7. read + start >= Line + 1 /\ TailIs(read + start, memory)
    BY <1>1, <2>1, <2>2 DEF TailIs
  <2> QED
    BY <2>1, <2>4, <2>5, <2>6, <2>7 DEF Begins, SeenIs
<1>3. CASE state = "PROCESSING_HEADERS" /\ start = curr
  <2>1. HeadersInv
    BY <1>3 DEF IInv, HeadInv
  <2>2. /\ start = 0 /\ read >= Line + 1
        /\ TailIs(read, memory)
        /\ read <= HeadEnd => MemoryIs(read, memory) /\ SeenIs(read, completed, headers)
        /\ IF parsable THEN read <= HeadEnd - 4 \/ Count = 0 ELSE read >= HeadEnd - 3
    BY <1>3, <2>1 DEF HeadersInv
  <2>3. read + start = read /\ 0 <= n
    BY <1>1, <2>2
  <2> QED
    BY <1>1, <2>2, <2>3 DEF Begins
<1> QED
  BY <1>2, <1>3 DEF InHeaders

\* At its start the scan is right, so it is where it ends.
LEMMA ScanIsRight ==
  ASSUME IInv, Read, NEW start \in 0..(BUFFER - 1), InHeaders(start), start # BUFFER - 1
  PROVE  Behind(Scan(start), start, n)
<1> DEFINE from == read + start
<1>1. start \in Nat /\ start <= n /\ Begins(from)
  BY WhereItBegins
<1>2. /\ read \in Nat /\ Given /\ Count \in Nat /\ HeadEnd \in Nat
  BY ReadFacts, HeadTail DEF IInv, TypeOK, Given
<1>3. /\ ScanStart.memory = memory /\ ScanStart.completed = completed
      /\ ScanStart.headers = headers /\ ScanStart.last_char = ""
      /\ ScanStart.skips = 0 /\ ScanStart.bad = FALSE /\ ScanStart.over = FALSE
  BY DEF ScanStart
<1>4. ScanStart \in Scans /\ Kept(ScanStart)
  <2>1. memory \in Memories
    BY DEF IInv, TypeOK, Memories, HeadChars
  <2>2. /\ IF completed THEN \E h \in ContentLengths : headers = <<h>> ELSE headers = <<>>
        /\ completed \in BOOLEAN
    BY DEF IInv, TypeOK
  <2>3. headers \in HeaderLists
    BY <2>2, Zenon DEF HeaderLists
  <2>4. "" \in LastChars /\ 0 \in Nat /\ FALSE \in BOOLEAN
    BY DEF LastChars
  <2>5. ScanStart \in Scans
    BY <2>1, <2>2, <2>3, <2>4, Zenon DEF ScanStart, Scans
  <2>6. Kept(ScanStart)
    BY <1>3, <2>2, Zenon DEF Kept
  <2> QED
    BY <2>5, <2>6
<1>5. completed => request.method = "POST"
  BY DEF IInv, HeadInv
<1> DEFINE s == ScanStart
<1>6. /\ s.memory = memory /\ s.completed = completed /\ s.headers = headers
      /\ s.last_char = "" /\ s.skips = 0 /\ s.bad = FALSE /\ s.over = FALSE
  BY <1>3
<1> HIDE DEF s
<1>7. from \in Nat
  BY <1>1, <1>2
<1> HIDE DEF from
<1>8. Run(from, from, s)
  <2>1. "" # LF
    BY DEF LF
  <2>2. 0 <= from - from /\ ~(0 < from - from) /\ ~(from > from)
    BY <1>7
  <2>3. Solid(from - 0 + 1, from)
    BY <1>7 DEF Solid
  <2>4. s.skips <= from - from /\ ~(s.skips < from - from) /\ Solid(from - s.skips + 1, from)
    BY <1>6, <2>2, <2>3
  <2> QED
    BY <1>6, <2>1, <2>2, <2>4 DEF Run
<1>9. TailIs(from, s.memory)
  BY <1>1, <1>6 DEF Begins, from
<1>10. from <= HeadEnd => HeadRead(from, s)
  BY <1>1, <1>6 DEF HeadRead, Begins, from
<1>11. NotPast(from, from, s)
  BY <1>2, <1>7 DEF NotPast
<1>12. Scanned(from, from, s)
  BY <1>4, <1>5, <1>6, <1>8, <1>9, <1>10, <1>11 DEF Scanned, s
<1>13. from >= Line + 1
  BY <1>1 DEF Begins, from
<1> QED
  BY <1>1, <1>12, <1>13, ScanResult DEF from, s, IInv

-----------------------------------------------------------------------------
(***************************************************************************)
(* The steps.                                                              *)
(***************************************************************************)

\* What is said of a request stays as long as the request does.
LEMMA SameRequest ==
  ASSUME UNCHANGED <<request, stream>>
  PROVE  /\ Line' = Line /\ Count' = Count /\ HeadEnd' = HeadEnd /\ Lengths' = Lengths
         /\ (Valid' <=> Valid) /\ (TooLong' <=> TooLong)
         /\ LongLine(read') => (LongLine(read))'
         /\ RightHeaders(headers') => (RightHeaders(headers))'
         /\ LET right == /\ curr' = 0 /\ read' >= Line + 1 /\ TailIs(read', memory')
                         /\ read' <= HeadEnd => /\ MemoryIs(read', memory')
                                                /\ SeenIs(read', completed', headers')
                         /\ IF parsable' THEN read' <= HeadEnd - 4 \/ Count = 0
                                         ELSE read' >= HeadEnd - 3
            IN  (curr' = BUFFER - 1 /\ ~parsable') \/ right => HeadersInv'
<1>1. Line' = Line /\ Count' = Count /\ HeadEnd' = HeadEnd
  BY DEF Line, Count, HeadEnd
<1>2. Lengths' = Lengths
  BY DEF Lengths
<1>3. (Valid' <=> Valid) /\ (TooLong' <=> TooLong)
  BY <1>1, <1>2 DEF Valid, TooLong
<1>4. MemoryIs(read', memory') => (MemoryIs(read, memory))'
  BY <1>1 DEF MemoryIs, At, TextAt, Ends
<1>5. SeenIs(read', completed', headers') => (SeenIs(read, completed, headers))'
  BY <1>1, <1>2 DEF SeenIs, Seen, Ends
<1>6. TailIs(read', memory') => (TailIs(read, memory))'
  BY DEF TailIs
<1>7. LongLine(read') => (LongLine(read))'
  BY DEF LongLine
<1>8. RightHeaders(headers') => (RightHeaders(headers))'
  BY <1>2 DEF RightHeaders
<1> QED
  BY <1>1, <1>2, <1>3, <1>4, <1>5, <1>6, <1>7, <1>8 DEF HeadersInv

\* What a read changes, and that its variables keep their types.
LEMMA ReadKeepsTypes ==
  ASSUME IInv, Read
  PROVE  /\ UNCHANGED <<request, stream>> /\ Given'
         /\ read' \in 0..arrived' /\ arrived' \in 0..Len(stream')
         /\ read' = read + n /\ parsable' \in BOOLEAN /\ read' \in Nat
         /\ parsable' <=> parsable /\ CutWell(read, read + n)
         /\ ~Answered /\ ~Dispatched
<1>1. /\ n \in Nat /\ n > 0 /\ read \in Nat /\ arrived \in Nat /\ Len(stream) \in Nat
      /\ read + n <= arrived /\ arrived <= Len(stream)
      /\ read' = read + n /\ parsable' = (parsable /\ CutWell(read, read + n))
      /\ UNCHANGED <<request, stream, arrived>>
  BY ReadFacts DEF IInv
<1>2. stream' = stream
  BY <1>1
<1>3. Given /\ Given' /\ parsable \in BOOLEAN
  BY <1>1 DEF IInv, TypeOK, Given
<1>4. CutWell(read, read + n) \in BOOLEAN
  BY DEF CutWell
<1>5. ~Answered /\ ~Dispatched
  BY DEF Read
<1>6. read' \in 0..arrived' /\ arrived' \in 0..Len(stream')
  <2>1. arrived' = arrived /\ Len(stream') = Len(stream)
    BY <1>1, <1>2
  <2> QED
    BY <1>1, <2>1
<1>7. parsable' \in BOOLEAN /\ (parsable' <=> parsable /\ CutWell(read, read + n))
  BY <1>1, <1>3, <1>4
<1> QED
  BY <1>1, <1>3, <1>5, <1>6, <1>7

\* A request that is answered: only why needs to be said.
LEMMA AnswerStep ==
  ASSUME IInv, Read, NEW status \in {400, 404}, Answer(status),
         parsable' /\ read' >= HeadEnd /\ Count > 0 => status = 400 /\ ~Valid
  PROVE  IInv'
<1>1. /\ UNCHANGED <<request, stream>> /\ Given'
      /\ read' \in 0..arrived' /\ arrived' \in 0..Len(stream') /\ parsable' \in BOOLEAN
      /\ ~Dispatched
  BY ReadKeepsTypes
<1>2. /\ state' = "ENDING" /\ answer' = status
      /\ UNCHANGED <<curr, memory, completed, headers, body>>
  BY DEF Answer
<1>3. TypeOK'
  <2>1. Answered' = TRUE /\ (state = "ENDING")' = TRUE
    BY <1>2 DEF Answered, NotYet
  <2>2. ~Dispatched'
    BY <1>1, <1>2 DEF Dispatched
  <2>3. body' \in {NotYet} \cup 0..Len(stream')
    BY <1>1, <1>2 DEF Dispatched
  <2>4. /\ curr' \in 0..(BUFFER - 1)
        /\ memory' \in Seq({Url, Text, "length", "digits"})
        /\ completed' \in BOOLEAN
        /\ IF completed' THEN \E h \in ContentLengths : headers' = <<h>> ELSE headers' = <<>>
    BY <1>2 DEF IInv, TypeOK
  <2>5. answer' \in {NotYet, 400, 404}
    BY <1>2
  <2> QED
    BY <1>1, <1>2, <2>1, <2>2, <2>3, <2>4, <2>5 DEF TypeOK, Given
<1>4. HeadInv'
  <2>1. (completed => request.method = "POST")'
    BY <1>1, <1>2 DEF IInv, HeadInv
  <2>2. EndingInv'
    <3>1. HeadEnd' = HeadEnd /\ Count' = Count /\ (Valid' <=> Valid)
      BY <1>1, SameRequest
    <3> QED
      BY <1>2, <3>1 DEF EndingInv
  <2> QED
    BY <1>2, <2>1, <2>2 DEF HeadInv
<1> QED
  BY <1>3, <1>4 DEF IInv

\* No route: the URL is not there yet, so neither is the end of the head.
LEMMA NotFoundStep == IInv /\ NotFound => IInv'
<1> SUFFICES ASSUME IInv, NotFound PROVE IInv'
  OBVIOUS
<1>1. Read /\ InLine /\ ~Matched /\ Answer(404)
  BY DEF NotFound
<1>2. /\ n \in Nat /\ read = 0 /\ read' = n /\ Given
      /\ \A i \in 1..n : read_buffer[i] = stream[i]
  <2>1. read = 0 /\ Given
    BY <1>1 DEF IInv, HeadInv, InLine, LineInv, TypeOK, Given
  <2>2. n \in Nat /\ read' = read + n /\ \A i \in 1..n : read_buffer[i] = stream[read + i]
    BY <1>1, ReadFacts DEF IInv
  <2>3. \A i \in 1..n : 0 + i = i
    BY <2>2
  <2> QED
    BY <2>1, <2>2, <2>3
<1>3. /\ Line \in Nat /\ Line >= 2 /\ Count \in Nat /\ HeadEnd \in Nat
      /\ HeadEnd = Ends(Count) + 3 /\ Ends(Count) >= Line + 1 /\ Ends(Count) \in Nat
  BY <1>2, HeadTail, RequestTypes
<1>4. Line - 1 \notin 1..n
  <2>1. Line - 1 \in 1..Line
    BY <1>3
  <2>2. stream[Line - 1] = Url
    <3>1. HeadShape
      BY <1>2, StreamShape
    <3> QED
      BY <2>1, <3>1 DEF HeadShape
  <2> QED
    BY <1>1, <1>2, <2>2 DEF Matched
<1>5. ~(read' >= HeadEnd)
  BY <1>2, <1>3, <1>4
<1> QED
  BY <1>1, <1>5, AnswerStep

\* No end of the request line in the first read: the end of the head is behind it.
LEMMA BadLineStep == IInv /\ BadLine => IInv'
<1> SUFFICES ASSUME IInv, BadLine PROVE IInv'
  OBVIOUS
<1>1. Read /\ InLine /\ ~FindCarriage(0) /\ Answer(400)
  BY DEF BadLine
<1>2. /\ n \in Nat /\ read = 0 /\ read' = n /\ Given
      /\ \A i \in 1..n : read_buffer[i] = stream[i]
  <2>1. read = 0 /\ Given
    BY <1>1 DEF IInv, HeadInv, InLine, LineInv, TypeOK, Given
  <2>2. n \in Nat /\ read' = read + n /\ \A i \in 1..n : read_buffer[i] = stream[read + i]
    BY <1>1, ReadFacts DEF IInv
  <2>3. \A i \in 1..n : 0 + i = i
    BY <2>2
  <2> QED
    BY <2>1, <2>2, <2>3
<1>3. /\ Line \in Nat /\ Line >= 2 /\ Count \in Nat /\ HeadEnd \in Nat
      /\ HeadEnd = Ends(Count) + 3 /\ Ends(Count) >= Line + 1 /\ Ends(Count) \in Nat
  BY <1>2, HeadTail, RequestTypes
<1>4. Line + 1 \notin 1..n
  <2>1. stream[Line + 1] = CR
    <3>1. HeadShape /\ 0 \in 0..Count
      BY <1>2, <1>3, StreamShape
    <3>2. stream[Ends(0)] = CR
      BY <3>1 DEF HeadShape
    <3>3. Ends(0) = Line + 1
      BY <1>2, EndsFollow
    <3> QED
      BY <3>2, <3>3
  <2>2. \A i \in 1..n : i \in (0 + 1)..n
    BY <1>2
  <2> QED
    BY <1>1, <1>2, <2>1, <2>2 DEF FindCarriage
<1>5. ~(read' >= HeadEnd)
  BY <1>2, <1>3, <1>4
<1> QED
  BY <1>1, <1>5, AnswerStep

\* Inside the head a cut is good when the read has the end of a line behind its
\* start and is not cut in the blank line.
LEMMA GoodCut ==
  ASSUME IInv, Read, NEW start \in 0..(BUFFER - 1), InHeaders(start), start # BUFFER - 1,
         read < HeadEnd
  PROVE  CutWell(read, read + n) <=>
           FindCarriage(start) /\ read + n \notin (HeadEnd - 3)..(HeadEnd - 1)
<1>1. /\ n \in Nat /\ read \in Nat /\ \A i \in 1..n : read_buffer[i] = stream[read + i]
      /\ Line \in Nat /\ HeadEnd \in Nat
  BY ReadFacts, HeadTail DEF IInv, TypeOK, Given
<1>2. start \in Nat /\ ((read = 0 /\ start = Line + 1) \/ (start = 0 /\ read >= Line + 1))
  BY WhereItBegins
<1> DEFINE first == IF read = 0 THEN Line + 2 ELSE read + 1
<1>3. first = read + start + 1
  BY <1>1, <1>2
<1>4. CutWell(read, read + n) <=> /\ \E i \in first..(read + n) : stream[i] = CR
                                  /\ read + n \notin (HeadEnd - 3)..(HeadEnd - 1)
  <2>1. ~(read >= HeadEnd)
    BY <1>1
  <2> QED
    BY <2>1 DEF CutWell, Line
<1> HIDE DEF first
<1>5. (\E i \in first..(read + n) : stream[i] = CR) => FindCarriage(start)
  <2> SUFFICES ASSUME NEW i \in first..(read + n), stream[i] = CR PROVE FindCarriage(start)
    OBVIOUS
  <2> DEFINE j == i - read
  <2>1. j \in (start + 1)..n /\ j \in 1..n /\ read + j = i
    BY <1>1, <1>2, <1>3
  <2>2. read_buffer[j] = CR
    BY <1>1, <2>1
  <2> QED
    BY <2>1, <2>2 DEF FindCarriage
<1>6. FindCarriage(start) => \E i \in first..(read + n) : stream[i] = CR
  <2> SUFFICES ASSUME NEW j \in (start + 1)..n, read_buffer[j] = CR
               PROVE  \E i \in first..(read + n) : stream[i] = CR
    BY DEF FindCarriage
  <2>1. j \in 1..n /\ read + j \in first..(read + n)
    BY <1>1, <1>2, <1>3
  <2>2. stream[read + j] = CR
    BY <1>1, <2>1
  <2> QED
    BY <2>1, <2>2
<1> QED
  BY <1>4, <1>5, <1>6

\* A read that is skipped: nothing can be parsed any more.
LEMMA SkipStep ==
  ASSUME IInv, NEW start \in 0..(BUFFER - 1), Skip(start)
  PROVE  IInv'
<1>1. /\ Read /\ InHeaders(start) /\ start = BUFFER - 1
      /\ state' = "PROCESSING_HEADERS" /\ curr' = start
      /\ UNCHANGED <<memory, completed, headers, answer, body>>
  BY DEF Skip
<1>2. /\ UNCHANGED <<request, stream>> /\ Given'
      /\ read' \in 0..arrived' /\ arrived' \in 0..Len(stream') /\ parsable' \in BOOLEAN
      /\ parsable' <=> parsable /\ CutWell(read, read + n)
      /\ ~Answered /\ ~Dispatched
  BY <1>1, ReadKeepsTypes
<1>3. ~parsable'
  <2>1. CASE InLine /\ Matched /\ FindCarriage(0) /\ start = AfterCarriage
    <3>1. start = Line + 1 /\ read = 0
      BY <1>1, <2>1, LineStart
    <3>2. n \in Nat /\ n <= Line + 1
      BY <1>1, <3>1, ReadFacts DEF IInv
    <3>3. /\ Line \in Nat /\ HeadEnd = Ends(Count) + 3
          /\ Ends(Count) >= Line + 1 /\ Ends(Count) \in Nat
      BY HeadTail DEF IInv, TypeOK, Given
    <3>4. ~(0 >= HeadEnd) /\ \A i \in (Line + 2)..(0 + n) : FALSE
      BY <3>2, <3>3
    <3>5. ~CutWell(read, read + n)
      BY <3>1, <3>4 DEF CutWell, Line
    <3> QED
      BY <1>2, <3>5
  <2>2. CASE state = "PROCESSING_HEADERS" /\ start = curr
    <3>1. BUFFER - 1 # 0
      BY BufferAssumption
    <3>2. ~parsable
      BY <1>1, <2>2, <3>1 DEF IInv, HeadInv, HeadersInv
    <3> QED
      BY <1>2, <3>2
  <2> QED
    BY <1>1, <2>1, <2>2 DEF InHeaders
<1>4. TypeOK'
  <2>1. Answered' = FALSE /\ (state = "ENDING")' = FALSE
    BY <1>1, <1>2 DEF Answered
  <2>2. ~Dispatched' /\ body' \in {NotYet} \cup 0..Len(stream')
    BY <1>1, <1>2 DEF Dispatched
  <2>3. /\ curr' \in 0..(BUFFER - 1)
        /\ memory' \in Seq({Url, Text, "length", "digits"})
        /\ completed' \in BOOLEAN /\ answer' \in {NotYet, 400, 404}
        /\ IF completed' THEN \E h \in ContentLengths : headers' = <<h>> ELSE headers' = <<>>
    BY <1>1 DEF IInv, TypeOK
  <2> QED
    BY <1>1, <1>2, <2>1, <2>2, <2>3 DEF TypeOK, Given
<1>5. HeadInv'
  <2>1. (completed => request.method = "POST")'
    BY <1>1, <1>2 DEF IInv, HeadInv
  <2>2. HeadersInv'
    BY <1>1, <1>2, <1>3, SameRequest
  <2> QED
    BY <1>1, <2>1, <2>2 DEF HeadInv
<1> QED
  BY <1>4, <1>5 DEF IInv

\* While the head is parsable, a read begins before the blank line.
LEMMA BeginsBefore ==
  ASSUME IInv, Read, NEW start \in 0..(BUFFER - 1), InHeaders(start), start # BUFFER - 1,
         parsable, Count > 0
  PROVE  read + start <= HeadEnd - 4 /\ read < HeadEnd
<1>1. start \in Nat /\ Begins(read + start)
  BY WhereItBegins
<1>2. read \in Nat /\ HeadEnd \in Nat
  BY ReadFacts, HeadTail DEF IInv, TypeOK, Given
<1> QED
  BY <1>1, <1>2 DEF Begins

\* A header too large is one that a bad cut made.
LEMMA HeaderTooLargeStep ==
  ASSUME IInv, NEW start \in 0..(BUFFER - 1), HeaderTooLarge(start)
  PROVE  IInv'
<1>1. /\ Read /\ InHeaders(start) /\ start # BUFFER - 1
      /\ ~FindCarriage(start) /\ Answer(400)
  BY DEF HeaderTooLarge
<1>2. parsable' <=> parsable /\ CutWell(read, read + n)
  BY <1>1, ReadKeepsTypes
<1>3. ~(parsable' /\ Count > 0)
  BY <1>1, <1>2, BeginsBefore, GoodCut
<1> QED
  BY <1>1, <1>3, AnswerStep

\* The Content-Lengths of a whole head.
LEMMA WholeHead ==
  ASSUME Given
  PROVE  /\ IsFiniteSet(Lengths) /\ Seen(HeadEnd) = Lengths
         /\ Twice => ~Valid
         /\ request.method = "POST" /\ Lengths = {} => ~Valid
         /\ (request.method = "POST" => Lengths # {} /\ \A j, k \in Lengths : j = k) => Valid
<1>1. /\ Count \in Nat /\ Lengths \subseteq 1..Count
      /\ HeadEnd = Ends(Count) + 3 /\ Ends(Count) \in Nat
  BY RequestTypes, HeadTail DEF Lengths, Count
<1>2. IsFiniteSet(Lengths)
  <2>1. IsFiniteSet(1..Count)
    BY <1>1, FS_Interval
  <2> QED
    BY <1>1, <2>1, FS_Subset
<1>3. Seen(HeadEnd) = Lengths
  <2>1. \A k \in Lengths : k \in 0..Count /\ Count \in 0..Count /\ k <= Count
    BY <1>1
  <2>2. \A k \in Lengths : Ends(k) \in Nat /\ Ends(k) <= Ends(Count)
    BY <2>1, EndsInOrder
  <2>3. \A k \in Lengths : Ends(k) <= HeadEnd
    BY <1>1, <2>2
  <2> QED
    BY <2>3 DEF Seen
<1>4. Cardinality(Lengths) = 1 <=> \E k : Lengths = {k}
  BY <1>2, FS_Singleton
<1>5. Twice => ~Valid
  BY <1>4 DEF Twice, Valid
<1>6. request.method = "POST" /\ Lengths = {} => ~Valid
  BY <1>4 DEF Valid
<1>7. (request.method = "POST" => Lengths # {} /\ \A j, k \in Lengths : j = k) => Valid
  <2> SUFFICES ASSUME Lengths # {}, \A j, k \in Lengths : j = k PROVE Cardinality(Lengths) = 1
    BY DEF Valid
  <2>1. PICK k : k \in Lengths
    OBVIOUS
  <2>2. Lengths = {k}
    BY <2>1
  <2> QED
    BY <1>4, <2>2
<1> QED
  BY <1>2, <1>3, <1>5, <1>6, <1>7

\* A line that overflows the memory is a long one; no good cut has made it.
LEMMA OverflowStep ==
  ASSUME IInv, NEW start \in 0..(BUFFER - 1), Overflow(start)
  PROVE  IInv'
<1> DEFINE r == Scan(start)
           s == r.s
           from == read + start
           q == read + r.at
<1>1. /\ Read /\ InHeaders(start) /\ start # BUFFER - 1 /\ s.over
      /\ state' = "OVERFLOWN"
      /\ UNCHANGED <<curr, memory, completed, headers, answer, body>>
  BY DEF Overflow
<1>2. /\ UNCHANGED <<request, stream>> /\ Given' /\ read' = read + n /\ read' \in Nat
      /\ read' \in 0..arrived' /\ arrived' \in 0..Len(stream') /\ parsable' \in BOOLEAN
      /\ parsable' <=> parsable /\ CutWell(read, read + n)
      /\ ~Answered /\ ~Dispatched
  BY <1>1, ReadKeepsTypes
<1>3. Behind(r, start, n)
  BY <1>1, ScanIsRight
<1>4. read \in Nat /\ n \in Nat /\ Given /\ HeadEnd \in Nat
  BY <1>1, ReadFacts, HeadTail DEF IInv, TypeOK, Given
<1>5. Scanned(from, q, s) /\ r.at \in start..n /\ start \in Nat
  BY <1>3 DEF Behind
<1>6. q \in Nat /\ q <= read'
  BY <1>2, <1>4, <1>5
<1> HIDE DEF r, from, q
<1>7. LongLine(read')
  BY <1>1, <1>2, <1>5, <1>6, LongLineGrows DEF Scanned
<1>8. ASSUME parsable', Count > 0 PROVE TooLong
  <2>1. from <= HeadEnd - 4
    BY <1>1, <1>2, <1>8, BeginsBefore DEF from
  <2>2. q <= HeadEnd
    BY <1>4, <1>5, <1>6, <1>8, <2>1 DEF Scanned, NotPast
  <2> QED
    BY <1>1, <1>5, <2>2 DEF Scanned, HeadRead
<1>9. TypeOK'
  <2>1. Answered' = FALSE /\ (state = "ENDING")' = FALSE
    BY <1>1, <1>2 DEF Answered
  <2>2. ~Dispatched' /\ body' \in {NotYet} \cup 0..Len(stream')
    BY <1>1, <1>2 DEF Dispatched
  <2>3. /\ curr' \in 0..(BUFFER - 1)
        /\ memory' \in Seq({Url, Text, "length", "digits"})
        /\ completed' \in BOOLEAN /\ answer' \in {NotYet, 400, 404}
        /\ IF completed' THEN \E h \in ContentLengths : headers' = <<h>> ELSE headers' = <<>>
    BY <1>1 DEF IInv, TypeOK
  <2> QED
    BY <1>1, <1>2, <2>1, <2>2, <2>3 DEF TypeOK, Given
<1>10. HeadInv'
  <2>1. (completed => request.method = "POST")'
    BY <1>1, <1>2 DEF IInv, HeadInv
  <2>2. OverflownInv'
    BY <1>2, <1>7, <1>8, SameRequest DEF OverflownInv
  <2> QED
    BY <1>1, <2>1, <2>2 DEF HeadInv
<1> QED
  BY <1>9, <1>10 DEF IInv

\* A blank line that is the head's: the head is seen as it is.
LEMMA BadHeadersStep ==
  ASSUME IInv, NEW start \in 0..(BUFFER - 1), BadHeaders(start)
  PROVE  IInv'
<1> DEFINE r == Scan(start)
           s == r.s
           from == read + start
           q == read + r.at
<1>1. /\ Read /\ InHeaders(start) /\ start # BUFFER - 1
      /\ s.bad \/ (BlankLine(s) /\ ~s.over /\ Missing(s))
      /\ Answer(400)
  BY DEF BadHeaders
<1>2. parsable' <=> parsable /\ CutWell(read, read + n)
  BY <1>1, ReadKeepsTypes
<1>3. Behind(r, start, n)
  BY <1>1, ScanIsRight
<1>4. /\ read \in Nat /\ n \in Nat /\ Given /\ HeadEnd \in Nat
      /\ read + n <= arrived /\ arrived <= Len(stream) /\ arrived \in Nat /\ Len(stream) \in Nat
  BY <1>1, ReadFacts, HeadTail DEF IInv, TypeOK, Given
<1>5. Scanned(from, q, s) /\ r.at \in start..n /\ start \in Nat
  BY <1>3 DEF Behind
<1>6. from \in Nat /\ q \in Nat /\ q <= Len(stream)
  BY <1>4, <1>5
<1>7. from >= Line + 1
  BY <1>1, WhereItBegins DEF Begins
<1> HIDE DEF r, from, q
<1>8. ASSUME parsable', Count > 0
      PROVE  ~Valid
  <2>1. from <= HeadEnd - 4
    BY <1>1, <1>2, <1>8, BeginsBefore DEF from
  <2>2. q <= HeadEnd
    BY <1>4, <1>5, <1>6, <1>8, <2>1 DEF Scanned, NotPast
  <2>3. HeadRead(q, s)
    BY <1>5, <2>2 DEF Scanned
  <2>4. CASE s.bad
    BY <1>4, <2>3, <2>4, WholeHead DEF HeadRead
  <2>5. CASE ~s.bad
    <3>1. BlankLine(s) /\ ~s.over /\ request.method = "POST" /\ ~s.completed
      BY <1>1, <2>5 DEF Missing
    <3>2. q = HeadEnd
      BY <1>4, <1>5, <1>6, <1>7, <2>2, <2>5, <3>1, BlankOnlyThere DEF Scanned
    <3>3. Seen(HeadEnd) = {}
      BY <2>3, <2>5, <3>1, <3>2 DEF HeadRead, SeenIs
    <3> QED
      BY <1>4, <3>1, <3>3, WholeHead
  <2> QED
    BY <2>4, <2>5
<1> QED
  BY <1>1, <1>8, AnswerStep

\* The head goes on in the next read.
LEMMA KeepReadingStep ==
  ASSUME IInv, NEW start \in 0..(BUFFER - 1), KeepReading(start)
  PROVE  IInv'
<1> DEFINE r == Scan(start)
           s == r.s
           from == read + start
<1>1. /\ Read /\ InHeaders(start) /\ start # BUFFER - 1 /\ FindCarriage(start)
      /\ ~Stopped(s) /\ Keep(s) /\ memory' = s.memory
      /\ state' = "PROCESSING_HEADERS" /\ curr' = 0
      /\ UNCHANGED <<answer, body>>
  BY DEF KeepReading
<1>2. /\ UNCHANGED <<request, stream>> /\ Given' /\ read' = read + n /\ read' \in Nat
      /\ read' \in 0..arrived' /\ arrived' \in 0..Len(stream') /\ parsable' \in BOOLEAN
      /\ parsable' <=> parsable /\ CutWell(read, read + n)
      /\ ~Answered /\ ~Dispatched
  BY <1>1, ReadKeepsTypes
<1>3. Behind(r, start, n)
  BY <1>1, ScanIsRight
<1>4. /\ read \in Nat /\ n \in Nat /\ n > 0 /\ n <= BUFFER - 1 /\ Given
      /\ HeadEnd \in Nat /\ Line \in Nat /\ Count \in Nat /\ BUFFER \in Nat /\ BUFFER > 4
      /\ \A i \in 1..n : read_buffer[i] = stream[read + i]
  BY <1>1, ReadFacts, HeadTail, RequestTypes DEF IInv, TypeOK, Given
<1>5. Scanned(from, read + n, s) /\ start \in Nat /\ start <= n
  <2>1. r.at = n /\ start <= n /\ start \in Nat
    BY <1>1, <1>3, WhereItBegins DEF Behind
  <2> QED
    BY <1>3, <2>1 DEF Behind
<1>6. /\ from >= Line + 1 /\ from \in Nat
      /\ IF parsable THEN from <= HeadEnd - 4 \/ Count = 0 ELSE read >= HeadEnd - 3
  BY <1>1, <1>4, <1>5, WhereItBegins DEF Begins
<1> HIDE DEF r
<1>7. s \in Scans /\ Kept(s) /\ ~s.bad /\ ~s.over /\ (s.completed => request.method = "POST")
  BY <1>1, <1>5 DEF Scanned, Stopped
<1>8. read' >= Line + 1 /\ TailIs(read', memory')
  <2>1. TailIs(read + n, s.memory)
    BY <1>5, <1>7 DEF Scanned
  <2>2. read + n >= Line + 1
    BY <1>4, <1>5, <1>6
  <2> HIDE DEF s
  <2> QED
    BY <1>1, <1>2, <2>1, <2>2
<1>9. TypeOK'
  <2>1. Answered' = FALSE /\ (state = "ENDING")' = FALSE
    BY <1>1, <1>2 DEF Answered
  <2>2. ~Dispatched' /\ body' \in {NotYet} \cup 0..Len(stream')
    BY <1>1, <1>2 DEF Dispatched
  <2>3. curr' \in 0..(BUFFER - 1) /\ answer' \in {NotYet, 400, 404}
    BY <1>1, <1>4 DEF IInv, TypeOK
  <2>4. memory' \in Seq({Url, Text, "length", "digits"})
    BY <1>1, <1>7 DEF Scans, Memories, HeadChars
  <2>5. /\ completed' \in BOOLEAN
        /\ IF completed' THEN \E h \in ContentLengths : headers' = <<h>> ELSE headers' = <<>>
    BY <1>1, <1>7 DEF Scans, Keep, Kept
  <2> QED
    BY <1>1, <1>2, <2>1, <2>2, <2>3, <2>4, <2>5 DEF TypeOK, Given
<1>10. HeadInv'
  <2>1. (completed => request.method = "POST")'
    BY <1>1, <1>2, <1>7 DEF Keep
  <2>2. read' <= HeadEnd => MemoryIs(read', memory') /\ SeenIs(read', completed', headers')
    BY <1>1, <1>2, <1>5, <1>7 DEF Scanned, HeadRead, Keep
  <2>4. ASSUME parsable', Count > 0 PROVE read' <= HeadEnd - 4
    <3>1. from <= HeadEnd - 4 /\ read < HeadEnd
      BY <1>1, <1>2, <2>4, BeginsBefore
    <3>2. read + n < HeadEnd
      BY <1>1, <1>5, <2>4, <3>1 DEF Scanned, NotPast
    <3>3. read + n \notin (HeadEnd - 3)..(HeadEnd - 1)
      BY <1>1, <1>2, <2>4, <3>1, GoodCut
    <3> QED
      BY <1>2, <1>4, <3>2, <3>3
  <2>5. ASSUME ~parsable' PROVE read' >= HeadEnd - 3
    <3>1. CASE ~parsable
      BY <1>2, <1>4, <1>6, <3>1
    <3>2. CASE parsable /\ read >= HeadEnd
      BY <1>2, <1>4, <3>2
    <3>3. CASE parsable /\ read < HeadEnd
      <4>1. read + n \in (HeadEnd - 3)..(HeadEnd - 1)
        BY <1>1, <1>2, <2>5, <3>3, GoodCut
      <4> QED
        BY <1>2, <1>4, <4>1
    <3> QED
      BY <1>4, <3>1, <3>2, <3>3
  <2>6. IF parsable' THEN read' <= HeadEnd - 4 \/ Count = 0 ELSE read' >= HeadEnd - 3
    BY <1>4, <2>4, <2>5
  <2>7. HeadersInv'
    BY <1>1, <1>2, <1>8, <2>2, <2>6, SameRequest
  <2> QED
    BY <1>1, <2>1, <2>7 DEF HeadInv
<1> QED
  BY <1>9, <1>10 DEF IInv

\* The end of the head is found: unless a body holds what ends one, it is there.
LEMMA EndOfHeadStep ==
  ASSUME IInv, NEW start \in 0..(BUFFER - 1), EndOfHead(start)
  PROVE  IInv'
<1> DEFINE r == Scan(start)
           s == r.s
           from == read + start
           q == read + r.at
           waits == request.method = "POST" /\ r.at = n
<1>1. /\ Read /\ InHeaders(start) /\ start # BUFFER - 1 /\ FindCarriage(start)
      /\ BlankLine(s) /\ ~s.bad /\ ~s.over /\ ~Missing(s) /\ Keep(s)
      /\ body' = (IF waits THEN NotYet ELSE read + r.at)
      /\ curr' = (IF r.at = n THEN 0 ELSE r.at)
      /\ state' = "WORKING" /\ memory' = <<>> /\ answer' = answer
  BY DEF EndOfHead
<1>2. /\ UNCHANGED <<request, stream>> /\ Given' /\ read' = read + n /\ read' \in Nat
      /\ read' \in 0..arrived' /\ arrived' \in 0..Len(stream') /\ parsable' \in BOOLEAN
      /\ parsable' <=> parsable /\ CutWell(read, read + n)
      /\ ~Answered /\ ~Dispatched
  BY <1>1, ReadKeepsTypes
<1>3. Behind(r, start, n)
  BY <1>1, ScanIsRight
<1>4. /\ read \in Nat /\ n \in Nat /\ n > 0 /\ n <= BUFFER - 1 /\ Given
      /\ HeadEnd \in Nat /\ Line \in Nat /\ Count \in Nat /\ BUFFER \in Nat /\ BUFFER > 4
      /\ read + n <= arrived /\ arrived <= Len(stream) /\ arrived \in Nat /\ Len(stream) \in Nat
  BY <1>1, ReadFacts, HeadTail, RequestTypes DEF IInv, TypeOK, Given
<1>5. Scanned(from, q, s) /\ start \in Nat /\ r.at \in start..n
  BY <1>1, <1>3, WhereItBegins DEF Behind
<1>6. /\ from >= Line + 1 /\ from \in Nat /\ q \in Nat /\ q <= read + n /\ q <= Len(stream)
      /\ r.at \in Nat /\ r.at <= n
      /\ IF parsable THEN from <= HeadEnd - 4 \/ Count = 0 ELSE read >= HeadEnd - 3
  BY <1>1, <1>4, <1>5, WhereItBegins DEF Begins
<1> HIDE DEF r
<1>7. s \in Scans /\ Kept(s) /\ (s.completed => request.method = "POST") /\ Run(from, q, s)
  BY <1>1, <1>5 DEF Scanned
<1>8. TypeOK'
  <2>1. Answered' = FALSE /\ (state = "ENDING")' = FALSE
    BY <1>1, <1>2 DEF Answered
  <2>2. body' \in {NotYet} \cup 0..Len(stream')
    <3>1. read + r.at \in 0..Len(stream)
      BY <1>4, <1>6
    <3>2. stream' = stream
      BY <1>2
    <3> QED
      BY <1>1, <3>1, <3>2
  <2>3. curr' \in 0..(BUFFER - 1)
    BY <1>1, <1>4, <1>6
  <2>4. memory' \in Seq({Url, Text, "length", "digits"})
    BY <1>1, <1>4
  <2>5. /\ completed' \in BOOLEAN
        /\ IF completed' THEN \E h \in ContentLengths : headers' = <<h>> ELSE headers' = <<>>
    BY <1>1, <1>7 DEF Scans, Keep, Kept
  <2>6. answer' \in {NotYet, 400, 404}
    BY <1>1 DEF IInv, TypeOK
  <2> QED
    BY <1>1, <1>2, <2>1, <2>2, <2>3, <2>4, <2>5, <2>6 DEF TypeOK, Given
<1>9. ~Dispatched' => waits /\ curr' = 0
  <2>1. read + r.at # NotYet
    BY <1>4, <1>6 DEF NotYet
  <2> QED
    BY <1>1, <2>1 DEF Dispatched
<1>10. ASSUME PlainBodies \/ (parsable' /\ Count > 0)
       PROVE  /\ parsable' /\ Count > 0 /\ Valid
              /\ RightHeaders(headers')
              /\ q = HeadEnd
  <2>1. q <= HeadEnd \/ Plain(request.body)
    <3>1. CASE PlainBodies
      <4>1. request.body \in Bodies
        BY <1>4, RequestTypes
      <4> QED
        BY <3>1, <4>1 DEF PlainBodies
    <3>2. CASE parsable' /\ Count > 0
      <4>1. from <= HeadEnd - 4
        BY <1>1, <1>2, <3>2, BeginsBefore
      <4> HIDE DEF from, q
      <4>2. q < HeadEnd \/ q = HeadEnd
        BY <1>5, <3>2, <4>1 DEF Scanned, NotPast
      <4>3. q \in Nat /\ HeadEnd \in Nat
        BY <1>4, <1>6
      <4>4. q <= HeadEnd
        BY <4>2, <4>3
      <4> QED
        BY <4>4
    <3> QED
      BY <1>10, <3>1, <3>2
  <2>2. q = HeadEnd /\ Count > 0 /\ from <= HeadEnd - 4
    <3> HIDE DEF from, q
    <3> QED
      BY <1>1, <1>4, <1>6, <1>7, <2>1, BlankOnlyThere
  <2>3. parsable /\ read < HeadEnd
    BY <1>4, <1>5, <1>6, <2>2
  <2>4. parsable'
    <3>1. read + n \notin (HeadEnd - 3)..(HeadEnd - 1)
      BY <1>4, <1>6, <2>2
    <3> QED
      BY <1>1, <1>2, <2>3, <3>1, GoodCut
  <2>5. SeenIs(HeadEnd, s.completed, s.headers)
    <3> HIDE DEF q, from
    <3>1. q <= HeadEnd
      BY <1>4, <2>2
    <3> QED
      BY <1>1, <1>5, <2>2, <3>1 DEF Scanned, HeadRead
  <2>6. Seen(HeadEnd) = Lengths
    BY <1>4, WholeHead
  <2>7. request.method = "POST" => s.completed
    BY <1>1 DEF Missing
  <2>8. Valid
    BY <1>4, <2>5, <2>6, <2>7, WholeHead DEF SeenIs
  <2>9. RightHeaders(headers')
    <3>1. CASE request.method = "POST"
      <4>1. \E k \in Lengths : s.headers = <<request.headers[k]>>
        BY <2>5, <2>6, <2>7, <3>1 DEF SeenIs
      <4> QED
        BY <1>1, <3>1, <4>1 DEF Keep, RightHeaders
    <3>2. CASE request.method # "POST"
      BY <1>1, <1>7, <3>2 DEF Keep, Kept, RightHeaders
    <3> QED
      BY <3>1, <3>2
  <2> QED
    BY <2>2, <2>4, <2>8, <2>9
<1>11. HeadInv'
  <2>1. (completed => request.method = "POST")'
    BY <1>1, <1>2, <1>7 DEF Keep
  <2>2. /\ Count' = Count /\ HeadEnd' = HeadEnd /\ (Valid' <=> Valid)
    BY <1>2, SameRequest
  <2>3. Clean' => PlainBodies \/ (parsable' /\ Count > 0)
    BY <2>2 DEF Clean, PlainBodies, Plain
  <2>4. Dispatched' => body' = q
    BY <1>1 DEF Dispatched
  <2>5. waits /\ q = HeadEnd => read' = HeadEnd
    BY <1>2
  <2>6. WorkingInv'
    <3> HIDE DEF q, from
    <3>1. Clean' => /\ parsable' /\ Count' > 0 /\ Valid'
                    /\ (RightHeaders(headers))'
      BY <1>2, <1>10, <2>2, <2>3, SameRequest
    <3>2. Clean' => IF Dispatched' THEN body' = HeadEnd'
                    ELSE request'.method = "POST" /\ read' = HeadEnd'
      BY <1>2, <1>9, <1>10, <2>2, <2>3, <2>4, <2>5
    <3> QED
      BY <1>9, <3>1, <3>2 DEF WorkingInv
  <2> QED
    BY <1>1, <2>1, <2>6 DEF HeadInv
<1> QED
  BY <1>8, <1>11 DEF IInv

\* The first bytes of a body are behind the head.
LEMMA BodyArrivesStep == IInv /\ BodyArrives => IInv'
<1> SUFFICES ASSUME IInv, BodyArrives PROVE IInv'
  OBVIOUS
<1>1. /\ Read /\ state = "WORKING" /\ body' = read + curr
      /\ UNCHANGED <<state, curr, memory, completed, headers, answer>>
  BY DEF BodyArrives
<1>2. /\ UNCHANGED <<request, stream>> /\ Given' /\ read' = read + n /\ read' \in Nat
      /\ read' \in 0..arrived' /\ arrived' \in 0..Len(stream') /\ parsable' \in BOOLEAN
      /\ parsable' <=> parsable /\ CutWell(read, read + n)
      /\ ~Answered /\ ~Dispatched
  BY <1>1, ReadKeepsTypes
<1>3. /\ read \in Nat /\ n \in Nat /\ n > 0 /\ Given /\ HeadEnd \in Nat
      /\ read + n <= arrived /\ arrived <= Len(stream) /\ arrived \in Nat /\ Len(stream) \in Nat
  BY <1>1, ReadFacts, HeadTail DEF IInv, TypeOK, Given
<1>4. WorkingInv /\ (completed => request.method = "POST")
  BY <1>1 DEF IInv, HeadInv
<1>5. curr = 0 /\ body' = read
  BY <1>1, <1>2, <1>3, <1>4 DEF WorkingInv
<1>6. TypeOK'
  <2>1. Answered' = FALSE /\ (state = "ENDING")' = FALSE
    BY <1>1, <1>2 DEF Answered
  <2>2. body' \in {NotYet} \cup 0..Len(stream')
    <3>1. read \in 0..Len(stream)
      BY <1>3
    <3>2. stream' = stream
      BY <1>2
    <3> QED
      BY <1>5, <3>1, <3>2
  <2>3. /\ curr' \in 0..(BUFFER - 1)
        /\ memory' \in Seq({Url, Text, "length", "digits"})
        /\ completed' \in BOOLEAN /\ answer' \in {NotYet, 400, 404}
        /\ IF completed' THEN \E h \in ContentLengths : headers' = <<h>> ELSE headers' = <<>>
    BY <1>1 DEF IInv, TypeOK
  <2> QED
    BY <1>1, <1>2, <2>1, <2>2, <2>3 DEF TypeOK, Given
<1>7. HeadInv'
  <2>1. (completed => request.method = "POST")'
    BY <1>1, <1>2, <1>4
  <2>2. Dispatched'
    BY <1>3, <1>5 DEF Dispatched, NotYet
  <2>3. Count' = Count /\ HeadEnd' = HeadEnd /\ (Valid' <=> Valid)
    BY <1>2, SameRequest
  <2>4. Clean' => Clean
    BY <1>2, <2>3 DEF Clean, PlainBodies, Plain
  <2>5. ASSUME Clean
        PROVE  /\ parsable' /\ Count > 0 /\ Valid /\ body' = HeadEnd
               /\ RightHeaders(headers')
    <3>1. /\ parsable /\ Count > 0 /\ Valid /\ read = HeadEnd
          /\ RightHeaders(headers)
      BY <1>2, <1>4, <2>5 DEF WorkingInv
    <3>2. CutWell(read, read + n)
      BY <1>3, <3>1 DEF CutWell
    <3> QED
      BY <1>1, <1>2, <1>5, <3>1, <3>2
  <2>6. WorkingInv'
    <3>1. Clean' => /\ parsable' /\ Count' > 0 /\ Valid' /\ body' = HeadEnd'
                    /\ (RightHeaders(headers))'
      BY <1>2, <2>3, <2>4, <2>5, SameRequest
    <3> QED
      BY <2>2, <3>1 DEF WorkingInv
  <2> QED
    BY <1>1, <2>1, <2>6 DEF HeadInv
<1> QED
  BY <1>6, <1>7 DEF IInv

\* More of the request arrives, or nothing happens.
LEMMA QuietStep ==
  ASSUME IInv, Arrive \/ UNCHANGED vars
  PROVE  IInv'
<1>1. /\ UNCHANGED <<request, stream, read, state, curr, memory, completed, headers,
                     answer, body, parsable>>
      /\ arrived' \in arrived..Len(stream) /\ arrived \in Nat /\ Len(stream) \in Nat
      /\ read \in 0..arrived /\ Given
  <2>1. Given /\ read \in 0..arrived /\ arrived \in 0..Len(stream)
    BY DEF IInv, TypeOK, Given
  <2>2. stream \in Seq(Chars)
    BY <2>1, StreamShape DEF HeadShape
  <2>3. Len(stream) \in Nat
    BY <2>2
  <2>4. arrived \in Nat /\ arrived \in arrived..Len(stream)
    BY <2>1, <2>3
  <2>5. CASE Arrive
    <3>1. PICK to \in (arrived + 1)..Len(stream) : arrived' = to
      BY <2>5 DEF Arrive
    <3>2. arrived' \in arrived..Len(stream)
      BY <2>3, <2>4, <3>1
    <3> QED
      BY <2>1, <2>3, <2>4, <2>5, <3>2 DEF Arrive
  <2>6. CASE UNCHANGED vars
    BY <2>1, <2>3, <2>4, <2>6 DEF vars
  <2> QED
    BY <2>5, <2>6
<1>2. stream' = stream /\ Given'
  BY <1>1 DEF Given
<1>3. read' \in 0..arrived' /\ arrived' \in 0..Len(stream')
  <2>1. Len(stream') = Len(stream)
    BY <1>2
  <2>2. read \in 0..arrived' /\ arrived' \in 0..Len(stream)
    BY <1>1
  <2> QED
    BY <1>1, <2>1, <2>2
<1>4. TypeOK'
  <2>1. /\ state' \in {"PROCESSING_REQUEST_LINE", "PROCESSING_HEADERS", "WORKING", "ENDING",
                     "OVERFLOWN"}
        /\ curr' \in 0..(BUFFER - 1)
        /\ memory' \in Seq({Url, Text, "length", "digits"})
        /\ completed' \in BOOLEAN /\ parsable' \in BOOLEAN
        /\ IF completed' THEN \E h \in ContentLengths : headers' = <<h>> ELSE headers' = <<>>
        /\ answer' \in {NotYet, 400, 404}
    BY <1>1 DEF IInv, TypeOK
  <2>2. (Answered = (state = "ENDING"))' /\ (Dispatched => state = "WORKING")'
    BY <1>1 DEF IInv, TypeOK, Answered, Dispatched
  <2>3. body' \in {NotYet} \cup 0..Len(stream')
    BY <1>1, <1>2 DEF IInv, TypeOK
  <2> QED
    BY <1>1, <1>2, <1>3, <2>1, <2>2, <2>3 DEF TypeOK, Given
<1>5. HeadInv'
  <2>1. Count' = Count /\ HeadEnd' = HeadEnd /\ Line' = Line /\ (Valid' <=> Valid)
    BY <1>1, SameRequest
  <2>2. LineInv => LineInv'
    BY <1>1 DEF LineInv
  <2>3. HeadersInv => HeadersInv'
    BY <1>1, SameRequest DEF HeadersInv
  <2>4. Clean' => Clean
    BY <1>1, <2>1 DEF Clean, PlainBodies, Plain
  <2>5. WorkingInv => WorkingInv'
    BY <1>1, <2>1, <2>4, SameRequest DEF WorkingInv, Dispatched
  <2>6. EndingInv => EndingInv'
    BY <1>1, <2>1 DEF EndingInv
  <2>7. OverflownInv => OverflownInv'
    BY <1>1, SameRequest DEF OverflownInv
  <2> QED
    BY <1>1, <2>2, <2>3, <2>5, <2>6, <2>7 DEF IInv, HeadInv
<1> QED
  BY <1>4, <1>5 DEF IInv

\* Before anything is read.
LEMMA InitIsRight == Init => IInv
<1> SUFFICES ASSUME Init PROVE IInv
  OBVIOUS
<1>1. /\ Given
      /\ arrived = 0 /\ read = 0
      /\ state = "PROCESSING_REQUEST_LINE" /\ curr = 0
      /\ memory = <<>> /\ completed = FALSE /\ headers = <<>>
      /\ answer = NotYet /\ body = NotYet /\ parsable = TRUE
  BY DEF Init, Given
<1>2. Len(stream) \in Nat /\ BUFFER \in Nat /\ BUFFER > 4
  <2>1. stream \in Seq(Chars)
    BY <1>1, StreamShape DEF HeadShape
  <2> QED
    BY <2>1, BufferAssumption
<1>3. TypeOK
  <2>1. read \in 0..arrived /\ arrived \in 0..Len(stream) /\ curr \in 0..(BUFFER - 1)
    BY <1>1, <1>2
  <2>2. memory \in Seq({Url, Text, "length", "digits"})
    BY <1>1, <1>2
  <2>3. (Answered = (state = "ENDING")) /\ (Dispatched => state = "WORKING")
    BY <1>1 DEF Answered, Dispatched
  <2> QED
    BY <1>1, <2>1, <2>2, <2>3 DEF TypeOK, Given
<1>4. HeadInv
  BY <1>1 DEF HeadInv, LineInv
<1> QED
  BY <1>3, <1>4 DEF IInv

\* The invariant of the parser holds in every behaviour.
LEMMA Invariance == Spec => []IInv
<1>1. IInv /\ [Next]_vars => IInv'
  <2> SUFFICES ASSUME IInv, [Next]_vars PROVE IInv'
    OBVIOUS
  <2>1. CASE NotFound
    BY <2>1, NotFoundStep
  <2>2. CASE BadLine
    BY <2>2, BadLineStep
  <2>3. CASE \E start \in 0..(BUFFER - 1) : Skip(start)
    BY <2>3, SkipStep
  <2>4. CASE \E start \in 0..(BUFFER - 1) : HeaderTooLarge(start)
    BY <2>4, HeaderTooLargeStep
  <2>10. CASE \E start \in 0..(BUFFER - 1) : Overflow(start)
    BY <2>10, OverflowStep
  <2>5. CASE \E start \in 0..(BUFFER - 1) : BadHeaders(start)
    BY <2>5, BadHeadersStep
  <2>6. CASE \E start \in 0..(BUFFER - 1) : KeepReading(start)
    BY <2>6, KeepReadingStep
  <2>7. CASE \E start \in 0..(BUFFER - 1) : EndOfHead(start)
    BY <2>7, EndOfHeadStep
  <2>8. CASE BodyArrives
    BY <2>8, BodyArrivesStep
  <2>9. CASE Arrive \/ UNCHANGED vars
    BY <2>9, QuietStep
  <2> QED
    BY <2>1, <2>2, <2>3, <2>4, <2>5, <2>6, <2>7, <2>8, <2>9, <2>10, Zenon DEF Next, ServerJob
<1> QED
  BY <1>1, InitIsRight, PTL DEF Spec

-----------------------------------------------------------------------------
(***************************************************************************)
(* What follows from it.                                                   *)
(***************************************************************************)

\* Every variable has its type, and a Content-Length is recorded exactly when
\* its bit is set.  How long the unfinished line gets is not bounded by this:
\* see OverflowsOnlyOnLongLines.
THEOREM TypeCorrect == Spec => []TypeOK
<1>1. IInv => TypeOK
  BY DEF IInv
<1> QED
  BY <1>1, Invariance, PTL

\* However a request is cut, its endpoint has what its client sent, when no body
\* begins with a line break or holds a blank line.
THEOREM DispatchedAlwaysRight ==
  ASSUME PlainBodies
  PROVE  Spec => []DispatchedIsRight
<1>1. IInv => DispatchedIsRight
  BY DEF IInv, TypeOK, HeadInv, WorkingInv, Clean, DispatchedIsRight, RightHeaders
<1> QED
  BY <1>1, Invariance, PTL

\* A request whose headers fit the memory and which is cut at good places is
\* parsed as if it came in one piece, whatever its body is.
THEOREM WellCutAlwaysParsed == Spec => []WellCutIsParsed
<1>1. IInv => WellCutIsParsed
  <2> SUFFICES ASSUME IInv, parsable, read >= HeadEnd, request.headers # <<>>, HeadersFit
               PROVE  IF Valid
                      THEN state = "WORKING" /\ (Dispatched \/ (request.method = "POST" /\ read = HeadEnd))
                      ELSE answer = 400
    BY DEF WellCutIsParsed
  <2>1. /\ Count \in Nat /\ Line \in Nat /\ HeadEnd \in Nat
        /\ HeadEnd = Ends(Count) + 3 /\ Ends(Count) >= Line + 1 /\ Ends(Count) \in Nat
        /\ request.headers \in [1..Count -> Headers] /\ read \in Nat /\ BUFFER \in Nat
    <3>1. Len(stream) \in Nat
      <4>1. stream \in Seq(Chars)
        BY StreamShape DEF IInv, TypeOK, Given, HeadShape
      <4> QED
        BY <4>1
    <3>2. Given /\ read \in 0..arrived /\ arrived \in 0..Len(stream)
      BY DEF IInv, TypeOK, Given
    <3>3. read \in Nat
      BY <3>1, <3>2
    <3> QED
      BY <3>2, <3>3, RequestTypes, HeadTail
  <2>2. Count > 0
    <3>1. Count # 0
      <4> SUFFICES ASSUME Count = 0 PROVE FALSE
        OBVIOUS
      <4>1. request.headers \in [1..0 -> Headers]
        BY <2>1
      <4>2. request.headers = <<>>
        BY <4>1
      <4> QED
        BY <4>2
    <3> QED
      BY <2>1, <3>1
  <2>3. CASE state = "PROCESSING_REQUEST_LINE"
    BY <2>1, <2>3 DEF IInv, HeadInv, LineInv
  <2>4. CASE state = "PROCESSING_HEADERS"
    BY <2>1, <2>2, <2>4 DEF IInv, HeadInv, HeadersInv
  <2>5. CASE state = "WORKING"
    BY <2>2, <2>5 DEF IInv, HeadInv, WorkingInv, Clean
  <2>6. CASE state = "ENDING"
    BY <2>2, <2>6 DEF IInv, HeadInv, EndingInv
  <2>7. state # "OVERFLOWN"
    <3> SUFFICES ASSUME state = "OVERFLOWN" PROVE FALSE
      OBVIOUS
    <3>1. PICK k \in 1..Count : Len(request.headers[k]) > BUFFER
      BY <2>2 DEF IInv, HeadInv, OverflownInv, TooLong
    <3>2. Len(request.headers[k]) <= BUFFER
      BY DEF HeadersFit, Count
    <3>3. request.headers[k] \in Headers
      BY <2>1
    <3> QED
      BY <2>1, <3>1, <3>2, <3>3, HeaderChars
  <2> QED
    BY <2>3, <2>4, <2>5, <2>6, <2>7 DEF IInv, TypeOK
<1> QED
  BY <1>1, Invariance, PTL

\* A request that is cut at a bad place never reaches an endpoint.
THEOREM BadlyCutNeverServed ==
  ASSUME PlainBodies
  PROVE  Spec => []BadlyCutIsNotServed
<1>1. IInv => BadlyCutIsNotServed
  BY DEF IInv, TypeOK, HeadInv, WorkingInv, Clean, BadlyCutIsNotServed
<1> QED
  BY <1>1, Invariance, PTL

\* The memory of an unfinished line overflows for no request whose lines are
\* short, however many they are and however they are cut.
THEOREM OverflowsOnlyOnLongLines == Spec => []OnlyLongLinesOverflow
<1>1. IInv => OnlyLongLinesOverflow
  BY DEF IInv, HeadInv, OverflownInv, LongLine, OnlyLongLinesOverflow, Overflown
<1> QED
  BY <1>1, Invariance, PTL
=============================================================================
