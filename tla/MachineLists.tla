---------------------------- MODULE MachineLists ----------------------------
(***************************************************************************)
(* The two lists of a server machine (backend/src/server-machine.c): the   *)
(* parameters that process_request_line cuts out of the URL, and the       *)
(* headers that process_headers keeps, over many requests on one machine,  *)
(* with the heap strings they own.                                         *)
(*                                                                         *)
(* A text is a sequence of tokens.  What matters of the read buffer begins *)
(* behind the '?' of the URL and goes on to its end: the rest of the       *)
(* request line and the headers, in which '&', '=' and blanks may occur as *)
(* well, a Referer or a cookie for instance.                               *)
(***************************************************************************)
EXTENDS DynList, SequencesExt, FiniteSets

CONSTANTS
  Keys,         \* pairs of parameter names, as the routes require them
  MaxRest       \* bound: tokens of the buffer behind the URL and its blank

Amp == "&"
Equal == "="
Blank == " "
Word == "word"
Values == <<"first", "second">>

\* The tokens of all texts.
Token == {Amp, Equal, Blank, Word, Values[1], Values[2]}
           \cup {k[1] : k \in Keys} \cup {k[2] : k \in Keys}

\* The routes name two different parameters each, by words.
ASSUME KeysAssumption ==
  \A k \in Keys : k[1] # k[2] /\ \A i \in 1..2 : k[i] \notin {Amp, Equal, Blank}
ASSUME RestAssumption == MaxRest \in Nat
ASSUME NullAssumption == NULL # Garbage /\ NULL \notin Token

\* The numbers of S in ascending order.
Ascending(S) ==
  [k \in 1..Cardinality(S) |-> CHOOSE n \in S : Cardinality({m \in S : m <= n}) = k]

Free == <<NULL>>              \* a piece of the heap that is not allocated
Addresses == 1..(MaxRest + 4)

VARIABLES
  request,      \* the request this machine is busy with, or NoRequest
  params, headers,
  strings       \* the heap: the text at each address, or Free

vars == <<request, params, headers, strings>>

NoRequest == [kind |-> "none"]
Stopped == [kind |-> "stopped"]
Upload == [kind |-> "upload"]
Queries == [kind : {"query"}, keys : Keys,
            rest : {<<Word>> \o r : r \in BoundedSeq({Amp, Equal, Blank, Word}, MaxRest)}]

\* The buffer behind the '?' of a query.
BufferOf(q) ==
  <<q.keys[1], Equal, Values[1], Amp, q.keys[2], Equal, Values[2], Blank>> \o q.rest

Allocated == {a \in Addresses : strings[a] # Free}
\* malloc takes the first addresses that are free.
Malloc(n) == SubSeq(Ascending(Addresses \ Allocated), 1, n)
Release(S) == [a \in Addresses |-> IF a \in S THEN Free ELSE strings[a]]

AppendAll(l, addresses) ==
  LET after[k \in 0..Len(addresses)] ==
        IF k = 0 THEN l ELSE list_append(after[k - 1], addresses[k])
  IN  after[Len(addresses)]

Strdup(addresses, texts) ==
  [a \in Addresses |-> IF \E k \in DOMAIN addresses : addresses[k] = a
                       THEN texts[CHOOSE k \in DOMAIN addresses : addresses[k] = a]
                       ELSE strings[a]]

(***************************************************************************)
(* Cutting the parameters out of the buffer: at every '&' there is, and    *)
(* the last piece at its first blank, if it has one.                       *)
(***************************************************************************)
\* Faulty: does not cut the last piece at its blank.
PiecesUncut(buffer) ==
  LET cuts == <<0>> \o Ascending({i \in DOMAIN buffer : buffer[i] = Amp}) IN
  [k \in DOMAIN cuts |->
     SubSeq(buffer, cuts[k] + 1, IF k < Len(cuts) THEN cuts[k + 1] - 1 ELSE Len(buffer))]

Pieces(buffer) ==
  LET cuts == <<0>> \o Ascending({i \in DOMAIN buffer : buffer[i] = Amp})
      last == SubSeq(buffer, cuts[Len(cuts)] + 1, Len(buffer))
      blank == SelectInSeq(last, LAMBDA c : c = Blank)
  IN  [k \in DOMAIN cuts |->
         IF k < Len(cuts) THEN SubSeq(buffer, cuts[k] + 1, cuts[k + 1] - 1)
         ELSE SubSeq(last, 1, IF blank = 0 THEN Len(last) ELSE blank - 1)]

\* get_param: the first parameter whose key is as much of the name as it is
\* long, which an empty key is of any name.
GetParam(name) ==
  LET texts == [i \in 1..params.len |-> strings[params.array[i]]]
      sign(text) == SelectInSeq(text, LAMBDA c : c = Equal)
      found == SelectInSeq(texts, LAMBDA text :
                 sign(text) # 0 /\ SubSeq(text, 1, sign(text) - 1) \in {<<>>, <<name>>})
  IN  IF found = 0 THEN Free ELSE SubSeq(texts[found], sign(texts[found]) + 1, Len(texts[found]))

-----------------------------------------------------------------------------
\* The request line of a query is in the buffer, with what was read behind it.
QueryLine ==
  /\ request = NoRequest
  /\ \E q \in Queries :
       LET pieces == Pieces(BufferOf(q))
           at == Malloc(Len(pieces))
       IN  /\ request' = q
           /\ params' = AppendAll(params, at)
           /\ strings' = Strdup(at, pieces)
  /\ UNCHANGED headers

\* The request line of an upload, which has no parameters.
UploadLine ==
  /\ request = NoRequest /\ request' = Upload
  /\ UNCHANGED <<params, headers, strings>>

\* add_header: an upload's Content-Length is kept; a second one is refused.
AddHeader ==
  /\ request = Upload /\ headers.len = 0
  /\ headers' = AppendAll(headers, Malloc(1))
  /\ strings' = Strdup(Malloc(1), << <<Word>> >>)
  /\ UNCHANGED <<request, params>>

\* What server_machine_reset makes of a list: all cells are cleared.
Cleared(l) ==
  LET freed == IF l.len > 0 THEN list_free_contents(l) ELSE l IN
  [freed EXCEPT !.array = [i \in 1..l.capacity |-> NULL], !.len = 0]

\* Faulty: frees the parameters only of a request that has headers.
ResetTogether ==
  /\ request \notin {NoRequest, Stopped} /\ request' = NoRequest
  /\ params' = Cleared(params) /\ headers' = Cleared(headers)
  /\ strings' = IF headers.len > 0 THEN Release(ToSet(Contents(params)) \cup ToSet(Contents(headers)))
                ELSE strings

\* server_machine_reset: the request was answered, refused or timed out, or its
\* client left.
Reset ==
  /\ request \notin {NoRequest, Stopped} /\ request' = NoRequest
  /\ params' = Cleared(params) /\ headers' = Cleared(headers)
  /\ strings' = Release(ToSet(Contents(params)) \cup ToSet(Contents(headers)))

\* main leaves its loop, which it does after DEBUG_MAX_CYCLES rounds.
Shutdown ==
  /\ request # Stopped /\ request' = Stopped
  /\ params' = list_free(params) /\ headers' = list_free(headers)
  /\ strings' = Release(ToSet(Contents(params)) \cup ToSet(Contents(headers)))

Init ==
  /\ request = NoRequest
  /\ params = list_new /\ headers = list_new
  /\ strings = [a \in Addresses |-> Free]

Next == QueryLine \/ UploadLine \/ AddHeader \/ Reset \/ Shutdown

Spec == Init /\ [][Next]_vars

-----------------------------------------------------------------------------
(***************************************************************************)
(* Properties.                                                             *)
(***************************************************************************)
IsList(l) ==
  /\ l.capacity \in 0..(2 * Cardinality(Addresses)) /\ l.len \in 0..l.capacity
  /\ l.array \in [1..l.capacity -> Addresses \cup {NULL, Garbage}]

\* Every variable has its type; in particular no list holds more elements than
\* its array has cells.
TypeOK ==
  /\ request \in Queries \cup {NoRequest, Stopped, Upload}
  /\ IsList(params) /\ IsList(headers)
  /\ DOMAIN strings = Addresses

\* The elements of the two lists are the strings on the heap, each once, for
\* the whole life of the machine: nothing leaks, is freed twice, or is read
\* after it was freed.
StringsOwned ==
  LET owned == Contents(params) \o Contents(headers) IN
  /\ ToSet(owned) = Allocated
  /\ Cardinality(Allocated) = Len(owned)

\* get_param returns the values of this request's URL: of the first parameter
\* always, of the second one unless a '&' was read behind the URL, whatever
\* requests came before.
ParamsAreTheUrls ==
  request.kind = "query" =>
    /\ GetParam(request.keys[1]) = <<Values[1]>>
    /\ Amp \notin ToSet(request.rest) => GetParam(request.keys[2]) = <<Values[2]>>
=============================================================================
