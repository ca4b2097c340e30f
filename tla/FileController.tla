--------------------------- MODULE FileController ---------------------------
(***************************************************************************)
(* The in-memory catalogue of stored images (backend/src/file-controller.c *)
(* over the growable array of backend/src/list.c) and the directory lookup *)
(* of backend/src/files.c, as operators over the catalogue                 *)
(*                                                                         *)
(*    images    the sequence of recorded ids, in the order of recording.   *)
(*                                                                         *)
(* The code keeps the ids in a C array: position i of the array is         *)
(* images[i + 1].  The operators are pure; ImageStore owns the state.      *)
(***************************************************************************)
EXTENDS Integers, Sequences, FiniteSets

\* The position bsearch reports for an id it does not find (a null pointer).
NotFound == -1

\* The value read by this_at(i) outside the recorded prefix of the array.
OutOfBounds == -2

(***************************************************************************)
(* The catalogue.                                                          *)
(***************************************************************************)
Recorded(images) == {images[i] : i \in 1..Len(images)}

\* Faulty: the id is put in front (an insertion at index 0).
RecordFileInFront(images, id) == <<id>> \o images

RecordFile(images, id) == Append(images, id)

GetLength(images) == Len(images)

\* The last id recorded, which is not always the largest one.
GetCurrent(images) == images[Len(images)]

\* Faulty: the next id is derived from the number of ids.
GetNextIndexByLength(images) == GetLength(images) + 1

\* Faulty: the current id is handed out again.
GetNextIndexNotAdvanced(images) == IF Len(images) = 0 THEN 1 ELSE GetCurrent(images)

GetNextIndex(images) == IF Len(images) = 0 THEN 1 ELSE GetCurrent(images) + 1

(***************************************************************************)
(* Start-up: every <id>.<ext> of the thumbnail directory is recorded in    *)
(* readdir order and the array is then sorted with qsort/sort_asc, so the  *)
(* result depends on the set of ids only: position i holds the id that has *)
(* exactly i ids at or below it.                                           *)
(***************************************************************************)
\* Faulty: the ids are left in the (here: descending) order of readdir.
ControllerInitUnsorted(ids) ==
  [i \in 1..Cardinality(ids) |->
     CHOOSE x \in ids : Cardinality({y \in ids : y >= x}) = i]

ControllerInit(ids) ==
  [i \in 1..Cardinality(ids) |->
     CHOOSE x \in ids : Cardinality({y \in ids : y <= x}) = i]

(***************************************************************************)
(* The C library's bsearch (glibc): probe the middle of [lo, hi) until the *)
(* range is empty.  The code calls it on `images` whether or not the array *)
(* is in ascending order.                                                  *)
(***************************************************************************)
BSearch(images, id) ==
  LET Position == 0..Len(images)
      probe[range \in Position \X Position] ==
        LET lo == range[1]
            hi == range[2]
            mid == (lo + hi) \div 2
        IN  IF lo >= hi THEN NotFound
            ELSE IF id < images[mid + 1] THEN probe[<<lo, mid>>]
            ELSE IF id > images[mid + 1] THEN probe[<<mid + 1, hi>>]
            ELSE mid
  IN  probe[<<0, Len(images)>>]

IsRegistered(images, id) == BSearch(images, id) # NotFound

(***************************************************************************)
(* A batch walks the array downwards from the 1-based position start.      *)
(***************************************************************************)
ThisAt(images, i) == IF i \in 0..(Len(images) - 1) THEN images[i + 1] ELSE OutOfBounds

\* Faulty: the batch begins one position late.
GetBatchOffByOne(images, start, size) ==
  [k \in 1..(IF size < Len(images) THEN size ELSE Len(images)) |->
     ThisAt(images, start - k - 1)]

GetBatch(images, start, size) ==
  [k \in 1..(IF size < Len(images) THEN size ELSE Len(images)) |->
     ThisAt(images, start - k)]

(***************************************************************************)
(* open_img_at scans a directory and opens the first entry whose leading   *)
(* digits agree with the requested id over the length of the ENTRY's       *)
(* digits: every entry whose number is a decimal prefix of the id matches, *)
(* whatever its extension, and readdir's order decides among them.         *)
(***************************************************************************)
DigitPrefixes[id \in Nat] ==
  {id} \cup (IF id < 10 THEN {} ELSE DigitPrefixes[id \div 10])

Candidates(ids, id) == ids \cap DigitPrefixes[id]
=============================================================================
