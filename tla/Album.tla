------------------------------- MODULE Album --------------------------------
(***************************************************************************)
(* What the image store promises: an album that only grows at its end.     *)
(* A picture is added with or without a promise (201 Created); a promised  *)
(* picture is in the album from the moment of the promise.                 *)
(***************************************************************************)
EXTENDS Naturals, Sequences

VARIABLES
  album,      \* the pictures, by position; position i has id i
  promised    \* the pictures whose storage was acknowledged

Init == album = <<>> /\ promised = {}

Added == Len(album') = Len(album) + 1 /\ SubSeq(album', 1, Len(album)) = album

Add == Added /\ promised' = promised

AddAndPromise ==
  Added /\ promised' = promised \cup {album'[Len(album')]}

Next == Add \/ AddAndPromise

Spec == Init /\ [][Next]_<<album, promised>>

\* Every promise is kept.
PromisesKept == \A pic \in promised : \E i \in 1..Len(album) : album[i] = pic
=============================================================================
