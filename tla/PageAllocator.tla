--------------------------- MODULE PageAllocator ---------------------------
(***************************************************************************)
(* What a page allocator promises its callers: a frame is free or owned,   *)
(* never both; an allocation moves one contiguous run from free to owned   *)
(* at once and returns its first frame, or returns NULL and changes        *)
(* nothing; a release gives back owned frames only.  It says nothing of    *)
(* bitmaps, scans or which run is chosen.                                  *)
(***************************************************************************)
EXTENDS Integers

CONSTANT NULL

VARIABLES up, free, owned, ret

vars == <<up, free, owned, ret>>

Init == up = FALSE /\ free = {} /\ owned = {} /\ ret = NULL

Boot ==
  /\ ~ up /\ up'
  /\ free' \subseteq Nat
  /\ UNCHANGED <<owned, ret>>

Allocate ==
  /\ up
  /\ \E first \in free, last \in free :
       /\ first <= last /\ first .. last \subseteq free
       /\ free' = free \ (first .. last)
       /\ owned' = owned \cup (first .. last)
       /\ ret' = first
  /\ UNCHANGED up

Refuse == ret' = NULL /\ UNCHANGED <<up, free, owned>>

Release ==
  /\ owned' \subseteq owned
  /\ free' = free \cup (owned \ owned')
  /\ UNCHANGED <<up, ret>>

Next == Boot \/ Allocate \/ Refuse \/ Release

Spec == Init /\ [][Next]_vars
=============================================================================
