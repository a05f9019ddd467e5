------------------------------ MODULE FileStore ------------------------------
(***************************************************************************)
(* What ext2_read and ext2_write promise: a file is a sequence of words,   *)
(* an open file a position in it.  A write may stop early, for want of     *)
(* space, and replaces or appends what it has written; a read gives what   *)
(* is there and changes no file.  Nothing is promised for a file that was  *)
(* open twice at a time, its handles included: it is lost.                 *)
(***************************************************************************)
EXTENDS Naturals, Sequences

CONSTANTS File, Fd, Words, MaxCount

VARIABLES
  content,   \* the words of each file
  opened,    \* the file of each handle, or none
  pos,       \* the position of each handle
  lost       \* files that were open twice at a time

storeVars == <<content, opened, pos, lost>>

\* The words of s with k copies of w from position p on.
Overwritten(s, p, k, w) ==
  [i \in 1 .. (IF p + k > Len(s) THEN p + k ELSE Len(s)) |->
     IF i \in p + 1 .. p + k THEN w ELSE s[i]]

Open(fd, f) ==
  /\ opened[fd] = {} /\ opened' = [opened EXCEPT ![fd] = {f}]
  /\ lost' = IF \E g \in Fd : opened[g] = {f} THEN lost \cup {f} ELSE lost
  /\ content' = [g \in File |-> IF g \in lost' THEN <<>> ELSE content[g]]
  /\ pos' = [g \in Fd |-> IF g = fd \/ opened[g] \subseteq lost' THEN 0
                          ELSE pos[g]]

Close(fd) ==
  /\ opened[fd] # {} /\ opened' = [opened EXCEPT ![fd] = {}]
  /\ pos' = [pos EXCEPT ![fd] = 0]
  /\ UNCHANGED <<content, lost>>

CloseAll ==
  /\ opened' = [fd \in Fd |-> {}] /\ pos' = [fd \in Fd |-> 0]
  /\ UNCHANGED <<content, lost>>

Read(fd) ==
  \E f \in opened[fd] \ lost, k \in 0 .. MaxCount :
    /\ pos[fd] + k <= Len(content[f])
    /\ pos' = [pos EXCEPT ![fd] = @ + k]
    /\ UNCHANGED <<content, opened, lost>>

Write(fd) ==
  \E f \in opened[fd] \ lost, k \in 0 .. MaxCount, w \in Words :
    /\ content' = [content EXCEPT ![f] = Overwritten(@, pos[fd], k, w)]
    /\ pos' = [pos EXCEPT ![fd] = @ + k]
    /\ UNCHANGED <<opened, lost>>

StoreInit ==
  /\ content = [f \in File |-> <<>>]
  /\ opened = [fd \in Fd |-> {}] /\ pos = [fd \in Fd |-> 0] /\ lost = {}

StoreNext ==
  \/ \E fd \in Fd, f \in File : Open(fd, f)
  \/ \E fd \in Fd : Close(fd) \/ Read(fd) \/ Write(fd)
  \/ CloseAll

StoreSpec == StoreInit /\ [][StoreNext]_storeVars
=============================================================================
