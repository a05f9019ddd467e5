---------------------------- MODULE ReadyQueue -----------------------------
(***************************************************************************)
(* The ready queue of kernel/src/core/exec/scheduler.c: a doubly linked    *)
(* list threaded through the next and prev fields of the task table, with  *)
(* ready_queue_head and ready_queue_tail.  The field q is history: the     *)
(* first-in first-out queue the list stands for.                           *)
(*                                                                         *)
(* The operations are operators on the list, because timer_callback and    *)
(* scheduler_yield compose two of them in one step; Scheduler uses them.   *)
(***************************************************************************)
EXTENDS Naturals, Sequences

CONSTANTS Tasks, NULL

ASSUME QueueConstants == NULL \notin Tasks

VARIABLE ready

\* next, prev   the link fields of every task
\* head, tail   ready_queue_head, ready_queue_tail
\* q            history: the queue as a sequence
Lists == [next : [Tasks -> Tasks \cup {NULL}],
          prev : [Tasks -> Tasks \cup {NULL}],
          head : Tasks \cup {NULL}, tail : Tasks \cup {NULL}, q : Seq(Tasks)]

EmptyList == [next |-> [t \in Tasks |-> NULL], prev |-> [t \in Tasks |-> NULL],
              head |-> NULL, tail |-> NULL, q |-> <<>>]

Elements(s) == {s[k] : k \in 1 .. Len(s)}
Members(l)  == Elements(l.q)

-----------------------------------------------------------------------------
\* The callers add a task that is in no queue: the current one, which was
\* taken out when it was scheduled, or one just created.
add_to_ready_queue(l, task) ==
  [next |-> IF l.head = NULL THEN [l.next EXCEPT ![task] = NULL]
            ELSE [l.next EXCEPT ![task] = NULL, ![l.tail] = task],
   prev |-> [l.prev EXCEPT ![task] = IF l.head = NULL THEN NULL ELSE l.tail],
   head |-> IF l.head = NULL THEN task ELSE l.head,
   tail |-> task,
   q    |-> Append(l.q, task)]

Unlink_KeepTail(l) ==
  [next |-> [l.next EXCEPT ![l.head] = NULL],
   prev |-> [t \in Tasks |-> IF t \in {l.head, l.next[l.head]} THEN NULL
                             ELSE l.prev[t]],
   head |-> l.next[l.head],
   tail |-> l.tail,
   q    |-> Tail(l.q)]

\* The unlinking of the head, in schedule_next and in remove_from_ready_queue.
Unlink(l) ==
  [next |-> [l.next EXCEPT ![l.head] = NULL],
   prev |-> [t \in Tasks |-> IF t \in {l.head, l.next[l.head]} THEN NULL
                             ELSE l.prev[t]],
   head |-> l.next[l.head],
   tail |-> IF l.next[l.head] = NULL THEN NULL ELSE l.tail,
   q    |-> Tail(l.q)]

\* The sequence s without its k-th element.
Without(s, k) == [j \in 1 .. Len(s) - 1 |-> IF j < k THEN s[j] ELSE s[j + 1]]

\* Unlinking the tail when it is not the head as well.
RemoveTail(l) ==
  [next |-> [t \in Tasks |-> IF t \in {l.tail, l.prev[l.tail]} THEN NULL
                             ELSE l.next[t]],
   prev |-> [l.prev EXCEPT ![l.tail] = NULL],
   head |-> IF l.prev[l.tail] = NULL THEN NULL ELSE l.head,
   tail |-> l.prev[l.tail],
   q    |-> Without(l.q, Len(l.q))]

\* Unlinking a task inside the queue.  A task in no queue has NULL links, and
\* nothing changes.
RemoveInside(l, task) ==
  [next |-> [t \in Tasks |-> IF t = task THEN NULL
                             ELSE IF t = l.prev[task] THEN l.next[task]
                             ELSE l.next[t]],
   prev |-> [t \in Tasks |-> IF t = task THEN NULL
                             ELSE IF t = l.next[task] THEN l.prev[task]
                             ELSE l.prev[t]],
   head |-> l.head,
   tail |-> l.tail,
   q    |-> IF task \in Members(l)
              THEN Without(l.q, CHOOSE k \in 1 .. Len(l.q) : l.q[k] = task)
              ELSE l.q]

remove_from_ready_queue(l, task) ==
  IF task = l.head THEN Unlink(l)
  ELSE IF task = l.tail THEN RemoveTail(l)
  ELSE RemoveInside(l, task)

-----------------------------------------------------------------------------
(* Any use of the queue: the specification SchedulerProofs starts with        *)

QueueInit == ready = EmptyList

QueueNext ==
  \/ \E t \in Tasks \ Members(ready) : ready' = add_to_ready_queue(ready, t)
  \/ ready.head # NULL /\ ready' = Unlink(ready)
  \/ \E t \in Tasks : ready' = remove_from_ready_queue(ready, t)

QueueSpec == QueueInit /\ [][QueueNext]_ready

\* The links are the queue q: following next from the head visits the tasks
\* in the order they were added and ends at the tail, following prev visits
\* them backwards, no task occurs twice, and a task in no queue has NULL links
\* (which is what makes its removal harmless).
Threads(next, prev, head, tail, q) ==
  /\ (head = NULL <=> q = <<>>) /\ (tail = NULL <=> q = <<>>)
  /\ q # <<>> => head = q[1] /\ tail = q[Len(q)]
  /\ \A k \in 1 .. Len(q) :
       /\ next[q[k]] = IF k = Len(q) THEN NULL ELSE q[k + 1]
       /\ prev[q[k]] = IF k = 1 THEN NULL ELSE q[k - 1]
  /\ \A j, k \in 1 .. Len(q) : q[j] = q[k] => j = k
  /\ \A t \in Tasks \ Elements(q) : next[t] = NULL /\ prev[t] = NULL

IsQueue(l) == Threads(l.next, l.prev, l.head, l.tail, l.q)

\* The doubly linked list that add_to_ready_queue, schedule_next and
\* remove_from_ready_queue keep is the queue, whatever order they come in.
Linked == ready \in Lists /\ IsQueue(ready)
=============================================================================
