-------------------------- MODULE SchedulerProofs --------------------------
(* Proofs about Scheduler, for every size of the task table, every quantum *)
(* and both values of PicHolds.                                            *)
EXTENDS Scheduler, WellFoundedInduction, TLAPS

-----------------------------------------------------------------------------
(* The ready queue, for every size of the task table *)

\* The empty list of scheduler_init.
LEMMA EmptyIsQueue == EmptyList \in Lists /\ IsQueue(EmptyList)
BY QueueConstants DEF EmptyList, Lists, IsQueue, Threads, Elements

\* The links after adding a task, index by index.
LEMMA AddStep ==
  ASSUME NEW l \in Lists, IsQueue(l), NEW task \in Tasks \ Members(l),
         NEW m, m = add_to_ready_queue(l, task)
  PROVE  m \in Lists /\ IsQueue(m) /\ Members(m) = Members(l) \cup {task}
<1>a. PICK next, prev, head, tail, q :
        /\ next = l.next /\ prev = l.prev /\ head = l.head /\ tail = l.tail
        /\ q = l.q
  OBVIOUS
<1>b. PICK next2, prev2, head2, tail2, q2 :
        /\ next2 = m.next /\ prev2 = m.prev /\ head2 = m.head
        /\ tail2 = m.tail /\ q2 = m.q
  OBVIOUS
<1>c. /\ next \in [Tasks -> Tasks \cup {NULL}]
      /\ prev \in [Tasks -> Tasks \cup {NULL}]
      /\ head \in Tasks \cup {NULL} /\ tail \in Tasks \cup {NULL}
      /\ q \in Seq(Tasks) /\ Threads(next, prev, head, tail, q)
      /\ task \in Tasks /\ task \notin Elements(q)
  BY <1>a DEF Lists, IsQueue, Members
<1>d. /\ next2 = IF head = NULL THEN [next EXCEPT ![task] = NULL]
                 ELSE [next EXCEPT ![task] = NULL, ![tail] = task]
      /\ prev2 = [prev EXCEPT ![task] = IF head = NULL THEN NULL ELSE tail]
      /\ head2 = IF head = NULL THEN task ELSE head
      /\ tail2 = task /\ q2 = Append(q, task)
  BY <1>a, <1>b DEF add_to_ready_queue, Members
<1>e. ASSUME /\ next2 \in [Tasks -> Tasks \cup {NULL}]
             /\ prev2 \in [Tasks -> Tasks \cup {NULL}]
             /\ head2 \in Tasks \cup {NULL} /\ tail2 \in Tasks \cup {NULL}
             /\ q2 \in Seq(Tasks)
      PROVE  m \in Lists
  <2>1. m = [next |-> next2, prev |-> prev2, head |-> head2, tail |-> tail2,
             q |-> q2]
    BY <1>b DEF add_to_ready_queue
  <2> QED BY <1>e, <2>1 DEF Lists
<1>f. Threads(next2, prev2, head2, tail2, q2) => IsQueue(m)
  BY <1>b DEF IsQueue
<1> USE QueueConstants, <1>c
<1>1. /\ q \in Seq(Tasks) /\ Len(q) \in Nat
      /\ \A k \in 1 .. Len(q) : q[k] \in Tasks /\ q[k] # task
      /\ task \notin Elements(q)
  BY <1>d DEF Elements
<1>2. /\ q2 \in Seq(Tasks) /\ Len(q2) = Len(q) + 1
      /\ \A k \in 1 .. Len(q) : q2[k] = q[k]
      /\ q2[Len(q) + 1] = task
  BY <1>d, <1>1
<1>3. Elements(q2) = Elements(q) \cup {task}
  <2>1. \A k \in 1 .. Len(q2) : k \in 1 .. Len(q) \/ k = Len(q) + 1
    BY <1>1, <1>2
  <2>2. \A k \in 1 .. Len(q) : k \in 1 .. Len(q2)
    BY <1>1, <1>2
  <2>3. Len(q) + 1 \in 1 .. Len(q2)
    BY <1>1, <1>2
  <2> QED BY <1>2, <2>1, <2>2, <2>3 DEF Elements
<1>4. CASE q = <<>>
  <2>1. head = NULL /\ tail = NULL /\ Len(q) = 0
    BY <1>4 DEF Threads
  <2>2. m \in Lists
    BY <1>e, <1>d, <1>2, <2>1
  <2>3. Threads(next2, prev2, head2, tail2, q2)
    BY <1>d, <1>1, <1>2, <1>3, <1>4, <2>1 DEF Threads
  <2> QED BY <1>a, <1>b, <1>f, <1>3, <2>2, <2>3 DEF Members
<1>5. CASE q # <<>>
  <2>1. /\ head = q[1] /\ tail = q[Len(q)] /\ Len(q) >= 1
        /\ head # NULL /\ tail \in Tasks /\ tail # task
    BY <1>1, <1>5 DEF Threads
  <2>2. m \in Lists
    BY <1>e, <1>d, <1>2, <2>1
  <2>3. /\ prev2 = [prev EXCEPT ![task] = tail]
        /\ next2 = [next EXCEPT ![task] = NULL, ![tail] = task]
        /\ head2 = head /\ tail2 = task
    BY <1>d, <2>1
  <2>4. ASSUME NEW k \in 1 .. Len(q2)
        PROVE  /\ next2[q2[k]] = IF k = Len(q2) THEN NULL ELSE q2[k + 1]
               /\ prev2[q2[k]] = IF k = 1 THEN NULL ELSE q2[k - 1]
    <3>1. CASE k \in 1 .. Len(q) /\ k # Len(q)
      <4>1. q[k] # tail /\ q[k] # task /\ k + 1 \in 1 .. Len(q)
        BY <1>1, <2>1, <3>1 DEF Threads
      <4>2. next[q[k]] = q[k + 1] /\ prev[q[k]] = IF k = 1 THEN NULL ELSE q[k - 1]
        BY <1>1, <3>1 DEF Threads
      <4>3. k # 1 => k - 1 \in 1 .. Len(q)
        BY <1>1, <3>1
      <4> QED BY <1>1, <1>2, <2>3, <3>1, <4>1, <4>2, <4>3
    <3>2. CASE k = Len(q)
      <4>1. prev[q[k]] = IF k = 1 THEN NULL ELSE q[k - 1]
        BY <1>1, <2>1, <3>2 DEF Threads
      <4>2. k \in 1 .. Len(q) /\ (k # 1 => k - 1 \in 1 .. Len(q))
        BY <1>1, <2>1, <3>2
      <4> QED BY <1>1, <1>2, <2>1, <2>3, <3>2, <4>1, <4>2
    <3>3. CASE k = Len(q) + 1
      <4>1. k # 1 /\ k - 1 = Len(q) /\ Len(q) \in 1 .. Len(q)
        BY <1>1, <2>1, <3>3
      <4> QED BY <1>1, <1>2, <2>1, <2>3, <3>3, <4>1
    <3> QED BY <1>1, <1>2, <3>1, <3>2, <3>3
  <2>5. \A j, k \in 1 .. Len(q2) : q2[j] = q2[k] => j = k
    <3>1. \A k \in 1 .. Len(q2) : k \in 1 .. Len(q) \/ k = Len(q) + 1
      BY <1>1, <1>2
    <3> QED BY <1>1, <1>2, <3>1 DEF Threads
  <2>6. \A t \in Tasks \ Elements(q2) : next2[t] = NULL /\ prev2[t] = NULL
    <3>1. tail \in Elements(q)
      BY <1>1, <2>1 DEF Elements
    <3> QED BY <1>3, <2>1, <2>3, <3>1 DEF Threads
  <2>7. q2 # <<>> /\ head2 = q2[1] /\ tail2 = q2[Len(q2)]
    BY <1>1, <1>2, <2>1, <2>3
  <2>8. (head2 = NULL <=> q2 = <<>>) /\ (tail2 = NULL <=> q2 = <<>>)
    BY <2>1, <2>3, <2>7
  <2>9. Threads(next2, prev2, head2, tail2, q2)
    BY <2>4, <2>5, <2>6, <2>7, <2>8 DEF Threads
  <2> QED BY <1>a, <1>b, <1>f, <1>3, <2>2, <2>9 DEF Members
<1> QED BY <1>4, <1>5

\* The facts about a list from which its head is unlinked.
LEMMA UnlinkStep ==
  ASSUME NEW l \in Lists, IsQueue(l), l.head # NULL, NEW m, m = Unlink(l)
  PROVE  /\ m \in Lists /\ IsQueue(m)
         /\ l.head \in Tasks /\ Members(m) = Members(l) \ {l.head}
<1>a. PICK next, prev, head, tail, q :
        /\ next = l.next /\ prev = l.prev /\ head = l.head /\ tail = l.tail
        /\ q = l.q
  OBVIOUS
<1>b. PICK next2, prev2, head2, tail2, q2 :
        /\ next2 = m.next /\ prev2 = m.prev /\ head2 = m.head
        /\ tail2 = m.tail /\ q2 = m.q
  OBVIOUS
<1>c. /\ next \in [Tasks -> Tasks \cup {NULL}]
      /\ prev \in [Tasks -> Tasks \cup {NULL}]
      /\ head \in Tasks \cup {NULL} /\ tail \in Tasks \cup {NULL}
      /\ q \in Seq(Tasks) /\ Threads(next, prev, head, tail, q)
      /\ head # NULL
  BY <1>a DEF Lists, IsQueue, Members
<1>d. /\ next2 = [next EXCEPT ![head] = NULL] /\ head2 = next[head]
      /\ prev2 = [t \in Tasks |-> IF t \in {head, next[head]} THEN NULL
                                 ELSE prev[t]]
      /\ tail2 = IF next[head] = NULL THEN NULL ELSE tail
      /\ q2 = Tail(q)
  BY <1>a, <1>b DEF Unlink, Members
<1>e. ASSUME /\ next2 \in [Tasks -> Tasks \cup {NULL}]
             /\ prev2 \in [Tasks -> Tasks \cup {NULL}]
             /\ head2 \in Tasks \cup {NULL} /\ tail2 \in Tasks \cup {NULL}
             /\ q2 \in Seq(Tasks)
      PROVE  m \in Lists
  <2>1. m = [next |-> next2, prev |-> prev2, head |-> head2, tail |-> tail2,
             q |-> q2]
    BY <1>b DEF Unlink
  <2> QED BY <1>e, <2>1 DEF Lists
<1>f. Threads(next2, prev2, head2, tail2, q2) => IsQueue(m)
  BY <1>b DEF IsQueue
<1> USE QueueConstants, <1>c
<1>1. /\ q \in Seq(Tasks) /\ Len(q) \in Nat /\ Len(q) >= 1 /\ q # <<>>
      /\ \A k \in 1 .. Len(q) : q[k] \in Tasks
      /\ head = q[1] /\ tail = q[Len(q)] /\ head \in Tasks
  BY  DEF Threads
<1>2. /\ q2 \in Seq(Tasks) /\ Len(q2) = Len(q) - 1
      /\ \A k \in 1 .. Len(q) - 1 : q2[k] = q[k + 1]
  BY <1>d, <1>1
<1>3. \A j, k \in 1 .. Len(q) : q[j] = q[k] => j = k
  BY  DEF Threads
<1>4. next[head] = IF Len(q) = 1 THEN NULL ELSE q[2]
  <2>1. 1 \in 1 .. Len(q)
    BY <1>1
  <2>2. next[q[1]] = IF 1 = Len(q) THEN NULL ELSE q[1 + 1]
    BY <2>1 DEF Threads
  <2> QED BY <1>1, <2>2
<1>5. /\ next2 = [next EXCEPT ![head] = NULL] /\ head2 = next[head]
      /\ tail2 = IF next[head] = NULL THEN NULL ELSE tail
      /\ prev2 = IF next[head] = NULL THEN [prev EXCEPT ![head] = NULL]
                 ELSE [prev EXCEPT ![next[head]] = NULL, ![head] = NULL]
  BY <1>d
<1>6. m \in Lists
  BY <1>e, <1>1, <1>2, <1>4, <1>5
<1>7. ASSUME NEW k \in 1 .. Len(q2)
      PROVE  /\ next2[q2[k]] = IF k = Len(q2) THEN NULL ELSE q2[k + 1]
             /\ prev2[q2[k]] = IF k = 1 THEN NULL ELSE q2[k - 1]
             /\ q2[k] # head
  <2>1. k + 1 \in 1 .. Len(q) /\ q2[k] = q[k + 1] /\ k + 1 # 1
        /\ 1 \in 1 .. Len(q) /\ Len(q) # 1
    BY <1>1, <1>2
  <2>2. q[k + 1] # head /\ q[2] # NULL /\ next[head] = q[2]
    BY <1>1, <1>3, <1>4, <2>1
  <2>3. next[q[k + 1]] = IF k + 1 = Len(q) THEN NULL ELSE q[k + 1 + 1]
    BY <2>1 DEF Threads
  <2>4. prev[q[k + 1]] = q[k]
    BY <2>1 DEF Threads
  <2>5. k # Len(q2) => k + 1 \in 1 .. Len(q2) /\ q2[k + 1] = q[k + 1 + 1]
    BY <1>1, <1>2
  <2>6. k # 1 => k - 1 \in 1 .. Len(q2) /\ q2[k - 1] = q[k]
    BY <1>1, <1>2
  <2>7. k # 1 => q[k + 1] # q[2]
    <3>1. 2 \in 1 .. Len(q)
      BY <1>1, <2>1
    <3> QED BY <1>3, <2>1, <3>1
  <2>8. next2[q2[k]] = IF k = Len(q2) THEN NULL ELSE q2[k + 1]
    BY <1>1, <1>2, <1>5, <2>1, <2>2, <2>3, <2>5
  <2>9. prev2[q2[k]] = IF k = 1 THEN NULL ELSE q2[k - 1]
    BY <1>1, <1>5, <2>1, <2>2, <2>4, <2>6, <2>7
  <2> QED BY <2>1, <2>2, <2>8, <2>9
<1>8. \A j, k \in 1 .. Len(q2) : q2[j] = q2[k] => j = k
  BY <1>1, <1>2, <1>3
<1>9. ASSUME NEW t \in Tasks \ Elements(q2)
      PROVE  next2[t] = NULL /\ prev2[t] = NULL
  <2>1. t # head => t \notin Elements(q)
    <3>1. SUFFICES ASSUME t # head, NEW k \in 1 .. Len(q), t = q[k] PROVE FALSE
      BY  DEF Elements
    <3>2. k - 1 \in 1 .. Len(q2) /\ q2[k - 1] = t
      BY <1>1, <1>2, <3>1
    <3> QED BY <3>2 DEF Elements
  <2>2. t # head => next[t] = NULL /\ prev[t] = NULL
    BY <2>1 DEF Threads
  <2>3. next[head] # NULL => next[head] \in Tasks
    BY <1>1
  <2> QED BY <1>1, <1>5, <2>2, <2>3
<1>10. /\ (head2 = NULL <=> q2 = <<>>) /\ (tail2 = NULL <=> q2 = <<>>)
       /\ q2 # <<>> => head2 = q2[1] /\ tail2 = q2[Len(q2)]
  <2>1. CASE Len(q) = 1
    BY <1>1, <1>2, <1>4, <1>5, <2>1
  <2>2. CASE Len(q) # 1
    <3>1. q2 # <<>> /\ 1 \in 1 .. Len(q) - 1 /\ Len(q) - 1 \in 1 .. Len(q) - 1
      BY <1>1, <1>2, <2>2
    <3>2. q2[1] = q[2] /\ q2[Len(q2)] = q[Len(q)] /\ q[2] \in Tasks
      BY <1>1, <1>2, <3>1, <2>2
    <3> QED BY <1>1, <1>4, <1>5, <2>2, <3>1, <3>2
  <2> QED BY <2>1, <2>2
<1>11. Threads(next2, prev2, head2, tail2, q2)
  BY <1>7, <1>8, <1>9, <1>10 DEF Threads
<1>12. Elements(q2) = Elements(q) \ {head}
  <2>1. ASSUME NEW t \in Elements(q2) PROVE t \in Elements(q) \ {head}
    <3>1. PICK k \in 1 .. Len(q2) : t = q2[k]
      BY DEF Elements
    <3>2. k + 1 \in 1 .. Len(q) /\ t = q[k + 1]
      BY <1>1, <1>2, <3>1
    <3> QED BY <1>7, <3>1, <3>2 DEF Elements
  <2>2. ASSUME NEW t \in Elements(q), t # head PROVE t \in Elements(q2)
    <3>1. PICK k \in 1 .. Len(q) : t = q[k]
      BY DEF Elements
    <3>2. k - 1 \in 1 .. Len(q2) /\ t = q2[k - 1]
      BY <1>1, <1>2, <2>2, <3>1
    <3> QED BY <3>2 DEF Elements
  <2> QED BY <2>1, <2>2
<1> QED BY <1>a, <1>b, <1>f, <1>1, <1>6, <1>11, <1>12 DEF Members

\* Unlinking the tail of a list of at least two tasks.
LEMMA RemoveTailStep ==
  ASSUME NEW l \in Lists, IsQueue(l), l.tail # l.head, NEW m, m = RemoveTail(l)
  PROVE  m \in Lists /\ IsQueue(m)
<1>a. PICK next, prev, head, tail, q :
        /\ next = l.next /\ prev = l.prev /\ head = l.head /\ tail = l.tail
        /\ q = l.q
  OBVIOUS
<1>b. PICK next2, prev2, head2, tail2, q2 :
        /\ next2 = m.next /\ prev2 = m.prev /\ head2 = m.head
        /\ tail2 = m.tail /\ q2 = m.q
  OBVIOUS
<1>c. /\ next \in [Tasks -> Tasks \cup {NULL}]
      /\ prev \in [Tasks -> Tasks \cup {NULL}]
      /\ head \in Tasks \cup {NULL} /\ tail \in Tasks \cup {NULL}
      /\ q \in Seq(Tasks) /\ Threads(next, prev, head, tail, q)
      /\ tail # head
  BY <1>a DEF Lists, IsQueue, Members
<1>d. /\ next2 = [t \in Tasks |-> IF t \in {tail, prev[tail]} THEN NULL
                                 ELSE next[t]]
      /\ prev2 = [prev EXCEPT ![tail] = NULL] /\ tail2 = prev[tail]
      /\ head2 = IF prev[tail] = NULL THEN NULL ELSE head
      /\ q2 = Without(q, Len(q))
  BY <1>a, <1>b DEF RemoveTail, Members
<1>e. ASSUME /\ next2 \in [Tasks -> Tasks \cup {NULL}]
             /\ prev2 \in [Tasks -> Tasks \cup {NULL}]
             /\ head2 \in Tasks \cup {NULL} /\ tail2 \in Tasks \cup {NULL}
             /\ q2 \in Seq(Tasks)
      PROVE  m \in Lists
  <2>1. m = [next |-> next2, prev |-> prev2, head |-> head2, tail |-> tail2,
             q |-> q2]
    BY <1>b DEF RemoveTail
  <2> QED BY <1>e, <2>1 DEF Lists
<1>f. Threads(next2, prev2, head2, tail2, q2) => IsQueue(m)
  BY <1>b DEF IsQueue
<1> USE QueueConstants, <1>c
<1>1. /\ q \in Seq(Tasks) /\ Len(q) \in Nat /\ q # <<>>
      /\ \A k \in 1 .. Len(q) : q[k] \in Tasks
      /\ head = q[1] /\ tail = q[Len(q)] /\ Len(q) >= 2
  BY  DEF Threads
<1> DEFINE n == Len(q)
<1>2. n - 1 \in 1 .. n /\ n \in 1 .. n /\ 1 \in 1 .. n - 1
  BY <1>1
<1>3. /\ q2 \in Seq(Tasks) /\ Len(q2) = n - 1
      /\ \A k \in 1 .. n - 1 : q2[k] = q[k]
  BY <1>d, <1>1 DEF Without
<1>4. \A j, k \in 1 .. n : q[j] = q[k] => j = k
  BY  DEF Threads
<1>5. prev[tail] = q[n - 1] /\ q[n - 1] \in Tasks /\ q[n - 1] # tail
      /\ tail \in Tasks
  BY <1>1, <1>2, <1>4 DEF Threads
<1>6. /\ tail2 = q[n - 1] /\ head2 = head
      /\ next2 = [next EXCEPT ![q[n - 1]] = NULL, ![tail] = NULL]
      /\ prev2 = [prev EXCEPT ![tail] = NULL]
  BY <1>d, <1>5
<1>7. m \in Lists
  BY <1>e, <1>3, <1>5, <1>6
<1>8. ASSUME NEW k \in 1 .. Len(q2)
      PROVE  /\ next2[q2[k]] = IF k = Len(q2) THEN NULL ELSE q2[k + 1]
             /\ prev2[q2[k]] = IF k = 1 THEN NULL ELSE q2[k - 1]
  <2>1. k \in 1 .. n /\ k # n /\ q2[k] = q[k] /\ q[k] # tail /\ q[k] \in Tasks
    BY <1>1, <1>2, <1>3, <1>4
  <2>2. next[q[k]] = q[k + 1] /\ prev[q[k]] = IF k = 1 THEN NULL ELSE q[k - 1]
    BY <2>1 DEF Threads
  <2>3. k # Len(q2) => q2[k + 1] = q[k + 1] /\ q[k] # q[n - 1]
    BY <1>1, <1>2, <1>3, <1>4, <2>1
  <2>4. k # 1 => q2[k - 1] = q[k - 1]
    BY <1>1, <1>3
  <2> QED BY <1>1, <1>3, <1>5, <1>6, <2>1, <2>2, <2>3, <2>4
<1>9. \A j, k \in 1 .. Len(q2) : q2[j] = q2[k] => j = k
  BY <1>1, <1>3, <1>4
<1>10. ASSUME NEW t \in Tasks \ Elements(q2)
       PROVE  next2[t] = NULL /\ prev2[t] = NULL
  <2>1. t # tail => t \notin Elements(q)
    <3>1. SUFFICES ASSUME t # tail, NEW k \in 1 .. n, t = q[k] PROVE FALSE
      BY  DEF Elements
    <3>2. k \in 1 .. Len(q2) /\ q2[k] = t
      BY <1>1, <1>3, <3>1
    <3> QED BY <3>2 DEF Elements
  <2>2. t # tail => next[t] = NULL /\ prev[t] = NULL
    BY <2>1 DEF Threads
  <2> QED BY <1>5, <1>6, <2>2
<1>11. /\ (head2 = NULL <=> q2 = <<>>) /\ (tail2 = NULL <=> q2 = <<>>)
       /\ head2 = q2[1] /\ tail2 = q2[Len(q2)]
  <2>1. q2 # <<>> /\ q2[1] = q[1] /\ q2[Len(q2)] = q[n - 1] /\ q[1] \in Tasks
    BY <1>1, <1>2, <1>3
  <2> QED BY <1>1, <1>5, <1>6, <2>1
<1>12. Threads(next2, prev2, head2, tail2, q2)
  BY <1>8, <1>9, <1>10, <1>11 DEF Threads
<1> QED BY <1>f, <1>7, <1>12

\* Unlinking a task between two others, or one in no queue.
LEMMA RemoveInsideStep ==
  ASSUME NEW l \in Lists, IsQueue(l), NEW task \in Tasks,
         task # l.head, task # l.tail, NEW m, m = RemoveInside(l, task)
  PROVE  m \in Lists /\ IsQueue(m)
<1>a. PICK next, prev, head, tail, q :
        /\ next = l.next /\ prev = l.prev /\ head = l.head /\ tail = l.tail
        /\ q = l.q
  OBVIOUS
<1>b. PICK next2, prev2, head2, tail2, q2 :
        /\ next2 = m.next /\ prev2 = m.prev /\ head2 = m.head
        /\ tail2 = m.tail /\ q2 = m.q
  OBVIOUS
<1>c. /\ next \in [Tasks -> Tasks \cup {NULL}]
      /\ prev \in [Tasks -> Tasks \cup {NULL}]
      /\ head \in Tasks \cup {NULL} /\ tail \in Tasks \cup {NULL}
      /\ q \in Seq(Tasks) /\ Threads(next, prev, head, tail, q)
      /\ task # head /\ task # tail
  BY <1>a DEF Lists, IsQueue, Members
<1>d. /\ next2 = [t \in Tasks |-> IF t = task THEN NULL
                                 ELSE IF t = prev[task] THEN next[task]
                                 ELSE next[t]]
      /\ prev2 = [t \in Tasks |-> IF t = task THEN NULL
                                 ELSE IF t = next[task] THEN prev[task]
                                 ELSE prev[t]]
      /\ head2 = head /\ tail2 = tail
      /\ q2 = IF task \in Elements(q)
                THEN Without(q, CHOOSE k \in 1 .. Len(q) : q[k] = task)
                ELSE q
  BY <1>a, <1>b DEF RemoveInside, Members
<1>e. ASSUME /\ next2 \in [Tasks -> Tasks \cup {NULL}]
             /\ prev2 \in [Tasks -> Tasks \cup {NULL}]
             /\ head2 \in Tasks \cup {NULL} /\ tail2 \in Tasks \cup {NULL}
             /\ q2 \in Seq(Tasks)
      PROVE  m \in Lists
  <2>1. m = [next |-> next2, prev |-> prev2, head |-> head2, tail |-> tail2,
             q |-> q2]
    BY <1>b DEF RemoveInside
  <2> QED BY <1>e, <2>1 DEF Lists
<1>f. Threads(next2, prev2, head2, tail2, q2) => IsQueue(m)
  BY <1>b DEF IsQueue
<1> USE QueueConstants, <1>c
<1> DEFINE n == Len(q)
<1>1. /\ q \in Seq(Tasks) /\ n \in Nat /\ \A j \in 1 .. n : q[j] \in Tasks
      /\ \A j, k \in 1 .. n : q[j] = q[k] => j = k
  BY  DEF Threads
<1>2. /\ next2 \in [Tasks -> Tasks \cup {NULL}]
      /\ prev2 \in [Tasks -> Tasks \cup {NULL}]
      /\ head2 = head /\ tail2 = tail
      /\ \A t \in Tasks : /\ next2[t] = IF t = task THEN NULL
                                        ELSE IF t = prev[task] THEN next[task]
                                        ELSE next[t]
                          /\ prev2[t] = IF t = task THEN NULL
                                        ELSE IF t = next[task] THEN prev[task]
                                        ELSE prev[t]
  BY <1>d
<1>3. CASE task \notin Elements(q)
  <2>1. q2 = q /\ next[task] = NULL /\ prev[task] = NULL
    BY <1>d, <1>3 DEF Threads
  <2>2. next2 = next /\ prev2 = prev
    <3>1. \A t \in Tasks : next2[t] = next[t] /\ prev2[t] = prev[t]
      <4>1. ASSUME NEW t \in Tasks PROVE next2[t] = next[t] /\ prev2[t] = prev[t]
        <5>1. t # prev[task] /\ t # next[task]
          BY <2>1
        <5> QED BY <1>2, <2>1, <5>1
      <4> QED BY <4>1
    <3> QED BY <1>2, <3>1
  <2>3. m \in Lists
    BY <1>e, <1>2, <2>1, <2>2
  <2>4. Threads(next2, prev2, head2, tail2, q2)
    BY <1>2, <2>1, <2>2 DEF Threads, Elements
  <2> QED BY <1>f, <2>3, <2>4
<1>4. CASE task \in Elements(q)
  <2> DEFINE i == CHOOSE k \in 1 .. n : q[k] = task
  <2>1. i \in 1 .. n /\ q[i] = task /\ q2 = Without(q, i)
    BY <1>d, <1>4 DEF Elements
  <2> HIDE DEF i
  <2>2. i # 1 /\ i # n /\ i - 1 \in 1 .. n /\ i + 1 \in 1 .. n /\ n >= 3
    BY <1>1, <2>1 DEF Threads
  <2>3. /\ q2 \in Seq(Tasks) /\ Len(q2) = n - 1
        /\ \A k \in 1 .. n - 1 : q2[k] = IF k < i THEN q[k] ELSE q[k + 1]
    <3>1. \A k \in 1 .. n - 1 : (IF k < i THEN q[k] ELSE q[k + 1]) \in Tasks
      BY <1>1, <2>1, <2>2
    <3> QED BY <1>1, <2>1, <2>2, <3>1 DEF Without
  <2>4. prev[task] = q[i - 1] /\ next[task] = q[i + 1]
    BY <2>1, <2>2 DEF Threads
  <2>5. ASSUME NEW k \in 1 .. Len(q2)
        PROVE  /\ next2[q2[k]] = IF k = Len(q2) THEN NULL ELSE q2[k + 1]
               /\ prev2[q2[k]] = IF k = 1 THEN NULL ELSE q2[k - 1]
    <3>1. CASE k < i
      <4>1. /\ k \in 1 .. n /\ q2[k] = q[k] /\ q[k] # task /\ q[k] \in Tasks
            /\ q[k] # q[i + 1] /\ k # Len(q2) /\ k # n
        BY <1>1, <2>1, <2>2, <2>3, <3>1
      <4>2. next[q[k]] = q[k + 1] /\ prev[q[k]] = IF k = 1 THEN NULL ELSE q[k - 1]
        BY <4>1 DEF Threads
      <4>3. k # 1 => q2[k - 1] = q[k - 1]
        BY <1>1, <2>1, <2>3, <3>1
      <4>4. k = i - 1 => q2[k + 1] = q[i + 1] /\ q[k] = q[i - 1]
        BY <1>1, <2>1, <2>2, <2>3
      <4>5. k # i - 1 => q2[k + 1] = q[k + 1] /\ q[k] # q[i - 1]
        <5>1. k # i - 1 => k + 1 \in 1 .. n - 1 /\ k + 1 < i
          BY <1>1, <2>1, <2>3, <3>1
        <5>2. k # i - 1 => q[k] # q[i - 1]
          BY <1>1, <2>2, <4>1
        <5> QED BY <2>3, <5>1, <5>2
      <4> QED BY <1>2, <2>4, <4>1, <4>2, <4>3, <4>4, <4>5
    <3>2. CASE k >= i
      <4>1. /\ k + 1 \in 1 .. n /\ q2[k] = q[k + 1] /\ q[k + 1] # task
            /\ q[k + 1] \in Tasks /\ q[k + 1] # q[i - 1] /\ k # 1
        BY <1>1, <2>1, <2>2, <2>3, <3>2
      <4>2. next[q[k + 1]] = IF k + 1 = n THEN NULL ELSE q[k + 1 + 1]
        BY <4>1 DEF Threads
      <4>3. prev[q[k + 1]] = q[k]
        BY <1>1, <4>1 DEF Threads
      <4>4. k # Len(q2) => q2[k + 1] = q[k + 1 + 1]
        BY <1>1, <2>1, <2>3, <3>2
      <4>5. k = i => q2[k - 1] = q[i - 1] /\ q[k + 1] = q[i + 1]
        BY <1>1, <2>1, <2>2, <2>3
      <4>6. k # i => q2[k - 1] = q[k] /\ q[k + 1] # q[i + 1]
        <5>1. k # i => k - 1 \in 1 .. n - 1 /\ ~ (k - 1 < i) /\ k - 1 + 1 = k
          BY <1>1, <2>1, <2>3, <3>2
        <5>2. k # i => q[k + 1] # q[i + 1]
          BY <1>1, <2>1, <2>2, <4>1
        <5> QED BY <2>3, <5>1, <5>2
      <4> QED BY <1>1, <1>2, <2>3, <2>4, <4>1, <4>2, <4>3, <4>4, <4>5, <4>6
    <3> QED BY <1>1, <2>1, <2>3, <3>1, <3>2
  <2>6. \A j, k \in 1 .. Len(q2) : q2[j] = q2[k] => j = k
    BY <1>1, <2>1, <2>3
  <2>7. ASSUME NEW t \in Tasks \ Elements(q2)
        PROVE  next2[t] = NULL /\ prev2[t] = NULL
    <3>1. t # task => t \notin Elements(q)
      <4>1. SUFFICES ASSUME t # task, NEW k \in 1 .. n, t = q[k] PROVE FALSE
        BY  DEF Elements
      <4>2. k < i => k \in 1 .. Len(q2) /\ q2[k] = t
        BY <1>1, <2>1, <2>3, <4>1
      <4>3. k > i => k - 1 \in 1 .. Len(q2) /\ q2[k - 1] = t
        BY <1>1, <2>1, <2>3, <4>1
      <4>4. k # i
        BY <2>1, <4>1
      <4> QED BY <1>1, <2>1, <4>2, <4>3, <4>4 DEF Elements
    <3>2. t # task => next[t] = NULL /\ prev[t] = NULL /\ t # q[i - 1] /\ t # q[i + 1]
      BY <2>2, <3>1 DEF Threads, Elements
    <3> QED BY <1>2, <2>4, <3>2
  <2>8. /\ (head2 = NULL <=> q2 = <<>>) /\ (tail2 = NULL <=> q2 = <<>>)
        /\ head2 = q2[1] /\ tail2 = q2[Len(q2)]
    <3>1. head = q[1] /\ tail = q[n] /\ head # NULL /\ tail # NULL
      BY <1>1, <2>2 DEF Threads
    <3>2. q2 # <<>> /\ q2[1] = q[1] /\ q2[Len(q2)] = q[n]
      BY <1>1, <2>1, <2>2, <2>3
    <3> QED BY <1>2, <3>1, <3>2
  <2>9. Threads(next2, prev2, head2, tail2, q2)
    BY <2>5, <2>6, <2>7, <2>8 DEF Threads
  <2>10. m \in Lists
    BY <1>e, <1>2, <2>3
  <2> QED BY <1>f, <2>9, <2>10
<1> QED BY <1>3, <1>4

-----------------------------------------------------------------------------
\* Every operation on the ready queue keeps the links equal to the queue.
LEMMA NextLinked == Linked /\ [QueueNext]_ready => Linked'
<1> SUFFICES ASSUME Linked, [QueueNext]_ready PROVE Linked'
  OBVIOUS
<1> USE DEF Linked
<1>1. ASSUME NEW t \in Tasks \ Members(ready),
             ready' = add_to_ready_queue(ready, t)
      PROVE  Linked'
  BY <1>1, AddStep
<1>2. ASSUME ready.head # NULL, ready' = Unlink(ready) PROVE Linked'
  BY <1>2, UnlinkStep
<1>3. ASSUME NEW t \in Tasks, ready' = remove_from_ready_queue(ready, t)
      PROVE  Linked'
  <2>1. CASE t = ready.head
    BY <1>3, <2>1, UnlinkStep, QueueConstants DEF remove_from_ready_queue
  <2>2. CASE t # ready.head /\ t = ready.tail
    BY <1>3, <2>2, RemoveTailStep DEF remove_from_ready_queue
  <2>3. CASE t # ready.head /\ t # ready.tail
    BY <1>3, <2>3, RemoveInsideStep DEF remove_from_ready_queue
  <2> QED BY <2>1, <2>2, <2>3
<1>4. CASE UNCHANGED ready
  BY <1>4
<1> QED BY <1>1, <1>2, <1>3, <1>4 DEF QueueNext

\* The doubly linked list of scheduler.c is a first-in first-out queue, for
\* any number of tasks and any order of additions, removals (of tasks that
\* are not queued, too) and calls of schedule_next.
THEOREM ListIsQueue == QueueSpec => []Linked
<1>1. QueueInit => Linked
  BY EmptyIsQueue DEF QueueInit, Linked
<1> QED BY <1>1, NextLinked, PTL DEF QueueSpec

-----------------------------------------------------------------------------
(* The scheduler *)

\* The part of the types the scheduling invariants rest on.
Typed ==
  /\ state \in [Tasks -> States] /\ pc \in [Tasks -> Places]
  /\ current \in Tasks /\ task_lock \in BOOLEAN

\* The inductive invariant: the queue is a list of waiting tasks, one context
\* runs, and the lock has an owner exactly while it is held.  None of these is
\* inductive alone: the head of the queue can be resumed because it is
\* suspended, it is suspended because only current_task is not, and the lock
\* that a resumed context releases is its own because it has one owner.  The
\* idle task never yields, so a yield never puts it into the queue.
IInv ==
  /\ Typed /\ Linked /\ QueueConsistent /\ OneContextRuns /\ LockHasOneOwner
  /\ state[idle_task] # "NEW" /\ pc[idle_task] \notin {"yield", "wait"}

\* The constants: the idle task is a task, tasks are numbers.
LEMMA TaskFacts == idle_task \in Tasks /\ Tasks \subseteq Nat
BY SchedulerConstants DEF idle_task

\* A set of slots has a first one.
LEMMA LeastExists ==
  ASSUME NEW S \in SUBSET Nat, S # {} PROVE \E m \in S : \A u \in S : m <= u
<1> DEFINE R == OpToRel(<, Nat)
<1>1. R = {p \in Nat \X Nat : p[1] < p[2]}
  BY DEF OpToRel
<1>2. IsWellFoundedOn(R, Nat)
  BY NatLessThanWellFounded
<1> HIDE DEF R
<1>3. \E m \in S : \A y \in S : ~ (<<y, m>> \in R)
  BY <1>2, WFMin
<1>4. PICK m \in S : \A y \in S : ~ (<<y, m>> \in R)
  BY <1>3
<1>5. ASSUME NEW u \in S PROVE m <= u
  <2>1. <<u, m>> \in R <=> u < m
    BY <1>1
  <2> QED BY <1>4, <2>1
<1> QED BY <1>5

\* The search loop of scheduler_create_task stops at a free slot.
LEMMA FreeSlotIsFree == ASSUME FreeSlots # {} PROVE FreeSlot \in FreeSlots
<1>1. FreeSlots \in SUBSET Nat
  BY TaskFacts DEF FreeSlots
<1> QED BY <1>1, LeastExists DEF FreeSlot

\* An empty list has no head and no members.
LEMMA HeadIsMember ==
  ASSUME NEW l \in Lists, IsQueue(l)
  PROVE  IF l.head # NULL THEN l.head \in Members(l) ELSE Members(l) = {}
<1>1. l.q \in Seq(Tasks) /\ (l.head = NULL <=> l.q = <<>>)
  BY DEF Lists, IsQueue, Threads
<1>2. l.q # <<>> => l.head = l.q[1]
  BY DEF IsQueue, Threads
<1>3. CASE l.q = <<>>
  BY <1>1, <1>3 DEF Members, Elements
<1>4. CASE l.q # <<>>
  <2>1. 1 \in 1 .. Len(l.q)
    BY <1>1, <1>4
  <2> QED BY <1>1, <1>2, <1>4, <2>1 DEF Members, Elements
<1> QED BY <1>3, <1>4

\* The queue holds tasks.
LEMMA MembersAreTasks == ASSUME NEW l \in Lists PROVE Members(l) \subseteq Tasks
<1>1. l.q \in Seq(Tasks)
  BY DEF Lists
<1> QED BY <1>1 DEF Members, Elements

\* The scheduler is initialised with the idle task as the context that runs.
LEMMA InitIInv == Init => IInv
<1> SUFFICES ASSUME Init PROVE IInv
  OBVIOUS
<1> USE TaskFacts DEF Init
<1>1. Typed
  BY DEF Typed, States, Places
<1>2. Linked /\ Members(ready) = {}
  BY EmptyIsQueue, HeadIsMember DEF Linked, QueueInit, EmptyList
<1>3. OneContextRuns
  BY DEF OneContextRuns
<1>4. LockHasOneOwner
  BY DEF LockHasOneOwner
<1> QED BY <1>1, <1>2, <1>3, <1>4 DEF IInv, QueueConsistent

-----------------------------------------------------------------------------
\* What schedule_next needs of its caller: a queue of waiting tasks, to which
\* only the caller may have been added, the states of all tasks but the
\* caller's, and the lock as the caller took it.
CanSchedule(now, place, stay, lock) ==
  /\ now.ready \in Lists /\ IsQueue(now.ready)
  /\ now.state \in [Tasks -> States]
  /\ \A t \in Tasks \ {current} : now.state[t] = state[t]
  /\ now.state[current] # "NEW"
  /\ \A t \in Members(now.ready) :
       /\ t # idle_task /\ now.state[t] = "READY"
       /\ t = current \/ pc[t] \in Suspended
  /\ place \in {"isr", "yield"} /\ stay \in {"user", "wait"}
  /\ place = "yield" => ~ task_lock
  /\ now.lock = (task_lock \/ place = "yield") /\ lock = task_lock
  /\ pc[current] \notin {"yield", "relock"}
  /\ (place = "yield" \/ stay = "wait") => current # idle_task

\* Whoever is chosen, schedule_next leaves one context running, a queue of
\* waiting tasks and a lock with one owner.
LEMMA ScheduleStep ==
  ASSUME IInv, NEW now, NEW place, NEW stay, NEW lock, NEW serving,
         CanSchedule(now, place, stay, lock),
         schedule_next(now, place, stay, lock, serving)
  PROVE  IInv'
<1> USE TaskFacts, QueueConstants
<1> DEFINE list == now.ready
           chosen == IF list.head # NULL THEN list.head ELSE idle_task
<1>1. /\ list \in Lists /\ IsQueue(list)
      /\ chosen \in Tasks
      /\ list.head = NULL => Members(list) = {}
      /\ list.head # NULL => chosen \in Members(list)
  <2>1. list \in Lists /\ IsQueue(list)
    BY DEF CanSchedule
  <2>2. list.head \in Tasks \cup {NULL}
    BY <2>1 DEF Lists
  <2> QED BY <2>1, <2>2, HeadIsMember
<1>2. Linked' /\ Members(ready') = Members(list) \ {chosen}
  <2>1. ready' = Rest(list)
    BY DEF schedule_next
  <2>2. CASE list.head # NULL
    BY <1>1, <2>1, <2>2, UnlinkStep DEF Rest, Linked
  <2>3. CASE list.head = NULL
    BY <1>1, <2>1, <2>3 DEF Rest, Linked
  <2> QED BY <2>2, <2>3
<1>3. CASE chosen = current
  <2>1. /\ state' = now.state /\ pc' = [pc EXCEPT ![current] = stay]
        /\ task_lock' = task_lock /\ current' = current
    BY <1>3 DEF schedule_next, CanSchedule
  <2>2. Typed'
    BY <2>1 DEF CanSchedule, IInv, Typed, Places
  <2>3. QueueConsistent'
    BY <1>2, <1>3, <2>1 DEF CanSchedule, IInv, Typed, QueueConsistent
  <2>4. OneContextRuns'
    BY <2>1 DEF CanSchedule, IInv, Typed, OneContextRuns
  <2>5. LockHasOneOwner'
    BY <2>1 DEF CanSchedule, IInv, Typed, LockHasOneOwner
  <2>6. state'[idle_task] # "NEW" /\ pc'[idle_task] \notin {"yield", "wait"}
    BY <2>1 DEF CanSchedule, IInv, Typed
  <2> QED BY <1>2, <2>2, <2>3, <2>4, <2>5, <2>6 DEF IInv
<1>4. CASE chosen # current
  <2>1. /\ current' = chosen
        /\ state' = [now.state EXCEPT
                       ![current] = IF @ = "RUNNING" THEN "READY" ELSE @,
                       ![chosen] = "RUNNING"]
        /\ pc' = [pc EXCEPT ![current] = place,
                            ![chosen] = Resumed(pc[chosen])]
        /\ task_lock' = (now.lock /\ pc[chosen] # "yield")
    BY <1>4 DEF schedule_next
  <2>2. pc[chosen] \in Suspended /\ Resumed(pc[chosen]) \in {"wait", "user"}
    <3>1. CASE list.head # NULL
      BY <1>1, <1>4, <3>1 DEF CanSchedule, Resumed
    <3>2. CASE list.head = NULL
      BY <1>4, <3>2 DEF IInv, Typed, OneContextRuns, Places, Suspended, Resumed
    <3> QED BY <3>1, <3>2
  <2>3. Typed'
    BY <1>1, <2>1, <2>2 DEF CanSchedule, IInv, Typed, Places, States
  <2>4. QueueConsistent'
    <3> SUFFICES ASSUME NEW t \in Members(list), t # chosen
                 PROVE  /\ t # idle_task /\ t # chosen
                        /\ state'[t] = "READY" /\ pc'[t] \in Suspended
      BY <1>2, <2>1 DEF QueueConsistent
    <3>1. t \in Tasks
      BY <1>1, MembersAreTasks
    <3>2. t # idle_task /\ now.state[t] = "READY"
      BY DEF CanSchedule
    <3>3. state'[t] = "READY"
      BY <2>1, <3>1, <3>2 DEF CanSchedule
    <3>4. CASE t = current
      BY <1>4, <2>1, <3>1, <3>2, <3>3, <3>4
         DEF CanSchedule, IInv, Typed, Suspended
    <3>5. CASE t # current
      <4>1. pc[t] \in Suspended /\ pc'[t] = pc[t]
        BY <2>1, <3>1, <3>5 DEF CanSchedule, IInv, Typed
      <4> QED BY <3>2, <3>3, <4>1
    <3> QED BY <3>4, <3>5
  <2>5. OneContextRuns'
    <3> SUFFICES ASSUME NEW t \in Tasks
                 PROVE  /\ state'[t] = "RUNNING" => t = chosen
                        /\ t = chosen <=>
                             pc'[t] \in {"user", "wait", "spin", "relock"}
                        /\ state'[t] = "NEW" <=> pc'[t] = "none"
      BY <2>1 DEF OneContextRuns
    <3>1. CASE t = chosen
      BY <1>1, <2>1, <2>2, <3>1 DEF CanSchedule, IInv, Typed
    <3>2. CASE t = current
      BY <1>4, <2>1, <3>2 DEF CanSchedule, IInv, Typed
    <3>3. CASE t # chosen /\ t # current
      <4>1. state'[t] = state[t] /\ pc'[t] = pc[t]
        BY <2>1, <3>3 DEF CanSchedule, IInv, Typed
      <4> QED BY <3>3, <4>1 DEF IInv, OneContextRuns
    <3> QED BY <3>1, <3>2, <3>3
  <2>6. LockHasOneOwner'
    <3> DEFINE Owes(t) == pc[t] \in {"yield", "relock"}
               OwesNow(t) == pc'[t] \in {"yield", "relock"}
    <3>1. /\ task_lock <=> \E t \in Tasks : Owes(t)
          /\ \A t, u \in Tasks : Owes(t) /\ Owes(u) => t = u
      BY DEF IInv, LockHasOneOwner
    <3>2. SUFFICES /\ task_lock' <=> \E t \in Tasks : OwesNow(t)
                   /\ \A t, u \in Tasks : OwesNow(t) /\ OwesNow(u) => t = u
      BY DEF LockHasOneOwner
    <3>3. /\ OwesNow(current) <=> place = "yield"
          /\ ~ OwesNow(chosen) /\ ~ Owes(current)
          /\ \A t \in Tasks \ {current, chosen} : OwesNow(t) <=> Owes(t)
          /\ Owes(chosen) <=> pc[chosen] = "yield"
      BY <1>1, <1>4, <2>1, <2>2 DEF CanSchedule, IInv, Typed, Suspended
    <3>4. task_lock' <=> (task_lock \/ place = "yield") /\ ~ Owes(chosen)
      BY <2>1, <3>3 DEF CanSchedule
    <3>5. place = "yield" => ~ task_lock
      BY DEF CanSchedule
    <3>6. current \in Tasks /\ chosen \in Tasks
      BY <1>1 DEF IInv, Typed
    <3> HIDE DEF Owes, OwesNow, chosen
    <3> QED BY <1>4, <3>1, <3>3, <3>4, <3>5, <3>6
  <2>7. state'[idle_task] # "NEW" /\ pc'[idle_task] \notin {"yield", "wait"}
    BY <1>1, <2>1 DEF CanSchedule, IInv, Typed, Resumed
  <2> QED BY <1>2, <2>3, <2>4, <2>5, <2>6, <2>7 DEF IInv
<1> QED BY <1>3, <1>4

-----------------------------------------------------------------------------
\* The context that gives up the CPU, appended to the queue.
LEMMA RequeueReady ==
  ASSUME IInv, state[current] = "RUNNING", current # idle_task,
         pc[current] \in {"user", "wait"}, ~ task_lock, NEW rn, NEW serving
  PROVE  /\ CanSchedule(Now(Requeued, Enqueued, rn, TRUE, serving),
                        "yield", "wait", FALSE)
         /\ CanSchedule(Now(Requeued, Enqueued, rn, FALSE, serving),
                        "isr", "user", FALSE)
<1> USE TaskFacts
<1>1. current \in Tasks \ Members(ready) /\ ready \in Lists /\ IsQueue(ready)
  BY DEF IInv, Typed, QueueConsistent, Linked
<1>2. /\ Enqueued \in Lists /\ IsQueue(Enqueued)
      /\ Members(Enqueued) = Members(ready) \cup {current}
  BY <1>1, AddStep DEF Enqueued
<1>3. Requeued \in [Tasks -> States] /\ Requeued[current] = "READY"
      /\ \A t \in Tasks \ {current} : Requeued[t] = state[t]
  BY DEF IInv, Typed, Requeued, States
<1>4. \A t \in Members(ready) : /\ t \in Tasks \ {current} /\ t # idle_task
                                /\ state[t] = "READY" /\ pc[t] \in Suspended
  BY <1>1, MembersAreTasks DEF IInv, QueueConsistent
<1>5. ASSUME NEW t \in Members(Enqueued)
      PROVE  /\ t # idle_task /\ Requeued[t] = "READY"
             /\ t = current \/ pc[t] \in Suspended
  <2>1. CASE t = current
    BY <1>3, <2>1
  <2>2. CASE t # current
    <3>1. t \in Members(ready)
      BY <1>2, <2>2
    <3> QED BY <1>3, <1>4, <3>1
  <2> QED BY <2>1, <2>2
<1>6. task_lock = FALSE
  BY DEF IInv, Typed
<1>7. TRUE = (task_lock \/ "yield" = "yield")
      /\ FALSE = (task_lock \/ "isr" = "yield")
  BY <1>6
<1>8. ASSUME NEW now, now.state = Requeued, now.ready = Enqueued,
             NEW place \in {"isr", "yield"}, NEW stay \in {"user", "wait"},
             now.lock = (task_lock \/ place = "yield")
      PROVE  CanSchedule(now, place, stay, FALSE)
  BY <1>2, <1>3, <1>5, <1>6, <1>8 DEF CanSchedule
<1>9. ASSUME NEW held
      PROVE  LET now == Now(Requeued, Enqueued, rn, held, serving)
             IN  now.state = Requeued /\ now.ready = Enqueued /\ now.lock = held
  BY DEF Now
<1> QED BY <1>7, <1>8, <1>9

\* The queue as it is, when the current task is not RUNNING.
LEMMA KeepReady ==
  ASSUME IInv, pc[current] \in {"user", "wait"}, NEW rn, NEW serving
  PROVE  /\ ~ task_lock /\ current # idle_task =>
              CanSchedule(Now(state, ready, rn, TRUE, serving),
                          "yield", "wait", FALSE)
         /\ CanSchedule(Now(state, ready, rn, task_lock, serving),
                        "isr", "user", task_lock)
<1>1. ready \in Lists /\ IsQueue(ready) /\ state \in [Tasks -> States]
  BY DEF IInv, Typed, Linked
<1>2. state[current] # "NEW"
  BY DEF IInv, Typed, OneContextRuns
<1>3. \A t \in Members(ready) : /\ t # idle_task /\ state[t] = "READY"
                                /\ pc[t] \in Suspended
  BY DEF IInv, QueueConsistent
<1>4. /\ TRUE = (task_lock \/ "yield" = "yield")
      /\ task_lock = (task_lock \/ "isr" = "yield")
      /\ ~ task_lock => FALSE = task_lock
  BY DEF IInv, Typed
<1>5. ASSUME NEW now, now.state = state, now.ready = ready,
             NEW place \in {"isr", "yield"}, NEW stay \in {"user", "wait"},
             place = "yield" => ~ task_lock,
             (place = "yield" \/ stay = "wait") => current # idle_task,
             now.lock = (task_lock \/ place = "yield")
      PROVE  CanSchedule(now, place, stay, task_lock)
  BY <1>1, <1>2, <1>3, <1>5 DEF CanSchedule
<1>6. ASSUME NEW held
      PROVE  LET now == Now(state, ready, rn, held, serving)
             IN  now.state = state /\ now.ready = ready /\ now.lock = held
  BY DEF Now
<1> QED BY <1>4, <1>5, <1>6

-----------------------------------------------------------------------------
\* A context that runs moves to another place, taking the lock if it relocks.
LEMMA MoveStep ==
  ASSUME IInv, pc[current] = "user", NEW place \in {"spin", "relock"},
         pc' = [pc EXCEPT ![current] = place],
         place = "spin" => task_lock' = task_lock,
         place = "relock" => ~ task_lock /\ task_lock' = TRUE,
         UNCHANGED <<state, ready, current>>
  PROVE  IInv'
<1>1. Typed'
  BY DEF IInv, Typed, Places
<1>2. Linked'
  BY DEF IInv, Linked
<1>3. QueueConsistent'
  BY MembersAreTasks DEF IInv, Typed, QueueConsistent, Linked
<1>4. OneContextRuns'
  BY DEF IInv, Typed, OneContextRuns
<1>5. LockHasOneOwner'
  <2>1. CASE place = "spin"
    <3>1. \A t \in Tasks : /\ pc'[t] \in {"yield", "relock"}
                           <=> pc[t] \in {"yield", "relock"}
      BY <2>1 DEF IInv, Typed
    <3> QED BY <2>1, <3>1 DEF IInv, LockHasOneOwner
  <2>2. CASE place = "relock"
    <3>1. \A t \in Tasks : pc[t] \notin {"yield", "relock"}
      BY <2>2 DEF IInv, LockHasOneOwner
    <3>2. \A t \in Tasks : pc'[t] \in {"yield", "relock"} <=> t = current
      BY <2>2, <3>1 DEF IInv, Typed
    <3> QED BY <2>2, <3>2 DEF IInv, Typed, LockHasOneOwner
  <2> QED BY <2>1, <2>2
<1>6. state'[idle_task] # "NEW" /\ pc'[idle_task] \notin {"yield", "wait"}
  BY TaskFacts DEF IInv, Typed
<1> QED BY <1>1, <1>2, <1>3, <1>4, <1>5, <1>6 DEF IInv

\* The scheduler's own data stays as it is.
LEMMA KeepStep ==
  ASSUME IInv, UNCHANGED <<state, ready, current, task_lock, pc>> PROVE IInv'
BY DEF IInv, Typed, Linked, QueueConsistent, OneContextRuns, LockHasOneOwner

\* A task is created in a free slot and joins the queue.
LEMMA CreateStep == ASSUME IInv, CreateSucceeds PROVE IInv'
<1> DEFINE new == FreeSlot
<1>1. /\ new \in Tasks /\ state[new] = "NEW" /\ ~ task_lock
      /\ state' = [state EXCEPT ![new] = "READY"]
      /\ pc' = [pc EXCEPT ![new] = "fresh"]
      /\ ready' = add_to_ready_queue(ready, new)
      /\ UNCHANGED <<current, task_lock>>
  BY FreeSlotIsFree DEF CreateSucceeds, FreeSlots
<1> HIDE DEF new
<1>2. pc[new] = "none" /\ new # current /\ new # idle_task
  BY <1>1 DEF IInv, OneContextRuns
<1>3. new \notin Members(ready)
  BY <1>1 DEF IInv, QueueConsistent
<1>4. Linked' /\ Members(ready') = Members(ready) \cup {new}
  BY <1>1, <1>3, AddStep DEF IInv, Linked
<1>5. Typed'
  BY <1>1 DEF IInv, Typed, States, Places
<1>6. QueueConsistent'
  <2> SUFFICES ASSUME NEW t \in Members(ready) \cup {new}
               PROVE  /\ t # idle_task /\ t # current
                      /\ state'[t] = "READY" /\ pc'[t] \in Suspended
    BY <1>1, <1>4 DEF QueueConsistent
  <2>1. CASE t = new
    BY <1>1, <1>2, <2>1 DEF IInv, Typed, Suspended
  <2>2. CASE t # new
    <3>1. t \in Members(ready) /\ t \in Tasks
      BY <2>2, MembersAreTasks DEF IInv, Linked
    <3>2. state'[t] = state[t] /\ pc'[t] = pc[t]
      BY <1>1, <2>2, <3>1 DEF IInv, Typed
    <3> QED BY <3>1, <3>2 DEF IInv, QueueConsistent
  <2> QED BY <2>1, <2>2
<1>7. OneContextRuns'
  BY <1>1, <1>2 DEF IInv, Typed, OneContextRuns
<1>8. LockHasOneOwner'
  <2>1. \A t \in Tasks : /\ pc'[t] \in {"yield", "relock"}
                         <=> pc[t] \in {"yield", "relock"}
    BY <1>1, <1>2 DEF IInv, Typed
  <2> QED BY <1>1, <2>1 DEF IInv, LockHasOneOwner
<1> QED BY <1>1, <1>2, <1>4, <1>5, <1>6, <1>7, <1>8, TaskFacts DEF IInv, Typed

\* A yield, from user code or from the loop of sys_waitpid.
LEMMA YieldStep ==
  ASSUME IInv, pc[current] \in {"user", "wait"}, current # idle_task,
         scheduler_yield
  PROVE  IInv'
<1>1. ~ task_lock /\ task_lock = FALSE
  BY DEF scheduler_yield, IInv, Typed
<1>2. CASE state[current] = "RUNNING"
  <2>1. schedule_next(Now(Requeued, Enqueued, ran, TRUE, in_service),
                      "yield", "wait", FALSE, in_service)
    BY <1>2 DEF scheduler_yield
  <2>2. CanSchedule(Now(Requeued, Enqueued, ran, TRUE, in_service),
                    "yield", "wait", FALSE)
    BY <1>1, <1>2, RequeueReady
  <2> QED BY <2>1, <2>2, ScheduleStep
<1>3. CASE state[current] # "RUNNING"
  <2>1. schedule_next(Now(state, ready, ran, TRUE, in_service),
                      "yield", "wait", FALSE, in_service)
    BY <1>3 DEF scheduler_yield
  <2>2. CanSchedule(Now(state, ready, ran, TRUE, in_service),
                    "yield", "wait", FALSE)
    BY <1>1, KeepReady
  <2> QED BY <1>1, <2>1, <2>2, ScheduleStep
<1> QED BY <1>2, <1>3

\* Every tick, creation and system call keeps the inductive invariant.
LEMMA NextIInv == IInv /\ [Next]_vars => IInv'
<1> SUFFICES ASSUME IInv, [Next]_vars PROVE IInv'
  OBVIOUS
<1>1. CASE TickCounted
  BY <1>1, KeepStep DEF TickCounted
<1>2. CASE TickExpired
  <2>1. /\ pc[current] = "user" /\ state[current] = "RUNNING"
        /\ current # idle_task
    BY <1>2 DEF TickExpired, Interruptible, Expired
  <2>2. CASE task_lock
    BY <1>2, <2>1, <2>2, MoveStep DEF TickExpired
  <2>3. CASE ~ task_lock
    <3> DEFINE rn == [ran EXCEPT ![current] = @ + 1]
    <3>1. schedule_next(Now(Requeued, Enqueued, rn, FALSE, TRUE),
                        "isr", "user", FALSE, FALSE)
      BY <1>2, <2>3 DEF TickExpired
    <3> HIDE DEF rn
    <3>2. CanSchedule(Now(Requeued, Enqueued, rn, FALSE, TRUE),
                      "isr", "user", FALSE)
      BY <2>1, <2>3, RequeueReady
    <3> QED BY <3>1, <3>2, ScheduleStep
  <2> QED BY <2>2, <2>3
<1>3. CASE TickReschedule
  <2>1. pc[current] = "user"
    BY <1>3 DEF TickReschedule, Interruptible
  <2>2. schedule_next(Now(state, ready, ran, task_lock, TRUE),
                      "isr", "user", task_lock, FALSE)
    BY <1>3 DEF TickReschedule
  <2>3. CanSchedule(Now(state, ready, ran, task_lock, TRUE),
                    "isr", "user", task_lock)
    BY <2>1, KeepReady
  <2> QED BY <2>2, <2>3, ScheduleStep
<1>4. CASE SpinForever /\ pc[current] = "user"
  BY <1>4, MoveStep DEF SpinForever
<1>5. CASE CreateFails
  BY <1>5, KeepStep DEF CreateFails
<1>6. CASE CreateSucceeds
  BY <1>6, CreateStep
<1>7. CASE Relock /\ pc[current] = "user"
  BY <1>7, MoveStep DEF Relock
<1>8. CASE scheduler_yield /\ Calling
  BY <1>8, YieldStep DEF Calling
<1>9. CASE WaitAgain
  <2>1. current # idle_task
    BY <1>9 DEF WaitAgain, IInv
  <2> QED BY <1>9, <2>1, YieldStep DEF WaitAgain
<1>10. CASE UNCHANGED vars
  BY <1>10, KeepStep DEF vars
<1> QED BY <1>1, <1>2, <1>3, <1>4, <1>5, <1>6, <1>7, <1>8, <1>9, <1>10
        DEF Next, Tick, scheduler_create_task, sys_waitpid, sys_exit,
            sys_execve, sys_fork, Calling, Spin

\* The links of the ready queue are the queue while ticks, yields and
\* creations use it.
THEOREM SchedulerLinked == Spec => []Linked
<1>1. IInv => Linked
  BY DEF IInv
<1> QED BY <1>1, InitIInv, NextIInv, PTL DEF Spec

\* The ready queue holds waiting tasks only.
THEOREM SchedulerQueue == Spec => []QueueConsistent
<1>1. IInv => QueueConsistent
  BY DEF IInv
<1> QED BY <1>1, InitIInv, NextIInv, PTL DEF Spec

\* At most one task is RUNNING and it is current_task; the others can be
\* resumed.
THEOREM SchedulerOneContext == Spec => []OneContextRuns
<1>1. IInv => OneContextRuns
  BY DEF IInv
<1> QED BY <1>1, InitIInv, NextIInv, PTL DEF Spec

\* task_lock is held exactly while one context owes its release.
THEOREM SchedulerLock == Spec => []LockHasOneOwner
<1>1. IInv => LockHasOneOwner
  BY DEF IInv
<1> QED BY <1>1, InitIInv, NextIInv, PTL DEF Spec

-----------------------------------------------------------------------------
(* Identifiers *)

\* A RUNNING task has not used up its quantum.
RanInv ==
  /\ ran \in [Tasks -> 0 .. Quantum]
  /\ \A t \in Tasks : state[t] = "RUNNING" => ran[t] < Quantum

\* Below the wrap identifiers are given out in order.
TidInv ==
  /\ tid \in [Tasks -> 0 .. TidLimit - 1] /\ next_tid \in 1 .. TidLimit - 1
  /\ creates \in Nat
  /\ \A t \in Tasks \ {idle_task} : state[t] # "NEW" => tid[t] # 0
  /\ creates < TidLimit - 1 =>
       /\ next_tid = creates + 1
       /\ \A t \in Tasks : tid[t] <= creates
       /\ \A t, u \in Tasks : (state[t] # "NEW" /\ tid[t] = tid[u]) =>
            t = u \/ (t = idle_task /\ state[u] = "NEW")

\* The constants that are numbers.
LEMMA Numbers == Quantum \in Nat \ {0} /\ TidLimit \in Nat /\ TidLimit > 1
BY SchedulerConstants, Zenon

\* No slot is taken.
NoneTaken == \A t \in Tasks : state'[t] # "NEW" => state[t] # "NEW"

\* schedule_next takes no slot, and the task it chooses has a whole quantum.
LEMMA ScheduleTakesNone ==
  ASSUME IInv, NEW now, NEW place, NEW stay, NEW lock, NEW serving,
         CanSchedule(now, place, stay, lock),
         schedule_next(now, place, stay, lock, serving),
         now.ran \in [Tasks -> 0 .. Quantum],
         \A t \in Tasks : now.state[t] = "RUNNING" => now.ran[t] < Quantum
  PROVE  NoneTaken /\ RanInv'
<1> USE TaskFacts, QueueConstants
<1> DEFINE list == now.ready
           chosen == IF list.head # NULL THEN list.head ELSE idle_task
<1>1. list \in Lists /\ IsQueue(list) /\ list.head \in Tasks \cup {NULL}
  BY DEF CanSchedule, Lists
<1>2. chosen \in Tasks /\ now.state[chosen] # "NEW"
  <2>1. CASE list.head # NULL
    BY <1>1, <2>1, HeadIsMember DEF CanSchedule
  <2>2. CASE list.head = NULL
    BY <2>2 DEF CanSchedule, IInv
  <2> QED BY <2>1, <2>2
<1>3. /\ now.state \in [Tasks -> States] /\ now.state[current] # "NEW"
      /\ \A t \in Tasks \ {current} : now.state[t] = state[t]
      /\ current \in Tasks /\ state[current] # "NEW"
  <2>1. current \in Tasks /\ pc[current] # "none" /\ state[current] # "NEW"
    BY DEF IInv, Typed, OneContextRuns
  <2> QED BY <2>1 DEF CanSchedule
<1>4. \A t \in Tasks : now.state[t] # "NEW" => state[t] # "NEW"
  BY <1>3
<1>5. CASE chosen = current
  BY <1>4, <1>5 DEF schedule_next, NoneTaken, RanInv
<1>6. CASE chosen # current
  <2>1. /\ state' = [now.state EXCEPT
                       ![current] = IF @ = "RUNNING" THEN "READY" ELSE @,
                       ![chosen] = "RUNNING"]
        /\ ran' = [now.ran EXCEPT ![chosen] = 0]
    BY <1>6 DEF schedule_next
  <2> HIDE DEF chosen
  <2>2. NoneTaken
    BY <1>2, <1>3, <1>4, <2>1 DEF NoneTaken
  <2>3. RanInv'
    <3>1. ran' \in [Tasks -> 0 .. Quantum]
      BY <1>2, <2>1, Numbers
    <3>2. ASSUME NEW t \in Tasks, state'[t] = "RUNNING" PROVE ran'[t] < Quantum
      <4>1. CASE t = chosen
        BY <1>2, <2>1, <4>1, Numbers
      <4>2. CASE t # chosen
        BY <1>3, <2>1, <3>2, <4>2
      <4> QED BY <4>1, <4>2
    <3> QED BY <3>1, <3>2 DEF RanInv
  <2> QED BY <2>2, <2>3
<1> QED BY <1>5, <1>6

\* As long as no slot is taken the identifiers stay apart.
LEMMA NoneTakenKeeps ==
  ASSUME TidInv, NoneTaken, UNCHANGED <<tid, next_tid, creates>> PROVE TidInv'
BY DEF TidInv, NoneTaken

\* allocate_tid gives out an identifier that no slot has.
LEMMA AllocateKeeps ==
  ASSUME IInv, TidInv, FreeSlots # {}, allocate_tid(FreeSlot),
         \A t \in Tasks \ {FreeSlot} : state'[t] = state[t]
  PROVE  TidInv'
<1> DEFINE new == FreeSlot
<1>1. /\ new \in Tasks /\ new # idle_task /\ state[new] = "NEW"
      /\ creates' = creates + 1 /\ tid' = [tid EXCEPT ![new] = next_tid]
      /\ \A t \in Tasks \ {new} : state'[t] = state[t]
  BY FreeSlotIsFree DEF allocate_tid, FreeSlots, IInv
<1>2. next_tid' = IF next_tid + 1 = TidLimit THEN 1 ELSE next_tid + 1
  <2>1. next_tid \in Nat /\ next_tid + 1 <= TidLimit /\ TidLimit \in Nat
        /\ TidLimit > 1
    BY Numbers DEF TidInv
  <2>2. CASE next_tid + 1 = TidLimit
    <3>1. (next_tid + 1) % TidLimit = 0
      BY <2>1, <2>2
    <3> QED BY <2>2, <3>1 DEF allocate_tid
  <2>3. CASE next_tid + 1 # TidLimit
    <3>1. (next_tid + 1) % TidLimit = next_tid + 1
      BY <2>1, <2>3
    <3> QED BY <2>1, <2>3, <3>1 DEF allocate_tid
  <2> QED BY <2>2, <2>3
<1> HIDE DEF new
<1>3. /\ tid' \in [Tasks -> 0 .. TidLimit - 1]
      /\ next_tid' \in 1 .. TidLimit - 1 /\ creates' \in Nat
  BY <1>1, <1>2, Numbers DEF TidInv
<1>4. \A t \in Tasks \ {idle_task} : state'[t] # "NEW" => tid'[t] # 0
  BY <1>1, Numbers DEF TidInv
<1>5. ASSUME creates' < TidLimit - 1
      PROVE  /\ next_tid = creates + 1 /\ next_tid' = creates' + 1
             /\ \A t \in Tasks : tid[t] <= creates /\ tid'[t] <= creates'
  BY <1>1, <1>2, <1>5, Numbers DEF TidInv
<1>6. ASSUME creates' < TidLimit - 1, NEW t \in Tasks, NEW u \in Tasks,
             state'[t] # "NEW", tid'[t] = tid'[u]
      PROVE  t = u \/ (t = idle_task /\ state'[u] = "NEW")
  <2>1. CASE t = new \/ u = new
    BY <1>1, <1>5, <1>6, <2>1, Numbers DEF TidInv
  <2>2. CASE t # new /\ u # new
    BY <1>1, <1>6, <2>2, Numbers DEF TidInv
  <2> QED BY <2>1, <2>2
<1> QED BY <1>3, <1>4, <1>5, <1>6 DEF TidInv

\* After scheduler_init no identifier is given out.
LEMMA InitTids == Init => RanInv /\ TidInv /\ in_service \in BOOLEAN
<1> SUFFICES ASSUME Init PROVE RanInv /\ TidInv /\ in_service \in BOOLEAN
  OBVIOUS
<1>1. RanInv
  BY Numbers DEF Init, RanInv
<1>2. TidInv
  BY Numbers, TaskFacts DEF Init, TidInv
<1>3. in_service \in BOOLEAN
  BY Zenon DEF Init
<1> QED BY <1>1, <1>2, <1>3

\* After a requeue the task that gives up the CPU is no longer RUNNING.
LEMMA RequeuedRan ==
  ASSUME IInv, RanInv, state[current] = "RUNNING"
  PROVE  /\ [ran EXCEPT ![current] = @ + 1] \in [Tasks -> 0 .. Quantum]
         /\ \A t \in Tasks : Requeued[t] = "RUNNING" =>
              /\ ran[t] < Quantum
              /\ [ran EXCEPT ![current] = @ + 1][t] < Quantum
<1>1. current \in Tasks /\ state \in [Tasks -> States]
  BY DEF IInv, Typed
<1> QED BY <1>1, Numbers DEF RanInv, Requeued

\* A yield takes no slot.
LEMMA YieldTakesNone ==
  ASSUME IInv, RanInv, in_service \in BOOLEAN, current # idle_task,
         pc[current] \in {"user", "wait"}, scheduler_yield
  PROVE  NoneTaken /\ RanInv' /\ in_service' \in BOOLEAN
<1>1. ~ task_lock /\ task_lock = FALSE
  BY DEF scheduler_yield, IInv, Typed
<1>2. ran \in [Tasks -> 0 .. Quantum]
  BY DEF RanInv
<1>3. CASE state[current] = "RUNNING"
  <2> DEFINE now == Now(Requeued, Enqueued, ran, TRUE, in_service)
  <2>1. schedule_next(now, "yield", "wait", FALSE, in_service)
    BY <1>3 DEF scheduler_yield
  <2>2. CanSchedule(now, "yield", "wait", FALSE)
    BY <1>1, <1>3, RequeueReady
  <2>3. now.ran = ran /\ now.state = Requeued
    BY DEF Now
  <2> HIDE DEF now
  <2>4. in_service' \in BOOLEAN
    BY <2>1, Zenon DEF schedule_next
  <2>5. \A t \in Tasks : now.state[t] = "RUNNING" => now.ran[t] < Quantum
    BY <1>3, <2>3, RequeuedRan
  <2> QED BY <1>2, <2>1, <2>2, <2>3, <2>4, <2>5, ScheduleTakesNone
<1>4. CASE state[current] # "RUNNING"
  <2> DEFINE now == Now(state, ready, ran, TRUE, in_service)
  <2>1. schedule_next(now, "yield", "wait", FALSE, in_service)
    BY <1>4 DEF scheduler_yield
  <2>2. CanSchedule(now, "yield", "wait", FALSE)
    BY <1>1, KeepReady
  <2>3. now.ran = ran /\ now.state = state
    BY DEF Now
  <2> HIDE DEF now
  <2>4. in_service' \in BOOLEAN
    BY <2>1, Zenon DEF schedule_next
  <2>5. \A t \in Tasks : now.state[t] = "RUNNING" => now.ran[t] < Quantum
    BY <2>3 DEF RanInv
  <2> QED BY <1>2, <2>1, <2>2, <2>3, <2>4, <2>5, ScheduleTakesNone
<1> QED BY <1>3, <1>4

\* A tick takes no slot.
LEMMA TickTakesNone ==
  ASSUME IInv, RanInv, in_service \in BOOLEAN, Tick
  PROVE  NoneTaken /\ RanInv' /\ in_service' \in BOOLEAN
<1>1. pc[current] = "user" /\ ran \in [Tasks -> 0 .. Quantum]
  BY DEF Tick, TickCounted, TickExpired, TickReschedule, Interruptible, RanInv
<1>2. CASE TickCounted
  <2>1. NoneTaken /\ in_service' \in BOOLEAN
    BY <1>2, Zenon DEF TickCounted, NoneTaken
  <2>2. current \in Tasks /\ state' = state
        /\ (current = idle_task \/ ran[current] + 1 < Quantum)
        /\ ran' = [ran EXCEPT ![current] =
                     IF current = idle_task THEN 0 ELSE @ + 1]
    BY <1>1, <1>2, Numbers DEF TickCounted, Expired, IInv, Typed
  <2>3. RanInv'
    BY <1>1, <2>2, Numbers DEF RanInv
  <2> QED BY <2>1, <2>3
<1>3. CASE TickExpired /\ task_lock
  <2>1. state' = state /\ ran' = ran /\ in_service' = TRUE
    BY <1>3 DEF TickExpired
  <2> QED BY <2>1 DEF NoneTaken, RanInv
<1>4. CASE TickExpired /\ ~ task_lock
  <2> DEFINE rn == [ran EXCEPT ![current] = @ + 1]
             now == Now(Requeued, Enqueued, rn, FALSE, TRUE)
  <2>1. state[current] = "RUNNING" /\ current # idle_task
    BY <1>4 DEF TickExpired, Expired
  <2>2. schedule_next(now, "isr", "user", FALSE, FALSE)
    BY <1>4 DEF TickExpired
  <2>3. CanSchedule(now, "isr", "user", FALSE)
    BY <1>1, <1>4, <2>1, RequeueReady
  <2>4. now.ran = rn /\ now.state = Requeued
    BY DEF Now
  <2>5. /\ rn \in [Tasks -> 0 .. Quantum]
        /\ \A t \in Tasks : Requeued[t] = "RUNNING" => rn[t] < Quantum
    BY <2>1, RequeuedRan
  <2> HIDE DEF now, rn
  <2>6. in_service' \in BOOLEAN
    BY <2>2, Zenon DEF schedule_next
  <2> QED BY <2>2, <2>3, <2>4, <2>5, <2>6, ScheduleTakesNone
<1>5. CASE TickReschedule
  <2> DEFINE now == Now(state, ready, ran, task_lock, TRUE)
  <2>1. schedule_next(now, "isr", "user", task_lock, FALSE)
    BY <1>5 DEF TickReschedule
  <2>2. CanSchedule(now, "isr", "user", task_lock)
    BY <1>1, KeepReady
  <2>3. now.ran = ran /\ now.state = state
    BY DEF Now
  <2> HIDE DEF now
  <2>4. in_service' \in BOOLEAN
    BY <2>1, Zenon DEF schedule_next
  <2>5. \A t \in Tasks : now.state[t] = "RUNNING" => now.ran[t] < Quantum
    BY <2>3 DEF RanInv
  <2> QED BY <1>1, <2>1, <2>2, <2>3, <2>4, <2>5, ScheduleTakesNone
<1> QED BY <1>2, <1>3, <1>4, <1>5 DEF Tick

\* The slots, the times and the interrupt controller stay as they are.
LEMMA NothingTaken ==
  ASSUME RanInv, in_service \in BOOLEAN, UNCHANGED <<state, ran, in_service>>
  PROVE  NoneTaken /\ RanInv' /\ in_service' \in BOOLEAN
<1>1. state' = state /\ ran' = ran
  BY Zenon
<1>2. in_service' \in BOOLEAN
  BY Zenon
<1>3. NoneTaken /\ RanInv'
  BY <1>1 DEF NoneTaken, RanInv
<1> QED BY <1>2, <1>3

\* Every step keeps the identifiers apart.
LEMMA NextTids ==
  ASSUME IInv, RanInv, TidInv, in_service \in BOOLEAN, [Next]_vars
  PROVE  RanInv' /\ TidInv' /\ in_service' \in BOOLEAN
<1>1. CASE Tick
  <2>1. UNCHANGED <<tid, next_tid, creates>>
    BY <1>1 DEF Tick, TickCounted, TickExpired, TickReschedule
  <2> QED BY <1>1, <2>1, TickTakesNone, NoneTakenKeeps
<1>2. CASE SpinForever \/ Relock \/ UNCHANGED vars
  <2>1. /\ UNCHANGED <<state, ran, in_service>>
        /\ UNCHANGED <<tid, next_tid, creates>>
    BY <1>2, Zenon DEF SpinForever, Relock, vars
  <2> QED BY <2>1, NothingTaken, NoneTakenKeeps
<1>3. CASE CreateFails
  <2>1. /\ UNCHANGED <<state, ran, in_service>> /\ FreeSlots # {}
        /\ allocate_tid(FreeSlot)
    BY <1>3, Zenon DEF CreateFails
  <2>2. state' = state
    BY <2>1, Zenon
  <2> QED BY <2>1, <2>2, NothingTaken, AllocateKeeps
<1>4. CASE CreateSucceeds
  <2> DEFINE new == FreeSlot
  <2>1. /\ FreeSlots # {} /\ allocate_tid(new) /\ in_service' = in_service
        /\ state' = [state EXCEPT ![new] = "READY"]
        /\ ran' = [ran EXCEPT ![new] = 0]
    BY <1>4 DEF CreateSucceeds
  <2>2. new \in Tasks /\ state \in [Tasks -> States]
    BY <2>1, FreeSlotIsFree DEF FreeSlots, IInv, Typed
  <2>3. TidInv'
    BY <2>1, <2>2, AllocateKeeps
  <2> HIDE DEF new
  <2>4. RanInv'
    BY <2>1, <2>2, Numbers DEF RanInv
  <2> QED BY <2>1, <2>3, <2>4, Zenon
<1>5. CASE scheduler_yield /\ (Calling \/ WaitAgain)
  <2>1. current # idle_task /\ pc[current] \in {"user", "wait"}
    BY <1>5 DEF Calling, WaitAgain, IInv
  <2>2. UNCHANGED <<tid, next_tid, creates>>
    BY <1>5 DEF scheduler_yield
  <2> QED BY <1>5, <2>1, <2>2, YieldTakesNone, NoneTakenKeeps
<1> QED BY <1>1, <1>2, <1>3, <1>4, <1>5
        DEF Next, scheduler_create_task, sys_waitpid, WaitAgain, sys_exit,
            sys_execve, sys_fork, Spin

\* Identifier 0 is the idle task's alone, and below the wrap no two tasks have
\* the same identifier, whatever creations fail.
THEOREM SchedulerTids == Spec => []TidsIdentify
<1> DEFINE Inv == IInv /\ RanInv /\ TidInv /\ in_service \in BOOLEAN
<1>1. Init => Inv
  BY InitIInv, InitTids, Zenon
<1>2. Inv /\ [Next]_vars => Inv'
  BY NextIInv, NextTids, Zenon
<1>3. Inv => TidsIdentify
  <2> SUFFICES ASSUME Inv PROVE TidsIdentify
    OBVIOUS
  <2>1. TypeOK
    BY Zenon DEF IInv, Typed, RanInv, TidInv, TypeOK
  <2> QED BY <2>1 DEF TidInv, TidsIdentify
<1> HIDE DEF Inv
<1> QED BY <1>1, <1>2, <1>3, PTL DEF Spec
=============================================================================
