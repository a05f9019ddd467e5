----------------------------- MODULE Scheduler -----------------------------
(***************************************************************************)
(* The task scheduler, kernel/src/core/exec/scheduler.c, driven by the     *)
(* timer interrupt (idt.c, timer.c), by the boot context, which is the     *)
(* idle task and creates tasks, and by the system calls of running tasks   *)
(* (syscalls.c).                                                           *)
(*                                                                         *)
(* One CPU: the context of current_task executes, every other context is   *)
(* where schedule_next left it.  Interrupts are off in handlers and system *)
(* calls, and the boot context masks them when it creates a task, so each  *)
(* of these is one action, up to the point where it switches               *)
(* contexts; the rest of it (the unlock in scheduler_yield, the EOI in     *)
(* interrupt_handler) runs when its context is resumed, and is part of the *)
(* action that resumes it.                                                 *)
(*                                                                         *)
(* Switching is modelled by what task_switch_context says it does          *)
(* (context.asm:28, 50), save a context and load another.  The ready queue *)
(* is the linked list of ReadyQueue.                                       *)
(***************************************************************************)
EXTENDS Integers, Sequences, ReadyQueue

CONSTANTS
  TASK_MAX_COUNT,   \* slots of the task table
  Quantum,          \* default_time_quantum
  TidLimit,         \* 2^32: next_tid wraps here
  MaxCreates,       \* bound on the number of task identifiers allocated
  PicHolds          \* the PIC holds ticks back until their EOI, as it does;
                    \* FALSE: scheduler.c alone, under any source of ticks

ASSUME SchedulerConstants ==
  /\ TASK_MAX_COUNT \in Nat \ {0} /\ Tasks = 0 .. TASK_MAX_COUNT - 1
  /\ Quantum \in Nat \ {0}
  /\ TidLimit \in Nat /\ TidLimit > 1 /\ MaxCreates \in Nat
  /\ PicHolds \in BOOLEAN

idle_task == 0

VARIABLES
  state,        \* task_t.state
  ran,          \* cpu_time - last_schedule
  tid,          \* task_t.tid
  next_tid,
  current,      \* current_task
  task_lock,    \* task_lock.locked
  pc,           \* where the context of every task is
  in_service,   \* IRQ 0 awaits its EOI, the PIC holds back further ticks
  creates       \* bound: how many task identifiers were allocated

vars == <<state, ran, tid, next_tid, ready, current, task_lock, pc,
          in_service, creates>>

States == {"NEW", "READY", "RUNNING"}

\* none    no context: the slot is unused
\* fresh   never run
\* user    its own code, interrupts on
\* isr     left in the timer interrupt
\* yield   left in scheduler_yield
\* wait    in sys_waitpid between two yields, interrupts off
\* spin    spinning on task_lock with interrupts off
\* relock  the same, on the lock it holds itself
Places == {"none", "fresh", "user", "isr", "yield", "wait", "spin", "relock"}

Suspended == {"fresh", "isr", "yield"}

-----------------------------------------------------------------------------
(* schedule_next and context_switch *)

\* Where a resumed context continues.
Resumed(place) == IF place = "yield" THEN "wait" ELSE "user"

Rest_KeepHead(list) == list

\* The queue once its head, if any, is taken out.
Rest(list) == IF list.head # NULL THEN Unlink(list) ELSE list

\* schedule_next, called when the scheduler's data is now.  The caller is left
\* at place when another context runs; when it is chosen itself
\* context_switch returns at once, and the caller continues at stay with the
\* lock and the interrupt controller as its own last lines leave them.
schedule_next(now, place, stay, lock, serving) ==
  LET chosen == IF now.ready.head # NULL THEN now.ready.head ELSE idle_task IN
  /\ ready' = Rest(now.ready)
  /\ \/ /\ chosen = current
        /\ state' = now.state /\ ran' = now.ran
        /\ pc' = [pc EXCEPT ![current] = stay]
        /\ task_lock' = lock /\ in_service' = serving
        /\ UNCHANGED current
     \/ /\ chosen # current
        /\ current' = chosen
        /\ state' = [now.state EXCEPT
                       ![current] = IF @ = "RUNNING" THEN "READY" ELSE @,
                       ![chosen] = "RUNNING"]
        /\ ran' = [now.ran EXCEPT ![chosen] = 0]
        /\ pc' = [pc EXCEPT ![current] = place, ![chosen] = Resumed(pc[chosen])]
        /\ task_lock' = (now.lock /\ pc[chosen] # "yield")
        /\ in_service' = (now.serving /\ pc[chosen] # "isr")

Now(st, rq, rn, lock, serving) ==
  [state |-> st, ready |-> rq, ran |-> rn, lock |-> lock, serving |-> serving]

\* The current task gives up the CPU and goes to the end of the queue.
Requeued == [state EXCEPT ![current] = "READY"]
Enqueued == add_to_ready_queue(ready, current)

-----------------------------------------------------------------------------
(* The timer interrupt: interrupt_handler, timer_interrupt_handler and       *)
(* timer_callback                                                            *)

Interruptible ==
  /\ pc[current] = "user"
  /\ ~ (PicHolds /\ in_service)

\* The quantum of the idle task is UINT64_MAX.
Expired(t) == t # idle_task /\ ran[t] + 1 >= Quantum

TickCounted_NoCharge ==
  /\ Interruptible
  /\ state[current] = "RUNNING" /\ ~ Expired(current)
  /\ UNCHANGED <<state, ran, tid, next_tid, ready, current, task_lock, pc,
                 in_service, creates>>

\* The running task keeps the CPU.
TickCounted ==
  /\ Interruptible
  /\ state[current] = "RUNNING" /\ ~ Expired(current)
  /\ ran' = [ran EXCEPT ![current] = IF current = idle_task THEN 0 ELSE @ + 1]
  /\ UNCHANGED <<state, tid, next_tid, ready, current, task_lock, pc,
                 in_service, creates>>

\* The quantum is used up: back to the ready queue, under task_lock.
TickExpired ==
  /\ Interruptible
  /\ state[current] = "RUNNING" /\ Expired(current)
  /\ \/ /\ task_lock
        /\ pc' = [pc EXCEPT ![current] = "spin"]
        /\ in_service' = TRUE
        /\ UNCHANGED <<state, ran, ready, current, task_lock>>
     \/ /\ ~ task_lock
        /\ schedule_next(Now(Requeued, Enqueued,
                             [ran EXCEPT ![current] = @ + 1], FALSE, TRUE),
                         "isr", "user", FALSE, FALSE)
  /\ UNCHANGED <<tid, next_tid, creates>>

\* The current task is not RUNNING: schedule_next, without the lock.
TickReschedule ==
  /\ Interruptible
  /\ state[current] # "RUNNING"
  /\ schedule_next(Now(state, ready, ran, task_lock, TRUE),
                   "isr", "user", task_lock, FALSE)
  /\ UNCHANGED <<tid, next_tid, creates>>

Tick == TickCounted \/ TickExpired \/ TickReschedule

-----------------------------------------------------------------------------
(* Task creation *)

FreeSlots_NotRunning == {t \in Tasks : state[t] # "RUNNING"}

\* The first slot that is NEW (TERMINATED is never reached, see sys_exit).
FreeSlots == {t \in Tasks : state[t] = "NEW"}
FreeSlot  == CHOOSE t \in FreeSlots : \A u \in FreeSlots : t <= u

allocate_tid_NoSkip(t) ==
  /\ creates' = creates + 1
  /\ tid' = [tid EXCEPT ![t] = next_tid]
  /\ next_tid' = (next_tid + 1) % TidLimit

\* The slot gets an identifier; 0 is skipped, it is the idle task's.
allocate_tid(t) ==
  /\ creates' = creates + 1
  /\ tid' = [tid EXCEPT ![t] = next_tid]
  /\ next_tid' = IF (next_tid + 1) % TidLimit = 0 THEN 1
                 ELSE (next_tid + 1) % TidLimit

\* spinlock_acquire with interrupts masked, when the lock is held.
SpinForever ==
  /\ task_lock
  /\ pc' = [pc EXCEPT ![current] = "spin"]
  /\ UNCHANGED <<state, ran, tid, next_tid, ready, current, task_lock,
                 in_service, creates>>

\* scheduler_create_task fails for want of memory or of an ELF image after it
\* has taken a slot and an identifier; the slot stays NEW.
CreateFails ==
  /\ ~ task_lock /\ FreeSlots # {} /\ creates < MaxCreates
  /\ allocate_tid(FreeSlot)
  /\ UNCHANGED <<state, ran, ready, current, task_lock, pc, in_service>>

CreateSucceeds ==
  /\ ~ task_lock /\ FreeSlots # {} /\ creates < MaxCreates
  /\ allocate_tid(FreeSlot)
  /\ state' = [state EXCEPT ![FreeSlot] = "READY"]
  /\ ran' = [ran EXCEPT ![FreeSlot] = 0]
  /\ ready' = add_to_ready_queue(ready, FreeSlot)
  /\ pc' = [pc EXCEPT ![FreeSlot] = "fresh"]
  /\ UNCHANGED <<current, task_lock, in_service>>

\* The boot context creates a task.
scheduler_create_task ==
  /\ current = idle_task /\ pc[idle_task] = "user"
  /\ SpinForever \/ CreateFails \/ CreateSucceeds

-----------------------------------------------------------------------------
(* System calls of the running task.  Interrupts are masked (FMASK).         *)

Calling == current # idle_task /\ pc[current] = "user"

scheduler_yield_NoAcquire ==
  /\ schedule_next(
       IF state[current] = "RUNNING"
         THEN Now(Requeued, Enqueued, ran, task_lock, in_service)
         ELSE Now(state, ready, ran, task_lock, in_service),
       "yield", "wait", FALSE, in_service)
  /\ UNCHANGED <<tid, next_tid, creates>>

scheduler_yield ==
  /\ ~ task_lock
  /\ schedule_next(
       IF state[current] = "RUNNING"
         THEN Now(Requeued, Enqueued, ran, TRUE, in_service)
         ELSE Now(state, ready, ran, TRUE, in_service),
       "yield", "wait", FALSE, in_service)
  /\ UNCHANGED <<tid, next_tid, creates>>

\* sys_waitpid of a task that exists; the loop repeats the yield for as long
\* as that task is not TERMINATED.
sys_waitpid == Calling /\ (SpinForever \/ scheduler_yield)
WaitAgain   == pc[current] = "wait" /\ scheduler_yield

\* scheduler_terminate_task and scheduler_execute_task take task_lock and call
\* scheduler_get_task_by_id, which takes it again.
Relock ==
  /\ ~ task_lock /\ task_lock' = TRUE
  /\ pc' = [pc EXCEPT ![current] = "relock"]
  /\ UNCHANGED <<state, ran, tid, next_tid, ready, current, in_service,
                 creates>>

sys_exit   == Calling /\ (SpinForever \/ Relock)
sys_execve == Calling /\ (SpinForever \/ Relock)

\* sys_fork passes no ELF image.
sys_fork == Calling /\ (SpinForever \/ CreateFails)

\* The busy-wait of spinlock_acquire on a lock that is held.
Spin == pc[current] \in {"spin", "relock"} /\ task_lock /\ UNCHANGED vars

-----------------------------------------------------------------------------
\* scheduler_init has run; the boot context is the idle task.
Init ==
  /\ state = [t \in Tasks |-> IF t = idle_task THEN "READY" ELSE "NEW"]
  /\ ran = [t \in Tasks |-> 0]
  /\ tid = [t \in Tasks |-> 0] /\ next_tid = 1
  /\ QueueInit /\ current = idle_task
  /\ task_lock = FALSE /\ in_service = FALSE
  /\ pc = [t \in Tasks |-> IF t = idle_task THEN "user" ELSE "none"]
  /\ creates = 0

Next ==
  \/ Tick
  \/ scheduler_create_task
  \/ sys_waitpid \/ WaitAgain \/ sys_exit \/ sys_execve \/ sys_fork
  \/ Spin

\* A tick that the CPU can take comes, for as long as it can be taken, and a
\* context that runs with interrupts off gets on with it.
Fairness == WF_vars(Tick) /\ WF_vars(WaitAgain)

Spec == Init /\ [][Next]_vars /\ Fairness

-----------------------------------------------------------------------------
(* Properties *)

TypeOK ==
  /\ state \in [Tasks -> States] /\ ran \in [Tasks -> 0 .. Quantum]
  /\ tid \in [Tasks -> 0 .. TidLimit - 1] /\ next_tid \in 1 .. TidLimit - 1
  /\ current \in Tasks
  /\ task_lock \in BOOLEAN /\ in_service \in BOOLEAN
  /\ pc \in [Tasks -> Places] /\ creates \in Nat

\* The ready queue holds waiting tasks only: a queued task is READY, is
\* neither the idle task nor the one that runs, and its context is where
\* task_switch_context can resume it.  Ticks, yields and creations interleave.
QueueConsistent ==
  \A t \in Members(ready) : /\ t # idle_task /\ t # current
                            /\ state[t] = "READY" /\ pc[t] \in Suspended

\* One context executes: at most one task is RUNNING and it is current_task,
\* and every other context that exists was left in schedule_next or is fresh.
OneContextRuns ==
  \A t \in Tasks :
    /\ state[t] = "RUNNING" => t = current
    /\ t = current <=> pc[t] \in {"user", "wait", "spin", "relock"}
    /\ state[t] = "NEW" <=> pc[t] = "none"

\* task_lock is held only as long as exactly one context owes its release:
\* one that was left inside scheduler_yield or that is still in the critical
\* section.  (A context that spins owns the lock only if it took it twice.)
LockHasOneOwner ==
  LET Owners == {t \in Tasks : pc[t] \in {"yield", "relock"}}
  IN  /\ task_lock <=> Owners # {}
      /\ \A t, u \in Owners : t = u

\* Identifier 0 is the idle task's, also after next_tid has wrapped; below the
\* wrap scheduler_get_task_by_id finds the task that has the identifier, since
\* identifiers of slots in use are distinct.  The state is well typed.
TidsIdentify ==
  /\ TypeOK
  /\ \A t \in Tasks \ {idle_task} : state[t] # "NEW" => tid[t] # 0
  /\ creates < TidLimit - 1 =>
       \A t, u \in Tasks : (state[t] # "NEW" /\ tid[t] = tid[u]) =>
         t = u \/ (t = idle_task /\ state[u] = "NEW")

\* The machine may no longer schedule: the context that runs spins on
\* task_lock with interrupts masked; or the idle task was resumed by
\* schedule_next, is RUNNING, and has the quantum UINT64_MAX (scheduler.c:168);
\* or the tick that started a fresh task still awaits its EOI (idt.c:297).
Stuck ==
  \/ pc[current] \in {"spin", "relock"}
  \/ PicHolds /\ in_service
  \/ current = idle_task /\ state[idle_task] = "RUNNING"

\* Unless the machine is stuck in one of these ways, a queued task gets the
\* CPU, whatever the tasks before it do with theirs: each of them is preempted
\* when its quantum is used up or yields, and goes behind it.
QueueMoves ==
  \A t \in Tasks : t \in Members(ready) ~> (t = current \/ Stuck)

\* "Move current task back to ready queue" (scheduler.c:62): a task that is
\* ready and does not run is in the ready queue.
ReadyIsQueued ==
  \A t \in Tasks \ {idle_task} :
    (state[t] = "READY" /\ t # current) => t \in Members(ready)
=============================================================================
