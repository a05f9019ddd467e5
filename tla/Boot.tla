-------------------------------- MODULE Boot --------------------------------
(***************************************************************************)
(* kmain of kernel/src/main.c and the initialisation of the drivers and of *)
(* the scheduler, statement by statement where they touch what an          *)
(* interrupt reads, interleaved with the interrupts of the devices once    *)
(* interrupt_enable has run.  After the boot the kernel calls the driver   *)
(* of the interrupt controllers in any order.                              *)
(***************************************************************************)
EXTENDS PIC

VARIABLES
  at,            \* the next statement of the boot
  IF_flag,       \* interrupts enabled
  handlers,      \* lines with an entry in interrupt_handlers
  callback,      \* timer_callback is registered with the timer
  idle_task,     \* idle_task is set
  current_task,  \* current_task is set
  unsaved        \* a context was restored that nothing had saved

bootVars == <<picVars, at, IF_flag, handlers, callback, idle_task,
              current_task, unsaved>>

Statements_EnableEarly ==
  <<"idt_init", "interrupt_enable", "timer_unmask", "timer_register",
    "keyboard_unmask", "keyboard_register", "mouse_init",
    "register_callback", "timer_reinit", "set_idle", "set_current", "loop">>

Statements == <<"idt_init", "timer_register", "timer_unmask",
                "keyboard_register", "keyboard_unmask", "mouse_init",
                "interrupt_enable", "register_callback", "timer_reinit",
                "set_idle", "set_current", "loop">>

Keyboard == 1
Mouse    == 12

ASSUME BootLines == {0, Keyboard, Mouse} \subseteq Lines

-----------------------------------------------------------------------------
(* The boot context *)

\* It goes on with the statement at s, unless an interrupt is being served.
Reach(s) == Statements[at] = s /\ serving = NoLine /\ ~ unsaved /\ at' = at + 1

idt_init ==
  /\ Reach("idt_init") /\ pic_init
  /\ UNCHANGED <<IF_flag, handlers, callback, idle_task, current_task,
                 unsaved>>

\* idt_register_handler
Register(s, line) ==
  /\ Reach(s) /\ handlers' = handlers \cup {line}
  /\ UNCHANGED <<picVars, IF_flag, callback, idle_task, current_task, unsaved>>

Unmask(s, line) ==
  /\ Reach(s) /\ pic_unmask_irq(line)
  /\ UNCHANGED <<initialized, requested, in_service, serving, IF_flag,
                 handlers, callback, idle_task, current_task, unsaved>>

\* The mouse answers every command, or mouse_init returns early.
mouse_init ==
  /\ Reach("mouse_init")
  /\ \/ handlers' = handlers \cup {Mouse} /\ pic_unmask_irq(Mouse)
     \/ UNCHANGED <<handlers, masked, irq_mask>>
  /\ UNCHANGED <<initialized, requested, in_service, serving, IF_flag,
                 callback, idle_task, current_task, unsaved>>

interrupt_enable ==
  /\ Reach("interrupt_enable") /\ IF_flag' = TRUE
  /\ UNCHANGED <<picVars, handlers, callback, idle_task, current_task,
                 unsaved>>

register_callback ==
  /\ Reach("register_callback") /\ callback' = TRUE
  /\ UNCHANGED <<picVars, IF_flag, handlers, idle_task, current_task, unsaved>>

\* timer_init once more: the handler is registered and the line is unmasked.
timer_reinit == Unmask("timer_reinit", 0)

\* idle_task = &task_table[0], cleared; nothing is saved in its context.
set_idle ==
  /\ Reach("set_idle") /\ idle_task' = TRUE
  /\ UNCHANGED <<picVars, IF_flag, handlers, callback, current_task, unsaved>>

set_current ==
  /\ Reach("set_current") /\ current_task' = TRUE
  /\ UNCHANGED <<picVars, IF_flag, handlers, callback, idle_task, unsaved>>

kmain ==
  \/ idt_init
  \/ Register("timer_register", 0) \/ Unmask("timer_unmask", 0)
  \/ Register("keyboard_register", Keyboard)
  \/ Unmask("keyboard_unmask", Keyboard)
  \/ mouse_init \/ interrupt_enable
  \/ register_callback \/ timer_reinit \/ set_idle \/ set_current

\* A call of the PIC driver once the boot is over.
DriverCall ==
  /\ Statements[at] = "loop" /\ ~ unsaved /\ Call
  /\ UNCHANGED <<at, IF_flag, handlers, callback, idle_task, current_task,
                 unsaved>>

-----------------------------------------------------------------------------
(* The interrupts *)

Raise(line) ==
  /\ Request(line)
  /\ UNCHANGED <<at, IF_flag, handlers, callback, idle_task, current_task,
                 unsaved>>

Interrupt ==
  /\ IF_flag /\ ~ unsaved /\ Accept
  /\ UNCHANGED <<at, IF_flag, handlers, callback, idle_task, current_task,
                 unsaved>>

\* A tick while there is an idle task and no current one: timer_callback calls
\* schedule_next, which restores the context of the idle task.  (With no idle
\* task there is nothing to switch to; a current one is the idle task itself.)
TickIsLost ==
  serving = 0 /\ 0 \in handlers /\ callback /\ ~ current_task /\ idle_task

Serve ==
  /\ ~ unsaved
  /\ \/ /\ TickIsLost /\ unsaved' = TRUE /\ current_task' = TRUE
        /\ UNCHANGED picVars
     \/ ~ TickIsLost /\ interrupt_handler /\ UNCHANGED <<current_task, unsaved>>
  /\ UNCHANGED <<at, IF_flag, handlers, callback, idle_task>>

BootInit ==
  /\ PICInit
  /\ at = 1 /\ IF_flag = FALSE /\ handlers = {} /\ callback = FALSE
  /\ idle_task = FALSE /\ current_task = FALSE /\ unsaved = FALSE

BootNext == \/ kmain \/ DriverCall
            \/ \E m \in Lines : Raise(m)
            \/ Interrupt \/ Serve

\* The CPU takes the interrupts that it may take, and handlers return.
BootSpec ==
  /\ BootInit /\ [][BootNext]_bootVars
  /\ WF_bootVars(Interrupt) /\ WF_bootVars(Serve)

-----------------------------------------------------------------------------
BootTypeOK ==
  /\ PICTypeOK
  /\ at \in 1 .. 12 /\ handlers \subseteq Lines
  /\ {IF_flag, callback, idle_task, current_task, unsaved} \subseteq BOOLEAN

\* A tick or a key that reaches the CPU finds its handler registered, whatever
\* lines the firmware left unmasked and however early the device asks.  Ticks
\* are harmless during the boot but for one window: a context that was never
\* saved is restored only between idle_task = &task_table[0] and
\* current_task = idle_task (scheduler.c:155-173).  The state is well typed.
OnlyWindow ==
  /\ BootTypeOK
  /\ serving \in {0, Keyboard} => serving \in handlers
  /\ unsaved => Statements[at] = "set_current"

\* Once interrupts are on, a request of the timer is served unless the line is
\* masked meanwhile: nothing that devices of the other lines do keeps it out.
TimerServed ==
  (IF_flag /\ 0 \in requested)
    ~> (0 \notin requested \/ 0 \in masked \/ unsaved)
=============================================================================
