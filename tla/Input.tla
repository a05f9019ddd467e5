------------------------------- MODULE Input -------------------------------
(***************************************************************************)
(* The keyboard and the mouse share one output buffer.  kmain, from        *)
(* keyboard_init to interrupt_enable, polls the answers of the mouse out   *)
(* of it with interrupts off; afterwards the interrupt handlers of the two *)
(* drivers read it.  All the while keys are typed and the mouse is moved.  *)
(***************************************************************************)
EXTENDS PS2

VARIABLES
  at,         \* the next statement of the boot
  failed,     \* mouse_init has returned early
  IF_flag,    \* interrupts enabled
  handlers,   \* lines with an entry in interrupt_handlers
  untidy,     \* history: a byte waited when the mouse was reset
  stolen,     \* history: mouse_read took a key's byte
  latched,    \* history: a polled byte left its request behind
  heard,      \* history: the byte the keyboard handler read last, if any
  felt        \* history: the byte the mouse handler read last, if any

bootVars == <<at, failed, IF_flag, handlers>>
history  == <<untidy, stolen, latched, heard, felt>>
vars == <<picVars, keyboardVars, mouseVars, ps2Vars, bootVars, history>>

Statements == <<Do("keyboard_register"), Do("keyboard_unmask")>>
                \o mouse_init \o <<Do("interrupt_enable"), Do("loop")>>

Enable == Len(Statements) - 1

-----------------------------------------------------------------------------
(* The boot *)

Reach(what) == Statements[at].what = what /\ serving = NoLine

\* idt_register_handler
Register(what, line) ==
  /\ Reach(what) /\ at' = at + 1 /\ handlers' = handlers \cup {line}
  /\ UNCHANGED <<picVars, keyboardVars, mouseVars, ps2Vars, failed, IF_flag,
                 history>>

Unmask(what, line) ==
  /\ Reach(what) /\ at' = at + 1 /\ pic_unmask_irq(line)
  /\ UNCHANGED <<initialized, requested, in_service, serving, keyboardVars,
                 mouseVars, ps2Vars, failed, IF_flag, handlers, history>>

\* The controller takes the byte and passes it to the mouse.
mouse_write ==
  /\ Reach("mouse_write") /\ at' = at + 1
  /\ Command(Statements[at].value)
  /\ untidy' = (untidy \/ /\ Statements[at].value = MOUSE_CMD_RESET
                          /\ output # <<>>)
  /\ UNCHANGED <<picVars, keyboardVars, mouseVars, failed, IF_flag, handlers,
                 stolen, latched, heard, felt>>

\* mouse_read waits for a byte, however long, and takes it, whosever it is.
\* Its line goes down; the interrupt controller may or may not forget it.
Poll ==
  /\ serving = NoLine /\ output # <<>> /\ inb
  /\ requested' \in {requested, requested \ {output[1].from}}
  /\ latched' = (latched \/ output[1].from \in requested')
  /\ stolen' = (stolen \/ output[1].from = KeyboardLine)
  /\ UNCHANGED <<initialized, masked, irq_mask, in_service, serving,
                 keyboardVars, mouseVars, IF_flag, handlers, untidy, heard,
                 felt>>

mouse_read ==
  /\ Reach("mouse_read") /\ Poll /\ at' = at + 1 /\ UNCHANGED failed

\* Anything but an acknowledgement ends mouse_init.
mouse_wait_ack ==
  /\ Reach("mouse_wait_ack") /\ Poll
  /\ failed' = (Data # ACK)
  /\ at' = IF Data = ACK THEN at + 1 ELSE Enable

interrupt_enable ==
  /\ Reach("interrupt_enable") /\ at' = at + 1 /\ IF_flag' = TRUE
  /\ UNCHANGED <<picVars, keyboardVars, mouseVars, ps2Vars, failed, handlers,
                 history>>

kmain == \/ Register("keyboard_register", KeyboardLine)
         \/ Unmask("keyboard_unmask", KeyboardLine)
         \/ mouse_write \/ mouse_read \/ mouse_wait_ack
         \/ Register("mouse_register", MouseLine)
         \/ Unmask("mouse_unmask", MouseLine)
         \/ interrupt_enable

-----------------------------------------------------------------------------
(* The interrupts *)

Interrupt ==
  /\ IF_flag /\ Accept
  /\ UNCHANGED <<keyboardVars, mouseVars, ps2Vars, bootVars, history>>

\* The byte read by a handler leaves no request: the line went down.
HandlerReads ==
  inb /\ requested' = requested \ {output[k].from : k \in DOMAIN output}

Serve ==
  /\ serving # NoLine
  /\ \/ /\ serving \in handlers \cap {KeyboardLine}
        /\ HandlerReads /\ keyboard_handle_keypress(Data) /\ heard' = output
        /\ UNCHANGED <<mouseVars, felt>>
     \/ /\ serving \in handlers \cap {MouseLine}
        /\ HandlerReads /\ mouse_interrupt_handler(Data) /\ felt' = output
        /\ UNCHANGED <<keyboardVars, heard>>
     \/ /\ serving \notin handlers
        /\ UNCHANGED <<requested, keyboardVars, mouseVars, ps2Vars, heard,
                       felt>>
  /\ pic_send_eoi(serving) /\ serving' = NoLine
  /\ UNCHANGED <<initialized, masked, irq_mask, bootVars, untidy, stolen,
                 latched>>

-----------------------------------------------------------------------------
Controller ==
  /\ \E line \in Lines : Present(line)
  /\ UNCHANGED <<keyboardVars, mouseVars, bootVars, history>>

Devices ==
  /\ \/ \E key \in Keys : Press(key) \/ Release(key)
     \/ Repeat
     \/ \E p \in Packets : Move(p)
  /\ UNCHANGED <<picVars, keyboardVars, mouseVars, bootVars, history>>

\* pic_init is over; the firmware may have left line 12 unmasked.
Init ==
  /\ initialized = TRUE /\ requested = {} /\ in_service = {}
  /\ serving = NoLine
  /\ masked \in {m \cup {KeyboardLine} : m \in SUBSET (Lines \ {Cascade})}
  /\ irq_mask = masked
  /\ KeyboardInit /\ MouseInit /\ PS2Init
  /\ at = 1 /\ failed = FALSE /\ IF_flag = FALSE /\ handlers = {}
  /\ untidy = FALSE /\ stolen = FALSE /\ latched = FALSE
  /\ heard = <<>> /\ felt = <<>>

Next == kmain \/ Interrupt \/ Serve \/ Controller \/ Devices

\* The boot goes on, a byte that can move into the buffer does, the CPU takes
\* the interrupts it may take, and handlers return.
Spec == /\ Init /\ [][Next]_vars
        /\ WF_vars(kmain) /\ WF_vars(Controller)
        /\ WF_vars(Interrupt) /\ WF_vars(Serve)

-----------------------------------------------------------------------------
Waiting(line) == {k \in DOMAIN output : output[k].from = line}

\* mouse_init fails only when a key's byte came between the answers of the
\* mouse, or when a byte was already waiting as it wrote the reset, such as
\* the answer to the disable command, which it never reads.  When it does not
\* fail the mouse reports, its handler and line are ready, and, had no key's
\* byte come between, no answer is left over to be taken for a packet.
InitOutcome ==
  /\ PICTypeOK /\ KeyboardTypeOK /\ MouseTypeOK
  /\ failed => untidy \/ stolen
  /\ IF_flag /\ ~ failed =>
       /\ streaming /\ MouseLine \in handlers \ masked
       /\ \A k \in DOMAIN mouse : stolen \/ mouse[k].pos # 0
       /\ \A k \in Waiting(MouseLine) : stolen \/ output[k].pos # 0

\* No polled read upset the order of bytes and interrupts.
Orderly == ~ stolen /\ ~ latched

\* Keys are heard as they were typed, whatever the mouse does meanwhile: each
\* event is of the character that the keys held at the time stand for, and
\* once nothing is on its way the driver's view is that of the keyboard.
\* (Both Shift keys at once, and a Caps Lock that repeats, are not followed.)
KeysFollow ==
  Orderly /\ ~ blurred =>
    /\ \A k \in DOMAIN heard :
         /\ heard[k].from = KeyboardLine
         /\ kb_event.scancode = heard[k].byte % 128
         /\ kb_event.shift = (heard[k].held \cap Shifts # {})
         /\ kb_event.pressed =>
              kb_event.ascii =
                (IF heard[k].held \cap Shifts # {}
                 THEN IF IsLetter(kb_event.scancode) /\ heard[k].lock
                      THEN "plain" ELSE "shifted"
                 ELSE IF IsLetter(kb_event.scancode) /\ heard[k].lock
                      THEN "shifted" ELSE "plain")
    /\ keyboard = <<>> /\ Waiting(KeyboardLine) = {} =>
         /\ key_states = down /\ caps_lock = caps
         /\ shift_pressed = (down \cap Shifts # {})

\* Movements are reported as they were made, whatever is typed meanwhile: the
\* driver is never out of step with the packets, and every event is that of
\* the packet just read, except that a movement beyond an int8_t wraps.
PacketsWhole ==
  Orderly =>
    \A k \in DOMAIN felt :
      /\ felt[k].from = MouseLine /\ mouse_cycle = felt[k].pos % 3
      /\ felt[k].pos = 3 =>
           LET p == felt[k].packet
           IN  /\ mouse_event.buttons = p.buttons /\ mouse_buttons = p.buttons
               /\ p.x \in -128 .. 127 => mouse_event.delta_x = p.x
               /\ p.y \in -127 .. 127 => mouse_event.delta_y = - p.y

\* With a mouse there, mouse_init returns whatever is typed meanwhile: every
\* byte that it waits for without a timeout comes.
MouseInitReturns == attached ~> IF_flag

\* Once interrupts are on a waiting byte is read, and so the other device gets
\* its turn, unless mouse_init has failed and the byte is of the mouse.
BytesHandled ==
  (IF_flag /\ output # <<>>)
    ~> (output = <<>> \/ (failed /\ Waiting(MouseLine) # {}))
=============================================================================
