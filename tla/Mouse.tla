------------------------------- MODULE Mouse -------------------------------
(***************************************************************************)
(* The mouse driver, kernel/src/drivers/mouse/mouse.c: the statements of   *)
(* mouse_init, and what one byte of the mouse does to the packet that is   *)
(* being put together and to the event handed to the callback.             *)
(***************************************************************************)
EXTENDS Integers, Sequences

VARIABLES
  mouse_packet,   \* the bytes of the packet so far
  mouse_cycle,    \* how many there are
  mouse_buttons,
  mouse_event     \* the last event handed to mouse_callback

mouseVars == <<mouse_packet, mouse_cycle, mouse_buttons, mouse_event>>

MOUSE_CMD_ENABLE      == 244  \* 0xF4
MOUSE_CMD_DISABLE     == 245  \* 0xF5
MOUSE_CMD_DEFAULTS    == 246  \* 0xF6
MOUSE_CMD_SAMPLE_RATE == 243  \* 0xF3
MOUSE_CMD_RESET       == 255  \* 0xFF

ACK == 250  \* 0xFA, what mouse_wait_ack wants to read

Do(what)       == [what |-> what, value |-> 0]
Write(command) == [what |-> "mouse_write", value |-> command]
WaitAck        == Do("mouse_wait_ack")
Discard        == Do("mouse_read")

mouse_init_OneReadMore ==
  <<Write(MOUSE_CMD_DISABLE), Write(MOUSE_CMD_RESET), WaitAck,
    Discard, Discard, Discard,
    Write(MOUSE_CMD_DEFAULTS), WaitAck,
    Write(MOUSE_CMD_SAMPLE_RATE), WaitAck, Write(100), WaitAck,
    Write(MOUSE_CMD_ENABLE), WaitAck,
    Do("mouse_register"), Do("mouse_unmask")>>

mouse_init_OneReadLess ==
  <<Write(MOUSE_CMD_DISABLE), Write(MOUSE_CMD_RESET), WaitAck, Discard,
    Write(MOUSE_CMD_DEFAULTS), WaitAck,
    Write(MOUSE_CMD_SAMPLE_RATE), WaitAck, Write(100), WaitAck,
    Write(MOUSE_CMD_ENABLE), WaitAck,
    Do("mouse_register"), Do("mouse_unmask")>>

\* A WaitAck that reads something else makes mouse_init return.
mouse_init ==
  <<Write(MOUSE_CMD_DISABLE), Write(MOUSE_CMD_RESET), WaitAck,
    Discard, Discard,
    Write(MOUSE_CMD_DEFAULTS), WaitAck,
    Write(MOUSE_CMD_SAMPLE_RATE), WaitAck, Write(100), WaitAck,
    Write(MOUSE_CMD_ENABLE), WaitAck,
    Do("mouse_register"), Do("mouse_unmask")>>

\* The value kept by an int8_t.
Int8(n) == ((n + 128) % 256) - 128

\* The event of a packet.  The sign bits of its first byte change nothing: the
\* bits they set in a delta do not fit into it.
Event(packet) ==
  [buttons |-> packet[1] % 8,
   delta_x |-> Int8(packet[2]),
   delta_y |-> Int8(- Int8(packet[3]))]

mouse_interrupt_handler_KeepCycle(data) ==
  LET packet == [mouse_packet EXCEPT ![mouse_cycle + 1] = data]
  IN  /\ mouse_packet' = packet
      /\ mouse_cycle' = IF mouse_cycle < 2 THEN mouse_cycle + 1 ELSE 2
      /\ mouse_event' = IF mouse_cycle = 2 THEN Event(packet) ELSE mouse_event
      /\ mouse_buttons' = IF mouse_cycle = 2 THEN Event(packet).buttons
                          ELSE mouse_buttons

\* data is the byte just read from the port.
mouse_interrupt_handler(data) ==
  LET packet == [mouse_packet EXCEPT ![mouse_cycle + 1] = data]
  IN  /\ mouse_packet' = packet
      /\ \/ /\ mouse_cycle < 2 /\ mouse_cycle' = mouse_cycle + 1
            /\ UNCHANGED <<mouse_event, mouse_buttons>>
         \/ /\ mouse_cycle = 2 /\ mouse_cycle' = 0
            /\ mouse_event' = Event(packet)
            /\ mouse_buttons' = Event(packet).buttons

MouseInit ==
  /\ mouse_packet = <<0, 0, 0>> /\ mouse_cycle = 0 /\ mouse_buttons = 0
  /\ mouse_event = [buttons |-> 0, delta_x |-> 0, delta_y |-> 0]

MouseTypeOK ==
  /\ mouse_packet \in [1 .. 3 -> 0 .. 255]
  /\ mouse_cycle \in 0 .. 2 /\ mouse_buttons \in 0 .. 7
  /\ mouse_event \in [buttons : 0 .. 7, delta_x : -128 .. 127,
                      delta_y : -128 .. 127]
=============================================================================
