-------------------------------- MODULE PS2 --------------------------------
(***************************************************************************)
(* The hardware behind ports 0x60 and 0x64, modelled from how keyboard.c   *)
(* and mouse.c use it: a controller with one output buffer for both        *)
(* devices, the keyboard, whose keys go down and up at any time, and the   *)
(* mouse, which answers commands and, once told to, sends packets.         *)
(*                                                                         *)
(* A byte on its way carries what it stands for: a key byte the state of   *)
(* the keys when it was sent, a mouse byte its packet and its position.    *)
(***************************************************************************)
EXTENDS PIC, Keyboard, Mouse

CONSTANTS
  Keys,         \* the scancodes of the keys
  Packets,      \* what the mouse may report: records of buttons, x and y
  MaxEvents     \* bound: key presses, repetitions, releases and packets

KeyboardLine == 1
MouseLine    == 12

ASSUME PS2Constants ==
  /\ {KeyboardLine, MouseLine} \subseteq Lines
  /\ Keys \subseteq 1 .. 127
  /\ Packets \subseteq [buttons : 0 .. 7, x : -256 .. 255, y : -256 .. 255]
  /\ MaxEvents \in Nat

VARIABLES
  output,      \* the output buffer: no byte or one
  last,        \* what port 0x60 returns while it is empty
  keyboard,    \* bytes the keyboard has to send
  mouse,       \* bytes the mouse has to send
  attached,    \* there is a mouse
  streaming,   \* it reports
  down,        \* the keys held
  newest,      \* the one that repeats, or 0
  caps,        \* what the presses of Caps Lock have made of it
  blurred,     \* both Shift keys were held, or Caps Lock repeated
  events       \* bound: presses, repetitions, releases and packets so far

keysVars == <<keyboard, down, newest, caps, blurred>>
ps2Vars  == <<output, last, mouse, attached, streaming, events, keysVars>>

KeyByte(b, held, lock) ==
  [from |-> KeyboardLine, byte |-> b, held |-> held, lock |-> lock]

MouseByte(b, packet, pos) ==
  [from |-> MouseLine, byte |-> b, packet |-> packet, pos |-> pos]

Answer(b) == MouseByte(b, "none", 0)

-----------------------------------------------------------------------------
(* The controller *)

\* A byte moves into the empty buffer and the line of its device goes up.
Present(line) ==
  /\ output = <<>>
  /\ \/ /\ line = KeyboardLine /\ keyboard # <<>>
        /\ output' = <<Head(keyboard)>> /\ keyboard' = Tail(keyboard)
        /\ UNCHANGED mouse
     \/ /\ line = MouseLine /\ mouse # <<>>
        /\ output' = <<Head(mouse)>> /\ mouse' = Tail(mouse)
        /\ UNCHANGED keyboard
  /\ Request(line)
  /\ UNCHANGED <<last, attached, streaming, events, down, newest, caps,
                 blurred>>

\* What port 0x60 reads: the byte that waits, or the last one again.
Data == IF output = <<>> THEN last ELSE output[1].byte

\* Reading it empties the buffer and the line goes down.
inb == /\ output' = <<>> /\ last' = Data
       /\ UNCHANGED <<mouse, attached, streaming, events, keysVars>>

-----------------------------------------------------------------------------
(* The keyboard *)

Send(b) ==
  /\ events < MaxEvents /\ events' = events + 1
  /\ keyboard' = Append(keyboard, KeyByte(b, down', caps'))
  /\ UNCHANGED <<output, last, mouse, attached, streaming>>

Press(key) ==
  /\ key \notin down /\ down' = down \cup {key} /\ newest' = key
  /\ caps' = IF key = CapsLock THEN ~ caps ELSE caps
  /\ blurred' = (blurred \/ Shifts \subseteq down')
  /\ Send(key)

\* The key pressed last repeats its make code.
Repeat ==
  /\ newest \in down
  /\ blurred' = (blurred \/ newest = CapsLock)
  /\ UNCHANGED <<down, newest, caps>>
  /\ Send(newest)

Release(key) ==
  /\ key \in down /\ down' = down \ {key}
  /\ newest' = IF key = newest THEN 0 ELSE newest
  /\ UNCHANGED <<caps, blurred>>
  /\ Send(key + 128)

-----------------------------------------------------------------------------
(* The mouse *)

Answers(command) ==
  IF command = MOUSE_CMD_RESET
  THEN <<Answer(ACK), Answer(170), Answer(0)>>  \* the self test, the identity
  ELSE <<Answer(ACK)>>

\* A command makes the mouse forget what it has not sent yet.
Command(command) ==
  /\ mouse' = IF attached THEN Answers(command) ELSE <<>>
  /\ streaming' = (attached /\ command = MOUSE_CMD_ENABLE)
  /\ UNCHANGED <<output, last, attached, events, keysVars>>

\* The first byte of a packet: the buttons, a bit always set, the signs.
Status(p) == p.buttons + 8 + (IF p.x < 0 THEN 16 ELSE 0)
                           + (IF p.y < 0 THEN 32 ELSE 0)

Move(p) ==
  /\ streaming /\ mouse = <<>>
  /\ events < MaxEvents /\ events' = events + 1
  /\ mouse' = <<MouseByte(Status(p), p, 1), MouseByte(p.x % 256, p, 2),
                MouseByte(p.y % 256, p, 3)>>
  /\ UNCHANGED <<output, last, attached, streaming, keysVars>>

\* A key may have gone down before the interrupt controllers were reset: its
\* byte waits and its request is gone.  The firmware may have left the mouse
\* reporting.
PS2Init ==
  /\ last = 0 /\ keyboard = <<>> /\ mouse = <<>> /\ events = 0
  /\ attached \in BOOLEAN /\ streaming \in {FALSE, attached}
  /\ newest \in {0} \cup Keys /\ down = {newest} \ {0}
  /\ caps = (CapsLock \in down) /\ blurred = FALSE
  /\ output = IF newest = 0 THEN <<>> ELSE <<KeyByte(newest, down, caps)>>
=============================================================================
