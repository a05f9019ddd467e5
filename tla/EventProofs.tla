---------------------------- MODULE EventProofs ----------------------------
(***************************************************************************)
(* The handlers of the keyboard and the mouse stay in step with what the   *)
(* devices send through the shared output buffer, for every set of keys    *)
(* and packets and any number of key strokes and movements.                *)
(***************************************************************************)
EXTENDS InputProofs

-----------------------------------------------------------------------------
(* The handlers *)

\* An interrupt stands for the byte that waits.
Match ==
  /\ \A line \in requested : output # <<>> /\ output[1].from = line
  /\ serving # NoLine => output # <<>> /\ output[1].from = serving

\* What the driver has of packet p.
Got(p) ==
  /\ mouse_cycle >= 1 => mouse_packet[1] = Status(p)
  /\ mouse_cycle >= 2 => mouse_packet[2] = p.x % 256

\* The next byte is the one the driver takes it for.
Stream ==
  \/ ~ MouseWaits /\ mouse = <<>> /\ mouse_cycle = 0
  \/ \E p \in Packets :
       /\ Got(p)
       /\ \/ ~ MouseWaits /\ mouse = Rest(p, mouse_cycle + 1)
          \/ /\ output = <<PacketByte(p, mouse_cycle + 1)>>
             /\ IF mouse_cycle < 2 THEN mouse = Rest(p, mouse_cycle + 2)
                ELSE mouse = <<>> \/ \E q \in Packets : mouse = Rest(q, 1)

MouseInv ==
  /\ Orderly => Match
  /\ ~ IF_flag => mouse_cycle = 0
  /\ Orderly /\ attached /\ ~ failed /\ at >= 16 => Stream
  /\ PacketsWhole

\* The keys after the byte b of a key, from what they were before it.
Follows(held, lock, b) ==
  /\ b.held = IF b.byte >= 128 THEN held \ {b.byte % 128}
              ELSE held \cup {b.byte % 128}
  /\ b.lock = IF b.byte = CapsLock THEN ~ lock ELSE lock
  /\ b.byte >= 128 => b.byte % 128 \in held
  /\ ~ (Shifts \subseteq b.held)

\* The keys after the first i bytes that the keyboard has to send.
HeldAt(i) == IF i > 0 THEN keyboard[i].held
             ELSE IF KeyWaits THEN output[1].held ELSE key_states
LockAt(i) == IF i > 0 THEN keyboard[i].lock
             ELSE IF KeyWaits THEN output[1].lock ELSE caps_lock

\* From what the driver has seen, byte by byte, to the keys as they are.
Chain ==
  /\ KeyWaits => Follows(key_states, caps_lock, output[1])
  /\ \A i \in 1 .. Len(keyboard) :
       Follows(HeldAt(i - 1), LockAt(i - 1), keyboard[i])
  /\ HeldAt(Len(keyboard)) = down /\ LockAt(Len(keyboard)) = caps
  /\ ~ (Shifts \subseteq key_states)
  /\ shift_pressed <=> key_states \cap Shifts # {}

\* The event is the byte b of a key, with the character that the keys held
\* then stand for.
Told(b) ==
  /\ kb_event.scancode = b.byte % 128
  /\ kb_event.shift = (b.held \cap Shifts # {})
  /\ kb_event.pressed =>
       kb_event.ascii =
         (IF b.held \cap Shifts # {}
          THEN IF IsLetter(kb_event.scancode) /\ b.lock
               THEN "plain" ELSE "shifted"
          ELSE IF IsLetter(kb_event.scancode) /\ b.lock
               THEN "shifted" ELSE "plain")

Heard ==
  \A k \in DOMAIN heard : heard[k].from = KeyboardLine /\ Told(heard[k])

KeyInv == Orderly /\ ~ blurred => Chain /\ Heard
-----------------------------------------------------------------------------
(* The packets *)

\* Once a polled read has upset the order it stays upset.
LEMMA OrderlyBefore == ASSUME [Next]_vars, Orderly' PROVE Orderly
<1>1. CASE Poll
  BY <1>1 DEF Poll, Orderly
<1>2. CASE UNCHANGED <<stolen, latched>>
  <2>1. stolen' = stolen /\ latched' = latched
    BY <1>2
  <2> QED BY <2>1, Zenon DEF Orderly
<1> QED
  BY <1>1, <1>2
  DEF Next, kmain, Register, Unmask, mouse_write, mouse_read, mouse_wait_ack,
      interrupt_enable, Interrupt, Serve, Controller, Devices, history, vars

LEMMA NextMatch ==
  ASSUME Types, Orderly => Match, [Next]_vars, Orderly'
  PROVE  Match'
<1>0. Match
  BY OrderlyBefore
<1>1. CASE UNCHANGED <<requested, serving, output>>
  BY <1>0, <1>1 DEF Match
<1>2. CASE Poll
  <2>1. output # <<>> /\ serving' = NoLine /\ requested' \subseteq requested
        /\ output[1].from \notin requested'
    BY <1>2 DEF Poll, Orderly
  <2>2. requested' = {}
    BY <1>0, <2>1 DEF Match
  <2> QED BY <2>1, <2>2 DEF Match
<1>3. CASE Interrupt
  <2>1. serving' \in requested /\ requested' \subseteq requested /\ output' = output
    BY <1>3, PICSteps DEF Interrupt, Types, ps2Vars
  <2> QED BY <1>0, <2>1 DEF Match
<1>4. CASE Serve
  <2>1. serving' = NoLine /\ output # <<>>
    BY <1>0, <1>4 DEF Serve, Match
  <2>2. \/ UNCHANGED <<requested, output>>
        \/ requested' = requested \ {output[k].from : k \in DOMAIN output}
    BY <1>4 DEF Serve, HandlerReads, ps2Vars
  <2>3. CASE requested' = requested \ {output[k].from : k \in DOMAIN output}
    <3>1. 1 \in DOMAIN output
      BY <2>1, Waits
    <3>2. requested' = {}
      BY <1>0, <2>3, <3>1 DEF Match
    <3> QED BY <2>1, <3>2 DEF Match
  <2> QED BY <1>0, <2>1, <2>2, <2>3 DEF Match
<1>5. CASE Controller
  <2>1. PICK line \in Lines : Present(line)
    BY <1>5 DEF Controller
  <2>2. requested = {} /\ serving = NoLine
    BY <1>0, <2>1 DEF Match, Present
  <2>3. requested' = {line} /\ serving' = NoLine
    BY <2>1, <2>2 DEF Present, Request
  <2>4. output' # <<>> /\ output'[1].from = line
    <3>1. CASE line = KeyboardLine /\ keyboard # <<>> /\ output' = <<Head(keyboard)>>
      <4>1. Head(keyboard) \in KeyBytes
        BY <3>1 DEF Types, PS2Types
      <4> QED BY <3>1, <4>1 DEF KeyBytes
    <3>2. CASE line = MouseLine /\ mouse # <<>> /\ output' = <<Head(mouse)>>
      <4>1. Head(mouse) \in MouseBytes
        BY <3>2 DEF Types, PS2Types
      <4> QED BY <3>2, <4>1 DEF MouseBytes
    <3> QED BY <2>1, <3>1, <3>2 DEF Present
  <2> QED BY <2>3, <2>4 DEF Match
<1>6. CASE Devices
  BY <1>1, <1>6 DEF Devices, Press, Release, Repeat, Send, Move, picVars
<1> QED
  BY <1>1, <1>2, <1>3, <1>4, <1>5, <1>6
  DEF Next, kmain, Register, Unmask, mouse_write, Command, mouse_read,
      mouse_wait_ack, interrupt_enable, picVars, ps2Vars, vars

\* What the driver makes of the three bytes of a packet.
LEMMA PacketDecoded ==
  ASSUME NEW p \in Packets
  PROVE  /\ Status(p) % 8 = p.buttons
         /\ p.x \in -128 .. 127 => Int8(p.x % 256) = p.x
         /\ p.y \in -127 .. 127 => Int8(- Int8(p.y % 256)) = - p.y
<1>1. p.buttons \in 0 .. 7 /\ p.x \in -256 .. 255 /\ p.y \in -256 .. 255
  BY PS2Constants
<1>2. \A b \in 0 .. 7, x \in {0, 16}, y \in {0, 32} : (b + 8 + x + y) % 8 = b
  OBVIOUS
<1>3. Status(p) % 8 = p.buttons
  BY <1>1, <1>2 DEF Status
<1>4. \A n \in -128 .. 127 : Int8(n % 256) = n
  BY DEF Int8
<1>5. \A n \in -127 .. 127 : Int8(- n) = - n
  BY DEF Int8
<1>6. ASSUME p.y \in -127 .. 127
      PROVE  Int8(- Int8(p.y % 256)) = - p.y
  <2>1. Int8(p.y % 256) = p.y
    <3>1. p.y \in -128 .. 127
      BY <1>6
    <3> QED BY <1>4, <3>1
  <2>2. Int8(- p.y) = - p.y
    BY <1>5, <1>6
  <2> QED BY <2>1, <2>2
<1>7. p.x \in -128 .. 127 => Int8(p.x % 256) = p.x
  BY <1>4
<1> QED BY <1>3, <1>6, <1>7

\* The bytes of a packet, one by one.
LEMMA RestIs ==
  ASSUME NEW p
  PROVE  /\ \A k \in 1 .. 3 : Rest(p, k) # <<>>
                              /\ Head(Rest(p, k)) = PacketByte(p, k)
         /\ \A k \in 1 .. 2 : Tail(Rest(p, k)) = Rest(p, k + 1)
         /\ Tail(Rest(p, 3)) = <<>>
BY DEF Rest
\* While the driver reads nothing, what the mouse has to send may move into the
\* buffer, and grow by a packet when there is nothing left of the one before.
LEMMA StreamStays ==
  ASSUME Types, Stream, UNCHANGED <<mouse_packet, mouse_cycle>>,
         Controller \/ Devices \/ UNCHANGED <<output, mouse>>
  PROVE  Stream'
<1>0. mouse_cycle \in 0 .. 2
  BY DEF Types, MouseTypeOK
<1>1. \A p : Got(p)' <=> Got(p)
  BY DEF Got
<1>2. CASE UNCHANGED <<output, mouse>>
  BY <1>1, <1>2 DEF Stream, MouseWaits
<1>3. CASE Controller
  <2>1. output = <<>>
    BY <1>3 DEF Controller, Present
  <2>2. ~ MouseWaits /\ \A b : output # <<b>>
    BY <2>1 DEF MouseWaits
  <2>3. CASE keyboard # <<>> /\ output' = <<Head(keyboard)>> /\ mouse' = mouse
    <3>1. Head(keyboard) \in KeyBytes
      BY <2>3 DEF Types, PS2Types
    <3>2. ~ MouseWaits'
      BY <2>3, <3>1 DEF MouseWaits, KeyBytes, KeyboardLine, MouseLine
    <3> QED BY <1>1, <2>2, <2>3, <3>2 DEF Stream
  <2>4. CASE mouse # <<>> /\ output' = <<Head(mouse)>> /\ mouse' = Tail(mouse)
    <3>1. PICK p \in Packets : Got(p) /\ mouse = Rest(p, mouse_cycle + 1)
      BY <2>2, <2>4 DEF Stream
    <3>2. PICK k \in 1 .. 3 : k = mouse_cycle + 1
      BY <1>0
    <3>3. output' = <<PacketByte(p, k)>>
      BY <2>4, <3>1, <3>2, RestIs
    <3>4. IF k < 3 THEN mouse' = Rest(p, k + 1) ELSE mouse' = <<>>
      BY <2>4, <3>1, <3>2, RestIs
    <3>5. output' = <<PacketByte(p, mouse_cycle + 1)>>
      BY <3>2, <3>3
    <3>6. IF mouse_cycle < 2 THEN mouse' = Rest(p, mouse_cycle + 2)
          ELSE mouse' = <<>>
      BY <1>0, <3>2, <3>4
    <3> QED BY <1>1, <3>1, <3>5, <3>6 DEF Stream
  <2> QED BY <1>3, <2>3, <2>4 DEF Controller, Present
<1>4. CASE Devices
  <2>1. CASE \E p \in Packets : Move(p)
    <3>1. PICK p \in Packets : Move(p)
      BY <2>1
    <3>2. mouse = <<>> /\ mouse' = Rest(p, 1) /\ output' = output
      BY <3>1, MoveTypes DEF Move, Types
    <3>3. MouseWaits' <=> MouseWaits
      BY <3>2 DEF MouseWaits
    <3>4. \A q \in Packets, k \in 1 .. 3 : mouse # Rest(q, k)
      BY <3>2, RestIs
    <3>5. CASE ~ MouseWaits /\ mouse_cycle = 0
      <4>1. Got(p)
        BY <3>5 DEF Got
      <4>2. mouse' = Rest(p, mouse_cycle + 1)
        BY <3>2, <3>5
      <4> QED BY <1>1, <3>3, <3>5, <4>1, <4>2 DEF Stream
    <3>6. CASE \E q \in Packets : Got(q) /\ output = <<PacketByte(q, mouse_cycle + 1)>>
                                  /\ mouse_cycle = 2
      <4>1. PICK q \in Packets : Got(q) /\ mouse_cycle = 2
                                 /\ output = <<PacketByte(q, mouse_cycle + 1)>>
        BY <3>6
      <4> QED BY <1>1, <3>2, <4>1 DEF Stream
    <3>7. mouse_cycle + 1 \in 1 .. 3 /\ (mouse_cycle < 2 => mouse_cycle + 2 \in 1 .. 3)
          /\ (~ (mouse_cycle < 2) => mouse_cycle = 2)
      BY <1>0
    <3> QED BY <3>4, <3>5, <3>6, <3>7 DEF Stream
  <2>2. CASE UNCHANGED <<output, mouse>>
    BY <1>2, <2>2
  <2> QED BY <1>4, <2>1, <2>2 DEF Devices, Press, Release, Repeat, Send
<1> QED BY <1>2, <1>3, <1>4

\* The driver reads the byte of a key.
LEMMA StreamSkips ==
  ASSUME Stream, ~ MouseWaits, output' = <<>>,
         UNCHANGED <<mouse, mouse_packet, mouse_cycle>>
  PROVE  Stream'
<1>1. \A p : Got(p)' <=> Got(p)
  BY DEF Got
<1>2. ~ MouseWaits'
  BY DEF MouseWaits
<1>3. \A p, k : output = <<PacketByte(p, k)>> => MouseWaits
  BY DEF MouseWaits, PacketByte, MouseByte
<1> QED BY <1>1, <1>2, <1>3 DEF Stream

\* The mouse handler reads a byte: it is the one it takes it for, and the third
\* one completes the packet.
LEMMA StreamRead ==
  ASSUME Types, Stream, MouseWaits, inb, mouse_interrupt_handler(Data)
  PROVE  /\ Stream'
         /\ output[1].from = MouseLine /\ mouse_cycle' = output[1].pos % 3
         /\ output[1].pos = 3 =>
              LET p == output[1].packet
              IN  /\ mouse_event'.buttons = p.buttons
                  /\ mouse_buttons' = p.buttons
                  /\ p.x \in -128 .. 127 => mouse_event'.delta_x = p.x
                  /\ p.y \in -127 .. 127 => mouse_event'.delta_y = - p.y
<1>0. PICK c \in 0 .. 2 : c = mouse_cycle
  BY DEF Types, MouseTypeOK
<1>1. PICK p \in Packets :
        /\ Got(p) /\ output = <<PacketByte(p, c + 1)>>
        /\ IF c < 2 THEN mouse = Rest(p, c + 2)
           ELSE mouse = <<>> \/ \E q \in Packets : mouse = Rest(q, 1)
  BY <1>0 DEF Stream
<1>2. output[1].from = MouseLine /\ output[1].packet = p /\ output[1].pos = c + 1
  BY <1>1 DEF PacketByte, MouseByte
<1>3. Data = IF c = 0 THEN Status(p) ELSE IF c = 1 THEN p.x % 256
             ELSE p.y % 256
  BY <1>1 DEF Data, PacketByte, MouseByte
<1>4. output' = <<>> /\ mouse' = mouse
  BY DEF inb
<1>5. ~ MouseWaits'
  BY <1>4 DEF MouseWaits
<1>6. PICK d \in 0 .. 255 : d = Data
  BY DataType
<1>7. \A j \in 1 .. 3 : mouse_packet'[j] = IF j = c + 1 THEN d ELSE mouse_packet[j]
  <2>1. mouse_packet' = [mouse_packet EXCEPT ![c + 1] = d]
    BY <1>0, <1>6 DEF mouse_interrupt_handler
  <2>2. mouse_packet \in [1 .. 3 -> 0 .. 255] /\ c + 1 \in 1 .. 3
    BY <1>0 DEF Types, MouseTypeOK
  <2>3. \A j \in 1 .. 3 : [mouse_packet EXCEPT ![c + 1] = d][j]
                            = IF j = c + 1 THEN d ELSE mouse_packet[j]
    BY <2>2
  <2> QED BY <2>1, <2>3
<1>8. CASE c < 2
  <2>1. mouse_cycle' = c + 1
    BY <1>0, <1>8 DEF mouse_interrupt_handler
  <2>2. Got(p)'
    <3>1. c = 0 => mouse_packet'[1] = Status(p)
      BY <1>3, <1>6, <1>7
    <3>2. c = 1 => mouse_packet'[1] = Status(p) /\ mouse_packet'[2] = p.x % 256
      BY <1>0, <1>1, <1>3, <1>6, <1>7 DEF Got
    <3> QED BY <1>8, <2>1, <3>1, <3>2 DEF Got
  <2>3. mouse' = Rest(p, mouse_cycle' + 1)
    BY <1>1, <1>4, <1>8, <2>1
  <2>4. Stream'
    BY <1>5, <2>2, <2>3 DEF Stream
  <2>5. mouse_cycle' = output[1].pos % 3 /\ output[1].pos # 3
    BY <1>2, <1>8, <2>1
  <2> QED BY <1>2, <2>4, <2>5
<1>9. CASE c = 2
  <2>1. mouse_cycle' = 0
    BY <1>0, <1>9 DEF mouse_interrupt_handler
  <2>2. \A q : Got(q)'
    BY <2>1 DEF Got
  <2>3. mouse' = <<>> \/ \E q \in Packets : mouse' = Rest(q, mouse_cycle' + 1)
    BY <1>1, <1>4, <1>9, <2>1
  <2>4. Stream'
    BY <1>5, <2>1, <2>2, <2>3 DEF Stream
  <2>5. mouse_event' = Event(mouse_packet') /\ mouse_buttons' = mouse_packet'[1] % 8
    BY <1>0, <1>9 DEF mouse_interrupt_handler, Event
  <2>6. mouse_packet'[1] = Status(p) /\ mouse_packet'[2] = p.x % 256
        /\ mouse_packet'[3] = p.y % 256
    BY <1>0, <1>1, <1>3, <1>6, <1>7, <1>9 DEF Got
  <2>7. /\ mouse_event'.buttons = Status(p) % 8
        /\ mouse_event'.delta_x = Int8(p.x % 256)
        /\ mouse_event'.delta_y = Int8(- Int8(p.y % 256))
    BY <2>5, <2>6 DEF Event
  <2>8. mouse_cycle' = output[1].pos % 3
    BY <1>2, <1>9, <2>1
  <2>9. /\ mouse_event'.buttons = p.buttons /\ mouse_buttons' = p.buttons
        /\ p.x \in -128 .. 127 => mouse_event'.delta_x = p.x
        /\ p.y \in -127 .. 127 => mouse_event'.delta_y = - p.y
    <3>1. mouse_buttons' = Status(p) % 8
      BY <2>5, <2>6
    <3> QED BY <2>7, <3>1, PacketDecoded
  <2> QED BY <1>2, <2>4, <2>8, <2>9
<1>10. c < 2 \/ c = 2
  OBVIOUS
<1> QED BY <1>8, <1>9, <1>10, Zenon
LEMMA InitMouseInv == ASSUME Init PROVE MouseInv
<1>1. Match
  BY DEF Init, Match
<1>2. mouse_cycle = 0 /\ at = 1 /\ felt = <<>>
  BY DEF Init, MouseInit
<1>3. PacketsWhole
  <2>1. DOMAIN felt = {}
    BY <1>2
  <2> QED BY <2>1 DEF PacketsWhole
<1> QED BY <1>1, <1>2, <1>3 DEF MouseInv

\* When the mouse is ready its stream begins with a packet.
LEMMA StreamBegins ==
  ASSUME Types, Placed, BootInv, MouseInv, mouse_wait_ack, Orderly', attached,
         ~ failed', at' >= 16
  PROVE  Stream'
<1>1. at = 15 /\ ~ failed /\ mouse_cycle = 0 /\ mouse_cycle' = 0
  <2>1. at \in {5, 9, 11, 13, 15} /\ at' = at + 1 /\ mouse_cycle' = mouse_cycle
    BY ReachAt DEF mouse_wait_ack, Poll, Types, mouseVars
  <2>2. at = 15
    BY <2>1
  <2> QED BY <2>1, <2>2 DEF Placed, MouseInv
<1>2. MouseWaits /\ ~ stolen /\ inb
  BY PollTakes DEF mouse_wait_ack, Orderly
<1>3. mouse' = mouse /\ ~ MouseWaits'
  BY <1>2 DEF inb, MouseWaits
<1>4. Dialogue
  BY <1>1, <1>2 DEF BootInv
<1>5. mouse = <<>> \/ \E p \in Packets : mouse = Rest(p, 1)
  <2>1. Left(Acked) => mouse = <<>>
    BY <1>2, Shorter DEF Left, Acked
  <2>2. Begun => \E p \in Packets : mouse = Rest(p, 1)
    BY DEF Begun
  <2> QED BY <1>1, <1>4, <2>1, <2>2 DEF Dialogue
<1>6. \A p : Got(p)'
  BY <1>1 DEF Got
<1> QED BY <1>1, <1>3, <1>5, <1>6 DEF Stream

\* While the driver of the mouse does nothing and the mouse stays as it is, or
\* sends.
LEMMA MouseQuiet ==
  ASSUME Types, MouseInv, [Next]_vars,
         UNCHANGED <<mouseVars, felt, attached>>,
         \/ UNCHANGED IF_flag
         \/ IF_flag',
         \/ UNCHANGED <<at, failed>>
         \/ at' < 16 \/ failed'
         \/ at >= 16 /\ failed' = failed,
         Controller \/ Devices \/ UNCHANGED <<output, mouse>> \/ at' < 16 \/ failed'
  PROVE  MouseInv'
<1>1. Orderly' => Orderly
  BY OrderlyBefore
<1>2. Orderly' => Match'
  BY NextMatch DEF MouseInv
<1>3. UNCHANGED <<mouse_packet, mouse_cycle, mouse_buttons, mouse_event, felt>>
  BY DEF mouseVars
<1>4. ~ IF_flag' => mouse_cycle' = 0
  BY <1>3 DEF MouseInv
<1>5. ASSUME Orderly', attached', ~ failed', at' >= 16
      PROVE  Stream'
  <2>1. at \in Nat /\ ~ (at' < 16)
    <3>1. at' \in 1 .. 19
      BY NextTypes DEF Types
    <3> QED BY <1>5, <3>1 DEF Types
  <2>2. Stream
    BY <1>1, <1>5, <2>1 DEF MouseInv
  <2> QED BY <1>3, <1>5, <2>1, <2>2, StreamStays
<1>6. PacketsWhole'
  BY <1>1, <1>3 DEF MouseInv, PacketsWhole
<1> QED BY <1>2, <1>4, <1>5, <1>6 DEF MouseInv

LEMMA ServeMouseInv ==
  ASSUME Types, Placed, MouseInv, Serve
  PROVE  MouseInv'
<1>0. UNCHANGED <<at, failed, IF_flag, stolen, latched>>
  BY DEF Serve, bootVars
<1>1. Orderly' <=> Orderly
  BY <1>0, OrderlyBefore DEF Orderly
<1>2. Orderly' => Match'
  BY NextMatch DEF MouseInv, Next
<1>3. IF_flag' /\ at = 19
  BY <1>0 DEF Serve, Placed
<1>4. CASE serving \in handlers \cap {KeyboardLine} /\ HandlerReads
           /\ UNCHANGED <<mouseVars, felt>>
  <2>1. UNCHANGED <<mouse_packet, mouse_cycle, mouse_buttons, mouse_event, felt>>
        /\ output' = <<>> /\ UNCHANGED <<mouse, attached>>
    BY <1>4 DEF mouseVars, HandlerReads, inb
  <2>2. Orderly => ~ MouseWaits
    BY <1>4 DEF MouseInv, Match, Serve, MouseWaits, KeyboardLine, MouseLine
  <2>3. Orderly' /\ attached' /\ ~ failed' /\ at' >= 16 => Stream'
    BY <1>0, <1>1, <2>1, <2>2, StreamSkips DEF MouseInv
  <2>4. PacketsWhole'
    BY <1>1, <2>1 DEF MouseInv, PacketsWhole
  <2> QED BY <1>2, <1>3, <2>3, <2>4 DEF MouseInv
<1>5. CASE serving \in handlers \cap {MouseLine} /\ HandlerReads
           /\ mouse_interrupt_handler(Data) /\ felt' = output
  <2>1. ASSUME Orderly
        PROVE  Stream /\ MouseWaits
    <3>1. MouseWaits
      BY <1>5, <2>1 DEF MouseInv, Match, Serve, MouseWaits
    <3>2. attached /\ ~ failed
      BY <1>5, <3>1 DEF Placed
    <3> QED BY <1>3, <2>1, <3>1, <3>2 DEF MouseInv
  <2>2. inb
    BY <1>5 DEF HandlerReads
  <2>3. Orderly' => Stream'
    BY <1>1, <1>5, <2>1, <2>2, StreamRead
  <2>4. PacketsWhole'
    <3> SUFFICES ASSUME Orderly', NEW k \in DOMAIN felt'
                 PROVE
      /\ felt'[k].from = MouseLine /\ mouse_cycle' = felt'[k].pos % 3
      /\ felt'[k].pos = 3 =>
           LET p == felt'[k].packet
           IN  /\ mouse_event'.buttons = p.buttons /\ mouse_buttons' = p.buttons
               /\ p.x \in -128 .. 127 => mouse_event'.delta_x = p.x
               /\ p.y \in -127 .. 127 => mouse_event'.delta_y = - p.y
      BY DEF PacketsWhole
    <3>1. felt' = output /\ k = 1
      BY <1>5, Waits
    <3> QED BY <1>1, <1>5, <2>1, <2>2, <3>1, StreamRead
  <2> QED BY <1>2, <1>3, <2>3, <2>4 DEF MouseInv
<1>6. CASE UNCHANGED <<mouseVars, ps2Vars, felt>>
  <2>1. UNCHANGED <<output, mouse, attached>>
    BY <1>6 DEF ps2Vars
  <2> QED BY <1>0, <1>6, <2>1, MouseQuiet DEF Next
<1> QED BY <1>4, <1>5, <1>6 DEF Serve
LEMMA NextMouseInv ==
  ASSUME Types, Placed, BootInv, MouseInv, [Next]_vars
  PROVE  MouseInv'
<1>0. at \in 1 .. 19
  BY DEF Types
<1>1. CASE mouse_write
  <2>1. at' < 16 /\ UNCHANGED <<mouseVars, felt, attached, IF_flag>>
    BY <1>0, <1>1, ReachAt DEF mouse_write, Command
  <2> QED BY <2>1, MouseQuiet
<1>2. CASE mouse_read
  <2>1. at' < 16 /\ UNCHANGED <<mouseVars, felt, attached, IF_flag>>
    BY <1>0, <1>2, ReachAt DEF mouse_read, Poll, inb
  <2> QED BY <2>1, MouseQuiet
<1>3. CASE mouse_wait_ack
  <2>1. UNCHANGED <<mouseVars, felt, attached, IF_flag>>
    BY <1>3 DEF mouse_wait_ack, Poll, inb
  <2>2. CASE at' < 16 \/ failed'
    BY <2>1, <2>2, MouseQuiet
  <2>3. CASE ~ (at' < 16) /\ ~ failed'
    <3>1. at' >= 16
      <4>1. at' \in 1 .. 19
        BY NextTypes DEF Types
      <4> QED BY <2>3, <4>1
    <3>2. Orderly' /\ attached' => Stream'
      BY <1>3, <2>1, <2>3, <3>1, StreamBegins
    <3>3. Orderly' => Orderly /\ Match'
      BY OrderlyBefore, NextMatch DEF MouseInv
    <3>4. UNCHANGED <<mouse_cycle, mouse_buttons, mouse_event, felt, IF_flag>>
      BY <2>1 DEF mouseVars
    <3>5. PacketsWhole'
      BY <3>3, <3>4 DEF MouseInv, PacketsWhole
    <3>6. ~ IF_flag' => mouse_cycle' = 0
      BY <3>4 DEF MouseInv
    <3> QED BY <3>2, <3>3, <3>5, <3>6 DEF MouseInv
  <2> QED BY <2>2, <2>3
<1>4. ASSUME at' < 16 \/ at >= 16, UNCHANGED <<mouseVars, felt, ps2Vars, failed>>,
             UNCHANGED IF_flag \/ IF_flag'
      PROVE  MouseInv'
  <2>1. UNCHANGED <<output, mouse, attached>>
    BY <1>4 DEF ps2Vars
  <2>2. UNCHANGED <<mouseVars, felt>> /\ failed' = failed
    BY <1>4
  <2> QED BY <1>4, <2>1, <2>2, MouseQuiet
<1>5. CASE \/ Register("keyboard_register", KeyboardLine)
           \/ Register("mouse_register", MouseLine)
  BY <1>0, <1>4, <1>5, ReachAt DEF Register, history
<1>6. CASE \/ Unmask("keyboard_unmask", KeyboardLine)
           \/ Unmask("mouse_unmask", MouseLine)
  BY <1>0, <1>4, <1>6, ReachAt DEF Unmask, history
<1>7. CASE interrupt_enable
  BY <1>0, <1>4, <1>7, ReachAt DEF interrupt_enable, history
<1>8. CASE Interrupt \/ UNCHANGED vars
  <2>1. UNCHANGED <<mouseVars, felt, ps2Vars, at, failed, IF_flag>>
    BY <1>8 DEF Interrupt, vars, bootVars, history
  <2>2. UNCHANGED <<output, mouse, attached>>
    BY <2>1 DEF ps2Vars
  <2> QED BY <2>1, <2>2, MouseQuiet
<1>9. CASE Serve
  BY <1>9, ServeMouseInv
<1>10. CASE Controller
  <2>1. UNCHANGED <<mouseVars, felt, attached, at, failed, IF_flag>>
    BY <1>10 DEF Controller, Present, bootVars, history
  <2> QED BY <1>10, <2>1, MouseQuiet
<1>11. CASE Devices
  <2>1. UNCHANGED <<mouseVars, felt, attached, at, failed, IF_flag>>
    BY <1>11 DEF Devices, Press, Release, Repeat, Send, Move, bootVars, history
  <2> QED BY <1>11, <2>1, MouseQuiet
<1> QED BY <1>1, <1>2, <1>3, <1>5, <1>6, <1>7, <1>8, <1>9, <1>10, <1>11
        DEF Next, kmain

\* mouse_interrupt_handler stays in step with the mouse, whatever the packets
\* and however many keys are typed meanwhile: as long as no polled read of the
\* boot took a key's byte or left a request behind, every event is that of the
\* packet just read.
THEOREM MovementsReported == Spec => []PacketsWhole
<1>1. Init => MouseInv
  BY InitMouseInv
<1>2. Booting /\ MouseInv /\ [Next]_vars => MouseInv'
  BY NextMouseInv DEF Booting
<1>3. MouseInv => PacketsWhole
  BY DEF MouseInv
<1> QED BY <1>1, <1>2, <1>3, BootingHolds, PTL DEF Spec
-----------------------------------------------------------------------------
(* The keys *)

\* Both Shift keys at once, or a Caps Lock that repeats, are not forgotten.
LEMMA SharpBefore == ASSUME [Next]_vars, ~ blurred' PROVE ~ blurred
<1>1. CASE \/ \E key \in Keys : Press(key)
           \/ Repeat
  BY <1>1 DEF Press, Repeat
<1>2. CASE blurred' = blurred
  BY <1>2, Zenon
<1> QED
  BY <1>1, <1>2
  DEF Next, kmain, Register, Unmask, mouse_write, Command, mouse_read,
      mouse_wait_ack, Poll, inb, interrupt_enable, Interrupt, Serve,
      HandlerReads, Controller, Present, Devices, Release, Move, ps2Vars,
      keysVars, vars

\* While no key's byte moves.
LEMMA ChainSame ==
  ASSUME Chain, UNCHANGED <<keyboardVars, keysVars>>,
         \/ output' = output
         \/ ~ KeyWaits /\ ~ KeyWaits'
  PROVE  Chain'
<1>1. /\ UNCHANGED <<key_states, shift_pressed, caps_lock>>
      /\ UNCHANGED <<keyboard, down, caps>>
  BY DEF keyboardVars, keysVars
<1>2. KeyWaits' <=> KeyWaits
  BY DEF KeyWaits
<1>3. KeyWaits => output' = output
  BY <1>2
<1>4. \A i : HeldAt(i)' = HeldAt(i) /\ LockAt(i)' = LockAt(i)
  BY <1>1, <1>2, <1>3 DEF HeldAt, LockAt
<1>5. KeyWaits' => Follows(key_states', caps_lock', output'[1])
  BY <1>1, <1>2, <1>3 DEF Chain
<1>6. ASSUME NEW i \in 1 .. Len(keyboard')
      PROVE  Follows(HeldAt(i - 1), LockAt(i - 1), keyboard[i])'
  <2>1. Follows(HeldAt(i - 1), LockAt(i - 1), keyboard[i])
    BY <1>1 DEF Chain
  <2> HIDE DEF HeldAt, LockAt
  <2> QED BY <1>1, <1>4, <2>1 DEF Follows
<1>7. HeldAt(Len(keyboard))' = down' /\ LockAt(Len(keyboard))' = caps'
  BY <1>1, <1>2, <1>3 DEF Chain, HeldAt, LockAt
<1>8. ~ (Shifts \subseteq key_states') /\ (shift_pressed' <=> key_states' \cap Shifts # {})
  BY <1>1 DEF Chain
<1> QED BY <1>5, <1>6, <1>7, <1>8 DEF Chain
\* A key's byte is sent.
LEMMA ChainGrows ==
  ASSUME Types, Chain, UNCHANGED keyboardVars, NEW b, Send(b),
         Follows(down, caps, KeyByte(b, down', caps'))
  PROVE  Chain'
<1>1. PICK e : e = KeyByte(b, down', caps')
  OBVIOUS
<1>2. keyboard' = Append(keyboard, e) /\ output' = output
  BY <1>1 DEF Send
<1>3. UNCHANGED <<key_states, shift_pressed, caps_lock>>
  BY DEF keyboardVars
<1>4. PICK n \in Nat : n = Len(keyboard)
  BY DEF Types, PS2Types
<1>5. /\ Len(keyboard') = n + 1 /\ keyboard'[n + 1] = e
      /\ \A i \in 1 .. n : keyboard'[i] = keyboard[i]
  BY <1>2, <1>4 DEF Types, PS2Types
<1>6. KeyWaits' <=> KeyWaits
  BY <1>2 DEF KeyWaits
<1>7. \A i \in 0 .. n : HeldAt(i)' = HeldAt(i) /\ LockAt(i)' = LockAt(i)
  BY <1>2, <1>3, <1>5, <1>6 DEF HeldAt, LockAt
<1>8. e.held = down' /\ e.lock = caps'
  BY <1>1 DEF KeyByte
<1>10. HeldAt(n) = down /\ LockAt(n) = caps
  BY <1>4 DEF Chain
<1>11. ASSUME NEW i \in 1 .. n + 1
       PROVE  Follows(HeldAt(i - 1), LockAt(i - 1), keyboard[i])'
  <2>1. i - 1 \in 0 .. n
    OBVIOUS
  <2>2. CASE i \in 1 .. n
    <3>1. Follows(HeldAt(i - 1), LockAt(i - 1), keyboard[i])
      BY <1>4, <2>2 DEF Chain
    <3> HIDE DEF HeldAt, LockAt
    <3>2. HeldAt(i - 1)' = HeldAt(i - 1) /\ LockAt(i - 1)' = LockAt(i - 1)
      BY <1>7, <2>1
    <3>3. keyboard'[i] = keyboard[i]
      BY <1>5, <2>2
    <3> QED BY <3>1, <3>2, <3>3 DEF Follows
  <2>3. CASE i = n + 1
    <3>0. HeldAt(n)' = HeldAt(n) /\ LockAt(n)' = LockAt(n) /\ i - 1 = n
      BY <1>7, <2>3
    <3>1. HeldAt(i - 1)' = down /\ LockAt(i - 1)' = caps /\ keyboard'[i] = e
      BY <1>5, <1>10, <2>3, <3>0
    <3>2. Follows(down, caps, e)
      BY <1>1
    <3> HIDE DEF HeldAt, LockAt
    <3> QED BY <3>1, <3>2 DEF Follows
  <2> QED BY <2>2, <2>3
<1>12. HeldAt(Len(keyboard))' = down' /\ LockAt(Len(keyboard))' = caps'
  <2>1. Len(keyboard') > 0 /\ keyboard'[Len(keyboard')] = e
    BY <1>5
  <2> QED BY <1>8, <2>1 DEF HeldAt, LockAt
<1>13. KeyWaits' => Follows(key_states', caps_lock', output'[1])
  BY <1>2, <1>3, <1>6 DEF Chain
<1>14. ~ (Shifts \subseteq key_states') /\ (shift_pressed' <=> key_states' \cap Shifts # {})
  BY <1>3 DEF Chain
<1> QED BY <1>5, <1>11, <1>12, <1>13, <1>14 DEF Chain

\* Where both Shift keys are not held, they never were on the way.
LEMMA DownSharp == ASSUME Types, Chain PROVE ~ (Shifts \subseteq down)
<1>1. PICK n \in Nat : n = Len(keyboard)
  BY DEF Types, PS2Types
<1>2. HeldAt(n) = down
  BY <1>1 DEF Chain
<1>3. CASE n > 0
  <2>1. n \in 1 .. Len(keyboard) /\ HeldAt(n) = keyboard[n].held
    BY <1>1, <1>3 DEF HeldAt
  <2>2. Follows(HeldAt(n - 1), LockAt(n - 1), keyboard[n])
    BY <2>1 DEF Chain
  <2>3. ~ (Shifts \subseteq keyboard[n].held)
    BY <2>2 DEF Follows
  <2> QED BY <1>2, <2>1, <2>3
<1>4. CASE n = 0
  <2>1. down = IF KeyWaits THEN output[1].held ELSE key_states
    BY <1>2, <1>4 DEF HeldAt
  <2>2. KeyWaits => ~ (Shifts \subseteq output[1].held)
    BY DEF Chain, Follows
  <2>3. ~ (Shifts \subseteq key_states)
    BY DEF Chain
  <2> QED BY <2>1, <2>2, <2>3
<1> QED BY <1>3, <1>4

LEMMA ChainSends ==
  ASSUME Types, Chain, UNCHANGED keyboardVars, ~ blurred',
         \/ \E key \in Keys : Press(key) \/ Release(key)
         \/ Repeat
  PROVE  Chain'
<1>0. ~ (Shifts \subseteq down)
  BY DownSharp
<1>1. ASSUME NEW key \in Keys, Press(key)
      PROVE  Chain'
  <2>1. key \in 1 .. 127
    BY PS2Constants
  <2>2. key % 128 = key /\ ~ (key >= 128)
    BY <2>1
  <2>3. down' = down \cup {key} /\ ~ (Shifts \subseteq down')
    BY <1>1 DEF Press
  <2>4. caps' = IF key = CapsLock THEN ~ caps ELSE caps
    BY <1>1 DEF Press
  <2>5. Follows(down, caps, KeyByte(key, down', caps'))
    BY <2>2, <2>3, <2>4 DEF Follows, KeyByte
  <2> QED BY <1>1, <2>5, ChainGrows DEF Press
<1>2. ASSUME NEW key \in Keys, Release(key)
      PROVE  Chain'
  <2>1. key \in 1 .. 127
    BY PS2Constants
  <2>2. (key + 128) % 128 = key /\ key + 128 >= 128 /\ key + 128 # CapsLock
    BY <2>1 DEF CapsLock
  <2>3. key \in down /\ down' = down \ {key} /\ ~ (Shifts \subseteq down')
    BY <1>0, <1>2 DEF Release
  <2>4. caps' = caps
    BY <1>2 DEF Release
  <2>5. Follows(down, caps, KeyByte(key + 128, down', caps'))
    BY <2>2, <2>3, <2>4 DEF Follows, KeyByte
  <2> QED BY <1>2, <2>5, ChainGrows DEF Release
<1>3. CASE Repeat
  <2>1. newest \in down /\ newest \in 1 .. 127 /\ newest # CapsLock
    BY <1>3, PS2Constants DEF Repeat, Types, PS2Types
  <2>2. newest % 128 = newest /\ ~ (newest >= 128)
    BY <2>1
  <2>3. down' = down /\ caps' = caps
    BY <1>3 DEF Repeat
  <2>4. Follows(down, caps, KeyByte(newest, down', caps'))
    BY <1>0, <2>1, <2>2, <2>3 DEF Follows, KeyByte
  <2> QED BY <1>3, <2>4, ChainGrows DEF Repeat
<1> QED BY <1>1, <1>2, <1>3
\* A key's byte moves into the buffer.
LEMMA ChainPresents ==
  ASSUME Types, Chain, UNCHANGED keyboardVars, UNCHANGED <<down, caps>>,
         output = <<>>, keyboard # <<>>, output' = <<Head(keyboard)>>,
         keyboard' = Tail(keyboard)
  PROVE  Chain'
<1>1. UNCHANGED <<key_states, shift_pressed, caps_lock>>
  BY DEF keyboardVars
<1>2. PICK n \in Nat : Len(keyboard) = n + 1
  <2>1. keyboard \in Seq(KeyBytes)
    BY DEF Types, PS2Types
  <2>2. Len(keyboard) \in Nat \ {0}
    <3>1. Len(keyboard) \in Nat /\ (Len(keyboard) = 0 => keyboard = <<>>)
      BY <2>1
    <3> QED BY <3>1
  <2>3. Len(keyboard) - 1 \in Nat /\ Len(keyboard) = (Len(keyboard) - 1) + 1
    BY <2>2
  <2> QED BY <2>3
<1>3. /\ Len(keyboard') = n /\ output'[1] = keyboard[1] /\ output' # <<>>
      /\ \A i \in 1 .. n : keyboard'[i] = keyboard[i + 1]
  BY <1>2 DEF Types, PS2Types
<1>4. ~ KeyWaits
  BY DEF KeyWaits
<1>5. KeyWaits'
  <2>1. keyboard[1] \in KeyBytes
    BY <1>2 DEF Types, PS2Types
  <2> QED BY <1>3, <2>1 DEF KeyWaits, KeyBytes
<1>6. \A i \in 0 .. n : HeldAt(i)' = HeldAt(i + 1) /\ LockAt(i)' = LockAt(i + 1)
  BY <1>3, <1>5 DEF HeldAt, LockAt
<1>7. Follows(key_states, caps_lock, keyboard[1])
  <2>1. Follows(HeldAt(1 - 1), LockAt(1 - 1), keyboard[1])
    BY <1>2 DEF Chain
  <2>2. HeldAt(1 - 1) = key_states /\ LockAt(1 - 1) = caps_lock
    BY <1>4 DEF HeldAt, LockAt
  <2> HIDE DEF HeldAt, LockAt
  <2> QED BY <2>1, <2>2
<1>8. KeyWaits' => Follows(key_states', caps_lock', output'[1])
  BY <1>1, <1>3, <1>7
<1>9. ASSUME NEW i \in 1 .. n
      PROVE  Follows(HeldAt(i - 1), LockAt(i - 1), keyboard[i])'
  <2>1. i + 1 \in 1 .. Len(keyboard) /\ i - 1 \in 0 .. n /\ (i - 1) + 1 = i
        /\ (i + 1) - 1 = i
    BY <1>2
  <2>2. Follows(HeldAt((i + 1) - 1), LockAt((i + 1) - 1), keyboard[i + 1])
    BY <2>1 DEF Chain
  <2> HIDE DEF HeldAt, LockAt
  <2>3. HeldAt(i - 1)' = HeldAt(i) /\ LockAt(i - 1)' = LockAt(i)
    BY <1>6, <2>1
  <2>4. Follows(HeldAt(i), LockAt(i), keyboard[i + 1])
    BY <2>1, <2>2
  <2> QED BY <1>3, <2>3, <2>4 DEF Follows
<1>10. HeldAt(Len(keyboard))' = down' /\ LockAt(Len(keyboard))' = caps'
  <2>1. HeldAt(n + 1) = down /\ LockAt(n + 1) = caps
    BY <1>2 DEF Chain
  <2>2. HeldAt(n)' = down' /\ LockAt(n)' = caps'
    BY <1>6, <2>1
  <2> QED BY <1>3, <2>2 DEF HeldAt, LockAt
<1>11. ~ (Shifts \subseteq key_states') /\ (shift_pressed' <=> key_states' \cap Shifts # {})
  BY <1>1 DEF Chain
<1> QED BY <1>3, <1>8, <1>9, <1>10, <1>11 DEF Chain

\* The driver takes over the keys that the byte stands for.
LEMMA KeypressFollows ==
  ASSUME Types, NEW b \in KeyBytes, Follows(key_states, caps_lock, b),
         ~ (Shifts \subseteq key_states),
         shift_pressed <=> key_states \cap Shifts # {},
         keyboard_handle_keypress(b.byte)
  PROVE  /\ key_states' = b.held
         /\ caps_lock' = b.lock
         /\ shift_pressed' <=> b.held \cap Shifts # {}
<1>1. PICK c \in 1 .. 255 : c = b.byte
  BY ByteTypes DEF KeyBytes
<1>2. key_states' = IF c >= 128 THEN key_states \ {c % 128}
                    ELSE key_states \cup {c % 128}
  BY <1>1 DEF keyboard_handle_keypress
<1>3. key_states' = b.held
  BY <1>1, <1>2 DEF Follows
<1>4. caps_lock' = b.lock
  <2>1. c % 128 = CapsLock /\ ~ (c >= 128) <=> c = CapsLock
    BY DEF CapsLock
  <2>2. caps_lock' = IF c % 128 = CapsLock /\ ~ (c >= 128) THEN ~ caps_lock
                     ELSE caps_lock
    BY <1>1 DEF keyboard_handle_keypress
  <2>3. b.lock = IF c = CapsLock THEN ~ caps_lock ELSE caps_lock
    BY <1>1 DEF Follows
  <2> QED BY <2>1, <2>2, <2>3
<1>5. shift_pressed' <=> IF c % 128 \in Shifts THEN ~ (c >= 128) ELSE shift_pressed
  BY <1>1 DEF keyboard_handle_keypress
<1>6. c >= 128 => c % 128 \in key_states
  BY <1>1 DEF Follows
<1>7. shift_pressed' <=> key_states' \cap Shifts # {}
  <2>1. CASE c % 128 \notin Shifts
    BY <1>2, <1>5, <2>1
  <2>2. CASE c % 128 \in Shifts /\ ~ (c >= 128)
    BY <1>2, <1>5, <2>2
  <2>3. CASE c % 128 \in Shifts /\ c >= 128
    <3>1. PICK other \in Shifts : other \notin key_states
      OBVIOUS
    <3>2. \A x \in Shifts : x = other \/ x = c % 128
      BY <1>6, <2>3, <3>1 DEF Shifts
    <3>3. key_states' \cap Shifts = {}
      BY <1>2, <2>3, <3>1, <3>2
    <3> QED BY <1>5, <2>3, <3>3
  <2> QED BY <2>1, <2>2, <2>3
<1> QED BY <1>3, <1>4, <1>7
\* The keys have a place in the tables of characters.
InTable == Keys \subseteq 1 .. TableSize - 1

LEMMA KeypressHeard ==
  ASSUME InTable, KeyboardTypeOK', NEW b \in KeyBytes,
         caps_lock' = b.lock, shift_pressed' <=> b.held \cap Shifts # {},
         keyboard_handle_keypress(b.byte)
  PROVE  Told(b)'
<1>1. b.byte \in Codes /\ b.byte \in 1 .. 255
  BY ByteTypes DEF KeyBytes
<1>2. /\ kb_event'.scancode = b.byte % 128
      /\ kb_event'.shift = shift_pressed'
      /\ kb_event'.pressed = ~ (b.byte >= 128)
      /\ kb_event'.ascii = Table(b.byte % 128, b.byte >= 128, shift_pressed', caps_lock')
  BY DEF keyboard_handle_keypress
<1>3. shift_pressed' \in BOOLEAN
  BY DEF KeyboardTypeOK
<1>4. shift_pressed' = (b.held \cap Shifts # {})
  BY <1>3, Zenon
<1>5. ASSUME kb_event'.pressed
      PROVE  kb_event'.ascii =
                (IF b.held \cap Shifts # {}
                 THEN IF IsLetter(kb_event'.scancode) /\ b.lock
                      THEN "plain" ELSE "shifted"
                 ELSE IF IsLetter(kb_event'.scancode) /\ b.lock
                      THEN "shifted" ELSE "plain")
  <2>1. ~ (b.byte >= 128)
    BY <1>2, <1>5
  <2>2. b.byte \in Keys
    <3>1. \A k \in Keys : k + 128 >= 128
      BY PS2Constants
    <3> QED BY <1>1, <2>1, <3>1 DEF Codes
  <2>3. ~ (b.byte % 128 >= TableSize)
    BY <1>1, <2>1, <2>2 DEF InTable, TableSize
  <2>4. kb_event'.ascii =
          IF shift_pressed' # (IsLetter(kb_event'.scancode) /\ b.lock)
          THEN "shifted" ELSE "plain"
    BY <1>2, <2>1, <2>3 DEF Table
  <2> QED BY <1>3, <2>4
<1> QED BY <1>2, <1>4, <1>5 DEF Told

LEMMA ServeKeyInv ==
  ASSUME InTable, Types, MouseInv, KeyInv, Serve
  PROVE  KeyInv'
<1> SUFFICES ASSUME Orderly', ~ blurred'
             PROVE  Chain' /\ Heard'
  BY DEF KeyInv
<1>0. Chain /\ Heard /\ Match
  BY OrderlyBefore, SharpBefore DEF KeyInv, MouseInv, Next
<1>1. output # <<>> /\ output[1].from = serving
  BY <1>0 DEF Match, Serve
<1>2. CASE /\ serving = KeyboardLine /\ HandlerReads
           /\ keyboard_handle_keypress(Data) /\ heard' = output
  <2>1. KeyWaits /\ output[1] \in KeyBytes /\ Data = output[1].byte
    BY <1>1, <1>2, Waits DEF Data, KeyWaits, MouseWaits, KeyboardLine, MouseLine
  <2>2. PICK b \in KeyBytes : b = output[1]
    BY <2>1
  <2>3. /\ Follows(key_states, caps_lock, b) /\ ~ (Shifts \subseteq key_states)
        /\ shift_pressed <=> key_states \cap Shifts # {}
    BY <1>0, <2>1, <2>2 DEF Chain
  <2>4. /\ key_states' = b.held /\ caps_lock' = b.lock
        /\ shift_pressed' <=> b.held \cap Shifts # {}
    BY <1>2, <2>1, <2>2, <2>3, KeypressFollows
  <2>5. output' = <<>> /\ UNCHANGED <<keyboard, down, caps>>
    BY <1>2 DEF HandlerReads, inb, keysVars
  <2>6. ~ KeyWaits'
    BY <2>5 DEF KeyWaits
  <2>7. PICK n \in Nat : n = Len(keyboard)
    BY DEF Types, PS2Types
  <2>8. \A i \in 0 .. n : HeldAt(i)' = HeldAt(i) /\ LockAt(i)' = LockAt(i)
    BY <2>1, <2>2, <2>4, <2>5, <2>6 DEF HeldAt, LockAt
  <2>9. ASSUME NEW i \in 1 .. n
        PROVE  Follows(HeldAt(i - 1), LockAt(i - 1), keyboard[i])'
    <3>1. Follows(HeldAt(i - 1), LockAt(i - 1), keyboard[i])
      BY <1>0, <2>7 DEF Chain
    <3>2. i - 1 \in 0 .. n
      OBVIOUS
    <3> HIDE DEF HeldAt, LockAt
    <3>3. HeldAt(i - 1)' = HeldAt(i - 1) /\ LockAt(i - 1)' = LockAt(i - 1)
      BY <2>8, <3>2
    <3> QED BY <2>5, <3>1, <3>3 DEF Follows
  <2>10. HeldAt(Len(keyboard))' = down' /\ LockAt(Len(keyboard))' = caps'
    <3>1. HeldAt(n) = down /\ LockAt(n) = caps
      BY <1>0, <2>7 DEF Chain
    <3>2. HeldAt(n)' = down' /\ LockAt(n)' = caps'
      BY <2>5, <2>8, <3>1
    <3>3. Len(keyboard)' = n
      BY <2>5, <2>7
    <3> QED BY <3>2, <3>3 DEF HeldAt, LockAt
  <2>11. ~ (Shifts \subseteq key_states')
    BY <2>3, <2>4 DEF Follows
  <2>12. Len(keyboard') = n
    BY <2>5, <2>7
  <2>13. shift_pressed' <=> key_states' \cap Shifts # {}
    BY <2>4
  <2>14. Chain'
    BY <2>6, <2>9, <2>10, <2>11, <2>12, <2>13 DEF Chain
  <2>15. KeyboardTypeOK'
    BY ServeTypes
  <2>16. \A k \in DOMAIN heard' : heard'[k] = b /\ b.from = KeyboardLine
    BY <1>2, <2>2, Waits DEF KeyBytes
  <2>17. Heard'
    <3>1. keyboard_handle_keypress(b.byte)
      BY <1>2, <2>1, <2>2
    <3>2. Told(b)'
      BY <2>4, <2>15, <3>1, KeypressHeard
    <3> QED BY <2>16, <3>2 DEF Heard, Told
  <2> QED BY <2>14, <2>17
<1>3. CASE /\ serving = MouseLine /\ HandlerReads /\ UNCHANGED <<keyboardVars, heard>>
  <2>1. ~ KeyWaits
    BY <1>1, <1>3 DEF KeyWaits, KeyboardLine, MouseLine
  <2>2. ~ KeyWaits' /\ UNCHANGED keysVars
    BY <1>3 DEF HandlerReads, inb, KeyWaits
  <2>3. Chain'
    BY <1>0, <1>3, <2>1, <2>2, ChainSame
  <2>4. Heard'
    BY <1>0, <1>3 DEF Heard, Told, keyboardVars
  <2> QED BY <2>3, <2>4
<1>4. CASE UNCHANGED <<keyboardVars, ps2Vars, heard>>
  <2>1. UNCHANGED <<output, keysVars>>
    BY <1>4 DEF ps2Vars
  <2>2. Chain'
    BY <1>0, <1>4, <2>1, ChainSame
  <2>3. Heard'
    BY <1>0, <1>4 DEF Heard, Told, keyboardVars
  <2> QED BY <2>2, <2>3
<1> QED BY <1>2, <1>3, <1>4 DEF Serve
LEMMA InitKeyInv == ASSUME Init PROVE KeyInv
<1>1. /\ key_states = {} /\ caps_lock = FALSE /\ shift_pressed = FALSE
      /\ keyboard = <<>> /\ heard = <<>>
  BY DEF Init, KeyboardInit, PS2Init
<1>2. newest \in {0} \cup Keys /\ down = {newest} \ {0}
  BY DEF Init, PS2Init
<1>3. caps <=> CapsLock \in down
  BY DEF Init, PS2Init
<1>4. caps \in BOOLEAN
  BY DEF Init, PS2Init
<1>5. output = IF newest = 0 THEN <<>> ELSE <<KeyByte(newest, down, caps)>>
  BY DEF Init, PS2Init
<1>6. Heard
  BY <1>1 DEF Heard
<1>7. ~ (Shifts \subseteq down)
  BY <1>2 DEF Shifts, LeftShift, RightShift
<1>8. ~ (Shifts \subseteq key_states) /\ (shift_pressed <=> key_states \cap Shifts # {})
  <2>1. ~ (Shifts \subseteq key_states) /\ key_states \cap Shifts = {}
    BY <1>1 DEF Shifts
  <2>2. ~ shift_pressed
    BY <1>1
  <2> QED BY <2>1, <2>2
<1>9. CASE newest = 0
  <2>1. ~ KeyWaits /\ down = {} /\ ~ caps
    BY <1>2, <1>3, <1>5, <1>9 DEF KeyWaits
  <2>2. caps = caps_lock
    BY <1>1, <1>4, <2>1, Zenon
  <2>3. HeldAt(Len(keyboard)) = down /\ LockAt(Len(keyboard)) = caps
    BY <1>1, <2>1, <2>2 DEF HeldAt, LockAt
  <2> QED BY <1>1, <1>6, <1>8, <2>1, <2>3 DEF KeyInv, Chain
<1>10. CASE newest # 0
  <2>1. newest \in 1 .. 127 /\ down = {newest}
    BY <1>2, <1>10, PS2Constants
  <2>2. newest % 128 = newest /\ ~ (newest >= 128)
    BY <2>1
  <2>3. output = <<KeyByte(newest, down, caps)>>
    BY <1>5, <1>10
  <2>4. /\ output[1].from = KeyboardLine /\ output[1].byte = newest
        /\ output[1].held = down /\ output[1].lock = caps /\ output # <<>>
    BY <2>3 DEF KeyByte
  <2>5. KeyWaits
    BY <2>4 DEF KeyWaits
  <2>6. caps = IF newest = CapsLock THEN ~ caps_lock ELSE caps_lock
    <3>1. CASE newest = CapsLock
      BY <1>1, <1>3, <1>4, <2>1, <3>1
    <3>2. CASE newest # CapsLock
      BY <1>1, <1>3, <1>4, <2>1, <3>2
    <3> QED BY <3>1, <3>2
  <2>7. Follows(key_states, caps_lock, output[1])
    BY <1>1, <1>7, <2>1, <2>2, <2>4, <2>6 DEF Follows
  <2>8. HeldAt(Len(keyboard)) = down /\ LockAt(Len(keyboard)) = caps
    BY <1>1, <2>4, <2>5 DEF HeldAt, LockAt
  <2> QED BY <1>1, <1>6, <1>8, <2>7, <2>8 DEF KeyInv, Chain
<1> QED BY <1>9, <1>10

LEMMA NextKeyInv ==
  ASSUME InTable, Types, MouseInv, KeyInv, [Next]_vars
  PROVE  KeyInv'
<1>1. CASE Serve
  BY <1>1, ServeKeyInv
<1>2. CASE ~ Serve
  <2> SUFFICES ASSUME Orderly', ~ blurred'
               PROVE  Chain' /\ Heard'
    BY DEF KeyInv
  <2>0. Chain /\ Heard
    BY OrderlyBefore, SharpBefore DEF KeyInv
  <2>1. UNCHANGED <<keyboardVars, heard>>
    BY <1>2 DEF Next, kmain, Register, Unmask, mouse_write, mouse_read,
         mouse_wait_ack, Poll, interrupt_enable, Interrupt, Controller,
         Devices, history, vars
  <2>2. Heard'
    BY <2>0, <2>1 DEF Heard, Told, keyboardVars
  <2>3. CASE Poll
    <3>1. ~ KeyWaits
      BY <2>3, PollTakes, Waits DEF Orderly
    <3>2. ~ KeyWaits' /\ UNCHANGED keysVars
      BY <2>3 DEF Poll, inb, KeyWaits
    <3> QED BY <2>0, <2>1, <2>2, <3>1, <3>2, ChainSame
  <2>4. CASE UNCHANGED <<output, keysVars>>
    BY <2>0, <2>1, <2>2, <2>4, ChainSame
  <2>5. CASE Controller
    <3>1. output = <<>> /\ UNCHANGED <<down, newest, caps, blurred>>
      BY <2>5 DEF Controller, Present
    <3>2. CASE keyboard # <<>> /\ output' = <<Head(keyboard)>>
               /\ keyboard' = Tail(keyboard)
      BY <2>0, <2>1, <2>2, <3>1, <3>2, ChainPresents
    <3>3. CASE mouse # <<>> /\ output' = <<Head(mouse)>> /\ keyboard' = keyboard
      <4>1. Head(mouse) \in MouseBytes
        BY <3>3 DEF Types, PS2Types
      <4>2. ~ KeyWaits /\ ~ KeyWaits'
        BY <3>1, <3>3, <4>1 DEF KeyWaits, MouseBytes, KeyboardLine, MouseLine
      <4>3. UNCHANGED keysVars
        BY <3>1, <3>3 DEF keysVars
      <4> QED BY <2>0, <2>1, <2>2, <4>2, <4>3, ChainSame
    <3> QED BY <2>5, <3>2, <3>3 DEF Controller, Present
  <2>6. CASE Devices
    <3>1. CASE \/ \E key \in Keys : Press(key) \/ Release(key)
               \/ Repeat
      BY <2>0, <2>1, <2>2, <3>1, ChainSends
    <3>2. CASE \E p \in Packets : Move(p)
      BY <2>4, <3>2 DEF Move
    <3> QED BY <2>6, <3>1, <3>2 DEF Devices
  <2> QED
    BY <1>2, <2>3, <2>4, <2>5, <2>6
    DEF Next, kmain, Register, Unmask, mouse_write, Command, mouse_read,
        mouse_wait_ack, interrupt_enable, Interrupt, ps2Vars, vars
<1> QED BY <1>1, <1>2

\* The keyboard handler follows the keys, whatever the mouse does meanwhile and
\* however many keys are typed, on every keyboard whose keys have a place in
\* the tables of keyboard.c.
THEOREM KeysHeard ==
  ASSUME InTable
  PROVE  Spec => []KeysFollow
<1>1. Init => MouseInv /\ KeyInv
  BY InitMouseInv, InitKeyInv
<1>2. Booting /\ MouseInv /\ KeyInv /\ [Next]_vars => MouseInv' /\ KeyInv'
  BY NextMouseInv, NextKeyInv DEF Booting
<1>3. Booting /\ KeyInv => KeysFollow
  <2> SUFFICES ASSUME Types, KeyInv, Orderly, ~ blurred
               PROVE  /\ Heard
                      /\ keyboard = <<>> /\ Waiting(KeyboardLine) = {} =>
                           /\ key_states = down /\ caps_lock = caps
                           /\ shift_pressed = (down \cap Shifts # {})
    BY DEF Booting, KeysFollow, Heard, Told
  <2>1. Chain /\ Heard
    BY DEF KeyInv
  <2>2. ASSUME keyboard = <<>>, Waiting(KeyboardLine) = {}
        PROVE  /\ key_states = down /\ caps_lock = caps
               /\ shift_pressed = (down \cap Shifts # {})
    <3>1. ~ KeyWaits
      BY <2>2, Waits DEF Waiting, KeyWaits
    <3>2. key_states = down /\ caps_lock = caps
      <4>1. Len(keyboard) = 0
        BY <2>2
      <4>2. HeldAt(0) = down /\ LockAt(0) = caps
        BY <2>1, <4>1 DEF Chain
      <4> QED BY <3>1, <4>2 DEF HeldAt, LockAt
    <3>3. shift_pressed <=> down \cap Shifts # {}
      BY <2>1, <3>2 DEF Chain
    <3>4. shift_pressed \in BOOLEAN
      BY DEF Types, KeyboardTypeOK
    <3>5. shift_pressed = (down \cap Shifts # {})
      BY <3>3, <3>4, Zenon
    <3> QED BY <3>2, <3>5
  <2> QED BY <2>1, <2>2
<1> QED BY <1>1, <1>2, <1>3, BootingHolds, PTL DEF Spec
=============================================================================
