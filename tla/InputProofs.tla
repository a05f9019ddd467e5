---------------------------- MODULE InputProofs ----------------------------
(***************************************************************************)
(* The shared output buffer for every set of keys and packets and any      *)
(* number of key strokes and movements: the types, and what mouse_init     *)
(* reads in which order.                                                   *)
(***************************************************************************)
EXTENDS Input, TLAPS

-----------------------------------------------------------------------------
(* Types *)

\* The bytes of keys that go down and up.
Codes == Keys \cup {k + 128 : k \in Keys}

KeyBytes ==
  [from : {KeyboardLine}, byte : Codes, held : SUBSET Keys, lock : BOOLEAN]

MouseBytes ==
  [from : {MouseLine}, byte : 0 .. 255, packet : Packets \cup {"none"},
   pos : 0 .. 3]

PS2Types ==
  /\ output \in Seq(KeyBytes \cup MouseBytes) /\ Len(output) <= 1
  /\ last \in 0 .. 255
  /\ keyboard \in Seq(KeyBytes) /\ mouse \in Seq(MouseBytes)
  /\ down \subseteq Keys /\ newest \in {0} \cup Keys /\ caps \in BOOLEAN

Types ==
  /\ PICTypeOK /\ KeyboardTypeOK /\ MouseTypeOK /\ PS2Types
  /\ at \in 1 .. 19 /\ handlers \subseteq {KeyboardLine, MouseLine}

KeyWaits   == output # <<>> /\ output[1].from = KeyboardLine
MouseWaits == output # <<>> /\ output[1].from = MouseLine

-----------------------------------------------------------------------------
(* The boot *)

\* How far the boot is tells what has been set up.
Placed ==
  /\ failed => at \in {18, 19}
  /\ IF_flag <=> at = 19
  /\ at >= 2 => KeyboardLine \in handlers
  /\ MouseLine \in handlers <=> (at >= 17 /\ ~ failed)
  /\ at >= 18 /\ ~ failed => MouseLine \notin masked
  /\ serving # NoLine => IF_flag
  /\ ~ attached => ~ streaming /\ mouse = <<>> /\ ~ MouseWaits
  /\ at \in 4 .. 14 => ~ streaming
  /\ at >= 15 /\ attached /\ ~ failed => streaming

\* Without a mouse nothing but a key's byte can be taken for its answer.
NeedsMouse == at >= 6 /\ ~ failed => attached

\* What the mouse has said and mouse_init has not read.
Left(s) ==
  \/ ~ MouseWaits /\ mouse = s
  \/ s # <<>> /\ output = <<Head(s)>> /\ mouse = Tail(s)

PacketByte(p, k) ==
  MouseByte(IF k = 1 THEN Status(p) ELSE IF k = 2 THEN p.x % 256 ELSE p.y % 256,
            p, k)

\* The bytes of a packet from the k-th on.
Rest(p, k) ==
  IF k = 1 THEN <<PacketByte(p, 1), PacketByte(p, 2), PacketByte(p, 3)>>
  ELSE IF k = 2 THEN <<PacketByte(p, 2), PacketByte(p, 3)>>
  ELSE <<PacketByte(p, 3)>>

\* What the mouse answers: to the reset, its acknowledgement, the result of
\* its test and its identity; to any other command, an acknowledgement.
Reset  == <<Answer(ACK), Answer(170), Answer(0)>>
Tested == <<Answer(170), Answer(0)>>
Named  == <<Answer(0)>>
Acked  == <<Answer(ACK)>>

\* Where the mouse was reset with a byte waiting, mouse_init is one byte
\* behind and finds the identity where it expects an acknowledgement.
OneBehind  == untidy /\ output # <<>> /\ mouse = Reset
NameUnread == untidy /\ output = Named /\ mouse = Acked

\* The mouse reports, its last answer unread.
Begun == output = Acked /\ \E p \in Packets : mouse = Rest(p, 1)

OnlyPackets ==
  /\ \A k \in DOMAIN mouse : mouse[k].pos # 0
  /\ MouseWaits => output[1].pos # 0

\* The answers that are still to come, statement by statement.
Dialogue ==
  /\ at = 5 => Left(Reset) \/ OneBehind
  /\ at = 6 => Left(Tested) \/ (untidy /\ Left(Reset))
  /\ at = 7 => Left(Named) \/ (untidy /\ Left(Tested))
  /\ at = 8 => Left(<<>>) \/ (untidy /\ Left(Named))
  /\ at = 9 => Left(Acked) \/ NameUnread
  /\ at \in {10, 12, 14} => Left(<<>>)
  /\ at \in {11, 13} => Left(Acked)
  /\ at = 15 => Left(Acked) \/ Begun
  /\ at >= 16 => OnlyPackets

BootInv ==
  /\ failed => untidy \/ stolen
  /\ attached /\ ~ failed /\ ~ stolen => Dialogue

-----------------------------------------------------------------------------
(* The statements of the boot *)

\* One by one.
LEMMA StatementsAre ==
  /\ Len(Statements) = 19 /\ Enable = 18
  /\ Statements[1] = Do("keyboard_register") /\ Statements[2] = Do("keyboard_unmask")
  /\ Statements[3] = Write(MOUSE_CMD_DISABLE) /\ Statements[4] = Write(MOUSE_CMD_RESET)
  /\ Statements[5] = WaitAck /\ Statements[6] = Discard /\ Statements[7] = Discard
  /\ Statements[8] = Write(MOUSE_CMD_DEFAULTS) /\ Statements[9] = WaitAck
  /\ Statements[10] = Write(MOUSE_CMD_SAMPLE_RATE) /\ Statements[11] = WaitAck
  /\ Statements[12] = Write(100) /\ Statements[13] = WaitAck
  /\ Statements[14] = Write(MOUSE_CMD_ENABLE) /\ Statements[15] = WaitAck
  /\ Statements[16] = Do("mouse_register") /\ Statements[17] = Do("mouse_unmask")
  /\ Statements[18] = Do("interrupt_enable") /\ Statements[19] = Do("loop")
BY DEF Statements, mouse_init, Enable
\* Where the boot is when it reaches a statement.
LEMMA ReachAt ==
  ASSUME at \in 1 .. 19
  PROVE  /\ Reach("keyboard_register") => at = 1
         /\ Reach("keyboard_unmask") => at = 2
         /\ Reach("mouse_write") => at \in {3, 4, 8, 10, 12, 14}
         /\ Reach("mouse_read") => at \in {6, 7}
         /\ Reach("mouse_wait_ack") => at \in {5, 9, 11, 13, 15}
         /\ Reach("mouse_register") => at = 16
         /\ Reach("mouse_unmask") => at = 17
         /\ Reach("interrupt_enable") => at = 18
BY StatementsAre DEF Reach, Do, Write, WaitAck, Discard

\* What mouse_init writes.
LEMMA Commands ==
  /\ Statements[3].value = MOUSE_CMD_DISABLE
  /\ Statements[4].value = MOUSE_CMD_RESET
  /\ Statements[8].value = MOUSE_CMD_DEFAULTS
  /\ Statements[10].value = MOUSE_CMD_SAMPLE_RATE
  /\ Statements[12].value = 100 /\ Statements[14].value = MOUSE_CMD_ENABLE
BY StatementsAre DEF Write

-----------------------------------------------------------------------------
(* Types *)

\* Bytes are bytes.
LEMMA ByteTypes ==
  /\ \A b \in 0 .. 255 : Answer(b) \in MouseBytes
  /\ \A p \in Packets, k \in 1 .. 3 : PacketByte(p, k) \in MouseBytes
  /\ \A b \in Codes : b \in 1 .. 255
<1>1. \A b \in 0 .. 255 : Answer(b) \in MouseBytes
  BY DEF Answer, MouseByte, MouseBytes
<1>2. ASSUME NEW p \in Packets, NEW k \in 1 .. 3
      PROVE  PacketByte(p, k) \in MouseBytes
  <2>1. p.buttons \in 0 .. 7 /\ p.x \in Int /\ p.y \in Int
    BY PS2Constants
  <2>2. Status(p) \in 0 .. 255
    <3>1. \A b \in 0 .. 7, x \in {0, 16}, y \in {0, 32} : b + 8 + x + y \in 0 .. 255
      OBVIOUS
    <3> QED BY <2>1, <3>1 DEF Status
  <2>3. p.x % 256 \in 0 .. 255 /\ p.y % 256 \in 0 .. 255
    <3>1. \A n \in Int : n % 256 \in 0 .. 255
      OBVIOUS
    <3> QED BY <2>1, <3>1
  <2>4. \A b \in 0 .. 255 : MouseByte(b, p, k) \in MouseBytes
    BY DEF MouseByte, MouseBytes
  <2> QED BY <2>2, <2>3, <2>4 DEF PacketByte
<1>3. \A b \in Codes : b \in 1 .. 255
  BY PS2Constants DEF Codes
<1> QED BY <1>1, <1>2, <1>3

\* What port 0x60 reads.
LEMMA DataType == ASSUME Types PROVE Data \in 0 .. 255
<1>1. CASE output = <<>>
  BY <1>1 DEF Types, PS2Types, Data
<1>2. CASE output # <<>>
  <2>1. output[1] \in KeyBytes \cup MouseBytes
    BY <1>2 DEF Types, PS2Types
  <2>2. output[1].byte \in Codes \cup 0 .. 255
    BY <2>1 DEF KeyBytes, MouseBytes
  <2>3. \A b \in Codes : b \in 0 .. 255
    BY ByteTypes
  <2>4. output[1].byte \in 0 .. 255
    BY <2>2, <2>3
  <2> QED BY <1>2, <2>4 DEF Data
<1> QED BY <1>1, <1>2

\* The waiting byte, if any, is one of a key or of the mouse.
LEMMA Waits ==
  ASSUME Types
  PROVE  /\ output = <<>> \/ output = <<output[1]>>
         /\ output # <<>> => (KeyWaits /\ output[1] \in KeyBytes)
                              \/ (MouseWaits /\ output[1] \in MouseBytes)
         /\ ~ (KeyWaits /\ MouseWaits)
         /\ DOMAIN output = IF output = <<>> THEN {} ELSE {1}
<1>1. output = <<>> \/ output = <<output[1]>>
  <2>1. output \in Seq(KeyBytes \cup MouseBytes) /\ Len(output) \in {0, 1}
    <3>1. output \in Seq(KeyBytes \cup MouseBytes) /\ Len(output) <= 1
      BY DEF Types, PS2Types
    <3>2. Len(output) \in Nat
      BY <3>1
    <3>3. \A n \in Nat : n <= 1 => n = 0 \/ n = 1
      OBVIOUS
    <3> QED BY <3>1, <3>2, <3>3
  <2>2. CASE Len(output) = 0
    BY <2>1, <2>2
  <2>3. CASE Len(output) = 1
    <3>1. output = [i \in 1 .. 1 |-> output[i]]
      BY <2>1, <2>3
    <3>2. <<output[1]>> = [i \in 1 .. 1 |-> output[i]]
      OBVIOUS
    <3> QED BY <3>1, <3>2
  <2> QED BY <2>1, <2>2, <2>3
<1>2. ASSUME output # <<>>
      PROVE  \/ (KeyWaits /\ output[1] \in KeyBytes)
             \/ (MouseWaits /\ output[1] \in MouseBytes)
  <2>1. output[1] \in KeyBytes \cup MouseBytes
    BY <1>2 DEF Types, PS2Types
  <2> QED BY <1>2, <2>1 DEF KeyWaits, MouseWaits, KeyBytes, MouseBytes
<1>3. DOMAIN output = IF output = <<>> THEN {} ELSE {1}
  BY <1>1
<1> QED BY <1>1, <1>2, <1>3 DEF KeyWaits, MouseWaits, KeyboardLine, MouseLine
\* What the devices send is a byte of theirs.
LEMMA SendTypes ==
  ASSUME PS2Types,
         \/ \E key \in Keys : Press(key) \/ Release(key)
         \/ Repeat
  PROVE  PS2Types'
<1>1. down' \subseteq Keys /\ newest' \in {0} \cup Keys /\ caps' \in BOOLEAN
  BY DEF PS2Types, Press, Release, Repeat
<1>2. PICK b \in Codes : Send(b)
  <2>1. CASE \E key \in Keys : Press(key)
    BY <2>1 DEF Press, Codes
  <2>2. CASE \E key \in Keys : Release(key)
    BY <2>2 DEF Release, Codes
  <2>3. CASE Repeat
    BY <2>3 DEF Repeat, Codes, PS2Types
  <2> QED BY <2>1, <2>2, <2>3
<1>3. KeyByte(b, down', caps') \in KeyBytes
  BY <1>1 DEF KeyByte, KeyBytes
<1>4. keyboard' = Append(keyboard, KeyByte(b, down', caps'))
      /\ UNCHANGED <<output, last, mouse>>
  BY <1>2 DEF Send
<1>5. keyboard' \in Seq(KeyBytes)
  BY <1>3, <1>4 DEF PS2Types
<1> QED BY <1>1, <1>4, <1>5 DEF PS2Types

LEMMA MoveTypes ==
  ASSUME PS2Types, NEW p \in Packets, Move(p)
  PROVE  PS2Types' /\ mouse' = Rest(p, 1)
<1>1. mouse' = Rest(p, 1)
  BY DEF Move, Rest, PacketByte
<1>2. PacketByte(p, 1) \in MouseBytes /\ PacketByte(p, 2) \in MouseBytes
      /\ PacketByte(p, 3) \in MouseBytes
  BY ByteTypes
<1>3. mouse' \in Seq(MouseBytes)
  BY <1>1, <1>2 DEF Rest
<1> QED BY <1>1, <1>3 DEF PS2Types, Move, keysVars

LEMMA CommandTypes ==
  ASSUME PS2Types, NEW c, Command(c)
  PROVE  PS2Types'
<1>1. Answer(ACK) \in MouseBytes /\ Answer(170) \in MouseBytes
      /\ Answer(0) \in MouseBytes
  BY ByteTypes DEF ACK
<1>2. mouse' \in Seq(MouseBytes)
  BY <1>1 DEF Command, Answers
<1> QED BY <1>2 DEF PS2Types, Command, keysVars

LEMMA InbTypes ==
  ASSUME Types, inb
  PROVE  PS2Types' /\ output' = <<>>
BY DataType DEF Types, PS2Types, inb, keysVars

LEMMA PresentTypes ==
  ASSUME Types, NEW line \in Lines, Present(line)
  PROVE  PS2Types' /\ PICTypeOK'
<1>1. PICTypeOK'
  BY DEF Present, Request, Types, PICTypeOK
<1>2. CASE keyboard # <<>> /\ output' = <<Head(keyboard)>>
           /\ keyboard' = Tail(keyboard) /\ UNCHANGED mouse
  <2>1. Head(keyboard) \in KeyBytes /\ keyboard' \in Seq(KeyBytes)
    BY <1>2 DEF Types, PS2Types
  <2>2. output' \in Seq(KeyBytes \cup MouseBytes) /\ Len(output') <= 1
    BY <1>2, <2>1
  <2> QED BY <1>1, <1>2, <2>1, <2>2 DEF Types, PS2Types, Present
<1>3. CASE mouse # <<>> /\ output' = <<Head(mouse)>>
           /\ mouse' = Tail(mouse) /\ UNCHANGED keyboard
  <2>1. Head(mouse) \in MouseBytes /\ mouse' \in Seq(MouseBytes)
    BY <1>3 DEF Types, PS2Types
  <2>2. output' \in Seq(KeyBytes \cup MouseBytes) /\ Len(output') <= 1
    BY <1>3, <2>1
  <2> QED BY <1>1, <1>3, <2>1, <2>2 DEF Types, PS2Types, Present
<1> QED BY <1>2, <1>3 DEF Present

\* The driver's view of the keys, for any byte.
LEMMA KeypressTypes ==
  ASSUME KeyboardTypeOK, NEW d \in 0 .. 255, keyboard_handle_keypress(d)
  PROVE  KeyboardTypeOK'
<1>1. d % 128 \in 0 .. 127
  OBVIOUS
<1>2. key_states' \subseteq 0 .. 127
  BY <1>1 DEF KeyboardTypeOK, keyboard_handle_keypress
<1>3. shift_pressed' \in BOOLEAN
  BY DEF KeyboardTypeOK, keyboard_handle_keypress
<1>4. ctrl_pressed' \in BOOLEAN
  BY DEF KeyboardTypeOK, keyboard_handle_keypress
<1>5. alt_pressed' \in BOOLEAN
  BY DEF KeyboardTypeOK, keyboard_handle_keypress
<1>6. caps_lock' \in BOOLEAN
  BY DEF KeyboardTypeOK, keyboard_handle_keypress
<1>7. kb_event'.scancode = d % 128
  BY DEF keyboard_handle_keypress
<1>8. kb_event'.ascii \in {"none", "plain", "shifted"}
  BY DEF keyboard_handle_keypress, Table
<1> QED BY <1>1, <1>2, <1>3, <1>4, <1>5, <1>6, <1>7, <1>8 DEF KeyboardTypeOK

\* The driver's view of the mouse, for any byte.
LEMMA HandlerTypes ==
  ASSUME MouseTypeOK, NEW d \in 0 .. 255, mouse_interrupt_handler(d)
  PROVE  MouseTypeOK'
<1> DEFINE packet == [mouse_packet EXCEPT ![mouse_cycle + 1] = d]
<1>1. packet \in [1 .. 3 -> 0 .. 255]
  <2>1. mouse_packet \in [1 .. 3 -> 0 .. 255] /\ mouse_cycle + 1 \in 1 .. 3
    BY DEF MouseTypeOK
  <2> QED BY <2>1
<1>2. mouse_packet' = packet
  BY DEF mouse_interrupt_handler
<1>3. packet[1] % 8 \in 0 .. 7
  <2> HIDE DEF packet
  <2>1. packet[1] \in 0 .. 255
    BY <1>1
  <2> QED BY <2>1
<1>4. \A n \in Int : Int8(n) \in -128 .. 127
  BY DEF Int8
<1>5. Int8(packet[2]) \in -128 .. 127 /\ Int8(- Int8(packet[3])) \in -128 .. 127
  <2> HIDE DEF packet
  <2>1. packet[2] \in 0 .. 255 /\ packet[3] \in 0 .. 255
    BY <1>1
  <2>2. Int8(packet[2]) \in -128 .. 127 /\ Int8(packet[3]) \in -128 .. 127
    BY <2>1 DEF Int8
  <2>3. - Int8(packet[3]) \in Int
    BY <2>2
  <2> QED BY <1>4, <2>2, <2>3
<1> HIDE DEF packet
<1>6. Event(packet) \in [buttons : 0 .. 7, delta_x : -128 .. 127,
                         delta_y : -128 .. 127]
      /\ Event(packet).buttons \in 0 .. 7
  BY <1>3, <1>5 DEF Event
<1>7. \/ /\ mouse_cycle < 2 /\ mouse_cycle' = mouse_cycle + 1
         /\ UNCHANGED <<mouse_event, mouse_buttons>>
      \/ /\ mouse_cycle = 2 /\ mouse_cycle' = 0
         /\ mouse_event' = Event(packet)
         /\ mouse_buttons' = Event(packet).buttons
  BY DEF mouse_interrupt_handler, packet
<1>8. mouse_cycle' \in 0 .. 2 /\ mouse_buttons' \in 0 .. 7
  BY <1>6, <1>7 DEF MouseTypeOK
<1>9. mouse_event' \in [buttons : 0 .. 7, delta_x : -128 .. 127,
                        delta_y : -128 .. 127]
  BY <1>6, <1>7 DEF MouseTypeOK
<1> QED BY <1>1, <1>2, <1>8, <1>9 DEF MouseTypeOK
LEMMA InitTypes == ASSUME Init PROVE Types
<1>1. PICTypeOK
  BY PICConstants, PS2Constants DEF Init, PICTypeOK, Cascade, KeyboardLine
<1>2. KeyboardTypeOK
  <2>1. shift_pressed \in BOOLEAN /\ ctrl_pressed \in BOOLEAN
        /\ alt_pressed \in BOOLEAN /\ caps_lock \in BOOLEAN
    BY Zenon DEF Init, KeyboardInit
  <2>2. kb_event.scancode = 0 /\ kb_event.ascii = "none" /\ key_states = {}
    BY DEF Init, KeyboardInit, NoKeyEvent
  <2> QED BY <2>1, <2>2 DEF KeyboardTypeOK
<1>3. MouseTypeOK
  <2>1. <<0, 0, 0>> \in [1 .. 3 -> 0 .. 255]
    OBVIOUS
  <2>2. mouse_packet = <<0, 0, 0>> /\ mouse_cycle = 0 /\ mouse_buttons = 0
    BY DEF Init, MouseInit
  <2>3. mouse_event \in [buttons : 0 .. 7, delta_x : -128 .. 127,
                         delta_y : -128 .. 127]
    BY DEF Init, MouseInit
  <2> QED BY <2>1, <2>2, <2>3 DEF MouseTypeOK
<1>4. PS2Types
  <2>1. newest \in {0} \cup Keys /\ down \subseteq Keys /\ caps \in BOOLEAN
    BY DEF Init, PS2Init
  <2>2. newest # 0 => KeyByte(newest, down, caps) \in KeyBytes
    BY <2>1 DEF KeyByte, KeyBytes, Codes
  <2>3. output \in Seq(KeyBytes \cup MouseBytes) /\ Len(output) <= 1
    <3>1. output = IF newest = 0 THEN <<>> ELSE <<KeyByte(newest, down, caps)>>
      BY DEF Init, PS2Init
    <3>2. CASE newest = 0
      BY <3>1, <3>2
    <3>3. CASE newest # 0
      <4>1. output = <<KeyByte(newest, down, caps)>>
        BY <3>1, <3>3
      <4>2. KeyByte(newest, down, caps) \in KeyBytes \cup MouseBytes
        BY <2>2, <3>3
      <4> HIDE DEF KeyByte
      <4> QED BY <4>1, <4>2
    <3> QED BY <3>2, <3>3
  <2> QED BY <2>1, <2>3 DEF Init, PS2Init, PS2Types
<1> QED BY <1>1, <1>2, <1>3, <1>4 DEF Types, Init

\* The driver of the interrupt controllers keeps to the lines there are.
LEMMA PICSteps ==
  ASSUME PICTypeOK
  PROVE  /\ \A line \in {KeyboardLine, MouseLine} :
              pic_unmask_irq(line)
                /\ UNCHANGED <<initialized, requested, in_service, serving>>
              => PICTypeOK' /\ line \notin masked' /\ masked' \subseteq masked
         /\ Accept => PICTypeOK' /\ serving' \in requested /\ serving = NoLine
                      /\ requested' = requested \ {serving'} /\ serving' # NoLine
         /\ \A line : /\ pic_send_eoi(line) /\ serving' = NoLine
                      /\ requested' \subseteq requested
                      /\ UNCHANGED <<initialized, masked, irq_mask>>
                      => PICTypeOK'
<1>1. ASSUME NEW line \in {KeyboardLine, MouseLine}, pic_unmask_irq(line),
             UNCHANGED <<initialized, requested, in_service, serving>>
      PROVE  PICTypeOK' /\ line \notin masked' /\ masked' \subseteq masked
  <2>1. line \in Lines /\ line \in Chip(line)
    BY PS2Constants DEF Chip
  <2> QED BY <1>1, <2>1 DEF pic_unmask_irq, WriteMask, PICTypeOK, Chip
<1>2. ASSUME Accept
      PROVE  PICTypeOK' /\ serving' \in requested /\ serving = NoLine
             /\ requested' = requested \ {serving'} /\ serving' # NoLine
  <2>1. PICK m \in Deliverable :
          /\ serving' = m /\ requested' = requested \ {m}
          /\ in_service' = in_service \cup {m}
                             \cup (IF m >= 8 THEN {Cascade} ELSE {})
    BY <1>2 DEF Accept
  <2>2. m \in requested /\ m \in Lines /\ m # NoLine
    BY PICConstants DEF Deliverable, PICTypeOK
  <2>3. UNCHANGED <<initialized, masked, irq_mask>> /\ serving = NoLine
    BY <1>2 DEF Accept
  <2> QED BY <2>1, <2>2, <2>3, PICConstants DEF PICTypeOK
<1>3. ASSUME NEW line, pic_send_eoi(line), serving' = NoLine,
             requested' \subseteq requested,
             UNCHANGED <<initialized, masked, irq_mask>>
      PROVE  PICTypeOK'
  <2>1. in_service' \subseteq in_service
    BY <1>3 DEF pic_send_eoi, Acknowledge
  <2> QED BY <1>3, <2>1 DEF PICTypeOK
<1> QED BY <1>1, <1>2, <1>3

\* What a polled read does.
LEMMA PollDoes ==
  ASSUME Types, Poll
  PROVE  /\ PICTypeOK' /\ KeyboardTypeOK' /\ MouseTypeOK' /\ PS2Types'
         /\ output # <<>> /\ output' = <<>>
         /\ requested' \subseteq requested /\ handlers' = handlers
<1>1. PS2Types' /\ output' = <<>>
  BY InbTypes DEF Poll
<1>2. requested' \subseteq requested
  BY DEF Poll
<1>3. PICTypeOK'
  BY <1>2 DEF Poll, Types, PICTypeOK
<1>4. KeyboardTypeOK' /\ MouseTypeOK'
  BY DEF Poll, Types, KeyboardTypeOK, MouseTypeOK, keyboardVars, mouseVars
<1> QED BY <1>1, <1>2, <1>3, <1>4 DEF Poll
\* What a handler, or the lack of one, does.
LEMMA ServeTypes ==
  ASSUME Types, Serve
  PROVE  PICTypeOK' /\ KeyboardTypeOK' /\ MouseTypeOK' /\ PS2Types'
<1>1. Data \in 0 .. 255
  BY DataType
<1>2. requested' \subseteq requested
  BY DEF Serve, HandlerReads
<1>3. PICTypeOK'
  BY <1>2, PICSteps DEF Serve, Types
<1>4. CASE HandlerReads /\ keyboard_handle_keypress(Data) /\ UNCHANGED mouseVars
  <2>1. KeyboardTypeOK'
    BY <1>1, <1>4, KeypressTypes DEF Types
  <2>2. PS2Types'
    BY <1>4, InbTypes DEF HandlerReads
  <2>3. MouseTypeOK'
    BY <1>4 DEF Types, MouseTypeOK, mouseVars
  <2> QED BY <1>3, <2>1, <2>2, <2>3
<1>5. CASE HandlerReads /\ mouse_interrupt_handler(Data) /\ UNCHANGED keyboardVars
  <2>1. MouseTypeOK'
    BY <1>1, <1>5, HandlerTypes DEF Types
  <2>2. PS2Types'
    BY <1>5, InbTypes DEF HandlerReads
  <2>3. KeyboardTypeOK'
    BY <1>5 DEF Types, KeyboardTypeOK, keyboardVars
  <2> QED BY <1>3, <2>1, <2>2, <2>3
<1>6. CASE UNCHANGED <<keyboardVars, mouseVars, ps2Vars>>
  BY <1>3, <1>6 DEF Types, KeyboardTypeOK, MouseTypeOK, PS2Types,
                    keyboardVars, mouseVars, ps2Vars, keysVars
<1> QED BY <1>4, <1>5, <1>6 DEF Serve

LEMMA NextTypes == ASSUME Types, [Next]_vars PROVE Types'
<1> DEFINE Drivers == PICTypeOK /\ KeyboardTypeOK /\ MouseTypeOK /\ PS2Types
<1>0. Drivers /\ at \in 1 .. 19 /\ handlers \subseteq {KeyboardLine, MouseLine}
  BY DEF Types
<1>1. ASSUME NEW what, NEW line \in {KeyboardLine, MouseLine},
             Register(what, line), at # 19
      PROVE  Types'
  <2>1. Drivers'
    BY <1>0, <1>1 DEF Register, picVars, keyboardVars, mouseVars, ps2Vars,
                keysVars, PICTypeOK, KeyboardTypeOK, MouseTypeOK, PS2Types
  <2>2. at' = at + 1 /\ handlers' = handlers \cup {line}
    BY <1>1 DEF Register
  <2> QED BY <1>0, <1>1, <2>1, <2>2 DEF Types
<1>2. ASSUME NEW what, NEW line \in {KeyboardLine, MouseLine},
             Unmask(what, line), at # 19
      PROVE  Types'
  <2>1. PICTypeOK'
    BY <1>0, <1>2, PICSteps DEF Unmask
  <2>2. KeyboardTypeOK' /\ MouseTypeOK' /\ PS2Types'
    BY <1>0, <1>2 DEF Unmask, keyboardVars, mouseVars, ps2Vars, keysVars,
                KeyboardTypeOK, MouseTypeOK, PS2Types
  <2>3. at' = at + 1 /\ handlers' = handlers
    BY <1>2 DEF Unmask
  <2> QED BY <1>0, <1>2, <2>1, <2>2, <2>3 DEF Types
<1>3. CASE mouse_write
  <2>1. PS2Types'
    BY <1>0, <1>3, CommandTypes DEF mouse_write
  <2>2. PICTypeOK' /\ KeyboardTypeOK' /\ MouseTypeOK'
    BY <1>0, <1>3 DEF mouse_write, picVars, keyboardVars, mouseVars,
                PICTypeOK, KeyboardTypeOK, MouseTypeOK
  <2>3. at' = at + 1 /\ at # 19 /\ handlers' = handlers
    BY <1>0, <1>3, ReachAt DEF mouse_write
  <2> QED BY <1>0, <2>1, <2>2, <2>3 DEF Types
<1>4. CASE mouse_read
  <2>1. at' = at + 1 /\ at # 19
    BY <1>0, <1>4, ReachAt DEF mouse_read
  <2> QED BY <1>0, <1>4, <2>1, PollDoes DEF mouse_read, Types
<1>5. CASE mouse_wait_ack
  <2>1. at' \in {at + 1, 18} /\ at # 19
    BY <1>0, <1>5, ReachAt, StatementsAre DEF mouse_wait_ack
  <2> QED BY <1>0, <1>5, <2>1, PollDoes DEF mouse_wait_ack, Types
<1>6. CASE interrupt_enable
  <2>1. Drivers'
    BY <1>0, <1>6 DEF interrupt_enable, picVars, keyboardVars, mouseVars, ps2Vars,
                keysVars, PICTypeOK, KeyboardTypeOK, MouseTypeOK, PS2Types
  <2>2. at' = at + 1 /\ at # 19 /\ handlers' = handlers
    BY <1>0, <1>6, ReachAt DEF interrupt_enable
  <2> QED BY <1>0, <2>1, <2>2 DEF Types
<1>7. CASE Interrupt
  <2>1. PICTypeOK'
    BY <1>0, <1>7, PICSteps DEF Interrupt
  <2>2. KeyboardTypeOK' /\ MouseTypeOK' /\ PS2Types'
    BY <1>0, <1>7 DEF Interrupt, keyboardVars, mouseVars, ps2Vars, keysVars,
                KeyboardTypeOK, MouseTypeOK, PS2Types
  <2> QED BY <1>0, <1>7, <2>1, <2>2 DEF Types, Interrupt, bootVars
<1>8. CASE Serve
  BY <1>0, <1>8, ServeTypes DEF Types, Serve, bootVars
<1>9. CASE Controller
  <2>1. KeyboardTypeOK' /\ MouseTypeOK'
    BY <1>0, <1>9 DEF Controller, keyboardVars, mouseVars,
                KeyboardTypeOK, MouseTypeOK
  <2> QED BY <1>0, <1>9, <2>1, PresentTypes DEF Types, Controller, bootVars
<1>10. CASE Devices
  <2>1. PICTypeOK' /\ KeyboardTypeOK' /\ MouseTypeOK'
    BY <1>0, <1>10 DEF Devices, picVars, keyboardVars, mouseVars,
                PICTypeOK, KeyboardTypeOK, MouseTypeOK
  <2>2. PS2Types'
    BY <1>0, <1>10, SendTypes, MoveTypes DEF Devices
  <2> QED BY <1>0, <1>10, <2>1, <2>2 DEF Types, Devices, bootVars
<1>11. CASE UNCHANGED vars
  BY <1>0, <1>11 DEF Types, vars, picVars, keyboardVars, mouseVars, ps2Vars,
               keysVars, bootVars, PICTypeOK, KeyboardTypeOK, MouseTypeOK,
               PS2Types
<1>12. /\ Register("keyboard_register", KeyboardLine) => at # 19
       /\ Register("mouse_register", MouseLine) => at # 19
       /\ Unmask("keyboard_unmask", KeyboardLine) => at # 19
       /\ Unmask("mouse_unmask", MouseLine) => at # 19
  BY <1>0, ReachAt DEF Register, Unmask
<1> QED BY <1>1, <1>2, <1>3, <1>4, <1>5, <1>6, <1>7, <1>8, <1>9, <1>10,
           <1>11, <1>12 DEF Next, kmain
-----------------------------------------------------------------------------
(* How far the boot is *)

\* Without a mouse there are no bytes of it.
Silent == ~ attached => ~ streaming /\ mouse = <<>> /\ ~ MouseWaits

\* What the boot has set up.
SetUp ==
  /\ failed => at \in {18, 19}
  /\ IF_flag <=> at = 19
  /\ at >= 2 => KeyboardLine \in handlers
  /\ MouseLine \in handlers <=> (at >= 17 /\ ~ failed)
  /\ at >= 18 /\ ~ failed => MouseLine \notin masked
  /\ serving # NoLine => IF_flag

\* When the mouse reports.
Reports ==
  /\ at \in 4 .. 14 => ~ streaming
  /\ at >= 15 /\ attached /\ ~ failed => streaming

LEMMA PlacedParts == Placed <=> SetUp /\ Silent /\ Reports
BY DEF Placed, SetUp, Silent, Reports

LEMMA InitPlaced == ASSUME Init PROVE Placed
<1>1. SetUp
  BY DEF Init, SetUp
<1>2. Silent
  <2>1. output = <<>> \/ output = <<KeyByte(newest, down, caps)>>
    BY DEF Init, PS2Init
  <2>2. ~ MouseWaits
    BY <2>1 DEF MouseWaits, KeyByte, KeyboardLine, MouseLine
  <2>3. mouse = <<>>
    BY DEF Init, PS2Init
  <2>4. ~ attached => ~ streaming
    <3>1. streaming = FALSE \/ streaming = attached
      BY DEF Init, PS2Init
    <3> QED BY <3>1, Zenon
  <2> QED BY <2>2, <2>3, <2>4 DEF Silent
<1>3. Reports
  BY DEF Init, Reports
<1> QED BY <1>1, <1>2, <1>3, PlacedParts

LEMMA NextSilent == ASSUME Types, Silent, [Next]_vars PROVE Silent'
<1>1. CASE UNCHANGED <<attached, streaming, mouse, output>>
  BY <1>1 DEF Silent, MouseWaits
<1>2. CASE mouse_write
  <2>1. UNCHANGED <<attached, output>>
    BY <1>2 DEF mouse_write, Command
  <2>2. ~ attached => ~ streaming' /\ mouse' = <<>>
    BY <1>2 DEF mouse_write, Command
  <2> QED BY <2>1, <2>2 DEF Silent, MouseWaits
<1>3. CASE inb
  BY <1>3 DEF inb, Silent, MouseWaits
<1>4. CASE Controller
  <2>1. PICK line \in Lines : Present(line)
    BY <1>4 DEF Controller
  <2>2. UNCHANGED <<attached, streaming>>
    BY <2>1 DEF Present
  <2>3. ASSUME ~ attached
        PROVE  mouse' = <<>> /\ ~ MouseWaits'
    <3>1. mouse = <<>> /\ keyboard # <<>> /\ output' = <<Head(keyboard)>>
          /\ mouse' = mouse
      BY <2>1, <2>3 DEF Present, Silent
    <3>2. Head(keyboard) \in KeyBytes
      BY <3>1 DEF Types, PS2Types
    <3> QED BY <3>1, <3>2 DEF MouseWaits, KeyBytes, KeyboardLine, MouseLine
  <2> QED BY <2>2, <2>3 DEF Silent
<1>5. CASE Devices
  BY <1>5 DEF Devices, Press, Release, Repeat, Send, Move, Silent, MouseWaits
<1>6. CASE Serve
  BY <1>1, <1>3, <1>6 DEF Serve, HandlerReads, ps2Vars
<1> QED
  BY <1>1, <1>2, <1>3, <1>4, <1>5, <1>6
  DEF Next, kmain, Register, Unmask, mouse_read, mouse_wait_ack, Poll,
      interrupt_enable, Interrupt, ps2Vars, vars

LEMMA NextReports ==
  ASSUME Types, SetUp, Reports, [Next]_vars
  PROVE  Reports'
<1>0. at \in 1 .. 19
  BY DEF Types
<1>1. CASE UNCHANGED <<at, failed, attached, streaming>>
  BY <1>1 DEF Reports
<1>2. CASE mouse_write
  <2>1. at' = at + 1 /\ UNCHANGED <<failed, attached>>
        /\ at \in {3, 4, 8, 10, 12, 14}
    BY <1>0, <1>2, ReachAt DEF mouse_write, Command
  <2>2. streaming' <=> attached /\ Statements[at].value = MOUSE_CMD_ENABLE
    BY <1>2 DEF mouse_write, Command
  <2>3. Statements[at].value = MOUSE_CMD_ENABLE <=> at = 14
    BY <2>1, Commands DEF MOUSE_CMD_DISABLE, MOUSE_CMD_RESET, MOUSE_CMD_ENABLE,
                          MOUSE_CMD_DEFAULTS, MOUSE_CMD_SAMPLE_RATE
  <2> QED BY <1>0, <2>1, <2>2, <2>3 DEF Reports
<1>3. CASE at' = at + 1 /\ at \in {1, 2, 6, 7, 16, 17, 18}
           /\ UNCHANGED <<failed, attached, streaming>>
  BY <1>3 DEF Reports, SetUp
<1>4. CASE mouse_wait_ack
  <2>1. at \in {5, 9, 11, 13, 15} /\ UNCHANGED <<attached, streaming>>
    BY <1>0, <1>4, ReachAt DEF mouse_wait_ack, Poll, inb
  <2>2. \/ failed' /\ at' = 18
        \/ ~ failed' /\ at' = at + 1
    BY <1>4, StatementsAre DEF mouse_wait_ack
  <2>3. ~ failed
    BY <2>1 DEF SetUp
  <2> QED BY <2>1, <2>2, <2>3 DEF Reports
<1>5. CASE mouse_read
  BY <1>0, <1>3, <1>5, ReachAt DEF mouse_read, Poll, inb
<1>6. CASE Serve \/ Controller \/ Devices \/ Interrupt
  <2>1. UNCHANGED <<at, failed>>
    BY <1>6 DEF Serve, Controller, Devices, Interrupt, bootVars
  <2>2. UNCHANGED <<attached, streaming>>
    BY <1>6 DEF Serve, Controller, Devices, Interrupt, Present, HandlerReads,
                inb, Press, Release, Repeat, Send, Move, ps2Vars
  <2> QED BY <1>1, <2>1, <2>2
<1>7. CASE \/ Register("keyboard_register", KeyboardLine)
           \/ Register("mouse_register", MouseLine)
  BY <1>0, <1>3, <1>7, ReachAt DEF Register, ps2Vars
<1>8. CASE \/ Unmask("keyboard_unmask", KeyboardLine)
           \/ Unmask("mouse_unmask", MouseLine)
  BY <1>0, <1>3, <1>8, ReachAt DEF Unmask, ps2Vars
<1>9. CASE interrupt_enable
  BY <1>0, <1>3, <1>9, ReachAt DEF interrupt_enable, ps2Vars
<1>10. CASE UNCHANGED vars
  BY <1>1, <1>10 DEF vars, bootVars, ps2Vars
<1> QED BY <1>2, <1>4, <1>5, <1>6, <1>7, <1>8, <1>9, <1>10 DEF Next, kmain
LEMMA NextSetUp ==
  ASSUME Types, SetUp, [Next]_vars
  PROVE  SetUp'
<1>0. at \in 1 .. 19
  BY DEF Types
<1>1. ASSUME UNCHANGED <<at, failed, IF_flag, handlers, masked>>,
             serving' # NoLine => IF_flag
      PROVE  SetUp'
  BY <1>1 DEF SetUp
<1>2. CASE mouse_write
  <2>1. at' = at + 1 /\ at \in {3, 4, 8, 10, 12, 14}
        /\ UNCHANGED <<failed, IF_flag, handlers, masked, serving>>
    BY <1>0, <1>2, ReachAt DEF mouse_write, picVars
  <2> QED BY <2>1 DEF SetUp
<1>3. CASE mouse_read
  <2>1. at' = at + 1 /\ at \in {6, 7}
        /\ UNCHANGED <<failed, IF_flag, handlers, masked, serving>>
    BY <1>0, <1>3, ReachAt DEF mouse_read, Poll
  <2> QED BY <2>1 DEF SetUp
<1>4. CASE mouse_wait_ack
  <2>1. at \in {5, 9, 11, 13, 15} /\ UNCHANGED <<IF_flag, handlers, masked, serving>>
    BY <1>0, <1>4, ReachAt DEF mouse_wait_ack, Poll
  <2>2. \/ failed' /\ at' = 18
        \/ ~ failed' /\ at' = at + 1
    BY <1>4, StatementsAre DEF mouse_wait_ack
  <2> QED BY <2>1, <2>2 DEF SetUp
<1>5. CASE Register("keyboard_register", KeyboardLine)
  <2>1. at' = at + 1 /\ at = 1 /\ handlers' = handlers \cup {KeyboardLine}
        /\ UNCHANGED <<failed, IF_flag, masked, serving>>
    BY <1>0, <1>5, ReachAt DEF Register, picVars
  <2> QED BY <2>1 DEF SetUp, KeyboardLine, MouseLine
<1>6. CASE Register("mouse_register", MouseLine)
  <2>1. at' = at + 1 /\ at = 16 /\ handlers' = handlers \cup {MouseLine}
        /\ UNCHANGED <<failed, IF_flag, masked, serving>>
    BY <1>0, <1>6, ReachAt DEF Register, picVars
  <2> QED BY <2>1 DEF SetUp
<1>7. CASE Unmask("keyboard_unmask", KeyboardLine)
  <2>1. at' = at + 1 /\ at = 2 /\ UNCHANGED <<failed, IF_flag, handlers, serving>>
    BY <1>0, <1>7, ReachAt DEF Unmask
  <2> QED BY <2>1 DEF SetUp
<1>8. CASE Unmask("mouse_unmask", MouseLine)
  <2>1. at' = at + 1 /\ at = 17 /\ UNCHANGED <<failed, IF_flag, handlers, serving>>
    BY <1>0, <1>8, ReachAt DEF Unmask
  <2>2. MouseLine \notin masked'
    BY <1>8, PICSteps DEF Unmask, Types
  <2> QED BY <2>1, <2>2 DEF SetUp
<1>9. CASE interrupt_enable
  <2>1. at' = at + 1 /\ at = 18 /\ IF_flag'
        /\ UNCHANGED <<failed, handlers, masked>>
    BY <1>0, <1>9, ReachAt DEF interrupt_enable, picVars
  <2> QED BY <2>1 DEF SetUp
<1>10. CASE Interrupt
  BY <1>1, <1>10 DEF Interrupt, Accept, bootVars
<1>11. CASE Serve
  BY <1>1, <1>11 DEF Serve, bootVars
<1>12. CASE Controller
  BY <1>1, <1>12 DEF Controller, Present, Request, bootVars, SetUp
<1>13. CASE Devices
  BY <1>1, <1>13 DEF Devices, picVars, bootVars, SetUp
<1>14. CASE UNCHANGED vars
  BY <1>1, <1>14 DEF vars, picVars, bootVars, SetUp
<1> QED BY <1>2, <1>3, <1>4, <1>5, <1>6, <1>7, <1>8, <1>9, <1>10, <1>11,
           <1>12, <1>13, <1>14 DEF Next, kmain

\* What the boot has set up follows from how far it is.
LEMMA NextPlaced == ASSUME Types, Placed, [Next]_vars PROVE Placed'
<1>1. SetUp /\ Silent /\ Reports
  BY PlacedParts
<1>2. SetUp' /\ Silent' /\ Reports'
  BY <1>1, NextSetUp, NextSilent, NextReports
<1>3. (Placed <=> SetUp /\ Silent /\ Reports)'
  BY DEF Placed, SetUp, Silent, Reports
<1> QED BY <1>2, <1>3

\* No key's byte is the acknowledgement that mouse_wait_ack wants to read.
NoAckKey == ACK - 128 \notin Keys

LEMMA NextNeedsMouse ==
  ASSUME NoAckKey, Types, Placed, NeedsMouse, [Next]_vars
  PROVE  NeedsMouse'
<1>0. at \in 1 .. 19
  BY DEF Types
<1>1. attached' = attached
  BY DEF Next, kmain, Register, Unmask, mouse_write, Command, mouse_read,
         mouse_wait_ack, Poll, inb, interrupt_enable, Interrupt, Serve,
         HandlerReads, Controller, Present, Devices, Press, Release, Repeat,
         Send, Move, ps2Vars, vars
<1>2. CASE mouse_wait_ack
  <2>1. \/ failed' /\ at' = 18
        \/ ~ failed' /\ at' = at + 1 /\ Data = ACK
    BY <1>2, StatementsAre DEF mouse_wait_ack
  <2>2. CASE failed'
    BY <2>2 DEF NeedsMouse
  <2>3. ASSUME Data = ACK
        PROVE  attached
    <3>1. output # <<>> /\ output[1].byte = ACK
      BY <1>2, <2>3 DEF mouse_wait_ack, Poll, Data
    <3>2. CASE MouseWaits
      BY <3>2 DEF Placed
    <3>3. CASE KeyWaits /\ output[1] \in KeyBytes
      <4>1. ACK \in Codes
        BY <3>1, <3>3 DEF KeyBytes
      <4> QED BY <4>1, PS2Constants DEF Codes, ACK, NoAckKey
    <3> QED BY <3>1, <3>2, <3>3, Waits
  <2> QED BY <1>1, <2>1, <2>2, <2>3 DEF NeedsMouse
<1>3. CASE UNCHANGED <<at, failed>>
  BY <1>1, <1>3 DEF NeedsMouse
<1>4. CASE at' = at + 1 /\ at \in {1, 2, 3, 4, 6, 7, 8, 10, 12, 14, 16, 17, 18}
           /\ UNCHANGED failed
  BY <1>1, <1>4 DEF NeedsMouse
<1>5. CASE \/ Register("keyboard_register", KeyboardLine)
           \/ Register("mouse_register", MouseLine)
           \/ Unmask("keyboard_unmask", KeyboardLine)
           \/ Unmask("mouse_unmask", MouseLine)
  BY <1>0, <1>4, <1>5, ReachAt DEF Register, Unmask
<1>6. CASE mouse_write \/ mouse_read \/ interrupt_enable
  BY <1>0, <1>4, <1>6, ReachAt DEF mouse_write, mouse_read, interrupt_enable
<1>7. CASE Interrupt \/ Serve \/ Controller \/ Devices \/ UNCHANGED vars
  BY <1>3, <1>7 DEF Interrupt, Serve, Controller, Devices, vars, bootVars
<1> QED BY <1>2, <1>5, <1>6, <1>7 DEF Next, kmain
-----------------------------------------------------------------------------
(* The dialogue with the mouse *)

\* No byte of a packet is an answer.
LEMMA PacketPlaces ==
  \A p \in Packets : \A k \in DOMAIN Rest(p, 1) : Rest(p, 1)[k].pos # 0
<1>1. \A p \in Packets, k \in 1 .. 3 : PacketByte(p, k).pos = k
  BY DEF PacketByte, MouseByte
<1>2. \A p \in Packets : DOMAIN Rest(p, 1) = 1 .. 3
  BY DEF Rest
<1>3. \A p \in Packets, k \in 1 .. 3 : Rest(p, 1)[k] = PacketByte(p, k)
  BY DEF Rest
<1> QED BY <1>1, <1>2, <1>3

\* Short sequences.
LEMMA Shorter ==
  /\ \A a : <<a>> # <<>> /\ Head(<<a>>) = a /\ Tail(<<a>>) = <<>>
  /\ \A a, b : /\ <<a, b>> # <<>> /\ Head(<<a, b>>) = a
               /\ Tail(<<a, b>>) = <<b>>
  /\ \A a, b, c : /\ <<a, b, c>> # <<>> /\ Head(<<a, b, c>>) = a
                  /\ Tail(<<a, b, c>>) = <<b, c>>
OBVIOUS

LEMMA LeftSame ==
  ASSUME NEW s, Left(s), UNCHANGED <<output, mouse>>
  PROVE  Left(s)'
BY DEF Left, MouseWaits

\* What moves into the buffer is still to be read.
LEMMA LeftPresent ==
  ASSUME Types, NEW s, Left(s), Controller
  PROVE  Left(s)'
<1>1. PICK line \in Lines : Present(line)
  BY DEF Controller
<1>2. output = <<>> /\ mouse = s
  BY <1>1 DEF Present, Left
<1>3. CASE keyboard # <<>> /\ output' = <<Head(keyboard)>> /\ mouse' = mouse
  <2>1. Head(keyboard) \in KeyBytes
    BY <1>3 DEF Types, PS2Types
  <2>2. ~ MouseWaits'
    BY <1>3, <2>1 DEF MouseWaits, KeyBytes, KeyboardLine, MouseLine
  <2> QED BY <1>2, <1>3, <2>2 DEF Left
<1>4. CASE mouse # <<>> /\ output' = <<Head(mouse)>> /\ mouse' = Tail(mouse)
  BY <1>2, <1>4 DEF Left
<1> QED BY <1>1, <1>3, <1>4 DEF Present

\* A byte of the mouse that is polled is the next one left.
LEMMA LeftPoll ==
  ASSUME MouseWaits, inb
  PROVE  /\ ~ MouseWaits' /\ ~ Left(<<>>)
         /\ \A a : Left(<<a>>) =>
              output = <<a>> /\ Data = a.byte /\ mouse' = <<>>
         /\ \A a, b : Left(<<a, b>>) =>
              output = <<a>> /\ Data = a.byte /\ mouse' = <<b>>
         /\ \A a, b, c : Left(<<a, b, c>>) =>
              output = <<a>> /\ Data = a.byte /\ mouse' = <<b, c>>
<1>1. output' = <<>> /\ mouse' = mouse
  BY DEF inb
<1>2. ~ MouseWaits' /\ ~ Left(<<>>)
  BY <1>1 DEF MouseWaits, Left
<1>3. \A a : Left(<<a>>) => output = <<a>> /\ mouse = <<>>
  BY DEF Left
<1>4. \A a, b : Left(<<a, b>>) => output = <<a>> /\ mouse = <<b>>
  BY DEF Left
<1>5. \A a, b, c : Left(<<a, b, c>>) => output = <<a>> /\ mouse = <<b, c>>
  BY DEF Left
<1>6. \A a : output = <<a>> => Data = a.byte
  BY DEF Data
<1> HIDE DEF Left
<1> QED BY <1>1, <1>2, <1>3, <1>4, <1>5, <1>6

\* A polled read that is not of a key is of the mouse.
LEMMA PollTakes ==
  ASSUME Types, Poll, ~ stolen'
  PROVE  MouseWaits /\ ~ stolen /\ inb
<1>1. output # <<>> /\ output[1].from # KeyboardLine /\ ~ stolen /\ inb
  BY DEF Poll
<1> QED BY <1>1, Waits DEF KeyWaits

\* Polled reads of the answers, one by one.
LEMMA AnswersPolled ==
  ASSUME MouseWaits, inb
  PROVE  /\ Left(Reset) => Data = ACK /\ Left(Tested)'
         /\ Left(Tested) => Left(Named)'
         /\ Left(Named) => Left(<<>>)'
         /\ Left(Acked) => output = Acked /\ Data = ACK /\ Left(<<>>)'
         /\ ~ Left(<<>>) /\ ~ MouseWaits'
<1>1. \A b : Answer(b).byte = b
  BY DEF Answer, MouseByte
<1>2. ~ MouseWaits' /\ ~ Left(<<>>)
  BY LeftPoll
<1>3. \A s : mouse' = s => Left(s)'
  BY <1>2 DEF Left
<1> HIDE DEF Left
<1>4. Left(Reset) => Data = ACK /\ mouse' = Tested
  BY <1>1, LeftPoll DEF Reset, Tested
<1>5. Left(Tested) => mouse' = Named
  BY LeftPoll DEF Tested, Named
<1>6. Left(Named) => mouse' = <<>>
  BY LeftPoll DEF Named
<1>7. Left(Acked) => output = Acked /\ Data = ACK /\ mouse' = <<>>
  BY <1>1, LeftPoll DEF Acked
<1> QED BY <1>2, <1>3, <1>4, <1>5, <1>6, <1>7

\* While the boot stays where it is.
LEMMA DialogueStays ==
  ASSUME Types, Placed, Dialogue, attached, ~ failed,
         UNCHANGED <<at, untidy>>,
         \/ Controller
         \/ Devices
         \/ UNCHANGED <<output, mouse>>
         \/ output' = <<>> /\ mouse' = mouse /\ at = 19
  PROVE  Dialogue'
<1>0. at \in 1 .. 19
  BY DEF Types
<1>1. CASE UNCHANGED <<output, mouse>>
  <2>1. \A s : Left(s) => Left(s)'
    BY <1>1, LeftSame
  <2>2. OneBehind => OneBehind'
    BY <1>1 DEF OneBehind
  <2>3. NameUnread => NameUnread'
    BY <1>1 DEF NameUnread
  <2>4. Begun => Begun'
    BY <1>1 DEF Begun
  <2>5. OnlyPackets => OnlyPackets'
    BY <1>1 DEF OnlyPackets, MouseWaits
  <2> QED BY <2>1, <2>2, <2>3, <2>4, <2>5 DEF Dialogue
<1>2. CASE Controller
  <2>1. \A s : Left(s) => Left(s)'
    BY <1>2, LeftPresent
  <2>2. output = <<>>
    BY <1>2 DEF Controller, Present
  <2>3. ~ OneBehind /\ ~ NameUnread /\ ~ Begun
    BY <2>2 DEF OneBehind, NameUnread, Begun, Named, Acked
  <2>4. ASSUME OnlyPackets
        PROVE  OnlyPackets'
    <3>1. \A k \in DOMAIN mouse : mouse[k].pos # 0
      BY <2>4 DEF OnlyPackets
    <3>2. CASE keyboard # <<>> /\ output' = <<Head(keyboard)>> /\ mouse' = mouse
      <4>1. Head(keyboard) \in KeyBytes
        BY <3>2 DEF Types, PS2Types
      <4>2. ~ MouseWaits'
        BY <3>2, <4>1 DEF MouseWaits, KeyBytes, KeyboardLine, MouseLine
      <4> QED BY <3>1, <3>2, <4>2 DEF OnlyPackets
    <3>3. CASE mouse # <<>> /\ output' = <<Head(mouse)>> /\ mouse' = Tail(mouse)
      <4>1. mouse \in Seq(MouseBytes)
        BY DEF Types, PS2Types
      <4>2. Head(mouse) = mouse[1] /\ 1 \in DOMAIN mouse
        BY <3>3, <4>1
      <4>3. \A k \in DOMAIN mouse' : k + 1 \in DOMAIN mouse
                                     /\ mouse'[k] = mouse[k + 1]
        BY <3>3, <4>1
      <4>4. output'[1] = mouse[1]
        BY <3>3, <4>2
      <4> QED BY <3>1, <4>2, <4>3, <4>4 DEF OnlyPackets
    <3> QED BY <1>2, <3>2, <3>3 DEF Controller, Present
  <2> QED BY <2>1, <2>3, <2>4 DEF Dialogue
<1>3. CASE Devices
  <2>1. CASE UNCHANGED <<output, mouse>>
    BY <1>1, <2>1
  <2>2. CASE \E p \in Packets : Move(p)
    <3>1. PICK p \in Packets : Move(p)
      BY <2>2
    <3>2. mouse = <<>> /\ mouse' = Rest(p, 1) /\ output' = output /\ streaming
      BY <3>1, MoveTypes DEF Types, Move
    <3>3. at \notin 4 .. 14
      BY <3>2 DEF Placed
    <3>4. Left(Acked) => output = Acked
      BY <3>2, Shorter DEF Left, Acked
    <3>5. ~ Begun
      <4>1. \A q \in Packets : Rest(q, 1) # <<>>
        BY DEF Rest
      <4> QED BY <3>2, <4>1 DEF Begun
    <3>6. output = Acked => Begun'
      BY <3>2 DEF Begun
    <3>7. OnlyPackets => OnlyPackets'
      <4>1. \A k \in DOMAIN mouse' : mouse'[k].pos # 0
        BY <3>2, PacketPlaces
      <4> QED BY <3>2, <4>1 DEF OnlyPackets, MouseWaits
    <3> QED BY <1>0, <3>3, <3>4, <3>5, <3>6, <3>7 DEF Dialogue
  <2> QED BY <1>3, <2>1, <2>2 DEF Devices, Press, Release, Repeat, Send
<1>4. CASE output' = <<>> /\ mouse' = mouse /\ at = 19
  <2>1. OnlyPackets => OnlyPackets'
    BY <1>4 DEF OnlyPackets, MouseWaits
  <2> QED BY <1>4, <2>1 DEF Dialogue
<1> QED BY <1>1, <1>2, <1>3, <1>4

\* A command: its answers are what is left, unless a byte was waiting.
LEMMA DialogueWrites ==
  ASSUME Types, Placed, Dialogue, attached, mouse_write
  PROVE  Dialogue'
<1>1. at' = at + 1 /\ at \in {3, 4, 8, 10, 12, 14}
  BY ReachAt DEF mouse_write, Types
<1>2. Command(Statements[at].value) /\ output' = output
  BY DEF mouse_write, Command
<1>3. mouse' = Answers(Statements[at].value)
  BY <1>2 DEF Command
<1>4. \A s : ~ MouseWaits' /\ mouse' = s => Left(s)'
  BY DEF Left
<1>5. MouseWaits' <=> MouseWaits
  BY <1>2 DEF MouseWaits
<1>6. CASE at = 3
  BY <1>1, <1>6 DEF Dialogue
<1>7. CASE at = 4
  <2>1. mouse' = Reset
    BY <1>3, <1>7, Commands DEF Answers, Reset
  <2>2. output = <<>> => Left(Reset)'
    BY <1>4, <1>5, <2>1 DEF MouseWaits
  <2>3. output # <<>> => untidy'
    BY <1>7, Commands DEF mouse_write
  <2>4. output # <<>> => OneBehind'
    BY <1>2, <2>1, <2>3 DEF OneBehind
  <2>5. at' = 5
    BY <1>1, <1>7
  <2> QED BY <2>2, <2>4, <2>5 DEF Dialogue
<1>8. CASE at = 8
  <2>1. mouse' = Acked
    <3>1. Statements[at].value # MOUSE_CMD_RESET
      BY <1>8, Commands DEF MOUSE_CMD_DEFAULTS, MOUSE_CMD_RESET
    <3> QED BY <1>3, <3>1 DEF Answers, Acked
  <2>2. untidy => untidy'
    BY DEF mouse_write
  <2>3. ~ MouseWaits \/ (untidy /\ output = Named)
    <3>1. Left(<<>>) => ~ MouseWaits
      BY DEF Left
    <3>2. Left(Named) => ~ MouseWaits \/ output = Named
      BY Shorter DEF Left, Named
    <3> QED BY <1>8, <3>1, <3>2 DEF Dialogue
  <2>4. ~ MouseWaits => Left(Acked)'
    BY <1>4, <1>5, <2>1
  <2>5. untidy /\ output = Named => NameUnread'
    BY <1>2, <2>1, <2>2 DEF NameUnread
  <2>6. at' = 9
    BY <1>1, <1>8
  <2> QED BY <2>3, <2>4, <2>5, <2>6 DEF Dialogue
<1>9. CASE at \in {10, 12, 14}
  <2>1. mouse' = Acked
    <3>1. Statements[at].value # MOUSE_CMD_RESET
      BY <1>9, Commands
      DEF MOUSE_CMD_SAMPLE_RATE, MOUSE_CMD_ENABLE, MOUSE_CMD_RESET
    <3> QED BY <1>3, <3>1 DEF Answers, Acked
  <2>2. Left(<<>>)
    BY <1>9 DEF Dialogue
  <2>3. ~ MouseWaits
    BY <2>2 DEF Left
  <2>4. Left(Acked)'
    BY <1>4, <1>5, <2>1, <2>3
  <2>5. at' \in {11, 13, 15}
    BY <1>1, <1>9
  <2> QED BY <2>4, <2>5 DEF Dialogue
<1> QED BY <1>1, <1>6, <1>7, <1>8, <1>9

\* A byte of the mouse read and thrown away.
LEMMA DialogueReads ==
  ASSUME Types, Dialogue, mouse_read, ~ stolen'
  PROVE  Dialogue'
<1>1. at' = at + 1 /\ at \in {6, 7} /\ untidy' = untidy
  BY ReachAt DEF mouse_read, Poll, Types
<1>2. MouseWaits /\ inb
  BY PollTakes DEF mouse_read
<1>3. CASE at = 6
  <2>1. Left(Named)' \/ (untidy' /\ Left(Tested)')
    BY <1>1, <1>2, <1>3, AnswersPolled DEF Dialogue
  <2>2. at' = 7
    BY <1>1, <1>3
  <2> QED BY <2>1, <2>2 DEF Dialogue
<1>4. CASE at = 7
  <2>1. Left(<<>>)' \/ (untidy' /\ Left(Named)')
    BY <1>1, <1>2, <1>4, AnswersPolled DEF Dialogue
  <2>2. at' = 8
    BY <1>1, <1>4
  <2> QED BY <2>1, <2>2 DEF Dialogue
<1> QED BY <1>1, <1>3, <1>4

\* A byte of the mouse that should acknowledge.
LEMMA DialogueAwaits ==
  ASSUME Types, Dialogue, mouse_wait_ack, ~ stolen'
  PROVE  IF failed' THEN untidy ELSE Dialogue'
<1>1. at \in {5, 9, 11, 13, 15} /\ untidy' = untidy
  BY ReachAt DEF mouse_wait_ack, Poll, Types
<1>2. MouseWaits /\ inb
  BY PollTakes DEF mouse_wait_ack
<1>3. failed' <=> Data # ACK
  BY DEF mouse_wait_ack
<1>4. ~ failed' => at' = at + 1
  BY DEF mouse_wait_ack
<1>5. mouse' = mouse /\ ~ MouseWaits'
  BY <1>2 DEF inb, MouseWaits
<1>6. CASE at = 5
  <2>1. OneBehind => untidy /\ Left(Reset)'
    BY <1>5 DEF OneBehind, Left
  <2>2. \/ Data = ACK /\ Left(Tested)'
        \/ untidy /\ Left(Reset)'
    BY <1>2, <1>6, <2>1, AnswersPolled DEF Dialogue
  <2>3. ~ failed' => at' = 6
    BY <1>4, <1>6
  <2> QED BY <1>1, <1>3, <2>2, <2>3 DEF Dialogue
<1>7. CASE at = 9
  <2>1. NameUnread => untidy /\ Data = 0
    BY DEF NameUnread, Named, Data, Answer, MouseByte
  <2>2. (Data = ACK /\ Left(<<>>)') \/ (untidy /\ Data = 0)
    BY <1>2, <1>7, <2>1, AnswersPolled DEF Dialogue
  <2>3. Data = 0 => failed'
    BY <1>3 DEF ACK
  <2>4. ~ failed' => at' = 10
    BY <1>4, <1>7
  <2> QED BY <1>3, <2>2, <2>3, <2>4 DEF Dialogue
<1>8. CASE at \in {11, 13}
  <2>1. Data = ACK /\ Left(<<>>)'
    BY <1>2, <1>8, AnswersPolled DEF Dialogue
  <2>2. ~ failed' /\ at' \in {12, 14}
    BY <1>3, <1>4, <1>8, <2>1
  <2> QED BY <2>1, <2>2 DEF Dialogue
<1>9. CASE at = 15
  <2>1. Begun => Data = ACK
    BY DEF Begun, Acked, Data, Answer, MouseByte
  <2>2. Data = ACK
    BY <1>2, <1>9, <2>1, AnswersPolled DEF Dialogue
  <2>3. Left(Acked) => mouse = <<>>
    BY <1>2, Shorter DEF Left, Acked
  <2>4. Begun => \E p \in Packets : mouse = Rest(p, 1)
    BY DEF Begun
  <2>5. \A k \in DOMAIN mouse : mouse[k].pos # 0
    <3>1. mouse = <<>> \/ \E p \in Packets : mouse = Rest(p, 1)
      BY <1>9, <2>3, <2>4 DEF Dialogue
    <3> QED BY <3>1, PacketPlaces
  <2>6. OnlyPackets'
    BY <1>5, <2>5 DEF OnlyPackets
  <2>7. ~ failed' /\ at' = 16
    BY <1>3, <1>4, <1>9, <2>2
  <2> QED BY <2>6, <2>7 DEF Dialogue
<1> QED BY <1>1, <1>6, <1>7, <1>8, <1>9

\* The boot starts before the dialogue.
LEMMA InitBootInv == ASSUME Init PROVE BootInv
<1>1. at = 1 /\ ~ failed
  BY DEF Init
<1> QED BY <1>1 DEF BootInv, Dialogue

LEMMA NextBootInv ==
  ASSUME Types, Placed, BootInv, [Next]_vars
  PROVE  BootInv'
<1>0. at \in 1 .. 19
  BY DEF Types
<1>1. attached' = attached
  BY DEF Next, kmain, Register, Unmask, mouse_write, Command, mouse_read,
         mouse_wait_ack, Poll, inb, interrupt_enable, Interrupt, Serve,
         HandlerReads, Controller, Present, Devices, Press, Release, Repeat,
         Send, Move, ps2Vars, vars
<1>2. ASSUME UNCHANGED <<at, failed, untidy, stolen>>,
             \/ Controller
             \/ Devices
             \/ UNCHANGED <<output, mouse>>
             \/ output' = <<>> /\ mouse' = mouse /\ at = 19
      PROVE  BootInv'
  <2>1. attached /\ ~ failed /\ ~ stolen => Dialogue'
    BY <1>2, DialogueStays DEF BootInv
  <2> QED BY <1>1, <1>2, <2>1 DEF BootInv
<1>3. CASE mouse_write
  <2>1. UNCHANGED <<failed, stolen>> /\ (untidy => untidy')
    BY <1>3 DEF mouse_write
  <2>2. attached /\ ~ failed /\ ~ stolen => Dialogue'
    BY <1>3, DialogueWrites DEF BootInv
  <2> QED BY <1>1, <2>1, <2>2 DEF BootInv
<1>4. CASE mouse_read
  <2>1. UNCHANGED <<failed, untidy>> /\ (stolen => stolen')
    BY <1>4 DEF mouse_read, Poll
  <2>2. attached /\ ~ failed /\ ~ stolen' => Dialogue'
    BY <1>4, <2>1, DialogueReads DEF BootInv
  <2> QED BY <1>1, <2>1, <2>2 DEF BootInv
<1>5. CASE mouse_wait_ack
  <2>1. untidy' = untidy /\ (stolen => stolen')
    BY <1>5 DEF mouse_wait_ack, Poll
  <2>2. ~ failed
    <3>1. at \notin {18, 19}
      BY <1>0, <1>5, ReachAt DEF mouse_wait_ack
    <3> QED BY <3>1 DEF Placed
  <2>3. ASSUME ~ stolen'
        PROVE  attached /\ ~ stolen
    BY <1>5, <2>3, PollTakes DEF mouse_wait_ack, Placed
  <2>4. ~ stolen' => IF failed' THEN untidy ELSE Dialogue'
    BY <1>5, <2>2, <2>3, DialogueAwaits DEF BootInv
  <2> QED BY <1>1, <2>1, <2>4 DEF BootInv
<1>6. ASSUME at' = at + 1, at \in {1, 2, 16, 17, 18},
             UNCHANGED <<failed, untidy, stolen, output, mouse>>
      PROVE  BootInv'
  <2>1. OnlyPackets => OnlyPackets'
    BY <1>6 DEF OnlyPackets, MouseWaits
  <2>2. Dialogue => Dialogue'
    BY <1>6, <2>1 DEF Dialogue
  <2> QED BY <1>1, <1>6, <2>2 DEF BootInv
<1>7. CASE \/ Register("keyboard_register", KeyboardLine)
           \/ Register("mouse_register", MouseLine)
           \/ Unmask("keyboard_unmask", KeyboardLine)
           \/ Unmask("mouse_unmask", MouseLine)
           \/ interrupt_enable
  BY <1>0, <1>6, <1>7, ReachAt
  DEF Register, Unmask, interrupt_enable, ps2Vars, history
<1>8. CASE Interrupt \/ UNCHANGED vars
  BY <1>2, <1>8 DEF Interrupt, vars, bootVars, ps2Vars, history
<1>9. CASE Controller \/ Devices
  BY <1>2, <1>9 DEF Controller, Devices, bootVars, history
<1>10. CASE Serve
  <2>1. at = 19 /\ UNCHANGED <<at, failed, untidy, stolen>>
    BY <1>10 DEF Serve, Placed, bootVars
  <2>2. \/ output' = <<>> /\ mouse' = mouse
        \/ UNCHANGED <<output, mouse>>
    BY <1>10 DEF Serve, HandlerReads, inb, ps2Vars
  <2> QED BY <1>2, <2>1, <2>2
<1> QED BY <1>3, <1>4, <1>5, <1>7, <1>8, <1>9, <1>10 DEF Next, kmain

\* How far the boot is and what has been said, together.
Booting == Types /\ Placed /\ BootInv

LEMMA BootingHolds == Spec => []Booting
<1>1. Init => Booting
  BY InitTypes, InitPlaced, InitBootInv DEF Booting
<1>2. Booting /\ [Next]_vars => Booting'
  BY NextTypes, NextPlaced, NextBootInv DEF Booting
<1> QED BY <1>1, <1>2, PTL DEF Spec

\* What mouse_init achieves (mouse.c), on every keyboard on which no key's
\* break code is 0xFA: it fails only when a key's byte came between, or when a
\* byte waited as it wrote the reset; when it does not fail the mouse reports,
\* its handler and its line are ready, and no answer of the mouse is left over.
THEOREM MouseReady ==
  ASSUME NoAckKey
  PROVE  Spec => []InitOutcome
<1>1. Init => NeedsMouse
  BY DEF Init, NeedsMouse
<1>2. Booting /\ NeedsMouse /\ [Next]_vars => NeedsMouse'
  BY NextNeedsMouse DEF Booting
<1>3. Booting /\ NeedsMouse => InitOutcome
  <2> SUFFICES ASSUME Types, Placed, BootInv, NeedsMouse
               PROVE  InitOutcome
    BY DEF Booting
  <2>1. PICTypeOK /\ KeyboardTypeOK /\ MouseTypeOK
    BY DEF Types
  <2>2. failed => untidy \/ stolen
    BY DEF BootInv
  <2>3. ASSUME IF_flag, ~ failed
        PROVE  /\ streaming /\ MouseLine \in handlers \ masked
               /\ \A k \in DOMAIN mouse : stolen \/ mouse[k].pos # 0
               /\ \A k \in Waiting(MouseLine) : stolen \/ output[k].pos # 0
    <3>1. at = 19
      BY <2>3 DEF Placed
    <3>2. attached
      BY <2>3, <3>1 DEF NeedsMouse
    <3>3. streaming /\ MouseLine \in handlers \ masked
      BY <2>3, <3>1, <3>2 DEF Placed
    <3>4. CASE stolen
      BY <3>3, <3>4
    <3>5. CASE ~ stolen
      <4>1. /\ \A k \in DOMAIN mouse : mouse[k].pos # 0
            /\ MouseWaits => output[1].pos # 0
        BY <2>3, <3>1, <3>2, <3>5 DEF BootInv, Dialogue, OnlyPackets
      <4>2. \A k \in Waiting(MouseLine) : k = 1 /\ MouseWaits
        BY Waits DEF Waiting, MouseWaits
      <4> QED BY <3>3, <4>1, <4>2
    <3> QED BY <3>4, <3>5
  <2> QED BY <2>1, <2>2, <2>3 DEF InitOutcome
<1> QED BY <1>1, <1>2, <1>3, BootingHolds, PTL DEF Spec
=============================================================================
