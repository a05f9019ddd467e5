------------------------------ MODULE Keyboard ------------------------------
(***************************************************************************)
(* The keyboard driver, kernel/src/drivers/keyboard/keyboard.c: what one   *)
(* byte of the keyboard does to the key states, the modifiers and the      *)
(* event handed to the callback.  The two tables are abstracted to which   *)
(* of them the character is taken from.                                    *)
(***************************************************************************)
EXTENDS Naturals

VARIABLES
  key_states,    \* the keys that are down, by scancode
  shift_pressed, ctrl_pressed, alt_pressed, caps_lock,
  kb_event       \* the last event handed to kb_callback

keyboardVars == <<key_states, shift_pressed, ctrl_pressed, alt_pressed,
                  caps_lock, kb_event>>

LeftShift == 42   \* 0x2A
RightShift == 54  \* 0x36
LeftCtrl == 29    \* 0x1D
LeftAlt == 56     \* 0x38
CapsLock == 58    \* 0x3A

Shifts == {LeftShift, RightShift}

\* Q-P, A-L, Z-M
IsLetter(key) == key \in 16 .. 25 \cup 30 .. 38 \cup 44 .. 50

\* sizeof(scancode_to_ascii)
TableSize == 90

Table_CapsOrShift(key, release, shift, caps) ==
  IF key >= TableSize \/ release THEN "none"
  ELSE IF shift \/ (IsLetter(key) /\ caps) THEN "shifted" ELSE "plain"

\* The table that event.ascii is taken from; "none" is the character 0.
Table(key, release, shift, caps) ==
  IF key >= TableSize \/ release THEN "none"
  ELSE IF shift # (IsLetter(key) /\ caps) THEN "shifted" ELSE "plain"

\* The modifier of a key follows it; Caps Lock toggles on every make code.
keyboard_handle_keypress(scancode) ==
  LET release == scancode >= 128
      key     == scancode % 128
  IN  /\ key_states' = IF release THEN key_states \ {key}
                       ELSE key_states \cup {key}
      /\ shift_pressed' = IF key \in Shifts THEN ~ release ELSE shift_pressed
      /\ ctrl_pressed' = IF key = LeftCtrl THEN ~ release ELSE ctrl_pressed
      /\ alt_pressed' = IF key = LeftAlt THEN ~ release ELSE alt_pressed
      /\ caps_lock' = IF key = CapsLock /\ ~ release THEN ~ caps_lock
                      ELSE caps_lock
      /\ kb_event' = [scancode |-> key, pressed |-> ~ release,
                      shift |-> shift_pressed', ctrl |-> ctrl_pressed',
                      alt |-> alt_pressed',
                      ascii |->
                        Table(key, release, shift_pressed', caps_lock')]

NoKeyEvent == [scancode |-> 0, pressed |-> FALSE, shift |-> FALSE,
               ctrl |-> FALSE, alt |-> FALSE, ascii |-> "none"]

KeyboardInit ==
  /\ key_states = {} /\ kb_event = NoKeyEvent
  /\ shift_pressed = FALSE /\ ctrl_pressed = FALSE /\ alt_pressed = FALSE
  /\ caps_lock = FALSE

KeyboardTypeOK ==
  /\ key_states \subseteq 0 .. 127
  /\ {shift_pressed, ctrl_pressed, alt_pressed, caps_lock} \subseteq BOOLEAN
  /\ kb_event.scancode \in 0 .. 127
  /\ kb_event.ascii \in {"none", "plain", "shifted"}
=============================================================================
