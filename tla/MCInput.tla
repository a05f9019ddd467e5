------------------------------ MODULE MCInput ------------------------------
(* Input with a letter, a Shift key and Caps Lock, and with packets at     *)
(* and beyond the ends of an int8_t.                                       *)
EXTENDS Input

MCKeys == {30, RightShift, CapsLock}

MCPackets == {[buttons |-> 1, x |-> -128, y |-> -127],
              [buttons |-> 4, x |-> 200, y |-> -6]}
=============================================================================
