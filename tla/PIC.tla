-------------------------------- MODULE PIC --------------------------------
(***************************************************************************)
(* The two cascaded interrupt controllers and their driver,                *)
(* kernel/src/drivers/pic/pic.c, under interrupt_handler of core/idt.c,    *)
(* which acknowledges an interrupt once its handler has returned.  Every   *)
(* gate is an interrupt gate, so handlers do not nest.                     *)
(*                                                                         *)
(* A mask register is the set of the lines masked in it.                   *)
(***************************************************************************)
EXTENDS Naturals

CONSTANTS Lines,   \* the interrupt lines wired to a device, and the cascade
          NoLine

Cascade == 2

ASSUME PICConstants == Lines \subseteq 0 .. 15 /\ Cascade \in Lines
                       /\ NoLine \notin Lines

VARIABLES
  initialized,   \* pic_init has run
  masked,        \* the mask registers of the controllers
  irq_mask,      \* the driver's copy of them
  requested,     \* lines that a device has raised
  in_service,    \* lines accepted and not acknowledged
  serving        \* the line whose handler runs

picVars == <<initialized, masked, irq_mask, requested, in_service, serving>>

-----------------------------------------------------------------------------
(* The controllers *)

\* The lines of the controller that line belongs to.
Chip(line) == {m \in Lines : m < 8 <=> line < 8}

\* Lower ranks first; the lines of the second controller come in at line 2.
Rank(line) == IF line >= 8 THEN line - 5
              ELSE IF line > Cascade THEN line + 8 ELSE line

\* The lines that may interrupt the CPU now.
Deliverable ==
  {m \in requested \ masked :
     /\ m >= 8 => Cascade \notin masked
     /\ \A s \in in_service : Rank(m) < Rank(s)}

\* A non-specific EOI ends the interrupt in service of highest priority.
Acknowledge(lines) == {m \in lines : \E n \in lines : n < m}

-----------------------------------------------------------------------------
(* pic.c *)

pic_send_eoi_MasterOnly(irq) ==
  in_service' = {s \in in_service : s >= 8}
                  \cup Acknowledge({s \in in_service : s < 8})

\* EOI to the second controller for its own lines, and always to the first.
pic_send_eoi(irq) ==
  LET first  == {s \in in_service : s < 8}
      second == in_service \ first
  IN  in_service' = Acknowledge(first)
                      \cup (IF irq >= 8 THEN Acknowledge(second) ELSE second)

\* The controller of irq gets the mask value; the copy follows.
WriteMask(irq, value) ==
  /\ masked' = (masked \ Chip(irq)) \cup value
  /\ irq_mask' = (irq_mask \ Chip(irq)) \cup value

pic_mask_irq(irq) == WriteMask(irq, (masked \cap Chip(irq)) \cup {irq})

pic_unmask_irq(irq) == WriteMask(irq, (masked \cap Chip(irq)) \ {irq})

pic_set_irq_mask(mask) == irq_mask' = mask /\ masked' = mask

pic_disable == irq_mask' = Lines /\ masked' = Lines

\* The controllers are reset, the masks found in them put back, lines 0 and 1
\* masked and the cascade unmasked.
pic_init ==
  /\ initialized' = TRUE
  /\ masked' = ((masked \cup {0, 1}) \cap Lines) \ {Cascade}
  /\ irq_mask' = masked'
  /\ requested' = {} /\ in_service' = {}
  /\ UNCHANGED serving

-----------------------------------------------------------------------------
(* The interrupts *)

Request(line) ==
  /\ line # Cascade /\ requested' = requested \cup {line}
  /\ UNCHANGED <<initialized, masked, irq_mask, in_service, serving>>

\* The CPU takes the interrupt and enters interrupt_handler.
Accept ==
  /\ initialized /\ serving = NoLine
  /\ \E m \in Deliverable :
       /\ \A n \in Deliverable : Rank(m) <= Rank(n)
       /\ serving' = m /\ requested' = requested \ {m}
       /\ in_service' = in_service \cup {m}
                          \cup (IF m >= 8 THEN {Cascade} ELSE {})
  /\ UNCHANGED <<initialized, masked, irq_mask>>

interrupt_handler_Drains ==
  /\ serving # NoLine /\ requested = {}
  /\ pic_send_eoi(serving)
  /\ serving' = NoLine
  /\ UNCHANGED <<initialized, masked, irq_mask, requested>>

\* The handler, if there is one, has returned: the end of interrupt_handler.
interrupt_handler ==
  /\ serving # NoLine
  /\ pic_send_eoi(serving)
  /\ serving' = NoLine
  /\ UNCHANGED <<initialized, masked, irq_mask, requested>>

\* The firmware leaves any masks.
PICInit ==
  /\ initialized = FALSE
  /\ masked \in SUBSET Lines /\ irq_mask = Lines
  /\ requested = {} /\ in_service = {} /\ serving = NoLine

\* A call of the driver by the code that interrupts interrupt.
Call ==
  /\ initialized /\ serving = NoLine
  /\ \/ \E m \in Lines : pic_mask_irq(m) \/ pic_unmask_irq(m)
     \/ \E mask \in SUBSET Lines : pic_set_irq_mask(mask)
     \/ pic_disable
  /\ UNCHANGED <<initialized, requested, in_service, serving>>

-----------------------------------------------------------------------------
PICTypeOK ==
  /\ initialized \in BOOLEAN
  /\ masked \subseteq Lines /\ irq_mask \subseteq Lines
  /\ requested \subseteq Lines \ {Cascade} /\ in_service \subseteq Lines
  /\ serving \in Lines \cup {NoLine}

\* The driver and the controllers do not get out of step.  pic_get_irq_mask
\* reports what the controllers hold, after any sequence of calls that mask,
\* unmask, set or disable; and no interrupt stays in service once its handler
\* is through: what is in service is what the CPU serves.
InStep ==
  /\ initialized => irq_mask = masked
  /\ in_service = IF serving = NoLine THEN {}
                  ELSE {serving} \cup (IF serving >= 8 THEN {Cascade} ELSE {})
=============================================================================
