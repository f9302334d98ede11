-------------------------------- MODULE Dio0 --------------------------------
(***************************************************************************)
(* What the SX1262, its interrupt handler and loop() share: the status     *)
(* register whose RX_DONE bit is the level of the DIO0 line, the interrupt *)
(* on the rising edge of that line, the flag the handler leaves for        *)
(* loop(), and how far loop() has got with it.                             *)
(***************************************************************************)

VARIABLES
    irq,            \* bits set in the IRQ status register
    attached,       \* DIO0 interrupt attached
    _dio0_pending,
    loop_pc         \* where loop() is: "top", "get", "clear", "read", "status", "dcd", "unmask"

(* unmaskDio0(): "re-attaching after the edge already happened won't          *)
(* retrigger it": while RX_DONE holds the line high no further edge comes, so *)
(* someone must already know of it.                                           *)
NoLostEdge ==
    "RX_DONE" \in irq => _dio0_pending \/ ~attached \/ loop_pc \in {"get", "clear"}
=============================================================================
