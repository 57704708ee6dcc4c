------------------------------ MODULE SramState ------------------------------
(* The registers of a write-parking controller and the macro behind it.     *)
EXTENDS SramBlocks

VARIABLES c,                \* the controller's registers
          sram, sram_dout   \* the macro: its array and its output
==============================================================================
