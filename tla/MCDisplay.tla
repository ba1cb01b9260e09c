----------------------------- MODULE MCDisplay ------------------------------
(***************************************************************************)
(* Display with consoles of a single cell, blank or with one of two        *)
(* letters, and a cursor that takes two positions.  Every text changes the *)
(* cell and moves the cursor.                                              *)
(***************************************************************************)
EXTENDS Display

MCCells == {"blank", "a", "b"}
MCCursor == {0, 1}
MCHome == 0

MCPutC(k, c) ==
  [cells |-> CASE k.cells = "blank" -> "a" [] k.cells = "a" -> "b" [] OTHER -> c,
   cursor |-> 1 - k.cursor]
=============================================================================
