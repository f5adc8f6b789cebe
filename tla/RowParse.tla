------------------------------ MODULE RowParse -------------------------------
(***************************************************************************)
(* What a row parser promises (spec sections 3 and 4.5), for either        *)
(* protocol: given one row the server sent, it delivers the row's values   *)
(* in column order, each the value the spec assigns to its cell, never     *)
(* changes a value it has delivered, and returns the row once the last     *)
(* column is delivered.  The row packet is immutable while it is parsed    *)
(* (spec section 3, Lifecycle), so what the row should hold never changes. *)
(***************************************************************************)
EXTENDS Naturals, Sequences

VARIABLES
  expected,   \* the values the spec assigns to the row's cells, in order
  row,        \* the values delivered so far
  status      \* "idle" before the parse, "parsing", "done" once returned

vars == <<expected, row, status>>

Init ==
  /\ row = <<>>
  /\ status = "idle"

(* The parser is compiled (or fetched) and its prologue runs.              *)
Start ==
  /\ status = "idle"
  /\ status' = "parsing"
  /\ UNCHANGED <<expected, row>>

(* The next column's value is delivered; after the last one the row is     *)
(* returned.                                                               *)
Deliver ==
  /\ status = "parsing"
  /\ Len(row) < Len(expected)
  /\ row' = Append(row, expected[Len(row) + 1])
  /\ status' = IF Len(row) + 1 = Len(expected) THEN "done" ELSE "parsing"
  /\ UNCHANGED expected

Next == Start \/ Deliver

Spec == Init /\ [][Next]_vars

=============================================================================
