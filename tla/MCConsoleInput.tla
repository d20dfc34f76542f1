-------------------------- MODULE MCConsoleInput --------------------------
(* Instances of ConsoleInput for TLC. *)
EXTENDS ConsoleInput

\* Off, lines with a callback, single characters, pairs, up to the end
\* character.
MCRegistrations ==
  {Off} \cup
  {[uart_cb |-> TRUE, data_len |-> l, end_char |-> IF l < 0 THEN "CR" ELSE "NUL", run_input |-> FALSE] : l \in {-1, 0, 2}}
  \cup {[uart_cb |-> TRUE, data_len |-> -1, end_char |-> "CR", run_input |-> TRUE]}
=============================================================================
