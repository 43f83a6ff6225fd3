---------------------------- MODULE ConfigPath_MC ----------------------------
(* Stores of every kind sem.c makes: Ku, both limits, coefficients, control. *)
(* Between them the bus shows a word of every block, and one past the        *)
(* coefficients.                                                             *)
EXTENDS ConfigPath_Spec

MCProgram == <<16, 24, 25, 8, 9, 0>>
MCWords == {0, 9, 13, 17, 25}

\* The theorems about this component speak of programs like this one.
ASSUME ProgramIsFirmware == Firmware
=============================================================================
