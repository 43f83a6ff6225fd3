--------------------------- MODULE ConfigHeader_MC ---------------------------
(* A program written with the driver header: Ku through its macro, then the  *)
(* control word.                                                             *)
EXTENDS ConfigPath_Spec

MCProgram == <<KU_CTL, 0>>
MCWords == {0, 9, 13, 17, 25}
=============================================================================
