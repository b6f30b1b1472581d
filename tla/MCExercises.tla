----------------------------- MODULE MCExercises -----------------------------
(***************************************************************************)
(* All the programs, on page tables of six entries.                        *)
(***************************************************************************)
EXTENDS Exercises

MCPrograms == {"tp1", "tp2", "tp3", "tp4", "tp5", "tp_exam"}
=============================================================================
