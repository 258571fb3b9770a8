------------------------------ MODULE MCCommands ------------------------------
(***************************************************************************)
(* A small instance of Commands: c1 is a command that is repeated when it  *)
(* fails, c2 uses its key for another input, c3 is a command of its own.   *)
(***************************************************************************)
EXTENDS Commands, TLC

CONSTANTS c1, c2, c3, k1, k2

Keys == [c \in Call |-> IF c = c3 THEN k2 ELSE k1]
Expiries == [k \in Key |-> IF k = k1 THEN 1 ELSE 0]
Inputs == [c \in Call |-> IF c = c2 THEN "other" ELSE "same"]
=============================================================================
