----------------------------- MODULE MCPruCore ------------------------------
(***************************************************************************)
(* Every program of three instructions over a set that lets a loop be      *)
(* empty, overlap the end of the program, be left, entered, repeated from  *)
(* inside, held, faulted and replaced.                                     *)
(***************************************************************************)
EXTENDS PruCore

Plain == {[op |-> o, target |-> 0, count |-> 0] :
            o \in {"alu", "mem", "xfr", "wait", "ring", "absent", "halt"}}
Branches == {[op |-> "qb", target |-> t, count |-> 0] : t \in 0..3}
              \cup {[op |-> "jmp", target |-> 2, count |-> 0]}
Loops == {[op |-> "loop", target |-> t, count |-> c] : t \in {1, 2, 3}, c \in {0, 1, 2}}

MCPrograms == [0..2 -> Plain \cup Branches \cup Loops]

Jumping == [op |-> "jmp", target |-> 2, count |-> 0]
Looping == [op |-> "loop", target |-> 2, count |-> 2]
MCReloads == {[i \in 0..2 |-> IF i = 1 THEN Looping ELSE Jumping]}
=============================================================================
