---------------------------- MODULE StreamLifecycle ----------------------------
(***************************************************************************)
(* What a client needs of moonlight-common-c's connection: a stack of      *)
(* layers that is climbed one layer at a time, and that, once it has begun *)
(* to come down, comes all the way down before it is climbed again.  No    *)
(* threads, no flags: only how high the stack is and which way it moves.   *)
(***************************************************************************)
EXTENDS Naturals

CONSTANT Top          \* the number of layers

VARIABLES height,     \* how many layers are up
          descending  \* whether the stack is being taken down

vars == <<height, descending>>

Init == height = 0 /\ descending = FALSE

Push == /\ ~descending
        /\ height < Top
        /\ height' = height + 1
        /\ UNCHANGED descending

Turn == /\ ~descending
        /\ descending' = TRUE
        /\ UNCHANGED height

Pop == /\ descending
       /\ height > 0
       /\ height' = height - 1
       /\ UNCHANGED descending

Rest == /\ descending
        /\ height = 0
        /\ descending' = FALSE
        /\ UNCHANGED height

Next == Push \/ Turn \/ Pop \/ Rest

\* A descent, once begun, is finished.
Spec == Init /\ [][Next]_vars /\ WF_vars(Pop) /\ WF_vars(Rest)
===============================================================================
