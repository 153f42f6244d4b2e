------------------------------ MODULE SaveStore ------------------------------
(***************************************************************************)
(* What the flash log promises about the save a boot would find: it is the *)
(* save that was there before, or none, or - only when a save ends - the   *)
(* save that ended.  A save in progress is never readable.                 *)
(***************************************************************************)
CONSTANT Saves

VARIABLES
    readable,    \* the save a boot would restore: a set of at most one
    writing      \* the save in progress: a set of at most one

Init == readable = {} /\ writing = {}

Begin == /\ writing = {} /\ readable' = readable
         /\ \E v \in Saves : writing' = {v}

\* A word of the save is written: what was readable stays or is given up.
Work == /\ writing # {} /\ writing' = writing
        /\ readable' \in {readable, {}}

\* The last word is written, or the power fails.
End == /\ writing # {} /\ writing' = {}
       /\ readable' \in {readable, {}, writing}

Next == Begin \/ Work \/ End

Spec == Init /\ [][Next]_<<readable, writing>>
=============================================================================
