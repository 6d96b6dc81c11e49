----------------------------- MODULE AtomicStore -----------------------------
(***************************************************************************)
(* What withFileMutationLock promises of a file: each mutation takes the   *)
(* file from one value to the next in one step, whoever else mutates it.   *)
(* The promise lasts until the store is broken.                            *)
(***************************************************************************)
EXTENDS Naturals

CONSTANT Procs

VARIABLES value,   \* how many mutations of each process the file shows
          broken

Init == value = [p \in Procs |-> 0] /\ broken = FALSE

Mutate(p) == /\ ~broken
             /\ value' = [value EXCEPT ![p] = @ + 1]
             /\ UNCHANGED broken

Break == ~broken /\ broken' = TRUE /\ UNCHANGED value

Next == (\E p \in Procs : Mutate(p)) \/ Break \/ (broken /\ broken')

Spec == Init /\ [][Next]_<<value, broken>>
===============================================================================
