------------------------------ MODULE MCTerminals ------------------------------
(***************************************************************************)
(* Terminals on small instances.                                           *)
(***************************************************************************)
EXTENDS Terminals, TLC

Alike == Permutations(Runtimes)

(* The last start is followed while one runtime has the id to itself.      *)
Apart == registered < Starts \/ \E r \in Runtimes : copy[Memory(r)] = None

===============================================================================
