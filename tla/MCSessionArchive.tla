--------------------------- MODULE MCSessionArchive ---------------------------
(***************************************************************************)
(* SessionArchive on small instances.                                      *)
(***************************************************************************)
EXTENDS SessionArchive

(* The other process alone encrypts, or both do.                           *)
NewPolicies == {Copies \ {First}, Copies}

(* Chunks that neither metadata nor a copy names are never read, and which *)
(* of them are left over makes no difference to what follows.              *)
Named == UNION ({Range(meta[f]) : f \in {g \in Formats : meta[g] # None}}
                \cup {Range(known[c]) : c \in Copies}
                \cup {Range(job[w].base) : w \in DOMAIN job})
NamedOnly ==
  <<keyed, open, pending, known, job, lock, meta, files \cap Named, era, told, history>>

(* Bounds the runs: nothing follows on a session whose two formats were    *)
(* left to differ, or whose messages are all excepted.                     *)
Followed == ~forked /\ tangled # Messages

===============================================================================
