----------------------------- MODULE MCFrontier -----------------------------
(* Keys that share one, two or no nibbles, so that the parent tries have a   *)
(* branch, an extension or a leaf at the root and below it.  "s" is short    *)
(* enough for inline references; one or two keys change.                     *)
EXTENDS Frontier

MCKeys == { <<0, 0, 0>>, <<0, 0, 1>>, <<0, 1, 1>>, <<0, 2, 1>>, <<1, 0, 0>> }
MCValueLength(v) == IF v = "s" THEN 1 ELSE 33

MCParents == UNION {[S -> {"l", "s"}] : S \in SUBSET MCKeys}
MCChanges == UNION {[{k} -> {"l", "s", Absent}] : k \in MCKeys} \cup
             UNION {[{k, l} -> {"l", Absent}] : k, l \in MCKeys}
MCLimits == { [max_nodes |-> 0, max_bytes |-> 0, max_keys |-> 0],
              [max_nodes |-> 3, max_bytes |-> 128, max_keys |-> 2] }
MCWeight == [k \in MCKeys |-> IF k[1] = 0 THEN 1 ELSE 2]

=============================================================================
