-------------------------- MODULE MCStreamingState --------------------------
(* Two accounts, 1 with storage and 2 not there yet, and the prefixes that   *)
(* cover either or both (so chunks may follow, repeat or nest).  The stream  *)
(* may hold the parent's accounts, a changed one, or one for an address      *)
(* that has none.                                                            *)
EXTENDS StreamingState

Filled(v) == [s \in Slot |-> v]
Acc(i, v) == [info |-> i, storage_root |-> [map |-> Filled(v), canonical |-> TRUE]]

MCAddr == 1..2
MCRegions == {{1}, {2}, {1, 2}}
MCParent == [a \in MCAddr |-> IF a = 1 THEN Acc("i", "x") ELSE None]

MCHeaders == {[version |-> 2, chunk_count |-> n] : n \in 0..2} \cup
             {[version |-> 1, chunk_count |-> 1]}

Forged == {Acc("i", "x"), Acc("j", "x"), None}
ForgedMaps == [MCAddr -> Forged]
MCStateTries == [map : ForgedMaps, open : SUBSET MCAddr, bad : {{}}]
MCStorageTries == [map : {Filled("x"), Filled(Zero)}, open : SUBSET Slot, canonical : {TRUE}]

MCItems ==
  [kind : {"account"}, a : MCAddr, account : Forged] \cup
  [kind : {"storage"}, a : MCAddr] \cup
  [kind : {"bytecode"}, code : Code] \cup
  UNION {[kind : {"chunk"}, region : {r}, count : 0..1,
          expected : [map : {Below(m, r) : m \in ForgedMaps}, bad : {{}}]] :
           r \in MCRegions}

Change(i, d, v) == [info |-> i, destroyed |-> d, storage |-> Filled(v)]
Touch == Change("j", FALSE, Unknown)
Store == Change("i", FALSE, Zero)
Remove == Change(None, FALSE, Unknown)
Recreate == Change("j", TRUE, "x")
MCBundles ==
  {[a \in MCAddr |-> IF a = 1 THEN p[1] ELSE p[2]] :
     p \in {<<None, None>>, <<Touch, None>>, <<Touch, Touch>>, <<Store, None>>,
            <<Remove, Store>>, <<Recreate, None>>, <<None, Recreate>>}}

=============================================================================
