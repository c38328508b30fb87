---------------------------- MODULE MCHostStream ----------------------------
(* Three addresses, of which 1 has storage, 2 is new and 3 has no storage,  *)
(* under the prefixes {1}, {2, 3} and the empty one.                        *)
EXTENDS HostStream

Filled(v) == [s \in Slot |-> v]
Acc(i, v) == [info |-> i, storage_root |-> [map |-> Filled(v), canonical |-> TRUE]]

MCAddr == 1..3
MCRegions == {{1}, {2, 3}, {1, 2, 3}}
MCParent == [a \in MCAddr |-> CASE a = 1 -> Acc("i", "x") [] a = 2 -> None
                                [] a = 3 -> Acc("i", Zero)]

Change(i, d, v) == [info |-> i, destroyed |-> d, storage |-> Filled(v)]
Touch == Change("j", FALSE, Unknown)
Store == Change("i", FALSE, Zero)
Fill == Change("i", FALSE, "x")
Drop == Change(None, FALSE, Unknown)
Recreate == Change("j", TRUE, "x")
MCBundles ==
  {[a \in MCAddr |-> p[a]] :
     p \in {<<None, None, None>>, <<Touch, None, Touch>>, <<Store, Fill, None>>,
            <<Drop, Touch, None>>, <<Recreate, None, None>>, <<None, Recreate, Fill>>}}

=============================================================================
