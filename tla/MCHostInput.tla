---------------------------- MODULE MCHostInput -----------------------------
(* Two branches that part at height 1.  The contract has other code and    *)
(* another value on each, the second account exists on one only.           *)
EXTENDS HostInput

CONSTANTS contract, other, s1, c0, c1, c2

MCAddresses == {contract, other}
MCSlots == {s1}
MCCodes == {c0, c1, c2}
MCTip == [b \in {0, 1} |-> IF b = 0 THEN 4 ELSE 2]
MCAccountOf ==
  [b \in {0, 1} |-> [a \in MCAddresses |->
     IF a = contract THEN [nonce |-> 1, code |-> IF b = 0 THEN c1 ELSE c2]
     ELSE [nonce |-> b, code |-> c0]]]
MCStorageOf ==
  [b \in {0, 1} |-> [a \in MCAddresses |->
     [s \in MCSlots |-> IF a = contract THEN b + 1 ELSE 0]]]
=============================================================================
