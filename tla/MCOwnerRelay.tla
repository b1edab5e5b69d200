---------------------------- MODULE MCOwnerRelay ----------------------------
(* Small instances of OwnerRelay: d1 and d2 deliver the same Telegram      *)
(* update, d3 another update, d4 a packet without an update id.            *)
EXTENDS OwnerRelay, TLC

CONSTANTS d1, d2, d3, d4, p1, p2

MCKeys == 7 .. 9
MCUpdateKeys == {7, 8}
MCKeyOf == [d \in Deliveries |-> IF d \in {d1, d2} THEN 7 ELSE IF d = d3 THEN 8 ELSE 9]
(* Every delivery its own update, for the order runs.                      *)
MCOwnKeys == 1 .. 4
MCOwnKeyOf == [d \in Deliveries |-> IF d = d1 THEN 1 ELSE IF d = d2 THEN 2 ELSE IF d = d3 THEN 3 ELSE 4]
MCSame == {<<k, k>> : k \in UpdateKeys}
MCSymmetry == Permutations(Drainers)
=============================================================================
