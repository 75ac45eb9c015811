----------------------------- MODULE MCLogRows -----------------------------
(* Two generations of one container and another container, two lines of    *)
(* different sizes, and caps that either line meets and both exceed.       *)
EXTENDS LogRows, TLC

CONSTANTS web1, web2, db1

MCKeys == {web1, web2, db1}
MCNames == {"web", "db"}
MCNameOf == [k \in MCKeys |-> IF k = db1 THEN "db" ELSE "web"]
MCSymmetry == Permutations({web1, web2})
MCSize == [i \in 1 .. MaxLines |-> IF i = 2 THEN 2 ELSE 1]
=============================================================================
