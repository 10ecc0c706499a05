------------------------------ MODULE MCStitching ------------------------------
EXTENDS Stitching

L(k, i, p) == [kind |-> k, id |-> i, parent |-> p]

\* Parents a and b in different buckets and c, an item, in that of a; a variant
\* of a product that is missing.
MCIds == {"a", "b", "c", "x"}
MCBucket == [i \in MCIds |-> IF i = "b" THEN 1 ELSE 0]
MCLines == {L("product", "a", "x"), L("product", "b", "x"), L("item", "c", "x"),
            L("variant", "x", "a"), L("variant", "x", "b"), L("metafield", "x", "a"),
            L("level", "x", "c"), L("invalid", "x", "x")}

\* Every result of up to Longest lines, and every order of five in which the
\* caches overflow.
CONSTANT Longest    \* length of the results that are all tried
Five == <<L("product", "a", "x"), L("product", "b", "x"), L("variant", "x", "a"),
          L("variant", "x", "b"), L("metafield", "x", "a")>>
Orders == {f \in [1..5 -> 1..5] : \A i, j \in 1..5 : f[i] = f[j] => i = j}
MCFiles == UNION {[1..n -> MCLines] : n \in 1..Longest}
           \cup {[i \in 1..5 |-> Five[o[i]]] : o \in Orders}
=============================================================================
