----------------------------- MODULE MCMatches -----------------------------
(* Two matches of a product, two requests and two sweeps at once.          *)
EXTENDS Matches, TLC
Interchangeable ==
    Permutations(Rows) \union Permutations(Urls) \union Permutations(Sweeps) \union Permutations(Admins)
============================================================================
