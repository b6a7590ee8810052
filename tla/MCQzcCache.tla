---------------------------- MODULE MCQzcCache -----------------------------
EXTENDS QzcCache, TLC

CONSTANTS Main, Leaf, Other, Mod, Toml, Qzi, d0, d1, d2, only, good, fixed, bad, t1, t2, v1, v2

\* The entry source changes its declarations, the others their bodies.
MCTexts == [s \in Sources |-> IF s = Root THEN [sig : {d1, d2}, body : {only}]
                                          ELSE [sig : {d0}, body : {good, fixed, bad}]]
\* Every source has one text.
RouteTexts == [s \in Sources |-> [sig : {d0}, body : {only}]]

Alike == Permutations({d1, d2}) \union Permutations({good, fixed}) \union Permutations(Settings)
           \union Permutations(Revisions) \union Permutations(Builders)
=============================================================================
