------------------------------ MODULE MCSpares ------------------------------
EXTENDS SpareContest, TLC
CONSTANTS c1, c2, v1, v2, v3, n1, h1, h2
MCVolumes == (c1 :> {v1, v2}) @@ (c2 :> {v3})
MCRank    == (n1 :> 1) @@ (v3 :> 2) @@ (c2 :> 3) @@ (v2 :> 4) @@ (v1 :> 5) @@ (c1 :> 6)

\* The homes of h1 and h2, the groups that may lose disks, the containers for --grow.
Case(a, b, f, g) == [home |-> (h1 :> a) @@ (h2 :> b), fragile |-> f, grown |-> g]
MCScenario == {Case(c2, n1, {c1}, {c2}), Case(c1, c1, {n1, c1}, {}), Case(n1, n1, {n1, c1}, {}),
               Case(c1, n1, {c1}, {c1}),
               Case(n1, n1, {c1}, {c1})}
=============================================================================
