---------------------------- MODULE MCChainGraph ----------------------------
EXTENDS ChainGraph

MCNodes == 1..4
MCBodies == {<<>>, <<1>>, <<2>>, <<3>>, <<4>>, <<1, 2>>, <<2, 3>>, <<3, 1>>}

\* No limit in the way, and each limit in the way by itself.
Unlimited == [max_depth |-> 3, max_nodes |-> 4, max_fanout |-> 2]
MCLimits == {Unlimited, [Unlimited EXCEPT !.max_depth = 1],
             [Unlimited EXCEPT !.max_nodes = 2], [Unlimited EXCEPT !.max_fanout = 1]}

\* Three contexts with all their bundles, roots and limits; and, for the paths of
\* different length that meet in one context, chains of four below two roots.
Three == 4 \notin roots /\ \A n \in DOMAIN refs : n # 4 /\ refs[n] # <<4>>
Chains == /\ Cardinality(roots) = 2 /\ limits = Unlimited
          /\ \A n \in DOMAIN refs : Len(refs[n]) = 1
MCGraphInit == GraphInit /\ (Three \/ Chains)
MCGraphSpec == MCGraphInit /\ [][GraphNext]_allVars /\ WF_allVars(GraphNext)

\* Both searches end, and the walk they follow kept the limits.
EndsWithinLimits == <>(Done /\ WithinLimits)
=============================================================================
