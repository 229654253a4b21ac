----------------------------- MODULE MCDaemons -------------------------------
EXTENDS Daemons, TLC

CONSTANTS d1, d2, jumblr, pangea, main, loop

\* d1 and d2 are two copies of one bundled agent, or one each of two.
MCCopies == (d1 :> jumblr) @@ (d2 :> jumblr)
MCAgents == (d1 :> jumblr) @@ (d2 :> pangea)

MCNoRequests == [d \in Daemons |-> 0]
=============================================================================
