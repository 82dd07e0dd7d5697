--------------------------- MODULE MCMoveLeadership ---------------------------
EXTENDS MoveLeadership

CONSTANTS p1, p2

MCPartitions == {p1, p2}
\* "10" and "11" begin with "1".
MCCluster == {1, 10, 11}

\* The brokers that stay; a cluster of one broker; one that a broker has joined.
MCRanges == {10..11, 1..1, 1..2}

===============================================================================
