------------------------------- MODULE MCDemo -------------------------------
\* One machine, P0 on the first of two nodes and P1 on the other.
EXTENDS Demo, FiniteSets

CONSTANTS n1, n2, P0, P1, here, there, loopback

MCNodeKeys == <<n1, n2>>
MCProcessNode == [p \in {P0, P1} |-> IF p = P0 THEN n1 ELSE n2]
MCStartRank == [p \in {P0, P1} |-> IF p = P0 THEN 2 ELSE 1]

\* One run at most is killed, cut short or leaves a program unlisted.
MCOneCutOff ==
    Cardinality(killed) + Cardinality(cut_short) + Cardinality(unlisted) <= 1

\* This machine is the one or the other of two, or the only one for a dry run.
MCEntries == {[n \in {n1, n2} |-> IF n = n1 THEN here ELSE there],
              [n \in {n1, n2} |-> IF n = n1 THEN there ELSE here],
              [n \in {n1, n2} |-> loopback]}

=============================================================================
