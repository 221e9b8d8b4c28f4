----------------------------- MODULE MCTreeLock -----------------------------
\* Two readers, two upgrades and the manager with two messages.
EXTENDS TreeLock

CONSTANTS r1, r2, s1, s2

MCReaders == {r1, r2}

MCSockets == {s1, s2}
=============================================================================
