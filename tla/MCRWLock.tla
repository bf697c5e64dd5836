------------------------------ MODULE MCRWLock --------------------------------
EXTENDS RWLock, TLC

Perms == Permutations(Thread)
===============================================================================
