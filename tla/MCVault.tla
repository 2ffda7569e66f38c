------------------------------ MODULE MCVault ------------------------------
EXTENDS Vault, TLC

Symmetry == Permutations(Procs)
============================================================================
