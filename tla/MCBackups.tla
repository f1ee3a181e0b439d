----------------------------- MODULE MCBackups -----------------------------
\* Tasks, file names and buckets are interchangeable (no property is temporal).
EXTENDS Backups, TLC

Symmetry == Permutations(Tasks) \cup Permutations(Paths) \cup Permutations(Buckets)
=============================================================================
