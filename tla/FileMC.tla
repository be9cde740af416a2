------------------------------- MODULE FileMC -------------------------------
EXTENDS FileVersions, TLC
CONSTANTS f1, f2, v1, v2, v3, s1, r1, r2, r3
VersionSymmetry == Permutations(Versions)
=============================================================================
