---------------------------- MODULE MCAnchorCluster ----------------------------
EXTENDS AnchorCluster, TLC

NidSymmetry == Permutations(Nids)
=============================================================================
