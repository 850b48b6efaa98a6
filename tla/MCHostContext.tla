---------------------------- MODULE MCHostContext ----------------------------
EXTENDS HostContext, TLC

LaneSymmetry == Permutations(Lanes)
==============================================================================
