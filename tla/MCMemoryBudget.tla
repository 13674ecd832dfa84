-------------------------- MODULE MCMemoryBudget --------------------------
EXTENDS MemoryBudget, TLC
CONSTANTS s1, s2, s3
LargeAndSmall == s1 :> 4 @@ s2 :> 2 @@ s3 :> 1
=============================================================================
