------------------------------ MODULE MCArena ------------------------------
EXTENDS Arena, TLC
CONSTANTS s1, s2
TwoAndOne == s1 :> 2 @@ s2 :> 1
OneWarm == s1 :> {"cold", "warm"} @@ s2 :> {"cold"}
=============================================================================
