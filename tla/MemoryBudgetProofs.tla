------------------------- MODULE MemoryBudgetProofs -------------------------
(***************************************************************************)
(* Theorems about MemoryBudget, for any slots, sizes of heaps and of       *)
(* slots, and for any order and failure of the reclaims.                   *)
(*                                                                         *)
(* The first part is the arithmetic of Total, which the model defines by a *)
(* fold: a total is the number of bytes in a pile, so that what is known   *)
(* of finite sets tells how it changes when one slot does.  The rest is    *)
(* one inductive invariant, IInv: Memory, what is where; Book, the types   *)
(* of the request and of the reclaim; Flow, which reclaims and returns go  *)
(* with which request; and Promised itself.                                *)
(***************************************************************************)
EXTENDS MemoryBudget, FiniteSetTheorems, WellFoundedInduction, TLAPS

-----------------------------------------------------------------------------
(* Totals                                                                  *)

Pick(T) == CHOOSE x \in T : TRUE

LEMMA Least ==
  ASSUME NEW N \in SUBSET Nat, N # {}
  PROVE  \E n \in N : \A m \in N : n <= m
<1>1. PICK n \in N : \A m \in N : ~ (<<m, n>> \in OpToRel(<, Nat))
  BY NatLessThanWellFounded, WFMin
<1>2. ASSUME NEW m \in N PROVE n <= m
  <2>1. ~(m < n)
    BY <1>1 DEF OpToRel
  <2> QED
    BY <2>1
<1> QED
  BY <1>2

\* What holds of the empty set, and of a set when it holds without the member picked
\* first, holds of every subset of a finite set.
LEMMA Picking ==
  ASSUME NEW S, IsFiniteSet(S), NEW Good \in SUBSET (SUBSET S),
         \A T \in SUBSET S : T = {} \/ T \ {Pick(T)} \in Good => T \in Good
  PROVE  \A T \in SUBSET S : T \in Good
<1> DEFINE Bad == {T \in SUBSET S : T \notin Good}
           Sizes == {Cardinality(T) : T \in Bad}
<1>1. \A T \in SUBSET S : IsFiniteSet(T) /\ Cardinality(T) \in Nat
  BY FS_Subset, FS_CardinalityType
<1>2. Sizes \subseteq Nat
  BY <1>1
<1> SUFFICES ASSUME Bad # {} PROVE FALSE
  OBVIOUS
<1>3. PICK n \in Sizes : \A m \in Sizes : n <= m
  <2>1. Sizes # {}
    OBVIOUS
  <2> QED
    BY <1>2, <2>1, Least
<1>4. PICK T \in Bad : n = Cardinality(T)
  OBVIOUS
<1>5. T # {} /\ T \ {Pick(T)} \in Bad
  OBVIOUS
<1>6. Pick(T) \in T
  BY <1>5 DEF Pick
<1>7. Cardinality(T \ {Pick(T)}) = Cardinality(T) - 1
  BY <1>1, <1>6, FS_RemoveElement
<1>8. Cardinality(T \ {Pick(T)}) \in Sizes
  BY <1>5
<1>9. Cardinality(T \ {Pick(T)}) < n /\ n \in Nat /\ Cardinality(T \ {Pick(T)}) \in Nat
  BY <1>1, <1>4, <1>5, <1>7
<1> QED
  BY <1>3, <1>8, <1>9

\* As many bytes for each member as f says.
Pile(f, S) == UNION {{x} \X (1..f[x]) : x \in S}

LEMMA PileWithout ==
  ASSUME NEW f, NEW S, NEW x \in S
  PROVE  /\ Pile(f, S) = Pile(f, S \ {x}) \cup ({x} \X (1..f[x]))
         /\ Pile(f, S \ {x}) \cap ({x} \X (1..f[x])) = {}
BY DEF Pile

LEMMA SharePile ==
  ASSUME NEW x, NEW n \in Nat
  PROVE  IsFiniteSet({x} \X (1..n)) /\ Cardinality({x} \X (1..n)) = n
<1>1. IsFiniteSet(1..n) /\ Cardinality(1..n) = n
  BY FS_Interval
<1>2. IsFiniteSet({x}) /\ Cardinality({x}) = 1
  BY FS_Singleton
<1>3. /\ IsFiniteSet({x} \X (1..n))
      /\ Cardinality({x} \X (1..n)) = Cardinality({x}) * Cardinality(1..n)
  BY <1>1, <1>2, FS_Product
<1>4. Cardinality({x} \X (1..n)) = 1 * n
  BY <1>1, <1>2, <1>3
<1> QED
  BY <1>3, <1>4

LEMMA PileFinite ==
  ASSUME NEW S, IsFiniteSet(S), NEW f, \A x \in S : f[x] \in Nat
  PROVE  \A T \in SUBSET S : IsFiniteSet(Pile(f, T))
<1> DEFINE Good == {T \in SUBSET S : IsFiniteSet(Pile(f, T))}
<1>1. \A x \in S : IsFiniteSet({x} \X (1..f[x]))
  BY SharePile
<1>2. ASSUME NEW T \in SUBSET S, T = {} \/ T \ {Pick(T)} \in Good PROVE T \in Good
  <2>1. CASE T = {}
    <3>1. Pile(f, {}) = {}
      BY DEF Pile
    <3> QED
      BY <2>1, <3>1, FS_EmptySet
  <2>2. CASE T # {}
    <3>1. Pick(T) \in T
      BY <2>2 DEF Pick
    <3>2. PICK x : x = Pick(T)
      OBVIOUS
    <3>3. IsFiniteSet(Pile(f, T \ {x})) /\ IsFiniteSet({x} \X (1..f[x]))
      BY <1>1, <1>2, <2>2, <3>1, <3>2
    <3>4. Pile(f, T) = Pile(f, T \ {x}) \cup ({x} \X (1..f[x]))
      BY <3>1, <3>2, PileWithout
    <3>5. IsFiniteSet(Pile(f, T \ {x}) \cup ({x} \X (1..f[x])))
      BY <3>3, FS_Union
    <3> QED
      BY <3>4, <3>5
  <2> QED
    BY <2>1, <2>2
<1> HIDE DEF Good
<1>3. Good \in SUBSET (SUBSET S)
  BY DEF Good
<1>4. \A T \in SUBSET S : T \in Good
  BY <1>2, <1>3, Picking
<1> QED
  BY <1>4 DEF Good

LEMMA PileCounts ==
  ASSUME NEW S, IsFiniteSet(S), NEW f, \A x \in S : f[x] \in Nat, NEW T \in SUBSET S
  PROVE  /\ Cardinality(Pile(f, T)) \in Nat
         /\ \A x \in T : Cardinality(Pile(f, T)) = f[x] + Cardinality(Pile(f, T \ {x}))
<1>1. \A U \in SUBSET S : IsFiniteSet(Pile(f, U)) /\ Cardinality(Pile(f, U)) \in Nat
  BY PileFinite, FS_CardinalityType
<1>2. ASSUME NEW x \in T PROVE Cardinality(Pile(f, T)) = f[x] + Cardinality(Pile(f, T \ {x}))
  <2>1. f[x] \in Nat
    OBVIOUS
  <2>2. IsFiniteSet({x} \X (1..f[x])) /\ Cardinality({x} \X (1..f[x])) = f[x]
    BY <2>1, SharePile
  <2>3. Cardinality(Pile(f, T \ {x}) \cap ({x} \X (1..f[x]))) = 0
    BY PileWithout, FS_EmptySet
  <2>4. IsFiniteSet(Pile(f, T \ {x})) /\ Cardinality(Pile(f, T \ {x})) \in Nat
    BY <1>1
  <2>5. Cardinality(Pile(f, T \ {x}) \cup ({x} \X (1..f[x])))
          = Cardinality(Pile(f, T \ {x})) + Cardinality({x} \X (1..f[x]))
            - Cardinality(Pile(f, T \ {x}) \cap ({x} \X (1..f[x])))
    BY <2>2, <2>4, FS_Union
  <2>6. Pile(f, T) = Pile(f, T \ {x}) \cup ({x} \X (1..f[x]))
    BY PileWithout
  <2>7. Cardinality(Pile(f, T)) = Cardinality(Pile(f, T \ {x})) + f[x] - 0
    BY <2>2, <2>3, <2>5, <2>6
  <2> QED
    BY <2>1, <2>4, <2>7
<1> QED
  BY <1>1, <1>2

LEMMA TotalIsPile ==
  ASSUME NEW S, IsFiniteSet(S), NEW f, \A x \in S : f[x] \in Nat
  PROVE  Total(f, S) = Cardinality(Pile(f, S))
<1> DEFINE Body(g) == [T \in SUBSET S |->
                         IF T = {} THEN 0 ELSE f[Pick(T)] + g[T \ {Pick(T)}]]
           sum == CHOOSE g : g = Body(g)
           pile == [T \in SUBSET S |-> Cardinality(Pile(f, T))]
<1>1. Total(f, S) = sum[S]
  BY DEF Total, FoldSet, MapThenFoldSet, Pick
<1>2. \A T \in SUBSET S : T # {} => Pick(T) \in T
  BY DEF Pick
<1>3. Pile(f, {}) = {} /\ Cardinality({}) = 0
  BY FS_EmptySet DEF Pile
<1>4. ASSUME NEW T \in SUBSET S
      PROVE  pile[T] = IF T = {} THEN 0 ELSE f[Pick(T)] + pile[T \ {Pick(T)}]
  <2>1. CASE T = {}
    BY <1>3, <2>1
  <2>2. CASE T # {}
    <3>1. PICK x \in T : x = Pick(T)
      BY <1>2, <2>2
    <3>2. Cardinality(Pile(f, T)) = f[x] + Cardinality(Pile(f, T \ {x}))
      BY PileCounts
    <3>3. T \ {x} \in SUBSET S
      OBVIOUS
    <3> QED
      BY <2>2, <3>1, <3>2, <3>3
  <2> QED
    BY <2>1, <2>2
<1>5. pile = Body(pile)
  BY <1>4
<1>6. sum = Body(sum)
  BY <1>5
<1> DEFINE Good == {T \in SUBSET S : sum[T] = pile[T]}
<1> HIDE DEF sum, pile
<1>7. ASSUME NEW T \in SUBSET S, T = {} \/ T \ {Pick(T)} \in Good PROVE T \in Good
  <2>1. sum[T] = IF T = {} THEN 0 ELSE f[Pick(T)] + sum[T \ {Pick(T)}]
    BY <1>6
  <2> QED
    BY <1>4, <1>7, <2>1
<1> HIDE DEF Good
<1>8. Good \in SUBSET (SUBSET S)
  BY DEF Good
<1>9. \A T \in SUBSET S : T \in Good
  BY <1>7, <1>8, Picking
<1>10. sum[S] = pile[S]
  BY <1>9 DEF Good
<1> QED
  BY <1>1, <1>10 DEF pile

LEMMA TotalOf ==
  ASSUME NEW f \in [Slots -> Nat], NEW S \in SUBSET Slots
  PROVE  /\ Total(f, S) \in Nat
         /\ \A x \in S : Total(f, S) = f[x] + Total(f, S \ {x})
<1>1. \A T \in SUBSET S : IsFiniteSet(T) /\ Total(f, T) = Cardinality(Pile(f, T))
  <2> SUFFICES ASSUME NEW T \in SUBSET S
               PROVE  IsFiniteSet(T) /\ Total(f, T) = Cardinality(Pile(f, T))
    OBVIOUS
  <2>1. IsFiniteSet(T)
    BY BudgetAssumption, FS_Subset DEF BudgetAssumption
  <2> QED
    BY <2>1, TotalIsPile
<1>2. /\ Cardinality(Pile(f, S)) \in Nat
      /\ \A x \in S : Cardinality(Pile(f, S)) = f[x] + Cardinality(Pile(f, S \ {x}))
  BY <1>1, PileCounts
<1> QED
  BY <1>1, <1>2

LEMMA TotalSame ==
  ASSUME NEW f \in [Slots -> Nat], NEW g \in [Slots -> Nat], NEW S \in SUBSET Slots,
         \A x \in S : f[x] = g[x]
  PROVE  Total(f, S) = Total(g, S)
<1>1. IsFiniteSet(S)
  BY BudgetAssumption, FS_Subset DEF BudgetAssumption
<1>2. Pile(f, S) = Pile(g, S)
  BY DEF Pile
<1> QED
  BY <1>1, <1>2, TotalIsPile

\* One slot changes.
LEMMA TotalSet ==
  ASSUME NEW f \in [Slots -> Nat], NEW S \in SUBSET Slots, NEW x \in Slots, NEW v \in Nat
  PROVE  /\ Set(f, x, v) \in [Slots -> Nat]
         /\ Total(f, S) \in Nat /\ Total(Set(f, x, v), S) \in Nat
         /\ x \in S => /\ f[x] <= Total(f, S)
                       /\ Total(Set(f, x, v), S) = Total(f, S) - f[x] + v
         /\ x \notin S => Total(Set(f, x, v), S) = Total(f, S)
<1>1. PICK g : g = Set(f, x, v)
  OBVIOUS
<1>2. g \in [Slots -> Nat] /\ g[x] = v /\ \A y \in Slots : y # x => g[y] = f[y]
  BY <1>1 DEF Set
<1>3. Total(f, S) \in Nat /\ Total(g, S) \in Nat
  BY <1>2, TotalOf
<1>4. CASE x \in S
  <2>1. Total(f, S) = f[x] + Total(f, S \ {x}) /\ Total(g, S) = g[x] + Total(g, S \ {x})
    BY <1>2, <1>4, TotalOf
  <2>2. Total(f, S \ {x}) = Total(g, S \ {x}) /\ Total(f, S \ {x}) \in Nat
    BY <1>2, TotalSame, TotalOf
  <2>3. f[x] \in Nat
    OBVIOUS
  <2> QED
    BY <1>1, <1>2, <1>3, <1>4, <2>1, <2>2, <2>3
<1>5. CASE x \notin S
  <2>1. Total(g, S) = Total(f, S)
    BY <1>2, <1>5, TotalSame
  <2> QED
    BY <1>1, <1>2, <1>3, <1>5, <2>1
<1> QED
  BY <1>4, <1>5

LEMMA TotalOfNothing ==
  ASSUME NEW S \in SUBSET Slots
  PROVE  Total([s \in Slots |-> 0], S) = 0
<1>1. IsFiniteSet(S)
  BY BudgetAssumption, FS_Subset DEF BudgetAssumption
<1>2. Pile([s \in Slots |-> 0], S) = {}
  BY DEF Pile
<1>3. Cardinality({}) = 0
  BY FS_EmptySet
<1>4. \A x \in S : [s \in Slots |-> 0][x] \in Nat
  OBVIOUS
<1> QED
  BY <1>1, <1>2, <1>3, <1>4, TotalIsPile

-----------------------------------------------------------------------------
(* What is where                                                           *)

Temps == {"cold", "wants", "warm", "hot"}
Memory ==
  /\ temp \in [Slots -> Temps]
  /\ near \in [Slots -> Nat] /\ far \in [Slots -> Nat]
  /\ Total(near, Slots) <= EspHeap

Places == Stages \cup {"idle", "ensure", "yes", "no", "ship", "suppressed", "local", "announce",
                       "split", "here", "remote", "store", "cleanout", "cleanWarm", "cleanCold"}
Book == pc \in Places /\ req \in ReqType /\ ask \in AskType /\ ask.want <= ask.need

LEMMA TypeParts == TypeOK /\ Fits <=> Memory /\ Book
BY DEF TypeOK, Fits, Memory, Book, Temps, Places

LEMMA Constants ==
  /\ StmHeap \in Nat /\ EspHeap \in Nat /\ Buffer \in Nat /\ SplitMin \in Nat /\ Excess \in Nat
  /\ StmHeap - Buffer \in Nat /\ EspHeap - Buffer \in Nat
BY BudgetAssumption DEF BudgetAssumption

LEMMA Small ==
  ASSUME NEW a \in Nat, NEW b \in Nat
  PROVE  /\ Lesser(a, b) \in Nat /\ Lesser(a, b) <= a /\ Lesser(a, b) <= b
         /\ Minus(a, b) \in Nat /\ Minus(a, b) <= a /\ (b <= a => Minus(a, b) = a - b)
         /\ a <= b + Minus(a, b)
BY DEF Lesser, Minus

LEMMA FreeRoom ==
  ASSUME Memory
  PROVE  Free \in Nat /\ Total(near, Slots) \in Nat /\ Free + Total(near, Slots) = EspHeap
<1>1. Total(near, Slots) \in Nat
  BY TotalOf DEF Memory
<1> QED
  BY <1>1, Constants DEF Memory, Free, Minus

\* A slot's near bytes may become fewer, or more by what is free.
LEMMA NearChanges ==
  ASSUME Memory, NEW s \in Slots, NEW v \in Nat, v <= near[s] + Free, near' = Set(near, s, v)
  PROVE  near' \in [Slots -> Nat] /\ Total(near', Slots) <= EspHeap
<1>1. PICK n : n = near'
  OBVIOUS
<1>2. /\ n \in [Slots -> Nat] /\ Total(n, Slots) \in Nat
      /\ near[s] <= Total(near, Slots) /\ Total(n, Slots) = Total(near, Slots) - near[s] + v
  BY <1>1, TotalSet DEF Memory
<1>3. near[s] \in Nat
  BY DEF Memory
<1>4. Total(n, Slots) <= EspHeap
  BY <1>2, <1>3, FreeRoom, Constants
<1> QED
  BY <1>1, <1>2, <1>4

LEMMA FarChanges ==
  ASSUME Memory, NEW s \in Slots, NEW v \in Nat, far' = Set(far, s, v)
  PROVE  far' \in [Slots -> Nat]
BY TotalSet DEF Memory, Set

LEMMA TempChanges ==
  ASSUME Memory, NEW s \in Slots, NEW t \in Temps
  PROVE  Set(temp, s, t) \in [Slots -> Temps]
BY DEF Memory, Set

LEMMA MemoryStep == Memory /\ Book /\ [Next]_vars => Memory'
<1> SUFFICES ASSUME Memory, Book, [Next]_vars PROVE Memory'
  OBVIOUS
<1>a. ASSUME UNCHANGED <<near, far>>, temp' = temp \/ \E s \in Slots, t \in Temps : temp' = Set(temp, s, t)
      PROVE  Memory'
  BY <1>a, TempChanges DEF Memory
<1>b. ASSUME NEW s \in Slots, NEW n \in Nat, NEW m \in Nat, n <= near[s] + Free,
             temp' = temp \/ \E t \in Temps : temp' = Set(temp, s, t),
             near' = Set(near, s, n) \/ near' = near, far' = Set(far, s, m) \/ far' = far
      PROVE  Memory'
  <2>1. near' \in [Slots -> Nat] /\ Total(near', Slots) <= EspHeap
    BY <1>b, NearChanges DEF Memory
  <2>2. far' \in [Slots -> Nat]
    BY <1>b, FarChanges DEF Memory
  <2>3. temp' \in [Slots -> Temps]
    BY <1>b, TempChanges DEF Memory
  <2> QED
    BY <2>1, <2>2, <2>3 DEF Memory
<1>c. /\ req.slot \in Slots /\ req.temp \in Temps /\ {"wants", "warm", "cold"} \subseteq Temps
      /\ req.size \in Nat /\ req.was \in Nat
      /\ Cool \subseteq Temps
  BY DEF Book, ReqType, Temps, Cool
<1>d. \A s \in Slots : near[s] \in Nat /\ far[s] \in Nat
  BY DEF Memory
<1>1. CASE \/ Ensure \/ StageOver \/ Granted \/ RewarmOver \/ Announce \/ StorageRefused
           \/ GrowRemote \/ Cleanout \/ CleanOver \/ UNCHANGED vars
           \/ \E s \in Slots : \/ \E t \in {"warm", "hot"} : Heat(s, t)
                               \/ \E n \in 0..MaxSize[s] : Grow(s, n)
  <2>1. CASE Ensure \/ StageOver \/ Granted \/ RewarmOver \/ Announce
    BY <1>a, <2>1 DEF Ensure, StageOver, Granted, RewarmOver, Announce
  <2>2. CASE StorageRefused \/ GrowRemote \/ Cleanout \/ CleanOver \/ UNCHANGED vars
    BY <1>a, <2>2 DEF StorageRefused, GrowRemote, Cleanout, CleanOver, vars
  <2>3. ASSUME NEW s \in Slots, NEW t \in {"warm", "hot"}, Heat(s, t) PROVE Memory'
    BY <1>a, <2>3 DEF Heat
  <2>4. ASSUME NEW s \in Slots, NEW n \in 0..MaxSize[s], Grow(s, n) PROVE Memory'
    BY <1>a, <2>4 DEF Grow
  <2> QED
    BY <1>1, <2>1, <2>2, <2>3, <2>4
<1>2. CASE \/ HeatRefused \/ GrowRefused
           \/ \E s \in Slots : CoolWarm(s) \/ Chill(s) \/ GiveUpWarm(s) \/ Rewarm(s)
  <2>1. UNCHANGED <<near, far>>
    <3>1. CASE HeatRefused \/ GrowRefused
      BY <3>1 DEF HeatRefused, GrowRefused
    <3>2. ASSUME NEW s \in Slots, CoolWarm(s) \/ Chill(s) \/ GiveUpWarm(s) \/ Rewarm(s)
          PROVE  UNCHANGED <<near, far>>
      BY <3>2 DEF CoolWarm, Chill, GiveUpWarm, Rewarm
    <3> QED
      BY <1>2, <3>1, <3>2
  <2>2. temp' = temp \/ \E s \in Slots, t \in Temps : temp' = Set(temp, s, t)
    <3>1. CASE HeatRefused \/ GrowRefused
      BY <1>c, <3>1 DEF HeatRefused, GrowRefused
    <3>2. ASSUME NEW s \in Slots, CoolWarm(s) \/ Chill(s) \/ GiveUpWarm(s) \/ Rewarm(s)
          PROVE  \E t \in Temps : temp' = temp \/ temp' = Set(temp, s, t)
      BY <1>c, <3>2 DEF CoolWarm, Chill, GiveUpWarm, Rewarm
    <3> QED
      BY <1>2, <3>1, <3>2
  <2> QED
    BY <1>a, <2>1, <2>2
<1>3. ASSUME NEW n \in Bytes, Ship(n) PROVE Memory'
  <2>1. n \in Nat /\ n <= near[req.slot]
    BY <1>3 DEF Ship, Bytes
  <2>2. PICK a \in Nat, b \in Nat : a = near[req.slot] - n /\ b = far[req.slot] + n
    BY <1>c, <1>d, <2>1
  <2>3. a <= near[req.slot] + Free
    BY <1>c, <1>d, <2>1, <2>2, FreeRoom
  <2>4. /\ near' = near \/ near' = Set(near, req.slot, a)
        /\ far' = far \/ far' = Set(far, req.slot, b)
        /\ temp' = temp \/ temp' = Set(temp, req.slot, req.temp) \/ temp' = Set(temp, req.slot, "wants")
    BY <1>3, <2>2 DEF Ship
  <2> QED
    BY <1>b, <1>c, <2>3, <2>4
<1>4. ASSUME NEW s \in Slots, NEW n \in Bytes, FetchCold(s, n) \/ MoveOut(s, n) \/ CleanMove(s, n)
      PROVE Memory'
  <2>1. \/ n <= far[s] /\ n <= Free /\ near' = Set(near, s, near[s] + n) /\ far' = Set(far, s, far[s] - n)
        \/ n <= near[s] /\ near' = Set(near, s, near[s] - n) /\ far' = Set(far, s, far[s] + n)
        \/ UNCHANGED <<near, far>>
    <3>1. n \in Nat /\ ask.goal \in Nat
      BY DEF Bytes, Book, AskType
    <3>2. CASE FetchCold(s, n)
      <4>1. n <= Lesser(ask.goal, far[s])
        BY <3>2 DEF FetchCold
      <4>2. n <= far[s]
        <5>1. far[s] \in Nat
          BY <1>d
        <5>2. Lesser(ask.goal, far[s]) \in Nat /\ Lesser(ask.goal, far[s]) <= far[s]
          BY <3>1, <5>1, Small
        <5> QED
          BY <3>1, <4>1, <5>1, <5>2
      <4> QED
        BY <3>2, <4>2 DEF FetchCold
    <3>3. CASE MoveOut(s, n)
      BY <3>3 DEF MoveOut
    <3>4. CASE CleanMove(s, n)
      <4>1. n <= Lesser(ask.goal, near[s])
        BY <3>4 DEF CleanMove
      <4>2. n <= near[s]
        <5>1. near[s] \in Nat
          BY <1>d
        <5>2. Lesser(ask.goal, near[s]) \in Nat /\ Lesser(ask.goal, near[s]) <= near[s]
          BY <3>1, <5>1, Small
        <5> QED
          BY <3>1, <4>1, <5>1, <5>2
      <4> QED
        BY <3>4, <4>2 DEF CleanMove
    <3> QED
      BY <1>4, <3>2, <3>3, <3>4
  <2>2. temp' = temp /\ n \in Nat
    BY <1>4 DEF FetchCold, MoveOut, CleanMove, Bytes
  <2>3. CASE n <= far[s] /\ n <= Free /\ near' = Set(near, s, near[s] + n) /\ far' = Set(far, s, far[s] - n)
    <3>1. near[s] + n \in Nat /\ far[s] - n \in Nat /\ near[s] + n <= near[s] + Free
      BY <1>d, <2>2, <2>3, FreeRoom
    <3> QED
      BY <1>b, <2>2, <2>3, <3>1
  <2>4. CASE n <= near[s] /\ near' = Set(near, s, near[s] - n) /\ far' = Set(far, s, far[s] + n)
    <3>1. near[s] - n \in Nat /\ far[s] + n \in Nat /\ near[s] - n <= near[s] + Free
      BY <1>d, <2>2, <2>4, FreeRoom
    <3> QED
      BY <1>b, <2>2, <2>4, <3>1
  <2> QED
    BY <1>a, <2>1, <2>2, <2>3, <2>4
<1>5. ASSUME NEW s \in Slots, NEW n \in 0..MaxSize[s], Shrink(s, n) PROVE Memory'
  <2>1. PICK m \in 0..Lesser(n, near[s]) :
          n - m <= far[s] /\ near' = Set(near, s, m) /\ far' = Set(far, s, n - m)
    BY <1>5 DEF Shrink
  <2>2. n \in Nat
    BY BudgetAssumption DEF BudgetAssumption
  <2>3. m \in Nat /\ m <= n /\ m <= near[s]
    <3>1. /\ Lesser(n, near[s]) \in Nat
          /\ Lesser(n, near[s]) <= n /\ Lesser(n, near[s]) <= near[s]
      BY <1>d, <2>2, Small
    <3> QED
      BY <1>d, <2>2, <3>1
  <2>4. n - m \in Nat /\ m <= near[s] + Free
    BY <1>d, <2>2, <2>3, FreeRoom
  <2> QED
    BY <1>b, <1>5, <2>1, <2>3, <2>4 DEF Shrink
<1>6. CASE GrowHere \/ GrowHereAfterAll
  <2>1. /\ temp' = temp /\ far' = far
        /\ \/ near' = near
           \/ req.size <= Free /\ near' = Set(near, req.slot, near[req.slot] + req.size)
    BY <1>6 DEF GrowHere, GrowHereAfterAll, Idle
  <2>2. near[req.slot] + req.size \in Nat
        /\ (req.size <= Free => near[req.slot] + req.size <= near[req.slot] + Free)
    BY <1>c, <1>d, FreeRoom
  <2> QED
    BY <1>a, <1>b, <1>c, <2>1, <2>2
<1>7. CASE Split
  <2>1. PICK part \in Nat : /\ part <= Free
                            /\ near' = Set(near, req.slot, near[req.slot] + part)
    <3>1. PICK part : /\ part = IF ~req.defer /\ req.size > SplitMin /\ Free > Buffer + SplitMin
                                THEN Free - Buffer ELSE 0
                      /\ near' = Set(near, req.slot, near[req.slot] + part)
      BY <1>7 DEF Split
    <3>2. part \in Nat /\ part <= Free
      BY <3>1, FreeRoom, Constants
    <3> QED
      BY <3>1, <3>2
  <2>2. near[req.slot] + part \in Nat /\ near[req.slot] + part <= near[req.slot] + Free
    BY <1>c, <1>d, <2>1, FreeRoom
  <2>3. temp' = temp /\ far' = far
    BY <1>7 DEF Split
  <2> QED
    BY <1>b, <1>c, <2>1, <2>2, <2>3
<1>8. CASE Store
  <2>1. PICK n \in Nat : n = Lesser(near[req.slot], req.was) /\ n <= near[req.slot]
    BY <1>c, <1>d, Small
  <2>2. Set(near, req.slot, n)[req.slot] = n
    BY <1>c DEF Set, Memory
  <2>3. PICK m \in Nat : m = Lesser(far[req.slot], Minus(req.was, n))
    BY <1>c, <1>d, Small
  <2>4. PICK k \in Nat : k = far[req.slot] + req.size
    BY <1>c, <1>d
  <2>5. \/ near' = Set(near, req.slot, n) /\ far' = Set(far, req.slot, m)
        \/ near' = near /\ far' = Set(far, req.slot, k)
    BY <1>8, <2>1, <2>2, <2>3, <2>4 DEF Store
  <2>6. temp' = temp /\ n <= near[req.slot] + Free
    BY <1>8, <1>c, <1>d, <2>1, FreeRoom DEF Store
  <2> QED
    BY <1>b, <1>c, <2>5, <2>6
<1> QED
  BY <1>1, <1>2, <1>3, <1>4, <1>5, <1>6, <1>7, <1>8 DEF Next, Requests, Working
-----------------------------------------------------------------------------
(* The books: requests, reclaims and budgets                               *)

Makes == {"warm", "cold"}

\* What a place in the update manager says of the request, and a request of the
\* reclaims that are planned for it.
Flow ==
  /\ pc \in {"moveWarm", "moveHot"} => req.then = "here"
  /\ pc \in {"idle", "local", "remote"} => req.then = pc
  /\ pc \in {"cleanout", "cleanWarm", "cleanCold"} => req.then \in {"idle", "store"}
  /\ req.then # "here" => ask.plan \in Seq(Makes)

Thens == {"idle", "ship", "suppressed", "local", "remote", "here", "store"}

LEMMA NoRequest == NoReq \in ReqType /\ NoReq.then = "idle"
<1>1. PICK s \in Slots : s = CHOOSE x \in Slots : TRUE
  BY BudgetAssumption DEF BudgetAssumption
<1> QED
  BY <1>1 DEF NoReq, ReqType

LEMMA NoPlan == NoAsk \in AskType /\ NoAsk.want = 0 /\ NoAsk.need = 0 /\ NoAsk.plan = <<>>
<1>1. <<>> \in Seq(Stages) /\ {} \in SUBSET Slots
  OBVIOUS
<1> QED
  BY <1>1 DEF NoAsk, AskType

BudgetType == [unused : Nat, over : Nat, cold : Nat, warm : Nat, hot : Nat]

\* A request's first budget.
LEMMA Asking ==
  ASSUME NEW need \in Nat, NEW plan \in Seq(Stages), NEW s \in Slots, NEW b \in BudgetType,
         NEW a, a = Ask(need, plan, s, b)
  PROVE  /\ a \in AskType /\ a.want = need /\ a.need = need /\ a.plan = plan
         /\ a.unused = b.unused /\ a.over = b.over
<1>1. PICK none \in AskType : none = NoAsk
  BY NoPlan
<1>2. {s} \in SUBSET Slots
  OBVIOUS
<1>3. b.unused \in Nat /\ b.over \in Nat /\ b.cold \in Nat /\ b.warm \in Nat /\ b.hot \in Nat
  BY DEF BudgetType
<1> QED
  BY <1>1, <1>2, <1>3 DEF Ask, AskType

LEMMA CommittedIs ==
  ASSUME NEW t \in [Slots -> Temps], NEW n \in [Slots -> Nat], NEW f \in [Slots -> Nat]
  PROVE  Committed(t, n, f) \in Nat
<1>1. Total(f, Slots) \in Nat /\ Total(n, {s \in Slots : t[s] \in {"warm", "hot"}}) \in Nat
  BY TotalOf
<1> QED
  BY <1>1 DEF Committed

\* What a budget says is unused is there, but for what it says is overdrawn.
LEMMA Budgeting ==
  ASSUME NEW t \in [Slots -> Temps], NEW n \in [Slots -> Nat], NEW f \in [Slots -> Nat],
         NEW b \in Budgets(t, n, f)
  PROVE  b \in BudgetType /\ b.unused + Committed(t, n, f) <= StmHeap - Buffer + b.over
<1>1. PICK room \in Nat : room = StmHeap - Buffer
  BY Constants
<1>2. PICK used \in Nat : used = Committed(t, n, f)
  BY CommittedIs
<1>3. PICK over \in Nat, unused \in Nat : over = Minus(used, room) /\ unused = Minus(room, used)
  BY Small
<1>4. unused + used <= room + over
  BY <1>3 DEF Minus
<1> DEFINE Counted(f1, ts) == LET all == Total(f1, {s \in Slots : t[s] \in ts})
                              IN  Minus(all, over)..all
<1>5. ASSUME NEW g \in [Slots -> Nat], NEW ts, NEW k \in Counted(g, ts) PROVE k \in Nat
  <2>1. PICK all \in Nat : all = Total(g, {s \in Slots : t[s] \in ts})
    BY TotalOf
  <2>2. Minus(all, over) \in Nat /\ k \in Minus(all, over)..all
    BY <2>1, Small
  <2> QED
    BY <2>2
<1>6. b \in [unused : {unused}, over : {over}, cold : Counted(f, Cool),
             warm : Counted(n, {"warm"}), hot : Counted(n, {"hot"})]
  BY <1>1, <1>2, <1>3 DEF Budgets, Unused
<1> HIDE DEF Counted
<1>7. b \in BudgetType /\ b.unused = unused /\ b.over = over
  BY <1>5, <1>6 DEF BudgetType
<1> QED
  BY <1>1, <1>2, <1>4, <1>7
\* What the reclaims leave of a request's books.
Same(a, b) == a.plan = b.plan /\ a.want = b.want /\ a.need = b.need /\ a.over = b.over

LEMMA Updating ==
  ASSUME NEW a \in AskType, NEW g \in Nat, NEW k \in Nat
  PROVE  /\ LET b == [a EXCEPT !.goal = g]
            IN  b \in AskType /\ Same(b, a) /\ b.unused = a.unused
         /\ LET b == [a EXCEPT !.limit = k]
            IN  b \in AskType /\ Same(b, a) /\ b.unused = a.unused
         /\ LET b == [a EXCEPT !.warm = g, !.cold = k]
            IN  b \in AskType /\ Same(b, a) /\ b.unused = a.unused
         /\ LET b == [a EXCEPT !.cold = k]
            IN  b \in AskType /\ Same(b, a) /\ b.unused = a.unused
<1>1. LET b == [a EXCEPT !.goal = g]
      IN  b \in AskType /\ Same(b, a) /\ b.unused = a.unused
  BY DEF AskType, Same
<1>2. LET b == [a EXCEPT !.limit = k]
      IN  b \in AskType /\ Same(b, a) /\ b.unused = a.unused
  BY DEF AskType, Same
<1>3. LET b == [a EXCEPT !.warm = g, !.cold = k]
      IN  b \in AskType /\ Same(b, a) /\ b.unused = a.unused
  BY DEF AskType, Same
<1>4. LET b == [a EXCEPT !.cold = k]
      IN  b \in AskType /\ Same(b, a) /\ b.unused = a.unused
  BY DEF AskType, Same
<1> QED
  BY <1>1, <1>2, <1>3, <1>4

LEMMA Beginning ==
  ASSUME Memory, ask \in AskType, NEW stage \in Stages, NEW want \in Nat, NEW a \in AskType,
         Begin(stage, want, a)
  PROVE  pc' = stage /\ ask' \in AskType /\ Same(ask', a) /\ ask'.unused = a.unused
<1>1. ask.cold \in Nat /\ ask.warm \in Nat /\ ask.hot \in Nat
  BY DEF AskType
<1>2. ColdRoom \in Nat
  <2>1. CASE Free < Buffer
    BY <1>1, <2>1 DEF ColdRoom
  <2>2. CASE ~(Free < Buffer)
    <3>1. Free - Buffer \in Nat
      BY <2>2, FreeRoom, Constants
    <3> QED
      BY <1>1, <2>2, <3>1, Small DEF ColdRoom
  <2> QED
    BY <2>1, <2>2
<1>3. StageMost(stage) \in Nat
  BY <1>1, <1>2 DEF StageMost, Stages
<1>4. want + Excess \in Nat /\ StmHeap + EspHeap + 1 \in Nat
  BY Constants
<1>5. PICK g \in Nat, k \in Nat : g = Lesser(want + Excess, StageMost(stage)) /\ k = StmHeap + EspHeap + 1
  BY <1>3, <1>4, Small
<1>6. pc' = stage /\ ask' = [a EXCEPT !.goal = g, !.limit = k]
  BY <1>5 DEF Begin
<1>7. PICK b : b = [a EXCEPT !.goal = g, !.limit = k]
  OBVIOUS
<1>8. b \in AskType /\ Same(b, a) /\ b.unused = a.unused
  <2>1. LET c == [a EXCEPT !.goal = g, !.limit = k]
        IN  c \in AskType /\ Same(c, a) /\ c.unused = a.unused
    BY DEF AskType, Same
  <2> QED
    BY <1>7, <2>1
<1> QED
  BY <1>6, <1>7, <1>8

LEMMA Freeing ==
  ASSUME ask \in AskType, NEW n \in Nat, NEW known \in Nat
  PROVE  LET b == Freed(n, known)
         IN  b \in AskType /\ Same(b, ask) /\ b.unused <= ask.unused + n
<1>1. ask.goal \in Nat /\ ask.unused \in Nat
  BY DEF AskType
<1>2. PICK g \in Nat, k \in Nat : g = Minus(ask.goal, n) /\ k = Lesser(n, known) /\ k <= n
  BY <1>1, Small
<1>3. PICK u \in Nat : u = ask.unused + k /\ u <= ask.unused + n
  BY <1>1, <1>2
<1>4. Freed(n, known) = [ask EXCEPT !.goal = g, !.unused = u]
  BY <1>2, <1>3 DEF Freed
<1>5. PICK b : b = Freed(n, known)
  OBVIOUS
<1>6. b \in AskType /\ Same(b, ask) /\ b.unused = u
  <2>1. LET c == [ask EXCEPT !.goal = g, !.unused = u]
        IN  c \in AskType /\ Same(c, ask) /\ c.unused = u
    BY DEF AskType, Same
  <2> QED
    BY <1>4, <1>5, <2>1
<1> QED
  BY <1>3, <1>5, <1>6

LEMMA Cooling ==
  ASSUME Memory, Book, NEW s \in Slots, CoolWarm(s)
  PROVE  ask' \in AskType /\ Same(ask', ask) /\ ask'.unused <= ask.unused + near[s]
<1>1. near[s] \in Nat /\ far[s] \in Nat /\ ask \in AskType /\ ask.warm \in Nat
  BY DEF Memory, Book, AskType
<1>2. PICK b \in AskType : /\ b = Freed(near[s], ask.warm) /\ Same(b, ask)
                           /\ b.unused <= ask.unused + near[s]
  BY <1>1, Freeing
<1>3. b.warm \in Nat /\ b.cold \in Nat
  BY DEF AskType
<1>4. PICK g \in Nat, k \in Nat : g = Minus(b.warm, near[s]) /\ k = b.cold + far[s]
  <2>1. PICK w \in Nat, v \in Nat, x \in Nat, y \in Nat :
          w = b.warm /\ v = near[s] /\ x = b.cold /\ y = far[s]
    BY <1>1, <1>3
  <2>2. Minus(w, v) \in Nat /\ x + y \in Nat
    BY Small
  <2> QED
    BY <2>1, <2>2
<1>5. ask' = [b EXCEPT !.warm = g, !.cold = k]
  BY <1>2, <1>4 DEF CoolWarm
<1>6. PICK c : c = ask'
  OBVIOUS
<1>7. c \in AskType /\ Same(c, b) /\ c.unused = b.unused
  BY <1>5, <1>6, Updating
<1>8. Same(c, ask)
  BY <1>2, <1>7 DEF Same
<1> QED
  BY <1>2, <1>6, <1>7, <1>8

LEMMA Fetching ==
  ASSUME Book, NEW s \in Slots, NEW n \in Nat, FetchCold(s, n)
  PROVE  /\ ask' \in AskType /\ Same(ask', ask)
         /\ \/ /\ near' = Set(near, s, near[s] + n) /\ far' = Set(far, s, far[s] - n)
               /\ ask'.unused <= ask.unused + n
            \/ UNCHANGED <<near, far>> /\ ask'.unused = ask.unused
<1>1. ask \in AskType /\ ask.cold \in Nat /\ ask.goal \in Nat /\ ask.unused \in Nat
  BY DEF Book, AskType
<1>2. PICK b \in AskType : b = Freed(n, ask.cold) /\ Same(b, ask) /\ b.unused <= ask.unused + n
  BY <1>1, Freeing
<1>3. PICK k \in Nat : k = Minus(b.cold, n)
  <2>1. b.cold \in Nat
    BY DEF AskType
  <2> QED
    BY <2>1, Small
<1>4. PICK c, d : c = ask' /\ d = [ask EXCEPT !.limit = n]
  OBVIOUS
<1>5. d.unused = ask.unused /\ d \in AskType /\ Same(d, ask)
  BY <1>1, <1>4, Updating
<1>6. CASE c = [b EXCEPT !.cold = k]
  <2>1. c \in AskType /\ Same(c, b) /\ c.unused = b.unused
    BY <1>6, Updating
  <2>2. Same(c, ask)
    BY <1>2, <2>1 DEF Same
  <2> QED
    BY <1>1, <1>2, <1>3, <1>4, <1>5, <2>1, <2>2 DEF FetchCold
<1>7. CASE c = d
  <2>1. ask.unused <= ask.unused + n
    BY <1>1
  <2> QED
    BY <1>4, <1>5, <1>7, <2>1 DEF FetchCold
<1> QED
  BY <1>2, <1>3, <1>4, <1>6, <1>7 DEF FetchCold
LEMMA Booked ==
  ASSUME NEW p \in Places, NEW r \in ReqType, NEW a \in AskType, a.want <= a.need,
         pc' = p, req' = r, ask' = a,
         p \in {"moveWarm", "moveHot"} => r.then = "here",
         p \in {"idle", "local", "remote"} => r.then = p,
         p \in {"cleanout", "cleanWarm", "cleanCold"} => r.then \in {"idle", "store"},
         r.then # "here" => a.plan \in Seq(Makes)
  PROVE  Book' /\ Flow'
BY DEF Book, Flow

LEMMA BookStep ==
  ASSUME Memory, Book, Flow, [Next]_vars
  PROVE  Book' /\ Flow'
<1> USE DEF Places, Stages
<1>a. Memory'
  BY MemoryStep
<1>b. /\ pc \in Places /\ req \in ReqType /\ ask \in AskType /\ ask.want <= ask.need
      /\ ask.want \in Nat /\ ask.need \in Nat /\ ask.unused \in Nat /\ ask.plan \in Seq(Stages)
      /\ req.size \in Nat /\ req.slot \in Slots /\ req.then \in Thens
  BY DEF Book, ReqType, AskType, Thens
<1>c. \A s \in Slots : near[s] \in Nat /\ far[s] \in Nat
  BY DEF Memory
<1>d. <<>> \in Seq(Makes) /\ ForCache \in Seq(Makes) /\ ForDisplay \in Seq(Makes)
      /\ \A s \in Slots : ForStorage(s) \in Seq(Makes)
  <2>1. ForCache \in Seq(Makes) /\ ForDisplay \in Seq(Makes)
    BY DEF Makes, ForCache, ForDisplay
  <2>2. ASSUME NEW s \in Slots PROVE ForStorage(s) \in Seq(Makes)
    <3>1. <<"warm">> \in Seq(Makes) /\ <<"warm", "cold">> \in Seq(Makes)
      BY DEF Makes
    <3> QED
      BY <3>1 DEF ForStorage
  <2>3. <<>> \in Seq(Makes)
    OBVIOUS
  <2> QED
    BY <2>1, <2>2, <2>3
<1>e. Seq(Makes) \subseteq Seq(Stages) /\ ForDedup \in Seq(Stages)
  BY DEF Makes, ForDedup
<1>i. ASSUME Idle PROVE Book' /\ Flow'
  <2>1. PICK r \in ReqType, a \in AskType :
          /\ r = NoReq /\ r.then = "idle"
          /\ a = NoAsk /\ a.want = 0 /\ a.need = 0 /\ a.plan = <<>>
    BY NoRequest, NoPlan
  <2>2. pc' = "idle" /\ req' = r /\ ask' = a /\ a.want <= a.need
    BY <1>i, <2>1 DEF Idle
  <2> QED
    BY <1>d, <2>1, <2>2, Booked
<1>u. ASSUME UNCHANGED <<req, ask>>, pc' \in Places,
             pc' \in {"moveWarm", "moveHot"} => req.then = "here",
             pc' \in {"idle", "local", "remote"} => req.then = pc',
             pc' \in {"cleanout", "cleanWarm", "cleanCold"} => req.then \in {"idle", "store"}
      PROVE  Book' /\ Flow'
  BY <1>b, <1>u DEF Book, Flow
<1>o. ASSUME CleanedOut, pc \in {"cleanout", "cleanWarm", "cleanCold"} PROVE Book' /\ Flow'
  BY <1>i, <1>o, <1>u DEF CleanedOut, Flow
<1>k. ASSUME NEW stage \in {"cleanWarm", "cleanCold"}, NEW n \in Nat, Clean(stage, n), req' = req,
             pc \in {"cleanout", "cleanWarm", "cleanCold"}
      PROVE  Book' /\ Flow'
  <2>1. PICK k \in Nat : k = StmHeap + EspHeap + 1
    BY Constants
  <2>2. PICK a : a = [NoAsk EXCEPT !.goal = n, !.limit = k]
    OBVIOUS
  <2>3. a \in AskType /\ a.want = 0 /\ a.need = 0 /\ a.plan = <<>>
    BY <2>1, <2>2, NoPlan DEF AskType
  <2>4. ask' = a /\ pc' = stage
    BY <1>k, <2>1, <2>2 DEF Clean
  <2>5. req.then \in {"idle", "store"}
    BY <1>k DEF Flow
  <2> QED
    <3>1. a.want <= a.need
      BY <2>3
    <3> QED
      BY <1>b, <1>d, <1>k, <2>3, <2>4, <2>5, <3>1, Booked
<1>r. ASSUME NEW r \in ReqType, req' = r, NEW p \in {"ensure", "suppressed"}, pc' = p,
             NEW need \in Nat, NEW plan \in Seq(Stages), NEW s \in Slots, NEW b \in BudgetType,
             ask' = Ask(need, plan, s, b), r.then = "here" \/ plan \in Seq(Makes)
      PROVE  Book' /\ Flow'
  <2>1. PICK a : a = Ask(need, plan, s, b)
    OBVIOUS
  <2>2. a \in AskType /\ a.want = need /\ a.need = need /\ a.plan = plan
    BY <2>1, Asking
  <2> QED
    BY <1>r, <2>1, <2>2, Booked
<1>1. CASE StageOver \/ Granted \/ HeatRefused \/ RewarmOver \/ GrowRefused \/ Announce \/ UNCHANGED vars
  <2>1. CASE StageOver
    BY <1>u, <2>1 DEF StageOver
  <2>2. CASE Granted
    BY <1>b, <1>u, <2>2 DEF Granted, Thens
  <2>3. CASE HeatRefused \/ RewarmOver
    BY <1>i, <2>3 DEF HeatRefused, RewarmOver
  <2>4. CASE GrowRefused
    BY <1>i, <1>u, <2>4 DEF GrowRefused
  <2>5. CASE Announce
    BY <1>i, <1>u, <2>5 DEF Announce
  <2>6. CASE UNCHANGED vars
    BY <2>6, <1>b, <1>u DEF vars, Flow
  <2> QED
    BY <1>1, <2>1, <2>2, <2>3, <2>4, <2>5, <2>6
<1>2. CASE Ensure
  <2>1. CASE pc' \in {"yes", "no"} /\ UNCHANGED <<req, ask>>
    BY <1>u, <2>1
  <2>2. CASE ~ (pc' \in {"yes", "no"} /\ UNCHANGED <<req, ask>>)
    <3>1. /\ ~(ask.want <= ask.unused) /\ ask.plan # <<>> /\ req' = req
          /\ Begin(Head(ask.plan), ask.want - ask.unused,
                   [ask EXCEPT !.plan = Tail(@), !.want = @ - ask.unused, !.unused = 0])
      BY <1>2, <2>2 DEF Ensure
    <3>2. PICK h \in Stages, t \in Seq(Stages) : h = Head(ask.plan) /\ t = Tail(ask.plan)
      <4>1. PICK plan \in Seq(Stages) : plan = ask.plan /\ plan # <<>>
        BY <1>b, <3>1
      <4>2. Head(plan) \in Stages /\ Tail(plan) \in Seq(Stages)
        BY <4>1
      <4> QED
        BY <4>1, <4>2
    <3>3. req.then # "here" => h \in Makes /\ t \in Seq(Makes)
      BY <3>1, <3>2 DEF Flow
    <3>4. PICK w \in Nat : w = ask.want - ask.unused /\ w <= ask.need
      BY <1>b, <3>1
    <3>5. PICK b : b = [ask EXCEPT !.plan = t, !.want = w, !.unused = 0]
      OBVIOUS
    <3>6. b \in AskType /\ b.plan = t /\ b.want = w /\ b.need = ask.need
      BY <1>b, <3>5 DEF AskType
    <3>7. Begin(h, w, b)
      BY <3>1, <3>2, <3>4, <3>5
    <3>8. pc' = h /\ ask' \in AskType /\ Same(ask', b)
      BY <1>b, <3>6, <3>7, Beginning
    <3>9. PICK a : a = ask'
      OBVIOUS
    <3>10. a \in AskType /\ a.plan = t /\ a.want = w /\ a.need = ask.need
      BY <3>6, <3>8, <3>9 DEF Same
    <3> QED
      BY <1>b, <3>1, <3>3, <3>4, <3>8, <3>9, <3>10, Booked DEF Makes
  <2> QED
    BY <2>1, <2>2
<1>m. ASSUME UNCHANGED <<pc, req>>, ask' \in AskType, ask'.plan = ask.plan,
             ask'.want = ask.want, ask'.need = ask.need
      PROVE  Book' /\ Flow'
  BY <1>b, <1>m DEF Book, Flow
<1>3. ASSUME NEW s \in Slots, CoolWarm(s) PROVE Book' /\ Flow'
  <2>1. UNCHANGED <<pc, req>>
    BY <1>3 DEF CoolWarm
  <2> QED
    BY <1>3, <1>m, <2>1, Cooling DEF Same
<1>4. ASSUME NEW s \in Slots, NEW n \in Bytes, FetchCold(s, n) \/ MoveOut(s, n) \/ CleanMove(s, n)
      PROVE  Book' /\ Flow'
  <2>1. UNCHANGED <<pc, req>> /\ n \in Nat
    BY <1>4 DEF FetchCold, MoveOut, CleanMove, Bytes
  <2>2. CASE FetchCold(s, n)
    BY <1>m, <2>1, <2>2, Fetching DEF Same
  <2>3. CASE MoveOut(s, n)
    <3>1. PICK a : a = ask'
      OBVIOUS
    <3>2. PICK known \in Nat : known = IF pc = "moveWarm" THEN ask.warm ELSE ask.hot
      BY <1>b DEF AskType
    <3>3. a = Freed(n, known) \/ a = [ask EXCEPT !.goal = 0]
      BY <2>3, <3>1, <3>2 DEF MoveOut
    <3>4. a \in AskType /\ Same(a, ask)
      <4>1. CASE a = Freed(n, known)
        BY <1>b, <2>1, <4>1, Freeing
      <4>2. CASE a = [ask EXCEPT !.goal = 0]
        BY <1>b, <4>2, Updating
      <4> QED
        BY <3>3, <4>1, <4>2
    <3> QED
      BY <1>m, <2>1, <3>1, <3>4 DEF Same
  <2>4. CASE CleanMove(s, n)
    <3>1. n <= Lesser(ask.goal, near[s])
      BY <2>4 DEF CleanMove
    <3>2. PICK g \in Nat, v \in Nat : g = ask.goal /\ v = near[s]
      BY <1>b, <1>c DEF AskType
    <3>3. Lesser(g, v) \in Nat /\ Lesser(g, v) <= g
      BY Small
    <3>4. PICK k \in Nat : k = ask.goal - n
      BY <2>1, <3>1, <3>2, <3>3
    <3>5. PICK a : a = ask'
      OBVIOUS
    <3>6. a = [ask EXCEPT !.goal = k] \/ a = [ask EXCEPT !.limit = n]
      BY <2>4, <3>4, <3>5 DEF CleanMove
    <3>7. a \in AskType /\ Same(a, ask)
      <4>1. CASE a = [ask EXCEPT !.goal = k]
        BY <1>b, <4>1 DEF AskType, Same
      <4>2. CASE a = [ask EXCEPT !.limit = n]
        BY <1>b, <2>1, <4>2 DEF AskType, Same
      <4> QED
        BY <3>6, <4>1, <4>2
    <3> QED
      BY <1>m, <2>1, <3>5, <3>7 DEF Same
  <2> QED
    BY <1>4, <2>2, <2>3, <2>4
<1>5. ASSUME NEW n \in Bytes, Ship(n) PROVE Book' /\ Flow'
  BY <1>5, <1>i DEF Ship
<1>6. ASSUME NEW s \in Slots, Chill(s) \/ GiveUpWarm(s) PROVE Book' /\ Flow'
  <2>1. CASE GiveUpWarm(s)
    BY <1>b, <1>u, <2>1 DEF GiveUpWarm, Flow
  <2>2. CASE Chill(s)
    <3>1. PICK t : t = temp'
      OBVIOUS
    <3>2. PICK b \in Budgets(t, near, far) : ask' = Ask(0, <<>>, s, b)
      BY <2>2, <3>1 DEF Chill
    <3>3. t \in [Slots -> Temps] /\ near \in [Slots -> Nat] /\ far \in [Slots -> Nat]
      BY <1>a, <3>1 DEF Memory
    <3>4. b \in BudgetType
      BY <3>2, <3>3, Budgeting
    <3>5. PICK r \in ReqType : /\ r = [NoReq EXCEPT !.kind = "temp", !.slot = s, !.then = "suppressed"]
                               /\ r.then = "suppressed"
      <4>1. PICK q \in ReqType : q = NoReq
        BY NoRequest
      <4>2. PICK r : r = [q EXCEPT !.kind = "temp", !.slot = s, !.then = "suppressed"]
        OBVIOUS
      <4>3. r \in ReqType /\ r.then = "suppressed"
        BY <4>2 DEF ReqType
      <4> QED
        BY <4>1, <4>2, <4>3
    <3>6. pc' = "suppressed" /\ req' = r
      BY <2>2, <3>5 DEF Chill
    <3>7. <<>> \in Seq(Stages)
      OBVIOUS
    <3> QED
      BY <1>d, <1>r, <3>2, <3>4, <3>6, <3>7
  <2> QED
    BY <1>6, <2>1, <2>2
<1>7. ASSUME NEW s \in Slots, NEW t \in {"warm", "hot"}, Heat(s, t) PROVE Book' /\ Flow'
  <2>1. PICK r \in ReqType : /\ r = [NoReq EXCEPT !.kind = "temp", !.slot = s, !.temp = t, !.then = "ship"]
                             /\ r.then = "ship"
    <3>1. PICK q \in ReqType : q = NoReq
      BY NoRequest
    <3>2. PICK r : r = [q EXCEPT !.kind = "temp", !.slot = s, !.temp = t, !.then = "ship"]
      OBVIOUS
    <3>3. r \in ReqType /\ r.then = "ship"
      BY <3>2 DEF ReqType
    <3> QED
      BY <3>1, <3>2, <3>3
  <2>2. req' = r
    BY <1>7, <2>1 DEF Heat
  <2>3. CASE temp[s] \in Cool
    <3>1. PICK b \in Budgets(temp, near, far) :
            ask' = Ask(near[s], IF t = "hot" THEN ForDisplay ELSE ForCache, s,
                       [b EXCEPT !.cold = Minus(@, far[s])])
      BY <1>7, <2>3 DEF Heat
    <3>2. b \in BudgetType
      BY <3>1, Budgeting DEF Memory
    <3>3. PICK k \in Nat : k = Minus(b.cold, far[s])
      <4>1. PICK x \in Nat, y \in Nat : x = b.cold /\ y = far[s]
        BY <1>c, <3>2 DEF BudgetType
      <4> QED
        BY <4>1, Small
    <3>4. PICK c \in BudgetType : c = [b EXCEPT !.cold = Minus(@, far[s])]
      BY <3>2, <3>3 DEF BudgetType
    <3>5. PICK plan \in Seq(Makes) : plan = IF t = "hot" THEN ForDisplay ELSE ForCache
      BY <1>d
    <3>6. pc' = "ensure" /\ ask' = Ask(near[s], plan, s, c)
      BY <1>7, <2>3, <3>1, <3>4, <3>5 DEF Heat
    <3> QED
      BY <1>c, <1>e, <1>r, <2>2, <3>6
  <2>4. CASE temp[s] \notin Cool
    <3>1. pc = "idle" /\ pc' = "ship" /\ ask' = ask
      BY <1>7, <2>4 DEF Heat
    <3>2. ask.plan \in Seq(Makes)
      BY <3>1 DEF Flow
    <3> QED
      BY <1>b, <2>1, <2>2, <3>1, <3>2, Booked
  <2> QED
    BY <2>3, <2>4
<1>8. ASSUME NEW s \in Slots, NEW n \in 0..MaxSize[s], Shrink(s, n) \/ Grow(s, n)
      PROVE  Book' /\ Flow'
  <2>1. n \in Nat
    BY BudgetAssumption DEF BudgetAssumption
  <2>2. CASE Shrink(s, n)
    <3>1. PICK nr, fr : nr = near' /\ fr = far'
      OBVIOUS
    <3>2. PICK b \in Budgets(temp, nr, fr) : ask' = Ask(0, <<>>, s, b)
      BY <2>2, <3>1 DEF Shrink
    <3>3. temp' = temp
      BY <2>2 DEF Shrink
    <3>4. temp \in [Slots -> Temps] /\ nr \in [Slots -> Nat] /\ fr \in [Slots -> Nat]
      BY <1>a, <3>1, <3>3 DEF Memory
    <3>5. b \in BudgetType
      BY <3>2, <3>4, Budgeting
    <3>6. PICK r \in ReqType : /\ r = [NoReq EXCEPT !.kind = "size", !.slot = s, !.then = "suppressed"]
                               /\ r.then = "suppressed"
      <4>1. PICK q \in ReqType : q = NoReq
        BY NoRequest
      <4>2. PICK r : r = [q EXCEPT !.kind = "size", !.slot = s, !.then = "suppressed"]
        OBVIOUS
      <4>3. r \in ReqType /\ r.then = "suppressed"
        BY <4>2 DEF ReqType
      <4> QED
        BY <4>1, <4>2, <4>3
    <3>7. pc' = "suppressed" /\ req' = r
      BY <2>2, <3>6 DEF Shrink
    <3>8. <<>> \in Seq(Stages)
      OBVIOUS
    <3> QED
      BY <1>d, <1>r, <3>2, <3>5, <3>7, <3>8
  <2>3. CASE Grow(s, n)
    <3>1. Size(s) \in Nat /\ n - Size(s) \in Nat
      BY <1>c, <2>1, <2>3 DEF Grow, Size
    <3>2. PICK d \in BOOLEAN : d <=> temp[s] \notin Cool /\ far[s] > 0
      OBVIOUS
    <3>3. PICK k \in Nat, m \in Nat : k = n - Size(s) /\ m = Size(s)
      BY <3>1
    <3>4. PICK r \in ReqType : /\ r = [NoReq EXCEPT !.kind = "size", !.slot = s, !.size = k,
                                                    !.was = m, !.defer = d, !.then = "local"]
                               /\ r.then = "local"
      <4>1. PICK q \in ReqType : q = NoReq
        BY NoRequest
      <4>2. PICK r : r = [q EXCEPT !.kind = "size", !.slot = s, !.size = k, !.was = m, !.defer = d, !.then = "local"]
        OBVIOUS
      <4>3. r \in ReqType /\ r.then = "local"
        BY <4>2 DEF ReqType
      <4> QED
        BY <4>1, <4>2, <4>3
    <3>5. d = (temp[s] \notin Cool /\ far[s] > 0)
      BY <3>2, Zenon
    <3>6. req' = r
      BY <2>3, <3>3, <3>4, <3>5 DEF Grow
    <3>7. CASE temp[s] \in Cool
      <4>1. pc = "idle" /\ pc' = "local" /\ ask' = ask
        BY <2>3, <3>7 DEF Grow
      <4>2. ask.plan \in Seq(Makes)
        BY <4>1 DEF Flow
      <4> QED
        BY <1>b, <3>4, <3>6, <4>1, <4>2, Booked
    <3>8. CASE temp[s] \notin Cool
      <4>1. PICK plan \in Seq(Makes) : plan = IF temp[s] = "hot" THEN ForDisplay ELSE ForCache
        BY <1>d
      <4>2. PICK b \in Budgets(temp, near, far) : pc' = "ensure" /\ ask' = Ask(k, plan, s, b)
        BY <2>3, <3>3, <3>8, <4>1 DEF Grow
      <4>3. b \in BudgetType
        BY <4>2, Budgeting DEF Memory
      <4> QED
        BY <1>e, <1>r, <3>6, <4>2, <4>3
    <3> QED
      BY <3>7, <3>8
  <2> QED
    BY <1>8, <2>2, <2>3
<1>9. ASSUME NEW s \in Slots, Rewarm(s) PROVE Book' /\ Flow'
  <2>1. req' = req
    BY <1>9 DEF Rewarm
  <2>2. CASE temp' = temp
    <3>1. Size(s) \in Nat
      BY <1>c DEF Size
    <3>2. PICK b : b = [ask EXCEPT !.need = Size(s), !.want = Size(s), !.sparing = {s}]
      OBVIOUS
    <3>3. /\ b \in AskType /\ b.plan = ask.plan /\ b.want = Size(s) /\ b.need = Size(s)
      BY <1>b, <3>1, <3>2 DEF AskType
    <3>4. Begin("cold", Size(s), b)
      <4>1. temp[s] = "wants" /\ temp[s] \in Temps
        BY <1>9 DEF Rewarm, Temps
      <4>2. temp' # Set(temp, s, "warm")
        BY <2>2, <4>1 DEF Set, Memory
      <4> QED
        BY <1>9, <3>2, <4>2 DEF Rewarm
    <3>5. pc' = "cold" /\ ask' \in AskType /\ Same(ask', b)
      BY <1>b, <3>1, <3>3, <3>4, Beginning
    <3>6. PICK a : a = ask'
      OBVIOUS
    <3>7. a \in AskType /\ a.plan = ask.plan /\ a.want = Size(s) /\ a.need = Size(s)
      BY <3>3, <3>5, <3>6 DEF Same
    <3>8. req.then # "here" => ask.plan \in Seq(Makes)
      BY DEF Flow
    <3> QED
      BY <1>b, <2>1, <3>1, <3>5, <3>6, <3>7, <3>8, Booked
  <2>3. CASE temp' # temp
    <3>1. PICK t : t = temp'
      OBVIOUS
    <3>2. PICK b \in Budgets(t, near, far) : ask' = Ask(0, <<>>, s, b)
      BY <1>9, <2>3, <3>1 DEF Rewarm
    <3>3. t \in [Slots -> Temps] /\ near \in [Slots -> Nat] /\ far \in [Slots -> Nat]
      BY <1>a, <3>1 DEF Memory
    <3>4. b \in BudgetType
      BY <3>2, <3>3, Budgeting
    <3>5. pc' = "suppressed" /\ <<>> \in Seq(Stages)
      BY <1>9, <2>3 DEF Rewarm
    <3> QED
      BY <1>b, <1>d, <1>r, <2>1, <3>2, <3>4, <3>5
  <2> QED
    BY <2>2, <2>3
<1>10. CASE GrowHere \/ GrowRemote \/ Store
  <2>1. CASE GrowHere
    <3>1. PICK r \in ReqType : r = [req EXCEPT !.then = "idle"] /\ r.then = "idle"
      <4>1. PICK r : r = [req EXCEPT !.then = "idle"]
        OBVIOUS
      <4>2. r \in ReqType /\ r.then = "idle"
        BY <1>b, <4>1 DEF ReqType
      <4> QED
        BY <4>1, <4>2
    <3>2. req.then = "local" /\ ask' = ask
      BY <2>1 DEF GrowHere, Flow
    <3>3. ask.plan \in Seq(Makes)
      BY <3>2 DEF Flow
    <3>4. \/ req' = r /\ pc' = "cleanout"
          \/ req' = req /\ pc' = "announce"
      BY <2>1, <3>1 DEF GrowHere
    <3> QED
      BY <1>b, <3>1, <3>2, <3>3, <3>4, Booked
  <2>2. CASE GrowRemote
    <3>1. PICK r \in ReqType : r = [req EXCEPT !.then = "store"] /\ r.then = "store"
      <4>1. PICK r : r = [req EXCEPT !.then = "store"]
        OBVIOUS
      <4>2. r \in ReqType /\ r.then = "store"
        BY <1>b, <4>1 DEF ReqType
      <4> QED
        BY <4>1, <4>2
    <3>2. req.then = "remote" /\ ask' = ask /\ req' = r /\ pc' = "cleanout"
      BY <2>2, <3>1 DEF GrowRemote, Flow
    <3>3. ask.plan \in Seq(Makes)
      BY <3>2 DEF Flow
    <3>4. PICK p \in Places, a \in AskType : p = "cleanout" /\ a = ask /\ a.want <= a.need
      BY <1>b
    <3> QED
      BY <3>1, <3>2, <3>3, <3>4, Booked
  <2>3. CASE Store
    BY <1>i, <2>3 DEF Store
  <2> QED
    BY <1>10, <2>1, <2>2, <2>3
<1>11. CASE Split
  <2>1. PICK part : /\ part = IF ~req.defer /\ req.size > SplitMin /\ Free > Buffer + SplitMin
                              THEN Free - Buffer ELSE 0
                    /\ \/ part > req.size /\ Idle
                       \/ /\ part <= req.size
                          /\ req' = [req EXCEPT !.size = @ - part, !.then = "remote"] /\ pc' = "ensure"
                          /\ \E b \in Budgets(temp, near', far') :
                               ask' = Ask(req.size - part, ForStorage(req.slot), req.slot, b)
    BY <1>11 DEF Split
  <2>2. part \in Nat
    BY <2>1, FreeRoom, Constants
  <2>3. CASE Idle
    BY <1>i, <2>3
  <2>4. CASE ~ Idle
    <3>1. PICK k \in Nat : k = req.size - part
      BY <1>b, <2>1, <2>2, <2>4
    <3>2. PICK r \in ReqType : r = [req EXCEPT !.size = k, !.then = "remote"] /\ r.then = "remote"
      <4>1. PICK r : r = [req EXCEPT !.size = k, !.then = "remote"]
        OBVIOUS
      <4>2. r \in ReqType /\ r.then = "remote"
        BY <1>b, <4>1 DEF ReqType
      <4> QED
        BY <4>1, <4>2
    <3>3. PICK nr, fr : nr = near' /\ fr = far'
      OBVIOUS
    <3>4. PICK b \in Budgets(temp, nr, fr) : ask' = Ask(k, ForStorage(req.slot), req.slot, b)
      BY <2>1, <2>4, <3>1, <3>3
    <3>5. temp' = temp
      BY <1>11 DEF Split
    <3>6. temp \in [Slots -> Temps] /\ nr \in [Slots -> Nat] /\ fr \in [Slots -> Nat]
      BY <1>a, <3>3, <3>5 DEF Memory
    <3>7. b \in BudgetType
      BY <3>4, <3>6, Budgeting
    <3>8. req' = r /\ pc' = "ensure"
      BY <2>1, <2>4, <3>1, <3>2
    <3>9. ForStorage(req.slot) \in Seq(Makes)
      BY <1>b, <1>d
    <3> QED
      BY <1>b, <1>e, <1>r, <3>4, <3>7, <3>8, <3>9
  <2> QED
    BY <2>3, <2>4
<1>12. CASE StorageRefused
  <2>1. CASE req.defer
    BY <1>12, <1>i, <2>1 DEF StorageRefused
  <2>2. CASE ~ req.defer
    <3>1. PICK r \in ReqType : r = [req EXCEPT !.then = "here"] /\ r.then = "here"
      <4>1. PICK r : r = [req EXCEPT !.then = "here"]
        OBVIOUS
      <4>2. r \in ReqType /\ r.then = "here"
        BY <1>b, <4>1 DEF ReqType
      <4> QED
        BY <4>1, <4>2
    <3>2. PICK b \in Budgets(temp, near, far) :
            ask' = Ask(req.size, ForDedup, req.slot,
                       [b EXCEPT !.unused = IF Free < Buffer THEN req.size ELSE Free - Buffer])
      BY <1>12, <2>2 DEF StorageRefused
    <3>3. b \in BudgetType
      BY <3>2, Budgeting DEF Memory
    <3>4. PICK k \in Nat : k = IF Free < Buffer THEN req.size ELSE Free - Buffer
      BY <1>b, FreeRoom, Constants
    <3>5. PICK c \in BudgetType : c = [b EXCEPT !.unused = k]
      BY <3>3 DEF BudgetType
    <3>6. ask' = Ask(req.size, ForDedup, req.slot, c) /\ req' = r /\ pc' = "ensure"
      BY <1>12, <2>2, <3>1, <3>2, <3>4, <3>5 DEF StorageRefused
    <3> QED
      BY <1>b, <1>e, <1>r, <3>1, <3>6
  <2> QED
    BY <2>1, <2>2
<1>13. CASE GrowHereAfterAll
  <2>1. CASE Idle
    BY <1>i, <2>1
  <2>2. CASE ~ Idle
    <3>1. PICK r \in ReqType : r = [req EXCEPT !.tries = 1] /\ r.then = req.then
      <4>1. PICK r : r = [req EXCEPT !.tries = 1]
        OBVIOUS
      <4>2. r \in ReqType /\ r.then = req.then
        BY <1>b, <4>1 DEF ReqType
      <4> QED
        BY <4>1, <4>2
    <3>2. pc' = "split" /\ req' = r /\ ask' = ask
      BY <1>13, <2>2, <3>1 DEF GrowHereAfterAll
    <3>3. r.then # "here" => ask.plan \in Seq(Makes)
      BY <3>1 DEF Flow
    <3>4. PICK p \in Places, a \in AskType : p = "split" /\ a = ask /\ a.want <= a.need
      BY <1>b
    <3> QED
      BY <3>1, <3>2, <3>3, <3>4, Booked
  <2> QED
    BY <2>1, <2>2
<1>14. CASE Cleanout \/ CleanOver
  <2>1. CASE CleanedOut
    BY <1>14, <1>o, <2>1 DEF Cleanout, CleanOver
  <2>2. CASE ~ CleanedOut /\ Cleanout
    <3>1. Clean("cleanWarm", Buffer - Free) /\ req' = req /\ ~(Free > Buffer) /\ pc = "cleanout"
      BY <2>2 DEF Cleanout
    <3>2. PICK k \in Nat : k = Buffer - Free
      BY <3>1, FreeRoom, Constants
    <3> QED
      BY <1>k, <3>1, <3>2
  <2>3. CASE ~ CleanedOut /\ CleanOver
    <3>1. Clean("cleanCold", Minus(Buffer, Free)) /\ req' = req /\ pc \in {"cleanWarm", "cleanCold"}
      BY <2>3 DEF CleanOver
    <3>2. PICK k \in Nat : k = Minus(Buffer, Free)
      BY FreeRoom, Constants, Small
    <3> QED
      BY <1>k, <3>1, <3>2
  <2> QED
    BY <1>14, <2>1, <2>2, <2>3
<1> QED
  BY <1>1, <1>2, <1>3, <1>4, <1>5, <1>6, <1>7, <1>8, <1>9, <1>10, <1>11, <1>12, <1>13, <1>14
     DEF Next, Requests, Working
-----------------------------------------------------------------------------
(* What is promised                                                        *)

Heated == {"warm", "hot"}

LEMMA CommittedCools ==
  ASSUME Memory, NEW s \in Slots, temp[s] \in Heated
  PROVE  Committed(Set(temp, s, "wants"), near, far) + near[s] = Committed(temp, near, far)
<1>1. PICK t : t = Set(temp, s, "wants")
  OBVIOUS
<1>2. PICK W \in SUBSET Slots, H \in SUBSET Slots :
        W = {x \in Slots : t[x] \in Heated} /\ H = {x \in Slots : temp[x] \in Heated}
  OBVIOUS
<1>3. s \in H /\ W = H \ {s}
  BY <1>1, <1>2 DEF Set, Memory, Heated
<1>4. /\ Total(near, H) = near[s] + Total(near, H \ {s})
      /\ Total(near, H \ {s}) \in Nat /\ Total(far, Slots) \in Nat /\ near[s] \in Nat
  BY <1>3, TotalOf DEF Memory
<1>5. /\ Committed(t, near, far) = Total(far, Slots) + Total(near, W)
      /\ Committed(temp, near, far) = Total(far, Slots) + Total(near, H)
  BY <1>2 DEF Committed, Heated
<1> QED
  BY <1>1, <1>3, <1>4, <1>5

LEMMA CommittedFetches ==
  ASSUME Memory, NEW s \in Slots, temp[s] \notin Heated, NEW n \in Nat, n <= far[s]
  PROVE  Committed(temp, Set(near, s, near[s] + n), Set(far, s, far[s] - n)) + n
           = Committed(temp, near, far)
<1>1. PICK v \in Nat, w \in Nat : v = near[s] + n /\ w = far[s] - n /\ far[s] = w + n
  BY DEF Memory
<1>2. PICK a, b : a = Set(near, s, v) /\ b = Set(far, s, w)
  OBVIOUS
<1>3. PICK H \in SUBSET Slots : H = {x \in Slots : temp[x] \in Heated}
  OBVIOUS
<1>4. Total(a, H) = Total(near, H) /\ Total(near, H) \in Nat
  <2>1. s \notin H /\ near \in [Slots -> Nat]
    BY <1>3 DEF Memory
  <2>2. Total(Set(near, s, v), H) = Total(near, H) /\ Total(near, H) \in Nat
    BY <2>1, TotalSet
  <2> QED
    BY <1>2, <2>2
<1>5. Total(b, Slots) = Total(far, Slots) - far[s] + w /\ Total(far, Slots) \in Nat
  BY <1>2, TotalSet DEF Memory
<1>6. Total(b, Slots) + n = Total(far, Slots)
  <2>1. PICK all \in Nat, m \in Nat : all = Total(far, Slots) /\ m = far[s]
    BY <1>5 DEF Memory
  <2>2. m = w + n /\ Total(b, Slots) = all - m + w
    BY <1>1, <1>5, <2>1
  <2>3. all - m + w + n = all
    BY <2>2
  <2> QED
    BY <2>1, <2>2, <2>3
<1>7. /\ Committed(temp, a, b) = Total(b, Slots) + Total(a, H)
      /\ Committed(temp, near, far) = Total(far, Slots) + Total(near, H)
  BY <1>3 DEF Committed, Heated
<1>8. Total(b, Slots) \in Nat
  BY <1>2, TotalSet DEF Memory
<1>9. Committed(temp, a, b) + n = Committed(temp, near, far)
  <2>1. PICK x \in Nat, y \in Nat : x = Total(b, Slots) /\ y = Total(near, H)
    BY <1>4, <1>8
  <2> QED
    BY <1>4, <1>6, <1>7, <2>1
<1> QED
  BY <1>1, <1>2, <1>9

Made == {"ensure", "warm", "cold", "yes", "no", "suppressed"}
Owed == {"ship", "local", "remote", "suppressed"}
Kept(a, t, n, f) ==
  (a.need - a.want) + a.unused + Committed(t, n, f) <= StmHeap - Buffer + a.over

LEMMA PromisedIs == Promised <=> (req.then \in Owed /\ pc \in Made => Kept(ask, temp, near, far))
BY DEF Promised, Owed, Made, Kept

LEMMA KeptAtFirst ==
  ASSUME NEW t \in [Slots -> Temps], NEW n \in [Slots -> Nat], NEW f \in [Slots -> Nat],
         NEW b \in Budgets(t, n, f), NEW need \in Nat, NEW plan \in Seq(Stages), NEW s \in Slots,
         NEW c \in BudgetType, c.unused = b.unused, c.over = b.over
  PROVE  Kept(Ask(need, plan, s, c), t, n, f)
<1>1. PICK a : a = Ask(need, plan, s, c)
  OBVIOUS
<1>2. a.want = need /\ a.need = need /\ a.unused = b.unused /\ a.over = b.over
  BY <1>1, Asking
<1>3. PICK used \in Nat : used = Committed(t, n, f)
  BY CommittedIs
<1>4. b.unused + used <= StmHeap - Buffer + b.over /\ b.unused \in Nat /\ b.over \in Nat
  BY <1>3, Budgeting DEF BudgetType
<1>5. (a.need - a.want) + a.unused + used <= StmHeap - Buffer + a.over
  BY <1>2, <1>4, Constants
<1> QED
  BY <1>1, <1>3, <1>5 DEF Kept
\* Nothing was promised that the step does not keep: by the actions that leave off
\* making room, by those that make it and by those that begin to.
LEMMA PromisedStep ==
  ASSUME Memory, Book, Flow, Promised, [Next]_vars
  PROVE  Promised'
<1>a. Memory'
  BY MemoryStep
<1>b. /\ ask \in AskType /\ ask.want \in Nat /\ ask.need \in Nat /\ ask.want <= ask.need
      /\ ask.unused \in Nat /\ ask.over \in Nat /\ ask.cold \in Nat
      /\ req.size \in Nat /\ req.slot \in Slots /\ req.then \in Thens
  BY DEF Book, ReqType, AskType, Thens
<1>c. /\ temp \in [Slots -> Temps] /\ near \in [Slots -> Nat] /\ far \in [Slots -> Nat]
      /\ \A s \in Slots : near[s] \in Nat /\ far[s] \in Nat
  BY DEF Memory
<1>n. ASSUME pc' \notin Made \/ req'.then \notin Owed PROVE Promised'
  BY <1>n DEF Promised, Made, Owed
<1>k. ASSUME NEW a, NEW t, NEW n, NEW f, ask' = a, temp' = t, near' = n, far' = f, Kept(a, t, n, f)
      PROVE  Promised'
  BY <1>k DEF Promised, Kept
<1>f. ASSUME NEW t, NEW n, NEW f, temp' = t, near' = n, far' = f,
             NEW b \in Budgets(t, n, f), NEW need \in Nat, NEW plan \in Seq(Stages), NEW s \in Slots,
             ask' = Ask(need, plan, s, b)
      PROVE  Promised'
  <2>1. t \in [Slots -> Temps] /\ n \in [Slots -> Nat] /\ f \in [Slots -> Nat]
    BY <1>a, <1>f DEF Memory
  <2>2. b \in BudgetType
    BY <2>1, Budgeting
  <2>3. PICK a : a = Ask(need, plan, s, b)
    OBVIOUS
  <2>4. Kept(a, t, n, f)
    BY <2>1, <2>2, <2>3, KeptAtFirst
  <2> QED
    BY <1>f, <1>k, <2>3, <2>4
<1>i. ASSUME Idle PROVE Promised'
  BY <1>i, <1>n DEF Idle, Made
<1>1. CASE HeatRefused \/ RewarmOver \/ GrowRefused \/ GrowHere \/ Announce \/ GrowHereAfterAll
           \/ GrowRemote \/ Store \/ \E n \in Bytes : Ship(n)
  <2>1. Idle \/ pc' \in {"local", "cleanout", "announce", "split"}
    BY <1>1 DEF HeatRefused, RewarmOver, GrowRefused, GrowHere, Announce, GrowHereAfterAll,
                GrowRemote, Store, Ship
  <2> QED
    BY <1>i, <1>n, <2>1 DEF Made
<1>2. CASE StorageRefused
  <2>1. Idle \/ req'.then = "here"
    BY <1>2, <1>b DEF StorageRefused, Book, ReqType
  <2> QED
    BY <1>i, <1>n, <2>1 DEF Owed
<1>3. CASE Cleanout \/ CleanOver
  <2>1. pc \in {"cleanout", "cleanWarm", "cleanCold"}
    BY <1>3 DEF Cleanout, CleanOver
  <2>2. req.then \in {"idle", "store"}
    BY <2>1 DEF Flow
  <2>3. Idle \/ req' = req
    BY <1>3 DEF Cleanout, CleanOver, CleanedOut
  <2> QED
    BY <1>i, <1>n, <2>2, <2>3 DEF Owed
<1>4. CASE StageOver \/ Granted \/ UNCHANGED vars \/ \E s \in Slots : GiveUpWarm(s)
  <2>1. CASE StageOver
    <3>1. UNCHANGED <<temp, near, far, req, ask>> /\ pc \in Stages
      BY <2>1 DEF StageOver, Stages
    <3>2. req.then \in Owed => pc \in Made
      BY <3>1 DEF Flow, Owed, Made, Stages
    <3> QED
      BY <3>1, <3>2 DEF Promised, Owed, Made
  <2>2. CASE Granted
    BY <2>2 DEF Granted, Promised
  <2>3. CASE UNCHANGED vars
    BY <2>3 DEF vars, Promised
  <2>4. ASSUME NEW s \in Slots, GiveUpWarm(s) PROVE Promised'
    BY <2>4, <1>n DEF GiveUpWarm, Made
  <2> QED
    BY <1>4, <2>1, <2>2, <2>3, <2>4
<1>5. CASE Ensure
  <2>1. /\ UNCHANGED <<temp, near, far, req>> /\ pc \in Made
    BY <1>5 DEF Ensure, Made
  <2>2. CASE UNCHANGED ask
    BY <2>1, <2>2 DEF Promised, Made
  <2>3. CASE ~ UNCHANGED ask
    <3>1. /\ ~(ask.want <= ask.unused) /\ ask.plan # <<>>
          /\ Begin(Head(ask.plan), ask.want - ask.unused,
                   [ask EXCEPT !.plan = Tail(@), !.want = @ - ask.unused, !.unused = 0])
      BY <1>5, <2>3 DEF Ensure
    <3>2. PICK w \in Nat : w = ask.want - ask.unused
      BY <1>b, <3>1
    <3>3. PICK h \in Stages, p \in Seq(Stages) : h = Head(ask.plan) /\ p = Tail(ask.plan)
      <4>1. PICK plan \in Seq(Stages) : plan = ask.plan /\ plan # <<>>
        BY <3>1 DEF Book, AskType
      <4>2. Head(plan) \in Stages /\ Tail(plan) \in Seq(Stages)
        BY <4>1
      <4> QED
        BY <4>1, <4>2
    <3>4. PICK b : b = [ask EXCEPT !.plan = p, !.want = w, !.unused = 0]
      OBVIOUS
    <3>5. b \in AskType /\ b.want = w /\ b.need = ask.need /\ b.over = ask.over /\ b.unused = 0
      BY <1>b, <3>4 DEF AskType
    <3>6. Begin(h, w, b)
      BY <3>1, <3>2, <3>3, <3>4
    <3>7. PICK a : a = ask'
      OBVIOUS
    <3>8. /\ a.want = w /\ a.need = ask.need /\ a.over = ask.over /\ a.unused = 0
      BY <1>b, <3>5, <3>6, <3>7, Beginning DEF Same
    <3>9. PICK used \in Nat : used = Committed(temp, near, far)
      BY <1>c, CommittedIs
    <3>10. Kept(ask, temp, near, far) => Kept(a, temp, near, far)
      <4>1. ASSUME (ask.need - ask.want) + ask.unused + used <= StmHeap - Buffer + ask.over
            PROVE  (ask.need - w) + 0 + used <= StmHeap - Buffer + ask.over
        BY <1>b, <3>2, <4>1, Constants
      <4> QED
        BY <3>8, <3>9, <4>1 DEF Kept
    <3> QED
      BY <1>k, <1>n, <2>1, <3>7, <3>10, PromisedIs
  <2> QED
    BY <2>2, <2>3
<1>6. ASSUME NEW s \in Slots, CoolWarm(s) PROVE Promised'
  <2>1. /\ UNCHANGED <<near, far, pc, req>> /\ temp' = Set(temp, s, "wants") /\ pc \in Made
        /\ temp[s] \in Heated
    BY <1>6 DEF CoolWarm, Made, Heated
  <2>2. PICK a, t : a = ask' /\ t = Set(temp, s, "wants")
    OBVIOUS
  <2>3. /\ a \in AskType /\ a.want = ask.want /\ a.need = ask.need /\ a.over = ask.over
        /\ a.unused <= ask.unused + near[s]
    BY <1>6, <2>2, Cooling DEF Same
  <2>4. Committed(t, near, far) + near[s] = Committed(temp, near, far)
    BY <2>1, <2>2, CommittedCools
  <2>5. t \in [Slots -> Temps]
    BY <1>a, <2>1, <2>2 DEF Memory
  <2>6. PICK used \in Nat, now \in Nat, v \in Nat, u \in Nat :
          /\ used = Committed(temp, near, far) /\ now = Committed(t, near, far)
          /\ v = near[s] /\ u = a.unused
    BY <1>c, <2>3, <2>5, CommittedIs DEF AskType
  <2>7. Kept(ask, temp, near, far) => Kept(a, t, near, far)
    <3>1. now + v = used /\ u <= ask.unused + v
      BY <2>3, <2>4, <2>6
    <3>2. ASSUME (ask.need - ask.want) + ask.unused + used <= StmHeap - Buffer + ask.over
          PROVE  (ask.need - ask.want) + u + now <= StmHeap - Buffer + ask.over
      BY <1>b, <3>1, <3>2, Constants
    <3> QED
      BY <2>3, <2>6, <3>2 DEF Kept
  <2> QED
    BY <1>k, <1>n, <2>1, <2>2, <2>7, PromisedIs
<1>7. ASSUME NEW s \in Slots, NEW n \in Bytes, FetchCold(s, n) PROVE Promised'
  <2>1. /\ UNCHANGED <<temp, pc, req>> /\ pc \in Made /\ n \in Nat
        /\ temp[s] \notin Heated
    BY <1>7 DEF FetchCold, Made, Heated, Cool, Bytes
  <2>2. PICK a : a = ask'
    OBVIOUS
  <2>3. /\ a \in AskType /\ a.want = ask.want /\ a.need = ask.need /\ a.over = ask.over
        /\ \/ /\ near' = Set(near, s, near[s] + n) /\ far' = Set(far, s, far[s] - n)
              /\ a.unused <= ask.unused + n
           \/ UNCHANGED <<near, far>> /\ a.unused = ask.unused
    BY <1>7, <2>1, <2>2, Fetching DEF Same
  <2>4. CASE UNCHANGED <<near, far>> /\ a.unused = ask.unused
    <3>1. Kept(ask, temp, near, far) => Kept(a, temp, near, far)
      BY <2>3, <2>4 DEF Kept
    <3> QED
      BY <1>k, <1>n, <2>1, <2>2, <2>4, <3>1, PromisedIs
  <2>5. CASE /\ near' = Set(near, s, near[s] + n) /\ far' = Set(far, s, far[s] - n)
             /\ a.unused <= ask.unused + n
    <3>1. n <= far[s]
      <4>1. PICK g \in Nat, v \in Nat : g = ask.goal /\ v = far[s]
        BY <1>b, <1>c DEF AskType
      <4>2. Lesser(g, v) \in Nat /\ Lesser(g, v) <= v
        BY Small
      <4>3. n <= Lesser(g, v)
        BY <1>7, <4>1 DEF FetchCold
      <4> QED
        BY <2>1, <4>1, <4>2, <4>3
    <3>2. PICK nr, fr : nr = Set(near, s, near[s] + n) /\ fr = Set(far, s, far[s] - n)
      OBVIOUS
    <3>3. Committed(temp, nr, fr) + n = Committed(temp, near, far)
      BY <2>1, <3>1, <3>2, CommittedFetches
    <3>4. nr \in [Slots -> Nat] /\ fr \in [Slots -> Nat]
      BY <1>a, <2>5, <3>2 DEF Memory
    <3>5. PICK used \in Nat, now \in Nat, u \in Nat :
            used = Committed(temp, near, far) /\ now = Committed(temp, nr, fr) /\ u = a.unused
      BY <1>c, <2>3, <3>4, CommittedIs DEF AskType
    <3>6. Kept(ask, temp, near, far) => Kept(a, temp, nr, fr)
      <4>1. now + n = used /\ u <= ask.unused + n
        BY <2>5, <3>3, <3>5
      <4>2. ASSUME (ask.need - ask.want) + ask.unused + used <= StmHeap - Buffer + ask.over
            PROVE  (ask.need - ask.want) + u + now <= StmHeap - Buffer + ask.over
        BY <1>b, <2>1, <4>1, <4>2, Constants
      <4> QED
        BY <2>3, <3>5, <4>2 DEF Kept
    <3> QED
      BY <1>k, <1>n, <2>1, <2>2, <2>5, <3>2, <3>6, PromisedIs
  <2> QED
    BY <2>3, <2>4, <2>5
<1>8. ASSUME NEW s \in Slots, NEW n \in Bytes, MoveOut(s, n) \/ CleanMove(s, n) PROVE Promised'
  BY <1>8, <1>n DEF MoveOut, CleanMove, Made
<1>9. ASSUME NEW s \in Slots, NEW t \in {"warm", "hot"}, Heat(s, t) PROVE Promised'
  <2>1. CASE temp[s] \notin Cool
    BY <1>9, <1>n, <2>1 DEF Heat, Made
  <2>2. CASE temp[s] \in Cool
    <3>1. PICK b \in Budgets(temp, near, far) :
            ask' = Ask(near[s], IF t = "hot" THEN ForDisplay ELSE ForCache, s,
                       [b EXCEPT !.cold = Minus(@, far[s])])
      BY <1>9, <2>2 DEF Heat
    <3>2. b \in BudgetType
      BY <1>c, <3>1, Budgeting
    <3>3. PICK k \in Nat : k = Minus(b.cold, far[s])
      <4>1. PICK x \in Nat, y \in Nat : x = b.cold /\ y = far[s]
        BY <1>c, <3>2 DEF BudgetType
      <4> QED
        BY <4>1, Small
    <3>4. PICK c : c = [b EXCEPT !.cold = Minus(@, far[s])]
      OBVIOUS
    <3>5. c \in BudgetType /\ c.unused = b.unused /\ c.over = b.over
      BY <3>2, <3>3, <3>4 DEF BudgetType
    <3>6. ForDisplay \in Seq(Stages) /\ ForCache \in Seq(Stages)
      BY DEF ForDisplay, ForCache, Stages
    <3>7. PICK plan \in Seq(Stages), v \in Nat :
            plan = (IF t = "hot" THEN ForDisplay ELSE ForCache) /\ v = near[s]
      BY <1>c, <3>6
    <3> DEFINE a == Ask(v, plan, s, c)
    <3>8. Kept(a, temp, near, far)
      BY <1>c, <3>1, <3>5, <3>7, KeptAtFirst
    <3>9. ask' = a /\ UNCHANGED <<temp, near, far>>
      BY <1>9, <3>1, <3>4, <3>7 DEF Heat
    <3> QED
      BY <1>k, <3>8, <3>9
  <2> QED
    BY <2>1, <2>2
<1>p. <<>> \in Seq(Stages)
  OBVIOUS
<1>10. ASSUME NEW s \in Slots, Chill(s) PROVE Promised'
  <2>1. PICK t : t = temp'
    OBVIOUS
  <2>2. PICK b \in Budgets(t, near, far) : ask' = Ask(0, <<>>, s, b)
    BY <1>10, <2>1 DEF Chill
  <2>3. UNCHANGED <<near, far>>
    BY <1>10 DEF Chill
  <2> QED
    BY <1>f, <1>p, <2>1, <2>2, <2>3
<1>11. ASSUME NEW s \in Slots, NEW n \in 0..MaxSize[s], Shrink(s, n) \/ Grow(s, n) PROVE Promised'
  <2>1. CASE Shrink(s, n)
    <3>1. PICK nr, fr : nr = near' /\ fr = far'
      OBVIOUS
    <3>2. PICK b \in Budgets(temp, nr, fr) : ask' = Ask(0, <<>>, s, b)
      BY <2>1, <3>1 DEF Shrink
    <3>3. temp' = temp
      BY <2>1 DEF Shrink
    <3> QED
      BY <1>f, <1>p, <3>1, <3>2, <3>3
  <2>2. CASE Grow(s, n)
    <3>1. CASE temp[s] \in Cool
      BY <1>n, <2>2, <3>1 DEF Grow, Made
    <3>2. CASE temp[s] \notin Cool
      <4>1. PICK k \in Nat : k = n - Size(s)
        <5>1. n \in Nat /\ Size(s) \in Nat /\ n > Size(s)
          BY <1>c, <2>2, BudgetAssumption DEF BudgetAssumption, Size, Grow
        <5> QED
          BY <5>1
      <4>2. ForDisplay \in Seq(Stages) /\ ForCache \in Seq(Stages)
        BY DEF ForDisplay, ForCache, Stages
      <4>3. PICK plan \in Seq(Stages) : plan = IF temp[s] = "hot" THEN ForDisplay ELSE ForCache
        BY <4>2
      <4>4. PICK b \in Budgets(temp, near, far) : ask' = Ask(k, plan, s, b)
        BY <2>2, <3>2, <4>1, <4>3 DEF Grow
      <4>5. UNCHANGED <<temp, near, far>>
        BY <2>2 DEF Grow
      <4> QED
        BY <1>f, <4>4, <4>5
    <3> QED
      BY <3>1, <3>2
  <2> QED
    BY <1>11, <2>1, <2>2
<1>12. ASSUME NEW s \in Slots, Rewarm(s) PROVE Promised'
  <2>1. UNCHANGED <<near, far, req>> /\ pc \in Made
    BY <1>12 DEF Rewarm, Made
  <2>2. CASE temp' = temp
    <3>1. PICK m \in Nat : m = Size(s)
      BY <1>c DEF Size
    <3>2. PICK b : b = [ask EXCEPT !.need = m, !.want = m, !.sparing = {s}]
      OBVIOUS
    <3>3. /\ b \in AskType /\ b.want = m /\ b.need = m /\ b.unused = ask.unused /\ b.over = ask.over
      BY <1>b, <3>2 DEF AskType
    <3>4. Begin("cold", m, b)
      <4>1. temp[s] = "wants" /\ temp[s] \in Temps
        BY <1>12 DEF Rewarm, Temps
      <4>2. temp' # Set(temp, s, "warm")
        BY <1>c, <2>2, <4>1 DEF Set
      <4> QED
        BY <1>12, <3>1, <3>2, <4>2 DEF Rewarm
    <3>5. PICK a : a = ask'
      OBVIOUS
    <3>6. a.want = m /\ a.need = m /\ a.unused = ask.unused /\ a.over = ask.over
      BY <1>b, <3>3, <3>4, <3>5, Beginning DEF Same, Stages
    <3>7. PICK used \in Nat : used = Committed(temp, near, far)
      BY <1>c, CommittedIs
    <3>8. Kept(ask, temp, near, far) => Kept(a, temp, near, far)
      BY <1>b, <3>6, <3>7, Constants DEF Kept
    <3> QED
      BY <1>k, <1>n, <2>1, <2>2, <3>5, <3>8, PromisedIs
  <2>3. CASE temp' # temp
    <3>1. PICK t : t = temp'
      OBVIOUS
    <3>2. PICK b \in Budgets(t, near, far) : ask' = Ask(0, <<>>, s, b)
      BY <1>12, <2>3, <3>1 DEF Rewarm
    <3> QED
      BY <1>f, <1>p, <2>1, <3>1, <3>2
  <2> QED
    BY <2>2, <2>3
<1>13. CASE Split
  <2>1. CASE Idle
    BY <1>i, <2>1
  <2>2. CASE ~ Idle
    <3>1. PICK part : /\ part = IF ~req.defer /\ req.size > SplitMin /\ Free > Buffer + SplitMin
                                THEN Free - Buffer ELSE 0
                      /\ part <= req.size
                      /\ \E b \in Budgets(temp, near', far') :
                           ask' = Ask(req.size - part, ForStorage(req.slot), req.slot, b)
      BY <1>13, <2>2 DEF Split
    <3>2. part \in Nat
      BY <3>1, FreeRoom, Constants
    <3>3. PICK k \in Nat : k = req.size - part
      BY <1>b, <3>1, <3>2
    <3>4. PICK nr, fr : nr = near' /\ fr = far'
      OBVIOUS
    <3>5. PICK b \in Budgets(temp, nr, fr) : ask' = Ask(k, ForStorage(req.slot), req.slot, b)
      BY <3>1, <3>3, <3>4
    <3>6. ForStorage(req.slot) \in Seq(Stages)
      <4>1. <<"warm">> \in Seq(Stages) /\ <<"warm", "cold">> \in Seq(Stages)
        BY DEF Stages
      <4> QED
        BY <4>1 DEF ForStorage
    <3>7. temp' = temp
      BY <1>13 DEF Split
    <3> QED
      BY <1>b, <1>f, <3>4, <3>5, <3>6, <3>7
  <2> QED
    BY <2>1, <2>2
<1> QED
  BY <1>1, <1>2, <1>3, <1>4, <1>5, <1>6, <1>7, <1>8, <1>9, <1>10, <1>11, <1>12, <1>13
     DEF Next, Requests, Working

-----------------------------------------------------------------------------
(* Theorems                                                                *)

IInv == Memory /\ Book /\ Flow /\ Promised

LEMMA IInvInit == Init => IInv
<1> SUFFICES ASSUME Init PROVE IInv
  OBVIOUS
<1>1. near = [s \in Slots |-> 0] /\ far = near /\ temp = [s \in Slots |-> "cold"]
  BY DEF Init
<1>2. PICK z : z = [s \in Slots |-> 0]
  OBVIOUS
<1>3. Total(z, Slots) = 0
  BY <1>2, TotalOfNothing
<1>4. Memory
  BY <1>1, <1>2, <1>3, Constants DEF Memory, Temps
<1>5. PICK r \in ReqType, a \in AskType :
        /\ r = NoReq /\ r.then = "idle"
        /\ a = NoAsk /\ a.want = 0 /\ a.need = 0 /\ a.plan = <<>>
  BY NoRequest, NoPlan
<1>6. pc = "idle" /\ req = r /\ ask = a
  BY <1>5 DEF Init
<1>7. Book
  BY <1>5, <1>6 DEF Book, Places
<1>8. Flow
  <2>1. <<>> \in Seq(Makes)
    OBVIOUS
  <2> QED
    BY <1>5, <1>6, <2>1 DEF Flow
<1>9. Promised
  BY <1>6 DEF Promised
<1> QED
  BY <1>4, <1>7, <1>8, <1>9 DEF IInv

LEMMA IInvStep == IInv /\ [Next]_vars => IInv'
BY MemoryStep, BookStep, PromisedStep DEF IInv

\* Whatever is asked for and whichever transfers fail, the books of the update manager
\* keep their types, and no more is set aside for a request than it needs.
THEOREM TypeCorrect == Spec => []TypeOK
<1>1. IInv => TypeOK
  BY TypeParts DEF IInv
<1> QED
  BY <1>1, IInvInit, IInvStep, PTL DEF Spec

\* The ESP's arena is never given more bytes than it holds: fetching cold bytes back
\* and growing a slot, in each of its places, look at the free space and then fill it.
THEOREM NeverOverfull == Spec => []Fits
<1>1. IInv => Fits
  BY TypeParts DEF IInv
<1> QED
  BY <1>1, IInvInit, IInvStep, PTL DEF Spec

\* ensure_budget_space never promises the same room on the display twice: what it has
\* set aside, what it still takes for unused and what the display is committed to fit
\* the display's heap, for any slots and sizes and any order of the reclaims, those
\* that fail included.
THEOREM NothingPromisedTwice == Spec => []Promised
<1>1. IInv => Promised
  BY DEF IInv
<1> QED
  BY <1>1, IInvInit, IInvStep, PTL DEF Spec
=============================================================================
