-------------------------- MODULE ScreenSlotsProofs --------------------------
(* Types, Kept and Released, for every list of screens.                       *)
(*                                                                            *)
(* Neither property is inductive: the slots that draw requests when it has    *)
(* the lock again are those of a screen that must still be on show (Drawing). *)
EXTENDS ScreenSlots, WellFoundedInduction, TLAPS

Drawing == drawing => shown = Transit /\ ~Playing

IInv == TypeOK /\ Kept /\ Released /\ Drawing

Temperatures == [Screens -> [base : Temps, extra : Temps]]

-----------------------------------------------------------------------------
(* A set of numbers that is not empty has a least one.                        *)
LEMMA LeastIn ==
    ASSUME NEW S \in SUBSET Nat, S # {}
    PROVE  \E x \in S : \A y \in S : x <= y
<1>1. PICK x \in S : \A y \in S : ~ (<<y, x>> \in OpToRel(<, Nat))
  BY NatLessThanWellFounded, WFMin
<1>2. ASSUME NEW y \in S PROVE x <= y
  <2>1. ~ (y < x)
    BY <1>1 DEF OpToRel
  <2> QED
    BY <2>1
<1> QED
  BY <1>2

LEMMA MinIn ==
    ASSUME NEW S \in SUBSET Nat, S # {}
    PROVE  Min(S) \in S
  BY LeastIn DEF Min

(* A set of numbers below a bound has a greatest one: least is its distance   *)
(* from the bound.                                                            *)
LEMMA MaxIn ==
    ASSUME NEW n \in Nat, NEW S \in SUBSET (1 .. n), S # {}
    PROVE  Max(S) \in S
<1> DEFINE D == {n - x : x \in S}
<1>1. D \in SUBSET Nat /\ D # {}
  <2>1. \A x \in S : x \in Nat /\ n - x \in Nat
    OBVIOUS
  <2> QED
    BY <2>1
<1>2. PICK d \in D : \A e \in D : d <= e
  BY <1>1, LeastIn
<1>3. PICK x \in S : d = n - x
  OBVIOUS
<1>4. ASSUME NEW y \in S PROVE x >= y
  <2>1. n - x <= n - y
    BY <1>2, <1>3
  <2>2. x \in Nat /\ y \in Nat
    OBVIOUS
  <2> QED
    BY <2>1, <2>2
<1> QED
  BY <1>4 DEF Max

(* However far one walks, one stays in the list.                              *)
LEMMA Walk ==
    ASSUME NEW i \in DOMAIN Timing, NEW d \in Nat
    PROVE  At(i, d) \in DOMAIN Timing
<1>1. Len(Timing) \in Nat \ {0} /\ DOMAIN Timing = 1 .. Len(Timing)
  BY ScreenAssumption
<1>2. i - 1 + d \in Nat
  BY <1>1
<1> QED
  BY <1>1, <1>2 DEF At

LEMMA TurnsTyped ==
    ASSUME NEW i \in DOMAIN Timing
    PROVE  After(i) \in DOMAIN Timing /\ Before(i) \in DOMAIN Timing
<1>1. Len(Timing) - 1 \in Nat
  BY ScreenAssumption
<1>2. Enabled(i) \in SUBSET (1 .. (Len(Timing) - 1))
  BY DEF Enabled
<1>3. CASE Enabled(i) = {}
  BY <1>3 DEF After, Before
<1>4. CASE Enabled(i) # {}
  <2>1. Min(Enabled(i)) \in Nat
    <3>1. Enabled(i) \in SUBSET Nat
      BY <1>1, <1>2
    <3> QED
      BY <1>4, <3>1, MinIn
  <2>2. Max(Enabled(i)) \in Nat
    <3>1. Max(Enabled(i)) \in Enabled(i)
      BY <1>1, <1>2, <1>4, MaxIn
    <3> QED
      BY <3>1, <1>1, <1>2
  <2>3. At(i, Min(Enabled(i))) \in DOMAIN Timing /\ At(i, Max(Enabled(i))) \in DOMAIN Timing
    BY <2>1, <2>2, Walk
  <2> QED
    BY <1>4, <2>3 DEF After, Before
<1> QED
  BY <1>3, <1>4

LEMMA Listed ==
    ASSUME NEW i \in DOMAIN Timing
    PROVE  Timing[i] \in Screens
  BY ScreenAssumption

-----------------------------------------------------------------------------
(* What a request does to the temperatures.                                   *)
LEMMA AskedFacts ==
    ASSUME NEW temps \in Temperatures, NEW k \in Screens, NEW t \in Temps, NEW b \in BOOLEAN
    PROVE  LET new == Asked(temps, k, t, b)
           IN  /\ new \in Temperatures
               /\ \A j \in Screens : j # k => new[j] = temps[j]
               /\ new[k].base = t
               /\ new[k].extra = IF k = Transit /\ b THEN t ELSE temps[k].extra
  BY DEF Asked, Temperatures

LEMMA DestroyedFacts ==
    ASSUME NEW temps \in Temperatures, NEW k \in Screens
    PROVE  LET new == Destroyed(temps, k)
           IN  /\ new \in Temperatures
               /\ \A j \in Screens : j # k => new[j] = temps[j]
               /\ new[k].base = "cold" /\ new[k].extra = "cold"
  BY DEF Destroyed, Temperatures, Temps

LEMMA StopsTyped ==
    /\ StopsRead \subseteq BOOLEAN
    /\ info = "stops" => StopsRead = {TRUE}
  BY DEF StopsRead

(* A screen comes on, whatever was prepared before.                           *)
LEMMA SwitchedFacts ==
    ASSUME NEW temps \in Temperatures, NEW k \in Screens, NEW b \in BOOLEAN, shown \in Screens
    PROVE  LET new == Switched(temps, k, b)
           IN  /\ new \in Temperatures
               /\ \A j \in Screens : j \notin {k, shown} => new[j] = temps[j]
               /\ shown # k => new[shown].base = "cold" /\ new[shown].extra = "cold"
               /\ new[k].base = "hot"
               /\ k = Transit /\ b => new[k].extra = "hot"
<1> DEFINE gone == Destroyed(temps, shown)
<1>1. /\ gone \in Temperatures
      /\ \A j \in Screens : j # shown => gone[j] = temps[j]
      /\ gone[shown].base = "cold" /\ gone[shown].extra = "cold"
  BY DestroyedFacts
<1>2. "hot" \in Temps
  BY DEF Temps
<1> HIDE DEF gone
<1>3. LET new == Asked(gone, k, "hot", b)
      IN  /\ new \in Temperatures
          /\ \A j \in Screens : j # k => new[j] = gone[j]
          /\ new[k].base = "hot"
          /\ new[k].extra = IF k = Transit /\ b THEN "hot" ELSE gone[k].extra
  BY <1>1, <1>2, AskedFacts
<1>4. Switched(temps, k, b) = Asked(gone, k, "hot", b)
  BY DEF Switched, Built, gone
<1> QED
  BY <1>1, <1>3, <1>4

-----------------------------------------------------------------------------
(* One step at a time.                                                        *)
USE DEF Playing

LEMMA InitHolds == Init => IInv
<1> SUFFICES ASSUME Init PROVE IInv
  OBVIOUS
<1> DEFINE cold == [k \in Screens |-> [base |-> "cold", extra |-> "cold"]]
<1>1. PICK b \in BOOLEAN : temp = Built(Prepared(cold, First, TRUE, b), First, b)
  BY DEF Init
<1>2. cold \in Temperatures /\ First \in Screens /\ {"warm", "hot"} \subseteq Temps
  BY ScreenAssumption DEF Temperatures, Temps
<1>3. \A k \in Screens : cold[k].base = "cold" /\ cold[k].extra = "cold"
  OBVIOUS
<1> HIDE DEF cold
<1> DEFINE warm == Asked(cold, First, "warm", b)
<1>4. warm \in Temperatures /\ \A j \in Screens : j # First => warm[j] = cold[j]
  BY <1>2, AskedFacts
<1> HIDE DEF warm
<1>5. /\ temp \in Temperatures
      /\ \A j \in Screens : j # First => temp[j] = warm[j]
      /\ temp[First].base = "hot"
  <2>1. temp = Asked(warm, First, "hot", b)
    BY <1>1 DEF warm, Prepared, Built
  <2> QED
    BY <2>1, <1>2, <1>4, AskedFacts
<1>6. TypeOK
  <2>1. 1 \in DOMAIN Timing /\ 0 \in 0 .. MaxWhims
    BY ScreenAssumption
  <2> QED
    BY <2>1, <1>2, <1>5 DEF Init, TypeOK, Temperatures
<1>7. Kept /\ Drawing
  BY <1>5 DEF Init, Kept, Drawing
<1>8. Released
  BY <1>3, <1>4, <1>5 DEF Init, Released
<1> QED
  BY <1>6, <1>7, <1>8 DEF IInv

(* The swap, by the clock or by a button.                                     *)
LEMMA SwapHolds ==
    ASSUME IInv, Rotating, NEW i \in DOMAIN Timing, SwapTo(i), whims' \in 0 .. MaxWhims
    PROVE  IInv'
<1> DEFINE t == Timing[i]
           u == Timing[After(i)]
<1>1. t \in Screens /\ u \in Screens /\ shown \in Screens /\ temp \in Temperatures
  BY Listed, TurnsTyped DEF IInv, TypeOK, Temperatures
<1>2. PICK b \in StopsRead :
        temp' = Prepared(Switched(Prepared(temp, t, TRUE, b), t, b), u, FALSE, b)
  BY DEF SwapTo
<1>3. b \in BOOLEAN /\ (info = "stops" => b = TRUE) /\ "warm" \in Temps
  BY StopsTyped DEF Temps
<1>4. i \in DOMAIN Timing /\ idx' = i /\ shown' = t
  BY DEF SwapTo
<1> HIDE DEF t, u
<1> DEFINE first == Asked(temp, t, "warm", b)
           second == Switched(first, t, b)
<1>5. first \in Temperatures /\ \A j \in Screens : j # t => first[j] = temp[j]
  BY <1>1, <1>3, AskedFacts
<1> HIDE DEF first
<1>6. /\ second \in Temperatures
      /\ \A j \in Screens : j \notin {t, shown} => second[j] = first[j]
      /\ shown # t => second[shown].base = "cold" /\ second[shown].extra = "cold"
      /\ second[t].base = "hot"
      /\ t = Transit /\ b => second[t].extra = "hot"
  BY <1>1, <1>3, <1>5, SwitchedFacts
<1> HIDE DEF second
<1>7. /\ temp' \in Temperatures
      /\ \A j \in Screens : j # u => temp'[j] = second[j]
      /\ temp'[u].base = "warm" /\ temp'[u].extra = second[u].extra
  <2>1. PICK c \in BOOLEAN : c = FALSE
    OBVIOUS
  <2>2. temp' = Asked(second, u, "warm", c)
    BY <1>2, <1>3, <2>1 DEF first, second, Prepared
  <2>3. LET new == Asked(second, u, "warm", c)
        IN  /\ new \in Temperatures
            /\ \A j \in Screens : j # u => new[j] = second[j]
            /\ new[u].base = "warm"
            /\ new[u].extra = IF u = Transit /\ c THEN "warm" ELSE second[u].extra
    BY <1>1, <1>3, <1>6, AskedFacts
  <2> QED
    BY <2>1, <2>2, <2>3
<1>8. TypeOK'
  BY <1>1, <1>4, <1>7 DEF IInv, TypeOK, Temperatures, SwapTo, data
<1>9. Kept'
  <2>1. temp'[t].base # "cold"
    BY <1>1, <1>6, <1>7
  <2>2. t = Transit /\ info = "stops" => temp'[t].extra # "cold"
    BY <1>1, <1>3, <1>6, <1>7
  <2> QED
    BY <2>1, <2>2, <1>4 DEF Kept, SwapTo, data
<1>10. Released'
  <2>1. ASSUME NEW k \in Screens, k # t
        PROVE  "hot" \notin {temp'[k].base, temp'[k].extra} /\ (k \in Interactive => temp'[k].extra = "cold")
    <3>1. "hot" \notin {second[k].base, second[k].extra} /\ (k \in Interactive => second[k].extra = "cold")
      BY <2>1, <1>1, <1>5, <1>6 DEF IInv, Released
    <3> QED
      BY <3>1, <2>1, <1>7
  <2>2. ~Playing'
    BY DEF Rotating, SwapTo
  <2> QED
    BY <2>1, <2>2, <1>4 DEF Released
<1>11. Drawing'
  BY DEF Rotating, SwapTo, Drawing
<1> QED
  BY <1>8, <1>9, <1>10, <1>11 DEF IInv

LEMMA EarlyHolds == IInv /\ EarlyPrepare => IInv'
<1> SUFFICES ASSUME IInv, EarlyPrepare PROVE IInv'
  OBVIOUS
<1> DEFINE u == Timing[After(idx)]
<1>1. u \in Screens /\ temp \in Temperatures /\ "warm" \in Temps
  BY Listed, TurnsTyped DEF IInv, TypeOK, Temperatures, Temps
<1>2. PICK b \in StopsRead : temp' = Prepared(temp, u, TRUE, b)
  BY DEF EarlyPrepare
<1>3. b \in BOOLEAN /\ temp' = Asked(temp, u, "warm", b)
  BY <1>2, StopsTyped DEF Prepared
<1> HIDE DEF u
<1>4. /\ temp' \in Temperatures
      /\ \A j \in Screens : j # u => temp'[j] = temp[j]
      /\ temp'[u].base = "warm"
      /\ temp'[u].extra = IF u = Transit /\ b THEN "warm" ELSE temp[u].extra
  BY <1>1, <1>3, AskedFacts
<1>5. TypeOK'
  BY <1>4 DEF IInv, TypeOK, Temperatures, EarlyPrepare, data
<1>6. Kept'
  BY <1>1, <1>4 DEF IInv, TypeOK, Kept, EarlyPrepare, data
<1>7. Released'
  <2>1. Transit \notin Interactive
    BY ScreenAssumption
  <2> QED
    BY <2>1, <1>1, <1>4 DEF IInv, Released, EarlyPrepare
<1>8. Drawing'
  BY DEF IInv, Drawing, EarlyPrepare
<1> QED
  BY <1>5, <1>6, <1>7, <1>8 DEF IInv

(* "goto", and the game.                                                      *)
LEMMA GotoHolds ==
    ASSUME IInv, NEW k \in Screens, Goto(k), whims' \in 0 .. MaxWhims
    PROVE  IInv'
<1>1. shown \in Screens /\ temp \in Temperatures
  BY DEF IInv, TypeOK, Temperatures
<1>2. PICK b \in StopsRead : temp' = Switched(temp, k, b)
  BY DEF Goto
<1>3. b \in BOOLEAN /\ (info = "stops" => b = TRUE)
  BY StopsTyped
<1>4. /\ temp' \in Temperatures
      /\ \A j \in Screens : j \notin {k, shown} => temp'[j] = temp[j]
      /\ shown # k => temp'[shown].base = "cold" /\ temp'[shown].extra = "cold"
      /\ temp'[k].base = "hot"
      /\ k = Transit /\ b => temp'[k].extra = "hot"
  BY <1>1, <1>2, <1>3, SwitchedFacts
<1>5. TypeOK'
  BY <1>4 DEF IInv, TypeOK, Temperatures, Goto, data
<1>6. Kept'
  BY <1>3, <1>4 DEF Kept, Goto, data
<1>7. Released'
  BY <1>1, <1>4 DEF IInv, Released, Goto
<1>8. Drawing'
  BY DEF Drawing, Goto
<1> QED
  BY <1>5, <1>6, <1>7, <1>8 DEF IInv

LEMMA StartHolds ==
    ASSUME IInv, StartTetris, whims' \in 0 .. MaxWhims
    PROVE  IInv'
<1>1. shown \in Screens /\ temp \in Temperatures
  BY DEF IInv, TypeOK, Temperatures
<1>2. /\ temp' \in Temperatures
      /\ \A j \in Screens : j # shown => temp'[j] = temp[j]
      /\ temp'[shown].base = "cold" /\ temp'[shown].extra = "cold"
  BY <1>1, DestroyedFacts DEF StartTetris
<1>3. TypeOK'
  BY <1>2 DEF IInv, TypeOK, Temperatures, StartTetris, data
<1>4. Kept' /\ Drawing'
  BY DEF Kept, Drawing, StartTetris
<1>5. Released'
  BY <1>1, <1>2 DEF IInv, Released, StartTetris
<1> QED
  BY <1>3, <1>4, <1>5 DEF IInv

LEMMA EndHolds ==
    ASSUME IInv, EndTetris, whims' \in 0 .. MaxWhims
    PROVE  IInv'
<1>1. shown \in Screens /\ temp \in Temperatures /\ "hot" \in Temps
  BY DEF IInv, TypeOK, Temperatures, Temps
<1>2. PICK b \in StopsRead : temp' = Asked(temp, shown, "hot", b)
  BY DEF EndTetris, Built
<1>3. b \in BOOLEAN /\ (info = "stops" => b = TRUE)
  BY StopsTyped
<1>4. /\ temp' \in Temperatures
      /\ \A j \in Screens : j # shown => temp'[j] = temp[j]
      /\ temp'[shown].base = "hot"
      /\ temp'[shown].extra = IF shown = Transit /\ b THEN "hot" ELSE temp[shown].extra
  BY <1>1, <1>2, <1>3, AskedFacts
<1>5. TypeOK'
  BY <1>4 DEF IInv, TypeOK, Temperatures, EndTetris, data
<1>6. Kept'
  BY <1>3, <1>4 DEF Kept, EndTetris, data
<1>7. Released'
  BY <1>4 DEF IInv, Released, EndTetris
<1>8. Drawing'
  BY DEF IInv, Drawing, EndTetris
<1> QED
  BY <1>5, <1>6, <1>7, <1>8 DEF IInv

LEMMA InteractHolds ==
    ASSUME IInv, Interact, whims' \in 0 .. MaxWhims
    PROVE  IInv'
<1>1. PICK t \in Temps : temp' = [temp EXCEPT ![shown].extra = t]
  BY DEF Interact
<1>2. shown # Transit
  BY ScreenAssumption DEF Interact
<1>3. TypeOK'
  BY <1>1 DEF IInv, TypeOK, Interact, display, data
<1>4. Kept' /\ Released' /\ Drawing'
  BY <1>1, <1>2 DEF IInv, TypeOK, Kept, Released, Drawing, Interact, display, data
<1> QED
  BY <1>3, <1>4 DEF IInv

LEMMA DrawHolds == IInv /\ (DrawFinds \/ DrawRequests) => IInv'
<1> SUFFICES ASSUME IInv, DrawFinds \/ DrawRequests PROVE IInv'
  OBVIOUS
<1>1. CASE DrawFinds
  BY <1>1 DEF IInv, TypeOK, Kept, Released, Drawing, DrawFinds
<1>2. CASE DrawRequests
  <2>1. PICK b \in StopsRead :
          temp' = IF b THEN [temp EXCEPT ![Transit].extra = "hot"] ELSE temp
    BY <1>2 DEF DrawRequests
  <2>2. b \in BOOLEAN /\ (info = "stops" => b = TRUE) /\ Transit \in Screens
    BY StopsTyped, ScreenAssumption
  <2>3. shown = Transit /\ ~Playing
    BY <1>2 DEF IInv, Drawing, DrawRequests
  <2>4. TypeOK'
    BY <1>2, <2>1, <2>2 DEF IInv, TypeOK, DrawRequests, Temps
  <2>5. Kept' /\ Released' /\ Drawing'
    BY <1>2, <2>1, <2>2, <2>3 DEF IInv, TypeOK, Kept, Released, Drawing, DrawRequests
  <2> QED
    BY <2>4, <2>5 DEF IInv
<1> QED
  BY <1>1, <1>2

(* Steps that leave the temperatures and the screen on show alone.            *)
LEMMA QuietHolds ==
    ASSUME IInv, UNCHANGED <<shown, idx, temp, drawing>>, whims' \in 0 .. MaxWhims,
           Tick \/ TimeJump \/ (\E m \in {"screen", "menu"} : Enter(m)) \/ Leave \/ OverrideEnds \/ Servicer
    PROVE  IInv'
<1>1. CASE Tick
  BY <1>1 DEF IInv, TypeOK, Kept, Released, Drawing, Tick, data
<1>2. CASE TimeJump
  BY <1>2 DEF IInv, TypeOK, Kept, Released, Drawing, TimeJump, data
<1>3. ASSUME NEW m \in {"screen", "menu"}, Enter(m) PROVE IInv'
  BY <1>3 DEF IInv, TypeOK, Kept, Released, Drawing, Enter, data
<1>4. CASE Leave
  BY <1>4 DEF IInv, TypeOK, Kept, Released, Drawing, Leave, data
<1>5. CASE OverrideEnds
  <2>1. elapsed' \in {elapsed, "fresh"} /\ override' = FALSE /\ UNCHANGED <<informed, mode, data>>
    BY <1>5 DEF OverrideEnds
  <2>2. TypeOK'
    BY <2>1 DEF IInv, TypeOK, data
  <2>3. Kept' /\ Released' /\ Drawing'
    BY <2>1 DEF IInv, Kept, Released, Drawing, data
  <2> QED
    BY <2>2, <2>3 DEF IInv
<1>6. CASE Servicer
  <2>1. CASE ConfigArrives \/ MaskChanges
    BY <2>1 DEF IInv, TypeOK, Kept, Released, Drawing, ConfigArrives, MaskChanges, display
  <2>2. CASE InfoArrives \/ InfoDropped
    BY <2>2 DEF IInv, TypeOK, Kept, Released, Drawing, InfoArrives, InfoDropped, display
  <2> QED
    BY <1>6, <2>1, <2>2 DEF Servicer
<1> QED
  BY <1>1, <1>2, <1>3, <1>4, <1>5, <1>6

LEMMA StepHolds == IInv /\ [Next]_vars => IInv'
<1> SUFFICES ASSUME IInv, [Next]_vars PROVE IInv'
  OBVIOUS
<1>1. whims \in 0 .. MaxWhims /\ MaxWhims \in Nat
  BY ScreenAssumption DEF IInv, TypeOK
<1>2. Whim => whims' \in 0 .. MaxWhims
  BY <1>1 DEF Whim
<1>3. whims' = whims => whims' \in 0 .. MaxWhims
  BY <1>1
<1>4. idx \in DOMAIN Timing
  BY DEF IInv, TypeOK
<1>5. CASE ByClock
  BY <1>3, <1>4, <1>5, TurnsTyped, SwapHolds DEF ByClock
<1>6. CASE ByButton
  BY <1>2, <1>4, <1>6, TurnsTyped, SwapHolds DEF ByButton
<1>7. CASE EarlyPrepare
  BY <1>7, EarlyHolds
<1>8. CASE Tick \/ TimeJump
  BY <1>2, <1>3, <1>8, QuietHolds DEF Tick, TimeJump, data
<1>9. CASE \E m \in {"screen", "menu"} : Enter(m)
  BY <1>2, <1>9, QuietHolds DEF Enter, data
<1>10. CASE Leave \/ OverrideEnds
  BY <1>3, <1>10, QuietHolds DEF Leave, OverrideEnds, data
<1>11. ASSUME NEW k \in Screens, Goto(k) PROVE IInv'
  BY <1>2, <1>11, GotoHolds DEF Goto
<1>12. CASE Interact \/ StartTetris \/ EndTetris
  BY <1>2, <1>12, InteractHolds, StartHolds, EndHolds DEF Interact, StartTetris, EndTetris
<1>13. CASE DrawFinds \/ DrawRequests
  BY <1>13, DrawHolds
<1>14. CASE Servicer
  <2>1. UNCHANGED <<shown, idx, temp, drawing>> /\ (Whim \/ whims' = whims)
    BY <1>14 DEF Servicer, ConfigArrives, MaskChanges, InfoArrives, InfoDropped, display
  <2> QED
    BY <2>1, <1>2, <1>3, <1>14, QuietHolds
<1>15. CASE UNCHANGED vars
  BY <1>15 DEF IInv, TypeOK, Kept, Released, Drawing, vars, display, data
<1> QED
  BY <1>5, <1>6, <1>7, <1>8, <1>9, <1>10, <1>11, <1>12, <1>13, <1>14, <1>15
     DEF Next, Rotation, Buttons

LEMMA Invariant == Spec => []IInv
  BY InitHolds, StepHolds, PTL DEF Spec

-----------------------------------------------------------------------------
(* The state has its types; the index stays in the list of screens however    *)
(* it is turned (next_screen_idx).                                            *)
THEOREM TypeCorrect == Spec => []TypeOK
<1>1. IInv => TypeOK
  BY DEF IInv
<1> QED
  BY <1>1, Invariant, PTL

(* The screen on show is never without its data: ScreenSwapper::transition    *)
(* and prepare leave its slots at least warm, and TTCScreen::draw asks for    *)
(* the stops of every change it has looked at.                                *)
THEOREM ShownKeepsSlots == Spec => []Kept
<1>1. IInv => Kept
  BY DEF IInv
<1> QED
  BY <1>1, Invariant, PTL

(* The destructors let go of everything but what a next turn is prepared      *)
(* with, the slots asked for in an interaction that timed out among them.     *)
THEOREM GoneLetsGo == Spec => []Released
<1>1. IInv => Released
  BY DEF IInv
<1> QED
  BY <1>1, Invariant, PTL
=============================================================================
