---------------------------- MODULE MemoryBudget ----------------------------
(***************************************************************************)
(* How the ESP shares out the display's memory (dupm.cpp).  A slot's bytes *)
(* are near (canonical blocks, in the ESP's own arena) or far (remote      *)
(* blocks, whose only copy the display holds).  The display needs room for *)
(* all of a hot or warm slot and for the far bytes of a cold one.  The ESP *)
(* adds that up into a budget, hands out what is unused, and makes room by *)
(* cooling warm slots and by fetching far bytes of cold ones back.         *)
(*                                                                         *)
(* Sizes are in units of a block's alignment; headers take no room.  Which *)
(* block a search picks, a matter of sizes and of the arena's order, is    *)
(* left open.                                                              *)
(***************************************************************************)
EXTENDS Naturals, Sequences, FiniteSetsExt

CONSTANTS
  Slots,
  StmHeap,      \* STM_HEAP_SIZE
  EspHeap,      \* the size of the ESP's own arena
  Buffer,       \* target_free_space_buffer
  SplitMin,     \* minimum_split_block_size
  Excess,       \* what round_with_max adds
  MaxSize       \* per slot, the most bytes it is given

ASSUME BudgetAssumption ==
  /\ IsFiniteSet(Slots) /\ Slots # {}
  /\ {StmHeap, EspHeap, Buffer, SplitMin, Excess} \subseteq Nat
  /\ MaxSize \in [Slots -> Nat]
  /\ Buffer <= StmHeap /\ Buffer <= EspHeap

VARIABLES
  temp,         \* per slot: "cold", "wants" (to be warm), "warm" or "hot"
  near, far,    \* per slot, bytes in canonical and in remote blocks
  pc,           \* where the update manager is
  req,          \* the request it works on
  ask           \* the call of ensure_budget_space in progress, and its budget

vars == <<temp, near, far, pc, req, ask>>

Lesser(a, b) == IF a <= b THEN a ELSE b
Minus(a, b) == IF a <= b THEN 0 ELSE a - b
Total(f, S) == FoldSet(LAMBDA s, n : f[s] + n, 0, S)
Set(f, s, v) == [f EXCEPT ![s] = v]

Size(s) == near[s] + far[s]
At(t) == {s \in Slots : temp[s] \in t}
Cool == {"cold", "wants"}

\* What the display has to have room for.
Committed(temps, n, f) ==
  Total(f, Slots) + Total(n, {s \in Slots : temps[s] \in {"warm", "hot"}})

\* Free space of the ESP's arena.
Free == Minus(EspHeap, Total(near, Slots))

Unused(temps, n, f) == Minus(StmHeap - Buffer, Committed(temps, n, f))

\* calculate_memory_budget: the fields somebody reads.  When the budget is overdrawn
\* nothing is unused, and some of what the arena lists last is not counted.
Budgets(temps, n, f) ==
  LET over == Minus(Committed(temps, n, f), StmHeap - Buffer)
      Counted(f1, ts) == LET all == Total(f1, {s \in Slots : temps[s] \in ts})
                         IN  Minus(all, over)..all
  IN  [unused : {Unused(temps, n, f)}, over : {over},
       cold : Counted(f, Cool), warm : Counted(n, {"warm"}), hot : Counted(n, {"hot"})]

NoAsk == [need |-> 0, want |-> 0, plan |-> <<>>, goal |-> 0, limit |-> 0, sparing |-> {},
          unused |-> 0, cold |-> 0, warm |-> 0, hot |-> 0, over |-> 0]
NoReq == [kind |-> "none", slot |-> CHOOSE s \in Slots : TRUE, temp |-> "cold", size |-> 0,
          was |-> 0, defer |-> FALSE, tries |-> 0, then |-> "idle"]

Ask(need, plan, s, budget) ==
  [NoAsk EXCEPT !.need = need, !.want = need, !.plan = plan, !.sparing = {s},
                !.unused = budget.unused, !.cold = budget.cold, !.warm = budget.warm,
                !.hot = budget.hot, !.over = budget.over]

\* What ensure_budget_space tries, by intent.
ForStorage(s) == IF temp[s] \in Cool THEN <<"warm">> ELSE <<"warm", "cold">>
ForDisplay == <<"cold", "warm", "cold">>
ForCache == <<"cold">>
ForDedup == <<"moveWarm", "moveHot">>

Init ==
  /\ temp = [s \in Slots |-> "cold"]
  /\ near = [s \in Slots |-> 0] /\ far = near
  /\ pc = "idle" /\ req = NoReq /\ ask = NoAsk

Idle == pc' = "idle" /\ req' = NoReq /\ ask' = NoAsk

-----------------------------------------------------------------------------
(* ensure_budget_space                                                     *)

\* All the room perform_cold_remote_reclaim may fill on the ESP.  The difference is
\* unsigned: with less free than the buffer there is no limit.
ColdRoom == IF Free < Buffer THEN ask.cold ELSE Lesser(ask.cold, Free - Buffer)

StageMost(stage) == CASE stage = "warm" -> ask.warm [] stage = "cold" -> ColdRoom
                      [] stage = "moveWarm" -> ask.warm [] stage = "moveHot" -> ask.hot

\* The start of a reclaim of want bytes.
Begin(stage, want, a) ==
  /\ pc' = stage
  /\ ask' = [a EXCEPT !.goal = Lesser(want + Excess, StageMost(stage)), !.limit = StmHeap + EspHeap + 1]

\* Enough, or nothing left to try, or all that is unused is set aside and the next
\* reclaim starts.
Ensure_Twice ==
  /\ pc = "ensure" /\ UNCHANGED <<temp, near, far, req>>
  /\ IF ask.want <= ask.unused THEN pc' = "yes" /\ UNCHANGED ask
     ELSE IF ask.plan = <<>> THEN pc' = "no" /\ UNCHANGED ask
     ELSE Begin(Head(ask.plan), ask.want - ask.unused,
                [ask EXCEPT !.plan = Tail(@), !.want = @ - ask.unused])

Ensure ==
  /\ pc = "ensure" /\ UNCHANGED <<temp, near, far, req>>
  /\ IF ask.want <= ask.unused THEN pc' = "yes" /\ UNCHANGED ask
     ELSE IF ask.plan = <<>> THEN pc' = "no" /\ UNCHANGED ask
     ELSE Begin(Head(ask.plan), ask.want - ask.unused,
                [ask EXCEPT !.plan = Tail(@), !.want = @ - ask.unused, !.unused = 0])

\* The reclaim goes on with what is left of its goal.  No more counts as freed than
\* the budget knows of.
Freed(n, known) == [ask EXCEPT !.goal = Minus(@, n), !.unused = @ + Lesser(n, known)]

\* A warm slot is made cold.  Its far bytes stay with the display.
CoolWarm(s) ==
  /\ pc = "warm" /\ ask.goal > 0 /\ temp[s] = "warm" /\ near[s] > 0
  /\ temp' = Set(temp, s, "wants")
  /\ ask' = [Freed(near[s], ask.warm) EXCEPT !.warm = Minus(@, near[s]), !.cold = @ + far[s]]
  /\ UNCHANGED <<near, far, pc, req>>

\* n far bytes of a cold slot are fetched back, if the ESP has room for them.  When
\* the display does not acknowledge the request they count as near all the same, but
\* not as freed; whenever it goes wrong, smaller pieces are tried.
FetchCold_Again(s, n) ==
  /\ pc = "cold" /\ ask.goal > 0 /\ s \notin ask.sparing /\ temp[s] \in Cool
  /\ n <= Lesser(ask.goal, far[s]) /\ n < ask.limit
  /\ \/ /\ n <= Free
        /\ near' = Set(near, s, near[s] + n) /\ far' = Set(far, s, far[s] - n)
        /\ ask' = [Freed(n, ask.cold) EXCEPT !.cold = Minus(@, n)]
     \/ UNCHANGED <<near, far, ask>>
  /\ UNCHANGED <<temp, pc, req>>

FetchCold(s, n) ==
  /\ pc = "cold" /\ ask.goal > 0 /\ s \notin ask.sparing /\ temp[s] \in Cool
  /\ n <= Lesser(ask.goal, far[s]) /\ n < ask.limit
  /\ \/ /\ n <= Free
        /\ near' = Set(near, s, near[s] + n) /\ far' = Set(far, s, far[s] - n)
        /\ \/ ask' = [Freed(n, ask.cold) EXCEPT !.cold = Minus(@, n)]
           \/ ask' = [ask EXCEPT !.limit = n]
     \/ ask' = [ask EXCEPT !.limit = n] /\ UNCHANGED <<near, far>>
  /\ UNCHANGED <<temp, pc, req>>

\* TryForLocalDedup: all the near bytes of a slot go to the display, or n of them and
\* then no more.
MoveOut(s, n) ==
  /\ pc \in {"moveWarm", "moveHot"} /\ ask.goal > 0 /\ near[s] > 0 /\ n <= near[s]
  /\ temp[s] = (IF pc = "moveWarm" THEN "warm" ELSE "hot")
  /\ near' = Set(near, s, near[s] - n) /\ far' = Set(far, s, far[s] + n)
  /\ ask' = IF n = near[s] THEN Freed(n, IF pc = "moveWarm" THEN ask.warm ELSE ask.hot)
            ELSE [ask EXCEPT !.goal = 0]
  /\ UNCHANGED <<temp, pc, req>>

\* The goal is reached, or there is nothing more to do it with.
StageOver ==
  /\ \/ ask.goal = 0
     \/ pc = "warm" /\ \A s \in At({"warm"}) : near[s] = 0
     \/ pc = "cold" /\ (ask.limit = 1 \/ \A s \in At(Cool) \ ask.sparing : far[s] = 0)
     \/ pc = "moveWarm" /\ \A s \in At({"warm"}) : near[s] = 0
     \/ pc = "moveHot" /\ \A s \in At({"hot"}) : near[s] = 0
  /\ pc \in {"warm", "cold", "moveWarm", "moveHot"} /\ pc' = "ensure"
  /\ UNCHANGED <<temp, near, far, req, ask>>

-----------------------------------------------------------------------------
(* Temperatures: set_temp_handler                                          *)

\* The display asks for a slot to be warm or hot.  Coming from a cold one there must
\* be room for its near bytes; its far bytes are with the display already.
Heat(s, t) ==
  /\ pc = "idle" /\ t \in {"warm", "hot"} /\ temp[s] # t
  /\ req' = [NoReq EXCEPT !.kind = "temp", !.slot = s, !.temp = t, !.then = "ship"]
  /\ IF temp[s] \in Cool
     THEN /\ pc' = "ensure"
          /\ \E b \in Budgets(temp, near, far) :
               ask' = Ask(near[s], IF t = "hot" THEN ForDisplay ELSE ForCache, s,
                          [b EXCEPT !.cold = Minus(@, far[s])])
     ELSE pc' = "ship" /\ UNCHANGED ask
  /\ UNCHANGED <<temp, near, far>>

\* Room there is.
Granted == pc = "yes" /\ pc' = req.then /\ UNCHANGED <<temp, near, far, req, ask>>

\* There is none: a slot that was to be warm waits for better times.
HeatRefused ==
  /\ pc = "no" /\ req.kind = "temp" /\ req.then = "ship"
  /\ temp' = IF req.temp = "warm" THEN Set(temp, req.slot, "wants") ELSE temp
  /\ Idle /\ UNCHANGED <<near, far>>

\* The slot must be all near or all far: if part of it is far, n near bytes and then
\* the rest of them are stored on the display.  Storing may fail in the middle: for
\* want of room, which makes a warm slot wait, or otherwise.
Ship(n) ==
  /\ pc = "ship" /\ n <= near[req.slot]
  /\ LET s == req.slot
         move == near' = Set(near, s, near[s] - n) /\ far' = Set(far, s, far[s] + n)
     IN  \/ far[s] = 0 /\ n = 0 /\ temp' = Set(temp, s, req.temp) /\ UNCHANGED <<near, far>>
         \/ far[s] > 0 /\ move /\ temp' = Set(temp, s, req.temp)
         \/ far[s] > 0 /\ n < near[s] /\ move
            /\ temp' \in {temp} \cup (IF req.temp = "warm" THEN {Set(temp, s, "wants")} ELSE {})
  /\ Idle

\* The display asks for a slot to be cold; waiting slots are tried.
Chill(s) ==
  /\ pc = "idle" /\ temp[s] # "cold" /\ temp' = Set(temp, s, "cold")
  /\ pc' = "suppressed"
  /\ req' = [NoReq EXCEPT !.kind = "temp", !.slot = s, !.then = "suppressed"]
  /\ \E b \in Budgets(temp', near, far) : ask' = Ask(0, <<>>, s, b)
  /\ UNCHANGED <<near, far>>

\* The display has no room for a warm slot's bytes after all, or keeps losing them: the
\* slot waits, or is cold for good.
GiveUpWarm(s) ==
  /\ pc = "idle" /\ temp[s] = "warm"
  /\ \E t \in Cool : temp' = Set(temp, s, t)
  /\ UNCHANGED <<near, far, pc, req, ask>>

\* try_reclaim_supressed_warm: a waiting slot that fits is made warm; for one that
\* does not, cold bytes of others are fetched back, if that can be enough.
Rewarm(s) ==
  /\ pc = "suppressed" /\ temp[s] = "wants"
  /\ \/ /\ Size(s) <= ask.unused /\ temp' = Set(temp, s, "warm")
        /\ \E b \in Budgets(temp', near, far) : ask' = Ask(0, <<>>, s, b)
        /\ UNCHANGED pc
     \/ /\ Size(s) > ask.unused /\ Size(s) <= ask.cold
        /\ Begin("cold", Size(s), [ask EXCEPT !.need = Size(s), !.want = Size(s), !.sparing = {s}])
        /\ UNCHANGED temp
  /\ UNCHANGED <<near, far, req>>

\* None is left that fits, or the fetching was not enough.
RewarmOver ==
  /\ \/ /\ pc = "suppressed"
        /\ \A s \in At({"wants"}) : Size(s) > ask.unused /\ Size(s) > ask.cold
     \/ pc = "no" /\ req.then = "suppressed"
  /\ Idle /\ UNCHANGED <<temp, near, far>>

-----------------------------------------------------------------------------
(* Sizes: change_size_handler                                              *)

\* The end of the slot is cut off; what is cut may be near or far.
Shrink(s, n) ==
  /\ pc = "idle" /\ n < Size(s)
  /\ \E m \in 0..Lesser(n, near[s]) :
       n - m <= far[s] /\ near' = Set(near, s, m) /\ far' = Set(far, s, n - m)
  /\ pc' = "suppressed"
  /\ req' = [NoReq EXCEPT !.kind = "size", !.slot = s, !.then = "suppressed"]
  /\ \E b \in Budgets(temp, near', far') : ask' = Ask(0, <<>>, s, b)
  /\ UNCHANGED temp

\* A warm or hot slot needs room on the display for what it grows by.
Grow(s, n) ==
  /\ pc = "idle" /\ n > Size(s)
  /\ req' = [NoReq EXCEPT !.kind = "size", !.slot = s, !.size = n - Size(s), !.was = Size(s),
                          !.defer = temp[s] \notin Cool /\ far[s] > 0, !.then = "local"]
  /\ IF temp[s] \in Cool THEN pc' = "local" /\ UNCHANGED ask
     ELSE /\ pc' = "ensure"
          /\ \E b \in Budgets(temp, near, far) :
               ask' = Ask(n - Size(s), IF temp[s] = "hot" THEN ForDisplay ELSE ForCache, s, b)
  /\ UNCHANGED <<temp, near, far>>

\* A hot slot does not grow then; a warm one does, and waits.
GrowRefused ==
  /\ pc = "no" /\ req.then = "local"
  /\ IF temp[req.slot] = "hot" THEN Idle /\ UNCHANGED temp
     ELSE temp' = Set(temp, req.slot, "wants") /\ pc' = "local" /\ UNCHANGED <<req, ask>>
  /\ UNCHANGED <<near, far>>

\* In the ESP's own arena, unless part of the slot is far already.
GrowHere ==
  /\ pc = "local" /\ UNCHANGED <<temp, far, ask>>
  /\ IF ~req.defer /\ req.size <= Free
     THEN /\ near' = Set(near, req.slot, near[req.slot] + req.size)
          /\ pc' = "cleanout" /\ req' = [req EXCEPT !.then = "idle"]
     ELSE pc' = "announce" /\ UNCHANGED <<near, req>>

\* DATA_SET_SIZE: not acknowledged in three tries, the growth is left where it is.
Announce ==
  /\ pc = "announce" /\ UNCHANGED <<temp, near, far>>
  /\ Idle \/ (pc' = "split" /\ UNCHANGED <<req, ask>>)

\* All the room there is here, be it more than asked for, which ends the request; then
\* room on the display for the rest.
Split ==
  /\ pc = "split" /\ UNCHANGED <<temp, far>>
  /\ LET part == IF ~req.defer /\ req.size > SplitMin /\ Free > Buffer + SplitMin
                 THEN Free - Buffer ELSE 0
     IN  /\ near' = Set(near, req.slot, near[req.slot] + part)
         /\ \/ part > req.size /\ Idle
            \/ /\ part <= req.size
               /\ req' = [req EXCEPT !.size = @ - part, !.then = "remote"] /\ pc' = "ensure"
               /\ \E b \in Budgets(temp, near', far) :
                    ask' = Ask(req.size - part, ForStorage(req.slot), req.slot, b)

\* No room on the display: room is made here by moving to the display what it has a
\* copy of anyway.  The difference is unsigned: with less free than the buffer there
\* seems to be any amount.
StorageRefused ==
  /\ pc = "no" /\ req.then = "remote" /\ UNCHANGED <<temp, near, far>>
  /\ IF req.defer THEN Idle
     ELSE /\ req' = [req EXCEPT !.then = "here"] /\ pc' = "ensure"
          /\ \E b \in Budgets(temp, near, far) :
               ask' = Ask(req.size, ForDedup, req.slot,
                          [b EXCEPT !.unused = IF Free < Buffer THEN req.size ELSE Free - Buffer])

\* After that, all of the rest here, or all once more.
GrowHereAfterAll ==
  /\ pc = "here" \/ (pc = "no" /\ req.then = "here")
  /\ UNCHANGED <<temp, far>>
  /\ IF pc = "here" /\ req.size <= Free
     THEN near' = Set(near, req.slot, near[req.slot] + req.size) /\ Idle
     ELSE /\ UNCHANGED near
          /\ IF req.tries = 0
             THEN pc' = "split" /\ req' = [req EXCEPT !.tries = 1] /\ UNCHANGED ask
             ELSE Idle

\* A far block, for which the ESP needs little room itself.
GrowRemote ==
  /\ pc = "remote" /\ UNCHANGED <<temp, near, far, ask>>
  /\ req' = [req EXCEPT !.then = "store"] /\ pc' = "cleanout"

\* The display is told to store it; when it does not, the growth is undone.
Store ==
  /\ pc = "store" /\ UNCHANGED temp
  /\ \/ far' = Set(far, req.slot, far[req.slot] + req.size) /\ UNCHANGED near
     \/ /\ near' = Set(near, req.slot, Lesser(near[req.slot], req.was))
        /\ far' = Set(far, req.slot, Lesser(far[req.slot], Minus(req.was, near'[req.slot])))
  /\ Idle

-----------------------------------------------------------------------------
(* cleanout_esp_space                                                      *)

Clean(stage, n) == pc' = stage /\ ask' = [NoAsk EXCEPT !.goal = n, !.limit = StmHeap + EspHeap + 1]
CleanedOut == IF req.then = "idle" THEN Idle ELSE pc' = req.then /\ UNCHANGED <<req, ask>>

Cleanout ==
  /\ pc = "cleanout" /\ UNCHANGED <<temp, near, far>>
  /\ IF Free > Buffer THEN CleanedOut ELSE Clean("cleanWarm", Buffer - Free) /\ UNCHANGED req

\* n near bytes are moved to the display, or are not.
CleanMove(s, n) ==
  /\ pc \in {"cleanWarm", "cleanCold"} /\ temp[s] = (IF pc = "cleanWarm" THEN "warm" ELSE "cold")
  /\ n <= Lesser(ask.goal, near[s]) /\ n < ask.limit
  /\ \/ /\ near' = Set(near, s, near[s] - n) /\ far' = Set(far, s, far[s] + n)
        /\ ask' = [ask EXCEPT !.goal = @ - n]
     \/ ask' = [ask EXCEPT !.limit = n] /\ UNCHANGED <<near, far>>
  /\ UNCHANGED <<temp, pc, req>>

\* Warm bytes have their room on the display; cold ones need some that is unused.
CleanOver ==
  /\ pc \in {"cleanWarm", "cleanCold"} /\ UNCHANGED <<temp, near, far>>
  /\ \/ ask.goal = 0 \/ ask.limit = 1
     \/ \A s \in At({IF pc = "cleanWarm" THEN "warm" ELSE "cold"}) : near[s] = 0
  /\ IF pc = "cleanWarm" /\ ask.goal > 0 /\ Minus(Buffer, Free) <= Unused(temp, near, far)
     THEN Clean("cleanCold", Minus(Buffer, Free)) /\ UNCHANGED req
     ELSE CleanedOut

-----------------------------------------------------------------------------
Requests ==
  \/ \E s \in Slots : \/ \E t \in {"warm", "hot"} : Heat(s, t)
                      \/ Chill(s) \/ GiveUpWarm(s)
                      \/ \E n \in 0..MaxSize[s] : Shrink(s, n) \/ Grow(s, n)

\* What a slot can come to.
Bytes == 0..(StmHeap + EspHeap)

Working ==
  \/ Ensure \/ StageOver \/ Granted \/ HeatRefused \/ RewarmOver
  \/ GrowRefused \/ GrowHere \/ Announce \/ Split \/ StorageRefused \/ GrowHereAfterAll
  \/ GrowRemote \/ Store \/ Cleanout \/ CleanOver
  \/ \E n \in Bytes : Ship(n)
  \/ \E s \in Slots : \/ CoolWarm(s) \/ Rewarm(s)
                      \/ \E n \in Bytes \ {0} : FetchCold(s, n) \/ CleanMove(s, n)
                      \/ \E n \in Bytes : MoveOut(s, n)

Next == Requests \/ Working

Spec == Init /\ [][Next]_vars

\* The update manager's task runs; every wait in it has a timeout.
FairSpec == Spec /\ WF_vars(Working)

-----------------------------------------------------------------------------
(* Properties                                                              *)

Stages == {"warm", "cold", "moveWarm", "moveHot"}
ReqType ==
  [kind : {"none", "temp", "size"}, slot : Slots, temp : {"cold", "warm", "hot"},
   size : Nat, was : Nat, defer : BOOLEAN, tries : 0..1,
   then : {"idle", "ship", "suppressed", "local", "remote", "here", "store"}]
AskType ==
  [need : Nat, want : Nat, plan : Seq(Stages), goal : Nat, limit : Nat,
   sparing : SUBSET Slots, unused : Nat, cold : Nat, warm : Nat, hot : Nat, over : Nat]

\* Every variable keeps its type, and no more is set aside for a request than it needs.
TypeOK ==
  /\ temp \in [Slots -> {"cold", "wants", "warm", "hot"}]
  /\ near \in [Slots -> Nat] /\ far \in [Slots -> Nat]
  /\ pc \in Stages \cup {"idle", "ensure", "yes", "no", "ship", "suppressed", "local", "announce",
                         "split", "here", "remote", "store", "cleanout", "cleanWarm", "cleanCold"}
  /\ req \in ReqType /\ ask \in AskType
  /\ ask.want <= ask.need

\* The ESP's arena is never given more bytes than it holds.
Fits == Total(near, Slots) <= EspHeap

\* In the middle of making room for a request, what has been set aside and what seems
\* unused is there: nothing is promised twice, whatever the order of reclaims and
\* whichever of them fail.  (What was overdrawn when the request began still is.)
Promised ==
  req.then \in {"ship", "local", "remote", "suppressed"}
    /\ pc \in {"ensure", "warm", "cold", "yes", "no", "suppressed"} =>
  (ask.need - ask.want) + ask.unused + Committed(temp, near, far) <= StmHeap - Buffer + ask.over

\* Every request comes to an end, however often transfers fail.
Ends == []<>(pc = "idle")
=============================================================================
