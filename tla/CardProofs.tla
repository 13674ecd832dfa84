------------------------------ MODULE CardProofs -------------------------------
(* What the tasks of the ESP do to the SD card: the tasks around the grabbers *)
(* and the configuration file, and the log buffer with its flush.  The two    *)
(* share nothing but the card, and each has its specification and theorems.   *)
EXTENDS GrabTasks, SdLog, SequenceTheorems, TLAPS

-----------------------------------------------------------------------------
(* The web interface has the configuration to itself, no refresh is lost, and *)
(* the card always holds a configuration; for any grabbers and any bounds.    *)

(* The stop: GrabTaskDead is only set while the task is outside its loop, and *)
(* GrabTaskStop keeps it from beginning a pass.                               *)
StopInv ==
    /\ "Dead" \in bits => task \in {"none", "wifi", "stm", "alive", "exit", "gone"}
    /\ ~meddled /\ WebHasStopped => "Stop" \in bits
    /\ Excluded

(* Where the loops of a pass have got to.                                     *)
LoopInv ==
    /\ task = "wifiAgain" => next = 1
    /\ task = "plain" => next <= Len(Plain)
    /\ task = "waitTime" => next = Len(Plain) + 1
    /\ task \in {"secure"} \cup PullPlaces => next <= Len(Order)
    /\ task = "wipe" => next = Len(Order) + 1

(* In a pass, the grabbers that are owed a run are still to come.             *)
OwedInv ==
    /\ Standing
    /\ task \in Pass => owed \subseteq {Order[i] : i \in next .. Len(Order)}
    /\ task \in PullPlaces => Order[next] \notin owed

IInv == TypeOK /\ StopInv /\ LoopInv /\ OwedInv

LEMMA StopInit == Init => StopInv
  BY DEF Init, StopInv, Excluded, WebHasStopped, WebHolds, Pass, Replacing, Install, TakeBack

(* One lemma for all steps: what they do to the stop.                         *)
LEMMA StopKept == StopInv /\ [Next]_vars => StopInv'
<1> SUFFICES ASSUME StopInv, [Next]_vars PROVE StopInv'
  OBVIOUS
<1> USE DEF StopInv, Excluded, WebHasStopped, WebHolds
<1>1. CASE \/ \E g \in Asked : AskRefresh(g)
           \/ StartServices \/ Tick \/ KillerFires
           \/ UNCHANGED vars
  BY <1>1 DEF AskRefresh, StartServices, Tick, KillerFires, vars
<1>2. CASE PostRefresh
  BY <1>2 DEF PostRefresh, Post
<1>3. CASE Boot \/ Disconnected \/ KillerStops \/ TimeArrives \/ DisplayConnects \/ GotIp
  BY <1>3 DEF Boot, Disconnected, KillerStops, TimeArrives, DisplayConnects, GotIp
<1>4. CASE PowerCut \/ TickGiveUp
  BY <1>4 DEF PowerCut, TickGiveUp, Restart, Replacing, Install, TakeBack, Pass
<1>5. CASE TickStart
  BY <1>5 DEF TickStart, Pass, PullPlaces, Replacing, Install, TakeBack
<1>6. CASE TaskWaits
  <2>1. UNCHANGED <<web, bits, meddled>>
    BY <1>6 DEF TaskWaits, Stoppable
  <2>2. \/ task \in {"wifi", "stm"} /\ task' \in {"stm", "alive"}
        \/ task' = "exit"
        \/ "Dead" \notin bits /\ "Stop" \notin bits
    BY <1>6 DEF TaskWaits, Stoppable
  <2>3. "exit" \notin Pass /\ "stm" \notin Pass /\ "alive" \notin Pass
    BY DEF Pass, PullPlaces, Replacing, Install, TakeBack
  <2> QED
    BY <2>1, <2>2, <2>3
<1>7. CASE TaskAlive \/ PassBegins \/ Wipe \/ Wake \/ TaskExits
  <2>1. UNCHANGED <<web, meddled>> /\ ("Stop" \in bits' <=> "Stop" \in bits)
    BY <1>7 DEF TaskAlive, PassBegins, Wipe, Wake, TaskExits
  <2>2. task' \in {"clear", "wifiAgain", "sleep", "exit", "gone", "none"}
    BY <1>7 DEF TaskAlive, PassBegins, Wipe, Wake, TaskExits
  <2>3. task' \notin Pass
    BY <2>2 DEF Pass, PullPlaces, Replacing, Install, TakeBack
  <2>4. "Dead" \in bits' => task' \in {"none", "wifi", "stm", "alive", "exit", "gone"}
    BY <1>7 DEF TaskAlive, PassBegins, Wipe, Wake, TaskExits
  <2> QED
    BY <2>1, <2>3, <2>4
<1>8. CASE RunGrabber
  <2>1. task \in Pass /\ "Dead" \notin bits
    BY <1>8 DEF RunGrabber, Pass
  <2> QED
    BY <1>8, <2>1 DEF RunGrabber
<1>9. CASE PullCreate \/ PullWrite \/ PullReplace \/ PullParse \/ PullGivesUp \/ PullReload
  <2>1. task \in Pass /\ "Dead" \notin bits
    BY <1>9 DEF PullCreate, PullWrite, PullReplace, PullParse, PullGivesUp, PullReload,
                Pass, PullPlaces, Replacing, Install, TakeBack
  <2>2. UNCHANGED web /\ bits' \in {bits, bits \cup {"Requested"}}
    BY <1>9 DEF PullCreate, PullWrite, PullReplace, PullParse, PullGivesUp, PullReload, Post
  <2>3. "Dead" \notin bits' /\ ("Stop" \in bits => "Stop" \in bits')
    BY <2>1, <2>2
  <2>4. ~meddled' => ~meddled
    BY <1>9 DEF PullCreate, PullWrite, PullReplace, PullParse, PullGivesUp, PullReload
  <2>5. ~meddled' => web' \notin Replacing \cup {"reload", "find", "refresh", "release"}
    BY <2>1, <2>2, <2>4
  <2>6. ~meddled' /\ web' = "waitDead" => "Stop" \in bits'
    BY <2>2, <2>3, <2>4
  <2> QED
    BY <2>3, <2>5, <2>6
<1>10. CASE WebReads \/ WebCreate \/ WebWrite \/ WebReload
  BY <1>10 DEF WebReads, WebStep, WebCreate, WebWrite, WebReload, Replacing, Install, TakeBack
<1>11. CASE WebStop \/ WebWaits \/ WebRelease
  BY <1>11 DEF WebStop, WebWaits, WebRelease, Replacing, Install, TakeBack,
               Pass, PullPlaces
<1>12. CASE WebReplace \/ WebParse
  BY <1>12 DEF WebReplace, WebParse, After, Replacing, Install, TakeBack
<1>13. CASE WebRefreshes
  BY <1>13 DEF WebRefreshes, WebRefresh, Post, Replacing, Install, TakeBack
<1> QED
  BY <1>1, <1>2, <1>3, <1>4, <1>5, <1>6, <1>7, <1>8, <1>9, <1>10, <1>11, <1>12, <1>13
  DEF Next, GrabTask, WebTask, Surroundings

(* While the web interface replaces the configuration, no grabber runs        *)
(* (webui.cpp:386-395), unless the WiFi came back and took back the stop.     *)
THEOREM ConfigExcluded == Spec => []Excluded
<1>1. Init => StopInv
  BY StopInit
<1>2. StopInv /\ [Next]_vars => StopInv'
  BY StopKept
<1>3. StopInv => Excluded
  BY DEF StopInv
<1> QED
  BY <1>1, <1>2, <1>3, PTL DEF Spec

-----------------------------------------------------------------------------
(* The order of the grabbers is what the two loops run through.               *)
LEMMA Orders ==
    /\ Order \in Seq(STRING)
    /\ Len(Plain) \in Nat \ {0} /\ Len(Secure) \in Nat \ {0}
    /\ Len(Order) = Len(Plain) + Len(Secure)
  BY GrabTasksAssumption, ConcatProperties, EmptySeq DEF Order

LEMMA TypeInit == Init => TypeOK /\ LoopInv /\ OwedInv
<1> SUFFICES ASSUME Init PROVE TypeOK /\ LoopInv /\ OwedInv
  OBVIOUS
<1>1. TypeOK
  <2>1. files \in [Names -> Contents]
    BY DEF Init, Contents
  <2>2. /\ task \in TaskPlaces /\ web \in WebPlaces
        /\ next \in 1 .. Len(Order) + 1 /\ deadFor \in 0 .. MaxDead
    BY Orders, GrabTasksAssumption DEF Init, TaskPlaces, WebPlaces
  <2>3. /\ caller \in [for : Grabbers \cup {NONE, ALL}, free : BOOLEAN]
        /\ webFree \in BOOLEAN /\ enabled \in BOOLEAN /\ meddled \in BOOLEAN
        /\ killing \in BOOLEAN
    BY DEF Init, Idle
  <2>4. cuts \in 0 .. MaxCuts /\ drops \in 0 .. MaxDrops
    BY GrabTasksAssumption DEF Init
  <2> QED
    BY <2>1, <2>2, <2>3, <2>4 DEF Init, TypeOK
<1>2. LoopInv /\ OwedInv
  BY DEF Init, LoopInv, OwedInv, Standing, Pass, PullPlaces, Replacing, Install, TakeBack
<1> QED
  BY <1>1, <1>2

(* The card stays a card.                                                     *)
LEMMA FilesTyped ==
  ASSUME files \in [Names -> Contents], NEW s \in Replacing
  PROVE  FileStep(s) \in [Names -> Contents]
<1>1. \A a \in Names : Unlinked(a) \in [Names -> Contents]
  BY DEF Unlinked, Contents
<1>2. \A a, b \in Names : Renamed(a, b) \in [Names -> Contents]
  BY DEF Renamed, Contents
<1>3. {"config", "tmp", "old", "bad"} \subseteq Names
  BY DEF Names
<1> QED
  BY <1>1, <1>2, <1>3 DEF FileStep

(* One step of the replacement leads to another.                              *)
LEMMA AfterPlace ==
  ASSUME NEW s \in Replacing \ {"parse", "reparse"}
  PROVE  After(s) \in Replacing
  BY DEF After, Replacing, Install, TakeBack

(* The end of one grabber's turn.                                             *)
LEMMA AdvanceKeeps ==
  ASSUME TypeOK, next <= Len(Order), Advance
  PROVE  /\ next' \in 1 .. Len(Order) + 1
         /\ task' \in {"plain", "waitTime", "secure", "wipe"}
         /\ LoopInv'
  BY Orders DEF TypeOK, Advance, LoopInv, PullPlaces, Replacing, Install, TakeBack

(* Types, and where the loops have got to, step by step.                      *)
LEMMA TypeKept == TypeOK /\ LoopInv /\ [Next]_vars => TypeOK' /\ LoopInv'
<1> SUFFICES ASSUME TypeOK, LoopInv, [Next]_vars PROVE TypeOK' /\ LoopInv'
  OBVIOUS
<1>0. CASE UNCHANGED vars
  BY <1>0 DEF vars, TypeOK, LoopInv
<1>1. CASE \E g \in Asked : AskRefresh(g)
  <2>1. PICK g \in Asked : AskRefresh(g)
    BY <1>1
  <2>2. (refreshFor = NONE) \in BOOLEAN
    OBVIOUS
  <2>3. caller' \in [for : Grabbers \cup {NONE, ALL}, free : BOOLEAN]
    BY <2>1, <2>2, GrabTasksAssumption DEF AskRefresh
  <2> QED
    BY <2>1, <2>3 DEF AskRefresh, TypeOK, LoopInv
<1>2. CASE PostRefresh
  <2>1. refreshFor' \in Grabbers \cup {NONE, ALL} /\ owed' \subseteq Grabbers
    BY <1>2 DEF PostRefresh, Post, Owes, TypeOK
  <2>2. caller' \in [for : Grabbers \cup {NONE, ALL}, free : BOOLEAN]
    BY <1>2 DEF PostRefresh, Idle
  <2> QED
    BY <1>2, <2>1, <2>2 DEF PostRefresh, Post, TypeOK, LoopInv
<1>3. CASE PowerCut \/ TickGiveUp
  <2>1. Restart
    BY <1>3 DEF PowerCut, TickGiveUp
  <2>2. /\ caller' \in [for : Grabbers \cup {NONE, ALL}, free : BOOLEAN]
        /\ webFree' \in BOOLEAN /\ enabled' \in BOOLEAN /\ killing' \in BOOLEAN
        /\ meddled' \in BOOLEAN
    BY <2>1 DEF Restart, Idle, TypeOK
  <2>3. cuts' \in 0 .. MaxCuts /\ drops' \in 0 .. MaxDrops
    BY <1>3, GrabTasksAssumption DEF PowerCut, TickGiveUp, TypeOK
  <2>4. /\ task' \in TaskPlaces /\ web' \in WebPlaces
        /\ next' \in 1 .. Len(Order) + 1 /\ deadFor' \in 0 .. MaxDead
    BY <2>1, Orders, GrabTasksAssumption DEF Restart, TaskPlaces, WebPlaces
  <2>5. LoopInv'
    BY <2>1 DEF Restart, LoopInv, PullPlaces, Replacing, Install, TakeBack
  <2> QED
    BY <2>1, <2>2, <2>3, <2>4, <2>5 DEF Restart, TypeOK
<1>4. CASE Boot \/ StartServices \/ TimeArrives \/ DisplayConnects
  <2>1. /\ main' \in {"boot", "waiting", "up", "halted"}
        /\ bits' \subseteq {"Wifi", "Time", "Stm", "Requested", "Stop", "Dead"}
    BY <1>4 DEF Boot, StartServices, TimeArrives, DisplayConnects, TypeOK
  <2>2. UNCHANGED <<files, task, next, deadFor, killer, killing, refreshFor, caller,
                    web, webFree, enabled, cuts, drops, owed, meddled>>
    BY <1>4 DEF Boot, StartServices, TimeArrives, DisplayConnects
  <2> QED
    BY <2>1, <2>2 DEF TypeOK, LoopInv
<1>5. CASE Tick \/ TickStart
  <2>1. deadFor' \in 0 .. MaxDead
    BY <1>5, GrabTasksAssumption DEF Tick, TickStart, TypeOK
  <2>2. task' \in TaskPlaces /\ LoopInv'
    BY <1>5 DEF Tick, TickStart, TypeOK, LoopInv, TaskPlaces, PullPlaces,
                Replacing, Install, TakeBack
  <2> QED
    BY <1>5, <2>1, <2>2 DEF Tick, TickStart, TypeOK
<1>6. CASE GotIp \/ Disconnected \/ KillerFires \/ KillerStops
  <2>1. meddled' \in BOOLEAN
    BY <1>6 DEF GotIp, Disconnected, KillerFires, KillerStops, TypeOK
  <2>2. killing' \in BOOLEAN
    BY <1>6 DEF GotIp, Disconnected, KillerFires, KillerStops, TypeOK
  <2>3. drops' \in 0 .. MaxDrops
    BY <1>6, GrabTasksAssumption DEF GotIp, Disconnected, KillerFires, KillerStops, TypeOK
  <2>4. bits' \subseteq {"Wifi", "Time", "Stm", "Requested", "Stop", "Dead"}
    BY <1>6 DEF GotIp, Disconnected, KillerFires, KillerStops, TypeOK
  <2>5. killer' \in {"none", "armed", "fired"}
    BY <1>6 DEF GotIp, Disconnected, KillerFires, KillerStops, TypeOK
  <2> QED
    BY <1>6, <2>1, <2>2, <2>3, <2>4, <2>5
    DEF GotIp, Disconnected, KillerFires, KillerStops, TypeOK, LoopInv
<1>7. CASE TaskWaits
  <2>1. /\ next' = next
        /\ \/ task = "wifi" /\ task' \in {"stm", "exit"}
           \/ task = "stm" /\ task' \in {"alive", "exit"}
           \/ task = "wifiAgain" /\ task' \in {"plain", "exit"}
           \/ task = "waitTime" /\ task' \in {"secure", "exit"}
    BY <1>7 DEF TaskWaits, Stoppable
  <2>2. LoopInv' /\ task' \in TaskPlaces
    BY <2>1, Orders DEF LoopInv, TaskPlaces, Pass, PullPlaces, Replacing, Install, TakeBack
  <2>3. UNCHANGED <<files, main, bits, next, deadFor, killer, killing, refreshFor, caller,
                    web, webFree, enabled, cuts, drops, owed, meddled>>
    BY <1>7 DEF TaskWaits, Stoppable
  <2> QED
    BY <2>2, <2>3 DEF TypeOK
<1>8. CASE TaskAlive \/ PassBegins \/ Wipe \/ Wake \/ TaskExits
  <2>1. next' \in 1 .. Len(Order) + 1
    BY <1>8, Orders DEF TaskAlive, PassBegins, Wipe, Wake, TaskExits, TypeOK
  <2>2. task' \in TaskPlaces
    BY <1>8 DEF TaskAlive, PassBegins, Wipe, Wake, TaskExits, TaskPlaces, Pass
  <2>3. LoopInv'
    BY <1>8 DEF TaskAlive, PassBegins, Wipe, Wake, TaskExits, LoopInv,
                PullPlaces, Replacing, Install, TakeBack
  <2>4. bits' \subseteq {"Wifi", "Time", "Stm", "Requested", "Stop", "Dead"}
    BY <1>8 DEF TaskAlive, PassBegins, Wipe, Wake, TaskExits, TypeOK
  <2> QED
    BY <1>8, <2>1, <2>2, <2>3, <2>4 DEF TaskAlive, PassBegins, Wipe, Wake, TaskExits, TypeOK
<1>9. CASE RunGrabber
  <2>1. next <= Len(Order)
    BY <1>9, Orders DEF RunGrabber, LoopInv, TypeOK
  <2>2. Advance \/ (task' = "create" /\ next' = next)
    BY <1>9 DEF RunGrabber
  <2>3. next' \in 1 .. Len(Order) + 1 /\ LoopInv' /\ task' \in TaskPlaces
    <3>1. CASE Advance
      BY <3>1, <2>1, AdvanceKeeps DEF TaskPlaces, Pass
    <3>2. CASE task' = "create" /\ next' = next
      BY <3>2, <2>1 DEF TypeOK, LoopInv, TaskPlaces, Pass, PullPlaces, Replacing, Install, TakeBack
    <3> QED
      BY <2>2, <3>1, <3>2
  <2>4. owed' \subseteq Grabbers
    BY <1>9 DEF RunGrabber, TypeOK
  <2>5. UNCHANGED <<files, main, bits, deadFor, killer, killing, refreshFor, caller,
                    web, webFree, enabled, cuts, drops, meddled>>
    BY <1>9 DEF RunGrabber
  <2> QED
    BY <2>3, <2>4, <2>5 DEF TypeOK
<1>10. CASE PullCreate \/ PullWrite
  <2>1. next <= Len(Order)
    BY <1>10 DEF PullCreate, PullWrite, LoopInv, PullPlaces
  <2>2. \/ Advance
        \/ task' \in {"blind", "write", "unlinkOld"} /\ next' = next
    BY <1>10 DEF PullCreate, PullWrite
  <2>3. next' \in 1 .. Len(Order) + 1 /\ LoopInv' /\ task' \in TaskPlaces
    <3>1. CASE Advance
      BY <3>1, <2>1, AdvanceKeeps DEF TaskPlaces, Pass
    <3>2. CASE task' \in {"blind", "write", "unlinkOld"} /\ next' = next
      BY <3>2, <2>1 DEF TypeOK, LoopInv, TaskPlaces, Pass, PullPlaces, Replacing, Install, TakeBack
    <3> QED
      BY <2>2, <3>1, <3>2
  <2>4. files' \in [Names -> Contents]
    BY <1>10 DEF PullCreate, PullWrite, TypeOK, Contents
  <2> QED
    BY <1>10, <2>3, <2>4 DEF PullCreate, PullWrite, TypeOK
<1>11. CASE PullReplace
  <2>1. task' \in Replacing /\ task \in Replacing
    BY <1>11, AfterPlace DEF PullReplace
  <2>2. files' \in [Names -> Contents]
    BY <1>11, <2>1, FilesTyped DEF PullReplace, TypeOK
  <2>3. meddled' \in BOOLEAN
    BY <1>11 DEF PullReplace, TypeOK
  <2>4. task' \in TaskPlaces /\ LoopInv'
    BY <1>11, <2>1 DEF PullReplace, LoopInv, TaskPlaces, Pass, PullPlaces,
                       Replacing, Install, TakeBack
  <2> QED
    BY <1>11, <2>2, <2>3, <2>4 DEF PullReplace, TypeOK
<1>12. CASE PullParse \/ PullGivesUp
  <2>1. enabled' \in BOOLEAN
    BY <1>12 DEF PullParse, PullGivesUp, TypeOK
  <2>2. next <= Len(Order)
    BY <1>12 DEF PullParse, PullGivesUp, LoopInv, PullPlaces, Replacing, Install, TakeBack
  <2>3. next' \in 1 .. Len(Order) + 1 /\ LoopInv' /\ task' \in TaskPlaces
    <3>1. CASE PullGivesUp
      BY <3>1, <2>2, AdvanceKeeps DEF PullGivesUp, TaskPlaces, Pass
    <3>2. CASE PullParse
      BY <3>2, <2>2 DEF PullParse, TypeOK, LoopInv, TaskPlaces, Pass, PullPlaces,
                        Replacing, Install, TakeBack
    <3> QED
      BY <1>12, <3>1, <3>2
  <2> QED
    BY <1>12, <2>1, <2>3 DEF PullParse, PullGivesUp, TypeOK
<1>13. CASE PullReload
  <2>1. next <= Len(Order)
    BY <1>13 DEF PullReload, LoopInv, PullPlaces
  <2>2. Advance \/ (task' = "ask" /\ next' = next)
    BY <1>13 DEF PullReload
  <2>3. next' \in 1 .. Len(Order) + 1 /\ LoopInv' /\ task' \in TaskPlaces
    <3>1. CASE Advance
      BY <3>1, <2>1, AdvanceKeeps DEF TaskPlaces, Pass
    <3>2. CASE task' = "ask" /\ next' = next
      BY <3>2, <2>1 DEF TypeOK, LoopInv, TaskPlaces, Pass, PullPlaces, Replacing, Install, TakeBack
    <3> QED
      BY <2>2, <3>1, <3>2
  <2>4. refreshFor' \in Grabbers \cup {NONE, ALL} /\ owed' \subseteq Grabbers
    BY <1>13 DEF PullReload, Post, Owes, TypeOK
  <2>5. bits' \subseteq {"Wifi", "Time", "Stm", "Requested", "Stop", "Dead"}
    BY <1>13 DEF PullReload, Post, TypeOK
  <2> QED
    BY <1>13, <2>3, <2>4, <2>5 DEF PullReload, TypeOK
<1>14. CASE WebReads \/ WebReload \/ WebStop \/ WebWaits \/ WebRelease
  <2>1. web' \in WebPlaces
    BY <1>14 DEF WebReads, WebStep, WebReload, WebStop, WebWaits, WebRelease,
                 WebPlaces, Replacing, Install
  <2>2. bits' \subseteq {"Wifi", "Time", "Stm", "Requested", "Stop", "Dead"}
    BY <1>14 DEF WebReads, WebStep, WebReload, WebStop, WebWaits, WebRelease, TypeOK
  <2> QED
    BY <1>14, <2>1, <2>2
    DEF WebReads, WebStep, WebReload, WebStop, WebWaits, WebRelease, TypeOK, LoopInv
<1>15. CASE WebCreate \/ WebWrite
  <2>1. files' \in [Names -> Contents]
    BY <1>15 DEF WebCreate, WebWrite, TypeOK, Contents
  <2>2. web' \in WebPlaces
    BY <1>15 DEF WebCreate, WebWrite, WebPlaces
  <2> QED
    <3>1. UNCHANGED <<main, bits, task, next, deadFor, killer, killing, refreshFor, caller,
                      webFree, enabled, cuts, drops, owed, meddled>>
      BY <1>15 DEF WebCreate, WebWrite
    <3> QED
      BY <2>1, <2>2, <3>1 DEF TypeOK, LoopInv
<1>16. CASE WebReplace
  <2>1. web' \in Replacing /\ web \in Replacing
    BY <1>16, AfterPlace DEF WebReplace
  <2>2. files' \in [Names -> Contents]
    BY <1>16, <2>1, FilesTyped DEF WebReplace, TypeOK
  <2>3. web' \in WebPlaces
    BY <2>1 DEF WebPlaces
  <2> QED
    BY <1>16, <2>2, <2>3 DEF WebReplace, TypeOK, LoopInv
<1>17. CASE WebParse
  <2>1. enabled' \in BOOLEAN
    BY <1>17 DEF WebParse, TypeOK
  <2>2. web' \in WebPlaces
    BY <1>17 DEF WebParse, WebPlaces, Replacing, TakeBack
  <2> QED
    BY <1>17, <2>1, <2>2 DEF WebParse, TypeOK, LoopInv
<1>18. CASE WebRefreshes
  <2>1. webFree' \in BOOLEAN
    BY <1>18 DEF WebRefreshes, WebRefresh, TypeOK
  <2>2. refreshFor' \in Grabbers \cup {NONE, ALL} /\ owed' \subseteq Grabbers
    BY <1>18 DEF WebRefreshes, WebRefresh, Post, Owes, TypeOK
  <2>3. web' \in WebPlaces
    BY <1>18 DEF WebRefreshes, WebRefresh, WebPlaces
  <2>4. bits' \subseteq {"Wifi", "Time", "Stm", "Requested", "Stop", "Dead"}
    BY <1>18 DEF WebRefreshes, WebRefresh, Post, TypeOK
  <2> QED
    BY <1>18, <2>1, <2>2, <2>3, <2>4 DEF WebRefreshes, TypeOK, LoopInv
<1> QED
  BY <1>0, <1>1, <1>2, <1>3, <1>4, <1>5, <1>6, <1>7, <1>8, <1>9, <1>10, <1>11, <1>12,
     <1>13, <1>14, <1>15, <1>16, <1>17, <1>18
  DEF Next, GrabTask, WebTask, Surroundings

(* The grabbers that are still to come lose only the one whose turn it was.   *)
LEMMA AdvanceOwes ==
  ASSUME TypeOK, next <= Len(Order), Advance,
         owed \subseteq {Order[i] : i \in next .. Len(Order)},
         owed' \subseteq owed, Order[next] \notin owed'
  PROVE  owed' \subseteq {Order[i] : i \in next' .. Len(Order)}
<1>1. next' = next + 1 /\ next \in Nat /\ Len(Order) \in Nat
  BY Orders DEF Advance, TypeOK
<1> SUFFICES ASSUME NEW g \in owed' PROVE g \in {Order[i] : i \in next' .. Len(Order)}
  OBVIOUS
<1>2. PICK i \in next .. Len(Order) : g = Order[i]
  OBVIOUS
<1>3. i # next
  BY <1>2
<1>4. i \in next' .. Len(Order)
  BY <1>1, <1>2, <1>3
<1> QED
  BY <1>2, <1>4

(* A request that finds none pending finds nothing owed: either it covers what*)
(* is owed afterwards, or it becomes ALL.                                     *)
LEMMA PostStands ==
  ASSUME TypeOK, Standing, NEW g, NEW free \in BOOLEAN, Post(g, free), owed' = Owes(g, free)
  PROVE  Standing'
<1>1. CASE ~free
  BY <1>1 DEF Post, Standing, Covered
<1>2. CASE free /\ refreshFor = NONE
  <2>1. owed = {}
    BY <1>2, GrabTasksAssumption DEF Standing, Covered, TypeOK, NONE, ALL
  <2>2. \A h \in owed' : Covered(h, g)
    BY <1>2, <2>1 DEF Owes
  <2> QED
    BY <1>2, <2>2 DEF Post, Standing
<1>3. CASE free /\ refreshFor # NONE
  <2>1. \A h \in owed' : Covered(h, g)
    BY <1>3 DEF Owes
  <2> QED
    BY <1>3, <2>1 DEF Post, Standing
<1> QED
  BY <1>1, <1>2, <1>3

LEMMA PostOwes ==
  ASSUME NEW g, NEW free \in BOOLEAN, owed' = Owes(g, free), task \in Pass
  PROVE  owed' \subseteq owed
  BY DEF Owes

(* Refreshes that are owed, step by step.                                     *)
LEMMA OwedKept == TypeOK /\ LoopInv /\ OwedInv /\ [Next]_vars => OwedInv'
<1> SUFFICES ASSUME TypeOK, LoopInv, OwedInv, [Next]_vars PROVE OwedInv'
  OBVIOUS
<1> DEFINE Later == {Order[i] : i \in next .. Len(Order)}
<1>0. CASE UNCHANGED <<task, next, refreshFor, owed>>
  BY <1>0 DEF OwedInv, Standing
<1>1. CASE UNCHANGED vars
  BY <1>0, <1>1 DEF vars
<1>2. CASE PostRefresh
  <2>1. caller.free \in BOOLEAN
    BY DEF TypeOK
  <2>2. Standing'
    BY <1>2, <2>1, PostStands DEF PostRefresh, OwedInv
  <2>3. task \in Pass => owed' \subseteq owed
    BY <1>2, <2>1, PostOwes DEF PostRefresh
  <2>4. task' = task /\ next' = next
    BY <1>2 DEF PostRefresh
  <2>5. PullPlaces \subseteq Pass
    BY DEF Pass
  <2> QED
    BY <2>2, <2>3, <2>4, <2>5 DEF OwedInv
<1>3. CASE \/ \E g \in Asked : AskRefresh(g)
           \/ Boot \/ StartServices \/ Tick
           \/ GotIp \/ Disconnected \/ KillerFires \/ KillerStops \/ TimeArrives \/ DisplayConnects
  BY <1>0, <1>3 DEF AskRefresh, Boot, StartServices, Tick, GotIp, Disconnected,
                    KillerFires, KillerStops, TimeArrives, DisplayConnects
<1>4. CASE WebReads \/ WebCreate \/ (WebTask /\ ~WebRefreshes)
  BY <1>0, <1>4 DEF WebReads, WebStep, WebCreate, WebTask, WebWrite, WebStop, WebWaits,
                    WebReplace, WebParse, WebReload, WebRelease
<1>5. CASE WebRefreshes
  <2>1. CASE web = "find"
    BY <1>0, <1>5, <2>1 DEF WebRefreshes, WebRefresh
  <2>2. CASE web = "refresh"
    <3>1. Post(ALL, webFree) /\ owed' = Owes(ALL, webFree) /\ webFree \in BOOLEAN
      BY <1>5, <2>2 DEF WebRefreshes, WebRefresh, TypeOK
    <3>2. Standing'
      BY <3>1, PostStands DEF OwedInv
    <3>3. task \in Pass => owed' \subseteq owed
      BY <3>1, PostOwes
    <3>4. task' = task /\ next' = next
      BY <1>5 DEF WebRefreshes
    <3>5. PullPlaces \subseteq Pass
      BY DEF Pass
    <3> QED
      BY <3>2, <3>3, <3>4, <3>5 DEF OwedInv
  <2> QED
    BY <1>5, <2>1, <2>2 DEF WebRefreshes, WebRefresh
<1>6. CASE PowerCut \/ TickGiveUp
  BY <1>6 DEF PowerCut, TickGiveUp, Restart, OwedInv, Standing
<1>7. CASE TickStart
  BY <1>7 DEF TickStart, OwedInv, Standing, Pass, PullPlaces, Replacing, Install, TakeBack
<1>8. CASE TaskWaits
  <2>1. /\ UNCHANGED <<next, refreshFor, owed>>
        /\ \/ task' \in {"stm", "alive", "exit"}
           \/ task = "wifiAgain" /\ task' = "plain"
           \/ task = "waitTime" /\ task' = "secure"
    BY <1>8 DEF TaskWaits, Stoppable
  <2>2. Standing'
    BY <2>1 DEF OwedInv, Standing
  <2>3. task' \notin PullPlaces
    BY <2>1 DEF PullPlaces, Replacing, Install, TakeBack
  <2>4. CASE task' \in {"stm", "alive", "exit"}
    BY <2>2, <2>3, <2>4 DEF OwedInv, Pass
  <2>5. CASE task = "wifiAgain"
    <3>1. owed \subseteq Later
      BY <2>5 DEF TypeOK, LoopInv, Grabbers
    <3> QED
      BY <2>1, <2>2, <2>3, <3>1 DEF OwedInv
  <2>6. CASE task = "waitTime"
    <3>1. owed \subseteq Later
      BY <2>6 DEF OwedInv, Pass
    <3> QED
      BY <2>1, <2>2, <2>3, <3>1 DEF OwedInv
  <2> QED
    BY <2>1, <2>4, <2>5, <2>6
<1>9. CASE TaskAlive \/ PassBegins \/ Wake \/ TaskExits
  <2>1. task' \notin Pass /\ UNCHANGED <<refreshFor, owed>>
    BY <1>9 DEF TaskAlive, PassBegins, Wake, TaskExits, Pass, PullPlaces,
                Replacing, Install, TakeBack
  <2> QED
    BY <2>1 DEF OwedInv, Standing, Pass
<1>10. CASE Wipe
  <2>1. task = "wipe" /\ task' = "sleep" /\ owed' = owed
    BY <1>10 DEF Wipe
  <2>2. owed = {}
    BY <2>1, Orders DEF LoopInv, OwedInv, Pass
  <2>3. task' \notin Pass
    BY <2>1 DEF Pass, PullPlaces, Replacing, Install, TakeBack
  <2> QED
    BY <2>1, <2>2, <2>3 DEF OwedInv, Standing, Pass
<1>11. CASE RunGrabber
  <2>1. /\ task \in {"plain", "secure"} /\ task \in Pass
        /\ refreshFor' = refreshFor
    BY <1>11 DEF RunGrabber, Pass
  <2>2. next <= Len(Order) /\ owed \subseteq Later
    BY <2>1, Orders DEF LoopInv, OwedInv, TypeOK
  <2>3. owed' \subseteq owed /\ Order[next] \notin owed'
    BY <1>11 DEF RunGrabber, OwedInv, Standing
  <2>4. Standing'
    BY <2>1, <2>3 DEF OwedInv, Standing
  <2>5. Advance \/ (task' = "create" /\ next' = next)
    BY <1>11 DEF RunGrabber
  <2>6. owed' \subseteq {Order[i] : i \in next' .. Len(Order)}
    BY <2>2, <2>3, <2>5, AdvanceOwes
  <2>7. task' \in PullPlaces => Order[next'] \notin owed'
    BY <2>2, <2>3, <2>5, AdvanceKeeps DEF PullPlaces, Replacing, Install, TakeBack
  <2> QED
    BY <2>4, <2>6, <2>7 DEF OwedInv
<1>12. CASE \/ PullCreate \/ PullWrite \/ PullReplace \/ PullParse \/ PullGivesUp
            \/ PullReload /\ task = "reload"
  <2>1. task \in PullPlaces /\ UNCHANGED <<refreshFor, owed>>
    BY <1>12 DEF PullCreate, PullWrite, PullReplace, PullParse, PullGivesUp, PullReload,
                 PullPlaces, Replacing, Install, TakeBack
  <2>2. Advance \/ next' = next
    BY <1>12 DEF PullCreate, PullWrite, PullReplace, PullParse, PullGivesUp, PullReload
  <2>3. next <= Len(Order) /\ owed \subseteq Later /\ Order[next] \notin owed
    BY <2>1 DEF LoopInv, OwedInv, Pass
  <2>4. owed' \subseteq {Order[i] : i \in next' .. Len(Order)}
    BY <2>1, <2>2, <2>3, AdvanceOwes
  <2>5. task' \in PullPlaces => Order[next'] \notin owed'
    BY <2>1, <2>2, <2>3, AdvanceKeeps DEF PullPlaces, Replacing, Install, TakeBack
  <2> QED
    BY <2>1, <2>4, <2>5 DEF OwedInv, Standing
<1>13. CASE PullReload /\ task = "ask"
  <2>1. /\ Post(ALL, refreshFor = NONE) /\ owed' = Owes(ALL, refreshFor = NONE)
        /\ Advance
    BY <1>13 DEF PullReload
  <2>2. task \in PullPlaces /\ task \in Pass
    BY <1>13 DEF PullPlaces, Pass
  <2>3. next <= Len(Order) /\ owed \subseteq Later /\ Order[next] \notin owed
    BY <2>2 DEF LoopInv, OwedInv
  <2>4. owed' \subseteq owed /\ Standing'
    BY <2>1, <2>2, PostStands, PostOwes DEF OwedInv
  <2>5. owed' \subseteq {Order[i] : i \in next' .. Len(Order)}
    BY <2>1, <2>3, <2>4, AdvanceOwes
  <2>6. task' \notin PullPlaces
    BY <2>1, <2>3, AdvanceKeeps DEF PullPlaces, Replacing, Install, TakeBack
  <2> QED
    BY <2>4, <2>5, <2>6 DEF OwedInv
<1> QED
  BY <1>1, <1>2, <1>3, <1>4, <1>5, <1>6, <1>7, <1>8, <1>9, <1>10, <1>11, <1>12, <1>13
  DEF Next, GrabTask, WebTask, Surroundings, PullReload

-----------------------------------------------------------------------------
(* IInv is inductive.                                                         *)
LEMMA Inductive == Spec => []IInv
<1>1. Init => IInv
  BY TypeInit, StopInit DEF IInv
<1>2. IInv /\ [Next]_vars => IInv'
  BY TypeKept, StopKept, OwedKept DEF IInv
<1> QED
  BY <1>1, <1>2, PTL DEF Spec

(* Files, bits, places and requests keep their types, and the loop of the grab*)
(* task never runs past the last grabber.                                     *)
THEOREM TypeCorrect == Spec => []TypeOK
<1>1. IInv => TypeOK
  BY DEF IInv
<1> QED
  BY <1>1, Inductive, PTL

(* A refresh asked for outside a pass stands until its grabber has run, however*)
(* requests, passes and restarts are interleaved (grab.cpp:51-59, 116).       *)
THEOREM RefreshStands == Spec => []Standing
<1>1. IInv => Standing
  BY DEF IInv, OwedInv
<1> QED
  BY <1>1, Inductive, PTL

-----------------------------------------------------------------------------
(* The card: where a replacement has got to, some file still holds the whole  *)
(* configuration it began with, and outside one it is config.json.            *)
Backed == files["old"] = "whole"

(* What the card holds when one of the two writers is at place p.             *)
Card(p) ==
    /\ p = "unlinkOld" => Parses
    /\ p = "keepOld" => Parses /\ files["old"] = "none"
    /\ p = "install" => Parses \/ (files["config"] = "none" /\ Backed)
    /\ p = "parse" => Parses \/ Backed
    /\ p = "unlinkBad" => Backed
    /\ p = "setAside" => Backed /\ files["bad"] = "none"
    /\ p = "reinstate" => Backed /\ files["config"] = "none"
    /\ p = "reparse" => Parses

CardInv ==
    /\ task # "none" \/ web # "idle" => main = "up"
    /\ ~meddled =>
        /\ Parses \/ Backed
        /\ main \in {"waiting", "up"} /\ task \notin Replacing /\ web \notin Replacing => Parses
        /\ Card(task) /\ Card(web)

LEMMA CardInit == Init => CardInv
  BY DEF Init, CardInv, Card, Parses, Names, Replacing, Install, TakeBack

(* A step of the replacement leaves the card as the next step wants it, if    *)
(* config.json is not being read when a broken one is to be set aside.        *)
LEMMA CardStep ==
  ASSUME files \in [Names -> Contents], Parses \/ Backed,
         NEW p \in Replacing \ {"parse", "reparse"}, Card(p),
         p = "setAside" => "config" \notin Locked, files' = FileStep(p)
  PROVE  Card(After(p))' /\ (Parses \/ Backed)'
<1>1. "old" \notin Locked /\ "bad" \notin Locked
  BY DEF Locked
<1>2. {"config", "tmp", "old", "bad"} = Names
  BY DEF Names
<1> USE <1>2 DEF Card, Parses, Backed, Contents, After, Replacing, Install, TakeBack
<1>3. CASE p = "unlinkOld"
  BY <1>1, <1>3 DEF FileStep, Unlinked
<1>4. CASE p = "keepOld"
  BY <1>4 DEF FileStep, Renamed
<1>5. CASE p = "install"
  BY <1>5 DEF FileStep, Renamed
<1>6. CASE p = "unlinkBad"
  BY <1>1, <1>6 DEF FileStep, Unlinked
<1>7. CASE p = "setAside"
  BY <1>7 DEF FileStep, Renamed
<1>8. CASE p = "reinstate"
  BY <1>1, <1>8 DEF FileStep, Renamed
<1> QED
  BY <1>3, <1>4, <1>5, <1>6, <1>7, <1>8

(* Outside the replacement nobody touches anything but the download.          *)
LEMMA CardApart ==
  ASSUME files \in [Names -> Contents], CardInv, main' = main, meddled' = meddled,
         files' = files \/ \E c \in Contents : files' = [files EXCEPT !["tmp"] = c],
         task' = task \/ (main = "up" /\ task' \notin Replacing /\ (task \in Replacing => Parses)),
         web' = web \/ (main = "up" /\ web' \notin Replacing /\ (web \in Replacing => Parses))
  PROVE  CardInv'
<1>1. files'["config"] = files["config"] /\ files'["old"] = files["old"]
      /\ files'["bad"] = files["bad"]
  BY DEF Names
<1>2. \A p : p \notin Replacing => Card(p)'
  BY DEF Card, Replacing, Install, TakeBack
<1>3. \A p : Card(p) => Card(p)'
  BY <1>1 DEF Card, Parses, Backed
<1>4. (Parses <=> Parses') /\ (Backed <=> Backed')
  BY <1>1 DEF Parses, Backed
<1> QED
  BY <1>2, <1>3, <1>4 DEF CardInv

LEMMA CardKept == TypeOK /\ StopInv /\ CardInv /\ [Next]_vars => CardInv'
<1> SUFFICES ASSUME TypeOK, StopInv, CardInv, [Next]_vars PROVE CardInv'
  OBVIOUS
<1> USE DEF Contents
<1>0. files \in [Names -> Contents]
  BY DEF TypeOK
<1>1. CASE UNCHANGED vars
  BY <1>0, <1>1, CardApart DEF vars
<1>2. CASE \/ \E g \in Asked : AskRefresh(g)
           \/ PostRefresh \/ Tick \/ Disconnected
           \/ KillerFires \/ KillerStops \/ TimeArrives \/ DisplayConnects
  <2>1. UNCHANGED <<files, main, task, web, meddled>>
    BY <1>2 DEF AskRefresh, PostRefresh, Tick, Disconnected, KillerFires,
                KillerStops, TimeArrives, DisplayConnects
  <2> QED
    BY <1>0, <2>1, CardApart
<1>3. CASE Boot \/ StartServices \/ GotIp
  BY <1>3 DEF Boot, StartServices, GotIp, CardInv, Card, Parses, Backed
<1>4. CASE PowerCut \/ TickGiveUp
  <2>1. Restart
    BY <1>4 DEF PowerCut, TickGiveUp
  <2> QED
    BY <2>1 DEF Restart, CardInv, Card, Parses, Backed
<1>5. CASE \/ TickStart \/ TaskWaits \/ TaskAlive \/ PassBegins \/ RunGrabber \/ Wipe \/ Wake
           \/ TaskExits \/ PullReload \/ PullCreate
  <2>1. UNCHANGED <<main, web, meddled>>
    BY <1>5 DEF TickStart, TaskWaits, Stoppable, TaskAlive, PassBegins, RunGrabber, Wipe, Wake,
                TaskExits, PullReload, PullCreate
  <2>2. files' = files \/ files' = [files EXCEPT !["tmp"] = "broken"]
    BY <1>5 DEF TickStart, TaskWaits, Stoppable, TaskAlive, PassBegins, RunGrabber, Wipe, Wake,
                TaskExits, PullReload, PullCreate
  <2>3. task \notin Replacing /\ task' \notin Replacing
    BY <1>5 DEF TickStart, TaskWaits, Stoppable, TaskAlive, PassBegins, RunGrabber, Wipe, Wake,
                TaskExits, PullReload, PullCreate, Advance, Replacing, Install, TakeBack
  <2>4. main = "up"
    BY <1>5 DEF TickStart, TaskWaits, Stoppable, TaskAlive, PassBegins, RunGrabber, Wipe, Wake,
                TaskExits, PullReload, PullCreate, CardInv
  <2> QED
    BY <1>0, <2>1, <2>2, <2>3, <2>4, CardApart
<1>6. CASE WebReads \/ WebCreate \/ WebWrite \/ WebStop \/ WebReload \/ WebRefreshes \/ WebRelease
  <2>1. UNCHANGED <<main, task, meddled>>
    BY <1>6 DEF WebReads, WebStep, WebCreate, WebWrite, WebStop, WebReload, WebRefreshes, WebRelease
  <2>2. \/ files' = files
        \/ \E c \in {"whole", "broken"} : files' = [files EXCEPT !["tmp"] = c]
    BY <1>6 DEF WebReads, WebStep, WebCreate, WebWrite, WebStop, WebReload, WebRefreshes, WebRelease
  <2>3. web \notin Replacing /\ web' \notin Replacing
    BY <1>6 DEF WebReads, WebStep, WebCreate, WebWrite, WebStop, WebReload, WebRefreshes,
                WebRefresh, WebRelease, Replacing, Install, TakeBack
  <2>4. main = "up"
    BY <1>6 DEF WebReads, WebStep, WebCreate, WebWrite, WebStop, WebReload, WebRefreshes,
                WebRefresh, WebRelease, CardInv
  <2> QED
    BY <1>0, <2>1, <2>2, <2>3, <2>4, CardApart
<1>7. ASSUME ~meddled PROVE web \in Replacing => task \notin Replacing
  BY <1>7 DEF StopInv, Excluded, WebHolds, Pass, PullPlaces
<1>8. CASE PullWrite
  <2>1. /\ UNCHANGED <<main, web, meddled>> /\ main = "up" /\ task' # "none"
        /\ \E c \in Contents : files' = files \/ files' = [files EXCEPT !["tmp"] = c]
    BY <1>8 DEF PullWrite, Advance, CardInv
  <2>2. files'["config"] = files["config"] /\ files'["old"] = files["old"]
        /\ files'["bad"] = files["bad"]
    BY <1>0, <2>1 DEF Names
  <2>3. task \notin Replacing /\ task \in Pass
    BY <1>8 DEF PullWrite, Pass, PullPlaces, Replacing, Install, TakeBack
  <2>4. ~meddled => web \notin Replacing
    BY <2>3 DEF StopInv, Excluded, WebHolds
  <2>5. task' \notin Replacing \/ task' = "unlinkOld"
    BY <1>8 DEF PullWrite, Advance, Replacing, Install, TakeBack
  <2>6. ~meddled => Parses /\ Parses'
    BY <2>1, <2>2, <2>3, <2>4 DEF CardInv, Parses
  <2>7. ~meddled => Card(task)'
    BY <2>5, <2>6 DEF Card, Replacing, Install, TakeBack
  <2>8. ~meddled => Card(web)'
    BY <2>1, <2>4 DEF Card, Replacing, Install, TakeBack
  <2> QED
    BY <2>1, <2>6, <2>7, <2>8 DEF CardInv
<1>9. CASE PullReplace
  <2>1. task \in Replacing \ {"parse", "reparse"} /\ task' \in Replacing /\ task' # "none"
    BY <1>9, AfterPlace DEF PullReplace, Replacing, Install, TakeBack
  <2>2. /\ UNCHANGED <<main, web>> /\ main = "up"
        /\ files' = FileStep(task) /\ task' = After(task)
        /\ ~meddled' => ~meddled /\ (task = "setAside" => "config" \notin Locked)
    BY <1>9, <2>1 DEF PullReplace, CardInv, Replacing, Install, TakeBack
  <2>3. ASSUME ~meddled' PROVE Card(task)' /\ Card(web)' /\ (Parses \/ Backed)'
    <3>1. PICK p \in Replacing \ {"parse", "reparse"} : p = task
      BY <2>1
    <3>2. Card(p) /\ (Parses \/ Backed)
      BY <2>2, <2>3, <3>1 DEF CardInv
    <3>3. p = "setAside" => "config" \notin Locked
      BY <2>2, <2>3, <3>1
    <3>4. files' = FileStep(p)
      BY <2>2, <3>1
    <3>5. Card(After(p))' /\ (Parses \/ Backed)'
      BY <1>0, <3>2, <3>3, <3>4, CardStep
    <3>6. task' = After(p)
      BY <2>2, <3>1
    <3>7. web' \notin Replacing
      BY <1>7, <2>1, <2>2, <2>3
    <3> QED
      BY <3>5, <3>6, <3>7 DEF Card, Replacing, Install, TakeBack
  <2> QED
    BY <2>1, <2>2, <2>3 DEF CardInv
<1>10. CASE PullParse \/ PullGivesUp
  <2>1. /\ UNCHANGED <<files, main, web, meddled>> /\ main = "up" /\ task' # "none"
    BY <1>10 DEF PullParse, PullGivesUp, Advance, CardInv
  <2>2. task \in {"parse", "reparse"} /\ task \in Replacing
    BY <1>10 DEF PullParse, PullGivesUp, Replacing, Install, TakeBack
  <2>3. ~meddled => web \notin Replacing
    BY <1>7, <2>2
  <2>4. ~meddled => \/ task' \notin Replacing /\ Parses
                    \/ task' = "unlinkBad" /\ Backed
    BY <1>10 DEF PullParse, PullGivesUp, Advance, CardInv, Card, Replacing, Install, TakeBack
  <2>5. (Parses <=> Parses') /\ (Backed <=> Backed')
    BY <2>1 DEF Parses, Backed
  <2> QED
    BY <2>1, <2>3, <2>4, <2>5 DEF CardInv, Card, Replacing, Install, TakeBack
<1>11. CASE WebReplace
  <2>1. web \in Replacing \ {"parse", "reparse"} /\ web' \in Replacing /\ web' # "idle"
    BY <1>11, AfterPlace DEF WebReplace, Replacing, Install, TakeBack
  <2>2. /\ UNCHANGED <<main, task, meddled>> /\ main = "up"
        /\ files' = FileStep(web) /\ web' = After(web)
    BY <1>11, <2>1 DEF WebReplace, CardInv, Replacing, Install, TakeBack
  <2>3. "config" \notin Locked
    BY <2>1 DEF Locked, Replacing, Install, TakeBack
  <2>4. ASSUME ~meddled' PROVE Card(task)' /\ Card(web)' /\ (Parses \/ Backed)'
    <3>1. PICK p \in Replacing \ {"parse", "reparse"} : p = web
      BY <2>1
    <3>2. Card(p) /\ (Parses \/ Backed)
      BY <2>2, <2>4, <3>1 DEF CardInv
    <3>3. files' = FileStep(p)
      BY <2>2, <3>1
    <3>4. Card(After(p))' /\ (Parses \/ Backed)'
      BY <1>0, <2>3, <3>2, <3>3, CardStep
    <3>5. web' = After(p)
      BY <2>2, <3>1
    <3>6. task' \notin Replacing
      BY <1>7, <2>1, <2>2, <2>4
    <3> QED
      BY <3>4, <3>5, <3>6 DEF Card, Replacing, Install, TakeBack
  <2> QED
    BY <2>1, <2>2, <2>4 DEF CardInv
<1>12. CASE WebParse \/ WebWaits
  <2>1. /\ UNCHANGED <<files, main, task, meddled>> /\ main = "up"
    BY <1>12 DEF WebParse, WebWaits, CardInv
  <2>2. ~meddled => \/ web' \notin Replacing /\ Parses
                    \/ web' = "unlinkBad" /\ Backed /\ task \notin Replacing
                    \/ web' = "unlinkOld" /\ Parses /\ task \notin Replacing
                    \/ web' \notin Replacing /\ web \notin Replacing
    <3>1. CASE WebParse
      <4>1. web \in {"parse", "reparse"} /\ web \in Replacing
        BY <3>1 DEF WebParse, Replacing, Install, TakeBack
      <4> QED
        BY <1>7, <3>1, <4>1 DEF WebParse, CardInv, Card, Replacing, Install, TakeBack
    <3>2. CASE WebWaits
      <4>1. web \notin Replacing
        BY <3>2 DEF WebWaits, Replacing, Install, TakeBack
      <4>2. "Dead" \in bits => task \notin Replacing
        BY DEF StopInv, Replacing, Install, TakeBack
      <4> QED
        BY <3>2, <4>1, <4>2, <2>1 DEF WebWaits, CardInv, Replacing, Install, TakeBack
    <3> QED
      BY <1>12, <3>1, <3>2
  <2>3. (Parses <=> Parses') /\ (Backed <=> Backed') /\ (\A p : Card(p) => Card(p)')
    BY <2>1 DEF Parses, Backed, Card
  <2>4. ~meddled => Card(task)'
    BY <2>1, <2>3 DEF CardInv
  <2>5. ~meddled => Card(web)'
    BY <2>2, <2>3 DEF Card, Replacing, Install, TakeBack
  <2>6. ~meddled /\ task \notin Replacing /\ web' \notin Replacing => Parses
    BY <2>1, <2>2 DEF CardInv, Replacing, Install, TakeBack
  <2> QED
    BY <2>1, <2>3, <2>4, <2>5, <2>6 DEF CardInv
<1> QED
  BY <1>1, <1>2, <1>3, <1>4, <1>5, <1>6, <1>8, <1>9, <1>10, <1>11, <1>12
  DEF Next, GrabTask, WebTask, Surroundings

(* The sign starts without a configuration only if it was cut off while one   *)
(* was being replaced, and a whole one is on the card even then; for any      *)
(* number of power cuts, uploads and downloads (cfgpull.cpp:225-232,           *)
(* webui.cpp:397-404).                                                        *)
THEOREM HaltsMidway == Spec => HaltsOnlyMidway
<1>1. Init => IInv /\ CardInv
  BY TypeInit, StopInit, CardInit DEF IInv
<1>2. IInv /\ CardInv /\ [Next]_vars => (IInv /\ CardInv)'
  BY TypeKept, StopKept, OwedKept, CardKept DEF IInv
<1>3. IInv /\ CardInv =>
        (main' = "boot" /\ main # "boot" /\ ~meddled =>
            /\ Parses \/ task \in Replacing \/ web \in Replacing \/ main = "halted"
            /\ \E n \in Names : files[n] = "whole")
  BY DEF IInv, TypeOK, CardInv, Parses, Backed, Names
<1> QED
  BY <1>1, <1>2, <1>3, PTL DEF Spec, HaltsOnlyMidway

-----------------------------------------------------------------------------
(* Types, index bounds and faithfulness of the log buffer, for every size of  *)
(* it, of the card, and any number of characters.                             *)
(*                                                                            *)
(* Bounded is not inductive: a putc that chose the lent part (to = "end") may *)
(* store its character when the flush it saw is over, or when the next one    *)
(* has begun.  It is harmless because there is nothing below pos by then.     *)
(*                                                                            *)
(* Faithful needs to know where the characters are that are neither written   *)
(* nor lost: always in one stretch of the buffer, From to To, in their order. *)

Late ==
    /\ writer.to = "end" => lendpos <= writer.at
    /\ writer.to = "end" /\ ~lending => pos = 0

Flushing == lending => flusher \in {"write", "clear"}

File == log \in Seq(Nat) /\ Len(log) <= Room

LogInv == LogTypeOK /\ Bounded /\ Late /\ Flushing /\ File

USE DEF Index

(* A copy of part of the buffer is a sequence of characters.                  *)
LEMMA Piece ==
    ASSUME NEW b \in [Index -> Nat], NEW lo \in Nat, NEW n \in Nat, lo + n <= Cap
    PROVE  [i \in 1 .. n |-> b[lo + i - 1]] \in Seq(Nat)
           /\ Len([i \in 1 .. n |-> b[lo + i - 1]]) = n
<1> DEFINE s == [i \in 1 .. n |-> b[lo + i - 1]]
<1>1. ASSUME NEW i \in 1 .. n PROVE b[lo + i - 1] \in Nat
  <2>1. lo + i - 1 \in Index
    BY SdLogAssumption
  <2> QED
    BY <2>1
<1>2. s \in [1 .. n -> Nat]
  BY <1>1
<1>3. s \in Seq(Nat)
  <2>1. s \in UNION {[1 .. k -> Nat] : k \in Nat}
    <3> HIDE DEF s
    <3> QED
      BY <1>2
  <2> HIDE DEF s
  <2> QED
    BY <2>1, SeqDef, Zenon
<1> QED
  BY <1>2, <1>3

(* The log grows by whole pieces and stays on the card.                       *)
LEMMA Grows ==
    ASSUME NEW l \in Seq(Nat), NEW s \in Seq(Nat), Len(l) + Len(s) <= Room
    PROVE  l \o s \in Seq(Nat) /\ Len(l \o s) <= Room
  BY ConcatProperties, SdLogAssumption

(* What lies in a part of the buffer are characters.                          *)
LEMMA PartTyped ==
    ASSUME NEW b \in [Index -> Nat], NEW lo, NEW hi
    PROVE  Part(b, lo, hi) \subseteq Nat
  BY DEF Part

LEMMA InitHolds == LogInit => LogInv
<1> SUFFICES ASSUME LogInit PROVE LogInv
  OBVIOUS
<1> USE DEF LogInit, NoOne
<1>1. LogTypeOK
  BY SdLogAssumption DEF LogTypeOK
<1>2. Bounded
  BY SdLogAssumption DEF Bounded
<1>3. Late /\ Flushing
  BY DEF Late, Flushing
<1>4. File
  <2>1. <<>> \in Seq(Nat) /\ Len(<<>>) = 0
    OBVIOUS
  <2> QED
    BY <2>1, SdLogAssumption DEF File
<1> QED
  BY <1>1, <1>2, <1>3, <1>4 DEF LogInv

(* Choosing a place for a character.                                          *)
LEMMA ChooseKeeps == LogInv /\ PutChoose => LogInv'
<1> SUFFICES ASSUME LogInv, PutChoose PROVE LogInv'
  OBVIOUS
<1> USE SdLogAssumption
<1>1. /\ pos \in Nat /\ lendpos \in Nat /\ end \in Nat /\ puts \in Nat
      /\ pos <= Cap /\ lendpos <= end /\ end <= Cap /\ lending \in BOOLEAN
      /\ buf \in [Index -> Nat]
  BY DEF LogInv, LogTypeOK, Bounded
<1>2. /\ pos' \in Nat /\ lendpos' \in Nat /\ end' \in Nat /\ puts' \in Nat
      /\ pos' <= Cap /\ lendpos' <= end' /\ end' <= Cap
  BY <1>1 DEF PutChoose, PutMoves
<1>3. buf' \in [Index -> Nat]
  <2>1. ASSUME PutMoves, NEW i \in Index, i < end - lendpos
        PROVE  buf[i + lendpos] \in Nat
    <3>1. i + lendpos \in Index
      BY <2>1, <1>1
    <3> QED
      BY <3>1, <1>1
  <2> QED
    BY <1>1, <2>1 DEF PutChoose
<1>4. CASE (IF lending THEN end' ELSE pos') = Cap
  <2>1. writer' = writer /\ writer = NoOne /\ ovf' = TRUE /\ lost' = lost \cup {puts'}
    BY <1>4 DEF PutChoose
  <2>2. LogTypeOK'
    BY <2>1, <1>2, <1>3 DEF LogInv, LogTypeOK, PutChoose
  <2>3. Bounded' /\ Late'
    BY <2>1, <1>2 DEF Bounded, Late, NoOne
  <2> QED
    BY <2>2, <2>3 DEF LogInv, Flushing, File, PutChoose
<1>5. CASE (IF lending THEN end' ELSE pos') # Cap
  <2>1. /\ writer' = [to |-> IF lending THEN "end" ELSE "pos",
                      at |-> IF lending THEN end' ELSE pos', c |-> puts']
        /\ ovf' = ovf /\ lost' = lost
    BY <1>5 DEF PutChoose
  <2>2. LogTypeOK'
    BY <2>1, <1>1, <1>2, <1>3 DEF LogInv, LogTypeOK, PutChoose
  <2>3. writer'.at < Cap
    BY <2>1, <1>2, <1>5
  <2>4. Bounded'
    BY <2>3, <1>2 DEF Bounded
  <2>5. Late'
    BY <2>1, <1>1, <1>2 DEF Late, PutChoose
  <2> QED
    BY <2>2, <2>4, <2>5 DEF LogInv, Flushing, File, PutChoose
<1> QED
  BY <1>4, <1>5

(* Storing it, whatever has happened since.                                   *)
LEMMA StoreKeeps == LogInv /\ PutStore => LogInv'
<1> SUFFICES ASSUME LogInv, PutStore PROVE LogInv'
  OBVIOUS
<1> USE SdLogAssumption
<1>1. /\ writer.at \in Nat /\ writer.at < Cap /\ writer.c \in Nat
      /\ writer.to \in {"none", "pos", "end"}
  BY DEF LogInv, LogTypeOK, Bounded, PutStore
<1>2. writer' = NoOne /\ NoOne.to = "none" /\ NoOne.at = 0
      /\ NoOne \in [to : {"none", "pos", "end"}, at : Nat, c : Nat]
  BY DEF PutStore, NoOne
<1>3. buf' \in [Index -> Nat]
  BY <1>1 DEF LogInv, LogTypeOK, PutStore
<1>4. LogTypeOK'
  BY <1>1, <1>2, <1>3 DEF LogInv, LogTypeOK, PutStore
<1>5. Bounded'
  BY <1>1, <1>2 DEF LogInv, LogTypeOK, Bounded, Late, PutStore
<1>6. Late'
  BY <1>2 DEF Late
<1> QED
  BY <1>4, <1>5, <1>6 DEF LogInv, Flushing, File, PutStore

(* Writing to the card.                                                       *)
LEMMA WriteKeeps == LogInv /\ (DumpWrites \/ DumpFails) => LogInv'
<1> SUFFICES ASSUME LogInv, DumpWrites \/ DumpFails PROVE LogInv'
  OBVIOUS
<1> USE SdLogAssumption
<1>1. /\ pos \in Nat /\ bw \in Nat /\ pos <= Cap /\ bw < pos
      /\ buf \in [Index -> Nat] /\ lost \subseteq Nat
      /\ log \in Seq(Nat) /\ Len(log) \in Nat /\ Len(log) <= Room
  BY DEF LogInv, LogTypeOK, Bounded, File, DumpWrites, DumpFails
<1>2. PICK n \in Nat :
        /\ n <= pos - bw /\ n <= Room - Len(log)
        /\ log' = log \o [i \in 1 .. n |-> buf[bw + i - 1]]
        /\ bw' = bw + n
        /\ lost' = lost \/ lost' = lost \cup Part(buf, bw + n, pos)
  <2>1. CASE DumpWrites
    <3>1. Least(pos - bw, Room - Len(log)) \in Nat
          /\ Least(pos - bw, Room - Len(log)) <= pos - bw
          /\ Least(pos - bw, Room - Len(log)) <= Room - Len(log)
      BY <1>1 DEF Least
    <3> QED
      BY <3>1, <2>1 DEF DumpWrites
  <2>2. CASE DumpFails
    BY <2>2, <1>1 DEF DumpFails, Least
  <2> QED
    BY <2>1, <2>2
<1>3. log' \in Seq(Nat) /\ Len(log') <= Room
  <2> DEFINE s == [i \in 1 .. n |-> buf[bw + i - 1]]
  <2>1. s \in Seq(Nat) /\ Len(s) = n
    BY <1>1, <1>2, Piece
  <2> HIDE DEF s
  <2> QED
    BY <2>1, <1>1, <1>2, Grows DEF s
<1>4. bw' \in Nat
  BY <1>1, <1>2
<1>5. lost' \subseteq Nat
  <2>1. Part(buf, bw + n, pos) \subseteq Nat
    BY <1>1, PartTyped
  <2> QED
    BY <2>1, <1>1, <1>2
<1>6. LogTypeOK'
  BY <1>4, <1>5 DEF LogInv, LogTypeOK, DumpWrites, DumpFails
<1>7. Bounded' /\ Late' /\ Flushing'
  BY DEF LogInv, Bounded, Late, Flushing, DumpWrites, DumpFails
<1> QED
  BY <1>3, <1>6, <1>7 DEF LogInv, File

(* The other steps of a flush.                                                *)
LEMMA FlushKeeps == LogInv /\ Flush => LogInv'
<1> SUFFICES ASSUME LogInv, Flush PROVE LogInv'
  OBVIOUS
<1> USE DEF LogInv, LogTypeOK, Bounded, Late, Flushing, File
<1>1. CASE FlushStart \/ Open
  <2>1. LogTypeOK'
    BY <1>1 DEF FlushStart, Open
  <2> QED
    BY <1>1, <2>1 DEF FlushStart, Open
<1>2. CASE OpenFails
  <2>1. lost' \subseteq Nat
    BY <1>2, PartTyped DEF OpenFails
  <2>2. torn' \in BOOLEAN
    BY <1>2 DEF OpenFails
  <2>3. lending' \in BOOLEAN /\ ovf' \in BOOLEAN /\ mask' \in BOOLEAN
    BY <1>2 DEF OpenFails
  <2>4. LogTypeOK'
    BY <1>2, <2>1, <2>2, <2>3 DEF OpenFails
  <2>5. Bounded' /\ Late' /\ Flushing' /\ File'
    BY <1>2, SdLogAssumption DEF OpenFails
  <2> QED
    BY <2>4, <2>5
<1>3. CASE DumpBegins
  BY <1>3 DEF DumpBegins
<1>4. CASE DumpLends
  <2>1. torn' \in BOOLEAN
    BY <1>4 DEF DumpLends
  <2>2. ~lending
    BY <1>4 DEF DumpLends
  <2> QED
    BY <1>4, <2>1, <2>2 DEF DumpLends
<1>5. CASE DumpWrites \/ DumpFails
  BY <1>5, WriteKeeps
<1>6. CASE DumpDone
  BY <1>6 DEF DumpDone
<1>7. CASE Clear
  <2>1. torn' \in BOOLEAN
    BY <1>7 DEF Clear
  <2>2. pos' = 0 /\ Bounded' /\ Late' /\ Flushing' /\ File'
    BY <1>7, SdLogAssumption DEF Clear
  <2>3. lending' \in BOOLEAN /\ ovf' \in BOOLEAN /\ mask' \in BOOLEAN
    BY <1>7 DEF Clear
  <2>4. LogTypeOK'
    BY <1>7, <2>1, <2>3 DEF Clear
  <2> QED
    BY <2>2, <2>4
<1> QED
  BY <1>1, <1>2, <1>3, <1>4, <1>5, <1>6, <1>7 DEF Flush

LEMMA StepKeeps == LogInv /\ [LogNext]_logVars => LogInv'
<1> SUFFICES ASSUME LogInv, [LogNext]_logVars PROVE LogInv'
  OBVIOUS
<1>1. CASE PutEscape
  BY <1>1 DEF PutEscape, LogInv, LogTypeOK, Bounded, Late, Flushing, File
<1>2. CASE UNCHANGED logVars
  BY <1>2 DEF logVars, LogInv, LogTypeOK, Bounded, Late, Flushing, File
<1> QED
  BY <1>1, <1>2, ChooseKeeps, StoreKeeps, FlushKeeps DEF LogNext, Put

(* The members of LogBuf keep their types.                                    *)
THEOREM LogTypeCorrect == LogSpec => []LogTypeOK
<1>1. LogInv => LogTypeOK
  BY DEF LogInv
<1> QED
  BY <1>1, InitHolds, StepKeeps, PTL DEF LogSpec

(* No interleaving makes an index leave the buffer (sdlog.cpp:43-57, 69-77).  *)
THEOREM StaysInBuffer == LogSpec => []Bounded
<1>1. LogInv => Bounded
  BY DEF LogInv
<1> QED
  BY <1>1, InitHolds, StepKeeps, PTL DEF LogSpec

-----------------------------------------------------------------------------
(* The characters under way: neither written nor lost.                        *)
From == IF flusher = "write" THEN bw ELSE IF flusher = "clear" THEN pos
        ELSE IF end # lendpos THEN lendpos ELSE 0
To == IF lending \/ end # lendpos THEN end ELSE pos
UnderWay(k) == k \in Index /\ From <= k /\ k < To

(* How the indices lie while nothing is torn.                                 *)
Whole ==
    /\ lending <=> flusher \in {"write", "clear"}
    /\ lending => lendpos = pos
    /\ flusher = "write" => bw <= pos
    /\ ~lending /\ end # lendpos => pos = 0
    /\ flusher = "lend" => end = lendpos
    /\ writer = NoOne \/ (writer.to \in {"pos", "end"} /\ writer.c = puts)
    /\ writer.to = "end" => /\ writer.at = end
                            /\ lending \/ (flusher = "idle" /\ ~ovf /\ pos = 0)
    /\ writer.to = "pos" => writer.at = pos /\ ~lending /\ end = lendpos

(* They are in order, behind what is in the file and before what is to come.  *)
Newest == IF writer = NoOne THEN puts ELSE puts - 1

InOrder ==
    /\ \A i, j \in 1 .. Len(log) : i < j => log[i] < log[j]
    /\ \A i \in 1 .. Len(log) : log[i] <= Newest
    /\ \A k, l \in Index : UnderWay(k) /\ UnderWay(l) /\ k < l => buf[k] < buf[l]
    /\ \A k \in Index : UnderWay(k) => buf[k] <= Newest
    /\ \A i \in 1 .. Len(log), k \in Index : UnderWay(k) => log[i] < buf[k]

(* Every character is somewhere.                                              *)
Somewhere(x) ==
    \/ x \in lost \/ x = writer.c
    \/ \E i \in 1 .. Len(log) : log[i] = x
    \/ \E k \in Index : UnderWay(k) /\ buf[k] = x

Kept == \A x \in 1 .. puts : Somewhere(x)

SortedInv == ~torn => Whole /\ InOrder /\ Kept

LEMMA Known ==
    ASSUME LogInv
    PROVE  /\ {pos, lendpos, end, bw, puts, Newest} \subseteq Int /\ pos >= 0 /\ lendpos >= 0
           /\ end >= 0 /\ bw >= 0 /\ puts >= 0
           /\ pos <= Cap /\ lendpos <= end /\ end <= Cap /\ From \in Nat /\ To \in 0 .. Cap
           /\ buf \in [Index -> Nat] /\ log \in Seq(Nat) /\ Len(log) \in Nat
           /\ \A k \in Index : buf[k] \in Nat
           /\ \A i \in 1 .. Len(log) : log[i] \in Nat
           /\ lending \in BOOLEAN /\ Cap \in Nat
<1> USE SdLogAssumption
<1>1. /\ {pos, lendpos, end, bw, puts} \subseteq Nat /\ pos <= Cap /\ lendpos <= end /\ end <= Cap
      /\ buf \in [Index -> Nat] /\ log \in Seq(Nat) /\ lending \in BOOLEAN
  BY DEF LogInv, LogTypeOK, Bounded, File
<1>2. From \in Nat /\ To \in 0 .. Cap /\ Newest \in Int
  BY <1>1 DEF From, To, Newest
<1>3. Len(log) \in Nat /\ \A i \in 1 .. Len(log) : log[i] \in Nat
  BY <1>1, ElementOfSeq, LenProperties
<1>4. \A k \in Index : buf[k] \in Nat
  BY <1>1
<1>5. {pos, lendpos, end, bw, puts, Newest} \subseteq Int
  BY <1>1, <1>2
<1>6. pos >= 0 /\ lendpos >= 0 /\ end >= 0 /\ bw >= 0 /\ puts >= 0 /\ Cap \in Nat
  BY <1>1
<1> QED
  BY <1>1, <1>2, <1>3, <1>4, <1>5, <1>6

(* A step that writes nothing: the stretch is the same, or the shorter by     *)
(* what is dropped.                                                           *)
LEMMA SameChars ==
    ASSUME LogInv, InOrder, Kept, UNCHANGED <<buf, log, puts, writer>>, lost \subseteq lost',
           \A k \in Index : UnderWay(k)' => UnderWay(k),
           \A k \in Index : UnderWay(k) => UnderWay(k)' \/ buf[k] \in lost'
    PROVE  InOrder' /\ Kept'
<1>1. Newest' = Newest
  BY DEF Newest
<1>2. InOrder'
  BY <1>1 DEF InOrder
<1>3. Kept'
  BY DEF Kept, Somewhere
<1> QED
  BY <1>2, <1>3

(* What is moved down and what stays keep their order; the new character is   *)
(* the newest.                                                                *)
LEMMA ChooseSorted == LogInv /\ SortedInv /\ PutChoose => SortedInv'
<1> SUFFICES ASSUME LogInv, SortedInv, PutChoose, ~torn PROVE Whole' /\ InOrder' /\ Kept'
  <2>1. PutChoose => torn' = torn
    BY DEF PutChoose
  <2> QED
    BY <2>1 DEF SortedInv
<1> USE Known
<1>a. Whole /\ InOrder /\ Kept
  BY DEF SortedInv
<1>b. writer = NoOne /\ puts' = puts + 1 /\ UNCHANGED <<lending, flusher, bw, log>>
  BY DEF PutChoose
<1>c. \/ writer' = NoOne /\ lost' = lost \cup {puts'}
      \/ /\ writer'.c = puts' /\ writer' # NoOne /\ lost' = lost /\ ovf' = ovf
         /\ writer'.to = (IF lending THEN "end" ELSE "pos")
         /\ writer'.at = (IF lending THEN end' ELSE pos')
  BY <1>b DEF PutChoose, NoOne
<1>d. PICK d \in Nat : d = IF PutMoves THEN lendpos ELSE 0
  OBVIOUS
<1>e. /\ pos' = IF PutMoves THEN end - lendpos ELSE pos
      /\ lendpos' = (IF PutMoves THEN 0 ELSE lendpos) /\ end' = (IF PutMoves THEN 0 ELSE end)
      /\ buf' = IF PutMoves
                THEN [i \in Index |-> IF i < end - lendpos THEN buf[i + lendpos] ELSE buf[i]]
                ELSE buf
  BY DEF PutChoose
<1>1. Whole'
  BY <1>a, <1>b, <1>c, <1>e DEF Whole, PutMoves, NoOne
<1>2. ASSUME NEW k \in Index
      PROVE  /\ UnderWay(k)' => UnderWay(k + d) /\ k + d \in Index /\ buf'[k] = buf[k + d]
             /\ UnderWay(k) => UnderWay(k - d)' /\ k - d \in Index /\ buf'[k - d] = buf[k]
  <2>1. CASE PutMoves
    <3> USE <1>d
    <3>1. From = lendpos /\ To = end /\ From' = 0 /\ To' = end - lendpos
      BY <1>a, <1>b, <1>e, <2>1 DEF From, To, PutMoves, Whole
    <3>2. UnderWay(k)' => UnderWay(k + d)
      BY <2>1, <3>1 DEF UnderWay
    <3>3. UnderWay(k) => UnderWay(k - d)'
      BY <2>1, <3>1 DEF UnderWay
    <3>4. UnderWay(k)' => buf'[k] = buf[k + d]
      BY <1>e, <2>1, <3>1 DEF UnderWay
    <3>5. UnderWay(k) => k - d \in Index /\ k - d < end - lendpos
      BY <2>1, <3>1 DEF UnderWay
    <3>6. UnderWay(k) => buf'[k - d] = buf[(k - d) + lendpos]
      BY <1>e, <2>1, <3>5
    <3>7. UnderWay(k)' => k + d \in Index
      BY <3>2 DEF UnderWay
    <3>8. (k - d) + lendpos = k
      BY <2>1
    <3> QED
      BY <3>2, <3>3, <3>4, <3>5, <3>6, <3>7, <3>8
  <2>2. CASE ~PutMoves
    <3>1. From' = From /\ To' = To
      BY <1>b, <1>e, <2>2 DEF From, To
    <3> USE <1>d
    <3>2. d = 0 /\ buf' = buf /\ k + 0 = k /\ k - 0 = k
      BY <1>e, <2>2
    <3> QED
      BY <3>1, <3>2 DEF UnderWay
  <2> QED
    BY <2>1, <2>2
<1>3. Newest = puts /\ Newest' >= puts /\ Newest' \in Int
  BY <1>b, <1>c DEF Newest
<1>4. InOrder'
  <2>1. \A i \in 1 .. Len(log) : log[i] <= Newest'
    <3>1. \A i \in 1 .. Len(log) : log[i] \in Nat /\ log[i] <= Newest
      BY <1>a DEF InOrder
    <3> QED
      BY <1>3, <3>1
  <2>2. ASSUME NEW k \in Index, NEW l \in Index, UnderWay(k)', UnderWay(l)', k < l
        PROVE  buf'[k] < buf'[l]
    <3>1. k + d < l + d /\ UnderWay(k + d) /\ UnderWay(l + d) /\ k + d \in Index /\ l + d \in Index
      BY <1>d, <1>2, <2>2
    <3> QED
      BY <1>a, <1>2, <2>2, <3>1 DEF InOrder
  <2>3. ASSUME NEW k \in Index, UnderWay(k)'
        PROVE  buf'[k] <= Newest' /\ \A i \in 1 .. Len(log) : log[i] < buf'[k]
    <3>1. UnderWay(k + d) /\ k + d \in Index /\ buf'[k] = buf[k + d]
      BY <1>2, <2>3
    <3>2. buf[k + d] <= Newest /\ \A i \in 1 .. Len(log) : log[i] < buf[k + d]
      BY <1>a, <3>1 DEF InOrder
    <3> QED
      BY <1>3, <3>1, <3>2
  <2> QED
    BY <1>a, <1>b, <2>1, <2>2, <2>3 DEF InOrder
<1>5. Kept'
  <2> SUFFICES ASSUME NEW x \in 1 .. puts' PROVE Somewhere(x)'
    BY DEF Kept
  <2>1. CASE x = puts'
    BY <1>c, <2>1 DEF Somewhere
  <2>2. CASE x \in 1 .. puts
    <3>1. CASE x \in lost \/ \E i \in 1 .. Len(log) : log[i] = x
      BY <1>b, <1>c, <3>1 DEF Somewhere
    <3>2. CASE \E k \in Index : UnderWay(k) /\ buf[k] = x
      <4>1. PICK k \in Index : UnderWay(k) /\ buf[k] = x
        BY <3>2
      <4>2. k - d \in Index /\ UnderWay(k - d)' /\ buf'[k - d] = x
        BY <1>2, <4>1
      <4> QED
        BY <4>2 DEF Somewhere
    <3>3. CASE x = writer.c
      BY <1>b, <2>2, <3>3 DEF NoOne
    <3> QED
      BY <1>a, <2>2, <3>1, <3>2, <3>3 DEF Kept, Somewhere
  <2> QED
    BY <1>b, <2>1, <2>2
<1> QED
  BY <1>1, <1>4, <1>5

(* The newest character goes behind the others.                               *)
LEMMA StoreSorted == LogInv /\ SortedInv /\ PutStore => SortedInv'
<1> SUFFICES ASSUME LogInv, SortedInv, PutStore, ~torn PROVE Whole' /\ InOrder' /\ Kept'
  <2>1. PutStore => torn' = torn
    BY DEF PutStore
  <2> QED
    BY <2>1 DEF SortedInv
<1> USE Known
<1>a. Whole /\ InOrder /\ Kept
  BY DEF SortedInv
<1>b. /\ writer # NoOne /\ writer' = NoOne /\ buf' = [buf EXCEPT ![writer.at] = writer.c]
      /\ UNCHANGED <<lendpos, lending, ovf, flusher, bw, log, puts, lost>>
      /\ pos' = (IF writer.to = "pos" THEN writer.at + 1 ELSE pos)
      /\ end' = (IF writer.to = "end" THEN writer.at + 1 ELSE end)
  BY DEF PutStore
<1>c. writer.c = puts /\ writer.to \in {"pos", "end"} /\ writer.at \in Index
  BY <1>a, <1>b DEF Whole, LogInv, LogTypeOK, Bounded
<1>1. Whole'
  BY <1>a, <1>b, <1>c DEF Whole, NoOne
<1>2. ASSUME NEW k \in Index
      PROVE  UnderWay(k)' <=> UnderWay(k) \/ k = writer.at
  <2>1. CASE writer.to = "pos"
    <3>1. From = 0 /\ To = writer.at /\ From' = 0 /\ To' = writer.at + 1
      BY <1>a, <1>b, <1>c, <2>1 DEF Whole, From, To
    <3> QED
      BY <1>c, <3>1 DEF UnderWay
  <2>2. CASE writer.to = "end" /\ lending
    <3>1. From' = From /\ To = writer.at /\ To' = writer.at + 1 /\ From <= writer.at
      BY <1>a, <1>b, <1>c, <2>2 DEF Whole, From, To
    <3> QED
      BY <1>c, <3>1 DEF UnderWay
  <2>3. CASE writer.to = "end" /\ ~lending
    <3>1. From' = lendpos /\ To' = writer.at + 1 /\ writer.at = end /\ pos = 0
      BY <1>a, <1>b, <1>c, <2>3 DEF Whole, From, To
    <3>2. \/ From = lendpos /\ To = end
          \/ end = lendpos /\ To = 0
      BY <1>a, <2>3, <3>1 DEF Whole, From, To
    <3> QED
      BY <1>c, <3>1, <3>2 DEF UnderWay
  <2> QED
    BY <1>c, <2>1, <2>2, <2>3
<1>3. ASSUME NEW k \in Index, UnderWay(k) PROVE k < writer.at
  <2>1. To <= writer.at
    BY <1>a, <1>b, <1>c DEF Whole, To
  <2> QED
    BY <1>3, <1>c, <2>1 DEF UnderWay
<1>4. Newest = puts - 1 /\ Newest' = puts
  BY <1>b DEF Newest
<1>5. ASSUME NEW k \in Index
      PROVE  buf'[k] = IF k = writer.at THEN puts ELSE buf[k]
  BY <1>b, <1>c
<1>6. InOrder'
  <2>1. \A i \in 1 .. Len(log) : log[i] < puts
    BY <1>a, <1>4 DEF InOrder
  <2>2. ASSUME NEW k \in Index, UnderWay(k)
        PROVE  buf'[k] = buf[k] /\ buf[k] < puts /\ \A i \in 1 .. Len(log) : log[i] < buf[k]
    <3>1. k # writer.at
      BY <1>3, <1>c, <2>2
    <3> QED
      <4>1. buf[k] <= Newest /\ \A i \in 1 .. Len(log) : log[i] < buf[k]
        BY <1>a, <2>2 DEF InOrder
      <4>2. buf[k] \in Nat /\ puts \in Nat
        BY DEF LogInv, LogTypeOK
      <4>3. buf[k] < puts
        <5>1. PICK v \in Nat : v = buf[k]
          BY <4>2
        <5>2. v <= puts - 1
          BY <1>4, <4>1, <5>1
        <5>3. v < puts
          BY <4>2, <5>2
        <5> QED
          BY <5>1, <5>3
      <4>4. buf'[k] = buf[k]
        BY <1>5, <3>1
      <4> QED
        BY <4>1, <4>3, <4>4
  <2>3. ASSUME NEW k \in Index, NEW l \in Index, UnderWay(k)', UnderWay(l)', k < l
        PROVE  buf'[k] < buf'[l]
    <3>1. CASE l = writer.at
      <4>1. k # writer.at /\ UnderWay(k)
        <5>1. k # writer.at
          BY <2>3, <3>1
        <5> QED
          BY <1>2, <2>3, <5>1
      <4>2. buf'[k] = buf[k] /\ buf[k] < puts
        BY <2>2, <4>1
      <4> QED
        BY <1>5, <3>1, <4>2
    <3>2. CASE UnderWay(l) /\ k = writer.at
      BY <1>3, <1>c, <2>3, <3>2
    <3>3. CASE UnderWay(l) /\ UnderWay(k)
      BY <1>a, <2>2, <2>3, <3>3 DEF InOrder
    <3> QED
      BY <1>2, <2>3, <3>1, <3>2, <3>3
  <2>4. ASSUME NEW k \in Index, UnderWay(k)'
        PROVE  buf'[k] <= Newest' /\ \A i \in 1 .. Len(log) : log[i] < buf'[k]
    <3>1. CASE k = writer.at
      <4>1. buf'[k] = puts /\ puts \in Int
        BY <1>5, <3>1
      <4> QED
        BY <1>4, <2>1, <4>1
    <3>2. CASE UnderWay(k)
      <4>1. buf'[k] = buf[k] /\ buf[k] < puts /\ \A i \in 1 .. Len(log) : log[i] < buf[k]
        BY <2>2, <3>2
      <4> QED
        BY <1>4, <4>1
    <3> QED
      BY <1>2, <2>4, <3>1, <3>2
  <2> QED
    <3>1. \A i \in 1 .. Len(log) : log[i] <= Newest'
      BY <1>4, <2>1
    <3> QED
      BY <1>a, <1>b, <2>3, <2>4, <3>1 DEF InOrder
<1>7. Kept'
  <2> SUFFICES ASSUME NEW x \in 1 .. puts PROVE Somewhere(x)'
    BY <1>b DEF Kept
  <2>1. CASE x = writer.c
    BY <1>2, <1>5, <1>c, <2>1 DEF Somewhere
  <2>2. CASE x \in lost \/ \E i \in 1 .. Len(log) : log[i] = x
    BY <1>b, <2>2 DEF Somewhere
  <2>3. CASE \E k \in Index : UnderWay(k) /\ buf[k] = x
    <3>1. PICK k \in Index : UnderWay(k) /\ buf[k] = x
      BY <2>3
    <3>2. k # writer.at
      BY <1>3, <1>c, <3>1
    <3> QED
      BY <1>2, <1>5, <3>1, <3>2 DEF Somewhere
  <2> QED
    BY <1>a, <2>1, <2>2, <2>3 DEF Kept, Somewhere
<1> QED
  BY <1>1, <1>6, <1>7

(* A piece is written, and if the card fails, the rest of what was being      *)
(* written is dropped.                                                        *)
LEMMA WriteSorted == LogInv /\ SortedInv /\ (DumpWrites \/ DumpFails) => SortedInv'
<1> SUFFICES ASSUME LogInv, SortedInv, DumpWrites \/ DumpFails, ~torn
             PROVE  Whole' /\ InOrder' /\ Kept'
  <2>1. DumpWrites \/ DumpFails => torn' = torn
    BY DEF DumpWrites, DumpFails
  <2> QED
    BY <2>1 DEF SortedInv
<1> USE Known, SdLogAssumption
<1>a. Whole /\ InOrder /\ Kept
  BY DEF SortedInv
<1>b. /\ flusher = "write" /\ bw < pos /\ lending /\ lendpos = pos /\ Len(log) <= Room
      /\ UNCHANGED <<buf, pos, lendpos, end, lending, ovf, writer, puts>>
  BY <1>a DEF DumpWrites, DumpFails, Whole, LogInv, File
<1>c. PICK n \in Nat :
        /\ n <= pos - bw
        /\ log' = log \o [i \in 1 .. n |-> buf[bw + i - 1]]
        /\ bw' = bw + n
        /\ \/ flusher' = "write" /\ lost' = lost
           \/ flusher' = "clear" /\ lost' = lost \cup Part(buf, bw + n, pos)
  <2>1. CASE DumpWrites
    <3>1. Least(pos - bw, Room - Len(log)) \in Nat
          /\ Least(pos - bw, Room - Len(log)) <= pos - bw
      BY <1>b DEF Least
    <3> QED
      BY <3>1, <2>1, <1>b DEF DumpWrites
  <2>2. CASE DumpFails
    <3>1. \A n \in 0 .. Least(pos - bw, Room - Len(log)) : n \in Nat /\ n <= pos - bw
      BY <1>b DEF Least
    <3> QED
      BY <2>2, <1>b, <3>1 DEF DumpFails
  <2> QED
    BY <2>1, <2>2
<1>d. /\ bw \in Nat /\ pos \in Nat /\ end \in Nat /\ Cap \in Nat /\ bw + n <= pos
      /\ pos <= Cap /\ pos <= end /\ end <= Cap
  BY <1>b, <1>c
<1> DEFINE s == [i \in 1 .. n |-> buf[bw + i - 1]]
<1>1. s \in Seq(Nat) /\ Len(s) = n /\ \A i \in 1 .. n : s[i] = buf[bw + i - 1]
  <2>1. bw + n <= Cap /\ buf \in [Index -> Nat]
    BY <1>d
  <2>2. s \in Seq(Nat) /\ Len(s) = n
    BY <1>d, <2>1, Piece
  <2> QED
    BY <2>2
<1>2. log' = log \o s
  BY <1>c
<1> HIDE DEF s
<1>3. /\ Len(log') = Len(log) + n
      /\ \A i \in 1 .. Len(log) : log'[i] = log[i]
      /\ \A i \in 1 .. Len(log') : i > Len(log) =>
            i - Len(log) \in 1 .. n /\ log'[i] = s[i - Len(log)]
  <2>1. log \in Seq(Nat) /\ s \in Seq(Nat) /\ Len(log) \in Nat
    BY <1>1
  <2>2. /\ Len(log \o s) = Len(log) + Len(s)
        /\ \A i \in 1 .. Len(log) + Len(s) :
              (log \o s)[i] = IF i <= Len(log) THEN log[i] ELSE s[i - Len(log)]
    BY <2>1, ConcatProperties
  <2> QED
    BY <1>1, <1>2, <2>1, <2>2
<1>4. From = bw /\ To = end /\ To' = end /\ From' >= bw + n /\ From' \in Nat
  BY <1>b, <1>c DEF From, To
<1>5. ASSUME NEW i \in 1 .. Len(log'), i > Len(log)
      PROVE  /\ bw + (i - Len(log)) - 1 \in Index /\ UnderWay(bw + (i - Len(log)) - 1)
             /\ log'[i] = buf[bw + (i - Len(log)) - 1]
  <2>1. PICK m \in 1 .. n : m = i - Len(log) /\ log'[i] = s[m]
    BY <1>3, <1>5
  <2>2. log'[i] = buf[bw + m - 1]
    BY <1>1, <2>1
  <2>3. bw + m - 1 \in Index /\ bw <= bw + m - 1 /\ bw + m - 1 < end
    BY <1>d
  <2>4. UnderWay(bw + m - 1)
    BY <1>4, <2>3 DEF UnderWay
  <2> QED
    BY <2>1, <2>2, <2>3, <2>4
<1>6. \A k \in Index : UnderWay(k)' => UnderWay(k) /\ k >= bw + n
  BY <1>4 DEF UnderWay
<1>7. Whole'
  BY <1>a, <1>b, <1>c DEF Whole, NoOne
<1>8. Newest' = Newest
  BY <1>b DEF Newest
<1>9. InOrder'
  <2>1. ASSUME NEW i \in 1 .. Len(log'), NEW j \in 1 .. Len(log'), i < j
        PROVE  log'[i] < log'[j]
    <3>1. CASE j \in 1 .. Len(log)
      <4>1. i \in 1 .. Len(log)
        BY <2>1, <3>1
      <4> QED
        BY <1>a, <1>3, <2>1, <3>1, <4>1 DEF InOrder
    <3>2. CASE i \in 1 .. Len(log) /\ j > Len(log)
      <4>1. log'[i] = log[i]
        BY <1>3, <3>2
      <4>2. PICK l \in Index : UnderWay(l) /\ log'[j] = buf[l]
        BY <1>5, <3>2
      <4>3. log[i] < buf[l]
        BY <1>a, <3>2, <4>2 DEF InOrder
      <4> QED
        BY <4>1, <4>2, <4>3
    <3>3. CASE i > Len(log) /\ j > Len(log)
      <4>1. bw + (i - Len(log)) - 1 < bw + (j - Len(log)) - 1
        BY <2>1
      <4>2. PICK k \in Index : k = bw + (i - Len(log)) - 1 /\ UnderWay(k) /\ log'[i] = buf[k]
        BY <1>5, <3>3
      <4>3. PICK l \in Index : l = bw + (j - Len(log)) - 1 /\ UnderWay(l) /\ log'[j] = buf[l]
        BY <1>5, <3>3
      <4>4. k < l
        BY <4>1, <4>2, <4>3
      <4>5. buf[k] < buf[l]
        BY <1>a, <4>2, <4>3, <4>4 DEF InOrder
      <4> QED
        BY <4>2, <4>3, <4>5
    <3> QED
      BY <2>1, <3>1, <3>2, <3>3
  <2>2. ASSUME NEW i \in 1 .. Len(log')
        PROVE  log'[i] <= Newest /\ \A k \in Index : UnderWay(k)' => log'[i] < buf[k]
    <3>1. CASE i \in 1 .. Len(log)
      BY <1>a, <1>3, <1>6, <3>1 DEF InOrder
    <3>2. CASE i > Len(log)
      <4>1. ASSUME NEW k \in Index, UnderWay(k)'
            PROVE  bw + (i - Len(log)) - 1 < k /\ UnderWay(k)
        <5>1. PICK m \in 1 .. n : m = i - Len(log)
          BY <1>3, <2>2, <3>2
        <5>2. UnderWay(k) /\ k >= bw + n
          BY <1>6, <4>1
        <5> QED
          BY <1>d, <5>1, <5>2
      <4> QED
        BY <1>a, <1>5, <3>2, <4>1 DEF InOrder
    <3> QED
      BY <3>1, <3>2
  <2>3. \A k, l \in Index : UnderWay(k)' /\ UnderWay(l)' /\ k < l => buf'[k] < buf'[l]
    BY <1>a, <1>b, <1>6 DEF InOrder
  <2>4. \A k \in Index : UnderWay(k)' => buf'[k] <= Newest
    BY <1>a, <1>b, <1>6 DEF InOrder
  <2> QED
    BY <1>b, <1>8, <2>1, <2>2, <2>3, <2>4 DEF InOrder
<1>10. Kept'
  <2> SUFFICES ASSUME NEW x \in 1 .. puts PROVE Somewhere(x)'
    BY <1>b DEF Kept
  <2>1. CASE x = writer.c \/ x \in lost
    BY <1>b, <1>c, <2>1 DEF Somewhere
  <2>2. CASE \E i \in 1 .. Len(log) : log[i] = x
    <3>1. PICK i \in 1 .. Len(log) : log[i] = x
      BY <2>2
    <3>2. i \in 1 .. Len(log') /\ log'[i] = x
      BY <1>3, <3>1
    <3> QED
      BY <3>2 DEF Somewhere
  <2>3. CASE \E k \in Index : UnderWay(k) /\ buf[k] = x
    <3>1. PICK k \in Index : UnderWay(k) /\ buf[k] = x
      BY <2>3
    <3>2. bw <= k /\ k < end
      BY <1>4, <3>1 DEF UnderWay
    <3>3. CASE k < bw + n
      <4>1. PICK i \in Nat : i = Len(log) + (k - bw) + 1
        BY <3>1, <3>2
      <4>2. i \in 1 .. Len(log') /\ i > Len(log) /\ bw + (i - Len(log)) - 1 = k
        BY <1>d, <1>3, <3>1, <3>2, <3>3, <4>1, Len(log) \in Nat
      <4>3. log'[i] = x
        BY <1>5, <3>1, <4>2
      <4> QED
        BY <4>2, <4>3 DEF Somewhere
    <3>4. CASE k >= bw + n /\ flusher' = "write"
      <4>1. UnderWay(k)' /\ buf'[k] = x
        BY <1>b, <1>c, <3>1, <3>2, <3>4 DEF UnderWay, From, To
      <4> QED
        BY <4>1 DEF Somewhere
    <3>5. CASE k >= bw + n /\ flusher' = "clear" /\ k < pos
      <4>1. x \in Part(buf, bw + n, pos)
        BY <3>1, <3>5 DEF Part
      <4> QED
        BY <1>c, <3>5, <4>1 DEF Somewhere
    <3>6. CASE k >= bw + n /\ flusher' = "clear" /\ k >= pos
      <4>1. UnderWay(k)' /\ buf'[k] = x
        BY <1>b, <3>1, <3>2, <3>6 DEF UnderWay, From, To
      <4> QED
        BY <4>1 DEF Somewhere
    <3> QED
      BY <1>c, <1>d, <3>1, <3>3, <3>4, <3>5, <3>6
  <2> QED
    BY <1>a, <2>1, <2>2, <2>3 DEF Kept, Somewhere
<1> QED
  BY <1>7, <1>9, <1>10

(* The other steps of a flush leave the stretch where it is, but for a file   *)
(* that cannot be opened.                                                     *)
LEMMA FlushSorted == LogInv /\ SortedInv /\ Flush => SortedInv'
<1> SUFFICES ASSUME LogInv, SortedInv, Flush, ~torn' PROVE Whole' /\ InOrder' /\ Kept'
  BY DEF SortedInv
<1> USE Known
<1>a. ~torn
  BY DEF Flush, FlushStart, OpenFails, Open, DumpBegins, DumpLends, DumpWrites, DumpFails,
         DumpDone, Clear
<1>b. Whole /\ InOrder /\ Kept
  BY <1>a DEF SortedInv
<1>1. CASE FlushStart \/ Open \/ DumpBegins
  <2>1. UNCHANGED <<buf, pos, lendpos, end, lending, ovf, writer, log, puts, lost>>
    BY <1>1 DEF FlushStart, Open, DumpBegins
  <2>2. /\ flusher \in {"idle", "open", "dump"} /\ flusher' \in {"idle", "open", "dump", "lend"}
        /\ flusher = "idle" => Pend
        /\ flusher' = "lend" => ~(~lending /\ end # lendpos)
    BY <1>1 DEF FlushStart, Open, DumpBegins
  <2>3. Whole'
    BY <1>b, <2>1, <2>2 DEF Whole, Pend, NoOne
  <2>4. From' = From /\ To' = To
    BY <2>1, <2>2 DEF From, To
  <2>5. \A k \in Index : UnderWay(k)' <=> UnderWay(k)
    BY <2>4 DEF UnderWay
  <2> QED
    BY <1>b, <2>1, <2>3, <2>5, SameChars
<1>2. CASE OpenFails
  <2>1. /\ flusher = "open" /\ flusher' = "idle" /\ writer = NoOne
        /\ pos' = 0 /\ ovf' = FALSE /\ lending' = FALSE /\ lost' = lost \cup Part(buf, 0, pos)
        /\ UNCHANGED <<buf, lendpos, end, writer, bw, log, puts>>
    BY <1>2 DEF OpenFails
  <2>2. ~lending
    BY <1>b, <2>1 DEF Whole
  <2>3. Whole'
    BY <1>b, <2>1 DEF Whole, NoOne
  <2>4. ASSUME NEW k \in Index
        PROVE  (UnderWay(k)' => UnderWay(k)) /\ (UnderWay(k) => UnderWay(k)' \/ buf[k] \in lost')
    <3>1. CASE end # lendpos
      BY <2>1, <2>2, <3>1 DEF UnderWay, From, To
    <3>2. CASE end = lendpos
      <4>1. ~UnderWay(k)'
        BY <2>1, <3>2 DEF UnderWay, From, To
      <4>2. UnderWay(k) => 0 <= k /\ k < pos
        BY <2>1, <2>2, <3>2 DEF UnderWay, From, To
      <4>3. UnderWay(k) => buf[k] \in Part(buf, 0, pos)
        BY <4>2 DEF Part
      <4> QED
        BY <2>1, <4>1, <4>3
    <3> QED
      BY <3>1, <3>2
  <2> QED
    BY <1>b, <2>1, <2>3, <2>4, SameChars
<1>3. CASE DumpLends
  <2>1. /\ flusher = "lend" /\ flusher' = "write" /\ writer = NoOne
        /\ lending' = TRUE /\ lendpos' = pos /\ end' = pos /\ bw' = 0
        /\ UNCHANGED <<buf, pos, ovf, writer, log, puts, lost>>
    BY <1>3 DEF DumpLends
  <2>2. ~lending /\ end = lendpos
    BY <1>b, <2>1 DEF Whole
  <2>3. Whole'
    BY <1>b, <2>1 DEF Whole, NoOne
  <2>4. From' = From /\ To' = To
    BY <2>1, <2>2 DEF From, To
  <2>5. \A k \in Index : UnderWay(k)' <=> UnderWay(k)
    BY <2>4 DEF UnderWay
  <2> QED
    BY <1>b, <2>1, <2>3, <2>5, SameChars
<1>4. CASE DumpWrites \/ DumpFails
  BY <1>4, WriteSorted DEF SortedInv
<1>5. CASE DumpDone
  <2>1. /\ flusher = "write" /\ bw >= pos /\ flusher' = "clear" /\ ovf' = FALSE
        /\ UNCHANGED <<buf, pos, lendpos, end, lending, writer, bw, log, puts, lost>>
    BY <1>5 DEF DumpDone
  <2>2. bw = pos
    BY <1>b, <2>1 DEF Whole
  <2>3. Whole'
    BY <1>b, <2>1 DEF Whole, NoOne
  <2>4. From' = From /\ To' = To
    BY <2>1, <2>2 DEF From, To
  <2>5. \A k \in Index : UnderWay(k)' <=> UnderWay(k)
    BY <2>4 DEF UnderWay
  <2> QED
    BY <1>b, <2>1, <2>3, <2>5, SameChars
<1>6. CASE Clear
  <2>1. /\ flusher = "clear" /\ flusher' = "idle" /\ ~(writer # NoOne /\ writer.to = "pos")
        /\ pos' = 0 /\ ovf' = FALSE /\ lending' = FALSE
        /\ UNCHANGED <<buf, lendpos, end, writer, bw, log, puts, lost>>
    BY <1>6 DEF Clear
  <2>2. lending /\ lendpos = pos
    BY <1>b, <2>1 DEF Whole
  <2>3. Whole'
    BY <1>b, <2>1 DEF Whole, NoOne
  <2>4. \A k \in Index : UnderWay(k)' <=> UnderWay(k)
    BY <2>1, <2>2 DEF UnderWay, From, To
  <2> QED
    BY <1>b, <2>1, <2>3, <2>4, SameChars
<1> QED
  BY <1>1, <1>2, <1>3, <1>4, <1>5, <1>6 DEF Flush

LEMMA SortedStep == LogInv /\ SortedInv /\ [LogNext]_logVars => SortedInv'
<1> SUFFICES ASSUME LogInv, SortedInv, PutEscape \/ UNCHANGED logVars, ~torn' PROVE Whole' /\ InOrder' /\ Kept'
  BY ChooseSorted, StoreSorted, FlushSorted DEF LogNext, Put, SortedInv
<1>1. UNCHANGED <<buf, pos, lendpos, end, lending, ovf, writer, flusher, bw, log, puts, lost, torn>>
  BY DEF PutEscape, logVars
<1>2. Whole /\ InOrder /\ Kept
  BY <1>1 DEF SortedInv
<1>3. From' = From /\ To' = To
  BY <1>1 DEF From, To
<1>4. Whole'
  BY <1>1, <1>2 DEF Whole
<1> QED
  BY <1>1, <1>2, <1>3, <1>4, SameChars DEF UnderWay

(* The file holds the characters once and in order, and none is missing but   *)
(* those a full buffer or a failed flush dropped, unless a flush tore a putc. *)
THEOREM LogFaithful == LogSpec => []Faithful
<1>1. LogInit => SortedInv
  <2> SUFFICES ASSUME LogInit PROVE Whole /\ InOrder /\ Kept
    BY DEF SortedInv
  <2>1. Whole
    BY DEF LogInit, Whole, NoOne
  <2>2. Len(log) = 0 /\ puts = 0 /\ Newest = 0
    BY DEF LogInit, Newest
  <2>3. \A k \in Index : ~UnderWay(k)
    BY SdLogAssumption DEF LogInit, UnderWay, From, To
  <2> QED
    BY <2>1, <2>2, <2>3 DEF InOrder, Kept
<1>2. LogInv /\ SortedInv => Faithful
  <2> SUFFICES ASSUME LogInv, Whole, InOrder, Kept, NEW x \in 1 .. puts
               PROVE  x \in lost \cup {log[i] : i \in 1 .. Len(log)} \cup Part(buf, 0, pos)
                           \cup Part(buf, lendpos, end) \cup {writer.c}
    BY DEF SortedInv, Faithful, InOrder
  <2>1. ASSUME NEW k \in Index, UnderWay(k) PROVE buf[k] \in Part(buf, 0, pos) \cup Part(buf, lendpos, end)
    <3>1. k < pos \/ (lendpos <= k /\ k < end)
      BY <2>1, Known DEF Whole, UnderWay, From, To
    <3> QED
      BY <3>1 DEF Part
  <2> QED
    BY <2>1 DEF Kept, Somewhere
<1> QED
  BY <1>1, <1>2, InitHolds, StepKeeps, SortedStep, PTL DEF LogSpec
==============================================================================
