------------------------------ MODULE GrabTasks ------------------------------
(* The tasks of the ESP around the grabbers and the configuration file.       *)
(*                                                                            *)
(* The grab task runs the grabbers pass after pass; the last of them, cfgpull,*)
(* fetches a new config.json.  A timer creates the task whenever it is gone,  *)
(* and restarts the ESP when it has been gone too long; the WiFi events and   *)
(* the web interface stop it through the bits GrabTaskStop and GrabTaskDead   *)
(* of one event group.  The web interface also replaces config.json, by the   *)
(* same steps as cfgpull, and both write the new one into the same            *)
(* config.json.tmp first.  Anyone may ask for a refresh.  The power may fail  *)
(* between any two steps; what is on the card stays.                          *)
(* (esp/main/grabber/grab.cpp, cfgpull.cpp, webui.cpp, wifitime.cpp, main.cpp)*)
EXTENDS Naturals, Sequences, FiniteSets

CONSTANTS
    Plain,      \* the grabbers without TLS, in the order of grab.cpp:28-39
    Secure,     \* those with TLS, in that order
    CfgPull,    \* the grabber that fetches the configuration
    WebUi,      \* webui::mode # DISABLED
    Asked,      \* bound: what the display asks to have refreshed
    MaxDead,    \* bound (100 in the code): timer ticks without a grab task
    MaxCuts,    \* bound: power failures
    MaxDrops,   \* bound: times the WiFi is lost
    MaxMishaps  \* bound: both together

Order == Plain \o Secure
Grabbers == {Order[i] : i \in 1 .. Len(Order)}
NONE == "NONE"
ALL == "ALL"

ASSUME GrabTasksAssumption ==
    /\ {Plain, Secure} \subseteq Seq(STRING) \ {<<>>}
    /\ CfgPull = Secure[Len(Secure)]
    /\ {NONE, ALL} \cap Grabbers = {}
    /\ WebUi \in BOOLEAN /\ Asked \subseteq Grabbers \cup {ALL}
    /\ {MaxDead, MaxCuts, MaxDrops, MaxMishaps} \subseteq Nat

VARIABLES
    files,      \* config.json and its .tmp, .old and .bad, each "none", "whole" or "broken"
    main,       \* app_main: "boot", "waiting" for WiFi, "up", or "halted"
    bits,       \* wifi::events
    task, next, \* the grab task: its place ("none": it does not exist) and its loop index
    deadFor,    \* grab_task_dead_for
    killer,     \* the timer grab_killer: "none", "armed" or "fired"
    killing,    \* kill_grab_task has found that it is still wanted
    refreshFor, \* grabber::refresh_for
    caller,     \* the servicer task inside refresh(): what for, and whether it found none pending
    web,        \* the web interface: its place
    webFree,    \* what its refresh() found
    enabled,    \* cfgpull::enabled
    cuts, drops,
    owed,       \* history: grabbers whose refresh was asked for and not run since
    meddled     \* history: the WiFi event took back a stop of the web interface, or
                \* a reader kept cfgpull from setting a broken config.json aside

vars == <<files, main, bits, task, next, deadFor, killer, killing, refreshFor, caller,
          web, webFree, enabled, cuts, drops, owed, meddled>>

Names == {"config", "tmp", "old", "bad"}
Contents == {"none", "whole", "broken"}
Idle == [for |-> NONE, free |-> FALSE]

(* The steps by which a new configuration takes the place of the old one,     *)
(* and those that take it back.                                               *)
Install == {"unlinkOld", "keepOld", "install", "parse"}
TakeBack == {"unlinkBad", "setAside", "reinstate", "reparse"}
Replacing == Install \cup TakeBack

PullPlaces == {"create", "write", "blind"} \cup Replacing \cup {"reload", "ask"}
Pass == {"plain", "waitTime", "secure", "wipe"} \cup PullPlaces
TaskPlaces == {"none", "wifi", "stm", "alive", "clear", "wifiAgain", "sleep", "exit", "gone"} \cup Pass
WebPlaces == {"idle", "get", "write", "stop", "waitDead", "reload", "find", "refresh", "release"} \cup Replacing

(* The web interface has been told that the grab task is dead.                *)
WebHolds == web \in Replacing \cup {"reload", "find", "refresh", "release"}
WebHasStopped == WebHolds \/ web = "waitDead"

-----------------------------------------------------------------------------
(* The card.  A file that is open can be neither renamed, removed nor opened  *)
(* for writing (FF_FS_LOCK); nothing is renamed onto a file that exists.      *)
Locked == {n \in Names : \/ n = "tmp" /\ (web = "write" \/ task = "write")
                         \/ n = "config" /\ web = "get"}

Unlinked(a) == IF a \in Locked THEN files ELSE [files EXCEPT ![a] = "none"]

Renamed(a, b) == IF files[a] # "none" /\ a \notin Locked /\ files[b] = "none"
                 THEN [files EXCEPT ![b] = files[a], ![a] = "none"]
                 ELSE files

(* One step of the replacement on the card.                                   *)
FileStep(s) == CASE s = "unlinkOld" -> Unlinked("old")
                 [] s = "keepOld"   -> Renamed("config", "old")
                 [] s = "install"   -> Renamed("tmp", "config")
                 [] s = "unlinkBad" -> Unlinked("bad")
                 [] s = "setAside"  -> Renamed("config", "bad")
                 [] s = "reinstate" -> Renamed("old", "config")
                 [] OTHER           -> files

After_KeepBroken(s) ==
    CASE s = "unlinkOld" -> "keepOld"    [] s = "keepOld" -> "install"
      [] s = "install" -> "parse"        [] s = "unlinkBad" -> "setAside"
      [] s = "setAside" -> "reparse"

After(s) == CASE s = "unlinkOld" -> "keepOld"    [] s = "keepOld" -> "install"
              [] s = "install" -> "parse"        [] s = "unlinkBad" -> "setAside"
              [] s = "setAside" -> "reinstate"   [] s = "reinstate" -> "reparse"

(* config::parse_config_from_sd succeeds on a whole config.json.              *)
Parses == files["config"] = "whole"

-----------------------------------------------------------------------------
(* Asking for a refresh.  Whoever finds none pending writes its own and wakes *)
(* the grab task; whoever finds one makes it ALL.  The two halves are apart.  *)
Post(g, free) ==
    /\ refreshFor' = IF free THEN g ELSE ALL
    /\ bits' = IF free THEN bits \cup {"Requested"} ELSE bits

Covered(g, r) == r \in {g, ALL}

(* What is owed once a request is posted.  One that finds the task in the     *)
(* middle of a pass may be wiped at its end; two that both found none pending *)
(* overwrite one another.                                                     *)
Owes(g, free) ==
    LET kept == IF free /\ refreshFor # NONE THEN {h \in owed : Covered(h, g)} ELSE owed
    IN  IF task \in Pass THEN kept ELSE kept \cup {h \in Grabbers : Covered(h, g)}

(* The servicer task: REFRESH_GRABBER from the display, or the end of sleep.  *)
AskRefresh(g) ==
    /\ caller = Idle
    /\ caller' = [for |-> g, free |-> refreshFor = NONE]
    /\ UNCHANGED <<files, main, bits, task, next, deadFor, killer, killing, refreshFor,
                   web, webFree, enabled, cuts, drops, owed, meddled>>

PostRefresh ==
    /\ caller # Idle
    /\ Post(caller.for, caller.free)
    /\ owed' = Owes(caller.for, caller.free)
    /\ caller' = Idle
    /\ UNCHANGED <<files, main, task, next, deadFor, killer, killing,
                   web, webFree, enabled, cuts, drops, meddled>>

-----------------------------------------------------------------------------
(* app_main and restarts.                                                     *)
Boot ==
    /\ main = "boot"
    /\ \/ Parses /\ main' = "waiting" /\ bits' = bits \cup {"Stop"}
       \/ ~Parses /\ main' = "halted" /\ bits' = bits
    /\ UNCHANGED <<files, task, next, deadFor, killer, killing, refreshFor, caller,
                   web, webFree, enabled, cuts, drops, owed, meddled>>

(* The web interface and the timer of the grab task are started once the      *)
(* WiFi is there.                                                             *)
StartServices ==
    /\ main = "waiting" /\ "Wifi" \in bits
    /\ main' = "up"
    /\ UNCHANGED <<files, bits, task, next, deadFor, killer, killing, refreshFor, caller,
                   web, webFree, enabled, cuts, drops, owed, meddled>>

Restart ==
    /\ main' = "boot" /\ bits' = {"Dead"}
    /\ task' = "none" /\ next' = 1 /\ deadFor' = 0
    /\ killer' = "none" /\ killing' = FALSE
    /\ refreshFor' = NONE /\ caller' = Idle
    /\ web' = "idle" /\ webFree' = FALSE /\ enabled' = TRUE
    /\ owed' = {}
    /\ UNCHANGED <<files, meddled>>

PowerCut ==
    /\ cuts < MaxCuts /\ cuts + drops < MaxMishaps /\ cuts' = cuts + 1
    /\ Restart
    /\ UNCHANGED drops

(* check_and_restart_grabber_timer: the task may not fit into the memory.     *)
Tick ==
    /\ main = "up" /\ task = "none" /\ deadFor < MaxDead
    /\ \/ "Stop" \in bits
       \/ "Stop" \notin bits   \* no memory for the task
    /\ deadFor' = deadFor + 1
    /\ UNCHANGED <<files, main, bits, task, next, killer, killing, refreshFor, caller,
                   web, webFree, enabled, cuts, drops, owed, meddled>>

TickStart ==
    /\ main = "up" /\ task = "none" /\ deadFor < MaxDead /\ "Stop" \notin bits
    /\ task' = "wifi" /\ deadFor' = 0
    /\ UNCHANGED <<files, main, bits, next, killer, killing, refreshFor, caller,
                   web, webFree, enabled, cuts, drops, owed, meddled>>

TickGiveUp_Unstopped ==
    /\ main = "up" /\ task = "none" /\ deadFor = MaxDead /\ "Stop" \notin bits
    /\ Restart
    /\ UNCHANGED <<cuts, drops>>

TickGiveUp ==
    /\ main = "up" /\ task = "none" /\ deadFor = MaxDead
    /\ Restart
    /\ UNCHANGED <<cuts, drops>>

-----------------------------------------------------------------------------
(* WiFi and the display.                                                      *)
GotIp ==
    /\ main \in {"waiting", "up"} /\ "Wifi" \notin bits
    /\ bits' = (bits \cup {"Wifi"}) \ {"Stop"}
    /\ killer' = "none"
    /\ meddled' = (meddled \/ (WebHasStopped /\ "Stop" \in bits))
    /\ UNCHANGED <<files, main, task, next, deadFor, killing, refreshFor, caller,
                   web, webFree, enabled, cuts, drops, owed>>

(* The grab task is to be killed seven seconds later, unless the access point *)
(* only refused the rate.                                                     *)
Disconnected ==
    /\ "Wifi" \in bits /\ drops < MaxDrops /\ cuts + drops < MaxMishaps /\ drops' = drops + 1
    /\ bits' = bits \ {"Wifi"}
    /\ killer' \in {killer, IF killer = "none" THEN "armed" ELSE killer}
    /\ UNCHANGED <<files, main, task, next, deadFor, killing, refreshFor, caller,
                   web, webFree, enabled, cuts, owed, meddled>>

(* kill_grab_task looks whether it is still wanted, and then sets the bit.    *)
KillerFires ==
    /\ killer = "armed" /\ ~killing
    /\ killer' = "fired" /\ killing' = TRUE
    /\ UNCHANGED <<files, main, bits, task, next, deadFor, refreshFor, caller,
                   web, webFree, enabled, cuts, drops, owed, meddled>>

KillerStops ==
    /\ killing
    /\ bits' = bits \cup {"Stop"} /\ killing' = FALSE
    /\ UNCHANGED <<files, main, task, next, deadFor, killer, refreshFor, caller,
                   web, webFree, enabled, cuts, drops, owed, meddled>>

TimeArrives ==
    /\ "Wifi" \in bits /\ "Time" \notin bits
    /\ bits' = bits \cup {"Time"}
    /\ UNCHANGED <<files, main, task, next, deadFor, killer, killing, refreshFor, caller,
                   web, webFree, enabled, cuts, drops, owed, meddled>>

DisplayConnects ==
    /\ "Stm" \notin bits
    /\ bits' = bits \cup {"Stm"}
    /\ UNCHANGED <<files, main, task, next, deadFor, killer, killing, refreshFor, caller,
                   web, webFree, enabled, cuts, drops, owed, meddled>>

-----------------------------------------------------------------------------
(* The grab task.                                                             *)
(* stoppable(x): on to `to` when the bit is there, out when told to stop.     *)
Stoppable(from, bit, to) ==
    /\ task = from
    /\ \/ "Stop" \in bits /\ task' = "exit"
       \/ "Stop" \notin bits /\ bit \in bits /\ task' = to
    /\ UNCHANGED <<files, main, bits, next, deadFor, killer, killing, refreshFor, caller,
                   web, webFree, enabled, cuts, drops, owed, meddled>>

TaskWaits ==
    \/ Stoppable("wifi", "Wifi", "stm")
    \/ Stoppable("stm", "Stm", "alive")
    \/ Stoppable("wifiAgain", "Wifi", "plain")
    \/ Stoppable("waitTime", "Time", "secure")

(* The bit GrabTaskDead goes and all grabbers are set up.                     *)
TaskAlive ==
    /\ task = "alive"
    /\ bits' = bits \ {"Dead"} /\ task' = "clear"
    /\ UNCHANGED <<files, main, next, deadFor, killer, killing, refreshFor, caller,
                   web, webFree, enabled, cuts, drops, owed, meddled>>

PassBegins ==
    /\ task = "clear"
    /\ bits' = bits \ {"Requested"} /\ task' = "wifiAgain" /\ next' = 1
    /\ UNCHANGED <<files, main, deadFor, killer, killing, refreshFor, caller,
                   web, webFree, enabled, cuts, drops, owed, meddled>>

Advance ==
    /\ next' = next + 1
    /\ task' = CASE next = Len(Plain) -> "waitTime"
                 [] next = Len(Order) -> "wipe"
                 [] OTHER -> IF next < Len(Plain) THEN "plain" ELSE "secure"

(* run_grabber: a grabber runs when asked for, or when its time has come      *)
(* (which it may at any moment).                                              *)
RunGrabber ==
    /\ task \in {"plain", "secure"}
    /\ LET g == Order[next] IN
       \/ /\ g # CfgPull \/ ~enabled
          /\ owed' = owed \ {g} /\ Advance
       \/ /\ g = CfgPull /\ enabled
          /\ owed' = owed \ {g}
          /\ Advance \/ (task' = "create" /\ next' = next)   \* nothing new, or a new version
       \/ /\ ~Covered(g, refreshFor)
          /\ owed' = owed /\ Advance
    /\ UNCHANGED <<files, main, bits, deadFor, killer, killing, refreshFor, caller,
                   web, webFree, enabled, cuts, drops, meddled>>

Wipe ==
    /\ task = "wipe"
    /\ refreshFor' = NONE /\ task' = "sleep"
    /\ UNCHANGED <<files, main, bits, next, deadFor, killer, killing, caller,
                   web, webFree, enabled, cuts, drops, owed, meddled>>

(* Until GrabRequested, the next grabber's time, or at once if that is past.  *)
Wake ==
    /\ task = "sleep"
    /\ task' \in (IF "Stop" \in bits THEN {"clear", "exit"} ELSE {"clear"})
    /\ UNCHANGED <<files, main, bits, next, deadFor, killer, killing, refreshFor, caller,
                   web, webFree, enabled, cuts, drops, owed, meddled>>

TaskExits_Forgets ==
    /\ \/ task = "exit" /\ task' = "gone" /\ bits' = bits \cup {"Dead"}
       \/ task = "gone" /\ task' = "none" /\ bits' = bits
    /\ refreshFor' = NONE
    /\ UNCHANGED <<files, main, next, deadFor, killer, killing, caller,
                   web, webFree, enabled, cuts, drops, owed, meddled>>

TaskExits ==
    /\ \/ task = "exit" /\ task' = "gone" /\ bits' = bits \cup {"Dead"}
       \/ task = "gone" /\ task' = "none" /\ bits' = bits   \* grabber_task = nullptr
    /\ UNCHANGED <<files, main, next, deadFor, killer, killing, refreshFor, caller,
                   web, webFree, enabled, cuts, drops, owed, meddled>>

-----------------------------------------------------------------------------
(* cfgpull::loop from the download on; it runs in the grab task.              *)

(* f_open fails on a file the web interface is writing, which goes unnoticed. *)
PullCreate ==
    /\ task = "create"
    /\ IF "tmp" \in Locked
       THEN task' = "blind" /\ files' = files
       ELSE task' = "write" /\ files' = [files EXCEPT !["tmp"] = "broken"]
    /\ UNCHANGED <<main, bits, next, deadFor, killer, killing, refreshFor, caller,
                   web, webFree, enabled, cuts, drops, owed, meddled>>

(* The download ends early, or what was downloaded is installed: whole or     *)
(* not, and whether or not it could be written.                               *)
PullWrite ==
    /\ task \in {"write", "blind"}
    /\ \/ files' = files /\ Advance
       \/ /\ task' = "unlinkOld" /\ next' = next
          /\ IF task = "blind" THEN files' = files
             ELSE \E c \in {"whole", "broken"} : files' = [files EXCEPT !["tmp"] = c]
    /\ UNCHANGED <<main, bits, deadFor, killer, killing, refreshFor, caller,
                   web, webFree, enabled, cuts, drops, owed, meddled>>

PullReplace ==
    /\ task \in Replacing \ {"parse", "reparse"}
    /\ files' = FileStep(task) /\ task' = After(task)
    /\ meddled' = (meddled \/ (task = "setAside" /\ "config" \in Locked))
    /\ UNCHANGED <<main, bits, next, deadFor, killer, killing, refreshFor, caller,
                   web, webFree, enabled, cuts, drops, owed>>

PullParse ==
    /\ task = "parse"
    /\ task' = IF Parses THEN "reload" ELSE "unlinkBad"
    /\ enabled' = (enabled \/ Parses)
    /\ UNCHANGED <<files, main, bits, next, deadFor, killer, killing, refreshFor, caller,
                   web, webFree, cuts, drops, owed, meddled>>

(* The old one is back; no more is fetched.                                   *)
PullGivesUp ==
    /\ task = "reparse"
    /\ enabled' = FALSE /\ Advance
    /\ UNCHANGED <<files, main, bits, deadFor, killer, killing, refreshFor, caller,
                   web, webFree, cuts, drops, owed, meddled>>

(* reload_all, then refresh(ALL); nothing but this task wipes a request, so   *)
(* its two halves come to the same as one.                                    *)
PullReload ==
    \/ /\ task = "reload" /\ task' = "ask"
       /\ UNCHANGED <<files, main, bits, next, deadFor, killer, killing, refreshFor, caller,
                      web, webFree, enabled, cuts, drops, owed, meddled>>
    \/ /\ task = "ask"
       /\ Post(ALL, refreshFor = NONE) /\ owed' = Owes(ALL, refreshFor = NONE) /\ Advance
       /\ UNCHANGED <<files, main, deadFor, killer, killing, caller,
                      web, webFree, enabled, cuts, drops, meddled>>

-----------------------------------------------------------------------------
(* The web interface: reading and writing conf.json.                          *)
WebStep(from, to) ==
    /\ web = from /\ web' = to
    /\ UNCHANGED <<files, main, bits, task, next, deadFor, killer, killing, refreshFor, caller,
                   webFree, enabled, cuts, drops, owed, meddled>>

WebReads ==
    \/ WebUi /\ main = "up" /\ files["config"] # "none" /\ WebStep("idle", "get")
    \/ WebStep("get", "idle")

(* A file cfgpull is writing cannot be opened; the answer is then 500.        *)
WebCreate ==
    /\ WebUi /\ main = "up" /\ web = "idle" /\ "tmp" \notin Locked
    /\ web' = "write" /\ files' = [files EXCEPT !["tmp"] = "broken"]
    /\ UNCHANGED <<main, bits, task, next, deadFor, killer, killing, refreshFor, caller,
                   webFree, enabled, cuts, drops, owed, meddled>>

WebWrite ==
    /\ web = "write"
    /\ \/ web' = "idle" /\ files' = files
       \/ web' = "stop" /\ \E c \in {"whole", "broken"} : files' = [files EXCEPT !["tmp"] = c]
    /\ UNCHANGED <<main, bits, task, next, deadFor, killer, killing, refreshFor, caller,
                   webFree, enabled, cuts, drops, owed, meddled>>

WebStop ==
    /\ web = "stop"
    /\ bits' = bits \cup {"Stop"} /\ web' = "waitDead"
    /\ UNCHANGED <<files, main, task, next, deadFor, killer, killing, refreshFor, caller,
                   webFree, enabled, cuts, drops, owed, meddled>>

WebWaits_Regardless ==
    /\ web = "waitDead" /\ web' = "unlinkOld"
    /\ UNCHANGED <<files, main, bits, task, next, deadFor, killer, killing, refreshFor, caller,
                   webFree, enabled, cuts, drops, owed, meddled>>

(* Dead, or five seconds have gone by and the stop is taken back.             *)
WebWaits ==
    /\ web = "waitDead"
    /\ \/ "Dead" \in bits /\ web' = "unlinkOld" /\ bits' = bits
       \/ "Dead" \notin bits /\ web' = "idle" /\ bits' = bits \ {"Stop"}
    /\ UNCHANGED <<files, main, task, next, deadFor, killer, killing, refreshFor, caller,
                   webFree, enabled, cuts, drops, owed, meddled>>

WebReplace ==
    /\ web \in Replacing \ {"parse", "reparse"}
    /\ files' = FileStep(web) /\ web' = After(web)
    /\ UNCHANGED <<main, bits, task, next, deadFor, killer, killing, refreshFor, caller,
                   webFree, enabled, cuts, drops, owed, meddled>>

WebParse ==
    /\ \/ web = "parse" /\ web' = (IF Parses THEN "reload" ELSE "unlinkBad")
       \/ web = "reparse" /\ web' = "release"
    /\ enabled' = (enabled \/ Parses)
    /\ UNCHANGED <<files, main, bits, task, next, deadFor, killer, killing, refreshFor, caller,
                   webFree, cuts, drops, owed, meddled>>

WebReload == WebStep("reload", "find")

WebRefresh ==
    \/ /\ web = "find" /\ web' = "refresh" /\ webFree' = (refreshFor = NONE)
       /\ UNCHANGED <<bits, refreshFor, owed>>
    \/ /\ web = "refresh" /\ web' = "release" /\ webFree' = FALSE
       /\ Post(ALL, webFree) /\ owed' = Owes(ALL, webFree)

WebRefreshes ==
    /\ WebRefresh
    /\ UNCHANGED <<files, main, task, next, deadFor, killer, killing, caller,
                   enabled, cuts, drops, meddled>>

WebRelease ==
    /\ web = "release"
    /\ bits' = bits \ {"Stop"} /\ web' = "idle"
    /\ UNCHANGED <<files, main, task, next, deadFor, killer, killing, refreshFor, caller,
                   webFree, enabled, cuts, drops, owed, meddled>>

-----------------------------------------------------------------------------
Init ==
    /\ files = [n \in Names |-> IF n = "config" THEN "whole" ELSE "none"]
    /\ main = "boot" /\ bits = {"Dead"}
    /\ task = "none" /\ next = 1 /\ deadFor = 0
    /\ killer = "none" /\ killing = FALSE
    /\ refreshFor = NONE /\ caller = Idle
    /\ web = "idle" /\ webFree = FALSE /\ enabled = TRUE
    /\ cuts = 0 /\ drops = 0
    /\ owed = {} /\ meddled = FALSE

GrabTask ==
    \/ TaskWaits \/ TaskAlive \/ PassBegins \/ RunGrabber \/ Wipe \/ Wake \/ TaskExits
    \/ PullCreate \/ PullWrite \/ PullReplace \/ PullParse \/ PullGivesUp \/ PullReload

(* What the web interface does once it has begun to write.                    *)
WebTask ==
    \/ WebWrite \/ WebStop \/ WebWaits \/ WebReplace \/ WebParse \/ WebReload
    \/ WebRefreshes \/ WebRelease

Surroundings ==
    \/ Boot \/ StartServices \/ PowerCut
    \/ Tick \/ TickStart \/ TickGiveUp
    \/ GotIp \/ Disconnected \/ KillerFires \/ KillerStops
    \/ TimeArrives \/ DisplayConnects

Next ==
    \/ GrabTask \/ WebTask \/ Surroundings
    \/ \E g \in Asked : AskRefresh(g)
    \/ PostRefresh
    \/ WebReads \/ WebCreate

Spec == Init /\ [][Next]_vars

(* The tasks and timers run; the access point, the time server and the        *)
(* display come back, and there is memory for the task now and again.         *)
Fairness ==
    /\ WF_vars(GrabTask) /\ WF_vars(WebTask) /\ WF_vars(PostRefresh)
    /\ WF_vars(Boot) /\ WF_vars(StartServices)
    /\ SF_vars(TickStart) /\ WF_vars(Tick) /\ WF_vars(TickGiveUp)
    /\ WF_vars(GotIp) /\ WF_vars(TimeArrives) /\ WF_vars(DisplayConnects)
    /\ WF_vars(KillerFires) /\ WF_vars(KillerStops)

FairSpec == Spec /\ Fairness

-----------------------------------------------------------------------------
TypeOK ==
    /\ files \in [Names -> Contents]
    /\ main \in {"boot", "waiting", "up", "halted"}
    /\ bits \subseteq {"Wifi", "Time", "Stm", "Requested", "Stop", "Dead"}
    /\ task \in TaskPlaces /\ next \in 1 .. Len(Order) + 1
    /\ deadFor \in 0 .. MaxDead
    /\ killer \in {"none", "armed", "fired"} /\ killing \in BOOLEAN
    /\ refreshFor \in Grabbers \cup {NONE, ALL}
    /\ caller \in [for : Grabbers \cup {NONE, ALL}, free : BOOLEAN]
    /\ web \in WebPlaces
    /\ webFree \in BOOLEAN /\ enabled \in BOOLEAN /\ meddled \in BOOLEAN
    /\ cuts \in 0 .. MaxCuts /\ drops \in 0 .. MaxDrops
    /\ owed \subseteq Grabbers

(* While the web interface replaces the configuration, no grabber runs        *)
(* (webui.cpp:386-395), unless the WiFi came back and took back the stop.     *)
Excluded == WebHolds /\ ~meddled => task \notin Pass

(* A refresh asked for outside a pass stands until its grabber has run: it is *)
(* neither wiped by the end of a pass (grab.cpp:116) nor lost to another      *)
(* request that came second (grab.cpp:55-57).                                 *)
Standing == \A g \in owed : Covered(g, refreshFor)

(* However the two writers of config.json are interleaved, refused or cut     *)
(* short, the sign only fails to start when a replacement was under way, and  *)
(* then a whole configuration is still on the card.                           *)
HaltsOnlyMidway ==
    [][ (main' = "boot" /\ main # "boot" /\ ~meddled) =>
            /\ \/ Parses
               \/ task \in Replacing
               \/ web \in Replacing
               \/ main = "halted"
            /\ \E n \in Names : files[n] = "whole" ]_vars

(* Whatever stopped the grab task - the loss of the WiFi, an upload, a        *)
(* kill_grab_task that comes after the WiFi is back, no memory - it runs the  *)
(* grabbers again and again once uploads end, unless the sign found no        *)
(* configuration.                                                             *)
Recovers == <>[](web = "idle") => []<>(task = "sleep" \/ main = "halted")
==============================================================================
