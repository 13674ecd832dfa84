----------------------------- MODULE ScreenSlots -----------------------------
(***************************************************************************)
(* The display task (screen.cpp) and the temperatures the screens ask for: *)
(* a screen is prepared before its turn, built when it comes on and        *)
(* destroyed when it goes.  The list of screens is fixed when the ESP      *)
(* starts; which of them are enabled changes all the time.                 *)
(*                                                                         *)
(* A temperature here is the one last asked for.  The queue keeps requests *)
(* in order (PendRequests says what becomes of them), and none is lost: it *)
(* is not full for two seconds.                                            *)
(***************************************************************************)
EXTENDS Naturals, Sequences, FiniteSetsExt

CONSTANTS
  Screens,      \* the screens that hold slots
  Transit,      \* TTCScreen: which of its slots it needs stands in TTC_INFO
  Interactive,  \* screens with slots that only their interaction asks for
  First,        \* screen 0, shown at the start
  Timing,       \* SCCFG_TIMING, the list of screens
  MaxWhims      \* buttons pressed, and changes of mask and transit data

ASSUME ScreenAssumption ==
  /\ {First, Transit} \subseteq Screens /\ Interactive \subseteq Screens \ {Transit}
  /\ Timing \in Seq(Screens) /\ Timing # <<>>
  /\ MaxWhims \in Nat

VARIABLES
  shown,        \* the swapper's selected screen; the one to return to from the game
  idx,          \* screen_list_idx, from 1
  elapsed,      \* time since last_swapped_at: "fresh", "soon" for the last 1.5 s, "due"
  informed,     \* early_transition_informed
  mode,         \* interact_mode: "none", "screen", "menu", "tetris"
  override,     \* override_timeout lies ahead
  drawing,      \* TTCScreen::draw has given up the lock to request slots
  temp,         \* per screen: the temperature of its slots, and of the extra ones
  configured,   \* SCCFG_INFO and SCCFG_TIMING have arrived
  mask,         \* enabled_mask
  info,         \* TTC_INFO: "absent", or whether it names stops
  dirty,        \* TTC_INFO has changed since it was looked at
  whims

display == <<shown, idx, elapsed, informed, mode, override, drawing>>
data == <<configured, mask, info, dirty>>
vars == <<display, temp, data, whims>>

Temps == {"cold", "warm", "hot"}

-----------------------------------------------------------------------------
(* What the screens ask for                                                *)

\* request_slots reads TTC_INFO whether it has arrived or not.
StopsRead == IF info = "absent" THEN BOOLEAN ELSE {info = "stops"}

Asked(temps, k, t, withStops) ==
  [temps EXCEPT ![k] = [base |-> t, extra |-> IF k = Transit /\ withStops THEN t ELSE @.extra]]

\* Screen::prepare.
Prepared(temps, k, step, stops) == Asked(temps, k, "warm", step /\ stops)

\* The constructors.
Built(temps, k, stops) == Asked(temps, k, "hot", stops)

\* The destructors cool what interaction has warmed, too.
Destroyed_BaseOnly(temps, k) == [temps EXCEPT ![k].base = "cold"]

Destroyed(temps, k) ==
  [temps EXCEPT ![k] = [base |-> "cold", extra |-> "cold"]]

Switched_BuildFirst(temps, k, stops) == Destroyed(Built(temps, k, stops), shown)

\* ScreenSwapper::transition, the old screen's destructor first.
Switched(temps, k, stops) == Built(Destroyed(temps, shown), k, stops)

\* next_screen_idx: the nearest enabled one in either direction, or back at i.
At(i, d) == ((i - 1 + d) % Len(Timing)) + 1
Enabled(i) == {d \in 1..(Len(Timing) - 1) : Timing[At(i, d)] \in mask}

After_GivesUp(i) == IF 1 \in Enabled(i) THEN At(i, 1) ELSE i
After(i) == IF Enabled(i) = {} THEN i ELSE At(i, Min(Enabled(i)))
Before(i) == IF Enabled(i) = {} THEN i ELSE At(i, Max(Enabled(i)))

Init ==
  /\ shown = First /\ idx = 1
  /\ elapsed = "fresh" /\ informed = FALSE /\ mode = "none" /\ override = FALSE
  /\ drawing = FALSE
  /\ \E stops \in BOOLEAN :
       LET cold == [k \in Screens |-> [base |-> "cold", extra |-> "cold"]]
       IN  temp = Built(Prepared(cold, First, TRUE, stops), First, stops)
  /\ configured = FALSE /\ mask = {}
  /\ info = "absent" /\ dirty = FALSE
  /\ whims = 0

-----------------------------------------------------------------------------
(* The rotation                                                            *)

Whim == whims < MaxWhims /\ whims' = whims + 1

Rotating == ~drawing /\ configured /\ mode = "none" /\ ~override

SwapTo(i) ==
  /\ idx' = i /\ shown' = Timing[i] /\ elapsed' = "fresh" /\ informed' = FALSE
  /\ \E stops \in StopsRead :
       LET warmed == Prepared(temp, Timing[i], TRUE, stops)
       IN  temp' = Prepared(Switched(warmed, Timing[i], stops), Timing[After(i)], FALSE, stops)
  /\ UNCHANGED <<mode, override, drawing, data>>

ByClock == Rotating /\ elapsed = "due" /\ SwapTo(After(idx)) /\ UNCHANGED whims
ByButton == Rotating /\ Whim /\ (SwapTo(After(idx)) \/ SwapTo(Before(idx)))

\* A second before: what can be asked for now that the first data is here.
EarlyPrepare ==
  /\ Rotating /\ elapsed = "soon" /\ ~informed /\ informed' = TRUE
  /\ \E stops \in StopsRead : temp' = Prepared(temp, Timing[After(idx)], TRUE, stops)
  /\ UNCHANGED <<shown, idx, elapsed, mode, override, drawing, data, whims>>

\* Every screen is on for more than 1.5 s, and for less than 2000 s, which would be
\* taken for a time jump.
Tick ==
  /\ elapsed # "due"
  /\ elapsed' = IF elapsed = "fresh" THEN "soon" ELSE "due"
  /\ UNCHANGED <<shown, idx, informed, mode, override, drawing, temp, data, whims>>

\* The clock seems to jump, or the sign was busy otherwise for very long.
TimeJump ==
  /\ Rotating /\ Whim /\ elapsed' = "fresh"
  /\ UNCHANGED <<shown, idx, informed, mode, override, drawing, temp, data>>

-----------------------------------------------------------------------------
(* Buttons and their timeouts                                              *)

\* SEL, MENU.
Enter(m) ==
  /\ ~drawing /\ mode = "none" /\ m \in {"screen", "menu"} /\ Whim /\ mode' = m
  /\ UNCHANGED <<shown, idx, elapsed, informed, override, drawing, temp, data>>

\* The weather's graphs and a parcel's details are warmed, shown and let go.
Interact ==
  /\ ~drawing /\ mode = "screen" /\ shown \in Interactive /\ Whim
  /\ \E t \in Temps : temp' = [temp EXCEPT ![shown].extra = t]
  /\ UNCHANGED <<display, data>>

\* Half a minute without a button, or POWER: no screen is told.
Leave ==
  /\ ~drawing /\ mode \in {"screen", "menu"} /\ mode' = "none" /\ elapsed' = "fresh"
  /\ UNCHANGED <<shown, idx, informed, override, drawing, temp, data, whims>>

\* "goto" of the menu: a screen for half a minute, whatever the list says.
Goto(k) ==
  /\ ~drawing /\ mode = "menu" /\ Whim /\ mode' = "none" /\ override' = TRUE /\ elapsed' = "fresh"
  /\ shown' = k
  /\ \E stops \in StopsRead : temp' = Switched(temp, k, stops)
  /\ UNCHANGED <<idx, informed, drawing, data>>

OverrideEnds ==
  /\ ~drawing /\ override /\ override' = FALSE
  /\ elapsed' = elapsed \/ (mode = "none" /\ elapsed' = "fresh")
  /\ UNCHANGED <<shown, idx, informed, mode, drawing, temp, data, whims>>

\* do_tetris_mode: the game, which holds no slots, is a screen of the swapper.  It
\* is left only by its menu, for the screen before.
StartTetris ==
  /\ ~drawing /\ mode = "menu" /\ Whim /\ mode' = "tetris"
  /\ temp' = Destroyed(temp, shown)
  /\ UNCHANGED <<shown, idx, elapsed, informed, override, drawing, data>>

EndTetris ==
  /\ mode = "tetris" /\ Whim /\ mode' = "none" /\ elapsed' = "fresh"
  /\ \E stops \in StopsRead : temp' = Built(temp, shown, stops)
  /\ UNCHANGED <<shown, idx, informed, override, drawing, data>>

-----------------------------------------------------------------------------
(* TTCScreen::draw                                                         *)

\* The dirty flag is cleared, and the lock given up to request slots.
DrawFinds ==
  /\ ~drawing /\ shown = Transit /\ mode # "tetris" /\ info # "absent" /\ dirty
  /\ dirty' = FALSE /\ drawing' = TRUE
  /\ UNCHANGED <<shown, idx, elapsed, informed, mode, override, temp, configured, mask, info, whims>>

DrawRequests ==
  /\ drawing /\ drawing' = FALSE
  /\ \E stops \in StopsRead :
       temp' = IF stops THEN [temp EXCEPT ![Transit].extra = "hot"] ELSE temp
  /\ UNCHANGED <<shown, idx, elapsed, informed, mode, override, configured, mask, info, dirty, whims>>

-----------------------------------------------------------------------------
(* The servicer, and what the ESP sends                                    *)

ConfigArrives ==
  /\ ~configured /\ configured' = TRUE
  /\ mask' \in SUBSET Screens
  /\ UNCHANGED <<display, temp, info, dirty, whims>>

\* sccfg::send_mask.
MaskChanges ==
  /\ configured /\ Whim /\ mask' \in SUBSET Screens
  /\ UNCHANGED <<display, temp, configured, info, dirty>>

\* Data of a slot that is warm or hot.
InfoArrives ==
  /\ temp[Transit].base # "cold" /\ Whim
  /\ info' \in {"stops", "none"} /\ dirty' = TRUE
  /\ UNCHANGED <<display, temp, configured, mask>>

InfoDropped ==
  /\ temp[Transit].base = "cold" /\ info # "absent"
  /\ info' = "absent" /\ dirty' = FALSE
  /\ UNCHANGED <<display, temp, configured, mask, whims>>

-----------------------------------------------------------------------------
Rotation == ByClock \/ ByButton \/ EarlyPrepare \/ Tick \/ TimeJump

Buttons ==
  \/ \E m \in {"screen", "menu"} : Enter(m)
  \/ \E k \in Screens : Goto(k)
  \/ Interact \/ Leave \/ OverrideEnds \/ StartTetris \/ EndTetris

Servicer == ConfigArrives \/ MaskChanges \/ InfoArrives \/ InfoDropped

Next == Rotation \/ Buttons \/ DrawFinds \/ DrawRequests \/ Servicer

Spec == Init /\ [][Next]_vars

\* The display task draws forever, and time passes: what it finds due is done.
FairSpec ==
  /\ Spec
  /\ WF_vars(Tick) /\ WF_vars(ByClock) /\ WF_vars(EarlyPrepare)
  /\ WF_vars(Leave) /\ WF_vars(OverrideEnds) /\ WF_vars(DrawRequests)

-----------------------------------------------------------------------------
(* Properties                                                              *)

TypeOK ==
  /\ shown \in Screens /\ idx \in DOMAIN Timing
  /\ elapsed \in {"fresh", "soon", "due"} /\ mode \in {"none", "screen", "menu", "tetris"}
  /\ temp \in [Screens -> [base : Temps, extra : Temps]]
  /\ mask \subseteq Screens /\ info \in {"absent", "stops", "none"}
  /\ {informed, override, drawing, configured, dirty} \subseteq BOOLEAN
  /\ whims \in 0..MaxWhims

Playing == mode = "tetris"

\* The screen on show is never without its data: nothing that is asked for on
\* behalf of another screen, or of its own next turn, lets its slots go cold, and the
\* stops that the transit data name are asked for as soon as it has been looked at.
Kept ==
  ~Playing =>
    /\ temp[shown].base # "cold"
    /\ shown = Transit /\ info = "stops" /\ ~dirty /\ ~drawing => temp[shown].extra # "cold"

\* A screen that has gone leaves nothing behind but what its next turn is prepared
\* with: what interaction has asked for is let go however the screen went away.
Released ==
  \A k \in Screens : k # shown \/ Playing =>
    /\ "hot" \notin {temp[k].base, temp[k].extra}
    /\ k \in Interactive => temp[k].extra = "cold"

\* The rotation follows the list: every screen on it that stays enabled is shown
\* again and again, and one that is disabled for good goes away for good if there is
\* another, whatever buttons, menu and timeouts did; but for a game that is never left.
TakesTurns ==
  \/ <>[]Playing
  \/ /\ \A i \in DOMAIN Timing : <>[](configured /\ Timing[i] \in mask) => []<>(shown = Timing[i])
     /\ \A k \in Screens :
          <>[](k \notin mask /\ \E i \in DOMAIN Timing : Timing[i] \in mask) => <>[](shown # k)
=============================================================================
