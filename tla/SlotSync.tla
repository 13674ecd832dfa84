------------------------------ MODULE SlotSync ------------------------------
(***************************************************************************)
(* One slot of data shared by the ESP's data update manager                *)
(* (esp/main/dupm.cpp) and the display's servicer (stm/src/srv.cpp).       *)
(*                                                                         *)
(* A slot is a sequence of cells.  A cell is a region that both sides keep *)
(* as one block (merging blocks is the arena's business) of more than      *)
(* eight bytes, and it travels in two frames, so its content is a pair of  *)
(* halves.  What a half holds is the number of the write it came from; 0   *)
(* is whatever the memory held before.                                     *)
(*                                                                         *)
(* The update manager runs one request at a time and waits for each        *)
(* answer; everything that is not the answer it waits for goes to its      *)
(* request queue or is dropped (PacketHandoff looks inside that hand-off). *)
(* Other slots appear as what they make happen to this one: memory runs    *)
(* out, and cells are moved out, fetched back or evicted to make room.     *)
(***************************************************************************)
EXTENDS Integers, Sequences, FiniteSets

CONSTANTS
  MinSize,    \* the slot has MinSize or MinSize + 1 cells
  MaxWrites,  \* writes the application makes
  MaxResizes, \* size changes it asks for
  QueueLen,   \* requests the update manager's queue holds (16 in the code)
  Tries,      \* attempts of every retried exchange (3 or 4 in the code)
  MaxFaults,  \* packets the wire loses
  Lossy,      \* the kinds of packets it may lose
  Hasty,      \* the waits that may time out although the answer is under way
  Short,      \* where memory may run out: in the arena of the "esp" or the "display",
              \* or in the "budget" the ESP keeps of the display's memory
  Asks,       \* the temperatures the screens ask for
  MaxWire     \* packets on the way to the ESP when the display sends unasked

ASSUME SlotSyncAssumption ==
  /\ MinSize \in Nat /\ MaxWrites \in Nat /\ MaxResizes \in Nat
  /\ QueueLen \in Nat \ {0} /\ Tries \in Nat \ {0} /\ MaxFaults \in Nat
  /\ Short \subseteq {"esp", "budget", "display"}
  /\ Asks \subseteq {"cold", "warm", "hot"} /\ MaxWire \in Nat \ {0}

VARIABLES
  esp,      \* the ESP arena's cells of the slot
  espTemp,  \* their temperature, "none" if the arena has no block of the slot
  queue,    \* pending requests
  pc,       \* what the update manager is doing or waiting for
  job,      \* the local variables of that handler
  stm,      \* the display arena's cells of the slot
  stmTemp,
  err,      \* move_update_errcode
  request,  \* the display's active temperature request, or "none"
  sends,    \* times it was sent
  toStm, toEsp,                  \* the wire
  faults, writes, resizes,       \* how much of the bounds is used up
  due,      \* per cell, the last write that was to be shown (history)
  kept      \* per cell, the last write known to be stored (history)

espVars == <<esp, espTemp, pc, job>>
stmVars == <<stm, stmTemp, err, request, sends>>
appVars == <<writes, resizes>>
history == <<due, kept>>
vars == <<espVars, queue, stmVars, toStm, toEsp, faults, appVars, history>>

Sizes == {MinSize, MinSize + 1}
Cells == 1..(MinSize + 1)
Temps == {"cold", "warm", "hot"}
Junk == <<0, 0>>

Cell(l, d, x) == [loc |-> l, dirty |-> d, data |-> x]
NewRemote == Cell("remote", FALSE, Junk)
NoJob == [cell |-> 0, tries |-> 0, temp |-> "none", pass |-> 0, tight |-> FALSE,
          data |-> Junk, size |-> 0, grow |-> "no"]

\* The two frames of a store or fulfill of cell c.
FrameKinds == [store |-> <<"store1", "store2">>, fulfill |-> <<"fulfill1", "fulfill2">>]
Frames(of, c, x) ==
  <<[k |-> FrameKinds[of][1], cell |-> c, val |-> x[1]],
    [k |-> FrameKinds[of][2], cell |-> c, val |-> x[2]]>>
SizeMsg(n) == [k |-> "setSize", n |-> n]
TempMsg(t) == [k |-> "temp", temp |-> t]
AckTemp(t) == [k |-> "ackTemp", temp |-> t]

SendStm(ps) == toStm' = toStm \o ps
SendEsp(ps) == toEsp' = toEsp \o ps

\* The members of S in ascending order.
Ascending(S) == {s \in [1..Cardinality(S) -> S] :
                   \A i, j \in DOMAIN s : i < j => s[i] < s[j]}

Init ==
  /\ esp = [c \in 1..MinSize |-> Cell("canonical", FALSE, Junk)]
  /\ stm = [c \in 1..MinSize |-> NewRemote]
  /\ espTemp = IF MinSize = 0 THEN "none" ELSE "cold"
  /\ stmTemp = espTemp
  /\ queue = <<>> /\ pc = "idle" /\ job = NoJob
  /\ err = "ok" /\ request = "none" /\ sends = 0
  /\ toStm = <<>> /\ toEsp = <<>>
  /\ faults = 0 /\ writes = 0 /\ resizes = 0
  /\ due = [c \in Cells |-> 0] /\ kept = due

-----------------------------------------------------------------------------
(* The application                                                         *)

\* update_slot: a patch of one cell, marked to be shown or not.
Write(c, mark) ==
  /\ writes < MaxWrites /\ Len(queue) < QueueLen
  /\ writes' = writes + 1
  /\ queue' = Append(queue, [k |-> "patch", cell |-> c, val |-> writes', mark |-> mark])
  /\ UNCHANGED <<espVars, stmVars, toStm, toEsp, faults, resizes, history>>

\* trigger_update: show the slot's content again.
Trigger ==
  /\ \A i \in DOMAIN queue : queue[i].k # "trigger"
  /\ Len(queue) < QueueLen
  /\ queue' = Append(queue, [k |-> "trigger"])
  /\ UNCHANGED <<espVars, stmVars, toStm, toEsp, faults, appVars, history>>

\* allocate_slot_size
Resize(n) ==
  /\ resizes < MaxResizes /\ Len(queue) < QueueLen
  /\ resizes' = resizes + 1
  /\ queue' = Append(queue, [k |-> "size", n |-> n])
  /\ UNCHANGED <<espVars, stmVars, toStm, toEsp, faults, writes, history>>

-----------------------------------------------------------------------------
(* The update manager: waiting for an answer                               *)

Storing == {"patch", "heat", "move", "grow", "flush"}
Waiting == Storing \cup {"size", "undo", "retrieve", "frames"}

\* The filter of the wait the update manager is in.
Wanted(p) ==
  CASE pc = "flush" -> p.k = "ackFulfill" /\ p.cell = job.cell
    [] pc \in Storing \ {"flush"} -> p.k = "ackStore" /\ p.cell = job.cell
    [] pc \in {"size", "undo"} -> p.k = "ackSize" /\ p.n = job.size
    [] pc = "retrieve" -> p.k = "ackRetrieve" /\ p.cell = job.cell
    [] pc = "frames" -> p.k \in {"data1", "data2"}
    [] OTHER -> FALSE

Answered == toEsp # <<>> /\ Wanted(Head(toEsp)) /\ toEsp' = Tail(toEsp)

UnderWay == toStm # <<>> \/ \E i \in DOMAIN toEsp : Wanted(toEsp[i])

TimedOut == pc \in Waiting /\ (pc \in Hasty \/ ~UnderWay) /\ toEsp' = toEsp

\* What single_store_fulfill returns: the code of the answer, or a timeout.
Returns(o) ==
  \/ o = "timeout" /\ TimedOut
  \/ o # "timeout" /\ Answered /\ Head(toEsp).code = o

Outcomes == {"ok", "invalid", "illegal", "again", "failed", "timeout"}

\* A packet that is not the answer: process_packet queues it (a full queue drops
\* it) or ignores it.
Route ==
  /\ toEsp # <<>> /\ ~Wanted(Head(toEsp))
  /\ LET p == Head(toEsp) IN
       queue' = IF p.k \in {"askTemp", "request"} /\ Len(queue) < QueueLen
                THEN Append(queue, p) ELSE queue
  /\ toEsp' = Tail(toEsp)
  /\ UNCHANGED <<espVars, stmVars, toStm, faults, appVars, history>>

Wait(what, j) == pc' = what /\ job' = j
Finish == pc' = "idle" /\ job' = NoJob
\* Variant for mutation: a retry sends the placeholder instead of the patch.
Data_Block == IF pc = "grow" THEN Junk ELSE esp[job.cell].data
Data == IF pc = "patch" THEN job.data ELSE IF pc = "grow" THEN Junk ELSE esp[job.cell].data

\* Every retry loop around single_store_fulfill: another attempt after a timeout
\* or a plea for time.  In change_size_handler the break of the failure cases
\* only leaves the switch, so every failure is tried again.
Resend ==
  /\ pc \in Storing /\ job.tries < Tries
  /\ \E o \in Outcomes \ {"ok"} :
       /\ o \in {"again", "timeout"} \/ pc = "grow"
       /\ Returns(o)
       /\ Wait(pc, [job EXCEPT !.tries = @ + 1, !.tight = @ \/ (pc = "flush" /\ o = "again")])
  /\ SendStm(Frames(IF pc = "flush" THEN "fulfill" ELSE "store", job.cell, Data))
  /\ UNCHANGED <<esp, espTemp, queue, stmVars, faults, appVars, history>>

\* The loop is over: it was stored, it cannot be, or it was tried often enough.
Ends(o) ==
  /\ Returns(o)
  /\ o \in {"again", "timeout"} \/ (pc = "grow" /\ o # "ok") => job.tries >= Tries

-----------------------------------------------------------------------------
(* send_pending_dirty_blocks                                               *)

\* A sync request, or the queue stayed empty for a while.
StartFlush ==
  /\ pc = "idle"
  /\ \E c \in DOMAIN esp : esp[c].dirty
  /\ Wait("sweep", [NoJob EXCEPT !.cell = 1])
  /\ UNCHANGED <<esp, espTemp, queue, stmVars, toStm, toEsp, faults, appVars, history>>

Sendable(c) ==
  /\ esp[c].loc = "canonical" /\ esp[c].dirty
  /\ espTemp \in (IF job.pass = 0 THEN {"hot"} ELSE {"hot", "warm"})

\* The next block of this pass to send, the next pass, or the end.
Sweep ==
  /\ pc = "sweep"
  /\ LET todo == {c \in DOMAIN esp : c >= job.cell /\ Sendable(c)}
         c == CHOOSE x \in todo : \A y \in todo : x <= y IN
       \/ /\ todo # {}
          /\ Wait("flush", [job EXCEPT !.cell = c, !.tries = 1, !.tight = FALSE])
          /\ SendStm(Frames("fulfill", c, esp[c].data))
       \/ /\ todo = {} /\ job.pass = 0
          /\ Wait("sweep", [job EXCEPT !.pass = 1, !.cell = 1])
          /\ UNCHANGED toStm
       \/ /\ todo = {} /\ job.pass = 1
          /\ Finish
          /\ UNCHANGED toStm
  /\ UNCHANGED <<esp, espTemp, queue, stmVars, toEsp, faults, appVars, history>>

FlushEnds ==
  /\ pc = "flush"
  /\ \E o \in Outcomes :
       /\ Ends(o)
       /\ LET full == job.tight \/ o \in {"again", "failed"} IN
            \/ /\ o = "ok"
               /\ esp' = [esp EXCEPT ![job.cell].dirty = FALSE]
               /\ UNCHANGED <<espTemp, toStm>>
            \/ /\ o # "ok" /\ full /\ espTemp = "warm"
               /\ espTemp' = IF o = "failed" THEN "cold" ELSE "wants"
               /\ SendStm(<<TempMsg("cold")>>)
               /\ esp' = esp
            \/ /\ o # "ok" /\ ~(full /\ espTemp = "warm")
               /\ UNCHANGED <<esp, espTemp, toStm>>
  /\ Wait("sweep", [job EXCEPT !.cell = @ + 1, !.tries = 0, !.tight = FALSE])
  /\ UNCHANGED <<queue, stmVars, faults, appVars, history>>

-----------------------------------------------------------------------------
(* patch_handler, mark_dirty_handler                                       *)

Next1(k) == pc = "idle" /\ queue # <<>> /\ Head(queue).k = k /\ queue' = Tail(queue)

\* A patch goes into a local block at once and is stored directly in a remote one.
Patch ==
  /\ Next1("patch")
  /\ LET r == Head(queue) IN
       \/ /\ r.cell \notin DOMAIN esp
          /\ UNCHANGED <<espVars, toStm, history>>
       \/ /\ r.cell \in DOMAIN esp /\ esp[r.cell].loc # "remote"
          /\ esp' = [esp EXCEPT ![r.cell].data = <<r.val, r.val>>,
                                ![r.cell].dirty = @ \/ r.mark]
          /\ due' = IF r.mark THEN [due EXCEPT ![r.cell] = r.val] ELSE due
          /\ kept' = [kept EXCEPT ![r.cell] = r.val]
          /\ UNCHANGED <<espTemp, pc, job, toStm>>
       \/ /\ r.cell \in DOMAIN esp /\ esp[r.cell].loc = "remote"
          /\ Wait("patch", [NoJob EXCEPT !.cell = r.cell, !.tries = 1, !.data = <<r.val, r.val>>])
          /\ SendStm(Frames("store", r.cell, <<r.val, r.val>>))
          /\ UNCHANGED <<esp, espTemp, history>>
  /\ UNCHANGED <<stmVars, toEsp, faults, appVars>>

PatchEnds ==
  /\ pc = "patch"
  /\ \E o \in Outcomes :
       /\ Ends(o)
       /\ kept' = IF o = "ok" THEN [kept EXCEPT ![job.cell] = job.data[1]] ELSE kept
  /\ Finish
  /\ UNCHANGED <<esp, espTemp, queue, stmVars, toStm, faults, appVars, due>>

\* Variant for mutation: the condition on the location is inverted.
Triggered_Remote ==
  /\ Next1("trigger")
  /\ LET here == {c \in DOMAIN esp : esp[c].loc # "remote"} IN
       /\ esp' = [c \in DOMAIN esp |-> [esp[c] EXCEPT !.dirty = @ \/ c \notin here]]
       /\ due' = [c \in Cells |-> IF c \in here THEN esp[c].data[1] ELSE due[c]]
  /\ UNCHANGED <<espTemp, pc, job, stmVars, toStm, toEsp, faults, appVars, kept>>

\* trigger_update_handler
Triggered ==
  /\ Next1("trigger")
  /\ LET here == {c \in DOMAIN esp : esp[c].loc # "remote"} IN
       /\ esp' = [c \in DOMAIN esp |-> [esp[c] EXCEPT !.dirty = @ \/ c \in here]]
       /\ due' = [c \in Cells |-> IF c \in here THEN esp[c].data[1] ELSE due[c]]
  /\ UNCHANGED <<espTemp, pc, job, stmVars, toStm, toEsp, faults, appVars, kept>>

\* The display asks for a cell.  A clean warm block is given up on: it would be
\* asked for for ever.
MarkDirty ==
  /\ Next1("request")
  /\ LET c == Head(queue).cell IN
       \/ /\ c \in DOMAIN esp /\ esp[c].loc = "canonical" /\ espTemp = "warm" /\ ~esp[c].dirty
          /\ espTemp' = "wants"
          /\ SendStm(<<TempMsg("cold")>>)
          /\ esp' = esp
       \/ /\ c \in DOMAIN esp /\ esp[c].loc = "canonical" /\ (espTemp # "warm" \/ esp[c].dirty)
          /\ esp' = [esp EXCEPT ![c].dirty = TRUE]
          /\ UNCHANGED <<espTemp, toStm>>
       \/ /\ ~(c \in DOMAIN esp /\ esp[c].loc = "canonical")
          /\ UNCHANGED <<esp, espTemp, toStm>>
  /\ UNCHANGED <<pc, job, stmVars, toEsp, faults, appVars, history>>

-----------------------------------------------------------------------------
(* set_temp_handler                                                        *)

SomeRemote == \E c \in DOMAIN esp : esp[c].loc = "remote"

\* The display sets the temperature.  An absent slot gets an empty block first.
\* Coming from below, a warmer slot needs room on the display; when the slot is
\* partly on the display already, the rest follows before the change is made.
SetTemp ==
  /\ Next1("askTemp")
  /\ LET t == Head(queue).temp
         old == IF espTemp = "none" THEN "cold" ELSE espTemp
         needsRoom == (t = "hot" /\ old \in {"cold", "wants"}) \/ (t = "warm" /\ old # "hot") IN
       \/ /\ "esp" \in Short /\ espTemp = "none"
          /\ SendStm(<<AckTemp("nak")>>)
          /\ UNCHANGED <<espTemp, pc, job>>
       \/ /\ t = old \/ t = "cold" \/ ~SomeRemote
          /\ espTemp' = t
          /\ SendStm(<<AckTemp(t)>>)
          /\ UNCHANGED <<pc, job>>
       \/ /\ "budget" \in Short /\ t # old /\ needsRoom
          /\ espTemp' = IF t = "warm" THEN "wants" ELSE old
          /\ SendStm(<<AckTemp("nak")>>)
          /\ UNCHANGED <<pc, job>>
       \/ /\ t # old /\ t # "cold" /\ SomeRemote
          /\ espTemp' = old
          /\ SendStm(<<AckTemp(t)>>)
          /\ Wait("heating", [NoJob EXCEPT !.temp = t, !.cell = 1])
  /\ UNCHANGED <<esp, stmVars, toEsp, faults, appVars, history>>

\* The loop over the blocks that are not on the display yet.
Heating ==
  /\ pc = "heating"
  /\ LET todo == {c \in DOMAIN esp : c >= job.cell /\ esp[c].loc # "remote"}
         c == CHOOSE x \in todo : \A y \in todo : x <= y IN
       \/ /\ todo # {}
          /\ Wait("heat", [job EXCEPT !.cell = c, !.tries = 1])
          /\ SendStm(Frames("store", c, esp[c].data))
          /\ espTemp' = espTemp
       \/ /\ todo = {}
          /\ espTemp' = job.temp
          /\ Finish
          /\ UNCHANGED toStm
  /\ UNCHANGED <<esp, queue, stmVars, toEsp, faults, appVars, history>>

Ship(c) == [esp EXCEPT ![c].loc = "remote", ![c].data = Junk]

HeatEnds ==
  /\ pc = "heat"
  /\ \E o \in Outcomes :
       /\ Ends(o)
       /\ \/ /\ o = "ok"
             /\ esp' = [Ship(job.cell) EXCEPT ![job.cell].dirty = FALSE]
             /\ Wait("heating", [job EXCEPT !.cell = @ + 1, !.tries = 0])
             /\ UNCHANGED <<espTemp, toStm>>
          \/ /\ o \in {"again", "timeout"}
             /\ Wait("heating", [job EXCEPT !.cell = @ + 1, !.tries = 0])
             /\ UNCHANGED <<esp, espTemp, toStm>>
          \/ /\ o = "failed" /\ job.temp = "warm"
             /\ espTemp' = "wants"
             /\ SendStm(<<TempMsg("cold")>>)
             /\ Finish /\ esp' = esp
          \/ /\ o \in {"invalid", "illegal"} \/ (o = "failed" /\ job.temp = "hot")
             /\ Finish
             /\ UNCHANGED <<esp, espTemp, toStm>>
  /\ UNCHANGED <<queue, stmVars, faults, appVars, history>>

-----------------------------------------------------------------------------
(* change_size_handler                                                     *)

\* An empty cold slot has no block left.
Emptied(cells, t) == IF cells = <<>> /\ t = "cold" THEN "none" ELSE t
Present == IF espTemp = "none" THEN "cold" ELSE espTemp

Cut(h, n) == [c \in Cells |-> IF c <= n THEN h[c] ELSE 0]

\* Shrinking truncates; the room gained may let the slot be warm again.  Growing
\* needs room on the display when the slot is shown, and goes to the display
\* when the slot is partly there or the ESP has no room.
Shrink ==
  /\ Next1("size")
  /\ LET n == Head(queue).n IN
       /\ n < Len(esp)
       /\ esp' = SubSeq(esp, 1, n)
       /\ due' = Cut(due, n) /\ kept' = Cut(kept, n)
       /\ Wait("size", [NoJob EXCEPT !.size = n, !.tries = 1, !.grow = "done"])
       /\ \/ /\ espTemp' = Emptied(esp', espTemp)
             /\ SendStm(<<SizeMsg(n)>>)
          \/ /\ espTemp = "wants" /\ espTemp' = "warm"
             /\ SendStm(<<TempMsg("warm"), SizeMsg(n)>>)
  /\ UNCHANGED <<stmVars, toEsp, faults, appVars>>

Grow ==
  /\ Next1("size")
  /\ LET n == Head(queue).n
         remote == espTemp \in {"warm", "hot"} /\ SomeRemote
         place == IF remote THEN "remote" ELSE "local"
         ask(how) == Wait("size", [NoJob EXCEPT !.size = n, !.tries = 1, !.grow = how]) IN
       /\ n > Len(esp)
       /\ \/ /\ "budget" \in Short /\ espTemp = "hot"
             /\ UNCHANGED <<espVars, toStm>>
          \/ /\ ~remote
             /\ esp' = Append(esp, Cell("canonical", FALSE, Junk))
             /\ espTemp' = Present
             /\ ask("done")
             /\ SendStm(<<SizeMsg(n)>>)
          \/ /\ remote \/ "esp" \in Short
             /\ ask(place)
             /\ SendStm(<<SizeMsg(n)>>)
             /\ UNCHANGED <<esp, espTemp>>
          \/ /\ "budget" \in Short /\ espTemp = "warm" /\ espTemp' = "wants"
             /\ \/ ~remote /\ ask("done") /\ esp' = Append(esp, Cell("canonical", FALSE, Junk))
                \/ (remote \/ "esp" \in Short) /\ ask(place) /\ esp' = esp
             /\ SendStm(<<TempMsg("cold"), SizeMsg(n)>>)
  /\ UNCHANGED <<stmVars, toEsp, faults, appVars, history>>

SameSize ==
  /\ Next1("size") /\ Head(queue).n = Len(esp)
  /\ UNCHANGED <<espVars, stmVars, toStm, toEsp, faults, appVars, history>>

\* What perform_warm_ephemeral_reclaim picks.
Demotable ==
  /\ "budget" \in Short /\ espTemp = "warm"
  /\ \E c \in DOMAIN esp : esp[c].loc # "remote"

SizeResend ==
  /\ pc \in {"size", "undo"} /\ TimedOut /\ job.tries < Tries
  /\ Wait(pc, [job EXCEPT !.tries = @ + 1])
  /\ SendStm(<<SizeMsg(job.size)>>)
  /\ UNCHANGED <<esp, espTemp, queue, stmVars, faults, appVars, history>>

\* Variant for mutation: one attempt fewer.
SizeGivenUp_Early ==
  /\ pc \in {"size", "undo"} /\ TimedOut /\ job.tries + 1 >= Tries
  /\ Finish
  /\ UNCHANGED <<esp, espTemp, queue, stmVars, toStm, faults, appVars, history>>

SizeGivenUp ==
  /\ pc \in {"size", "undo"} /\ TimedOut /\ job.tries >= Tries
  /\ Finish
  /\ UNCHANGED <<esp, espTemp, queue, stmVars, toStm, faults, appVars, history>>

\* The display agreed to the size.  What could not be allocated here is now
\* placed there (to make room the slot itself may have to stop being warm), or
\* here after all once duplicates are gone, or nowhere.
SizeAgreed ==
  /\ pc \in {"size", "undo"} /\ Answered
  /\ \/ /\ pc = "undo" \/ job.grow = "done" \/ Short \cap {"esp", "budget"} # {}
        /\ Finish
        /\ UNCHANGED <<esp, espTemp, toStm>>
     \/ /\ pc = "size" /\ job.grow = "local" /\ "budget" \in Short
        /\ esp' = Append(esp, Cell("canonical", FALSE, Junk))
        /\ espTemp' = Present
        /\ Finish
        /\ UNCHANGED toStm
     \/ /\ pc = "size" /\ job.grow # "done"
        /\ esp' = Append(esp, Cell("remote", FALSE, Junk))
        /\ Wait("grow", [job EXCEPT !.cell = Len(esp) + 1, !.tries = 1])
        /\ LET store == Frames("store", Len(esp) + 1, Junk) IN
             \/ espTemp' = Present /\ SendStm(store)
             \/ /\ Demotable /\ espTemp' = "wants"
                /\ SendStm(<<TempMsg("cold")>> \o store)
  /\ UNCHANGED <<queue, stmVars, faults, appVars, history>>

GrowEnds ==
  /\ pc = "grow"
  /\ \E o \in Outcomes :
       /\ Ends(o)
       /\ \/ /\ o = "ok" /\ Finish
             /\ UNCHANGED <<esp, espTemp, toStm>>
          \/ /\ o # "ok"
             /\ esp' = SubSeq(esp, 1, job.cell - 1)
             /\ espTemp' = Emptied(esp', espTemp)
             /\ Wait("undo", [job EXCEPT !.size = job.cell - 1, !.tries = 1])
             /\ SendStm(<<SizeMsg(job.cell - 1)>>)
  /\ UNCHANGED <<queue, stmVars, faults, appVars, history>>

-----------------------------------------------------------------------------
(* What the handlers of other slots do to this one when memory is short     *)

\* perform_warm_ephemeral_reclaim
Demote ==
  /\ pc = "idle" /\ Demotable /\ Len(toStm) < MaxWire
  /\ espTemp' = "wants"
  /\ SendStm(<<TempMsg("cold")>>)
  /\ UNCHANGED <<esp, pc, job, queue, stmVars, toEsp, faults, appVars, history>>

\* try_reclaim_supressed_warm.  set_temp_handler then finds the temperature
\* already set and returns.
Reinstate ==
  /\ pc = "idle" /\ espTemp = "wants" /\ Len(toStm) < MaxWire
  /\ espTemp' = "warm"
  /\ SendStm(<<TempMsg("warm")>>)
  /\ UNCHANGED <<esp, pc, job, queue, stmVars, toEsp, faults, appVars, history>>

\* move_block_to_stm
MoveOut(c) ==
  /\ "esp" \in Short /\ pc = "idle" /\ espTemp # "wants"
  /\ esp[c].loc = "canonical"
  /\ Wait("move", [NoJob EXCEPT !.cell = c, !.tries = 1])
  /\ SendStm(Frames("store", c, esp[c].data))
  /\ UNCHANGED <<esp, espTemp, queue, stmVars, toEsp, faults, appVars, history>>

\* Variant for mutation: a timeout counts as stored.
MoveEnds_Hope ==
  /\ pc = "move"
  /\ \E o \in Outcomes :
       /\ Ends(o)
       /\ esp' = IF o \in {"ok", "timeout"} THEN Ship(job.cell) ELSE esp
  /\ Finish
  /\ UNCHANGED <<espTemp, queue, stmVars, toStm, faults, appVars, history>>

MoveEnds ==
  /\ pc = "move"
  /\ \E o \in Outcomes :
       /\ Ends(o)
       /\ esp' = IF o = "ok" THEN Ship(job.cell) ELSE esp
  /\ Finish
  /\ UNCHANGED <<espTemp, queue, stmVars, toStm, faults, appVars, history>>

\* perform_cold_remote_reclaim: make room here, ask for the data ...
Reclaim(c) ==
  /\ "budget" \in Short /\ pc = "idle" /\ espTemp \in {"cold", "wants"} /\ esp[c].loc = "remote"
  /\ esp' = [esp EXCEPT ![c].loc = "canonical"]
  /\ Wait("retrieve", [NoJob EXCEPT !.cell = c])
  /\ SendStm(<<[k |-> "retrieve", cell |-> c]>>)
  /\ UNCHANGED <<espTemp, queue, stmVars, toEsp, faults, appVars, history>>

\* ... wait for the display's acknowledgement ...
RetrieveAcked ==
  /\ pc = "retrieve" /\ Answered
  /\ Wait("frames", job)
  /\ UNCHANGED <<esp, espTemp, queue, stmVars, toStm, faults, appVars, history>>

RetrieveTimeout ==
  /\ pc = "retrieve" /\ TimedOut
  /\ Finish
  /\ UNCHANGED <<esp, espTemp, queue, stmVars, toStm, faults, appVars, history>>

\* ... and take frames of the slot, whatever their place, up to one marked last.
\* (Packets keep their order, so what is left of an earlier retrieve is gone.)
Frame ==
  /\ pc = "frames" /\ Answered
  /\ LET p == Head(toEsp)
         half == IF p.k = "data1" THEN 1 ELSE 2 IN
       /\ esp' = [esp EXCEPT ![p.cell].data[half] = p.val, ![p.cell].dirty = TRUE]
       /\ \/ half = 1 /\ UNCHANGED <<pc, job, toStm>>
          \/ half = 2 /\ Finish /\ SendStm(<<[k |-> "ackData", cell |-> job.cell]>>)
  /\ UNCHANGED <<espTemp, queue, stmVars, faults, appVars, history>>

\* Variant for mutation: what came of the data is kept.
FrameTimeout_Keep ==
  /\ pc = "frames" /\ TimedOut
  /\ esp' = esp
  /\ Finish
  /\ UNCHANGED <<espTemp, queue, stmVars, toStm, faults, appVars, history>>

FrameTimeout ==
  /\ pc = "frames" /\ TimedOut
  /\ esp' = Ship(job.cell)
  /\ Finish
  /\ UNCHANGED <<espTemp, queue, stmVars, toStm, faults, appVars, history>>

-----------------------------------------------------------------------------
(* The display's servicer                                                  *)

Got(k) == toStm # <<>> /\ Head(toStm).k = k /\ toStm' = Tail(toStm)

\* Variant for mutation: the code of the last update is not reset.
FirstFrame_KeepErr(of) ==
  /\ Got(FrameKinds[of][1])
  /\ LET p == Head(toStm)
         place == IF of = "store" THEN "canonical" ELSE "ephemeral" IN
       \/ /\ p.cell \notin DOMAIN stm
          /\ err' = "invalid" /\ stm' = stm
       \/ /\ p.cell \in DOMAIN stm /\ stm[p.cell].loc = "remote" /\ "display" \in Short
          /\ err' \in {"again", "failed"} /\ stm' = stm
       \/ /\ p.cell \in DOMAIN stm
          /\ err' = err
          /\ stm' = [stm EXCEPT ![p.cell].loc = place, ![p.cell].data[1] = p.val,
                                ![p.cell].dirty = TRUE]
  /\ UNCHANGED <<espVars, queue, stmTemp, request, sends, toEsp, faults, appVars, history>>

\* The first frame of a store or fulfill makes the region canonical or ephemeral,
\* for which a remote one needs room, and decides what the acknowledgement says.
FirstFrame(of) ==
  /\ Got(FrameKinds[of][1])
  /\ LET p == Head(toStm)
         place == IF of = "store" THEN "canonical" ELSE "ephemeral" IN
       \/ /\ p.cell \notin DOMAIN stm
          /\ err' = "invalid" /\ stm' = stm
       \/ /\ p.cell \in DOMAIN stm /\ stm[p.cell].loc = "remote" /\ "display" \in Short
          /\ err' \in {"again", "failed"} /\ stm' = stm
       \/ /\ p.cell \in DOMAIN stm
          /\ err' = "ok"
          /\ stm' = [stm EXCEPT ![p.cell].loc = place, ![p.cell].data[1] = p.val,
                                ![p.cell].dirty = TRUE]
  /\ UNCHANGED <<espVars, queue, stmTemp, request, sends, toEsp, faults, appVars, history>>

\* The last one fills in the rest and acknowledges.
LastFrame(of) ==
  /\ Got(FrameKinds[of][2])
  /\ LET p == Head(toStm)
         place == IF of = "store" THEN "canonical" ELSE "ephemeral"
         fits == p.cell \in DOMAIN stm /\ stm[p.cell].loc = place IN
       /\ err' = IF err = "ok" /\ ~fits THEN "illegal" ELSE err
       /\ stm' = IF err = "ok" /\ fits
                 THEN [stm EXCEPT ![p.cell].data[2] = p.val, ![p.cell].dirty = TRUE]
                 ELSE stm
       /\ SendEsp(<<[k |-> IF of = "store" THEN "ackStore" ELSE "ackFulfill",
                     cell |-> p.cell, code |-> err']>>)
  /\ UNCHANGED <<espVars, queue, stmTemp, request, sends, faults, appVars, history>>

\* DATA_SET_SIZE.  Without room for the placeholder there is no answer.
SetSize ==
  /\ Got("setSize")
  /\ LET n == Head(toStm).n IN
       \/ /\ "display" \in Short /\ n > Len(stm)
          /\ UNCHANGED <<stm, stmTemp, toEsp>>
       \/ /\ stm' = [c \in 1..n |-> IF c <= Len(stm) THEN stm[c] ELSE NewRemote]
          /\ stmTemp' = IF n > Len(stm) /\ stmTemp = "none" THEN "cold" ELSE
                        IF n < Len(stm) THEN Emptied(stm', stmTemp) ELSE stmTemp
          /\ SendEsp(<<[k |-> "ackSize", n |-> n]>>)
  /\ UNCHANGED <<espVars, queue, err, request, sends, faults, appVars, history>>

\* DATA_TEMP: the ESP changed the temperature.  (It ignores the answer.)
TempInformed ==
  /\ Got("temp")
  /\ stmTemp' = IF stmTemp = "none" THEN "none" ELSE Head(toStm).temp
  /\ UNCHANGED <<espVars, queue, stm, err, request, sends, toEsp, faults, appVars, history>>

\* ACK_DATA_TEMP ends whatever request is active.
TempAcked ==
  /\ Got("ackTemp")
  /\ stmTemp' = IF Head(toStm).temp = "nak" THEN stmTemp ELSE Head(toStm).temp
  /\ request' = "none" /\ sends' = 0
  /\ UNCHANGED <<espVars, queue, stm, err, toEsp, faults, appVars, history>>

\* DATA_RETRIEVE: an acknowledgement and the data, if all of it is here.
Retrieved ==
  /\ Got("retrieve")
  /\ LET c == Head(toStm).cell IN
       \/ /\ c \in DOMAIN stm /\ stm[c].loc = "canonical"
          /\ SendEsp(<<[k |-> "ackRetrieve", cell |-> c],
                     [k |-> "data1", cell |-> c, val |-> stm[c].data[1]],
                     [k |-> "data2", cell |-> c, val |-> stm[c].data[2]]>>)
       \/ /\ ~(c \in DOMAIN stm /\ stm[c].loc = "canonical")
          /\ UNCHANGED toEsp
  /\ UNCHANGED <<espVars, queue, stmVars, faults, appVars, history>>

\* ACK_DATA_STORE: the ESP has the data back.
DataAcked ==
  /\ Got("ackData")
  /\ LET c == Head(toStm).cell IN
       stm' = IF c \in DOMAIN stm
              THEN [stm EXCEPT ![c].loc = "remote", ![c].data = Junk] ELSE stm
  /\ UNCHANGED <<espVars, queue, stmTemp, err, request, sends, toEsp, faults, appVars, history>>

\* Variant for mutation: what was asked for is not marked again.
SendDataRequests_Once ==
  /\ toStm = <<>> /\ Len(toEsp) < MaxWire /\ request = "none"
  /\ \E asked \in Ascending({c \in DOMAIN stm : stm[c].loc = "remote" /\ stm[c].dirty}) :
       /\ asked # <<>>
       /\ stm' = [c \in DOMAIN stm |->
                    IF stm[c].loc = "remote" THEN [stm[c] EXCEPT !.dirty = FALSE] ELSE stm[c]]
       /\ SendEsp([i \in DOMAIN asked |-> [k |-> "request", cell |-> asked[i]]])
  /\ UNCHANGED <<espVars, queue, stmTemp, err, request, sends, toStm, faults, appVars, history>>

\* send_data_requests: ask for the dirty remote cells, then mark the ones that
\* are to be shown so that they are asked for again.
SendDataRequests ==
  /\ toStm = <<>> /\ Len(toEsp) < MaxWire /\ request = "none"
  /\ \E asked \in Ascending({c \in DOMAIN stm : stm[c].loc = "remote" /\ stm[c].dirty}) :
       /\ stm' = [c \in DOMAIN stm |->
                    IF stm[c].loc = "remote"
                    THEN [stm[c] EXCEPT !.dirty = stmTemp \in {"warm", "hot"}] ELSE stm[c]]
       /\ stm' # stm \/ asked # <<>>
       /\ SendEsp([i \in DOMAIN asked |-> [k |-> "request", cell |-> asked[i]]])
  /\ UNCHANGED <<espVars, queue, stmTemp, err, request, sends, toStm, faults, appVars, history>>

\* try_cleanup_heap: an ephemeral cell that is not hot makes room.
Evict(c) ==
  /\ "display" \in Short /\ Len(toEsp) < MaxWire
  /\ stm[c].loc = "ephemeral" /\ stmTemp \in {"cold", "warm"}
  /\ stm' = [stm EXCEPT ![c].loc = "remote", ![c].data = Junk]
  /\ SendEsp(<<[k |-> "request", cell |-> c]>>)
  /\ UNCHANGED <<espVars, queue, stmTemp, err, request, sends, toStm, faults, appVars, history>>

NeedsTemp(t) == stmTemp # t /\ ~(stmTemp = "none" /\ t = "cold")

\* set_temperature: a screen that wants the slot makes it warm or hot.
AskTemp(t) ==
  /\ request = "none" /\ Len(toEsp) < MaxWire /\ NeedsTemp(t)
  /\ request' = t /\ sends' = 1
  /\ SendEsp(<<[k |-> "askTemp", temp |-> t]>>)
  /\ UNCHANGED <<espVars, queue, stm, stmTemp, err, toStm, faults, appVars, history>>

\* No packet came for a while: the request is sent again, or given up.
AskAgain ==
  /\ request # "none" /\ toStm = <<>> /\ Len(toEsp) < MaxWire
  /\ \/ /\ sends < 3 /\ NeedsTemp(request)
        /\ sends' = sends + 1 /\ request' = request
        /\ SendEsp(<<[k |-> "askTemp", temp |-> request]>>)
     \/ /\ sends = 3 \/ ~NeedsTemp(request)
        /\ request' = "none" /\ sends' = 0
        /\ UNCHANGED toEsp
  /\ UNCHANGED <<espVars, queue, stm, stmTemp, err, toStm, faults, appVars, history>>

-----------------------------------------------------------------------------
(* The wire carries packets in order and may lose one.                     *)

LoseToStm ==
  /\ faults < MaxFaults /\ toStm # <<>> /\ Head(toStm).k \in Lossy
  /\ toStm' = Tail(toStm) /\ faults' = faults + 1
  /\ UNCHANGED <<espVars, queue, stmVars, toEsp, appVars, history>>

LoseToEsp ==
  /\ faults < MaxFaults /\ toEsp # <<>> /\ Head(toEsp).k \in Lossy
  /\ toEsp' = Tail(toEsp) /\ faults' = faults + 1
  /\ UNCHANGED <<espVars, queue, stmVars, toStm, appVars, history>>

-----------------------------------------------------------------------------
App == \/ \E c \in Cells, m \in BOOLEAN : Write(c, m)
       \/ \E n \in Sizes : Resize(n)
       \/ Trigger

\* What the update manager does once it has begun or has been asked to.
Handle ==
  \/ Resend \/ Sweep \/ FlushEnds \/ Patch \/ PatchEnds \/ Triggered \/ MarkDirty
  \/ SetTemp \/ Heating \/ HeatEnds
  \/ Shrink \/ Grow \/ SameSize \/ SizeResend \/ SizeGivenUp \/ SizeAgreed \/ GrowEnds
  \/ MoveEnds \/ RetrieveAcked \/ RetrieveTimeout \/ Frame \/ FrameTimeout

\* What other slots make it do.
Pressure == Demote \/ Reinstate \/ \E c \in DOMAIN esp : MoveOut(c) \/ Reclaim(c)

\* The display's answers to packets.
Receive ==
  \/ \E of \in {"store", "fulfill"} : FirstFrame(of) \/ LastFrame(of)
  \/ SetSize \/ TempInformed \/ TempAcked \/ Retrieved \/ DataAcked

\* What it does of its own accord.
Poll == SendDataRequests \/ AskAgain
Screens == (\E c \in DOMAIN stm : Evict(c)) \/ (\E t \in Asks : AskTemp(t))

Next == \/ App \/ Route \/ Handle \/ StartFlush \/ Pressure
        \/ Receive \/ Poll \/ Screens \/ LoseToStm \/ LoseToEsp

Spec == Init /\ [][Next]_vars

\* The tasks run: the receiver, the update manager and the display's servicer.
\* Now and then the manager's queue stays empty for 50 ms, which flushes, and the
\* display gets no packet for 400 ms and has no request in hand, which polls.
FairSpec ==
  /\ Spec
  /\ WF_vars(Route) /\ WF_vars(Handle) /\ WF_vars(Receive) /\ WF_vars(AskAgain)
  /\ SF_vars(StartFlush) /\ SF_vars(SendDataRequests)

-----------------------------------------------------------------------------
(* Properties                                                              *)

CellOK(x) == /\ x.loc \in {"canonical", "ephemeral", "remote"} /\ x.dirty \in BOOLEAN
             /\ x.data \in (0..MaxWrites) \X (0..MaxWrites)

\* Every variable has its type; the request queue stays within its length.
TypeOK ==
  /\ Len(esp) \in Sizes /\ \A c \in DOMAIN esp : CellOK(esp[c])
  /\ Len(stm) \in Sizes /\ \A c \in DOMAIN stm : CellOK(stm[c])
  /\ espTemp \in Temps \cup {"none", "wants"} /\ stmTemp \in Temps \cup {"none"}
  /\ Len(queue) <= QueueLen
  /\ pc \in Waiting \cup {"idle", "sweep", "heating"}
  /\ err \in Outcomes \ {"timeout"}
  /\ request \in Temps \cup {"none"} /\ sends \in 0..3
  /\ faults \in 0..MaxFaults /\ writes \in 0..MaxWrites /\ resizes \in 0..MaxResizes
  /\ due \in [Cells -> 0..MaxWrites] /\ kept \in [Cells -> 0..MaxWrites]

\* Somebody has the data: whenever the update manager has only a placeholder for
\* a cell, the display has it canonically (move_block_to_stm, set_temp_handler and
\* the reclaim give a copy up only once the other side has acknowledged).  The
\* cell that change_size_handler is placing on the display is being created.
Custody ==
  \A c \in DOMAIN esp \cap DOMAIN stm :
    esp[c].loc = "remote" /\ ~(pc = "grow" /\ job.cell = c) => stm[c].loc = "canonical"

Quiet == pc = "idle" /\ toStm = <<>>

\* What the update manager believes shown is shown: when it is at rest and has
\* cleared a cell's dirty flag, a copy on the display is no older than the last
\* write that was to be shown (send_pending_dirty_blocks).
CleanShown ==
  Quiet =>
    \A c \in DOMAIN esp \cap DOMAIN stm :
      esp[c].loc = "canonical" /\ ~esp[c].dirty /\ stm[c].loc = "ephemeral"
        => \A h \in 1..2 : stm[c].data[h] >= due[c]

\* No write is lost on its way from one side to the other: when the manager is at
\* rest, whoever has the cell canonically has one whole write, and none older than
\* the last one that was applied here or acknowledged by the display.
Intact ==
  Quiet =>
    \A c \in DOMAIN esp \cap DOMAIN stm :
      LET x == IF esp[c].loc = "remote" THEN stm[c].data ELSE esp[c].data IN
      x[1] = x[2] /\ x[1] >= kept[c]

\* The display never keeps half an update: while the halves of a cell differ, the
\* frame that completes it is on its way.
Whole ==
  \A c \in DOMAIN stm :
    stm[c].loc # "remote" /\ stm[c].data[1] # stm[c].data[2] =>
      \E i \in DOMAIN toStm : toStm[i].k \in {"store2", "fulfill2"} /\ toStm[i].cell = c

\* At rest the two sides agree on the size of the slot (DATA_SET_SIZE: "it is
\* illegal to not have this complete succesfully").
SizesAgree == Quiet => Len(esp) = Len(stm)

\* What the screens see never goes back to an older write: no retry, no late
\* packet and no move between the sides replaces newer content by older.
NotBack ==
  \A c \in DOMAIN stm \cap DOMAIN stm' :
    stm[c].loc # "remote" /\ stm'[c].loc # "remote"
      => \A h \in 1..2 : stm'[c].data[h] >= stm[c].data[h]
Forward == [][NotBack]_vars

\* A cell the display is to show and does not have, or has an old version of.
Behind(c) ==
  /\ c \in DOMAIN stm /\ stmTemp \in {"warm", "hot"}
  /\ stm[c].loc = "remote" \/ \E h \in 1..2 : stm[c].data[h] < due[c]

\* The display catches up: a slot that stays warm or hot is up to date again and
\* again, whatever requests, data and acknowledgements are lost on the way.
CatchesUp == \A c \in Cells : []<>~Behind(c)
=============================================================================
