---------------------------- MODULE PendRequests ----------------------------
(***************************************************************************)
(* The requests other tasks of the display make of the servicer (srv.cpp): *)
(* temperatures, messages that need no answer, and calls whose answer is   *)
(* written to the caller's stack.  The servicer sends the active request   *)
(* and waits for its answer; a timeout, or the news of another request,    *)
(* makes it send again.                                                    *)
(*                                                                         *)
(* The servicer has the highest priority: the callers run only while it is *)
(* blocked, on its input or on the end of a transmission.                  *)
(***************************************************************************)
EXTENDS Naturals, Sequences

CONSTANTS
  Slots, Temps, None,
  Groups,       \* sequences of slots whose temperature is set at once
  Calls,        \* the calls with an answer that are made
  QueueLen,     \* places in pending_requests
  Resends,      \* times the active request is sent again
  MaxPosts,     \* requests made in all
  MaxWire       \* packets under way in each direction

Requests ==
  [kind : {"temps"}, slots : Seq(Slots), temp : Temps] \cup [kind : {"tell"} \cup Calls]
Asks == [kind : {"temp"}, slot : Slots, temp : Temps] \cup [kind : {"tell"} \cup Calls]
Packets == Asks \cup [kind : {"temp"}, slot : Slots, temp : {"refused"}]

ASSUME PendAssumption ==
  /\ "cold" \in Temps /\ "refused" \notin Temps /\ Groups \subseteq Seq(Slots) /\ None \notin Slots \cup Requests
  /\ Calls \subseteq {"time", "getCalibration", "setCalibration"}
  /\ QueueLen \in Nat \ {0} /\ {Resends, MaxPosts, MaxWire} \subseteq Nat

VARIABLES
  queue,        \* pending_requests
  active,       \* active_request, or None
  resent,       \* active_request_send_retries
  pc,           \* what the servicer waits for: "receive" or "send"
  sending,      \* is_sending: a transmission is running
  woken,        \* the servicer has been notified of a request
  temp, espTemp,        \* per slot, its temperature here and on the ESP
  toEsp, toStm,         \* packets under way
  frame,        \* per call, what has become of its caller's stack frame
  posts

servicer == <<queue, active, resent, pc, sending, woken>>
vars == <<servicer, temp, espTemp, toEsp, toStm, frame, posts>>

Temperatures(group, t) == [kind |-> "temps", slots |-> group, temp |-> t]
Tell == [kind |-> "tell"]
Call(k) == [kind |-> k]

\* The slots of a request from the first one that is not at its temperature yet.
Needed(r, temps) ==
  LET due == {i \in DOMAIN r.slots : temps[r.slots[i]] # r.temp}
      from == CHOOSE i \in due : \A j \in due : i <= j
  IN  IF due = {} THEN <<>> ELSE SubSeq(r.slots, from, Len(r.slots))

\* Nothing to send: all temperatures are right, or the caller has left.
Void(r, temps, frames) ==
  \/ r.kind = "temps" /\ Needed(r, temps) = <<>>
  \/ r.kind \in Calls /\ frames[r.kind] # "waiting"

\* start_pend_request of r, and of the requests in q after it, up to one that is
\* to be sent.  r may be None.
Serve(r, q, n) ==
  LET row == IF r = None THEN q ELSE <<r>> \o q
      live == {i \in DOMAIN row : ~Void(row[i], temp', frame')}
      i == CHOOSE k \in live : \A l \in live : k <= l
  IN  IF live = {}
      THEN active' = None /\ queue' = <<>> /\ resent' = 0 /\ pc' = "receive"
      ELSE /\ active' = IF row[i].kind = "temps"
                        THEN [row[i] EXCEPT !.slots = Needed(row[i], temp')] ELSE row[i]
           /\ queue' = SubSeq(row, i + 1, Len(row))
           /\ resent' = IF r # None /\ i = 1 THEN n ELSE 0
           /\ pc' = "send"

\* end_active_request without a look at the queue.
EndActive_NoChain ==
  active' = None /\ resent' = 0 /\ pc' = "receive" /\ UNCHANGED queue

EndActive == Serve(None, queue, 0)

Init ==
  /\ queue = <<>> /\ active = None /\ resent = 0 /\ pc = "receive"
  /\ sending = FALSE /\ woken = FALSE
  /\ temp = [s \in Slots |-> "cold"] /\ espTemp = temp
  /\ toEsp = <<>> /\ toStm = <<>>
  /\ frame = [k \in Calls |-> "none"]
  /\ posts = 0

-----------------------------------------------------------------------------
(* The callers                                                             *)

\* A task of lower priority runs.
CallersRun == IF pc = "receive" THEN ~woken ELSE sending

\* The display task waits in a call for the ADC's calibration.
ScreenBusy == \E k \in Calls \ {"time"} : frame[k] # "none"

\* Into the queue; immediately_process wakes the servicer if it is listening.  A
\* request for the time is not announced.
Post(r) ==
  /\ CallersRun /\ posts < MaxPosts /\ posts' = posts + 1
  /\ Len(queue) < QueueLen /\ queue' = Append(queue, r)
  /\ woken' = (pc = "receive" /\ r.kind # "time")
  /\ UNCHANGED <<active, resent, pc, sending, temp, espTemp, toEsp, toStm>>

\* The queue stays full for two seconds: the request is lost.
PostLost ==
  /\ CallersRun /\ posts < MaxPosts /\ posts' = posts + 1
  /\ Len(queue) = QueueLen
  /\ UNCHANGED <<servicer, temp, espTemp, toEsp, toStm, frame>>

SetTemperatureGroup(group, t) ==
  ~ScreenBusy /\ ((Post(Temperatures(group, t)) /\ UNCHANGED frame) \/ PostLost)

\* One slot: asked for only when the temperature differs right now.
SetTemperature(s, t) == temp[s] # t /\ SetTemperatureGroup(<<s>>, t)

\* refresh_grabber, reconnect_wifi, set_sleep_mode.
TellEsp == ~ScreenBusy /\ Post(Tell) /\ UNCHANGED frame

\* request_time and the calibrations: the request points into the caller's frame.
MakeCall(k) ==
  /\ frame[k] = "none" /\ (k # "time" => ~ScreenBusy)
  /\ Post(Call(k))
  /\ frame' = [frame EXCEPT ![k] = "waiting"]

\* The caller is answered, or tired of waiting, and its frame is gone.
Leave(k) ==
  /\ CallersRun /\ frame[k] \in {"waiting", "answered"}
  /\ frame' = [frame EXCEPT ![k] = "none"]
  /\ UNCHANGED <<servicer, temp, espTemp, toEsp, toStm, posts>>

-----------------------------------------------------------------------------
(* The servicer                                                            *)

\* The transmission before has ended.  What goes out for a call is read from its
\* frame, and the time it goes out written there; what that does to a frame that is
\* gone is left out.
SendActive ==
  /\ pc = "send" /\ ~sending /\ sending' = TRUE
  /\ toEsp' = IF Len(toEsp) < MaxWire
              THEN Append(toEsp, IF active.kind = "temps"
                                 THEN [kind |-> "temp", slot |-> active.slots[1], temp |-> active.temp]
                                 ELSE [kind |-> active.kind])
              ELSE toEsp
  /\ UNCHANGED <<woken, temp, espTemp, toStm, frame, posts>>
  /\ IF active.kind = "tell" THEN EndActive
     ELSE pc' = "receive" /\ UNCHANGED <<queue, active, resent>>

SendDone ==
  /\ sending /\ sending' = FALSE
  /\ UNCHANGED <<queue, active, resent, pc, woken, temp, espTemp, toEsp, toStm, frame, posts>>

\* No packet for 400 ms, which is longer than a transmission takes, or a
\* notification: both count as a timeout.
Interrupted_Always ==
  /\ pc = "receive" /\ (woken \/ ~sending) /\ woken' = FALSE
  /\ UNCHANGED <<sending, temp, espTemp, toEsp, toStm, frame, posts>>
  /\ Serve(active, queue, resent)

Interrupted ==
  /\ pc = "receive" /\ (woken \/ ~sending) /\ woken' = FALSE
  /\ UNCHANGED <<sending, temp, espTemp, toEsp, toStm, frame, posts>>
  /\ IF resent >= Resends THEN EndActive ELSE Serve(active, queue, resent + 1)

\* ACK_DATA_TEMP: the temperature is noted, and the active request moves on,
\* whichever slot the answer is about.
Apply_Awaited(m) ==
  temp' = IF active # None /\ m.temp # "refused" THEN [temp EXCEPT ![m.slot] = m.temp] ELSE temp

Apply(m) == temp' = IF m.temp # "refused" THEN [temp EXCEPT ![m.slot] = m.temp] ELSE temp

AckTemp(m) ==
  /\ Apply(m)
  /\ UNCHANGED frame
  /\ IF active = None \/ active.kind # "temps"
     THEN IF active = None THEN EndActive ELSE UNCHANGED <<queue, active, resent, pc>>
     ELSE IF Len(active.slots) > 1
     THEN Serve([active EXCEPT !.slots = Tail(@)], queue, resent)
     ELSE EndActive

\* An answer is written to the caller's frame, if the caller is still there.
Answer_Unchecked(m) ==
  /\ frame' = IF active.kind = m.kind
              THEN [frame EXCEPT ![m.kind] = IF @ = "none" THEN "overwritten" ELSE "answered"]
              ELSE frame

Answer(m) ==
  frame' = IF active.kind = m.kind /\ frame[m.kind] # "none"
           THEN [frame EXCEPT ![m.kind] = "answered"] ELSE frame

Answered(m) ==
  /\ IF active = None THEN UNCHANGED frame ELSE Answer(m)
  /\ UNCHANGED temp
  /\ IF active = None \/ active.kind = m.kind THEN EndActive
     ELSE UNCHANGED <<queue, active, resent, pc>>

Receive ==
  /\ pc = "receive" /\ ~woken /\ toStm # <<>> /\ toStm' = Tail(toStm)
  /\ UNCHANGED <<sending, woken, espTemp, toEsp, posts>>
  /\ LET m == Head(toStm) IN IF m.kind = "temp" THEN AckTemp(m) ELSE Answered(m)

-----------------------------------------------------------------------------
(* The ESP answers, refuses, or is too busy                                *)

EspAnswers ==
  /\ toEsp # <<>> /\ toEsp' = Tail(toEsp)
  /\ LET m == Head(toEsp) IN
     \/ /\ m.kind \in Calls /\ Len(toStm) < MaxWire
        /\ toStm' = Append(toStm, m) /\ UNCHANGED espTemp
     \/ /\ m.kind = "temp" /\ Len(toStm) < MaxWire
        /\ \/ toStm' = Append(toStm, m) /\ espTemp' = [espTemp EXCEPT ![m.slot] = m.temp]
           \/ toStm' = Append(toStm, [m EXCEPT !.temp = "refused"]) /\ UNCHANGED espTemp
     \/ UNCHANGED <<toStm, espTemp>>
  /\ UNCHANGED <<servicer, temp, frame, posts>>

-----------------------------------------------------------------------------
Callers ==
  \/ \E t \in Temps : (\E g \in Groups : SetTemperatureGroup(g, t))
                      \/ (\E s \in Slots : SetTemperature(s, t))
  \/ TellEsp
  \/ \E k \in Calls : MakeCall(k) \/ Leave(k)

Servicer == SendActive \/ SendDone \/ Interrupted \/ Receive

Next == Callers \/ Servicer \/ EspAnswers

Spec == Init /\ [][Next]_vars

\* The transmitter and the servicer's timeout work whatever the ESP does.
FairSpec == Spec /\ WF_vars(SendActive) /\ WF_vars(SendDone) /\ WF_vars(Interrupted)

-----------------------------------------------------------------------------
(* Properties                                                              *)

TypeOK ==
  /\ queue \in Seq(Requests) /\ Len(queue) <= QueueLen
  /\ active \in Requests \cup {None} /\ resent \in 0..Resends
  /\ pc \in {"receive", "send"} /\ sending \in BOOLEAN /\ woken \in BOOLEAN
  /\ {temp, espTemp} \subseteq [Slots -> Temps]
  /\ toEsp \in Seq(Asks) /\ toStm \in Seq(Packets)
  /\ Len(toEsp) <= MaxWire /\ Len(toStm) <= MaxWire
  /\ frame \in [Calls -> {"none", "waiting", "answered", "overwritten"}]
  /\ posts \in 0..MaxPosts

\* While the servicer sleeps with nothing to do, nothing waits in the queue that it
\* has not been told of: immediately_process need not notify it at other times.
\* Requests for the time wait for the next timeout.
NoSleepOnWork ==
  pc = "receive" /\ active = None /\ ~woken => \A i \in DOMAIN queue : queue[i].kind = "time"

\* No answer is written into the frame of a caller that has left.
AnswersLand == \A k \in Calls : frame[k] # "overwritten"

Settled == queue = <<>> /\ active = None /\ toEsp = <<>> /\ toStm = <<>>

\* When all is quiet the two sides agree on every temperature, however often it was
\* asked for and whichever answers were late.
Agreed == Settled => temp = espTemp

\* A dead ESP does not hold up the queue: every request is answered or given up.
Drains == <>[](queue = <<>> /\ active = None)
=============================================================================
