--------------------------- MODULE PacketHandoff ---------------------------
(***************************************************************************)
(* How a packet from the display controller reaches the ESP's data update  *)
(* manager (esp/main/dupm.cpp).  Two FreeRTOS tasks of the same priority   *)
(* share it: the servicer receives every packet, asks                      *)
(* is_packet_in_pending whether the dupm is waiting for it, and if so      *)
(* hands its receive buffer over with a task notification and sleeps until *)
(* the dupm answers with another one.  The mutex critical_wait_state keeps *)
(* the servicer from asking while the dupm has sent a request but has not  *)
(* installed the filter for the answer yet.                                *)
(*                                                                         *)
(* Every statement at which the scheduler may change tasks with an effect  *)
(* on the other one is a step of its own.  A notification is FreeRTOS's    *)
(* per-task state: it is remembered until the task waits, and              *)
(* xTaskNotifyStateClear drops it.                                         *)
(***************************************************************************)
EXTENDS Naturals, Sequences, FiniteSets

CONSTANTS
  Slots,     \* what tells one request of the dupm from another
  MaxTries,  \* attempts of one store or size change (the loops' literals 3 and 4)
  MaxRx,     \* packets the UART driver's receive buffer holds
  MaxOwed    \* packets the display may owe at a time; it drops requests beyond

ASSUME HandoffAssumption ==
  /\ Slots # {}
  /\ MaxTries \in Nat \ {0}
  /\ MaxRx \in Nat \ {0}
  /\ MaxOwed \in Nat \ {0}

VARIABLES
  dpc,       \* where the dupm task is
  op,        \* what it is doing: "store" (also a size change) or "retrieve"
  slot,      \* the slot that operation is about
  phase,     \* of a retrieve: asking, taking frames, or got the last frame
  tries,     \* attempts made before this one
  pending,   \* what pending_packet_in points at: a filter on the dupm's stack
  active,    \* critical_wait_state_active
  mutex,     \* owner of critical_wait_state
  note,      \* the dupm's notification is pending (TaskBitPacketRx)
  waiting,   \* waiting_task # 0 (only the servicer ever registers)
  spc,       \* where the servicer task is
  rxbuf,     \* the packet in rx_buf
  wanted,    \* is_packet_in_pending's answer about it
  ok,        \* the servicer's notification is pending (TaskBitPacketOK)
  rx,        \* packets received by the UART and not read yet
  owed       \* packets the display has still to send

dupmVars == <<dpc, op, slot, phase, tries>>
sharedVars == <<pending, active, mutex, note, waiting, ok>>
srvVars == <<spc, rxbuf, wanted>>
linkVars == <<rx, owed>>
vars == <<dupmVars, sharedVars, srvVars, linkVars>>

Packet(k, s) == [kind |-> k, slot |-> s]
Kinds == {"ack", "rack", "data", "last"}
\* Anything the display sends on its own account: PING, DATA_TEMP, QUERY_TIME...
Unsolicited == [kind |-> "other", slot |-> "none"]
Packets == [kind : Kinds, slot : Slots] \cup {Unsolicited}
Replies == [kind : Kinds, slot : Slots]

Filter(ks, s) == [kinds |-> ks, slot |-> s]
NoFilter == [kinds |-> {}, slot |-> "none"]
Filters == [kinds : SUBSET Kinds, slot : Slots] \cup {NoFilter}
Wants(f, p) == p.kind \in f.kinds /\ p.slot = f.slot

\* The filter the operation's next wait_for_packet installs.
NextFilter ==
  CASE op = "store" -> Filter({"ack"}, slot)
    [] op = "retrieve" /\ phase = "ask" -> Filter({"rack"}, slot)
    [] OTHER -> Filter({"data", "last"}, slot)

DupmPCs == {"idle", "hold", "send", "arm", "release", "wait", "read",
            "notify", "clear"}
SrvPCs == {"recv", "take", "look", "call", "give", "hand", "ring", "await",
           "process"}

Init ==
  /\ dpc = "idle" /\ op = "store" /\ phase = "ask" /\ tries = 0
  /\ slot \in Slots
  /\ pending = NoFilter /\ active = FALSE /\ mutex = "free"
  /\ note = FALSE /\ waiting = FALSE /\ ok = FALSE
  /\ spc = "recv" /\ rxbuf = Unsolicited /\ wanted = FALSE
  /\ rx = <<>> /\ owed = {}

-----------------------------------------------------------------------------
(* The dupm task                                                           *)

\* An operation starts.  A retrieve sends its request before it holds packets
\* back, every other one after.
Begin(o, s) ==
  /\ dpc = "idle"
  /\ op' = o /\ slot' = s /\ phase' = "ask" /\ tries' = 0
  /\ dpc' = IF o = "retrieve" THEN "send" ELSE "hold"
  /\ UNCHANGED <<sharedVars, srvVars, linkVars>>

\* A variant that forgets to take the lock between two frames.
Hold_NotBetweenFrames ==
  /\ dpc = "hold"
  /\ IF phase = "frames" THEN UNCHANGED <<mutex, active>>
     ELSE mutex = "free" /\ mutex' = "dupm" /\ active' = TRUE
  /\ dpc' = IF op = "store" THEN "send" ELSE IF phase = "ask" THEN "arm" ELSE "notify"
  /\ UNCHANGED <<op, slot, phase, tries, pending, note, waiting, ok, srvVars, linkVars>>

\* hold_packets_until_wait.  The early return for a second hold is dead code:
\* HoldMatchesMutex shows active is false whenever the dupm gets here.
Hold ==
  /\ dpc = "hold"
  /\ mutex = "free"
  /\ mutex' = "dupm" /\ active' = TRUE
  /\ dpc' = IF op = "store" THEN "send" ELSE IF phase = "ask" THEN "arm" ELSE "notify"
  /\ UNCHANGED <<op, slot, phase, tries, pending, note, waiting, ok, srvVars, linkVars>>

\* send_pkt: the display now owes the answer, unless the request is damaged on
\* the wire or the display's own receive buffer is full.
Send ==
  /\ dpc = "send"
  /\ \/ UNCHANGED owed
     \/ /\ Cardinality(owed) < MaxOwed
        /\ owed' = owed \cup {Packet(IF op = "store" THEN "ack" ELSE "rack", slot)}
  /\ dpc' = IF op = "store" THEN "arm" ELSE "hold"
  /\ UNCHANGED <<op, slot, phase, tries, sharedVars, srvVars, rx>>

\* wait_for_packet(filter, timeout) builds the filter and publishes it.
Arm ==
  /\ dpc = "arm"
  /\ pending' = NextFilter
  /\ dpc' = "release"
  /\ UNCHANGED <<op, slot, phase, tries, active, mutex, note, waiting, ok, srvVars, linkVars>>

\* A variant that returns without giving the mutex back when nothing is owed.
Release_Keep ==
  /\ dpc = "release"
  /\ active' = FALSE /\ note' = FALSE
  /\ mutex' = IF owed = {} THEN mutex ELSE "free"
  /\ dpc' = "wait"
  /\ UNCHANGED <<op, slot, phase, tries, pending, waiting, ok, srvVars, linkVars>>

\* wait_for_packet(timeout) forgets old notifications and lets the servicer in.
Release ==
  /\ dpc = "release"
  /\ active' = FALSE /\ note' = FALSE /\ mutex' = "free"
  /\ dpc' = "wait"
  /\ UNCHANGED <<op, slot, phase, tries, pending, waiting, ok, srvVars, linkVars>>

\* A variant that leaves the filter in place once a packet has come.
Wake_KeepFilter ==
  /\ dpc = "wait" /\ note
  /\ note' = FALSE
  /\ dpc' = "read"
  /\ UNCHANGED <<op, slot, phase, tries, pending, active, mutex, waiting, ok, srvVars, linkVars>>

\* xTaskNotifyWait returns because the servicer rang.
Wake ==
  /\ dpc = "wait" /\ note
  /\ note' = FALSE /\ pending' = NoFilter
  /\ dpc' = "read"
  /\ UNCHANGED <<op, slot, phase, tries, active, mutex, waiting, ok, srvVars, linkVars>>

\* A variant that waits for ever.
Timeout_Never ==
  /\ dpc = "wait" /\ ~note /\ spc = "await"
  /\ pending' = NoFilter
  /\ dpc' = "idle"
  /\ UNCHANGED <<op, slot, phase, tries, active, mutex, note, waiting, ok, srvVars, linkVars>>

\* xTaskNotifyWait gives up.  A store is tried again, a retrieve is abandoned.
Timeout ==
  /\ dpc = "wait" /\ ~note
  /\ pending' = NoFilter
  /\ \/ /\ op = "store" /\ tries + 1 < MaxTries
        /\ tries' = tries + 1 /\ dpc' = "hold"
     \/ /\ op = "retrieve" \/ tries + 1 = MaxTries
        /\ tries' = tries /\ dpc' = "idle"
  /\ UNCHANGED <<op, slot, phase, active, mutex, note, waiting, ok, srvVars, linkVars>>

\* The dupm looks at the packet, which is still in the servicer's buffer.  It
\* holds packets back again before it lets go of any frame but the last.
Read ==
  /\ dpc = "read"
  /\ \/ op = "store" /\ dpc' = "notify" /\ phase' = phase
     \/ op = "retrieve" /\ phase = "ask" /\ dpc' = "hold" /\ phase' = "frames"
     \/ /\ op = "retrieve" /\ phase = "frames"
        /\ \/ rxbuf.kind # "last" /\ dpc' = "hold" /\ phase' = "frames"
           \/ rxbuf.kind = "last" /\ dpc' = "notify" /\ phase' = "done"
  /\ UNCHANGED <<op, slot, tries, sharedVars, srvVars, linkVars>>

\* finished_with_last_packet wakes the servicer ...
FinishNotify ==
  /\ dpc = "notify"
  /\ ok' = (ok \/ waiting)
  /\ dpc' = "clear"
  /\ UNCHANGED <<op, slot, phase, tries, pending, active, mutex, note, waiting, srvVars, linkVars>>

\* ... and forgets it.  The reply's result code may ask for another try.
FinishClear ==
  /\ dpc = "clear"
  /\ waiting' = FALSE
  /\ \/ /\ op = "store" /\ tries + 1 < MaxTries
        /\ tries' = tries + 1 /\ dpc' = "hold"
     \/ /\ op = "store" \/ phase = "done"
        /\ tries' = tries /\ dpc' = "idle"
     \/ /\ op = "retrieve" /\ phase = "frames"
        /\ tries' = tries /\ dpc' = "arm"
  /\ UNCHANGED <<op, slot, phase, pending, active, mutex, note, ok, srvVars, linkVars>>

-----------------------------------------------------------------------------
(* The servicer task                                                       *)

\* wait_for_packet fills rx_buf.
Receive ==
  /\ spc = "recv" /\ rx # <<>>
  /\ rxbuf' = Head(rx) /\ rx' = Tail(rx)
  /\ wanted' = FALSE
  /\ spc' = "take"
  /\ UNCHANGED <<dupmVars, sharedVars, owed>>

Take ==
  /\ spc = "take" /\ mutex = "free"
  /\ mutex' = "srv"
  /\ spc' = "look"
  /\ UNCHANGED <<dupmVars, pending, active, note, waiting, ok, rxbuf, wanted, linkVars>>

\* The first read of pending_packet_in: is it null?
Look ==
  /\ spc = "look"
  /\ spc' = IF pending # NoFilter THEN "call" ELSE "give"
  /\ UNCHANGED <<dupmVars, sharedVars, rxbuf, wanted, linkVars>>

\* The second read calls through it.
Call ==
  /\ spc = "call" /\ pending # NoFilter
  /\ wanted' = Wants(pending, rxbuf)
  /\ spc' = "give"
  /\ UNCHANGED <<dupmVars, sharedVars, rxbuf, linkVars>>

Give ==
  /\ spc = "give"
  /\ mutex' = "free"
  /\ spc' = IF wanted THEN "hand" ELSE "process"
  /\ UNCHANGED <<dupmVars, pending, active, note, waiting, ok, rxbuf, wanted, linkVars>>

\* process_input_packet registers the servicer and its buffer ...
HandOver ==
  /\ spc = "hand"
  /\ waiting' = TRUE
  /\ spc' = "ring"
  /\ UNCHANGED <<dupmVars, pending, active, mutex, note, ok, rxbuf, wanted, linkVars>>

\* ... notifies the dupm ...
Ring ==
  /\ spc = "ring"
  /\ note' = TRUE
  /\ spc' = "await"
  /\ UNCHANGED <<dupmVars, pending, active, mutex, waiting, ok, rxbuf, wanted, linkVars>>

\* A variant that does not wait for the answer.
Resume_AtOnce ==
  /\ spc = "await"
  /\ ok' = FALSE /\ waiting' = FALSE
  /\ spc' = "recv"
  /\ UNCHANGED <<dupmVars, pending, active, mutex, note, rxbuf, wanted, linkVars>>

\* ... and sleeps until it answers (no caller ever answers NOK).
Resume ==
  /\ spc = "await" /\ ok
  /\ ok' = FALSE /\ waiting' = FALSE
  /\ spc' = "recv"
  /\ UNCHANGED <<dupmVars, pending, active, mutex, note, rxbuf, wanted, linkVars>>

\* The packet was not for the dupm: process_packet deals with it.
ProcessPacket ==
  /\ spc = "process"
  /\ spc' = "recv"
  /\ UNCHANGED <<dupmVars, sharedVars, rxbuf, wanted, linkVars>>

\* The second read of pending_packet_in found it null: the virtual call reads
\* address 0, the exception handler restarts the ESP, and the display, which
\* must shake hands again, forgets what it owed.
CallNull ==
  /\ spc = "call" /\ pending = NoFilter
  /\ dpc' = "idle" /\ phase' = "ask" /\ tries' = 0
  /\ active' = FALSE /\ mutex' = "free" /\ note' = FALSE /\ waiting' = FALSE /\ ok' = FALSE
  /\ spc' = "recv" /\ rxbuf' = Unsolicited /\ wanted' = FALSE
  /\ rx' = <<>> /\ owed' = {}
  /\ UNCHANGED <<op, slot, pending>>

-----------------------------------------------------------------------------
(* The display and the wire                                                *)

\* What the display sends after p: a retrieve is answered by its ack and then
\* by the frames of one store, of which a first and a last are told apart.
After(p) ==
  CASE p.kind = "rack" -> {Packet("data", p.slot)}
    [] p.kind = "data" -> {Packet("last", p.slot)}
    [] OTHER -> {}

Deliver(p) ==
  /\ Len(rx) < MaxRx
  /\ rx' = Append(rx, p)
  /\ owed' = (owed \ {p}) \cup After(p)
  /\ UNCHANGED <<dupmVars, sharedVars, srvVars>>

\* A damaged or overrun packet never arrives; the display carries on.
Lose(p) ==
  /\ owed' = (owed \ {p}) \cup After(p)
  /\ UNCHANGED <<dupmVars, sharedVars, srvVars, rx>>

Intrude ==
  /\ Len(rx) < MaxRx
  /\ rx' = Append(rx, Unsolicited)
  /\ UNCHANGED <<dupmVars, sharedVars, srvVars, owed>>

-----------------------------------------------------------------------------
Dupm ==
  \/ \E o \in {"store", "retrieve"}, s \in Slots : Begin(o, s)
  \/ Hold \/ Send \/ Arm \/ Release \/ Wake \/ Timeout \/ Read
  \/ FinishNotify \/ FinishClear

Servicer ==
  \/ Receive \/ Take \/ Look \/ Call \/ CallNull \/ Give
  \/ HandOver \/ Ring \/ Resume \/ ProcessPacket

Link ==
  \/ \E p \in owed : Deliver(p) \/ Lose(p)
  \/ Intrude

Next == Dupm \/ Servicer \/ Link

Spec == Init /\ [][Next]_vars

\* Both tasks are scheduled whenever they are ready.  They contend for one
\* FreeRTOS mutex; each of them also blocks for milliseconds without holding it
\* (the servicer in uart_read_bytes, the dupm in xTaskNotifyWait), which gives
\* the other one its turn however often the mutex changes hands.
Fairness ==
  /\ WF_vars(Send) /\ WF_vars(Arm) /\ WF_vars(Release)
  /\ WF_vars(Wake) /\ WF_vars(Timeout) /\ WF_vars(Read)
  /\ WF_vars(FinishNotify) /\ WF_vars(FinishClear)
  /\ WF_vars(Receive) /\ WF_vars(Look) /\ WF_vars(Call) /\ WF_vars(CallNull)
  /\ WF_vars(Give) /\ WF_vars(HandOver) /\ WF_vars(Ring) /\ WF_vars(Resume)
  /\ WF_vars(ProcessPacket)
  /\ SF_vars(Hold) /\ SF_vars(Take)

FairSpec == Spec /\ Fairness

-----------------------------------------------------------------------------
(* Properties                                                              *)

\* Every variable keeps its type.
TypeOK ==
  /\ dpc \in DupmPCs /\ op \in {"store", "retrieve"} /\ slot \in Slots
  /\ phase \in {"ask", "frames", "done"} /\ tries \in 0..(MaxTries - 1)
  /\ pending \in Filters /\ active \in BOOLEAN /\ mutex \in {"free", "dupm", "srv"}
  /\ note \in BOOLEAN /\ waiting \in BOOLEAN /\ ok \in BOOLEAN
  /\ spc \in SrvPCs /\ rxbuf \in Packets /\ wanted \in BOOLEAN
  /\ rx \in Seq(Packets) /\ owed \in SUBSET Replies

\* The flag critical_wait_state_active says exactly whether the dupm owns the
\* mutex, so a hold never finds itself already held and a wait never gives a
\* mutex it does not own; and the servicer owns it only inside
\* is_packet_in_pending.
HoldMatchesMutex ==
  /\ active <=> mutex = "dupm"
  /\ mutex = "srv" <=> spc \in {"look", "call", "give"}
  /\ dpc \in {"idle", "hold", "wait", "read"} => ~active
  /\ dpc = "release" => active

\* The dupm has been woken and has not answered yet.
Lent == dpc \in {"read", "notify"} \/ (dpc = "hold" /\ phase = "frames")

\* From the moment the dupm is woken until it answers, the packet it reads
\* stays in rx_buf: the servicer, whose buffer it is, is parked in
\* process_input_packet and has been told nothing yet.
BufferLent == Lent => spc = "await" /\ waiting /\ ~ok

\* Whose the receive buffer is, and what has become of the servicer's offer.
holder ==
  CASE Lent -> "dupm"
    [] ~Lent /\ spc # "await" -> "servicer"
    [] ~Lent /\ spc = "await" /\ ok -> "returned"
    [] ~Lent /\ spc = "await" /\ ~ok /\ note -> "offered"
    [] OTHER -> "forgotten"

\* The two tasks share the buffer as SharedBuffer has it: through every lost, late
\* or stray packet, timeout and retry, the servicer writes to it only while it is
\* its own, and every packet the dupm reads was offered, is accepted once and
\* answered once.
Buffer == INSTANCE SharedBuffer WITH buffer <- rxbuf, holder <- holder
LendsBuffer == Buffer!Spec

\* finished_with_last_packet wakes the servicer before it clears waiting_task:
\* the servicer must not have registered for a later packet in between, or
\* that registration is wiped and nobody ever wakes it.
RegistrationNotWiped ==
  dpc = "clear" => spc # "ring" /\ (spc = "await" => ok)

\* The dupm has asked for this packet, under the mutex, and has not given up.
AskedUnderHold(p) ==
  /\ dpc \in {"arm", "release", "wait"}
  /\ op = "store" \/ phase = "frames"
  /\ Wants(NextFilter, p)

\* is_packet_in_pending finds that the packet in rx_buf is not for the dupm.
TurnsAway == spc \in {"look", "call"} /\ spc' = "give" /\ ~wanted'

\* The servicer never turns away an answer the dupm is owed, when the request
\* was sent (or the previous frame released) with packets held back.
HeldReplyNotMissed ==
  [][ TurnsAway => ~AskedUnderHold(rxbuf) ]_vars

\* What each point of the dupm's program owns and has published, and where
\* notifications can be: the strengthening that makes the properties inductive.
DupmInv ==
  /\ op = "store" => phase = "ask"
  /\ dpc = "send" => (active <=> op = "store") /\ phase = "ask"
  /\ dpc \in {"arm", "release"} => active
  /\ dpc \in {"arm", "release", "wait", "read"} => phase # "done"
  /\ dpc = "hold" => phase # "done"
  /\ dpc \in {"notify", "clear"} => (active <=> phase = "frames")
  /\ dpc \in {"notify", "clear"} /\ op = "retrieve" => phase # "ask"
  /\ pending = IF dpc \in {"release", "wait"} THEN NextFilter ELSE NoFilter

NotifyInv ==
  /\ note => spc = "await" /\ waiting /\ ~ok /\ ~Lent
  /\ ok => spc = "await" /\ ~Lent
  /\ spc = "ring" => waiting
  /\ spc = "await" => waiting \/ ok
  /\ dpc = "clear" => spc \notin {"call", "hand", "ring"} /\ (spc = "give" => ~wanted)
  /\ spc \in {"take", "look", "call"} => ~wanted

IInv ==
  /\ TypeOK /\ HoldMatchesMutex /\ BufferLent /\ RegistrationNotWiped
  /\ DupmInv /\ NotifyInv

\* Every operation of the dupm ends, whatever the display sends or loses.
OperationEnds == dpc # "idle" ~> dpc = "idle"

\* The servicer is never locked out of is_packet_in_pending for good.
ServicerGetsIn == spc = "take" ~> spc # "take"
=============================================================================
