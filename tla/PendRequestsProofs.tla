-------------------------- MODULE PendRequestsProofs --------------------------
(* Types, NoSleepOnWork, AnswersLand and Agreed, for every queue and all      *)
(* requests.                                                                  *)
(*                                                                            *)
(* NoSleepOnWork rests on Serve: the servicer only goes to sleep without an   *)
(* active request when it has emptied the queue.  What it sends is in Ready.  *)
(* Agreed rests on Informed: of every slot, the last news under way, or what  *)
(* the display has noted if there is none, is what the ESP holds.             *)
EXTENDS PendRequests, SequenceTheorems, WellFoundedInduction, TLAPS

Ready ==
    /\ pc = "send" => active # None
    /\ active # None /\ active.kind = "temps" => active.slots # <<>>

IInv == TypeOK /\ NoSleepOnWork /\ AnswersLand /\ Ready

-----------------------------------------------------------------------------
LEMMA LeastIn ==
    ASSUME NEW S \in SUBSET Nat, S # {}
    PROVE  \E x \in S : \A y \in S : x <= y
<1>1. PICK x \in S : \A y \in S : ~ (<<y, x>> \in OpToRel(<, Nat))
  BY NatLessThanWellFounded, WFMin
<1>2. ASSUME NEW y \in S PROVE x <= y
  <2>1. ~ (y < x)
    BY <1>1 DEF OpToRel
  <2> QED
    BY <2>1
<1> QED
  BY <1>2

(* A record of temperatures, a message and a call are told apart by kind.     *)
LEMMA Kinds ==
    /\ \A r \in Requests : r.kind = "temps" =>
         r.slots \in Seq(Slots) /\ r.temp \in Temps /\ r = [kind |-> "temps", slots |-> r.slots, temp |-> r.temp]
    /\ \A r \in Requests : r.kind # "temps" => r.kind \in {"tell"} \cup Calls
    /\ "temps" \notin {"tell"} \cup Calls /\ "temp" \notin {"tell"} \cup Calls
    /\ \A m \in Packets : m.kind = "temp" => m.slot \in Slots /\ m.temp \in Temps \cup {"refused"}
    /\ \A m \in Packets : m.kind # "temp" => m.kind \in {"tell"} \cup Calls
    /\ \A m \in Asks : m.kind = "temp" =>
         m.temp \in Temps /\ m = [kind |-> "temp", slot |-> m.slot, temp |-> m.temp]
    /\ Asks \subseteq Packets
    /\ None \notin Requests
  BY PendAssumption DEF Requests, Packets, Asks

LEMMA NeededTyped ==
    ASSUME NEW r \in Requests, r.kind = "temps", NEW temps
    PROVE  Needed(r, temps) \in Seq(Slots)
<1> DEFINE due == {i \in DOMAIN r.slots : temps[r.slots[i]] # r.temp}
           from == CHOOSE i \in due : \A j \in due : i <= j
<1>1. r.slots \in Seq(Slots)
  BY Kinds
<1>2. CASE due = {}
  BY <1>2 DEF Needed
<1>3. CASE due # {}
  <2>1. due \in SUBSET Nat
    BY <1>1
  <2>2. from \in due
    BY <1>3, <2>1, LeastIn
  <2>3. from \in 1 .. Len(r.slots)
    BY <1>1, <2>2
  <2> HIDE DEF due, from
  <2>4. SubSeq(r.slots, from, Len(r.slots)) \in Seq(Slots)
    BY <1>1, <2>3, SubSeqProperties
  <2> QED
    BY <1>3, <2>4 DEF Needed, due, from
<1> QED
  BY <1>2, <1>3

(* start_pend_request and end_active_request: either there is something to    *)
(* send, or the queue is empty.                                               *)
LEMMA ServeTyped ==
    ASSUME NEW r \in Requests \cup {None}, NEW q \in Seq(Requests), Len(q) <= QueueLen,
           NEW n \in 0 .. Resends, Serve(r, q, n)
    PROVE  /\ queue' \in Seq(Requests) /\ Len(queue') <= QueueLen
           /\ active' \in Requests \cup {None} /\ resent' \in 0 .. Resends
           /\ pc' \in {"receive", "send"}
           /\ pc' = "receive" => queue' = <<>>
           /\ Ready'
<1> DEFINE row == IF r = None THEN q ELSE <<r>> \o q
           live == {i \in DOMAIN row : ~Void(row[i], temp', frame')}
           i == CHOOSE k \in live : \A l \in live : k <= l
<1>1. QueueLen \in Nat /\ Resends \in Nat
  BY PendAssumption
<1>2. row \in Seq(Requests) /\ Len(row) \in Nat /\ Len(row) <= QueueLen + 1
  <2>1. CASE r = None
    BY <1>1, <2>1
  <2>2. CASE r # None
    BY <1>1, <2>2
  <2> QED
    BY <2>1, <2>2
<1>3. CASE live = {}
  <2>1. active' = None /\ queue' = <<>> /\ resent' = 0 /\ pc' = "receive"
    BY <1>3 DEF Serve
  <2> QED
    BY <1>1, <2>1 DEF Ready
<1>4. CASE live # {}
  <2>1. live \in SUBSET Nat
    BY <1>2
  <2>2. i \in live
    BY <1>4, <2>1, LeastIn
  <2>3. /\ active' = IF row[i].kind = "temps"
                     THEN [row[i] EXCEPT !.slots = Needed(row[i], temp')] ELSE row[i]
        /\ queue' = SubSeq(row, i + 1, Len(row))
        /\ resent' = IF r # None /\ i = 1 THEN n ELSE 0
        /\ pc' = "send"
    BY <1>4 DEF Serve
  <2>4. i \in 1 .. Len(row) /\ row[i] \in Requests /\ ~Void(row[i], temp', frame')
    <3>1. i \in DOMAIN row /\ ~Void(row[i], temp', frame')
      BY <2>2
    <3> HIDE DEF row, live, i
    <3> QED
      BY <1>2, <3>1, ElementOfSeq
  <2> HIDE DEF row, live, i
  <2>5. queue' \in Seq(Requests) /\ Len(queue') <= QueueLen
    <3>1. i + 1 \in 1 .. Len(row) + 1
      BY <1>2, <2>4
    <3> QED
      BY <1>1, <1>2, <2>3, <2>4, <3>1, SubSeqProperties
  <2>6. active' \in Requests /\ (active'.kind = "temps" => active'.slots # <<>>)
    <3>1. CASE row[i].kind = "temps"
      <4> DEFINE ss == Needed(row[i], temp')
      <4>1. ss \in Seq(Slots) /\ ss # <<>>
        BY <2>4, <3>1, NeededTyped DEF Void
      <4> HIDE DEF ss
      <4>2. active' = [row[i] EXCEPT !.slots = ss]
        BY <2>3, <3>1 DEF ss
      <4>3. active' = [kind |-> "temps", slots |-> ss, temp |-> row[i].temp] /\ row[i].temp \in Temps
        BY <2>4, <3>1, <4>2, Kinds
      <4> QED
        BY <4>1, <4>3 DEF Requests
    <3>2. CASE row[i].kind # "temps"
      BY <2>3, <2>4, <3>2
    <3> QED
      BY <3>1, <3>2
  <2>7. resent' \in 0 .. Resends
    BY <1>1, <2>3
  <2> QED
    BY <2>3, <2>5, <2>6, <2>7, Kinds DEF Ready
<1> QED
  BY <1>3, <1>4

-----------------------------------------------------------------------------
(* One step at a time.                                                        *)
LEMMA InitHolds == Init => IInv
<1> SUFFICES ASSUME Init PROVE IInv
  OBVIOUS
<1>1. TypeOK
  <2>1. QueueLen \in Nat /\ Resends \in Nat /\ MaxPosts \in Nat /\ MaxWire \in Nat /\ "cold" \in Temps
    BY PendAssumption
  <2>2. /\ queue \in Seq(Requests) /\ Len(queue) = 0
        /\ toEsp \in Seq(Asks) /\ toStm \in Seq(Packets) /\ Len(toEsp) = 0 /\ Len(toStm) = 0
    BY DEF Init
  <2>3. temp \in [Slots -> Temps] /\ espTemp \in [Slots -> Temps]
    BY <2>1 DEF Init
  <2>4. frame \in [Calls -> {"none", "waiting", "answered", "overwritten"}]
    BY DEF Init
  <2>5. /\ active = None /\ resent = 0 /\ posts = 0 /\ pc = "receive"
        /\ sending = FALSE /\ woken = FALSE
    BY DEF Init
  <2>6. Len(queue) <= QueueLen /\ Len(toEsp) <= MaxWire /\ Len(toStm) <= MaxWire
    BY <2>1, <2>2
  <2>7. active \in Requests \cup {None} /\ resent \in 0..Resends /\ posts \in 0..MaxPosts
    BY <2>1, <2>5
  <2>8. pc \in {"receive", "send"} /\ sending \in BOOLEAN /\ woken \in BOOLEAN
    BY <2>5
  <2>9. {temp, espTemp} \subseteq [Slots -> Temps]
    BY <2>3
  <2> QED
    BY <2>2, <2>4, <2>6, <2>7, <2>8, <2>9 DEF TypeOK
<1>2. NoSleepOnWork /\ AnswersLand /\ Ready
  BY DEF Init, NoSleepOnWork, AnswersLand, Ready
<1> QED
  BY <1>1, <1>2 DEF IInv

(* A request enters the queue.                                                *)
LEMMA PostHolds ==
    ASSUME IInv, NEW r \in Requests, Post(r),
           frame' \in [Calls -> {"none", "waiting", "answered", "overwritten"}],
           \A k \in Calls : frame'[k] # "overwritten"
    PROVE  IInv'
<1>1. queue' \in Seq(Requests) /\ Len(queue') <= QueueLen
  BY PendAssumption, AppendProperties DEF IInv, TypeOK, Post
<1>2. posts' \in 0 .. MaxPosts
  BY PendAssumption DEF IInv, TypeOK, Post
<1>3. TypeOK'
  BY <1>1, <1>2 DEF IInv, TypeOK, Post
<1>4. NoSleepOnWork'
  <2>1. SUFFICES ASSUME pc = "receive", active = None, r.kind = "time"
                 PROVE  \A i \in DOMAIN queue' : queue'[i].kind = "time"
    BY DEF NoSleepOnWork, Post
  <2>2. \A i \in DOMAIN queue : queue[i].kind = "time"
    BY <2>1 DEF IInv, NoSleepOnWork, Post, CallersRun
  <2>3. queue \in Seq(Requests) /\ queue' = Append(queue, r)
    BY DEF IInv, TypeOK, Post
  <2> QED
    BY <2>1, <2>2, <2>3, AppendProperties
<1> QED
  BY <1>3, <1>4 DEF IInv, AnswersLand, Ready, Post

(* Nothing of the servicer changes.                                           *)
LEMMA LostHolds ==
    ASSUME IInv, UNCHANGED <<servicer, temp, toEsp, toStm>>,
           espTemp' = espTemp, posts' \in 0 .. MaxPosts,
           frame' \in [Calls -> {"none", "waiting", "answered", "overwritten"}],
           \A k \in Calls : frame'[k] # "overwritten"
    PROVE  IInv'
  BY DEF IInv, TypeOK, NoSleepOnWork, AnswersLand, Ready, servicer

LEMMA CallersHold == IInv /\ Callers => IInv'
<1> SUFFICES ASSUME IInv, Callers PROVE IInv'
  OBVIOUS
<1>1. /\ frame \in [Calls -> {"none", "waiting", "answered", "overwritten"}]
      /\ \A k \in Calls : frame[k] # "overwritten"
      /\ posts \in 0 .. MaxPosts
  BY DEF IInv, TypeOK, AnswersLand
<1>2. ASSUME NEW g \in Seq(Slots), NEW t \in Temps, SetTemperatureGroup(g, t) PROVE IInv'
  <2>1. Temperatures(g, t) \in Requests
    BY DEF Temperatures, Requests
  <2>2. CASE Post(Temperatures(g, t)) /\ UNCHANGED frame
    BY <1>1, <2>1, <2>2, PostHolds
  <2>3. CASE PostLost
    BY <1>1, <2>3, PendAssumption, LostHolds DEF PostLost
  <2> QED
    BY <1>2, <2>2, <2>3 DEF SetTemperatureGroup
<1>3. CASE \E t \in Temps : (\E g \in Groups : SetTemperatureGroup(g, t))
                           \/ (\E s \in Slots : SetTemperature(s, t))
  <2>1. \A s \in Slots : <<s>> \in Seq(Slots)
    OBVIOUS
  <2> QED
    BY <1>2, <1>3, <2>1, PendAssumption DEF SetTemperature
<1>4. CASE TellEsp
  <2>1. Tell \in Requests
    BY DEF Tell, Requests
  <2> QED
    BY <1>1, <1>4, <2>1, PostHolds DEF TellEsp
<1>5. ASSUME NEW k \in Calls, MakeCall(k) PROVE IInv'
  <2>1. Call(k) \in Requests
    BY DEF Call, Requests
  <2> QED
    BY <1>1, <1>5, <2>1, PostHolds DEF MakeCall
<1>6. ASSUME NEW k \in Calls, Leave(k) PROVE IInv'
  BY <1>1, <1>6, LostHolds DEF Leave
<1> QED
  BY <1>3, <1>4, <1>5, <1>6 DEF Callers

LEMMA SendHolds == IInv /\ SendActive => IInv'
<1> SUFFICES ASSUME IInv, SendActive PROVE IInv'
  OBVIOUS
<1>1. active \in Requests /\ pc = "send"
  BY DEF IInv, TypeOK, Ready, SendActive
<1>2. toEsp' \in Seq(Asks) /\ Len(toEsp') <= MaxWire
  <2> DEFINE m == IF active.kind = "temps"
                  THEN [kind |-> "temp", slot |-> active.slots[1], temp |-> active.temp]
                  ELSE [kind |-> active.kind]
  <2>1. m \in Asks
    <3>1. CASE active.kind = "temps"
      <4>1. active.slots \in Seq(Slots) /\ active.slots # <<>> /\ active.temp \in Temps
        BY <1>1, <3>1, Kinds DEF IInv, Ready
      <4>2. active.slots[1] \in Slots
        BY <4>1
      <4> QED
        BY <3>1, <4>1, <4>2 DEF Asks
    <3>2. CASE active.kind # "temps"
      BY <1>1, <3>2, Kinds DEF Asks
    <3> QED
      BY <3>1, <3>2
  <2>2. toEsp' = IF Len(toEsp) < MaxWire THEN Append(toEsp, m) ELSE toEsp
    BY DEF SendActive
  <2> HIDE DEF m
  <2> QED
    BY <2>1, <2>2, PendAssumption, AppendProperties DEF IInv, TypeOK
<1>3. CASE active.kind = "tell"
  <2>1. Serve(None, queue, 0)
    BY <1>3 DEF SendActive, EndActive
  <2>2. queue \in Seq(Requests) /\ Len(queue) <= QueueLen /\ 0 \in 0 .. Resends
    BY PendAssumption DEF IInv, TypeOK
  <2>3. /\ queue' \in Seq(Requests) /\ Len(queue') <= QueueLen
        /\ active' \in Requests \cup {None} /\ resent' \in 0 .. Resends
        /\ pc' \in {"receive", "send"}
        /\ pc' = "receive" => queue' = <<>>
        /\ Ready'
    BY <2>1, <2>2, ServeTyped
  <2> QED
    BY <1>2, <2>3 DEF IInv, TypeOK, NoSleepOnWork, AnswersLand, SendActive
<1>4. CASE active.kind # "tell"
  <2>1. active # None
    BY <1>1, Kinds
  <2>2. pc' = "receive" /\ UNCHANGED <<queue, active, resent>>
    BY <1>4 DEF SendActive
  <2>3. TypeOK'
    BY <1>2, <2>2 DEF IInv, TypeOK, SendActive
  <2> QED
    BY <2>1, <2>2, <2>3 DEF IInv, NoSleepOnWork, AnswersLand, Ready, SendActive
<1> QED
  BY <1>3, <1>4

(* What receiving and timing out have in common.                              *)
LEMMA ServedHolds ==
    ASSUME IInv, pc = "receive", UNCHANGED <<sending, espTemp, toEsp, posts>>, woken' \in BOOLEAN,
           NEW r \in Requests \cup {None}, NEW n \in 0 .. Resends, Serve(r, queue, n),
           temp' \in [Slots -> Temps], toStm' \in Seq(Packets), Len(toStm') <= MaxWire,
           frame' \in [Calls -> {"none", "waiting", "answered", "overwritten"}],
           \A k \in Calls : frame'[k] # "overwritten"
    PROVE  IInv'
<1>1. queue \in Seq(Requests) /\ Len(queue) <= QueueLen
  BY DEF IInv, TypeOK
<1>2. /\ queue' \in Seq(Requests) /\ Len(queue') <= QueueLen
      /\ active' \in Requests \cup {None} /\ resent' \in 0 .. Resends
      /\ pc' \in {"receive", "send"}
      /\ pc' = "receive" => queue' = <<>>
      /\ Ready'
  BY <1>1, ServeTyped
<1>3. TypeOK'
  BY <1>2 DEF IInv, TypeOK
<1> QED
  BY <1>2, <1>3 DEF IInv, NoSleepOnWork, AnswersLand

LEMMA InterruptedHolds == IInv /\ Interrupted => IInv'
<1> SUFFICES ASSUME IInv, Interrupted PROVE IInv'
  OBVIOUS
<1>1. /\ pc = "receive" /\ UNCHANGED <<sending, espTemp, toEsp, posts>> /\ woken' \in BOOLEAN
      /\ temp' \in [Slots -> Temps] /\ toStm' \in Seq(Packets) /\ Len(toStm') <= MaxWire
      /\ frame' \in [Calls -> {"none", "waiting", "answered", "overwritten"}]
      /\ \A k \in Calls : frame'[k] # "overwritten"
  BY DEF IInv, TypeOK, AnswersLand, Interrupted
<1>2. Resends \in Nat /\ active \in Requests \cup {None} /\ resent \in 0 .. Resends
  BY PendAssumption DEF IInv, TypeOK
<1>3. CASE resent >= Resends
  <2>1. Serve(None, queue, 0) /\ 0 \in 0 .. Resends
    BY <1>2, <1>3 DEF Interrupted, EndActive
  <2> QED
    BY <1>1, <2>1, ServedHolds
<1>4. CASE ~ (resent >= Resends)
  <2>1. Serve(active, queue, resent + 1) /\ resent + 1 \in 0 .. Resends
    BY <1>2, <1>4 DEF Interrupted
  <2> QED
    BY <1>1, <1>2, <2>1, ServedHolds
<1> QED
  BY <1>3, <1>4

LEMMA ReceiveHolds == IInv /\ Receive => IInv'
<1> SUFFICES ASSUME IInv, Receive PROVE IInv'
  OBVIOUS
<1> DEFINE m == Head(toStm)
<1>1. m \in Packets /\ toStm' \in Seq(Packets) /\ Len(toStm') <= MaxWire
  BY PendAssumption, HeadTailProperties DEF IInv, TypeOK, Receive
<1>2. pc = "receive" /\ UNCHANGED <<sending, espTemp, toEsp, posts>> /\ woken' \in BOOLEAN
  BY DEF IInv, TypeOK, Receive
<1>3. 0 \in 0 .. Resends /\ resent \in 0 .. Resends /\ active \in Requests \cup {None}
  BY PendAssumption DEF IInv, TypeOK
<1>4. IF m.kind = "temp" THEN AckTemp(m) ELSE Answered(m)
  BY DEF Receive
<1> HIDE DEF m
<1>5. temp' \in [Slots -> Temps]
  <2>1. CASE m.kind = "temp"
    BY <1>1, <1>4, <2>1, Kinds DEF AckTemp, Apply, IInv, TypeOK
  <2>2. CASE m.kind # "temp"
    BY <1>4, <2>2 DEF Answered, IInv, TypeOK
  <2> QED
    BY <2>1, <2>2
<1>6. /\ frame' \in [Calls -> {"none", "waiting", "answered", "overwritten"}]
      /\ \A k \in Calls : frame'[k] # "overwritten"
  BY <1>4 DEF AckTemp, Answered, Answer, IInv, TypeOK, AnswersLand
<1>7. CASE EndActive
  BY <1>1, <1>2, <1>3, <1>5, <1>6, <1>7, ServedHolds DEF EndActive
<1>8. CASE active # None /\ UNCHANGED <<queue, active, resent, pc>>
  <2>1. TypeOK'
    BY <1>1, <1>2, <1>5, <1>6, <1>8 DEF IInv, TypeOK
  <2> QED
    BY <1>6, <1>8, <2>1 DEF IInv, NoSleepOnWork, AnswersLand, Ready
<1>9. CASE active # None /\ active.kind = "temps" /\ Len(active.slots) > 1
           /\ Serve([active EXCEPT !.slots = Tail(@)], queue, resent)
  <2> DEFINE ss == Tail(active.slots)
  <2>1. ss \in Seq(Slots) /\ active.temp \in Temps
        /\ active = [kind |-> "temps", slots |-> active.slots, temp |-> active.temp]
    BY <1>3, <1>9, Kinds, HeadTailProperties
  <2> HIDE DEF ss
  <2>2. [active EXCEPT !.slots = ss] = [kind |-> "temps", slots |-> ss, temp |-> active.temp]
    BY <2>1
  <2>3. [active EXCEPT !.slots = ss] \in Requests
    BY <2>1, <2>2 DEF Requests
  <2>4. Serve([active EXCEPT !.slots = ss], queue, resent)
    BY <1>9 DEF ss
  <2> QED
    BY <1>1, <1>2, <1>3, <1>5, <1>6, <2>3, <2>4, ServedHolds
<1> QED
  <2>1. CASE m.kind = "temp"
    BY <1>4, <1>7, <1>8, <1>9, <2>1 DEF AckTemp
  <2>2. CASE m.kind # "temp"
    BY <1>4, <1>7, <1>8, <2>2 DEF Answered
  <2> QED
    BY <2>1, <2>2

LEMMA EspHolds == IInv /\ EspAnswers => IInv'
<1> SUFFICES ASSUME IInv, EspAnswers PROVE IInv'
  OBVIOUS
<1> DEFINE m == Head(toEsp)
<1>1. m \in Asks /\ toEsp' \in Seq(Asks) /\ Len(toEsp') <= MaxWire
  BY PendAssumption, HeadTailProperties DEF IInv, TypeOK, EspAnswers
<1>2. \/ /\ m.kind \in Calls /\ Len(toStm) < MaxWire
         /\ toStm' = Append(toStm, m) /\ UNCHANGED espTemp
      \/ /\ m.kind = "temp" /\ Len(toStm) < MaxWire
         /\ \/ toStm' = Append(toStm, m) /\ espTemp' = [espTemp EXCEPT ![m.slot] = m.temp]
            \/ toStm' = Append(toStm, [m EXCEPT !.temp = "refused"]) /\ UNCHANGED espTemp
      \/ UNCHANGED <<toStm, espTemp>>
  BY DEF EspAnswers
<1> HIDE DEF m
<1>3. toStm \in Seq(Packets) /\ Len(toStm) <= MaxWire /\ MaxWire \in Nat /\ espTemp \in [Slots -> Temps]
  BY PendAssumption DEF IInv, TypeOK
<1>4. ASSUME NEW p \in Packets, Len(toStm) < MaxWire, toStm' = Append(toStm, p)
      PROVE  toStm' \in Seq(Packets) /\ Len(toStm') <= MaxWire
  BY <1>3, <1>4, AppendProperties
<1>5. m \in Packets
  BY <1>1, Kinds
<1>6. m.kind = "temp" => [m EXCEPT !.temp = "refused"] \in Packets
  <2>1. SUFFICES ASSUME m.kind = "temp" PROVE [m EXCEPT !.temp = "refused"] \in Packets
    OBVIOUS
  <2>2. m = [kind |-> "temp", slot |-> m.slot, temp |-> m.temp] /\ m.slot \in Slots
    BY <1>1, <1>5, <2>1, Kinds
  <2>3. [m EXCEPT !.temp = "refused"] = [kind |-> "temp", slot |-> m.slot, temp |-> "refused"]
    BY <2>2
  <2> QED
    BY <2>2, <2>3 DEF Packets
<1>7. toStm' \in Seq(Packets) /\ Len(toStm') <= MaxWire
  BY <1>2, <1>3, <1>4, <1>5, <1>6
<1>8. espTemp' \in [Slots -> Temps]
  BY <1>1, <1>2, <1>3, Kinds
<1>9. UNCHANGED <<servicer, temp, frame, posts>>
  BY DEF EspAnswers
<1>10. TypeOK'
  BY <1>1, <1>7, <1>8, <1>9 DEF IInv, TypeOK, servicer
<1> QED
  BY <1>9, <1>10 DEF IInv, NoSleepOnWork, AnswersLand, Ready, servicer

LEMMA SendDoneHolds == IInv /\ SendDone => IInv'
<1> SUFFICES ASSUME IInv, SendDone PROVE IInv'
  OBVIOUS
<1>1. TypeOK'
  BY DEF IInv, TypeOK, SendDone
<1>2. NoSleepOnWork' /\ AnswersLand' /\ Ready'
  BY DEF IInv, NoSleepOnWork, AnswersLand, Ready, SendDone
<1> QED
  BY <1>1, <1>2 DEF IInv

LEMMA StutterHolds == IInv /\ UNCHANGED vars => IInv'
  BY DEF IInv, TypeOK, NoSleepOnWork, AnswersLand, Ready, vars, servicer

(* IInv is inductive.                                                         *)
LEMMA Invariant == Spec => []IInv
<1>1. IInv /\ [Next]_vars => IInv'
  BY CallersHold, SendHolds, SendDoneHolds, InterruptedHolds, ReceiveHolds, EspHolds, StutterHolds
     DEF Next, Servicer
<1> QED
  BY <1>1, InitHolds, PTL DEF Spec

(* Types: among others, the servicer never sends a request that asks for      *)
(* nothing, nor resends one more often than allowed; the queue keeps its size.*)
THEOREM TypeCorrect == Spec => []TypeOK
<1>1. IInv => TypeOK
  BY DEF IInv
<1> QED
  BY <1>1, Invariant, PTL

(* A servicer that sleeps with nothing to do has been told of all that waits  *)
(* in the queue, but for requests of the time.                                *)
THEOREM ToldOfWork == Spec => []NoSleepOnWork
<1>1. IInv => NoSleepOnWork
  BY DEF IInv
<1> QED
  BY <1>1, Invariant, PTL

(* No answer is written to the stack of a caller that has left.               *)
THEOREM NoStrayAnswer == Spec => []AnswersLand
<1>1. IInv => AnswersLand
  BY DEF IInv
<1> QED
  BY <1>1, Invariant, PTL

-----------------------------------------------------------------------------
(* What the display knows of the ESP's temperatures.                          *)

News(m, s) == m.kind = "temp" /\ m.slot = s /\ m.temp # "refused"
Silent(q, s) == \A i \in DOMAIN q : ~News(q[i], s)
Latest(q, s, t) ==
    \E i \in DOMAIN q : /\ News(q[i], s) /\ q[i].temp = t
                        /\ \A j \in DOMAIN q : j > i => ~News(q[j], s)

Informed ==
    \A s \in Slots : \/ Silent(toStm, s) /\ temp[s] = espTemp[s]
                     \/ Latest(toStm, s, espTemp[s])

LEMMA Nothing == DOMAIN <<>> = {}
<1>1. <<>> \in Seq({}) /\ Len(<<>>) = 0
  OBVIOUS
<1>2. DOMAIN <<>> = 1 .. 0
  BY <1>1, LenProperties
<1> QED
  BY <1>2

(* News that is added is the latest; anything else changes nothing.           *)
LEMMA Added ==
    ASSUME NEW q \in Seq(Packets), NEW m \in Packets, NEW s, NEW t
    PROVE  /\ News(m, s) => Latest(Append(q, m), s, m.temp)
           /\ ~News(m, s) /\ Silent(q, s) => Silent(Append(q, m), s)
           /\ ~News(m, s) /\ Latest(q, s, t) => Latest(Append(q, m), s, t)
<1> DEFINE r == Append(q, m)
<1>1. /\ r \in Seq(Packets) /\ Len(q) \in Nat
      /\ DOMAIN q = 1 .. Len(q) /\ DOMAIN r = 1 .. Len(q) + 1
      /\ \A i \in 1 .. Len(q) : r[i] = q[i]
      /\ r[Len(q) + 1] = m
  BY AppendProperties
<1> HIDE DEF r
<1>2. News(m, s) => Latest(r, s, m.temp)
  BY <1>1 DEF Latest
<1>3. ~News(m, s) /\ Silent(q, s) => Silent(r, s)
  BY <1>1 DEF Silent
<1>4. ~News(m, s) /\ Latest(q, s, t) => Latest(r, s, t)
  BY <1>1 DEF Latest
<1> QED
  BY <1>2, <1>3, <1>4 DEF r

(* What is left when the first packet is taken.                               *)
LEMMA Taken ==
    ASSUME NEW q \in Seq(Packets), q # <<>>, NEW s, NEW t
    PROVE  /\ Silent(q, s) => Silent(Tail(q), s) /\ ~News(Head(q), s)
           /\ Latest(q, s, t) => \/ Latest(Tail(q), s, t)
                                 \/ Silent(Tail(q), s) /\ News(Head(q), s) /\ Head(q).temp = t
<1> DEFINE r == Tail(q)
<1>1. /\ Len(q) \in Nat \ {0} /\ DOMAIN q = 1 .. Len(q) /\ DOMAIN r = 1 .. Len(q) - 1
      /\ \A i \in 1 .. Len(q) - 1 : r[i] = q[i + 1]
      /\ Head(q) = q[1]
  BY HeadTailProperties
<1> HIDE DEF r
<1>2. Silent(q, s) => Silent(r, s) /\ ~News(Head(q), s)
  BY <1>1 DEF Silent
<1>3. ASSUME Latest(q, s, t)
      PROVE  Latest(r, s, t) \/ (Silent(r, s) /\ News(Head(q), s) /\ Head(q).temp = t)
  <2>1. PICK i \in DOMAIN q : /\ News(q[i], s) /\ q[i].temp = t
                              /\ \A j \in DOMAIN q : j > i => ~News(q[j], s)
    BY <1>3 DEF Latest
  <2>2. CASE i = 1
    <3>1. \A j \in DOMAIN r : j + 1 \in DOMAIN q /\ j + 1 > i /\ r[j] = q[j + 1]
      BY <1>1, <2>2
    <3> QED
      BY <1>1, <2>1, <2>2, <3>1 DEF Silent
  <2>3. CASE i # 1
    <3>1. i - 1 \in DOMAIN r /\ r[i - 1] = q[i]
      BY <1>1, <2>1, <2>3
    <3>2. \A j \in DOMAIN r : j > i - 1 => j + 1 \in DOMAIN q /\ j + 1 > i /\ r[j] = q[j + 1]
      BY <1>1, <2>1
    <3> QED
      BY <2>1, <3>1, <3>2 DEF Latest
  <2> QED
    BY <2>2, <2>3
<1> QED
  BY <1>2, <1>3 DEF r

LEMMA InformedStep == IInv /\ Informed /\ [Next]_vars => Informed'
<1> SUFFICES ASSUME IInv, Informed, [Next]_vars PROVE Informed'
  OBVIOUS
<1>1. CASE UNCHANGED <<temp, espTemp, toStm>>
  BY <1>1 DEF Informed
<1>2. CASE Receive
  <2> DEFINE m == Head(toStm)
  <2>1. toStm \in Seq(Packets) /\ toStm # <<>> /\ toStm' = Tail(toStm) /\ espTemp' = espTemp
    BY <1>2 DEF IInv, TypeOK, Receive
  <2>2. m \in Packets /\ temp \in [Slots -> Temps]
    BY <2>1, HeadTailProperties DEF IInv, TypeOK
  <2>3. ASSUME NEW s \in Slots
        PROVE  temp'[s] = IF News(m, s) THEN m.temp ELSE temp[s]
    <3>1. CASE m.kind = "temp"
      <4>1. temp' = IF m.temp # "refused" THEN [temp EXCEPT ![m.slot] = m.temp] ELSE temp
        BY <1>2, <3>1 DEF Receive, AckTemp, Apply
      <4> QED
        BY <2>2, <3>1, <4>1 DEF News
    <3>2. CASE m.kind # "temp"
      BY <1>2, <3>2 DEF Receive, Answered, News
    <3> QED
      BY <3>1, <3>2
  <2>4. ASSUME NEW s \in Slots
        PROVE  (Silent(toStm', s) /\ temp'[s] = espTemp'[s]) \/ Latest(toStm', s, espTemp'[s])
    <3>1. CASE Silent(toStm, s) /\ temp[s] = espTemp[s]
      BY <2>1, <2>3, <3>1, Taken
    <3>2. CASE Latest(toStm, s, espTemp[s])
      BY <2>1, <2>3, <3>2, Taken
    <3> QED
      BY <3>1, <3>2 DEF Informed
  <2> QED
    BY <2>4 DEF Informed
<1>3. CASE EspAnswers
  <2> DEFINE m == Head(toEsp)
  <2>1. toStm \in Seq(Packets) /\ espTemp \in [Slots -> Temps] /\ temp' = temp /\ toEsp \in Seq(Asks)
    BY <1>3 DEF IInv, TypeOK, EspAnswers
  <2>2. m \in Asks
    BY <1>3, <2>1, HeadTailProperties DEF EspAnswers
  <2>3. m \in Packets /\ (m.kind = "temp" => m.slot \in Slots /\ m.temp \in Temps)
    BY <2>2, Kinds
  <2>4. \/ m.kind \in Calls /\ toStm' = Append(toStm, m) /\ UNCHANGED espTemp
        \/ /\ m.kind = "temp" /\ toStm' = Append(toStm, m)
           /\ espTemp' = [espTemp EXCEPT ![m.slot] = m.temp]
        \/ /\ m.kind = "temp" /\ UNCHANGED espTemp
           /\ toStm' = Append(toStm, [m EXCEPT !.temp = "refused"])
        \/ UNCHANGED <<toStm, espTemp>>
    BY <1>3 DEF EspAnswers
  <2> HIDE DEF m
  <2>5. CASE m.kind \in Calls /\ toStm' = Append(toStm, m) /\ UNCHANGED espTemp
    <3>1. \A s \in Slots : ~News(m, s)
      BY <2>5, Kinds DEF News
    <3> QED
      BY <2>1, <2>3, <2>5, <3>1, Added DEF Informed
  <2>6. CASE /\ m.kind = "temp" /\ toStm' = Append(toStm, m)
             /\ espTemp' = [espTemp EXCEPT ![m.slot] = m.temp]
    <3>1. ASSUME NEW s \in Slots
          PROVE  (Silent(toStm', s) /\ temp'[s] = espTemp'[s]) \/ Latest(toStm', s, espTemp'[s])
      <4>1. CASE s = m.slot
        <5>1. News(m, s) /\ espTemp'[s] = m.temp
          BY <2>1, <2>3, <2>6, <4>1, PendAssumption DEF News, PendAssumption
        <5> QED
          BY <2>1, <2>3, <2>6, <5>1, Added
      <4>2. CASE s # m.slot
        <5>1. ~News(m, s) /\ espTemp'[s] = espTemp[s]
          BY <2>1, <2>3, <2>6, <4>2 DEF News
        <5> QED
          BY <2>1, <2>3, <2>6, <5>1, Added DEF Informed
      <4> QED
        BY <4>1, <4>2
    <3> QED
      BY <3>1 DEF Informed
  <2>7. CASE /\ m.kind = "temp" /\ UNCHANGED espTemp
             /\ toStm' = Append(toStm, [m EXCEPT !.temp = "refused"])
    <3> DEFINE n == [m EXCEPT !.temp = "refused"]
    <3>1. n = [kind |-> "temp", slot |-> m.slot, temp |-> "refused"]
      BY <2>2, <2>7, Kinds
    <3>2. n \in Packets /\ n.temp = "refused"
      BY <2>3, <2>7, <3>1 DEF Packets
    <3> HIDE DEF n
    <3>3. \A s \in Slots : ~News(n, s)
      BY <3>2 DEF News
    <3>4. toStm' = Append(toStm, n)
      BY <2>7 DEF n
    <3> QED
      BY <2>1, <2>7, <3>2, <3>3, <3>4, Added DEF Informed
  <2>8. CASE UNCHANGED <<toStm, espTemp>>
    BY <2>1, <2>8 DEF Informed
  <2> QED
    BY <2>4, <2>5, <2>6, <2>7, <2>8
<1> QED
  BY <1>1, <1>2, <1>3 DEF Next, Callers, Servicer, SetTemperatureGroup, SetTemperature, TellEsp,
     MakeCall, Leave, Post, PostLost, SendActive, SendDone, Interrupted, vars

(* When all is quiet the two sides agree on every temperature, whichever      *)
(* requests were repeated, refused or never answered.                         *)
THEOREM SidesAgree == Spec => []Agreed
<1>1. Init => Informed
  <2>1. ASSUME NEW s PROVE Silent(<<>>, s)
    BY Nothing DEF Silent
  <2>2. Init => \A s \in Slots : temp[s] = espTemp[s]
    BY DEF Init
  <2> QED
    BY <2>1, <2>2 DEF Init, Informed
<1>2. IInv /\ Informed => Agreed
  <2>1. SUFFICES ASSUME IInv, Informed, Settled PROVE temp = espTemp
    BY DEF Agreed
  <2>2. \A s \in Slots : temp[s] = espTemp[s]
    <3>1. toStm = <<>> /\ \A s, t : ~Latest(<<>>, s, t)
      BY <2>1, Nothing DEF Settled, Latest
    <3> QED
      BY <2>1, <3>1 DEF Informed
  <2> QED
    BY <2>1, <2>2 DEF IInv, TypeOK
<1> QED
  BY <1>1, <1>2, InformedStep, Invariant, PTL DEF Spec
=============================================================================
