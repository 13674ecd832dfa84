------------------------ MODULE PacketHandoffProofs ------------------------
(***************************************************************************)
(* The safety properties of PacketHandoff hold for every set of slots,     *)
(* every number of attempts and every queue length.                        *)
(***************************************************************************)
EXTENDS PacketHandoff, TLAPS

\* What every expression the actions build is made of.
LEMMA PacketTypes ==
  /\ Unsolicited \in Packets
  /\ Replies \subseteq Packets
  /\ \A k \in Kinds, s \in Slots : Packet(k, s) \in Replies
  /\ \A p \in Replies : After(p) \subseteq Replies
<1>1. Replies \subseteq Packets /\ Unsolicited \in Packets
  BY DEF Replies, Packets
<1>2. \A k \in Kinds, s \in Slots : Packet(k, s) \in Replies
  BY DEF Packet, Replies
<1>3. ASSUME NEW p \in Replies PROVE After(p) \subseteq Replies
  <2>1. p.slot \in Slots
    BY DEF Replies
  <2>2. QED
    BY <1>2, <2>1 DEF After, Kinds
<1>4. QED
  BY <1>1, <1>2, <1>3

\* The filters the dupm installs are filters, none of them the empty one.
LEMMA FilterTypes ==
  ASSUME slot \in Slots
  PROVE  NextFilter \in Filters /\ NextFilter # NoFilter
<1>1. \A ks \in SUBSET Kinds : Filter(ks, slot) \in Filters
  BY DEF Filter, Filters
<1>2. \A ks \in SUBSET Kinds : ks # {} => Filter(ks, slot) # NoFilter
  BY DEF Filter, NoFilter
<1>3. QED
  BY <1>1, <1>2 DEF NextFilter, Kinds

\* A task that has read nothing and tried nothing.
LEMMA StartTypes == <<>> \in Seq(Packets) /\ 0 \in 0..(MaxTries - 1)
  BY HandoffAssumption DEF HandoffAssumption

LEMMA InitInv == Init => IInv
<1> SUFFICES ASSUME Init PROVE IInv
  OBVIOUS
<1> USE DEF Init
<1>1. TypeOK
  <2>1. NoFilter \in Filters
    BY DEF Filters
  <2>2. QED
    BY <2>1, StartTypes, PacketTypes DEF TypeOK, DupmPCs, SrvPCs
<1>2. HoldMatchesMutex /\ BufferLent /\ RegistrationNotWiped
  BY DEF HoldMatchesMutex, BufferLent, RegistrationNotWiped, Lent
<1>3. DupmInv /\ NotifyInv
  BY DEF DupmInv, NotifyInv, Lent
<1>4. QED
  BY <1>1, <1>2, <1>3 DEF IInv

\* Types are kept by the dupm's steps ...
LEMMA DupmKeepsTypes == TypeOK /\ Dupm => TypeOK'
<1> SUFFICES ASSUME TypeOK, Dupm PROVE TypeOK'
  OBVIOUS
<1> USE DEF TypeOK, dupmVars, sharedVars, srvVars, linkVars, DupmPCs
<1>1. ASSUME NEW o \in {"store", "retrieve"}, NEW s \in Slots, Begin(o, s)
      PROVE  TypeOK'
  BY <1>1, HandoffAssumption DEF HandoffAssumption, Begin
<1>2. CASE Hold
  BY <1>2 DEF Hold
<1>3. CASE Send
  BY <1>3, PacketTypes DEF Send, Kinds
<1>4. CASE Arm
  BY <1>4, FilterTypes DEF Arm
<1>5. CASE Release
  BY <1>5 DEF Release
<1>6. CASE Wake
  BY <1>6 DEF Wake, Filters
<1>7. CASE Timeout
  BY <1>7, HandoffAssumption DEF HandoffAssumption, Timeout, Filters
<1>8. CASE Read
  BY <1>8 DEF Read
<1>9. CASE FinishNotify
  BY <1>9 DEF FinishNotify
<1>10. CASE FinishClear
  <2>1. dpc' \in DupmPCs /\ tries' \in 0..(MaxTries - 1)
    BY <1>10, HandoffAssumption DEF HandoffAssumption, FinishClear
  <2>2. QED
    BY <1>10, <2>1 DEF FinishClear
<1>11. QED
  BY <1>1, <1>2, <1>3, <1>4, <1>5, <1>6, <1>7, <1>8, <1>9, <1>10 DEF Dupm

\* ... by the servicer's ...
LEMMA ServicerKeepsTypes == TypeOK /\ Servicer => TypeOK'
<1> SUFFICES ASSUME TypeOK, Servicer PROVE TypeOK'
  OBVIOUS
<1> USE DEF TypeOK, dupmVars, sharedVars, srvVars, linkVars, SrvPCs
<1>1. CASE Receive
  <2>1. rxbuf' \in Packets /\ rx' \in Seq(Packets)
    BY <1>1 DEF Receive
  <2>2. QED
    BY <1>1, <2>1 DEF Receive
<1>2. CASE Take
  BY <1>2 DEF Take
<1>3. CASE Look
  BY <1>3 DEF Look
<1>4. CASE Call
  BY <1>4 DEF Call, Wants
<1>5. CASE CallNull
  <2>1. dpc' \in DupmPCs
    BY <1>5 DEF CallNull, DupmPCs
  <2>2. QED
    BY <1>5, <2>1, StartTypes, PacketTypes DEF CallNull
<1>6. CASE Give
  BY <1>6 DEF Give
<1>7. CASE HandOver
  BY <1>7 DEF HandOver
<1>8. CASE Ring
  BY <1>8 DEF Ring
<1>9. CASE Resume
  BY <1>9 DEF Resume
<1>10. CASE ProcessPacket
  BY <1>10 DEF ProcessPacket
<1>11. QED
  BY <1>1, <1>2, <1>3, <1>4, <1>5, <1>6, <1>7, <1>8, <1>9, <1>10 DEF Servicer

\* ... and by the link's.
LEMMA LinkKeepsTypes == TypeOK /\ Link => TypeOK'
<1> SUFFICES ASSUME TypeOK, Link PROVE TypeOK'
  OBVIOUS
<1> USE DEF TypeOK, dupmVars, sharedVars, srvVars
<1>1. ASSUME NEW p \in owed, Deliver(p) PROVE TypeOK'
  <2>1. p \in Packets /\ After(p) \subseteq Replies
    BY PacketTypes
  <2>2. Append(rx, p) \in Seq(Packets)
    BY <2>1
  <2>3. QED
    BY <1>1, <2>1, <2>2 DEF Deliver
<1>2. ASSUME NEW p \in owed, Lose(p) PROVE TypeOK'
  BY <1>2, PacketTypes DEF Lose
<1>3. CASE Intrude
  BY <1>3, PacketTypes DEF Intrude
<1>4. QED
  BY <1>1, <1>2, <1>3 DEF Link

\* The rest of the invariant is kept by every step of the dupm: the mutex, the
\* filter and the notifications move together.
LEMMA DupmKeepsInv == IInv /\ Dupm => IInv'
<1> SUFFICES ASSUME IInv, Dupm PROVE IInv'
  OBVIOUS
<1> DEFINE Rest == HoldMatchesMutex /\ BufferLent /\ RegistrationNotWiped /\ DupmInv /\ NotifyInv
<1> TypeOK /\ Rest
  BY DEF IInv
<1> USE DEF HoldMatchesMutex, BufferLent, RegistrationNotWiped, DupmInv, NotifyInv, Lent,
            dupmVars, sharedVars, srvVars, linkVars
<1>1. ASSUME NEW o \in {"store", "retrieve"}, NEW s \in Slots, Begin(o, s)
      PROVE  Rest'
  BY <1>1 DEF Begin
<1>2. ASSUME Hold PROVE Rest'
  BY <1>2 DEF Hold, NextFilter, TypeOK
<1>3. ASSUME Send PROVE Rest'
  BY <1>3 DEF Send, NextFilter, TypeOK
<1>4. ASSUME Arm PROVE Rest'
  BY <1>4 DEF Arm, NextFilter, TypeOK
<1>5. ASSUME Release PROVE Rest'
  BY <1>5 DEF Release, NextFilter, TypeOK
<1>6. ASSUME Wake PROVE Rest'
  BY <1>6 DEF Wake, NextFilter, TypeOK
<1>7. ASSUME Timeout PROVE Rest'
  BY <1>7 DEF Timeout, NextFilter, TypeOK
<1>8. ASSUME Read PROVE Rest'
  BY <1>8 DEF Read, NextFilter, TypeOK
<1>9. ASSUME FinishNotify PROVE Rest'
  BY <1>9 DEF FinishNotify, NextFilter, TypeOK
<1>10. ASSUME FinishClear PROVE Rest'
  BY <1>10 DEF FinishClear, NextFilter, TypeOK
<1>11. QED
  BY DupmKeepsTypes, <1>1, <1>2, <1>3, <1>4, <1>5, <1>6, <1>7, <1>8, <1>9, <1>10 DEF Dupm, IInv

LEMMA ServicerKeepsInv == IInv /\ Servicer => IInv'
<1> SUFFICES ASSUME IInv, Servicer PROVE IInv'
  OBVIOUS
<1> DEFINE Rest == HoldMatchesMutex /\ BufferLent /\ RegistrationNotWiped /\ DupmInv /\ NotifyInv
<1> TypeOK /\ Rest
  BY DEF IInv
<1> USE DEF HoldMatchesMutex, BufferLent, RegistrationNotWiped, DupmInv, NotifyInv, Lent,
            dupmVars, sharedVars, srvVars, linkVars
<1>1. ASSUME Receive PROVE Rest'
  BY <1>1 DEF Receive, NextFilter, TypeOK
<1>2. ASSUME Take PROVE Rest'
  BY <1>2 DEF Take, NextFilter, TypeOK
<1>3. ASSUME Look PROVE Rest'
  BY <1>3 DEF Look, NextFilter, TypeOK
<1>4. ASSUME Call PROVE Rest'
  BY <1>4 DEF Call, NextFilter, TypeOK
<1>5. ASSUME CallNull PROVE Rest'
  BY <1>5 DEF CallNull, NextFilter, TypeOK
<1>6. ASSUME Give PROVE Rest'
  BY <1>6 DEF Give, NextFilter, TypeOK
<1>7. ASSUME HandOver PROVE Rest'
  BY <1>7 DEF HandOver, NextFilter, TypeOK
<1>8. ASSUME Ring PROVE Rest'
  BY <1>8 DEF Ring, NextFilter, TypeOK
<1>9. ASSUME Resume PROVE Rest'
  BY <1>9 DEF Resume, NextFilter, TypeOK
<1>10. ASSUME ProcessPacket PROVE Rest'
  BY <1>10 DEF ProcessPacket, NextFilter, TypeOK
<1>11. QED
  BY ServicerKeepsTypes, <1>1, <1>2, <1>3, <1>4, <1>5, <1>6, <1>7, <1>8, <1>9, <1>10 DEF Servicer, IInv

LEMMA LinkKeepsInv == IInv /\ (Link \/ UNCHANGED vars) => IInv'
<1> SUFFICES ASSUME IInv, Link \/ UNCHANGED vars PROVE IInv'
  OBVIOUS
<1>1. UNCHANGED <<dupmVars, sharedVars, srvVars>>
  BY DEF Link, Deliver, Lose, Intrude, vars
<1>2. TypeOK'
  <2>1. CASE Link
    BY <2>1, LinkKeepsTypes DEF IInv
  <2>2. CASE UNCHANGED vars
    BY <2>2 DEF IInv, TypeOK, vars, dupmVars, sharedVars, srvVars, linkVars
  <2>3. QED
    BY <2>1, <2>2
<1>3. (HoldMatchesMutex /\ BufferLent /\ RegistrationNotWiped)'
  BY <1>1 DEF IInv, HoldMatchesMutex, BufferLent, RegistrationNotWiped, Lent,
              dupmVars, sharedVars, srvVars
<1>4. (DupmInv /\ NotifyInv)'
  BY <1>1 DEF IInv, DupmInv, NotifyInv, NextFilter, Lent, dupmVars, sharedVars, srvVars
<1>5. QED
  BY <1>2, <1>3, <1>4 DEF IInv

\* The invariant is inductive.
THEOREM Inductive == Spec => []IInv
<1>1. IInv /\ [Next]_vars => IInv'
  BY DupmKeepsInv, ServicerKeepsInv, LinkKeepsInv DEF Next
<1>2. QED
  BY InitInv, <1>1, PTL DEF Spec

\* Every variable of the hand-over keeps its type.
THEOREM TypeCorrect == Spec => []TypeOK
<1>1. IInv => TypeOK
  BY DEF IInv
<1>2. QED
  BY Inductive, <1>1, PTL

\* The flag of the critical wait state always agrees with the mutex.
THEOREM MutexDiscipline == Spec => []HoldMatchesMutex
<1>1. IInv => HoldMatchesMutex
  BY DEF IInv
<1>2. QED
  BY Inductive, <1>1, PTL

\* The servicer's buffer is left alone while the dupm reads it.
THEOREM BufferSafe == Spec => []BufferLent
<1>1. IInv => BufferLent
  BY DEF IInv
<1>2. QED
  BY Inductive, <1>1, PTL

\* Answering one packet never wipes the registration for another.
THEOREM RegistrationSafe == Spec => []RegistrationNotWiped
<1>1. IInv => RegistrationNotWiped
  BY DEF IInv
<1>2. QED
  BY Inductive, <1>1, PTL

\* An answer that was asked for under the mutex is never turned away.
THEOREM HeldReplies == Spec => HeldReplyNotMissed
<1>1. IInv /\ [Next]_vars => [TurnsAway => ~AskedUnderHold(rxbuf)]_vars
  <2> SUFFICES ASSUME IInv, Next, TurnsAway PROVE ~AskedUnderHold(rxbuf)
    OBVIOUS
  <2>1. Look \/ Call
    BY DEF TurnsAway, Next, Dupm, Servicer, Link, Begin, Hold, Send, Arm, Release, Wake,
           Timeout, Read, FinishNotify, FinishClear, Receive, Take, CallNull, Give,
           HandOver, Ring, Resume, ProcessPacket, Deliver, Lose, Intrude, srvVars
  <2>2. ~active
    BY DEF IInv, HoldMatchesMutex, TurnsAway
  <2>3. SUFFICES ASSUME dpc = "wait" PROVE ~Wants(NextFilter, rxbuf)
    BY <2>2 DEF AskedUnderHold, IInv, DupmInv
  <2>4. pending = NextFilter /\ NextFilter # NoFilter
    BY <2>3, FilterTypes DEF IInv, DupmInv, TypeOK
  <2>5. CASE Look
    BY <2>4, <2>5 DEF Look, TurnsAway
  <2>6. CASE Call
    BY <2>4, <2>6 DEF Call, TurnsAway
  <2>7. QED
    BY <2>1, <2>5, <2>6
<1>2. QED
  BY Inductive, <1>1, PTL DEF Spec, HeldReplyNotMissed

\* Where the buffer is, as the invariant lets it be read off ...
Where ==
  /\ holder \in {"servicer", "offered", "dupm", "returned", "forgotten"}
  /\ holder = "dupm" <=> Lent
  /\ holder = "servicer" <=> spc # "await"
  /\ holder = "returned" <=> spc = "await" /\ ok
  /\ holder = "offered" <=> spc = "await" /\ note

LEMMA Places == IInv => Where
<1> SUFFICES ASSUME IInv PROVE Where
  OBVIOUS
<1>1. BufferLent /\ (note => spc = "await" /\ ~ok /\ ~Lent) /\ (ok => ~Lent)
  BY DEF IInv, NotifyInv
<1>2. CASE Lent
  BY <1>1, <1>2 DEF Where, holder, BufferLent
<1>3. CASE ~Lent /\ spc # "await"
  BY <1>1, <1>3 DEF Where, holder, IInv, NotifyInv
<1>4. CASE ~Lent /\ spc = "await"
  BY <1>1, <1>4 DEF Where, holder
<1>5. QED
  BY <1>2, <1>3, <1>4

\* ... before and after a step.
LEMMA PlacesAfter == IInv' => Where'
  BY Places, PTL

\* The manager accepts an offer by waking, answers it when it has finished, and
\* forgets it when it waits anew; nothing else it does is seen of the buffer.
LEMMA DupmLends == IInv /\ IInv' /\ Dupm => Buffer!Next \/ UNCHANGED <<rxbuf, holder>>
<1> SUFFICES ASSUME IInv, IInv', Dupm PROVE Buffer!Next \/ UNCHANGED <<rxbuf, holder>>
  OBVIOUS
<1>1. UNCHANGED srvVars
  BY DEF Dupm, Begin, Hold, Send, Arm, Release, Wake, Timeout, Read, FinishNotify, FinishClear
<1>2. rxbuf' = rxbuf /\ spc' = spc
  BY <1>1 DEF srvVars
<1>3. Where /\ Where'
  BY Places, PlacesAfter
<1>4. CASE Wake
  <2>1. note /\ Lent' /\ ~Lent
    BY <1>4 DEF Wake, Lent
  <2>2. spc = "await"
    BY <2>1 DEF IInv, NotifyInv
  <2>3. holder = "offered" /\ holder' = "dupm"
    BY <1>3, <2>1, <2>2 DEF Where
  <2>4. QED
    BY <1>2, <2>3 DEF Buffer!Next, Buffer!Accept, Buffer!Passes
<1>5. CASE FinishNotify
  <2>1. Lent /\ ok' = (ok \/ waiting)
    BY <1>5 DEF FinishNotify, Lent
  <2>2. spc = "await" /\ ok'
    BY <2>1 DEF IInv, BufferLent
  <2>3. holder = "dupm" /\ holder' = "returned"
    BY <1>2, <1>3, <2>1, <2>2 DEF Where
  <2>4. QED
    BY <1>2, <2>3 DEF Buffer!Next, Buffer!Answer, Buffer!Passes
<1>6. CASE Release
  <2>1. note' = FALSE /\ ok' = ok /\ ~Lent /\ ~Lent'
    BY <1>6 DEF Release, Lent
  <2>2. CASE holder = "offered"
    <3>1. spc = "await" /\ ~ok
      BY <1>3, <2>2 DEF Where
    <3>2. holder' = "forgotten"
      BY <1>2, <1>3, <2>1, <3>1 DEF Where
    <3>3. QED
      BY <1>2, <2>2, <3>2 DEF Buffer!Next, Buffer!Forget, Buffer!Passes
  <2>3. CASE holder # "offered"
    <3>1. spc = "await" => ~note
      BY <1>3, <2>3 DEF Where
    <3>2. holder' = holder
      BY <1>2, <1>3, <2>1, <3>1 DEF Where
    <3>3. QED
      BY <1>2, <3>2
  <2>4. QED
    BY <2>2, <2>3
<1>7. CASE (\E o \in {"store", "retrieve"}, s \in Slots : Begin(o, s)) \/ Hold \/ Send \/ Arm
           \/ Timeout \/ Read \/ FinishClear
  <2>1. note' = note /\ ok' = ok
    BY <1>7 DEF Begin, Hold, Send, Arm, Timeout, Read, FinishClear, sharedVars
  <2>2. op = "store" => phase = "ask"
    BY DEF IInv, DupmInv
  <2>3. op \in {"store", "retrieve"} /\ phase \in {"ask", "frames", "done"}
    BY DEF IInv, TypeOK
  <2>4. Lent' = Lent
    <3>1. CASE \E o \in {"store", "retrieve"}, s \in Slots : Begin(o, s)
      BY <3>1 DEF Begin, Lent
    <3>2. CASE Hold
      BY <2>2, <2>3, <3>2 DEF Hold, Lent, IInv, DupmInv
    <3>3. CASE Send
      BY <3>3, <2>3 DEF Send, Lent, IInv, DupmInv
    <3>4. CASE Arm
      BY <3>4 DEF Arm, Lent
    <3>5. CASE Timeout
      BY <2>2, <3>5 DEF Timeout, Lent
    <3>6. CASE Read
      BY <3>6 DEF Read, Lent
    <3>7. CASE FinishClear
      BY <2>2, <3>7 DEF FinishClear, Lent
    <3>8. QED
      BY <1>7, <3>1, <3>2, <3>3, <3>4, <3>5, <3>6, <3>7
  <2>5. holder' = holder
    BY <1>2, <1>3, <2>1, <2>4 DEF Where
  <2>6. QED
    BY <1>2, <2>5
<1>8. QED
  BY <1>4, <1>5, <1>6, <1>7 DEF Dupm

\* The servicer fills the buffer, offers it and takes it back.
LEMMA ServicerLends == IInv /\ IInv' /\ Servicer => Buffer!Next \/ UNCHANGED <<rxbuf, holder>>
<1> SUFFICES ASSUME IInv, IInv', Servicer PROVE Buffer!Next \/ UNCHANGED <<rxbuf, holder>>
  OBVIOUS
<1>1. Where /\ Where'
  BY Places, PlacesAfter
<1>2. CASE Receive \/ CallNull
  <2>1. spc # "await" /\ spc' # "await"
    BY <1>2 DEF Receive, CallNull
  <2>2. rxbuf' \in Packets
    BY DEF IInv, TypeOK
  <2>3. QED
    BY <1>1, <2>1, <2>2 DEF Where, Buffer!Next, Buffer!Fill
<1>3. CASE Ring
  <2>1. spc # "await" /\ spc' = "await" /\ note' /\ rxbuf' = rxbuf
    BY <1>3 DEF Ring
  <2>2. QED
    BY <1>1, <2>1 DEF Where, Buffer!Next, Buffer!Offer, Buffer!Passes
<1>4. CASE Resume
  <2>1. spc = "await" /\ ok /\ spc' # "await" /\ rxbuf' = rxbuf
    BY <1>4 DEF Resume
  <2>2. QED
    BY <1>1, <2>1 DEF Where, Buffer!Next, Buffer!TakeBack, Buffer!Passes
<1>5. CASE Take \/ Look \/ Call \/ Give \/ HandOver \/ ProcessPacket
  <2>1. spc # "await" /\ spc' # "await" /\ rxbuf' = rxbuf
    BY <1>5 DEF Take, Look, Call, Give, HandOver, ProcessPacket
  <2>2. QED
    BY <1>1, <2>1 DEF Where
<1>6. QED
  BY <1>2, <1>3, <1>4, <1>5 DEF Servicer

\* The two tasks share the receive buffer as SharedBuffer has it.
THEOREM SharesBuffer == Spec => LendsBuffer
<1>1. Init => Buffer!Init
  <2> SUFFICES ASSUME Init PROVE Buffer!Init
    OBVIOUS
  <2>1. rxbuf \in Packets /\ spc # "await" /\ IInv
    BY InitInv DEF Init, IInv, TypeOK
  <2>2. QED
    BY <2>1, Places DEF Where, Buffer!Init
<1>2. IInv /\ IInv' /\ [Next]_vars => [Buffer!Next]_<<rxbuf, holder>>
  <2> SUFFICES ASSUME IInv, IInv', [Next]_vars PROVE Buffer!Next \/ UNCHANGED <<rxbuf, holder>>
    OBVIOUS
  <2>1. CASE Link \/ UNCHANGED vars
    <3>1. UNCHANGED <<dupmVars, sharedVars, srvVars>>
      BY <2>1 DEF Link, Deliver, Lose, Intrude, vars
    <3>2. QED
      BY <3>1 DEF holder, Lent, dupmVars, sharedVars, srvVars
  <2>2. QED
    BY <2>1, DupmLends, ServicerLends DEF Next
<1>3. QED
  BY Inductive, <1>1, <1>2, PTL DEF Spec, LendsBuffer, Buffer!Spec

\* process_input_packet waits for an answer without a timeout, and a wait of the
\* manager starts by forgetting the notifications before it (dupm.cpp 87).  So
\* a packet that comes as a wait gives up parks the servicer: once the manager
\* has begun another wait, no step of either task lets the servicer go on.
THEOREM ParkedForGood == Spec => [][holder = "forgotten" => holder' = "forgotten"]_vars
<1>1. [Buffer!Next]_<<rxbuf, holder>> => (holder = "forgotten" => holder' = "forgotten")
  BY DEF Buffer!Next, Buffer!Fill, Buffer!Offer, Buffer!Accept, Buffer!Forget, Buffer!Answer,
         Buffer!TakeBack, Buffer!Passes
<1>2. QED
  BY SharesBuffer, <1>1, PTL DEF LendsBuffer, Buffer!Spec
=============================================================================
