---------------------------- MODULE SlotSyncProofs ----------------------------
(* Types of the slot protocol, for every size of slot, queue and wire; custody: *)
(* data always has a holder, whatever the wire loses; and what is in the cells. *)
(*                                                                            *)
(* Custody rests on there being one exchange at a time.  What is on its way   *)
(* belongs to the wait the manager is in, and an acknowledgement is on its    *)
(* way only when everything sent before it has arrived: so one that says a    *)
(* cell was stored is still true when it is read.                             *)
(*                                                                            *)
(* That the halves of a cell are of one write rests on the wire carrying      *)
(* nothing but what the manager is at work on (Sound).  That no write is lost *)
(* rests on knowing who has the last good copy of a cell at each step of an   *)
(* exchange, and on the other copies being older (Right).                     *)
EXTENDS SlotSync, SequenceTheorems, FiniteSetTheorems, WellFoundedInduction, TLAPS

-----------------------------------------------------------------------------
(* Types                                                                     *)

Half == 0..MaxWrites
Codes == Outcomes \ {"timeout"}
CellSet(locs) == [loc : locs, dirty : BOOLEAN, data : Half \X Half]
EspCell == CellSet({"canonical", "remote"})
StmCell == CellSet({"canonical", "ephemeral", "remote"})

Asked == [k : {"askTemp"}, temp : Temps] \cup [k : {"request"}, cell : Cells]
Pending == Asked \cup [k : {"patch"}, cell : Cells, val : Half, mark : BOOLEAN]
                 \cup [k : {"trigger"}] \cup [k : {"size"}, n : Sizes]
ForStm == [k : {"store1", "store2", "fulfill1", "fulfill2"}, cell : Cells, val : Half]
            \cup [k : {"setSize"}, n : Sizes] \cup [k : {"retrieve", "ackData"}, cell : Cells]
            \cup [k : {"temp"}, temp : Temps] \cup [k : {"ackTemp"}, temp : Temps \cup {"nak"}]
ForEsp == Asked \cup [k : {"ackStore", "ackFulfill"}, cell : Cells, code : Codes]
                \cup [k : {"ackSize"}, n : Sizes] \cup [k : {"ackRetrieve"}, cell : Cells]
                \cup [k : {"data1", "data2"}, cell : Cells, val : Half]
Job == [cell : Nat, tries : Nat, temp : Temps \cup {"none"}, pass : {0, 1}, tight : BOOLEAN,
        data : Half \X Half, size : Sizes \cup {0}, grow : {"no", "done", "local", "remote"}]

TypedEsp ==
  /\ esp \in Seq(EspCell) /\ Len(esp) \in Sizes
  /\ espTemp \in Temps \cup {"none", "wants"}
  /\ pc \in Waiting \cup {"idle", "sweep", "heating"} /\ job \in Job
TypedStm ==
  /\ stm \in Seq(StmCell) /\ Len(stm) \in Sizes
  /\ stmTemp \in Temps \cup {"none"} /\ err \in Codes
  /\ request \in Temps \cup {"none"} /\ sends \in 0..3
TypedWire ==
  /\ queue \in Seq(Pending) /\ Len(queue) <= QueueLen
  /\ toStm \in Seq(ForStm) /\ toEsp \in Seq(ForEsp)
  /\ faults \in 0..MaxFaults
TypedApp ==
  /\ writes \in 0..MaxWrites /\ resizes \in 0..MaxResizes
  /\ due \in [Cells -> Half] /\ kept \in [Cells -> Half]

Typed == TypedEsp /\ TypedStm /\ TypedWire /\ TypedApp

(* What a handler knows of the cell or the size it is at work on.             *)
AtWork ==
  /\ pc \in Storing \cup {"retrieve", "frames"} => job.cell \in DOMAIN esp
  /\ pc \in {"heat", "move", "flush", "retrieve", "frames"} => esp[job.cell].loc = "canonical"
  /\ pc = "grow" => job.cell = Len(esp) /\ Len(esp) = MinSize + 1
  /\ pc \in {"size", "undo"} => job.size \in Sizes /\ job.size >= Len(esp)
  /\ pc = "size" /\ job.grow # "done" => Len(esp) = MinSize
  /\ pc \in {"heat", "heating"} => job.temp \in {"warm", "hot"}

-----------------------------------------------------------------------------
(* One exchange at a time                                                    *)

Acks == {"ackStore", "ackFulfill", "ackSize", "ackRetrieve"}

(* The packets that are part of an exchange, and those that end its request.  *)
Expected(p) ==
  /\ p.k \in {"store1", "store2"} => pc \in Storing \ {"flush"} /\ p.cell = job.cell
  /\ p.k \in {"fulfill1", "fulfill2"} => pc = "flush" /\ p.cell = job.cell
  /\ p.k = "setSize" => pc \in {"size", "undo"} /\ p.n = job.size
  /\ p.k = "retrieve" => pc = "retrieve" /\ p.cell = job.cell
Closing == {"store2", "fulfill2", "setSize", "retrieve"}

OneExchange ==
  /\ \A i \in DOMAIN toStm : Expected(toStm[i]) /\ (toStm[i].k \in Closing => i = Len(toStm))
  /\ \A i \in DOMAIN toEsp : toEsp[i].k \in Acks =>
       /\ Wanted(toEsp[i]) /\ toStm = <<>>
       /\ \A j \in DOMAIN toEsp : toEsp[j].k \in Acks => j = i
  /\ pc = "frames" => toStm = <<>>

-----------------------------------------------------------------------------
(* Who holds what                                                            *)

Holds(c) == c \in DOMAIN stm /\ stm[c].loc = "canonical"

Held ==
  /\ \A c \in DOMAIN esp : esp[c].loc = "remote" /\ ~(pc = "grow" /\ job.cell = c) => Holds(c)
  /\ \A i \in DOMAIN toEsp :
       /\ toEsp[i].k = "ackStore" /\ toEsp[i].code = "ok" => Holds(toEsp[i].cell)
       /\ toEsp[i].k = "ackRetrieve" => Holds(toEsp[i].cell)
  /\ pc = "frames" => Holds(job.cell)
  /\ \A i \in DOMAIN toStm : toStm[i].k = "ackData" =>
       \A c \in DOMAIN esp : c = toStm[i].cell => esp[c].loc # "remote"

-----------------------------------------------------------------------------
(* Sequences                                                                 *)

LEMMA TailOf ==
    ASSUME NEW S, NEW s \in Seq(S), s # <<>>, NEW t, t = Tail(s)
    PROVE  /\ t \in Seq(S) /\ Len(t) \in Nat /\ Len(s) = Len(t) + 1
           /\ Head(s) = s[1] /\ 1 \in DOMAIN s /\ Head(s) \in S
           /\ \A i \in DOMAIN t : i \in Nat /\ i + 1 \in DOMAIN s /\ t[i] = s[i + 1]
<1>1. Len(s) \in Nat \ {0} /\ DOMAIN s = 1 .. Len(s)
  BY EmptySeq, LenProperties
<1>2. t \in Seq(S) /\ Len(t) = Len(s) - 1
  BY HeadTailProperties
<1>3. DOMAIN t = 1 .. Len(s) - 1
  BY <1>2, LenProperties
<1> QED
  BY <1>1, <1>2, <1>3, HeadTailProperties, ElementOfSeq

LEMMA Joined ==
    ASSUME NEW S, NEW s \in Seq(S), NEW ps \in Seq(S)
    PROVE  /\ s \o ps \in Seq(S) /\ Len(s \o ps) = Len(s) + Len(ps)
           /\ \A i \in DOMAIN (s \o ps) :
                \/ i \in DOMAIN s /\ (s \o ps)[i] = s[i]
                \/ \E j \in DOMAIN ps : i = Len(s) + j /\ (s \o ps)[i] = ps[j]
<1>1. s \o ps \in Seq(S) /\ Len(s \o ps) = Len(s) + Len(ps)
  BY ConcatProperties
<1>2. Len(s) \in Nat /\ Len(ps) \in Nat /\ DOMAIN s = 1 .. Len(s) /\ DOMAIN ps = 1 .. Len(ps)
      /\ DOMAIN (s \o ps) = 1 .. Len(s) + Len(ps)
  BY <1>1, LenProperties
<1>3. ASSUME NEW i \in 1 .. Len(s) + Len(ps)
      PROVE  \/ i \in DOMAIN s /\ (s \o ps)[i] = s[i]
             \/ \E j \in DOMAIN ps : i = Len(s) + j /\ (s \o ps)[i] = ps[j]
  <2>1. (s \o ps)[i] = IF i <= Len(s) THEN s[i] ELSE ps[i - Len(s)]
    BY ConcatProperties
  <2>2. CASE i <= Len(s)
    BY <1>2, <2>1, <2>2
  <2>3. CASE i > Len(s)
    <3>1. Len(s) \in Int /\ Len(ps) \in Int
      BY <1>2
    <3>2. i - Len(s) \in 1 .. Len(ps)
      BY <2>3, <3>1
    <3> QED
      BY <1>2, <2>1, <2>3, <3>1, <3>2
  <2> QED
    BY <1>2, <2>2, <2>3
<1> QED
  BY <1>1, <1>2, <1>3

(* An update of some members.                                                 *)
LEMMA Changed ==
    ASSUME NEW S, NEW T, NEW s \in Seq(S), NEW t, t = [i \in DOMAIN s |-> t[i]],
           \A i \in DOMAIN s : t[i] \in T
    PROVE  t \in Seq(T) /\ Len(t) = Len(s) /\ DOMAIN t = DOMAIN s
<1>1. DOMAIN s = 1 .. Len(s) /\ Len(s) \in Nat
  BY LenProperties
<1>2. t \in [1 .. Len(s) -> T]
  BY <1>1
<1>3. t \in Seq(T)
  BY <1>1, <1>2, SeqDef
<1> QED
  BY <1>1, <1>2, <1>3, LenProperties

LEMMA Pair ==
    ASSUME NEW x \in Half \X Half, NEW v \in Half
    PROVE  [x EXCEPT ![1] = v] \in Half \X Half /\ [x EXCEPT ![2] = v] \in Half \X Half
  OBVIOUS

-----------------------------------------------------------------------------
(* Packets                                                                   *)

LEMMA Known ==
    ASSUME Typed
    PROVE  /\ MinSize \in Nat /\ MaxWrites \in Nat /\ 0 \in Half /\ Junk \in Half \X Half
           /\ Len(esp) \in Nat /\ DOMAIN esp = 1 .. Len(esp) /\ DOMAIN esp \subseteq Cells
           /\ Len(stm) \in Nat /\ DOMAIN stm = 1 .. Len(stm) /\ DOMAIN stm \subseteq Cells
           /\ \A c \in DOMAIN esp : esp[c] \in EspCell /\ c \in Nat
           /\ \A c \in DOMAIN stm : stm[c] \in StmCell /\ c \in Nat
<1>1. /\ esp \in Seq(EspCell) /\ stm \in Seq(StmCell)
      /\ Len(esp) \in {MinSize, MinSize + 1} /\ Len(stm) \in {MinSize, MinSize + 1}
  BY DEF Typed, TypedEsp, TypedStm, Sizes
<1>2. DOMAIN esp = 1 .. Len(esp) /\ DOMAIN stm = 1 .. Len(stm)
  BY <1>1, LenProperties
<1>3. (\A c \in DOMAIN esp : esp[c] \in EspCell) /\ \A c \in DOMAIN stm : stm[c] \in StmCell
  BY <1>1, <1>2, ElementOfSeq
<1>4. MinSize \in Nat /\ MaxWrites \in Nat /\ 0 \in Half /\ Junk \in Half \X Half
  BY SlotSyncAssumption DEF Half, Junk
<1>5. Len(esp) \in Nat /\ Len(esp) <= MinSize + 1 /\ Len(stm) \in Nat /\ Len(stm) <= MinSize + 1
  BY <1>1, <1>4
<1>6. DOMAIN esp \subseteq Cells /\ DOMAIN stm \subseteq Cells /\ Cells \subseteq Nat
  <2> HIDE <1>1
  <2> QED
    BY <1>2, <1>4, <1>5 DEF Cells
<1> QED
  BY <1>2, <1>3, <1>4, <1>5, <1>6

LEMMA NoJobTyped == Typed => NoJob \in Job
  BY Known DEF NoJob, Job

LEMMA FramesTyped ==
    ASSUME NEW c \in Cells, NEW x \in Half \X Half, NEW of \in {"store", "fulfill"}
    PROVE  /\ Frames(of, c, x) \in Seq(ForStm) /\ Len(Frames(of, c, x)) = 2
           /\ DOMAIN Frames(of, c, x) = {1, 2}
           /\ \A i \in {1, 2} : Frames(of, c, x)[i].cell = c
           /\ of = "store" => Frames(of, c, x)[1].k = "store1" /\ Frames(of, c, x)[2].k = "store2"
           /\ of = "fulfill" => Frames(of, c, x)[1].k = "fulfill1" /\ Frames(of, c, x)[2].k = "fulfill2"
<1> DEFINE p == [k |-> FrameKinds[of][1], cell |-> c, val |-> x[1]]
           q == [k |-> FrameKinds[of][2], cell |-> c, val |-> x[2]]
<1>1. /\ of = "store" => FrameKinds[of][1] = "store1" /\ FrameKinds[of][2] = "store2"
      /\ of = "fulfill" => FrameKinds[of][1] = "fulfill1" /\ FrameKinds[of][2] = "fulfill2"
  BY DEF FrameKinds
<1>2. p \in ForStm /\ q \in ForStm
  BY <1>1 DEF ForStm
<1>3. Frames(of, c, x) = <<p, q>>
  BY DEF Frames
<1>4. /\ p.cell = c /\ q.cell = c
      /\ of = "store" => p.k = "store1" /\ q.k = "store2"
      /\ of = "fulfill" => p.k = "fulfill1" /\ q.k = "fulfill2"
  BY <1>1
<1> HIDE DEF p, q
<1> QED
  BY <1>2, <1>3, <1>4

LEMMA MessagesTyped ==
    /\ \A n \in Sizes : SizeMsg(n) \in ForStm /\ SizeMsg(n).k = "setSize" /\ SizeMsg(n).n = n
    /\ \A t \in Temps : TempMsg(t) \in ForStm /\ TempMsg(t).k = "temp"
    /\ \A t \in Temps \cup {"nak"} : AckTemp(t) \in ForStm /\ AckTemp(t).k = "ackTemp"
  BY DEF SizeMsg, TempMsg, AckTemp, ForStm

(* What a handler may send, and what it may give out of its hands.            *)
Sends(ps) ==
  /\ toStm' = toStm \o ps
  /\ \A i \in DOMAIN ps :
       /\ Expected(ps[i])'
       /\ ps[i].k \in Closing => i = Len(ps)
       /\ ps[i].k = "ackData" => pc = "frames" /\ Answered /\ ps[i].cell = job.cell

Turn == \/ pc \notin Waiting /\ toEsp' = toEsp
        \/ Answered
        \/ TimedOut

Acknowledged(c) ==
  \/ pc \in Storing /\ Answered /\ Head(toEsp).k = "ackStore" /\ Head(toEsp).code = "ok" /\ Head(toEsp).cell = c
  \/ pc = "frames" /\ job.cell = c

Releases(c) ==
  \/ /\ c \in DOMAIN esp /\ esp[c].loc = "remote"
     /\ pc = "grow" /\ job.cell = c => (pc' = "grow" /\ job'.cell = c) \/ Acknowledged(c)
  \/ Acknowledged(c)
  \/ pc \in {"size", "undo"} /\ Answered /\ pc' = "grow" /\ job'.cell = c

Handled ==
  /\ Turn /\ stm' = stm
  /\ \E ps \in Seq(ForStm) : Sends(ps)
  /\ \A c \in DOMAIN esp' : esp'[c].loc = "remote" => Releases(c)
  /\ pc' = "frames" => \/ pc = "retrieve" /\ Answered /\ toStm' = toStm /\ job' = job
                       \/ pc = "frames" /\ Answered /\ toStm' = toStm /\ job' = job
  /\ pc = "frames" /\ toStm' # toStm => \A c \in DOMAIN esp' : c = job.cell => esp'[c].loc # "remote"

LEMMA SendsNothing ==
    ASSUME Typed, toStm' = toStm
    PROVE  <<>> \in Seq(ForStm) /\ Sends(<<>>)
<1>1. toStm \o <<>> = toStm /\ <<>> \in Seq(ForStm) /\ DOMAIN <<>> = {}
  BY ConcatEmptySeq, LenProperties DEF Typed, TypedWire
<1> QED
  BY <1>1 DEF Sends

(* Messages that are no part of an exchange.                                  *)
Aside == {"temp", "ackTemp"}

LEMMA SendsFrames ==
    ASSUME Typed, NEW c \in Cells, NEW x \in Half \X Half, NEW of \in {"store", "fulfill"},
           SendStm(Frames(of, c, x)), job'.cell = c,
           of = "store" => pc' \in Storing \ {"flush"}, of = "fulfill" => pc' = "flush"
    PROVE  toStm' \in Seq(ForStm) /\ \E ps \in Seq(ForStm) : Sends(ps)
<1> DEFINE ps == Frames(of, c, x)
<1>1. /\ ps \in Seq(ForStm) /\ Len(ps) = 2 /\ DOMAIN ps = {1, 2} /\ \A i \in {1, 2} : ps[i].cell = c
      /\ of = "store" => ps[1].k = "store1" /\ ps[2].k = "store2"
      /\ of = "fulfill" => ps[1].k = "fulfill1" /\ ps[2].k = "fulfill2"
  BY FramesTyped
<1>2. toStm' = toStm \o ps
  BY DEF SendStm
<1> HIDE DEF ps
<1>3. toStm' \in Seq(ForStm)
  BY <1>1, <1>2, Joined DEF Typed, TypedWire
<1>4. Expected(ps[1])' /\ Expected(ps[2])'
  BY <1>1 DEF Expected
<1>5. Sends(ps)
  BY <1>1, <1>2, <1>4 DEF Sends, Closing
<1> QED
  BY <1>1, <1>3, <1>5

LEMMA SendsOne ==
    ASSUME Typed, NEW p \in ForStm, SendStm(<<p>>),
           \/ p.k \in Aside
           \/ p.k = "setSize" /\ pc' \in {"size", "undo"} /\ p.n = job'.size
           \/ p.k = "retrieve" /\ pc' = "retrieve" /\ p.cell = job'.cell
           \/ p.k = "ackData" /\ pc = "frames" /\ Answered /\ p.cell = job.cell
    PROVE  toStm' \in Seq(ForStm) /\ \E ps \in Seq(ForStm) : Sends(ps)
<1> DEFINE ps == <<p>>
<1>1. ps \in Seq(ForStm) /\ Len(ps) = 1 /\ DOMAIN ps = {1} /\ ps[1] = p
  OBVIOUS
<1>2. toStm' = toStm \o ps
  BY DEF SendStm
<1> HIDE DEF ps
<1>3. toStm' \in Seq(ForStm)
  BY <1>1, <1>2, Joined DEF Typed, TypedWire
<1>4. Expected(p)'
  BY DEF Expected, Aside
<1>5. Sends(ps)
  BY <1>1, <1>2, <1>4 DEF Sends, Aside
<1> QED
  BY <1>1, <1>3, <1>5

LEMMA SendsTwo ==
    ASSUME Typed, NEW p \in ForStm, NEW q \in ForStm, SendStm(<<p, q>>), p.k \in Aside,
           q.k = "setSize" /\ pc' \in {"size", "undo"} /\ q.n = job'.size
    PROVE  toStm' \in Seq(ForStm) /\ \E ps \in Seq(ForStm) : Sends(ps)
<1> DEFINE ps == <<p, q>>
<1>1. ps \in Seq(ForStm) /\ Len(ps) = 2 /\ DOMAIN ps = {1, 2} /\ ps[1] = p /\ ps[2] = q
  OBVIOUS
<1>2. toStm' = toStm \o ps
  BY DEF SendStm
<1> HIDE DEF ps
<1>3. toStm' \in Seq(ForStm)
  BY <1>1, <1>2, Joined DEF Typed, TypedWire
<1>4. Expected(p)' /\ Expected(q)'
  BY DEF Expected, Aside
<1>5. Sends(ps)
  BY <1>1, <1>2, <1>4 DEF Sends, Aside, Closing
<1> QED
  BY <1>1, <1>3, <1>5

LEMMA SendsFramesAfter ==
    ASSUME Typed, NEW p \in ForStm, NEW c \in Cells, NEW x \in Half \X Half, p.k \in Aside,
           SendStm(<<p>> \o Frames("store", c, x)), job'.cell = c, pc' \in Storing \ {"flush"}
    PROVE  toStm' \in Seq(ForStm) /\ \E ps \in Seq(ForStm) : Sends(ps)
<1> DEFINE fs == Frames("store", c, x)
           ps == <<p>> \o fs
<1>1. /\ fs \in Seq(ForStm) /\ Len(fs) = 2 /\ DOMAIN fs = {1, 2} /\ \A i \in {1, 2} : fs[i].cell = c
      /\ fs[1].k = "store1" /\ fs[2].k = "store2"
  BY FramesTyped, "store" \in {"store", "fulfill"}
<1>2. toStm' = toStm \o ps
  BY DEF SendStm
<1>3. <<p>> \in Seq(ForStm) /\ Len(<<p>>) = 1 /\ <<p>>[1] = p
  OBVIOUS
<1> HIDE DEF fs
<1>4. ps \in Seq(ForStm) /\ Len(ps) = 3
  BY <1>1, <1>3, Joined
<1>5. DOMAIN ps = 1 .. 3 /\ ps[1] = p /\ ps[2] = fs[1] /\ ps[3] = fs[2]
  BY <1>1, <1>3, <1>4, ConcatProperties, LenProperties
<1> HIDE DEF ps
<1>6. toStm' \in Seq(ForStm)
  BY <1>2, <1>4, Joined DEF Typed, TypedWire
<1>7. Expected(ps[1])' /\ Expected(ps[2])' /\ Expected(ps[3])'
  BY <1>1, <1>5 DEF Expected, Aside
<1>8. Sends(ps)
  <2>1. \A i \in DOMAIN ps : i = 1 \/ i = 2 \/ i = 3
    BY <1>5
  <2> QED
    BY <1>1, <1>2, <1>4, <1>5, <1>7, <2>1 DEF Sends, Aside, Closing
<1> QED
  BY <1>4, <1>6, <1>8

(* Hearing from the display, or not.                                          *)
LEMMA HeardTyped ==
    ASSUME Typed, Answered \/ TimedOut
    PROVE  toEsp' \in Seq(ForEsp)
  BY TailOf DEF Typed, TypedWire, Answered, TimedOut

LEMMA ReturnsHeard ==
    ASSUME NEW o, Returns(o) \/ Ends(o)
    PROVE  Answered \/ TimedOut
  BY DEF Returns, Ends

LEMMA First ==
    ASSUME NEW S \in SUBSET Nat, S # {}
    PROVE  (CHOOSE x \in S : \A y \in S : x <= y) \in S
<1>1. PICK x \in S : \A y \in S : ~ (<<y, x>> \in OpToRel(<, Nat))
  BY NatLessThanWellFounded, WFMin
<1>2. ASSUME NEW y \in S PROVE x <= y
  <2>1. ~ (y < x)
    BY <1>1 DEF OpToRel
  <2> QED
    BY <2>1
<1> QED
  BY <1>2

(* The parts a handler leaves alone.                                          *)
LEMMA OwnPart ==
    ASSUME Typed, TypedEsp', UNCHANGED <<stmVars, faults, appVars>>,
           queue' = queue \/ (queue # <<>> /\ queue' = Tail(queue)),
           toStm' \in Seq(ForStm), toEsp' \in Seq(ForEsp),
           due' \in [Cells -> Half], kept' \in [Cells -> Half]
    PROVE  Typed'
<1>1. queue' \in Seq(Pending) /\ Len(queue') <= QueueLen
  <2>1. queue \in Seq(Pending) /\ Len(queue) <= QueueLen /\ QueueLen \in Nat
    BY SlotSyncAssumption DEF Typed, TypedWire
  <2>2. CASE queue # <<>> /\ queue' = Tail(queue)
    <3>1. queue' \in Seq(Pending) /\ Len(queue') \in Nat /\ Len(queue) = Len(queue') + 1
      BY <2>1, <2>2, TailOf
    <3> QED
      BY <2>1, <3>1
  <2> QED
    BY <2>1, <2>2
<1> QED
  BY <1>1 DEF Typed, TypedStm, TypedWire, TypedApp, stmVars, appVars

-----------------------------------------------------------------------------
(* What the update manager does                                              *)

LEMMA StartFlushDone == ASSUME Typed, AtWork, StartFlush PROVE Typed' /\ AtWork' /\ Handled
<1>1. pc = "idle" /\ pc' = "sweep" /\ job' = [NoJob EXCEPT !.cell = 1]
      /\ UNCHANGED <<esp, espTemp, queue, stmVars, toStm, toEsp, faults, appVars, history>>
  BY DEF StartFlush, Wait
<1>2. job' \in Job
  BY <1>1, Known DEF NoJob, Job
<1>3. Typed'
  BY <1>1, <1>2 DEF Typed, TypedEsp, TypedStm, TypedWire, TypedApp, stmVars, appVars, history
<1>4. AtWork'
  BY <1>1 DEF AtWork, Storing
<1>5. Handled
  BY <1>1, SendsNothing DEF Handled, Turn, Waiting, Storing, Releases, stmVars
<1> QED
  BY <1>3, <1>4, <1>5

LEMMA SweepDone == ASSUME Typed, AtWork, Sweep PROVE Typed' /\ AtWork' /\ Handled
<1>1. /\ pc = "sweep" /\ esp' = esp /\ stm' = stm
      /\ UNCHANGED <<espTemp, queue, stmVars, toEsp, faults, appVars, history>>
  BY DEF Sweep, stmVars
<1>2. job \in Job /\ toStm \in Seq(ForStm) /\ toEsp \in Seq(ForEsp)
  BY DEF Typed, TypedEsp, TypedWire
<1>3. Turn
  BY <1>1 DEF Turn, Waiting, Storing
<1>4. \A c \in DOMAIN esp' : esp'[c].loc = "remote" => Releases(c)
  BY <1>1 DEF Releases
<1>5. ASSUME NEW c \in DOMAIN esp, Sendable(c),
             Wait("flush", [job EXCEPT !.cell = c, !.tries = 1, !.tight = FALSE]),
             SendStm(Frames("fulfill", c, esp[c].data))
      PROVE  Typed' /\ AtWork' /\ Handled
  <2>1. esp[c].loc = "canonical" /\ esp[c].data \in Half \X Half /\ c \in Cells /\ c \in Nat
    BY <1>5, Known DEF Sendable, EspCell, CellSet
  <2>2. pc' = "flush" /\ job' \in Job /\ job'.cell = c
    BY <1>2, <1>5, <2>1 DEF Wait, Job
  <2>3. TypedEsp'
    BY <1>1, <2>2 DEF Typed, TypedEsp, Waiting, Storing
  <2>4. toStm' \in Seq(ForStm) /\ \E ps \in Seq(ForStm) : Sends(ps)
    BY <1>5, <2>1, <2>2, SendsFrames, "fulfill" \in {"store", "fulfill"}
  <2>5. Typed'
    BY <1>1, <1>2, <2>3, <2>4, OwnPart DEF Typed, TypedApp, history
  <2>6. AtWork'
    BY <1>1, <2>1, <2>2 DEF AtWork, Storing
  <2> QED
    BY <1>1, <1>3, <1>4, <2>2, <2>4, <2>5, <2>6 DEF Handled
<1>6. ASSUME \/ Wait("sweep", [job EXCEPT !.pass = 1, !.cell = 1]) \/ Finish,
             toStm' = toStm
      PROVE  Typed' /\ AtWork' /\ Handled
  <2>1. pc' \in {"sweep", "idle"} /\ job' \in Job
    <3>1. [job EXCEPT !.pass = 1, !.cell = 1] \in Job
      BY <1>2 DEF Job
    <3> QED
      BY <1>6, <3>1, NoJobTyped DEF Wait, Finish
  <2>2. TypedEsp'
    BY <1>1, <2>1 DEF Typed, TypedEsp
  <2>3. Typed'
    BY <1>1, <1>2, <1>6, <2>2, OwnPart DEF Typed, TypedApp, history
  <2>4. AtWork'
    BY <2>1 DEF AtWork, Storing
  <2>5. Handled
    BY <1>1, <1>3, <1>4, <1>6, <2>1, SendsNothing DEF Handled
  <2> QED
    BY <2>3, <2>4, <2>5
<1> QED
  <2> DEFINE todo == {c \in DOMAIN esp : c >= job.cell /\ Sendable(c)}
  <2>1. todo # {} => (CHOOSE x \in todo : \A y \in todo : x <= y) \in todo
    BY First, Known
  <2> QED
    BY <1>5, <1>6, <2>1 DEF Sweep

(* A wait ends: what was heard, and who may be released.                      *)
LEMMA Ended ==
    ASSUME Typed, AtWork, NEW o, Returns(o)
    PROVE  /\ Turn /\ toEsp' \in Seq(ForEsp)
           /\ pc \in Storing \ {"flush"} /\ o = "ok" => Acknowledged(job.cell)
<1>1. Answered \/ TimedOut
  BY ReturnsHeard
<1>2. pc \in Storing \ {"flush"} /\ o = "ok" => Acknowledged(job.cell)
  BY DEF Returns, Acknowledged, Answered, Wanted, Storing
<1> QED
  BY <1>1, <1>2, HeardTyped DEF Turn

LEMMA FlushEndsDone == ASSUME Typed, AtWork, FlushEnds PROVE Typed' /\ AtWork' /\ Handled
<1>1. /\ pc = "flush" /\ stm' = stm /\ pc' = "sweep"
      /\ job' = [job EXCEPT !.cell = @ + 1, !.tries = 0, !.tight = FALSE]
      /\ UNCHANGED <<queue, stmVars, faults, appVars, history>>
  BY DEF FlushEnds, Wait, stmVars
<1>2. job \in Job /\ toStm \in Seq(ForStm) /\ job.cell \in DOMAIN esp
      /\ esp \in Seq(EspCell) /\ Len(esp) \in Sizes
  BY <1>1 DEF Typed, TypedEsp, TypedWire, AtWork, Storing
<1>3. PICK o \in Outcomes : Returns(o)
  BY DEF FlushEnds, Ends
<1>4. Turn /\ toEsp' \in Seq(ForEsp)
  BY <1>3, Ended
<1>5. job' \in Job
  <2>1. PICK n \in Nat : n = job.cell + 1
    BY <1>2 DEF Job
  <2>2. job' = [job EXCEPT !.cell = n, !.tries = 0, !.tight = FALSE]
    BY <1>1, <2>1
  <2> QED
    BY <1>2, <2>2 DEF Job
<1>6. espTemp' \in Temps \cup {"none", "wants"}
  BY DEF FlushEnds, Typed, TypedEsp, Temps
<1>7. esp' = esp \/ esp' = [esp EXCEPT ![job.cell].dirty = FALSE]
  BY DEF FlushEnds
<1>8. /\ esp' \in Seq(EspCell) /\ Len(esp') = Len(esp) /\ DOMAIN esp' = DOMAIN esp
      /\ \A c \in DOMAIN esp : esp'[c].loc = esp[c].loc
  <2>1. CASE esp' = [esp EXCEPT ![job.cell].dirty = FALSE]
    <3>1. \A c \in DOMAIN esp : esp[c] \in EspCell
      BY Known
    <3>2. \A c \in DOMAIN esp : esp'[c] \in EspCell /\ esp'[c].loc = esp[c].loc
      BY <2>1, <3>1, <1>2 DEF EspCell, CellSet
    <3>3. esp' = [c \in DOMAIN esp |-> esp'[c]]
      BY <2>1
    <3> QED
      BY <1>2, <3>2, <3>3, Changed
  <2> QED
    BY <1>2, <1>7, <2>1
<1>9. toStm' \in Seq(ForStm) /\ \E ps \in Seq(ForStm) : Sends(ps)
  <2>1. toStm' = toStm \/ SendStm(<<TempMsg("cold")>>)
    BY DEF FlushEnds
  <2>2. TempMsg("cold") \in ForStm /\ TempMsg("cold").k \in Aside
    BY MessagesTyped DEF Temps, Aside
  <2> QED
    BY <1>2, <2>1, <2>2, SendsOne, SendsNothing
<1>10. TypedEsp'
  BY <1>1, <1>2, <1>5, <1>6, <1>8 DEF TypedEsp
<1>11. Typed'
  BY <1>1, <1>4, <1>9, <1>10, OwnPart DEF Typed, TypedApp, history
<1>12. AtWork'
  BY <1>1 DEF AtWork, Storing
<1>13. Handled
  BY <1>1, <1>4, <1>8, <1>9 DEF Handled, Releases
<1> QED
  BY <1>11, <1>12, <1>13

LEMMA ResendDone == ASSUME Typed, AtWork, Resend PROVE Typed' /\ AtWork' /\ Handled
<1>1. /\ pc \in Storing /\ stm' = stm /\ pc' = pc /\ esp' = esp
      /\ UNCHANGED <<espTemp, queue, stmVars, faults, appVars, history>>
  BY DEF Resend, Wait, stmVars
<1>2. job \in Job /\ job.cell \in DOMAIN esp
  BY <1>1 DEF Typed, TypedEsp, AtWork
<1>3. PICK o \in Outcomes \ {"ok"} :
         Returns(o) /\ job' = [job EXCEPT !.tries = @ + 1, !.tight = @ \/ (pc = "flush" /\ o = "again")]
  BY DEF Resend, Wait
<1>4. Turn /\ toEsp' \in Seq(ForEsp)
  BY <1>3, Ended
<1>5. job' \in Job /\ job'.cell = job.cell /\ job'.size = job.size /\ job'.grow = job.grow /\ job'.temp = job.temp
  <2>1. PICK n \in Nat : n = job.tries + 1
    BY <1>2 DEF Job
  <2>2. PICK b \in BOOLEAN : b = (job.tight \/ (pc = "flush" /\ o = "again"))
    OBVIOUS
  <2>3. job' = [job EXCEPT !.tries = n, !.tight = b]
    BY <1>3, <2>1, <2>2, Zenon
  <2> QED
    BY <1>2, <2>3 DEF Job
<1>6. toStm' \in Seq(ForStm) /\ \E ps \in Seq(ForStm) : Sends(ps)
  <2>1. Data \in Half \X Half
    BY <1>2, Known DEF Data, Job, EspCell, CellSet
  <2>2. job.cell \in Cells /\ {"store", "fulfill"} = {"store", "fulfill"}
    BY <1>2, Known
  <2>3. CASE pc = "flush"
    BY <1>1, <1>5, <2>1, <2>2, <2>3, SendsFrames, "fulfill" \in {"store", "fulfill"} DEF Resend
  <2>4. CASE pc # "flush"
    BY <1>1, <1>5, <2>1, <2>2, <2>4, SendsFrames, "store" \in {"store", "fulfill"} DEF Resend
  <2> QED
    BY <2>3, <2>4
<1>7. TypedEsp'
  BY <1>1, <1>5 DEF Typed, TypedEsp
<1>8. Typed'
  BY <1>1, <1>4, <1>6, <1>7, OwnPart DEF Typed, TypedApp, history
<1>9. AtWork'
  BY <1>1, <1>5 DEF AtWork
<1>10. Handled
  <2>1. \A c \in DOMAIN esp' : esp'[c].loc = "remote" => Releases(c)
    BY <1>1, <1>5 DEF Releases
  <2>2. pc' # "frames" /\ pc # "frames"
    BY <1>1 DEF Storing
  <2> QED
    BY <1>1, <1>4, <1>6, <2>1, <2>2 DEF Handled
<1> QED
  BY <1>8, <1>9, <1>10

(* What the application or the display has asked for.                         *)
LEMMA TakenTyped ==
    ASSUME Typed, NEW k, Next1(k)
    PROVE  /\ Head(queue) \in Pending /\ Head(queue).k = k
           /\ pc = "idle" /\ queue # <<>> /\ queue' = Tail(queue)
<1>1. pc = "idle" /\ queue # <<>> /\ queue' = Tail(queue) /\ Head(queue).k = k
  BY DEF Next1
<1> QED
  BY <1>1, TailOf DEF Typed, TypedWire

(* A handler that begins is at rest, and one that ends it is again.           *)
LEMMA Rest ==
    ASSUME Typed, pc = "idle", toEsp' = toEsp, UNCHANGED <<pc, job, stm>>,
           esp' \in Seq(EspCell), Len(esp') \in Sizes,
           espTemp' \in Temps \cup {"none", "wants"},
           \E ps \in Seq(ForStm) : Sends(ps),
           \A c \in DOMAIN esp' : esp'[c].loc = "remote" => c \in DOMAIN esp /\ esp[c].loc = "remote"
    PROVE  TypedEsp' /\ AtWork' /\ Handled
<1>1. TypedEsp'
  BY DEF Typed, TypedEsp
<1>2. AtWork'
  BY DEF AtWork, Storing
<1>3. Handled
  BY DEF Handled, Turn, Waiting, Storing, Releases
<1> QED
  BY <1>1, <1>2, <1>3

LEMMA PatchDone == ASSUME Typed, AtWork, Patch PROVE Typed' /\ AtWork' /\ Handled
<1> DEFINE r == Head(queue)
<1>1. /\ r \in Pending /\ r.k = "patch" /\ pc = "idle" /\ queue # <<>> /\ queue' = Tail(queue)
      /\ stm' = stm /\ UNCHANGED <<stmVars, toEsp, faults, appVars>>
  BY TakenTyped DEF Patch, stmVars
<1>2. r.cell \in Cells /\ r.val \in Half /\ r.mark \in BOOLEAN
  BY <1>1 DEF Pending, Asked
<1>3. /\ job \in Job /\ toStm \in Seq(ForStm) /\ toEsp \in Seq(ForEsp) /\ esp \in Seq(EspCell)
      /\ Len(esp) \in Sizes /\ espTemp \in Temps \cup {"none", "wants"}
      /\ due \in [Cells -> Half] /\ kept \in [Cells -> Half]
  BY DEF Typed, TypedEsp, TypedWire, TypedApp
<1>4. Turn
  BY <1>1 DEF Turn, Waiting, Storing
<1> HIDE DEF r
<1>5. CASE UNCHANGED <<espVars, toStm, history>>
  <2>1. UNCHANGED <<esp, espTemp, pc, job, toStm, due, kept>>
    BY <1>5 DEF espVars, history
  <2>2. TypedEsp' /\ AtWork' /\ Handled
    BY <1>1, <1>3, <2>1, Rest, SendsNothing
  <2> QED
    BY <1>1, <1>3, <2>1, <2>2, OwnPart
<1>6. CASE /\ r.cell \in DOMAIN esp /\ esp[r.cell].loc # "remote"
           /\ esp' = [esp EXCEPT ![r.cell].data = <<r.val, r.val>>, ![r.cell].dirty = @ \/ r.mark]
           /\ due' = (IF r.mark THEN [due EXCEPT ![r.cell] = r.val] ELSE due)
           /\ kept' = [kept EXCEPT ![r.cell] = r.val]
           /\ UNCHANGED <<espTemp, pc, job, toStm>>
  <2>1. /\ esp' \in Seq(EspCell) /\ Len(esp') = Len(esp) /\ DOMAIN esp' = DOMAIN esp
        /\ \A c \in DOMAIN esp : esp'[c].loc = esp[c].loc
    <3>1. \A c \in DOMAIN esp : esp[c] \in EspCell
      BY Known
    <3>2. PICK b \in BOOLEAN : b = (esp[r.cell].dirty \/ r.mark)
      OBVIOUS
    <3>3. esp' = [esp EXCEPT ![r.cell] = [@ EXCEPT !.data = <<r.val, r.val>>, !.dirty = b]]
      <4>1. esp' = [esp EXCEPT ![r.cell].data = <<r.val, r.val>>, ![r.cell].dirty = b]
        BY <1>6, <3>2
      <4> QED
        BY <1>6, <4>1
    <3>4. \A c \in DOMAIN esp : esp'[c] \in EspCell /\ esp'[c].loc = esp[c].loc
      BY <1>2, <3>1, <3>3 DEF EspCell, CellSet
    <3>5. esp' = [c \in DOMAIN esp |-> esp'[c]]
      BY <3>3
    <3> QED
      BY <1>3, <3>4, <3>5, Changed
  <2>2. due' \in [Cells -> Half] /\ kept' \in [Cells -> Half]
    BY <1>2, <1>3, <1>6
  <2>3. TypedEsp' /\ AtWork' /\ Handled
    BY <1>1, <1>3, <1>6, <2>1, Rest, SendsNothing
  <2> QED
    BY <1>1, <1>3, <1>6, <2>2, <2>3, OwnPart
<1>7. CASE /\ r.cell \in DOMAIN esp /\ esp[r.cell].loc = "remote"
           /\ Wait("patch", [NoJob EXCEPT !.cell = r.cell, !.tries = 1, !.data = <<r.val, r.val>>])
           /\ SendStm(Frames("store", r.cell, <<r.val, r.val>>))
           /\ UNCHANGED <<esp, espTemp, history>>
  <2>1. pc' = "patch" /\ job' \in Job /\ job'.cell = r.cell
    <3>1. NoJob \in Job /\ r.cell \in Nat /\ <<r.val, r.val>> \in Half \X Half
      BY <1>2, <1>7, NoJobTyped, Known
    <3> QED
      BY <1>7, <3>1 DEF Wait, Job
  <2>2. toStm' \in Seq(ForStm) /\ \E ps \in Seq(ForStm) : Sends(ps)
    BY <1>2, <1>7, <2>1, SendsFrames, "store" \in {"store", "fulfill"} DEF Storing
  <2>3. esp' = esp /\ espTemp' = espTemp /\ UNCHANGED <<due, kept>>
    BY <1>7 DEF history
  <2>4. TypedEsp'
    BY <1>3, <2>1, <2>3 DEF TypedEsp, Waiting, Storing
  <2>5. AtWork'
    BY <1>7, <2>1, <2>3 DEF AtWork, Storing
  <2>6. Handled
    BY <1>1, <1>4, <2>1, <2>2, <2>3 DEF Handled, Releases
  <2> QED
    BY <1>1, <1>3, <2>2, <2>3, <2>4, <2>5, <2>6, OwnPart
<1> QED
  BY <1>5, <1>6, <1>7 DEF Patch, r

LEMMA PatchEndsDone == ASSUME Typed, AtWork, PatchEnds PROVE Typed' /\ AtWork' /\ Handled
<1>1. /\ pc = "patch" /\ stm' = stm /\ pc' = "idle" /\ job' = NoJob /\ due' = due /\ toStm' = toStm
      /\ UNCHANGED <<esp, espTemp, queue, stmVars, faults, appVars>>
  BY DEF PatchEnds, Finish, stmVars
<1>2. /\ job \in Job /\ toStm \in Seq(ForStm) /\ due \in [Cells -> Half] /\ kept \in [Cells -> Half]
  BY DEF Typed, TypedEsp, TypedWire, TypedApp
<1>3. PICK o \in Outcomes :
         Returns(o) /\ kept' = IF o = "ok" THEN [kept EXCEPT ![job.cell] = job.data[1]] ELSE kept
  BY DEF PatchEnds, Ends
<1>4. Turn /\ toEsp' \in Seq(ForEsp)
  BY <1>3, Ended
<1>5. kept' \in [Cells -> Half]
  BY <1>2, <1>3 DEF Job
<1>6. TypedEsp'
  BY <1>1, NoJobTyped DEF Typed, TypedEsp
<1>7. Typed'
  BY <1>1, <1>2, <1>4, <1>5, <1>6, OwnPart
<1>8. AtWork' /\ Handled
  BY <1>1, <1>4, SendsNothing DEF AtWork, Storing, Handled, Releases
<1> QED
  BY <1>7, <1>8

LEMMA TriggeredDone == ASSUME Typed, AtWork, Triggered PROVE Typed' /\ AtWork' /\ Handled
<1> DEFINE here == {c \in DOMAIN esp : esp[c].loc # "remote"}
<1>1. /\ pc = "idle" /\ queue # <<>> /\ queue' = Tail(queue) /\ stm' = stm
      /\ UNCHANGED <<espTemp, pc, job, stmVars, toStm, toEsp, faults, appVars, kept>>
      /\ esp' = [c \in DOMAIN esp |-> [esp[c] EXCEPT !.dirty = @ \/ c \in here]]
      /\ due' = [c \in Cells |-> IF c \in here THEN esp[c].data[1] ELSE due[c]]
  BY TakenTyped DEF Triggered, stmVars
<1>2. /\ toStm \in Seq(ForStm) /\ toEsp \in Seq(ForEsp) /\ esp \in Seq(EspCell)
      /\ Len(esp) \in Sizes /\ espTemp \in Temps \cup {"none", "wants"}
      /\ due \in [Cells -> Half] /\ kept \in [Cells -> Half]
  BY DEF Typed, TypedEsp, TypedWire, TypedApp
<1>3. \A c \in DOMAIN esp : esp[c] \in EspCell
  BY Known
<1>4. ASSUME NEW c \in DOMAIN esp PROVE esp'[c] \in EspCell /\ esp'[c].loc = esp[c].loc
  <2>1. PICK b \in BOOLEAN : b = (esp[c].dirty \/ c \in here)
    OBVIOUS
  <2>2. esp'[c] = [esp[c] EXCEPT !.dirty = b]
    <3>1. esp'[c] = [esp[c] EXCEPT !.dirty = @ \/ c \in here]
      BY <1>1
    <3> QED
      BY <2>1, <3>1, Zenon
  <2> QED
    BY <1>3, <2>2 DEF EspCell, CellSet
<1>5. due' \in [Cells -> Half]
  <2>1. ASSUME NEW c \in here PROVE esp[c].data[1] \in Half
    BY <1>3 DEF EspCell, CellSet
  <2> QED
    BY <1>1, <1>2, <2>1
<1>6. esp' \in Seq(EspCell) /\ Len(esp') = Len(esp) /\ DOMAIN esp' = DOMAIN esp
  <2>1. esp' = [c \in DOMAIN esp |-> esp'[c]]
    BY <1>1
  <2> QED
    BY <1>2, <1>4, <2>1, Changed
<1>7. TypedEsp' /\ AtWork' /\ Handled
  BY <1>1, <1>2, <1>4, <1>6, Rest, SendsNothing
<1> QED
  BY <1>1, <1>2, <1>5, <1>7, OwnPart

LEMMA MarkDirtyDone == ASSUME Typed, AtWork, MarkDirty PROVE Typed' /\ AtWork' /\ Handled
<1>1. /\ pc = "idle" /\ queue # <<>> /\ queue' = Tail(queue) /\ stm' = stm
      /\ UNCHANGED <<pc, job, stmVars, toEsp, faults, appVars, history>>
  BY TakenTyped DEF MarkDirty, stmVars
<1>2. /\ toStm \in Seq(ForStm) /\ toEsp \in Seq(ForEsp) /\ esp \in Seq(EspCell)
      /\ Len(esp) \in Sizes /\ espTemp \in Temps \cup {"none", "wants"}
      /\ due \in [Cells -> Half] /\ kept \in [Cells -> Half]
  BY DEF Typed, TypedEsp, TypedWire, TypedApp
<1>3. espTemp' \in Temps \cup {"none", "wants"}
  BY <1>2 DEF MarkDirty
<1>4. /\ esp' \in Seq(EspCell) /\ Len(esp') = Len(esp) /\ DOMAIN esp' = DOMAIN esp
      /\ \A c \in DOMAIN esp : esp'[c].loc = esp[c].loc
  <2>1. ASSUME NEW d \in DOMAIN esp, esp' = [esp EXCEPT ![d].dirty = TRUE]
        PROVE  /\ esp' \in Seq(EspCell) /\ Len(esp') = Len(esp) /\ DOMAIN esp' = DOMAIN esp
               /\ \A c \in DOMAIN esp : esp'[c].loc = esp[c].loc
    <3>1. \A c \in DOMAIN esp : esp[c] \in EspCell
      BY Known
    <3>2. \A c \in DOMAIN esp : esp'[c] \in EspCell /\ esp'[c].loc = esp[c].loc
      BY <2>1, <3>1 DEF EspCell, CellSet
    <3>3. esp' = [c \in DOMAIN esp |-> esp'[c]]
      BY <2>1
    <3> QED
      BY <1>2, <3>2, <3>3, Changed
  <2>2. esp' = esp \/ \E d \in DOMAIN esp : esp' = [esp EXCEPT ![d].dirty = TRUE]
    BY DEF MarkDirty
  <2> QED
    BY <1>2, <2>1, <2>2
<1>5. toStm' \in Seq(ForStm) /\ \E ps \in Seq(ForStm) : Sends(ps)
  <2>1. toStm' = toStm \/ SendStm(<<TempMsg("cold")>>)
    BY DEF MarkDirty
  <2>2. TempMsg("cold") \in ForStm /\ TempMsg("cold").k \in Aside
    BY MessagesTyped DEF Temps, Aside
  <2> QED
    BY <1>2, <2>1, <2>2, SendsOne, SendsNothing
<1>6. TypedEsp' /\ AtWork' /\ Handled
  BY <1>1, <1>2, <1>3, <1>4, <1>5, Rest
<1> QED
  BY <1>1, <1>2, <1>5, <1>6, OwnPart DEF history

LEMMA SetTempDone == ASSUME Typed, AtWork, SetTemp PROVE Typed' /\ AtWork' /\ Handled
<1> DEFINE t == Head(queue).temp
           old == IF espTemp = "none" THEN "cold" ELSE espTemp
<1>1. /\ Head(queue) \in Pending /\ Head(queue).k = "askTemp"
      /\ pc = "idle" /\ queue # <<>> /\ queue' = Tail(queue) /\ stm' = stm
      /\ UNCHANGED <<esp, stmVars, toEsp, faults, appVars, history>>
  BY TakenTyped DEF SetTemp, stmVars
<1>2. /\ job \in Job /\ toStm \in Seq(ForStm) /\ toEsp \in Seq(ForEsp) /\ esp \in Seq(EspCell)
      /\ Len(esp) \in Sizes /\ espTemp \in Temps \cup {"none", "wants"}
      /\ due \in [Cells -> Half] /\ kept \in [Cells -> Half]
  BY DEF Typed, TypedEsp, TypedWire, TypedApp
<1>3. t \in Temps /\ old \in Temps \cup {"wants"}
  BY <1>1, <1>2 DEF Pending, Asked, Temps
<1>4. toStm' \in Seq(ForStm) /\ \E ps \in Seq(ForStm) : Sends(ps)
  <2>1. PICK a \in Temps \cup {"nak"} : SendStm(<<AckTemp(a)>>)
    BY <1>3 DEF SetTemp
  <2>2. AckTemp(a) \in ForStm /\ AckTemp(a).k \in Aside
    BY MessagesTyped DEF Aside
  <2> QED
    BY <2>1, <2>2, SendsOne
<1>5. CASE espTemp' \in Temps \cup {"none", "wants"} /\ UNCHANGED <<pc, job>>
  <2>1. TypedEsp' /\ AtWork' /\ Handled
    BY <1>1, <1>2, <1>4, <1>5, Rest
  <2> QED
    BY <1>1, <1>2, <1>4, <2>1, OwnPart DEF history
<1>6. CASE /\ espTemp' = old /\ t # "cold"
           /\ Wait("heating", [NoJob EXCEPT !.temp = t, !.cell = 1])
  <2> HIDE DEF t, old
  <2>1. pc' = "heating" /\ job' \in Job /\ job'.temp = t
    BY <1>3, <1>6, NoJobTyped DEF Wait, Job
  <2>2. TypedEsp'
    BY <1>1, <1>2, <1>3, <1>6, <2>1 DEF TypedEsp
  <2>3. AtWork'
    BY <1>3, <1>6, <2>1 DEF AtWork, Storing, Temps
  <2>4. Handled
    BY <1>1, <1>4, <2>1 DEF Handled, Turn, Waiting, Storing, Releases
  <2> QED
    BY <1>1, <1>2, <1>4, <2>2, <2>3, <2>4, OwnPart DEF history
<1> QED
  BY <1>2, <1>3, <1>5, <1>6 DEF SetTemp

LEMMA HeatingDone == ASSUME Typed, AtWork, Heating PROVE Typed' /\ AtWork' /\ Handled
<1>1. /\ pc = "heating" /\ esp' = esp /\ stm' = stm
      /\ UNCHANGED <<queue, stmVars, toEsp, faults, appVars, history>>
  BY DEF Heating, stmVars
<1>2. /\ job \in Job /\ toStm \in Seq(ForStm) /\ toEsp \in Seq(ForEsp)
      /\ due \in [Cells -> Half] /\ kept \in [Cells -> Half] /\ job.temp \in {"warm", "hot"}
  BY <1>1 DEF Typed, TypedEsp, TypedWire, TypedApp, AtWork
<1>3. Turn
  BY <1>1 DEF Turn, Waiting, Storing
<1>4. \A c \in DOMAIN esp' : esp'[c].loc = "remote" => Releases(c)
  BY <1>1 DEF Releases
<1>5. ASSUME NEW c \in DOMAIN esp, esp[c].loc # "remote", espTemp' = espTemp,
             Wait("heat", [job EXCEPT !.cell = c, !.tries = 1]),
             SendStm(Frames("store", c, esp[c].data))
      PROVE  Typed' /\ AtWork' /\ Handled
  <2>1. esp[c].loc = "canonical" /\ esp[c].data \in Half \X Half /\ c \in Cells /\ c \in Nat
    BY <1>5, Known DEF EspCell, CellSet
  <2>2. pc' = "heat" /\ job' \in Job /\ job'.cell = c /\ job'.temp = job.temp
    BY <1>2, <1>5, <2>1 DEF Wait, Job
  <2>3. TypedEsp'
    BY <1>1, <1>5, <2>2 DEF Typed, TypedEsp, Waiting, Storing
  <2>4. toStm' \in Seq(ForStm) /\ \E ps \in Seq(ForStm) : Sends(ps)
    BY <1>5, <2>1, <2>2, SendsFrames, "store" \in {"store", "fulfill"} DEF Storing
  <2>5. Typed'
    BY <1>1, <1>2, <2>3, <2>4, OwnPart DEF history
  <2>6. AtWork'
    BY <1>1, <1>2, <2>1, <2>2 DEF AtWork, Storing
  <2> QED
    BY <1>1, <1>3, <1>4, <2>2, <2>4, <2>5, <2>6 DEF Handled
<1>6. ASSUME espTemp' = job.temp, Finish, toStm' = toStm
      PROVE  Typed' /\ AtWork' /\ Handled
  <2>1. pc' = "idle" /\ job' \in Job
    BY <1>6, NoJobTyped DEF Finish
  <2>2. TypedEsp'
    BY <1>1, <1>2, <1>6, <2>1 DEF Typed, TypedEsp, Temps
  <2>3. Typed'
    BY <1>1, <1>2, <1>6, <2>2, OwnPart DEF history
  <2>4. AtWork'
    BY <2>1 DEF AtWork, Storing
  <2>5. Handled
    BY <1>1, <1>3, <1>4, <1>6, <2>1, SendsNothing DEF Handled
  <2> QED
    BY <2>3, <2>4, <2>5
<1> QED
  <2> DEFINE todo == {c \in DOMAIN esp : c >= job.cell /\ esp[c].loc # "remote"}
  <2>1. todo # {} => (CHOOSE x \in todo : \A y \in todo : x <= y) \in todo
    BY First, Known
  <2> QED
    BY <1>5, <1>6, <2>1 DEF Heating

(* A cell given away, a slot cut short and one that has grown.                *)
LEMMA Shipped ==
    ASSUME Typed, NEW c \in DOMAIN esp
    PROVE  /\ Ship(c) \in Seq(EspCell) /\ Len(Ship(c)) = Len(esp) /\ DOMAIN Ship(c) = DOMAIN esp
           /\ \A d \in DOMAIN esp : Ship(c)[d].loc = IF d = c THEN "remote" ELSE esp[d].loc
<1>1. (\A d \in DOMAIN esp : esp[d] \in EspCell) /\ Junk \in Half \X Half /\ esp \in Seq(EspCell)
  BY Known DEF Typed, TypedEsp
<1> DEFINE s == Ship(c)
<1>2. \A d \in DOMAIN esp : s[d] \in EspCell /\ s[d].loc = IF d = c THEN "remote" ELSE esp[d].loc
  BY <1>1 DEF Ship, EspCell, CellSet
<1>3. s = [d \in DOMAIN esp |-> s[d]]
  BY DEF Ship
<1> HIDE DEF s
<1>4. s \in Seq(EspCell) /\ Len(s) = Len(esp) /\ DOMAIN s = DOMAIN esp
  BY <1>1, <1>2, <1>3, Changed
<1> QED
  BY <1>2, <1>4 DEF s

LEMMA CutShort ==
    ASSUME Typed, NEW n \in Nat, n <= Len(esp)
    PROVE  /\ SubSeq(esp, 1, n) \in Seq(EspCell) /\ Len(SubSeq(esp, 1, n)) = n
           /\ \A d \in DOMAIN SubSeq(esp, 1, n) : d \in DOMAIN esp /\ SubSeq(esp, 1, n)[d] = esp[d]
<1>1. esp \in Seq(EspCell) /\ Len(esp) \in Nat /\ DOMAIN esp = 1 .. Len(esp)
  BY Known DEF Typed, TypedEsp
<1>2. \A i \in 1 .. n : esp[i] \in EspCell /\ i \in DOMAIN esp
  BY <1>1, Known
<1>3. SubSeq(esp, 1, n) = [i \in 1 .. n |-> esp[i]]
  BY <1>1, <1>2
<1>4. SubSeq(esp, 1, n) \in Seq(EspCell) /\ Len(SubSeq(esp, 1, n)) = n
  BY <1>2, <1>3
<1> QED
  BY <1>2, <1>3, <1>4

LEMMA Grown ==
    ASSUME Typed, NEW x \in EspCell
    PROVE  /\ Append(esp, x) \in Seq(EspCell) /\ Len(Append(esp, x)) = Len(esp) + 1
           /\ \A d \in DOMAIN Append(esp, x) :
                \/ d \in DOMAIN esp /\ Append(esp, x)[d] = esp[d]
                \/ d = Len(esp) + 1 /\ Append(esp, x)[d] = x
<1>1. esp \in Seq(EspCell) /\ Len(esp) \in Nat /\ DOMAIN esp = 1 .. Len(esp)
  BY Known DEF Typed, TypedEsp
<1>2. Append(esp, x) \in Seq(EspCell) /\ Len(Append(esp, x)) = Len(esp) + 1
  BY <1>1, AppendProperties
<1>3. DOMAIN Append(esp, x) = 1 .. Len(esp) + 1
  BY <1>2, LenProperties
<1> QED
  BY <1>1, <1>2, <1>3, AppendProperties

LEMMA SizesAre ==
    \A n \in Sizes : n \in Nat /\ (n = MinSize \/ n = MinSize + 1) /\ MinSize \in Nat
  BY SlotSyncAssumption DEF Sizes

LEMMA HeatEndsDone == ASSUME Typed, AtWork, HeatEnds PROVE Typed' /\ AtWork' /\ Handled
<1>1. /\ pc = "heat" /\ stm' = stm
      /\ UNCHANGED <<queue, stmVars, faults, appVars, history>>
  BY DEF HeatEnds, stmVars
<1>2. /\ job \in Job /\ toStm \in Seq(ForStm) /\ job.cell \in DOMAIN esp /\ esp \in Seq(EspCell)
      /\ Len(esp) \in Sizes /\ espTemp \in Temps \cup {"none", "wants"}
      /\ due \in [Cells -> Half] /\ kept \in [Cells -> Half] /\ job.temp \in {"warm", "hot"}
  BY <1>1 DEF Typed, TypedEsp, TypedWire, TypedApp, AtWork, Storing
<1>3. PICK o \in Outcomes :
         /\ Returns(o)
         /\ \/ /\ o = "ok"
               /\ esp' = [Ship(job.cell) EXCEPT ![job.cell].dirty = FALSE]
               /\ Wait("heating", [job EXCEPT !.cell = @ + 1, !.tries = 0])
               /\ UNCHANGED <<espTemp, toStm>>
            \/ /\ Wait("heating", [job EXCEPT !.cell = @ + 1, !.tries = 0])
               /\ UNCHANGED <<esp, espTemp, toStm>>
            \/ /\ espTemp' = "wants"
               /\ SendStm(<<TempMsg("cold")>>)
               /\ Finish /\ esp' = esp
            \/ /\ Finish
               /\ UNCHANGED <<esp, espTemp, toStm>>
  BY DEF HeatEnds, Ends
<1>4. Turn /\ toEsp' \in Seq(ForEsp) /\ (o = "ok" => Acknowledged(job.cell))
  BY <1>1, <1>3, Ended DEF Storing
<1>5. espTemp' \in Temps \cup {"none", "wants"}
  BY <1>2, <1>3
<1>6. toStm' \in Seq(ForStm) /\ \E ps \in Seq(ForStm) : Sends(ps)
  <2>1. toStm' = toStm \/ SendStm(<<TempMsg("cold")>>)
    BY <1>3
  <2>2. TempMsg("cold") \in ForStm /\ TempMsg("cold").k \in Aside
    BY MessagesTyped DEF Temps, Aside
  <2> QED
    BY <1>2, <2>1, <2>2, SendsOne, SendsNothing
<1>7. /\ job' \in Job /\ pc' \in {"heating", "idle"} /\ (pc' = "heating" => job'.temp = job.temp)
  <2>1. PICK n \in Nat : n = job.cell + 1
    BY <1>2 DEF Job
  <2>2. \/ pc' = "heating" /\ job' = [job EXCEPT !.cell = n, !.tries = 0]
        \/ pc' = "idle" /\ job' = NoJob
    BY <1>3, <2>1 DEF Wait, Finish
  <2>3. [job EXCEPT !.cell = n, !.tries = 0] \in Job
        /\ [job EXCEPT !.cell = n, !.tries = 0].temp = job.temp
    BY <1>2 DEF Job
  <2> QED
    BY <2>2, <2>3, NoJobTyped
<1>8. /\ esp' \in Seq(EspCell) /\ Len(esp') = Len(esp) /\ DOMAIN esp' = DOMAIN esp
      /\ \A c \in DOMAIN esp : esp'[c].loc = "remote" => esp[c].loc = "remote" \/ (o = "ok" /\ c = job.cell)
  <2>1. CASE o = "ok" /\ esp' = [Ship(job.cell) EXCEPT ![job.cell].dirty = FALSE]
    <3> DEFINE s == Ship(job.cell)
    <3>1. /\ s \in Seq(EspCell) /\ Len(s) = Len(esp) /\ DOMAIN s = DOMAIN esp
          /\ \A d \in DOMAIN esp : s[d].loc = IF d = job.cell THEN "remote" ELSE esp[d].loc
      BY <1>2, Shipped
    <3>2. \A d \in DOMAIN s : s[d] \in EspCell
      BY <3>1, LenProperties, ElementOfSeq
    <3>3. esp' = [s EXCEPT ![job.cell].dirty = FALSE]
      BY <2>1
    <3> HIDE DEF s
    <3>4. \A c \in DOMAIN s : esp'[c] \in EspCell /\ esp'[c].loc = s[c].loc
      BY <3>2, <3>3 DEF EspCell, CellSet
    <3>5. esp' = [c \in DOMAIN s |-> esp'[c]]
      BY <3>3
    <3>6. esp' \in Seq(EspCell) /\ Len(esp') = Len(s) /\ DOMAIN esp' = DOMAIN s
      BY <3>1, <3>4, <3>5, Changed
    <3> QED
      BY <2>1, <3>1, <3>4, <3>6
  <2>2. CASE esp' = esp
    BY <1>2, <2>2
  <2> QED
    BY <1>3, <2>1, <2>2
<1>9. TypedEsp'
  BY <1>2, <1>5, <1>7, <1>8 DEF TypedEsp
<1>10. Typed'
  BY <1>1, <1>2, <1>4, <1>6, <1>9, OwnPart DEF history
<1>11. AtWork'
  BY <1>2, <1>7 DEF AtWork, Storing
<1>12. Handled
  <2>1. \A c \in DOMAIN esp' : esp'[c].loc = "remote" => Releases(c)
    BY <1>1, <1>4, <1>8 DEF Releases
  <2> QED
    BY <1>1, <1>4, <1>6, <1>7, <2>1 DEF Handled
<1> QED
  BY <1>10, <1>11, <1>12

-----------------------------------------------------------------------------
(* Changes of size                                                           *)

LEMMA TempsAre ==
    ASSUME NEW cells, NEW t \in Temps \cup {"none", "wants"}, t = espTemp
    PROVE  Emptied(cells, t) \in Temps \cup {"none", "wants"} /\ Present \in Temps \cup {"wants"}
  BY DEF Emptied, Present, Temps

(* The manager has just sent, or is to send again, a size it knows.           *)
LEMMA SizeSent ==
    ASSUME Typed, pc' \in {"size", "undo"}, job' \in Job, job'.size \in Sizes,
           esp' \in Seq(EspCell), Len(esp') \in Sizes, espTemp' \in Temps \cup {"none", "wants"},
           job'.size >= Len(esp'), pc' = "size" /\ job'.grow # "done" => Len(esp') = MinSize,
           \/ SendStm(<<SizeMsg(job'.size)>>)
           \/ \E t \in Temps : SendStm(<<TempMsg(t), SizeMsg(job'.size)>>),
           Turn, stm' = stm, pc # "frames",
           \A c \in DOMAIN esp' : esp'[c].loc = "remote" => Releases(c)
    PROVE  TypedEsp' /\ AtWork' /\ Handled /\ toStm' \in Seq(ForStm)
<1>1. TypedEsp'
  BY DEF TypedEsp, Waiting
<1>2. AtWork'
  BY DEF AtWork, Storing
<1>3. toStm' \in Seq(ForStm) /\ \E ps \in Seq(ForStm) : Sends(ps)
  <2> DEFINE m == SizeMsg(job'.size)
  <2>1. m \in ForStm /\ m.k = "setSize" /\ m.n = job'.size
    BY MessagesTyped
  <2>2. \A t \in Temps : TempMsg(t) \in ForStm /\ TempMsg(t).k \in Aside
    BY MessagesTyped DEF Aside
  <2>3. SendStm(<<m>>) \/ \E t \in Temps : SendStm(<<TempMsg(t), m>>)
    OBVIOUS
  <2> HIDE DEF m
  <2>4. CASE SendStm(<<m>>)
    BY <2>1, <2>4, SendsOne
  <2>5. ASSUME NEW t \in Temps, SendStm(<<TempMsg(t), m>>)
        PROVE  toStm' \in Seq(ForStm) /\ \E ps \in Seq(ForStm) : Sends(ps)
    BY <2>1, <2>2, <2>5, SendsTwo
  <2> QED
    BY <2>3, <2>4, <2>5
<1>4. Handled
  BY <1>3 DEF Handled
<1> QED
  BY <1>1, <1>2, <1>3, <1>4

LEMMA ShrinkDone == ASSUME Typed, AtWork, Shrink PROVE Typed' /\ AtWork' /\ Handled
<1>1. PICK n : n = Head(queue).n
  OBVIOUS
<1>2. /\ Head(queue) \in Pending /\ Head(queue).k = "size"
      /\ pc = "idle" /\ queue # <<>> /\ queue' = Tail(queue) /\ stm' = stm /\ n < Len(esp)
      /\ UNCHANGED <<stmVars, toEsp, faults, appVars>>
      /\ esp' = SubSeq(esp, 1, n)
      /\ due' = Cut(due, n) /\ kept' = Cut(kept, n)
      /\ Wait("size", [NoJob EXCEPT !.size = n, !.tries = 1, !.grow = "done"])
      /\ \/ espTemp' = Emptied(esp', espTemp) /\ SendStm(<<SizeMsg(n)>>)
         \/ espTemp' = "warm" /\ SendStm(<<TempMsg("warm"), SizeMsg(n)>>)
  BY <1>1, TakenTyped DEF Shrink, stmVars
<1>3. /\ toStm \in Seq(ForStm) /\ toEsp \in Seq(ForEsp) /\ espTemp \in Temps \cup {"none", "wants"}
      /\ due \in [Cells -> Half] /\ kept \in [Cells -> Half] /\ Len(esp) \in Nat
  BY Known DEF Typed, TypedEsp, TypedWire, TypedApp
<1>4. n \in Sizes /\ n \in Nat
  BY <1>1, <1>2, SizesAre DEF Pending, Asked
<1>5. pc' = "size" /\ job' \in Job /\ job'.size = n /\ job'.grow = "done"
  BY <1>2, <1>4, NoJobTyped DEF Wait, Job
<1>6. esp' \in Seq(EspCell) /\ Len(esp') = n /\ \A d \in DOMAIN esp' : d \in DOMAIN esp /\ esp'[d] = esp[d]
  BY <1>2, <1>3, <1>4, CutShort
<1>7. espTemp' \in Temps \cup {"none", "wants"}
  <2>1. Emptied(esp', espTemp) \in Temps \cup {"none", "wants"}
    BY <1>3, TempsAre
  <2> QED
    BY <1>2, <2>1 DEF Temps
<1>8. \/ SendStm(<<SizeMsg(job'.size)>>)
      \/ \E t \in Temps : SendStm(<<TempMsg(t), SizeMsg(job'.size)>>)
  BY <1>2, <1>5 DEF Temps
<1>9. Turn /\ \A c \in DOMAIN esp' : esp'[c].loc = "remote" => Releases(c)
  BY <1>2, <1>6 DEF Turn, Waiting, Storing, Releases
<1>10. TypedEsp' /\ AtWork' /\ Handled /\ toStm' \in Seq(ForStm)
  BY <1>2, <1>4, <1>5, <1>6, <1>7, <1>8, <1>9, SizeSent
<1>11. due' \in [Cells -> Half] /\ kept' \in [Cells -> Half]
  BY <1>2, <1>3, Known DEF Cut
<1> QED
  BY <1>2, <1>3, <1>10, <1>11, OwnPart

LEMMA GrowDone == ASSUME Typed, AtWork, Grow PROVE Typed' /\ AtWork' /\ Handled
<1>1. PICK n : n = Head(queue).n
  OBVIOUS
<1>2. PICK place \in {"remote", "local"} :
         place = IF espTemp \in {"warm", "hot"} /\ SomeRemote THEN "remote" ELSE "local"
  OBVIOUS
<1> DEFINE ask(how) == Wait("size", [NoJob EXCEPT !.size = n, !.tries = 1, !.grow = how])
           fresh == Cell("canonical", FALSE, Junk)
<1>3. /\ Head(queue) \in Pending /\ Head(queue).k = "size"
      /\ pc = "idle" /\ queue # <<>> /\ queue' = Tail(queue) /\ stm' = stm /\ n > Len(esp)
      /\ UNCHANGED <<stmVars, toEsp, faults, appVars, history>>
  BY <1>1, TakenTyped DEF Grow, stmVars
<1>4. /\ toStm \in Seq(ForStm) /\ toEsp \in Seq(ForEsp) /\ espTemp \in Temps \cup {"none", "wants"}
      /\ due \in [Cells -> Half] /\ kept \in [Cells -> Half] /\ Len(esp) \in Sizes
      /\ esp \in Seq(EspCell)
  BY DEF Typed, TypedEsp, TypedWire, TypedApp
<1>5. n \in Sizes /\ n \in Nat /\ n = Len(esp) + 1 /\ Len(esp) = MinSize
  <2>1. n \in Sizes
    BY <1>1, <1>3 DEF Pending, Asked
  <2>2. PICK l : l = Len(esp)
    OBVIOUS
  <2>3. l \in Sizes /\ n > l
    BY <1>3, <1>4, <2>2
  <2>4. n = l + 1 /\ l = MinSize /\ n \in Nat
    BY <2>1, <2>3, SizesAre
  <2> QED
    BY <2>1, <2>2, <2>4
<1>6. Turn
  BY <1>3 DEF Turn, Waiting, Storing
<1>7. CASE UNCHANGED <<espVars, toStm>>
  <2>1. UNCHANGED <<esp, espTemp, pc, job, toStm>>
    BY <1>7 DEF espVars
  <2>2. TypedEsp' /\ AtWork' /\ Handled
    BY <1>3, <1>4, <2>1, Rest, SendsNothing
  <2> QED
    BY <1>3, <1>4, <2>1, <2>2, OwnPart DEF history
<1>8. CASE \E how \in {"done", "remote", "local"} :
             /\ ask(how)
             /\ IF how = "done" THEN esp' = Append(esp, fresh) ELSE esp' = esp
             /\ espTemp' \in {espTemp, Present, "wants"}
             /\ \/ SendStm(<<SizeMsg(n)>>) \/ SendStm(<<TempMsg("cold"), SizeMsg(n)>>)
  <2>1. PICK how \in {"done", "remote", "local"} :
             /\ ask(how)
             /\ IF how = "done" THEN esp' = Append(esp, fresh) ELSE esp' = esp
             /\ espTemp' \in {espTemp, Present, "wants"}
             /\ \/ SendStm(<<SizeMsg(n)>>) \/ SendStm(<<TempMsg("cold"), SizeMsg(n)>>)
    BY <1>8
  <2>2. pc' = "size" /\ job' \in Job /\ job'.size = n /\ job'.grow = how
    BY <1>5, <2>1, NoJobTyped DEF Wait, Job
  <2>3. /\ esp' \in Seq(EspCell) /\ Len(esp') \in Sizes /\ n >= Len(esp')
        /\ how # "done" => Len(esp') = MinSize
        /\ \A c \in DOMAIN esp' : esp'[c].loc = "remote" => c \in DOMAIN esp /\ esp[c].loc = "remote"
    <3>1. CASE how = "done"
      <4>1. fresh \in EspCell /\ fresh.loc = "canonical"
        BY Known DEF Cell, EspCell, CellSet
      <4>2. esp' = Append(esp, fresh)
        BY <2>1, <3>1
      <4> HIDE DEF fresh
      <4> QED
        BY <1>5, <3>1, <4>1, <4>2, Grown
    <3>2. CASE how # "done"
      BY <1>4, <1>5, <2>1, <3>2, Known
    <3> QED
      BY <3>1, <3>2
  <2>4. espTemp' \in Temps \cup {"none", "wants"}
    BY <1>4, <2>1, TempsAre
  <2>5. \/ SendStm(<<SizeMsg(job'.size)>>)
        \/ \E t \in Temps : SendStm(<<TempMsg(t), SizeMsg(job'.size)>>)
    BY <2>1, <2>2 DEF Temps
  <2>6. \A c \in DOMAIN esp' : esp'[c].loc = "remote" => Releases(c)
    BY <1>3, <2>3 DEF Releases
  <2>7. TypedEsp' /\ AtWork' /\ Handled /\ toStm' \in Seq(ForStm)
    BY <1>3, <1>5, <1>6, <2>2, <2>3, <2>4, <2>5, <2>6, SizeSent
  <2> QED
    BY <1>3, <1>4, <2>7, OwnPart DEF history
<1> QED
  <2>1. \/ UNCHANGED <<espVars, toStm>>
        \/ esp' = Append(esp, fresh) /\ espTemp' = Present /\ ask("done") /\ SendStm(<<SizeMsg(n)>>)
        \/ ask(place) /\ SendStm(<<SizeMsg(n)>>) /\ UNCHANGED <<esp, espTemp>>
        \/ /\ espTemp' = "wants"
           /\ \/ ask("done") /\ esp' = Append(esp, fresh)
              \/ ask(place) /\ esp' = esp
           /\ SendStm(<<TempMsg("cold"), SizeMsg(n)>>)
    BY <1>1, <1>2 DEF Grow
  <2> QED
    BY <1>2, <1>7, <1>8, <2>1

LEMMA SameSizeDone == ASSUME Typed, AtWork, SameSize PROVE Typed' /\ AtWork' /\ Handled
<1>1. /\ pc = "idle" /\ queue # <<>> /\ queue' = Tail(queue) /\ stm' = stm
      /\ UNCHANGED <<esp, espTemp, pc, job, stmVars, toStm, toEsp, faults, appVars, due, kept>>
  BY TakenTyped DEF SameSize, espVars, stmVars, history
<1>2. /\ toStm \in Seq(ForStm) /\ toEsp \in Seq(ForEsp) /\ esp \in Seq(EspCell)
      /\ Len(esp) \in Sizes /\ espTemp \in Temps \cup {"none", "wants"}
      /\ due \in [Cells -> Half] /\ kept \in [Cells -> Half]
  BY DEF Typed, TypedEsp, TypedWire, TypedApp
<1>3. TypedEsp' /\ AtWork' /\ Handled
  BY <1>1, <1>2, Rest, SendsNothing
<1> QED
  BY <1>1, <1>2, <1>3, OwnPart

LEMMA SizeResendDone == ASSUME Typed, AtWork, SizeResend PROVE Typed' /\ AtWork' /\ Handled
<1>1. /\ pc \in {"size", "undo"} /\ TimedOut /\ stm' = stm /\ pc' = pc /\ esp' = esp
      /\ espTemp' = espTemp /\ job' = [job EXCEPT !.tries = @ + 1]
      /\ SendStm(<<SizeMsg(job.size)>>)
      /\ UNCHANGED <<queue, stmVars, faults, appVars, history>>
  BY DEF SizeResend, Wait, stmVars
<1>2. /\ job \in Job /\ esp \in Seq(EspCell) /\ Len(esp) \in Sizes
      /\ espTemp \in Temps \cup {"none", "wants"}
      /\ due \in [Cells -> Half] /\ kept \in [Cells -> Half]
      /\ job.size \in Sizes /\ job.size >= Len(esp)
      /\ pc = "size" /\ job.grow # "done" => Len(esp) = MinSize
  BY <1>1 DEF Typed, TypedEsp, TypedApp, AtWork
<1>3. job' \in Job /\ job'.size = job.size /\ job'.grow = job.grow
  <2>1. PICK n \in Nat : n = job.tries + 1
    BY <1>2 DEF Job
  <2>2. job' = [job EXCEPT !.tries = n]
    BY <1>1, <2>1
  <2> QED
    BY <1>2, <2>2 DEF Job
<1>4. Turn /\ toEsp' \in Seq(ForEsp)
  BY <1>1, HeardTyped DEF Turn
<1>5. \A c \in DOMAIN esp' : esp'[c].loc = "remote" => Releases(c)
  BY <1>1 DEF Releases
<1>6. TypedEsp' /\ AtWork' /\ Handled /\ toStm' \in Seq(ForStm)
  BY <1>1, <1>2, <1>3, <1>4, <1>5, SizeSent
<1> QED
  BY <1>1, <1>2, <1>4, <1>6, OwnPart DEF history

(* A handler that ends with nothing more to say.                              *)
LEMMA Stops ==
    ASSUME Typed, Turn, Finish, toEsp' \in Seq(ForEsp),
           UNCHANGED <<toStm, queue, stmVars, faults, appVars, history>>,
           esp' \in Seq(EspCell), Len(esp') \in Sizes,
           espTemp' \in Temps \cup {"none", "wants"},
           \A c \in DOMAIN esp' : esp'[c].loc = "remote" => Releases(c)
    PROVE  Typed' /\ AtWork' /\ Handled
<1>1. /\ pc' = "idle" /\ job' \in Job /\ toStm \in Seq(ForStm)
      /\ due \in [Cells -> Half] /\ kept \in [Cells -> Half]
  BY NoJobTyped DEF Finish, Typed, TypedWire, TypedApp
<1>2. TypedEsp'
  BY <1>1 DEF TypedEsp
<1>3. Typed'
  BY <1>1, <1>2, OwnPart DEF history
<1>4. AtWork'
  BY <1>1 DEF AtWork, Storing
<1>5. Handled
  BY <1>1, SendsNothing DEF Handled, stmVars
<1> QED
  BY <1>3, <1>4, <1>5

LEMMA SizeGivenUpDone == ASSUME Typed, AtWork, SizeGivenUp PROVE Typed' /\ AtWork' /\ Handled
<1>1. /\ pc \in {"size", "undo"} /\ TimedOut /\ Finish /\ esp' = esp /\ espTemp' = espTemp
      /\ UNCHANGED <<toStm, queue, stmVars, faults, appVars, history>>
  BY DEF SizeGivenUp
<1>2. Turn /\ toEsp' \in Seq(ForEsp)
  BY <1>1, HeardTyped DEF Turn
<1>3. esp' \in Seq(EspCell) /\ Len(esp') \in Sizes /\ espTemp' \in Temps \cup {"none", "wants"}
  BY <1>1 DEF Typed, TypedEsp
<1>4. \A c \in DOMAIN esp' : esp'[c].loc = "remote" => Releases(c)
  BY <1>1 DEF Releases
<1> QED
  BY <1>1, <1>2, <1>3, <1>4, Stops

LEMMA SizeAgreedDone == ASSUME Typed, AtWork, SizeAgreed PROVE Typed' /\ AtWork' /\ Handled
<1>1. /\ pc \in {"size", "undo"} /\ Answered /\ stm' = stm
      /\ UNCHANGED <<queue, stmVars, faults, appVars, history>>
  BY DEF SizeAgreed, stmVars
<1>2. /\ job \in Job /\ esp \in Seq(EspCell) /\ Len(esp) \in Sizes
      /\ espTemp \in Temps \cup {"none", "wants"} /\ due \in [Cells -> Half] /\ kept \in [Cells -> Half]
      /\ pc = "size" /\ job.grow # "done" => Len(esp) = MinSize
  BY <1>1 DEF Typed, TypedEsp, TypedApp, AtWork
<1>3. Turn /\ toEsp' \in Seq(ForEsp)
  BY <1>1, HeardTyped DEF Turn
<1>4. MinSize \in Nat /\ MinSize + 1 \in Sizes /\ Junk \in Half \X Half
  BY Known DEF Sizes
<1>5. CASE Finish /\ UNCHANGED <<esp, espTemp, toStm>>
  <2>1. \A c \in DOMAIN esp' : esp'[c].loc = "remote" => Releases(c)
    BY <1>1, <1>5 DEF Releases
  <2> QED
    BY <1>1, <1>2, <1>3, <1>5, <2>1, Stops
<1>6. CASE /\ pc = "size" /\ job.grow = "local"
           /\ esp' = Append(esp, Cell("canonical", FALSE, Junk))
           /\ espTemp' = Present /\ Finish /\ UNCHANGED toStm
  <2> DEFINE x == Cell("canonical", FALSE, Junk)
  <2>1. x \in EspCell /\ x.loc = "canonical"
    BY <1>4 DEF Cell, EspCell, CellSet
  <2>2. esp' = Append(esp, x)
    BY <1>6
  <2> HIDE DEF x
  <2>3. /\ esp' \in Seq(EspCell) /\ Len(esp') = MinSize + 1
        /\ \A c \in DOMAIN esp' : esp'[c].loc = "remote" => c \in DOMAIN esp /\ esp[c].loc = "remote"
    BY <1>2, <1>6, <2>1, <2>2, Grown
  <2>4. \A c \in DOMAIN esp' : esp'[c].loc = "remote" => Releases(c)
    BY <1>6, <2>3 DEF Releases
  <2>5. espTemp' \in Temps \cup {"none", "wants"}
    BY <1>2, <1>6, TempsAre
  <2> QED
    BY <1>1, <1>3, <1>4, <1>6, <2>3, <2>4, <2>5, Stops
<1>7. CASE /\ pc = "size" /\ job.grow # "done"
           /\ esp' = Append(esp, Cell("remote", FALSE, Junk))
           /\ Wait("grow", [job EXCEPT !.cell = Len(esp) + 1, !.tries = 1])
           /\ LET store == Frames("store", Len(esp) + 1, Junk) IN
                \/ espTemp' = Present /\ SendStm(store)
                \/ espTemp' = "wants" /\ SendStm(<<TempMsg("cold")>> \o store)
  <2> DEFINE x == Cell("remote", FALSE, Junk)
  <2>1. PICK n : n = Len(esp) + 1
    OBVIOUS
  <2>2. n = MinSize + 1 /\ n \in Nat /\ n \in Cells
    BY <1>2, <1>4, <1>7, <2>1 DEF Cells
  <2>3. x \in EspCell
    BY <1>4 DEF Cell, EspCell, CellSet
  <2>4. esp' = Append(esp, x)
    BY <1>7
  <2> HIDE DEF x
  <2>5. /\ esp' \in Seq(EspCell) /\ Len(esp') = n
        /\ \A c \in DOMAIN esp' : (c \in DOMAIN esp /\ esp'[c] = esp[c]) \/ c = n
    BY <2>1, <2>3, <2>4, Grown
  <2>6. pc' = "grow" /\ job'.cell = n /\ job' \in Job
    <3>1. pc' = "grow" /\ job' = [job EXCEPT !.cell = n, !.tries = 1]
      BY <1>7, <2>1 DEF Wait
    <3> QED
      BY <1>2, <2>2, <3>1 DEF Job
  <2>7. espTemp' \in Temps \cup {"none", "wants"}
    BY <1>2, <1>7, TempsAre
  <2>8. toStm' \in Seq(ForStm) /\ \E ps \in Seq(ForStm) : Sends(ps)
    <3>1. SendStm(Frames("store", n, Junk)) \/ SendStm(<<TempMsg("cold")>> \o Frames("store", n, Junk))
      BY <1>7, <2>1
    <3>2. TempMsg("cold") \in ForStm /\ TempMsg("cold").k \in Aside
      BY MessagesTyped DEF Temps, Aside
    <3>3. CASE SendStm(Frames("store", n, Junk))
      BY <1>4, <2>2, <2>6, <3>3, SendsFrames, "store" \in {"store", "fulfill"} DEF Storing
    <3>4. CASE SendStm(<<TempMsg("cold")>> \o Frames("store", n, Junk))
      BY <1>4, <2>2, <2>6, <3>2, <3>4, SendsFramesAfter DEF Storing
    <3> QED
      BY <3>1, <3>3, <3>4
  <2>9. TypedEsp'
    BY <1>4, <2>2, <2>5, <2>6, <2>7 DEF TypedEsp, Waiting, Storing
  <2>10. Typed'
    BY <1>1, <1>2, <1>3, <2>8, <2>9, OwnPart DEF history
  <2>11. AtWork'
    <3>1. n \in DOMAIN esp'
      <4>1. DOMAIN esp' = 1 .. Len(esp')
        BY <2>5, LenProperties
      <4> QED
        BY <1>4, <2>2, <2>5, <4>1
    <3> QED
      BY <2>2, <2>5, <2>6, <3>1 DEF AtWork, Storing
  <2>12. \A c \in DOMAIN esp' : esp'[c].loc = "remote" => Releases(c)
    BY <1>1, <1>7, <2>5, <2>6 DEF Releases
  <2> QED
    BY <1>1, <1>3, <2>6, <2>8, <2>10, <2>11, <2>12 DEF Handled
<1> QED
  BY <1>5, <1>6, <1>7 DEF SizeAgreed

LEMMA GrowEndsDone == ASSUME Typed, AtWork, GrowEnds PROVE Typed' /\ AtWork' /\ Handled
<1>1. /\ pc = "grow" /\ stm' = stm
      /\ UNCHANGED <<queue, stmVars, faults, appVars, history>>
  BY DEF GrowEnds, stmVars
<1>2. /\ job \in Job /\ esp \in Seq(EspCell) /\ Len(esp) \in Sizes
      /\ espTemp \in Temps \cup {"none", "wants"} /\ due \in [Cells -> Half] /\ kept \in [Cells -> Half]
      /\ job.cell = Len(esp) /\ Len(esp) = MinSize + 1
  BY <1>1 DEF Typed, TypedEsp, TypedApp, AtWork
<1>3. PICK o \in Outcomes :
         /\ Returns(o)
         /\ \/ /\ o = "ok" /\ Finish
               /\ UNCHANGED <<esp, espTemp, toStm>>
            \/ /\ esp' = SubSeq(esp, 1, job.cell - 1)
               /\ espTemp' = Emptied(esp', espTemp)
               /\ Wait("undo", [job EXCEPT !.size = job.cell - 1, !.tries = 1])
               /\ SendStm(<<SizeMsg(job.cell - 1)>>)
  BY DEF GrowEnds, Ends
<1>4. Turn /\ toEsp' \in Seq(ForEsp) /\ (o = "ok" => Acknowledged(job.cell))
  BY <1>1, <1>3, Ended DEF Storing
<1>5. MinSize \in Nat /\ MinSize \in Sizes
  BY Known DEF Sizes
<1>6. CASE o = "ok" /\ Finish /\ UNCHANGED <<esp, espTemp, toStm>>
  <2>1. \A c \in DOMAIN esp' : esp'[c].loc = "remote" => Releases(c)
    BY <1>4, <1>6 DEF Releases
  <2> QED
    BY <1>1, <1>2, <1>4, <1>6, <2>1, Stops
<1>7. CASE /\ esp' = SubSeq(esp, 1, job.cell - 1)
           /\ espTemp' = Emptied(esp', espTemp)
           /\ Wait("undo", [job EXCEPT !.size = job.cell - 1, !.tries = 1])
           /\ SendStm(<<SizeMsg(job.cell - 1)>>)
  <2>1. PICK n : n = job.cell - 1
    OBVIOUS
  <2>2. n = MinSize /\ n \in Nat /\ n \in Sizes /\ n <= Len(esp)
    BY <1>2, <1>5, <2>1
  <2>3. /\ esp' \in Seq(EspCell) /\ Len(esp') = n
        /\ \A d \in DOMAIN esp' : d \in DOMAIN esp /\ esp'[d] = esp[d]
    BY <1>7, <2>1, <2>2, CutShort
  <2>4. \A d \in DOMAIN esp' : d # job.cell
    BY <1>2, <1>5, <2>2, <2>3, LenProperties
  <2>5. pc' = "undo" /\ job' \in Job /\ job'.size = n
    <3>1. pc' = "undo" /\ job' = [job EXCEPT !.size = n, !.tries = 1]
      BY <1>7, <2>1 DEF Wait
    <3> QED
      BY <1>2, <2>2, <3>1 DEF Job
  <2>6. espTemp' \in Temps \cup {"none", "wants"}
    BY <1>2, <1>7, TempsAre
  <2>7. \A c \in DOMAIN esp' : esp'[c].loc = "remote" => Releases(c)
    BY <2>3, <2>4 DEF Releases
  <2>8. SendStm(<<SizeMsg(job'.size)>>)
    BY <1>7, <2>1, <2>5
  <2>9. pc' \in {"size", "undo"} /\ job'.size \in Sizes /\ Len(esp') \in Sizes
        /\ job'.size >= Len(esp') /\ (pc' = "size" /\ job'.grow # "done" => Len(esp') = MinSize)
    BY <2>2, <2>3, <2>5
  <2>10. TypedEsp' /\ AtWork' /\ Handled /\ toStm' \in Seq(ForStm)
    BY <1>1, <1>4, <2>3, <2>5, <2>6, <2>7, <2>8, <2>9, SizeSent
  <2> QED
    BY <1>1, <1>2, <1>4, <2>10, OwnPart DEF history
<1> QED
  BY <1>3, <1>6, <1>7

-----------------------------------------------------------------------------
(* Making room                                                               *)

LEMMA DemoteDone == ASSUME Typed, AtWork, Demote PROVE Typed' /\ AtWork' /\ Handled
<1>1. /\ pc = "idle" /\ espTemp' = "wants" /\ stm' = stm /\ toEsp' = toEsp /\ SendStm(<<TempMsg("cold")>>)
      /\ UNCHANGED <<esp, pc, job, queue, stmVars, faults, appVars, due, kept>>
  BY DEF Demote, stmVars, history
<1>2. /\ toEsp \in Seq(ForEsp) /\ esp \in Seq(EspCell) /\ Len(esp) \in Sizes
      /\ due \in [Cells -> Half] /\ kept \in [Cells -> Half]
  BY DEF Typed, TypedEsp, TypedWire, TypedApp
<1>3. TempMsg("cold") \in ForStm /\ TempMsg("cold").k \in Aside
  BY MessagesTyped DEF Temps, Aside
<1>4. toStm' \in Seq(ForStm) /\ \E ps \in Seq(ForStm) : Sends(ps)
  BY <1>1, <1>3, SendsOne
<1>5. TypedEsp' /\ AtWork' /\ Handled
  BY <1>1, <1>2, <1>4, Rest
<1> QED
  BY <1>1, <1>2, <1>4, <1>5, OwnPart

LEMMA ReinstateDone == ASSUME Typed, AtWork, Reinstate PROVE Typed' /\ AtWork' /\ Handled
<1>1. /\ pc = "idle" /\ espTemp' = "warm" /\ stm' = stm /\ toEsp' = toEsp /\ SendStm(<<TempMsg("warm")>>)
      /\ UNCHANGED <<esp, pc, job, queue, stmVars, faults, appVars, due, kept>>
  BY DEF Reinstate, stmVars, history
<1>2. /\ toEsp \in Seq(ForEsp) /\ esp \in Seq(EspCell) /\ Len(esp) \in Sizes
      /\ due \in [Cells -> Half] /\ kept \in [Cells -> Half] /\ "warm" \in Temps
  BY DEF Typed, TypedEsp, TypedWire, TypedApp, Temps
<1>3. TempMsg("warm") \in ForStm /\ TempMsg("warm").k \in Aside
  BY MessagesTyped DEF Temps, Aside
<1>4. toStm' \in Seq(ForStm) /\ \E ps \in Seq(ForStm) : Sends(ps)
  BY <1>1, <1>3, SendsOne
<1>5. TypedEsp' /\ AtWork' /\ Handled
  BY <1>1, <1>2, <1>4, Rest
<1> QED
  BY <1>1, <1>2, <1>4, <1>5, OwnPart

LEMMA MoveOutDone ==
    ASSUME Typed, AtWork, NEW c \in DOMAIN esp, MoveOut(c) PROVE Typed' /\ AtWork' /\ Handled
<1>1. /\ pc = "idle" /\ esp[c].loc = "canonical" /\ stm' = stm /\ esp' = esp /\ espTemp' = espTemp
      /\ Wait("move", [NoJob EXCEPT !.cell = c, !.tries = 1])
      /\ SendStm(Frames("store", c, esp[c].data))
      /\ UNCHANGED <<queue, stmVars, toEsp, faults, appVars, history>>
  BY DEF MoveOut, stmVars
<1>2. /\ toEsp \in Seq(ForEsp) /\ esp \in Seq(EspCell) /\ Len(esp) \in Sizes
      /\ espTemp \in Temps \cup {"none", "wants"} /\ due \in [Cells -> Half] /\ kept \in [Cells -> Half]
  BY DEF Typed, TypedEsp, TypedWire, TypedApp
<1>3. esp[c].data \in Half \X Half /\ c \in Cells /\ c \in Nat
  BY Known DEF EspCell, CellSet
<1>4. pc' = "move" /\ job' \in Job /\ job'.cell = c
  BY <1>1, <1>3, NoJobTyped DEF Wait, Job
<1>5. toStm' \in Seq(ForStm) /\ \E ps \in Seq(ForStm) : Sends(ps)
  BY <1>1, <1>3, <1>4, SendsFrames, "store" \in {"store", "fulfill"} DEF Storing
<1>6. TypedEsp'
  BY <1>1, <1>2, <1>4 DEF TypedEsp, Waiting, Storing
<1>7. Typed'
  BY <1>1, <1>2, <1>5, <1>6, OwnPart DEF history
<1>8. AtWork'
  BY <1>1, <1>4 DEF AtWork, Storing
<1>9. Handled
  BY <1>1, <1>4, <1>5 DEF Handled, Turn, Waiting, Storing, Releases
<1> QED
  BY <1>7, <1>8, <1>9

LEMMA MoveEndsDone == ASSUME Typed, AtWork, MoveEnds PROVE Typed' /\ AtWork' /\ Handled
<1>1. /\ pc = "move" /\ Finish /\ espTemp' = espTemp
      /\ UNCHANGED <<toStm, queue, stmVars, faults, appVars, history>>
  BY DEF MoveEnds
<1>2. /\ esp \in Seq(EspCell) /\ Len(esp) \in Sizes /\ job.cell \in DOMAIN esp
      /\ espTemp \in Temps \cup {"none", "wants"}
  BY <1>1 DEF Typed, TypedEsp, AtWork, Storing
<1>3. PICK o \in Outcomes : Returns(o) /\ esp' = IF o = "ok" THEN Ship(job.cell) ELSE esp
  BY DEF MoveEnds, Ends
<1>4. Turn /\ toEsp' \in Seq(ForEsp) /\ (o = "ok" => Acknowledged(job.cell))
  BY <1>1, <1>3, Ended DEF Storing
<1>5. /\ esp' \in Seq(EspCell) /\ Len(esp') \in Sizes /\ DOMAIN esp' = DOMAIN esp
      /\ \A c \in DOMAIN esp : esp'[c].loc = "remote" => esp[c].loc = "remote" \/ (o = "ok" /\ c = job.cell)
  <2>1. CASE o = "ok"
    BY <1>2, <1>3, <2>1, Shipped
  <2>2. CASE o # "ok"
    BY <1>2, <1>3, <2>2
  <2> QED
    BY <2>1, <2>2
<1>6. \A c \in DOMAIN esp' : esp'[c].loc = "remote" => Releases(c)
  BY <1>1, <1>4, <1>5 DEF Releases
<1> QED
  BY <1>1, <1>2, <1>4, <1>5, <1>6, Stops

LEMMA ReclaimDone ==
    ASSUME Typed, AtWork, NEW c \in DOMAIN esp, Reclaim(c) PROVE Typed' /\ AtWork' /\ Handled
<1> DEFINE p == [k |-> "retrieve", cell |-> c]
<1>1. /\ pc = "idle" /\ stm' = stm /\ esp' = [esp EXCEPT ![c].loc = "canonical"]
      /\ Wait("retrieve", [NoJob EXCEPT !.cell = c])
      /\ SendStm(<<p>>)
      /\ UNCHANGED <<espTemp, queue, stmVars, toEsp, faults, appVars, history>>
  BY DEF Reclaim, stmVars
<1>2. /\ toEsp \in Seq(ForEsp) /\ esp \in Seq(EspCell) /\ Len(esp) \in Sizes
      /\ espTemp \in Temps \cup {"none", "wants"} /\ due \in [Cells -> Half] /\ kept \in [Cells -> Half]
  BY DEF Typed, TypedEsp, TypedWire, TypedApp
<1>3. c \in Cells /\ c \in Nat
  BY Known
<1>4. pc' = "retrieve" /\ job' \in Job /\ job'.cell = c
  BY <1>1, <1>3, NoJobTyped DEF Wait, Job
<1>5. toStm' \in Seq(ForStm) /\ \E ps \in Seq(ForStm) : Sends(ps)
  <2>1. p \in ForStm /\ p.k = "retrieve" /\ p.cell = c
    BY <1>3 DEF ForStm
  <2> HIDE DEF p
  <2> QED
    BY <1>1, <1>4, <2>1, SendsOne
<1>6. /\ esp' \in Seq(EspCell) /\ Len(esp') = Len(esp) /\ DOMAIN esp' = DOMAIN esp
      /\ \A d \in DOMAIN esp : esp'[d].loc = IF d = c THEN "canonical" ELSE esp[d].loc
  <2>1. \A d \in DOMAIN esp : esp[d] \in EspCell
    BY Known
  <2>2. \A d \in DOMAIN esp : esp'[d] \in EspCell /\ esp'[d].loc = IF d = c THEN "canonical" ELSE esp[d].loc
    BY <1>1, <2>1 DEF EspCell, CellSet
  <2>3. esp' = [d \in DOMAIN esp |-> esp'[d]]
    BY <1>1
  <2> QED
    BY <1>2, <2>2, <2>3, Changed
<1>7. TypedEsp'
  BY <1>1, <1>2, <1>4, <1>6 DEF TypedEsp, Waiting
<1>8. Typed'
  BY <1>1, <1>2, <1>5, <1>7, OwnPart DEF history
<1>9. AtWork'
  BY <1>4, <1>6 DEF AtWork, Storing
<1>10. \A d \in DOMAIN esp' : esp'[d].loc = "remote" => Releases(d)
  BY <1>1, <1>6 DEF Releases
<1>11. Handled
  BY <1>1, <1>4, <1>5, <1>10 DEF Handled, Turn, Waiting, Storing
<1> QED
  BY <1>8, <1>9, <1>11

LEMMA RetrieveAckedDone == ASSUME Typed, AtWork, RetrieveAcked PROVE Typed' /\ AtWork' /\ Handled
<1>1. /\ pc = "retrieve" /\ Answered /\ pc' = "frames" /\ job' = job /\ stm' = stm /\ esp' = esp
      /\ espTemp' = espTemp /\ toStm' = toStm
      /\ UNCHANGED <<queue, stmVars, faults, appVars, history>>
  BY DEF RetrieveAcked, Wait, stmVars
<1>2. toEsp' \in Seq(ForEsp) /\ toStm \in Seq(ForStm) /\ due \in [Cells -> Half] /\ kept \in [Cells -> Half]
  BY <1>1, HeardTyped DEF Typed, TypedWire, TypedApp
<1>3. TypedEsp'
  BY <1>1 DEF Typed, TypedEsp, Waiting
<1>4. Typed'
  BY <1>1, <1>2, <1>3, OwnPart DEF history
<1>5. AtWork'
  BY <1>1 DEF AtWork, Storing
<1>6. Handled
  BY <1>1, SendsNothing DEF Handled, Turn, Releases
<1> QED
  BY <1>4, <1>5, <1>6

LEMMA RetrieveTimeoutDone == ASSUME Typed, AtWork, RetrieveTimeout PROVE Typed' /\ AtWork' /\ Handled
<1>1. /\ pc = "retrieve" /\ TimedOut /\ Finish /\ esp' = esp /\ espTemp' = espTemp
      /\ UNCHANGED <<toStm, queue, stmVars, faults, appVars, history>>
  BY DEF RetrieveTimeout
<1>2. Turn /\ toEsp' \in Seq(ForEsp)
  BY <1>1, HeardTyped DEF Turn
<1>3. esp' \in Seq(EspCell) /\ Len(esp') \in Sizes /\ espTemp' \in Temps \cup {"none", "wants"}
  BY <1>1 DEF Typed, TypedEsp
<1>4. \A c \in DOMAIN esp' : esp'[c].loc = "remote" => Releases(c)
  BY <1>1 DEF Releases
<1> QED
  BY <1>1, <1>2, <1>3, <1>4, Stops

LEMMA FrameTimeoutDone == ASSUME Typed, AtWork, FrameTimeout PROVE Typed' /\ AtWork' /\ Handled
<1>1. /\ pc = "frames" /\ TimedOut /\ Finish /\ esp' = Ship(job.cell) /\ espTemp' = espTemp
      /\ UNCHANGED <<toStm, queue, stmVars, faults, appVars, history>>
  BY DEF FrameTimeout
<1>2. Turn /\ toEsp' \in Seq(ForEsp)
  BY <1>1, HeardTyped DEF Turn
<1>3. job.cell \in DOMAIN esp /\ Len(esp) \in Sizes /\ espTemp \in Temps \cup {"none", "wants"}
  BY <1>1 DEF Typed, TypedEsp, AtWork
<1>4. /\ esp' \in Seq(EspCell) /\ Len(esp') \in Sizes /\ DOMAIN esp' = DOMAIN esp
      /\ \A c \in DOMAIN esp : esp'[c].loc = IF c = job.cell THEN "remote" ELSE esp[c].loc
  BY <1>1, <1>3, Shipped
<1>5. \A c \in DOMAIN esp' : esp'[c].loc = "remote" => Releases(c)
  BY <1>1, <1>4 DEF Releases, Acknowledged
<1> QED
  BY <1>1, <1>2, <1>3, <1>4, <1>5, Stops

LEMMA FrameDone == ASSUME Typed, AtWork, Frame PROVE Typed' /\ AtWork' /\ Handled
<1>1. PICK p : p = Head(toEsp)
  OBVIOUS
<1>2. PICK half \in {1, 2} : half = IF p.k = "data1" THEN 1 ELSE 2
  OBVIOUS
<1>3. /\ pc = "frames" /\ Answered /\ stm' = stm /\ p.k \in {"data1", "data2"}
      /\ esp' = [esp EXCEPT ![p.cell].data[half] = p.val, ![p.cell].dirty = TRUE]
      /\ \/ UNCHANGED <<pc, job, toStm>>
         \/ Finish /\ SendStm(<<[k |-> "ackData", cell |-> job.cell]>>)
      /\ UNCHANGED <<espTemp, queue, stmVars, faults, appVars, history>>
  <2>1. Wanted(p) /\ pc = "frames"
    BY <1>1 DEF Frame, Answered
  <2> QED
    BY <1>1, <1>2, <2>1 DEF Frame, stmVars, Wanted, Storing
<1>4. /\ esp \in Seq(EspCell) /\ Len(esp) \in Sizes /\ job \in Job /\ toStm \in Seq(ForStm)
      /\ espTemp \in Temps \cup {"none", "wants"} /\ due \in [Cells -> Half] /\ kept \in [Cells -> Half]
      /\ job.cell \in DOMAIN esp /\ esp[job.cell].loc = "canonical"
  BY <1>3 DEF Typed, TypedEsp, TypedWire, TypedApp, AtWork
<1>5. Turn /\ toEsp' \in Seq(ForEsp)
  BY <1>3, HeardTyped DEF Turn
<1>6. p.val \in Half
  <2>1. p \in ForEsp
    BY <1>1, <1>3, TailOf DEF Answered, Typed, TypedWire
  <2> QED
    BY <1>3, <2>1 DEF ForEsp, Asked, Acks
<1>7. /\ esp' \in Seq(EspCell) /\ Len(esp') = Len(esp) /\ DOMAIN esp' = DOMAIN esp
      /\ \A d \in DOMAIN esp : esp'[d].loc = esp[d].loc
  <2>1. \A d \in DOMAIN esp : esp[d] \in EspCell
    BY Known
  <2>2. CASE p.cell \in DOMAIN esp
    <3>1. PICK x : x = [esp[p.cell].data EXCEPT ![half] = p.val]
      OBVIOUS
    <3>2. x \in Half \X Half
      BY <1>6, <2>1, <2>2, <3>1, Pair DEF EspCell, CellSet
    <3>3. esp' = [esp EXCEPT ![p.cell] = [@ EXCEPT !.data = x, !.dirty = TRUE]]
      BY <1>3, <2>2, <3>1
    <3>4. \A d \in DOMAIN esp : esp'[d] \in EspCell /\ esp'[d].loc = esp[d].loc
      BY <2>1, <3>2, <3>3 DEF EspCell, CellSet
    <3>5. esp' = [d \in DOMAIN esp |-> esp'[d]]
      BY <3>3
    <3> QED
      BY <1>4, <3>4, <3>5, Changed
  <2>3. CASE p.cell \notin DOMAIN esp
    <3>1. \A d \in DOMAIN esp : esp'[d] = esp[d]
      BY <1>3, <2>3
    <3>2. esp' = [d \in DOMAIN esp |-> esp'[d]]
      BY <1>3
    <3> QED
      BY <1>4, <2>1, <3>1, <3>2, Changed
  <2> QED
    BY <2>2, <2>3
<1>8. \A d \in DOMAIN esp' : esp'[d].loc = "remote" => Releases(d)
  BY <1>3, <1>7 DEF Releases
<1>9. CASE UNCHANGED <<pc, job, toStm>>
  <2>1. TypedEsp'
    BY <1>3, <1>4, <1>7, <1>9 DEF TypedEsp, Waiting
  <2>2. Typed'
    BY <1>3, <1>4, <1>5, <1>9, <2>1, OwnPart DEF history
  <2>3. AtWork'
    BY <1>3, <1>4, <1>7, <1>9 DEF AtWork, Storing
  <2>4. Handled
    BY <1>3, <1>5, <1>8, <1>9, SendsNothing DEF Handled
  <2> QED
    BY <2>2, <2>3, <2>4
<1>10. CASE Finish /\ SendStm(<<[k |-> "ackData", cell |-> job.cell]>>)
  <2> DEFINE q == [k |-> "ackData", cell |-> job.cell]
  <2>1. q \in ForStm /\ q.k = "ackData" /\ q.cell = job.cell
    BY <1>4, Known DEF ForStm
  <2>2. SendStm(<<q>>) /\ pc' = "idle" /\ job' \in Job
    BY <1>10, NoJobTyped DEF Finish
  <2> HIDE DEF q
  <2>3. toStm' \in Seq(ForStm) /\ \E ps \in Seq(ForStm) : Sends(ps)
    BY <1>3, <2>1, <2>2, SendsOne
  <2>4. TypedEsp'
    BY <1>3, <1>4, <1>7, <2>2 DEF TypedEsp
  <2>5. Typed'
    BY <1>3, <1>4, <1>5, <2>3, <2>4, OwnPart DEF history
  <2>6. AtWork'
    BY <2>2 DEF AtWork, Storing
  <2>7. Handled
    BY <1>3, <1>4, <1>5, <1>7, <1>8, <2>2, <2>3 DEF Handled
  <2> QED
    BY <2>5, <2>6, <2>7
<1> QED
  BY <1>3, <1>9, <1>10

-----------------------------------------------------------------------------
(* One exchange at a time, and a holder for everything: the manager's steps  *)

(* A wait that ends before the answer can still come would let the answer of *)
(* one exchange pass for that of the next.  Only the wait for data may: what  *)
(* is left of it is told from every acknowledgement.                          *)
Patient == Hasty \subseteq {"frames"}

LEMMA AckWanted ==
    ASSUME NEW p, Wanted(p)
    PROVE  pc \in Waiting /\ (pc = "frames" => p.k \notin Acks) /\ (pc # "frames" => p.k \in Acks)
  BY DEF Wanted, Waiting, Storing, Acks

(* When a handler goes on, nothing of an exchange is on its way.              *)
LEMMA Silence ==
    ASSUME Typed, OneExchange, Patient, Turn
    PROVE  /\ \A i \in DOMAIN toStm : toStm[i].k \in Aside \cup {"ackData"}
           /\ \A i \in DOMAIN toEsp' : toEsp'[i].k \notin Acks
           /\ pc \in Waiting => toStm = <<>>
<1>1. /\ \A i \in DOMAIN toStm : Expected(toStm[i])
      /\ \A i \in DOMAIN toEsp : toEsp[i].k \in Acks =>
           /\ Wanted(toEsp[i]) /\ toStm = <<>>
           /\ \A j \in DOMAIN toEsp : toEsp[j].k \in Acks => j = i
      /\ pc = "frames" => toStm = <<>>
  BY DEF OneExchange
<1>2. /\ toStm \in Seq(ForStm) /\ toEsp \in Seq(ForEsp)
      /\ \A i \in DOMAIN toStm : toStm[i] \in ForStm
  BY LenProperties, ElementOfSeq DEF Typed, TypedWire
<1>3. \A p \in ForStm : p.k \in {"store1", "store2", "fulfill1", "fulfill2", "setSize", "retrieve"} \cup Aside \cup {"ackData"}
  BY DEF ForStm, Aside
<1>4. toStm = <<>> => DOMAIN toStm = {}
  BY <1>2, EmptySeq
<1>5. CASE pc \notin Waiting
  <2>1. \A i \in DOMAIN toStm : toStm[i].k \in Aside \cup {"ackData"}
    BY <1>1, <1>2, <1>3, <1>5 DEF Expected, Waiting, Storing
  <2>2. toEsp' = toEsp
    BY <1>5, AckWanted DEF Turn, Answered, TimedOut
  <2> QED
    BY <1>1, <1>5, <2>1, <2>2, AckWanted
<1>6. CASE pc \in Waiting /\ Answered
  <2>1. toEsp # <<>> /\ Wanted(Head(toEsp))
    BY <1>6 DEF Answered
  <2>2. PICK t : t = Tail(toEsp)
    OBVIOUS
  <2>3. /\ toEsp' = t /\ Head(toEsp) = toEsp[1] /\ 1 \in DOMAIN toEsp
        /\ \A i \in DOMAIN t : i \in Nat /\ i + 1 \in DOMAIN toEsp /\ t[i] = toEsp[i + 1]
    BY <1>2, <1>6, <2>1, <2>2, TailOf DEF Answered
  <2>4. toStm = <<>>
    BY <1>1, <2>1, <2>3, AckWanted
  <2>5. ASSUME NEW i \in DOMAIN t PROVE t[i].k \notin Acks
    <3>1. PICK n : n = i + 1
      OBVIOUS
    <3>2. n \in DOMAIN toEsp /\ n # 1 /\ t[i] = toEsp[n]
      <4>1. i # 0
        <5>1. t \in Seq(ForEsp)
          BY <1>2, <2>1, <2>2, TailOf
        <5> QED
          BY <5>1, LenProperties
      <4> QED
        BY <2>3, <3>1, <4>1
    <3> QED
      BY <1>1, <2>1, <2>3, <3>2, AckWanted
  <2> QED
    BY <1>4, <2>3, <2>4, <2>5
<1>7. CASE pc \in Waiting /\ ~Answered
  <2>1. TimedOut
    BY <1>7 DEF Turn
  <2>2. toEsp' = toEsp /\ (pc = "frames" \/ ~UnderWay)
    BY <2>1 DEF TimedOut, Patient
  <2>3. toStm = <<>>
    BY <1>1, <2>2 DEF UnderWay
  <2>4. \A i \in DOMAIN toEsp : toEsp[i].k \notin Acks
    BY <1>1, <2>2, AckWanted DEF UnderWay
  <2> QED
    BY <1>4, <2>2, <2>3, <2>4
<1> QED
  BY <1>5, <1>6, <1>7

LEMMA HandledOneExchange ==
    ASSUME Typed, OneExchange, Patient, Handled
    PROVE  OneExchange'
<1>1. PICK ps \in Seq(ForStm) : Sends(ps)
  BY DEF Handled
<1>2. /\ \A i \in DOMAIN toStm : toStm[i].k \in Aside \cup {"ackData"}
      /\ \A i \in DOMAIN toEsp' : toEsp'[i].k \notin Acks
      /\ pc \in Waiting => toStm = <<>>
  BY Silence DEF Handled
<1>3. /\ toStm' = toStm \o ps /\ toStm \in Seq(ForStm)
      /\ \A j \in DOMAIN ps : Expected(ps[j])' /\ (ps[j].k \in Closing => j = Len(ps))
  BY <1>1 DEF Sends, Typed, TypedWire
<1>4. /\ Len(toStm') = Len(toStm) + Len(ps)
      /\ \A i \in DOMAIN toStm' :
           \/ i \in DOMAIN toStm /\ toStm'[i] = toStm[i]
           \/ \E j \in DOMAIN ps : i = Len(toStm) + j /\ toStm'[i] = ps[j]
  BY <1>1, <1>3, Joined
<1>5. \A p : p.k \in Aside \cup {"ackData"} => Expected(p)' /\ p.k \notin Closing
  BY DEF Expected, Closing, Aside
<1>6. ASSUME NEW i \in DOMAIN toStm', NEW p, p = toStm'[i]
      PROVE  Expected(p)' /\ (p.k \in Closing => i = Len(toStm'))
  <2>1. CASE i \in DOMAIN toStm /\ p = toStm[i]
    BY <1>2, <1>5, <2>1
  <2>2. CASE \E j \in DOMAIN ps : i = Len(toStm) + j /\ p = ps[j]
    <3>1. PICK j \in DOMAIN ps : i = Len(toStm) + j /\ p = ps[j]
      BY <2>2
    <3>2. Expected(p)'
      BY <1>3, <3>1 DEF Expected
    <3> QED
      BY <1>3, <1>4, <3>1, <3>2
  <2> QED
    BY <1>4, <1>6, <2>1, <2>2
<1>7. pc' = "frames" => toStm' = <<>>
  BY <1>2 DEF Handled, Waiting
<1>8. \A i \in DOMAIN toStm' : toStm'[i].k \in Closing => i = Len(toStm')
  BY <1>6
<1>9. (\A i \in DOMAIN toStm : Expected(toStm[i]))'
  BY <1>6 DEF Expected
<1> QED
  BY <1>2, <1>7, <1>8, <1>9 DEF OneExchange

LEMMA HandledHeld ==
    ASSUME Typed, OneExchange, Held, Patient, Handled
    PROVE  Held'
<1>1. PICK ps \in Seq(ForStm) : Sends(ps)
  BY DEF Handled
<1>2. /\ \A i \in DOMAIN toEsp' : toEsp'[i].k \notin Acks
      /\ pc \in Waiting => toStm = <<>>
  BY Silence DEF Handled
<1>3. /\ toStm' = toStm \o ps /\ toStm \in Seq(ForStm) /\ toEsp \in Seq(ForEsp)
      /\ \A j \in DOMAIN ps : ps[j].k = "ackData" => pc = "frames" /\ ps[j].cell = job.cell
  BY <1>1 DEF Sends, Typed, TypedWire
<1>4. Answered => 1 \in DOMAIN toEsp /\ Head(toEsp) = toEsp[1] /\ Wanted(toEsp[1])
  <2>1. PICK t : t = Tail(toEsp)
    OBVIOUS
  <2> QED
    BY <1>3, <2>1, TailOf DEF Answered
<1>5. \A c : Acknowledged(c) => Holds(c) /\ pc \in Waiting
  BY <1>4 DEF Acknowledged, Held, Waiting
<1>6. \A c : Holds(c)' <=> Holds(c)
  BY DEF Holds, Handled
<1>7. ASSUME NEW c \in DOMAIN esp', esp'[c].loc = "remote", ~(pc' = "grow" /\ job'.cell = c)
      PROVE  Holds(c)'
  <2>1. Releases(c)
    BY <1>7 DEF Handled
  <2>2. Acknowledged(c) \/ (c \in DOMAIN esp /\ esp[c].loc = "remote" /\ ~(pc = "grow" /\ job.cell = c))
    BY <1>7, <2>1 DEF Releases
  <2> QED
    BY <1>5, <1>6, <2>2 DEF Held
<1>8. ASSUME pc' = "frames", NEW c, c = job'.cell PROVE Holds(c)'
  <2>1. job' = job /\ ((pc = "retrieve" /\ Answered) \/ pc = "frames")
    BY <1>8 DEF Handled
  <2>2. Holds(job.cell)
    <3>1. CASE pc = "retrieve" /\ Answered
      <4>1. toEsp[1].k = "ackRetrieve" /\ toEsp[1].cell = job.cell /\ 1 \in DOMAIN toEsp
        BY <1>4, <3>1 DEF Wanted, Storing
      <4> QED
        BY <4>1 DEF Held
    <3> QED
      BY <2>1, <3>1 DEF Held
  <2> QED
    BY <1>6, <1>8, <2>1, <2>2
<1>9. ASSUME NEW i \in DOMAIN toStm', toStm'[i].k = "ackData", NEW c \in DOMAIN esp', c = toStm'[i].cell
      PROVE  esp'[c].loc # "remote"
  <2>1. \/ i \in DOMAIN toStm /\ toStm'[i] = toStm[i]
        \/ \E j \in DOMAIN ps : i = Len(toStm) + j /\ toStm'[i] = ps[j]
    BY <1>1, <1>3, Joined
  <2>2. CASE i \in DOMAIN toStm /\ toStm'[i] = toStm[i]
    <3>1. toStm # <<>>
      BY <1>3, <2>2, EmptySeq
    <3>2. pc \notin Waiting
      BY <1>2, <3>1
    <3>3. ~(c \in DOMAIN esp /\ esp[c].loc = "remote")
      BY <1>9, <2>2 DEF Held
    <3>4. ~Acknowledged(c) /\ pc \notin {"size", "undo"}
      BY <1>5, <3>2 DEF Waiting
    <3>5. esp'[c].loc = "remote" => Releases(c)
      BY DEF Handled
    <3> QED
      BY <3>3, <3>4, <3>5 DEF Releases
  <2>3. CASE \E j \in DOMAIN ps : i = Len(toStm) + j /\ toStm'[i] = ps[j]
    <3>1. pc = "frames" /\ c = job.cell
      BY <1>3, <1>9, <2>3
    <3>2. toStm' # toStm
      <4>1. toStm = <<>> /\ DOMAIN <<>> = {}
        BY <1>2, <3>1 DEF Waiting
      <4> QED
        BY <4>1
    <3> QED
      BY <3>1, <3>2 DEF Handled
  <2> QED
    BY <2>1, <2>2, <2>3
<1> QED
  <2>1. (pc = "frames" => Holds(job.cell))'
    BY <1>8 DEF Holds
  <2> QED
    BY <1>2, <1>7, <1>9, <2>1 DEF Held, Acks

-----------------------------------------------------------------------------
(* The same: what arrives, gets lost, or is said unasked                     *)

Exchange == OneExchange /\ Held

LEMMA SameJob ==
    ASSUME UNCHANGED <<pc, job>>
    PROVE  \A p : (Expected(p)' <=> Expected(p)) /\ (Wanted(p)' <=> Wanted(p))
  BY DEF Expected, Wanted

LEMMA Unseen ==
    ASSUME UNCHANGED <<esp, pc, job, stm, toStm, toEsp>>, Exchange
    PROVE  Exchange'
<1>1. OneExchange'
  BY DEF Exchange, OneExchange, Expected, Wanted
<1>2. Held'
  BY DEF Exchange, Held, Holds
<1> QED
  BY <1>1, <1>2 DEF Exchange

LEMMA Received ==
    ASSUME Typed, Exchange, UNCHANGED <<esp, pc, job>>, toStm # <<>>, toStm' = Tail(toStm),
           \A c \in DOMAIN esp : esp[c].loc = "remote" /\ Holds(c) => Holds(c)',
           NEW qs \in Seq(ForEsp), toEsp' = toEsp \o qs,
           \A i \in DOMAIN qs : qs[i].k \in Acks =>
             /\ i = 1 /\ Head(toStm).k \in Closing /\ Wanted(qs[i])
             /\ \/ qs[i].k = "ackStore" /\ qs[i].code = "ok"
                \/ qs[i].k = "ackRetrieve"
                => Holds(qs[i].cell)'
    PROVE  Exchange'
<1>1. /\ toStm \in Seq(ForStm) /\ toEsp \in Seq(ForEsp)
      /\ \A i \in DOMAIN toEsp : toEsp[i].k \notin Acks
      /\ \A i \in DOMAIN toStm : Expected(toStm[i]) /\ (toStm[i].k \in Closing => i = Len(toStm))
      /\ pc # "frames"
  BY DEF Exchange, OneExchange, Typed, TypedWire
<1>2. PICK t : t = Tail(toStm)
  OBVIOUS
<1>3. /\ t \in Seq(ForStm) /\ Len(t) \in Nat /\ Len(toStm) = Len(t) + 1
      /\ Head(toStm) = toStm[1] /\ 1 \in DOMAIN toStm
      /\ \A i \in DOMAIN t : i \in Nat /\ i + 1 \in DOMAIN toStm /\ t[i] = toStm[i + 1]
      /\ toStm' = t
  BY <1>1, <1>2, TailOf
<1>4. \A i \in DOMAIN toEsp' :
        \/ i \in DOMAIN toEsp /\ toEsp'[i] = toEsp[i]
        \/ \E j \in DOMAIN qs : i = Len(toEsp) + j /\ toEsp'[i] = qs[j]
  BY <1>1, Joined
<1>5. ASSUME NEW i \in DOMAIN toStm', NEW p, p = toStm'[i]
      PROVE  Expected(p)' /\ (p.k \in Closing => i = Len(toStm'))
  <2>1. PICK n : n = i + 1
    OBVIOUS
  <2>2. n \in DOMAIN toStm /\ p = toStm[n]
    BY <1>3, <1>5, <2>1
  <2>3. Expected(p) /\ (p.k \in Closing => n = Len(toStm))
    BY <1>1, <2>2
  <2>4. n = Len(toStm) => i = Len(t)
    BY <1>3, <1>5, <2>1
  <2> QED
    BY <1>3, <2>3, <2>4, SameJob
<1>6. ASSUME NEW i \in DOMAIN toEsp', toEsp'[i].k \in Acks
      PROVE  \E j \in DOMAIN qs : j = 1 /\ i = Len(toEsp) + j /\ toEsp'[i] = qs[j]
  BY <1>1, <1>4, <1>6
<1>7. ASSUME NEW i \in DOMAIN toEsp', NEW p, p = toEsp'[i], p.k \in Acks
      PROVE  /\ Wanted(p)' /\ toStm' = <<>>
             /\ \A j \in DOMAIN toEsp' : toEsp'[j].k \in Acks => j = i
             /\ (p.k = "ackStore" /\ p.code = "ok") \/ p.k = "ackRetrieve" => Holds(p.cell)'
  <2>1. 1 \in DOMAIN qs /\ i = Len(toEsp) + 1 /\ p = qs[1]
    BY <1>6, <1>7
  <2>2. \A j \in DOMAIN toEsp' : toEsp'[j].k \in Acks => j = i
    BY <1>6, <2>1
  <2>3. Head(toStm).k \in Closing /\ Wanted(p)
        /\ ((p.k = "ackStore" /\ p.code = "ok") \/ p.k = "ackRetrieve" => Holds(p.cell)')
    BY <1>7, <2>1
  <2>4. Len(toStm) = 1
    BY <1>1, <1>3, <2>3
  <2>5. t = <<>>
    <3>1. Len(t) = 0
      <4>1. PICK l \in Nat : l = Len(t) /\ Len(toStm) = l + 1
        BY <1>3
      <4>2. PICK m : m = Len(toStm)
        OBVIOUS
      <4>3. m = 1 /\ m = l + 1
        BY <2>4, <4>1, <4>2
      <4>4. l = 0
        BY <4>3
      <4> QED
        BY <4>1, <4>4
    <3> QED
      BY <1>3, <3>1, EmptySeq
  <2> QED
    BY <1>3, <2>2, <2>3, <2>5, SameJob
<1>8. OneExchange'
  <2>1. (\A i \in DOMAIN toStm : Expected(toStm[i]))'
    BY <1>5 DEF Expected
  <2>2. \A i \in DOMAIN toStm' : toStm'[i].k \in Closing => i = Len(toStm')
    BY <1>5
  <2>3. (\A i \in DOMAIN toEsp : toEsp[i].k \in Acks => Wanted(toEsp[i]))'
    BY <1>7 DEF Wanted
  <2>4. \A i \in DOMAIN toEsp' : toEsp'[i].k \in Acks =>
          toStm' = <<>> /\ \A j \in DOMAIN toEsp' : toEsp'[j].k \in Acks => j = i
    BY <1>7
  <2> QED
    BY <1>1, <2>1, <2>2, <2>3, <2>4 DEF OneExchange
<1>9. Held'
  <2>1. (\A c \in DOMAIN esp : esp[c].loc = "remote" /\ ~(pc = "grow" /\ job.cell = c) => Holds(c))'
    <3>1. \A c \in DOMAIN esp : esp[c].loc = "remote" /\ ~(pc = "grow" /\ job.cell = c) => Holds(c)
      BY DEF Exchange, Held
    <3>2. \A c \in DOMAIN esp : esp[c].loc = "remote" /\ ~(pc = "grow" /\ job.cell = c) => Holds(c)'
      BY <3>1
    <3> QED
      BY <3>2 DEF Holds
  <2>2. (\A i \in DOMAIN toEsp :
           /\ toEsp[i].k = "ackStore" /\ toEsp[i].code = "ok" => Holds(toEsp[i].cell)
           /\ toEsp[i].k = "ackRetrieve" => Holds(toEsp[i].cell))'
    BY <1>7 DEF Acks, Holds
  <2>3. ASSUME NEW i \in DOMAIN toStm', toStm'[i].k = "ackData", NEW c \in DOMAIN esp, c = toStm'[i].cell
        PROVE  esp[c].loc # "remote"
    <3>1. \A j \in DOMAIN toStm : toStm[j].k = "ackData" =>
            \A d \in DOMAIN esp : d = toStm[j].cell => esp[d].loc # "remote"
      BY DEF Exchange, Held
    <3>2. \E j \in DOMAIN toStm : toStm'[i] = toStm[j]
      BY <1>3
    <3> QED
      BY <2>3, <3>1, <3>2
  <2> QED
    BY <1>1, <2>1, <2>2, <2>3 DEF Held
<1> QED
  BY <1>8, <1>9 DEF Exchange

(* What the display says of its own accord.                                   *)
LEMMA Unasked ==
    ASSUME Typed, Exchange, UNCHANGED <<esp, pc, job, toStm>>,
           \A c : Holds(c) => Holds(c)',
           NEW qs \in Seq(ForEsp), toEsp' = toEsp \o qs,
           \A i \in DOMAIN qs : qs[i].k \notin Acks
    PROVE  Exchange'
<1>1. \A i \in DOMAIN toEsp' : toEsp'[i].k \in Acks => i \in DOMAIN toEsp /\ toEsp'[i] = toEsp[i]
  <2>1. toEsp \in Seq(ForEsp)
    BY DEF Typed, TypedWire
  <2> QED
    BY <2>1, Joined
<1>2. OneExchange
  BY DEF Exchange
<1>3. OneExchange'
  <2>1. \A i \in DOMAIN toStm' : Expected(toStm[i])'
                                 /\ (toStm'[i].k \in Closing => i = Len(toStm'))
    BY <1>2 DEF OneExchange, Expected
  <2>2. (\A i \in DOMAIN toEsp : toEsp[i].k \in Acks => Wanted(toEsp[i]))'
    <3>1. \A i \in DOMAIN toEsp : toEsp[i].k \in Acks => Wanted(toEsp[i])
      BY <1>2 DEF OneExchange
    <3> QED
      BY <1>1, <3>1 DEF Wanted
  <2>3. \A i \in DOMAIN toEsp' : toEsp'[i].k \in Acks =>
          toStm' = <<>> /\ \A j \in DOMAIN toEsp' : toEsp'[j].k \in Acks => j = i
    BY <1>1, <1>2 DEF OneExchange
  <2>4. pc' = "frames" => toStm' = <<>>
    BY <1>2 DEF OneExchange
  <2> QED
    BY <2>1, <2>2, <2>3, <2>4 DEF OneExchange
<1>4. Held'
  <2>1. Held
    BY DEF Exchange
  <2>2. (\A c \in DOMAIN esp : esp[c].loc = "remote" /\ ~(pc = "grow" /\ job.cell = c) => Holds(c))'
    BY <2>1 DEF Held, Holds
  <2>3. (\A i \in DOMAIN toEsp :
           /\ toEsp[i].k = "ackStore" /\ toEsp[i].code = "ok" => Holds(toEsp[i].cell)
           /\ toEsp[i].k = "ackRetrieve" => Holds(toEsp[i].cell))'
    BY <1>1, <2>1 DEF Held, Acks, Holds
  <2>4. (pc = "frames" => Holds(job.cell))'
    BY <2>1 DEF Held, Holds
  <2> QED
    BY <2>1, <2>2, <2>3, <2>4 DEF Held
<1> QED
  BY <1>3, <1>4 DEF Exchange

(* A packet for the ESP that nobody waits for, or that is lost.               *)
LEMMA Gone ==
    ASSUME Typed, Exchange, UNCHANGED <<esp, pc, job, stm, toStm>>,
           toEsp # <<>>, toEsp' = Tail(toEsp)
    PROVE  Exchange'
<1>1. PICK t : t = Tail(toEsp)
  OBVIOUS
<1>2. /\ toEsp' = t
      /\ \A i \in DOMAIN t : i \in Nat /\ i + 1 \in DOMAIN toEsp /\ t[i] = toEsp[i + 1]
  BY <1>1, TailOf DEF Typed, TypedWire
<1>3. \A i \in DOMAIN t : \E n \in DOMAIN toEsp : n = i + 1 /\ t[i] = toEsp[n]
  BY <1>2
<1>4. OneExchange
  BY DEF Exchange
<1>5. OneExchange'
  <2>1. \A i \in DOMAIN toStm' : Expected(toStm[i])'
                                 /\ (toStm'[i].k \in Closing => i = Len(toStm'))
    BY <1>4 DEF OneExchange, Expected
  <2>2. (\A i \in DOMAIN toEsp : toEsp[i].k \in Acks => Wanted(toEsp[i]))'
    <3>1. \A i \in DOMAIN toEsp : toEsp[i].k \in Acks => Wanted(toEsp[i])
      BY <1>4 DEF OneExchange
    <3> QED
      BY <1>2, <1>3, <3>1 DEF Wanted
  <2>3. ASSUME NEW i \in DOMAIN t, t[i].k \in Acks
        PROVE  toStm' = <<>> /\ \A j \in DOMAIN t : t[j].k \in Acks => j = i
    <3>1. PICK n \in DOMAIN toEsp : n = i + 1 /\ toEsp[n].k \in Acks
      BY <1>3, <2>3
    <3>2. toStm = <<>> /\ \A m \in DOMAIN toEsp : toEsp[m].k \in Acks => m = n
      BY <1>4, <3>1 DEF OneExchange
    <3>3. \A j \in DOMAIN t : t[j].k \in Acks => j + 1 = n
      BY <1>3, <3>2
    <3> QED
      BY <1>2, <3>1, <3>2, <3>3
  <2>4. pc' = "frames" => toStm' = <<>>
    BY <1>4 DEF OneExchange
  <2> QED
    BY <1>2, <2>1, <2>2, <2>3, <2>4 DEF OneExchange
<1>6. Held'
  <2>1. Held
    BY DEF Exchange
  <2>2. (\A i \in DOMAIN toEsp :
           /\ toEsp[i].k = "ackStore" /\ toEsp[i].code = "ok" => Holds(toEsp[i].cell)
           /\ toEsp[i].k = "ackRetrieve" => Holds(toEsp[i].cell))'
    BY <1>2, <1>3, <2>1 DEF Held, Holds
  <2> QED
    BY <2>1, <2>2 DEF Held, Holds
<1> QED
  BY <1>5, <1>6 DEF Exchange

-----------------------------------------------------------------------------
(* What the display does                                                     *)

LEMMA GotTyped ==
    ASSUME Typed, NEW k, Got(k)
    PROVE  /\ Head(toStm) \in ForStm /\ Head(toStm).k = k
           /\ toStm # <<>> /\ toStm' = Tail(toStm) /\ toStm' \in Seq(ForStm)
           /\ OneExchange => Expected(Head(toStm))
<1>1. toStm # <<>> /\ Head(toStm).k = k /\ toStm' = Tail(toStm) /\ toStm \in Seq(ForStm)
  BY DEF Got, Typed, TypedWire
<1>2. PICK t : t = Tail(toStm)
  OBVIOUS
<1>3. t \in Seq(ForStm) /\ Head(toStm) = toStm[1] /\ 1 \in DOMAIN toStm /\ Head(toStm) \in ForStm
  BY <1>1, <1>2, TailOf
<1>4. OneExchange => Expected(toStm[1])
  BY <1>3 DEF OneExchange
<1> QED
  BY <1>1, <1>2, <1>3, <1>4

LEMMA DisplayPart ==
    ASSUME Typed, AtWork, UNCHANGED <<espVars, queue, faults, appVars, history>>, TypedStm',
           toStm' \in Seq(ForStm), toEsp' \in Seq(ForEsp)
    PROVE  Typed' /\ AtWork' /\ UNCHANGED <<esp, pc, job>>
<1>1. UNCHANGED <<esp, espTemp, pc, job, writes, resizes, due, kept>>
  BY DEF espVars, appVars, history
<1>2. Typed'
  BY <1>1 DEF Typed, TypedEsp, TypedWire, TypedApp
<1>3. AtWork'
  BY <1>1 DEF AtWork
<1> QED
  BY <1>1, <1>2, <1>3

LEMMA SaysNothing ==
    ASSUME Typed, toEsp' = toEsp
    PROVE  <<>> \in Seq(ForEsp) /\ toEsp' = toEsp \o <<>> /\ DOMAIN <<>> = {} /\ toEsp' \in Seq(ForEsp)
  BY ConcatEmptySeq, LenProperties DEF Typed, TypedWire

(* A cell of the display changes.                                             *)
LEMMA StmChanged ==
    ASSUME Typed, NEW c \in DOMAIN stm, NEW x \in StmCell, stm' = [stm EXCEPT ![c] = x]
    PROVE  /\ stm' \in Seq(StmCell) /\ Len(stm') = Len(stm) /\ Len(stm') \in Sizes
           /\ x.loc = "canonical" => \A d : Holds(d) => Holds(d)'
           /\ \A d : d # c /\ Holds(d) => Holds(d)'
           /\ stm[c].loc # "canonical" => \A d : Holds(d) => Holds(d)'
<1>1. stm \in Seq(StmCell) /\ Len(stm) \in Sizes /\ \A d \in DOMAIN stm : stm[d] \in StmCell
  BY Known DEF Typed, TypedStm
<1>2. \A d \in DOMAIN stm : stm'[d] = (IF d = c THEN x ELSE stm[d]) /\ stm'[d] \in StmCell
  BY <1>1
<1>3. stm' = [d \in DOMAIN stm |-> stm'[d]]
  OBVIOUS
<1>4. stm' \in Seq(StmCell) /\ Len(stm') = Len(stm) /\ DOMAIN stm' = DOMAIN stm
  BY <1>1, <1>2, <1>3, Changed
<1> QED
  BY <1>1, <1>2, <1>4 DEF Holds

LEMMA FirstFrameDone ==
    ASSUME Typed, AtWork, NEW of \in {"store", "fulfill"}, FirstFrame(of)
    PROVE  Typed' /\ AtWork' /\ (Exchange => Exchange')
<1>1. PICK p : p = Head(toStm)
  OBVIOUS
<1>2. PICK place : place = IF of = "store" THEN "canonical" ELSE "ephemeral"
  OBVIOUS
<1>3. PICK k : k = FrameKinds[of][1]
  OBVIOUS
<1>4. k = IF of = "store" THEN "store1" ELSE "fulfill1"
  BY <1>3 DEF FrameKinds
<1>5. /\ p \in ForStm /\ p.k = k
      /\ toStm # <<>> /\ toStm' = Tail(toStm) /\ toStm' \in Seq(ForStm)
      /\ OneExchange => Expected(p)
  BY <1>1, <1>3, GotTyped DEF FirstFrame
<1>6. p.val \in Half
  BY <1>4, <1>5 DEF ForStm
<1>7. /\ \/ err' \in Codes /\ stm' = stm
         \/ /\ p.cell \in DOMAIN stm /\ err' = "ok"
            /\ stm' = [stm EXCEPT ![p.cell].loc = place, ![p.cell].data[1] = p.val,
                                  ![p.cell].dirty = TRUE]
      /\ UNCHANGED <<espVars, queue, stmTemp, request, sends, toEsp, faults, appVars, history>>
  BY <1>1, <1>2 DEF FirstFrame, Codes, Outcomes
<1>8. /\ stm' \in Seq(StmCell) /\ Len(stm') \in Sizes
      /\ \A d : Holds(d) /\ (of = "store" \/ d # p.cell) => Holds(d)'
  <2>1. CASE stm' = stm
    BY <2>1 DEF Typed, TypedStm, Holds
  <2>2. CASE /\ p.cell \in DOMAIN stm
             /\ stm' = [stm EXCEPT ![p.cell].loc = place, ![p.cell].data[1] = p.val,
                                   ![p.cell].dirty = TRUE]
    <3>1. stm[p.cell] \in StmCell
      BY <2>2, Known
    <3>2. PICK y : y = [stm[p.cell].data EXCEPT ![1] = p.val]
      OBVIOUS
    <3>3. y \in Half \X Half
      BY <1>6, <3>1, <3>2, Pair DEF StmCell, CellSet
    <3>4. PICK x : x = [stm[p.cell] EXCEPT !.loc = place, !.data = y, !.dirty = TRUE]
      OBVIOUS
    <3>5. x \in StmCell /\ x.loc = place
      BY <1>2, <3>1, <3>3, <3>4 DEF StmCell, CellSet
    <3>6. stm' = [stm EXCEPT ![p.cell] = x]
      BY <2>2, <3>2, <3>4
    <3>7. /\ stm' \in Seq(StmCell) /\ Len(stm') \in Sizes
          /\ place = "canonical" => \A d : Holds(d) => Holds(d)'
          /\ \A d : d # p.cell /\ Holds(d) => Holds(d)'
      BY <2>2, <3>5, <3>6, StmChanged
    <3> QED
      BY <1>2, <3>7
  <2> QED
    BY <1>7, <2>1, <2>2
<1>9. TypedStm'
  BY <1>7, <1>8 DEF Typed, TypedStm, Codes, Outcomes
<1>10. Typed' /\ AtWork' /\ UNCHANGED <<esp, pc, job>>
  BY <1>5, <1>7, <1>9, SaysNothing, DisplayPart
<1>11. ASSUME Exchange PROVE Exchange'
  <2>1. Expected(p)
    BY <1>5, <1>11 DEF Exchange
  <2>2. \A c \in DOMAIN esp : esp[c].loc = "remote" /\ Holds(c) => Holds(c)'
    <3>1. CASE of = "store"
      BY <1>8, <3>1
    <3>2. CASE of = "fulfill"
      <4>1. p.cell = job.cell /\ esp[job.cell].loc = "canonical"
        BY <1>4, <1>5, <2>1, <3>2 DEF Expected, AtWork
      <4> QED
        BY <1>8, <4>1
    <3> QED
      BY <3>1, <3>2
  <2>3. <<>> \in Seq(ForEsp) /\ toEsp' = toEsp \o <<>> /\ DOMAIN <<>> = {}
    BY <1>7, SaysNothing
  <2> QED
    BY <1>5, <1>10, <1>11, <2>2, <2>3, Received
<1> QED
  BY <1>10, <1>11

LEMMA LastFrameDone ==
    ASSUME Typed, AtWork, NEW of \in {"store", "fulfill"}, LastFrame(of)
    PROVE  Typed' /\ AtWork' /\ (Exchange => Exchange')
<1>1. PICK p : p = Head(toStm)
  OBVIOUS
<1>2. PICK place : place = IF of = "store" THEN "canonical" ELSE "ephemeral"
  OBVIOUS
<1>3. PICK k : k = FrameKinds[of][2]
  OBVIOUS
<1>4. k = IF of = "store" THEN "store2" ELSE "fulfill2"
  BY <1>3 DEF FrameKinds
<1>5. /\ p \in ForStm /\ p.k = k
      /\ toStm # <<>> /\ toStm' = Tail(toStm) /\ toStm' \in Seq(ForStm)
      /\ OneExchange => Expected(p)
  BY <1>1, <1>3, GotTyped DEF LastFrame
<1>6. p.val \in Half /\ p.cell \in Cells
  BY <1>4, <1>5 DEF ForStm
<1>7. PICK q : q = [k |-> IF of = "store" THEN "ackStore" ELSE "ackFulfill", cell |-> p.cell, code |-> err']
  OBVIOUS
<1>8. /\ \/ err' # "ok" /\ stm' = stm
         \/ /\ p.cell \in DOMAIN stm /\ stm[p.cell].loc = place
            /\ stm' = [stm EXCEPT ![p.cell].data[2] = p.val, ![p.cell].dirty = TRUE]
      /\ err' = err \/ err' = "illegal"
      /\ toEsp' = toEsp \o <<q>>
      /\ UNCHANGED <<espVars, queue, stmTemp, request, sends, faults, appVars, history>>
  BY <1>1, <1>2, <1>7 DEF LastFrame, SendEsp
<1>9. err' \in Codes
  BY <1>8 DEF Codes, Outcomes, Typed, TypedStm
<1>10. /\ stm' \in Seq(StmCell) /\ Len(stm') \in Sizes
       /\ \A d : Holds(d) => Holds(d)'
       /\ of = "store" /\ err' = "ok" => Holds(p.cell)'
  <2>1. CASE err' # "ok" /\ stm' = stm
    BY <2>1 DEF Typed, TypedStm, Holds
  <2>2. CASE /\ p.cell \in DOMAIN stm /\ stm[p.cell].loc = place
             /\ stm' = [stm EXCEPT ![p.cell].data[2] = p.val, ![p.cell].dirty = TRUE]
    <3>1. stm[p.cell] \in StmCell
      BY <2>2, Known
    <3>2. PICK y : y = [stm[p.cell].data EXCEPT ![2] = p.val]
      OBVIOUS
    <3>3. y \in Half \X Half
      BY <1>6, <3>1, <3>2, Pair DEF StmCell, CellSet
    <3>4. PICK x : x = [stm[p.cell] EXCEPT !.data = y, !.dirty = TRUE]
      OBVIOUS
    <3>5. x \in StmCell /\ x.loc = place
      BY <2>2, <3>1, <3>3, <3>4 DEF StmCell, CellSet
    <3>6. stm' = [stm EXCEPT ![p.cell] = x]
      BY <2>2, <3>2, <3>4
    <3>7. /\ stm' \in Seq(StmCell) /\ Len(stm') \in Sizes
          /\ place = "canonical" => \A d : Holds(d) => Holds(d)'
          /\ \A d : d # p.cell /\ Holds(d) => Holds(d)'
          /\ stm[p.cell].loc # "canonical" => \A d : Holds(d) => Holds(d)'
      BY <2>2, <3>5, <3>6, StmChanged
    <3>8. \A d : Holds(d) => Holds(d)'
      BY <2>2, <3>7
    <3>9. of = "store" => Holds(p.cell)
      BY <1>2, <2>2 DEF Holds
    <3> QED
      BY <3>7, <3>8, <3>9
  <2> QED
    BY <1>8, <2>1, <2>2
<1>11. TypedStm'
  BY <1>8, <1>9, <1>10 DEF Typed, TypedStm
<1>12. q \in ForEsp /\ q.cell = p.cell /\ q.code = err'
       /\ q.k = IF of = "store" THEN "ackStore" ELSE "ackFulfill"
  BY <1>6, <1>7, <1>9 DEF ForEsp
<1>13. <<q>> \in Seq(ForEsp) /\ DOMAIN <<q>> = {1} /\ <<q>>[1] = q
  BY <1>12
<1>14. toEsp' \in Seq(ForEsp)
  BY <1>8, <1>13, Joined DEF Typed, TypedWire
<1>15. Typed' /\ AtWork' /\ UNCHANGED <<esp, pc, job>>
  BY <1>5, <1>8, <1>11, <1>14, DisplayPart
<1>16. ASSUME Exchange PROVE Exchange'
  <2>1. Expected(p) /\ p.k \in Closing
    BY <1>4, <1>5, <1>16 DEF Exchange, Closing
  <2>2. Wanted(q)
    BY <1>4, <1>5, <1>12, <2>1 DEF Expected, Wanted, Storing
  <2>3. q.k = "ackStore" /\ q.code = "ok" => Holds(q.cell)'
    <3>1. q.k = "ackStore" /\ q.code = "ok" => Holds(p.cell)'
      BY <1>10, <1>12
    <3> QED
      BY <1>12, <3>1
  <2>4. q.k # "ackRetrieve"
    BY <1>12
  <2> DEFINE qs == <<q>>
  <2>5. /\ qs \in Seq(ForEsp) /\ toEsp' = toEsp \o qs
        /\ \A i \in DOMAIN qs : i = 1 /\ qs[i] = q
    BY <1>8, <1>13
  <2> HIDE DEF qs
  <2>6. \A i \in DOMAIN qs : qs[i].k \in Acks =>
             /\ i = 1 /\ Head(toStm).k \in Closing /\ Wanted(qs[i])
             /\ \/ qs[i].k = "ackStore" /\ qs[i].code = "ok"
                \/ qs[i].k = "ackRetrieve"
                => Holds(qs[i].cell)'
    BY <1>1, <2>1, <2>2, <2>3, <2>4, <2>5
  <2> QED
    BY <1>5, <1>10, <1>15, <1>16, <2>5, <2>6, Received
<1> QED
  BY <1>15, <1>16

LEMMA SetSizeDone ==
    ASSUME Typed, AtWork, SetSize
    PROVE  Typed' /\ AtWork' /\ (Exchange => Exchange')
<1>1. PICK p : p = Head(toStm)
  OBVIOUS
<1>2. PICK n : n = p.n
  OBVIOUS
<1>3. /\ p \in ForStm /\ p.k = "setSize"
      /\ toStm # <<>> /\ toStm' = Tail(toStm) /\ toStm' \in Seq(ForStm)
      /\ OneExchange => Expected(p)
  BY <1>1, GotTyped DEF SetSize
<1>4. n \in Sizes /\ n \in Nat
  BY <1>2, <1>3, SizesAre DEF ForStm
<1>5. PICK q : q = [k |-> "ackSize", n |-> n]
  OBVIOUS
<1>6. /\ \/ stm' = stm /\ stmTemp' = stmTemp /\ toEsp' = toEsp
         \/ /\ stm' = [c \in 1 .. n |-> IF c <= Len(stm) THEN stm[c] ELSE NewRemote]
            /\ stmTemp' \in {"cold", Emptied(stm', stmTemp), stmTemp}
            /\ toEsp' = toEsp \o <<q>>
      /\ UNCHANGED <<espVars, queue, err, request, sends, faults, appVars, history>>
  BY <1>1, <1>2, <1>5 DEF SetSize, SendEsp
<1>7. /\ stm' \in Seq(StmCell) /\ Len(stm') \in Sizes
      /\ \A d : Holds(d) /\ d \in 1 .. n => Holds(d)'
  <2>1. CASE stm' = stm
    BY <2>1 DEF Typed, TypedStm, Holds
  <2>2. CASE stm' = [c \in 1 .. n |-> IF c <= Len(stm) THEN stm[c] ELSE NewRemote]
    <3>1. /\ Len(stm) \in Nat /\ DOMAIN stm = 1 .. Len(stm)
          /\ \A c \in DOMAIN stm : stm[c] \in StmCell
      BY Known
    <3>2. NewRemote \in StmCell
      BY Known DEF NewRemote, Cell, StmCell, CellSet
    <3>3. \A c \in 1 .. n : stm'[c] \in StmCell
      BY <1>4, <2>2, <3>1, <3>2
    <3>4. \A c \in 1 .. n : c \in DOMAIN stm => stm'[c] = stm[c]
      BY <1>4, <2>2, <3>1
    <3>5. stm' \in [1 .. n -> StmCell]
      BY <2>2, <3>3
    <3>6. stm' \in Seq(StmCell) /\ Len(stm') = n /\ DOMAIN stm' = 1 .. n
      BY <1>4, <3>5, SeqDef, LenProperties
    <3> QED
      BY <1>4, <3>4, <3>6 DEF Holds
  <2> QED
    BY <1>6, <2>1, <2>2
<1>8. stmTemp' \in Temps \cup {"none"}
  BY <1>6 DEF Typed, TypedStm, Emptied, Temps
<1>9. TypedStm'
  BY <1>6, <1>7, <1>8 DEF Typed, TypedStm
<1>10. q \in ForEsp /\ q.k = "ackSize" /\ q.n = n
  BY <1>4, <1>5 DEF ForEsp
<1>11. PICK qs \in Seq(ForEsp) : toEsp' = toEsp \o qs /\ \A i \in DOMAIN qs : i = 1 /\ qs[i] = q
  <2>1. <<q>> \in Seq(ForEsp) /\ DOMAIN <<q>> = {1} /\ <<q>>[1] = q
    BY <1>10
  <2> QED
    BY <1>6, <2>1, SaysNothing
<1>12. toEsp' \in Seq(ForEsp)
  BY <1>11, Joined DEF Typed, TypedWire
<1>13. Typed' /\ AtWork' /\ UNCHANGED <<esp, pc, job>>
  BY <1>3, <1>6, <1>9, <1>12, DisplayPart
<1>14. ASSUME Exchange PROVE Exchange'
  <2>1. Expected(p) /\ p.k \in Closing
    BY <1>3, <1>14 DEF Exchange, Closing
  <2>2. pc \in {"size", "undo"} /\ n = job.size /\ n >= Len(esp)
    BY <1>2, <1>3, <2>1 DEF Expected, AtWork
  <2>3. Wanted(q)
    BY <1>10, <2>2 DEF Wanted, Storing
  <2>4. \A c \in DOMAIN esp : esp[c].loc = "remote" /\ Holds(c) => Holds(c)'
    <3>1. \A c \in DOMAIN esp : c \in 1 .. n
      <4>1. Len(esp) \in Nat /\ DOMAIN esp = 1 .. Len(esp)
        BY Known
      <4> QED
        BY <1>4, <2>2, <4>1
    <3> QED
      BY <1>7, <3>1
  <2>5. \A i \in DOMAIN qs : qs[i].k \in Acks =>
             /\ i = 1 /\ Head(toStm).k \in Closing /\ Wanted(qs[i])
             /\ \/ qs[i].k = "ackStore" /\ qs[i].code = "ok"
                \/ qs[i].k = "ackRetrieve"
                => Holds(qs[i].cell)'
    BY <1>1, <1>10, <1>11, <2>1, <2>3
  <2> QED
    BY <1>3, <1>11, <1>13, <1>14, <2>4, <2>5, Received
<1> QED
  BY <1>13, <1>14

(* A packet that changes no cell's place and is not answered.                 *)
LEMMA Noted ==
    ASSUME Typed, AtWork, UNCHANGED <<espVars, queue, toEsp, faults, appVars, history>>,
           TypedStm', toStm # <<>>, toStm' = Tail(toStm), toStm' \in Seq(ForStm),
           Exchange => \A c \in DOMAIN esp : esp[c].loc = "remote" /\ Holds(c) => Holds(c)'
    PROVE  Typed' /\ AtWork' /\ (Exchange => Exchange')
<1>1. <<>> \in Seq(ForEsp) /\ toEsp' = toEsp \o <<>> /\ DOMAIN <<>> = {} /\ toEsp' \in Seq(ForEsp)
  BY SaysNothing
<1>2. Typed' /\ AtWork' /\ UNCHANGED <<esp, pc, job>>
  BY <1>1, DisplayPart
<1>3. ASSUME Exchange PROVE Exchange'
  BY <1>1, <1>2, <1>3, Received
<1> QED
  BY <1>2, <1>3

LEMMA TempInformedDone ==
    ASSUME Typed, AtWork, TempInformed
    PROVE  Typed' /\ AtWork' /\ (Exchange => Exchange')
<1>1. PICK p : p = Head(toStm)
  OBVIOUS
<1>2. /\ toStm # <<>> /\ toStm' = Tail(toStm) /\ toStm' \in Seq(ForStm) /\ p \in ForStm /\ p.k = "temp"
      /\ stmTemp' \in {"none", p.temp}
      /\ UNCHANGED <<espVars, queue, stm, err, request, sends, toEsp, faults, appVars, history>>
  BY <1>1, GotTyped DEF TempInformed
<1>3. p.temp \in Temps
  BY <1>2 DEF ForStm
<1>4. TypedStm'
  BY <1>2, <1>3 DEF Typed, TypedStm
<1> QED
  BY <1>2, <1>4, Noted DEF Holds

LEMMA TempAckedDone ==
    ASSUME Typed, AtWork, TempAcked
    PROVE  Typed' /\ AtWork' /\ (Exchange => Exchange')
<1>1. PICK p : p = Head(toStm)
  OBVIOUS
<1>2. /\ toStm # <<>> /\ toStm' = Tail(toStm) /\ toStm' \in Seq(ForStm) /\ p \in ForStm /\ p.k = "ackTemp"
      /\ stmTemp' = IF p.temp = "nak" THEN stmTemp ELSE p.temp
      /\ request' = "none" /\ sends' = 0
      /\ UNCHANGED <<espVars, queue, stm, err, toEsp, faults, appVars, history>>
  BY <1>1, GotTyped DEF TempAcked
<1>3. p.temp \in Temps \cup {"nak"}
  BY <1>2 DEF ForStm
<1>4. TypedStm'
  BY <1>2, <1>3 DEF Typed, TypedStm
<1> QED
  BY <1>2, <1>4, Noted DEF Holds

LEMMA DataAckedDone ==
    ASSUME Typed, AtWork, DataAcked
    PROVE  Typed' /\ AtWork' /\ (Exchange => Exchange')
<1>1. PICK p : p = Head(toStm)
  OBVIOUS
<1>2. PICK c : c = p.cell
  OBVIOUS
<1>3. /\ toStm # <<>> /\ toStm' = Tail(toStm) /\ toStm' \in Seq(ForStm) /\ p \in ForStm /\ p.k = "ackData"
      /\ stm' = IF c \in DOMAIN stm THEN [stm EXCEPT ![c].loc = "remote", ![c].data = Junk] ELSE stm
      /\ UNCHANGED <<espVars, queue, stmTemp, err, request, sends, toEsp, faults, appVars, history>>
  BY <1>1, <1>2, GotTyped DEF DataAcked
<1>4. /\ stm' \in Seq(StmCell) /\ Len(stm') \in Sizes
      /\ \A d : d # c /\ Holds(d) => Holds(d)'
  <2>1. CASE c \in DOMAIN stm
    <3>1. PICK x : x = [stm[c] EXCEPT !.loc = "remote", !.data = Junk]
      OBVIOUS
    <3>2. x \in StmCell
      BY <2>1, <3>1, Known DEF StmCell, CellSet
    <3>3. stm' = [stm EXCEPT ![c] = x]
      BY <1>3, <2>1, <3>1
    <3> QED
      BY <2>1, <3>2, <3>3, StmChanged
  <2>2. CASE c \notin DOMAIN stm
    BY <1>3, <2>2 DEF Typed, TypedStm, Holds
  <2> QED
    BY <2>1, <2>2
<1>5. TypedStm'
  BY <1>3, <1>4 DEF Typed, TypedStm
<1>6. ASSUME Exchange, NEW d \in DOMAIN esp, esp[d].loc = "remote", Holds(d)
      PROVE  Holds(d)'
  <2>1. 1 \in DOMAIN toStm /\ p = toStm[1]
    <3>1. PICK t : t = Tail(toStm)
      OBVIOUS
    <3> QED
      BY <1>1, <1>3, <3>1, TailOf DEF Typed, TypedWire
  <2>2. \A e \in DOMAIN esp : e = c => esp[e].loc # "remote"
    BY <1>2, <1>3, <1>6, <2>1 DEF Exchange, Held
  <2> QED
    BY <1>4, <1>6, <2>2
<1> QED
  BY <1>3, <1>5, <1>6, Noted

LEMMA Three ==
    ASSUME NEW S, NEW a \in S, NEW b \in S, NEW c \in S
    PROVE  <<a, b, c>> \in Seq(S)
  OBVIOUS

LEMMA RetrievedDone ==
    ASSUME Typed, AtWork, Retrieved
    PROVE  Typed' /\ AtWork' /\ (Exchange => Exchange')
<1>1. PICK p : p = Head(toStm)
  OBVIOUS
<1>2. PICK c : c = p.cell
  OBVIOUS
<1>3. /\ toStm # <<>> /\ toStm' = Tail(toStm) /\ toStm' \in Seq(ForStm) /\ p \in ForStm /\ p.k = "retrieve"
      /\ OneExchange => Expected(p)
      /\ UNCHANGED <<espVars, queue, stm, stmTemp, err, request, sends, faults, appVars, history>>
  BY <1>1, GotTyped DEF Retrieved, stmVars
<1>4. TypedStm'
  BY <1>3 DEF Typed, TypedStm
<1>5. CASE toEsp' = toEsp
  BY <1>3, <1>4, <1>5, Noted DEF Holds
<1>6. CASE /\ c \in DOMAIN stm /\ stm[c].loc = "canonical"
           /\ SendEsp(<<[k |-> "ackRetrieve", cell |-> c],
                        [k |-> "data1", cell |-> c, val |-> stm[c].data[1]],
                        [k |-> "data2", cell |-> c, val |-> stm[c].data[2]]>>)
  <2>1. PICK a : a = [k |-> "ackRetrieve", cell |-> c]
    OBVIOUS
  <2>2. PICK b1 : b1 = [k |-> "data1", cell |-> c, val |-> stm[c].data[1]]
    OBVIOUS
  <2>3. PICK b2 : b2 = [k |-> "data2", cell |-> c, val |-> stm[c].data[2]]
    OBVIOUS
  <2>4. c \in Cells /\ stm[c].data \in Half \X Half
    BY <1>6, Known DEF StmCell, CellSet
  <2>5. a \in ForEsp /\ a.k = "ackRetrieve" /\ a.cell = c
    BY <2>1, <2>4 DEF ForEsp
  <2>6. b1 \in ForEsp /\ b1.k = "data1" /\ b2 \in ForEsp /\ b2.k = "data2"
    <3>1. stm[c].data[1] \in Half /\ stm[c].data[2] \in Half
      BY <2>4
    <3> QED
      BY <2>2, <2>3, <2>4, <3>1 DEF ForEsp
  <2>7. PICK qs \in Seq(ForEsp) : qs = <<a, b1, b2>>
    <3>1. a \in ForEsp /\ b1 \in ForEsp /\ b2 \in ForEsp
      BY <2>5, <2>6
    <3> QED
      BY <3>1, Three
  <2>8. \A i \in DOMAIN qs : (i = 1 /\ qs[i] = a) \/ qs[i] = b1 \/ qs[i] = b2
    BY <2>7
  <2>9. toEsp' = toEsp \o qs
    BY <1>6, <2>1, <2>2, <2>3, <2>7 DEF SendEsp
  <2>10. toEsp' \in Seq(ForEsp)
    BY <2>9, Joined DEF Typed, TypedWire
  <2>11. Typed' /\ AtWork' /\ UNCHANGED <<esp, pc, job>>
    BY <1>3, <1>4, <2>10, DisplayPart
  <2>12. ASSUME Exchange PROVE Exchange'
    <3>1. Expected(p) /\ p.k \in Closing
      BY <1>3, <2>12 DEF Exchange, Closing
    <3>2. Wanted(a)
      BY <1>2, <1>3, <2>5, <3>1 DEF Expected, Wanted, Storing
    <3>3. \A d : Holds(d) => Holds(d)'
      BY <1>3 DEF Holds
    <3>4. Holds(a.cell)'
      BY <1>3, <1>6, <2>5 DEF Holds
    <3>5. b1.k \notin Acks /\ b2.k \notin Acks
      BY <2>6 DEF Acks
    <3>6. \A i \in DOMAIN qs : qs[i].k \in Acks =>
             /\ i = 1 /\ Head(toStm).k \in Closing /\ Wanted(qs[i])
             /\ \/ qs[i].k = "ackStore" /\ qs[i].code = "ok"
                \/ qs[i].k = "ackRetrieve"
                => Holds(qs[i].cell)'
      BY <1>1, <2>8, <3>1, <3>2, <3>4, <3>5 DEF Holds
    <3> QED
      BY <1>3, <2>9, <2>11, <2>12, <3>3, <3>6, Received
  <2> QED
    BY <2>11, <2>12
<1> QED
  BY <1>1, <1>2, <1>5, <1>6 DEF Retrieved

LEMMA ReceiveDone ==
    ASSUME Typed, AtWork, Receive
    PROVE  Typed' /\ AtWork' /\ (Exchange => Exchange')
<1>1. CASE \E of \in {"store", "fulfill"} : FirstFrame(of) \/ LastFrame(of)
  BY <1>1, FirstFrameDone, LastFrameDone
<1> QED
  BY <1>1, SetSizeDone, TempInformedDone, TempAckedDone, RetrievedDone, DataAckedDone DEF Receive

(* What it says of its own accord is a request.                               *)
LEMMA Says ==
    ASSUME Typed, AtWork, UNCHANGED <<espVars, queue, toStm, faults, appVars, history>>, TypedStm',
           \A c : Holds(c) => Holds(c)',
           NEW qs \in Seq(ForEsp), toEsp' = toEsp \o qs, \A i \in DOMAIN qs : qs[i] \in Asked
    PROVE  Typed' /\ AtWork' /\ (Exchange => Exchange')
<1>1. toEsp' \in Seq(ForEsp) /\ toStm' \in Seq(ForStm)
  BY Joined DEF Typed, TypedWire
<1>2. Typed' /\ AtWork' /\ UNCHANGED <<esp, pc, job>>
  BY <1>1, DisplayPart
<1>3. \A p \in Asked : p.k \notin Acks
  BY DEF Asked, Acks
<1>4. \A i \in DOMAIN qs : qs[i].k \notin Acks
  BY <1>3
<1>5. ASSUME Exchange PROVE Exchange'
  BY <1>2, <1>4, <1>5, Unasked
<1> QED
  BY <1>2, <1>5

LEMMA SaysOne ==
    ASSUME NEW p \in Asked
    PROVE  <<p>> \in Seq(ForEsp) /\ \A i \in DOMAIN <<p>> : <<p>>[i] \in Asked
  BY DEF ForEsp

LEMMA SendDataRequestsDone ==
    ASSUME Typed, AtWork, SendDataRequests
    PROVE  Typed' /\ AtWork' /\ (Exchange => Exchange')
<1> DEFINE S == {c \in DOMAIN stm : stm[c].loc = "remote" /\ stm[c].dirty}
<1>1. PICK asked \in Ascending(S) :
        /\ stm' = [c \in DOMAIN stm |->
                     IF stm[c].loc = "remote"
                     THEN [stm[c] EXCEPT !.dirty = stmTemp \in {"warm", "hot"}] ELSE stm[c]]
        /\ toEsp' = toEsp \o [i \in DOMAIN asked |-> [k |-> "request", cell |-> asked[i]]]
  BY DEF SendDataRequests, SendEsp
<1>2. UNCHANGED <<espVars, queue, stmTemp, err, request, sends, toStm, faults, appVars, history>>
  BY DEF SendDataRequests
<1>3. /\ stm \in Seq(StmCell) /\ Len(stm) \in Sizes /\ \A c \in DOMAIN stm : stm[c] \in StmCell
      /\ Len(stm) \in Nat /\ DOMAIN stm = 1 .. Len(stm) /\ DOMAIN stm \subseteq Cells
  BY Known DEF Typed, TypedStm
<1>4. PICK b \in BOOLEAN : b = (stmTemp \in {"warm", "hot"})
  <2>1. PICK b \in BOOLEAN : b <=> stmTemp \in {"warm", "hot"}
    OBVIOUS
  <2> QED
    BY <2>1, Zenon
<1>5. \A c \in DOMAIN stm : stm'[c] \in StmCell /\ stm'[c].loc = stm[c].loc
  <2>1. \A c \in DOMAIN stm :
          stm'[c] = IF stm[c].loc = "remote" THEN [stm[c] EXCEPT !.dirty = b] ELSE stm[c]
    BY <1>1, <1>4, Zenon
  <2>2. \A c \in DOMAIN stm : stm[c] \in StmCell
    BY <1>3
  <2>3. \A x \in StmCell : [x EXCEPT !.dirty = b] \in StmCell /\ [x EXCEPT !.dirty = b].loc = x.loc
    BY <1>4 DEF StmCell, CellSet
  <2> QED
    BY <2>1, <2>2, <2>3
<1>6. stm' \in Seq(StmCell) /\ Len(stm') = Len(stm) /\ DOMAIN stm' = DOMAIN stm
  <2>1. stm' = [c \in DOMAIN stm |-> stm'[c]]
    BY <1>1
  <2> QED
    BY <1>3, <1>5, <2>1, Changed
<1>7. TypedStm'
  BY <1>2, <1>3, <1>6 DEF Typed, TypedStm
<1>8. \A c : Holds(c) => Holds(c)'
  BY <1>5, <1>6 DEF Holds
<1>9. PICK n \in Nat : asked \in [1 .. n -> S]
  <2>1. IsFiniteSet(DOMAIN stm)
    BY <1>3, FS_Interval
  <2>2. IsFiniteSet(S)
    BY <2>1, FS_Subset
  <2>3. Cardinality(S) \in Nat
    BY <2>2, FS_CardinalityType
  <2> QED
    BY <1>1, <2>3 DEF Ascending
<1>10. PICK qs : qs = [i \in DOMAIN asked |-> [k |-> "request", cell |-> asked[i]]]
  OBVIOUS
<1>11. \A i \in 1 .. n : qs[i] \in Asked
  <2>1. \A i \in 1 .. n : asked[i] \in Cells /\ qs[i] = [k |-> "request", cell |-> asked[i]]
    BY <1>3, <1>9, <1>10
  <2>2. \A c \in Cells : [k |-> "request", cell |-> c] \in Asked
    BY DEF Asked
  <2> QED
    BY <2>1, <2>2
<1>12. qs \in Seq(ForEsp) /\ DOMAIN qs = 1 .. n
  <2>1. qs \in [1 .. n -> ForEsp]
    BY <1>9, <1>10, <1>11 DEF ForEsp
  <2> QED
    BY <2>1, SeqDef
<1> QED
  BY <1>1, <1>2, <1>7, <1>8, <1>10, <1>11, <1>12, Says

LEMMA EvictDone ==
    ASSUME Typed, AtWork, NEW c \in DOMAIN stm, Evict(c)
    PROVE  Typed' /\ AtWork' /\ (Exchange => Exchange')
<1>1. PICK q : q = [k |-> "request", cell |-> c]
  OBVIOUS
<1>2. /\ stm[c].loc = "ephemeral" /\ stm' = [stm EXCEPT ![c].loc = "remote", ![c].data = Junk]
      /\ toEsp' = toEsp \o <<q>>
      /\ UNCHANGED <<espVars, queue, stmTemp, err, request, sends, toStm, faults, appVars, history>>
  BY <1>1 DEF Evict, SendEsp
<1>3. PICK x : x = [stm[c] EXCEPT !.loc = "remote", !.data = Junk]
  OBVIOUS
<1>4. x \in StmCell /\ stm' = [stm EXCEPT ![c] = x] /\ stm[c].loc # "canonical"
  BY <1>2, <1>3, Known DEF StmCell, CellSet
<1>5. stm' \in Seq(StmCell) /\ Len(stm') \in Sizes /\ \A d : Holds(d) => Holds(d)'
  BY <1>4, StmChanged
<1>6. TypedStm'
  BY <1>2, <1>5 DEF Typed, TypedStm
<1>7. q \in Asked
  BY <1>1, Known DEF Asked
<1> QED
  BY <1>2, <1>5, <1>6, <1>7, SaysOne, Says

LEMMA AskTempDone ==
    ASSUME Typed, AtWork, NEW t \in Asks, AskTemp(t)
    PROVE  Typed' /\ AtWork' /\ (Exchange => Exchange')
<1>1. PICK q : q = [k |-> "askTemp", temp |-> t]
  OBVIOUS
<1>2. /\ request' = t /\ sends' = 1 /\ toEsp' = toEsp \o <<q>>
      /\ UNCHANGED <<espVars, queue, stm, stmTemp, err, toStm, faults, appVars, history>>
  BY <1>1 DEF AskTemp, SendEsp
<1>3. t \in Temps
  BY SlotSyncAssumption DEF Temps
<1>4. q \in Asked
  BY <1>1, <1>3 DEF Asked
<1>5. TypedStm'
  BY <1>2, <1>3 DEF Typed, TypedStm
<1>6. \A c : Holds(c) => Holds(c)'
  BY <1>2 DEF Holds
<1> QED
  BY <1>2, <1>4, <1>5, <1>6, SaysOne, Says

LEMMA AskAgainDone ==
    ASSUME Typed, AtWork, AskAgain
    PROVE  Typed' /\ AtWork' /\ (Exchange => Exchange')
<1>1. PICK q : q = [k |-> "askTemp", temp |-> request]
  OBVIOUS
<1>2. /\ request # "none"
      /\ \/ sends < 3 /\ sends' = sends + 1 /\ request' = request /\ toEsp' = toEsp \o <<q>>
         \/ request' = "none" /\ sends' = 0 /\ toEsp' = toEsp
      /\ UNCHANGED <<espVars, queue, stm, stmTemp, err, toStm, faults, appVars, history>>
  BY <1>1 DEF AskAgain, SendEsp
<1>3. request \in Temps /\ sends \in 0 .. 3
  BY <1>2 DEF Typed, TypedStm
<1>4. q \in Asked
  BY <1>1, <1>3 DEF Asked
<1>5. TypedStm'
  BY <1>2, <1>3 DEF Typed, TypedStm
<1>6. \A c : Holds(c) => Holds(c)'
  BY <1>2 DEF Holds
<1>7. PICK qs \in Seq(ForEsp) : toEsp' = toEsp \o qs /\ \A i \in DOMAIN qs : qs[i] \in Asked
  <2>1. CASE toEsp' = toEsp
    BY <2>1, SaysNothing
  <2>2. CASE toEsp' = toEsp \o <<q>>
    BY <1>4, <2>2, SaysOne
  <2> QED
    BY <1>2, <2>1, <2>2
<1> QED
  BY <1>2, <1>5, <1>6, <1>7, Says

-----------------------------------------------------------------------------
(* The wire, the receiver and the application                                *)

LEMMA LoseToStmDone ==
    ASSUME Typed, AtWork, LoseToStm
    PROVE  Typed' /\ AtWork' /\ (Exchange => Exchange')
<1>1. /\ toStm # <<>> /\ toStm' = Tail(toStm) /\ faults < MaxFaults /\ faults' = faults + 1
      /\ UNCHANGED <<espVars, queue, stmVars, toEsp, appVars, history>>
  BY DEF LoseToStm
<1>2. UNCHANGED <<esp, espTemp, pc, job, stm, stmTemp, err, request, sends, writes, resizes, due, kept>>
  BY <1>1 DEF espVars, stmVars, appVars, history
<1>3. toStm' \in Seq(ForStm)
  <2>1. PICK t : t = Tail(toStm)
    OBVIOUS
  <2> QED
    BY <1>1, <2>1, TailOf DEF Typed, TypedWire
<1>4. faults' \in 0 .. MaxFaults
  <2>1. faults \in 0 .. MaxFaults /\ MaxFaults \in Nat
    BY SlotSyncAssumption DEF Typed, TypedWire
  <2> QED
    BY <1>1, <2>1
<1>5. TypedEsp' /\ TypedStm' /\ TypedApp'
  BY <1>2 DEF Typed, TypedEsp, TypedStm, TypedApp
<1>6. TypedWire'
  BY <1>1, <1>3, <1>4 DEF Typed, TypedWire
<1>7. AtWork'
  BY <1>2 DEF AtWork
<1>8. ASSUME Exchange PROVE Exchange'
  <2>1. <<>> \in Seq(ForEsp) /\ toEsp' = toEsp \o <<>> /\ DOMAIN <<>> = {}
    BY <1>1, SaysNothing
  <2>2. \A c : Holds(c) => Holds(c)'
    BY <1>2 DEF Holds
  <2> QED
    BY <1>1, <1>2, <1>8, <2>1, <2>2, Received
<1> QED
  BY <1>5, <1>6, <1>7, <1>8 DEF Typed

LEMMA LoseToEspDone ==
    ASSUME Typed, AtWork, LoseToEsp
    PROVE  Typed' /\ AtWork' /\ (Exchange => Exchange')
<1>1. /\ toEsp # <<>> /\ toEsp' = Tail(toEsp) /\ faults < MaxFaults /\ faults' = faults + 1
      /\ UNCHANGED <<espVars, queue, stmVars, toStm, appVars, history>>
  BY DEF LoseToEsp
<1>2. UNCHANGED <<esp, espTemp, pc, job, stm, stmTemp, err, request, sends, writes, resizes, due, kept>>
  BY <1>1 DEF espVars, stmVars, appVars, history
<1>3. toEsp' \in Seq(ForEsp)
  <2>1. PICK t : t = Tail(toEsp)
    OBVIOUS
  <2> QED
    BY <1>1, <2>1, TailOf DEF Typed, TypedWire
<1>4. faults' \in 0 .. MaxFaults
  <2>1. faults \in 0 .. MaxFaults /\ MaxFaults \in Nat
    BY SlotSyncAssumption DEF Typed, TypedWire
  <2> QED
    BY <1>1, <2>1
<1>5. TypedEsp' /\ TypedStm' /\ TypedApp'
  BY <1>2 DEF Typed, TypedEsp, TypedStm, TypedApp
<1>6. TypedWire'
  BY <1>1, <1>3, <1>4 DEF Typed, TypedWire
<1>7. AtWork'
  BY <1>2 DEF AtWork
<1>8. ASSUME Exchange PROVE Exchange'
  BY <1>1, <1>2, <1>8, Gone
<1> QED
  BY <1>5, <1>6, <1>7, <1>8 DEF Typed

LEMMA Queued ==
    ASSUME Typed, Len(queue) < QueueLen, NEW p \in Pending
    PROVE  Append(queue, p) \in Seq(Pending) /\ Len(Append(queue, p)) <= QueueLen
<1>1. queue \in Seq(Pending) /\ QueueLen \in Nat
  BY SlotSyncAssumption DEF Typed, TypedWire
<1>2. Append(queue, p) \in Seq(Pending) /\ Len(Append(queue, p)) = Len(queue) + 1 /\ Len(queue) \in Nat
  BY <1>1, AppendProperties, LenProperties
<1> QED
  BY <1>1, <1>2

LEMMA RouteDone ==
    ASSUME Typed, AtWork, Route
    PROVE  Typed' /\ AtWork' /\ (Exchange => Exchange')
<1>1. PICK p : p = Head(toEsp)
  OBVIOUS
<1>2. /\ toEsp # <<>> /\ toEsp' = Tail(toEsp)
      /\ queue' = IF p.k \in {"askTemp", "request"} /\ Len(queue) < QueueLen
                  THEN Append(queue, p) ELSE queue
      /\ UNCHANGED <<espVars, stmVars, toStm, faults, appVars, history>>
  BY <1>1 DEF Route
<1>3. UNCHANGED <<esp, espTemp, pc, job, stm, stmTemp, err, request, sends, writes, resizes, due, kept>>
  BY <1>2 DEF espVars, stmVars, appVars, history
<1>4. toEsp' \in Seq(ForEsp) /\ p \in ForEsp
  <2>1. PICK t : t = Tail(toEsp)
    OBVIOUS
  <2> QED
    BY <1>1, <1>2, <2>1, TailOf DEF Typed, TypedWire
<1>5. queue' \in Seq(Pending) /\ Len(queue') <= QueueLen
  <2>1. p.k \in {"askTemp", "request"} => p \in Pending
    BY <1>4 DEF ForEsp, Pending
  <2>2. CASE p.k \in {"askTemp", "request"} /\ Len(queue) < QueueLen
    BY <1>2, <2>1, <2>2, Queued
  <2>3. CASE ~(p.k \in {"askTemp", "request"} /\ Len(queue) < QueueLen)
    BY <1>2, <2>3 DEF Typed, TypedWire
  <2> QED
    BY <2>2, <2>3
<1>6. TypedEsp' /\ TypedStm' /\ TypedApp'
  BY <1>3 DEF Typed, TypedEsp, TypedStm, TypedApp
<1>7. TypedWire'
  BY <1>2, <1>4, <1>5 DEF Typed, TypedWire
<1>8. AtWork'
  BY <1>3 DEF AtWork
<1>9. ASSUME Exchange PROVE Exchange'
  BY <1>2, <1>3, <1>9, Gone
<1> QED
  BY <1>6, <1>7, <1>8, <1>9 DEF Typed

LEMMA AppDone ==
    ASSUME Typed, AtWork, App
    PROVE  Typed' /\ AtWork' /\ (Exchange => Exchange')
<1>1. UNCHANGED <<espVars, stmVars, toStm, toEsp, faults, history>>
  BY DEF App, Write, Trigger, Resize
<1>2. UNCHANGED <<esp, espTemp, pc, job, stm, stmTemp, err, request, sends, due, kept>>
  BY <1>1 DEF espVars, stmVars, history
<1>3. /\ MaxWrites \in Nat /\ MaxResizes \in Nat /\ writes \in 0 .. MaxWrites /\ resizes \in 0 .. MaxResizes
  BY SlotSyncAssumption DEF Typed, TypedApp
<1>4. writes' \in 0 .. MaxWrites
  <2>1. writes' = writes \/ (writes < MaxWrites /\ writes' = writes + 1)
    BY DEF App, Write, Trigger, Resize, appVars
  <2> QED
    BY <1>3, <2>1
<1>5. resizes' \in 0 .. MaxResizes
  <2>1. resizes' = resizes \/ (resizes < MaxResizes /\ resizes' = resizes + 1)
    BY DEF App, Write, Trigger, Resize, appVars
  <2> QED
    BY <1>3, <2>1
<1>6. PICK p \in Pending : Len(queue) < QueueLen /\ queue' = Append(queue, p)
  <2>1. CASE \E c \in Cells, m \in BOOLEAN : Write(c, m)
    <3>1. PICK c \in Cells, m \in BOOLEAN : Write(c, m)
      BY <2>1
    <3>2. PICK q : q = [k |-> "patch", cell |-> c, val |-> writes', mark |-> m]
      OBVIOUS
    <3>3. q \in Pending
      BY <1>4, <3>2 DEF Pending, Half
    <3> QED
      BY <3>1, <3>2, <3>3 DEF Write
  <2>2. CASE \E n \in Sizes : Resize(n)
    <3>1. PICK n \in Sizes : Resize(n)
      BY <2>2
    <3>2. PICK q : q = [k |-> "size", n |-> n]
      OBVIOUS
    <3>3. q \in Pending
      BY <3>2 DEF Pending
    <3> QED
      BY <3>1, <3>2, <3>3 DEF Resize
  <2>3. CASE Trigger
    <3>1. PICK q : q = [k |-> "trigger"]
      OBVIOUS
    <3>2. q \in Pending
      BY <3>1 DEF Pending
    <3> QED
      BY <2>3, <3>1, <3>2 DEF Trigger
  <2> QED
    BY <2>1, <2>2, <2>3 DEF App
<1>7. queue' \in Seq(Pending) /\ Len(queue') <= QueueLen
  BY <1>6, Queued
<1>8. TypedEsp' /\ TypedStm' /\ TypedApp'
  BY <1>2, <1>4, <1>5 DEF Typed, TypedEsp, TypedStm, TypedApp
<1>9. TypedWire'
  BY <1>1, <1>7 DEF Typed, TypedWire
<1>10. AtWork'
  BY <1>2 DEF AtWork
<1>11. ASSUME Exchange PROVE Exchange'
  BY <1>1, <1>2, <1>11, Unseen
<1> QED
  BY <1>8, <1>9, <1>10, <1>11 DEF Typed

-----------------------------------------------------------------------------
(* The invariants                                                            *)

LEMMA ManagerDone ==
    ASSUME Typed, AtWork, Handle \/ StartFlush \/ Pressure
    PROVE  Typed' /\ AtWork' /\ Handled
<1>1. CASE Handle
  <2>1. CASE Resend \/ Sweep \/ FlushEnds \/ Patch \/ PatchEnds \/ Triggered \/ MarkDirty
    BY <2>1, ResendDone, SweepDone, FlushEndsDone, PatchDone, PatchEndsDone, TriggeredDone,
       MarkDirtyDone
  <2>2. CASE SetTemp \/ Heating \/ HeatEnds
    BY <2>2, SetTempDone, HeatingDone, HeatEndsDone
  <2>3. CASE Shrink \/ Grow \/ SameSize \/ SizeResend \/ SizeGivenUp \/ SizeAgreed \/ GrowEnds
    BY <2>3, ShrinkDone, GrowDone, SameSizeDone, SizeResendDone, SizeGivenUpDone,
       SizeAgreedDone, GrowEndsDone
  <2>4. CASE MoveEnds \/ RetrieveAcked \/ RetrieveTimeout \/ Frame \/ FrameTimeout
    BY <2>4, MoveEndsDone, RetrieveAckedDone, RetrieveTimeoutDone, FrameDone, FrameTimeoutDone
  <2> QED
    BY <1>1, <2>1, <2>2, <2>3, <2>4 DEF Handle
<1>2. CASE Pressure
  BY <1>2, DemoteDone, ReinstateDone, MoveOutDone, ReclaimDone DEF Pressure
<1> QED
  BY <1>1, <1>2, StartFlushDone

LEMMA OthersDone ==
    ASSUME Typed, AtWork, Next, ~(Handle \/ StartFlush \/ Pressure)
    PROVE  Typed' /\ AtWork' /\ (Exchange => Exchange')
<1>1. CASE Poll \/ Screens
  BY <1>1, SendDataRequestsDone, AskAgainDone, EvictDone, AskTempDone DEF Poll, Screens
<1> QED
  BY <1>1, AppDone, RouteDone, ReceiveDone, LoseToStmDone, LoseToEspDone DEF Next

LEMMA TypedInit == Init => Typed /\ AtWork
<1> SUFFICES ASSUME Init PROVE Typed /\ AtWork
  OBVIOUS
<1>1. /\ MinSize \in Nat /\ MaxWrites \in Nat /\ MaxResizes \in Nat /\ QueueLen \in Nat
      /\ MaxFaults \in Nat /\ 0 \in Half /\ Junk \in Half \X Half /\ MinSize \in Sizes
  BY SlotSyncAssumption DEF Half, Junk, Sizes
<1>2. esp \in Seq(EspCell) /\ Len(esp) = MinSize
  <2>1. Cell("canonical", FALSE, Junk) \in EspCell
    BY <1>1 DEF Cell, EspCell, CellSet
  <2>2. esp \in [1 .. MinSize -> EspCell]
    BY <2>1 DEF Init
  <2>3. esp \in Seq(EspCell)
    BY <1>1, <2>2, SeqDef
  <2>4. DOMAIN esp = 1 .. MinSize
    BY <2>2
  <2> QED
    BY <1>1, <2>3, <2>4, LenProperties
<1>3. stm \in Seq(StmCell) /\ Len(stm) = MinSize
  <2>1. NewRemote \in StmCell
    BY <1>1 DEF NewRemote, Cell, StmCell, CellSet
  <2>2. stm \in [1 .. MinSize -> StmCell]
    BY <2>1 DEF Init
  <2>3. stm \in Seq(StmCell)
    BY <1>1, <2>2, SeqDef
  <2>4. DOMAIN stm = 1 .. MinSize
    BY <2>2
  <2> QED
    BY <1>1, <2>3, <2>4, LenProperties
<1>4. TypedEsp
  <2>1. NoJob \in Job
    BY <1>1 DEF NoJob, Job
  <2>2. espTemp \in Temps \cup {"none", "wants"}
    BY DEF Init, Temps
  <2> QED
    BY <1>1, <1>2, <2>1, <2>2 DEF Init, TypedEsp
<1>5. TypedStm
  <2>1. stmTemp \in Temps \cup {"none"} /\ "ok" \in Codes
    BY DEF Init, Temps, Codes, Outcomes
  <2> QED
    BY <1>1, <1>3, <2>1 DEF Init, TypedStm
<1>6. TypedWire
  <2>1. <<>> \in Seq(Pending) /\ <<>> \in Seq(ForStm) /\ <<>> \in Seq(ForEsp) /\ Len(<<>>) = 0
    OBVIOUS
  <2> QED
    BY <1>1, <2>1 DEF Init, TypedWire
<1>7. TypedApp
  BY <1>1 DEF Init, TypedApp
<1>8. AtWork
  BY DEF Init, AtWork, Storing
<1> QED
  BY <1>4, <1>5, <1>6, <1>7, <1>8 DEF Typed

LEMMA TypedStep == Typed /\ AtWork /\ [Next]_vars => Typed' /\ AtWork'
<1>1. CASE UNCHANGED vars
  <2>1. UNCHANGED <<esp, espTemp, queue, pc, job, stm, stmTemp, err, request, sends, toStm, toEsp,
                    faults, writes, resizes, due, kept>>
    BY <1>1 DEF vars, espVars, stmVars, appVars, history
  <2> QED
    BY <2>1 DEF Typed, TypedEsp, TypedStm, TypedWire, TypedApp, AtWork
<1> QED
  BY <1>1, ManagerDone, OthersDone

LEMMA ExchangeStep ==
    ASSUME Patient
    PROVE  Typed /\ AtWork /\ Exchange /\ [Next]_vars => Exchange'
<1> SUFFICES ASSUME Typed, AtWork, Exchange, [Next]_vars PROVE Exchange'
  OBVIOUS
<1>1. CASE UNCHANGED vars
  <2>1. UNCHANGED <<esp, pc, job, stm, toStm, toEsp>>
    BY <1>1 DEF vars, espVars, stmVars
  <2> QED
    BY <2>1, Unseen
<1>2. CASE Handle \/ StartFlush \/ Pressure
  <2>1. Handled
    BY <1>2, ManagerDone
  <2> QED
    BY <2>1, HandledOneExchange, HandledHeld DEF Exchange
<1> QED
  BY <1>1, <1>2, OthersDone

LEMMA ExchangeInit == Init => Exchange
<1> SUFFICES ASSUME Init PROVE Exchange
  OBVIOUS
<1>1. toStm = <<>> /\ toEsp = <<>> /\ DOMAIN <<>> = {} /\ pc = "idle"
  BY DEF Init
<1>2. \A c \in DOMAIN esp : esp[c].loc # "remote"
  BY DEF Init, Cell
<1> QED
  BY <1>1, <1>2 DEF Exchange, OneExchange, Held

(* Every variable keeps its type, for every size of slot, length of queue and *)
(* kind of packet lost; the request queue never outgrows its length.          *)
THEOREM TypeCorrect == Spec => []TypeOK
<1>1. Typed => TypeOK
  <2> SUFFICES ASSUME Typed PROVE TypeOK
    OBVIOUS
  <2>1. \A c \in DOMAIN esp : CellOK(esp[c])
    <3>1. \A x \in EspCell : CellOK(x)
      BY DEF EspCell, CellSet, CellOK, Half
    <3> QED
      BY <3>1, Known
  <2>2. \A c \in DOMAIN stm : CellOK(stm[c])
    <3>1. \A x \in StmCell : CellOK(x)
      BY DEF StmCell, CellSet, CellOK, Half
    <3> QED
      BY <3>1, Known
  <2> QED
    BY <2>1, <2>2 DEF TypeOK, Typed, TypedEsp, TypedStm, TypedWire, TypedApp, Codes, Half
<1> QED
  BY <1>1, TypedInit, TypedStep, PTL DEF Spec

(* Data always has a holder: where the update manager has only a placeholder, *)
(* the display has the cell canonically, whatever packets are lost and however *)
(* often an exchange is tried again, as long as no exchange of a store, a size *)
(* or a retrieve times out while its answer can still come.                    *)
THEOREM DataHeld ==
    ASSUME Patient
    PROVE  Spec => []Custody
<1>1. Typed /\ AtWork /\ Exchange => Custody
  BY DEF Exchange, Held, Holds, Custody
<1> QED
  BY <1>1, TypedInit, TypedStep, ExchangeInit, ExchangeStep, PTL DEF Spec

-----------------------------------------------------------------------------
(* What the halves of a cell hold                                            *)

Firsts == {"store1", "fulfill1"}
Seconds == {"store2", "fulfill2"}
Stores == {"ackStore", "ackFulfill"}
Even(x) == x[1] = x[2]

(* Where the present store or fulfill puts its cell, and whether it is there. *)
Place == IF pc = "flush" THEN "ephemeral" ELSE "canonical"
InPlace == job.cell \in DOMAIN stm /\ stm[job.cell].loc = Place

(* The wire carries what the manager is at work on, a first half right before *)
(* its second; and when a second comes, its first has been dealt with.        *)
Carried ==
  /\ \A i \in DOMAIN toStm :
       /\ toStm[i].k \in Firsts => toStm[i].val = Data[1]
       /\ toStm[i].k \in Seconds => toStm[i].val = Data[2]
  /\ \A i, j \in DOMAIN toStm : i = j + 1 /\ toStm[i].k \in Seconds => toStm[j].k \in Firsts
  /\ \A j \in DOMAIN toStm : toStm[j].k \in Firsts =>
       \E i \in DOMAIN toStm : i = j + 1 /\ toStm[i].k \in Seconds
Begun ==
  toStm # <<>> /\ Head(toStm).k \in Seconds =>
    /\ err = "ok" /\ InPlace => stm[job.cell].data[1] = Data[1]
    /\ pc = "patch" => err = "ok"
(* A cell that was acknowledged holds what was sent, if it is still there.    *)
Acked ==
  \A i \in DOMAIN toEsp : toEsp[i].k \in Stores =>
    /\ toEsp[i].code = "ok" /\ InPlace => stm[job.cell].data = Data
    /\ pc = "patch" => toEsp[i].code = "ok"

(* Data on its way back comes after its acknowledgement, first half first,    *)
(* and is what the display has; before the second the first has been put in.  *)
Paired ==
  \A i, j \in DOMAIN toEsp : i = j + 1 =>
    /\ toEsp[i].k = "data1" => toEsp[j].k = "ackRetrieve"
    /\ toEsp[i].k = "data2" => toEsp[j].k = "data1"
Current(i) ==
  pc = "frames" \/ (pc = "retrieve" /\ \E j \in DOMAIN toEsp : j < i /\ toEsp[j].k = "ackRetrieve")
Fetched ==
  /\ \A i \in DOMAIN toEsp : Current(i) =>
       /\ toEsp[i].k \in {"data1", "data2"} => toEsp[i].cell = job.cell
       /\ toEsp[i].k = "data1" => toEsp[i].val = stm[job.cell].data[1]
       /\ toEsp[i].k = "data2" => toEsp[i].val = stm[job.cell].data[2]
  /\ pc = "frames" /\ toEsp # <<>> /\ Head(toEsp).k = "data2" =>
       esp[job.cell].data[1] = stm[job.cell].data[1]

(* A direct store that stays without an answer has lost a packet.             *)
Completing == \E i \in DOMAIN toStm : toStm[i].k = "store2"
Answering == \E i \in DOMAIN toEsp : toEsp[i].k = "ackStore"
Counted ==
  pc = "patch" =>
    /\ Even(job.data) /\ esp[job.cell].loc = "remote"
    /\ faults + 1 >= job.tries
    /\ faults >= job.tries \/ Completing \/ Answering
    /\ Even(stm[job.cell].data) \/ Completing \/ ("store2" \in Lossy /\ faults >= job.tries)

(* Whoever has a cell has it whole, but for the one the manager is at work on. *)
Role(c) == IF job.cell = c /\ pc \in {"patch", "grow", "retrieve", "frames"} THEN pc ELSE "none"
EvenAt(c) ==
  /\ esp[c].loc = "remote" => esp[c].data = Junk
  /\ Role(c) # "frames" => Even(esp[c].data)
  /\ \/ esp[c].loc = "remote" /\ Role(c) \notin {"patch", "grow"}
     \/ Role(c) \in {"retrieve", "frames"}
     => (c \in DOMAIN stm => Even(stm[c].data))
Evens == \A c \in DOMAIN esp : EvenAt(c)

Sound == Carried /\ Begun /\ Acked /\ Paired /\ Fetched /\ Counted /\ Evens

(* The display's steps, as far as they matter to what its cells hold.         *)
Alike(c) == c \in DOMAIN stm /\ stm'[c].data = stm[c].data /\ stm'[c].loc = stm[c].loc
Dropped(c) ==
  /\ stm'[c].loc = "remote" /\ stm'[c].data = Junk
  /\ \/ c \notin DOMAIN stm
     \/ stm[c].loc = "ephemeral"
     \/ toStm # <<>> /\ Head(toStm).k = "ackData" /\ Head(toStm).cell = c
Fed(c) ==
  /\ c \in DOMAIN stm /\ pc \in Storing /\ job.cell = c /\ stm'[c].loc = Place
  /\ \A h \in {1, 2} : stm'[c].data[h] = stm[c].data[h] \/ stm'[c].data[h] = Data[h]
Shows == \A c \in DOMAIN stm' : Alike(c) \/ Dropped(c) \/ Fed(c)

LEMMA StmSame == ASSUME stm' = stm PROVE Shows
  BY DEF Shows, Alike

LEMMA DataTyped == ASSUME Typed, AtWork, pc \in Storing PROVE Data \in Half \X Half
<1>1. job.cell \in DOMAIN esp /\ job \in Job
  BY DEF AtWork, Typed, TypedEsp
<1>2. esp[job.cell] \in EspCell /\ Junk \in Half \X Half
  BY <1>1, Known
<1> QED
  BY <1>1, <1>2 DEF Data, Job, EspCell, CellSet

(* The frame that comes is of the present exchange.                           *)
LEMMA FrameIs ==
    ASSUME Typed, AtWork, Exchange, Carried, NEW of \in {"store", "fulfill"}, NEW n \in {1, 2},
           Got(FrameKinds[of][n])
    PROVE  /\ pc \in Storing /\ Head(toStm).cell = job.cell /\ Head(toStm).val = Data[n]
           /\ Head(toStm).val \in Half
           /\ Head(toStm).k \in IF n = 1 THEN Firsts ELSE Seconds
           /\ Place = IF of = "store" THEN "canonical" ELSE "ephemeral"
           /\ of = "store" <=> pc # "flush"
           /\ toStm # <<>> /\ toStm' = Tail(toStm)
<1>1. PICK k : k = FrameKinds[of][n]
  OBVIOUS
<1>2. k = IF of = "store" THEN (IF n = 1 THEN "store1" ELSE "store2")
                          ELSE (IF n = 1 THEN "fulfill1" ELSE "fulfill2")
  BY <1>1 DEF FrameKinds
<1>3. PICK p : p = Head(toStm)
  OBVIOUS
<1>4. p \in ForStm /\ p.k = k /\ toStm # <<>> /\ toStm' = Tail(toStm) /\ Expected(p)
  BY <1>1, <1>3, GotTyped DEF Exchange
<1>5. p = toStm[1] /\ 1 \in DOMAIN toStm
  BY <1>3, <1>4, TailOf DEF Typed, TypedWire
<1>6. pc \in Storing /\ p.cell = job.cell /\ (of = "store" <=> pc # "flush")
  BY <1>2, <1>4 DEF Expected, Storing
<1>7. p.k \in IF n = 1 THEN Firsts ELSE Seconds
  BY <1>2, <1>4 DEF Firsts, Seconds
<1>8. p.val = Data[n]
  BY <1>5, <1>7 DEF Carried
<1>9. Data[n] \in Half
  BY <1>6, DataTyped
<1>10. Place = IF of = "store" THEN "canonical" ELSE "ephemeral"
  BY <1>6 DEF Place
<1> QED
  BY <1>3, <1>4, <1>6, <1>7, <1>8, <1>9, <1>10

LEMMA FirstFrameShows ==
    ASSUME Typed, AtWork, Exchange, Carried, NEW of \in {"store", "fulfill"}, FirstFrame(of)
    PROVE  /\ Shows
           /\ DOMAIN stm' = DOMAIN stm
           /\ \/ stm' = stm /\ err' # "ok" /\ ~Holds(job.cell)
              \/ /\ err' = "ok" /\ job.cell \in DOMAIN stm
                 /\ stm'[job.cell].loc = Place /\ stm'[job.cell].data[1] = Data[1]
                 /\ \A c \in DOMAIN stm : c # job.cell => stm'[c] = stm[c]
<1>1. PICK p : p = Head(toStm)
  OBVIOUS
<1>2. Got(FrameKinds[of][1])
  BY DEF FirstFrame
<1>3. pc \in Storing /\ p.cell = job.cell /\ p.val = Data[1] /\ p.val \in Half
      /\ Place = IF of = "store" THEN "canonical" ELSE "ephemeral"
  BY <1>1, <1>2, FrameIs
<1>4. CASE err' # "ok" /\ stm' = stm /\ ~Holds(job.cell)
  BY <1>4, StmSame
<1>5. CASE /\ p.cell \in DOMAIN stm /\ err' = "ok"
           /\ stm' = [stm EXCEPT ![p.cell].loc = Place, ![p.cell].data[1] = p.val,
                                 ![p.cell].dirty = TRUE]
  <2>1. PICK d \in DOMAIN stm : d = p.cell
    BY <1>5
  <2>2. PICK v \in Half : v = p.val
    BY <1>3
  <2>3. PICK y : y = [stm[d].data EXCEPT ![1] = v]
    OBVIOUS
  <2>4. PICK x : x = [stm[d] EXCEPT !.loc = Place, !.data = y, !.dirty = TRUE]
    OBVIOUS
  <2>5. x.loc = Place /\ x.data[1] = v /\ x.data[2] = stm[d].data[2]
    <3>1. stm[d] \in StmCell
      BY Known
    <3> QED
      BY <2>3, <2>4, <3>1 DEF StmCell, CellSet
  <2>6. stm' = [stm EXCEPT ![d] = x]
    BY <1>5, <2>1, <2>2, <2>3, <2>4
  <2>7. /\ DOMAIN stm' = DOMAIN stm /\ stm'[d] = x
        /\ \A c \in DOMAIN stm : c # d => stm'[c] = stm[c]
    BY <2>6
  <2>8. Fed(d)
    BY <1>3, <2>1, <2>2, <2>5, <2>7 DEF Fed
  <2>9. Shows
    BY <2>7, <2>8 DEF Shows, Alike
  <2> QED
    BY <1>3, <1>5, <2>1, <2>2, <2>5, <2>7, <2>9
<1> QED
  <2>1. \/ err' # "ok" /\ stm' = stm /\ ~Holds(p.cell)
        \/ /\ p.cell \in DOMAIN stm /\ err' = "ok"
           /\ stm' = [stm EXCEPT ![p.cell].loc = Place, ![p.cell].data[1] = p.val,
                                 ![p.cell].dirty = TRUE]
    BY <1>1, <1>3 DEF FirstFrame, Holds
  <2> QED
    BY <1>3, <1>4, <1>5, <2>1

LEMMA LastFrameShows ==
    ASSUME Typed, AtWork, Exchange, Carried, NEW of \in {"store", "fulfill"}, LastFrame(of)
    PROVE  /\ Shows
           /\ DOMAIN stm' = DOMAIN stm
           /\ \/ /\ err = "ok" /\ InPlace /\ err' = "ok"
                 /\ stm'[job.cell].loc = Place
                 /\ stm'[job.cell].data[1] = stm[job.cell].data[1] /\ stm'[job.cell].data[2] = Data[2]
                 /\ \A c \in DOMAIN stm : c # job.cell => stm'[c] = stm[c]
              \/ stm' = stm /\ err' # "ok" /\ ~(err = "ok" /\ InPlace)
<1>1. PICK p : p = Head(toStm)
  OBVIOUS
<1>2. Got(FrameKinds[of][2])
  BY DEF LastFrame
<1>3. pc \in Storing /\ p.cell = job.cell /\ p.val = Data[2] /\ p.val \in Half
      /\ Place = IF of = "store" THEN "canonical" ELSE "ephemeral"
  BY <1>1, <1>2, FrameIs
<1>4. CASE err' # "ok" /\ stm' = stm /\ ~(err = "ok" /\ InPlace)
  BY <1>4, StmSame
<1>5. CASE /\ err = "ok" /\ InPlace /\ err' = "ok"
           /\ stm' = [stm EXCEPT ![p.cell].data[2] = p.val, ![p.cell].dirty = TRUE]
  <2>1. PICK d \in DOMAIN stm : d = p.cell
    BY <1>3, <1>5 DEF InPlace
  <2>2. PICK v \in Half : v = p.val
    BY <1>3
  <2>3. PICK y : y = [stm[d].data EXCEPT ![2] = v]
    OBVIOUS
  <2>4. PICK x : x = [stm[d] EXCEPT !.data = y, !.dirty = TRUE]
    OBVIOUS
  <2>5. x.loc = Place /\ x.data[2] = v /\ x.data[1] = stm[d].data[1]
    <3>1. stm[d] \in StmCell /\ stm[d].loc = Place
      BY <1>3, <1>5, <2>1, Known DEF InPlace
    <3> QED
      BY <2>3, <2>4, <3>1 DEF StmCell, CellSet
  <2>6. stm' = [stm EXCEPT ![d] = x]
    BY <1>5, <2>1, <2>2, <2>3, <2>4
  <2>7. /\ DOMAIN stm' = DOMAIN stm /\ stm'[d] = x
        /\ \A c \in DOMAIN stm : c # d => stm'[c] = stm[c]
    BY <2>6
  <2>8. Fed(d)
    BY <1>3, <2>1, <2>2, <2>5, <2>7 DEF Fed
  <2>9. Shows
    BY <2>7, <2>8 DEF Shows, Alike
  <2> QED
    BY <1>3, <1>5, <2>1, <2>2, <2>5, <2>7, <2>9
<1> QED
  <2>1. PICK fits \in BOOLEAN : fits <=> p.cell \in DOMAIN stm /\ stm[p.cell].loc = Place
    OBVIOUS
  <2>2. fits <=> InPlace
    BY <1>3, <2>1 DEF InPlace
  <2>3. /\ err' = IF err = "ok" /\ ~fits THEN "illegal" ELSE err
        /\ stm' = IF err = "ok" /\ fits
                  THEN [stm EXCEPT ![p.cell].data[2] = p.val, ![p.cell].dirty = TRUE]
                  ELSE stm
    BY <1>1, <1>3, <2>1 DEF LastFrame
  <2> QED
    BY <1>4, <1>5, <2>2, <2>3

(* Everything else that the display does.                                     *)
Spares == \A c \in DOMAIN stm' : Alike(c) \/ Dropped(c)

LEMMA SetSizeSpares == ASSUME Typed, SetSize PROVE Spares
<1>1. PICK n : n = Head(toStm).n
  OBVIOUS
<1>2. CASE stm' = stm
  BY <1>2 DEF Spares, Alike
<1>3. CASE stm' = [c \in 1..n |-> IF c <= Len(stm) THEN stm[c] ELSE NewRemote]
  <2>1. Len(stm) \in Nat /\ DOMAIN stm = 1 .. Len(stm)
    BY Known
  <2>2. n \in Nat
    <3>1. Head(toStm) \in ForStm /\ Head(toStm).k = "setSize"
      BY GotTyped DEF SetSize
    <3>2. n \in Sizes
      BY <1>1, <3>1 DEF ForStm
    <3> QED
      BY <3>2, SizesAre
  <2>3. NewRemote.loc = "remote" /\ NewRemote.data = Junk
    BY DEF NewRemote, Cell
  <2>4. ASSUME NEW c \in DOMAIN stm' PROVE Alike(c) \/ Dropped(c)
    <3>1. c \in 1 .. n /\ stm'[c] = IF c <= Len(stm) THEN stm[c] ELSE NewRemote
      BY <1>3, <2>4
    <3>2. CASE c <= Len(stm)
      BY <2>1, <2>2, <3>1, <3>2 DEF Alike
    <3>3. CASE ~(c <= Len(stm))
      BY <2>1, <2>3, <3>1, <3>3 DEF Dropped
    <3> QED
      BY <3>2, <3>3
  <2> QED
    BY <2>4 DEF Spares
<1> QED
  BY <1>1, <1>2, <1>3 DEF SetSize

LEMMA DropsOne ==
    ASSUME Typed, NEW c \in DOMAIN stm, stm' = [stm EXCEPT ![c].loc = "remote", ![c].data = Junk],
           \/ stm[c].loc = "ephemeral"
           \/ toStm # <<>> /\ Head(toStm).k = "ackData" /\ Head(toStm).cell = c
    PROVE  Spares
<1>1. stm[c] \in StmCell
  BY Known
<1>2. PICK x : x = [stm[c] EXCEPT !.loc = "remote", !.data = Junk]
  OBVIOUS
<1>3. x.loc = "remote" /\ x.data = Junk
  BY <1>1, <1>2 DEF StmCell, CellSet
<1>4. DOMAIN stm' = DOMAIN stm /\ stm'[c] = x /\ \A d \in DOMAIN stm : d # c => stm'[d] = stm[d]
  BY <1>2
<1> QED
  BY <1>3, <1>4 DEF Spares, Alike, Dropped

LEMMA RequestsSpare == ASSUME Typed, SendDataRequests PROVE Spares
<1>1. PICK b : b = (stmTemp \in {"warm", "hot"})
  OBVIOUS
<1>2. stm' = [c \in DOMAIN stm |->
                IF stm[c].loc = "remote" THEN [stm[c] EXCEPT !.dirty = b] ELSE stm[c]]
  BY <1>1 DEF SendDataRequests
<1>3. \A x \in StmCell : [x EXCEPT !.dirty = b].loc = x.loc /\ [x EXCEPT !.dirty = b].data = x.data
  BY DEF StmCell, CellSet
<1>4. \A c \in DOMAIN stm : stm'[c].loc = stm[c].loc /\ stm'[c].data = stm[c].data
  BY <1>2, <1>3, Known
<1>5. DOMAIN stm' = DOMAIN stm
  BY <1>2
<1> QED
  BY <1>4, <1>5 DEF Spares, Alike

LEMMA OthersSpare ==
    ASSUME Typed, Next, ~(Handle \/ StartFlush \/ Pressure),
           \A of \in {"store", "fulfill"} : ~FirstFrame(of) /\ ~LastFrame(of)
    PROVE  Spares /\ err' = err
<1>1. CASE SetSize
  BY <1>1, SetSizeSpares DEF SetSize
<1>2. CASE DataAcked
  <2>1. stm' = stm => Spares
    BY DEF Spares, Alike
  <2>2. PICK c : c = Head(toStm).cell
    OBVIOUS
  <2>3. toStm # <<>> /\ Head(toStm).k = "ackData" /\ err' = err
    BY <1>2 DEF DataAcked, Got
  <2>4. \/ stm' = stm
        \/ c \in DOMAIN stm /\ stm' = [stm EXCEPT ![c].loc = "remote", ![c].data = Junk]
    BY <1>2, <2>2 DEF DataAcked
  <2> QED
    BY <2>1, <2>2, <2>3, <2>4, DropsOne
<1>3. CASE \E c \in DOMAIN stm : Evict(c)
  <2>1. PICK c \in DOMAIN stm : Evict(c)
    BY <1>3
  <2>2. /\ stm[c].loc = "ephemeral" /\ stm' = [stm EXCEPT ![c].loc = "remote", ![c].data = Junk]
        /\ err' = err
    BY <2>1 DEF Evict
  <2> QED
    BY <2>2, DropsOne
<1>4. CASE SendDataRequests
  BY <1>4, RequestsSpare DEF SendDataRequests
<1>5. CASE stm' = stm /\ err' = err
  BY <1>5 DEF Spares, Alike
<1>6. \/ SetSize \/ DataAcked \/ (\E c \in DOMAIN stm : Evict(c)) \/ SendDataRequests
      \/ TempInformed \/ TempAcked \/ Retrieved \/ AskAgain \/ (\E t \in Asks : AskTemp(t))
      \/ App \/ Route \/ LoseToStm \/ LoseToEsp
  BY DEF Next, Receive, Poll, Screens
<1>7. TempInformed \/ TempAcked \/ Retrieved => stm' = stm /\ err' = err
  BY DEF TempInformed, TempAcked, Retrieved, stmVars
<1>8. AskAgain \/ (\E t \in Asks : AskTemp(t)) => stm' = stm /\ err' = err
  BY DEF AskAgain, AskTemp
<1>9. Route \/ LoseToStm \/ LoseToEsp => stm' = stm /\ err' = err
  BY DEF Route, LoseToStm, LoseToEsp, stmVars
<1>10. App => stm' = stm /\ err' = err
  BY DEF App, Write, Resize, Trigger, stmVars
<1> QED
  BY <1>1, <1>2, <1>3, <1>4, <1>5, <1>6, <1>7, <1>8, <1>9, <1>10

(* None of them touches what the manager knows.                               *)
LEMMA OthersLeave ==
    ASSUME Next, ~(Handle \/ StartFlush \/ Pressure)
    PROVE  UNCHANGED <<esp, pc, job, due, kept>> /\ Data' = Data /\ Place' = Place
<1>1. CASE Receive
  <2>1. UNCHANGED <<espVars, history>>
    BY <1>1 DEF Receive, FirstFrame, LastFrame, SetSize, TempInformed, TempAcked, Retrieved, DataAcked
  <2> QED
    BY <2>1 DEF espVars, history, Data, Place
<1>2. CASE Poll \/ Screens
  <2>1. UNCHANGED <<espVars, history>>
    BY <1>2 DEF Poll, Screens, SendDataRequests, AskAgain, Evict, AskTemp
  <2> QED
    BY <2>1 DEF espVars, history, Data, Place
<1>3. CASE App \/ Route \/ LoseToStm \/ LoseToEsp
  <2>1. UNCHANGED <<espVars, history>>
    BY <1>3 DEF App, Write, Resize, Trigger, Route, LoseToStm, LoseToEsp
  <2> QED
    BY <2>1 DEF espVars, history, Data, Place
<1> QED
  BY <1>1, <1>2, <1>3 DEF Next

LEMMA OthersShow ==
    ASSUME Typed, AtWork, Exchange, Carried, Next, ~(Handle \/ StartFlush \/ Pressure)
    PROVE  Shows
<1>1. Spares => Shows
  BY DEF Spares, Shows
<1> QED
  BY <1>1, OthersSpare, FirstFrameShows, LastFrameShows

-----------------------------------------------------------------------------
(* The halves: the steps of everyone but the manager                         *)

(* The losses no retry makes up for: with the first half of a cell missing,   *)
(* the second is taken all the same.                                          *)
FirstsArrive == Lossy \cap {"store1", "fulfill1", "data1"} = {}

Small(qs) == \A i \in DOMAIN qs : qs[i].k \in {"askTemp", "request", "ackSize"}
SaysSmall == \E qs \in Seq(ForEsp) : toEsp' = toEsp \o qs /\ Small(qs)
SaysAsking == \E qs \in Seq(ForEsp) :
                toEsp' = toEsp \o qs /\ \A i \in DOMAIN qs : qs[i].k \in {"askTemp", "request"}
Takes == toStm # <<>> /\ toStm' = Tail(toStm)
Passes == toEsp # <<>> /\ toEsp' = Tail(toEsp)

LEMMA SaysNone == ASSUME Typed, toEsp' = toEsp PROVE SaysSmall /\ SaysAsking
<1>1. <<>> \in Seq(ForEsp) /\ toEsp' = toEsp \o <<>> /\ DOMAIN <<>> = {}
  BY SaysNothing
<1>2. Small(<<>>)
  BY <1>1 DEF Small
<1> QED
  BY <1>1, <1>2 DEF SaysSmall, SaysAsking

LEMMA SaysOneSmall ==
    ASSUME NEW q \in ForEsp, q.k \in {"askTemp", "request", "ackSize"}, toEsp' = toEsp \o <<q>>
    PROVE  SaysSmall /\ (q.k # "ackSize" => SaysAsking)
<1>1. PICK qs : qs = <<q>>
  OBVIOUS
<1>2. qs \in Seq(ForEsp) /\ DOMAIN qs = {1} /\ qs[1] = q
  BY <1>1
<1>3. Small(qs)
  BY <1>2 DEF Small
<1> QED
  BY <1>1, <1>2, <1>3 DEF SaysSmall, SaysAsking

LEMMA RequestsSmall == ASSUME Typed, SendDataRequests PROVE SaysSmall /\ SaysAsking
<1>1. PICK S : S = {c \in DOMAIN stm : stm[c].loc = "remote" /\ stm[c].dirty}
  OBVIOUS
<1>2. PICK asked \in Ascending(S) :
        toEsp' = toEsp \o [i \in DOMAIN asked |-> [k |-> "request", cell |-> asked[i]]]
  BY <1>1 DEF SendDataRequests, SendEsp
<1>3. PICK qs : qs = [i \in DOMAIN asked |-> [k |-> "request", cell |-> asked[i]]]
  OBVIOUS
<1>4. IsFiniteSet(S) /\ S \subseteq Cells
  <2>1. DOMAIN stm = 1 .. Len(stm) /\ Len(stm) \in Nat /\ DOMAIN stm \subseteq Cells
    BY Known
  <2>2. IsFiniteSet(1 .. Len(stm))
    BY <2>1, FS_Interval
  <2> QED
    BY <1>1, <2>1, <2>2, FS_Subset
<1>5. asked \in [1 .. Cardinality(S) -> S] /\ Cardinality(S) \in Nat
  BY <1>2, <1>4, FS_CardinalityType DEF Ascending
<1>6. DOMAIN asked = 1 .. Cardinality(S) /\ \A i \in DOMAIN asked : asked[i] \in Cells
  BY <1>4, <1>5
<1>7. \A i \in DOMAIN asked : qs[i] \in ForEsp /\ qs[i].k = "request"
  BY <1>3, <1>6 DEF ForEsp, Asked
<1>8. qs \in [1 .. Cardinality(S) -> ForEsp]
  BY <1>3, <1>6, <1>7
<1>9. qs \in Seq(ForEsp) /\ DOMAIN qs = DOMAIN asked
  BY <1>3, <1>5, <1>8, SeqDef
<1>10. Small(qs)
  BY <1>7, <1>9 DEF Small
<1>11. SaysAsking
  BY <1>2, <1>3, <1>7, <1>9 DEF SaysAsking
<1> QED
  BY <1>2, <1>3, <1>9, <1>10, <1>11 DEF SaysSmall

LEMMA DisplaySays ==
    ASSUME Typed, SetSize \/ TempInformed \/ TempAcked \/ DataAcked
                  \/ \E of \in {"store", "fulfill"} : FirstFrame(of)
    PROVE  Takes /\ SaysSmall /\ faults' = faults
<1>1. CASE SetSize
  <2>1. Head(toStm) \in ForStm /\ Head(toStm).k = "setSize" /\ Takes
    BY <1>1, GotTyped DEF SetSize, Takes
  <2>2. PICK n : n = Head(toStm).n
    OBVIOUS
  <2>3. PICK q : q = [k |-> "ackSize", n |-> n]
    OBVIOUS
  <2>4. q \in ForEsp /\ q.k = "ackSize"
    BY <2>1, <2>2, <2>3 DEF ForStm, ForEsp
  <2>5. toEsp' = toEsp \/ toEsp' = toEsp \o <<q>>
    BY <1>1, <2>2, <2>3 DEF SetSize, SendEsp
  <2>6. faults' = faults
    BY <1>1 DEF SetSize
  <2> QED
    BY <2>1, <2>4, <2>5, <2>6, SaysNone, SaysOneSmall
<1>2. CASE TempInformed \/ TempAcked \/ DataAcked
  BY <1>2, SaysNone DEF TempInformed, TempAcked, DataAcked, Got, Takes
<1>3. CASE \E of \in {"store", "fulfill"} : FirstFrame(of)
  <2>1. PICK of \in {"store", "fulfill"} : FirstFrame(of)
    BY <1>3
  <2>2. Got(FrameKinds[of][1])
    BY <2>1 DEF FirstFrame
  <2>3. toEsp' = toEsp /\ faults' = faults
    BY <2>1 DEF FirstFrame
  <2> QED
    BY <2>2, <2>3, SaysNone DEF Got, Takes
<1> QED
  BY <1>1, <1>2, <1>3

LEMMA PollSays ==
    ASSUME Typed, AtWork, Poll \/ Screens \/ App
    PROVE  toStm' = toStm /\ SaysSmall /\ faults' = faults /\ SaysAsking
<1>1. CASE SendDataRequests
  BY <1>1, RequestsSmall DEF SendDataRequests
<1>2. CASE \E c \in DOMAIN stm : Evict(c)
  <2>1. PICK c \in DOMAIN stm : Evict(c)
    BY <1>2
  <2>2. PICK q : q = [k |-> "request", cell |-> c]
    OBVIOUS
  <2>3. q \in ForEsp /\ q.k = "request"
    BY <2>2, Known DEF ForEsp, Asked
  <2>4. toEsp' = toEsp \o <<q>> /\ toStm' = toStm /\ faults' = faults
    BY <2>1, <2>2 DEF Evict, SendEsp
  <2> QED
    BY <2>3, <2>4, SaysOneSmall
<1>3. ASSUME NEW t \in Temps, SendEsp(<<[k |-> "askTemp", temp |-> t]>>)
      PROVE  SaysSmall /\ SaysAsking
  <2>1. PICK q : q = [k |-> "askTemp", temp |-> t]
    OBVIOUS
  <2>2. q \in ForEsp /\ q.k = "askTemp" /\ toEsp' = toEsp \o <<q>>
    BY <1>3, <2>1 DEF ForEsp, Asked, SendEsp
  <2> QED
    BY <2>2, SaysOneSmall
<1>4. CASE \E t \in Asks : AskTemp(t)
  BY <1>3, <1>4, SlotSyncAssumption DEF AskTemp, Temps
<1>5. CASE AskAgain
  <2>1. request # "none" => request \in Temps
    BY DEF Typed, TypedStm
  <2>2. SendEsp(<<[k |-> "askTemp", temp |-> request]>>) \/ toEsp' = toEsp
    BY <1>5 DEF AskAgain
  <2>3. request \in Temps /\ toStm' = toStm /\ faults' = faults
    BY <1>5, <2>1 DEF AskAgain
  <2> QED
    BY <1>3, <2>2, <2>3, SaysNone
<1>6. CASE App
  BY <1>6, SaysNone DEF App, Write, Resize, Trigger
<1> QED
  BY <1>1, <1>2, <1>4, <1>5, <1>6 DEF Poll, Screens

(* The wire to the display gets shorter.                                      *)
LEMMA CarriedOn ==
    ASSUME Typed, Carried, Data' = Data, toStm' = toStm \/ Takes
    PROVE  /\ Carried'
           /\ Takes => /\ toStm' # <<>> /\ Head(toStm').k \in Seconds => Head(toStm).k \in Firsts
                       /\ Head(toStm).k \in Firsts => toStm' # <<>> /\ Head(toStm').k \in Seconds
                       /\ Head(toStm) = toStm[1] /\ 1 \in DOMAIN toStm
                       /\ toStm' # <<>> => 1 \in DOMAIN toStm' /\ Head(toStm') = toStm'[1]
                       /\ \A n \in DOMAIN toStm : n = 1 \/ \E i \in DOMAIN toStm' : toStm'[i] = toStm[n]
<1>1. CASE toStm' = toStm /\ ~Takes
  BY <1>1 DEF Carried
<1>2. CASE Takes
  <2>1. PICK t : t = Tail(toStm)
    OBVIOUS
  <2>2. toStm \in Seq(ForStm) /\ toStm # <<>> /\ toStm' = t
    BY <1>2, <2>1 DEF Takes, Typed, TypedWire
  <2>3. /\ t \in Seq(ForStm) /\ Len(t) \in Nat /\ Len(toStm) = Len(t) + 1
        /\ Head(toStm) = toStm[1] /\ 1 \in DOMAIN toStm
        /\ \A i \in DOMAIN t : i \in Nat /\ i + 1 \in DOMAIN toStm /\ t[i] = toStm[i + 1]
    BY <2>1, <2>2, TailOf
  <2>4. \A i \in DOMAIN t : \E n \in DOMAIN toStm : n = i + 1 /\ t[i] = toStm[n]
    BY <2>3
  <2>5. DOMAIN t = 1 .. Len(t) /\ DOMAIN toStm = 1 .. Len(t) + 1
    BY <2>2, <2>3, LenProperties
  <2>6. \A n \in DOMAIN toStm : n = 1 \/ \E i \in DOMAIN t : n = i + 1 /\ t[i] = toStm[n]
    <3>1. ASSUME NEW n \in DOMAIN toStm, n # 1 PROVE \E i \in DOMAIN t : n = i + 1 /\ t[i] = toStm[n]
      <4>1. PICK i \in Int : i = n - 1
        BY <2>5
      <4>2. i \in DOMAIN t /\ n = i + 1
        BY <2>3, <2>5, <3>1, <4>1
      <4> QED
        BY <2>3, <4>2
    <3> QED
      BY <3>1
  <2>7. t # <<>> => 1 \in DOMAIN t /\ Head(t) = t[1] /\ \E n \in DOMAIN toStm : n = 1 + 1 /\ t[1] = toStm[n]
    <3>1. ASSUME t # <<>> PROVE 1 \in DOMAIN t /\ Head(t) = t[1]
      BY <2>3, <3>1, HeadTailProperties, EmptySeq, LenProperties
    <3> QED
      BY <2>4, <3>1
  <2>8. Carried'
    <3>1. \A i \in DOMAIN t :
            /\ t[i].k \in Firsts => t[i].val = Data[1]
            /\ t[i].k \in Seconds => t[i].val = Data[2]
      BY <2>4 DEF Carried
    <3>2. \A i, j \in DOMAIN t : i = j + 1 /\ t[i].k \in Seconds => t[j].k \in Firsts
      BY <2>4 DEF Carried
    <3>3. ASSUME NEW j \in DOMAIN t, t[j].k \in Firsts
          PROVE  \E i \in DOMAIN t : i = j + 1 /\ t[i].k \in Seconds
      <4>1. PICK n \in DOMAIN toStm : n = j + 1 /\ t[j] = toStm[n]
        BY <2>4
      <4>2. PICK m \in DOMAIN toStm : m = n + 1 /\ toStm[m].k \in Seconds
        BY <3>3, <4>1 DEF Carried
      <4>3. m # 1 /\ j \in Nat
        BY <2>3, <4>1, <4>2
      <4>4. PICK i \in DOMAIN t : m = i + 1 /\ t[i] = toStm[m]
        BY <2>6, <4>3
      <4>5. i = j + 1
        BY <2>3, <4>1, <4>2, <4>3, <4>4
      <4> QED
        BY <4>2, <4>4, <4>5
    <3> QED
      BY <2>2, <3>1, <3>2, <3>3 DEF Carried
  <2>9. t # <<>> /\ Head(t).k \in Seconds => Head(toStm).k \in Firsts
    BY <2>3, <2>7 DEF Carried
  <2>10. toStm[1].k \in Firsts => t # <<>> /\ Head(t).k \in Seconds
    <3>1. ASSUME toStm[1].k \in Firsts PROVE t # <<>> /\ Head(t).k \in Seconds
      <4>1. PICK i \in DOMAIN toStm : i = 1 + 1 /\ toStm[i].k \in Seconds
        BY <2>3, <3>1 DEF Carried
      <4>2. PICK m \in DOMAIN t : i = m + 1 /\ t[m] = toStm[i]
        BY <2>6, <4>1
      <4>3. m = 1 /\ t # <<>>
        BY <2>3, <2>5, <4>1, <4>2, EmptySeq
      <4> QED
        BY <2>7, <4>1, <4>2, <4>3
    <3> QED
      BY <3>1
  <2> QED
    BY <2>2, <2>3, <2>6, <2>7, <2>8, <2>9, <2>10
<1> QED
  BY <1>1, <1>2

Others == Next /\ ~(Handle \/ StartFlush \/ Pressure)
Feeds == \E of \in {"store", "fulfill"} : FirstFrame(of)
Completes == \E of \in {"store", "fulfill"} : LastFrame(of)
Notes == SetSize \/ TempInformed \/ TempAcked \/ DataAcked

LEMMA OthersAre ==
    ASSUME Others
    PROVE  \/ Feeds \/ Completes \/ Notes \/ Retrieved
           \/ Poll \/ Screens \/ App \/ Route \/ LoseToEsp \/ LoseToStm
  BY DEF Others, Next, Receive, Feeds, Completes, Notes

LEMMA OthersDoNotFeed ==
    ASSUME Typed, Others, ~Feeds, ~Completes
    PROVE  Spares /\ err' = err
  BY OthersSpare DEF Others, Feeds, Completes

(* What is in its place after such a step was there before.                   *)
LEMMA StillThere ==
    ASSUME Spares, NEW c, c \in DOMAIN stm', stm'[c].loc = Place
    PROVE  c \in DOMAIN stm /\ stm[c].loc = Place /\ stm'[c].data = stm[c].data
  BY DEF Spares, Alike, Dropped, Place

LEMMA BegunIs ==
    ASSUME UNCHANGED <<pc, job>>, Data' = Data, Place' = Place
    PROVE  Begun' <=> (toStm' # <<>> /\ Head(toStm').k \in Seconds =>
             /\ err' = "ok" /\ job.cell \in DOMAIN stm' /\ stm'[job.cell].loc = Place
                  => stm'[job.cell].data[1] = Data[1]
             /\ pc = "patch" => err' = "ok")
  BY DEF Begun, InPlace

LEMMA BegunStays ==
    ASSUME Begun, Spares, err' = err, toStm' = toStm,
           UNCHANGED <<pc, job>>, Data' = Data, Place' = Place
    PROVE  Begun'
<1>1. job.cell \in DOMAIN stm' /\ stm'[job.cell].loc = Place
        => InPlace /\ stm'[job.cell].data = stm[job.cell].data
  BY StillThere DEF InPlace
<1> QED
  BY <1>1, BegunIs DEF Begun

(* The patched cell is on the display.                                        *)
LEMMA PatchedIsHeld ==
    ASSUME Typed, AtWork, Exchange, Counted, pc = "patch"
    PROVE  Holds(job.cell) /\ InPlace
<1>1. job.cell \in DOMAIN esp /\ esp[job.cell].loc = "remote"
  BY DEF AtWork, Storing, Counted
<1>2. Holds(job.cell)
  BY <1>1 DEF Exchange, Held
<1> QED
  BY <1>2 DEF Holds, InPlace, Place

LEMMA OthersCarry ==
    ASSUME Typed, AtWork, Exchange, Carried, Begun, Counted, FirstsArrive, Others
    PROVE  Carried' /\ Begun' /\ (toStm' = toStm \/ Takes)
<1>1. UNCHANGED <<pc, job>> /\ Data' = Data /\ Place' = Place
  BY OthersLeave DEF Others
<1>2. ASSUME Takes, Head(toStm).k \notin Firsts PROVE Carried' /\ Begun'
  BY <1>1, <1>2, CarriedOn DEF Begun
<1>3. CASE Feeds
  <2>1. PICK of \in {"store", "fulfill"} : FirstFrame(of)
    BY <1>3 DEF Feeds
  <2>2. Takes
    BY <2>1 DEF FirstFrame, Got, Takes
  <2>3. \/ err' # "ok" /\ ~Holds(job.cell)
        \/ /\ err' = "ok"
           /\ stm'[job.cell].loc = Place /\ stm'[job.cell].data[1] = Data[1]
    BY <2>1, FirstFrameShows
  <2>4. Begun'
    BY <1>1, <2>3, BegunIs, PatchedIsHeld
  <2> QED
    BY <1>1, <2>2, <2>4, CarriedOn
<1>4. CASE Completes
  <2>1. PICK of \in {"store", "fulfill"} : LastFrame(of)
    BY <1>4 DEF Completes
  <2>2. Takes /\ Head(toStm).k \in Seconds
    <3>1. Got(FrameKinds[of][2])
      BY <2>1 DEF LastFrame
    <3> QED
      BY <3>1, FrameIs DEF Takes
  <2> QED
    BY <1>2, <2>2 DEF Firsts, Seconds
<1>5. CASE Notes \/ Retrieved
  <2>1. Takes /\ Head(toStm).k \notin Firsts
    BY <1>5 DEF Notes, SetSize, TempInformed, TempAcked, DataAcked, Retrieved, Got, Takes, Firsts
  <2> QED
    BY <1>2, <2>1
<1>6. CASE LoseToStm
  <2>1. Takes /\ Head(toStm).k \notin Firsts
    BY <1>6 DEF LoseToStm, Takes, Firsts, FirstsArrive
  <2> QED
    BY <1>2, <2>1
<1>7. CASE Poll \/ Screens \/ App \/ Route \/ LoseToEsp
  <2>1. toStm' = toStm
    BY <1>7, PollSays DEF Route, LoseToEsp
  <2>2. CASE ~Feeds /\ ~Completes
    <3>1. Begun'
      BY <1>1, <2>1, <2>2, OthersDoNotFeed, BegunStays
    <3> QED
      BY <1>1, <2>1, <3>1, CarriedOn
  <2> QED
    BY <1>3, <1>4, <2>1, <2>2
<1> QED
  BY <1>2, <1>3, <1>4, <1>5, <1>6, <1>7, OthersAre

(* Answers.                                                                   *)
LEMMA AckedIs ==
    ASSUME UNCHANGED <<pc, job>>, Data' = Data, Place' = Place
    PROVE  Acked' <=> \A i \in DOMAIN toEsp' : toEsp'[i].k \in Stores =>
             /\ toEsp'[i].code = "ok" /\ job.cell \in DOMAIN stm' /\ stm'[job.cell].loc = Place
                  => stm'[job.cell].data = Data
             /\ pc = "patch" => toEsp'[i].code = "ok"
  BY DEF Acked, InPlace

LEMMA NoAnswers ==
    ASSUME Exchange, toStm # <<>>
    PROVE  \A i \in DOMAIN toEsp : toEsp[i].k \notin Acks
  BY DEF Exchange, OneExchange

LEMMA OldAnswers ==
    ASSUME Typed, SaysSmall \/ Passes \/ toEsp' = toEsp,
           NEW i \in DOMAIN toEsp', toEsp'[i].k \notin {"askTemp", "request", "ackSize"}
    PROVE  \E n \in DOMAIN toEsp : toEsp'[i] = toEsp[n]
<1>1. toEsp \in Seq(ForEsp)
  BY DEF Typed, TypedWire
<1>2. CASE SaysSmall
  <2>1. PICK qs \in Seq(ForEsp) : toEsp' = toEsp \o qs /\ Small(qs)
    BY <1>2 DEF SaysSmall
  <2>2. \/ i \in DOMAIN toEsp /\ toEsp'[i] = toEsp[i]
        \/ \E j \in DOMAIN qs : toEsp'[i] = qs[j]
    BY <1>1, <2>1, Joined
  <2> QED
    BY <2>1, <2>2 DEF Small
<1>3. CASE Passes
  <2>1. PICK t : t = Tail(toEsp)
    OBVIOUS
  <2>2. toEsp' = t /\ \A m \in DOMAIN t : m + 1 \in DOMAIN toEsp /\ t[m] = toEsp[m + 1]
    BY <1>1, <1>3, <2>1, TailOf DEF Passes
  <2> QED
    BY <2>2
<1> QED
  BY <1>2, <1>3

LEMMA OthersAcked ==
    ASSUME Typed, AtWork, Exchange, Carried, Begun, Acked, Counted, Typed', Others
    PROVE  Acked'
<1>1. UNCHANGED <<pc, job>> /\ Data' = Data /\ Place' = Place
  BY OthersLeave DEF Others
<1>2. Stores \subseteq Acks /\ Stores \cap {"askTemp", "request", "ackSize"} = {}
  BY DEF Stores, Acks
<1>3. ASSUME toStm # <<>>, SaysSmall \/ toEsp' = toEsp PROVE Acked'
  <2>1. \A i \in DOMAIN toEsp' : toEsp'[i].k \notin Stores
    BY <1>2, <1>3, NoAnswers, OldAnswers
  <2> QED
    BY <2>1 DEF Acked
<1>4. ASSUME ~Feeds, ~Completes, SaysSmall \/ Passes PROVE Acked'
  <2>1. job.cell \in DOMAIN stm' /\ stm'[job.cell].loc = Place
          => InPlace /\ stm'[job.cell].data = stm[job.cell].data
    BY <1>4, OthersDoNotFeed, StillThere DEF InPlace
  <2>2. ASSUME NEW i \in DOMAIN toEsp', toEsp'[i].k \in Stores
        PROVE  /\ toEsp'[i].code = "ok" /\ job.cell \in DOMAIN stm' /\ stm'[job.cell].loc = Place
                    => stm'[job.cell].data = Data
               /\ pc = "patch" => toEsp'[i].code = "ok"
    <3>1. PICK n \in DOMAIN toEsp : toEsp'[i] = toEsp[n]
      BY <1>2, <1>4, <2>2, OldAnswers
    <3> QED
      BY <2>1, <2>2, <3>1 DEF Acked
  <2> QED
    BY <1>1, <2>2, AckedIs
<1>5. CASE Feeds \/ Notes
  <2>1. Takes /\ SaysSmall
    BY <1>5, DisplaySays DEF Feeds, Notes
  <2> QED
    BY <1>3, <2>1 DEF Takes
<1>6. CASE Completes
  <2>1. PICK of \in {"store", "fulfill"} : LastFrame(of)
    BY <1>6 DEF Completes
  <2>2. PICK q : q = [k |-> IF of = "store" THEN "ackStore" ELSE "ackFulfill",
                      cell |-> Head(toStm).cell, code |-> err']
    OBVIOUS
  <2>3. q.code = err' /\ toEsp' = toEsp \o <<q>> /\ Typed'
    BY <2>1, <2>2 DEF LastFrame, SendEsp
  <2>4. toStm # <<>> /\ Head(toStm).k \in Seconds /\ pc \in Storing
    <3>1. Got(FrameKinds[of][2])
      BY <2>1 DEF LastFrame
    <3> QED
      BY <3>1, FrameIs
  <2>5. \/ /\ err = "ok" /\ InPlace /\ err' = "ok" /\ DOMAIN stm' = DOMAIN stm
           /\ stm'[job.cell].data[1] = stm[job.cell].data[1] /\ stm'[job.cell].data[2] = Data[2]
        \/ err' # "ok" /\ ~(err = "ok" /\ InPlace)
    BY <2>1, LastFrameShows
  <2>6. err' = "ok" => stm'[job.cell].data = Data
    <3>1. ASSUME err' = "ok" PROVE stm'[job.cell].data = Data
      <4>1. stm'[job.cell].data[1] = Data[1] /\ stm'[job.cell].data[2] = Data[2] /\ job.cell \in DOMAIN stm'
        BY <2>4, <2>5, <3>1 DEF Begun, InPlace
      <4>2. stm' \in Seq(StmCell)
        BY DEF Typed, TypedStm
      <4>3. stm'[job.cell].data \in Half \X Half
        <5>1. stm'[job.cell] \in StmCell
          BY <4>1, <4>2, LenProperties, ElementOfSeq
        <5> QED
          BY <5>1 DEF StmCell, CellSet
      <4>4. Data \in Half \X Half
        BY <2>4, DataTyped
      <4> QED
        BY <4>1, <4>3, <4>4
    <3> QED
      BY <3>1
  <2>7. pc = "patch" => err' = "ok"
    BY <2>4, <2>5, PatchedIsHeld DEF Begun
  <2>8. ASSUME NEW i \in DOMAIN toEsp', toEsp'[i].k \in Stores PROVE toEsp'[i] = q
    <3>1. PICK qs : qs = <<q>>
      OBVIOUS
    <3>2. qs \in Seq(ForEsp) /\ DOMAIN qs = {1} /\ qs[1] = q
      <4>1. Head(toStm) \in ForStm /\ err' \in Codes /\ Head(toStm).cell \in Cells
        <5>1. Head(toStm) \in ForStm
          BY <2>4, TailOf DEF Typed, TypedWire
        <5>2. err' \in Codes
          BY DEF Typed, TypedStm
        <5> QED
          BY <2>4, <5>1, <5>2 DEF ForStm, Seconds
      <4>2. q \in ForEsp
        BY <2>2, <4>1 DEF ForEsp
      <4> QED
        BY <3>1, <4>2
    <3>3. \/ i \in DOMAIN toEsp /\ toEsp'[i] = toEsp[i]
          \/ \E j \in DOMAIN qs : toEsp'[i] = qs[j]
      BY <2>3, <3>1, <3>2, Joined DEF Typed, TypedWire
    <3> QED
      BY <1>2, <2>4, <2>8, <3>2, <3>3, NoAnswers
  <2> QED
    BY <1>1, <2>3, <2>6, <2>7, <2>8, AckedIs
<1>7. CASE Retrieved
  <2>1. toStm # <<>> /\ Head(toStm) \in ForStm /\ Head(toStm).k = "retrieve"
    BY <1>7, GotTyped DEF Retrieved
  <2>2. PICK c \in Cells : c = Head(toStm).cell
    BY <2>1 DEF ForStm
  <2>3. CASE toEsp' = toEsp
    BY <1>3, <2>1, <2>3
  <2>4. CASE /\ c \in DOMAIN stm
             /\ SendEsp(<<[k |-> "ackRetrieve", cell |-> c],
                          [k |-> "data1", cell |-> c, val |-> stm[c].data[1]],
                          [k |-> "data2", cell |-> c, val |-> stm[c].data[2]]>>)
    <3>1. stm[c] \in StmCell
      BY <2>4, Known
    <3>2. PICK v \in Half, w \in Half : v = stm[c].data[1] /\ w = stm[c].data[2]
      BY <3>1 DEF StmCell, CellSet
    <3>3. PICK a, b, d : /\ a = [k |-> "ackRetrieve", cell |-> c]
                         /\ b = [k |-> "data1", cell |-> c, val |-> v]
                         /\ d = [k |-> "data2", cell |-> c, val |-> w]
      OBVIOUS
    <3>4. PICK qs : qs = <<a, b, d>>
      OBVIOUS
    <3>5. a \in ForEsp /\ b \in ForEsp /\ d \in ForEsp
          /\ a.k \notin Stores /\ b.k \notin Stores /\ d.k \notin Stores
      BY <3>3 DEF ForEsp, Stores
    <3>6. qs \in Seq(ForEsp) /\ \A j \in DOMAIN qs : qs[j].k \notin Stores
      BY <3>4, <3>5, Three
    <3>7. toEsp' = toEsp \o qs
      BY <2>4, <3>2, <3>3, <3>4 DEF SendEsp
    <3>8. \A i \in DOMAIN toEsp' : toEsp'[i].k \notin Stores
      <4>1. toEsp \in Seq(ForEsp)
        BY DEF Typed, TypedWire
      <4> QED
        BY <1>2, <2>1, <3>6, <3>7, <4>1, Joined, NoAnswers
    <3> QED
      BY <3>8 DEF Acked
  <2> QED
    BY <1>7, <2>2, <2>3, <2>4 DEF Retrieved
<1>8. CASE LoseToStm
  BY <1>3, <1>8 DEF LoseToStm
<1>9. CASE Poll \/ Screens \/ App \/ Route \/ LoseToEsp
  <2>1. SaysSmall \/ Passes
    BY <1>9, PollSays DEF Route, LoseToEsp, Passes
  <2> QED
    BY <1>4, <1>5, <1>6, <2>1
<1> QED
  BY <1>5, <1>6, <1>7, <1>8, <1>9, OthersAre

(* What is on its way back.                                                   *)
LEMMA PairedOn ==
    ASSUME Typed, Paired, NEW qs \in Seq(ForEsp), toEsp' = toEsp \o qs,
           \A m \in DOMAIN qs :
             /\ qs[m].k = "data1" => \E l \in DOMAIN qs : m = l + 1 /\ qs[l].k = "ackRetrieve"
             /\ qs[m].k = "data2" => \E l \in DOMAIN qs : m = l + 1 /\ qs[l].k = "data1"
    PROVE  Paired'
<1>1. PICK n \in Nat : n = Len(toEsp) /\ DOMAIN toEsp = 1 .. n
  BY LenProperties DEF Typed, TypedWire
<1>2. PICK m \in Nat : m = Len(qs) /\ DOMAIN qs = 1 .. m
  BY LenProperties
<1>3. toEsp \in Seq(ForEsp)
  BY DEF Typed, TypedWire
<1>4. \A i \in DOMAIN toEsp' :
        \/ i \in DOMAIN toEsp /\ toEsp'[i] = toEsp[i]
        \/ \E l \in DOMAIN qs : i = n + l /\ toEsp'[i] = qs[l]
  <2>1. PICK t : t = toEsp \o qs
    OBVIOUS
  <2>2. \A i \in DOMAIN (toEsp \o qs) :
          \/ i \in DOMAIN toEsp /\ (toEsp \o qs)[i] = toEsp[i]
          \/ \E l \in DOMAIN qs : i = Len(toEsp) + l /\ (toEsp \o qs)[i] = qs[l]
    BY <1>3, Joined
  <2>3. \A i \in DOMAIN t :
          \/ i \in DOMAIN toEsp /\ t[i] = toEsp[i]
          \/ \E l \in DOMAIN qs : i = n + l /\ t[i] = qs[l]
    BY <1>1, <2>1, <2>2, Zenon
  <2> QED
    BY <2>1, <2>3
<1>5. DOMAIN toEsp' = 1 .. n + m
  <2>1. Len(toEsp') = n + m /\ toEsp' \in Seq(ForEsp)
    BY <1>1, <1>2, <1>3, Joined
  <2> QED
    BY <2>1, LenProperties
<1>6. ASSUME NEW i \in DOMAIN toEsp', NEW j \in DOMAIN toEsp', i = j + 1
      PROVE  /\ toEsp'[i].k = "data1" => toEsp'[j].k = "ackRetrieve"
             /\ toEsp'[i].k = "data2" => toEsp'[j].k = "data1"
  <2>1. CASE i \in DOMAIN toEsp /\ toEsp'[i] = toEsp[i]
    <3>1. i \in 1 .. n /\ j \in 1 .. n
      <4>1. i \in 1 .. n /\ j \in 1 .. n + m
        BY <1>1, <1>5, <2>1
      <4> QED
        BY <1>6, <4>1
    <3>2. toEsp'[j] = toEsp[j]
      <4>1. \A l \in DOMAIN qs : j # n + l
        BY <1>2, <3>1
      <4> QED
        BY <1>4, <4>1
    <3> QED
      BY <1>1, <1>6, <2>1, <3>1, <3>2 DEF Paired
  <2>2. CASE \E l \in DOMAIN qs : i = n + l /\ toEsp'[i] = qs[l]
    <3>1. PICK l \in DOMAIN qs : i = n + l /\ toEsp'[i] = qs[l]
      BY <2>2
    <3>2. ASSUME NEW d \in DOMAIN qs, l = d + 1 PROVE toEsp'[j] = qs[d]
      <4>1. d \in 1 .. m /\ j = n + d
        <5>1. d \in 1 .. m /\ j \in Int
          BY <1>2, <1>5
        <5>2. d \in Int /\ n \in Int
          BY <1>1, <5>1
        <5>3. j + 1 = n + (d + 1)
          BY <1>6, <3>1, <3>2
        <5>4. \A x, y, z \in Int : x + 1 = y + (z + 1) => x = y + z
          OBVIOUS
        <5> QED
          BY <5>1, <5>2, <5>3, <5>4
      <4>2. j \notin DOMAIN toEsp
        BY <1>1, <4>1
      <4>3. PICK e \in DOMAIN qs : j = n + e /\ toEsp'[j] = qs[e]
        BY <1>4, <4>2
      <4>4. e = d
        BY <1>2, <4>1, <4>3
      <4> QED
        BY <4>3, <4>4
    <3>3. ASSUME toEsp'[i].k = "data1" PROVE toEsp'[j].k = "ackRetrieve"
      <4>1. PICK d \in DOMAIN qs : l = d + 1 /\ qs[d].k = "ackRetrieve"
        BY <3>1, <3>3
      <4> QED
        BY <3>2, <4>1
    <3>4. ASSUME toEsp'[i].k = "data2" PROVE toEsp'[j].k = "data1"
      <4>1. PICK d \in DOMAIN qs : l = d + 1 /\ qs[d].k = "data1"
        BY <3>1, <3>4
      <4> QED
        BY <3>2, <4>1
    <3> QED
      BY <3>3, <3>4
  <2> QED
    BY <1>4, <1>6, <2>1, <2>2
<1> QED
  BY <1>6 DEF Paired

LEMMA PairedStays ==
    ASSUME Typed, Paired, SaysSmall \/ Passes
    PROVE  Paired'
<1>1. CASE SaysSmall
  <2>1. PICK qs \in Seq(ForEsp) : toEsp' = toEsp \o qs /\ Small(qs)
    BY <1>1 DEF SaysSmall
  <2>2. \A m \in DOMAIN qs : qs[m].k # "data1" /\ qs[m].k # "data2"
    BY <2>1 DEF Small
  <2> QED
    BY <2>1, <2>2, PairedOn
<1>2. CASE Passes
  <2>1. PICK t : t = Tail(toEsp)
    OBVIOUS
  <2>2. toEsp' = t /\ \A m \in DOMAIN t : m \in Nat /\ m + 1 \in DOMAIN toEsp /\ t[m] = toEsp[m + 1]
    BY <1>2, <2>1, TailOf DEF Passes, Typed, TypedWire
  <2>3. ASSUME NEW i \in DOMAIN t, NEW j \in DOMAIN t, i = j + 1
        PROVE  /\ t[i].k = "data1" => t[j].k = "ackRetrieve"
               /\ t[i].k = "data2" => t[j].k = "data1"
    <3>1. PICK a \in DOMAIN toEsp : a = i + 1 /\ t[i] = toEsp[a]
      BY <2>2
    <3>2. PICK b \in DOMAIN toEsp : b = j + 1 /\ t[j] = toEsp[b]
      BY <2>2
    <3>3. a = b + 1
      BY <2>3, <3>1, <3>2
    <3> QED
      BY <3>1, <3>2, <3>3 DEF Paired
  <2> QED
    BY <2>2, <2>3 DEF Paired
<1> QED
  BY <1>1, <1>2

LEMMA FetchedIs ==
    ASSUME UNCHANGED <<esp, pc, job>>
    PROVE  Fetched' <=>
      /\ \A i \in DOMAIN toEsp' :
           pc = "frames" \/ (pc = "retrieve" /\ \E j \in DOMAIN toEsp' : j < i /\ toEsp'[j].k = "ackRetrieve") =>
             /\ toEsp'[i].k \in {"data1", "data2"} => toEsp'[i].cell = job.cell
             /\ toEsp'[i].k = "data1" => toEsp'[i].val = stm'[job.cell].data[1]
             /\ toEsp'[i].k = "data2" => toEsp'[i].val = stm'[job.cell].data[2]
      /\ pc = "frames" /\ toEsp' # <<>> /\ Head(toEsp').k = "data2" =>
           esp[job.cell].data[1] = stm'[job.cell].data[1]
  BY DEF Fetched, Current

(* Nothing comes back while the display still has something to do.            *)
LEMMA NothingFetched ==
    ASSUME UNCHANGED <<esp, pc, job>>, pc # "frames",
           \A i \in DOMAIN toEsp' : toEsp'[i].k # "ackRetrieve"
    PROVE  Fetched'
  BY FetchedIs

LEMMA NotDropped ==
    ASSUME Spares, NEW c, Holds(c)'
    PROVE  c \in DOMAIN stm /\ stm'[c].data = stm[c].data /\ stm[c].loc = "canonical"
  BY DEF Spares, Holds, Alike, Dropped

LEMMA FetchedStays ==
    ASSUME Typed, Exchange, Exchange', Paired, Fetched, FirstsArrive, Spares,
           UNCHANGED <<esp, pc, job>>, toStm = <<>>,
           SaysSmall \/ (Passes /\ (~Wanted(Head(toEsp)) \/ Head(toEsp).k \in Lossy))
    PROVE  Fetched'
<1>1. ASSUME NEW i \in DOMAIN toEsp', toEsp'[i].k \in {"data1", "data2", "ackRetrieve"}
      PROVE  \E n \in DOMAIN toEsp : /\ toEsp'[i] = toEsp[n]
                                     /\ SaysSmall => n = i
                                     /\ ~SaysSmall => n = i + 1
  <2>1. CASE SaysSmall
    <3>1. PICK qs \in Seq(ForEsp) : toEsp' = toEsp \o qs /\ Small(qs)
      BY <2>1 DEF SaysSmall
    <3>2. \/ i \in DOMAIN toEsp /\ toEsp'[i] = toEsp[i]
          \/ \E j \in DOMAIN qs : toEsp'[i] = qs[j]
      BY <3>1, Joined DEF Typed, TypedWire
    <3> QED
      BY <1>1, <2>1, <3>1, <3>2 DEF Small
  <2>2. CASE ~SaysSmall
    <3>1. PICK t : t = Tail(toEsp)
      OBVIOUS
    <3>2. toEsp' = t /\ \A m \in DOMAIN t : m + 1 \in DOMAIN toEsp /\ t[m] = toEsp[m + 1]
      BY <2>2, <3>1, TailOf DEF Passes, Typed, TypedWire
    <3> QED
      BY <2>2, <3>2
  <2> QED
    BY <2>1, <2>2
<1>2. ASSUME NEW i \in DOMAIN toEsp', toEsp'[i].k \in {"data1", "data2"},
             pc = "frames" \/ (pc = "retrieve" /\ \E j \in DOMAIN toEsp' : j < i /\ toEsp'[j].k = "ackRetrieve")
      PROVE  \E n \in DOMAIN toEsp : toEsp'[i] = toEsp[n] /\ Current(n)
  <2>1. PICK n \in DOMAIN toEsp : toEsp'[i] = toEsp[n] /\ (SaysSmall => n = i) /\ (~SaysSmall => n = i + 1)
    BY <1>1, <1>2
  <2>2. CASE pc = "frames"
    BY <2>1, <2>2 DEF Current
  <2>3. CASE pc = "retrieve" /\ \E j \in DOMAIN toEsp' : j < i /\ toEsp'[j].k = "ackRetrieve"
    <3>1. PICK j \in DOMAIN toEsp' : j < i /\ toEsp'[j].k = "ackRetrieve"
      BY <2>3
    <3>2. PICK m \in DOMAIN toEsp : /\ toEsp'[j] = toEsp[m]
                                    /\ SaysSmall => m = j
                                    /\ ~SaysSmall => m = j + 1
      BY <1>1, <3>1
    <3>3. i \in Int /\ j \in Int
      BY LenProperties, <1>2 DEF Exchange, Typed, TypedWire, SaysSmall, Passes
    <3>4. m < n
      BY <2>1, <3>1, <3>2, <3>3
    <3> QED
      BY <2>1, <2>3, <3>1, <3>2, <3>4 DEF Current
  <2> QED
    BY <1>2, <2>2, <2>3
<1>3. ASSUME pc = "frames" \/ (pc = "retrieve" /\ \E j \in DOMAIN toEsp' : toEsp'[j].k = "ackRetrieve")
      PROVE  stm'[job.cell].data = stm[job.cell].data
  <2>1. Holds(job.cell)'
    <3>1. CASE pc = "frames"
      BY <3>1 DEF Exchange, Held
    <3>2. CASE pc = "retrieve" /\ \E j \in DOMAIN toEsp' : toEsp'[j].k = "ackRetrieve"
      <4>1. PICK j \in DOMAIN toEsp' : toEsp'[j].k = "ackRetrieve"
        BY <3>2
      <4>2. toEsp'[j].cell = job.cell
        BY <3>2, <4>1 DEF Exchange, OneExchange, Wanted, Acks, Storing
      <4>3. toEsp'[j].cell \in DOMAIN stm' /\ stm'[toEsp'[j].cell].loc = "canonical"
        BY <4>1 DEF Exchange, Held, Holds
      <4> QED
        BY <4>2, <4>3 DEF Holds
    <3> QED
      BY <1>3, <3>1, <3>2
  <2> QED
    BY <2>1, NotDropped
<1>4. ASSUME pc = "frames", toEsp' # <<>>, Head(toEsp').k = "data2"
      PROVE  esp[job.cell].data[1] = stm[job.cell].data[1]
  <2>1. PICK p : p = Head(toEsp')
    OBVIOUS
  <2>2. toEsp' \in Seq(ForEsp)
    <3>1. CASE SaysSmall
      BY <3>1, Joined DEF SaysSmall, Typed, TypedWire
    <3>2. CASE Passes
      BY <3>2, TailOf DEF Passes, Typed, TypedWire
    <3> QED
      BY <3>1, <3>2
  <2>3. 1 \in DOMAIN toEsp' /\ p = toEsp'[1]
    BY <1>4, <2>1, <2>2, TailOf
  <2>4. PICK n \in DOMAIN toEsp : p = toEsp[n] /\ (SaysSmall => n = 1) /\ (~SaysSmall => n = 1 + 1)
    BY <1>1, <1>4, <2>1, <2>3
  <2>5. toEsp # <<>> /\ Head(toEsp) = toEsp[1] /\ 1 \in DOMAIN toEsp
    BY <2>4, TailOf DEF Typed, TypedWire
  <2>6. SaysSmall
    <3> SUFFICES ASSUME ~SaysSmall PROVE FALSE
      OBVIOUS
    <3>1. toEsp[1].k = "data1"
      BY <1>4, <2>1, <2>4, <2>5 DEF Paired
    <3>2. Wanted(toEsp[1]) /\ toEsp[1].k \notin Lossy
      BY <1>4, <3>1 DEF Wanted, Storing, FirstsArrive
    <3> QED
      BY <2>5, <3>2
  <2> QED
    BY <1>4, <2>1, <2>4, <2>5, <2>6 DEF Fetched
<1> QED
  BY <1>2, <1>3, <1>4, FetchedIs DEF Fetched

(* The display answers a retrieve, or is in no state to.                      *)
LEMMA RetrievedFetched ==
    ASSUME Typed, Exchange, Paired, Retrieved, UNCHANGED <<esp, pc, job>>
    PROVE  Paired' /\ Fetched'
<1>1. toStm # <<>> /\ Head(toStm) \in ForStm /\ Head(toStm).k = "retrieve" /\ stm' = stm
  BY GotTyped DEF Retrieved, stmVars
<1>2. PICK c \in Cells : c = Head(toStm).cell
  BY <1>1 DEF ForStm
<1>3. pc = "retrieve" /\ c = job.cell
  <2>1. 1 \in DOMAIN toStm /\ Head(toStm) = toStm[1]
    BY <1>1, TailOf DEF Typed, TypedWire
  <2> QED
    BY <1>1, <1>2, <2>1 DEF Exchange, OneExchange, Expected
<1>4. \A i \in DOMAIN toEsp : toEsp[i].k # "ackRetrieve"
  BY <1>1, NoAnswers DEF Acks
<1>5. CASE toEsp' = toEsp
  <2>1. Paired'
    BY <1>5 DEF Paired
  <2> QED
    BY <1>3, <1>4, <1>5, <2>1, NothingFetched
<1>6. CASE /\ c \in DOMAIN stm
           /\ SendEsp(<<[k |-> "ackRetrieve", cell |-> c],
                        [k |-> "data1", cell |-> c, val |-> stm[c].data[1]],
                        [k |-> "data2", cell |-> c, val |-> stm[c].data[2]]>>)
  <2>1. stm[c] \in StmCell
    BY <1>6, Known
  <2>2. PICK v \in Half, w \in Half : v = stm[c].data[1] /\ w = stm[c].data[2]
    BY <2>1 DEF StmCell, CellSet
  <2>3. PICK a, b, d : /\ a = [k |-> "ackRetrieve", cell |-> c]
                       /\ b = [k |-> "data1", cell |-> c, val |-> v]
                       /\ d = [k |-> "data2", cell |-> c, val |-> w]
    OBVIOUS
  <2>4. PICK qs : qs = <<a, b, d>>
    OBVIOUS
  <2>5. /\ a \in ForEsp /\ b \in ForEsp /\ d \in ForEsp
        /\ a.k = "ackRetrieve"
        /\ b.k = "data1" /\ b.cell = c /\ b.val = v
        /\ d.k = "data2" /\ d.cell = c /\ d.val = w
    BY <2>3 DEF ForEsp
  <2>6. qs \in Seq(ForEsp) /\ DOMAIN qs = {1, 2, 3} /\ qs[1] = a /\ qs[2] = b /\ qs[3] = d
    BY <2>4, <2>5, Three
  <2>7. toEsp' = toEsp \o qs
    BY <1>6, <2>2, <2>3, <2>4 DEF SendEsp
  <2>8. Paired'
    <3>1. \A m \in DOMAIN qs :
            /\ qs[m].k = "data1" => \E l \in DOMAIN qs : m = l + 1 /\ qs[l].k = "ackRetrieve"
            /\ qs[m].k = "data2" => \E l \in DOMAIN qs : m = l + 1 /\ qs[l].k = "data1"
      <4>1. 2 = 1 + 1 /\ 3 = 2 + 1
        OBVIOUS
      <4> QED
        BY <2>5, <2>6, <4>1
    <3> QED
      BY <2>6, <2>7, <3>1, PairedOn
  <2>9. ASSUME NEW i \in DOMAIN toEsp', NEW j \in DOMAIN toEsp', j < i, toEsp'[j].k = "ackRetrieve"
        PROVE  toEsp'[i] \in {a, b, d}
    <3>1. PICK n \in Nat : n = Len(toEsp) /\ DOMAIN toEsp = 1 .. n /\ toEsp \in Seq(ForEsp)
      BY LenProperties DEF Typed, TypedWire
    <3>2. qs \in Seq(ForEsp)
      BY <2>6
    <3>3. \A x \in DOMAIN toEsp' :
            \/ x \in DOMAIN toEsp /\ toEsp'[x] = toEsp[x]
            \/ \E l \in DOMAIN qs : x = n + l /\ toEsp'[x] = qs[l]
      BY <2>7, <3>1, <3>2, Joined
    <3>4. PICK l \in {1, 2, 3} : j = n + l
      BY <1>4, <2>6, <2>9, <3>3
    <3>5. i \in Nat
      <4>1. toEsp' \in Seq(ForEsp)
        BY <2>7, <3>1, <3>2, Joined
      <4> QED
        BY <2>9, <4>1, LenProperties
    <3>6. i \notin DOMAIN toEsp
      BY <2>9, <3>1, <3>4, <3>5
    <3>7. PICK m \in {1, 2, 3} : toEsp'[i] = qs[m]
      BY <2>6, <2>9, <3>3, <3>6
    <3> QED
      BY <2>6, <3>7
  <2>10. Fetched'
    <3>1. ASSUME NEW i \in DOMAIN toEsp', NEW j \in DOMAIN toEsp', j < i, toEsp'[j].k = "ackRetrieve"
          PROVE  /\ toEsp'[i].k \in {"data1", "data2"} => toEsp'[i].cell = job.cell
                 /\ toEsp'[i].k = "data1" => toEsp'[i].val = stm'[job.cell].data[1]
                 /\ toEsp'[i].k = "data2" => toEsp'[i].val = stm'[job.cell].data[2]
      <4>1. toEsp'[i] = a \/ toEsp'[i] = b \/ toEsp'[i] = d
        BY <2>9, <3>1
      <4>2. v = stm'[job.cell].data[1] /\ w = stm'[job.cell].data[2]
        BY <1>1, <1>3, <2>2
      <4> QED
        BY <1>3, <2>5, <4>1, <4>2
    <3> QED
      BY <1>3, <3>1, FetchedIs
  <2> QED
    BY <2>8, <2>10
<1> QED
  BY <1>2, <1>5, <1>6 DEF Retrieved

LEMMA CompletesSays ==
    ASSUME Typed, AtWork, Exchange, Carried, Typed', NEW of \in {"store", "fulfill"}, LastFrame(of)
    PROVE  \E q \in ForEsp : /\ toEsp' = toEsp \o <<q>> /\ q.code = err' /\ q.cell = job.cell
                             /\ q.k = IF of = "store" THEN "ackStore" ELSE "ackFulfill"
<1>1. PICK q : q = [k |-> IF of = "store" THEN "ackStore" ELSE "ackFulfill",
                    cell |-> Head(toStm).cell, code |-> err']
  OBVIOUS
<1>2. toEsp' = toEsp \o <<q>>
  BY <1>1 DEF LastFrame, SendEsp
<1>3. Head(toStm).cell = job.cell /\ pc \in Storing
  <2>1. Got(FrameKinds[of][2])
    BY DEF LastFrame
  <2> QED
    BY <2>1, FrameIs
<1>4. err' \in Codes /\ job.cell \in Cells
  BY <1>3, Known DEF Typed, TypedStm, AtWork
<1>5. q \in ForEsp
  BY <1>1, <1>3, <1>4 DEF ForEsp
<1> QED
  BY <1>1, <1>2, <1>3, <1>5

LEMMA OthersFetched ==
    ASSUME Typed, AtWork, Exchange, Carried, Paired, Fetched, FirstsArrive, Typed', Exchange', Others
    PROVE  Paired' /\ Fetched'
<1>1. UNCHANGED <<esp, pc, job>>
  BY OthersLeave DEF Others
<1>2. ASSUME toStm # <<>>, SaysSmall PROVE Paired' /\ Fetched'
  <2>1. pc # "frames"
    BY <1>2 DEF Exchange, OneExchange
  <2>2. \A i \in DOMAIN toEsp' : toEsp'[i].k # "ackRetrieve"
    BY <1>2, NoAnswers, OldAnswers DEF Acks
  <2> QED
    BY <1>1, <1>2, <2>1, <2>2, PairedStays, NothingFetched
<1>3. CASE Feeds \/ Notes
  <2>1. Takes /\ SaysSmall
    BY <1>3, DisplaySays DEF Feeds, Notes
  <2> QED
    BY <1>2, <2>1 DEF Takes
<1>4. CASE Completes
  <2>1. PICK of \in {"store", "fulfill"} : LastFrame(of)
    BY <1>4 DEF Completes
  <2>2. PICK q \in ForEsp : toEsp' = toEsp \o <<q>> /\ q.k \in {"ackStore", "ackFulfill"}
    BY <2>1, CompletesSays
  <2>3. PICK qs : qs = <<q>>
    OBVIOUS
  <2>4. qs \in Seq(ForEsp) /\ DOMAIN qs = {1} /\ qs[1] = q /\ toEsp' = toEsp \o qs
    BY <2>2, <2>3
  <2>5. Paired'
    BY <2>2, <2>4, PairedOn
  <2>6. toStm # <<>> /\ pc # "frames"
    BY <2>1 DEF LastFrame, Got, Exchange, OneExchange
  <2>7. ASSUME NEW i \in DOMAIN toEsp' PROVE toEsp'[i].k # "ackRetrieve"
    <3>1. \/ i \in DOMAIN toEsp /\ toEsp'[i] = toEsp[i]
          \/ \E j \in DOMAIN qs : toEsp'[i] = qs[j]
      BY <2>4, Joined DEF Typed, TypedWire
    <3> QED
      BY <2>2, <2>4, <2>6, <3>1, NoAnswers DEF Acks
  <2> QED
    BY <1>1, <2>5, <2>6, <2>7, NothingFetched
<1>5. CASE Retrieved
  BY <1>1, <1>5, RetrievedFetched
<1>6. CASE LoseToStm
  <2>1. toStm # <<>> /\ toEsp' = toEsp
    BY <1>6 DEF LoseToStm
  <2> QED
    BY <1>2, <2>1, SaysNone
<1>7. CASE Poll \/ Screens \/ App \/ Route \/ LoseToEsp
  <2>1. SaysSmall \/ (Passes /\ (~Wanted(Head(toEsp)) \/ Head(toEsp).k \in Lossy))
    BY <1>7, PollSays DEF Route, LoseToEsp, Passes
  <2>2. CASE Feeds \/ Completes
    BY <1>3, <1>4, <2>2
  <2>3. CASE toStm = <<>> /\ ~Feeds /\ ~Completes
    <3>1. Spares
      BY <2>3, OthersDoNotFeed
    <3> QED
      BY <1>1, <2>1, <2>3, <3>1, FetchedStays, PairedStays
  <2>4. CASE toStm # <<>>
    <3>1. pc # "frames"
      BY <2>4 DEF Exchange, OneExchange
    <3>2. \A i \in DOMAIN toEsp' : toEsp'[i].k # "ackRetrieve"
      BY <2>1, <2>4, NoAnswers, OldAnswers DEF Acks
    <3> QED
      BY <1>1, <2>1, <3>1, <3>2, PairedStays, NothingFetched
  <2> QED
    BY <2>2, <2>3, <2>4
<1> QED
  BY <1>3, <1>4, <1>5, <1>6, <1>7, OthersAre

(* Nobody else makes halves differ where somebody relies on them.             *)
LEMMA OthersEven ==
    ASSUME Typed, AtWork, Exchange, Carried, Evens, Others
    PROVE  Evens'
<1>1. UNCHANGED <<esp, pc, job>>
  BY OthersLeave DEF Others
<1>2. Shows
  BY OthersShow DEF Others
<1>3. ASSUME NEW c \in DOMAIN esp, NEW r, r = Role(c), c \in DOMAIN stm',
             (esp[c].loc = "remote" /\ r \notin {"patch", "grow"}) \/ r \in {"retrieve", "frames"}
      PROVE  Even(stm'[c].data)
  <2>1. CASE Alike(c)
    BY <1>3, <2>1 DEF Alike, Evens, EvenAt
  <2>2. CASE Dropped(c)
    BY <2>2 DEF Dropped, Even, Junk
  <2>3. CASE Fed(c)
    <3>1. pc \in Storing /\ job.cell = c
      BY <2>3 DEF Fed
    <3>2. r \notin {"retrieve", "frames"}
      BY <1>3, <3>1 DEF Role, Storing
    <3>3. pc \in {"heat", "move", "flush"}
      BY <1>3, <3>1, <3>2 DEF Role, Storing
    <3> QED
      BY <1>3, <3>1, <3>2, <3>3 DEF AtWork
  <2> QED
    BY <1>2, <1>3, <2>1, <2>2, <2>3 DEF Shows
<1>4. ASSUME NEW c \in DOMAIN esp PROVE EvenAt(c)'
  <2>1. PICK r : r = Role(c)
    OBVIOUS
  <2>2. Role(c)' = r /\ esp'[c] = esp[c]
    BY <1>1, <2>1 DEF Role
  <2> QED
    BY <1>3, <2>1, <2>2 DEF EvenAt, Evens
<1> QED
  BY <1>1, <1>4 DEF Evens

(* How a direct store may have come to nothing.                               *)
LEMMA CountedIs ==
    ASSUME UNCHANGED <<esp, pc, job>>, Counted, pc = "patch" => faults' >= faults,
           pc = "patch" => faults' >= job.tries \/ Completing' \/ Answering',
           pc = "patch" => \/ Even(stm'[job.cell].data) \/ Completing'
                           \/ ("store2" \in Lossy /\ faults' >= job.tries),
           Typed, Typed'
    PROVE  Counted'
<1>1. faults \in Int /\ faults' \in Int /\ job.tries \in Int
  BY SlotSyncAssumption DEF Typed, TypedWire, TypedEsp, Job
<1>2. pc = "patch" => faults' + 1 >= job.tries
  BY <1>1 DEF Counted
<1> QED
  BY <1>2 DEF Counted, Even

LEMMA StaysPatched ==
    ASSUME AtWork, Counted, Spares, Exchange', UNCHANGED <<esp, pc, job>>, pc = "patch"
    PROVE  stm'[job.cell].data = stm[job.cell].data
<1>1. job.cell \in DOMAIN esp /\ esp[job.cell].loc = "remote"
  BY DEF AtWork, Storing, Counted
<1>2. Holds(job.cell)'
  BY <1>1 DEF Exchange, Held, Holds
<1> QED
  BY <1>2, NotDropped

LEMMA SaysOn ==
    ASSUME Typed, SaysSmall, Answering
    PROVE  Answering'
<1>1. PICK i \in DOMAIN toEsp : toEsp[i].k = "ackStore"
  BY DEF Answering
<1>2. PICK qs \in Seq(ForEsp) : toEsp' = toEsp \o qs
  BY DEF SaysSmall
<1>3. toEsp \in Seq(ForEsp)
  BY DEF Typed, TypedWire
<1>4. i \in DOMAIN toEsp' /\ toEsp'[i] = toEsp[i]
  <2>1. DOMAIN toEsp = 1 .. Len(toEsp) /\ Len(toEsp) \in Nat /\ Len(qs) \in Nat
    BY <1>2, <1>3, LenProperties
  <2>2. toEsp' \in Seq(ForEsp) /\ Len(toEsp') = Len(toEsp) + Len(qs)
    BY <1>2, <1>3, Joined
  <2>3. DOMAIN toEsp' = 1 .. Len(toEsp) + Len(qs)
    BY <2>2, LenProperties
  <2>4. \A n \in 1 .. Len(toEsp) + Len(qs) :
          (toEsp \o qs)[n] = IF n <= Len(toEsp) THEN toEsp[n] ELSE qs[n - Len(toEsp)]
    BY <1>2, <1>3, ConcatProperties
  <2>5. i \in 1 .. Len(toEsp) + Len(qs) /\ i <= Len(toEsp)
    BY <2>1
  <2> QED
    BY <1>2, <2>3, <2>4, <2>5
<1> QED
  BY <1>1, <1>4 DEF Answering

LEMMA TakesOn ==
    ASSUME Typed, Carried, Data' = Data, Takes, Head(toStm).k # "store2", Completing
    PROVE  Completing'
<1>1. PICK n \in DOMAIN toStm : toStm[n].k = "store2"
  BY DEF Completing
<1>2. Head(toStm) = toStm[1] /\ (n = 1 \/ \E i \in DOMAIN toStm' : toStm'[i] = toStm[n])
  BY CarriedOn
<1> QED
  BY <1>1, <1>2 DEF Completing

LEMMA FeedsComplete ==
    ASSUME Typed, AtWork, Exchange, Carried, Exchange', Typed', Data' = Data,
           UNCHANGED <<pc, job>>, Feeds, pc = "patch"
    PROVE  Completing'
<1>1. PICK of \in {"store", "fulfill"} : FirstFrame(of)
  BY DEF Feeds
<1>2. Takes /\ Head(toStm).k \in Firsts
  <2>1. Got(FrameKinds[of][1])
    BY <1>1 DEF FirstFrame
  <2> QED
    BY <2>1, FrameIs DEF Takes
<1>3. 1 \in DOMAIN toStm' /\ toStm'[1].k \in Seconds
  BY <1>2, CarriedOn
<1>4. toStm'[1].k = "fulfill2" => pc = "flush"
  BY <1>3 DEF Exchange, OneExchange, Expected
<1> QED
  BY <1>3, <1>4 DEF Seconds, Completing

LEMMA OthersCounted ==
    ASSUME Typed, AtWork, Exchange, Carried, Begun, Counted, Typed', Exchange', Others
    PROVE  Counted'
<1>1. UNCHANGED <<esp, pc, job>> /\ Data' = Data
  BY OthersLeave DEF Others
<1>2. faults \in Nat /\ faults' \in Nat /\ job.tries \in Nat
  BY SlotSyncAssumption DEF Typed, TypedWire, TypedEsp, Job
<1>3. ASSUME pc = "patch", ~Feeds, ~Completes PROVE stm'[job.cell].data = stm[job.cell].data
  BY <1>1, <1>3, OthersDoNotFeed, StaysPatched
<1>4. ASSUME pc = "patch", faults' = faults + 1,
             Completing => Completing' \/ "store2" \in Lossy, ~Feeds, ~Completes
      PROVE  Counted'
  <2>1. faults' >= job.tries
    BY <1>2, <1>4 DEF Counted
  <2>2. \/ Even(stm'[job.cell].data) \/ Completing' \/ ("store2" \in Lossy /\ faults' >= job.tries)
    BY <1>3, <1>4, <2>1 DEF Counted
  <2> QED
    BY <1>1, <1>2, <1>4, <2>1, <2>2, CountedIs
<1>5. ASSUME pc = "patch", faults' = faults, Completing => Completing', Answering => Answering',
             ~Feeds, ~Completes
      PROVE  Counted'
  BY <1>1, <1>2, <1>3, <1>5, CountedIs DEF Counted
<1>6. pc # "patch" => Counted'
  BY <1>1 DEF Counted
<1>7. CASE Feeds /\ pc = "patch"
  <2>1. Completing' /\ faults' = faults
    BY <1>1, <1>7, FeedsComplete DEF Feeds, FirstFrame
  <2> QED
    BY <1>1, <1>2, <2>1, CountedIs
<1>8. CASE Completes /\ pc = "patch"
  <2>1. PICK of \in {"store", "fulfill"} : LastFrame(of)
    BY <1>8 DEF Completes
  <2>2. /\ toStm # <<>> /\ Head(toStm).k \in Seconds /\ (of = "store" <=> pc # "flush")
    <3>1. Got(FrameKinds[of][2])
      BY <2>1 DEF LastFrame
    <3> QED
      BY <3>1, FrameIs
  <2>3. PICK q \in ForEsp : toEsp' = toEsp \o <<q>> /\ q.k = "ackStore"
    BY <1>8, <2>1, <2>2, CompletesSays
  <2>4. Answering'
    <3>1. toEsp \in Seq(ForEsp) /\ Len(toEsp) \in Nat
      BY LenProperties DEF Typed, TypedWire
    <3>2. toEsp' = Append(toEsp, q)
      BY <2>3, <3>1, AppendIsConcat
    <3>3. Len(toEsp) + 1 \in DOMAIN toEsp' /\ toEsp'[Len(toEsp) + 1] = q
      BY <3>1, <3>2, AppendProperties, LenProperties
    <3> QED
      BY <2>3, <3>3 DEF Answering
  <2>5. Even(stm'[job.cell].data)
    <3>1. err = "ok" /\ InPlace /\ stm[job.cell].data[1] = Data[1]
      BY <1>8, <2>2, PatchedIsHeld DEF Begun
    <3>2. stm'[job.cell].data[1] = Data[1] /\ stm'[job.cell].data[2] = Data[2]
      BY <2>1, <3>1, LastFrameShows
    <3>3. Data = job.data /\ Even(job.data)
      BY <1>8 DEF Data, Counted
    <3> QED
      BY <3>2, <3>3 DEF Even
  <2>6. faults' = faults
    BY <2>1 DEF LastFrame
  <2> QED
    BY <1>1, <1>2, <2>4, <2>5, <2>6, CountedIs
<1>9. CASE pc = "patch" /\ ~Feeds /\ ~Completes /\ Notes
  <2>1. Takes /\ SaysSmall /\ faults' = faults
    BY <1>9, DisplaySays DEF Notes
  <2>2. Head(toStm).k # "store2"
    BY <1>9 DEF Notes, SetSize, TempInformed, TempAcked, DataAcked, Got
  <2> QED
    BY <1>1, <1>5, <1>9, <2>1, <2>2, TakesOn, SaysOn
<1>10. CASE pc = "patch" /\ Retrieved
  <2>1. toStm # <<>> /\ Head(toStm).k = "retrieve" /\ 1 \in DOMAIN toStm /\ Head(toStm) = toStm[1]
    BY <1>10, TailOf DEF Retrieved, Got, Typed, TypedWire
  <2> QED
    BY <1>10, <2>1 DEF Exchange, OneExchange, Expected
<1>11. CASE pc = "patch" /\ ~Feeds /\ ~Completes /\ LoseToStm
  <2>1. Takes /\ faults' = faults + 1 /\ Head(toStm).k \in Lossy
    BY <1>11 DEF LoseToStm, Takes
  <2> QED
    BY <1>1, <1>4, <1>11, <2>1, TakesOn
<1>12. CASE pc = "patch" /\ ~Feeds /\ ~Completes /\ LoseToEsp
  <2>1. toStm' = toStm /\ faults' = faults + 1
    BY <1>12 DEF LoseToEsp
  <2> QED
    BY <1>4, <1>12, <2>1 DEF Completing
<1>13. CASE pc = "patch" /\ ~Feeds /\ ~Completes /\ (Poll \/ Screens \/ App)
  <2>1. toStm' = toStm /\ SaysSmall /\ faults' = faults
    BY <1>13, PollSays
  <2>2. Completing => Completing'
    BY <2>1 DEF Completing
  <2> QED
    BY <1>5, <1>13, <2>1, <2>2, SaysOn
<1>14. CASE pc = "patch" /\ ~Feeds /\ ~Completes /\ Route
  <2>1. toStm' = toStm /\ Passes /\ faults' = faults /\ ~Wanted(Head(toEsp))
    BY <1>14 DEF Route, Passes
  <2>2. Completing => Completing'
    BY <2>1 DEF Completing
  <2>3. ASSUME Answering PROVE Answering'
    <3>1. PICK n \in DOMAIN toEsp : toEsp[n].k = "ackStore"
      BY <2>3 DEF Answering
    <3>2. Wanted(toEsp[n])
      BY <3>1 DEF Exchange, OneExchange, Acks
    <3>3. PICK t : t = Tail(toEsp)
      OBVIOUS
    <3>4. /\ t \in Seq(ForEsp) /\ Len(t) \in Nat /\ Len(toEsp) = Len(t) + 1 /\ Head(toEsp) = toEsp[1]
          /\ \A i \in DOMAIN t : t[i] = toEsp[i + 1]
      BY <2>1, <3>3, TailOf DEF Passes, Typed, TypedWire
    <3>5. n # 1
      BY <2>1, <3>2, <3>4
    <3>6. DOMAIN toEsp = 1 .. Len(t) + 1 /\ DOMAIN t = 1 .. Len(t)
      BY <3>4, LenProperties DEF Typed, TypedWire
    <3>7. n - 1 \in DOMAIN t /\ (n - 1) + 1 = n
      BY <3>4, <3>5, <3>6
    <3> QED
      BY <2>1, <3>1, <3>3, <3>4, <3>7 DEF Answering, Passes
  <2> QED
    BY <1>5, <1>14, <2>1, <2>2, <2>3
<1> QED
  BY <1>6, <1>7, <1>8, <1>9, <1>10, <1>11, <1>12, <1>13, <1>14, OthersAre

LEMMA OthersSound ==
    ASSUME Typed, AtWork, Exchange, Sound, FirstsArrive, Typed', Exchange', Others
    PROVE  Sound'
<1>1. Carried /\ Begun /\ Acked /\ Paired /\ Fetched /\ Counted /\ Evens
  BY DEF Sound
<1> QED
  BY <1>1, OthersCarry, OthersAcked, OthersFetched, OthersCounted, OthersEven DEF Sound

-----------------------------------------------------------------------------
(* The halves: the manager's steps                                           *)

Manager == Handle \/ StartFlush \/ Pressure
Framed == Firsts \cup Seconds

(* A message and the frames of a cell that holds x, or the frames alone.      *)
Bears(ps, x) ==
  /\ ps # <<>>
  /\ \A i \in DOMAIN ps :
       /\ ps[i].k \in Firsts => ps[i].val = x[1] /\ \E m \in DOMAIN ps : m = i + 1 /\ ps[m].k \in Seconds
       /\ ps[i].k \in Seconds => ps[i].val = x[2] /\ \E m \in DOMAIN ps : i = m + 1 /\ ps[m].k \in Firsts
  /\ \E i \in DOMAIN ps : pc' = "patch" => ps[i].k = "store2"

LEMMA FramesBear ==
    ASSUME NEW c \in Cells, NEW x \in Half \X Half, NEW of \in {"store", "fulfill"}, pc' = "patch" => of = "store"
    PROVE  Bears(Frames(of, c, x), x)
<1>1. PICK a, b : /\ a = [k |-> FrameKinds[of][1], cell |-> c, val |-> x[1]]
                  /\ b = [k |-> FrameKinds[of][2], cell |-> c, val |-> x[2]]
  OBVIOUS
<1>2. /\ a.val = x[1] /\ b.val = x[2] /\ a.k \in Firsts /\ b.k \in Seconds
      /\ pc' = "patch" => b.k = "store2"
  BY <1>1 DEF FrameKinds, Firsts, Seconds
<1>3. PICK ps : ps = <<a, b>>
  OBVIOUS
<1>4. DOMAIN ps = {1, 2} /\ ps[1] = a /\ ps[2] = b /\ 2 = 1 + 1 /\ ps # <<>>
  BY <1>3
<1>5. a.k \notin Seconds /\ b.k \notin Firsts
  BY <1>2 DEF Firsts, Seconds
<1>6. Bears(ps, x)
  BY <1>2, <1>4, <1>5 DEF Bears
<1> QED
  BY <1>1, <1>3, <1>6 DEF Frames

LEMMA FramesBearAfter ==
    ASSUME NEW p, p.k \notin Framed, NEW c \in Cells, NEW x \in Half \X Half
    PROVE  Bears(<<p>> \o Frames("store", c, x), x)
<1>1. PICK a, b : /\ a = [k |-> FrameKinds["store"][1], cell |-> c, val |-> x[1]]
                  /\ b = [k |-> FrameKinds["store"][2], cell |-> c, val |-> x[2]]
  OBVIOUS
<1>2. a.val = x[1] /\ b.val = x[2] /\ a.k = "store1" /\ b.k = "store2"
  BY <1>1 DEF FrameKinds
<1>3. PICK ps : ps = <<p, a, b>>
  OBVIOUS
<1>4. DOMAIN ps = {1, 2, 3} /\ ps[1] = p /\ ps[2] = a /\ ps[3] = b /\ 2 = 1 + 1 /\ 3 = 2 + 1 /\ ps # <<>>
  BY <1>3
<1>5. Bears(ps, x)
  BY <1>2, <1>4 DEF Bears, Firsts, Seconds, Framed
<1>6. <<p>> \o <<a, b>> = ps
  <2>1. PICK T : T = {p, a, b}
    OBVIOUS
  <2>2. PICK t, u : t = <<p>> /\ u = <<a, b>>
    OBVIOUS
  <2>3. /\ t \in Seq(T) /\ u \in Seq(T) /\ Len(t) = 1 /\ Len(u) = 2
        /\ t[1] = p /\ u[1] = a /\ u[2] = b
    BY <2>1, <2>2
  <2>4. /\ t \o u \in Seq(T) /\ Len(t \o u) = 3
        /\ (t \o u)[1] = p /\ (t \o u)[2] = a /\ (t \o u)[3] = b
    BY <2>3, ConcatProperties
  <2>5. ps \in Seq(T) /\ Len(ps) = 3 /\ ps[1] = p /\ ps[2] = a /\ ps[3] = b
    BY <1>3, <2>1
  <2>6. t \o u = ps
    <3>1. \A i \in 1 .. Len(ps) : (t \o u)[i] = ps[i]
      BY <2>4, <2>5
    <3> QED
      BY <2>4, <2>5, <3>1, SeqEqual
  <2> QED
    BY <2>2, <2>6
<1> QED
  BY <1>1, <1>5, <1>6 DEF Frames

LEMMA JoinedAt ==
    ASSUME NEW S, NEW s \in Seq(S), NEW ps \in Seq(S)
    PROVE  /\ \A l \in DOMAIN ps : Len(s) + l \in DOMAIN (s \o ps) /\ (s \o ps)[Len(s) + l] = ps[l]
           /\ \A i \in DOMAIN s : i \in DOMAIN (s \o ps) /\ (s \o ps)[i] = s[i]
<1>1. PICK n \in Nat, m \in Nat : n = Len(s) /\ m = Len(ps) /\ DOMAIN s = 1 .. n /\ DOMAIN ps = 1 .. m
  BY LenProperties
<1>2. PICK t : t = s \o ps
  OBVIOUS
<1>3. t \in Seq(S) /\ Len(t) = n + m
  BY <1>1, <1>2, ConcatProperties
<1>4. DOMAIN t = 1 .. n + m
  BY <1>3, LenProperties
<1>5. \A i \in 1 .. n + m : t[i] = IF i <= n THEN s[i] ELSE ps[i - n]
  BY <1>1, <1>2, ConcatProperties
<1>6. ASSUME NEW l \in 1 .. m PROVE n + l \in 1 .. n + m /\ t[n + l] = ps[l]
  <2>1. n + l \in 1 .. n + m /\ ~(n + l <= n) /\ (n + l) - n = l
    BY <1>1
  <2> QED
    BY <1>5, <2>1
<1>7. \A i \in 1 .. n : i \in 1 .. n + m /\ t[i] = s[i]
  BY <1>1, <1>5
<1> QED
  BY <1>1, <1>2, <1>4, <1>6, <1>7

LEMMA BornCarried ==
    ASSUME Typed, Typed', OneExchange', \A i \in DOMAIN toStm : toStm[i].k \notin Framed,
           NEW ps \in Seq(ForStm), toStm' = toStm \o ps, Bears(ps, Data')
    PROVE  /\ Carried' /\ Begun' /\ Acked'
           /\ toStm' # <<>> /\ (pc' = "patch" => Completing')
<1>1. PICK n \in Nat : n = Len(toStm) /\ toStm \in Seq(ForStm) /\ DOMAIN toStm = 1 .. n
  BY LenProperties DEF Typed, TypedWire
<1>2. PICK t : t = toStm'
  OBVIOUS
<1>3. t \in Seq(ForStm)
  BY <1>2 DEF Typed, TypedWire
<1>4. \A i \in DOMAIN t :
        \/ i \in DOMAIN toStm /\ t[i] = toStm[i]
        \/ \E l \in DOMAIN ps : i = n + l /\ t[i] = ps[l]
  BY <1>1, <1>2, Joined
<1>5. \A l \in DOMAIN ps : n + l \in DOMAIN t /\ t[n + l] = ps[l]
  BY <1>1, <1>2, JoinedAt
<1>6. DOMAIN ps \subseteq Nat /\ DOMAIN t \subseteq Nat
  BY <1>3, LenProperties
<1>7. ASSUME NEW i \in DOMAIN t, t[i].k \in Framed
      PROVE  \E l \in DOMAIN ps : i = n + l /\ t[i] = ps[l]
  BY <1>4, <1>7
<1>8. ASSUME NEW i \in DOMAIN t, t[i].k \in Firsts
      PROVE  t[i].val = Data'[1] /\ \E m \in DOMAIN t : m = i + 1 /\ t[m].k \in Seconds
  <2>1. PICK l \in DOMAIN ps : i = n + l /\ t[i] = ps[l]
    BY <1>7, <1>8 DEF Framed
  <2>2. PICK d \in DOMAIN ps : d = l + 1 /\ ps[d].k \in Seconds /\ ps[l].val = Data'[1]
    BY <1>8, <2>1 DEF Bears
  <2>3. n + d = i + 1
    BY <1>6, <2>1, <2>2
  <2> QED
    BY <1>5, <2>1, <2>2, <2>3
<1>9. ASSUME NEW i \in DOMAIN t, t[i].k \in Seconds
      PROVE  t[i].val = Data'[2] /\ \E m \in DOMAIN t : i = m + 1 /\ t[m].k \in Firsts
  <2>1. PICK l \in DOMAIN ps : i = n + l /\ t[i] = ps[l]
    BY <1>7, <1>9 DEF Framed
  <2>2. PICK d \in DOMAIN ps : l = d + 1 /\ ps[d].k \in Firsts /\ ps[l].val = Data'[2]
    BY <1>9, <2>1 DEF Bears
  <2>3. i = (n + d) + 1
    BY <1>6, <2>1, <2>2
  <2> QED
    BY <1>5, <2>1, <2>2, <2>3
<1>10. Carried'
  <2>1. ASSUME NEW i \in DOMAIN t, NEW j \in DOMAIN t, i = j + 1, t[i].k \in Seconds PROVE t[j].k \in Firsts
    <3>1. PICK m \in DOMAIN t : i = m + 1 /\ t[m].k \in Firsts
      BY <1>9, <2>1
    <3>2. m = j
      BY <1>6, <2>1, <3>1
    <3> QED
      BY <3>1, <3>2
  <2> QED
    BY <1>2, <1>8, <1>9, <2>1 DEF Carried
<1>11. PICK l \in DOMAIN ps : pc' = "patch" => ps[l].k = "store2"
  BY DEF Bears
<1>12. t # <<>> /\ (pc' = "patch" => Completing')
  <2>1. n + l \in DOMAIN t /\ t[n + l] = ps[l]
    BY <1>5
  <2>2. t # <<>>
    BY <1>3, <2>1, EmptySeq
  <2> QED
    BY <1>2, <1>11, <2>1, <2>2 DEF Completing
<1>13. Begun'
  <2>1. 1 \in DOMAIN t /\ Head(t) = t[1]
    BY <1>3, <1>12, TailOf
  <2>2. t[1].k \notin Seconds
    <3> SUFFICES ASSUME t[1].k \in Seconds PROVE FALSE
      OBVIOUS
    <3>1. PICK m \in DOMAIN t : 1 = m + 1
      BY <1>9, <2>1
    <3>2. 0 \notin DOMAIN t
      BY <1>3, LenProperties
    <3> QED
      BY <1>6, <3>1, <3>2
  <2> QED
    BY <1>2, <2>1, <2>2 DEF Begun
<1>14. Acked'
  <2>1. \A i \in DOMAIN toEsp' : toEsp'[i].k \notin Acks
    BY <1>2, <1>12 DEF OneExchange
  <2> QED
    BY <2>1 DEF Acked, Stores, Acks
<1> QED
  BY <1>2, <1>10, <1>12, <1>13, <1>14

(* At rest nothing of a store or a fulfill is under way.                      *)
LEMMA RestCarries ==
    ASSUME Typed', OneExchange', pc' \notin Storing
    PROVE  Carried' /\ Begun' /\ Acked' /\ Counted'
<1>1. \A i \in DOMAIN toStm' : toStm'[i].k \notin Framed
  BY DEF OneExchange, Expected, Framed, Firsts, Seconds, Storing
<1>2. \A i \in DOMAIN toEsp' : toEsp'[i].k \notin Stores
  BY DEF OneExchange, Wanted, Acks, Stores, Storing
<1>3. toStm' # <<>> => 1 \in DOMAIN toStm' /\ Head(toStm') = toStm'[1]
  BY TailOf DEF Typed, TypedWire
<1>4. Carried' /\ Acked'
  BY <1>1, <1>2 DEF Carried, Acked, Framed
<1>5. Counted'
  BY DEF Counted, Storing
<1> QED
  BY <1>1, <1>3, <1>4, <1>5 DEF Begun, Framed

(* A step of the manager, and what is known around it.                        *)
Works == Typed /\ AtWork /\ Exchange /\ Sound /\ Typed' /\ AtWork' /\ Exchange' /\ Handled
Roles == {"patch", "grow", "retrieve", "frames"}

LEMMA PairedTurn == ASSUME Works PROVE Paired'
<1>1. Typed /\ Paired /\ (toEsp' = toEsp \/ Answered)
  BY DEF Works, Sound, Handled, Turn, TimedOut
<1>2. Answered => Passes
  BY DEF Answered, Passes
<1> QED
  BY <1>1, <1>2, SaysNone, PairedStays

LEMMA RestSound ==
    ASSUME Works, pc' \notin Storing \cup {"retrieve", "frames"}, Evens'
    PROVE  Sound'
<1>1. Fetched'
  BY DEF Fetched, Current
<1>2. Carried' /\ Begun' /\ Acked' /\ Counted'
  BY RestCarries DEF Works, Exchange
<1> QED
  BY <1>1, <1>2, PairedTurn DEF Sound

LEMMA SentSound ==
    ASSUME Works, Patient, pc' \in Storing, Evens', (pc' = "patch" /\ Completing' => Counted'),
           NEW ps \in Seq(ForStm), toStm' = toStm \o ps, Bears(ps, Data')
    PROVE  Sound'
<1>1. \A i \in DOMAIN toStm : toStm[i].k \notin Framed
  <2>1. \A i \in DOMAIN toStm : toStm[i].k \in Aside \cup {"ackData"}
    BY Silence DEF Works, Exchange, Handled
  <2> QED
    BY <2>1 DEF Aside, Framed, Firsts, Seconds
<1>2. Carried' /\ Begun' /\ Acked' /\ (pc' = "patch" => Completing')
  BY <1>1, BornCarried DEF Works, Exchange
<1>3. Fetched'
  BY DEF Fetched, Current, Storing
<1>4. Counted'
  BY <1>2 DEF Counted
<1> QED
  BY <1>2, <1>3, <1>4, PairedTurn DEF Sound

(* A cell that is left alone.                                                 *)
LEMMA EvenStays ==
    ASSUME NEW c \in DOMAIN esp, EvenAt(c), stm' = stm,
           esp'[c].loc = esp[c].loc, esp'[c].data = esp[c].data,
           Role(c)' = Role(c) \/ (Role(c) = "none" /\ Role(c)' \in {"patch", "grow"})
    PROVE  EvenAt(c)'
<1>1. PICK r, s : r = Role(c) /\ s = Role(c)'
  OBVIOUS
<1> QED
  BY <1>1 DEF EvenAt, Even

LEMMA NoRole == ASSUME NEW c, pc \notin Roles PROVE Role(c) = "none"
  BY DEF Role, Roles

LEMMA EvensStay ==
    ASSUME Works, pc \notin Roles, pc' \notin Roles \ {"patch", "grow"},
           \A c \in DOMAIN esp' : /\ c \in DOMAIN esp
                                  /\ esp'[c].loc = esp[c].loc /\ esp'[c].data = esp[c].data
    PROVE  Evens'
<1>1. ASSUME NEW c \in DOMAIN esp' PROVE EvenAt(c)'
  <2>1. Role(c) = "none" /\ (Role(c)' \in {"none", "patch", "grow"})
    BY DEF Role, Roles
  <2>2. EvenAt(c) /\ stm' = stm
    BY <1>1 DEF Works, Sound, Evens, Handled
  <2> QED
    BY <1>1, <2>1, <2>2, EvenStays
<1> QED
  BY <1>1 DEF Evens

LEMMA CalmSound ==
    ASSUME Works, esp' = esp, pc \notin Roles, pc' \notin Storing \cup {"retrieve", "frames"}
    PROVE  Sound'
<1>1. pc' \notin Roles
  BY DEF Storing, Roles
<1> QED
  BY <1>1, EvensStay, RestSound

LEMMA DirtySame ==
    ASSUME Typed, NEW d \in DOMAIN esp, NEW b, esp' = [esp EXCEPT ![d].dirty = b]
    PROVE  DOMAIN esp' = DOMAIN esp
           /\ \A c \in DOMAIN esp : esp'[c].loc = esp[c].loc /\ esp'[c].data = esp[c].data
<1>1. esp[d] \in EspCell
  BY Known
<1>2. PICK x : x = [esp[d] EXCEPT !.dirty = b]
  OBVIOUS
<1>3. x.loc = esp[d].loc /\ x.data = esp[d].data
  BY <1>1, <1>2 DEF EspCell, CellSet
<1>4. esp' = [esp EXCEPT ![d] = x]
  BY <1>2
<1> QED
  BY <1>3, <1>4

LEMMA EasySound ==
    ASSUME Works,
           StartFlush \/ SetTemp \/ SameSize \/ SizeResend \/ SizeGivenUp \/ Demote \/ Reinstate
    PROVE  Sound'
<1>1. CASE StartFlush \/ Demote \/ Reinstate
  BY <1>1, CalmSound DEF StartFlush, Demote, Reinstate, Wait, Storing, Roles
<1>2. CASE SetTemp
  BY <1>2, CalmSound DEF SetTemp, Next1, Wait, Storing, Roles
<1>3. CASE SameSize
  BY <1>3, CalmSound DEF SameSize, Next1, espVars, Storing, Roles
<1>4. CASE SizeResend \/ SizeGivenUp
  BY <1>4, CalmSound DEF SizeResend, SizeGivenUp, Wait, Finish, Storing, Roles
<1> QED
  BY <1>1, <1>2, <1>3, <1>4

LEMMA MarkDirtySound == ASSUME Works, MarkDirty PROVE Sound'
<1>1. pc = "idle" /\ pc' = "idle"
  BY DEF MarkDirty, Next1
<1>2. PICK c : c = Head(queue).cell
  OBVIOUS
<1>3. esp' = esp \/ (c \in DOMAIN esp /\ esp' = [esp EXCEPT ![c].dirty = TRUE])
  BY <1>2 DEF MarkDirty
<1>4. \A d \in DOMAIN esp' : d \in DOMAIN esp /\ esp'[d].loc = esp[d].loc /\ esp'[d].data = esp[d].data
  BY <1>3, DirtySame DEF Works
<1> QED
  BY <1>1, <1>4, EvensStay, RestSound DEF Roles, Storing

LEMMA TriggeredSound == ASSUME Works, Triggered PROVE Sound'
<1>1. pc = "idle" /\ pc' = "idle"
  BY DEF Triggered, Next1
<1>2. PICK here : here = {c \in DOMAIN esp : esp[c].loc # "remote"}
  OBVIOUS
<1>3. esp' = [c \in DOMAIN esp |-> [esp[c] EXCEPT !.dirty = @ \/ c \in here]]
  BY <1>2 DEF Triggered
<1>4. \A x \in EspCell, b \in BOOLEAN : [x EXCEPT !.dirty = b].loc = x.loc /\ [x EXCEPT !.dirty = b].data = x.data
  BY DEF EspCell, CellSet
<1>5. ASSUME NEW d \in DOMAIN esp
      PROVE  d \in DOMAIN esp /\ esp'[d].loc = esp[d].loc /\ esp'[d].data = esp[d].data
  <2>1. PICK b \in BOOLEAN : b = (esp[d].dirty \/ d \in here)
    OBVIOUS
  <2>2. esp'[d] = [esp[d] EXCEPT !.dirty = b]
    BY <1>3, <2>1, Zenon
  <2>3. esp[d] \in EspCell
    BY Known DEF Works
  <2> QED
    BY <1>4, <2>2, <2>3
<1>6. DOMAIN esp' = DOMAIN esp
  BY <1>3
<1> QED
  BY <1>1, <1>5, <1>6, EvensStay, RestSound DEF Roles, Storing

LEMMA FlushEndsSound == ASSUME Works, FlushEnds PROVE Sound'
<1>1. pc = "flush" /\ pc' = "sweep" /\ job.cell \in DOMAIN esp
  BY DEF FlushEnds, Wait, Works, AtWork, Storing
<1>2. esp' = esp \/ esp' = [esp EXCEPT ![job.cell].dirty = FALSE]
  BY DEF FlushEnds
<1>3. \A d \in DOMAIN esp' : d \in DOMAIN esp /\ esp'[d].loc = esp[d].loc /\ esp'[d].data = esp[d].data
  BY <1>1, <1>2, DirtySame DEF Works
<1> QED
  BY <1>1, <1>3, EvensStay, RestSound DEF Roles, Storing

LEMMA SweepSound == ASSUME Works, Patient, Sweep PROVE Sound'
<1>1. pc = "sweep" /\ esp' = esp
  BY DEF Sweep
<1>2. ASSUME NEW c \in DOMAIN esp,
             Wait("flush", [job EXCEPT !.cell = c, !.tries = 1, !.tight = FALSE]),
             SendStm(Frames("fulfill", c, esp[c].data))
      PROVE  Sound'
  <2>1. c \in Cells /\ esp[c].data \in Half \X Half /\ job \in Job
    BY Known DEF Works, Typed, TypedEsp, EspCell, CellSet
  <2>2. pc' = "flush" /\ job'.cell = c
    BY <1>2, <2>1 DEF Wait, Job
  <2>3. Data' = esp[c].data
    BY <1>1, <2>2 DEF Data
  <2>4. PICK ps : ps = Frames("fulfill", c, esp[c].data)
    OBVIOUS
  <2>5. ps \in Seq(ForStm) /\ Bears(ps, Data') /\ toStm' = toStm \o ps
    BY <1>2, <2>1, <2>2, <2>3, <2>4, FramesBear, FramesTyped, "fulfill" \in {"store", "fulfill"} DEF SendStm
  <2>6. Evens'
    BY <1>1, <2>2, EvensStay DEF Roles
  <2> QED
    BY <2>2, <2>5, <2>6, SentSound DEF Storing
<1>3. CASE pc' \in {"sweep", "idle"}
  BY <1>1, <1>3, CalmSound DEF Storing, Roles
<1> QED
  <2> DEFINE todo == {c \in DOMAIN esp : c >= job.cell /\ Sendable(c)}
  <2>1. todo # {} => (CHOOSE x \in todo : \A y \in todo : x <= y) \in todo
    BY First, Known DEF Works
  <2>2. Wait("sweep", [job EXCEPT !.pass = 1, !.cell = 1]) \/ Finish => pc' \in {"sweep", "idle"}
    BY DEF Wait, Finish
  <2> QED
    BY <1>2, <1>3, <2>1, <2>2 DEF Sweep

LEMMA HeatingSound == ASSUME Works, Patient, Heating PROVE Sound'
<1>1. pc = "heating" /\ esp' = esp
  BY DEF Heating
<1>2. ASSUME NEW c \in DOMAIN esp, Wait("heat", [job EXCEPT !.cell = c, !.tries = 1]),
             SendStm(Frames("store", c, esp[c].data))
      PROVE  Sound'
  <2>1. c \in Cells /\ esp[c].data \in Half \X Half /\ job \in Job
    BY Known DEF Works, Typed, TypedEsp, EspCell, CellSet
  <2>2. pc' = "heat" /\ job'.cell = c
    BY <1>2, <2>1 DEF Wait, Job
  <2>3. Data' = esp[c].data
    BY <1>1, <2>2 DEF Data
  <2>4. PICK ps : ps = Frames("store", c, esp[c].data)
    OBVIOUS
  <2>5. ps \in Seq(ForStm) /\ Bears(ps, Data') /\ toStm' = toStm \o ps
    BY <1>2, <2>1, <2>2, <2>3, <2>4, FramesBear, FramesTyped, "store" \in {"store", "fulfill"} DEF SendStm
  <2>6. Evens'
    BY <1>1, <2>2, EvensStay DEF Roles
  <2> QED
    BY <2>2, <2>5, <2>6, SentSound DEF Storing
<1>3. CASE pc' = "idle"
  BY <1>1, <1>3, CalmSound DEF Storing, Roles
<1> QED
  <2> DEFINE todo == {c \in DOMAIN esp : c >= job.cell /\ esp[c].loc # "remote"}
  <2>1. todo # {} => (CHOOSE x \in todo : \A y \in todo : x <= y) \in todo
    BY First, Known DEF Works
  <2>2. Finish => pc' = "idle"
    BY DEF Finish
  <2> QED
    BY <1>2, <1>3, <2>1, <2>2 DEF Heating

LEMMA MoveOutSound == ASSUME Works, Patient, NEW c \in DOMAIN esp, MoveOut(c) PROVE Sound'
<1>1. pc = "idle" /\ esp' = esp /\ pc' = "move" /\ job' = [NoJob EXCEPT !.cell = c, !.tries = 1]
      /\ SendStm(Frames("store", c, esp[c].data))
  BY DEF MoveOut, Wait
<1>2. c \in Cells /\ esp[c].data \in Half \X Half
  BY Known DEF Works, EspCell, CellSet
<1>3. job'.cell = c
  BY <1>1 DEF NoJob
<1>4. Data' = esp[c].data
  BY <1>1, <1>3 DEF Data
<1>5. PICK ps : ps = Frames("store", c, esp[c].data)
  OBVIOUS
<1>6. ps \in Seq(ForStm) /\ Bears(ps, Data') /\ toStm' = toStm \o ps
  BY <1>1, <1>2, <1>4, <1>5, FramesBear, FramesTyped, "store" \in {"store", "fulfill"} DEF SendStm
<1>7. Evens'
  BY <1>1, EvensStay DEF Roles
<1> QED
  BY <1>1, <1>6, <1>7, SentSound DEF Storing

(* What an acknowledgement says is so.                                        *)
LEMMA StoredIs ==
    ASSUME Typed, Exchange, Acked, pc \in Storing \ {"flush"}, Returns("ok")
    PROVE  Holds(job.cell) /\ stm[job.cell].data = Data
<1>1. toEsp # <<>> /\ Wanted(Head(toEsp)) /\ Head(toEsp).code = "ok"
  BY DEF Returns, Answered
<1>2. 1 \in DOMAIN toEsp /\ Head(toEsp) = toEsp[1]
  BY <1>1, TailOf DEF Typed, TypedWire
<1>3. toEsp[1].k = "ackStore" /\ toEsp[1].cell = job.cell
  BY <1>1, <1>2 DEF Wanted, Storing
<1>4. Holds(job.cell)
  BY <1>1, <1>2, <1>3 DEF Exchange, Held
<1>5. InPlace
  BY <1>4 DEF InPlace, Place, Holds
<1> QED
  BY <1>1, <1>2, <1>3, <1>4, <1>5 DEF Acked, Stores

(* A patch that got no answer has lost a packet for each attempt.             *)
LEMMA PatchHeard ==
    ASSUME Typed, AtWork, Exchange, Acked, Counted, Patient, pc = "patch", NEW o, Returns(o)
    PROVE  \/ o = "ok" /\ Even(stm[job.cell].data)
           \/ /\ o = "timeout" /\ faults >= job.tries
              /\ Even(stm[job.cell].data) \/ "store2" \in Lossy
<1>1. CASE o # "timeout"
  <2>1. toEsp # <<>> /\ Wanted(Head(toEsp)) /\ Head(toEsp).code = o
    BY <1>1 DEF Returns, Answered
  <2>2. 1 \in DOMAIN toEsp /\ Head(toEsp) = toEsp[1]
    BY <2>1, TailOf DEF Typed, TypedWire
  <2>3. toEsp[1].k = "ackStore"
    BY <2>1, <2>2 DEF Wanted, Storing
  <2>4. o = "ok"
    BY <2>1, <2>2, <2>3 DEF Acked, Stores
  <2>5. stm[job.cell].data = job.data /\ Even(job.data)
    BY <2>4, StoredIs DEF Storing, Data, Counted
  <2> QED
    BY <2>4, <2>5
<1>2. CASE o = "timeout"
  <2>1. ~UnderWay
    BY <1>2 DEF Returns, TimedOut, Patient
  <2>2. ~Completing
    <3>1. toStm = <<>> /\ DOMAIN <<>> = {}
      BY <2>1 DEF UnderWay
    <3> QED
      BY <3>1 DEF Completing
  <2>3. ~Answering
    BY <2>1 DEF UnderWay, Answering, Exchange, OneExchange, Acks
  <2> QED
    BY <1>2, <2>2, <2>3 DEF Counted
<1> QED
  BY <1>1, <1>2

LEMMA ResendSound == ASSUME Works, Patient, Resend PROVE Sound'
<1>1. pc \in Storing /\ pc' = pc /\ esp' = esp /\ stm' = stm /\ faults' = faults
  BY DEF Resend, Wait, stmVars
<1>2. job \in Job /\ job.cell \in DOMAIN esp
  BY <1>1 DEF Works, Typed, TypedEsp, AtWork
<1>3. PICK o \in Outcomes \ {"ok"} :
         Returns(o) /\ job' = [job EXCEPT !.tries = @ + 1, !.tight = @ \/ (pc = "flush" /\ o = "again")]
  BY DEF Resend, Wait
<1>4. job'.cell = job.cell /\ job'.data = job.data /\ job'.tries = job.tries + 1
  <2>1. PICK n \in Nat : n = job.tries + 1
    BY <1>2 DEF Job
  <2>2. PICK b \in BOOLEAN : b = (job.tight \/ (pc = "flush" /\ o = "again"))
    OBVIOUS
  <2>3. job' = [job EXCEPT !.tries = n, !.tight = b]
    BY <1>3, <2>1, <2>2, Zenon
  <2> QED
    BY <1>2, <2>1, <2>3 DEF Job
<1>5. Data' = Data /\ Data \in Half \X Half
  BY <1>1, <1>4, DataTyped DEF Data, Works
<1>6. Evens'
  <2>1. ASSUME NEW c \in DOMAIN esp PROVE EvenAt(c)'
    <3>1. Role(c)' = Role(c)
      BY <1>1, <1>4 DEF Role
    <3>2. EvenAt(c)
      BY DEF Works, Sound, Evens
    <3> QED
      BY <1>1, <3>1, <3>2, EvenStays
  <2> QED
    BY <1>1, <2>1 DEF Evens
<1>7. ASSUME pc' = "patch", Completing' PROVE Counted'
  <2>1. Even(job.data) /\ esp[job.cell].loc = "remote"
    BY <1>1, <1>7 DEF Works, Sound, Counted
  <2>2. faults >= job.tries
    BY <1>1, <1>3, <1>7, PatchHeard DEF Works, Sound
  <2>3. faults \in Int /\ job.tries \in Int
    BY <1>2 DEF Works, Typed, TypedWire, Job
  <2> QED
    BY <1>1, <1>4, <1>7, <2>1, <2>2, <2>3 DEF Counted, Even
<1>8. PICK of \in {"store", "fulfill"} : of = IF pc = "flush" THEN "fulfill" ELSE "store"
  OBVIOUS
<1>9. PICK ps : ps = Frames(of, job.cell, Data)
  OBVIOUS
<1>10. ps \in Seq(ForStm) /\ Bears(ps, Data') /\ toStm' = toStm \o ps
  <2>1. job.cell \in Cells
    BY <1>2, Known DEF Works
  <2>2. pc' = "patch" => of = "store"
    BY <1>1, <1>8
  <2>3. Bears(ps, Data)
    BY <1>5, <1>9, <2>1, <2>2, FramesBear
  <2>4. ps \in Seq(ForStm)
    BY <1>5, <1>9, <2>1, FramesTyped
  <2>5. toStm' = toStm \o ps
    BY <1>8, <1>9 DEF Resend, SendStm
  <2> QED
    BY <1>5, <2>3, <2>4, <2>5
<1> QED
  BY <1>1, <1>6, <1>7, <1>10, SentSound

LEMMA PatchSound == ASSUME Works, Patient, Patch PROVE Sound'
<1>1. PICK r \in Pending : r = Head(queue)
  BY TakenTyped DEF Patch, Works
<1>2. /\ r.k = "patch" /\ pc = "idle" /\ stm' = stm /\ faults' = faults
  BY <1>1 DEF Patch, Next1, stmVars
<1>3. r.cell \in Cells /\ r.val \in Half /\ r.mark \in BOOLEAN
  BY <1>2 DEF Pending, Asked
<1>4. CASE UNCHANGED <<espVars, toStm, history>>
  BY <1>2, <1>4, CalmSound DEF espVars, Storing, Roles
<1>5. CASE /\ r.cell \in DOMAIN esp /\ esp[r.cell].loc # "remote"
           /\ esp' = [esp EXCEPT ![r.cell].data = <<r.val, r.val>>, ![r.cell].dirty = @ \/ r.mark]
           /\ UNCHANGED <<espTemp, pc, job, toStm>>
  <2>1. PICK d \in DOMAIN esp : d = r.cell
    BY <1>5
  <2>2. PICK y, b : y = <<r.val, r.val>> /\ b = (esp[d].dirty \/ r.mark)
    OBVIOUS
  <2>3. PICK x : x = [esp[d] EXCEPT !.data = y, !.dirty = b]
    OBVIOUS
  <2>4. esp[d] \in EspCell
    BY Known DEF Works
  <2>5. x.loc = esp[d].loc /\ x.data = y /\ Even(y)
    BY <2>2, <2>3, <2>4 DEF EspCell, CellSet, Even
  <2>6. esp' = [esp EXCEPT ![d] = x]
    <3>1. esp' = [esp EXCEPT ![d].data = y, ![d].dirty = b]
      BY <1>5, <2>1, <2>2
    <3> QED
      BY <2>3, <3>1
  <2>7. DOMAIN esp' = DOMAIN esp /\ esp'[d] = x /\ \A c \in DOMAIN esp : c # d => esp'[c] = esp[c]
    BY <2>6
  <2>8. ASSUME NEW c \in DOMAIN esp PROVE EvenAt(c)'
    <3>1. EvenAt(c)
      BY DEF Works, Sound, Evens
    <3>2. Role(c) = "none" /\ Role(c)' = "none"
      BY <1>2, <1>5 DEF Role
    <3>3. CASE c = d
      BY <1>2, <1>5, <2>1, <2>5, <2>7, <3>2, <3>3 DEF EvenAt
    <3>4. CASE c # d
      BY <1>2, <2>7, <3>1, <3>2, <3>4, EvenStays
    <3> QED
      BY <3>3, <3>4
  <2>9. Evens'
    BY <2>7, <2>8 DEF Evens
  <2> QED
    BY <1>2, <1>5, <2>9, RestSound DEF Storing
<1>6. CASE /\ r.cell \in DOMAIN esp /\ esp[r.cell].loc = "remote"
           /\ Wait("patch", [NoJob EXCEPT !.cell = r.cell, !.tries = 1, !.data = <<r.val, r.val>>])
           /\ SendStm(Frames("store", r.cell, <<r.val, r.val>>))
           /\ UNCHANGED <<esp, espTemp, history>>
  <2>1. PICK y : y = <<r.val, r.val>>
    OBVIOUS
  <2>2. y \in Half \X Half /\ Even(y)
    BY <1>3, <2>1 DEF Even
  <2>3. pc' = "patch" /\ job'.cell = r.cell /\ job'.tries = 1 /\ job'.data = y /\ esp' = esp
    BY <1>6, <2>1 DEF Wait, NoJob
  <2>4. Data' = y
    BY <2>3 DEF Data
  <2>5. PICK ps : ps = Frames("store", r.cell, y)
    OBVIOUS
  <2>6. ps \in Seq(ForStm) /\ Bears(ps, Data') /\ toStm' = toStm \o ps
    BY <1>3, <1>6, <2>1, <2>2, <2>4, <2>5, FramesBear, FramesTyped, "store" \in {"store", "fulfill"}
       DEF SendStm
  <2>7. Evens'
    BY <1>2, <2>3, EvensStay DEF Roles
  <2>8. Completing' => Counted'
    <3>1. faults \in Nat
      BY DEF Works, Typed, TypedWire
    <3> QED
      BY <1>2, <1>6, <2>2, <2>3, <3>1 DEF Counted
  <2> QED
    BY <2>3, <2>6, <2>7, <2>8, SentSound DEF Storing
<1> QED
  BY <1>1, <1>4, <1>5, <1>6 DEF Patch

(* The losses that retries are enough for.                                    *)
StoresEnd == "store2" \notin Lossy \/ MaxFaults < Tries

LEMMA PatchEndsSound == ASSUME Works, Patient, StoresEnd, PatchEnds PROVE Sound'
<1>1. pc = "patch" /\ pc' = "idle" /\ esp' = esp /\ stm' = stm /\ job' = NoJob
  BY DEF PatchEnds, Finish, stmVars
<1>2. PICK o \in Outcomes : Returns(o) /\ (o = "timeout" => job.tries >= Tries)
  BY DEF PatchEnds, Ends
<1>3. Even(stm[job.cell].data)
  <2>1. faults \in 0 .. MaxFaults /\ MaxFaults \in Nat /\ Tries \in Nat /\ job.tries \in Nat
    BY SlotSyncAssumption DEF Works, Typed, TypedWire, TypedEsp, Job
  <2>2. CASE o = "timeout" /\ faults >= job.tries /\ "store2" \in Lossy
    BY <1>2, <2>1, <2>2 DEF StoresEnd
  <2> QED
    BY <1>1, <1>2, <2>2, PatchHeard DEF Works, Sound
<1>4. ASSUME NEW c \in DOMAIN esp PROVE EvenAt(c)'
  <2>1. EvenAt(c)
    BY DEF Works, Sound, Evens
  <2>2. Role(c)' = "none"
    BY <1>1 DEF Role
  <2>3. CASE c = job.cell
    <3>1. Role(c) = "patch"
      BY <1>1, <2>3 DEF Role
    <3> QED
      BY <1>1, <1>3, <2>1, <2>2, <2>3, <3>1 DEF EvenAt
  <2>4. CASE c # job.cell
    <3>1. Role(c) = "none"
      BY <2>4 DEF Role
    <3> QED
      BY <1>1, <2>1, <2>2, <3>1, EvenStays
  <2> QED
    BY <2>3, <2>4
<1>5. Evens'
  BY <1>1, <1>4 DEF Evens
<1> QED
  BY <1>1, <1>5, RestSound DEF Storing

LEMMA AwaitSound == ASSUME Works, pc' \notin Storing, Fetched', Evens' PROVE Sound'
<1>1. Carried' /\ Begun' /\ Acked' /\ Counted'
  BY RestCarries DEF Works, Exchange
<1> QED
  BY <1>1, PairedTurn DEF Sound

(* Only one cell is at issue.                                                 *)
LEMMA EvensBut ==
    ASSUME Works, NEW d, pc \in Roles => job.cell = d, pc' \in Roles => job'.cell = d,
           \A c \in DOMAIN esp' : c # d =>
             c \in DOMAIN esp /\ esp'[c].loc = esp[c].loc /\ esp'[c].data = esp[c].data,
           d \in DOMAIN esp' => EvenAt(d)'
    PROVE  Evens'
<1>1. ASSUME NEW c \in DOMAIN esp', c # d PROVE EvenAt(c)'
  <2>1. Role(c) = "none" /\ Role(c)' = "none"
    BY <1>1 DEF Role, Roles
  <2>2. EvenAt(c) /\ stm' = stm
    BY <1>1 DEF Works, Sound, Evens, Handled
  <2> QED
    BY <1>1, <2>1, <2>2, EvenStays
<1>2. ASSUME NEW c \in DOMAIN esp' PROVE EvenAt(c)'
  BY <1>1, <1>2 DEF EvenAt, Role
<1> QED
  BY <1>2 DEF Evens

LEMMA ShippedIs ==
    ASSUME Typed, NEW d \in DOMAIN esp,
           esp' = Ship(d) \/ esp' = [Ship(d) EXCEPT ![d].dirty = FALSE]
    PROVE  /\ DOMAIN esp' = DOMAIN esp /\ esp'[d].loc = "remote" /\ esp'[d].data = Junk
           /\ \A c \in DOMAIN esp : c # d => esp'[c] = esp[c]
<1>1. PICK x : x = [esp[d] EXCEPT !.loc = "remote", !.data = Junk]
  OBVIOUS
<1>2. PICK y : y = [x EXCEPT !.dirty = FALSE]
  OBVIOUS
<1>3. esp[d] \in EspCell
  BY Known
<1>4. x.loc = "remote" /\ x.data = Junk /\ y.loc = "remote" /\ y.data = Junk
  BY <1>1, <1>2, <1>3 DEF EspCell, CellSet
<1>5. Ship(d) = [esp EXCEPT ![d] = x]
  BY <1>1 DEF Ship
<1>6. esp' = [esp EXCEPT ![d] = x] \/ esp' = [esp EXCEPT ![d] = y]
  <2>1. PICK s : s = Ship(d)
    OBVIOUS
  <2>2. s = [esp EXCEPT ![d] = x]
    BY <1>5, <2>1
  <2>3. [s EXCEPT ![d].dirty = FALSE] = [s EXCEPT ![d] = y]
    BY <1>2, <2>2
  <2>4. [s EXCEPT ![d] = y] = [esp EXCEPT ![d] = y]
    BY <2>2
  <2> QED
    BY <2>1, <2>2, <2>3, <2>4
<1> QED
  BY <1>4, <1>6

LEMMA GivenEvens ==
    ASSUME Works, NEW d \in DOMAIN esp, pc \in Roles => job.cell = d, pc' \notin Roles,
           esp' = Ship(d) \/ esp' = [Ship(d) EXCEPT ![d].dirty = FALSE],
           Even(stm[d].data)
    PROVE  Evens'
<1>1. /\ DOMAIN esp' = DOMAIN esp /\ esp'[d].loc = "remote" /\ esp'[d].data = Junk
      /\ \A c \in DOMAIN esp : c # d => esp'[c] = esp[c]
  BY ShippedIs DEF Works
<1>2. Even(Junk) /\ stm' = stm
  BY DEF Even, Junk, Works, Handled
<1>3. EvenAt(d)'
  BY <1>1, <1>2 DEF EvenAt, Even
<1> QED
  BY <1>1, <1>3, EvensBut

(* The display has a cell of the manager's whole once it says so.             *)
LEMMA StoredEven ==
    ASSUME Works, pc \in {"heat", "move"}, Returns("ok")
    PROVE  Even(stm[job.cell].data)
<1>1. job.cell \in DOMAIN esp
  BY DEF Works, AtWork, Storing
<1>2. EvenAt(job.cell)
  BY <1>1 DEF Works, Sound, Evens
<1>3. Role(job.cell) # "frames"
  BY DEF Role
<1>4. Even(esp[job.cell].data)
  BY <1>2, <1>3 DEF EvenAt
<1>5. stm[job.cell].data = Data
  BY StoredIs DEF Works, Sound, Storing
<1>6. Data = esp[job.cell].data
  BY DEF Data
<1> QED
  BY <1>4, <1>5, <1>6

LEMMA HeatEndsSound == ASSUME Works, HeatEnds PROVE Sound'
<1>1. pc = "heat" /\ pc' \in {"heating", "idle"} /\ job.cell \in DOMAIN esp
  BY DEF HeatEnds, Wait, Finish, Works, AtWork, Storing
<1>2. CASE esp' = esp
  BY <1>1, <1>2, CalmSound DEF Storing, Roles
<1>3. CASE Returns("ok") /\ esp' = [Ship(job.cell) EXCEPT ![job.cell].dirty = FALSE]
  <2>1. PICK d \in DOMAIN esp : d = job.cell
    BY <1>1
  <2>2. Even(stm[d].data)
    BY <1>1, <1>3, <2>1, StoredEven
  <2>3. esp' = [Ship(d) EXCEPT ![d].dirty = FALSE]
    BY <1>3, <2>1
  <2>4. Evens'
    BY <1>1, <2>2, <2>3, GivenEvens DEF Roles
  <2> QED
    BY <1>1, <2>4, RestSound DEF Storing
<1> QED
  BY <1>2, <1>3 DEF HeatEnds, Ends

LEMMA MoveEndsSound == ASSUME Works, MoveEnds PROVE Sound'
<1>1. pc = "move" /\ pc' = "idle" /\ job.cell \in DOMAIN esp
  BY DEF MoveEnds, Finish, Works, AtWork, Storing
<1>2. CASE esp' = esp
  BY <1>1, <1>2, CalmSound DEF Storing, Roles
<1>3. CASE Returns("ok") /\ esp' = Ship(job.cell)
  <2>1. PICK d \in DOMAIN esp : d = job.cell
    BY <1>1
  <2>2. Even(stm[d].data)
    BY <1>1, <1>3, <2>1, StoredEven
  <2>3. esp' = Ship(d)
    BY <1>3, <2>1
  <2>4. Evens'
    BY <1>1, <2>2, <2>3, GivenEvens DEF Roles
  <2> QED
    BY <1>1, <2>4, RestSound DEF Storing
<1> QED
  BY <1>2, <1>3 DEF MoveEnds, Ends

LEMMA ShrinkSound == ASSUME Works, Shrink PROVE Sound'
<1>1. PICK n : n = Head(queue).n
  OBVIOUS
<1>2. Head(queue) \in Pending /\ Head(queue).k = "size" /\ pc = "idle" /\ pc' = "size"
      /\ n < Len(esp) /\ esp' = SubSeq(esp, 1, n)
  BY <1>1, TakenTyped DEF Shrink, Wait, Works
<1>3. n \in Nat /\ Len(esp) \in Nat
  BY <1>1, <1>2, SizesAre, Known DEF Pending, Asked, Works
<1>4. \A c \in DOMAIN esp' : c \in DOMAIN esp /\ esp'[c] = esp[c]
  BY <1>2, <1>3, CutShort DEF Works
<1> QED
  BY <1>2, <1>4, EvensStay, RestSound DEF Storing, Roles

(* A slot with one cell more.                                                 *)
LEMMA GrownEvens ==
    ASSUME Works, pc \notin Roles, NEW x \in EspCell, x.data = Junk, esp' = Append(esp, x),
           \/ x.loc = "canonical" /\ pc' \notin Roles
           \/ pc' = "grow" /\ job'.cell = Len(esp) + 1
    PROVE  Evens'
<1>1. PICK d : d = Len(esp) + 1
  OBVIOUS
<1>2. \A c \in DOMAIN esp' : (c \in DOMAIN esp /\ esp'[c] = esp[c]) \/ (c = d /\ esp'[c] = x)
  BY <1>1, Grown DEF Works
<1>3. ASSUME d \in DOMAIN esp' PROVE EvenAt(d)'
  <2>1. d \notin DOMAIN esp
    BY <1>1, Known DEF Works
  <2>2. esp'[d] = x
    BY <1>2, <1>3, <2>1
  <2>3. Role(d)' = "grow" \/ (Role(d)' = "none" /\ x.loc = "canonical")
    BY <1>1 DEF Role, Roles
  <2> QED
    BY <2>2, <2>3 DEF EvenAt, Even, Junk
<1> QED
  BY <1>1, <1>2, <1>3, EvensBut DEF Roles

LEMMA GrowSound == ASSUME Works, Grow PROVE Sound'
<1> DEFINE x == Cell("canonical", FALSE, Junk)
<1>1. pc = "idle" /\ pc' \in {"idle", "size"} /\ (esp' = esp \/ esp' = Append(esp, x))
  BY DEF Grow, Next1, Wait, espVars
<1>2. x \in EspCell /\ x.loc = "canonical" /\ x.data = Junk
  BY Known DEF Cell, EspCell, CellSet, Works
<1> HIDE DEF x
<1>3. CASE esp' = esp
  BY <1>1, <1>3, CalmSound DEF Storing, Roles
<1>4. CASE esp' = Append(esp, x)
  BY <1>1, <1>2, <1>4, GrownEvens, RestSound DEF Storing, Roles
<1> QED
  BY <1>1, <1>3, <1>4

LEMMA SizeAgreedSound == ASSUME Works, Patient, SizeAgreed PROVE Sound'
<1>1. pc \in {"size", "undo"}
  BY DEF SizeAgreed
<1>2. Junk \in Half \X Half /\ MinSize \in Nat /\ job \in Job
      /\ (pc = "size" /\ job.grow # "done" => Len(esp) = MinSize)
  BY Known DEF Works, Typed, TypedEsp, AtWork
<1>3. CASE Finish /\ esp' = esp
  BY <1>1, <1>3, CalmSound DEF Finish, Storing, Roles
<1>4. CASE esp' = Append(esp, Cell("canonical", FALSE, Junk)) /\ Finish
  <2> DEFINE x == Cell("canonical", FALSE, Junk)
  <2>1. x \in EspCell /\ x.loc = "canonical" /\ x.data = Junk
    BY <1>2 DEF Cell, EspCell, CellSet
  <2>2. esp' = Append(esp, x) /\ pc' = "idle"
    BY <1>4 DEF Finish
  <2> HIDE DEF x
  <2> QED
    BY <1>1, <2>1, <2>2, GrownEvens, RestSound DEF Storing, Roles
<1>5. CASE /\ pc = "size" /\ job.grow # "done"
           /\ esp' = Append(esp, Cell("remote", FALSE, Junk))
           /\ Wait("grow", [job EXCEPT !.cell = Len(esp) + 1, !.tries = 1])
           /\ \/ SendStm(Frames("store", Len(esp) + 1, Junk))
              \/ SendStm(<<TempMsg("cold")>> \o Frames("store", Len(esp) + 1, Junk))
  <2> DEFINE x == Cell("remote", FALSE, Junk)
  <2>1. x \in EspCell /\ x.data = Junk
    BY <1>2 DEF Cell, EspCell, CellSet
  <2>2. PICK n : n = Len(esp) + 1
    OBVIOUS
  <2>3. n \in Cells
    BY <1>2, <1>5, <2>2 DEF Cells
  <2>4. esp' = Append(esp, x) /\ pc' = "grow" /\ job'.cell = n
    <3>1. job' = [job EXCEPT !.cell = n, !.tries = 1] /\ pc' = "grow"
      BY <1>5, <2>2 DEF Wait
    <3> QED
      BY <1>2, <1>5, <3>1 DEF Job
  <2> HIDE DEF x
  <2>5. Evens'
    BY <1>1, <2>1, <2>2, <2>4, GrownEvens DEF Roles
  <2>6. Data' = Junk
    BY <2>4 DEF Data
  <2>7. PICK fs : fs = Frames("store", n, Junk)
    OBVIOUS
  <2>8. fs \in Seq(ForStm) /\ Bears(fs, Junk)
    BY <1>2, <2>3, <2>7, FramesBear, FramesTyped, "store" \in {"store", "fulfill"}
  <2>9. PICK p : p = TempMsg("cold")
    OBVIOUS
  <2>10. p \in ForStm /\ p.k \notin Framed
    BY <2>9, MessagesTyped DEF Temps, Framed, Firsts, Seconds
  <2>11. <<p>> \o fs \in Seq(ForStm) /\ Bears(<<p>> \o fs, Junk)
    <3>1. <<p>> \in Seq(ForStm)
      BY <2>10
    <3>2. Bears(<<p>> \o fs, Junk)
      BY <1>2, <2>3, <2>7, <2>10, FramesBearAfter
    <3> QED
      BY <2>8, <3>1, <3>2, ConcatProperties
  <2>12. PICK ps : ps \in {fs, <<p>> \o fs} /\ toStm' = toStm \o ps
    BY <1>5, <2>2, <2>7, <2>9 DEF SendStm
  <2>13. ps \in Seq(ForStm) /\ Bears(ps, Data')
    BY <2>6, <2>8, <2>11, <2>12
  <2> QED
    BY <2>4, <2>5, <2>12, <2>13, SentSound DEF Storing
<1> QED
  BY <1>3, <1>4, <1>5 DEF SizeAgreed

LEMMA GrowEndsSound == ASSUME Works, GrowEnds PROVE Sound'
<1>1. pc = "grow" /\ stm' = stm
  BY DEF GrowEnds, stmVars
<1>2. job.cell = Len(esp) /\ Len(esp) \in Nat \ {0} /\ job.cell \in DOMAIN esp
  BY <1>1, Known DEF Works, AtWork, Storing
<1>3. PICK d \in DOMAIN esp : d = job.cell
  BY <1>2
<1>4. CASE Returns("ok") /\ Finish /\ esp' = esp
  <2>1. EvenAt(d)
    BY DEF Works, Sound, Evens
  <2>2. Role(d) = "grow" /\ Role(d)' = "none" /\ pc' = "idle"
    BY <1>1, <1>3, <1>4 DEF Role, Finish
  <2>3. stm[d].data = Junk
    BY <1>1, <1>3, <1>4, StoredIs DEF Works, Sound, Storing, Data
  <2>4. EvenAt(d)'
    BY <1>1, <1>4, <2>1, <2>2, <2>3 DEF EvenAt, Even, Junk
  <2>5. Evens'
    BY <1>3, <1>4, <2>2, <2>4, EvensBut DEF Roles
  <2> QED
    BY <2>2, <2>5, RestSound DEF Storing
<1>5. CASE esp' = SubSeq(esp, 1, job.cell - 1) /\ pc' = "undo"
  <2>1. PICK n : n = job.cell - 1
    OBVIOUS
  <2>2. n \in Nat /\ n <= Len(esp) /\ ~(d <= n)
    BY <1>2, <1>3, <2>1
  <2>3. /\ esp' \in Seq(EspCell) /\ Len(esp') = n
        /\ \A c \in DOMAIN esp' : c \in DOMAIN esp /\ esp'[c] = esp[c]
    BY <1>5, <2>1, <2>2, CutShort DEF Works
  <2>4. d \notin DOMAIN esp'
    BY <2>2, <2>3, LenProperties
  <2>5. Evens'
    BY <1>3, <1>5, <2>3, <2>4, EvensBut DEF Roles
  <2> QED
    BY <1>5, <2>5, RestSound DEF Storing
<1> QED
  BY <1>4, <1>5 DEF GrowEnds, Ends, Wait

LEMMA ReclaimSound == ASSUME Works, Patient, NEW c \in DOMAIN esp, Reclaim(c) PROVE Sound'
<1>1. /\ pc = "idle" /\ esp[c].loc = "remote" /\ pc' = "retrieve"
      /\ esp' = [esp EXCEPT ![c].loc = "canonical"] /\ job' = [NoJob EXCEPT !.cell = c]
  BY DEF Reclaim, Wait
<1>2. job'.cell = c
  BY <1>1 DEF NoJob
<1>3. PICK x : x = [esp[c] EXCEPT !.loc = "canonical"]
  OBVIOUS
<1>4. esp[c] \in EspCell
  BY Known DEF Works
<1>5. x.loc = "canonical" /\ x.data = esp[c].data
  BY <1>3, <1>4 DEF EspCell, CellSet
<1>6. esp' = [esp EXCEPT ![c] = x]
  BY <1>1, <1>3
<1>7. DOMAIN esp' = DOMAIN esp /\ esp'[c] = x /\ \A d \in DOMAIN esp : d # c => esp'[d] = esp[d]
  BY <1>6
<1>8. EvenAt(c)'
  <2>1. EvenAt(c) /\ stm' = stm
    BY DEF Works, Sound, Evens, Handled
  <2>2. Role(c) = "none" /\ Role(c)' = "retrieve"
    BY <1>1, <1>2 DEF Role
  <2> QED
    BY <1>1, <1>5, <1>7, <2>1, <2>2 DEF EvenAt, Even
<1>9. Evens'
  BY <1>1, <1>2, <1>7, <1>8, EvensBut DEF Roles
<1>10. \A i \in DOMAIN toEsp' : toEsp'[i].k \notin Acks
  BY Silence DEF Works, Exchange, Handled
<1>11. Fetched'
  BY <1>1, <1>10 DEF Fetched, Current, Acks
<1> QED
  BY <1>1, <1>9, <1>11, AwaitSound DEF Storing

LEMMA RetrieveAckedSound == ASSUME Works, RetrieveAcked PROVE Sound'
<1>1. pc = "retrieve" /\ Answered /\ pc' = "frames" /\ job' = job /\ esp' = esp /\ stm' = stm
  BY DEF RetrieveAcked, Wait, stmVars
<1>2. PICK t : t = Tail(toEsp)
  OBVIOUS
<1>3. /\ toEsp' = t /\ Head(toEsp) = toEsp[1] /\ 1 \in DOMAIN toEsp /\ t \in Seq(ForEsp)
      /\ \A i \in DOMAIN t : i \in Nat /\ i + 1 \in DOMAIN toEsp /\ t[i] = toEsp[i + 1]
  BY <1>1, <1>2, TailOf DEF Answered, Works, Typed, TypedWire
<1>4. toEsp[1].k = "ackRetrieve"
  BY <1>1, <1>3 DEF Answered, Wanted, Storing
<1>5. ASSUME NEW i \in DOMAIN t
      PROVE  /\ t[i].k \in {"data1", "data2"} => t[i].cell = job.cell
             /\ t[i].k = "data1" => t[i].val = stm[job.cell].data[1]
             /\ t[i].k = "data2" => t[i].val = stm[job.cell].data[2]
  <2>1. PICK n \in DOMAIN toEsp : n = i + 1 /\ t[i] = toEsp[n]
    BY <1>3
  <2>2. i \in Nat \ {0}
    BY <1>3, LenProperties
  <2>3. 1 < n
    BY <2>1, <2>2
  <2>4. Current(n)
    BY <1>1, <1>3, <1>4, <2>3 DEF Current
  <2> QED
    BY <2>1, <2>4 DEF Works, Sound, Fetched
<1>6. t # <<>> => Head(t).k # "data2"
  <2>1. ASSUME t # <<>> PROVE Head(t).k # "data2"
    <3>1. Head(t) = t[1] /\ 1 \in DOMAIN t
      BY <1>3, <2>1, TailOf
    <3>2. PICK n \in DOMAIN toEsp : n = 1 + 1 /\ t[1] = toEsp[n]
      BY <1>3, <3>1
    <3>3. toEsp[n].k # "data2"
      BY <1>3, <1>4, <3>2 DEF Works, Sound, Paired
    <3> QED
      BY <3>1, <3>2, <3>3
  <2> QED
    BY <2>1
<1>7. Fetched'
  BY <1>1, <1>3, <1>5, <1>6 DEF Fetched
<1>8. PICK d \in DOMAIN esp : d = job.cell
  BY <1>1 DEF Works, AtWork
<1>9. EvenAt(d)'
  <2>1. EvenAt(d) /\ Role(d) = "retrieve" /\ Role(d)' = "frames"
    BY <1>1, <1>8 DEF Works, Sound, Evens, Role
  <2> QED
    BY <1>1, <2>1 DEF EvenAt, Even
<1>10. Evens'
  BY <1>1, <1>8, <1>9, EvensBut
<1> QED
  BY <1>1, <1>7, <1>10, AwaitSound DEF Storing

LEMMA RetrieveTimeoutSound == ASSUME Works, RetrieveTimeout PROVE Sound'
<1>1. pc = "retrieve" /\ pc' = "idle" /\ esp' = esp /\ stm' = stm
  BY DEF RetrieveTimeout, Finish, stmVars
<1>2. PICK d \in DOMAIN esp : d = job.cell /\ esp[d].loc = "canonical"
  BY <1>1 DEF Works, AtWork
<1>3. EvenAt(d)'
  <2>1. EvenAt(d) /\ Role(d) = "retrieve" /\ Role(d)' = "none"
    BY <1>1, <1>2 DEF Works, Sound, Evens, Role
  <2> QED
    BY <1>1, <1>2, <2>1 DEF EvenAt, Even
<1>4. Evens'
  BY <1>1, <1>2, <1>3, EvensBut DEF Roles
<1> QED
  BY <1>1, <1>4, RestSound DEF Storing

(* The display has the cell whole that its data is fetched from.              *)
LEMMA FetchedEven ==
    ASSUME Works, pc = "frames"
    PROVE  job.cell \in DOMAIN stm /\ Even(stm[job.cell].data)
<1>1. job.cell \in DOMAIN esp /\ job.cell \in DOMAIN stm
  BY DEF Works, AtWork, Exchange, Held, Holds
<1>2. EvenAt(job.cell) /\ Role(job.cell) = "frames"
  BY <1>1 DEF Works, Sound, Evens, Role
<1> QED
  BY <1>1, <1>2 DEF EvenAt

LEMMA FrameTimeoutSound == ASSUME Works, FrameTimeout PROVE Sound'
<1>1. pc = "frames" /\ pc' = "idle" /\ esp' = Ship(job.cell)
  BY DEF FrameTimeout, Finish
<1>2. PICK d \in DOMAIN esp : d = job.cell
  BY <1>1 DEF Works, AtWork
<1>3. Even(stm[d].data) /\ esp' = Ship(d)
  BY <1>1, <1>2, FetchedEven
<1>4. Evens'
  BY <1>1, <1>2, <1>3, GivenEvens DEF Roles
<1> QED
  BY <1>1, <1>4, RestSound DEF Storing

(* Half the data has come back.                                               *)
LEMMA FrameTaken ==
    ASSUME Works, Frame
    PROVE  \E d, half, x :
             /\ d \in DOMAIN esp /\ half \in {1, 2}
             /\ pc = "frames" /\ Answered /\ d = job.cell /\ UNCHANGED <<stm, due, kept>>
             /\ d \in DOMAIN stm /\ Even(stm[d].data)
             /\ x.loc = "canonical" /\ x.dirty /\ x.data[half] = stm[d].data[half]
             /\ half = 1 => x.data[2] = esp[d].data[2]
             /\ half = 2 => x.data[1] = stm[d].data[1]
             /\ DOMAIN esp' = DOMAIN esp /\ esp'[d] = x /\ \A c \in DOMAIN esp : c # d => esp'[c] = esp[c]
             /\ (half = 1 /\ UNCHANGED <<pc, job>>) \/ (half = 2 /\ pc' = "idle")
<1>1. PICK p : p = Head(toEsp)
  OBVIOUS
<1>2. PICK half \in {1, 2} : half = IF p.k = "data1" THEN 1 ELSE 2
  OBVIOUS
<1>3. /\ pc = "frames" /\ Answered /\ UNCHANGED <<stm, due, kept>> /\ p.k \in {"data1", "data2"}
      /\ esp' = [esp EXCEPT ![p.cell].data[half] = p.val, ![p.cell].dirty = TRUE]
      /\ (half = 1 /\ UNCHANGED <<pc, job>>) \/ (half = 2 /\ Finish)
  <2>1. Wanted(p) /\ pc = "frames"
    BY <1>1 DEF Frame, Answered
  <2> QED
    BY <1>1, <1>2, <2>1 DEF Frame, stmVars, history, Wanted, Storing
<1>4. p = toEsp[1] /\ 1 \in DOMAIN toEsp /\ toEsp # <<>>
  BY <1>1, <1>3, TailOf DEF Answered, Works, Typed, TypedWire
<1>5. PICK d \in DOMAIN esp : d = job.cell /\ esp[d].loc = "canonical"
  BY <1>3 DEF Works, AtWork
<1>6. /\ p.cell = d /\ p.val = stm[d].data[half]
      /\ half = 2 => esp[d].data[1] = stm[d].data[1]
  <2>1. Current(1)
    BY <1>3 DEF Current
  <2>2. /\ p.cell = job.cell
        /\ p.k = "data1" => p.val = stm[job.cell].data[1]
        /\ p.k = "data2" => p.val = stm[job.cell].data[2]
    BY <1>3, <1>4, <2>1 DEF Works, Sound, Fetched
  <2>3. p.k = "data2" => esp[job.cell].data[1] = stm[job.cell].data[1]
    BY <1>1, <1>3, <1>4 DEF Works, Sound, Fetched
  <2> QED
    BY <1>2, <1>3, <1>5, <2>2, <2>3
<1>7. d \in DOMAIN stm /\ Even(stm[d].data)
  BY <1>3, <1>5, FetchedEven
<1>8. PICK v : v = p.val
  OBVIOUS
<1>9. PICK y : y = [esp[d].data EXCEPT ![half] = v]
  OBVIOUS
<1>10. PICK x : x = [esp[d] EXCEPT !.data = y, !.dirty = TRUE]
  OBVIOUS
<1>11. esp[d] \in EspCell
  BY Known DEF Works
<1>12. /\ x.loc = "canonical" /\ x.dirty /\ x.data = y /\ y[half] = v
       /\ half = 2 => y[1] = esp[d].data[1]
       /\ half = 1 => y[2] = esp[d].data[2]
  BY <1>5, <1>9, <1>10, <1>11 DEF EspCell, CellSet
<1>13. esp' = [esp EXCEPT ![d] = x]
  BY <1>3, <1>6, <1>8, <1>9, <1>10
<1>14. DOMAIN esp' = DOMAIN esp /\ esp'[d] = x /\ \A c \in DOMAIN esp : c # d => esp'[c] = esp[c]
  BY <1>13
<1>15. /\ x.data[half] = stm[d].data[half]
       /\ half = 1 => x.data[2] = esp[d].data[2]
       /\ half = 2 => x.data[1] = stm[d].data[1]
  BY <1>6, <1>8, <1>12
<1>16. (half = 1 /\ UNCHANGED <<pc, job>>) \/ (half = 2 /\ pc' = "idle")
  BY <1>3 DEF Finish
<1>17. /\ pc = "frames" /\ Answered /\ d = job.cell /\ UNCHANGED <<stm, due, kept>>
       /\ d \in DOMAIN stm /\ Even(stm[d].data) /\ x.loc = "canonical" /\ x.dirty
  BY <1>3, <1>5, <1>7, <1>12
<1> QED
  BY <1>14, <1>15, <1>16, <1>17

LEMMA FrameSound == ASSUME Works, Frame PROVE Sound'
<1>1. PICK d, half, x :
         /\ d \in DOMAIN esp /\ half \in {1, 2}
         /\ pc = "frames" /\ Answered /\ d = job.cell /\ UNCHANGED <<stm, due, kept>>
         /\ d \in DOMAIN stm /\ Even(stm[d].data)
         /\ x.loc = "canonical" /\ x.dirty /\ x.data[half] = stm[d].data[half]
         /\ half = 1 => x.data[2] = esp[d].data[2]
         /\ half = 2 => x.data[1] = stm[d].data[1]
         /\ DOMAIN esp' = DOMAIN esp /\ esp'[d] = x /\ \A c \in DOMAIN esp : c # d => esp'[c] = esp[c]
         /\ (half = 1 /\ UNCHANGED <<pc, job>>) \/ (half = 2 /\ pc' = "idle")
  BY FrameTaken
<1>2. PICK t : t = Tail(toEsp)
  OBVIOUS
<1>3. /\ toEsp' = t /\ t \in Seq(ForEsp)
      /\ \A i \in DOMAIN t : i \in Nat /\ i + 1 \in DOMAIN toEsp /\ t[i] = toEsp[i + 1]
  BY <1>1, <1>2, TailOf DEF Answered, Works, Typed, TypedWire
<1>4. CASE half = 1 /\ UNCHANGED <<pc, job>>
  <2>1. ASSUME NEW i \in DOMAIN t
        PROVE  /\ t[i].k \in {"data1", "data2"} => t[i].cell = job.cell
               /\ t[i].k = "data1" => t[i].val = stm[job.cell].data[1]
               /\ t[i].k = "data2" => t[i].val = stm[job.cell].data[2]
    <3>1. PICK n \in DOMAIN toEsp : n = i + 1 /\ t[i] = toEsp[n]
      BY <1>3
    <3>2. Current(n)
      BY <1>1 DEF Current
    <3> QED
      BY <3>1, <3>2 DEF Works, Sound, Fetched
  <2>2. esp'[d].data[1] = stm[d].data[1]
    BY <1>1, <1>4
  <2>3. Fetched'
    BY <1>1, <1>3, <1>4, <2>1, <2>2 DEF Fetched
  <2>4. EvenAt(d)'
    <3>1. Role(d)' = "frames"
      BY <1>1, <1>4 DEF Role
    <3> QED
      BY <1>1, <3>1 DEF EvenAt, Even
  <2>5. Evens'
    BY <1>1, <1>4, <2>4, EvensBut
  <2> QED
    BY <1>1, <1>4, <2>3, <2>5, AwaitSound DEF Storing
<1>5. CASE half = 2 /\ pc' = "idle"
  <2>1. EvenAt(d)'
    <3>1. Role(d)' = "none"
      BY <1>5 DEF Role
    <3>2. Even(x.data)
      BY <1>1, <1>5 DEF Even
    <3> QED
      BY <1>1, <3>1, <3>2 DEF EvenAt, Even
  <2>2. Evens'
    BY <1>1, <1>5, <2>1, EvensBut DEF Roles
  <2> QED
    BY <1>5, <2>2, RestSound DEF Storing
<1> QED
  BY <1>1, <1>4, <1>5

LEMMA ManagerSound ==
    ASSUME Works, Patient, StoresEnd, Manager
    PROVE  Sound'
<1>1. CASE Resend \/ Sweep \/ FlushEnds \/ Patch \/ PatchEnds \/ Triggered \/ MarkDirty
  BY <1>1, ResendSound, SweepSound, FlushEndsSound, PatchSound, PatchEndsSound, TriggeredSound,
     MarkDirtySound
<1>2. CASE StartFlush \/ SetTemp \/ SameSize \/ SizeResend \/ SizeGivenUp \/ Demote \/ Reinstate
  BY <1>2, EasySound
<1>3. CASE Heating \/ HeatEnds \/ Shrink \/ Grow \/ SizeAgreed \/ GrowEnds
  BY <1>3, HeatingSound, HeatEndsSound, ShrinkSound, GrowSound, SizeAgreedSound, GrowEndsSound
<1>4. CASE MoveEnds \/ RetrieveAcked \/ RetrieveTimeout \/ Frame \/ FrameTimeout
  BY <1>4, MoveEndsSound, RetrieveAckedSound, RetrieveTimeoutSound, FrameSound, FrameTimeoutSound
<1>5. CASE \E c \in DOMAIN esp : MoveOut(c) \/ Reclaim(c)
  BY <1>5, MoveOutSound, ReclaimSound
<1> QED
  BY <1>1, <1>2, <1>3, <1>4, <1>5 DEF Manager, Handle, Pressure

LEMMA SoundInit == Init => Sound
<1> SUFFICES ASSUME Init PROVE Sound
  OBVIOUS
<1>1. toStm = <<>> /\ toEsp = <<>> /\ DOMAIN <<>> = {} /\ pc = "idle"
  BY DEF Init
<1>2. ASSUME NEW c \in DOMAIN esp PROVE EvenAt(c)
  <2>1. esp[c].loc = "canonical" /\ esp[c].data = Junk
    BY <1>2 DEF Init, Cell
  <2>2. Role(c) = "none"
    BY <1>1 DEF Role
  <2> QED
    BY <2>1, <2>2 DEF EvenAt, Even, Junk
<1>3. Carried /\ Begun /\ Acked /\ Paired /\ Fetched /\ Counted
  BY <1>1 DEF Carried, Begun, Acked, Paired, Fetched, Counted
<1> QED
  BY <1>2, <1>3 DEF Sound, Evens

LEMMA SoundStep ==
    ASSUME Patient, FirstsArrive, StoresEnd
    PROVE  Typed /\ AtWork /\ Exchange /\ Sound /\ [Next]_vars => Sound'
<1> SUFFICES ASSUME Typed, AtWork, Exchange, Sound, [Next]_vars PROVE Sound'
  OBVIOUS
<1>1. Typed' /\ AtWork' /\ Exchange'
  BY TypedStep, ExchangeStep
<1>2. CASE UNCHANGED vars
  <2>1. UNCHANGED <<esp, pc, job, stm, err, toStm, toEsp, faults>>
    BY <1>2 DEF vars, espVars, stmVars
  <2>2. Data' = Data /\ Place' = Place
    BY <2>1 DEF Data, Place
  <2>3. Carried' /\ Begun' /\ Acked' /\ Paired'
    BY <2>1, <2>2 DEF Sound, Carried, Begun, InPlace, Acked, Paired
  <2>4. Fetched' /\ Counted'
    BY <2>1 DEF Sound, Fetched, Current, Counted, Completing, Answering
  <2>5. Evens'
    BY <2>1 DEF Sound, Evens, EvenAt, Role
  <2> QED
    BY <2>3, <2>4, <2>5 DEF Sound
<1>3. CASE Manager
  <2>1. Handled
    BY <1>3, ManagerDone DEF Manager
  <2> QED
    BY <1>1, <1>3, <2>1, ManagerSound DEF Works
<1>4. CASE Others
  BY <1>1, <1>4, OthersSound
<1> QED
  BY <1>2, <1>3, <1>4 DEF Manager, Others

-----------------------------------------------------------------------------
(* The halves: what the display shows                                        *)

SecondsArrive == Lossy \cap Seconds = {}

(* A cell of two writes is the one whose second half comes next.              *)
Halves ==
  \A c \in DOMAIN stm : ~Even(stm[c].data) =>
    toStm # <<>> /\ Head(toStm).k \in Seconds /\ err = "ok" /\ InPlace /\ c = job.cell

LEMMA DataEven ==
    ASSUME Typed, AtWork, Sound, pc \in Storing
    PROVE  Even(Data)
<1>1. CASE pc = "patch"
  BY <1>1 DEF Sound, Counted, Data
<1>2. CASE pc = "grow"
  BY <1>2 DEF Data, Even, Junk
<1>3. CASE pc \notin {"patch", "grow"}
  <2>1. job.cell \in DOMAIN esp
    BY DEF AtWork
  <2>2. EvenAt(job.cell)
    BY <2>1 DEF Sound, Evens
  <2>3. Role(job.cell) # "frames"
    BY DEF Role, Storing
  <2> QED
    BY <1>3, <2>2, <2>3 DEF EvenAt, Data
<1> QED
  BY <1>1, <1>2, <1>3

(* Until a second half is taken, the cells that are left alone stay whole.    *)
LEMMA SparedHalves ==
    ASSUME Halves, Spares, err' = err, UNCHANGED <<pc, job>>, Place' = Place,
           toStm' = toStm \/ (toStm # <<>> => Head(toStm).k \notin Seconds)
    PROVE  Halves'
<1>1. ASSUME NEW c \in DOMAIN stm', ~Even(stm'[c].data)
      PROVE  toStm' # <<>> /\ Head(toStm').k \in Seconds /\ err' = "ok" /\ InPlace' /\ c = job'.cell
  <2>1. stm'[c].data # Junk
    BY <1>1 DEF Even, Junk
  <2>2. Alike(c)
    BY <1>1, <2>1 DEF Spares, Dropped
  <2>3. toStm # <<>> /\ Head(toStm).k \in Seconds /\ err = "ok" /\ InPlace /\ c = job.cell
    BY <1>1, <2>2 DEF Halves, Alike
  <2>4. InPlace'
    BY <1>1, <2>2, <2>3 DEF InPlace, Alike
  <2> QED
    BY <2>3, <2>4
<1> QED
  BY <1>1 DEF Halves, Even

LEMMA FirstHalves ==
    ASSUME Typed, AtWork, Exchange, Carried, Halves, Typed', Exchange',
           NEW of \in {"store", "fulfill"}, FirstFrame(of), UNCHANGED <<pc, job>>, Place' = Place,
           Data' = Data
    PROVE  Halves'
<1>1. pc \in Storing /\ Head(toStm).k \in Firsts /\ Takes
  BY FrameIs, 1 \in {1, 2} DEF FirstFrame, Takes
<1>2. toStm' # <<>> /\ Head(toStm').k \in Seconds
  BY <1>1, CarriedOn
<1>3. \A c \in DOMAIN stm : Even(stm[c].data)
  BY <1>1 DEF Halves, Firsts, Seconds
<1>4. /\ DOMAIN stm' = DOMAIN stm
      /\ \/ stm' = stm
         \/ /\ err' = "ok" /\ job.cell \in DOMAIN stm /\ stm'[job.cell].loc = Place
            /\ \A c \in DOMAIN stm : c # job.cell => stm'[c] = stm[c]
  BY FirstFrameShows
<1>5. ASSUME NEW c \in DOMAIN stm', ~Even(stm'[c].data) PROVE err' = "ok" /\ InPlace' /\ c = job'.cell
  BY <1>3, <1>4, <1>5 DEF InPlace
<1> QED
  BY <1>2, <1>5 DEF Halves, Even

LEMMA LastHalves ==
    ASSUME Typed, AtWork, Exchange, Sound, Halves, Typed',
           NEW of \in {"store", "fulfill"}, LastFrame(of)
    PROVE  Halves'
<1>1. pc \in Storing /\ Head(toStm).k \in Seconds /\ toStm # <<>>
  BY FrameIs, 2 \in {1, 2} DEF LastFrame, Sound
<1>2. /\ DOMAIN stm' = DOMAIN stm
      /\ \/ /\ err = "ok" /\ InPlace
            /\ stm'[job.cell].data[1] = stm[job.cell].data[1] /\ stm'[job.cell].data[2] = Data[2]
            /\ \A c \in DOMAIN stm : c # job.cell => stm'[c] = stm[c]
         \/ stm' = stm /\ ~(err = "ok" /\ InPlace)
  BY LastFrameShows DEF Sound
<1>3. ASSUME NEW c \in DOMAIN stm PROVE Even(stm'[c].data)
  <2>1. CASE stm' = stm /\ ~(err = "ok" /\ InPlace)
    BY <2>1 DEF Halves
  <2>2. CASE err = "ok" /\ InPlace /\ c # job.cell /\ stm'[c] = stm[c]
    BY <2>2 DEF Halves
  <2>3. CASE /\ err = "ok" /\ InPlace /\ c = job.cell
             /\ stm'[c].data[1] = stm[c].data[1] /\ stm'[c].data[2] = Data[2]
    <3>1. stm[c].data[1] = Data[1]
      BY <1>1, <2>3 DEF Sound, Begun
    <3> QED
      BY <1>1, <2>3, <3>1, DataEven DEF Even
  <2> QED
    BY <1>2, <2>1, <2>2, <2>3
<1> QED
  BY <1>2, <1>3 DEF Halves, Even

LEMMA OthersHalves ==
    ASSUME Typed, AtWork, Exchange, Sound, Halves, FirstsArrive, SecondsArrive,
           Typed', Exchange', Others
    PROVE  Halves'
<1>1. UNCHANGED <<pc, job>> /\ Data' = Data /\ Place' = Place
  BY OthersLeave DEF Others
<1>2. CASE Feeds
  BY <1>1, <1>2, FirstHalves DEF Feeds, Sound
<1>3. CASE Completes
  BY <1>3, LastHalves DEF Completes
<1>4. CASE ~Feeds /\ ~Completes
  <2>1. Spares /\ err' = err
    BY <1>4, OthersDoNotFeed
  <2>2. toStm' = toStm \/ (toStm # <<>> => Head(toStm).k \notin Seconds)
    <3>1. CASE Notes \/ Retrieved
      BY <3>1 DEF Notes, SetSize, TempInformed, TempAcked, DataAcked, Retrieved, Got, Seconds
    <3>2. CASE LoseToStm
      BY <3>2 DEF LoseToStm, SecondsArrive
    <3>3. CASE Poll \/ Screens \/ App \/ Route \/ LoseToEsp
      BY <3>3, PollSays DEF Route, LoseToEsp
    <3> QED
      BY <1>4, <3>1, <3>2, <3>3, OthersAre
  <2> QED
    BY <1>1, <2>1, <2>2, SparedHalves
<1> QED
  BY <1>2, <1>3, <1>4

LEMMA HalvesStep ==
    ASSUME Patient, FirstsArrive, SecondsArrive
    PROVE  Typed /\ AtWork /\ Exchange /\ Sound /\ Halves /\ [Next]_vars => Halves'
<1> SUFFICES ASSUME Typed, AtWork, Exchange, Sound, Halves, [Next]_vars PROVE Halves'
  OBVIOUS
<1>1. Typed' /\ AtWork' /\ Exchange'
  BY TypedStep, ExchangeStep
<1>2. CASE UNCHANGED vars
  <2>1. UNCHANGED <<esp, pc, job, stm, err, toStm>>
    BY <1>2 DEF vars, espVars, stmVars
  <2> QED
    BY <2>1 DEF Halves, InPlace, Place
<1>3. CASE Manager
  <2>1. Handled
    BY <1>3, ManagerDone DEF Manager
  <2>2. \A i \in DOMAIN toStm : toStm[i].k \in Aside \cup {"ackData"}
    BY <2>1, Silence DEF Exchange, Handled
  <2>3. toStm # <<>> => 1 \in DOMAIN toStm /\ Head(toStm) = toStm[1]
    BY TailOf DEF Typed, TypedWire
  <2>4. \A c \in DOMAIN stm : Even(stm[c].data)
    BY <2>2, <2>3 DEF Halves, Aside, Seconds
  <2> QED
    BY <2>1, <2>4 DEF Handled, Halves, Even
<1>4. CASE Others
  BY <1>1, <1>4, OthersHalves
<1> QED
  BY <1>2, <1>3, <1>4 DEF Manager, Others

LEMMA HalvesInit == Init => Halves
  BY DEF Init, NewRemote, Cell, Halves, Even, Junk

(* The display never keeps half an update: as long as frames are not lost,    *)
(* the halves of a cell differ only while the frame that completes it is on   *)
(* its way, whatever other packets are lost, and whatever is moved, evicted,  *)
(* fetched back or tried again.                                               *)
THEOREM NeverHalved ==
    ASSUME Patient, FirstsArrive, SecondsArrive
    PROVE  Spec => []Whole
<1>1. StoresEnd
  BY DEF StoresEnd, SecondsArrive, Seconds
<1>2. Typed /\ Exchange /\ Halves => Whole
  <2> SUFFICES ASSUME Typed, Exchange, Halves, NEW c \in DOMAIN stm, ~Even(stm[c].data)
               PROVE  \E i \in DOMAIN toStm : toStm[i].k \in Seconds /\ toStm[i].cell = c
    BY DEF Whole, Even, Seconds
  <2>1. toStm # <<>> /\ Head(toStm).k \in Seconds /\ c = job.cell
    BY DEF Halves
  <2>2. 1 \in DOMAIN toStm /\ Head(toStm) = toStm[1]
    BY <2>1, TailOf DEF Typed, TypedWire
  <2>3. toStm[1].cell = job.cell
    BY <2>1, <2>2 DEF Exchange, OneExchange, Expected, Seconds
  <2> QED
    BY <2>1, <2>2, <2>3
<1>3. Typed /\ AtWork /\ Exchange /\ Sound /\ Halves /\ [Next]_vars => Sound' /\ Halves'
  BY <1>1, SoundStep, HalvesStep
<1> QED
  BY <1>2, <1>3, TypedInit, TypedStep, ExchangeInit, ExchangeStep, SoundInit, HalvesInit, PTL DEF Spec

-----------------------------------------------------------------------------
(* Writes: whoever has a cell has every write that was promised              *)

RetrievesArrive == Lossy \cap {"retrieve", "ackRetrieve"} = {}
SizesArrive == "setSize" \notin Lossy

Below(x, n) == x[1] <= n /\ x[2] <= n
AtMost(x, y) == x[1] <= y[1] /\ x[2] <= y[2]
Meets(x, n) == n <= x[1] /\ n <= x[2]

(* The display has the data of these, or is to have it.                       *)
Away(c) == esp[c].loc = "remote" \/ Role(c) \in {"retrieve", "frames"}

(* A cell's holder has what was written, what the display shows of a clean    *)
(* cell is what was to be shown, and it shows nothing newer than the holder   *)
(* has (unless a change of size was lost).                                    *)
Stored(c) ==
  /\ ~Away(c) => Meets(esp[c].data, due[c]) /\ Meets(esp[c].data, kept[c])
  /\ Away(c) /\ c \in DOMAIN stm => Meets(stm[c].data, due[c]) /\ Meets(stm[c].data, kept[c])
  /\ Role(c) = "grow" => due[c] = 0 /\ kept[c] = 0
  /\ Role(c) = "patch" => Meets(job.data, due[c]) /\ Meets(job.data, kept[c])
Shown(c) ==
  c \in DOMAIN stm /\ ~Away(c) /\ ~esp[c].dirty /\ stm[c].loc = "ephemeral" => Meets(stm[c].data, due[c])
Older(c) ==
  SizesArrive /\ c \in DOMAIN stm =>
    /\ ~Away(c) => AtMost(stm[c].data, esp[c].data)
    /\ Role(c) = "grow" => stm[c].data = Junk
    /\ Role(c) = "patch" => AtMost(stm[c].data, job.data)
Good(c) == Stored(c) /\ Shown(c) /\ Older(c)

(* A cell that the slot does not have now.                                    *)
Cutting(c) == \E i \in DOMAIN toStm : toStm[i].k = "setSize" /\ toStm[i].n < c
Bare(c) ==
  /\ due[c] = 0 /\ kept[c] = 0
  /\ SizesArrive /\ c \in DOMAIN stm => stm[c].data = Junk \/ Cutting(c)

(* A retrieve is on its way to where the data is, or has been answered.       *)
Fetching ==
  pc = "retrieve" =>
    \/ \E i \in DOMAIN toEsp : toEsp[i].k = "ackRetrieve"
    \/ /\ Holds(job.cell)
       /\ \E i \in DOMAIN toStm : toStm[i].k = "retrieve"
       /\ \A i \in DOMAIN toStm : toStm[i].k = "ackData" => toStm[i].cell # job.cell

(* The writes that wait are newer than all that was done.                     *)
UpTo(n) ==
  /\ \A c \in Cells : due[c] <= n /\ kept[c] <= n
  /\ \A c \in DOMAIN esp : Below(esp[c].data, n)
  /\ \A c \in DOMAIN stm : Below(stm[c].data, n)
  /\ pc = "patch" => Below(job.data, n)
Ordered ==
  /\ UpTo(writes)
  /\ \A i \in DOMAIN queue : queue[i].k = "patch" => queue[i].val <= writes /\ UpTo(queue[i].val)
  /\ \A i, j \in DOMAIN queue : i < j /\ queue[i].k = "patch" /\ queue[j].k = "patch" =>
       queue[i].val <= queue[j].val

FlushDirty == pc = "flush" => esp[job.cell].dirty

Goods == \A c \in DOMAIN esp : Good(c)
Bares == \A c \in Cells : c \notin DOMAIN esp => Bare(c)
Right == Goods /\ Bares /\ Fetching /\ Ordered /\ FlushDirty

LEMMA Numbers ==
    ASSUME Typed
    PROVE  /\ \A c \in Cells : due[c] \in Nat /\ kept[c] \in Nat
           /\ \A c \in DOMAIN esp : c \in Cells /\ esp[c].data[1] \in Nat /\ esp[c].data[2] \in Nat
           /\ \A c \in DOMAIN stm : c \in Cells /\ stm[c].data[1] \in Nat /\ stm[c].data[2] \in Nat
           /\ job.data[1] \in Nat /\ job.data[2] \in Nat /\ writes \in Nat
<1>1. Half \subseteq Nat
  BY DEF Half
<1>2. \A x \in Half \X Half : x[1] \in Nat /\ x[2] \in Nat
  BY <1>1
<1>3. /\ \A c \in DOMAIN esp : c \in Cells /\ esp[c].data \in Half \X Half
      /\ \A c \in DOMAIN stm : c \in Cells /\ stm[c].data \in Half \X Half
  BY Known DEF EspCell, StmCell, CellSet
<1>4. due \in [Cells -> Half] /\ kept \in [Cells -> Half] /\ writes \in Nat
  BY DEF Typed, TypedApp
<1>5. job.data \in Half \X Half
  BY DEF Typed, TypedEsp, Job
<1> QED
  BY <1>1, <1>2, <1>3, <1>4, <1>5

LEMMA JunkIs == Junk[1] = 0 /\ Junk[2] = 0
  BY DEF Junk

(* The queue moves on, or has something more at its end.                      *)
LEMMA OrderedOn ==
    ASSUME Typed, Typed', Ordered, queue' = queue \/ (queue # <<>> /\ queue' = Tail(queue)),
           writes' = writes,
           \A n \in Nat :
             UpTo(n) /\ (queue' # queue /\ Head(queue).k = "patch" => Head(queue).val <= n) => UpTo(n)'
    PROVE  Ordered'
<1>1. queue \in Seq(Pending) /\ writes \in Nat
  BY DEF Typed, TypedWire, TypedApp
<1>2. ASSUME NEW q \in Pending, q.k = "patch" PROVE q.val \in Nat
  BY <1>2 DEF Pending, Asked, Half
<1>3. CASE queue' = queue
  <2>1. \A i \in DOMAIN queue : queue[i] \in Pending
    BY <1>1, LenProperties, ElementOfSeq
  <2>2. ASSUME NEW n \in Nat, UpTo(n) PROVE UpTo(n)'
    BY <1>3, <2>2
  <2>3. UpTo(writes)'
    BY <1>1, <2>2 DEF Ordered
  <2>4. ASSUME NEW i \in DOMAIN queue, queue[i].k = "patch"
        PROVE  queue[i].val <= writes /\ UpTo(queue[i].val)'
    <3>1. PICK v \in Nat : v = queue[i].val
      BY <1>2, <2>1, <2>4
    <3>2. v <= writes /\ UpTo(v)
      BY <2>4, <3>1 DEF Ordered
    <3>3. UpTo(v)'
      BY <2>2, <3>2
    <3> QED
      BY <1>3, <3>1, <3>2, <3>3 DEF UpTo
  <2> QED
    BY <1>3, <2>3, <2>4 DEF Ordered, UpTo
<1>4. CASE queue # <<>> /\ queue' = Tail(queue) /\ queue' # queue
  <2>1. PICK t : t = Tail(queue)
    OBVIOUS
  <2>2. /\ queue' = t /\ Head(queue) = queue[1] /\ 1 \in DOMAIN queue /\ t \in Seq(Pending)
        /\ \A i \in DOMAIN t : i \in Nat /\ i + 1 \in DOMAIN queue /\ t[i] = queue[i + 1]
    BY <1>1, <1>4, <2>1, TailOf
  <2>3. \A i \in DOMAIN t : i \in Nat \ {0} /\ t[i] \in Pending
    BY <2>2, LenProperties, ElementOfSeq
  <2>4. \A i \in DOMAIN t : \E m \in DOMAIN queue : m = i + 1 /\ t[i] = queue[m]
    BY <2>2
  <2>5. ASSUME NEW n \in Nat, UpTo(n), queue[1].k = "patch" => queue[1].val <= n PROVE UpTo(n)'
    BY <1>4, <2>2, <2>5
  <2>6. UpTo(writes)'
    BY <1>1, <2>2, <2>5 DEF Ordered
  <2>7. ASSUME NEW i \in DOMAIN t, t[i].k = "patch"
        PROVE  t[i].val <= writes /\ UpTo(t[i].val)'
    <3>1. PICK m \in DOMAIN queue : m = i + 1 /\ t[i] = queue[m]
      BY <2>4
    <3>2. PICK v \in Nat : v = t[i].val
      BY <1>2, <2>3, <2>7
    <3>3. v <= writes /\ UpTo(v)
      BY <2>7, <3>1, <3>2 DEF Ordered
    <3>4. 1 < m
      BY <2>3, <3>1
    <3>5. queue[1].k = "patch" => queue[1].val <= v
      BY <2>2, <2>7, <3>1, <3>2, <3>4 DEF Ordered
    <3>6. UpTo(v)'
      BY <2>5, <3>3, <3>5
    <3> QED
      BY <2>2, <3>2, <3>3, <3>6 DEF UpTo
  <2>8. ASSUME NEW i \in DOMAIN t, NEW j \in DOMAIN t, i < j, t[i].k = "patch", t[j].k = "patch"
        PROVE  t[i].val <= t[j].val
    <3>1. PICK m \in DOMAIN queue : m = i + 1 /\ t[i] = queue[m]
      BY <2>4
    <3>2. PICK l \in DOMAIN queue : l = j + 1 /\ t[j] = queue[l]
      BY <2>4
    <3>3. m < l
      BY <2>3, <2>8, <3>1, <3>2
    <3> QED
      BY <2>8, <3>1, <3>2, <3>3 DEF Ordered
  <2> QED
    BY <2>2, <2>6, <2>7, <2>8 DEF Ordered, UpTo
<1> QED
  BY <1>3, <1>4

(* A cell that a step of the manager leaves alone, but may mark.              *)
Same(c) ==
  /\ c \in DOMAIN esp /\ esp'[c].loc = esp[c].loc /\ esp'[c].data = esp[c].data
  /\ ~esp'[c].dirty => ~esp[c].dirty
  /\ due'[c] = due[c] /\ kept'[c] = kept[c]

LEMMA GoodStays ==
    ASSUME NEW c, stm' = stm, Good(c), Same(c), Away(c)' <=> Away(c),
           Role(c)' \in {"grow", "patch"} => Role(c)' = Role(c) /\ job'.data = job.data
    PROVE  Good(c)'
<1>1. Stored(c)'
  BY DEF Good, Stored, Same, Meets
<1>2. Shown(c)'
  BY DEF Good, Shown, Same, Meets
<1>3. Older(c)'
  BY DEF Good, Older, Same, AtMost
<1> QED
  BY <1>1, <1>2, <1>3 DEF Good

LEMMA ManagerTakes ==
    ASSUME Manager
    PROVE  /\ writes' = writes
           /\ queue' = queue \/ (queue # <<>> /\ queue' = Tail(queue))
<1>1. CASE Patch \/ Triggered \/ MarkDirty \/ SetTemp \/ Shrink \/ Grow \/ SameSize
  BY <1>1 DEF Patch, Triggered, MarkDirty, SetTemp, Shrink, Grow, SameSize, Next1, appVars
<1>2. CASE Resend
  BY <1>2 DEF Resend, appVars
<1>3. CASE FlushEnds \/ PatchEnds
  BY <1>3 DEF FlushEnds, PatchEnds, appVars
<1>4. CASE Heating \/ HeatEnds
  BY <1>4 DEF Heating, HeatEnds, appVars
<1>5. CASE SizeResend \/ SizeGivenUp \/ SizeAgreed \/ GrowEnds \/ MoveEnds
  BY <1>5 DEF SizeResend, SizeGivenUp, SizeAgreed, GrowEnds, MoveEnds, appVars
<1>6. CASE RetrieveAcked \/ RetrieveTimeout \/ Frame \/ FrameTimeout
  BY <1>6 DEF RetrieveAcked, RetrieveTimeout, Frame, FrameTimeout, appVars
<1>7. CASE StartFlush \/ Sweep \/ Demote \/ Reinstate
  BY <1>7 DEF StartFlush, Sweep, Demote, Reinstate, appVars
<1>8. CASE \E c \in DOMAIN esp : MoveOut(c) \/ Reclaim(c)
  <2>1. PICK c \in DOMAIN esp : MoveOut(c) \/ Reclaim(c)
    BY <1>8
  <2> QED
    BY <2>1 DEF MoveOut, Reclaim, appVars
<1> QED
  BY <1>1, <1>2, <1>3, <1>4, <1>5, <1>6, <1>7, <1>8 DEF Manager, Handle, Pressure

(* Only one cell is at issue.                                                 *)
Taken(n) == queue' # queue /\ Head(queue).k = "patch" => Head(queue).val <= n
LEMMA RightBut ==
    ASSUME Works, Right, Manager, NEW d,
           pc \in Roles => job.cell = d, pc' \in Roles => job'.cell = d,
           \A c \in DOMAIN esp' : c # d => Same(c),
           Bares', Fetching', FlushDirty',
           d \in DOMAIN esp' => Good(d)',
           \A n \in Nat : UpTo(n) /\ Taken(n) =>
             /\ d \in DOMAIN esp' => Below(esp'[d].data, n) /\ due'[d] <= n /\ kept'[d] <= n
             /\ pc' = "patch" => Below(job'.data, n)
    PROVE  Right'
<1>1. ASSUME NEW c \in DOMAIN esp', c # d PROVE Good(c)'
  <2>1. Role(c) = "none" /\ Role(c)' = "none"
    BY <1>1 DEF Role, Roles
  <2>2. Good(c) /\ Same(c) /\ stm' = stm
    BY <1>1 DEF Right, Goods, Same, Works, Handled
  <2>3. Away(c)' <=> Away(c)
    BY <2>1, <2>2 DEF Away, Same
  <2> QED
    BY <2>1, <2>2, <2>3, GoodStays
<1>2. ASSUME NEW c \in DOMAIN esp' PROVE Good(c)'
  BY <1>1, <1>2 DEF Good, Stored, Shown, Older, Away, Role
<1>3. ASSUME NEW n \in Nat, UpTo(n), Taken(n) PROVE UpTo(n)'
  <2>1. \A c \in Cells : due'[c] <= n /\ kept'[c] <= n
    <3>1. ASSUME NEW c \in Cells PROVE due'[c] <= n /\ kept'[c] <= n
      <4>1. CASE c \notin DOMAIN esp'
        BY <4>1 DEF Bares, Bare
      <4>2. CASE c \in DOMAIN esp' /\ c # d
        BY <1>3, <4>2 DEF UpTo, Same
      <4>3. CASE c \in DOMAIN esp' /\ c = d
        BY <1>3, <4>3
      <4> QED
        BY <4>1, <4>2, <4>3
    <3> QED
      BY <3>1
  <2>2. \A c \in DOMAIN esp' : Below(esp'[c].data, n)
    BY <1>3 DEF UpTo, Same
  <2>3. \A c \in DOMAIN stm' : Below(stm'[c].data, n)
    BY <1>3 DEF UpTo, Works, Handled
  <2>4. pc' = "patch" => Below(job'.data, n)
    BY <1>3
  <2> QED
    BY <2>1, <2>2, <2>3, <2>4 DEF UpTo, Below
<1>4. Ordered'
  BY <1>3, ManagerTakes, OrderedOn DEF Right, Works, Taken
<1> QED
  BY <1>2, <1>4 DEF Right, Goods

LEMMA BaresStay ==
    ASSUME Works, Patient, Right,
           \A c \in Cells : c \notin DOMAIN esp' =>
             c \notin DOMAIN esp /\ due'[c] = due[c] /\ kept'[c] = kept[c]
    PROVE  Bares'
<1>1. \A i \in DOMAIN toStm : toStm[i].k # "setSize"
  <2>1. \A i \in DOMAIN toStm : toStm[i].k \in Aside \cup {"ackData"}
    BY Silence DEF Works, Exchange, Handled
  <2> QED
    BY <2>1 DEF Aside
<1>2. ASSUME NEW c \in Cells, c \notin DOMAIN esp' PROVE Bare(c)'
  <2>1. Bare(c) /\ stm' = stm
    BY <1>2 DEF Right, Bares, Works, Handled
  <2>2. ~Cutting(c)
    BY <1>1 DEF Cutting
  <2> QED
    BY <1>2, <2>1, <2>2 DEF Bare
<1> QED
  BY <1>2 DEF Bares

LEMMA CalmRight ==
    ASSUME Works, Patient, Right, Manager, pc \notin Roles, pc' \notin Roles, FlushDirty',
           DOMAIN esp' = DOMAIN esp, UNCHANGED <<due, kept>>, \A c \in DOMAIN esp' : Same(c)
    PROVE  Right'
<1>1. PICK d : d \notin DOMAIN esp'
  <2>1. 0 \notin DOMAIN esp'
    BY Known DEF Works
  <2> QED
    BY <2>1
<1>2. Bares'
  BY BaresStay
<1>3. Fetching'
  BY DEF Fetching, Roles
<1>4. pc' # "patch"
  BY DEF Roles
<1> QED
  BY <1>1, <1>2, <1>3, <1>4, RightBut

LEMMA AllSame ==
    ASSUME esp' = esp, UNCHANGED <<due, kept>>
    PROVE  DOMAIN esp' = DOMAIN esp /\ \A c \in DOMAIN esp' : Same(c)
  BY DEF Same

LEMMA EasyRight ==
    ASSUME Works, Patient, Right,
           StartFlush \/ SetTemp \/ SameSize \/ SizeResend \/ SizeGivenUp \/ Demote \/ Reinstate
    PROVE  Right'
<1>1. Manager /\ esp' = esp /\ UNCHANGED <<due, kept>> /\ pc \notin Roles
      /\ pc' \notin Roles \cup {"flush"}
  <2>1. CASE StartFlush \/ Demote \/ Reinstate
    BY <2>1 DEF StartFlush, Demote, Reinstate, Wait, Roles, Manager, Pressure, history
  <2>2. CASE SetTemp
    BY <2>2 DEF SetTemp, Next1, Wait, Roles, Manager, Handle, history
  <2>3. CASE SameSize
    BY <2>3 DEF SameSize, Next1, espVars, Roles, Manager, Handle, history
  <2>4. CASE SizeResend \/ SizeGivenUp
    BY <2>4 DEF SizeResend, SizeGivenUp, Wait, Finish, Roles, Manager, Handle, history
  <2> QED
    BY <2>1, <2>2, <2>3, <2>4
<1> QED
  BY <1>1, AllSame, CalmRight DEF FlushDirty

LEMMA SweepRight == ASSUME Works, Patient, Right, Sweep PROVE Right'
<1>1. pc = "sweep" /\ esp' = esp /\ UNCHANGED <<due, kept>> /\ Manager
  BY DEF Sweep, Manager, Handle, history
<1>2. PICK todo : todo = {c \in DOMAIN esp : c >= job.cell /\ Sendable(c)}
  OBVIOUS
<1>3. PICK c : c = CHOOSE x \in todo : \A y \in todo : x <= y
  OBVIOUS
<1>4. \/ todo # {} /\ Wait("flush", [job EXCEPT !.cell = c, !.tries = 1, !.tight = FALSE])
      \/ Wait("sweep", [job EXCEPT !.pass = 1, !.cell = 1])
      \/ Finish
  BY <1>2, <1>3 DEF Sweep
<1>5. CASE todo # {} /\ Wait("flush", [job EXCEPT !.cell = c, !.tries = 1, !.tight = FALSE])
  <2>1. pc' = "flush" /\ job'.cell = c
    <3>1. job \in Job
      BY DEF Works, Typed, TypedEsp
    <3> QED
      BY <1>5, <3>1 DEF Wait, Job
  <2>2. c \in todo
    BY <1>2, <1>3, <1>5, First, Known DEF Works
  <2>3. esp[c].dirty
    BY <1>2, <2>2 DEF Sendable
  <2>4. FlushDirty'
    BY <1>1, <2>1, <2>3 DEF FlushDirty
  <2> QED
    BY <1>1, <2>1, <2>4, AllSame, CalmRight DEF Roles
<1>6. CASE pc' \in {"sweep", "idle"}
  BY <1>1, <1>6, AllSame, CalmRight DEF FlushDirty, Roles
<1> QED
  BY <1>4, <1>5, <1>6 DEF Wait, Finish

LEMMA HeatingRight == ASSUME Works, Patient, Right, Heating PROVE Right'
<1>1. pc = "heating" /\ pc' \in {"heat", "idle"} /\ esp' = esp /\ UNCHANGED <<due, kept>> /\ Manager
  BY DEF Heating, Wait, Finish, Manager, Handle, history
<1> QED
  BY <1>1, AllSame, CalmRight DEF FlushDirty, Roles

LEMMA MoveOutRight ==
    ASSUME Works, Patient, Right, NEW c \in DOMAIN esp, MoveOut(c) PROVE Right'
<1>1. Manager
  BY DEF Manager, Pressure
<1>2. pc = "idle" /\ pc' = "move" /\ esp' = esp /\ UNCHANGED <<due, kept>>
  BY DEF MoveOut, Wait, history
<1> QED
  BY <1>1, <1>2, AllSame, CalmRight DEF FlushDirty, Roles

LEMMA MarkDirtyRight == ASSUME Works, Patient, Right, MarkDirty PROVE Right'
<1>1. pc = "idle" /\ pc' = "idle" /\ UNCHANGED <<due, kept>> /\ Manager
  BY DEF MarkDirty, Next1, Manager, Handle, history
<1>2. PICK c : c = Head(queue).cell
  OBVIOUS
<1>3. esp' = esp \/ (c \in DOMAIN esp /\ esp' = [esp EXCEPT ![c].dirty = TRUE])
  BY <1>2 DEF MarkDirty
<1>4. DOMAIN esp' = DOMAIN esp /\ \A d \in DOMAIN esp' : Same(d)
  <2>1. CASE esp' = esp
    BY <1>1, <2>1, AllSame
  <2>2. CASE c \in DOMAIN esp /\ esp' = [esp EXCEPT ![c].dirty = TRUE]
    <3>1. DOMAIN esp' = DOMAIN esp
          /\ \A d \in DOMAIN esp : esp'[d].loc = esp[d].loc /\ esp'[d].data = esp[d].data
      BY <2>2, DirtySame DEF Works
    <3>2. PICK x : x = [esp[c] EXCEPT !.dirty = TRUE]
      OBVIOUS
    <3>3. x.dirty
      <4>1. esp[c] \in EspCell
        BY <2>2, Known DEF Works
      <4> QED
        BY <3>2, <4>1 DEF EspCell, CellSet
    <3>4. esp' = [esp EXCEPT ![c] = x]
      BY <2>2, <3>2
    <3>5. \A d \in DOMAIN esp : ~esp'[d].dirty => ~esp[d].dirty
      BY <2>2, <3>3, <3>4
    <3> QED
      BY <1>1, <3>1, <3>5 DEF Same
  <2> QED
    BY <1>3, <2>1, <2>2
<1> QED
  BY <1>1, <1>4, CalmRight DEF FlushDirty, Roles

LEMMA ResendRight == ASSUME Works, Patient, Right, Resend PROVE Right'
<1>1. pc \in Storing /\ pc' = pc /\ esp' = esp /\ stm' = stm
  BY DEF Resend, Wait, stmVars
<1>2. UNCHANGED <<due, kept>> /\ Manager
  <2>1. Manager
    BY DEF Manager, Handle
  <2> QED
    BY <2>1 DEF Resend, history
<1>3. PICK o \in Outcomes \ {"ok"} :
         Returns(o) /\ job' = [job EXCEPT !.tries = @ + 1, !.tight = @ \/ (pc = "flush" /\ o = "again")]
  BY ZenonT(30) DEF Resend, Wait
<1>4. job \in Job
  BY DEF Works, Typed, TypedEsp
<1>5. PICK d \in DOMAIN esp : d = job.cell
  BY <1>1 DEF Works, AtWork
<1>6. job'.cell = job.cell /\ job'.data = job.data
  <2>1. PICK n : n = job.tries + 1
    OBVIOUS
  <2>2. PICK b \in BOOLEAN : b = (job.tight \/ (pc = "flush" /\ o = "again"))
    OBVIOUS
  <2>3. job' = [job EXCEPT !.tries = n, !.tight = b]
    BY <1>3, <2>1, <2>2, Zenon
  <2> QED
    BY <1>4, <2>3 DEF Job
<1>7. DOMAIN esp' = DOMAIN esp /\ \A c \in DOMAIN esp' : Same(c)
  BY <1>1, <1>2, AllSame
<1>8. Good(d)'
  <2>1. Role(d)' = Role(d)
    BY <1>1, <1>6 DEF Role
  <2> QED
    BY <1>1, <1>6, <1>7, <2>1, GoodStays DEF Right, Goods, Away
<1>9. Bares' /\ Fetching' /\ FlushDirty'
  <2>1. Bares'
    BY <1>1, <1>2, BaresStay
  <2> QED
    BY <1>1, <1>6, <2>1 DEF Fetching, FlushDirty, Right, Storing
<1>10. ASSUME NEW n \in Nat, UpTo(n)
      PROVE  /\ Below(esp'[d].data, n) /\ due'[d] <= n /\ kept'[d] <= n
             /\ pc' = "patch" => Below(job'.data, n)
  BY <1>1, <1>6, <1>10, <1>2, Known DEF UpTo, Below, Works
<1> QED
  BY <1>1, <1>5, <1>6, <1>7, <1>8, <1>9, <1>10, <1>2, RightBut

(* A shown cell that was acknowledged shows what the manager has.             *)
LEMMA FlushedIs ==
    ASSUME Typed, Exchange, Acked, pc = "flush", Returns("ok"), InPlace
    PROVE  stm[job.cell].data = esp[job.cell].data
<1>1. toEsp # <<>> /\ Wanted(Head(toEsp)) /\ Head(toEsp).code = "ok"
  BY DEF Returns, Answered
<1>2. 1 \in DOMAIN toEsp /\ Head(toEsp) = toEsp[1]
  BY <1>1, TailOf DEF Typed, TypedWire
<1>3. toEsp[1].k = "ackFulfill"
  BY <1>1, <1>2 DEF Wanted
<1> QED
  BY <1>1, <1>2, <1>3 DEF Acked, Stores, Data

LEMMA FlushEndsRight == ASSUME Works, Patient, Right, FlushEnds PROVE Right'
<1>1. /\ pc = "flush" /\ pc' = "sweep" /\ stm' = stm
      /\ UNCHANGED <<due, kept>> /\ Manager
  BY DEF FlushEnds, Wait, stmVars, history, Manager, Handle
<1>2. PICK d \in DOMAIN esp : d = job.cell /\ esp[d].loc = "canonical"
  BY <1>1 DEF Works, AtWork, Storing
<1>3. CASE esp' = esp
  BY <1>1, <1>3, AllSame, CalmRight DEF FlushDirty, Roles
<1>4. CASE Returns("ok") /\ esp' = [esp EXCEPT ![d].dirty = FALSE]
  <2>1. /\ DOMAIN esp' = DOMAIN esp
        /\ \A c \in DOMAIN esp : esp'[c].loc = esp[c].loc /\ esp'[c].data = esp[c].data
    BY <1>4, DirtySame DEF Works
  <2>2. \A c \in DOMAIN esp : c # d => esp'[c] = esp[c]
    BY <1>4
  <2>3. \A c \in DOMAIN esp' : c # d => Same(c)
    BY <1>1, <2>1, <2>2 DEF Same
  <2>4. Role(d) = "none" /\ Role(d)' = "none"
    BY <1>1 DEF Role
  <2>5. Good(d)
    BY DEF Right, Goods
  <2>6. Stored(d)' /\ Older(d)'
    BY <1>1, <2>1, <2>4, <2>5 DEF Good, Stored, Older, Away, Meets, AtMost
  <2>7. Shown(d)'
    <3>1. d \in DOMAIN stm /\ stm[d].loc = "ephemeral" => stm[d].data = esp[d].data
      BY <1>1, <1>2, <1>4, FlushedIs DEF Works, Sound, InPlace, Place
    <3>2. Meets(esp[d].data, due[d])
      BY <1>2, <2>4, <2>5 DEF Good, Stored, Away
    <3> QED
      BY <1>1, <3>1, <3>2 DEF Shown, Meets
  <2>8. Bares'
    BY <1>1, <2>1, BaresStay
  <2>9. ASSUME NEW n \in Nat, UpTo(n)
        PROVE  Below(esp'[d].data, n) /\ due'[d] <= n /\ kept'[d] <= n
    BY <1>1, <2>1, <2>9, Known DEF UpTo, Below, Works
  <2> QED
    BY <1>1, <2>3, <2>6, <2>7, <2>8, <2>9, RightBut DEF Good, Fetching, FlushDirty, Roles
<1> QED
  BY <1>2, <1>3, <1>4 DEF FlushEnds, Ends

(* The patch that is taken is the newest write of all that were dealt with.   *)
LEMMA PatchNext ==
    ASSUME Typed, Ordered, Next1("patch"), NEW v, v = Head(queue).val
    PROVE  v \in Nat /\ UpTo(v) /\ queue' # queue
<1>1. PICK t : t = Tail(queue)
  OBVIOUS
<1>2. queue \in Seq(Pending) /\ queue # <<>> /\ queue' = t /\ Head(queue).k = "patch"
  BY <1>1 DEF Next1, Typed, TypedWire
<1>3. Head(queue) = queue[1] /\ 1 \in DOMAIN queue /\ Head(queue) \in Pending
      /\ Len(t) \in Nat /\ Len(queue) = Len(t) + 1
  BY <1>1, <1>2, TailOf
<1>4. v \in Half
  BY <1>2, <1>3 DEF Pending, Asked
<1>5. UpTo(queue[1].val)
  BY <1>2, <1>3 DEF Ordered
<1>6. UpTo(v)
  BY <1>3, <1>5
<1> QED
  BY <1>2, <1>3, <1>4, <1>6 DEF Half

LEMMA PatchHereRight ==
    ASSUME Works, Patient, Right, Manager, Next1("patch"), NEW d \in DOMAIN esp, NEW v, v = Head(queue).val,
           NEW x, esp' = [esp EXCEPT ![d] = x], x.data = <<v, v>>,
           x.loc = esp[d].loc, esp[d].loc # "remote", esp[d].dirty => x.dirty,
           x.dirty \/ due' = due, due' = due \/ due' = [due EXCEPT ![d] = v],
           kept' = [kept EXCEPT ![d] = v], UNCHANGED <<pc, job>>
    PROVE  Right'
<1>1. pc = "idle" /\ v \in Nat /\ UpTo(v) /\ queue' # queue /\ stm' = stm
  BY PatchNext DEF Works, Right, Next1, Handled
<1>2. d \in Cells /\ due \in [Cells -> Half] /\ kept \in [Cells -> Half]
  BY Known DEF Works, Typed, TypedApp
<1>3. PICK y : y = <<v, v>>
  OBVIOUS
<1>4. /\ DOMAIN esp' = DOMAIN esp /\ esp'[d] = x
      /\ \A c \in DOMAIN esp : c # d => esp'[c] = esp[c]
      /\ kept'[d] = v /\ \A c \in Cells : c # d => due'[c] = due[c] /\ kept'[c] = kept[c]
      /\ due'[d] = due[d] \/ due'[d] = v
  BY <1>2
<1>5. due[d] <= v /\ (d \in DOMAIN stm => stm[d].data[1] <= v /\ stm[d].data[2] <= v)
  BY <1>1, <1>2 DEF UpTo, Below
<1>6. x.data = y /\ y[1] = v /\ y[2] = v /\ due'[d] <= v
  BY <1>1, <1>3, <1>4, <1>5
<1>7. Role(d) = "none" /\ Role(d)' = "none"
  BY <1>1 DEF Role
<1>8. Good(d)
  BY DEF Right, Goods
<1>9. Stored(d)'
  <2>1. esp'[d].loc # "remote"
    BY <1>4
  <2>2. Meets(esp'[d].data, due'[d]) /\ Meets(esp'[d].data, kept'[d])
    <3>1. v <= v
      BY <1>1
    <3>2. kept'[d] <= y[1] /\ kept'[d] <= y[2] /\ due'[d] <= y[1] /\ due'[d] <= y[2]
      BY <1>4, <1>6, <3>1
    <3>3. esp'[d].data = y
      BY <1>4, <1>6
    <3> QED
      BY <3>2, <3>3 DEF Meets
  <2> QED
    BY <1>7, <2>1, <2>2 DEF Stored, Away, Meets
<1>10. Shown(d)'
  <2>1. ASSUME ~x.dirty PROVE Shown(d)'
    <3>1. due' = due /\ ~esp[d].dirty
      BY <2>1
    <3> QED
      BY <1>1, <1>4, <1>7, <1>8, <3>1 DEF Good, Shown, Away, Meets
  <2>2. ASSUME x.dirty PROVE Shown(d)'
    BY <1>4, <2>2 DEF Shown
  <2> QED
    BY <2>1, <2>2
<1>11. Older(d)'
  BY <1>1, <1>4, <1>5, <1>6, <1>7 DEF Older, AtMost
<1>12. \A c \in DOMAIN esp' : c # d => Same(c)
  BY <1>2, <1>4, Known DEF Same, Works
<1>13. Bares'
  BY <1>4, BaresStay
<1>14. ASSUME NEW n \in Nat, UpTo(n), Taken(n)
       PROVE  Below(esp'[d].data, n) /\ due'[d] <= n /\ kept'[d] <= n
  <2>1. v <= n
    BY <1>1, <1>14 DEF Taken, Next1
  <2>2. due[d] <= n
    BY <1>2, <1>14 DEF UpTo
  <2> QED
    BY <1>3, <1>4, <1>6, <2>1, <2>2 DEF Below
<1> QED
  BY <1>1, <1>9, <1>10, <1>11, <1>12, <1>13, <1>14, RightBut DEF Good, Fetching, FlushDirty, Roles

LEMMA PatchAwayRight ==
    ASSUME Works, Patient, Right, Manager, Next1("patch"), NEW d \in DOMAIN esp, NEW v, v = Head(queue).val,
           NEW y, y = <<v, v>>, esp[d].loc = "remote", esp' = esp, UNCHANGED <<due, kept>>,
           pc' = "patch", job'.cell = d, job'.data = y
    PROVE  Right'
<1>1. pc = "idle" /\ v \in Nat /\ UpTo(v) /\ queue' # queue /\ stm' = stm
  BY PatchNext DEF Works, Right, Next1, Handled
<1>2. y[1] = v /\ y[2] = v /\ d \in Cells
  BY Known DEF Works
<1>3. /\ due[d] <= v /\ kept[d] <= v
      /\ d \in DOMAIN stm => stm[d].data[1] <= v /\ stm[d].data[2] <= v
  BY <1>1, <1>2 DEF UpTo, Below
<1>4. Role(d) = "none" /\ Role(d)' = "patch"
  BY <1>1 DEF Role
<1>5. Good(d)
  BY DEF Right, Goods
<1>6. Stored(d)'
  BY <1>1, <1>2, <1>3, <1>4, <1>5 DEF Good, Stored, Away, Meets
<1>7. Shown(d)'
  BY DEF Shown, Away
<1>8. Older(d)'
  BY <1>1, <1>2, <1>3, <1>4 DEF Older, Away, AtMost
<1>9. \A c \in DOMAIN esp' : c # d => Same(c)
  BY AllSame
<1>10. Bares'
  BY BaresStay
<1>11. ASSUME NEW n \in Nat, UpTo(n), Taken(n)
       PROVE  /\ Below(esp'[d].data, n) /\ due'[d] <= n /\ kept'[d] <= n
              /\ Below(job'.data, n)
  <2>1. v <= n
    BY <1>1, <1>11 DEF Taken, Next1
  <2> QED
    BY <1>2, <1>11, <2>1 DEF UpTo, Below
<1> QED
  BY <1>1, <1>6, <1>7, <1>8, <1>9, <1>10, <1>11, RightBut DEF Good, Fetching, FlushDirty, Roles

LEMMA PatchRight == ASSUME Works, Patient, Right, Patch PROVE Right'
<1>1. PICK r \in Pending : r = Head(queue)
  BY TakenTyped DEF Patch, Works
<1>2. Next1("patch") /\ pc = "idle" /\ Manager
  BY DEF Patch, Next1, Manager, Handle
<1>3. CASE UNCHANGED <<espVars, toStm, history>>
  <2>1. esp' = esp /\ UNCHANGED <<due, kept>> /\ pc' = "idle"
    BY <1>2, <1>3 DEF espVars, history
  <2> QED
    BY <1>2, <2>1, AllSame, CalmRight DEF FlushDirty, Roles
<1>4. CASE /\ r.cell \in DOMAIN esp /\ esp[r.cell].loc # "remote"
           /\ esp' = [esp EXCEPT ![r.cell].data = <<r.val, r.val>>, ![r.cell].dirty = @ \/ r.mark]
           /\ due' = IF r.mark THEN [due EXCEPT ![r.cell] = r.val] ELSE due
           /\ kept' = [kept EXCEPT ![r.cell] = r.val]
           /\ UNCHANGED <<espTemp, pc, job, toStm>>
  <2>1. PICK d \in DOMAIN esp : d = r.cell
    BY <1>4
  <2>2. PICK v : v = r.val
    OBVIOUS
  <2>3. PICK y : y = <<v, v>>
    OBVIOUS
  <2>4. PICK m \in BOOLEAN : m = (esp[d].dirty \/ r.mark)
    OBVIOUS
  <2>5. PICK x : x = [esp[d] EXCEPT !.data = y, !.dirty = m]
    OBVIOUS
  <2>6. esp' = [esp EXCEPT ![d] = x]
    <3>1. esp' = [esp EXCEPT ![d].data = y, ![d].dirty = m]
      BY <1>4, <2>1, <2>2, <2>3, <2>4
    <3> QED
      BY <2>5, <3>1
  <2>7. x.loc = esp[d].loc /\ x.data = <<v, v>> /\ x.dirty = m
    <3>1. esp[d] \in EspCell
      BY Known DEF Works
    <3> QED
      BY <2>3, <2>5, <3>1 DEF EspCell, CellSet
  <2>8. /\ m \/ due' = due
        /\ due' = due \/ due' = [due EXCEPT ![d] = v]
        /\ kept' = [kept EXCEPT ![d] = v]
        /\ esp[d].dirty => m
    BY <1>4, <2>1, <2>2, <2>4
  <2>9. v = Head(queue).val /\ esp[d].loc # "remote" /\ UNCHANGED <<pc, job>>
    BY <1>1, <1>4, <2>1, <2>2
  <2> QED
    BY <1>2, <2>6, <2>7, <2>8, <2>9, PatchHereRight
<1>5. CASE /\ r.cell \in DOMAIN esp /\ esp[r.cell].loc = "remote"
           /\ Wait("patch", [NoJob EXCEPT !.cell = r.cell, !.tries = 1, !.data = <<r.val, r.val>>])
           /\ UNCHANGED <<esp, espTemp, history>>
  <2>1. PICK d \in DOMAIN esp : d = r.cell
    BY <1>5
  <2>2. PICK v : v = r.val
    OBVIOUS
  <2>3. PICK y : y = <<v, v>>
    OBVIOUS
  <2>4. pc' = "patch" /\ job'.cell = d /\ job'.data = y
    BY <1>5, <2>1, <2>2, <2>3 DEF Wait, NoJob
  <2>5. v = Head(queue).val /\ esp[d].loc = "remote" /\ esp' = esp /\ UNCHANGED <<due, kept>>
    BY <1>1, <1>5, <2>1, <2>2 DEF history
  <2> QED
    BY <1>2, <2>3, <2>4, <2>5, PatchAwayRight
<1> QED
  BY <1>1, <1>3, <1>4, <1>5 DEF Patch

LEMMA PatchEndsRight == ASSUME Works, Patient, Right, PatchEnds PROVE Right'
<1>1. pc = "patch" /\ pc' = "idle" /\ esp' = esp /\ stm' = stm /\ due' = due
  BY DEF PatchEnds, Finish, stmVars
<1>2. Manager
  BY DEF Manager, Handle
<1>3. PICK d \in DOMAIN esp : d = job.cell
  BY <1>1 DEF Works, AtWork, Storing
<1>4. PICK o \in Outcomes : Returns(o) /\ kept' = IF o = "ok" THEN [kept EXCEPT ![job.cell] = job.data[1]] ELSE kept
  BY DEF PatchEnds, Ends
<1>5. PICK v : v = job.data[1]
  OBVIOUS
<1>6. v = job.data[2] /\ v \in Nat /\ esp[d].loc = "remote"
  BY <1>1, <1>3, <1>5, Numbers DEF Works, Sound, Counted, Even
<1>7. /\ \A c \in Cells : c # d => kept'[c] = kept[c]
      /\ kept'[d] = kept[d] \/ (Returns("ok") /\ kept'[d] = v)
  <2>1. kept \in [Cells -> Half] /\ d \in Cells
    BY Known DEF Works, Typed, TypedApp
  <2> QED
    BY <1>3, <1>4, <1>5, <2>1
<1>8. Role(d) = "patch" /\ Role(d)' = "none"
  BY <1>1, <1>3 DEF Role
<1>9. Good(d)
  BY DEF Right, Goods
<1>10. Stored(d)'
  <2>1. ASSUME d \in DOMAIN stm PROVE Meets(stm[d].data, due[d]) /\ Meets(stm[d].data, kept'[d])
    <3>1. Meets(stm[d].data, due[d]) /\ Meets(stm[d].data, kept[d])
      BY <1>6, <1>9, <2>1 DEF Good, Stored, Away
    <3>2. Returns("ok") => stm[d].data = job.data
      BY <1>1, <1>3, StoredIs DEF Works, Sound, Storing, Data
    <3>3. v <= v
      BY <1>6
    <3>4. Returns("ok") => Meets(stm[d].data, v)
      BY <1>5, <1>6, <3>2, <3>3 DEF Meets
    <3> QED
      BY <1>7, <3>1, <3>4
  <2> QED
    BY <1>1, <1>6, <1>8, <2>1 DEF Stored, Away
<1>11. Shown(d)' /\ Older(d)'
  BY <1>1, <1>6, <1>8 DEF Shown, Older, Away
<1>12. \A c \in DOMAIN esp' : c # d => Same(c)
  BY <1>1, <1>7, Known DEF Same, Works
<1>13. Bares'
  BY <1>1, <1>7, BaresStay
<1>14. ASSUME NEW n \in Nat, UpTo(n)
       PROVE  Below(esp'[d].data, n) /\ due'[d] <= n /\ kept'[d] <= n
  <2>1. /\ Below(esp[d].data, n) /\ due[d] <= n /\ kept[d] <= n
        /\ v <= n
    BY <1>1, <1>5, <1>14, Known DEF UpTo, Works, Below
  <2> QED
    BY <1>1, <1>7, <2>1
<1> QED
  BY <1>1, <1>2, <1>3, <1>10, <1>11, <1>12, <1>13, <1>14, RightBut DEF Good, Fetching, FlushDirty, Roles

(* A cell that is given away.                                                 *)
LEMMA GivenRight ==
    ASSUME Works, Patient, Right, Manager, NEW d \in DOMAIN esp,
           pc \in Roles => job.cell = d, pc' \notin Roles \cup {"flush"},
           esp' = Ship(d) \/ esp' = [Ship(d) EXCEPT ![d].dirty = FALSE],
           UNCHANGED <<due, kept>>,
           d \in DOMAIN stm => Meets(stm[d].data, due[d]) /\ Meets(stm[d].data, kept[d])
    PROVE  Right'
<1>1. /\ DOMAIN esp' = DOMAIN esp /\ esp'[d].loc = "remote" /\ esp'[d].data = Junk
      /\ \A c \in DOMAIN esp : c # d => esp'[c] = esp[c]
  BY ShippedIs DEF Works
<1>2. stm' = stm /\ Role(d)' = "none"
  BY DEF Works, Handled, Role, Roles
<1>3. Stored(d)' /\ Shown(d)' /\ Older(d)'
  BY <1>1, <1>2 DEF Stored, Shown, Older, Away
<1>4. \A c \in DOMAIN esp' : c # d => Same(c)
  BY <1>1 DEF Same
<1>5. Bares'
  BY <1>1, BaresStay
<1>6. ASSUME NEW n \in Nat, UpTo(n)
      PROVE  Below(esp'[d].data, n) /\ due'[d] <= n /\ kept'[d] <= n
  <2>1. due[d] <= n /\ kept[d] <= n
    BY <1>6, Known DEF UpTo, Works
  <2>2. Below(Junk, n)
    BY <1>6, JunkIs DEF Below
  <2> QED
    BY <1>1, <2>1, <2>2
<1> QED
  BY <1>3, <1>4, <1>5, <1>6, RightBut DEF Good, Fetching, FlushDirty, Roles

LEMMA StoredMeets ==
    ASSUME Works, Right, pc \in {"heat", "move"}, Returns("ok")
    PROVE  Meets(stm[job.cell].data, due[job.cell]) /\ Meets(stm[job.cell].data, kept[job.cell])
<1>1. job.cell \in DOMAIN esp /\ esp[job.cell].loc = "canonical"
  BY DEF Works, AtWork, Storing
<1>2. Role(job.cell) = "none"
  BY DEF Role
<1>3. Meets(esp[job.cell].data, due[job.cell]) /\ Meets(esp[job.cell].data, kept[job.cell])
  BY <1>1, <1>2 DEF Right, Goods, Good, Stored, Away
<1>4. stm[job.cell].data = Data
  BY StoredIs DEF Works, Sound, Storing
<1>5. Data = esp[job.cell].data
  BY DEF Data
<1> QED
  BY <1>3, <1>4, <1>5

LEMMA HeatEndsRight == ASSUME Works, Patient, Right, HeatEnds PROVE Right'
<1>1. pc = "heat" /\ pc' \in {"heating", "idle"} /\ UNCHANGED <<due, kept>>
  BY DEF HeatEnds, Wait, Finish, history
<1>2. Manager
  BY DEF Manager, Handle
<1>3. PICK d \in DOMAIN esp : d = job.cell
  BY <1>1 DEF Works, AtWork, Storing
<1>4. CASE esp' = esp
  BY <1>1, <1>2, <1>4, AllSame, CalmRight DEF FlushDirty, Roles
<1>5. CASE Returns("ok") /\ esp' = [Ship(job.cell) EXCEPT ![job.cell].dirty = FALSE]
  <2>1. esp' = [Ship(d) EXCEPT ![d].dirty = FALSE]
    BY <1>3, <1>5
  <2>2. Meets(stm[d].data, due[d]) /\ Meets(stm[d].data, kept[d])
    BY <1>1, <1>3, <1>5, StoredMeets
  <2> QED
    BY <1>1, <1>2, <2>1, <2>2, GivenRight DEF Roles
<1> QED
  BY <1>4, <1>5 DEF HeatEnds, Ends

LEMMA MoveEndsRight == ASSUME Works, Patient, Right, MoveEnds PROVE Right'
<1>1. pc = "move" /\ pc' = "idle" /\ UNCHANGED <<due, kept>>
  BY DEF MoveEnds, Finish, history
<1>2. Manager
  BY DEF Manager, Handle
<1>3. PICK d \in DOMAIN esp : d = job.cell
  BY <1>1 DEF Works, AtWork, Storing
<1>4. CASE esp' = esp
  BY <1>1, <1>2, <1>4, AllSame, CalmRight DEF FlushDirty, Roles
<1>5. CASE Returns("ok") /\ esp' = Ship(job.cell)
  <2>1. esp' = Ship(d)
    BY <1>3, <1>5
  <2>2. Meets(stm[d].data, due[d]) /\ Meets(stm[d].data, kept[d])
    BY <1>1, <1>3, <1>5, StoredMeets
  <2> QED
    BY <1>1, <1>2, <2>1, <2>2, GivenRight DEF Roles
<1> QED
  BY <1>4, <1>5 DEF MoveEnds, Ends

LEMMA FrameTimeoutRight == ASSUME Works, Patient, Right, FrameTimeout PROVE Right'
<1>1. pc = "frames" /\ pc' = "idle" /\ esp' = Ship(job.cell) /\ UNCHANGED <<due, kept>>
  BY DEF FrameTimeout, Finish, history
<1>2. Manager
  BY DEF Manager, Handle
<1>3. PICK d \in DOMAIN esp : d = job.cell
  BY <1>1 DEF Works, AtWork
<1>4. Role(d) = "frames"
  BY <1>1, <1>3 DEF Role
<1>5. d \in DOMAIN stm => Meets(stm[d].data, due[d]) /\ Meets(stm[d].data, kept[d])
  BY <1>4 DEF Right, Goods, Good, Stored, Away
<1> QED
  BY <1>1, <1>2, <1>3, <1>5, GivenRight DEF Roles

LEMMA TriggeredRight == ASSUME Works, Patient, Right, Triggered PROVE Right'
<1>1. pc = "idle" /\ pc' = "idle" /\ stm' = stm /\ kept' = kept
  BY DEF Triggered, Next1, stmVars
<1>2. Manager
  BY DEF Manager, Handle
<1>3. PICK here : here = {c \in DOMAIN esp : esp[c].loc # "remote"}
  OBVIOUS
<1>4. /\ esp' = [c \in DOMAIN esp |-> [esp[c] EXCEPT !.dirty = @ \/ c \in here]]
      /\ due' = [c \in Cells |-> IF c \in here THEN esp[c].data[1] ELSE due[c]]
  BY <1>3 DEF Triggered
<1>5. DOMAIN esp' = DOMAIN esp /\ DOMAIN esp \subseteq Cells
  BY <1>4, Known DEF Works
<1>6. \A x \in EspCell, b \in BOOLEAN :
         /\ [x EXCEPT !.dirty = b].loc = x.loc /\ [x EXCEPT !.dirty = b].data = x.data
         /\ [x EXCEPT !.dirty = b].dirty = b
  BY DEF EspCell, CellSet
<1>7. ASSUME NEW c \in DOMAIN esp
      PROVE  /\ esp'[c].loc = esp[c].loc /\ esp'[c].data = esp[c].data
             /\ esp'[c].dirty <=> esp[c].dirty \/ c \in here
  <2>1. PICK b \in BOOLEAN : b = (esp[c].dirty \/ c \in here)
    OBVIOUS
  <2>2. esp'[c] = [esp[c] EXCEPT !.dirty = b]
    BY <1>4, <2>1, Zenon
  <2>3. esp[c] \in EspCell
    BY Known DEF Works
  <2> QED
    BY <1>6, <2>1, <2>2, <2>3
<1>8. \A c \in Cells : /\ c \in here => due'[c] = esp[c].data[1]
                       /\ c \notin here => due'[c] = due[c]
  BY <1>4
<1>9. ASSUME NEW c \in DOMAIN esp PROVE Good(c)'
  <2>1. Role(c) = "none" /\ Role(c)' = "none"
    BY <1>1 DEF Role
  <2>2. Good(c) /\ EvenAt(c)
    BY DEF Right, Goods, Works, Sound, Evens
  <2>3. CASE c \in here
    <3>1. esp[c].loc # "remote" /\ due'[c] = esp[c].data[1] /\ esp'[c].dirty
      BY <1>3, <1>5, <1>7, <1>8, <2>3
    <3>2. esp[c].data[1] \in Nat /\ esp[c].data[2] = esp[c].data[1]
      BY <2>1, <2>2, Numbers DEF EvenAt, Even, Works
    <3>3. esp[c].data[1] <= esp[c].data[1]
      BY <3>2
    <3>4. Meets(esp[c].data, due'[c])
      BY <3>1, <3>2, <3>3 DEF Meets
    <3>5. Meets(esp[c].data, kept[c])
      BY <2>1, <2>2, <3>1 DEF Good, Stored, Away
    <3>6. Stored(c)'
      BY <1>1, <1>7, <2>1, <3>1, <3>4, <3>5 DEF Stored, Away
    <3>7. Shown(c)'
      BY <3>1 DEF Shown
    <3>8. Older(c)'
      BY <1>1, <1>7, <2>1, <2>2 DEF Good, Older, Away
    <3> QED
      BY <3>6, <3>7, <3>8 DEF Good
  <2>4. CASE c \notin here
    <3>1. Same(c)
      BY <1>1, <1>5, <1>7, <1>8, <2>4 DEF Same
    <3> QED
      BY <1>1, <2>1, <2>2, <3>1, GoodStays DEF Away, Same
  <2> QED
    BY <2>3, <2>4
<1>10. Bares'
  <2>1. \A c \in Cells : c \notin DOMAIN esp => c \notin here
    BY <1>3
  <2> QED
    BY <1>1, <1>5, <1>8, <2>1, BaresStay
<1>11. ASSUME NEW n \in Nat, UpTo(n) PROVE UpTo(n)'
  <2>1. \A c \in here : c \in DOMAIN esp
    BY <1>3
  <2>2. \A c \in Cells : due'[c] <= n /\ kept'[c] <= n
    BY <1>1, <1>8, <1>11, <2>1 DEF UpTo, Below
  <2> QED
    BY <1>1, <1>5, <1>7, <1>11, <2>2 DEF UpTo
<1>12. Ordered'
  BY <1>2, <1>11, ManagerTakes, OrderedOn DEF Right, Works
<1> QED
  BY <1>1, <1>5, <1>9, <1>10, <1>12 DEF Right, Goods, Fetching, FlushDirty

(* What the display has of the cells that are cut off is on its way out.      *)
LEMMA CutSent ==
    ASSUME Typed, NEW n, NEW ps \in Seq(ForStm), toStm' = toStm \o ps, NEW m \in DOMAIN ps,
           ps[m].k = "setSize", ps[m].n = n
    PROVE  \E i \in DOMAIN toStm' : toStm'[i].k = "setSize" /\ toStm'[i].n = n
<1>1. toStm \in Seq(ForStm)
  BY DEF Typed, TypedWire
<1>2. PICK i : i = Len(toStm) + m
  OBVIOUS
<1>3. i \in DOMAIN (toStm \o ps) /\ (toStm \o ps)[i] = ps[m]
  BY <1>1, <1>2, JoinedAt
<1> QED
  BY <1>3

LEMMA ShrinkRight == ASSUME Works, Patient, Right, Shrink PROVE Right'
<1>1. PICK n : n = Head(queue).n
  OBVIOUS
<1>2. /\ Head(queue) \in Pending /\ Head(queue).k = "size" /\ pc = "idle" /\ pc' = "size" /\ stm' = stm
      /\ n < Len(esp) /\ esp' = SubSeq(esp, 1, n) /\ due' = Cut(due, n) /\ kept' = Cut(kept, n)
  BY <1>1, TakenTyped DEF Shrink, Wait, Works, stmVars
<1>3. n \in Sizes /\ n \in Nat /\ Len(esp) \in Nat
  BY <1>1, <1>2, SizesAre, Known DEF Pending, Asked, Works
<1>4. /\ DOMAIN esp' = 1 .. n
      /\ \A c \in DOMAIN esp' : c \in DOMAIN esp /\ esp'[c] = esp[c]
  <2>1. /\ esp' \in Seq(EspCell) /\ Len(esp') = n
        /\ \A c \in DOMAIN esp' : c \in DOMAIN esp /\ esp'[c] = esp[c]
    BY <1>2, <1>3, CutShort DEF Works
  <2> QED
    BY <2>1, LenProperties
<1>5. /\ \A c \in DOMAIN esp' : due'[c] = due[c] /\ kept'[c] = kept[c]
      /\ \A c \in Cells : c \notin DOMAIN esp' => due'[c] = 0 /\ kept'[c] = 0
  <2>1. \A c \in Cells : c \in Nat /\ c # 0
    BY SlotSyncAssumption DEF Cells
  <2>2. \A c \in DOMAIN esp' : c \in Cells /\ c <= n
    BY <1>3, <1>4, Known DEF Works
  <2>3. \A c \in Cells : c \notin DOMAIN esp' => ~(c <= n)
    BY <1>3, <1>4, <2>1
  <2> QED
    BY <1>2, <2>2, <2>3 DEF Cut
<1>6. \A c \in DOMAIN esp' : Same(c)
  BY <1>4, <1>5 DEF Same
<1>7. \E i \in DOMAIN toStm' : toStm'[i].k = "setSize" /\ toStm'[i].n = n
  <2>1. PICK a, b : a = SizeMsg(n) /\ b = TempMsg("warm")
    OBVIOUS
  <2>2. a \in ForStm /\ a.k = "setSize" /\ a.n = n /\ b \in ForStm
    BY <1>3, <2>1, MessagesTyped DEF Temps
  <2>3. PICK s, t : s = <<a>> /\ t = <<b, a>>
    OBVIOUS
  <2>4. /\ s \in Seq(ForStm) /\ 1 \in DOMAIN s /\ s[1] = a
        /\ t \in Seq(ForStm) /\ 2 \in DOMAIN t /\ t[2] = a
    BY <2>2, <2>3
  <2>5. toStm' = toStm \o s \/ toStm' = toStm \o t
    BY <1>1, <2>1, <2>3 DEF Shrink, SendStm
  <2>6. Typed
    BY DEF Works
  <2>7. CASE toStm' = toStm \o s
    BY <2>2, <2>4, <2>6, <2>7, CutSent
  <2>8. CASE toStm' = toStm \o t
    BY <2>2, <2>4, <2>6, <2>8, CutSent
  <2> QED
    BY <2>5, <2>7, <2>8
<1>8. Bares'
  <2>1. ASSUME NEW c \in Cells, c \notin DOMAIN esp' PROVE Bare(c)'
    <3>1. n < c
      BY <1>3, <1>4, <2>1, SlotSyncAssumption DEF Cells
    <3>2. Cutting(c)'
      BY <1>7, <3>1 DEF Cutting
    <3> QED
      BY <1>5, <2>1, <3>2 DEF Bare
  <2> QED
    BY <2>1 DEF Bares
<1>9. PICK d : d \notin DOMAIN esp'
  <2>1. 0 \notin DOMAIN esp'
    BY <1>3, <1>4
  <2> QED
    BY <2>1
<1>10. Manager
  BY DEF Manager, Handle
<1> QED
  BY <1>2, <1>6, <1>8, <1>9, <1>10, RightBut DEF Fetching, FlushDirty, Roles

(* A slot with one cell more.                                                 *)
LEMMA GrownRight ==
    ASSUME Works, Patient, Right, Manager, pc \notin Roles, UNCHANGED <<due, kept>>,
           NEW x \in EspCell, x.data = Junk, esp' = Append(esp, x),
           \/ x.loc = "canonical" /\ pc' \notin Roles \cup {"flush"}
           \/ x.loc = "remote" /\ pc' = "grow" /\ job'.cell = Len(esp) + 1
    PROVE  Right'
<1>1. PICK d : d = Len(esp) + 1
  OBVIOUS
<1>2. /\ d \notin DOMAIN esp /\ d \in DOMAIN esp' /\ esp'[d] = x /\ stm' = stm /\ d \in Cells
      /\ DOMAIN esp \subseteq DOMAIN esp'
      /\ \A c \in DOMAIN esp' : (c \in DOMAIN esp /\ esp'[c] = esp[c]) \/ c = d
  <2>1. \A c \in DOMAIN esp' : (c \in DOMAIN esp /\ esp'[c] = esp[c]) \/ (c = d /\ esp'[c] = x)
    BY <1>1, Grown DEF Works
  <2>2. Len(esp) \in Nat /\ DOMAIN esp = 1 .. Len(esp)
    BY Known DEF Works
  <2>3. d \notin DOMAIN esp
    BY <1>1, <2>2
  <2>4. DOMAIN esp' = 1 .. d /\ d \in Nat \ {0}
    <3>1. esp' \in Seq(EspCell) /\ Len(esp') = d
      BY <1>1, Grown DEF Works
    <3> QED
      BY <1>1, <2>2, <3>1, LenProperties
  <2>5. d \in DOMAIN esp' /\ DOMAIN esp \subseteq DOMAIN esp'
    BY <1>1, <2>2, <2>4
  <2>6. d \in Cells /\ stm' = stm
    <3>1. Len(esp') \in Sizes /\ esp' \in Seq(EspCell) /\ stm' = stm
      BY DEF Works, Typed, TypedEsp, Handled
    <3>2. Len(esp') = d
      BY <1>1, Grown DEF Works
    <3> QED
      BY <2>4, <3>1, <3>2, SizesAre DEF Cells
  <2> QED
    BY <2>1, <2>3, <2>5, <2>6
<1>3. \A c \in DOMAIN esp' : c # d => Same(c)
  BY <1>2 DEF Same
<1>4. due[d] = 0 /\ kept[d] = 0 /\ (SizesArrive /\ d \in DOMAIN stm => stm[d].data = Junk)
  <2>1. Bare(d)
    BY <1>2 DEF Right, Bares
  <2>2. \A i \in DOMAIN toStm : toStm[i].k \in Aside \cup {"ackData"}
    BY Silence DEF Works, Exchange, Handled
  <2>3. ~Cutting(d)
    BY <2>2 DEF Cutting, Aside
  <2> QED
    BY <2>1, <2>3 DEF Bare
<1>5. d \in DOMAIN stm => Meets(stm[d].data, 0)
  BY Numbers DEF Works, Meets
<1>6. Meets(Junk, 0) /\ AtMost(Junk, Junk)
  BY JunkIs DEF Meets, AtMost
<1>7. Role(d)' \in {"none", "grow"} /\ (Role(d)' = "none" => x.loc = "canonical")
  BY <1>1 DEF Role, Roles
<1>8. Stored(d)'
  BY <1>2, <1>4, <1>5, <1>6, <1>7 DEF Stored, Away
<1>9. Shown(d)'
  BY <1>2, <1>4, <1>5 DEF Shown
<1>10. Older(d)'
  BY <1>2, <1>4, <1>6, <1>7 DEF Older, Away
<1>11. Bares'
  BY <1>2, BaresStay
<1>12. ASSUME NEW n \in Nat
       PROVE  Below(esp'[d].data, n) /\ due'[d] <= n /\ kept'[d] <= n
  BY <1>2, <1>4, JunkIs DEF Below
<1> QED
  BY <1>1, <1>3, <1>8, <1>9, <1>10, <1>11, <1>12, RightBut DEF Good, Fetching, FlushDirty, Roles

LEMMA GrowRight == ASSUME Works, Patient, Right, Grow PROVE Right'
<1> DEFINE x == Cell("canonical", FALSE, Junk)
<1>1. pc = "idle" /\ pc' \in {"idle", "size"} /\ (esp' = esp \/ esp' = Append(esp, x))
  BY DEF Grow, Next1, Wait, espVars
<1>2. x \in EspCell /\ x.loc = "canonical" /\ x.data = Junk
  BY Known DEF Cell, EspCell, CellSet, Works
<1> HIDE DEF x
<1>3. UNCHANGED <<due, kept>> /\ Manager
  BY DEF Grow, history, Manager, Handle
<1>4. CASE esp' = esp
  BY <1>1, <1>3, <1>4, AllSame, CalmRight DEF FlushDirty, Roles
<1>5. CASE esp' = Append(esp, x)
  BY <1>1, <1>2, <1>3, <1>5, GrownRight DEF Roles
<1> QED
  BY <1>1, <1>4, <1>5

LEMMA SizeAgreedRight == ASSUME Works, Patient, Right, SizeAgreed PROVE Right'
<1>1. pc \in {"size", "undo"} /\ UNCHANGED <<due, kept>> /\ Manager
  BY DEF SizeAgreed, history, Manager, Handle
<1>2. Junk \in Half \X Half /\ job \in Job
  BY Known DEF Works, Typed, TypedEsp
<1>3. CASE Finish /\ esp' = esp
  BY <1>1, <1>3, AllSame, CalmRight DEF Finish, FlushDirty, Roles
<1>4. CASE esp' = Append(esp, Cell("canonical", FALSE, Junk)) /\ Finish
  <2> DEFINE x == Cell("canonical", FALSE, Junk)
  <2>1. x \in EspCell /\ x.loc = "canonical" /\ x.data = Junk
    BY <1>2 DEF Cell, EspCell, CellSet
  <2>2. esp' = Append(esp, x) /\ pc' = "idle"
    BY <1>4 DEF Finish
  <2> HIDE DEF x
  <2> QED
    BY <1>1, <2>1, <2>2, GrownRight DEF Roles
<1>5. CASE /\ esp' = Append(esp, Cell("remote", FALSE, Junk))
           /\ Wait("grow", [job EXCEPT !.cell = Len(esp) + 1, !.tries = 1])
  <2> DEFINE x == Cell("remote", FALSE, Junk)
  <2>1. x \in EspCell /\ x.loc = "remote" /\ x.data = Junk
    BY <1>2 DEF Cell, EspCell, CellSet
  <2>2. PICK n : n = Len(esp) + 1
    OBVIOUS
  <2>3. esp' = Append(esp, x) /\ pc' = "grow" /\ job'.cell = n
    <3>1. job' = [job EXCEPT !.cell = n, !.tries = 1] /\ pc' = "grow"
      BY <1>5, <2>2 DEF Wait
    <3> QED
      BY <1>2, <1>5, <3>1 DEF Job
  <2> HIDE DEF x
  <2> QED
    BY <1>1, <2>1, <2>2, <2>3, GrownRight DEF Roles
<1> QED
  BY <1>3, <1>4, <1>5 DEF SizeAgreed

LEMMA GrowEndsRight == ASSUME Works, Patient, Right, GrowEnds PROVE Right'
<1>1. pc = "grow" /\ stm' = stm /\ UNCHANGED <<due, kept>> /\ Manager
  BY DEF GrowEnds, stmVars, history, Manager, Handle
<1>2. /\ job.cell = Len(esp) /\ Len(esp) \in Nat \ {0} /\ job.cell \in DOMAIN esp
      /\ Len(esp) = MinSize + 1 /\ DOMAIN esp = Cells
  BY <1>1, Known DEF Works, AtWork, Storing, Cells
<1>3. PICK d \in DOMAIN esp : d = job.cell
  BY <1>2
<1>4. Good(d) /\ Role(d) = "grow"
  BY <1>1, <1>3 DEF Right, Goods, Role
<1>5. CASE pc' = "idle" /\ esp' = esp
  <2>1. DOMAIN esp' = DOMAIN esp /\ \A c \in DOMAIN esp' : Same(c)
    BY <1>1, <1>5, AllSame
  <2>2. Role(d)' = "none"
    BY <1>5 DEF Role
  <2>3. Good(d)'
    BY <1>1, <1>4, <1>5, <2>1, <2>2, GoodStays DEF Away
  <2>4. Bares'
    BY <1>1, <2>1, BaresStay
  <2>5. ASSUME NEW n \in Nat, UpTo(n)
        PROVE  Below(esp'[d].data, n) /\ due'[d] <= n /\ kept'[d] <= n
    BY <1>1, <1>2, <1>5, <2>5 DEF UpTo
  <2> QED
    BY <1>1, <1>3, <1>5, <2>1, <2>3, <2>4, <2>5, RightBut DEF Fetching, FlushDirty, Roles
<1>6. CASE esp' = SubSeq(esp, 1, job.cell - 1) /\ pc' = "undo"
  <2>1. PICK n : n = job.cell - 1
    OBVIOUS
  <2>2. n \in Nat /\ n <= Len(esp) /\ ~(d <= n)
    BY <1>2, <1>3, <2>1
  <2>3. /\ esp' \in Seq(EspCell) /\ Len(esp') = n
        /\ \A c \in DOMAIN esp' : c \in DOMAIN esp /\ esp'[c] = esp[c]
    BY <1>6, <2>1, <2>2, CutShort DEF Works
  <2>4. DOMAIN esp' = 1 .. n
    BY <2>3, LenProperties
  <2>5. d \notin DOMAIN esp'
    BY <2>2, <2>4
  <2>6. \A c \in DOMAIN esp' : c # d => Same(c)
    BY <1>1, <2>3 DEF Same
  <2>7. \A c \in Cells : c \notin DOMAIN esp' => c = d
    BY <1>2, <1>3, <2>1, <2>4, SlotSyncAssumption DEF Cells
  <2>8. Bare(d)'
    BY <1>1, <1>4 DEF Good, Stored, Older, Bare
  <2>9. Bares'
    <3>1. ASSUME NEW c \in Cells, c \notin DOMAIN esp' PROVE Bare(c)'
      <4>1. c = d
        BY <2>7, <3>1
      <4> QED
        BY <2>8, <4>1 DEF Bare, Cutting
    <3> QED
      BY <3>1 DEF Bares
  <2> QED
    BY <1>1, <1>3, <1>6, <2>5, <2>6, <2>9, RightBut DEF Fetching, FlushDirty, Roles
<1> QED
  BY <1>5, <1>6 DEF GrowEnds, Finish, Wait

LEMMA ReclaimRight ==
    ASSUME Works, Patient, Right, NEW c \in DOMAIN esp, Reclaim(c) PROVE Right'
<1>1. /\ pc = "idle" /\ esp[c].loc = "remote" /\ pc' = "retrieve" /\ UNCHANGED <<due, kept>>
      /\ esp' = [esp EXCEPT ![c].loc = "canonical"] /\ job' = [NoJob EXCEPT !.cell = c]
  BY DEF Reclaim, Wait, history
<1>2. job'.cell = c /\ Manager
  BY <1>1 DEF NoJob, Manager, Pressure
<1>3. PICK x : x = [esp[c] EXCEPT !.loc = "canonical"]
  OBVIOUS
<1>4. x.data = esp[c].data
  <2>1. esp[c] \in EspCell
    BY Known DEF Works
  <2> QED
    BY <1>3, <2>1 DEF EspCell, CellSet
<1>5. esp' = [esp EXCEPT ![c] = x]
  BY <1>1, <1>3
<1>6. DOMAIN esp' = DOMAIN esp /\ esp'[c] = x /\ \A d \in DOMAIN esp : d # c => esp'[d] = esp[d]
  BY <1>5
<1>7. stm' = stm
  BY DEF Works, Handled
<1>8. Role(c) = "none" /\ Role(c)' = "retrieve" /\ Away(c) /\ Away(c)'
  BY <1>1, <1>2 DEF Role, Away
<1>9. Good(c)'
  <2>1. Good(c)
    BY DEF Right, Goods
  <2>2. Stored(c)'
    BY <1>1, <1>7, <1>8, <2>1 DEF Good, Stored
  <2>3. Shown(c)' /\ Older(c)'
    BY <1>8 DEF Shown, Older
  <2> QED
    BY <2>2, <2>3 DEF Good
<1>10. \A d \in DOMAIN esp' : d # c => Same(d)
  BY <1>1, <1>6 DEF Same
<1>11. Bares'
  BY <1>1, <1>6, BaresStay
<1>12. PICK r : r = [k |-> "retrieve", cell |-> c]
  OBVIOUS
<1>13. PICK ps : ps = <<r>>
  OBVIOUS
<1>14. r \in ForStm /\ toStm' = toStm \o ps /\ toStm \in Seq(ForStm)
  <2>1. c \in Cells
    BY Known DEF Works
  <2> QED
    BY <1>12, <1>13, <2>1 DEF Reclaim, SendStm, ForStm, Works, Typed, TypedWire
<1>15. ps \in Seq(ForStm) /\ DOMAIN ps = {1} /\ ps[1] = r
  BY <1>13, <1>14
<1>16. \E i \in DOMAIN toStm' : toStm'[i].k = "retrieve"
  <2>1. PICK i : i = Len(toStm) + 1
    OBVIOUS
  <2>2. i \in DOMAIN toStm' /\ toStm'[i] = r
    BY <1>14, <1>15, <2>1, JoinedAt
  <2> QED
    BY <1>12, <2>2
<1>17. ASSUME NEW i \in DOMAIN toStm', toStm'[i].k = "ackData" PROVE toStm'[i].cell # c
  <2>1. \A l \in DOMAIN ps : ps[l].k = "retrieve"
    BY <1>12, <1>15
  <2>2. i \in DOMAIN toStm /\ toStm'[i] = toStm[i]
    BY <1>14, <1>15, <1>17, <2>1, Joined
  <2> QED
    BY <1>1, <1>17, <2>2 DEF Works, Exchange, Held
<1>18. Fetching'
  <2>1. Holds(c)'
    BY <1>1, <1>7 DEF Works, Exchange, Held, Holds
  <2> QED
    BY <1>2, <1>16, <1>17, <2>1 DEF Fetching, Holds
<1>19. ASSUME NEW n \in Nat, UpTo(n)
       PROVE  Below(esp'[c].data, n) /\ due'[c] <= n /\ kept'[c] <= n
  BY <1>1, <1>4, <1>6, <1>19, Known DEF UpTo, Works
<1> QED
  BY <1>1, <1>2, <1>9, <1>10, <1>11, <1>18, <1>19, RightBut DEF FlushDirty, Roles

LEMMA RetrieveAckedRight == ASSUME Works, Patient, Right, RetrieveAcked PROVE Right'
<1>1. /\ pc = "retrieve" /\ pc' = "frames" /\ job' = job /\ esp' = esp /\ stm' = stm
      /\ UNCHANGED <<due, kept>> /\ Manager
  BY DEF RetrieveAcked, Wait, stmVars, history, Manager, Handle
<1>2. PICK d \in DOMAIN esp : d = job.cell
  BY <1>1 DEF Works, AtWork
<1>3. DOMAIN esp' = DOMAIN esp /\ \A c \in DOMAIN esp' : Same(c)
  BY <1>1, AllSame
<1>4. Good(d)'
  <2>1. Role(d) = "retrieve" /\ Role(d)' = "frames"
    BY <1>1, <1>2 DEF Role
  <2> QED
    BY <1>1, <1>3, <2>1, GoodStays DEF Away, Right, Goods
<1>5. Bares'
  BY <1>1, <1>3, BaresStay
<1>6. ASSUME NEW n \in Nat, UpTo(n)
      PROVE  Below(esp'[d].data, n) /\ due'[d] <= n /\ kept'[d] <= n
  BY <1>1, <1>6, Known DEF UpTo, Works
<1> QED
  BY <1>1, <1>2, <1>3, <1>4, <1>5, <1>6, RightBut DEF Fetching, FlushDirty, Roles

(* A retrieve that can be answered is.                                        *)
LEMMA RetrieveTimeoutRight == ASSUME Works, Patient, Right, RetrieveTimeout PROVE Right'
<1>1. pc = "retrieve" /\ ~UnderWay
  BY DEF RetrieveTimeout, TimedOut, Patient
<1>2. toStm = <<>> /\ \A i \in DOMAIN toEsp : ~Wanted(toEsp[i])
  BY <1>1 DEF UnderWay
<1>3. \A i \in DOMAIN toEsp : toEsp[i].k # "ackRetrieve"
  BY <1>2 DEF Works, Exchange, OneExchange, Acks
<1> QED
  BY <1>1, <1>2, <1>3 DEF Right, Fetching

LEMMA FrameRight == ASSUME Works, Patient, Right, Frame PROVE Right'
<1>1. PICK d, half, x :
         /\ d \in DOMAIN esp /\ half \in {1, 2}
         /\ pc = "frames" /\ Answered /\ d = job.cell /\ UNCHANGED <<stm, due, kept>>
         /\ d \in DOMAIN stm /\ Even(stm[d].data)
         /\ x.loc = "canonical" /\ x.dirty /\ x.data[half] = stm[d].data[half]
         /\ half = 1 => x.data[2] = esp[d].data[2]
         /\ half = 2 => x.data[1] = stm[d].data[1]
         /\ DOMAIN esp' = DOMAIN esp /\ esp'[d] = x /\ \A c \in DOMAIN esp : c # d => esp'[c] = esp[c]
         /\ (half = 1 /\ UNCHANGED <<pc, job>>) \/ (half = 2 /\ pc' = "idle")
  BY FrameTaken
<1>2. Manager
  BY DEF Manager, Handle
<1>3. Role(d) = "frames" /\ Good(d)
  BY <1>1 DEF Role, Right, Goods
<1>4. Meets(stm[d].data, due[d]) /\ Meets(stm[d].data, kept[d])
  BY <1>1, <1>3 DEF Good, Stored, Away
<1>5. Good(d)'
  <2>1. CASE half = 1 /\ UNCHANGED <<pc, job>>
    <3>1. Role(d)' = "frames"
      BY <1>1, <2>1 DEF Role
    <3> QED
      BY <1>1, <1>4, <3>1 DEF Good, Stored, Shown, Older, Away
  <2>2. CASE half = 2 /\ pc' = "idle"
    <3>1. Role(d)' = "none"
      BY <2>2 DEF Role
    <3>2. x.data[1] = stm[d].data[1] /\ x.data[2] = stm[d].data[2]
      BY <1>1, <2>2
    <3>3. Meets(x.data, due[d]) /\ Meets(x.data, kept[d])
      BY <1>4, <3>2 DEF Meets
    <3>4. AtMost(stm[d].data, x.data)
      <4>1. \A n \in Nat : n <= n
        OBVIOUS
      <4>2. stm[d].data[1] \in Nat /\ stm[d].data[2] \in Nat
        BY <1>1, Numbers DEF Works
      <4> QED
        BY <3>2, <4>1, <4>2 DEF AtMost
    <3> QED
      BY <1>1, <3>1, <3>3, <3>4 DEF Good, Stored, Shown, Older, Away
  <2> QED
    BY <1>1, <2>1, <2>2
<1>6. \A c \in DOMAIN esp' : c # d => Same(c)
  BY <1>1 DEF Same
<1>7. Bares'
  BY <1>1, BaresStay
<1>8. ASSUME NEW n \in Nat, UpTo(n)
      PROVE  Below(esp'[d].data, n) /\ due'[d] <= n /\ kept'[d] <= n
  <2>1. Below(stm[d].data, n) /\ Below(esp[d].data, n) /\ due[d] <= n /\ kept[d] <= n
    BY <1>1, <1>8, Known DEF UpTo, Works
  <2>2. Below(x.data, n)
    BY <1>1, <2>1 DEF Below
  <2> QED
    BY <1>1, <2>1, <2>2
<1>9. pc' = "patch" => FALSE
  BY <1>1
<1> QED
  BY <1>1, <1>2, <1>5, <1>6, <1>7, <1>8, <1>9, RightBut DEF Fetching, FlushDirty, Roles

LEMMA ManagerRight ==
    ASSUME Works, Patient, Right, Manager
    PROVE  Right'
<1>1. CASE Resend \/ Sweep \/ FlushEnds \/ Patch \/ PatchEnds \/ Triggered \/ MarkDirty
  BY <1>1, ResendRight, SweepRight, FlushEndsRight, PatchRight, PatchEndsRight, TriggeredRight,
     MarkDirtyRight
<1>2. CASE SetTemp \/ SameSize \/ SizeResend \/ SizeGivenUp \/ StartFlush \/ Demote \/ Reinstate
  BY <1>2, EasyRight
<1>3. CASE Heating \/ HeatEnds \/ Shrink \/ Grow \/ SizeAgreed \/ GrowEnds \/ MoveEnds
  BY <1>3, HeatingRight, HeatEndsRight, ShrinkRight, GrowRight, SizeAgreedRight, GrowEndsRight,
     MoveEndsRight
<1>4. CASE RetrieveAcked \/ RetrieveTimeout \/ Frame \/ FrameTimeout
  BY <1>4, RetrieveAckedRight, RetrieveTimeoutRight, FrameRight, FrameTimeoutRight
<1>5. CASE \E c \in DOMAIN esp : MoveOut(c) \/ Reclaim(c)
  BY <1>5, MoveOutRight, ReclaimRight
<1> QED
  BY <1>1, <1>2, <1>3, <1>4, <1>5 DEF Manager, Handle, Pressure

-----------------------------------------------------------------------------
(* Writes: the steps of everyone but the manager                             *)

(* What the display alone has is not dropped.                                 *)
LEMMA HolderKept ==
    ASSUME Typed, Exchange, Fetching, NEW c \in DOMAIN esp, Away(c), Role(c) # "grow"
    PROVE  Holds(c) /\ ~Dropped(c)
<1>1. /\ Holds(c)
      /\ \A i \in DOMAIN toStm : toStm[i].k = "ackData" => toStm[i].cell # c
  <2>1. CASE esp[c].loc = "remote"
    BY <2>1 DEF Exchange, Held, Role
  <2>2. CASE pc = "frames" /\ job.cell = c
    BY <2>2 DEF Exchange, Held, OneExchange
  <2>3. CASE pc = "retrieve" /\ job.cell = c
    <3>1. CASE \E i \in DOMAIN toEsp : toEsp[i].k = "ackRetrieve"
      <4>1. PICK i \in DOMAIN toEsp : toEsp[i].k = "ackRetrieve"
        BY <3>1
      <4>2. toEsp[i].cell = c /\ toStm = <<>>
        BY <2>3, <4>1 DEF Exchange, OneExchange, Acks, Wanted, Storing
      <4> QED
        BY <4>1, <4>2 DEF Exchange, Held
    <3>2. CASE ~\E i \in DOMAIN toEsp : toEsp[i].k = "ackRetrieve"
      BY <2>3, <3>2 DEF Fetching
    <3> QED
      BY <3>1, <3>2
  <2> QED
    BY <2>1, <2>2, <2>3 DEF Away, Role
<1>2. toStm # <<>> => 1 \in DOMAIN toStm /\ Head(toStm) = toStm[1]
  BY TailOf DEF Typed, TypedWire
<1> QED
  BY <1>1, <1>2 DEF Holds, Dropped

LEMMA FedNumbers ==
    ASSUME Typed, Typed', AtWork, NEW c \in DOMAIN stm', Fed(c)
    PROVE  /\ \A h \in {1, 2} : stm[c].data[h] \in Nat /\ Data[h] \in Nat /\ stm'[c].data[h] \in Nat
           /\ stm'[c].data = <<stm'[c].data[1], stm'[c].data[2]>>
<1>1. Data[1] \in Nat /\ Data[2] \in Nat
  <2>1. Data \in Half \X Half
    BY DataTyped DEF Fed
  <2> QED
    BY <2>1 DEF Half
<1>2. stm[c].data[1] \in Nat /\ stm[c].data[2] \in Nat
  BY Numbers DEF Fed
<1>3. stm'[c].data \in Half \X Half
  <2>1. PICK s : s = stm'
    OBVIOUS
  <2>2. s \in Seq(StmCell)
    BY <2>1 DEF Typed, TypedStm
  <2>3. s[c] \in StmCell
    BY <2>1, <2>2, ElementOfSeq, LenProperties
  <2> QED
    BY <2>1, <2>3 DEF StmCell, CellSet
<1> QED
  BY <1>1, <1>2, <1>3 DEF Fed

LEMMA OthersGood ==
    ASSUME Typed, AtWork, Exchange, Sound, Right, Typed', Others, NEW c \in DOMAIN esp
    PROVE  Good(c)'
<1>1. UNCHANGED <<esp, pc, job, due, kept>>
  BY OthersLeave DEF Others
<1>2. c \in DOMAIN stm' => Alike(c) \/ Dropped(c) \/ Fed(c)
  BY OthersShow DEF Others, Shows, Sound
<1>3. Good(c)
  BY DEF Right, Goods
<1>4. PICK r : r = Role(c)
  OBVIOUS
<1>5. Role(c)' = r /\ (Away(c)' <=> Away(c))
  BY <1>1, <1>4 DEF Role, Away
<1>6. c \in Cells /\ due[c] \in Nat /\ kept[c] \in Nat /\ esp[c].data[1] \in Nat /\ esp[c].data[2] \in Nat
  BY Numbers
<1>7. CASE c \notin DOMAIN stm'
  <2>1. Stored(c)'
    BY <1>1, <1>3, <1>4, <1>5, <1>7 DEF Good, Stored
  <2> QED
    BY <1>7, <2>1 DEF Good, Shown, Older
<1>8. CASE Alike(c)
  <2>1. Stored(c)'
    BY <1>1, <1>3, <1>4, <1>5, <1>8 DEF Good, Stored, Alike
  <2>2. Shown(c)' /\ Older(c)'
    BY <1>1, <1>3, <1>4, <1>5, <1>8 DEF Good, Shown, Older, Alike
  <2> QED
    BY <2>1, <2>2 DEF Good
<1>9. CASE Dropped(c)
  <2>1. Away(c) => r = "grow"
    BY <1>4, <1>9, HolderKept DEF Right
  <2>2. stm'[c].loc = "remote" /\ stm'[c].data = Junk
    BY <1>9 DEF Dropped
  <2>3. Meets(Junk, 0)
    BY JunkIs DEF Meets
  <2>4. AtMost(Junk, esp[c].data) /\ AtMost(Junk, job.data)
    BY <1>6, JunkIs, Numbers DEF AtMost
  <2>5. Stored(c)'
    BY <1>1, <1>3, <1>4, <1>5, <2>1, <2>2, <2>3 DEF Good, Stored
  <2>6. Shown(c)'
    BY <2>2 DEF Shown
  <2>7. Older(c)'
    BY <1>1, <1>5, <2>2, <2>4 DEF Older
  <2> QED
    BY <2>5, <2>6, <2>7 DEF Good
<1>10. CASE Fed(c) /\ c \in DOMAIN stm'
  <2>1. /\ pc \in Storing /\ job.cell = c /\ stm'[c].loc = Place /\ c \in DOMAIN stm
        /\ \A h \in {1, 2} : stm'[c].data[h] = stm[c].data[h] \/ stm'[c].data[h] = Data[h]
    BY <1>10 DEF Fed
  <2>2. /\ \A h \in {1, 2} : stm[c].data[h] \in Nat /\ Data[h] \in Nat /\ stm'[c].data[h] \in Nat
        /\ stm'[c].data = <<stm'[c].data[1], stm'[c].data[2]>>
    BY <1>10, FedNumbers
  <2>3. \A n \in Nat : n <= n
    OBVIOUS
  <2>4. CASE pc \in {"heat", "move", "flush"}
    <3>1. esp[c].loc = "canonical" /\ r = "none" /\ Data = esp[c].data
      BY <1>4, <2>1, <2>4 DEF AtWork, Role, Data
    <3>2. ~Away(c)
      BY <1>4, <3>1 DEF Away
    <3>3. Stored(c)'
      BY <1>1, <1>3, <1>4, <1>5, <3>1, <3>2 DEF Good, Stored
    <3>4. Shown(c)'
      <4>1. stm'[c].loc = "ephemeral" => esp[c].dirty
        BY <2>1 DEF Place, Right, FlushDirty
      <4> QED
        BY <1>1, <4>1 DEF Shown
    <3>5. Older(c)'
      <4>1. SizesArrive => AtMost(stm[c].data, esp[c].data)
        BY <1>3, <2>1, <3>2 DEF Good, Older
      <4>2. SizesArrive => AtMost(stm'[c].data, esp[c].data)
        BY <1>6, <2>1, <2>3, <3>1, <4>1 DEF AtMost
      <4> QED
        BY <1>1, <1>5, <3>1, <4>2 DEF Older
    <3> QED
      BY <3>3, <3>4, <3>5 DEF Good
  <2>5. CASE pc = "patch"
    <3>1. esp[c].loc = "remote" /\ r = "patch" /\ Data = job.data
      BY <1>4, <2>1, <2>5 DEF Sound, Counted, Role, Data
    <3>2. Away(c)
      BY <3>1 DEF Away
    <3>3. /\ Meets(stm[c].data, due[c]) /\ Meets(stm[c].data, kept[c])
          /\ Meets(Data, due[c]) /\ Meets(Data, kept[c])
      BY <1>3, <1>4, <2>1, <3>1, <3>2 DEF Good, Stored
    <3>4. Meets(stm'[c].data, due[c]) /\ Meets(stm'[c].data, kept[c])
      BY <2>1, <3>3 DEF Meets
    <3>5. Stored(c)'
      BY <1>1, <1>3, <1>4, <1>5, <3>1, <3>2, <3>4 DEF Good, Stored
    <3>6. Shown(c)'
      BY <1>5, <3>2 DEF Shown
    <3>7. SizesArrive => AtMost(stm'[c].data, job.data)
      <4>1. SizesArrive => AtMost(stm[c].data, job.data)
        BY <1>3, <1>4, <2>1, <3>1 DEF Good, Older
      <4> QED
        BY <2>1, <2>2, <2>3, <3>1, <4>1 DEF AtMost
    <3>8. Older(c)'
      BY <1>1, <1>5, <3>1, <3>2, <3>7 DEF Older
    <3> QED
      BY <3>5, <3>6, <3>8 DEF Good
  <2>6. CASE pc = "grow"
    <3>1. r = "grow" /\ Data = Junk
      BY <1>4, <2>1, <2>6 DEF Role, Data
    <3>2. due[c] = 0 /\ kept[c] = 0
      BY <1>3, <1>4, <3>1 DEF Good, Stored
    <3>3. Meets(stm'[c].data, 0)
      BY <2>2 DEF Meets
    <3>4. Stored(c)'
      BY <1>1, <1>3, <1>4, <1>5, <3>1, <3>2, <3>3 DEF Good, Stored
    <3>5. Shown(c)'
      BY <2>1, <2>6 DEF Shown, Place
    <3>6. SizesArrive => stm'[c].data = Junk
      <4>1. SizesArrive => stm[c].data = Junk
        BY <1>3, <1>4, <2>1, <3>1 DEF Good, Older
      <4>2. SizesArrive => stm'[c].data[1] = 0 /\ stm'[c].data[2] = 0
        BY <2>1, <3>1, <4>1, JunkIs
      <4> QED
        BY <2>2, <4>2 DEF Junk
    <3>7. AtMost(Junk, esp[c].data)
      BY <1>6, JunkIs DEF AtMost
    <3>8. Older(c)'
      BY <1>1, <1>5, <3>1, <3>6, <3>7 DEF Older
    <3> QED
      BY <3>4, <3>5, <3>8 DEF Good
  <2> QED
    BY <2>1, <2>4, <2>5, <2>6 DEF Storing
<1> QED
  BY <1>2, <1>7, <1>8, <1>9, <1>10

(* What takes a size or a retrieve off the wire.                              *)
LEMMA TakenBy ==
    ASSUME Typed, AtWork, Others, toStm # <<>>
    PROVE  /\ Head(toStm).k = "setSize" => toStm' = toStm \/ SetSize \/ LoseToStm
           /\ Head(toStm).k = "retrieve" => toStm' = toStm \/ Retrieved \/ LoseToStm
<1>1. Feeds \/ Completes => Head(toStm).k \in Firsts \cup Seconds
  <2>1. ASSUME NEW of \in {"store", "fulfill"}, FirstFrame(of)
        PROVE  Head(toStm).k \in Firsts
    <3>1. Got(FrameKinds[of][1])
      BY <2>1 DEF FirstFrame
    <3> QED
      BY <3>1 DEF Got, FrameKinds, Firsts
  <2>2. ASSUME NEW of \in {"store", "fulfill"}, LastFrame(of)
        PROVE  Head(toStm).k \in Seconds
    <3>1. Got(FrameKinds[of][2])
      BY <2>2 DEF LastFrame
    <3> QED
      BY <3>1 DEF Got, FrameKinds, Seconds
  <2> QED
    BY <2>1, <2>2 DEF Feeds, Completes
<1>2. SetSize => Head(toStm).k = "setSize"
  BY DEF SetSize, Got
<1>3. Retrieved => Head(toStm).k = "retrieve"
  BY DEF Retrieved, Got
<1>4. TempInformed \/ TempAcked \/ DataAcked => Head(toStm).k \in {"temp", "ackTemp", "ackData"}
  BY DEF TempInformed, TempAcked, DataAcked, Got
<1>5. Poll \/ Screens \/ App => toStm' = toStm
  BY PollSays
<1>6. Route \/ LoseToEsp => toStm' = toStm
  BY DEF Route, LoseToEsp
<1> QED
  BY <1>1, <1>2, <1>3, <1>4, <1>5, <1>6, OthersAre DEF Notes, Firsts, Seconds

LEMMA CuttingKept ==
    ASSUME Typed, AtWork, Carried, Others, SizesArrive, toStm' = toStm \/ Takes,
           NEW c \in DOMAIN stm', Alike(c), Cutting(c)
    PROVE  Cutting(c)'
<1>1. PICK i \in DOMAIN toStm : toStm[i].k = "setSize" /\ toStm[i].n < c
  BY DEF Cutting
<1>2. CASE toStm' = toStm
  BY <1>1, <1>2 DEF Cutting
<1>3. CASE Takes /\ toStm' # toStm
  <2>1. Data' = Data
    BY OthersLeave DEF Others
  <2>2. i = 1 \/ \E l \in DOMAIN toStm' : toStm'[l] = toStm[i]
    BY <1>3, <2>1, CarriedOn
  <2>3. i # 1
    <3>1. SUFFICES ASSUME i = 1 PROVE FALSE
      OBVIOUS
    <3>2. toStm # <<>> /\ Head(toStm) = toStm[1] /\ toStm[1] \in ForStm
      BY <1>3, TailOf DEF Takes, Typed, TypedWire
    <3>3. PICK n : n = Head(toStm).n
      OBVIOUS
    <3>4. n < c /\ Head(toStm).k = "setSize" /\ n \in Nat
      <4>1. toStm[1].n \in Sizes
        BY <1>1, <3>1, <3>2 DEF ForStm
      <4> QED
        BY <1>1, <3>1, <3>2, <3>3, <4>1, SizesAre
    <3>5. SetSize
      BY <1>3, <3>2, <3>4, TakenBy DEF LoseToStm, SizesArrive
    <3>6. c \in DOMAIN stm /\ c \in Nat /\ c <= Len(stm) /\ Len(stm) \in Nat
      BY Known DEF Alike
    <3>7. \/ n > Len(stm)
          \/ stm' = [x \in 1..n |-> IF x <= Len(stm) THEN stm[x] ELSE NewRemote]
      BY <3>3, <3>5 DEF SetSize
    <3>8. DOMAIN stm' = 1 .. n
      BY <3>4, <3>6, <3>7
    <3> QED
      BY <3>4, <3>6, <3>8
  <2> QED
    BY <1>1, <2>2, <2>3 DEF Cutting
<1> QED
  BY <1>2, <1>3

LEMMA OthersBare ==
    ASSUME Typed, AtWork, Exchange, Sound, Right, Others, FirstsArrive
    PROVE  Bares'
<1>1. UNCHANGED <<esp, pc, job, due, kept>>
  BY OthersLeave DEF Others
<1>2. ASSUME NEW c \in Cells, c \notin DOMAIN esp PROVE Bare(c)'
  <2>1. Bare(c)
    BY <1>2 DEF Right, Bares
  <2>2. ASSUME SizesArrive, c \in DOMAIN stm' PROVE stm'[c].data = Junk \/ Cutting(c)'
    <3>1. Alike(c) \/ Dropped(c) \/ Fed(c)
      BY <2>2, OthersShow DEF Others, Shows, Sound
    <3>2. ~Fed(c)
      BY <1>2 DEF Fed, AtWork
    <3>3. CASE Dropped(c)
      BY <3>3 DEF Dropped
    <3>4. CASE Alike(c)
      <4>1. stm[c].data = Junk \/ Cutting(c)
        BY <2>1, <2>2, <3>4 DEF Bare, Alike
      <4>2. toStm' = toStm \/ Takes
        BY OthersCarry DEF Sound
      <4> QED
        BY <2>2, <3>4, <4>1, <4>2, CuttingKept DEF Alike, Sound
    <3> QED
      BY <3>1, <3>2, <3>3, <3>4
  <2> QED
    BY <1>1, <2>1, <2>2 DEF Bare
<1> QED
  BY <1>1, <1>2 DEF Bares

(* A retrieve on its way stays so, or is answered.                            *)
LEMMA TailHas ==
    ASSUME NEW S, NEW s \in Seq(S), s # <<>>, NEW t, t = Tail(s), NEW i \in DOMAIN s, i # 1
    PROVE  \E l \in DOMAIN t : t[l] = s[i]
<1>1. /\ t \in Seq(S) /\ Len(t) \in Nat /\ Len(s) = Len(t) + 1
      /\ \A l \in DOMAIN t : l + 1 \in DOMAIN s /\ t[l] = s[l + 1]
  BY TailOf
<1>2. DOMAIN t = 1 .. Len(t) /\ DOMAIN s = 1 .. Len(s)
  BY <1>1, LenProperties
<1>3. PICK l : l = i - 1
  OBVIOUS
<1>4. l \in DOMAIN t /\ i = l + 1
  BY <1>1, <1>2, <1>3
<1> QED
  BY <1>1, <1>4

LEMMA StillHeld ==
    ASSUME Typed, AtWork, Exchange, Sound, Right, Others, pc = "retrieve", toStm # <<>>
    PROVE  Holds(job.cell) /\ Holds(job.cell)'
<1>1. PICK c \in DOMAIN esp : c = job.cell
  BY DEF AtWork
<1>2. Holds(c) /\ ~Dropped(c)
  BY <1>1, HolderKept DEF Right, Away, Role
<1>3. c \in DOMAIN stm' => Alike(c)
  <2>1. c \in DOMAIN stm' => Alike(c) \/ Dropped(c) \/ Fed(c)
    BY OthersShow DEF Others, Shows, Sound
  <2> QED
    BY <1>2, <2>1 DEF Fed, Storing
<1>4. c \in DOMAIN stm'
  <2>1. 1 \in DOMAIN toStm /\ Head(toStm) = toStm[1]
    BY TailOf DEF Typed, TypedWire
  <2>2. toStm[1].k \notin Firsts \cup Seconds \cup {"setSize"}
    BY <2>1 DEF Exchange, OneExchange, Expected, Firsts, Seconds, Storing
  <2>3. ~SetSize /\ ~Feeds /\ ~Completes
    BY <2>1, <2>2 DEF SetSize, Feeds, Completes, FirstFrame, LastFrame, Got, FrameKinds, Firsts, Seconds
  <2>4. CASE DataAcked \/ \E d \in DOMAIN stm : Evict(d)
    <3>1. DataAcked => DOMAIN stm' = DOMAIN stm
      BY DEF DataAcked
    <3>2. \A d \in DOMAIN stm : Evict(d) => DOMAIN stm' = DOMAIN stm
      BY DEF Evict
    <3> QED
      BY <1>2, <2>4, <3>1, <3>2 DEF Holds
  <2>5. CASE SendDataRequests
    BY <1>2, <2>5 DEF SendDataRequests, Holds
  <2>6. CASE stm' = stm
    BY <1>2, <2>6 DEF Holds
  <2>7. TempInformed \/ TempAcked \/ Retrieved => stm' = stm
    BY DEF TempInformed, TempAcked, Retrieved, stmVars
  <2>8. AskAgain \/ (\E t \in Asks : AskTemp(t)) => stm' = stm
    BY DEF AskAgain, AskTemp
  <2>9. Route \/ LoseToStm \/ LoseToEsp => stm' = stm
    BY DEF Route, LoseToStm, LoseToEsp, stmVars
  <2>10. App => stm' = stm
    BY DEF App, Write, Trigger, Resize, stmVars
  <2> QED
    BY <2>3, <2>4, <2>5, <2>6, <2>7, <2>8, <2>9, <2>10, OthersAre DEF Notes, Poll, Screens
<1>5. job' = job
  BY OthersLeave DEF Others
<1> QED
  BY <1>1, <1>2, <1>3, <1>4, <1>5 DEF Holds, Alike

LEMMA RetrievedAnswers ==
    ASSUME Typed, Retrieved, Holds(Head(toStm).cell)
    PROVE  \E i \in DOMAIN toEsp' : toEsp'[i].k = "ackRetrieve"
<1>1. Head(toStm) \in ForStm /\ Head(toStm).k = "retrieve"
  BY GotTyped DEF Retrieved
<1>2. PICK c \in Cells : c = Head(toStm).cell
  BY <1>1 DEF ForStm
<1>3. stm[c] \in StmCell
  BY <1>2, Known DEF Holds
<1>4. PICK v \in Half, w \in Half : v = stm[c].data[1] /\ w = stm[c].data[2]
  BY <1>3 DEF StmCell, CellSet
<1>5. PICK a, b, d : /\ a = [k |-> "ackRetrieve", cell |-> c]
                     /\ b = [k |-> "data1", cell |-> c, val |-> v]
                     /\ d = [k |-> "data2", cell |-> c, val |-> w]
  OBVIOUS
<1>6. PICK qs : qs = <<a, b, d>>
  OBVIOUS
<1>7. a \in ForEsp /\ b \in ForEsp /\ d \in ForEsp /\ a.k = "ackRetrieve"
  BY <1>5 DEF ForEsp
<1>8. qs \in Seq(ForEsp) /\ 1 \in DOMAIN qs /\ qs[1] = a
  BY <1>6, <1>7, Three
<1>9. toEsp' = toEsp \o qs
  BY <1>2, <1>4, <1>5, <1>6 DEF Retrieved, SendEsp, Holds
<1>10. PICK i : i = Len(toEsp) + 1
  OBVIOUS
<1>11. i \in DOMAIN toEsp' /\ toEsp'[i] = a
  BY <1>8, <1>9, <1>10, JoinedAt DEF Typed, TypedWire
<1> QED
  BY <1>7, <1>11

LEMMA OthersFetching ==
    ASSUME Typed, AtWork, Exchange, Sound, Right, Others, FirstsArrive, RetrievesArrive
    PROVE  Fetching'
<1> SUFFICES ASSUME pc = "retrieve" PROVE Fetching'
  BY OthersLeave DEF Others, Fetching
<1>1. UNCHANGED <<esp, pc, job>> /\ Data' = Data
  BY OthersLeave DEF Others
<1>2. CASE \E i \in DOMAIN toEsp : toEsp[i].k = "ackRetrieve"
  <2>1. PICK i \in DOMAIN toEsp : toEsp[i].k = "ackRetrieve"
    BY <1>2
  <2>2. Wanted(toEsp[i]) /\ toStm = <<>>
    BY <2>1 DEF Exchange, OneExchange, Acks
  <2>3. ~Feeds /\ ~Completes /\ ~Notes /\ ~Retrieved /\ ~LoseToStm
    BY <2>2 DEF Feeds, Completes, Notes, FirstFrame, LastFrame, SetSize, TempInformed, TempAcked,
                DataAcked, Retrieved, LoseToStm, Got
  <2>4. CASE Poll \/ Screens \/ App
    <3>1. PICK qs \in Seq(ForEsp) : toEsp' = toEsp \o qs
      BY <2>4, PollSays DEF SaysSmall
    <3>2. i \in DOMAIN toEsp' /\ toEsp'[i] = toEsp[i]
      BY <3>1, JoinedAt DEF Typed, TypedWire
    <3> QED
      BY <2>1, <3>2 DEF Fetching
  <2>5. CASE Route \/ LoseToEsp
    <3>1. toEsp # <<>> /\ toEsp' = Tail(toEsp) /\ (~Wanted(Head(toEsp)) \/ Head(toEsp).k \in Lossy)
      BY <2>5 DEF Route, LoseToEsp
    <3>2. Head(toEsp) = toEsp[1]
      BY <3>1, TailOf DEF Typed, TypedWire
    <3>3. i # 1
      BY <2>1, <2>2, <3>1, <3>2 DEF RetrievesArrive
    <3>4. \E l \in DOMAIN toEsp' : toEsp'[l] = toEsp[i]
      BY <3>1, <3>3, TailHas DEF Typed, TypedWire
    <3> QED
      BY <2>1, <3>4 DEF Fetching
  <2> QED
    BY <2>3, <2>4, <2>5, OthersAre
<1>3. CASE ~\E i \in DOMAIN toEsp : toEsp[i].k = "ackRetrieve"
  <2>1. PICK i \in DOMAIN toStm : toStm[i].k = "retrieve"
    BY <1>3 DEF Right, Fetching
  <2>2. \A l \in DOMAIN toStm : toStm[l].k = "ackData" => toStm[l].cell # job.cell
    BY <1>3 DEF Right, Fetching
  <2>3. toStm # <<>> /\ Holds(job.cell) /\ Holds(job.cell)'
    <3>1. toStm # <<>>
      BY <2>1
    <3> QED
      BY <3>1, StillHeld
  <2>4. toStm' = toStm \/ Takes
    BY OthersCarry DEF Sound
  <2>5. CASE toStm' = toStm
    BY <1>1, <2>1, <2>2, <2>3, <2>5 DEF Fetching, Holds
  <2>6. CASE Takes /\ toStm' # toStm
    <3>1. \A l \in DOMAIN toStm' : \E n \in DOMAIN toStm : toStm'[l] = toStm[n]
      <4>1. PICK t : t = Tail(toStm)
        OBVIOUS
      <4>2. toStm' = t /\ \A l \in DOMAIN t : l + 1 \in DOMAIN toStm /\ t[l] = toStm[l + 1]
        BY <2>6, <4>1, TailOf DEF Takes, Typed, TypedWire
      <4> QED
        BY <4>2
    <3>2. \A l \in DOMAIN toStm' : toStm'[l].k = "ackData" => toStm'[l].cell # job.cell
      BY <2>2, <3>1
    <3>3. CASE i # 1
      <4>1. \E l \in DOMAIN toStm' : toStm'[l] = toStm[i]
        BY <2>6, <3>3, TailHas DEF Takes, Typed, TypedWire
      <4>2. \E l \in DOMAIN toStm' : toStm'[l].k = "retrieve"
        BY <2>1, <4>1
      <4> QED
        BY <1>1, <2>3, <3>2, <4>2 DEF Fetching, Holds
    <3>4. CASE i = 1
      <4>1. Head(toStm) = toStm[1]
        BY <2>3, TailOf DEF Typed, TypedWire
      <4>2. Retrieved
        BY <2>1, <2>3, <2>6, <3>4, <4>1, TakenBy DEF LoseToStm, RetrievesArrive
      <4>3. Head(toStm).cell = job.cell
        BY <2>1, <3>4, <4>1 DEF Exchange, OneExchange, Expected
      <4> QED
        BY <2>3, <4>2, <4>3, RetrievedAnswers DEF Fetching
    <3> QED
      BY <3>3, <3>4
  <2> QED
    BY <2>4, <2>5, <2>6
<1> QED
  BY <1>2, <1>3

(* What is not newer than a write stays so.                                   *)
LEMMA UpToStays ==
    ASSUME Typed, AtWork, Exchange, Sound, Others, NEW n \in Nat, UpTo(n)
    PROVE  UpTo(n)'
<1>1. UNCHANGED <<esp, pc, job, due, kept>>
  BY OthersLeave DEF Others
<1>2. ASSUME NEW c \in DOMAIN stm' PROVE Below(stm'[c].data, n)
  <2>1. Alike(c) \/ Dropped(c) \/ Fed(c)
    BY OthersShow DEF Others, Shows, Sound
  <2>2. CASE Alike(c)
    BY <2>2 DEF Alike, UpTo
  <2>3. CASE Dropped(c)
    BY <2>3, JunkIs DEF Dropped, Below
  <2>4. CASE Fed(c)
    <3>1. Below(stm[c].data, n)
      BY <2>4 DEF Fed, UpTo
    <3>2. Below(Data, n)
      <4>1. CASE pc = "patch"
        BY <4>1 DEF Data, UpTo
      <4>2. CASE pc = "grow"
        BY <4>2, JunkIs DEF Data, Below
      <4>3. CASE pc \notin {"patch", "grow"}
        BY <2>4, <4>3 DEF Fed, AtWork, Data, UpTo
      <4> QED
        BY <4>1, <4>2, <4>3
    <3> QED
      BY <2>4, <3>1, <3>2 DEF Fed, Below
  <2> QED
    BY <2>1, <2>2, <2>3, <2>4
<1>3. \A c \in Cells : due[c] <= n /\ kept[c] <= n
  BY DEF UpTo
<1>4. \A c \in DOMAIN esp : Below(esp[c].data, n)
  BY DEF UpTo
<1>5. pc = "patch" => Below(job.data, n)
  BY DEF UpTo
<1> QED
  BY <1>1, <1>2, <1>3, <1>4, <1>5 DEF UpTo, Below

LEMMA QueueOn ==
    ASSUME Typed, AtWork, Others
    PROVE  \/ queue' = queue /\ writes' = writes
           \/ \E q \in Pending : /\ queue' = Append(queue, q) /\ writes' \in {writes, writes + 1}
                                 /\ q.k = "patch" => q.val = writes'
<1>1. CASE Receive \/ Poll \/ Screens
  <2>1. ASSUME NEW of, FirstFrame(of) \/ LastFrame(of) PROVE UNCHANGED <<queue, appVars>>
    BY <2>1 DEF FirstFrame, LastFrame
  <2>2. SetSize \/ TempInformed \/ TempAcked => UNCHANGED <<queue, appVars>>
    BY DEF SetSize, TempInformed, TempAcked
  <2>3. Retrieved \/ DataAcked => UNCHANGED <<queue, appVars>>
    BY DEF Retrieved, DataAcked
  <2>4. Poll => UNCHANGED <<queue, appVars>>
    BY DEF Poll, SendDataRequests, AskAgain
  <2>5. Screens => UNCHANGED <<queue, appVars>>
    <3>1. \A c : Evict(c) => UNCHANGED <<queue, appVars>>
      BY DEF Evict
    <3>2. \A t : AskTemp(t) => UNCHANGED <<queue, appVars>>
      BY DEF AskTemp
    <3> QED
      BY <3>1, <3>2 DEF Screens
  <2>6. UNCHANGED <<queue, appVars>>
    BY <1>1, <2>1, <2>2, <2>3, <2>4, <2>5 DEF Receive
  <2> QED
    BY <2>6 DEF appVars
<1>2. CASE LoseToStm \/ LoseToEsp
  BY <1>2 DEF LoseToStm, LoseToEsp, appVars
<1>3. CASE Route
  <2>1. PICK p : p = Head(toEsp)
    OBVIOUS
  <2>2. /\ writes' = writes /\ toEsp # <<>>
        /\ queue' = queue \/ (p.k \in {"askTemp", "request"} /\ queue' = Append(queue, p))
    BY <1>3, <2>1 DEF Route, appVars
  <2>3. p \in ForEsp
    BY <2>1, <2>2, TailOf DEF Typed, TypedWire
  <2>4. p.k \in {"askTemp", "request"} => p \in Pending /\ p.k # "patch"
    BY <2>3 DEF ForEsp, Pending
  <2> QED
    BY <2>2, <2>4
<1>4. CASE \E c \in Cells, m \in BOOLEAN : Write(c, m)
  <2>1. PICK c \in Cells, m \in BOOLEAN : Write(c, m)
    BY <1>4
  <2>2. writes' = writes + 1 /\ writes' \in Half
    BY <2>1, SlotSyncAssumption DEF Write, Half, Typed, TypedApp
  <2>3. PICK q : q = [k |-> "patch", cell |-> c, val |-> writes', mark |-> m]
    OBVIOUS
  <2>4. q \in Pending /\ q.val = writes'
    BY <2>2, <2>3 DEF Pending
  <2>5. queue' = Append(queue, q)
    BY <2>1, <2>3 DEF Write
  <2> QED
    BY <2>2, <2>4, <2>5
<1>5. CASE \E n \in Sizes : Resize(n)
  <2>1. PICK n \in Sizes : Resize(n)
    BY <1>5
  <2>2. PICK q : q = [k |-> "size", n |-> n]
    OBVIOUS
  <2>3. q \in Pending /\ q.k # "patch"
    BY <2>2 DEF Pending
  <2> QED
    BY <2>1, <2>2, <2>3 DEF Resize
<1>6. CASE Trigger
  <2>1. PICK q : q = [k |-> "trigger"]
    OBVIOUS
  <2>2. q \in Pending /\ q.k # "patch"
    BY <2>1 DEF Pending
  <2> QED
    BY <1>6, <2>1, <2>2 DEF Trigger, appVars
<1> QED
  BY <1>1, <1>2, <1>3, <1>4, <1>5, <1>6 DEF Others, Next, App

LEMMA OrderedMore ==
    ASSUME Typed, Ordered, \A n \in Nat : UpTo(n) => UpTo(n)', NEW q \in Pending,
           queue' = Append(queue, q), writes' \in {writes, writes + 1}, q.k = "patch" => q.val = writes'
    PROVE  Ordered'
<1>1. /\ queue \in Seq(Pending) /\ writes \in Nat /\ Len(queue) \in Nat
      /\ DOMAIN queue = 1 .. Len(queue)
  BY LenProperties DEF Typed, TypedWire, TypedApp
<1>2. PICK m : m = Len(queue) + 1
  OBVIOUS
<1>3. PICK w : w = writes'
  OBVIOUS
<1>4. w \in Nat /\ writes <= w
  BY <1>1, <1>3
<1>5. PICK t : t = queue'
  OBVIOUS
<1>6. /\ DOMAIN t = 1 .. m
      /\ \A i \in DOMAIN t : (i \in DOMAIN queue /\ t[i] = queue[i]) \/ (i = m /\ t[i] = q)
  <2>1. t \in Seq(Pending) /\ Len(t) = m
    BY <1>1, <1>2, <1>5, AppendProperties
  <2>2. DOMAIN t = 1 .. m
    BY <2>1, LenProperties
  <2> QED
    BY <1>1, <1>2, <1>5, <2>2, AppendProperties
<1>7. \A i \in DOMAIN queue : queue[i].k = "patch" => queue[i].val \in Nat
  <2>1. ASSUME NEW i \in DOMAIN queue, queue[i].k = "patch" PROVE queue[i].val \in Nat
    <3>1. queue[i] \in Pending
      BY <1>1, ElementOfSeq
    <3> QED
      BY <2>1, <3>1 DEF Pending, Asked, Half
  <2> QED
    BY <2>1
<1>8. UpTo(w)
  <2>1. \A c \in Cells : due[c] \in Nat /\ kept[c] \in Nat
    BY Numbers
  <2>2. \A c \in Cells : due[c] <= writes /\ kept[c] <= writes
    BY DEF Ordered, UpTo
  <2>3. \A c \in Cells : due[c] <= w /\ kept[c] <= w
    BY <1>1, <1>4, <2>1, <2>2
  <2>4. \A x, y \in Nat : x <= writes /\ y <= writes => x <= w /\ y <= w
    BY <1>1, <1>4
  <2>5. \A c \in DOMAIN esp : Below(esp[c].data, w)
    BY <2>4, Numbers DEF Ordered, UpTo, Below
  <2>6. \A c \in DOMAIN stm : Below(stm[c].data, w)
    BY <2>4, Numbers DEF Ordered, UpTo, Below
  <2>7. pc = "patch" => Below(job.data, w)
    BY <2>4, Numbers DEF Ordered, UpTo, Below
  <2> QED
    BY <2>3, <2>5, <2>6, <2>7 DEF UpTo
<1>9. UpTo(w)'
  BY <1>4, <1>8
<1>10. UpTo(writes)'
  BY <1>3, <1>9 DEF UpTo
<1>11. ASSUME NEW i \in DOMAIN t, t[i].k = "patch"
       PROVE  t[i].val <= writes' /\ UpTo(t[i].val)'
  <2>1. CASE i \in DOMAIN queue /\ t[i] = queue[i]
    <3>1. PICK v \in Nat : v = queue[i].val
      BY <1>7, <1>11, <2>1
    <3>2. v <= writes /\ UpTo(v)
      BY <1>11, <2>1, <3>1 DEF Ordered
    <3>3. UpTo(v)'
      BY <3>2
    <3>4. v <= w
      BY <1>1, <1>4, <3>2
    <3> QED
      BY <1>3, <2>1, <3>1, <3>3, <3>4 DEF UpTo
  <2>2. CASE i = m /\ t[i] = q
    <3>1. q.val = w /\ w <= w
      BY <1>3, <1>4, <1>11, <2>2
    <3> QED
      BY <1>3, <1>9, <2>2, <3>1 DEF UpTo
  <2> QED
    BY <1>6, <2>1, <2>2
<1>12. ASSUME NEW i \in DOMAIN t, NEW j \in DOMAIN t, i < j,
              t[i].k = "patch", t[j].k = "patch"
       PROVE  t[i].val <= t[j].val
  <2>1. i \in Nat /\ j \in Nat /\ j <= m /\ m \in Nat /\ i # m
    BY <1>1, <1>2, <1>6, <1>12
  <2>2. i \in DOMAIN queue /\ t[i] = queue[i]
    BY <1>6, <2>1
  <2>3. CASE j \in DOMAIN queue /\ t[j] = queue[j]
    BY <1>12, <2>2, <2>3 DEF Ordered
  <2>4. CASE j = m /\ t[j] = q
    <3>1. PICK v \in Nat : v = queue[i].val
      BY <1>7, <1>12, <2>2
    <3>2. v <= writes
      BY <1>12, <2>2, <3>1 DEF Ordered
    <3>3. q.val = w
      BY <1>3, <1>12, <2>4
    <3>4. v <= w
      BY <1>1, <1>4, <3>2
    <3> QED
      BY <2>2, <2>4, <3>1, <3>3, <3>4
  <2> QED
    BY <1>6, <2>3, <2>4
<1> QED
  BY <1>5, <1>10, <1>11, <1>12 DEF Ordered, UpTo

LEMMA OthersRight ==
    ASSUME Typed, AtWork, Exchange, Sound, Right, FirstsArrive, RetrievesArrive, Typed', Others
    PROVE  Right'
<1>1. UNCHANGED <<esp, pc, job>>
  BY OthersLeave DEF Others
<1>2. Goods'
  <2>1. \A c \in DOMAIN esp : Good(c)'
    BY OthersGood
  <2>2. DOMAIN esp' = DOMAIN esp
    BY <1>1
  <2> QED
    BY <2>1, <2>2 DEF Goods
<1>3. Bares' /\ Fetching'
  BY OthersBare, OthersFetching
<1>4. FlushDirty'
  BY <1>1 DEF Right, FlushDirty
<1>5. Ordered'
  <2>1. \A n \in Nat : UpTo(n) => UpTo(n)'
    BY UpToStays
  <2>2. CASE queue' = queue /\ writes' = writes
    BY <2>1, <2>2, OrderedOn DEF Right
  <2>3. CASE \E q \in Pending : /\ queue' = Append(queue, q) /\ writes' \in {writes, writes + 1}
                                /\ q.k = "patch" => q.val = writes'
    BY <2>1, <2>3, OrderedMore DEF Right
  <2> QED
    BY <2>2, <2>3, QueueOn
<1> QED
  BY <1>2, <1>3, <1>4, <1>5 DEF Right

LEMMA RightInit == Init => Right
<1> SUFFICES ASSUME Init PROVE Right
  OBVIOUS
<1>1. Typed
  BY TypedInit
<1>2. /\ pc = "idle" /\ writes = 0 /\ queue = <<>> /\ DOMAIN <<>> = {}
      /\ \A c \in Cells : due[c] = 0 /\ kept[c] = 0
      /\ \A c \in DOMAIN esp : c \in Cells /\ esp[c].loc = "canonical" /\ esp[c].data = Junk
      /\ \A c \in DOMAIN stm : c \in Cells /\ stm[c].data = Junk /\ stm[c].loc = "remote"
  <2>1. pc = "idle" /\ writes = 0 /\ queue = <<>> /\ DOMAIN <<>> = {}
    BY DEF Init
  <2>2. \A c \in Cells : due[c] = 0 /\ kept[c] = 0
    BY DEF Init
  <2>3. \A c \in DOMAIN esp : c \in Cells /\ esp[c].loc = "canonical" /\ esp[c].data = Junk
    BY <1>1, Known DEF Init, Cell
  <2>4. \A c \in DOMAIN stm : c \in Cells /\ stm[c].data = Junk /\ stm[c].loc = "remote"
    BY <1>1, Known DEF Init, NewRemote, Cell
  <2> QED
    BY <2>1, <2>2, <2>3, <2>4
<1>3. Meets(Junk, 0) /\ Below(Junk, 0) /\ AtMost(Junk, Junk)
  BY JunkIs DEF Meets, Below, AtMost
<1>4. \A c \in DOMAIN esp : Role(c) = "none" /\ ~Away(c)
  BY <1>2 DEF Role, Away
<1>5. Goods
  BY <1>2, <1>3, <1>4 DEF Goods, Good, Stored, Shown, Older
<1>6. Bares
  BY <1>2 DEF Bares, Bare
<1>7. Ordered
  <2>1. 0 <= 0
    OBVIOUS
  <2>2. UpTo(0)
    BY <1>2, <1>3, <2>1 DEF UpTo
  <2> QED
    BY <1>2, <2>2 DEF Ordered
<1> QED
  BY <1>2, <1>5, <1>6, <1>7 DEF Right, Fetching, FlushDirty

LEMMA RightStep ==
    ASSUME Patient, FirstsArrive, RetrievesArrive
    PROVE  Typed /\ AtWork /\ Exchange /\ Sound /\ Right /\ [Next]_vars => Right'
<1> SUFFICES ASSUME Typed, AtWork, Exchange, Sound, Right, [Next]_vars PROVE Right'
  OBVIOUS
<1>1. Typed' /\ AtWork' /\ Exchange'
  BY TypedStep, ExchangeStep
<1>2. CASE UNCHANGED vars
  <2>1. UNCHANGED <<esp, queue, pc, job, stm, toStm, toEsp, writes, due, kept>>
    BY <1>2 DEF vars, espVars, stmVars, appVars, history
  <2>2. \A c : /\ (Role(c)' = Role(c)) /\ (Away(c)' <=> Away(c))
               /\ (Cutting(c)' <=> Cutting(c)) /\ (Holds(c)' <=> Holds(c))
    BY <2>1 DEF Role, Away, Cutting, Holds
  <2>3. Goods'
    <3>1. ASSUME NEW c \in DOMAIN esp PROVE Good(c)'
      <4>1. Good(c)
        BY DEF Right, Goods
      <4> QED
        BY <2>1, <2>2, <4>1 DEF Good, Stored, Shown, Older
    <3> QED
      BY <2>1, <3>1 DEF Goods
  <2>4. Bares'
    BY <2>1, <2>2 DEF Right, Bares, Bare
  <2>5. Fetching'
    BY <2>1, <2>2 DEF Right, Fetching
  <2>6. FlushDirty'
    BY <2>1 DEF Right, FlushDirty
  <2>7. \A n \in Nat : UpTo(n) => UpTo(n)'
    BY <2>1 DEF UpTo
  <2>8. Ordered'
    BY <1>1, <2>1, <2>7, OrderedOn DEF Right
  <2> QED
    BY <2>3, <2>4, <2>5, <2>6, <2>8 DEF Right
<1>3. CASE Manager
  <2>1. Handled
    BY <1>3, ManagerDone DEF Manager
  <2> QED
    BY <1>1, <1>3, <2>1, ManagerRight DEF Works
<1>4. CASE Others
  BY <1>1, <1>4, OthersRight
<1> QED
  BY <1>2, <1>3, <1>4 DEF Manager, Others

(* No write is lost on its way from one side to the other: when the manager   *)
(* is at rest, whoever has a cell has one whole write of it, and none older   *)
(* than the last that was applied or acknowledged.  This is for every number  *)
(* of losses of frames' second halves that the retries are enough for, and    *)
(* for any loss of acknowledgements of a store, of temperatures, of requests  *)
(* and of sizes.                                                              *)
THEOREM NoWriteLost ==
    ASSUME Patient, FirstsArrive, RetrievesArrive, StoresEnd
    PROVE  Spec => []Intact
<1>1. Typed /\ Sound /\ Right => Intact
  <2> SUFFICES ASSUME Typed, Sound, Right, pc = "idle",
                      NEW c \in DOMAIN esp, c \in DOMAIN stm,
                      NEW x, x = IF esp[c].loc = "remote" THEN stm[c].data ELSE esp[c].data
               PROVE  x[1] = x[2] /\ x[1] >= kept[c]
    BY DEF Intact, Quiet
  <2>1. Role(c) = "none"
    BY DEF Role
  <2>2. EvenAt(c) /\ Stored(c)
    BY DEF Sound, Evens, Right, Goods, Good
  <2>3. Even(x) /\ Meets(x, kept[c])
    BY <2>1, <2>2 DEF EvenAt, Stored, Away
  <2>4. kept[c] \in Nat /\ x[1] \in Nat
    BY Numbers
  <2> QED
    BY <2>3, <2>4 DEF Even, Meets
<1>2. Typed /\ AtWork /\ Exchange /\ Sound /\ Right /\ [Next]_vars => Sound' /\ Right'
  BY SoundStep, RightStep
<1> QED
  BY <1>1, <1>2, TypedInit, TypedStep, ExchangeInit, ExchangeStep, SoundInit, RightInit, PTL DEF Spec

(* What the manager believes shown is shown: when it is at rest and has a     *)
(* cell down as clean, a copy on the display is no older than the last write  *)
(* that was to be shown, however often it was flushed, evicted or fetched.    *)
THEOREM ShownIsCurrent ==
    ASSUME Patient, FirstsArrive, RetrievesArrive, StoresEnd
    PROVE  Spec => []CleanShown
<1>1. Typed /\ Right => CleanShown
  <2> SUFFICES ASSUME Typed, Right, pc = "idle", NEW c \in DOMAIN esp, c \in DOMAIN stm,
                      esp[c].loc = "canonical", ~esp[c].dirty, stm[c].loc = "ephemeral",
                      NEW h \in {1, 2}
               PROVE  stm[c].data[h] >= due[c]
    <3>1. 1 .. 2 = {1, 2}
      OBVIOUS
    <3> QED
      BY <3>1 DEF CleanShown, Quiet
  <2>1. Shown(c) /\ ~Away(c)
    BY DEF Right, Goods, Good, Away, Role
  <2>2. Meets(stm[c].data, due[c])
    BY <2>1 DEF Shown
  <2>3. due[c] \in Nat /\ stm[c].data[1] \in Nat /\ stm[c].data[2] \in Nat
    BY Numbers
  <2> QED
    BY <2>2, <2>3 DEF Meets
<1>2. Typed /\ AtWork /\ Exchange /\ Sound /\ Right /\ [Next]_vars => Sound' /\ Right'
  BY SoundStep, RightStep
<1> QED
  BY <1>1, <1>2, TypedInit, TypedStep, ExchangeInit, ExchangeStep, SoundInit, RightInit, PTL DEF Spec

LEMMA NeverBack ==
    ASSUME Typed, AtWork, Exchange, Sound, Right, SizesArrive, Patient, [Next]_vars
    PROVE  NotBack
<1> SUFFICES ASSUME NEW c \in DOMAIN stm, c \in DOMAIN stm',
                    stm[c].loc # "remote", stm'[c].loc # "remote", NEW h \in {1, 2}
             PROVE  stm'[c].data[h] >= stm[c].data[h]
  <2>1. 1 .. 2 = {1, 2}
    OBVIOUS
  <2> QED
    BY <2>1 DEF NotBack
<1>1. PICK v \in Nat : v = stm[c].data[h]
  BY Numbers
<1>2. v >= v
  BY <1>1
<1>3. CASE stm' = stm
  BY <1>1, <1>2, <1>3
<1>4. CASE Alike(c)
  BY <1>1, <1>2, <1>4 DEF Alike
<1>5. CASE Fed(c)
  <2>1. /\ pc \in Storing /\ job.cell = c
        /\ stm'[c].data[h] = stm[c].data[h] \/ stm'[c].data[h] = Data[h]
    BY <1>5 DEF Fed
  <2>2. c \in DOMAIN esp
    BY <2>1 DEF AtWork
  <2>3. Older(c)
    BY <2>2 DEF Right, Goods, Good
  <2>4. AtMost(stm[c].data, Data) \/ stm[c].data = Data
    <3>1. CASE pc \in {"heat", "move", "flush"}
      <4>1. esp[c].loc = "canonical" /\ Role(c) = "none" /\ Data = esp[c].data
        BY <2>1, <3>1 DEF AtWork, Role, Data
      <4> QED
        BY <2>3, <4>1 DEF Older, Away
    <3>2. CASE pc = "patch"
      BY <2>1, <2>3, <3>2 DEF Older, Role, Data
    <3>3. CASE pc = "grow"
      BY <2>1, <2>3, <3>3 DEF Older, Role, Data
    <3> QED
      BY <2>1, <3>1, <3>2, <3>3 DEF Storing
  <2>5. v <= Data[h] /\ Data[h] \in Nat
    <3>1. Data[1] \in Nat /\ Data[2] \in Nat
      <4>1. Data \in Half \X Half
        BY <2>1, DataTyped
      <4> QED
        BY <4>1 DEF Half
    <3> QED
      BY <1>1, <1>2, <2>4, <3>1 DEF AtMost
  <2> QED
    BY <1>1, <1>2, <2>1, <2>5
<1>6. stm' = stm \/ Alike(c) \/ Dropped(c) \/ Fed(c)
  <2>1. CASE UNCHANGED vars
    BY <2>1 DEF vars, stmVars
  <2>2. CASE Manager
    BY <2>2, ManagerDone DEF Manager, Handled
  <2>3. CASE Others
    BY <2>3, OthersShow DEF Others, Shows, Sound
  <2> QED
    BY <2>1, <2>2, <2>3 DEF Manager, Others
<1> QED
  BY <1>3, <1>4, <1>5, <1>6 DEF Dropped

(* What the screens see never goes back to an older write: no retry, no late  *)
(* packet and no move between the sides replaces newer content by older, as   *)
(* long as changes of size arrive.                                            *)
THEOREM NeverOlder ==
    ASSUME Patient, FirstsArrive, RetrievesArrive, SizesArrive, StoresEnd
    PROVE  Spec => Forward
<1>1. Typed /\ AtWork /\ Exchange /\ Sound /\ Right /\ [Next]_vars => Sound' /\ Right' /\ [NotBack]_vars
  BY SoundStep, RightStep, NeverBack
<1> QED
  BY <1>1, TypedInit, TypedStep, ExchangeInit, ExchangeStep, SoundInit, RightInit, PTL DEF Spec, Forward

-----------------------------------------------------------------------------
(* Sizes                                                                     *)

(* Where memory runs out a growth is given up after the display agreed to it. *)
Roomy == Short = {}
SizePackets == {"setSize", "ackSize"}
SizesEnd == Lossy \cap SizePackets = {} \/ MaxFaults < Tries

Sizing == {"size", "undo"}
SizeAsked == \E i \in DOMAIN toStm : toStm[i].k = "setSize"
SizeTold == \E i \in DOMAIN toEsp : toEsp[i].k = "ackSize"

(* The sides differ only while the manager waits for the display to agree; an *)
(* attempt that stays without an answer has lost a packet.                    *)
Goal == IF pc = "size" /\ job.grow # "done" THEN Len(esp) + 1 ELSE Len(esp)
Sized ==
  /\ pc \notin Sizing => Len(stm) = Len(esp)
  /\ pc \in Sizing =>
       /\ job.size = Goal
       /\ faults + 1 >= job.tries
       /\ SizeAsked \/ SizeTold \/ (faults >= job.tries /\ Lossy \cap SizePackets # {})
       /\ SizeTold => Len(stm) = job.size

LEMMA SameLength ==
    ASSUME NEW S, NEW s \in Seq(S), NEW T, NEW t \in Seq(T), DOMAIN t = DOMAIN s
    PROVE  Len(t) = Len(s)
<1>1. PICK m \in Nat, n \in Nat : m = Len(s) /\ n = Len(t) /\ DOMAIN s = 1 .. m /\ DOMAIN t = 1 .. n
  BY LenProperties
<1>2. 1 .. m = 1 .. n
  BY <1>1
<1>3. m = n
  <2>1. m >= 1 => m \in 1 .. n
    BY <1>2
  <2>2. n >= 1 => n \in 1 .. m
    BY <1>2
  <2> QED
    BY <2>1, <2>2
<1> QED
  BY <1>1, <1>3

LEMMA LengthIs ==
    ASSUME NEW S, NEW s \in Seq(S), NEW n \in Nat, DOMAIN s = 1 .. n
    PROVE  Len(s) = n
<1>1. PICK m \in Nat : m = Len(s) /\ 1 .. m = 1 .. n
  BY LenProperties
<1>2. (m >= 1 => m \in 1 .. n) /\ (n >= 1 => n \in 1 .. m)
  BY <1>1
<1> QED
  BY <1>1, <1>2

LEMMA KeepsCells ==
    ASSUME Typed, AtWork, Manager, ~(Shrink \/ Grow \/ SizeAgreed \/ GrowEnds)
    PROVE  DOMAIN esp' = DOMAIN esp
<1>1. \A c \in DOMAIN esp : DOMAIN Ship(c) = DOMAIN esp
  BY Shipped
<1>2. CASE Patch
  BY <1>2 DEF Patch, espVars
<1>3. CASE Triggered \/ MarkDirty \/ SetTemp \/ SameSize
  BY <1>3 DEF Triggered, MarkDirty, SetTemp, SameSize, espVars
<1>4. CASE Resend \/ FlushEnds \/ PatchEnds
  <2>1. FlushEnds => esp' = esp \/ esp' = [esp EXCEPT ![job.cell].dirty = FALSE]
    BY DEF FlushEnds
  <2>2. DOMAIN [esp EXCEPT ![job.cell].dirty = FALSE] = DOMAIN esp
    OBVIOUS
  <2>3. Resend => esp' = esp
    BY DEF Resend
  <2>4. PatchEnds => esp' = esp
    BY DEF PatchEnds
  <2> QED
    BY <1>4, <2>1, <2>2, <2>3, <2>4
<1>5. CASE Heating \/ HeatEnds
  <2>1. HeatEnds => esp' = esp \/ esp' = [Ship(job.cell) EXCEPT ![job.cell].dirty = FALSE]
    BY DEF HeatEnds
  <2>2. HeatEnds => job.cell \in DOMAIN esp
    BY DEF HeatEnds, AtWork, Storing
  <2>3. DOMAIN [Ship(job.cell) EXCEPT ![job.cell].dirty = FALSE] = DOMAIN Ship(job.cell)
    OBVIOUS
  <2> QED
    BY <1>1, <1>5, <2>1, <2>2, <2>3 DEF Heating
<1>6. CASE SizeResend \/ SizeGivenUp
  BY <1>6 DEF SizeResend, SizeGivenUp
<1>7. CASE MoveEnds
  <2>1. job.cell \in DOMAIN esp /\ (esp' = esp \/ esp' = Ship(job.cell))
    BY <1>7 DEF MoveEnds, AtWork, Storing
  <2> QED
    BY <1>1, <2>1
<1>8. CASE RetrieveAcked \/ RetrieveTimeout \/ Frame
  BY <1>8 DEF RetrieveAcked, RetrieveTimeout, Frame
<1>9. CASE FrameTimeout
  <2>1. job.cell \in DOMAIN esp /\ esp' = Ship(job.cell)
    BY <1>9 DEF FrameTimeout, AtWork
  <2> QED
    BY <1>1, <2>1
<1>10. CASE StartFlush \/ Sweep \/ Demote \/ Reinstate
  BY <1>10 DEF StartFlush, Sweep, Demote, Reinstate
<1>11. CASE \E c \in DOMAIN esp : MoveOut(c) \/ Reclaim(c)
  BY <1>11 DEF MoveOut, Reclaim
<1> QED
  BY <1>2, <1>3, <1>4, <1>5, <1>6, <1>7, <1>8, <1>9, <1>10, <1>11 DEF Manager, Handle, Pressure

LEMMA AskedSent ==
    ASSUME Typed, NEW n \in Sizes,
           \/ SendStm(<<SizeMsg(n)>>)
           \/ \E t \in Temps : SendStm(<<TempMsg(t), SizeMsg(n)>>)
    PROVE  SizeAsked'
<1>1. PICK m \in ForStm : m = SizeMsg(n) /\ m.k = "setSize"
  BY MessagesTyped
<1>2. ASSUME NEW ps \in Seq(ForStm), NEW l \in DOMAIN ps, ps[l] = m, toStm' = toStm \o ps
      PROVE  SizeAsked'
  <2>1. toStm \in Seq(ForStm)
    BY DEF Typed, TypedWire
  <2>2. Len(toStm) + l \in DOMAIN toStm' /\ toStm'[Len(toStm) + l] = ps[l]
    BY <1>2, <2>1, JoinedAt
  <2> QED
    BY <1>1, <1>2, <2>2 DEF SizeAsked
<1>3. CASE SendStm(<<SizeMsg(n)>>)
  <2>1. PICK ps : ps = <<m>>
    OBVIOUS
  <2>2. ps \in Seq(ForStm) /\ 1 \in DOMAIN ps /\ ps[1] = m /\ toStm' = toStm \o ps
    BY <1>1, <1>3, <2>1 DEF SendStm
  <2> QED
    BY <1>2, <2>2
<1>4. ASSUME NEW t \in Temps, SendStm(<<TempMsg(t), SizeMsg(n)>>) PROVE SizeAsked'
  <2>1. PICK x \in ForStm : x = TempMsg(t)
    BY MessagesTyped
  <2>2. PICK ps : ps = <<x, m>>
    OBVIOUS
  <2>3. ps \in Seq(ForStm) /\ 2 \in DOMAIN ps /\ ps[2] = m /\ toStm' = toStm \o ps
    BY <1>1, <1>4, <2>1, <2>2 DEF SendStm
  <2> QED
    BY <1>2, <2>3
<1> QED
  BY <1>3, <1>4

(* The manager says a size, for the first time or again.                      *)
LEMMA SizeSaid ==
    ASSUME Typed, Exchange, Patient, Handled, pc' \in Sizing, job'.size = Goal', job'.size \in Sizes,
           faults' + 1 >= job'.tries,
           \/ SendStm(<<SizeMsg(job'.size)>>)
           \/ \E t \in Temps : SendStm(<<TempMsg(t), SizeMsg(job'.size)>>)
    PROVE  Sized'
<1>1. SizeAsked'
  <2>1. PICK n : n = job'.size
    OBVIOUS
  <2> QED
    BY <2>1, AskedSent
<1>2. ~SizeTold'
  <2>1. \A i \in DOMAIN toEsp' : toEsp'[i].k \notin Acks
    BY Silence DEF Exchange, Handled
  <2> QED
    BY <2>1 DEF SizeTold, Acks
<1> QED
  BY <1>1, <1>2 DEF Sized

(* What an answer to a size and a silence mean.                               *)
LEMMA SizeHeard ==
    ASSUME Typed, Exchange, Patient, SizesEnd, Sized, pc \in Sizing
    PROVE  /\ Answered => Len(stm) = job.size
           /\ TimedOut => faults >= job.tries /\ job.tries < Tries
<1>1. ASSUME Answered PROVE Len(stm) = job.size
  <2>1. 1 \in DOMAIN toEsp /\ Head(toEsp) = toEsp[1]
    BY <1>1, TailOf DEF Answered, Typed, TypedWire
  <2>2. toEsp[1].k = "ackSize"
    BY <1>1, <2>1 DEF Answered, Wanted, Sizing, Storing
  <2> QED
    BY <2>1, <2>2 DEF Sized, SizeTold
<1>2. ASSUME TimedOut PROVE faults >= job.tries /\ job.tries < Tries
  <2>1. ~UnderWay
    BY <1>2 DEF TimedOut, Patient, Sizing
  <2>2. ~SizeAsked
    <3>1. toStm = <<>> /\ DOMAIN <<>> = {}
      BY <2>1 DEF UnderWay
    <3> QED
      BY <3>1 DEF SizeAsked
  <2>3. ~SizeTold
    BY <2>1 DEF UnderWay, SizeTold, Exchange, OneExchange, Acks
  <2>4. faults >= job.tries /\ Lossy \cap SizePackets # {}
    BY <2>2, <2>3 DEF Sized
  <2>5. MaxFaults < Tries /\ MaxFaults \in Nat /\ Tries \in Nat
    BY <2>4, SlotSyncAssumption DEF SizesEnd
  <2>6. faults \in 0..MaxFaults /\ job.tries \in Nat
    BY DEF Typed, TypedWire, TypedEsp, Job
  <2> QED
    BY <2>4, <2>5, <2>6
<1> QED
  BY <1>1, <1>2

LEMMA ManagerQuiet == ASSUME Manager PROVE faults' = faults
<1>1. CASE Patch \/ Triggered \/ MarkDirty \/ SetTemp \/ Shrink \/ Grow \/ SameSize
  BY <1>1 DEF Patch, Triggered, MarkDirty, SetTemp, Shrink, Grow, SameSize
<1>2. CASE Resend \/ Heating \/ HeatEnds
  <2>1. Resend => faults' = faults
    BY DEF Resend
  <2>2. Heating => faults' = faults
    BY DEF Heating
  <2>3. HeatEnds => faults' = faults
    BY DEF HeatEnds
  <2> QED
    BY <1>2, <2>1, <2>2, <2>3
<1>3. CASE FlushEnds \/ PatchEnds
  BY <1>3 DEF FlushEnds, PatchEnds
<1>4. CASE SizeResend \/ SizeGivenUp \/ SizeAgreed \/ GrowEnds \/ MoveEnds
  BY <1>4 DEF SizeResend, SizeGivenUp, SizeAgreed, GrowEnds, MoveEnds
<1>5. CASE RetrieveAcked \/ RetrieveTimeout \/ Frame \/ FrameTimeout
  BY <1>5 DEF RetrieveAcked, RetrieveTimeout, Frame, FrameTimeout
<1>6. CASE StartFlush \/ Sweep \/ Demote \/ Reinstate
  BY <1>6 DEF StartFlush, Sweep, Demote, Reinstate
<1>7. CASE \E c \in DOMAIN esp : MoveOut(c) \/ Reclaim(c)
  <2>1. PICK c \in DOMAIN esp : MoveOut(c) \/ Reclaim(c)
    BY <1>7
  <2> QED
    BY <2>1 DEF MoveOut, Reclaim
<1> QED
  BY <1>1, <1>2, <1>3, <1>4, <1>5, <1>6, <1>7 DEF Manager, Handle, Pressure

LEMMA FaultsCount == ASSUME Typed' PROVE faults' \in Nat
<1>1. faults' \in 0..MaxFaults /\ MaxFaults \in Nat
  BY SlotSyncAssumption DEF Typed, TypedWire
<1> QED
  BY <1>1

(* Outside of a change of size the manager is at other work.                  *)
LEMMA NoSizing ==
    ASSUME Manager,
           ~(Shrink \/ Grow \/ SizeResend \/ SizeGivenUp \/ SizeAgreed \/ GrowEnds)
    PROVE  pc \notin Sizing /\ pc' \notin Sizing
<1>1. CASE Patch \/ Triggered \/ MarkDirty \/ SetTemp \/ SameSize
  BY <1>1 DEF Patch, Triggered, MarkDirty, SetTemp, SameSize, Next1, Wait, espVars, Sizing
<1>2. CASE Resend
  BY <1>2 DEF Resend, Wait, Storing, Sizing
<1>3. CASE Heating \/ HeatEnds
  BY <1>3 DEF Heating, HeatEnds, Wait, Finish, Sizing
<1>4. CASE FlushEnds \/ PatchEnds
  <2>1. FlushEnds => pc = "flush" /\ pc' = "sweep"
    BY DEF FlushEnds, Wait
  <2>2. PatchEnds => pc = "patch" /\ pc' = "idle"
    BY DEF PatchEnds, Finish
  <2> QED
    BY <1>4, <2>1, <2>2 DEF Sizing
<1>5. CASE MoveEnds \/ RetrieveAcked \/ RetrieveTimeout
  BY <1>5 DEF MoveEnds, RetrieveAcked, RetrieveTimeout, Wait, Finish, Sizing
<1>6. CASE Frame \/ FrameTimeout
  BY <1>6 DEF Frame, FrameTimeout, Finish, Sizing
<1>7. CASE StartFlush \/ Sweep
  BY <1>7 DEF StartFlush, Sweep, Wait, Finish, Sizing
<1>8. CASE Demote \/ Reinstate
  BY <1>8 DEF Demote, Reinstate, Sizing
<1>9. CASE \E c \in DOMAIN esp : MoveOut(c) \/ Reclaim(c)
  <2>1. PICK c \in DOMAIN esp : MoveOut(c) \/ Reclaim(c)
    BY <1>9
  <2> QED
    BY <2>1 DEF MoveOut, Reclaim, Wait, Sizing
<1> QED
  BY <1>1, <1>2, <1>3, <1>4, <1>5, <1>6, <1>7, <1>8, <1>9 DEF Manager, Handle, Pressure

(* A change of size begins.                                                   *)
LEMMA ShrinkSized == ASSUME Typed, AtWork, Exchange, Patient, Typed', Handled, Shrink PROVE Sized'
<1>1. PICK n : n = Head(queue).n
  OBVIOUS
<1>2. /\ Head(queue) \in Pending /\ Head(queue).k = "size" /\ n < Len(esp)
      /\ esp' = SubSeq(esp, 1, n) /\ faults' = faults
      /\ Wait("size", [NoJob EXCEPT !.size = n, !.tries = 1, !.grow = "done"])
      /\ SendStm(<<SizeMsg(n)>>) \/ SendStm(<<TempMsg("warm"), SizeMsg(n)>>)
  BY <1>1, TakenTyped DEF Shrink
<1>3. n \in Sizes /\ n \in Nat
  <2>1. n \in Sizes
    BY <1>1, <1>2 DEF Pending, Asked
  <2> QED
    BY <2>1, SizesAre
<1>4. Len(esp') = n
  BY <1>2, <1>3, Known, CutShort
<1>5. pc' = "size" /\ job'.size = n /\ job'.tries = 1 /\ job'.grow = "done"
  BY <1>2 DEF Wait, NoJob
<1>6. faults' + 1 >= job'.tries
  BY <1>5, FaultsCount
<1> QED
  BY <1>2, <1>3, <1>4, <1>5, <1>6, SizeSaid DEF Goal, Sizing, Temps

LEMMA GrowSized ==
    ASSUME Typed, AtWork, Exchange, Patient, Typed', Handled, Sized, Grow
    PROVE  Sized'
<1>1. PICK n : n = Head(queue).n
  OBVIOUS
<1>2. PICK place \in {"remote", "local"} :
         place = IF espTemp \in {"warm", "hot"} /\ SomeRemote THEN "remote" ELSE "local"
  OBVIOUS
<1> DEFINE ask(how) == Wait("size", [NoJob EXCEPT !.size = n, !.tries = 1, !.grow = how])
           fresh == Cell("canonical", FALSE, Junk)
<1>3. /\ Head(queue) \in Pending /\ Head(queue).k = "size" /\ pc = "idle"
      /\ n > Len(esp) /\ stm' = stm /\ faults' = faults
  BY <1>1, TakenTyped DEF Grow, stmVars
<1>4. n \in Sizes /\ n = Len(esp) + 1
  <2>1. n \in Sizes
    BY <1>1, <1>3 DEF Pending, Asked
  <2>2. PICK l : l = Len(esp)
    OBVIOUS
  <2>3. l \in Sizes /\ n > l
    BY <1>3, <2>2 DEF Typed, TypedEsp
  <2>4. n = l + 1
    BY <2>1, <2>3, SizesAre
  <2> QED
    BY <2>1, <2>2, <2>4
<1>5. CASE UNCHANGED <<espVars, toStm>>
  <2>1. pc' = pc /\ esp' = esp
    BY <1>5 DEF espVars
  <2> QED
    BY <1>3, <2>1 DEF Sized, Sizing
<1>6. ASSUME NEW how \in {"done", "remote", "local"}, ask(how),
             IF how = "done" THEN esp' = Append(esp, fresh) ELSE esp' = esp,
             SendStm(<<SizeMsg(n)>>) \/ SendStm(<<TempMsg("cold"), SizeMsg(n)>>)
      PROVE  Sized'
  <2>1. pc' = "size" /\ job'.size = n /\ job'.tries = 1 /\ job'.grow = how
    BY <1>6 DEF Wait, NoJob
  <2>2. faults' + 1 >= job'.tries
    BY <2>1, FaultsCount
  <2>3. Goal' = n
    <3>1. CASE how = "done"
      <4>1. fresh \in EspCell
        BY Known DEF Cell, EspCell, CellSet
      <4>2. esp' = Append(esp, fresh)
        BY <1>6, <3>1
      <4> HIDE DEF fresh
      <4> QED
        BY <1>4, <2>1, <3>1, <4>1, <4>2, Grown DEF Goal
    <3>2. CASE how # "done"
      BY <1>4, <1>6, <2>1, <3>2 DEF Goal
    <3> QED
      BY <3>1, <3>2
  <2> QED
    BY <1>4, <1>6, <2>1, <2>2, <2>3, SizeSaid DEF Sizing, Temps
<1> QED
  <2>1. \/ UNCHANGED <<espVars, toStm>>
        \/ esp' = Append(esp, fresh) /\ ask("done") /\ SendStm(<<SizeMsg(n)>>)
        \/ ask(place) /\ SendStm(<<SizeMsg(n)>>) /\ esp' = esp
        \/ /\ \/ ask("done") /\ esp' = Append(esp, fresh)
              \/ ask(place) /\ esp' = esp
           /\ SendStm(<<TempMsg("cold"), SizeMsg(n)>>)
    BY <1>1, <1>2 DEF Grow
  <2> HIDE DEF ask, fresh
  <2> QED
    BY <1>2, <1>5, <1>6, <2>1

(* ... is said again ...                                                      *)
LEMMA SizeResendSized ==
    ASSUME Typed, AtWork, Exchange, Patient, SizesEnd, Typed', Handled, Sized, SizeResend
    PROVE  Sized'
<1>1. /\ pc \in Sizing /\ TimedOut /\ pc' = pc /\ esp' = esp /\ faults' = faults
      /\ job' = [job EXCEPT !.tries = @ + 1] /\ SendStm(<<SizeMsg(job.size)>>)
  BY DEF SizeResend, Wait, Sizing
<1>2. job \in Job /\ job.size \in Sizes
  BY <1>1 DEF Typed, TypedEsp, AtWork, Sizing
<1>3. job'.size = job.size /\ job'.grow = job.grow /\ job'.tries = job.tries + 1
  <2>1. PICK n : n = job.tries + 1
    OBVIOUS
  <2>2. job' = [job EXCEPT !.tries = n]
    BY <1>1, <2>1
  <2> QED
    BY <1>2, <2>1, <2>2 DEF Job
<1>4. faults >= job.tries /\ faults \in Nat /\ job.tries \in Nat
  <2>1. faults' \in Nat /\ job.tries \in Nat
    BY <1>2, FaultsCount DEF Job
  <2> QED
    BY <1>1, <2>1, SizeHeard
<1>5. faults' + 1 >= job'.tries
  BY <1>1, <1>3, <1>4
<1>6. job'.size = Goal'
  BY <1>1, <1>3 DEF Sized, Goal
<1>7. SendStm(<<SizeMsg(job'.size)>>)
  BY <1>1, <1>3
<1> QED
  BY <1>1, <1>2, <1>3, <1>5, <1>6, <1>7, SizeSaid

(* ... and is agreed to.                                                      *)
LEMMA SizeAgreedSized ==
    ASSUME Typed, AtWork, Exchange, Patient, SizesEnd, Roomy, Handled, Sized, SizeAgreed
    PROVE  Sized'
<1>1. /\ pc \in Sizing /\ Answered /\ stm' = stm
      /\ \/ (pc = "undo" \/ job.grow = "done") /\ Finish /\ esp' = esp
         \/ /\ pc = "size" /\ job.grow # "done" /\ pc' = "grow"
            /\ esp' = Append(esp, Cell("remote", FALSE, Junk))
  BY DEF SizeAgreed, Sizing, Roomy, Wait, stmVars
<1>2. Len(stm) = job.size /\ job.size = Goal
  BY <1>1, SizeHeard DEF Sized
<1>3. CASE (pc = "undo" \/ job.grow = "done") /\ Finish /\ esp' = esp
  BY <1>1, <1>2, <1>3 DEF Goal, Sized, Finish, Sizing
<1>4. CASE /\ pc = "size" /\ job.grow # "done" /\ pc' = "grow"
           /\ esp' = Append(esp, Cell("remote", FALSE, Junk))
  <2> DEFINE x == Cell("remote", FALSE, Junk)
  <2>1. x \in EspCell
    BY Known DEF Cell, EspCell, CellSet
  <2>2. esp' = Append(esp, x)
    BY <1>4
  <2> HIDE DEF x
  <2>3. Len(esp') = Len(esp) + 1
    BY <2>1, <2>2, Grown
  <2> QED
    BY <1>1, <1>2, <1>4, <2>3 DEF Goal, Sized, Sizing
<1> QED
  BY <1>1, <1>3, <1>4

LEMMA GrowEndsSized ==
    ASSUME Typed, AtWork, Exchange, Patient, Typed', Handled, Sized, GrowEnds
    PROVE  Sized'
<1>1. /\ pc = "grow" /\ stm' = stm /\ faults' = faults
      /\ \/ Finish /\ esp' = esp
         \/ /\ esp' = SubSeq(esp, 1, job.cell - 1)
            /\ Wait("undo", [job EXCEPT !.size = job.cell - 1, !.tries = 1])
            /\ SendStm(<<SizeMsg(job.cell - 1)>>)
  BY DEF GrowEnds, stmVars
<1>2. CASE Finish /\ esp' = esp
  BY <1>1, <1>2 DEF Sized, Finish, Sizing
<1>3. CASE /\ esp' = SubSeq(esp, 1, job.cell - 1)
           /\ Wait("undo", [job EXCEPT !.size = job.cell - 1, !.tries = 1])
           /\ SendStm(<<SizeMsg(job.cell - 1)>>)
  <2>1. PICK n : n = job.cell - 1
    OBVIOUS
  <2>2. n \in Nat /\ n \in Sizes /\ n <= Len(esp)
    <3>1. job.cell = Len(esp) /\ Len(esp) = MinSize + 1 /\ MinSize \in Nat
      BY <1>1, Known DEF AtWork
    <3> QED
      BY <2>1, <3>1 DEF Sizes
  <2>3. Len(esp') = n
    BY <1>3, <2>1, <2>2, CutShort
  <2>4. pc' = "undo" /\ job'.size = n /\ job'.tries = 1
    <3>1. pc' = "undo" /\ job' = [job EXCEPT !.size = n, !.tries = 1] /\ job \in Job
      BY <1>3, <2>1 DEF Wait, Typed, TypedEsp
    <3> QED
      BY <3>1 DEF Job
  <2>5. faults' + 1 >= job'.tries
    BY <2>4, FaultsCount
  <2>6. SendStm(<<SizeMsg(job'.size)>>)
    BY <1>3, <2>1, <2>4
  <2> QED
    BY <2>2, <2>3, <2>4, <2>5, <2>6, SizeSaid DEF Goal, Sizing
<1> QED
  BY <1>1, <1>2, <1>3

LEMMA ManagerSized ==
    ASSUME Typed, AtWork, Exchange, Patient, SizesEnd, Roomy, Sized, Typed', Manager
    PROVE  Sized'
<1>1. Handled
  BY ManagerDone DEF Manager
<1>2. CASE Shrink \/ Grow \/ SizeResend \/ SizeAgreed \/ GrowEnds
  BY <1>1, <1>2, ShrinkSized, GrowSized, SizeResendSized, SizeAgreedSized, GrowEndsSized
<1>3. CASE SizeGivenUp
  <2>1. TimedOut /\ job.tries >= Tries /\ pc \in Sizing
    BY <1>3 DEF SizeGivenUp, Sizing
  <2>2. job.tries \in Nat /\ Tries \in Nat
    BY SlotSyncAssumption DEF Typed, TypedEsp, Job
  <2> QED
    BY <2>1, <2>2, SizeHeard
<1>4. CASE ~(Shrink \/ Grow \/ SizeResend \/ SizeGivenUp \/ SizeAgreed \/ GrowEnds)
  <2>1. pc \notin Sizing /\ pc' \notin Sizing /\ stm' = stm
    BY <1>1, <1>4, NoSizing DEF Handled
  <2>2. DOMAIN esp' = DOMAIN esp
    BY <1>4, KeepsCells
  <2>3. Len(esp') = Len(esp)
    <3>1. esp \in Seq(EspCell) /\ esp' \in Seq(EspCell)
      BY DEF Typed, TypedEsp
    <3> QED
      BY <2>2, <3>1, SameLength
  <2> QED
    BY <2>1, <2>3 DEF Sized
<1> QED
  BY <1>2, <1>3, <1>4

(* The display's size changes when it is told to.                             *)
LEMMA StmLength ==
    ASSUME Typed, AtWork, Typed', Others, ~SetSize
    PROVE  Len(stm') = Len(stm)
<1>1. ASSUME NEW of, FirstFrame(of) PROVE DOMAIN stm' = DOMAIN stm
  BY <1>1 DEF FirstFrame
<1>2. ASSUME NEW of, LastFrame(of) PROVE DOMAIN stm' = DOMAIN stm
  BY <1>2 DEF LastFrame
<1>3. DataAcked => DOMAIN stm' = DOMAIN stm
  BY DEF DataAcked
<1>4. TempInformed \/ TempAcked \/ Retrieved => stm' = stm
  BY DEF TempInformed, TempAcked, Retrieved, stmVars
<1>5. \A c \in DOMAIN stm : Evict(c) => DOMAIN stm' = DOMAIN stm
  BY DEF Evict
<1>6. SendDataRequests => DOMAIN stm' = DOMAIN stm
  BY DEF SendDataRequests
<1>7. AskAgain \/ (\E t \in Asks : AskTemp(t)) => stm' = stm
  BY DEF AskAgain, AskTemp
<1>8. Route \/ LoseToStm \/ LoseToEsp => stm' = stm
  BY DEF Route, LoseToStm, LoseToEsp, stmVars
<1>9. App => stm' = stm
  BY DEF App, Write, Trigger, Resize, stmVars
<1>10. DOMAIN stm' = DOMAIN stm
  BY <1>1, <1>2, <1>3, <1>4, <1>5, <1>6, <1>7, <1>8, <1>9, OthersAre
     DEF Feeds, Completes, Notes, Poll, Screens
<1>11. stm \in Seq(StmCell) /\ stm' \in Seq(StmCell)
  BY DEF Typed, TypedStm
<1> QED
  BY <1>10, <1>11, SameLength

(* What is on its way back while nobody answers.                              *)
LEMMA ToldBefore ==
    ASSUME Typed, NEW qs \in Seq(ForEsp), toEsp' = toEsp \o qs,
           \A i \in DOMAIN qs : qs[i].k # "ackSize"
    PROVE  SizeTold' <=> SizeTold
<1>1. toEsp \in Seq(ForEsp)
  BY DEF Typed, TypedWire
<1>2. PICK t : t = toEsp \o qs
  OBVIOUS
<1>3. \A i \in DOMAIN t : \/ i \in DOMAIN toEsp /\ t[i] = toEsp[i]
                          \/ \E j \in DOMAIN qs : t[i] = qs[j]
  BY <1>1, <1>2, Joined
<1>4. \A i \in DOMAIN toEsp : i \in DOMAIN t /\ t[i] = toEsp[i]
  BY <1>1, <1>2, JoinedAt
<1> QED
  BY <1>2, <1>3, <1>4 DEF SizeTold

(* Everything sent to the display that does not arrive there stays on its way. *)
LEMMA AskedOn ==
    ASSUME Typed, Takes, Head(toStm).k # "setSize"
    PROVE  SizeAsked' <=> SizeAsked
<1>1. PICK t : t = Tail(toStm)
  OBVIOUS
<1>2. toStm \in Seq(ForStm) /\ toStm # <<>> /\ toStm' = t
  BY <1>1 DEF Takes, Typed, TypedWire
<1>3. Head(toStm) = toStm[1] /\ \A l \in DOMAIN t : l + 1 \in DOMAIN toStm /\ t[l] = toStm[l + 1]
  BY <1>1, <1>2, TailOf
<1>4. ASSUME NEW i \in DOMAIN toStm, i # 1 PROVE \E l \in DOMAIN t : t[l] = toStm[i]
  BY <1>1, <1>2, <1>4, TailHas
<1>5. SizeAsked => SizeAsked'
  <2>1. SUFFICES ASSUME NEW i \in DOMAIN toStm, toStm[i].k = "setSize" PROVE SizeAsked'
    BY DEF SizeAsked
  <2>2. i # 1
    BY <1>3, <2>1
  <2> QED
    BY <1>2, <1>4, <2>1, <2>2 DEF SizeAsked
<1>6. SizeAsked' => SizeAsked
  BY <1>2, <1>3 DEF SizeAsked
<1> QED
  BY <1>5, <1>6

LEMMA ToldOn ==
    ASSUME Typed, Passes
    PROVE  /\ SizeTold' => SizeTold
           /\ SizeTold /\ Head(toEsp).k # "ackSize" => SizeTold'
<1>1. PICK t : t = Tail(toEsp)
  OBVIOUS
<1>2. toEsp \in Seq(ForEsp) /\ toEsp # <<>> /\ toEsp' = t
  BY <1>1 DEF Passes, Typed, TypedWire
<1>3. Head(toEsp) = toEsp[1] /\ \A l \in DOMAIN t : l + 1 \in DOMAIN toEsp /\ t[l] = toEsp[l + 1]
  BY <1>1, <1>2, TailOf
<1>4. ASSUME NEW i \in DOMAIN toEsp, i # 1 PROVE \E l \in DOMAIN t : t[l] = toEsp[i]
  BY <1>1, <1>2, <1>4, TailHas
<1>5. ASSUME SizeTold, Head(toEsp).k # "ackSize" PROVE SizeTold'
  <2>1. PICK i \in DOMAIN toEsp : toEsp[i].k = "ackSize"
    BY <1>5 DEF SizeTold
  <2>2. i # 1
    BY <1>3, <1>5, <2>1
  <2> QED
    BY <1>2, <1>4, <2>1, <2>2 DEF SizeTold
<1>6. SizeTold' => SizeTold
  BY <1>2, <1>3 DEF SizeTold
<1> QED
  BY <1>5, <1>6

LEMMA OthersSized ==
    ASSUME Typed, AtWork, Exchange, Roomy, Sized, Typed', Others
    PROVE  Sized'
<1>1. UNCHANGED <<esp, pc, job>> /\ Goal' = Goal
  BY OthersLeave DEF Others, Goal
<1>2. faults \in Nat /\ faults' \in Nat /\ job.tries \in Nat
  BY SlotSyncAssumption, FaultsCount DEF Typed, TypedWire, TypedEsp, Job
<1>3. ASSUME toStm # <<>>
      PROVE  Head(toStm) = toStm[1] /\ 1 \in DOMAIN toStm /\ Expected(Head(toStm))
  <2>1. Head(toStm) = toStm[1] /\ 1 \in DOMAIN toStm
    BY <1>3, TailOf DEF Typed, TypedWire
  <2> QED
    BY <2>1 DEF Exchange, OneExchange
<1>4. CASE pc \notin Sizing
  <2>1. ~SetSize
    <3>1. SetSize => toStm # <<>> /\ Head(toStm).k = "setSize"
      BY DEF SetSize, Got
    <3> QED
      BY <1>3, <1>4, <3>1 DEF Expected, Sizing
  <2> QED
    BY <1>1, <1>4, <2>1, StmLength DEF Sized
<1>5. CASE pc \in Sizing /\ SetSize
  <2>1. PICK n : n = Head(toStm).n
    OBVIOUS
  <2>2. Head(toStm) \in ForStm /\ Head(toStm).k = "setSize" /\ toStm # <<>>
    BY <1>5, GotTyped DEF SetSize, Got
  <2>3. n = job.size /\ n \in Sizes /\ n \in Nat
    <3>1. n \in Sizes
      BY <2>1, <2>2 DEF ForStm
    <3>2. n = job.size
      BY <1>3, <2>1, <2>2 DEF Expected
    <3> QED
      BY <3>1, <3>2, SizesAre
  <2>4. /\ stm' = [c \in 1..n |-> IF c <= Len(stm) THEN stm[c] ELSE NewRemote]
        /\ SendEsp(<<[k |-> "ackSize", n |-> n]>>) /\ faults' = faults
    BY <1>5, <2>1 DEF SetSize, Roomy
  <2>5. Len(stm') = n
    <3>1. DOMAIN stm' = 1 .. n
      BY <2>4
    <3>2. stm' \in Seq(StmCell)
      BY DEF Typed, TypedStm
    <3> QED
      BY <2>3, <3>1, <3>2, LengthIs
  <2>6. SizeTold'
    <3>1. PICK q : q = [k |-> "ackSize", n |-> n]
      OBVIOUS
    <3>2. q \in ForEsp /\ q.k = "ackSize"
      BY <2>3, <3>1 DEF ForEsp
    <3>3. PICK qs : qs = <<q>>
      OBVIOUS
    <3>4. qs \in Seq(ForEsp) /\ 1 \in DOMAIN qs /\ qs[1] = q /\ toEsp' = toEsp \o qs
      BY <2>4, <3>1, <3>2, <3>3 DEF SendEsp
    <3>5. toEsp \in Seq(ForEsp)
      BY DEF Typed, TypedWire
    <3>6. Len(toEsp) + 1 \in DOMAIN toEsp' /\ toEsp'[Len(toEsp) + 1] = qs[1]
      BY <3>4, <3>5, JoinedAt
    <3> QED
      BY <3>2, <3>4, <3>6 DEF SizeTold
  <2> QED
    BY <1>1, <1>5, <2>3, <2>4, <2>5, <2>6 DEF Sized
<1>6. ASSUME pc \in Sizing, ~SetSize, SizeTold' => SizeTold,
             \/ faults' = faults /\ (SizeAsked \/ SizeTold => SizeAsked' \/ SizeTold')
             \/ /\ faults' = faults + 1
                /\ \/ SizeAsked \/ SizeTold => SizeAsked' \/ SizeTold'
                   \/ Lossy \cap SizePackets # {}
      PROVE  Sized'
  <2>1. Len(stm') = Len(stm)
    BY <1>6, StmLength
  <2>2. faults' + 1 >= job.tries
    BY <1>2, <1>6 DEF Sized
  <2>3. faults >= job.tries => faults' >= job.tries
    BY <1>2, <1>6
  <2>4. faults' = faults + 1 => faults' >= job.tries
    BY <1>2, <1>6 DEF Sized
  <2>5. SizeAsked' \/ SizeTold' \/ (faults' >= job.tries /\ Lossy \cap SizePackets # {})
    BY <1>6, <2>3, <2>4 DEF Sized
  <2> QED
    BY <1>1, <1>6, <2>1, <2>2, <2>5 DEF Sized
<1>7. CASE pc \in Sizing /\ (Feeds \/ Completes \/ Retrieved)
  <2>1. toStm # <<>> /\ Head(toStm).k \in Firsts \cup Seconds \cup {"retrieve"}
    <3>1. ASSUME NEW of \in {"store", "fulfill"}, FirstFrame(of)
          PROVE  toStm # <<>> /\ Head(toStm).k \in Firsts
      <4>1. Got(FrameKinds[of][1])
        BY <3>1 DEF FirstFrame
      <4> QED
        BY <4>1 DEF Got, FrameKinds, Firsts
    <3>2. ASSUME NEW of \in {"store", "fulfill"}, LastFrame(of)
          PROVE  toStm # <<>> /\ Head(toStm).k \in Seconds
      <4>1. Got(FrameKinds[of][2])
        BY <3>2 DEF LastFrame
      <4> QED
        BY <4>1 DEF Got, FrameKinds, Seconds
    <3>3. Retrieved => toStm # <<>> /\ Head(toStm).k = "retrieve"
      BY DEF Retrieved, Got
    <3> QED
      BY <1>7, <3>1, <3>2, <3>3 DEF Feeds, Completes
  <2> QED
    BY <1>3, <1>7, <2>1 DEF Expected, Firsts, Seconds, Storing, Sizing
<1>8. CASE pc \in Sizing /\ (TempInformed \/ TempAcked \/ DataAcked)
  <2>1. Takes /\ faults' = faults /\ toEsp' = toEsp /\ Head(toStm).k # "setSize"
    BY <1>8 DEF TempInformed, TempAcked, DataAcked, Got, Takes
  <2>2. ~SetSize
    BY <2>1 DEF SetSize, Got
  <2>3. SizeTold' <=> SizeTold
    BY <2>1 DEF SizeTold
  <2> QED
    BY <1>6, <1>8, <2>1, <2>2, <2>3, AskedOn
<1>9. CASE pc \in Sizing /\ ~SetSize /\ (Poll \/ Screens \/ App)
  <2>1. toStm' = toStm /\ faults' = faults /\ SaysAsking
    BY <1>9, PollSays
  <2>2. SizeTold' <=> SizeTold
    BY <2>1, ToldBefore DEF SaysAsking
  <2>3. SizeAsked' <=> SizeAsked
    BY <2>1 DEF SizeAsked
  <2> QED
    BY <1>6, <1>9, <2>1, <2>2, <2>3
<1>10. CASE pc \in Sizing /\ ~SetSize /\ Route
  <2>1. toStm' = toStm /\ faults' = faults /\ Passes /\ ~Wanted(Head(toEsp))
    BY <1>10 DEF Route, Passes
  <2>2. SizeTold => Head(toEsp).k # "ackSize"
    <3>1. Head(toEsp) = toEsp[1] /\ 1 \in DOMAIN toEsp
      BY <2>1, TailOf DEF Passes, Typed, TypedWire
    <3> QED
      BY <2>1, <3>1 DEF Exchange, OneExchange, Acks
  <2>3. SizeAsked' <=> SizeAsked
    BY <2>1 DEF SizeAsked
  <2> QED
    BY <1>6, <1>10, <2>1, <2>2, <2>3, ToldOn
<1>11. CASE pc \in Sizing /\ ~SetSize /\ LoseToEsp
  <2>1. toStm' = toStm /\ faults' = faults + 1 /\ Passes /\ Head(toEsp).k \in Lossy
    BY <1>11 DEF LoseToEsp, Passes
  <2>2. SizeAsked' <=> SizeAsked
    BY <2>1 DEF SizeAsked
  <2>3. Head(toEsp).k = "ackSize" => Lossy \cap SizePackets # {}
    BY <2>1 DEF SizePackets
  <2> QED
    BY <1>6, <1>11, <2>1, <2>2, <2>3, ToldOn
<1>12. CASE pc \in Sizing /\ ~SetSize /\ LoseToStm
  <2>1. toEsp' = toEsp /\ faults' = faults + 1 /\ Takes /\ Head(toStm).k \in Lossy
    BY <1>12 DEF LoseToStm, Takes
  <2>2. SizeTold' <=> SizeTold
    BY <2>1 DEF SizeTold
  <2>3. Head(toStm).k = "setSize" => Lossy \cap SizePackets # {}
    BY <2>1 DEF SizePackets
  <2> QED
    BY <1>6, <1>12, <2>1, <2>2, <2>3, AskedOn
<1> QED
  BY <1>4, <1>5, <1>7, <1>8, <1>9, <1>10, <1>11, <1>12, OthersAre DEF Notes

(* The sides agree on the size of the slot whenever the manager is at rest,   *)
(* however often it is changed, refused room or grown in vain, as long as     *)
(* memory does not run out and the messages of sizes that are lost are fewer  *)
(* than the attempts.                                                         *)
THEOREM SizesAlike ==
    ASSUME Patient, Roomy, SizesEnd
    PROVE  Spec => []SizesAgree
<1>1. Sized => SizesAgree
  BY DEF Sized, SizesAgree, Quiet, Sizing
<1>2. Init => Sized
  <2> SUFFICES ASSUME Init PROVE Sized
    OBVIOUS
  <2>1. pc = "idle" /\ DOMAIN esp = 1 .. MinSize /\ DOMAIN stm = 1 .. MinSize
    BY DEF Init
  <2>2. Typed
    BY TypedInit
  <2>3. Len(stm) = Len(esp)
    <3>1. esp \in Seq(EspCell) /\ stm \in Seq(StmCell)
      BY <2>2 DEF Typed, TypedEsp, TypedStm
    <3> QED
      BY <2>1, <3>1, SameLength
  <2> QED
    BY <2>1, <2>3 DEF Sized, Sizing
<1>3. Typed /\ AtWork /\ Exchange /\ Sized /\ [Next]_vars => Sized'
  <2> SUFFICES ASSUME Typed, AtWork, Exchange, Sized, [Next]_vars PROVE Sized'
    OBVIOUS
  <2>1. Typed'
    BY TypedStep
  <2>2. CASE UNCHANGED vars
    <3>1. UNCHANGED <<esp, pc, job, stm, toStm, toEsp, faults>>
      BY <2>2 DEF vars, espVars, stmVars
    <3> QED
      BY <3>1 DEF Sized, Goal, SizeAsked, SizeTold
  <2>3. CASE Manager
    BY <2>1, <2>3, ManagerSized
  <2>4. CASE Others
    BY <2>1, <2>4, OthersSized
  <2> QED
    BY <2>2, <2>3, <2>4 DEF Manager, Others
<1> QED
  BY <1>1, <1>2, <1>3, TypedInit, TypedStep, ExchangeInit, ExchangeStep, PTL DEF Spec

=============================================================================
