-------------------------- MODULE SerialLinkProofs --------------------------
(***************************************************************************)
(* With nothing lost, the display's servicer acts only on headers that     *)
(* were sent: Framed holds for every length an odd byte may stand for,     *)
(* every size of the queue and any number of resets, restarts and crashes. *)
(*                                                                         *)
(* Two things have to be said at once.  The bytes on the line and in the   *)
(* buffers behind it are packets, but for what is left of one that was cut *)
(* through at the front; and the two handshakes keep in step, so that no   *)
(* answer to a handshake is ever on its way to a display that is past its  *)
(* own.                                                                    *)
(***************************************************************************)
EXTENDS SerialLink, SequenceTheorems, TLAPS

\* What each side sends, and what of it the servicer is to hear.
FromDisplay == {"init", "ok", "ping", "sleep"}
Heard == {"pong", "sleep", "reset"}
FromTheEsp == Heard \cup {"resp", "crash"}
Commands == FromDisplay \cup FromTheEsp
Bytes == {FromStm, FromEsp, "0", "1"} \cup Commands

-----------------------------------------------------------------------------
(* Bytes as packets                                                        *)

\* A packet of one of the commands C begins at the i-th byte, and is there in
\* full; if anything comes after it, then the next packet.
PacketAt(s, i, from, C) ==
  /\ i + 2 <= Len(s)
  /\ s[i + 2] \in C
  /\ IF s[i + 2] = "sleep"
     THEN /\ s[i + 1] = "1" /\ i + 3 <= Len(s) /\ s[i + 3] \in {"0", "1"}
          /\ i + 4 <= Len(s) => s[i + 4] = from
     ELSE /\ s[i + 1] = "0"
          /\ i + 3 <= Len(s) => s[i + 3] = from

\* Whatever begins like a packet is one.
Legal(s, from, C) == \A i \in 1..Len(s) : s[i] = from => PacketAt(s, i, from, C)

\* It begins with a packet, if with anything.
Aligned(s, from) == Len(s) > 0 => s[1] = from

Has(s, C) == \E i \in 1..Len(s) : s[i] \in C

\* What is in C comes before what is in D.
Before(s, C, D) == \A i, j \in 1..Len(s) : s[i] \in C /\ s[j] \in D => i < j

\* The first k bytes of s gone, t is left.
Drops(s, k, t) ==
  /\ s \in Seq(Bytes) /\ t \in Seq(Bytes) /\ k \in 0..Len(s) /\ Len(t) = Len(s) - k
  /\ \A i \in 1..Len(t) : t[i] = s[k + i]

Packet(p, from, C) ==
  p \in Seq(Bytes) /\ Len(p) > 0 /\ Legal(p, from, C) /\ Aligned(p, from)

\* Packets after packets are packets.
LEMMA LegalConcat ==
  ASSUME NEW s \in Seq(Bytes), NEW p, NEW from, NEW C,
         Legal(s, from, C), Packet(p, from, C)
  PROVE  /\ s \o p \in Seq(Bytes) /\ Legal(s \o p, from, C)
         /\ Aligned(s, from) => Aligned(s \o p, from)
<1>1. PICK u : u = s \o p
  OBVIOUS
<1>2. p \in Seq(Bytes) /\ Len(p) \in Nat /\ Len(p) > 0 /\ Len(s) \in Nat /\ p[1] = from
  BY DEF Packet, Aligned
<1>3. u \in Seq(Bytes) /\ Len(u) = Len(s) + Len(p)
  BY <1>1, <1>2, ConcatProperties
<1>4. ASSUME NEW i \in 1..Len(s) PROVE u[i] = s[i]
  BY <1>1, <1>2, <1>4, ConcatProperties
<1>5. ASSUME NEW i \in 1..Len(p) PROVE u[Len(s) + i] = p[i]
  BY <1>1, <1>2, <1>5, ConcatProperties
<1>6. ASSUME NEW i \in 1..Len(u), u[i] = from PROVE PacketAt(u, i, from, C)
  <2>1. CASE i <= Len(s)
    <3>1. i \in 1..Len(s) /\ s[i] = from
      BY <1>2, <1>3, <1>4, <1>6, <2>1
    <3>2. PacketAt(s, i, from, C)
      BY <3>1 DEF Legal
    <3>3. i + 2 \in 1..Len(s) /\ i + 1 \in 1..Len(s)
      BY <1>2, <3>1, <3>2 DEF PacketAt
    <3>4. u[i + 2] = s[i + 2] /\ u[i + 1] = s[i + 1]
      BY <1>4, <3>3
    <3>5. u[Len(s) + 1] = from
      BY <1>2, <1>5
    <3>6. CASE s[i + 2] = "sleep"
      <4>1. i + 3 \in 1..Len(s) /\ u[i + 3] = s[i + 3]
        BY <1>2, <1>4, <3>1, <3>2, <3>6 DEF PacketAt
      <4>2. CASE i + 4 <= Len(s)
        <5>1. u[i + 4] = s[i + 4]
          BY <1>2, <1>4, <3>1, <4>2
        <5>2. QED
          BY <1>2, <1>3, <3>2, <3>4, <3>6, <4>1, <4>2, <5>1 DEF PacketAt
      <4>3. CASE i + 4 = Len(s) + 1
        BY <1>2, <1>3, <3>2, <3>4, <3>5, <3>6, <4>1, <4>3 DEF PacketAt
      <4>4. QED
        BY <1>2, <3>1, <4>1, <4>2, <4>3
    <3>7. CASE s[i + 2] # "sleep"
      <4>1. CASE i + 3 <= Len(s)
        <5>1. u[i + 3] = s[i + 3]
          BY <1>2, <1>4, <3>1, <4>1
        <5>2. QED
          BY <1>2, <1>3, <3>2, <3>4, <3>7, <4>1, <5>1 DEF PacketAt
      <4>2. CASE i + 3 = Len(s) + 1
        BY <1>2, <1>3, <3>2, <3>4, <3>5, <3>7, <4>2 DEF PacketAt
      <4>3. QED
        BY <1>2, <3>1, <3>3, <4>1, <4>2
    <3>8. QED
      BY <3>6, <3>7
  <2>2. CASE i > Len(s)
    <3>1. PICK j \in 1..Len(p) : i = Len(s) + j
      <4>1. i - Len(s) \in 1..Len(p) /\ i = Len(s) + (i - Len(s))
        BY <1>2, <1>3, <2>2
      <4>2. QED
        BY <4>1
    <3>2. p[j] = from
      BY <1>5, <1>6, <3>1
    <3>3. PacketAt(p, j, from, C)
      BY <3>1, <3>2 DEF Packet, Legal
    <3>4. ASSUME NEW k \in {1, 2, 3, 4}, j + k <= Len(p) PROVE u[i + k] = p[j + k]
      <4>1. j + k \in 1..Len(p) /\ i + k = Len(s) + (j + k)
        BY <1>2, <3>1, <3>4
      <4>2. QED
        BY <1>5, <4>1
    <3>5. \A k \in {1, 2, 3, 4} : i + k <= Len(u) <=> j + k <= Len(p)
      BY <1>2, <1>3, <3>1
    <3>6. u[i + 1] = p[j + 1] /\ u[i + 2] = p[j + 2]
      BY <1>2, <3>1, <3>3, <3>4 DEF PacketAt
    <3>7. j + 3 <= Len(p) => u[i + 3] = p[j + 3]
      BY <3>4
    <3>8. j + 4 <= Len(p) => u[i + 4] = p[j + 4]
      BY <3>4
    <3>9. QED
      BY <3>3, <3>5, <3>6, <3>7, <3>8 DEF PacketAt
  <2>3. QED
    BY <1>2, <2>1, <2>2
<1>7. Legal(u, from, C)
  BY <1>6 DEF Legal
<1>8. Aligned(s, from) => Aligned(u, from)
  <2>1. CASE Len(s) = 0
    BY <1>2, <1>5, <2>1 DEF Aligned
  <2>2. CASE Len(s) # 0
    BY <1>2, <1>4, <2>2 DEF Aligned
  <2>3. QED
    BY <2>1, <2>2
<1>9. QED
  BY <1>1, <1>3, <1>7, <1>8

\* What is left when bytes go from the front.
LEMMA LegalDrops ==
  ASSUME NEW s, NEW k, NEW t, NEW from, NEW C, Drops(s, k, t), Legal(s, from, C)
  PROVE  Legal(t, from, C)
<1>1. Len(s) \in Nat /\ Len(t) \in Nat /\ k \in Nat /\ Len(s) = Len(t) + k
  BY DEF Drops
<1>2. SUFFICES ASSUME NEW i \in 1..Len(t), t[i] = from PROVE PacketAt(t, i, from, C)
  BY DEF Legal
<1>3. PICK j : j = k + i
  OBVIOUS
<1>4. j \in 1..Len(s) /\ s[j] = from
  BY <1>1, <1>2, <1>3 DEF Drops
<1>5. PacketAt(s, j, from, C)
  BY <1>4 DEF Legal
<1>6. ASSUME NEW n \in {1, 2, 3, 4} PROVE /\ j + n <= Len(s) <=> i + n <= Len(t)
                                          /\ i + n <= Len(t) => t[i + n] = s[j + n]
  <2>1. j + n <= Len(s) <=> i + n <= Len(t)
    BY <1>1, <1>3
  <2>2. ASSUME i + n <= Len(t) PROVE t[i + n] = s[j + n]
    <3>1. i + n \in 1..Len(t) /\ k + (i + n) = j + n
      BY <1>1, <1>3, <2>2
    <3>2. QED
      BY <3>1 DEF Drops
  <2>3. QED
    BY <2>1, <2>2
<1>7. i + 1 <= Len(t) /\ i + 2 <= Len(t)
  BY <1>1, <1>3, <1>5 DEF PacketAt
<1>8. t[i + 1] = s[j + 1] /\ t[i + 2] = s[j + 2]
  BY <1>6, <1>7
<1>9. i + 3 <= Len(t) => t[i + 3] = s[j + 3]
  BY <1>6
<1>10. i + 4 <= Len(t) => t[i + 4] = s[j + 4]
  BY <1>6
<1>11. QED
  BY <1>5, <1>6, <1>8, <1>9, <1>10 DEF PacketAt

\* What is found in two pieces is found in one of them ...
LEMMA HasConcat ==
  ASSUME NEW s \in Seq(Bytes), NEW p \in Seq(Bytes), NEW C
  PROVE  Has(s \o p, C) <=> Has(s, C) \/ Has(p, C)
<1>1. PICK u : u = s \o p
  OBVIOUS
<1>2. Len(u) = Len(s) + Len(p) /\ Len(s) \in Nat /\ Len(p) \in Nat
  BY <1>1, ConcatProperties
<1>3. \A i \in 1..Len(u) : u[i] = IF i <= Len(s) THEN s[i] ELSE p[i - Len(s)]
  BY <1>1, <1>2, ConcatProperties
<1>4. ASSUME NEW i \in 1..Len(u), u[i] \in C PROVE Has(s, C) \/ Has(p, C)
  <2>1. CASE i <= Len(s)
    BY <1>2, <1>3, <1>4, <2>1 DEF Has
  <2>2. CASE i > Len(s)
    <3>1. i - Len(s) \in 1..Len(p) /\ p[i - Len(s)] \in C
      BY <1>2, <1>3, <1>4, <2>2
    <3>2. QED
      BY <3>1 DEF Has
  <2>3. QED
    BY <1>2, <2>1, <2>2
<1>5. ASSUME NEW i \in 1..Len(s), s[i] \in C PROVE Has(u, C)
  BY <1>2, <1>3, <1>5 DEF Has
<1>6. ASSUME NEW i \in 1..Len(p), p[i] \in C PROVE Has(u, C)
  <2>1. Len(s) + i \in 1..Len(u) /\ u[Len(s) + i] = p[i]
    BY <1>2, <1>3
  <2>2. QED
    BY <1>6, <2>1 DEF Has
<1>7. QED
  BY <1>1, <1>4, <1>5, <1>6 DEF Has

\* ... and stays in order unless the pieces bring it out of order.
LEMMA BeforeConcat ==
  ASSUME NEW s \in Seq(Bytes), NEW p \in Seq(Bytes), NEW C, NEW D,
         Before(s, C, D), Before(p, C, D), ~(Has(s, D) /\ Has(p, C))
  PROVE  Before(s \o p, C, D)
<1>1. PICK u : u = s \o p
  OBVIOUS
<1>2. Len(u) = Len(s) + Len(p) /\ Len(s) \in Nat /\ Len(p) \in Nat
  BY <1>1, ConcatProperties
<1>3. \A i \in 1..Len(u) : u[i] = IF i <= Len(s) THEN s[i] ELSE p[i - Len(s)]
  BY <1>1, <1>2, ConcatProperties
<1>4. ASSUME NEW i \in 1..Len(u), NEW j \in 1..Len(u), u[i] \in C, u[j] \in D
      PROVE  i < j
  <2>1. CASE i <= Len(s) /\ j <= Len(s)
    BY <1>2, <1>3, <1>4, <2>1 DEF Before
  <2>2. CASE i > Len(s) /\ j > Len(s)
    <3>1. i - Len(s) \in 1..Len(p) /\ p[i - Len(s)] \in C
      BY <1>2, <1>3, <1>4, <2>2
    <3>2. j - Len(s) \in 1..Len(p) /\ p[j - Len(s)] \in D
      BY <1>2, <1>3, <1>4, <2>2
    <3>3. i - Len(s) < j - Len(s)
      BY <3>1, <3>2 DEF Before
    <3>4. QED
      BY <1>2, <3>3
  <2>3. CASE i > Len(s) /\ j <= Len(s)
    <3>1. i - Len(s) \in 1..Len(p) /\ p[i - Len(s)] \in C
      BY <1>2, <1>3, <1>4, <2>3
    <3>2. j \in 1..Len(s) /\ s[j] \in D
      BY <1>2, <1>3, <1>4, <2>3
    <3>3. QED
      BY <3>1, <3>2 DEF Has
  <2>4. QED
    BY <1>2, <2>1, <2>2, <2>3
<1>5. QED
  BY <1>1, <1>4 DEF Before

LEMMA HasDrops ==
  ASSUME NEW s, NEW k, NEW t, NEW C, Drops(s, k, t), Has(t, C)
  PROVE  Has(s, C)
<1>1. PICK i \in 1..Len(t) : t[i] \in C
  BY DEF Has
<1>2. k + i \in 1..Len(s) /\ s[k + i] \in C
  BY <1>1 DEF Drops
<1>3. QED
  BY <1>2 DEF Has

LEMMA BeforeDrops ==
  ASSUME NEW s, NEW k, NEW t, NEW C, NEW D, Drops(s, k, t), Before(s, C, D)
  PROVE  Before(t, C, D)
<1>1. SUFFICES ASSUME NEW i \in 1..Len(t), NEW j \in 1..Len(t), t[i] \in C, t[j] \in D
               PROVE  i < j
  BY DEF Before
<1>2. k + i \in 1..Len(s) /\ s[k + i] \in C /\ k + j \in 1..Len(s) /\ s[k + j] \in D
  BY <1>1 DEF Drops
<1>3. k + i < k + j
  BY <1>2 DEF Before
<1>4. QED
  BY <1>3 DEF Drops

\* Two ways for bytes to go: one by one, and the first of two buffers at once.
LEMMA DropsTail ==
  ASSUME NEW s \in Seq(Bytes), s # <<>>
  PROVE  Drops(s, 1, Tail(s)) /\ Tail(s) \in Seq(Bytes) /\ Head(s) = s[1] /\ Head(s) \in Bytes
<1>1. Len(s) \in Nat /\ Len(s) > 0
  BY EmptySeq
<1>2. Tail(s) \in Seq(Bytes) /\ Len(Tail(s)) = Len(s) - 1 /\ Head(s) \in Bytes
  BY HeadTailProperties
<1>3. \A i \in 1..Len(Tail(s)) : Tail(s)[i] = s[1 + i]
  BY <1>1, <1>2, HeadTailProperties
<1>4. QED
  BY <1>1, <1>2, <1>3 DEF Drops

LEMMA DropsBuffer ==
  ASSUME NEW s \in Seq(Bytes), NEW p \in Seq(Bytes)
  PROVE  s \o p \in Seq(Bytes) /\ Drops(s \o p, Len(s), p)
<1>1. PICK u : u = s \o p
  OBVIOUS
<1>2. u \in Seq(Bytes) /\ Len(u) = Len(s) + Len(p) /\ Len(s) \in Nat /\ Len(p) \in Nat
  BY <1>1, ConcatProperties
<1>3. ASSUME NEW i \in 1..Len(p) PROVE p[i] = u[Len(s) + i]
  BY <1>1, <1>2, ConcatProperties
<1>4. Drops(u, Len(s), p)
  BY <1>2, <1>3 DEF Drops
<1>5. QED
  BY <1>1, <1>2, <1>4

\* A byte goes from the line into the buffer behind it.
LEMMA ByteIn ==
  ASSUME NEW r \in Seq(Bytes), NEW s \in Seq(Bytes), s # <<>>
  PROVE  /\ Append(r, Head(s)) \in Seq(Bytes) /\ Len(Append(r, Head(s))) = Len(r) + 1
         /\ Append(r, Head(s)) \o Tail(s) = r \o s
<1>1. Tail(s) \in Seq(Bytes) /\ Head(s) \in Bytes /\ Head(s) = s[1]
  BY DropsTail
<1>2. Len(s) \in Nat /\ Len(s) > 0 /\ Len(r) \in Nat /\ Len(Tail(s)) = Len(s) - 1
  BY EmptySeq, HeadTailProperties
<1>3. PICK b : b = Append(r, Head(s))
  OBVIOUS
<1>4. b \in Seq(Bytes) /\ Len(b) = Len(r) + 1 /\ b[Len(r) + 1] = s[1]
  BY <1>1, <1>3, AppendProperties
<1>5. \A i \in 1..Len(r) : b[i] = r[i]
  BY <1>1, <1>3, AppendProperties
<1>6. PICK u : u = b \o Tail(s)
  OBVIOUS
<1>7. PICK v : v = r \o s
  OBVIOUS
<1>8. u \in Seq(Bytes) /\ v \in Seq(Bytes) /\ Len(u) = Len(r) + Len(s) /\ Len(v) = Len(r) + Len(s)
  BY <1>1, <1>2, <1>4, <1>6, <1>7, ConcatProperties
<1>9. ASSUME NEW i \in 1..Len(u) PROVE u[i] = v[i]
  <2>1. u[i] = IF i <= Len(b) THEN b[i] ELSE Tail(s)[i - Len(b)]
    BY <1>1, <1>2, <1>4, <1>6, <1>8, ConcatProperties
  <2>2. v[i] = IF i <= Len(r) THEN r[i] ELSE s[i - Len(r)]
    BY <1>2, <1>7, <1>8, ConcatProperties
  <2>3. CASE i <= Len(r)
    BY <1>2, <1>4, <1>5, <2>1, <2>2, <2>3
  <2>4. CASE i = Len(r) + 1
    BY <1>2, <1>4, <2>1, <2>2, <2>4
  <2>5. CASE i > Len(r) + 1
    <3>1. i - Len(b) \in 1..Len(Tail(s)) /\ (i - Len(b)) + 1 = i - Len(r)
      BY <1>2, <1>4, <1>8, <2>5
    <3>2. Tail(s)[i - Len(b)] = s[i - Len(r)]
      BY <3>1, HeadTailProperties
    <3>3. ~(i <= Len(b)) /\ ~(i <= Len(r))
      BY <1>2, <1>4, <1>8, <2>5
    <3>4. u[i] = Tail(s)[i - Len(b)] /\ v[i] = s[i - Len(r)]
      BY <2>1, <2>2, <3>3
    <3>5. QED
      BY <3>2, <3>4
  <2>6. QED
    BY <1>2, <1>8, <2>3, <2>4, <2>5
<1>10. u = v
  BY <1>8, <1>9, SeqEqual
<1>11. QED
  BY <1>3, <1>4, <1>6, <1>7, <1>10

\* The packets that are sent, and what is in them.
LEMMA PlainPacket ==
  ASSUME NEW from \in {FromStm, FromEsp}, NEW c \in Commands \ {"sleep"}, NEW C, c \in C
  PROVE  /\ Packet(Plain(from, c), from, C)
         /\ \A D \in SUBSET Commands : Has(Plain(from, c), D) <=> c \in D
         /\ \A D, E \in SUBSET Commands : D \cap E = {} => Before(Plain(from, c), D, E)
<1>1. PICK p : p = Plain(from, c)
  OBVIOUS
<1>2. p \in Seq(Bytes) /\ Len(p) = 3 /\ p[1] = from /\ p[2] = "0" /\ p[3] = c
  BY <1>1 DEF Plain, Bytes
<1>3. from # "0" /\ from # c /\ c # "sleep" /\ from \notin Commands /\ "0" \notin Commands
  BY DEF Commands, FromDisplay, FromTheEsp, Heard, FromStm, FromEsp
<1>4. Legal(p, from, C)
  <2>1. SUFFICES ASSUME NEW i \in 1..3, p[i] = from PROVE PacketAt(p, i, from, C)
    BY <1>2 DEF Legal
  <2>2. i = 1
    BY <1>2, <1>3, <2>1
  <2>3. QED
    BY <1>2, <1>3, <2>2 DEF PacketAt
<1>5. \A D \in SUBSET Commands : Has(p, D) <=> c \in D
  BY <1>2, <1>3 DEF Has
<1>6. \A D, E \in SUBSET Commands : D \cap E = {} => Before(p, D, E)
  BY <1>2, <1>3 DEF Before
<1>7. QED
  BY <1>1, <1>2, <1>4, <1>5, <1>6 DEF Packet, Aligned

LEMMA SleepPacket ==
  ASSUME NEW from \in {FromStm, FromEsp}, NEW on \in BOOLEAN, NEW C, "sleep" \in C
  PROVE  /\ Packet(Sleep(from, on), from, C)
         /\ \A D \in SUBSET Commands : Has(Sleep(from, on), D) <=> "sleep" \in D
         /\ \A D, E \in SUBSET Commands : D \cap E = {} => Before(Sleep(from, on), D, E)
<1>1. PICK p : p = Sleep(from, on)
  OBVIOUS
<1>2. /\ p \in Seq(Bytes) /\ Len(p) = 4
      /\ p[1] = from /\ p[2] = "1" /\ p[3] = "sleep" /\ p[4] \in {"0", "1"}
  BY <1>1 DEF Sleep, Bytes, Commands, FromDisplay
<1>3. /\ from # "1" /\ from # "0" /\ from # "sleep" /\ from \notin Commands
      /\ "0" \notin Commands /\ "1" \notin Commands
  BY DEF Commands, FromDisplay, FromTheEsp, Heard, FromStm, FromEsp
<1>4. Legal(p, from, C)
  <2>1. SUFFICES ASSUME NEW i \in 1..4, p[i] = from PROVE PacketAt(p, i, from, C)
    BY <1>2 DEF Legal
  <2>2. i = 1
    BY <1>2, <1>3, <2>1
  <2>3. QED
    BY <1>2, <1>3, <2>2 DEF PacketAt
<1>5. \A D \in SUBSET Commands : Has(p, D) <=> "sleep" \in D
  BY <1>2, <1>3 DEF Has
<1>6. \A D, E \in SUBSET Commands : D \cap E = {} => Before(p, D, E)
  BY <1>2, <1>3 DEF Before
<1>7. QED
  BY <1>1, <1>2, <1>4, <1>5, <1>6 DEF Packet, Aligned

\* The first packet: its command is its third byte, and another packet follows it.
Length(s) == IF s[3] = "sleep" THEN 4 ELSE 3

LEMMA FirstPacket ==
  ASSUME NEW s \in Seq(Bytes), NEW from \in {FromStm, FromEsp}, NEW C \in SUBSET Commands,
         Legal(s, from, C), Aligned(s, from), s # <<>>
  PROVE  /\ s[1] = from /\ s[3] \in C /\ s[2] = (IF s[3] = "sleep" THEN "1" ELSE "0")
         /\ Length(s) <= Len(s)
         /\ \A i \in 1..Length(s) : s[i] \in Commands => i = 3
         /\ \A t : Drops(s, Length(s), t) => Aligned(t, from)
<1>1. Len(s) \in Nat /\ Len(s) > 0
  BY EmptySeq
<1>2. s[1] = from /\ PacketAt(s, 1, from, C)
  BY <1>1 DEF Legal, Aligned
<1>3. /\ from # "1" /\ from # "0" /\ from \notin Commands
      /\ "0" \notin Commands /\ "1" \notin Commands
  BY DEF Commands, FromDisplay, FromTheEsp, Heard, FromStm, FromEsp
<1>4. CASE s[3] = "sleep"
  <2>1. Length(s) = 4 /\ 4 <= Len(s) /\ s[2] = "1" /\ s[4] \in {"0", "1"} /\ "sleep" \in C
    BY <1>2, <1>4 DEF PacketAt, Length
  <2>2. \A i \in 1..4 : s[i] \in Commands => i = 3
    BY <1>2, <1>3, <2>1
  <2>3. ASSUME NEW t, Drops(s, 4, t) PROVE Aligned(t, from)
    BY <1>1, <1>2, <1>4, <2>3 DEF PacketAt, Drops, Aligned
  <2>4. QED
    BY <1>2, <1>4, <2>1, <2>2, <2>3
<1>5. CASE s[3] # "sleep"
  <2>1. Length(s) = 3 /\ 3 <= Len(s) /\ s[2] = "0" /\ s[3] \in C
    BY <1>2, <1>5 DEF PacketAt, Length
  <2>2. \A i \in 1..3 : s[i] \in Commands => i = 3
    BY <1>2, <1>3, <2>1
  <2>3. ASSUME NEW t, Drops(s, 3, t) PROVE Aligned(t, from)
    BY <1>1, <1>2, <1>5, <2>3 DEF PacketAt, Drops, Aligned
  <2>4. QED
    BY <1>2, <1>5, <2>1, <2>2, <2>3
<1>6. QED
  BY <1>4, <1>5

-----------------------------------------------------------------------------
(* The two handshakes                                                      *)

Once(s, c) == \A i, j \in 1..Len(s) : s[i] = c /\ s[j] = c => i = j

\* What is on its way to an ESP in state e from a display in state d.
\* A HANDSHAKE_OK is taken by the ESP that gave the answer it confirms, and what
\* the display sent before it are greetings.  An ESP that has answered has nothing
\* coming that makes it forget that, or the HANDSHAKE_OK before it.  Any other is
\* not greeted by a display that is past its handshake, and what is left of an
\* earlier connection comes before the greetings of the next.
Talk(s, d, e) ==
  /\ Has(s, {"ok"}) => /\ e = "answered" /\ d = "run" /\ Once(s, "ok")
                       /\ Before(s, {"init"}, {"ok"})
                       /\ Before(s, {"ok"}, {"ping", "sleep"})
  /\ e = "answered" => IF d = "run" THEN Has(s, {"ok"}) ELSE ~Has(s, {"ping", "sleep"})
  /\ e # "answered" => /\ Before(s, {"ping", "sleep"}, {"init"})
                       /\ d = "run" => e # "dead" /\ ~Has(s, {"init"})

\* Bytes that an ESP does not hear, or takes while no answer of its is out.
LEMMA TalkDrops ==
  ASSUME NEW s, NEW k, NEW t, NEW d, NEW e, Drops(s, k, t), Talk(s, d, e), e # "answered"
  PROVE  Talk(t, d, e)
<1>1. ~Has(s, {"ok"})
  BY DEF Talk
<1>2. ~Has(t, {"ok"})
  BY <1>1, HasDrops
<1>3. Before(t, {"ping", "sleep"}, {"init"})
  BY BeforeDrops DEF Talk
<1>4. d = "run" => e # "dead" /\ ~Has(t, {"init"})
  BY HasDrops DEF Talk
<1>5. QED
  BY <1>2, <1>3, <1>4 DEF Talk

\* The ESP starts, restarts, or stays as it is.
LEMMA TalkRestarts ==
  ASSUME NEW s, NEW d, NEW e, NEW f, Talk(s, d, e), e # "answered", f \notin {"answered", "dead"}
  PROVE  Talk(s, d, f)
  BY DEF Talk

\* The display goes from one state to another without a connection.
LEMMA TalkApart ==
  ASSUME NEW s, NEW d, NEW c, NEW e, Talk(s, d, e), d # "run", c # "run"
  PROVE  Talk(s, c, e)
  BY DEF Talk

\* It gives a connection up.
LEMMA TalkLapses ==
  ASSUME NEW s, NEW d, NEW e, Talk(s, d, e), e # "answered", NEW c, c # "run"
  PROVE  Talk(s, c, e)
  BY DEF Talk

\* It sends HANDSHAKE_INIT ...
LEMMA TalkAsks ==
  ASSUME NEW s \in Seq(Bytes), NEW d, NEW e, Talk(s, d, e), d # "run"
  PROVE  Talk(s \o Plain(FromStm, "init"), "listen", e)
<1>1. PICK p : p = Plain(FromStm, "init")
  OBVIOUS
<1>2. /\ p \in Seq(Bytes) /\ ~Has(p, {"ok"}) /\ ~Has(p, {"ping", "sleep"})
      /\ Before(p, {"ping", "sleep"}, {"init"})
  <2>1. "init" \in Commands \ {"sleep"} /\ {"ok"} \in SUBSET Commands
        /\ {"ping", "sleep"} \in SUBSET Commands /\ {"init"} \in SUBSET Commands
    BY DEF Commands, FromDisplay
  <2>2. /\ p \in Seq(Bytes)
        /\ \A D \in SUBSET Commands : Has(p, D) <=> "init" \in D
        /\ \A D, E \in SUBSET Commands : D \cap E = {} => Before(p, D, E)
    BY <1>1, <2>1, PlainPacket DEF Packet
  <2>3. QED
    BY <2>1, <2>2
<1>3. ~Has(s, {"ok"})
  BY DEF Talk
<1>4. PICK u : u = s \o p
  OBVIOUS
<1>5. ~Has(u, {"ok"})
  BY <1>2, <1>3, <1>4, HasConcat
<1>6. ~Has(s, {"ping", "sleep"}) => ~Has(u, {"ping", "sleep"})
  BY <1>2, <1>4, HasConcat
<1>7. Before(s, {"ping", "sleep"}, {"init"}) => Before(u, {"ping", "sleep"}, {"init"})
  BY <1>2, <1>4, BeforeConcat
<1>8. Talk(u, "listen", e)
  BY <1>5, <1>6, <1>7 DEF Talk
<1>9. QED
  BY <1>1, <1>4, <1>8

\* ... and HANDSHAKE_OK.
LEMMA TalkConfirms ==
  ASSUME NEW s \in Seq(Bytes), Talk(s, "told", "answered")
  PROVE  Talk(s \o Plain(FromStm, "ok"), "run", "answered")
<1>1. PICK p : p = Plain(FromStm, "ok")
  OBVIOUS
<1>2. /\ p \in Seq(Bytes) /\ Has(p, {"ok"}) /\ ~Has(p, {"init"}) /\ Len(p) = 3
      /\ Before(p, {"init"}, {"ok"}) /\ Before(p, {"ok"}, {"ping", "sleep"})
  <2>1. "ok" \in Commands \ {"sleep"} /\ {"ok"} \in SUBSET Commands
        /\ {"ping", "sleep"} \in SUBSET Commands /\ {"init"} \in SUBSET Commands
    BY DEF Commands, FromDisplay
  <2>2. /\ p \in Seq(Bytes)
        /\ \A D \in SUBSET Commands : Has(p, D) <=> "ok" \in D
        /\ \A D, E \in SUBSET Commands : D \cap E = {} => Before(p, D, E)
    BY <1>1, <2>1, PlainPacket DEF Packet
  <2>3. Len(p) = 3
    BY <1>1 DEF Plain
  <2>4. QED
    BY <2>1, <2>2, <2>3
<1>3. ~Has(s, {"ok"}) /\ ~Has(s, {"ping", "sleep"})
  BY DEF Talk
<1>4. PICK u : u = s \o p
  OBVIOUS
<1>5. Has(u, {"ok"})
  BY <1>2, <1>4, HasConcat
<1>6. Before(u, {"init"}, {"ok"})
  <2>1. Before(s, {"init"}, {"ok"})
    BY <1>3 DEF Before, Has
  <2>2. QED
    BY <1>2, <1>3, <1>4, <2>1, BeforeConcat
<1>7. Before(u, {"ok"}, {"ping", "sleep"})
  <2>1. Before(s, {"ok"}, {"ping", "sleep"})
    BY <1>3 DEF Before, Has
  <2>2. QED
    BY <1>2, <1>3, <1>4, <2>1, BeforeConcat
<1>8. Once(u, "ok")
  <2>1. p[1] # "ok" /\ p[2] # "ok"
    BY <1>1 DEF Plain, FromStm
  <2>2. Len(s) \in Nat /\ Len(u) = Len(s) + 3
    <3>1. Len(u) = Len(s) + Len(p)
      BY <1>2, <1>4, ConcatProperties
    <3>2. Len(s) \in Nat
      BY LenProperties
    <3>3. QED
      BY <1>2, <3>1, <3>2
  <2>3. ASSUME NEW i \in 1..Len(u), u[i] = "ok" PROVE i = Len(s) + 3
    <3>1. u[i] = IF i <= Len(s) THEN s[i] ELSE p[i - Len(s)]
      BY <1>2, <1>4, <2>2, ConcatProperties
    <3>2. ~(i <= Len(s))
      BY <1>3, <2>2, <2>3, <3>1 DEF Has
    <3>3. i - Len(s) \in {1, 2, 3} /\ p[i - Len(s)] = "ok"
      BY <2>2, <2>3, <3>1, <3>2
    <3>4. i - Len(s) = 3
      BY <2>1, <3>3
    <3>5. QED
      BY <2>2, <3>4
  <2>4. QED
    BY <2>3 DEF Once
<1>9. Talk(u, "run", "answered")
  BY <1>5, <1>6, <1>7, <1>8 DEF Talk
<1>10. QED
  BY <1>1, <1>4, <1>9

\* A connected display sends on.
LEMMA TalkGoesOn ==
  ASSUME NEW s \in Seq(Bytes), NEW e, NEW p \in Seq(Bytes), Talk(s, "run", e),
         \A D \in SUBSET Commands : Has(p, D) => D \cap {"ping", "sleep"} # {},
         \A D, E \in SUBSET Commands : D \cap E = {} => Before(p, D, E)
  PROVE  Talk(s \o p, "run", e)
<1>1. {"ok"} \in SUBSET Commands /\ {"ping", "sleep"} \in SUBSET Commands
      /\ {"init"} \in SUBSET Commands
  BY DEF Commands, FromDisplay
<1>2. ~Has(p, {"ok"}) /\ ~Has(p, {"init"})
  BY <1>1
<1>3. /\ Before(p, {"ping", "sleep"}, {"init"}) /\ Before(p, {"init"}, {"ok"})
      /\ Before(p, {"ok"}, {"ping", "sleep"})
  BY <1>1
<1>4. PICK u : u = s \o p
  OBVIOUS
<1>5. Has(u, {"ok"}) <=> Has(s, {"ok"})
  BY <1>2, <1>4, HasConcat
<1>6. Has(u, {"init"}) <=> Has(s, {"init"})
  BY <1>2, <1>4, HasConcat
<1>7. CASE e = "answered"
  <2>1. /\ Has(s, {"ok"}) /\ Once(s, "ok") /\ Before(s, {"init"}, {"ok"})
        /\ Before(s, {"ok"}, {"ping", "sleep"})
    BY <1>7 DEF Talk
  <2>2. Before(u, {"init"}, {"ok"})
    BY <1>2, <1>3, <1>4, <2>1, BeforeConcat
  <2>3. Before(u, {"ok"}, {"ping", "sleep"})
    BY <1>2, <1>3, <1>4, <2>1, BeforeConcat
  <2>4. Once(u, "ok")
    <3>1. Len(s) \in Nat /\ Len(p) \in Nat /\ Len(u) = Len(s) + Len(p)
      BY <1>4, ConcatProperties
    <3>2. ASSUME NEW i \in 1..Len(u), u[i] = "ok" PROVE i \in 1..Len(s) /\ s[i] = "ok"
      <4>1. u[i] = IF i <= Len(s) THEN s[i] ELSE p[i - Len(s)]
        BY <1>4, <3>1, ConcatProperties
      <4>2. CASE i <= Len(s)
        BY <3>1, <3>2, <4>1, <4>2
      <4>3. CASE i > Len(s)
        <5>1. i - Len(s) \in 1..Len(p) /\ p[i - Len(s)] = "ok"
          BY <3>1, <3>2, <4>1, <4>3
        <5>2. QED
          BY <1>2, <5>1 DEF Has
      <4>4. QED
        BY <3>1, <4>2, <4>3
    <3>3. QED
      BY <2>1, <3>2 DEF Once
  <2>5. Talk(u, "run", e)
    BY <1>5, <1>7, <2>1, <2>2, <2>3, <2>4 DEF Talk
  <2>6. QED
    BY <1>4, <2>5
<1>8. CASE e # "answered"
  <2>1. ~Has(s, {"ok"}) /\ ~Has(s, {"init"}) /\ e # "dead"
    BY <1>8 DEF Talk
  <2>2. Before(u, {"ping", "sleep"}, {"init"})
    BY <1>6, <2>1 DEF Before, Has
  <2>3. Talk(u, "run", e)
    BY <1>5, <1>6, <1>8, <2>1, <2>2 DEF Talk
  <2>4. QED
    BY <1>4, <2>3
<1>9. QED
  BY <1>7, <1>8

\* The ESP takes the packet that comes first: s is what there was, t what remains.
FirstTaken(s, t) ==
  /\ Legal(s, FromStm, FromDisplay) /\ Aligned(s, FromStm) /\ s # <<>>
  /\ Drops(s, Length(s), t)

LEMMA CommandTaken ==
  ASSUME NEW s, NEW t, FirstTaken(s, t)
  PROVE  /\ s[3] \in FromDisplay /\ 3 \in 1..Len(s) /\ Aligned(t, FromStm)
         /\ \A i \in 1..Len(s) : i < 3 => s[i] \notin Commands
         /\ \A i \in 1..Len(t) : Length(s) + i \in 1..Len(s) /\ t[i] = s[Length(s) + i]
         /\ \A i \in 1..Len(s) : s[i] \in Commands /\ i # 3 =>
              i - Length(s) \in 1..Len(t) /\ t[i - Length(s)] = s[i]
<1>1. s \in Seq(Bytes) /\ Len(s) \in Nat /\ Len(t) \in Nat /\ Length(s) \in {3, 4}
  BY DEF FirstTaken, Drops, Length
<1>2. FromDisplay \in SUBSET Commands /\ FromStm \in {FromStm, FromEsp}
  BY DEF Commands
<1>3. /\ s[3] \in FromDisplay /\ Length(s) <= Len(s) /\ Aligned(t, FromStm)
      /\ \A i \in 1..Length(s) : s[i] \in Commands => i = 3
  BY <1>1, <1>2, FirstPacket DEF FirstTaken
<1>4. /\ Len(t) = Len(s) - Length(s)
      /\ \A i \in 1..Len(t) : t[i] = s[Length(s) + i]
  BY DEF FirstTaken, Drops
<1>5. ASSUME NEW i \in 1..Len(s), s[i] \in Commands, i # 3
      PROVE  i - Length(s) \in 1..Len(t) /\ t[i - Length(s)] = s[i]
  <2>1. ~(i \in 1..Length(s))
    BY <1>3, <1>5
  <2>2. i - Length(s) \in 1..Len(t) /\ Length(s) + (i - Length(s)) = i
    BY <1>1, <1>4, <2>1
  <2>3. QED
    BY <1>4, <2>2
<1>6. QED
  BY <1>1, <1>3, <1>4, <1>5

\* A greeting is answered, or met with the report of a crash ...
LEMMA TalkGreets ==
  ASSUME NEW s, NEW t, NEW d, NEW e, FirstTaken(s, t), s[3] = "init",
         Talk(s, d, e), e # "answered"
  PROVE  d # "run" /\ Talk(t, d, "answered") /\ Talk(t, d, "dead")
<1>1. Has(s, {"init"}) /\ ~Has(s, {"ok"})
  BY CommandTaken DEF Has, Talk
<1>2. d # "run" /\ Before(s, {"ping", "sleep"}, {"init"})
  BY <1>1 DEF Talk
<1>3. ~Has(t, {"ok"}) /\ Before(t, {"ping", "sleep"}, {"init"})
  BY <1>1, <1>2, HasDrops, BeforeDrops DEF FirstTaken
<1>4. ~Has(t, {"ping", "sleep"})
  <2>1. ASSUME NEW i \in 1..Len(t), t[i] \in {"ping", "sleep"} PROVE FALSE
    <3>1. Length(s) + i \in 1..Len(s) /\ s[Length(s) + i] \in {"ping", "sleep"}
      BY <2>1, CommandTaken
    <3>2. Length(s) + i < 3
      BY <1>2, <3>1, CommandTaken DEF Before
    <3>3. QED
      BY <3>2 DEF Length
  <2>2. QED
    BY <2>1 DEF Has
<1>5. QED
  BY <1>2, <1>3, <1>4 DEF Talk

\* ... a second one is passed over ...
LEMMA TalkPassesOver ==
  ASSUME NEW s, NEW t, NEW d, FirstTaken(s, t), s[3] = "init", Talk(s, d, "answered")
  PROVE  Talk(t, d, "answered")
<1>1. Drops(s, Length(s), t)
  BY DEF FirstTaken
<1>2. CASE d = "run"
  <2>1. /\ Has(s, {"ok"}) /\ Once(s, "ok") /\ Before(s, {"init"}, {"ok"})
        /\ Before(s, {"ok"}, {"ping", "sleep"})
    BY <1>2 DEF Talk
  <2>2. PICK i \in 1..Len(s) : s[i] = "ok"
    BY <2>1 DEF Has
  <2>3. i - Length(s) \in 1..Len(t) /\ t[i - Length(s)] = "ok"
    BY <2>2, CommandTaken DEF Commands, FromDisplay
  <2>4. Has(t, {"ok"})
    BY <2>3 DEF Has
  <2>5. Once(t, "ok")
    <3>1. ASSUME NEW j \in 1..Len(t), NEW k \in 1..Len(t), t[j] = "ok", t[k] = "ok"
          PROVE  j = k
      <4>1. Length(s) + j = Length(s) + k
        BY <2>1, <3>1, CommandTaken DEF Once
      <4>2. QED
        BY <1>1, <4>1 DEF Drops, Length
    <3>2. QED
      BY <3>1 DEF Once
  <2>6. Before(t, {"init"}, {"ok"}) /\ Before(t, {"ok"}, {"ping", "sleep"})
    BY <1>1, <2>1, BeforeDrops
  <2>7. QED
    BY <1>2, <2>4, <2>5, <2>6 DEF Talk
<1>3. CASE d # "run"
  <2>1. ~Has(s, {"ok"}) /\ ~Has(s, {"ping", "sleep"})
    BY <1>3 DEF Talk
  <2>2. ~Has(t, {"ok"}) /\ ~Has(t, {"ping", "sleep"})
    BY <1>1, <2>1, HasDrops
  <2>3. QED
    BY <1>3, <2>2 DEF Talk
<1>4. QED
  BY <1>2, <1>3

\* ... the confirmation of the answer opens the connection ...
LEMMA TalkOpens ==
  ASSUME NEW s, NEW t, NEW d, FirstTaken(s, t), s[3] = "ok", Talk(s, d, "answered")
  PROVE  Talk(t, d, "run")
<1>1. Has(s, {"ok"})
  BY CommandTaken DEF Has
<1>2. /\ d = "run" /\ Once(s, "ok") /\ Before(s, {"init"}, {"ok"})
  BY <1>1 DEF Talk
<1>3. ASSUME NEW i \in 1..Len(t) PROVE t[i] # "ok" /\ t[i] # "init"
  <2>1. Length(s) + i \in 1..Len(s) /\ s[Length(s) + i] = t[i] /\ Length(s) \in {3, 4}
    BY CommandTaken DEF Length
  <2>2. s[Length(s) + i] = "ok" => Length(s) + i = 3
    BY <1>2, <2>1, CommandTaken DEF Once
  <2>3. s[Length(s) + i] = "init" => Length(s) + i < 3
    BY <1>2, <2>1, CommandTaken DEF Before
  <2>4. QED
    BY <2>1, <2>2, <2>3
<1>4. ~Has(t, {"ok"}) /\ ~Has(t, {"init"}) /\ Before(t, {"ping", "sleep"}, {"init"})
  BY <1>3 DEF Has, Before
<1>5. QED
  BY <1>4 DEF Talk

\* ... and nothing else comes in between.
LEMMA TalkUndisturbed ==
  ASSUME NEW s, NEW t, NEW d, FirstTaken(s, t), Talk(s, d, "answered")
  PROVE  s[3] \in {"init", "ok"}
<1>1. SUFFICES ASSUME s[3] \in {"ping", "sleep"} PROVE FALSE
  BY CommandTaken DEF FromDisplay
<1>2. Has(s, {"ping", "sleep"})
  BY <1>1, CommandTaken DEF Has
<1>3. Has(s, {"ok"}) /\ Before(s, {"ok"}, {"ping", "sleep"})
  BY <1>2 DEF Talk
<1>4. PICK i \in 1..Len(s) : s[i] = "ok"
  BY <1>3 DEF Has
<1>5. i < 3
  BY <1>1, <1>3, <1>4, CommandTaken DEF Before
<1>6. QED
  BY <1>4, <1>5, CommandTaken DEF Commands, FromDisplay

\* What is on its way to a display in state d from an ESP in state e.  An answer
\* comes last, from an ESP that waits for the confirmation, to a display that has
\* not seen it yet.
Answers(o, d, e) ==
  /\ Has(o, {"resp"}) => /\ e = "answered" /\ d \notin {"told", "run"}
                         /\ \A i \in 1..Len(o) : o[i] = "resp" => i = Len(o)
  /\ Has(o, {"crash"}) => e = "dead"

LEMMA AnswersDrop ==
  ASSUME NEW o, NEW k, NEW t, NEW d, NEW e, Drops(o, k, t), Answers(o, d, e)
  PROVE  Answers(t, d, e)
<1>1. CASE Has(t, {"resp"})
  <2>1. /\ e = "answered" /\ d \notin {"told", "run"}
        /\ \A i \in 1..Len(o) : o[i] = "resp" => i = Len(o)
    BY <1>1, HasDrops DEF Answers
  <2>2. ASSUME NEW i \in 1..Len(t), t[i] = "resp" PROVE i = Len(t)
    <3>1. k + i \in 1..Len(o) /\ o[k + i] = "resp"
      BY <2>2 DEF Drops
    <3>2. k + i = Len(o)
      BY <2>1, <3>1
    <3>3. Len(o) \in Nat /\ k \in Nat /\ Len(t) = Len(o) - k
      BY LenProperties DEF Drops
    <3>4. QED
      BY <2>2, <3>2, <3>3
  <2>3. Has(t, {"crash"}) => e = "dead"
    BY HasDrops DEF Answers
  <2>4. QED
    BY <2>1, <2>2, <2>3 DEF Answers
<1>2. CASE ~Has(t, {"resp"})
  <2>1. Has(t, {"crash"}) => e = "dead"
    BY HasDrops DEF Answers
  <2>2. QED
    BY <1>2, <2>1 DEF Answers
<1>3. QED
  BY <1>1, <1>2

\* An ESP that is not waiting for a confirmation and has not stopped has answers of
\* its own neither out nor coming back to it.
LEMMA AnswersNone ==
  ASSUME NEW o, NEW d, NEW e, Answers(o, d, e), e \notin {"answered", "dead"}
  PROVE  /\ ~Has(o, {"resp"}) /\ ~Has(o, {"crash"})
         /\ \A c, f : Answers(o, c, f)
  BY DEF Answers

LEMMA AnswersMore ==
  ASSUME NEW o \in Seq(Bytes), NEW d, NEW e, Answers(o, d, e), e \notin {"answered", "dead"},
         NEW p \in Seq(Bytes), \A D \in SUBSET Commands : Has(p, D) => D \cap Heard # {}
  PROVE  \A f : Answers(o \o p, d, f)
<1>1. ~Has(o, {"resp"}) /\ ~Has(o, {"crash"})
  BY AnswersNone
<1>2. ~Has(p, {"resp"}) /\ ~Has(p, {"crash"})
  BY DEF Commands, FromTheEsp, Heard
<1>3. ~Has(o \o p, {"resp"}) /\ ~Has(o \o p, {"crash"})
  BY <1>1, <1>2, HasConcat
<1>4. QED
  BY <1>3 DEF Answers

\* The answer to a greeting, or the report of a crash.
LEMMA AnswersGreeting ==
  ASSUME NEW o \in Seq(Bytes), NEW d, NEW e, Answers(o, d, e), e \notin {"answered", "dead"}
  PROVE  /\ d \notin {"told", "run"} => Answers(o \o Plain(FromEsp, "resp"), d, "answered")
         /\ Answers(o \o Plain(FromEsp, "crash"), d, "dead")
<1>1. ~Has(o, {"resp"}) /\ ~Has(o, {"crash"})
  BY AnswersNone
<1>2. PICK p : p = Plain(FromEsp, "resp")
  OBVIOUS
<1>3. PICK q : q = Plain(FromEsp, "crash")
  OBVIOUS
<1>4. /\ p \in Seq(Bytes) /\ ~Has(p, {"crash"}) /\ q \in Seq(Bytes) /\ ~Has(q, {"resp"})
      /\ Len(p) = 3 /\ p[1] # "resp" /\ p[2] # "resp"
  BY <1>2, <1>3 DEF Plain, FromEsp, Bytes, Commands, FromTheEsp, Has
<1>5. ~Has(o \o p, {"crash"}) /\ ~Has(o \o q, {"resp"})
  BY <1>1, <1>4, HasConcat
<1>6. PICK u : u = o \o p
  OBVIOUS
<1>7. ASSUME NEW i \in 1..Len(u), u[i] = "resp" PROVE i = Len(u)
  <2>1. Len(u) = Len(o) + Len(p) /\ Len(o) \in Nat
    BY <1>4, <1>6, ConcatProperties, LenProperties
  <2>2. u[i] = IF i <= Len(o) THEN o[i] ELSE p[i - Len(o)]
    BY <1>4, <1>6, <2>1, ConcatProperties
  <2>3. ~(i <= Len(o))
    BY <1>1, <1>7, <2>1, <2>2 DEF Has
  <2>4. i - Len(o) \in {1, 2, 3} /\ p[i - Len(o)] = "resp"
    BY <1>4, <1>7, <2>1, <2>2, <2>3
  <2>5. i - Len(o) = 3
    BY <1>4, <2>4
  <2>6. QED
    BY <1>4, <2>1, <2>5
<1>8. d \notin {"told", "run"} => Answers(u, d, "answered")
  BY <1>5, <1>6, <1>7 DEF Answers
<1>9. Answers(o \o q, d, "dead")
  BY <1>5 DEF Answers
<1>10. QED
  BY <1>2, <1>3, <1>6, <1>8, <1>9

-----------------------------------------------------------------------------
(* The invariant                                                           *)

\* What is on its way to either side: on the line, and gathered from it.
In == rx \o toEsp
Out == IF stm = "run" THEN dma \o toStm ELSE toStm

ByteTypes ==
  /\ rx \in Seq(Bytes) /\ toEsp \in Seq(Bytes) /\ dma \in Seq(Bytes) /\ toStm \in Seq(Bytes)
  /\ stream \in Seq(Bytes) /\ hdr \in Seq(Bytes) /\ left \in Nat

\* A packet is taken as soon as it is there, and only the one with a payload is
\* longer than its header.
Unfinished(buf, from) == Len(buf) <= 3 /\ (Len(buf) = 3 => buf[1] = from /\ buf[3] = "sleep")

EspInv ==
  /\ Legal(In, FromStm, FromDisplay) /\ Unfinished(rx, FromStm)
  /\ esp \in {"answered", "run"} => Aligned(In, FromStm)
  /\ esp \in {"off", "dead"} => rx = <<>>

StmInv ==
  /\ Legal(Out, FromEsp, FromTheEsp) /\ Answers(Out, stm, esp)
  /\ stm = "run" => Unfinished(dma, FromEsp)

\* The servicer has none or all of a header, or has yet to read one byte of payload.
Payload(s) == s # <<>> /\ s[1] \in {"0", "1"} /\ (Len(s) > 1 => s[2] = FromEsp)
StreamInv ==
  /\ stm # "run" => stream = <<>> /\ hdr = <<>> /\ left = 0
  /\ left = 0 => /\ Len(hdr) \in {0, 3}
                 /\ Legal(hdr \o stream, FromEsp, Heard) /\ Aligned(hdr \o stream, FromEsp)
  /\ left # 0 => /\ left = 1 /\ hdr = <<>>
                 /\ Legal(stream, FromEsp, Heard) /\ Payload(stream)

\* A display that has seen the answer, and then until its HANDSHAKE_OK is taken, has
\* nothing before it.
StepInv ==
  /\ stm = "told" => esp = "answered" /\ toStm = <<>>
  /\ stm = "run" /\ esp = "answered" =>
       toStm = <<>> /\ dma = <<>> /\ stream = <<>> /\ hdr = <<>> /\ left = 0

LinkInv == ByteTypes /\ Talk(In, stm, esp) /\ EspInv /\ StmInv /\ StreamInv /\ StepInv

IInv == lost \in Nat /\ (lost = 0 => LinkInv)

-----------------------------------------------------------------------------
(* What the parts of a step do to it                                       *)

\* Without a loss a packet arrives whole.
LEMMA SentWhole ==
  ASSUME lost = 0, lost' = 0, NEW p
  PROVE  /\ SendEsp(p) => toEsp' = toEsp \o p
         /\ SendStm(p) => toStm' = toStm \o p
  BY DEF SendEsp, SendStm, Sent

LEMMA Buffers ==
  ASSUME ByteTypes
  PROVE  In \in Seq(Bytes) /\ Out \in Seq(Bytes)
<1>1. In \in Seq(Bytes)
  BY ConcatProperties DEF ByteTypes, In
<1>2. dma \o toStm \in Seq(Bytes)
  BY ConcatProperties DEF ByteTypes
<1>3. QED
  BY <1>1, <1>2 DEF ByteTypes, Out

LEMMA Assoc ==
  ASSUME NEW r \in Seq(Bytes), NEW s \in Seq(Bytes), NEW p \in Seq(Bytes)
  PROVE  (r \o s) \o p = r \o (s \o p)
  BY ConcatAssociative

\* The display sends a packet.
LEMMA InGrows ==
  ASSUME ByteTypes, EspInv, UNCHANGED espVars,
         NEW p, Packet(p, FromStm, FromDisplay), toEsp' = toEsp \o p
  PROVE  In' = In \o p /\ toEsp' \in Seq(Bytes) /\ EspInv'
<1>1. p \in Seq(Bytes) /\ rx \in Seq(Bytes) /\ toEsp \in Seq(Bytes) /\ In \in Seq(Bytes)
  BY Buffers DEF Packet, ByteTypes
<1>2. toEsp' \in Seq(Bytes)
  BY <1>1, ConcatProperties
<1>3. (rx \o toEsp) \o p = rx \o (toEsp \o p)
  BY <1>1, Assoc
<1>4. In' = In \o p
  BY <1>3 DEF In, espVars
<1>5. PICK u : u = In \o p
  OBVIOUS
<1>6. Legal(In, FromStm, FromDisplay)
  BY DEF EspInv
<1>7. Legal(u, FromStm, FromDisplay) /\ (Aligned(In, FromStm) => Aligned(u, FromStm))
  BY <1>1, <1>5, <1>6, LegalConcat
<1>8. EspInv'
  BY <1>4, <1>5, <1>7 DEF EspInv, espVars
<1>9. QED
  BY <1>2, <1>4, <1>8

\* The ESP sends one.
LEMMA OutGrows ==
  ASSUME ByteTypes, UNCHANGED <<stm, dma>>, Legal(Out, FromEsp, FromTheEsp),
         NEW p, Packet(p, FromEsp, FromTheEsp), toStm' = toStm \o p
  PROVE  Out' = Out \o p /\ toStm' \in Seq(Bytes) /\ Legal(Out', FromEsp, FromTheEsp)
<1>1. p \in Seq(Bytes) /\ dma \in Seq(Bytes) /\ toStm \in Seq(Bytes) /\ Out \in Seq(Bytes)
  BY Buffers DEF Packet, ByteTypes
<1>2. toStm' \in Seq(Bytes)
  BY <1>1, ConcatProperties
<1>3. (dma \o toStm) \o p = dma \o (toStm \o p)
  BY <1>1, Assoc
<1>4. Out' = Out \o p
  BY <1>3 DEF Out
<1>5. PICK u : u = Out \o p
  OBVIOUS
<1>6. Legal(u, FromEsp, FromTheEsp)
  BY <1>1, <1>5, LegalConcat
<1>7. QED
  BY <1>2, <1>4, <1>5, <1>6

\* The display leaves its handshake or its connection and starts all over.
LEMMA Restarts ==
  ASSUME LinkInv, StmReset, UNCHANGED <<toEsp, espVars>>,
         stm = "run" => esp # "answered",
         \E k : Drops(Out, k, toStm')
  PROVE  LinkInv'
<1>1. ByteTypes'
  <2>1. PICK k : Drops(Out, k, toStm')
    OBVIOUS
  <2>2. toStm' \in Seq(Bytes)
    BY <2>1 DEF Drops
  <2>3. <<>> \in Seq(Bytes)
    BY EmptySeq
  <2>4. QED
    BY <2>2, <2>3 DEF LinkInv, ByteTypes, StmReset, espVars
<1>2. In' = In
  BY DEF In, espVars
<1>3. stm' = "boot" /\ esp' = esp
  BY DEF StmReset, espVars
<1>4. Talk(In, "boot", esp)
  <2>1. CASE stm = "run"
    BY <2>1, TalkLapses DEF LinkInv
  <2>2. CASE stm # "run"
    BY <2>2, TalkApart DEF LinkInv
  <2>3. QED
    BY <2>1, <2>2
<1>5. Talk(In, stm, esp)'
  BY <1>2, <1>3, <1>4
<1>6. EspInv'
  BY <1>2 DEF LinkInv, EspInv, espVars
<1>7. PICK o : o = Out
  OBVIOUS
<1>8. PICK t : t = toStm'
  OBVIOUS
<1>9. PICK k : Drops(o, k, t)
  BY <1>7, <1>8
<1>10. Out' = t
  BY <1>3, <1>8 DEF Out
<1>11. Legal(o, FromEsp, FromTheEsp) /\ Answers(o, stm, esp)
  BY <1>7 DEF LinkInv, StmInv
<1>12. Legal(t, FromEsp, FromTheEsp)
  BY <1>9, <1>11, LegalDrops
<1>13. Answers(t, "boot", esp)
  <2>1. Answers(t, stm, esp)
    BY <1>9, <1>11, AnswersDrop
  <2>2. QED
    BY <2>1 DEF Answers
<1>14. StmInv'
  BY <1>3, <1>10, <1>12, <1>13 DEF StmInv
<1>15. StreamInv'
  <2>1. <<>> \o <<>> = <<>>
    BY EmptySeq, ConcatEmptySeq
  <2>2. Legal(<<>>, FromEsp, Heard) /\ Aligned(<<>>, FromEsp) /\ Len(<<>>) = 0
    BY EmptySeq DEF Legal, Aligned
  <2>3. stream' = <<>> /\ hdr' = <<>> /\ left' = 0
    BY DEF StmReset
  <2>4. QED
    BY <2>1, <2>2, <2>3 DEF StreamInv
<1>16. StepInv'
  BY <1>3 DEF StepInv
<1>17. QED
  BY <1>1, <1>5, <1>6, <1>14, <1>15, <1>16 DEF LinkInv

\* What the display has on its way stays, or the first of it goes.
LEMMA OutWays ==
  ASSUME ByteTypes
  PROVE  /\ \E k : Drops(Out, k, toStm)
         /\ stm # "run" /\ toStm # <<>> => \E k : Drops(Out, k, Tail(toStm))
<1>1. toStm \in Seq(Bytes) /\ dma \in Seq(Bytes)
  BY DEF ByteTypes
<1>2. Drops(toStm, 0, toStm)
  BY <1>1 DEF Drops
<1>3. Drops(dma \o toStm, Len(dma), toStm)
  BY <1>1, DropsBuffer
<1>4. toStm # <<>> => Drops(toStm, 1, Tail(toStm))
  BY <1>1, DropsTail
<1>5. QED
  BY <1>2, <1>3, <1>4 DEF Out

LEMMA InDrops ==
  ASSUME ByteTypes
  PROVE  Drops(In, Len(rx), toEsp)
  BY DropsBuffer DEF ByteTypes, In

-----------------------------------------------------------------------------
(* Every step keeps it                                                     *)

LEMMA EmptyWhole == Legal(<<>>, FromEsp, Heard) /\ Aligned(<<>>, FromEsp) /\ <<>> \o <<>> = <<>>
<1>1. <<>> \o <<>> = <<>>
  BY EmptySeq, ConcatEmptySeq
<1>2. QED
  BY <1>1, EmptySeq DEF Legal, Aligned

LEMMA InitKeeps == Init => IInv
<1> SUFFICES ASSUME Init PROVE IInv
  OBVIOUS
<1>1. ByteTypes
  BY EmptySeq DEF Init, ByteTypes
<1>2. In = <<>> /\ Out = <<>> /\ Len(<<>>) = 0
  BY EmptyWhole, EmptySeq DEF Init, In, Out
<1>3. Talk(<<>>, "boot", "off") /\ Answers(<<>>, "boot", "off")
  BY <1>2 DEF Talk, Answers, Has, Before
<1>4. EspInv
  BY <1>2 DEF Init, EspInv, Legal, Unfinished
<1>5. StmInv
  BY <1>2, <1>3 DEF Init, StmInv, Legal
<1>6. StreamInv
  BY <1>2, EmptyWhole DEF Init, StreamInv
<1>7. StepInv
  BY DEF Init, StepInv
<1>8. QED
  BY <1>1, <1>2, <1>3, <1>4, <1>5, <1>6, <1>7 DEF Init, IInv, LinkInv

LEMMA UnheardByEspKeeps == LinkInv /\ UnheardByEsp => LinkInv'
<1> SUFFICES ASSUME LinkInv, UnheardByEsp PROVE LinkInv'
  OBVIOUS
<1>1. /\ esp \in {"off", "dead"} /\ rx = <<>> /\ toEsp # <<>> /\ toEsp' = Tail(toEsp)
      /\ toEsp \in Seq(Bytes)
  BY DEF UnheardByEsp, LinkInv, EspInv, ByteTypes
<1>2. Drops(toEsp, 1, Tail(toEsp)) /\ Tail(toEsp) \in Seq(Bytes)
  BY <1>1, DropsTail
<1>3. In = toEsp /\ In' = Tail(toEsp)
  BY <1>1, <1>2, ConcatEmptySeq DEF In, UnheardByEsp, espVars
<1>4. PICK t : t = Tail(toEsp)
  OBVIOUS
<1>5. Talk(t, stm, esp) /\ Legal(t, FromStm, FromDisplay)
  <2>1. Drops(toEsp, 1, t) /\ Talk(toEsp, stm, esp) /\ Legal(toEsp, FromStm, FromDisplay)
    BY <1>2, <1>3, <1>4 DEF LinkInv, EspInv
  <2>2. QED
    BY <1>1, <2>1, TalkDrops, LegalDrops
<1>6. Talk(In, stm, esp)'
  BY <1>3, <1>4, <1>5 DEF UnheardByEsp, stmVars, espVars
<1>7. EspInv'
  BY <1>1, <1>3, <1>4, <1>5 DEF LinkInv, EspInv, UnheardByEsp, espVars
<1>8. ByteTypes'
  BY <1>1, <1>2 DEF LinkInv, ByteTypes, UnheardByEsp, stmVars, espVars
<1>9. StmInv' /\ StreamInv' /\ StepInv'
  BY DEF LinkInv, StmInv, StreamInv, StepInv, UnheardByEsp, stmVars, espVars, Out
<1>10. QED
  BY <1>6, <1>7, <1>8, <1>9 DEF LinkInv

LEMMA UnheardByStmKeeps == LinkInv /\ UnheardByStm => LinkInv'
<1> SUFFICES ASSUME LinkInv, UnheardByStm PROVE LinkInv'
  OBVIOUS
<1>1. /\ stm \in {"boot", "crashed", "halted"} /\ toStm # <<>> /\ toStm' = Tail(toStm)
      /\ toStm \in Seq(Bytes)
  BY DEF UnheardByStm, LinkInv, StepInv, ByteTypes
<1>2. Drops(toStm, 1, Tail(toStm)) /\ Tail(toStm) \in Seq(Bytes)
  BY <1>1, DropsTail
<1>3. Out = toStm /\ Out' = Tail(toStm)
  BY <1>1 DEF Out, UnheardByStm, stmVars
<1>4. PICK t : t = Tail(toStm)
  OBVIOUS
<1>5. Answers(t, stm, esp) /\ Legal(t, FromEsp, FromTheEsp)
  <2>1. Drops(toStm, 1, t) /\ Answers(toStm, stm, esp) /\ Legal(toStm, FromEsp, FromTheEsp)
    BY <1>2, <1>3, <1>4 DEF LinkInv, StmInv
  <2>2. QED
    BY <2>1, AnswersDrop, LegalDrops
<1>6. StmInv'
  BY <1>1, <1>3, <1>4, <1>5 DEF StmInv, UnheardByStm, stmVars, espVars
<1>7. ByteTypes'
  BY <1>1, <1>2 DEF LinkInv, ByteTypes, UnheardByStm, stmVars, espVars
<1>8. In' = In
  BY DEF In, UnheardByStm, espVars
<1>9. Talk(In, stm, esp)' /\ EspInv'
  BY <1>8 DEF LinkInv, EspInv, UnheardByStm, stmVars, espVars
<1>10. StreamInv' /\ StepInv'
  BY <1>1 DEF LinkInv, StreamInv, StepInv, UnheardByStm, stmVars, espVars
<1>11. QED
  BY <1>6, <1>7, <1>9, <1>10 DEF LinkInv

LEMMA CommandPackets ==
  /\ {"init", "ok", "ping"} \subseteq Commands \ {"sleep"} /\ {"init", "ok", "ping"} \subseteq FromDisplay
  /\ {"resp", "crash", "pong", "reset"} \subseteq Commands \ {"sleep"}
  /\ {"resp", "crash", "pong", "reset"} \subseteq FromTheEsp
  /\ "sleep" \in FromDisplay /\ "sleep" \in FromTheEsp
  /\ FromStm \in {FromStm, FromEsp} /\ FromEsp \in {FromStm, FromEsp}
  BY DEF Commands, FromDisplay, FromTheEsp, Heard

LEMMA AskKeeps == LinkInv /\ lost = 0 /\ lost' = 0 /\ Ask => LinkInv'
<1> SUFFICES ASSUME LinkInv, lost = 0, lost' = 0, Ask PROVE LinkInv'
  OBVIOUS
<1>1. PICK p : p = Plain(FromStm, "init")
  OBVIOUS
<1>2. Packet(p, FromStm, FromDisplay)
  BY <1>1, CommandPackets, PlainPacket
<1>3. toEsp' = toEsp \o p
  BY <1>1, SentWhole DEF Ask
<1>4. In' = In \o p /\ toEsp' \in Seq(Bytes) /\ EspInv'
  BY <1>2, <1>3, InGrows DEF LinkInv, Ask
<1>5. stm # "run" /\ stm' = "listen" /\ esp' = esp /\ toStm' = toStm
  BY DEF Ask, NoAnswer, espVars
<1>6. Talk(In \o p, "listen", esp)
  BY <1>1, <1>5, TalkAsks, Buffers DEF LinkInv
<1>7. Talk(In, stm, esp)'
  BY <1>4, <1>5, <1>6
<1>8. ByteTypes'
  <2>1. dma' \in Seq(Bytes)
    BY EmptySeq DEF Ask, LinkInv, ByteTypes
  <2>2. QED
    BY <1>4, <2>1 DEF Ask, LinkInv, ByteTypes, espVars
<1>9. Out' = Out
  BY <1>5 DEF Out
<1>10. StmInv'
  <2>1. Answers(Out, "listen", esp)
    BY DEF LinkInv, StmInv, Answers
  <2>2. QED
    BY <1>5, <1>9, <2>1 DEF LinkInv, StmInv
<1>11. StreamInv' /\ StepInv'
  BY <1>5 DEF LinkInv, StreamInv, StepInv, Ask
<1>12. QED
  BY <1>4, <1>7, <1>8, <1>10, <1>11 DEF LinkInv

LEMMA GiveUpKeeps == LinkInv /\ GiveUp => LinkInv'
<1> SUFFICES ASSUME LinkInv, GiveUp PROVE LinkInv'
  OBVIOUS
<1>1. stm # "run" /\ StmReset /\ UNCHANGED <<toEsp, espVars>> /\ toStm' = toStm
  BY DEF GiveUp, NoAnswer
<1>2. \E k : Drops(Out, k, toStm')
  BY <1>1, OutWays DEF LinkInv
<1>3. QED
  BY <1>1, <1>2, Restarts

LEMMA ConfirmKeeps == LinkInv /\ lost = 0 /\ lost' = 0 /\ Confirm => LinkInv'
<1> SUFFICES ASSUME LinkInv, lost = 0, lost' = 0, Confirm PROVE LinkInv'
  OBVIOUS
<1>1. PICK p : p = Plain(FromStm, "ok")
  OBVIOUS
<1>2. Packet(p, FromStm, FromDisplay)
  BY <1>1, CommandPackets, PlainPacket
<1>3. toEsp' = toEsp \o p
  BY <1>1, SentWhole DEF Confirm
<1>4. In' = In \o p /\ toEsp' \in Seq(Bytes) /\ EspInv'
  BY <1>2, <1>3, InGrows DEF LinkInv, Confirm
<1>5. /\ stm = "told" /\ stm' = "run" /\ esp = "answered" /\ esp' = esp
      /\ dma' = <<>> /\ toStm = <<>> /\ toStm' = <<>>
  BY DEF Confirm, LinkInv, StepInv, espVars
<1>6. Talk(In \o p, "run", "answered")
  BY <1>1, <1>5, TalkConfirms, Buffers DEF LinkInv
<1>7. Talk(In, stm, esp)'
  BY <1>4, <1>5, <1>6
<1>8. ByteTypes'
  BY <1>4, <1>5, EmptySeq DEF Confirm, LinkInv, ByteTypes, espVars
<1>9. Out' = <<>> /\ Len(<<>>) = 0
  BY <1>5, EmptyWhole, EmptySeq DEF Out
<1>10. StmInv'
  <2>1. Answers(<<>>, "run", "answered") /\ Legal(<<>>, FromEsp, FromTheEsp)
    BY <1>9 DEF Answers, Has, Legal
  <2>2. Unfinished(<<>>, FromEsp)
    BY <1>9 DEF Unfinished
  <2>3. QED
    BY <1>5, <1>9, <2>1, <2>2 DEF StmInv
<1>11. StreamInv' /\ StepInv'
  BY <1>5, EmptyWhole, EmptySeq DEF LinkInv, StreamInv, StepInv, Confirm
<1>12. QED
  BY <1>4, <1>7, <1>8, <1>10, <1>11 DEF LinkInv

LEMMA ShowCrashKeeps == LinkInv /\ ShowCrash => LinkInv'
<1> SUFFICES ASSUME LinkInv, ShowCrash PROVE LinkInv'
  OBVIOUS
<1>1. stm # "run" /\ stm' = "halted" /\ esp' = esp
  BY DEF ShowCrash, espVars
<1>2. In' = In /\ Out' = Out
  BY <1>1 DEF ShowCrash, In, Out, espVars
<1>3. Talk(In, "halted", esp) /\ Answers(Out, "halted", esp)
  <2>1. Talk(In, "halted", esp)
    BY <1>1, TalkApart DEF LinkInv
  <2>2. Answers(Out, "halted", esp)
    BY DEF LinkInv, StmInv, Answers
  <2>3. QED
    BY <2>1, <2>2
<1>4. Talk(In, stm, esp)'
  BY <1>1, <1>2, <1>3
<1>5. EspInv' /\ StmInv'
  BY <1>1, <1>2, <1>3 DEF LinkInv, EspInv, StmInv, ShowCrash, espVars
<1>6. ByteTypes' /\ StreamInv' /\ StepInv'
  BY <1>1 DEF LinkInv, ByteTypes, StreamInv, StepInv, ShowCrash, espVars
<1>7. QED
  BY <1>4, <1>5, <1>6 DEF LinkInv

LEMMA AnswerKeeps == LinkInv /\ Answer => LinkInv'
<1> SUFFICES ASSUME LinkInv, Answer PROVE LinkInv'
  OBVIOUS
<1>1. /\ stm = "listen" /\ toStm # <<>> /\ toStm' = Tail(toStm)
      /\ toStm \in Seq(Bytes) /\ dma \in Seq(Bytes) /\ UNCHANGED <<toEsp, espVars>>
  BY DEF Answer, LinkInv, ByteTypes
<1>2. PICK buf : buf = Append(dma, Head(toStm))
  OBVIOUS
<1>3. /\ Drops(toStm, 1, Tail(toStm)) /\ Tail(toStm) \in Seq(Bytes)
      /\ Head(toStm) = toStm[1] /\ Head(toStm) \in Bytes
  BY <1>1, DropsTail
<1>4. buf \in Seq(Bytes) /\ Len(buf) = Len(dma) + 1 /\ buf[Len(dma) + 1] = toStm[1]
  BY <1>1, <1>2, <1>3, AppendProperties
<1>5. PICK t : t = Tail(toStm)
  OBVIOUS
<1>6. Out = toStm
  BY <1>1 DEF Out
<1>7. Answers(t, stm, esp) /\ Legal(t, FromEsp, FromTheEsp)
  <2>1. Drops(toStm, 1, t) /\ Answers(toStm, stm, esp) /\ Legal(toStm, FromEsp, FromTheEsp)
    BY <1>3, <1>5, <1>6 DEF LinkInv, StmInv
  <2>2. QED
    BY <2>1, AnswersDrop, LegalDrops
<1>8. In' = In /\ esp' = esp
  BY <1>1 DEF In, espVars
<1>9. EspInv'
  BY <1>8, <1>1 DEF LinkInv, EspInv, espVars
<1>10. Talk(In, "listen", esp)
  BY <1>1 DEF LinkInv
<1>11. CASE dma' = buf /\ UNCHANGED <<stm, inits, pinged, stream, hdr, left>>
  <2>1. ByteTypes'
    BY <1>1, <1>3, <1>4, <1>11 DEF LinkInv, ByteTypes, espVars
  <2>2. Talk(In, stm, esp)'
    BY <1>1, <1>8, <1>10, <1>11
  <2>3. Out' = t
    BY <1>1, <1>5, <1>11 DEF Out
  <2>4. StmInv'
    BY <1>1, <1>7, <1>8, <1>11, <2>3 DEF StmInv
  <2>5. StreamInv' /\ StepInv'
    BY <1>1, <1>11 DEF LinkInv, StreamInv, StepInv
  <2>6. QED
    BY <1>9, <2>1, <2>2, <2>4, <2>5 DEF LinkInv
<1>12. CASE /\ buf \in {Plain(FromEsp, "resp"), Plain(FromEsp, "crash")}
            /\ stm' = IF buf[3] = "resp" THEN "told" ELSE "crashed"
            /\ dma' = buf /\ UNCHANGED <<inits, pinged, stream, hdr, left>>
  <2>1. ByteTypes'
    BY <1>1, <1>3, <1>4, <1>12 DEF LinkInv, ByteTypes, espVars
  <2>2. stm' \in {"told", "crashed"} /\ stm' # "run"
    BY <1>12
  <2>3. Talk(In, stm', esp)
    BY <1>1, <1>10, <2>2, TalkApart
  <2>4. Talk(In, stm, esp)'
    BY <1>8, <2>3
  <2>5. Out' = t
    BY <1>1, <1>5, <2>2 DEF Out
  <2>6. stm' = "told" => esp = "answered" /\ t = <<>>
    <3>1. SUFFICES ASSUME stm' = "told" PROVE esp = "answered" /\ t = <<>>
      OBVIOUS
    <3>2. buf[3] = "resp" /\ Len(buf) = 3
      BY <1>12, <3>1 DEF Plain
    <3>3. Len(dma) \in Nat /\ Len(toStm) \in Nat /\ Len(toStm) > 0
      BY <1>1, EmptySeq, LenProperties
    <3>4. toStm[1] = "resp"
      BY <1>4, <3>2, <3>3
    <3>5. Has(toStm, {"resp"})
      BY <3>3, <3>4 DEF Has
    <3>6. esp = "answered" /\ 1 = Len(toStm)
      <4>1. Answers(toStm, stm, esp)
        BY <1>6 DEF LinkInv, StmInv
      <4>2. esp = "answered" /\ \A i \in 1..Len(toStm) : toStm[i] = "resp" => i = Len(toStm)
        BY <3>5, <4>1 DEF Answers
      <4>3. QED
        BY <3>3, <3>4, <4>2
    <3>7. Len(t) = 0 /\ t \in Seq(Bytes)
      BY <1>3, <1>5, <3>6 DEF Drops
    <3>8. t = <<>>
      BY <3>7, EmptySeq
    <3>9. QED
      BY <3>6, <3>8
  <2>7. Answers(t, stm', esp)
    <3>1. ASSUME stm' = "told" PROVE ~Has(t, {"resp"})
      BY <2>6, <3>1, EmptySeq DEF Has
    <3>2. QED
      BY <1>7, <2>2, <3>1 DEF Answers
  <2>8. StmInv'
    BY <1>7, <1>8, <2>2, <2>5, <2>7 DEF StmInv
  <2>9. StreamInv' /\ StepInv'
    BY <1>1, <1>5, <1>8, <1>12, <2>2, <2>6 DEF LinkInv, StreamInv, StepInv
  <2>10. QED
    BY <1>9, <2>1, <2>4, <2>8, <2>9 DEF LinkInv
<1>13. CASE StmReset
  <2>1. \E k : Drops(Out, k, toStm')
    BY <1>1, OutWays DEF LinkInv
  <2>2. QED
    BY <1>1, <1>13, <2>1, Restarts
<1>14. QED
  BY <1>2, <1>11, <1>12, <1>13 DEF Answer

\* What has been gathered of a packet of legal bytes s goes on, or is all of it.
Gathers(buf, s, from, C) ==
  /\ ~Whole(buf) => Unfinished(buf, from)
  /\ Whole(buf) => /\ buf[3] = s[3] /\ Len(buf) = Length(s)
                   /\ Aligned(s, from) /\ buf[3] \in C
                   /\ \A D : buf[3] \in D => Packet(buf, from, D)

LEMMA Gathered ==
  ASSUME NEW from \in {FromStm, FromEsp}, NEW C \in SUBSET Commands,
         NEW r \in Seq(Bytes), NEW q \in Seq(Bytes), q # <<>>,
         Legal(r \o q, from, C), Unfinished(r, from),
         NEW buf, buf = Append(r, Head(q)), Len(buf) >= 3, buf[1] = from
  PROVE  Gathers(buf, r \o q, from, C)
<1>1. PICK s : s = r \o q
  OBVIOUS
<1>2. buf \in Seq(Bytes) /\ Len(buf) = Len(r) + 1 /\ buf \o Tail(q) = s /\ Tail(q) \in Seq(Bytes)
  BY <1>1, ByteIn, DropsTail
<1>3. s \in Seq(Bytes) /\ Len(s) = Len(buf) + Len(Tail(q))
      /\ \A i \in 1..Len(buf) : i \in 1..Len(s) /\ s[i] = buf[i]
  <2>1. s \in Seq(Bytes) /\ Len(s) = Len(buf) + Len(Tail(q)) /\ Len(buf) \in Nat /\ Len(Tail(q)) \in Nat
    BY <1>2, ConcatProperties, LenProperties
  <2>2. \A i \in 1..Len(s) : s[i] = IF i <= Len(buf) THEN buf[i] ELSE Tail(q)[i - Len(buf)]
    BY <1>2, <2>1, ConcatProperties
  <2>3. QED
    BY <2>1, <2>2
<1>4. Len(buf) \in {3, 4} /\ Len(s) \in Nat
  <2>1. Len(r) \in Nat /\ Len(r) <= 3
    BY LenProperties DEF Unfinished
  <2>2. Len(s) \in Nat
    BY <1>3, LenProperties
  <2>3. QED
    BY <1>2, <2>1, <2>2
<1>5. s[1] = from /\ s[2] = buf[2] /\ s[3] = buf[3] /\ Len(s) >= 3
  BY <1>3, <1>4
<1>6. PacketAt(s, 1, from, C)
  BY <1>1, <1>4, <1>5 DEF Legal
<1>7. Len(buf) = 4 => buf[3] = "sleep"
  <2>1. SUFFICES ASSUME Len(buf) = 4 PROVE buf[3] = "sleep"
    OBVIOUS
  <2>2. Len(r) = 3
    <3>1. PICK n \in Nat : n = Len(r)
      BY LenProperties
    <3>2. 4 = n + 1
      BY <1>2, <2>1, <3>1
    <3>3. n = 3
      BY <3>2
    <3>4. QED
      BY <3>1, <3>3
  <2>3. Head(q) \in Bytes
    BY DropsTail
  <2>4. buf[3] = r[3]
    BY <2>2, <2>3, AppendProperties
  <2>5. QED
    BY <2>2, <2>4 DEF Unfinished
<1>8. Whole(buf) <=> Len(buf) = (IF buf[3] = "sleep" THEN 4 ELSE 3)
  <2>1. buf[2] = IF buf[3] = "sleep" THEN "1" ELSE "0"
    BY <1>5, <1>6 DEF PacketAt
  <2>2. Count(buf[2]) = IF buf[3] = "sleep" THEN 1 ELSE 0
    BY <2>1 DEF Count
  <2>3. QED
    BY <1>4, <2>2 DEF Whole
<1>9. ~Whole(buf) => Unfinished(buf, from)
  BY <1>4, <1>7, <1>8 DEF Unfinished
<1>10. ASSUME Whole(buf)
       PROVE  /\ buf[3] = s[3] /\ Len(buf) = Length(s) /\ Aligned(s, from) /\ buf[3] \in C
              /\ \A D : buf[3] \in D => Packet(buf, from, D)
  <2>1. buf[3] = s[3] /\ Len(buf) = Length(s) /\ Aligned(s, from) /\ buf[3] \in C
    BY <1>5, <1>6, <1>8, <1>10 DEF Length, Aligned, PacketAt
  <2>2. ASSUME NEW D, buf[3] \in D PROVE Packet(buf, from, D)
    <3>1. /\ from # "1" /\ from # "0" /\ from \notin Commands
      BY DEF Commands, FromDisplay, FromTheEsp, Heard, FromStm, FromEsp
    <3>2. /\ buf[1] = from /\ buf[2] \in {"0", "1"} /\ buf[3] \in Commands
          /\ buf[2] = IF buf[3] = "sleep" THEN "1" ELSE "0"
      BY <1>5, <1>6 DEF PacketAt
    <3>3. Len(buf) = 4 => buf[4] \in {"0", "1"}
      BY <1>3, <1>5, <1>6, <1>7 DEF PacketAt
    <3>4. \A i \in 1..Len(buf) : buf[i] = from => i = 1
      BY <1>4, <3>1, <3>2, <3>3
    <3>5. PacketAt(buf, 1, from, D)
      BY <1>4, <1>7, <1>8, <1>10, <2>2, <3>2, <3>3 DEF PacketAt
    <3>6. Legal(buf, from, D)
      BY <3>4, <3>5 DEF Legal
    <3>7. QED
      BY <1>2, <1>4, <3>2, <3>6 DEF Packet, Aligned
  <2>3. QED
    BY <2>1, <2>2
<1>11. QED
  BY <1>1, <1>9, <1>10 DEF Gathers

LEMMA DropsConcat ==
  ASSUME NEW b, NEW k, NEW c, Drops(b, k, c), NEW r \in Seq(Bytes)
  PROVE  Drops(b \o r, k, c \o r)
<1>1. b \in Seq(Bytes) /\ c \in Seq(Bytes) /\ k \in Nat /\ Len(b) \in Nat /\ Len(c) \in Nat
      /\ Len(r) \in Nat /\ Len(b) = Len(c) + k
  BY LenProperties DEF Drops
<1>2. PICK s : s = b \o r
  OBVIOUS
<1>3. PICK t : t = c \o r
  OBVIOUS
<1>4. s \in Seq(Bytes) /\ t \in Seq(Bytes) /\ Len(s) = Len(b) + Len(r) /\ Len(t) = Len(c) + Len(r)
  BY <1>1, <1>2, <1>3, ConcatProperties
<1>5. ASSUME NEW i \in 1..Len(t) PROVE t[i] = s[k + i]
  <2>1. t[i] = IF i <= Len(c) THEN c[i] ELSE r[i - Len(c)]
    BY <1>1, <1>3, <1>4, ConcatProperties
  <2>2. PICK j : j = k + i
    OBVIOUS
  <2>3. j \in 1..Len(s)
    BY <1>1, <1>4, <2>2
  <2>4. s[j] = IF j <= Len(b) THEN b[j] ELSE r[j - Len(b)]
    BY <1>1, <1>2, <1>4, <2>3, ConcatProperties
  <2>5. CASE i <= Len(c)
    <3>1. j <= Len(b) /\ i \in 1..Len(c)
      BY <1>1, <2>2, <2>5
    <3>2. c[i] = b[j]
      BY <2>2, <3>1 DEF Drops
    <3>3. QED
      BY <2>1, <2>2, <2>4, <2>5, <3>1, <3>2
  <2>6. CASE ~(i <= Len(c))
    <3>1. ~(j <= Len(b)) /\ i - Len(c) = j - Len(b)
      BY <1>1, <2>2, <2>6
    <3>2. QED
      BY <2>1, <2>2, <2>4, <2>6, <3>1
  <2>7. QED
    BY <2>5, <2>6
<1>6. Drops(s, k, t)
  BY <1>1, <1>4, <1>5 DEF Drops
<1>7. QED
  BY <1>2, <1>3, <1>6

\* A packet the servicer is to hear goes into its queue.
LEMMA StreamGrows ==
  ASSUME ByteTypes, StreamInv, stm = "run", NEW buf, Packet(buf, FromEsp, Heard),
         stream' = stream \o buf, UNCHANGED <<stm, hdr, left>>
  PROVE  stream' \in Seq(Bytes) /\ StreamInv'
<1>1. /\ buf \in Seq(Bytes) /\ stream \in Seq(Bytes) /\ hdr \in Seq(Bytes)
      /\ Len(buf) > 0 /\ buf[1] = FromEsp /\ Len(buf) \in Nat
  BY LenProperties DEF ByteTypes, Packet, Aligned
<1>2. PICK u : u = stream \o buf
  OBVIOUS
<1>3. u \in Seq(Bytes)
  BY <1>1, <1>2, ConcatProperties
<1>4. CASE left = 0
  <2>1. (hdr \o stream) \o buf = hdr \o u
    BY <1>1, <1>2, Assoc
  <2>2. hdr \o stream \in Seq(Bytes)
    BY <1>1, ConcatProperties
  <2>3. Legal(hdr \o stream, FromEsp, Heard) /\ Aligned(hdr \o stream, FromEsp) /\ Len(hdr) \in {0, 3}
    BY <1>4 DEF StreamInv
  <2>4. Legal((hdr \o stream) \o buf, FromEsp, Heard) /\ Aligned((hdr \o stream) \o buf, FromEsp)
    BY <2>2, <2>3, LegalConcat
  <2>5. Legal(hdr \o u, FromEsp, Heard) /\ Aligned(hdr \o u, FromEsp)
    BY <2>1, <2>4
  <2>6. QED
    BY <1>2, <1>3, <1>4, <2>3, <2>5 DEF StreamInv
<1>5. CASE left # 0
  <2>1. left = 1 /\ hdr = <<>> /\ Legal(stream, FromEsp, Heard) /\ Payload(stream)
    BY <1>5 DEF StreamInv
  <2>2. Legal(u, FromEsp, Heard)
    BY <1>1, <1>2, <2>1, LegalConcat
  <2>3. Len(stream) \in Nat /\ Len(stream) > 0 /\ Len(u) = Len(stream) + Len(buf)
    BY <1>1, <1>2, <2>1, EmptySeq, ConcatProperties DEF Payload
  <2>4. \A i \in 1..Len(u) : u[i] = IF i <= Len(stream) THEN stream[i] ELSE buf[i - Len(stream)]
    BY <1>1, <1>2, <2>3, ConcatProperties
  <2>5. u[1] = stream[1] /\ 1 < Len(u)
    BY <1>1, <2>3, <2>4
  <2>6. u[2] = FromEsp
    <3>1. CASE Len(stream) > 1
      BY <1>1, <2>1, <2>3, <2>4, <3>1 DEF Payload
    <3>2. CASE Len(stream) = 1
      BY <1>1, <2>3, <2>4, <3>2
    <3>3. Len(stream) > 1 \/ Len(stream) = 1
      <4>1. PICK n \in Nat : n = Len(stream)
        BY <2>3
      <4>2. n > 0
        BY <2>3, <4>1
      <4>3. n > 1 \/ n = 1
        BY <4>2
      <4>4. QED
        BY <4>1, <4>3
    <3>4. QED
      BY <3>1, <3>2, <3>3
  <2>7. u # <<>>
    BY <1>1, <2>3, EmptySeq
  <2>8. Payload(u)
    BY <2>1, <2>5, <2>6, <2>7 DEF Payload
  <2>9. QED
    BY <1>2, <1>3, <1>5, <2>1, <2>2, <2>8 DEF StreamInv
<1>6. QED
  BY <1>4, <1>5

LEMMA HuntDrops ==
  ASSUME NEW buf \in Seq(Bytes), Len(buf) = 3
  PROVE  /\ \E k : Drops(buf, k, Hunt(buf))
         /\ Hunt(buf) \in Seq(Bytes) /\ Unfinished(Hunt(buf), FromEsp)
<1>1. CASE buf[3] = FromEsp
  <2>1. PICK t : t = <<FromEsp>>
    OBVIOUS
  <2>2. t \in Seq(Bytes) /\ Len(t) = 1 /\ t[1] = FromEsp
    BY <2>1 DEF Bytes
  <2>3. Drops(buf, 2, t)
    BY <1>1, <2>2 DEF Drops
  <2>4. Hunt(buf) = t
    BY <1>1, <2>1 DEF Hunt
  <2>5. Unfinished(t, FromEsp)
    BY <2>2 DEF Unfinished
  <2>6. QED
    BY <2>2, <2>3, <2>4, <2>5
<1>2. CASE buf[3] # FromEsp /\ buf[2] = FromEsp
  <2>1. buf # <<>>
    BY EmptySeq
  <2>2. PICK t : t = Tail(buf)
    OBVIOUS
  <2>3. Drops(buf, 1, t) /\ t \in Seq(Bytes)
    BY <2>1, <2>2, DropsTail
  <2>4. Len(t) = 2
    BY <2>3 DEF Drops
  <2>5. Hunt(buf) = t
    BY <1>2, <2>2 DEF Hunt
  <2>6. Unfinished(t, FromEsp)
    BY <2>4 DEF Unfinished
  <2>7. QED
    BY <2>3, <2>5, <2>6
<1>3. CASE buf[3] # FromEsp /\ buf[2] # FromEsp
  <2>1. <<>> \in Seq(Bytes) /\ Len(<<>>) = 0
    BY EmptySeq
  <2>2. Drops(buf, 3, <<>>)
    BY <2>1 DEF Drops
  <2>3. Hunt(buf) = <<>>
    BY <1>3 DEF Hunt
  <2>4. Unfinished(<<>>, FromEsp)
    BY <2>1 DEF Unfinished
  <2>5. QED
    BY <2>1, <2>2, <2>3, <2>4
<1>4. QED
  BY <1>1, <1>2, <1>3

\* Of the display's buffers only the one behind the line changes.
LEMMA OutTaken ==
  ASSUME LinkInv, stm = "run", UNCHANGED <<toEsp, stm, espVars>>,
         dma' \in Seq(Bytes), toStm' \in Seq(Bytes), Unfinished(dma', FromEsp),
         NEW k, Drops(Out, k, dma' \o toStm'), esp # "answered",
         stream' \in Seq(Bytes), UNCHANGED <<hdr, left>>, StreamInv'
  PROVE  LinkInv'
<1>1. ByteTypes'
  BY DEF LinkInv, ByteTypes, espVars
<1>2. In' = In /\ esp' = esp /\ stm' = "run"
  BY DEF In, espVars
<1>3. Talk(In, stm, esp)' /\ EspInv'
  BY <1>2 DEF LinkInv, EspInv, espVars
<1>4. PICK t : t = dma' \o toStm'
  OBVIOUS
<1>5. PICK o : o = Out
  OBVIOUS
<1>6. Drops(o, k, t) /\ Legal(o, FromEsp, FromTheEsp) /\ Answers(o, stm, esp)
  BY <1>4, <1>5 DEF LinkInv, StmInv
<1>7. Legal(t, FromEsp, FromTheEsp) /\ Answers(t, stm, esp)
  BY <1>6, LegalDrops, AnswersDrop
<1>8. Out' = t
  BY <1>2, <1>4 DEF Out
<1>9. StmInv'
  BY <1>2, <1>7, <1>8 DEF StmInv
<1>10. StepInv'
  BY <1>2 DEF StepInv
<1>11. QED
  BY <1>1, <1>3, <1>9, <1>10 DEF LinkInv

LEMMA GatherKeeps == LinkInv /\ lost = 0 /\ lost' = 0 /\ Gather => LinkInv'
<1> SUFFICES ASSUME LinkInv, lost = 0, lost' = 0, Gather PROVE LinkInv'
  OBVIOUS
<1>1. /\ stm = "run" /\ toStm # <<>> /\ toStm' = Tail(toStm)
      /\ toStm \in Seq(Bytes) /\ dma \in Seq(Bytes) /\ stream \in Seq(Bytes)
      /\ UNCHANGED <<toEsp, stm, hdr, left, espVars>> /\ esp # "answered"
  BY DEF Gather, LinkInv, StepInv, ByteTypes
<1>2. PICK buf : buf = Append(dma, Head(toStm))
  OBVIOUS
<1>3. /\ Tail(toStm) \in Seq(Bytes) /\ buf \in Seq(Bytes) /\ Len(buf) = Len(dma) + 1
      /\ buf \o Tail(toStm) = dma \o toStm
  BY <1>1, <1>2, DropsTail, ByteIn
<1>4. PICK q : q = Tail(toStm)
  OBVIOUS
<1>5. Out = dma \o toStm /\ Out = buf \o q /\ q \in Seq(Bytes) /\ toStm' = q
  BY <1>1, <1>3, <1>4 DEF Out
<1>6. Legal(dma \o toStm, FromEsp, FromTheEsp) /\ Unfinished(dma, FromEsp)
  BY <1>1, <1>5 DEF LinkInv, StmInv
<1>7. ASSUME Len(buf) >= 3, buf[1] = FromEsp PROVE Gathers(buf, dma \o toStm, FromEsp, FromTheEsp)
  <2>1. FromTheEsp \in SUBSET Commands /\ FromEsp \in {FromStm, FromEsp}
    BY DEF Commands
  <2>2. dma \in Seq(Bytes) /\ toStm \in Seq(Bytes) /\ toStm # <<>>
    BY <1>1
  <2>3. QED
    BY <1>2, <1>6, <1>7, <2>1, <2>2, Gathered
<1>8. CASE /\ Len(buf) < 3 \/ (buf[1] = FromEsp /\ ~Whole(buf))
           /\ dma' = buf /\ UNCHANGED <<pinged, stream, lost>>
  <2>1. Unfinished(buf, FromEsp)
    <3>1. CASE Len(buf) < 3
      BY <1>3, <3>1, LenProperties DEF Unfinished
    <3>2. CASE ~(Len(buf) < 3)
      <4>1. Len(buf) >= 3 /\ buf[1] = FromEsp /\ ~Whole(buf)
        BY <1>3, <1>8, <3>2, LenProperties
      <4>2. QED
        BY <1>7, <4>1 DEF Gathers
    <3>3. QED
      BY <3>1, <3>2
  <2>2. Drops(Out, 0, buf \o q)
    <3>1. buf \o q \in Seq(Bytes)
      BY <1>3, <1>5, ConcatProperties
    <3>2. QED
      BY <1>5, <3>1 DEF Drops
  <2>3. StreamInv'
    BY <1>1, <1>8 DEF LinkInv, StreamInv
  <2>4. QED
    BY <1>1, <1>3, <1>5, <1>8, <2>1, <2>2, <2>3, OutTaken
<1>9. CASE /\ Len(buf) = 3 /\ buf[1] # FromEsp
           /\ dma' = Hunt(buf) /\ UNCHANGED <<pinged, stream, lost>>
  <2>1. PICK k : Drops(buf, k, Hunt(buf))
    BY <1>3, <1>9, HuntDrops
  <2>2. Hunt(buf) \in Seq(Bytes) /\ Unfinished(Hunt(buf), FromEsp)
    BY <1>3, <1>9, HuntDrops
  <2>3. Drops(Out, k, Hunt(buf) \o q)
    BY <1>5, <2>1, DropsConcat
  <2>4. StreamInv'
    BY <1>1, <1>9 DEF LinkInv, StreamInv
  <2>5. QED
    BY <1>1, <1>5, <1>9, <2>2, <2>3, <2>4, OutTaken
<1>10. CASE Len(buf) >= 3 /\ buf[1] = FromEsp /\ Whole(buf) /\ Process(buf)
  <2>1. /\ buf[3] = (dma \o toStm)[3] /\ Len(buf) = Length(dma \o toStm)
        /\ Aligned(dma \o toStm, FromEsp) /\ buf[3] \in FromTheEsp
        /\ \A D : buf[3] \in D => Packet(buf, FromEsp, D)
    BY <1>7, <1>10 DEF Gathers
  <2>2. buf[3] \in Heard
    <3>1. esp # "dead"
      BY <1>1 DEF LinkInv, Talk
    <3>2. ~Has(Out, {"resp"}) /\ ~Has(Out, {"crash"})
      BY <1>1, <3>1 DEF LinkInv, StmInv, Answers
    <3>3. Has(buf, {buf[3]})
      BY <1>3, <1>10, LenProperties DEF Has
    <3>4. Has(Out, {buf[3]})
      BY <1>3, <1>5, <3>3, HasConcat
    <3>5. buf[3] # "resp" /\ buf[3] # "crash"
      BY <3>2, <3>4
    <3>6. QED
      BY <2>1, <3>5 DEF FromTheEsp
  <2>3. Packet(buf, FromEsp, Heard)
    BY <2>1, <2>2
  <2>4. stream' = stream \o buf /\ dma' = <<>>
    <3>1. PICK u : u = stream \o buf
      OBVIOUS
    <3>2. u \in Seq(Bytes) /\ Len(u) \in Nat
      BY <1>1, <1>3, <3>1, ConcatProperties, LenProperties
    <3>3. ~(Len(u) > StreamMax)
      <4>1. lost' = IF Len(u) > StreamMax THEN lost + 1 ELSE lost
        BY <1>10, <3>1 DEF Process
      <4>2. QED
        BY <4>1
    <3>4. Lesser(StreamMax, Len(u)) = Len(u)
      <4>1. StreamMax \in Nat
        BY LinkAssumption DEF LinkAssumption
      <4>2. QED
        BY <3>2, <3>3, <4>1 DEF Lesser
    <3>5. stream' = SubSeq(u, 1, Lesser(StreamMax, Len(u))) /\ dma' = <<>>
      BY <1>10, <3>1 DEF Process
    <3>6. SubSeq(u, 1, Len(u)) = u
      BY <3>2, SubSeqFull
    <3>7. QED
      BY <3>1, <3>4, <3>5, <3>6
  <2>5. stream' \in Seq(Bytes) /\ StreamInv'
    BY <1>1, <2>3, <2>4, StreamGrows DEF LinkInv
  <2>6. <<>> \in Seq(Bytes) /\ <<>> \o q = q /\ Unfinished(<<>>, FromEsp)
    BY <1>5, EmptySeq, ConcatEmptySeq DEF Unfinished
  <2>7. Drops(Out, Len(buf), <<>> \o q)
    BY <1>3, <1>5, <2>6, DropsBuffer
  <2>8. QED
    BY <1>1, <1>5, <2>4, <2>5, <2>6, <2>7, OutTaken
<1>11. QED
  BY <1>2, <1>8, <1>9, <1>10 DEF Gather

\* The servicer's end of the queue changes, and nothing else.
LEMMA ServicerKeeps ==
  ASSUME LinkInv, stm = "run", esp # "answered", UNCHANGED <<toEsp, toStm, stm, dma, espVars>>,
         stream' \in Seq(Bytes), hdr' \in Seq(Bytes), left' \in Nat, StreamInv'
  PROVE  LinkInv'
<1>1. ByteTypes'
  BY DEF LinkInv, ByteTypes, espVars
<1>2. In' = In /\ Out' = Out /\ esp' = esp
  BY DEF In, Out, espVars
<1>3. Talk(In, stm, esp)' /\ EspInv' /\ StmInv'
  BY <1>2 DEF LinkInv, EspInv, StmInv, espVars
<1>4. StepInv'
  BY <1>2 DEF StepInv
<1>5. QED
  BY <1>1, <1>3, <1>4 DEF LinkInv

\* Some bytes are read, and the others are left.
LEMMA CutAt ==
  ASSUME NEW s \in Seq(Bytes), NEW n \in 1..Len(s)
  PROVE  /\ SubSeq(s, 1, n) \in Seq(Bytes) /\ Len(SubSeq(s, 1, n)) = n
         /\ SubSeq(s, n + 1, Len(s)) \in Seq(Bytes)
         /\ SubSeq(s, 1, n) \o SubSeq(s, n + 1, Len(s)) = s
         /\ Drops(s, n, SubSeq(s, n + 1, Len(s)))
<1>1. PICK m \in Nat : m = Len(s)
  BY LenProperties
<1>2. n \in 1..m /\ n \in Int /\ m \in Int /\ 1 <= n /\ 1 \in Int /\ n + 1 \in Int
  BY <1>1
<1>3. \A i \in 1..m : s[i] \in Bytes
  BY <1>1, ElementOfSeq
<1>4. PICK p : p = SubSeq(s, 1, n)
  OBVIOUS
<1>5. PICK t : t = SubSeq(s, n + 1, m)
  OBVIOUS
<1>6. p \in Seq(Bytes) /\ Len(p) = n
  <2>1. \A i \in 1..n : s[i] \in Bytes
    BY <1>2, <1>3
  <2>2. p \in Seq(Bytes) /\ Len(p) = IF 1 <= n THEN n - 1 + 1 ELSE 0
    BY <1>2, <1>4, <2>1, SubSeqProperties
  <2>3. QED
    BY <1>2, <2>2
<1>7. t \in Seq(Bytes) /\ Len(t) = m - n /\ \A i \in 1..Len(t) : t[i] = s[n + i]
  <2>1. \A i \in n + 1..m : s[i] \in Bytes
    BY <1>2, <1>3
  <2>2. /\ t \in Seq(Bytes) /\ Len(t) = IF n + 1 <= m THEN m - (n + 1) + 1 ELSE 0
        /\ \A i \in 1..m - (n + 1) + 1 : t[i] = s[(n + 1) + i - 1]
    BY <1>2, <1>5, <2>1, SubSeqProperties
  <2>3. Len(t) = m - n
    BY <1>2, <2>2
  <2>4. ASSUME NEW i \in 1..Len(t) PROVE t[i] = s[n + i]
    <3>1. i \in 1..m - (n + 1) + 1 /\ (n + 1) + i - 1 = n + i
      BY <1>2, <2>3, <2>4
    <3>2. QED
      BY <2>2, <3>1
  <2>5. QED
    BY <2>2, <2>3, <2>4
<1>8. p \o t = s
  <2>1. 1 \in 1..Len(s) + 1 /\ n \in 1 - 1..Len(s) /\ m \in n..Len(s)
    BY <1>1, <1>2
  <2>2. SubSeq(s, 1, n) \o SubSeq(s, n + 1, m) = SubSeq(s, 1, m)
    BY <2>1, ConcatAdjacentSubSeq
  <2>3. SubSeq(s, 1, m) = s
    BY <1>1, SubSeqFull
  <2>4. QED
    BY <1>4, <1>5, <2>2, <2>3
<1>9. Drops(s, n, t)
  <2>1. n \in 0..Len(s) /\ Len(t) = Len(s) - n
    BY <1>1, <1>2, <1>7
  <2>2. QED
    BY <1>7, <2>1 DEF Drops
<1>10. QED
  BY <1>1, <1>4, <1>5, <1>6, <1>7, <1>8, <1>9

LEMMA ReadKeeps == LinkInv /\ Read => LinkInv'
<1> SUFFICES ASSUME LinkInv, Read PROVE LinkInv'
  OBVIOUS
<1>1. /\ stm = "run" /\ stream # <<>> /\ Len(hdr) < 3
      /\ stream \in Seq(Bytes) /\ hdr \in Seq(Bytes) /\ left \in Nat
      /\ UNCHANGED <<toEsp, toStm, stm, dma, espVars>>
  BY DEF Read, LinkInv, ByteTypes
<1>2. esp # "answered"
  BY <1>1 DEF LinkInv, StepInv
<1>3. PICK n : n = Lesser(IF left > 0 THEN left ELSE 3 - Len(hdr), Len(stream))
  OBVIOUS
<1>4. /\ stream' = SubSeq(stream, n + 1, Len(stream))
      /\ IF left > 0 THEN left' = left - n /\ UNCHANGED hdr
                     ELSE hdr' = hdr \o SubSeq(stream, 1, n) /\ UNCHANGED left
  BY <1>3 DEF Read
<1>5. PICK m \in Nat : m = Len(stream) /\ m > 0
  BY <1>1, EmptySeq, LenProperties
<1>6. CASE left = 0
  <2>1. /\ Len(hdr) \in {0, 3}
        /\ Legal(hdr \o stream, FromEsp, Heard) /\ Aligned(hdr \o stream, FromEsp)
    BY <1>6 DEF LinkInv, StreamInv
  <2>2. hdr = <<>> /\ Len(hdr) = 0
    <3>1. Len(hdr) = 0
      <4>1. Len(hdr) = 0 \/ Len(hdr) = 3
        BY <2>1
      <4>2. Len(hdr) < 3
        BY <1>1
      <4>3. QED
        BY <4>1, <4>2
    <3>2. QED
      BY <1>1, <3>1, EmptySeq
  <2>3. Legal(stream, FromEsp, Heard) /\ Aligned(stream, FromEsp)
    BY <1>1, <2>1, <2>2, ConcatEmptySeq
  <2>4. Length(stream) <= Len(stream)
    <3>1. Heard \in SUBSET Commands /\ FromEsp \in {FromStm, FromEsp}
      BY DEF Commands, FromTheEsp
    <3>2. QED
      BY <1>1, <2>3, <3>1, FirstPacket
  <2>5. m >= 3
    BY <1>5, <2>4 DEF Length
  <2>6. n = 3
    BY <1>3, <1>5, <1>6, <2>2, <2>5 DEF Lesser
  <2>7. 3 \in 1..Len(stream)
    BY <1>5, <2>5
  <2>8. /\ SubSeq(stream, 1, 3) \in Seq(Bytes) /\ Len(SubSeq(stream, 1, 3)) = 3
        /\ SubSeq(stream, 4, Len(stream)) \in Seq(Bytes)
        /\ SubSeq(stream, 1, 3) \o SubSeq(stream, 4, Len(stream)) = stream
    BY <1>1, <2>7, CutAt
  <2>9. stream' = SubSeq(stream, 4, Len(stream)) /\ hdr' = SubSeq(stream, 1, 3) /\ left' = 0
    BY <1>4, <1>6, <2>2, <2>6, <2>8, ConcatEmptySeq
  <2>10. hdr' \o stream' = stream /\ Len(hdr') = 3
    BY <2>8, <2>9
  <2>11. StreamInv'
    BY <1>1, <2>3, <2>9, <2>10 DEF StreamInv
  <2>12. stream' \in Seq(Bytes) /\ hdr' \in Seq(Bytes) /\ left' \in Nat
    BY <2>8, <2>9
  <2>13. QED
    BY <1>1, <1>2, <2>11, <2>12, ServicerKeeps
<1>7. CASE left # 0
  <2>1. left = 1 /\ hdr = <<>> /\ Legal(stream, FromEsp, Heard) /\ Payload(stream)
    BY <1>7 DEF LinkInv, StreamInv
  <2>2. n = 1
    BY <1>3, <1>5, <2>1 DEF Lesser
  <2>3. PICK t : t = SubSeq(stream, 2, Len(stream))
    OBVIOUS
  <2>4. t \in Seq(Bytes) /\ Drops(stream, 1, t)
    <3>1. 1 \in 1..Len(stream)
      BY <1>5
    <3>2. QED
      BY <1>1, <2>3, <3>1, CutAt
  <2>5. Legal(t, FromEsp, Heard)
    BY <2>1, <2>4, LegalDrops
  <2>6. Aligned(t, FromEsp)
    <3>1. SUFFICES ASSUME Len(t) > 0 PROVE t[1] = FromEsp
      BY DEF Aligned
    <3>2. Len(t) = m - 1 /\ t[1] = stream[2]
      BY <1>5, <2>4, <3>1 DEF Drops
    <3>3. m > 1
      BY <3>1, <3>2
    <3>4. QED
      BY <1>5, <2>1, <3>2, <3>3 DEF Payload
  <2>7. stream' = t /\ hdr' = <<>> /\ left' = 0
    BY <1>4, <2>1, <2>2, <2>3
  <2>8. hdr' \o stream' = t
    BY <2>4, <2>7, ConcatEmptySeq
  <2>9. Len(hdr') = 0
    BY <2>7, EmptySeq
  <2>10. StreamInv'
    BY <1>1, <2>5, <2>6, <2>7, <2>8, <2>9 DEF StreamInv
  <2>11. stream' \in Seq(Bytes) /\ hdr' \in Seq(Bytes) /\ left' \in Nat
    BY <2>4, <2>7, EmptySeq
  <2>12. QED
    BY <1>1, <1>2, <2>10, <2>11, ServicerKeeps
<1>8. QED
  BY <1>6, <1>7

\* The header the servicer has is the first of what is in its queue.
LEMMA HeaderRead ==
  ASSUME LinkInv, Len(hdr) = 3
  PROVE  /\ stm = "run" /\ esp # "answered" /\ left = 0 /\ hdr \in Headers
         /\ hdr[1] = FromEsp /\ hdr[3] \in Heard
         /\ hdr[3] # "sleep" => hdr[2] = "0" /\ Legal(stream, FromEsp, Heard) /\ Aligned(stream, FromEsp)
         /\ hdr[3] = "sleep" => Legal(stream, FromEsp, Heard) /\ Payload(stream)
<1>1. hdr # <<>>
  BY EmptySeq
<1>2. stm = "run" /\ esp # "answered" /\ left = 0
  BY <1>1 DEF LinkInv, StreamInv, StepInv
<1>3. hdr \in Seq(Bytes) /\ stream \in Seq(Bytes)
  BY DEF LinkInv, ByteTypes
<1>4. PICK h : h = hdr
  OBVIOUS
<1>5. PICK q : q = stream
  OBVIOUS
<1>6. PICK s : s = h \o q
  OBVIOUS
<1>7. Legal(s, FromEsp, Heard) /\ Aligned(s, FromEsp)
  BY <1>2, <1>4, <1>5, <1>6 DEF LinkInv, StreamInv
<1>8. PICK m \in Nat : m = Len(q)
  BY <1>3, <1>5, LenProperties
<1>9. /\ s \in Seq(Bytes) /\ Len(s) = 3 + m
      /\ \A i \in 1..Len(s) : s[i] = IF i <= 3 THEN h[i] ELSE q[i - 3]
  <2>1. h \in Seq(Bytes) /\ q \in Seq(Bytes) /\ Len(h) = 3 /\ Len(q) = m
    BY <1>3, <1>4, <1>5, <1>8
  <2>2. s \in Seq(Bytes) /\ Len(s) = Len(h) + Len(q)
    BY <1>6, <2>1, ConcatProperties
  <2>3. \A i \in 1..Len(s) : s[i] = IF i <= Len(h) THEN h[i] ELSE q[i - Len(h)]
    BY <1>6, <2>1, <2>2, ConcatProperties
  <2>4. QED
    BY <2>1, <2>2, <2>3
<1>10. s # <<>>
  BY <1>9, EmptySeq
<1>11. Heard \in SUBSET Commands /\ FromEsp \in {FromStm, FromEsp}
  BY DEF Commands, FromTheEsp
<1>12. /\ s[1] = FromEsp /\ s[3] \in Heard /\ s[2] = (IF s[3] = "sleep" THEN "1" ELSE "0")
       /\ Length(s) <= Len(s)
       /\ \A t : Drops(s, Length(s), t) => Aligned(t, FromEsp)
  BY <1>7, <1>9, <1>10, <1>11, FirstPacket
<1>13. s[1] = h[1] /\ s[2] = h[2] /\ s[3] = h[3]
  BY <1>9
<1>14. h = <<h[1], h[2], h[3]>>
  <2>1. Len(h) = 3 /\ h \in Seq(Bytes)
    BY <1>3, <1>4
  <2>2. QED
    BY <2>1
<1>15. h \in Headers
  BY <1>12, <1>13, <1>14 DEF Headers, Heard
<1>16. Drops(s, 3, q)
  <2>1. Drops(h \o q, Len(h), q)
    BY <1>3, <1>4, <1>5, DropsBuffer
  <2>2. QED
    BY <1>4, <1>6, <2>1
<1>17. Legal(q, FromEsp, Heard)
  BY <1>7, <1>16, LegalDrops
<1>18. CASE h[3] # "sleep"
  <2>1. Length(s) = 3
    BY <1>13, <1>18 DEF Length
  <2>2. Aligned(q, FromEsp)
    BY <1>12, <1>16, <2>1
  <2>3. QED
    BY <1>2, <1>4, <1>5, <1>12, <1>13, <1>15, <1>17, <1>18, <2>2
<1>19. CASE h[3] = "sleep"
  <2>1. PacketAt(s, 1, FromEsp, Heard)
    BY <1>7, <1>9, <1>12 DEF Legal
  <2>2. 4 <= Len(s) /\ s[4] \in {"0", "1"} /\ (5 <= Len(s) => s[5] = FromEsp)
    BY <1>13, <1>19, <2>1 DEF PacketAt
  <2>3. m >= 1 /\ q[1] = s[4]
    BY <1>9, <2>2
  <2>4. m > 1 => q[2] = FromEsp
    BY <1>9, <2>2
  <2>5. q # <<>>
    BY <1>8, <2>3, EmptySeq
  <2>6. Payload(q)
    BY <1>8, <2>2, <2>3, <2>4, <2>5 DEF Payload
  <2>7. QED
    BY <1>2, <1>4, <1>5, <1>12, <1>13, <1>15, <1>17, <1>19, <2>6
<1>20. QED
  BY <1>18, <1>19

LEMMA DispatchKeeps == LinkInv /\ Dispatch => LinkInv'
<1> SUFFICES ASSUME LinkInv, Dispatch PROVE LinkInv'
  OBVIOUS
<1>1. Len(hdr) = 3 /\ UNCHANGED <<toEsp, toStm, espVars>>
  BY DEF Dispatch
<1>2. /\ stm = "run" /\ esp # "answered" /\ left = 0
      /\ hdr[1] = FromEsp /\ hdr[3] \in Heard
      /\ hdr[3] # "sleep" => hdr[2] = "0" /\ Legal(stream, FromEsp, Heard) /\ Aligned(stream, FromEsp)
      /\ hdr[3] = "sleep" => Legal(stream, FromEsp, Heard) /\ Payload(stream)
  BY <1>1, HeaderRead
<1>3. CASE hdr[3] = "reset"
  <2>1. StmReset
    BY <1>2, <1>3 DEF Dispatch
  <2>2. \E k : Drops(Out, k, toStm')
    BY <1>1, OutWays DEF LinkInv
  <2>3. QED
    BY <1>1, <1>2, <2>1, <2>2, Restarts
<1>4. CASE hdr[3] # "reset"
  <2>1. /\ hdr' = <<>> /\ left' = (IF hdr[3] = "sleep" THEN 1 ELSE Count(hdr[2]))
        /\ UNCHANGED <<stm, dma, stream>>
    BY <1>2, <1>4 DEF Dispatch
  <2>2. stream \in Seq(Bytes) /\ <<>> \in Seq(Bytes) /\ Len(<<>>) = 0 /\ <<>> \o stream = stream
    BY EmptySeq, ConcatEmptySeq DEF LinkInv, ByteTypes
  <2>3. CASE hdr[3] = "sleep"
    <3>1. left' = 1 /\ Legal(stream, FromEsp, Heard) /\ Payload(stream)
      BY <1>2, <2>1, <2>3
    <3>2. StreamInv'
      BY <1>2, <2>1, <3>1 DEF StreamInv
    <3>3. QED
      BY <1>1, <1>2, <2>1, <2>2, <3>1, <3>2, ServicerKeeps
  <2>4. CASE hdr[3] # "sleep"
    <3>1. Count(hdr[2]) = 0 /\ Legal(stream, FromEsp, Heard) /\ Aligned(stream, FromEsp)
      BY <1>2, <2>4 DEF Count
    <3>2. left' = 0
      BY <2>1, <2>4, <3>1
    <3>3. StreamInv'
      BY <1>2, <2>1, <2>2, <3>1, <3>2 DEF StreamInv
    <3>4. QED
      BY <1>1, <1>2, <2>1, <2>2, <3>2, <3>3, ServicerKeeps
  <2>5. QED
    BY <2>3, <2>4
<1>5. QED
  BY <1>3, <1>4

\* The display sends a packet, and nothing else changes that matters.
LEMMA DisplaySends ==
  ASSUME LinkInv, UNCHANGED <<toStm, stm, dma, stream, hdr, left, espVars>>,
         NEW p, Packet(p, FromStm, FromDisplay), toEsp' = toEsp \o p, Talk(In \o p, stm, esp)
  PROVE  LinkInv'
<1>1. In' = In \o p /\ toEsp' \in Seq(Bytes) /\ EspInv'
  BY InGrows DEF LinkInv
<1>2. ByteTypes'
  BY <1>1 DEF LinkInv, ByteTypes, espVars
<1>3. stm' = stm /\ esp' = esp /\ Out' = Out
  BY DEF Out, espVars
<1>4. Talk(In, stm, esp)'
  BY <1>1, <1>3
<1>5. StmInv' /\ StreamInv' /\ StepInv'
  BY <1>3 DEF LinkInv, StmInv, StreamInv, StepInv
<1>6. QED
  BY <1>1, <1>2, <1>4, <1>5 DEF LinkInv

\* An ESP that the display is connected to is not held up by a greeting.
LEMMA PingKeeps == LinkInv /\ lost = 0 /\ lost' = 0 /\ Ping => LinkInv'
<1> SUFFICES ASSUME LinkInv, lost = 0, lost' = 0, Ping PROVE LinkInv'
  OBVIOUS
<1>1. stm = "run" /\ UNCHANGED <<toStm, stm, dma, stream, hdr, left, espVars>>
  BY DEF Ping, Idle
<1>2. PICK p : p = Plain(FromStm, "ping")
  OBVIOUS
<1>3. toEsp' = toEsp \o p
  BY <1>2, SentWhole DEF Ping
<1>4. /\ Packet(p, FromStm, FromDisplay)
      /\ \A D \in SUBSET Commands : Has(p, D) <=> "ping" \in D
      /\ \A D, E \in SUBSET Commands : D \cap E = {} => Before(p, D, E)
  BY <1>2, CommandPackets, PlainPacket
<1>5. \A D \in SUBSET Commands : Has(p, D) => D \cap {"ping", "sleep"} # {}
  BY <1>4
<1>6. In \in Seq(Bytes) /\ p \in Seq(Bytes) /\ Talk(In, "run", esp)
  BY <1>1, <1>4, Buffers DEF LinkInv, Packet
<1>7. Talk(In \o p, "run", esp)
  BY <1>4, <1>5, <1>6, TalkGoesOn
<1>8. Talk(In \o p, stm, esp)
  BY <1>1, <1>7
<1>9. QED
  BY <1>1, <1>3, <1>4, <1>8, DisplaySends

\* A display whose HANDSHAKE_OK has not been taken has not been idle for long: the
\* bytes of it are on the line.
LEMMA PanicKeeps == LinkInv /\ Panic => LinkInv'
<1> SUFFICES ASSUME LinkInv, Panic PROVE LinkInv'
  OBVIOUS
<1>1. stm = "run" /\ Quiet /\ StmReset /\ UNCHANGED <<toEsp, espVars>> /\ toStm' = toStm
  BY DEF Panic, Idle
<1>2. esp # "answered"
  <2>1. SUFFICES ASSUME esp = "answered" PROVE FALSE
    OBVIOUS
  <2>2. toEsp = <<>> /\ rx \in Seq(Bytes)
    BY <1>1, <2>1 DEF Quiet, LinkInv, ByteTypes
  <2>3. In = rx
    BY <2>2, ConcatEmptySeq DEF In
  <2>4. PICK r : r = rx
    OBVIOUS
  <2>5. Legal(r, FromStm, FromDisplay) /\ Unfinished(r, FromStm) /\ Aligned(r, FromStm)
    BY <2>1, <2>3, <2>4 DEF LinkInv, EspInv
  <2>6. Has(r, {"ok"})
    BY <1>1, <2>1, <2>3, <2>4 DEF LinkInv, Talk
  <2>7. PICK n \in Nat : n = Len(r)
    BY <2>2, <2>4, LenProperties
  <2>8. n > 0
    BY <2>6, <2>7 DEF Has
  <2>9. r[1] = FromStm
    BY <2>5, <2>7, <2>8 DEF Aligned
  <2>10. PacketAt(r, 1, FromStm, FromDisplay)
    BY <2>5, <2>7, <2>8, <2>9 DEF Legal
  <2>11. n >= 3 /\ (r[3] = "sleep" => n >= 4)
    BY <2>7, <2>10 DEF PacketAt
  <2>12. n <= 3 /\ (n = 3 => r[3] = "sleep")
    BY <2>5, <2>7 DEF Unfinished
  <2>13. QED
    BY <2>11, <2>12
<1>3. \E k : Drops(Out, k, toStm')
  BY <1>1, OutWays DEF LinkInv
<1>4. QED
  BY <1>1, <1>2, <1>3, Restarts

LEMMA EspStartsKeeps == LinkInv /\ EspStarts => LinkInv'
<1> SUFFICES ASSUME LinkInv, EspStarts PROVE LinkInv'
  OBVIOUS
<1>1. esp = "off" /\ esp' = "await" /\ UNCHANGED <<toEsp, toStm, stmVars, rx>>
  BY DEF EspStarts
<1>2. In' = In /\ Out' = Out /\ stm' = stm
  BY <1>1 DEF In, Out, stmVars
<1>3. Talk(In, stm, "off") /\ Answers(Out, stm, "off")
  BY <1>1 DEF LinkInv, StmInv
<1>4. Talk(In, stm, "await") /\ Answers(Out, stm, "await")
  BY <1>3, TalkRestarts, AnswersNone
<1>5. Talk(In, stm, esp)'
  BY <1>1, <1>2, <1>4
<1>6. StmInv'
  BY <1>1, <1>2, <1>4 DEF LinkInv, StmInv, stmVars
<1>7. EspInv'
  BY <1>1, <1>2 DEF LinkInv, EspInv
<1>8. ByteTypes' /\ StreamInv' /\ StepInv'
  BY <1>1 DEF LinkInv, ByteTypes, StreamInv, StepInv, stmVars
<1>9. QED
  BY <1>5, <1>6, <1>7, <1>8 DEF LinkInv

\* The ESP's end of the line changes: what it has gathered is gone.
LEMMA EspKeeps ==
  ASSUME LinkInv, UNCHANGED stmVars, rx' = <<>>, toEsp' \in Seq(Bytes), toStm' \in Seq(Bytes),
         Legal(toEsp', FromStm, FromDisplay), Talk(toEsp', stm, esp'),
         esp' \in {"answered", "run"} => Aligned(toEsp', FromStm),
         Legal(Out', FromEsp, FromTheEsp), Answers(Out', stm, esp'),
         stm = "told" => esp' = "answered" /\ toStm' = <<>>,
         stm = "run" /\ esp' = "answered" => esp = "answered" /\ toStm' = toStm
  PROVE  LinkInv'
<1>1. <<>> \in Seq(Bytes) /\ Len(<<>>) = 0
  BY EmptySeq
<1>2. ByteTypes'
  BY <1>1 DEF LinkInv, ByteTypes, stmVars
<1>3. In' = toEsp' /\ stm' = stm
  BY ConcatEmptySeq DEF In, stmVars
<1>4. Talk(In, stm, esp)'
  BY <1>3
<1>5. EspInv'
  BY <1>1, <1>3 DEF EspInv, Unfinished
<1>6. StmInv'
  BY <1>3 DEF LinkInv, StmInv, stmVars
<1>7. StreamInv'
  BY DEF LinkInv, StreamInv, stmVars
<1>8. StepInv'
  BY <1>3 DEF LinkInv, StepInv, stmVars
<1>9. QED
  BY <1>2, <1>4, <1>5, <1>6, <1>7, <1>8 DEF LinkInv

LEMMA TellStmKeeps ==
  ASSUME LinkInv, lost = 0, lost' = 0, NEW on \in BOOLEAN, TellStm(on)
  PROVE  LinkInv'
<1>1. esp = "run" /\ UNCHANGED <<toEsp, stmVars, espVars>>
  BY DEF TellStm
<1>2. PICK p : p = Sleep(FromEsp, on)
  OBVIOUS
<1>3. toStm' = toStm \o p
  BY <1>2, SentWhole DEF TellStm
<1>4. /\ Packet(p, FromEsp, FromTheEsp)
      /\ \A D \in SUBSET Commands : Has(p, D) => D \cap Heard # {}
  <2>1. /\ Packet(p, FromEsp, FromTheEsp)
        /\ \A D \in SUBSET Commands : Has(p, D) <=> "sleep" \in D
    BY <1>2, CommandPackets, SleepPacket
  <2>2. "sleep" \in Heard
    BY DEF Heard
  <2>3. QED
    BY <2>1, <2>2
<1>5. Out' = Out \o p /\ toStm' \in Seq(Bytes) /\ Legal(Out', FromEsp, FromTheEsp)
  BY <1>1, <1>3, <1>4, OutGrows DEF LinkInv, StmInv, stmVars
<1>6. Out \in Seq(Bytes) /\ p \in Seq(Bytes) /\ Answers(Out, stm, "run")
  BY <1>1, <1>4, Buffers DEF LinkInv, StmInv, Packet
<1>7. Answers(Out \o p, stm, "run")
  BY <1>4, <1>6, AnswersMore
<1>8. In' = In /\ stm' = stm /\ esp' = "run"
  BY <1>1 DEF In, stmVars, espVars
<1>9. StmInv'
  BY <1>1, <1>5, <1>7, <1>8 DEF LinkInv, StmInv, stmVars
<1>10. Talk(In, stm, esp)' /\ EspInv'
  BY <1>1, <1>8 DEF LinkInv, EspInv, espVars
<1>11. ByteTypes'
  BY <1>1, <1>5 DEF LinkInv, ByteTypes, stmVars, espVars
<1>12. StreamInv' /\ StepInv'
  BY <1>1, <1>8 DEF LinkInv, StreamInv, StepInv, stmVars
<1>13. QED
  BY <1>9, <1>10, <1>11, <1>12 DEF LinkInv

LEMMA TellEspKeeps ==
  ASSUME LinkInv, lost = 0, lost' = 0, NEW on \in BOOLEAN, TellEsp(on)
  PROVE  LinkInv'
<1>1. stm = "run" /\ UNCHANGED <<toStm, stm, dma, stream, hdr, left, espVars>>
  BY DEF TellEsp, stmVars
<1>2. PICK p : p = Sleep(FromStm, on)
  OBVIOUS
<1>3. toEsp' = toEsp \o p
  BY <1>2, SentWhole DEF TellEsp
<1>4. /\ Packet(p, FromStm, FromDisplay)
      /\ \A D \in SUBSET Commands : Has(p, D) <=> "sleep" \in D
      /\ \A D, E \in SUBSET Commands : D \cap E = {} => Before(p, D, E)
  BY <1>2, CommandPackets, SleepPacket
<1>5. \A D \in SUBSET Commands : Has(p, D) => D \cap {"ping", "sleep"} # {}
  BY <1>4
<1>6. In \in Seq(Bytes) /\ p \in Seq(Bytes) /\ Talk(In, "run", esp)
  BY <1>1, <1>4, Buffers DEF LinkInv, Packet
<1>7. Talk(In \o p, "run", esp)
  BY <1>4, <1>5, <1>6, TalkGoesOn
<1>8. Talk(In \o p, stm, esp)
  BY <1>1, <1>7
<1>9. QED
  BY <1>1, <1>3, <1>4, <1>8, DisplaySends

\* The ESP stops in the middle of a connection.  What it has gathered is gone.
LEMMA EspStopsIn ==
  ASSUME LinkInv, esp = "run"
  PROVE  /\ Talk(toEsp, stm, "off") /\ Legal(toEsp, FromStm, FromDisplay) /\ toEsp \in Seq(Bytes)
         /\ stm # "told" /\ Out \in Seq(Bytes) /\ Answers(Out, stm, "run") /\ Answers(Out, stm, "off")
         /\ Legal(Out, FromEsp, FromTheEsp) /\ toStm \in Seq(Bytes)
<1>1. Drops(In, Len(rx), toEsp) /\ Out \in Seq(Bytes) /\ toEsp \in Seq(Bytes) /\ toStm \in Seq(Bytes)
  BY InDrops, Buffers DEF LinkInv, ByteTypes
<1>2. Talk(In, stm, "run") /\ Legal(In, FromStm, FromDisplay)
  BY DEF LinkInv, EspInv
<1>3. Talk(toEsp, stm, "run") /\ Legal(toEsp, FromStm, FromDisplay)
  BY <1>1, <1>2, TalkDrops, LegalDrops
<1>4. Talk(toEsp, stm, "off")
  BY <1>3, TalkRestarts
<1>5. Answers(Out, stm, "run") /\ Legal(Out, FromEsp, FromTheEsp)
  BY DEF LinkInv, StmInv
<1>6. Answers(Out, stm, "off")
  BY <1>5, AnswersNone
<1>7. QED
  BY <1>1, <1>3, <1>4, <1>5, <1>6 DEF LinkInv, StepInv

LEMMA EspFailsKeeps == LinkInv /\ EspFails => LinkInv'
<1> SUFFICES ASSUME LinkInv, EspFails PROVE LinkInv'
  OBVIOUS
<1>1. /\ esp = "run" /\ esp' = "off" /\ rx' = <<>>
      /\ UNCHANGED <<toEsp, toStm, stmVars>> /\ UNCHANGED stmVars
  BY DEF EspFails, EspRestart
<1>2. Out' = Out
  BY <1>1 DEF Out, stmVars
<1>3. QED
  BY <1>1, <1>2, EspStopsIn, EspKeeps

LEMMA EspResetsKeeps == LinkInv /\ lost = 0 /\ lost' = 0 /\ EspResets => LinkInv'
<1> SUFFICES ASSUME LinkInv, lost = 0, lost' = 0, EspResets PROVE LinkInv'
  OBVIOUS
<1>1. /\ esp = "run" /\ esp' = "off" /\ rx' = <<>>
      /\ UNCHANGED <<toEsp, stmVars>> /\ UNCHANGED stmVars
  BY DEF EspResets, EspRestart
<1>2. PICK p : p = Plain(FromEsp, "reset")
  OBVIOUS
<1>3. toStm' = toStm \o p
  BY <1>2, SentWhole DEF EspResets
<1>4. /\ Packet(p, FromEsp, FromTheEsp)
      /\ \A D \in SUBSET Commands : Has(p, D) => D \cap Heard # {}
  <2>1. /\ Packet(p, FromEsp, FromTheEsp)
        /\ \A D \in SUBSET Commands : Has(p, D) <=> "reset" \in D
    BY <1>2, CommandPackets, PlainPacket
  <2>2. "reset" \in Heard
    BY DEF Heard
  <2>3. QED
    BY <2>1, <2>2
<1>5. Out' = Out \o p /\ toStm' \in Seq(Bytes) /\ Legal(Out', FromEsp, FromTheEsp)
  BY <1>1, <1>3, <1>4, OutGrows DEF LinkInv, StmInv, stmVars
<1>6. Answers(Out \o p, stm, "off")
  BY <1>1, <1>4, EspStopsIn, AnswersMore DEF Packet
<1>7. Answers(Out', stm, esp')
  BY <1>1, <1>5, <1>6
<1>8. /\ Talk(toEsp', stm, esp') /\ Legal(toEsp', FromStm, FromDisplay) /\ toEsp' \in Seq(Bytes)
      /\ stm # "told"
  BY <1>1, EspStopsIn
<1>9. QED
  BY <1>1, <1>5, <1>7, <1>8, EspKeeps

\* A packet is there in full: the ESP takes it.
LEMMA TakesPacket ==
  ASSUME LinkInv, toEsp # <<>>, NEW buf, buf = Append(rx, Head(toEsp)),
         Len(buf) >= 3, buf[1] = FromStm, Whole(buf)
  PROVE  /\ FirstTaken(In, Tail(toEsp)) /\ buf[3] = In[3] /\ Tail(toEsp) \in Seq(Bytes)
         /\ Drops(In, Length(In), Tail(toEsp))
         /\ Legal(Tail(toEsp), FromStm, FromDisplay) /\ Aligned(Tail(toEsp), FromStm)
<1>1. rx \in Seq(Bytes) /\ toEsp \in Seq(Bytes) /\ In = rx \o toEsp
  BY DEF LinkInv, ByteTypes, In
<1>2. Legal(rx \o toEsp, FromStm, FromDisplay) /\ Unfinished(rx, FromStm)
  BY DEF LinkInv, EspInv, In
<1>3. FromDisplay \in SUBSET Commands /\ FromStm \in {FromStm, FromEsp}
  BY DEF Commands
<1>4. Gathers(buf, rx \o toEsp, FromStm, FromDisplay)
  BY <1>1, <1>2, <1>3, Gathered
<1>5. /\ buf[3] = (rx \o toEsp)[3] /\ Len(buf) = Length(rx \o toEsp)
      /\ Aligned(rx \o toEsp, FromStm)
  BY <1>4 DEF Gathers
<1>6. PICK t : t = Tail(toEsp)
  OBVIOUS
<1>7. t \in Seq(Bytes) /\ buf \in Seq(Bytes) /\ buf \o t = rx \o toEsp
  BY <1>1, <1>6, DropsTail, ByteIn
<1>8. Drops(buf \o t, Len(buf), t)
  BY <1>7, DropsBuffer
<1>9. PICK s : s = rx \o toEsp
  OBVIOUS
<1>10. Drops(s, Length(s), t) /\ Legal(s, FromStm, FromDisplay) /\ Aligned(s, FromStm)
  BY <1>2, <1>5, <1>7, <1>8, <1>9
<1>11. s # <<>>
  <2>1. Length(s) \in {3, 4} /\ Length(s) \in 0..Len(s)
    BY <1>10 DEF Drops, Length
  <2>2. PICK n \in Nat : n = Len(s)
    BY <1>10, LenProperties DEF Drops
  <2>3. n # 0
    BY <2>1, <2>2
  <2>4. Len(s) # 0
    BY <2>2, <2>3
  <2>5. QED
    BY <2>4, EmptySeq
<1>12. FirstTaken(s, t)
  BY <1>10, <1>11 DEF FirstTaken
<1>13. Legal(t, FromStm, FromDisplay) /\ Aligned(t, FromStm)
  BY <1>10, <1>12, LegalDrops, CommandTaken
<1>14. QED
  BY <1>1, <1>5, <1>6, <1>7, <1>9, <1>10, <1>12, <1>13

\* The ESP answers with a packet, or says nothing.
LEMMA GreetKeeps ==
  ASSUME LinkInv, lost = 0, lost' = 0, NEW command, Greet(command), esp \in {"await", "answered"},
         UNCHANGED stmVars, rx' = <<>>, FirstTaken(In, toEsp'), command = In[3],
         toEsp' \in Seq(Bytes), Drops(In, Length(In), toEsp'),
         Legal(toEsp', FromStm, FromDisplay), Aligned(toEsp', FromStm)
  PROVE  LinkInv'
<1>1. PICK t : t = toEsp'
  OBVIOUS
<1>2. PICK s : s = In
  OBVIOUS
<1>3. FirstTaken(s, t) /\ Drops(s, Length(s), t) /\ command = s[3] /\ Talk(s, stm, esp)
  BY <1>1, <1>2 DEF LinkInv
<1>4. /\ stm' = stm /\ dma' = dma /\ ByteTypes /\ Out \in Seq(Bytes)
      /\ Legal(Out, FromEsp, FromTheEsp) /\ Answers(Out, stm, esp) /\ toStm \in Seq(Bytes)
  BY Buffers DEF LinkInv, StmInv, stmVars, ByteTypes
<1>5. ASSUME toStm' = toStm
      PROVE  toStm' \in Seq(Bytes) /\ Out' = Out /\ Legal(Out', FromEsp, FromTheEsp)
  BY <1>4, <1>5 DEF Out
<1>6. CASE esp = "await" /\ command = "init" /\ ~report
           /\ esp' = "answered" /\ SendStm(Plain(FromEsp, "resp"))
  <2>1. PICK p : p = Plain(FromEsp, "resp")
    OBVIOUS
  <2>2. toStm' = toStm \o p
    BY <1>6, <2>1, SentWhole
  <2>3. Packet(p, FromEsp, FromTheEsp)
    BY <2>1, CommandPackets, PlainPacket
  <2>4. Out' = Out \o p /\ toStm' \in Seq(Bytes) /\ Legal(Out', FromEsp, FromTheEsp)
    BY <1>4, <2>2, <2>3, OutGrows
  <2>5. stm # "run" /\ Talk(t, stm, "answered")
    BY <1>3, <1>6, TalkGreets
  <2>6. stm # "told"
    BY <1>6 DEF LinkInv, StepInv
  <2>7. Answers(Out \o p, stm, "answered")
    BY <1>4, <1>6, <2>1, <2>5, <2>6, AnswersGreeting
  <2>8. Answers(Out', stm, esp') /\ Talk(toEsp', stm, esp')
    BY <1>1, <1>6, <2>4, <2>5, <2>7
  <2>9. QED
    BY <2>4, <2>5, <2>6, <2>8, EspKeeps
<1>7. CASE esp = "await" /\ command = "init" /\ report
           /\ esp' = "dead" /\ SendStm(Plain(FromEsp, "crash"))
  <2>1. PICK p : p = Plain(FromEsp, "crash")
    OBVIOUS
  <2>2. toStm' = toStm \o p
    BY <1>7, <2>1, SentWhole
  <2>3. Packet(p, FromEsp, FromTheEsp)
    BY <2>1, CommandPackets, PlainPacket
  <2>4. Out' = Out \o p /\ toStm' \in Seq(Bytes) /\ Legal(Out', FromEsp, FromTheEsp)
    BY <1>4, <2>2, <2>3, OutGrows
  <2>5. stm # "run" /\ Talk(t, stm, "dead")
    BY <1>3, <1>7, TalkGreets
  <2>6. stm # "told"
    BY <1>7 DEF LinkInv, StepInv
  <2>7. Answers(Out \o p, stm, "dead")
    BY <1>4, <1>7, <2>1, AnswersGreeting
  <2>8. Answers(Out', stm, esp') /\ Talk(toEsp', stm, esp') /\ esp' = "dead"
    BY <1>1, <1>7, <2>4, <2>5, <2>7
  <2>9. QED
    BY <2>4, <2>5, <2>6, <2>8, EspKeeps
<1>8. CASE esp = "answered" /\ command = "ok" /\ esp' = "run" /\ UNCHANGED <<toStm, lost>>
  <2>1. Talk(t, stm, "run")
    BY <1>3, <1>8, TalkOpens
  <2>2. stm = "run"
    BY <1>3, <1>8, CommandTaken DEF Talk, Has
  <2>3. Answers(Out, stm, "run")
    BY <1>4, <1>8, <2>2 DEF Answers
  <2>4. /\ Answers(Out', stm, esp') /\ Talk(toEsp', stm, esp') /\ esp' = "run"
        /\ toStm' \in Seq(Bytes) /\ Legal(Out', FromEsp, FromTheEsp)
    BY <1>1, <1>5, <1>8, <2>1, <2>3
  <2>5. QED
    BY <2>2, <2>4, EspKeeps
<1>9. CASE esp = "answered" /\ command \notin {"init", "ok"}
  BY <1>3, <1>9, TalkUndisturbed
<1>10. CASE esp = "answered" /\ command = "init" /\ UNCHANGED <<esp, toStm, lost>>
  <2>1. Talk(t, stm, "answered")
    BY <1>3, <1>10, TalkPassesOver
  <2>2. /\ Answers(Out', stm, esp') /\ Talk(toEsp', stm, esp') /\ esp' = "answered"
        /\ toStm' = toStm /\ toStm' \in Seq(Bytes) /\ Legal(Out', FromEsp, FromTheEsp)
    BY <1>1, <1>4, <1>5, <1>10, <2>1
  <2>3. stm = "told" => toStm' = <<>>
    BY <1>10 DEF LinkInv, StepInv
  <2>4. QED
    BY <1>10, <2>2, <2>3, EspKeeps
<1>11. CASE esp = "await" /\ command # "init" /\ UNCHANGED <<esp, toStm, lost>>
  <2>1. Talk(t, stm, "await")
    BY <1>3, <1>11, TalkDrops
  <2>2. /\ Answers(Out', stm, esp') /\ Talk(toEsp', stm, esp') /\ esp' = "await"
        /\ toStm' \in Seq(Bytes) /\ Legal(Out', FromEsp, FromTheEsp)
    BY <1>1, <1>4, <1>5, <1>11, <2>1
  <2>3. stm # "told"
    BY <1>11 DEF LinkInv, StepInv
  <2>4. QED
    BY <2>2, <2>3, EspKeeps
<1>12. QED
  BY <1>6, <1>7, <1>8, <1>9, <1>10, <1>11 DEF Greet

LEMMA ServeKeeps ==
  ASSUME LinkInv, lost = 0, lost' = 0, NEW command, Serve(command), esp = "run",
         UNCHANGED stmVars, rx' = <<>>,
         toEsp' \in Seq(Bytes), Drops(In, Length(In), toEsp'),
         Legal(toEsp', FromStm, FromDisplay), Aligned(toEsp', FromStm)
  PROVE  LinkInv'
<1>1. PICK t : t = toEsp'
  OBVIOUS
<1>2. Talk(t, stm, "run") /\ Talk(t, stm, "off")
  <2>1. PICK s : s = In
    OBVIOUS
  <2>2. Talk(s, stm, "run") /\ Drops(s, Length(s), t)
    BY <1>1, <2>1 DEF LinkInv
  <2>3. Talk(t, stm, "run")
    BY <2>2, TalkDrops
  <2>4. QED
    BY <2>3, TalkRestarts
<1>3. /\ stm' = stm /\ dma' = dma /\ ByteTypes /\ stm # "told"
      /\ Out \in Seq(Bytes) /\ Answers(Out, stm, "run") /\ Answers(Out, stm, "off")
      /\ Legal(Out, FromEsp, FromTheEsp) /\ toStm \in Seq(Bytes)
  BY EspStopsIn DEF LinkInv, stmVars
<1>4. ASSUME toStm' = toStm
      PROVE  toStm' \in Seq(Bytes) /\ Out' = Out /\ Legal(Out', FromEsp, FromTheEsp)
  BY <1>3, <1>4 DEF Out
<1>5. CASE command = "ping" /\ SendStm(Plain(FromEsp, "pong")) /\ UNCHANGED <<esp, report>>
  <2>1. PICK p : p = Plain(FromEsp, "pong")
    OBVIOUS
  <2>2. toStm' = toStm \o p
    BY <1>5, <2>1, SentWhole
  <2>3. /\ Packet(p, FromEsp, FromTheEsp) /\ p \in Seq(Bytes)
        /\ \A D \in SUBSET Commands : Has(p, D) => D \cap Heard # {}
    <3>1. /\ Packet(p, FromEsp, FromTheEsp)
          /\ \A D \in SUBSET Commands : Has(p, D) <=> "pong" \in D
      BY <2>1, CommandPackets, PlainPacket
    <3>2. "pong" \in Heard
      BY DEF Heard
    <3>3. QED
      BY <3>1, <3>2 DEF Packet
  <2>4. Out' = Out \o p /\ toStm' \in Seq(Bytes) /\ Legal(Out', FromEsp, FromTheEsp)
    BY <1>3, <2>2, <2>3, OutGrows
  <2>5. Answers(Out \o p, stm, "run")
    BY <1>3, <2>3, AnswersMore
  <2>6. Answers(Out', stm, esp') /\ Talk(toEsp', stm, esp') /\ esp' = "run"
    BY <1>1, <1>2, <1>5, <2>4, <2>5
  <2>7. QED
    BY <1>3, <2>4, <2>6, EspKeeps
<1>6. CASE command \in {"init", "reset"} /\ EspRestart(FALSE) /\ UNCHANGED <<toStm, lost>>
  <2>1. esp' = "off" /\ toStm' = toStm
    BY <1>6 DEF EspRestart
  <2>2. /\ Answers(Out', stm, esp') /\ Talk(toEsp', stm, esp')
        /\ toStm' \in Seq(Bytes) /\ Legal(Out', FromEsp, FromTheEsp)
    BY <1>1, <1>2, <1>3, <1>4, <2>1
  <2>3. QED
    BY <1>3, <2>1, <2>2, EspKeeps
<1>7. CASE command \notin {"ping", "init", "reset"} /\ UNCHANGED <<esp, report, toStm, lost>>
  <2>1. /\ Answers(Out', stm, esp') /\ Talk(toEsp', stm, esp') /\ esp' = "run"
        /\ toStm' \in Seq(Bytes) /\ Legal(Out', FromEsp, FromTheEsp)
    BY <1>1, <1>2, <1>3, <1>4, <1>7
  <2>2. QED
    BY <1>3, <2>1, EspKeeps
<1>8. QED
  BY <1>5, <1>6, <1>7 DEF Serve

LEMMA ReceiveKeeps == LinkInv /\ lost = 0 /\ lost' = 0 /\ Receive => LinkInv'
<1> SUFFICES ASSUME LinkInv, lost = 0, lost' = 0, Receive PROVE LinkInv'
  OBVIOUS
<1>1. /\ esp \in {"await", "answered", "run"} /\ toEsp # <<>> /\ toEsp' = Tail(toEsp)
      /\ toEsp \in Seq(Bytes) /\ rx \in Seq(Bytes) /\ UNCHANGED stmVars
  BY DEF Receive, LinkInv, ByteTypes
<1>2. PICK buf : buf = Append(rx, Head(toEsp))
  OBVIOUS
<1>3. PICK q : q = Tail(toEsp)
  OBVIOUS
<1>4. /\ q \in Seq(Bytes) /\ buf \in Seq(Bytes) /\ Len(buf) = Len(rx) + 1 /\ buf \o q = rx \o toEsp
  BY <1>1, <1>2, <1>3, DropsTail, ByteIn
<1>5. In = buf \o q /\ toEsp' = q
  BY <1>1, <1>3, <1>4 DEF In
<1>6. CASE /\ Len(buf) < 3 \/ (buf[1] = FromStm /\ ~Whole(buf))
           /\ rx' = buf /\ UNCHANGED <<esp, report, toStm, lost>>
  <2>1. Unfinished(buf, FromStm)
    <3>1. CASE Len(buf) < 3
      BY <1>4, <3>1, LenProperties DEF Unfinished
    <3>2. CASE ~(Len(buf) < 3)
      <4>1. Len(buf) >= 3 /\ buf[1] = FromStm /\ ~Whole(buf)
        BY <1>4, <1>6, <3>2, LenProperties
      <4>2. Legal(rx \o toEsp, FromStm, FromDisplay) /\ Unfinished(rx, FromStm)
        BY DEF LinkInv, EspInv, In
      <4>3. FromDisplay \in SUBSET Commands /\ FromStm \in {FromStm, FromEsp}
        BY DEF Commands
      <4>4. Gathers(buf, rx \o toEsp, FromStm, FromDisplay)
        BY <1>1, <1>2, <4>1, <4>2, <4>3, Gathered
      <4>5. QED
        BY <4>1, <4>4 DEF Gathers
    <3>3. QED
      BY <3>1, <3>2
  <2>2. In' = In
    BY <1>5, <1>6 DEF In
  <2>3. Out' = Out /\ stm' = stm /\ esp' = esp
    BY <1>1, <1>6 DEF Out, stmVars
  <2>4. EspInv' /\ Talk(In, stm, esp)'
    BY <1>1, <1>6, <2>1, <2>2, <2>3 DEF LinkInv, EspInv
  <2>5. ByteTypes'
    BY <1>1, <1>4, <1>5, <1>6 DEF LinkInv, ByteTypes, stmVars
  <2>6. StmInv' /\ StreamInv' /\ StepInv'
    BY <1>1, <1>6, <2>3 DEF LinkInv, StmInv, StreamInv, StepInv, stmVars
  <2>7. QED
    BY <2>4, <2>5, <2>6 DEF LinkInv
<1>7. CASE /\ Len(buf) = 3 /\ buf[1] # FromStm
           /\ rx' = Tail(buf) /\ UNCHANGED <<esp, report, toStm, lost>>
  <2>1. buf # <<>>
    BY <1>7, EmptySeq
  <2>2. PICK r : r = Tail(buf)
    OBVIOUS
  <2>3. Drops(buf, 1, r) /\ r \in Seq(Bytes)
    BY <1>4, <2>1, <2>2, DropsTail
  <2>4. Drops(buf \o q, 1, r \o q)
    BY <1>4, <2>3, DropsConcat
  <2>5. In' = r \o q /\ rx' = r
    BY <1>5, <1>7, <2>2 DEF In
  <2>6. PICK s : s = In
    OBVIOUS
  <2>7. PICK t : t = r \o q
    OBVIOUS
  <2>8. /\ Drops(s, 1, t) /\ Legal(s, FromStm, FromDisplay) /\ Talk(s, stm, esp)
        /\ esp \in {"answered", "run"} => Aligned(s, FromStm)
    BY <1>5, <2>4, <2>6, <2>7 DEF LinkInv, EspInv
  <2>9. ~Aligned(s, FromStm)
    <3>1. PICK m \in Nat : m = Len(q)
      BY <1>4, LenProperties
    <3>2. Len(s) = Len(buf) + Len(q) /\ s = buf \o q
      BY <1>4, <1>5, <2>6, ConcatProperties
    <3>3. Len(s) = 3 + m
      BY <1>7, <3>1, <3>2
    <3>4. 1 \in 1..Len(s) /\ 1 <= Len(buf) /\ Len(s) > 0
      BY <1>7, <3>3
    <3>5. s[1] = buf[1]
      <4>1. s[1] = IF 1 <= Len(buf) THEN buf[1] ELSE q[1 - Len(buf)]
        BY <1>4, <1>7, <3>1, <3>2, <3>3, <3>4, ConcatProperties
      <4>2. QED
        BY <3>4, <4>1
    <3>6. QED
      BY <1>7, <3>4, <3>5 DEF Aligned
  <2>10. esp = "await"
    BY <1>1, <2>8, <2>9
  <2>11. Talk(t, stm, "await") /\ Legal(t, FromStm, FromDisplay)
    BY <2>8, <2>10, TalkDrops, LegalDrops
  <2>12. Unfinished(r, FromStm)
    <3>1. Len(r) = 2
      BY <1>7, <2>3 DEF Drops
    <3>2. QED
      BY <3>1 DEF Unfinished
  <2>13. Out' = Out /\ stm' = stm /\ esp' = "await"
    BY <1>1, <1>7, <2>10 DEF Out, stmVars
  <2>14. In' = t
    BY <2>5, <2>7
  <2>15. EspInv' /\ Talk(In, stm, esp)'
    BY <2>5, <2>11, <2>12, <2>13, <2>14 DEF EspInv
  <2>16. ByteTypes'
    BY <1>1, <1>4, <1>5, <1>7, <2>3, <2>5 DEF LinkInv, ByteTypes, stmVars
  <2>17. StmInv' /\ StreamInv' /\ StepInv'
    BY <1>1, <1>7, <2>13 DEF LinkInv, StmInv, StreamInv, StepInv, stmVars
  <2>18. QED
    BY <2>15, <2>16, <2>17 DEF LinkInv
<1>8. CASE /\ Len(buf) >= 3 /\ buf[1] = FromStm /\ Whole(buf) /\ rx' = <<>>
           /\ \/ esp # "run" /\ Greet(buf[3]) /\ UNCHANGED report
              \/ esp = "run" /\ Serve(buf[3])
  <2>1. Len(buf) >= 3 /\ buf[1] = FromStm /\ Whole(buf) /\ rx' = <<>>
    BY <1>8
  <2>2. /\ FirstTaken(In, toEsp') /\ buf[3] = In[3] /\ toEsp' \in Seq(Bytes)
        /\ Drops(In, Length(In), toEsp')
        /\ Legal(toEsp', FromStm, FromDisplay) /\ Aligned(toEsp', FromStm)
    BY <1>1, <1>2, <2>1, TakesPacket
  <2>3. PICK command : command = buf[3]
    OBVIOUS
  <2>4. CASE esp # "run" /\ Greet(buf[3])
    <3>1. Greet(command) /\ esp \in {"await", "answered"} /\ command = In[3]
      BY <1>1, <2>2, <2>3, <2>4
    <3>2. QED
      BY <1>1, <2>1, <2>2, <3>1, GreetKeeps
  <2>5. CASE esp = "run" /\ Serve(buf[3])
    <3>1. Serve(command) /\ esp = "run"
      BY <2>3, <2>5
    <3>2. QED
      BY <1>1, <2>1, <2>2, <3>1, ServeKeeps
  <2>6. QED
    BY <1>8, <2>4, <2>5
<1>9. QED
  BY <1>2, <1>6, <1>7, <1>8 DEF Receive

LEMMA StillKeeps == LinkInv /\ UNCHANGED vars => LinkInv'
<1> SUFFICES ASSUME LinkInv, UNCHANGED vars PROVE LinkInv'
  OBVIOUS
<1>1. In' = In /\ Out' = Out
  BY DEF vars, stmVars, espVars, In, Out
<1>2. Talk(In, stm, esp)' /\ EspInv' /\ StmInv'
  BY <1>1 DEF LinkInv, EspInv, StmInv, vars, stmVars, espVars
<1>3. ByteTypes' /\ StreamInv' /\ StepInv'
  BY DEF LinkInv, ByteTypes, StreamInv, StepInv, vars, stmVars, espVars
<1>4. QED
  BY <1>2, <1>3 DEF LinkInv

-----------------------------------------------------------------------------
(* The count of what was lost                                              *)

LEMMA SentCounts ==
  ASSUME lost \in Nat, NEW p
  PROVE  /\ SendEsp(p) => lost' \in Nat /\ lost' >= lost
         /\ SendStm(p) => lost' \in Nat /\ lost' >= lost
  BY DEF SendEsp, SendStm, Sent

LEMMA LostCounts ==
  ASSUME lost \in Nat, [Next]_vars
  PROVE  lost' \in Nat /\ lost' >= lost
<1>1. CASE UNCHANGED lost
  BY <1>1
<1>2. CASE \E p : SendEsp(p) \/ SendStm(p)
  BY <1>2, SentCounts
<1>3. CASE Gather
  BY <1>3 DEF Gather, Process
<1>4. CASE Receive
  <2>1. UNCHANGED lost \/ \E p : SendStm(p)
    BY <1>4 DEF Receive, Greet, Serve
  <2>2. QED
    BY <1>1, <1>2, <2>1
<1>5. CASE Display
  <2>1. Ask \/ Confirm \/ Ping => \E p : SendEsp(p)
    BY DEF Ask, Confirm, Ping
  <2>2. GiveUp \/ ShowCrash \/ Answer \/ Read \/ Dispatch \/ Panic => UNCHANGED lost
    BY DEF GiveUp, ShowCrash, Answer, Read, Dispatch, Panic
  <2>3. QED
    BY <1>1, <1>2, <1>3, <1>5, <2>1, <2>2 DEF Display
<1>6. CASE EspStarts \/ Unheard
  BY <1>1, <1>6 DEF EspStarts, Unheard, UnheardByEsp, UnheardByStm
<1>7. CASE OnAWhim
  <2>1. ASSUME NEW on \in BOOLEAN, TellStm(on) \/ TellEsp(on) PROVE \E p : SendEsp(p) \/ SendStm(p)
    BY <2>1 DEF TellStm, TellEsp
  <2>2. EspResets => \E p : SendStm(p)
    BY DEF EspResets
  <2>3. EspFails => UNCHANGED lost
    BY DEF EspFails
  <2>4. QED
    BY <1>1, <1>2, <1>7, <2>1, <2>2, <2>3 DEF OnAWhim
<1>8. CASE UNCHANGED vars
  BY <1>1, <1>8 DEF vars
<1>9. QED
  BY <1>4, <1>5, <1>6, <1>7, <1>8 DEF Next, Esp

-----------------------------------------------------------------------------
(* The theorems                                                            *)

LEMMA NextKeeps == IInv /\ [Next]_vars => IInv'
<1> SUFFICES ASSUME IInv, [Next]_vars PROVE IInv'
  OBVIOUS
<1>1. lost' \in Nat /\ lost' >= lost /\ lost \in Nat
  BY LostCounts DEF IInv
<1>2. SUFFICES ASSUME lost' = 0 PROVE LinkInv'
  BY <1>1 DEF IInv
<1>3. lost = 0
  BY <1>1, <1>2
<1>4. LinkInv
  BY <1>3 DEF IInv
<1>5. CASE Ask \/ GiveUp \/ Confirm \/ ShowCrash \/ Answer
  BY <1>2, <1>3, <1>4, <1>5, AskKeeps, GiveUpKeeps, ConfirmKeeps, ShowCrashKeeps, AnswerKeeps
<1>6. CASE Gather \/ Read \/ Dispatch \/ Ping \/ Panic
  BY <1>2, <1>3, <1>4, <1>6, GatherKeeps, ReadKeeps, DispatchKeeps, PingKeeps, PanicKeeps
<1>7. CASE Esp \/ Unheard
  BY <1>2, <1>3, <1>4, <1>7, EspStartsKeeps, ReceiveKeeps, UnheardByStmKeeps, UnheardByEspKeeps
     DEF Esp, Unheard
<1>8. CASE OnAWhim
  <2>1. ASSUME NEW on \in BOOLEAN, TellStm(on) \/ TellEsp(on) PROVE LinkInv'
    BY <1>2, <1>3, <1>4, <2>1, TellStmKeeps, TellEspKeeps
  <2>2. QED
    BY <1>2, <1>3, <1>4, <1>8, <2>1, EspResetsKeeps, EspFailsKeeps DEF OnAWhim
<1>9. CASE UNCHANGED vars
  BY <1>4, <1>9, StillKeeps
<1>10. QED
  BY <1>5, <1>6, <1>7, <1>8, <1>9 DEF Next, Display

THEOREM Invariance == Spec => []IInv
<1>1. Init => IInv
  BY InitKeeps
<1>2. IInv /\ [Next]_vars => IInv'
  BY NextKeeps
<1>3. QED
  BY <1>1, <1>2, PTL DEF Spec

\* As long as nothing has been lost, the servicer acts only on headers that were
\* sent: whatever resets, restarts and handshakes have cut through, a packet in the
\* stream begins where protocol.cpp and srv.cpp take one to begin.
THEOREM AlwaysFramed == Spec => []Framed
<1>1. IInv => Framed
  BY HeaderRead DEF IInv, Framed
<1>2. QED
  BY <1>1, Invariance, PTL

\* A display that sees the answer, or a connected one, has an ESP that has not given
\* up, and nothing but what its servicer is to hear is on its way.
InStep ==
  lost = 0 => /\ stm = "told" => esp = "answered"
              /\ stm = "run" => esp # "dead" /\ ~Has(dma \o toStm, {"resp", "crash"})

\* As long as nothing has been lost, no answer to a handshake ever reaches a display
\* past its own, however often either side starts all over, and HANDSHAKE_OK goes to
\* an ESP that waits for it.
THEOREM HandshakesInStep == Spec => []InStep
<1>1. IInv => InStep
  <2>1. SUFFICES ASSUME lost = 0, LinkInv PROVE InStep
    BY DEF IInv, InStep
  <2>2. stm = "told" => esp = "answered"
    BY <2>1 DEF LinkInv, StepInv
  <2>3. ASSUME stm = "run" PROVE esp # "dead" /\ ~Has(dma \o toStm, {"resp", "crash"})
    <3>1. esp # "dead"
      BY <2>1, <2>3 DEF LinkInv, Talk
    <3>2. Out = dma \o toStm /\ ~Has(Out, {"resp"}) /\ ~Has(Out, {"crash"})
      BY <2>1, <2>3, <3>1 DEF LinkInv, StmInv, Answers, Out
    <3>3. QED
      BY <3>1, <3>2 DEF Has
  <2>4. QED
    BY <2>2, <2>3 DEF InStep
<1>2. QED
  BY <1>1, Invariance, PTL

=============================================================================
