----------------------------- MODULE SerialLink -----------------------------
(***************************************************************************)
(* The serial line between the display and the ESP, byte by byte: how each *)
(* side finds the packets in what arrives (stm/src/protocol.cpp,           *)
(* esp/main/protocol.cpp), the handshake that opens the connection, the    *)
(* pings that tell whether it is open, and the resets that close it        *)
(* (stm/src/srv.cpp, esp/main/serial.cpp).                                 *)
(*                                                                         *)
(* A packet is a direction byte, a length, a command and as many bytes as  *)
(* the length says.  Of the many packets of a running connection there are *)
(* the empty ones this is about and, for those with a payload, the one     *)
(* that switches the sleep mode.  A byte that is no length of theirs and   *)
(* is taken for one stands for Long bytes.                                 *)
(***************************************************************************)
EXTENDS Naturals, Sequences

CONSTANTS
  Long,        \* what an odd byte is worth as a length
  StreamMax,   \* bytes dma_rx_queue holds
  MaxLost,     \* stretches of bytes the line may lose ...
  Lossy,       \* ... in packets of these commands
  Whims,       \* what may happen of its own accord: "sleep", "reset", "restart", "crash"
  MaxWhims     \* how often

ASSUME LinkAssumption ==
  /\ {Long, StreamMax} \subseteq Nat \ {0} /\ {MaxLost, MaxWhims} \subseteq Nat
  /\ Lossy \subseteq {"init", "resp", "ok", "crash", "ping", "pong", "sleep", "reset"}
  /\ Whims \subseteq {"sleep", "reset", "restart", "crash"}

VARIABLES
  toEsp, toStm, \* bytes on the line
  stm,          \* the display: "boot", "listen", "told", "run", "crashed" or "halted"
  inits,        \* HANDSHAKE_INITs sent since it booted
  dma,          \* what the packet being received has in dma_buffer
  pinged,       \* sent_ping
  stream,       \* dma_rx_queue, from the interrupt to the servicer
  hdr, left,    \* what the servicer has of a header, or has to read of a payload
  esp,          \* the ESP: "off", "await", "answered", "run" or "dead"
  report,       \* it has a crash to report
  rx,           \* what wait_for_packet has in rx_buf
  lost, whims   \* so far

stmVars == <<stm, inits, dma, pinged, stream, hdr, left>>
espVars == <<esp, report, rx>>
vars == <<toEsp, toStm, stmVars, espVars, lost, whims>>

FromStm == "A5"
FromEsp == "A6"
Plain(from, command) == <<from, "0", command>>
Sleep(from, on) == <<from, "1", "sleep", IF on THEN "1" ELSE "0">>

\* A byte as a length.
Count(b) == CASE b = "0" -> 0 [] b = "1" -> 1 [] OTHER -> Long
Whole_HeaderOnly(buf) == Len(buf) >= 3
Whole(buf) == Len(buf) >= 3 /\ Len(buf) = 3 + Count(buf[2])

Init ==
  /\ toEsp = <<>> /\ toStm = <<>>
  /\ stm = "boot" /\ inits = 0 /\ dma = <<>> /\ pinged = FALSE
  /\ stream = <<>> /\ hdr = <<>> /\ left = 0
  /\ esp = "off" /\ report = FALSE /\ rx = <<>>
  /\ lost = 0 /\ whims = 0

-----------------------------------------------------------------------------
(* The line.  Nothing is heard by a side that is not listening.            *)

Without(p, i, j) == SubSeq(p, 1, i - 1) \o SubSeq(p, j + 1, Len(p))
Arrives(p) ==
  {p} \cup (IF p[3] \in Lossy /\ lost < MaxLost
            THEN UNION {{Without(p, i, j) : j \in i..Len(p)} : i \in DOMAIN p}
            ELSE {})

Sent(p, q) == lost' = lost + (IF q = p THEN 0 ELSE 1)
SendEsp(p) == \E q \in Arrives(p) : toEsp' = toEsp \o q /\ Sent(p, q)
SendStm(p) == \E q \in Arrives(p) : toStm' = toStm \o q /\ Sent(p, q)

\* Whatever was sent has long arrived.  What came before the ESP listened may wait.
Quiet == toStm = <<>> /\ (toEsp = <<>> \/ (esp = "off" /\ Len(toEsp) <= 3))

UnheardByEsp ==
  /\ esp \in {"off", "dead"} /\ toEsp # <<>> /\ toEsp' = Tail(toEsp)
  /\ UNCHANGED <<toStm, stmVars, espVars, lost, whims>>

UnheardByStm ==
  /\ stm \in {"boot", "told", "crashed", "halted"} /\ toStm # <<>> /\ toStm' = Tail(toStm)
  /\ UNCHANGED <<toEsp, stmVars, espVars, lost, whims>>

-----------------------------------------------------------------------------
(* The display                                                             *)

\* NVIC_SystemReset
StmReset ==
  /\ stm' = "boot" /\ inits' = 0 /\ dma' = <<>> /\ pinged' = FALSE
  /\ stream' = <<>> /\ hdr' = <<>> /\ left' = 0

\* do_handshake: ask the ESP, ask again every third time half a second has passed,
\* and after the twelfth time start all over.  An answer that came in that very half
\* second does not keep the display from either.
NoAnswer == Quiet /\ stm \in {"listen", "told", "crashed"}

Ask ==
  /\ stm = "boot" \/ (NoAnswer /\ inits < 4)
  /\ SendEsp(Plain(FromStm, "init"))
  /\ stm' = "listen" /\ inits' = inits + 1
  /\ dma' = IF stm = "listen" THEN dma ELSE <<>>
  /\ UNCHANGED <<toStm, pinged, stream, hdr, left, espVars, whims>>

GiveUp ==
  /\ NoAnswer /\ inits = 4
  /\ StmReset
  /\ UNCHANGED <<toEsp, toStm, espVars, lost, whims>>

\* It sees the answer.
Confirm ==
  /\ stm = "told" /\ SendEsp(Plain(FromStm, "ok"))
  /\ stm' = "run" /\ dma' = <<>>
  /\ UNCHANGED <<toStm, inits, pinged, stream, hdr, left, espVars, whims>>

ShowCrash ==
  /\ stm = "crashed" /\ stm' = "halted"
  /\ UNCHANGED <<toEsp, toStm, inits, dma, pinged, stream, hdr, left, espVars, lost, whims>>

\* dma_finish during the handshake: the answer is what it should be, or the display
\* starts all over.
Answer ==
  /\ stm = "listen" /\ toStm # <<>> /\ toStm' = Tail(toStm)
  /\ LET buf == Append(dma, Head(toStm)) IN
       \/ /\ Len(buf) < 3 /\ dma' = buf
          /\ UNCHANGED <<stm, inits, pinged, stream, hdr, left>>
       \/ /\ buf \in {Plain(FromEsp, "resp"), Plain(FromEsp, "crash")}
          /\ stm' = IF buf[3] = "resp" THEN "told" ELSE "crashed"
          /\ dma' = buf /\ UNCHANGED <<inits, pinged, stream, hdr, left>>
       \/ /\ Len(buf) = 3 /\ buf \notin {Plain(FromEsp, "resp"), Plain(FromEsp, "crash")}
          /\ StmReset
  /\ UNCHANGED <<toEsp, espVars, lost, whims>>

\* Three bytes that do not begin like a packet: from the last one on that might.
Hunt(buf) == IF buf[3] = FromEsp THEN <<FromEsp>>
             ELSE IF buf[2] = FromEsp THEN Tail(buf) ELSE <<>>

Lesser(a, b) == IF a <= b THEN a ELSE b

\* process_command: what does not fit any more is gone.
Process(buf) ==
  /\ stream' = SubSeq(stream \o buf, 1, Lesser(StreamMax, Len(stream \o buf)))
  /\ lost' = IF Len(stream \o buf) > StreamMax THEN lost + 1 ELSE lost
  /\ dma' = <<>> /\ pinged' = FALSE

\* dma_finish after the handshake: a header, the rest of a packet, or neither.
Gather ==
  /\ stm = "run" /\ toStm # <<>> /\ toStm' = Tail(toStm)
  /\ LET buf == Append(dma, Head(toStm)) IN
       \/ /\ Len(buf) < 3 \/ (buf[1] = FromEsp /\ ~Whole(buf))
          /\ dma' = buf /\ UNCHANGED <<pinged, stream, lost>>
       \/ /\ Len(buf) = 3 /\ buf[1] # FromEsp
          /\ dma' = Hunt(buf) /\ UNCHANGED <<pinged, stream, lost>>
       \/ Len(buf) >= 3 /\ buf[1] = FromEsp /\ Whole(buf) /\ Process(buf)
  /\ UNCHANGED <<toEsp, stm, inits, hdr, left, espVars, whims>>

\* The servicer reads what there is of a header or of a payload ...
Read ==
  /\ stm = "run" /\ stream # <<>> /\ Len(hdr) < 3
  /\ LET n == Lesser(IF left > 0 THEN left ELSE 3 - Len(hdr), Len(stream)) IN
       /\ stream' = SubSeq(stream, n + 1, Len(stream))
       /\ IF left > 0 THEN left' = left - n /\ UNCHANGED hdr
                      ELSE hdr' = hdr \o SubSeq(stream, 1, n) /\ UNCHANGED left
  /\ UNCHANGED <<toEsp, toStm, stm, inits, dma, pinged, espVars, lost, whims>>

\* What is no header may have one begin at its second byte.
CycleForwards_Drop(h) == <<>>
CycleForwards(h) == Tail(h)

\* ... looks for a header one byte on, or does what it says.  Of a known packet it
\* reads the payload it has to have.
Dispatch ==
  /\ stm = "run" /\ Len(hdr) = 3
  /\ IF hdr[1] = FromEsp /\ hdr[3] = "reset" THEN StmReset
     ELSE /\ \/ hdr[1] # FromEsp /\ hdr' = CycleForwards(hdr) /\ UNCHANGED left
             \/ /\ hdr[1] = FromEsp /\ hdr' = <<>>
                /\ left' = IF hdr[3] = "sleep" THEN 1 ELSE Count(hdr[2])
          /\ UNCHANGED <<stm, inits, dma, pinged, stream>>
  /\ UNCHANGED <<toEsp, toStm, espVars, lost, whims>>

\* The servicer's loop comes round with nothing to do.
Idle == stm = "run" /\ left = 0 /\ Len(hdr) < 3 /\ stream = <<>>

\* check_connection_ping: nothing has come for ten seconds, or for thirty.
Ping ==
  /\ Idle /\ Quiet /\ ~pinged /\ SendEsp(Plain(FromStm, "ping")) /\ pinged' = TRUE
  /\ UNCHANGED <<toStm, stm, inits, dma, stream, hdr, left, espVars, whims>>

Panic ==
  /\ Idle /\ Quiet /\ pinged /\ StmReset
  /\ UNCHANGED <<toEsp, toStm, espVars, lost, whims>>

-----------------------------------------------------------------------------
(* The ESP                                                                 *)

EspRestart(crashed) == esp' = "off" /\ rx' = <<>> /\ report' = crashed

EspStarts ==
  /\ esp = "off" /\ esp' = "await"
  /\ UNCHANGED <<toEsp, toStm, stmVars, report, rx, lost, whims>>

\* run: a packet before the connection is there.  A second HANDSHAKE_INIT is passed
\* over, whatever became of the answer to the first.
Greet(command) ==
  \/ /\ esp = "await" /\ command = "init" /\ ~report
     /\ esp' = "answered" /\ SendStm(Plain(FromEsp, "resp"))
  \/ /\ esp = "await" /\ command = "init" /\ report
     /\ esp' = "dead" /\ SendStm(Plain(FromEsp, "crash"))
  \/ /\ esp = "answered" /\ command = "ok"
     /\ esp' = "run" /\ UNCHANGED <<toStm, lost>>
  \/ /\ esp = "answered" /\ command \notin {"init", "ok"}
     /\ esp' = "await" /\ UNCHANGED <<toStm, lost>>
  \/ /\ <<esp, command>> = <<"answered", "init">> \/ (esp = "await" /\ command # "init")
     /\ UNCHANGED <<esp, toStm, lost>>

Serve_PassesOverInit(command) ==
  \/ command = "ping" /\ SendStm(Plain(FromEsp, "pong")) /\ UNCHANGED <<esp, report>>
  \/ command = "reset" /\ EspRestart(FALSE) /\ UNCHANGED <<toStm, lost>>
  \/ command \notin {"ping", "reset"} /\ UNCHANGED <<esp, report, toStm, lost>>

\* process_packet
Serve(command) ==
  \/ command = "ping" /\ SendStm(Plain(FromEsp, "pong")) /\ UNCHANGED <<esp, report>>
  \/ command \in {"init", "reset"} /\ EspRestart(FALSE) /\ UNCHANGED <<toStm, lost>>
  \/ command \notin {"ping", "init", "reset"} /\ UNCHANGED <<esp, report, toStm, lost>>

\* wait_for_packet
Receive ==
  /\ esp \in {"await", "answered", "run"} /\ toEsp # <<>> /\ toEsp' = Tail(toEsp)
  /\ LET buf == Append(rx, Head(toEsp)) IN
       \/ /\ Len(buf) < 3 \/ (buf[1] = FromStm /\ ~Whole(buf))
          /\ rx' = buf /\ UNCHANGED <<esp, report, toStm, lost>>
       \/ /\ Len(buf) = 3 /\ buf[1] # FromStm
          /\ rx' = Tail(buf) /\ UNCHANGED <<esp, report, toStm, lost>>
       \/ /\ Len(buf) >= 3 /\ buf[1] = FromStm /\ Whole(buf) /\ rx' = <<>>
          /\ \/ esp # "run" /\ Greet(buf[3]) /\ UNCHANGED report
             \/ esp = "run" /\ Serve(buf[3])
  /\ UNCHANGED <<stmVars, whims>>

-----------------------------------------------------------------------------
(* What happens of its own accord                                          *)

Whim(w) == w \in Whims /\ whims < MaxWhims /\ whims' = whims + 1

\* Either side tells the other about the sleep mode.
TellStm(on) ==
  /\ Whim("sleep") /\ esp = "run" /\ SendStm(Sleep(FromEsp, on))
  /\ UNCHANGED <<toEsp, stmVars, espVars>>
TellEsp(on) ==
  /\ Whim("sleep") /\ stm = "run" /\ SendEsp(Sleep(FromStm, on))
  /\ UNCHANGED <<toStm, stmVars, espVars>>

\* serial::interface.reset(): new firmware or a new configuration.
EspResets ==
  /\ Whim("reset") /\ esp = "run" /\ SendStm(Plain(FromEsp, "reset")) /\ EspRestart(FALSE)
  /\ UNCHANGED <<toEsp, stmVars>>

EspFails ==
  /\ esp = "run"
  /\ \/ Whim("restart") /\ EspRestart(FALSE)
     \/ Whim("crash") /\ EspRestart(TRUE)
  /\ UNCHANGED <<toEsp, toStm, stmVars, lost>>

-----------------------------------------------------------------------------
Display == Ask \/ GiveUp \/ Confirm \/ ShowCrash \/ Answer \/ Gather \/ Read \/ Dispatch
           \/ Ping \/ Panic
Esp == EspStarts \/ Receive
Unheard == UnheardByStm \/ UnheardByEsp
OnAWhim == (\E on \in BOOLEAN : TellStm(on) \/ TellEsp(on)) \/ EspResets \/ EspFails

Next == Display \/ Esp \/ Unheard \/ OnAWhim

Spec == Init /\ [][Next]_vars

\* Both processors run, their clocks too, and the line carries what is sent.
FairSpec ==
  Spec /\ WF_vars(Display) /\ WF_vars(Esp) /\ SF_vars(EspStarts) /\ WF_vars(Unheard)

-----------------------------------------------------------------------------
(* Properties                                                              *)

Headers == {<<FromEsp, "0", "pong">>, <<FromEsp, "1", "sleep">>, <<FromEsp, "0", "reset">>}

\* With nothing lost, the servicer acts only on headers that were sent, whatever
\* resets and handshakes cut through the packets on the line.
Framed == (lost = 0 /\ Len(hdr) = 3) => hdr \in Headers

\* The two sides find each other, and again after whatever was lost or restarted,
\* unless the ESP has stopped to report a crash.  There are two ways to stay apart:
\* the ESP has answered a display that did not take the answer, because it came
\* just before the display asked again or because the display was resetting, and
\* the servicer waits for the rest of a packet that was none.
Apart == esp = "answered" \/ left > 0
Connects == <>[]((stm = "run" /\ esp = "run") \/ esp = "dead" \/ Apart)

\* After what was lost, the servicer finds its way back to where the packets begin.
Realigns == <>[](Len(hdr) = 3 => hdr \in Headers)
=============================================================================
