-------------------------------- MODULE SdLog ---------------------------------
(* The log buffer of the ESP and the timer callback that flushes it to the    *)
(* card (esp/main/sdlog.cpp).                                                 *)
(*                                                                            *)
(* putc fills one buffer from two places: below pos while nothing is being    *)
(* flushed, between lendpos and end (the part lent over) while the characters *)
(* below pos are on their way to the card; the next putc after that moves the *)
(* lent part down.  The logging system lets one task at a time into putc;     *)
(* between choosing the place and storing the character that task can be      *)
(* preempted by the timer task, unless it outranks it.  Characters are the    *)
(* numbers of the calls; in_use is only set with interrupts off.              *)
EXTENDS Integers, Sequences, FiniteSets

CONSTANTS
    Cap,        \* LogBuf::Len
    MaxPuts,    \* bound: characters logged
    Room        \* bound: characters that fit on the card

ASSUME SdLogAssumption == Cap \in Nat \ {0} /\ MaxPuts \in Nat /\ Room \in Nat

VARIABLES
    buf, pos, lendpos, end, lending, mask, ovf,   \* the members of LogBuf
    writer,     \* inside putc: the place chosen and its index, or to = "none"
    flusher,    \* the timer callback: "idle", "open", "dump", "lend", "write" or "clear"
    bw,         \* characters written by this dump
    log,        \* the file
    puts,       \* characters handed to putc so far
    lost,       \* history: those turned away by a full buffer or dropped with a failed flush
    torn        \* history: a flush began or ended in the middle of a putc

logVars == <<buf, pos, lendpos, end, lending, mask, ovf, writer, flusher, bw, log, puts, lost, torn>>

NoOne == [to |-> "none", at |-> 0, c |-> 0]
Index == 0 .. Cap - 1

Part(b, lo, hi) == {b[i] : i \in {j \in Index : lo <= j /\ j < hi}}
Least(a, b) == IF a < b THEN a ELSE b

-----------------------------------------------------------------------------
(* putc.                                                                      *)
(* An escape sequence: from ESC to m nothing is logged.                       *)
PutEscape ==
    /\ writer = NoOne /\ mask' = ~mask
    /\ UNCHANGED <<buf, pos, lendpos, end, lending, ovf, writer, flusher, bw, log, puts, lost, torn>>

PutMoves == ~lending /\ end # lendpos

PutChoose_Unchecked ==
    /\ writer = NoOne /\ ~mask /\ puts < MaxPuts
    /\ puts' = puts + 1
    /\ UNCHANGED <<buf, pos, lendpos, end>>
    /\ writer' = [to |-> IF lending THEN "end" ELSE "pos",
                  at |-> IF lending THEN end ELSE pos, c |-> puts']
    /\ UNCHANGED <<ovf, lost, lending, mask, flusher, bw, log, torn>>

(* Up to the check that there is room: what was lent over moves to the front, *)
(* the place is chosen and its index read.                                    *)
PutChoose ==
    /\ writer = NoOne /\ ~mask /\ puts < MaxPuts
    /\ puts' = puts + 1
    /\ buf' = IF PutMoves
              THEN [i \in Index |-> IF i < end - lendpos THEN buf[i + lendpos] ELSE buf[i]]
              ELSE buf
    /\ lendpos' = IF PutMoves THEN 0 ELSE lendpos
    /\ pos' = IF PutMoves THEN end - lendpos ELSE pos
    /\ end' = IF PutMoves THEN 0 ELSE end
    /\ LET at == IF lending THEN end' ELSE pos' IN
       IF at = Cap
       THEN /\ ovf' = TRUE /\ lost' = lost \cup {puts'}
            /\ writer' = writer
       ELSE /\ writer' = [to |-> IF lending THEN "end" ELSE "pos", at |-> at, c |-> puts']
            /\ UNCHANGED <<ovf, lost>>
    /\ UNCHANGED <<lending, mask, flusher, bw, log, torn>>

PutStore ==
    /\ writer # NoOne
    /\ buf' = [buf EXCEPT ![writer.at] = writer.c]
    /\ pos' = IF writer.to = "pos" THEN writer.at + 1 ELSE pos
    /\ end' = IF writer.to = "end" THEN writer.at + 1 ELSE end
    /\ writer' = NoOne
    /\ UNCHANGED <<lendpos, lending, mask, ovf, flusher, bw, log, puts, lost, torn>>

-----------------------------------------------------------------------------
(* flush_logs.                                                                *)
Pend == pos > 0 \/ ovf

FlushStart ==
    /\ flusher = "idle" /\ Pend
    /\ flusher' = "open"
    /\ UNCHANGED <<buf, pos, lendpos, end, lending, mask, ovf, writer, bw, log, puts, lost, torn>>

(* The file cannot be opened: what is in the buffer is dropped.               *)
OpenFails ==
    /\ flusher = "open" /\ flusher' = "idle"
    /\ pos' = 0 /\ ovf' = FALSE /\ lending' = FALSE
    /\ lost' = lost \cup Part(buf, 0, pos)
    /\ torn' = (torn \/ writer # NoOne)
    /\ UNCHANGED <<buf, lendpos, end, mask, writer, bw, log, puts>>

Open ==
    /\ flusher = "open" /\ flusher' = "dump"
    /\ UNCHANGED <<buf, pos, lendpos, end, lending, mask, ovf, writer, bw, log, puts, lost, torn>>

(* Nothing is flushed until putc has moved what was lent over.                *)
DumpBegins ==
    /\ flusher = "dump"
    /\ flusher' = IF ~lending /\ end # lendpos THEN "idle" ELSE "lend"
    /\ UNCHANGED <<buf, pos, lendpos, end, lending, mask, ovf, writer, bw, log, puts, lost, torn>>

DumpLends ==
    /\ flusher = "lend" /\ flusher' = "write"
    /\ lending' = TRUE /\ lendpos' = pos /\ end' = pos /\ bw' = 0
    /\ torn' = (torn \/ writer # NoOne)
    /\ UNCHANGED <<buf, pos, mask, ovf, writer, log, puts, lost>>

(* f_write writes all, or what fits on the card, or fails half way.           *)
DumpWrites ==
    /\ flusher = "write" /\ bw < pos
    /\ LET n == Least(pos - bw, Room - Len(log)) IN
       /\ log' = log \o [i \in 1 .. n |-> buf[bw + i - 1]]
       /\ bw' = bw + n
    /\ UNCHANGED <<buf, pos, lendpos, end, lending, mask, ovf, writer, flusher, puts, lost, torn>>

DumpFails ==
    /\ flusher = "write" /\ bw < pos
    /\ flusher' = "clear"
    /\ \E n \in 0 .. Least(pos - bw, Room - Len(log)) :
          /\ log' = log \o [i \in 1 .. n |-> buf[bw + i - 1]]
          /\ bw' = bw + n
          /\ lost' = lost \cup Part(buf, bw + n, pos)
    /\ UNCHANGED <<buf, pos, lendpos, end, lending, mask, ovf, writer, puts, torn>>

(* An overflow is marked by an empty line.                                    *)
DumpDone ==
    /\ flusher = "write" /\ bw >= pos
    /\ ovf' = FALSE /\ flusher' = "clear"
    /\ UNCHANGED <<buf, pos, lendpos, end, lending, mask, writer, bw, log, puts, lost, torn>>

Clear_LentToo ==
    /\ flusher = "clear" /\ flusher' = "idle"
    /\ pos' = 0 /\ end' = 0 /\ lendpos' = 0 /\ ovf' = FALSE /\ lending' = FALSE
    /\ torn' = (torn \/ (writer # NoOne /\ writer.to = "pos"))
    /\ UNCHANGED <<buf, mask, writer, bw, log, puts, lost>>

Clear ==
    /\ flusher = "clear" /\ flusher' = "idle"
    /\ pos' = 0 /\ ovf' = FALSE /\ lending' = FALSE
    /\ torn' = (torn \/ (writer # NoOne /\ writer.to = "pos"))
    /\ UNCHANGED <<buf, lendpos, end, mask, writer, bw, log, puts, lost>>

-----------------------------------------------------------------------------
LogInit ==
    /\ buf = [i \in Index |-> 0]
    /\ pos = 0 /\ lendpos = 0 /\ end = 0
    /\ lending = FALSE /\ mask = FALSE /\ ovf = FALSE
    /\ writer = NoOne /\ flusher = "idle" /\ bw = 0
    /\ log = <<>> /\ puts = 0 /\ lost = {} /\ torn = FALSE

Put == PutEscape \/ PutChoose \/ PutStore

Flush ==
    \/ FlushStart \/ OpenFails \/ Open \/ DumpBegins \/ DumpLends
    \/ DumpWrites \/ DumpFails \/ DumpDone \/ Clear

LogNext == Put \/ Flush

LogSpec == LogInit /\ [][LogNext]_logVars

-----------------------------------------------------------------------------
LogTypeOK ==
    /\ buf \in [Index -> Nat]
    /\ {pos, lendpos, end, bw, puts} \subseteq Nat
    /\ lending \in BOOLEAN /\ mask \in BOOLEAN /\ ovf \in BOOLEAN /\ torn \in BOOLEAN
    /\ writer \in [to : {"none", "pos", "end"}, at : Nat, c : Nat]
    /\ flusher \in {"idle", "open", "dump", "lend", "write", "clear"}
    /\ lost \subseteq Nat

(* No interleaving of putc with a flush makes an index leave the buffer, and  *)
(* what is moved down never has a negative length (sdlog.cpp:43-57, 69-77).   *)
Bounded ==
    /\ pos <= Cap /\ lendpos <= end /\ end <= Cap
    /\ writer # NoOne => writer.at < Cap

(* Unless a flush tears a putc apart, the characters come out in order and    *)
(* once, whatever is lent over, moved down, refused or written in pieces, and *)
(* nothing is lost but what a full buffer turned away or a failed flush drops.*)
Faithful ==
    ~torn =>
        /\ \A i, j \in 1 .. Len(log) : i < j => log[i] < log[j]
        /\ 1 .. puts \subseteq
             lost \cup {log[i] : i \in 1 .. Len(log)} \cup Part(buf, 0, pos)
                  \cup Part(buf, lendpos, end) \cup {writer.c}
==============================================================================
