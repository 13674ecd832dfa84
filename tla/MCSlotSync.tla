----------------------------- MODULE MCSlotSync -----------------------------
(* SlotSync for TLC: the packets the runs let the wire lose.                  *)
EXTENDS SlotSync

Anywhere == {"esp", "budget", "display"}
AllTemps == {"cold", "warm", "hot"}

\* Retries make up for the loss of these, whatever is going on.
Requests == {"askTemp", "request"}
Answers == {"ackStore", "ackFulfill", "ackTemp", "ackData"}
LastFrames == {"store2", "fulfill2"}

\* Those that carry data out and back, and say that it has come.
MovedData == {"store2", "ackStore", "data2", "ackData"}

SizePackets == {"setSize", "ackSize"}
\* With these lost a slot cannot grow, or its data cannot be fetched back.
SizeOrRetrieve == {"setSize", "retrieve"}
Retried == Requests \cup Answers \cup LastFrames \cup {"data2"}
RetriedOrSize == Retried \cup SizePackets
=============================================================================
