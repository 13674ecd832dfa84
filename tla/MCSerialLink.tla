---------------------------- MODULE MCSerialLink ----------------------------
(* SerialLink for TLC: the packets whose loss the handshake recovers from.     *)
EXTENDS SerialLink
Recovered == {"init", "resp", "ok", "crash", "ping", "pong", "sleep", "reset"}
Anything == {"sleep", "reset", "restart", "crash"}
=============================================================================
