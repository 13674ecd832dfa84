---------------------------- MODULE SharedBuffer ----------------------------
(***************************************************************************)
(* What the hand-off of packets promises the two tasks that share the      *)
(* receive buffer.  The servicer fills it, and may offer what is in it to  *)
(* the data update manager.  Once the manager has accepted, nobody writes  *)
(* to the buffer until the manager answers, and each offer is accepted and *)
(* answered once.  An offer that the manager forgets is never answered:    *)
(* the servicer waits for ever.                                            *)
(***************************************************************************)
CONSTANT Packets

VARIABLES
  buffer,    \* the packet in the buffer
  holder     \* who may do what with it

Holders == {"servicer",   \* the servicer uses it
            "offered",    \* offered to the manager
            "dupm",       \* the manager reads it
            "returned",   \* the manager has answered
            "forgotten"}  \* the manager will never answer

TypeOK == buffer \in Packets /\ holder \in Holders

Init == buffer \in Packets /\ holder = "servicer"

Passes(from, to) == holder = from /\ holder' = to /\ buffer' = buffer

Fill == holder = "servicer" /\ holder' = holder /\ buffer' \in Packets
Offer == Passes("servicer", "offered")
Accept == Passes("offered", "dupm")
Forget == Passes("offered", "forgotten")
Answer == Passes("dupm", "returned")
TakeBack == Passes("returned", "servicer")

Next == Fill \/ Offer \/ Accept \/ Forget \/ Answer \/ TakeBack

Spec == Init /\ [][Next]_<<buffer, holder>>
=============================================================================
