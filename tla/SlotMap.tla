------------------------------ MODULE SlotMap ------------------------------
(***************************************************************************)
(* What an arena promises its users: per slot a row of bytes, each of them *)
(* kept here or elsewhere.  How the slots are cut into blocks and where    *)
(* the blocks lie does not show.                                           *)
(***************************************************************************)
EXTENDS Naturals, Sequences

CONSTANTS Slots, Values,
          Junk,       \* the value of a byte that has room here but was never written
          Away        \* the value of a byte that is kept elsewhere

VARIABLE content      \* per slot, the bytes: where each is kept, and its value

Places == {"canonical", "ephemeral", "remote"}

Fresh(loc) == [loc |-> loc, val |-> IF loc = "remote" THEN Away ELSE Junk]

\* A byte that is moved: what comes back has no value yet.
Moved(c, loc) ==
  IF c.loc = loc THEN c
  ELSE IF "remote" \in {c.loc, loc} THEN Fresh(loc) ELSE [c EXCEPT !.loc = loc]

Written(c, v) == [loc |-> IF c.loc = "remote" THEN "ephemeral" ELSE c.loc, val |-> v]

Init == content = [s \in Slots |-> <<>>]

\* new is old with more bytes behind it, all in one place.
Grown(old, new) ==
  /\ Len(new) > Len(old)
  /\ \A i \in 1..Len(old) : new[i] = old[i]
  /\ \E loc \in Places : \A i \in Len(old) + 1 .. Len(new) : new[i] = Fresh(loc)

\* new is the front of old.
Cut(old, new) == Len(new) < Len(old) /\ new = SubSeq(old, 1, Len(new))

\* One stretch of bytes was changed by f, the others not at all.
Stretch(old, new, f(_)) ==
  /\ Len(new) = Len(old)
  /\ LET changed == {i \in DOMAIN old : new[i] # old[i]}
     IN  \A i, j \in changed : \A k \in i..j : new[k] = f(old[k])

Step(old, new) ==
  \/ \E v \in Values : Stretch(old, new, LAMBDA c : Written(c, v))
  \/ \E loc \in Places : Stretch(old, new, LAMBDA c : Moved(c, loc))
  \/ Grown(old, new)
  \/ Cut(old, new)

Next ==
  LET old == content
      new == content'
  IN  \E s \in Slots : /\ \A t \in Slots \ {s} : new[t] = old[t]
                        /\ Step(old[s], new[s])

Spec == Init /\ [][Next]_content
=============================================================================
