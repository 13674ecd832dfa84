------------------------------- MODULE Arena -------------------------------
(***************************************************************************)
(* The block heap of bheap.h, which both processors keep their slots in,   *)
(* with the cache of first blocks (lru.h) and the display's cleanup.       *)
(*                                                                         *)
(* The byte array is a sequence of blocks, headers included; a block's     *)
(* address is the number of words before it.  The array ends with a block  *)
(* of its own, at address Words.                                           *)
(***************************************************************************)
EXTENDS Naturals, Integers, Sequences, SequencesExt, FiniteSets, FiniteSetsExt

CONSTANTS
  Slots, Values, Junk, Away, None,
  Unit,         \* bytes in a word; a header is one word
  Words,        \* words in the array before its end block
  Limit,        \* per slot, its bytes at most
  AddAt,        \* where new blocks are put: the ESP keeps them, the display leaves them there
  MoveTo,       \* where blocks are moved
  Marks,        \* whether updates mark what they change
  Temps,        \* per slot, the temperatures it is given
  Spare,        \* free bytes cleanup does not count
  SplitWorth,   \* bytes a block must have in excess for cleanup to split it
  Needs         \* numbers of bytes cleanup is asked for

ASSUME ArenaAssumption ==
  /\ Unit \in Nat \ {0} /\ Words \in Nat \ {0} /\ Limit \in [Slots -> Nat]
  /\ Marks \subseteq BOOLEAN /\ Spare \in Nat /\ SplitWorth \in Nat /\ Needs \subseteq Nat
  /\ AddAt \cup MoveTo \subseteq {"canonical", "ephemeral", "remote"}
  /\ Temps \in [Slots -> SUBSET {"cold", "warm", "hot"}]

VARIABLES
  heap,         \* the blocks, first to last
  cache,        \* per slot, the address its first block was last found at, or None
  job           \* cleanup: its stage and how much it still has to free, or None

vars == <<heap, cache, job>>

Empty == "empty"
Places == {"canonical", "ephemeral", "remote"}

-----------------------------------------------------------------------------
(* Blocks                                                                  *)

Ceil(n) == (n + Unit - 1) \div Unit

Used(b) == b.slot # Empty
Remote(b) == Used(b) /\ b.loc = "remote"

\* total_size, in words.
Extent(b) == IF Remote(b) THEN 1 ELSE 1 + Ceil(b.size)

Free(w) == [slot |-> Empty, size |-> (w - 1) * Unit, temp |-> "cold",
            loc |-> "canonical", dirty |-> FALSE, last |-> FALSE, data |-> <<>>]
Room(w) == IF w = 0 THEN <<>> ELSE <<Free(w)>>

\* The part of a block from one offset to another, with its kind of data.
Part(b, from, to) ==
  [b EXCEPT !.size = to - from, !.data = IF Remote(b) THEN <<>> ELSE SubSeq(@, from + 1, to)]

Total(blocks) == FoldLeft(LAMBDA n, b : n + Extent(b), 0, blocks)
Bytes(blocks) == FoldLeft(LAMBDA n, b : n + b.size, 0, blocks)

\* The words of the empty blocks (free_space).
FreeWords(blocks) == Total(SelectSeq(blocks, LAMBDA b : ~Used(b)))

Addr(h, i) == Total(SubSeq(h, 1, i - 1))

\* The blocks h[from..to] replaced by others.
Splice(h, from, to, blocks) == SubSeq(h, 1, from - 1) \o blocks \o SubSeq(h, to + 1, Len(h))

\* A slot's blocks as next() finds them: the last one stops the search.
Chain(h, s) ==
  {i \in DOMAIN h : h[i].slot = s
     /\ \A j \in 1..(i-1) : h[j].slot = s => ~h[j].last}
Present(h, s) == \E i \in DOMAIN h : h[i].slot = s
FirstOf(h, s) == Min(Chain(h, s))
LastOf(h, s) == Max(Chain(h, s))
Blocks(h, s) == SelectSeq(h, LAMBDA b : b.slot = s)
Size(h, s) == Bytes(Blocks(h, s))

\* block_offset, and the block a byte is in.
Offset(h, i) == Bytes(Blocks(SubSeq(h, 1, i - 1), h[i].slot))
Containing(h, s, off) ==
  CHOOSE i \in DOMAIN h : h[i].slot = s /\ off \in Offset(h, i) .. Offset(h, i) + h[i].size - 1

-----------------------------------------------------------------------------
(* The operations work on an arena a: its blocks h, its cache c, and       *)
(* whether all went well so far.                                           *)

\* get() remembers where it found the slot, or that it found the end.
Cached(a, s) ==
  IF a.c[s] # None THEN a
  ELSE [a EXCEPT !.c[s] = IF Present(a.h, s) THEN Addr(a.h, FirstOf(a.h, s)) ELSE Total(a.h)]
Evicted(a, s) == [a EXCEPT !.c[s] = None]
AllEvicted(a) == [a EXCEPT !.c = [s \in Slots |-> None]]

Invalidated_Never(a, i, j) == a

\* invalidate: the blocks i..j are about to move.
Invalidated(a, i, j) ==
  [a EXCEPT !.c = [s \in Slots |->
     IF \E k \in i..j : a.h[k].slot = s /\ a.c[s] = Addr(a.h, k) THEN None ELSE a.c[s]]]

\* make_space_after: an empty block of w words directly behind block i, its words
\* taken from the nearest empty blocks, whatever lies between shifted back.
MakeSpace(a, i, w) ==
  LET take(acc, b) ==
        IF Used(b) \/ acc.need = 0
        THEN [acc EXCEPT !.out = Append(@, b), !.seen = @ + 1]
        ELSE LET t == Min({acc.need, Extent(b)})
             IN  [need |-> acc.need - t, out |-> acc.out \o Room(Extent(b) - t),
                  seen |-> acc.seen + 1, upto |-> i + acc.seen + 1]
      got == FoldLeft(take, [need |-> w, out |-> <<>>, seen |-> 0, upto |-> i],
                      SubSeq(a.h, i + 1, Len(a.h)))
      fits == i < Len(a.h) /\ ~Used(a.h[i + 1]) /\ Extent(a.h[i + 1]) >= w
      kept == IF fits \/ got.upto = i THEN a ELSE Invalidated(a, i, got.upto - 1)
  IN  [kept EXCEPT !.h = SubSeq(@, 1, i) \o Room(w - got.need) \o got.out,
                   !.ok = got.need = 0]

\* split_block: block i ends at off, the rest gets a header of its own.
SplitWith(m, i, b, off) ==
  IF ~m.ok THEN m
  ELSE [m EXCEPT !.h = Splice(@, i, i + 1,
          <<[Part(b, 0, off) EXCEPT !.last = FALSE], Part(b, off, b.size)>>)]
SplitBlock(a, i, b, off) ==
  SplitWith(MakeSpace(a, i, IF Remote(b) THEN 1
                            ELSE 1 + Ceil(off) + Ceil(b.size - off) - Ceil(b.size)),
            i, b, off)
SplitAt(a, i, at, cut) ==
  IF cut \in {at, at + a.h[i].size} THEN a ELSE SplitBlock(a, i, a.h[i], cut - at)

\* Split the block that holds byte off of a slot at another of its bytes, if need be.
Cut(a, i, cut) == SplitAt(a, i, Offset(a.h, i), cut)

\* Cut the block that holds the bytes off..end-1 so that they are a block.
Isolate(a, s, off, end) ==
  LET back(f) == IF f.ok THEN Cut(f, Containing(f.h, s, off), end) ELSE f
  IN  back(Cut(a, Containing(a.h, s, off), off))

\* set_location of a whole block; m is the arena with space for its data behind it.
RelocateWith(z, m, i, b, loc) ==
  IF ~z.ok \/ b.loc = loc THEN z
  ELSE IF loc = "remote"
  THEN [z EXCEPT !.h = Splice(@, i, i, <<[b EXCEPT !.loc = loc, !.data = <<>>]>>
                                         \o Room(Ceil(b.size)))]
  ELSE IF b.loc # "remote" THEN [z EXCEPT !.h[i].loc = loc]
  ELSE IF ~m.ok THEN m
  \* the old header stays behind, as an empty block
  ELSE [m EXCEPT !.h = Splice(@, i, i + 1,
          <<Free(1), [b EXCEPT !.loc = loc, !.data = [k \in 1..b.size |-> Junk]]>>)]
RelocateBlock(z, i, loc) ==
  RelocateWith(z, MakeSpace(Invalidated(z, i, i), i, 1 + Ceil(z.h[i].size)), i, z.h[i], loc)

\* set_location within one block.
Relocate(a, s, off, end, loc) ==
  LET whole(z) == RelocateBlock(z, Containing(z.h, s, off), loc)
  IN  whole(Isolate(a, s, off, end))

\* The bytes off..end-1 block by block.
Pieces(h, s, off, end) ==
  LET hit == SelectSeq([i \in DOMAIN h |-> i],
               LAMBDA i : h[i].slot = s /\ Offset(h, i) < end /\ Offset(h, i) + h[i].size > off
                          /\ h[i].size > 0)
  IN  [k \in DOMAIN hit |->
         <<Max({off, Offset(h, hit[k])}), Min({end, Offset(h, hit[k]) + h[hit[k]].size})>>]

\* Both functions recurse on the next block, and stop at the first failure.
EachPiece(a, s, off, end, op(_, _)) ==
  FoldLeft(LAMBDA x, p : IF x.ok THEN op(x, p) ELSE x, a, Pieces(a.h, s, off, end))

SetLocation(a, s, off, end, loc) ==
  EachPiece(a, s, off, end, LAMBDA x, p : Relocate(x, s, p[1], p[2], loc))

\* memcpy into one block.  A remote one is made ephemeral first.
Patched(x, i, at, off, end, v, mark) ==
  [x EXCEPT !.h[i].data = [k \in DOMAIN @ |->
              IF k \in off - at + 1 .. end - at THEN v ELSE @[k]],
            !.h[i].dirty = @ \/ mark]
Patch(a, s, off, end, v, mark) ==
  LET was == a.h[Containing(a.h, s, off)].loc
      write(x, i) == IF ~x.ok THEN x
                     ELSE Patched(x, i, Offset(x.h, i), off, end, v, mark \/ was = "remote")
      at(x) == write(x, Containing(x.h, s, off))
  IN  at(IF was = "remote" THEN Relocate(a, s, off, end, "ephemeral") ELSE a)

\* update_contents.  The halves of an update that crosses blocks always mark.
UpdateContents(a, s, off, end, v, mark) ==
  LET crosses == Len(Pieces(a.h, s, off, end)) > 1
  IN  EachPiece(a, s, off, end, LAMBDA x, p : Patch(x, s, p[1], p[2], v, mark \/ crosses))

-----------------------------------------------------------------------------
(* add_block, truncate_contents, homogenize, defrag                        *)

AddBlock(a, s, loc, n) ==
  LET here == Present(a.h, s)
      x == IF here THEN Cached(a, s) ELSE Evicted(a, s)
      b == [slot |-> s, size |-> n, temp |-> IF here THEN a.h[FirstOf(a.h, s)].temp ELSE "cold",
            loc |-> loc, dirty |-> FALSE, last |-> TRUE,
            data |-> IF loc = "remote" THEN <<>> ELSE [k \in 1..n |-> Junk]]
      behind == IF here THEN LastOf(a.h, s) ELSE 0
      holes == {k \in DOMAIN a.h : k > behind /\ ~Used(a.h[k]) /\ Extent(b) <= Extent(a.h[k])}
      space == FreeWords(IF here THEN SubSeq(a.h, FirstOf(a.h, s), Len(a.h)) ELSE a.h) * Unit
      k == Min(holes)
      old == IF here THEN [a.h EXCEPT ![behind].last = FALSE] ELSE a.h
  IN  IF holes = {} \/ Unit + (IF loc = "remote" THEN 0 ELSE n) > space
      THEN [x EXCEPT !.ok = FALSE]
      ELSE [x EXCEPT !.h = Splice(old, k, k, <<b>> \o Room(Extent(a.h[k]) - Extent(b)))]

\* What is left of block i when its slot is cut to n bytes.  A first block that is
\* not cold stays, to keep the temperature.
Remains(h, i, n) ==
  LET b == h[i]
      at == Offset(h, i)
      gone == at + b.size > n
      whole == at >= n /\ (i # FirstOf(h, b.slot) \/ b.temp = "cold")
      short == Part(b, 0, Max({0, n - at}))
  IN  IF ~gone THEN <<b>>
      ELSE IF whole THEN <<Free(Extent(b))>>
      ELSE <<short>> \o Room(Extent(b) - Extent(short))

Reflagged_Never(h, s) == h

\* The flag that ends the search moves to the last block that remains.
Reflagged(h, s) ==
  [i \in DOMAIN h |-> IF h[i].slot = s
     THEN [h[i] EXCEPT !.last = i = Max({j \in DOMAIN h : h[j].slot = s})] ELSE h[i]]

TruncateContents(a, s, n) ==
  LET x == Cached(a, s)
      parts == [i \in DOMAIN a.h |->
                  IF i \in Chain(a.h, s) THEN Remains(a.h, i, n) ELSE <<a.h[i]>>]
      y == [x EXCEPT !.h = Reflagged(FlattenSeq(parts), s)]
      f == FirstOf(a.h, s)
  IN  IF ~Present(a.h, s) THEN a
      ELSE IF Size(a.h, s) < n THEN [a EXCEPT !.ok = FALSE]
      \* a remote first block is dropped without a word to the cache
      ELSE Cached(IF Used(parts[f][1]) \/ Remote(a.h[f]) THEN y ELSE Evicted(y, s), s)

\* Placeholders: remote blocks of no bytes.  The loop skips the one behind one it drops.
Placeholders(h, s) ==
  LET row == SetToSortSeq(Chain(h, s), <)
      drop[k \in 1..Len(row)] ==
        /\ k < Len(row) /\ h[row[k]].loc = "remote" /\ h[row[k]].size = 0
        /\ (k > 1 => ~drop[k - 1])
  IN  {row[k] : k \in {j \in 1..Len(row) : drop[j]}}

Dropped(h, I) == [i \in DOMAIN h |-> IF i \in I THEN Free(Extent(h[i])) ELSE h[i]]

Merged_Swapped(x, y) ==
  [x EXCEPT !.size = @ + y.size, !.data = y.data \o @, !.last = x.last \/ y.last]
Merged(x, y) ==
  [x EXCEPT !.size = @ + y.size, !.data = @ \o y.data, !.last = x.last \/ y.last]

\* Adjacent blocks of one place become one; the words saved are left behind it.
Merge(row) ==
  LET add(acc, y) ==
        LET x == Last(acc.run) IN
        IF acc.run # <<>> /\ x.loc = y.loc
        THEN [run |-> Append(Front(acc.run), Merged(x, y)),
              spare |-> Room(Extent(x) + Extent(y) - Extent(Merged(x, y))) \o acc.spare]
        ELSE [acc EXCEPT !.run = Append(@, y)]
  IN  FoldLeft(add, [run |-> <<>>, spare |-> <<>>], row)

\* homogenize: the slot's blocks gathered behind the first, and merged.
Homogenize(a, s) ==
  LET x == Cached(a, s)
      ph == Placeholders(a.h, s)
      y == FoldSet(LAMBDA i, z : Invalidated(z, i, i), x, ph)
      h == Dropped(a.h, ph)
      f == FirstOf(h, s)
      l == LastOf(h, s)
      m == Merge(SelectSeq(SubSeq(h, f, l), LAMBDA b : b.slot = s))
      between == SelectSeq(SubSeq(h, f, l), LAMBDA b : b.slot # s)
      z == Invalidated(Cached([y EXCEPT !.h = h], s), f + 1, l - 1)
  IN  IF ~Present(a.h, s) THEN x
      ELSE [z EXCEPT !.h = SubSeq(h, 1, f - 1) \o m.run \o m.spare \o between
                           \o SubSeq(h, l + 1, Len(h))]

\* Neighbouring empty blocks become one.
Condensed(h) ==
  FoldLeft(LAMBDA out, b :
             IF ~Used(b) /\ out # <<>> /\ ~Used(Last(out))
             THEN Append(Front(out), Free(Extent(Last(out)) + Extent(b)))
             ELSE Append(out, b), <<>>, h)

\* All space goes to the end, unless every empty block is a bare header: then
\* get() does not find them.
Compacted(h) ==
  IF \A i \in DOMAIN h : Used(h[i]) \/ h[i].size = 0 THEN h
  ELSE SelectSeq(h, Used) \o <<Free(FreeWords(h))>>

Defrag(a) ==
  LET bare == Dropped(a.h, {i \in DOMAIN a.h : Used(a.h[i]) /\ a.h[i].size = 0
                              /\ i \in Chain(a.h, a.h[i].slot) \ {LastOf(a.h, a.h[i].slot)}})
      order == SelectSeq([i \in DOMAIN bare |-> bare[i].slot], LAMBDA s : s # Empty)
      whole == FoldLeft(Homogenize, AllEvicted([a EXCEPT !.h = bare]), order)
  IN  AllEvicted([whole EXCEPT !.h = Compacted(Condensed(@))])

-----------------------------------------------------------------------------
(* The operations, as the two processors call them.                        *)

Here == [h |-> heap, c |-> cache, ok |-> TRUE]
Becomes(a) == heap' = a.h /\ cache' = a.c /\ UNCHANGED job

Init ==
  /\ heap = <<Free(Words)>>
  /\ cache = [s \in Slots |-> None]
  /\ job = None

\* A block of no bytes only to give a new slot a temperature.
Add(s, loc, n) ==
  /\ n > 0 \/ ~Present(heap, s)
  /\ Size(heap, s) + n <= Limit[s]
  /\ Becomes(AddBlock(Here, s, loc, n))

Update(s, off, end, v, mark) ==
  /\ off < end /\ end <= Size(heap, s)
  /\ Becomes(UpdateContents(Here, s, off, end, v, mark))

SetPlace(s, off, end, loc) ==
  /\ off < end /\ end <= Size(heap, s)
  /\ Becomes(SetLocation(Here, s, off, end, loc))

SetTemperature(s, t) ==
  /\ Present(heap, s)
  /\ Becomes([Cached(Here, s) EXCEPT !.h =
       [i \in DOMAIN heap |-> IF i \in Chain(heap, s) THEN [heap[i] EXCEPT !.temp = t]
                              ELSE heap[i]]])

Truncate(s, n) == Present(heap, s) /\ Becomes(TruncateContents(Here, s, n))

HomogenizeSlot(s) == Becomes(Homogenize(Here, s))

DefragArena == Becomes(Defrag(Here))

EnsureSingleBlock(s, off, end) ==
  /\ off < end /\ end <= Size(heap, s)
  /\ Containing(heap, s, off) = Containing(heap, s, end - 1)
  /\ Becomes(Isolate(Here, s, off, end))

\* slot_dirty: a screen sees the change, once.
TakeDirty(s) ==
  /\ \E i \in Chain(heap, s) : heap[i].dirty
  /\ Becomes([Cached(Here, s) EXCEPT !.h =
       [i \in DOMAIN heap |-> IF i \in Chain(heap, s) THEN [heap[i] EXCEPT !.dirty = FALSE]
                              ELSE heap[i]]])

Look(s) == Becomes(Cached(Here, s))

\* A bucket of the cache is full and another slot pushes this one out.
PushOut(s) == Becomes(Evicted(Here, s))

\* try_cleanup_heap, from its first defragmentation.
BeyondSpare(free) == IF free < Spare THEN 0 ELSE free - Spare
JobFor(need, space) ==
  IF need < space THEN None ELSE [stage |-> 0, need |-> need - space, space |-> space]
Begun(a, need) ==
  /\ heap' = a.h /\ cache' = a.c
  /\ job' = JobFor(need, BeyondSpare(FreeWords(a.h) * Unit))
StartCleanup(need) == Begun(Defrag(Here), need)

Victims_AnyTemperature ==
  {i \in DOMAIN heap :
     LET b == heap[i] IN
     /\ Used(b) /\ b.loc = "ephemeral" /\ b.size > 0
     /\ job.stage % 4 \in {2, 3} \/ cache[b.slot] = None
     /\ job.stage % 2 = 1 \/ b.size >= job.need}

\* What a stage may drop: cold then warm, not looked at lately first, large first.
Victims ==
  {i \in DOMAIN heap :
     LET b == heap[i] IN
     /\ Used(b) /\ b.loc = "ephemeral" /\ b.size > 0
     /\ b.temp = IF job.stage \in 4..7 THEN "warm" ELSE "cold"
     /\ job.stage % 4 \in {2, 3} \/ cache[b.slot] = None
     /\ job.stage % 2 = 1 \/ b.size >= job.need}

\* One block, or its front, is given up: the ESP is told first, and sends it again
\* when there is space.
DropOne ==
  /\ job # None /\ Victims # {}
  /\ LET i == Min(Victims)
         b == heap[i]
         off == Offset(heap, i)
         len == IF b.size >= job.need + SplitWorth THEN job.need ELSE b.size
         freed == len + IF len % Unit = 0 THEN Unit ELSE 0
         a == SetLocation(Here, b.slot, off, off + len, "remote")
     IN  /\ heap' = a.h /\ cache' = a.c
         /\ job' = IF freed >= job.need THEN None
                   ELSE [job EXCEPT !.need = @ - freed, !.space = @ + freed]

\* free_space(FreeSpaceDefrag): what a defragmentation is thought to yield.
DefragYield(h) ==
  LET again(i) == \E j \in Chain(h, h[i].slot) :
        /\ j > i /\ h[j].loc = h[i].loc
        /\ \A k \in Chain(h, h[i].slot) : k <= i \/ k >= j
      saved == {i \in DOMAIN h : Used(h[i]) /\ h[i].loc = "canonical" /\ h[i].size = 0}
      joined == {i \in DOMAIN h : Used(h[i]) /\ again(i)}
  IN  FreeWords(h) + Cardinality(saved) + Cardinality(joined)

\* Nothing left for this stage.  The subtraction is unsigned: it counts as plenty
\* when the space came out smaller than reckoned.
Plenty(yield) == yield < job.space \/ yield - job.space >= job.need
NextStage ==
  /\ job # None /\ Victims = {}
  /\ IF Plenty(DefragYield(heap) * Unit) \/ job.stage = 7
     THEN /\ job' = None
          /\ LET a == Defrag(Here) IN heap' = a.h /\ cache' = a.c
     ELSE job' = [job EXCEPT !.stage = @ + 1] /\ UNCHANGED <<heap, cache>>

-----------------------------------------------------------------------------
Store(s) ==
  \/ \E loc \in AddAt, n \in 0..Limit[s] : Add(s, loc, n)
  \/ \E off, end \in 0..Limit[s], v \in Values, mark \in Marks : Update(s, off, end, v, mark)
  \/ \E n \in 0..Limit[s] : Truncate(s, n)
  \/ \E off, end \in 0..Limit[s], loc \in MoveTo : SetPlace(s, off, end, loc)

Arrange(s) ==
  \/ \E t \in Temps[s] : SetTemperature(s, t)
  \/ HomogenizeSlot(s)
  \/ \E off, end \in 0..Limit[s] : EnsureSingleBlock(s, off, end)

Read(s) == TakeDirty(s) \/ Look(s) \/ PushOut(s)

Cleanup == DropOne \/ NextStage

\* The display's lock keeps everyone else out while it cleans up.
Next ==
  \/ job = None /\ \E s \in Slots : Store(s) \/ Arrange(s) \/ Read(s)
  \/ job = None /\ (DefragArena \/ \E need \in Needs : StartCleanup(need))
  \/ Cleanup

Spec == Init /\ [][Next]_vars

-----------------------------------------------------------------------------
(* Properties                                                              *)

TypeOK ==
  /\ \A i \in DOMAIN heap :
       /\ heap[i].slot \in Slots \cup {Empty} /\ heap[i].temp \in {"cold", "warm", "hot"}
       /\ heap[i].loc \in Places /\ heap[i].size \in Nat
       /\ heap[i].dirty \in BOOLEAN /\ heap[i].last \in BOOLEAN
       /\ Used(heap[i]) =>
            /\ Len(heap[i].data) = IF Remote(heap[i]) THEN 0 ELSE heap[i].size
            /\ \A k \in DOMAIN heap[i].data : heap[i].data[k] \in Values \cup {Junk}
  /\ cache \in [Slots -> 0..Words \cup {None}]
  /\ job # None => job.stage \in 0..7 /\ job.need \in Nat /\ job.space \in Nat

\* The blocks fill the array to its end block, whatever was split, merged or moved.
Tiles == Total(heap) = Words

\* The search for a slot's blocks ends with its last one: none is left behind it,
\* and the search does not run through the whole arena.
Linked ==
  \A s \in Slots : Present(heap, s) =>
    \A i \in DOMAIN heap : heap[i].slot = s =>
      (heap[i].last <=> \A j \in DOMAIN heap : heap[j].slot = s => j <= i)

\* All blocks of a slot have its temperature.
OneTemperature ==
  \A i, j \in DOMAIN heap : Used(heap[i]) /\ heap[i].slot = heap[j].slot
                              => heap[i].temp = heap[j].temp

WellFormed == TypeOK /\ Tiles /\ Linked /\ OneTemperature

\* A slot that is present is where the cache says.
CacheFresh ==
  \A s \in Slots : Present(heap, s) /\ cache[s] # None => cache[s] = Addr(heap, FirstOf(heap, s))

\* The users see a map of slots to bytes (SlotMap).
Contents(b) ==
  [k \in 1..b.size |-> [loc |-> b.loc, val |-> IF Remote(b) THEN Away ELSE b.data[k]]]
content == [s \in Slots |-> FlattenSeq([i \in DOMAIN heap |->
                              IF heap[i].slot = s THEN Contents(heap[i]) ELSE <<>>])]
Map == INSTANCE SlotMap WITH content <- content
KeepsSlots == Map!Spec

\* Cleanup gives up only what the ESP sends again, and nothing warm while there is
\* something cold to give up.
CleanupSpares ==
  [][job # None =>
       LET old == content
           new == content'
           temp(s) == heap[FirstOf(heap, s)].temp
           coldLeft == \E t \in Slots : \E k \in DOMAIN old[t] :
                         temp(t) = "cold" /\ old[t][k].loc = "ephemeral"
       IN  \A s \in Slots : \A k \in DOMAIN old[s] :
             old[s][k] # new[s][k] =>
               /\ old[s][k].loc = "ephemeral" /\ new[s][k].loc = "remote"
               /\ temp(s) = "cold" \/ (temp(s) = "warm" /\ ~coldLeft)]_vars
=============================================================================
