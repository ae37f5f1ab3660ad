--------------------------- MODULE ChunkAllocator ---------------------------
(***************************************************************************)
(* The chunk allocator of the two schedulers                               *)
(* (src/schedule/scheduler/common.rs).  At planning time it hands out      *)
(* chunks, the reusable slots of an arena: a chunk counts the reads that   *)
(* are still to come ("live uses") and, once that count reaches zero,      *)
(* waits on the free list of one stream of its arena, from whose end the   *)
(* next allocation on that stream pops it.                                 *)
(*                                                                         *)
(* The allocator checks nothing itself: a consume of a dead chunk          *)
(* saturates and frees it a second time.  Next states the discipline its   *)
(* callers must keep, and the invariants say what that discipline buys.    *)
(* MemoryAware is shown to keep it.                                        *)
(***************************************************************************)
EXTENDS Chunks

CONSTANTS
  Size,    (* the sizes in bytes a caller asks for    *)
  Use      (* the use counts a caller registers       *)

ASSUME SizeAssumption == Size \subseteq Nat
ASSUME UseAssumption  == Use \subseteq Nat

-----------------------------------------------------------------------------

VARIABLES
  chunks,  (* all_chunks                                             *)
  free,    (* arena2chunks[_].free_per_stream                        *)
  fresh    (* a chunk allocated without uses and not yet released,   *)
           (* or NoChunk: it is on no free list although it is dead  *)

vars == <<chunks, free, fresh>>

Init ==
  /\ chunks = <<>>
  /\ free = NoFree
  /\ fresh = NoChunk

(* A chunk its caller may still speak of. *)
Held(c) == c \in DOMAIN chunks /\ (chunks[c].live > 0 \/ c = fresh)

(* A chunk that was allocated without uses must be released (or get uses) *)
(* before the next allocation.                                            *)
Alloc(t, s, size, uses) ==
  /\ fresh = NoChunk
  /\ chunks' = AllocChunks(chunks, free, t, s, size, uses)
  /\ free' = PopFree(free, t, s)
  /\ fresh' = IF uses = 0 THEN NextChunk(chunks, free, t, s) ELSE NoChunk

AddUses(c, n) ==
  /\ Held(c)
  /\ chunks' = AddUsesTo(chunks, c, n)
  /\ fresh' = IF c = fresh /\ n > 0 THEN NoChunk ELSE fresh
  /\ UNCHANGED free

ReleaseIfDead(c, s) ==
  /\ Held(c)
  /\ free' = FreeIfDead(free, chunks, c, s)
  /\ fresh' = IF c = fresh THEN NoChunk ELSE fresh
  /\ UNCHANGED chunks

Consume(c, s) ==
  /\ c \in DOMAIN chunks /\ chunks[c].live > 0
  /\ chunks' = ConsumeIn(chunks, c)
  /\ free' = FreeIfDead(free, chunks', c, s)
  /\ UNCHANGED fresh

Next ==
  \/ \E t \in Tier, s \in Stream, size \in Size, uses \in Use :
        Alloc(t, s, size, uses)
  \/ \E c \in DOMAIN chunks, n \in Use : AddUses(c, n)
  \/ \E c \in DOMAIN chunks, s \in Stream : ReleaseIfDead(c, s)
  \/ \E c \in DOMAIN chunks, s \in Stream : Consume(c, s)

Spec == Init /\ [][Next]_vars

-----------------------------------------------------------------------------

TypeOK ==
  /\ chunks \in Seq(ChunkState)
  /\ free \in [FreeList -> Seq(Nat)]
  /\ fresh \in Nat

(* c is somewhere on the free list l. *)
OnList(c, l) == \E i \in 1..Len(free[l]) : free[l][i] = c
OnAFreeList(c) == \E l \in FreeList : OnList(c, l)

(* A chunk that waits for reuse has no read to come: handing it out again *)
(* cannot overwrite a value some planned kernel still reads               *)
(* (consume, release_if_dead).                                            *)
FreeChunksAreDead ==
  \A l \in FreeList : \A i \in 1..Len(free[l]) :
     /\ free[l][i] \in 1..Len(chunks)
     /\ chunks[free[l][i]].live = 0
     /\ chunks[free[l][i]].tier = TierOf(l)

(* No chunk waits twice, on one list or on the lists of two streams: two  *)
(* allocations never get the same slot at once (free has no such check).  *)
NoDoubleFree ==
  \A l, m \in FreeList :
     \A i \in 1..Len(free[l]), j \in 1..Len(free[m]) :
        free[l][i] = free[m][j] => l = m /\ i = j

(* A dead chunk always comes back: only the one being bound right now is  *)
(* on no list.  This is the leak release_if_dead was added against.       *)
DeadChunksAreFree ==
  \A c \in 1..Len(chunks) :
     chunks[c].live = 0 /\ c # fresh => OnAFreeList(c)

(* The chunk being bound is dead and on no list. *)
FreshIsDead ==
  fresh # NoChunk =>
    /\ fresh \in 1..Len(chunks)
    /\ chunks[fresh].live = 0
    /\ ~ OnAFreeList(fresh)

(* The free lists and the live uses agree: what waits is dead, waits once, *)
(* and whatever is dead waits, but for the chunk being bound (alloc,       *)
(* add_uses, release_if_dead, consume).                                    *)
FreeListsTrue ==
  FreeChunksAreDead /\ NoDoubleFree /\ DeadChunksAreFree /\ FreshIsDead

(* Slots only ever grow, so an offset computed from the final sizes fits   *)
(* every value the slot has held, and a slot never moves to another arena  *)
(* (alloc).                                                                *)
SlotsGrow ==
  /\ Len(chunks') >= Len(chunks)
  /\ \A c \in 1..Len(chunks) :
       /\ chunks'[c].size >= chunks[c].size
       /\ chunks'[c].tier = chunks[c].tier
ChunksOnlyGrow == [][SlotsGrow]_vars

(* The arena layout computed from the table gives every chunk an aligned   *)
(* byte range of its own: two live values of one arena never overlap       *)
(* (into_plan, align_up).                                                  *)
SlotsDisjoint ==
  \A c \in 1..Len(chunks) :
     /\ OffsetOf(chunks, c) % Align = 0
     /\ \A d \in 1..Len(chunks) :
          d < c /\ chunks[d].tier = chunks[c].tier =>
            OffsetOf(chunks, d) + chunks[d].size <= OffsetOf(chunks, c)
=============================================================================
