------------------------------- MODULE Chunks -------------------------------
(***************************************************************************)
(* The chunk table and the free lists of the two schedulers                *)
(* (src/schedule/scheduler/common.rs), as functions from the tables before *)
(* a call to the tables after it.  ChunkAllocator states the discipline    *)
(* these calls need; MemoryAware is a caller.                              *)
(*                                                                         *)
(* The schedulers open at most one arena per memory tier, so an arena is   *)
(* named here by its tier.  Chunk ids start at 1.                          *)
(***************************************************************************)
EXTENDS Naturals, Sequences

CONSTANTS
  Tier,    (* the memory tiers, one arena each        *)
  Stream,  (* the streams a free list can belong to   *)
  Align    (* ALIGNMENT, 256 bytes in the code        *)

ASSUME AlignAssumption == Align \in Nat \ {0}

NoChunk == 0

(* ChunkState: its arena, its size so far and the reads still to come. *)
ChunkState == [tier : Tier, size : Nat, live : Nat]

(* One free list per arena and stream. *)
FreeList == Tier \X Stream
TierOf(l) == l[1]

(***************************************************************************)
(* What each method computes, on the chunk table and the free lists.       *)
(***************************************************************************)

(* ArenaChunks::new: every stream's free list starts empty. *)
NoFree == [l \in FreeList |-> <<>>]

(* ChunkAllocator::free *)
FreeOn(fr, ch, c, s) ==
  [fr EXCEPT ![<<ch[c].tier, s>>] = Append(@, c)]

(* The chunk an allocation gets: the last of the stream's free list, else *)
(* a new one.                                                             *)
NextChunk(ch, fr, t, s) ==
  IF fr[<<t, s>>] # <<>> THEN fr[<<t, s>>][Len(fr[<<t, s>>])]
                         ELSE Len(ch) + 1

PopFree(fr, t, s) ==
  IF fr[<<t, s>>] # <<>>
  THEN [fr EXCEPT ![<<t, s>>] = SubSeq(@, 1, Len(@) - 1)]
  ELSE fr

(* Mutants of AllocChunks: the arena and the stream are swapped; a reused *)
(* chunk takes the size of its new value.                                 *)
AllocChunks_Swapped(ch, fr, t, s, size, uses) ==
  LET c == NextChunk(ch, fr, t, s)
  IN  IF c > Len(ch)
      THEN Append(ch, [tier |-> s, size |-> size, live |-> uses])
      ELSE [ch EXCEPT ![c].live = @ + uses]

AllocChunks_Shrink(ch, fr, t, s, size, uses) ==
  LET c == NextChunk(ch, fr, t, s)
  IN  IF c > Len(ch)
      THEN Append(ch, [tier |-> t, size |-> size, live |-> uses])
      ELSE [ch EXCEPT ![c].size = size, ![c].live = @ + uses]

(* ChunkAllocator::alloc: a reused chunk keeps its larger size. *)
AllocChunks(ch, fr, t, s, size, uses) ==
  LET c == NextChunk(ch, fr, t, s)
  IN  IF c > Len(ch)
      THEN Append(ch, [tier |-> t, size |-> size, live |-> uses])
      ELSE [ch EXCEPT ![c] = [tier |-> ch[c].tier,
                              size |-> IF size > ch[c].size THEN size
                                                            ELSE ch[c].size,
                              live |-> ch[c].live + uses]]

(* ChunkAllocator::add_uses *)
AddUsesTo(ch, c, n) == [ch EXCEPT ![c].live = @ + n]

(* ChunkAllocator::consume counts one read down (saturating) ... *)
Decrement(n) == IF n = 0 THEN 0 ELSE n - 1

ConsumeIn(ch, c) == [ch EXCEPT ![c].live = Decrement(@)]

(* Mutant of FreeIfDead: the chunk is never freed. *)
FreeIfDead_Never(fr, ch, c, s) == fr

(* ... and, like release_if_dead, frees the chunk on the caller's stream  *)
(* when no read is left.                                                  *)
FreeIfDead(fr, ch, c, s) ==
  IF ch[c].live = 0 THEN FreeOn(fr, ch, c, s) ELSE fr

(* Mutant of AlignUp: rounds down. *)
AlignUp_Down(n) == (n \div Align) * Align

(* align_up *)
AlignUp(n) == ((n + Align - 1) \div Align) * Align

(* into_plan packs the chunks an arena owns one after the other, in the    *)
(* order of their creation, each start aligned: the offset of chunk c.     *)
OffsetOf(ch, c) ==
  LET end[d \in 0..Len(ch)] ==
        IF d = 0 THEN 0
        ELSE end[d - 1] + (IF ch[d].tier = ch[c].tier
                           THEN AlignUp(ch[d].size) ELSE 0)
  IN  end[c - 1]
=============================================================================
