-------------------------- MODULE MC_ChunkAllocator --------------------------
(* ChunkAllocator on two tiers and two streams.  The chunk table and the     *)
(* live uses grow without bound in the code; MaxChunks and MaxLive cap them. *)
EXTENDS ChunkAllocator

CONSTANTS MaxChunks, MaxLive

Bounded ==
  /\ Len(chunks) <= MaxChunks
  /\ \A c \in 1..Len(chunks) : chunks[c].live <= MaxLive

MCNext == Next /\ Bounded'

MCSpec == Init /\ [][MCNext]_vars
=============================================================================
