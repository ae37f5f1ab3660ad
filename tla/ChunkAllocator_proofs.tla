------------------------ MODULE ChunkAllocator_proofs ------------------------
(***************************************************************************)
(* ChunkAllocator's invariants hold for every set of tiers, streams, sizes *)
(* and use counts, and whatever the number of chunks: its discipline is    *)
(* enough for the allocator never to have a live chunk, or one chunk       *)
(* twice, among those it may hand out.                                     *)
(***************************************************************************)
EXTENDS ChunkAllocator, Induction, SequenceTheorems, TLAPS

IInv ==
  /\ TypeOK
  /\ FreeChunksAreDead
  /\ NoDoubleFree
  /\ DeadChunksAreFree
  /\ FreshIsDead

-----------------------------------------------------------------------------
(* Sequences.                                                              *)

LEMMA PrefixFacts ==
  ASSUME NEW s \in Seq(Nat), NEW n \in Nat, n <= Len(s)
  PROVE  /\ SubSeq(s, 1, n) \in Seq(Nat)
         /\ Len(SubSeq(s, 1, n)) = n
         /\ \A i \in 1..n : SubSeq(s, 1, n)[i] = s[i]
  BY SMT

LEMMA FrontFacts ==
  ASSUME NEW s \in Seq(Nat), s # <<>>
  PROVE  /\ Len(s) \in Nat \ {0}
         /\ s[Len(s)] \in Nat
         /\ SubSeq(s, 1, Len(s) - 1) \in Seq(Nat)
         /\ Len(SubSeq(s, 1, Len(s) - 1)) = Len(s) - 1
         /\ \A i \in 1..(Len(s) - 1) : SubSeq(s, 1, Len(s) - 1)[i] = s[i]
<1>1. Len(s) \in Nat \ {0} /\ s[Len(s)] \in Nat
  BY EmptySeq, SMT
<1>2. Len(s) - 1 \in Nat /\ Len(s) - 1 <= Len(s)
  BY <1>1
<1> QED BY <1>1, <1>2, PrefixFacts

(* An id pushed on one of the free lists.                                  *)
LEMMA PushFacts ==
  ASSUME NEW fr \in [FreeList -> Seq(Nat)], NEW l \in FreeList, NEW c \in Nat,
         NEW fr2, fr2 = [fr EXCEPT ![l] = Append(@, c)]
  PROVE  /\ fr2 \in [FreeList -> Seq(Nat)]
         /\ Len(fr2[l]) = Len(fr[l]) + 1
         /\ \A i \in 1..Len(fr[l]) : fr2[l][i] = fr[l][i]
         /\ fr2[l][Len(fr[l]) + 1] = c
         /\ \A m \in FreeList \ {l} : fr2[m] = fr[m]
<1>1. fr[l] \in Seq(Nat) /\ fr2[l] = Append(fr[l], c)
  OBVIOUS
<1>2. /\ Append(fr[l], c) \in Seq(Nat)
      /\ Len(Append(fr[l], c)) = Len(fr[l]) + 1
      /\ \A i \in 1..Len(fr[l]) : Append(fr[l], c)[i] = fr[l][i]
      /\ Append(fr[l], c)[Len(fr[l]) + 1] = c
  BY <1>1, SMT
<1>3. \A m \in FreeList \ {l} : fr2[m] = fr[m]
  OBVIOUS
<1>4. fr2 \in [FreeList -> Seq(Nat)]
  BY <1>1, <1>2
<1> QED BY <1>1, <1>2, <1>3, <1>4

-----------------------------------------------------------------------------
(* What a push or a pop does to the invariants on the free lists.          *)

(***************************************************************************)
(* Pushing a chunk that is on no list.                                     *)
(***************************************************************************)
LEMMA PushKeeps ==
  ASSUME free \in [FreeList -> Seq(Nat)],
         free' \in [FreeList -> Seq(Nat)],
         NoDoubleFree,
         NEW l \in FreeList, NEW c \in Nat,
         ~ OnAFreeList(c),
         Len(free'[l]) = Len(free[l]) + 1,
         \A i \in 1..Len(free[l]) : free'[l][i] = free[l][i],
         free'[l][Len(free[l]) + 1] = c,
         \A m \in FreeList \ {l} : free'[m] = free[m]
  PROVE  /\ NoDoubleFree'
         /\ \A m \in FreeList, d \in Nat :
               OnList(d, m)' <=> OnList(d, m) \/ (m = l /\ d = c)
<1>1. \A m \in FreeList : Len(free[m]) \in Nat
  OBVIOUS
<1>2. \A m \in FreeList : \A i \in 1..Len(free'[m]) :
         \/ i \in 1..Len(free[m]) /\ free'[m][i] = free[m][i]
         \/ m = l /\ i = Len(free[l]) + 1 /\ free'[m][i] = c
  <2> TAKE m \in FreeList
  <2>1. CASE m = l
    BY <2>1, <1>1
  <2>2. CASE m # l
    <3>1. free'[m] = free[m]
      BY <2>2
    <3> QED BY <3>1
  <2> QED BY <2>1, <2>2
<1>3. \A m \in FreeList : \A i \in 1..Len(free[m]) : free[m][i] # c
  BY DEF OnAFreeList, OnList
<1>4. NoDoubleFree'
  <2> SUFFICES ASSUME NEW m \in FreeList, NEW n \in FreeList,
                      NEW i \in 1..Len(free'[m]), NEW j \in 1..Len(free'[n]),
                      free'[m][i] = free'[n][j]
               PROVE  m = n /\ i = j
    BY DEF NoDoubleFree
  <2>1. \/ i \in 1..Len(free[m]) /\ free'[m][i] = free[m][i]
        \/ m = l /\ i = Len(free[l]) + 1 /\ free'[m][i] = c
    BY <1>2
  <2>2. \/ j \in 1..Len(free[n]) /\ free'[n][j] = free[n][j]
        \/ n = l /\ j = Len(free[l]) + 1 /\ free'[n][j] = c
    BY <1>2
  <2>3. CASE free'[m][i] = c
    BY <1>3, <2>1, <2>2, <2>3
  <2>4. CASE free'[m][i] # c
    <3>1. /\ i \in 1..Len(free[m]) /\ j \in 1..Len(free[n])
          /\ free[m][i] = free[n][j]
      BY <2>1, <2>2, <2>4
    <3> QED BY <3>1 DEF NoDoubleFree
  <2> QED BY <2>3, <2>4
<1>5. \A m \in FreeList, d \in Nat :
         OnList(d, m)' => OnList(d, m) \/ (m = l /\ d = c)
  BY <1>2 DEF OnList
<1>6. \A m \in FreeList, d \in Nat :
         OnList(d, m) \/ (m = l /\ d = c) => OnList(d, m)'
  <2> SUFFICES ASSUME NEW m \in FreeList, NEW d \in Nat,
                      OnList(d, m) \/ (m = l /\ d = c)
               PROVE  \E i \in 1..Len(free'[m]) : free'[m][i] = d
    BY DEF OnList
  <2>1. CASE m = l /\ d = c
    BY <1>1, <2>1
  <2>2. CASE OnList(d, m)
    <3>1. PICK i \in 1..Len(free[m]) : free[m][i] = d
      BY <2>2 DEF OnList
    <3>2. i \in 1..Len(free'[m]) /\ free'[m][i] = d
      BY <1>1, <3>1
    <3> QED BY <3>2
  <2> QED BY <2>1, <2>2
<1> QED BY <1>4, <1>5, <1>6

(***************************************************************************)
(* Popping the last chunk of a list.                                       *)
(***************************************************************************)
LEMMA PopKeeps ==
  ASSUME free \in [FreeList -> Seq(Nat)],
         free' \in [FreeList -> Seq(Nat)],
         NoDoubleFree,
         NEW l \in FreeList, NEW c \in Nat,
         Len(free[l]) \in Nat \ {0}, c = free[l][Len(free[l])],
         Len(free'[l]) = Len(free[l]) - 1,
         \A i \in 1..(Len(free[l]) - 1) : free'[l][i] = free[l][i],
         \A m \in FreeList \ {l} : free'[m] = free[m]
  PROVE  /\ NoDoubleFree'
         /\ OnList(c, l)
         /\ \A m \in FreeList, d \in Nat :
               OnList(d, m)' <=> OnList(d, m) /\ d # c
<1>1. \A m \in FreeList : Len(free[m]) \in Nat
  OBVIOUS
<1>2. \A m \in FreeList : \A i \in 1..Len(free'[m]) :
         /\ i \in 1..Len(free[m])
         /\ free'[m][i] = free[m][i]
         /\ ~ (m = l /\ i = Len(free[l]))
  <2> TAKE m \in FreeList
  <2>1. CASE m = l
    BY <2>1, <1>1
  <2>2. CASE m # l
    <3>1. free'[m] = free[m]
      BY <2>2
    <3> QED BY <3>1, <2>2
  <2> QED BY <2>1, <2>2
<1>3. Len(free[l]) \in 1..Len(free[l])
  OBVIOUS
<1>4. \A m \in FreeList : \A i \in 1..Len(free'[m]) : free'[m][i] # c
  <2> SUFFICES ASSUME NEW m \in FreeList, NEW i \in 1..Len(free'[m]),
                      free'[m][i] = c
               PROVE  FALSE
    OBVIOUS
  <2>1. /\ i \in 1..Len(free[m])
        /\ free[m][i] = free[l][Len(free[l])]
        /\ ~ (m = l /\ i = Len(free[l]))
    BY <1>2
  <2> QED BY <1>3, <2>1 DEF NoDoubleFree
<1>5. NoDoubleFree'
  BY <1>2 DEF NoDoubleFree
<1>6. OnList(c, l)
  BY <1>3 DEF OnList
<1>7. \A m \in FreeList, d \in Nat : OnList(d, m)' => OnList(d, m) /\ d # c
  BY <1>2, <1>4, SMTT(30) DEF OnList
<1>8. \A m \in FreeList, d \in Nat : OnList(d, m) /\ d # c => OnList(d, m)'
  <2> SUFFICES ASSUME NEW m \in FreeList, NEW d \in Nat, OnList(d, m), d # c
               PROVE  \E i \in 1..Len(free'[m]) : free'[m][i] = d
    BY DEF OnList
  <2>1. PICK i \in 1..Len(free[m]) : free[m][i] = d
    BY DEF OnList
  <2>2. i \in 1..Len(free'[m]) /\ free'[m][i] = d
    <3>1. CASE m = l
      <4>1. i # Len(free[l])
        BY <2>1, <3>1
      <4>2. i \in 1..(Len(free[l]) - 1)
        BY <1>1, <2>1, <3>1, <4>1
      <4> QED BY <2>1, <3>1, <4>2
    <3>2. CASE m # l
      <4>1. free'[m] = free[m]
        BY <3>2
      <4> QED BY <2>1, <4>1
    <3> QED BY <3>1, <3>2
  <2> QED BY <2>2
<1> QED BY <1>5, <1>6, <1>7, <1>8

-----------------------------------------------------------------------------

(* FreeChunksAreDead, said of the lists' members instead of their places.  *)
ListedAreDead ==
  \A l \in FreeList, d \in Nat :
     OnList(d, l) => /\ d \in 1..Len(chunks)
                     /\ chunks[d].live = 0
                     /\ chunks[d].tier = TierOf(l)

LEMMA ListedAreDeadIff ==
  ASSUME free \in [FreeList -> Seq(Nat)]
  PROVE  FreeChunksAreDead <=> ListedAreDead
<1>1. ASSUME FreeChunksAreDead PROVE ListedAreDead
  BY <1>1 DEF FreeChunksAreDead, ListedAreDead, OnList
<1>2. ASSUME ListedAreDead PROVE FreeChunksAreDead
  <2> SUFFICES ASSUME NEW l \in FreeList, NEW i \in 1..Len(free[l])
               PROVE  /\ free[l][i] \in 1..Len(chunks)
                      /\ chunks[free[l][i]].live = 0
                      /\ chunks[free[l][i]].tier = TierOf(l)
    BY DEF FreeChunksAreDead
  <2>1. free[l][i] \in Nat /\ OnList(free[l][i], l)
    BY DEF OnList
  <2> QED BY <1>2, <2>1 DEF ListedAreDead
<1> QED BY <1>1, <1>2

-----------------------------------------------------------------------------
(* The chunk table: what each method changes of it.                        *)

LEMMA ReplaceFacts ==
  ASSUME NEW ch \in Seq(ChunkState), NEW c \in 1..Len(ch),
         NEW r \in ChunkState
  PROVE  /\ [ch EXCEPT ![c] = r] \in Seq(ChunkState)
         /\ Len([ch EXCEPT ![c] = r]) = Len(ch)
         /\ \A d \in 1..Len(ch) : d # c => [ch EXCEPT ![c] = r][d] = ch[d]
         /\ [ch EXCEPT ![c] = r][c] = r
  OBVIOUS

LEMMA AddedFacts ==
  ASSUME NEW ch \in Seq(ChunkState), NEW r \in ChunkState
  PROVE  /\ Append(ch, r) \in Seq(ChunkState)
         /\ Len(Append(ch, r)) = Len(ch) + 1
         /\ \A d \in 1..Len(ch) : Append(ch, r)[d] = ch[d]
         /\ Append(ch, r)[Len(ch) + 1] = r
  OBVIOUS

LEMMA AddUsesFacts ==
  ASSUME NEW ch \in Seq(ChunkState), NEW c \in 1..Len(ch), NEW n \in Nat
  PROVE  /\ AddUsesTo(ch, c, n) \in Seq(ChunkState)
         /\ Len(AddUsesTo(ch, c, n)) = Len(ch)
         /\ \A d \in 1..Len(ch) : d # c => AddUsesTo(ch, c, n)[d] = ch[d]
         /\ AddUsesTo(ch, c, n)[c].live = ch[c].live + n
         /\ AddUsesTo(ch, c, n)[c].tier = ch[c].tier
         /\ AddUsesTo(ch, c, n)[c].size = ch[c].size
<1> DEFINE r == [ch[c] EXCEPT !.live = @ + n]
<1>1. ch[c] \in ChunkState
  OBVIOUS
<1>2. /\ r \in ChunkState
      /\ r.live = ch[c].live + n /\ r.tier = ch[c].tier /\ r.size = ch[c].size
  BY <1>1, SMTT(30) DEF ChunkState
<1>3. AddUsesTo(ch, c, n) = [ch EXCEPT ![c] = r]
  BY DEF AddUsesTo
<1> HIDE DEF r
<1> QED BY <1>2, <1>3, ReplaceFacts

LEMMA ConsumeFacts ==
  ASSUME NEW ch \in Seq(ChunkState), NEW c \in 1..Len(ch)
  PROVE  /\ ConsumeIn(ch, c) \in Seq(ChunkState)
         /\ Len(ConsumeIn(ch, c)) = Len(ch)
         /\ \A d \in 1..Len(ch) : d # c => ConsumeIn(ch, c)[d] = ch[d]
         /\ ConsumeIn(ch, c)[c].tier = ch[c].tier
         /\ ConsumeIn(ch, c)[c].size = ch[c].size
<1> DEFINE r == [ch[c] EXCEPT !.live = Decrement(@)]
<1>1. ch[c] \in ChunkState
  OBVIOUS
<1>2. r \in ChunkState /\ r.tier = ch[c].tier /\ r.size = ch[c].size
  BY <1>1 DEF ChunkState, Decrement
<1>3. ConsumeIn(ch, c) = [ch EXCEPT ![c] = r]
  BY DEF ConsumeIn
<1> HIDE DEF r
<1> QED BY <1>2, <1>3, ReplaceFacts

(* An allocation reopens the chunk it pops, or adds one at the end.        *)
LEMMA ReuseFacts ==
  ASSUME NEW ch \in Seq(ChunkState), NEW fr, NEW t \in Tier, NEW s \in Stream,
         NEW size \in Nat, NEW uses \in Nat,
         NextChunk(ch, fr, t, s) \in 1..Len(ch)
  PROVE  LET c  == NextChunk(ch, fr, t, s)
             nx == AllocChunks(ch, fr, t, s, size, uses)
         IN  /\ nx \in Seq(ChunkState)
             /\ Len(nx) = Len(ch)
             /\ \A d \in 1..Len(ch) : d # c => nx[d] = ch[d]
             /\ nx[c].tier = ch[c].tier
             /\ nx[c].live = ch[c].live + uses
             /\ nx[c].size >= ch[c].size
             /\ nx[c].size >= size
<1> DEFINE c == NextChunk(ch, fr, t, s)
           r == [tier |-> ch[c].tier,
                 size |-> IF size > ch[c].size THEN size ELSE ch[c].size,
                 live |-> ch[c].live + uses]
<1> HIDE DEF c
<1>4. c \in 1..Len(ch) /\ ~ (c > Len(ch))
  BY DEF c
<1>1. ch[c] \in ChunkState
  BY <1>4
<1>2. /\ r \in ChunkState
      /\ r.live = ch[c].live + uses /\ r.tier = ch[c].tier
      /\ r.size >= ch[c].size /\ r.size >= size
  BY <1>1 DEF ChunkState
<1>3. AllocChunks(ch, fr, t, s, size, uses) = [ch EXCEPT ![c] = r]
  BY <1>4 DEF AllocChunks, c
<1> HIDE DEF r
<1>5. /\ [ch EXCEPT ![c] = r] \in Seq(ChunkState)
      /\ Len([ch EXCEPT ![c] = r]) = Len(ch)
      /\ \A d \in 1..Len(ch) : d # c => [ch EXCEPT ![c] = r][d] = ch[d]
      /\ [ch EXCEPT ![c] = r][c] = r
  BY <1>2, <1>4, ReplaceFacts
<1> QED BY <1>2, <1>3, <1>5 DEF c

LEMMA GrowFacts ==
  ASSUME NEW ch \in Seq(ChunkState), NEW fr, NEW t \in Tier, NEW s \in Stream,
         NEW size \in Nat, NEW uses \in Nat,
         NextChunk(ch, fr, t, s) = Len(ch) + 1
  PROVE  LET nx == AllocChunks(ch, fr, t, s, size, uses)
         IN  /\ nx \in Seq(ChunkState)
             /\ Len(nx) = Len(ch) + 1
             /\ \A d \in 1..Len(ch) : nx[d] = ch[d]
             /\ nx[Len(ch) + 1].tier = t
             /\ nx[Len(ch) + 1].live = uses
             /\ nx[Len(ch) + 1].size = size
<1> DEFINE r == [tier |-> t, size |-> size, live |-> uses]
<1>1. r \in ChunkState /\ r.tier = t /\ r.live = uses /\ r.size = size
  BY DEF ChunkState
<1>2. AllocChunks(ch, fr, t, s, size, uses) = Append(ch, r)
  <2>1. Len(ch) + 1 > Len(ch)
    OBVIOUS
  <2> QED BY <2>1, Zenon DEF AllocChunks
<1> HIDE DEF r
<1>3. /\ Append(ch, r) \in Seq(ChunkState)
      /\ Len(Append(ch, r)) = Len(ch) + 1
      /\ \A d \in 1..Len(ch) : Append(ch, r)[d] = ch[d]
      /\ Append(ch, r)[Len(ch) + 1] = r
  BY <1>1, AddedFacts
<1> QED BY <1>1, <1>2, <1>3

-----------------------------------------------------------------------------
(* What can happen to a chunk that is on no list: it stays off the lists,  *)
(* or it is freed.                                                         *)

LEMMA StayKeeps ==
  ASSUME IInv,
         chunks' \in Seq(ChunkState), Len(chunks') = Len(chunks),
         NEW c \in 1..Len(chunks), ~ OnAFreeList(c),
         \A d \in 1..Len(chunks) : d # c => chunks'[d] = chunks[d],
         \/ chunks'[c].live > 0 /\ fresh' = IF c = fresh THEN NoChunk ELSE fresh
         \/ chunks'[c].live = 0 /\ c = fresh /\ fresh' = fresh,
         free' = free
  PROVE  IInv'
<1>1. /\ chunks \in Seq(ChunkState) /\ free \in [FreeList -> Seq(Nat)]
      /\ fresh \in Nat /\ c \in Nat /\ Len(chunks) \in Nat
      /\ NoDoubleFree /\ ListedAreDead /\ NoChunk = 0
  BY ListedAreDeadIff DEF IInv, TypeOK, NoChunk
<1>2. TypeOK'
  BY <1>1 DEF TypeOK
<1>3. NoDoubleFree'
  BY <1>1 DEF NoDoubleFree
<1>4. \A d \in Nat : /\ OnAFreeList(d)' <=> OnAFreeList(d)
                     /\ \A l \in FreeList : OnList(d, l)' <=> OnList(d, l)
  BY DEF OnAFreeList, OnList
<1>5. FreeChunksAreDead'
  <2>1. \A d \in Nat, l \in FreeList : OnList(d, l) => d # c
    BY DEF OnAFreeList
  <2>2. ListedAreDead'
    BY <1>1, <1>4, <2>1 DEF ListedAreDead
  <2>3. (free \in [FreeList -> Seq(Nat)])'
    BY <1>1
  <2> QED BY <2>2, <2>3, ListedAreDeadIff, PTL
<1>6. DeadChunksAreFree'
  BY <1>1, <1>4 DEF IInv, DeadChunksAreFree
<1>7. FreshIsDead'
  BY <1>1, <1>4 DEF IInv, FreshIsDead
<1> QED BY <1>2, <1>3, <1>5, <1>6, <1>7 DEF IInv

LEMMA FreedKeeps ==
  ASSUME IInv,
         chunks' \in Seq(ChunkState), Len(chunks') = Len(chunks),
         NEW c \in 1..Len(chunks), ~ OnAFreeList(c),
         \A d \in 1..Len(chunks) : d # c => chunks'[d] = chunks[d],
         chunks'[c].live = 0,
         NEW s \in Stream, free' = FreeOn(free, chunks', c, s),
         fresh' = IF c = fresh THEN NoChunk ELSE fresh
  PROVE  IInv'
<1> DEFINE l == <<chunks'[c].tier, s>>
<1>1. /\ chunks \in Seq(ChunkState) /\ free \in [FreeList -> Seq(Nat)]
      /\ fresh \in Nat /\ c \in Nat /\ Len(chunks) \in Nat
      /\ NoDoubleFree /\ ListedAreDead /\ NoChunk = 0
  BY ListedAreDeadIff DEF IInv, TypeOK, NoChunk
<1>2. l \in FreeList /\ TierOf(l) = chunks'[c].tier
  <2>1. chunks'[c] \in ChunkState
    BY <1>1
  <2> QED BY <2>1 DEF ChunkState, FreeList, TierOf
<1>3. /\ free' \in [FreeList -> Seq(Nat)]
      /\ Len(free'[l]) = Len(free[l]) + 1
      /\ \A i \in 1..Len(free[l]) : free'[l][i] = free[l][i]
      /\ free'[l][Len(free[l]) + 1] = c
      /\ \A m \in FreeList \ {l} : free'[m] = free[m]
  <2> HIDE DEF l
  <2>1. free' = [free EXCEPT ![l] = Append(@, c)]
    BY DEF FreeOn, l
  <2> QED BY <1>1, <1>2, <2>1, PushFacts
<1>4. /\ NoDoubleFree'
      /\ \A m \in FreeList, d \in Nat :
            OnList(d, m)' <=> OnList(d, m) \/ (m = l /\ d = c)
  <2> HIDE DEF l
  <2> QED BY <1>1, <1>2, <1>3, PushKeeps
<1> HIDE DEF l
<1>5. /\ \A d \in Nat : OnAFreeList(d)' <=> OnAFreeList(d) \/ d = c
      /\ \A d \in Nat, m \in FreeList : OnList(d, m) => d # c
  <2>1. \A d \in Nat, m \in FreeList : OnList(d, m) => d # c
    BY DEF OnAFreeList
  <2>2. \A d \in Nat : OnAFreeList(d)' => OnAFreeList(d) \/ d = c
    BY <1>4, Zenon DEF OnAFreeList
  <2>3. \A d \in Nat : OnAFreeList(d) \/ d = c => OnAFreeList(d)'
    BY <1>1, <1>2, <1>4, Zenon DEF OnAFreeList
  <2> QED BY <2>1, <2>2, <2>3
<1>6. TypeOK'
  BY <1>1, <1>3 DEF TypeOK
<1>7. FreeChunksAreDead'
  <2>1. ListedAreDead'
    BY <1>1, <1>2, <1>4, <1>5 DEF ListedAreDead
  <2>2. (free \in [FreeList -> Seq(Nat)])'
    BY <1>3
  <2> QED BY <2>1, <2>2, ListedAreDeadIff, PTL
<1>8. DeadChunksAreFree'
  BY <1>1, <1>5 DEF IInv, DeadChunksAreFree
<1>9. FreshIsDead'
  BY <1>1, <1>5 DEF IInv, FreshIsDead
<1> QED BY <1>4, <1>6, <1>7, <1>8, <1>9 DEF IInv

-----------------------------------------------------------------------------
(* The discipline is kept by every operation.                              *)

LEMMA InitIInv == Init => IInv
  BY SMT DEF Init, IInv, TypeOK, FreeChunksAreDead, NoDoubleFree,
             DeadChunksAreFree, FreshIsDead, NoFree, NoChunk

LEMMA HeldIsOffTheLists ==
  ASSUME IInv, NEW c \in 1..Len(chunks), Held(c) \/ chunks[c].live > 0
  PROVE  ~ OnAFreeList(c) /\ (c # fresh => chunks[c].live > 0)
<1>1. ListedAreDead /\ c \in Nat /\ NoChunk = 0
  BY ListedAreDeadIff DEF IInv, TypeOK, NoChunk
<1>2. CASE c = fresh
  BY <1>1, <1>2 DEF IInv, FreshIsDead
<1>3. CASE c # fresh
  <2>1. chunks[c].live > 0
    BY <1>3 DEF Held
  <2>2. chunks[c].live # 0
    BY <2>1
  <2> QED BY <1>1, <2>1, <2>2 DEF ListedAreDead, OnAFreeList
<1> QED BY <1>2, <1>3

LEMMA ConsumeIInv ==
  ASSUME IInv, NEW c \in DOMAIN chunks, NEW s \in Stream, Consume(c, s)
  PROVE  IInv'
<1>1. chunks \in Seq(ChunkState) /\ c \in 1..Len(chunks)
  BY DEF IInv, TypeOK
<1>2. /\ chunks' = ConsumeIn(chunks, c) /\ fresh' = fresh /\ chunks[c].live > 0
      /\ free' = FreeIfDead(free, chunks', c, s)
  BY DEF Consume
<1>3. ~ OnAFreeList(c)
  BY <1>1, <1>2, HeldIsOffTheLists
<1>4. c # fresh
  <2>1. chunks[c].live # 0 /\ c # NoChunk
    BY <1>1, <1>2 DEF NoChunk
  <2> QED BY <2>1 DEF IInv, FreshIsDead
<1>5. /\ chunks' \in Seq(ChunkState) /\ Len(chunks') = Len(chunks)
      /\ \A d \in 1..Len(chunks) : d # c => chunks'[d] = chunks[d]
      /\ chunks'[c] \in ChunkState
  <2>1. /\ chunks' \in Seq(ChunkState) /\ Len(chunks') = Len(chunks)
        /\ \A d \in 1..Len(chunks) : d # c => chunks'[d] = chunks[d]
    BY <1>1, <1>2, ConsumeFacts
  <2> QED BY <1>1, <2>1
<1>6. chunks'[c].live \in Nat
  BY <1>5 DEF ChunkState
<1>7. CASE chunks'[c].live = 0
  <2>1. free' = FreeOn(free, chunks', c, s)
    BY <1>2, <1>7 DEF FreeIfDead
  <2> QED BY <1>1, <1>2, <1>3, <1>4, <1>5, <1>7, <2>1, FreedKeeps
<1>8. CASE chunks'[c].live > 0
  <2>1. free' = free
    BY <1>2, <1>8 DEF FreeIfDead
  <2> QED BY <1>1, <1>2, <1>3, <1>4, <1>5, <1>8, <2>1, StayKeeps
<1> QED BY <1>6, <1>7, <1>8

LEMMA ReleaseIfDeadIInv ==
  ASSUME IInv, NEW c \in DOMAIN chunks, NEW s \in Stream, ReleaseIfDead(c, s)
  PROVE  IInv'
<1>1. chunks \in Seq(ChunkState) /\ c \in 1..Len(chunks)
  BY DEF IInv, TypeOK
<1>2. /\ chunks' = chunks /\ fresh' = IF c = fresh THEN NoChunk ELSE fresh
      /\ free' = FreeIfDead(free, chunks, c, s) /\ Held(c)
  BY DEF ReleaseIfDead
<1>3. ~ OnAFreeList(c)
  BY <1>1, <1>2, HeldIsOffTheLists
<1>4. chunks[c].live \in Nat
  <2>1. chunks[c] \in ChunkState
    BY <1>1
  <2> QED BY <2>1 DEF ChunkState
<1>5. CASE chunks[c].live = 0
  <2>1. free' = FreeOn(free, chunks', c, s)
    BY <1>2, <1>5 DEF FreeIfDead
  <2> QED BY <1>1, <1>2, <1>3, <1>5, <2>1, FreedKeeps
<1>6. CASE chunks[c].live > 0
  <2>1. free' = free
    BY <1>2, <1>6 DEF FreeIfDead
  <2> QED BY <1>1, <1>2, <1>3, <1>6, <2>1, StayKeeps
<1> QED BY <1>4, <1>5, <1>6

LEMMA AddUsesIInv ==
  ASSUME IInv, NEW c \in DOMAIN chunks, NEW n \in Use, AddUses(c, n)
  PROVE  IInv'
<1>1. chunks \in Seq(ChunkState) /\ c \in 1..Len(chunks) /\ n \in Nat
  BY UseAssumption DEF IInv, TypeOK
<1>2. /\ chunks' = AddUsesTo(chunks, c, n) /\ free' = free /\ Held(c)
      /\ fresh' = IF c = fresh /\ n > 0 THEN NoChunk ELSE fresh
  BY DEF AddUses
<1>3. ~ OnAFreeList(c) /\ (c # fresh => chunks[c].live > 0)
  BY <1>1, <1>2, HeldIsOffTheLists
<1>4. /\ chunks' \in Seq(ChunkState) /\ Len(chunks') = Len(chunks)
      /\ \A d \in 1..Len(chunks) : d # c => chunks'[d] = chunks[d]
      /\ chunks'[c].live = chunks[c].live + n
  BY <1>1, <1>2, AddUsesFacts
<1>5. chunks[c].live \in Nat
  <2>1. chunks[c] \in ChunkState
    BY <1>1
  <2> QED BY <2>1 DEF ChunkState
<1>6. \/ chunks'[c].live > 0 /\ fresh' = IF c = fresh THEN NoChunk ELSE fresh
      \/ chunks'[c].live = 0 /\ c = fresh /\ fresh' = fresh
  <2>1. CASE c = fresh
    <3>1. chunks[c].live = 0
      BY <1>1, <2>1 DEF IInv, FreshIsDead, NoChunk
    <3> QED BY <1>1, <1>2, <1>4, <2>1, <3>1
  <2>2. CASE c # fresh
    BY <1>1, <1>2, <1>3, <1>4, <1>5, <2>2
  <2> QED BY <2>1, <2>2
<1> QED BY <1>1, <1>2, <1>3, <1>4, <1>6, StayKeeps

LEMMA AllocIInv ==
  ASSUME IInv, NEW t \in Tier, NEW s \in Stream, NEW size \in Size,
         NEW uses \in Use, Alloc(t, s, size, uses)
  PROVE  IInv'
<1> DEFINE l == <<t, s>>
           c == NextChunk(chunks, free, t, s)
<1>1. /\ chunks \in Seq(ChunkState) /\ free \in [FreeList -> Seq(Nat)]
      /\ size \in Nat /\ uses \in Nat /\ NoChunk = 0 /\ Len(chunks) \in Nat
      /\ NoDoubleFree /\ ListedAreDead
  BY SizeAssumption, UseAssumption, ListedAreDeadIff DEF IInv, TypeOK, NoChunk
<1>2. l \in FreeList /\ TierOf(l) = t
  BY DEF FreeList, TierOf
<1>3. /\ fresh = NoChunk
      /\ chunks' = AllocChunks(chunks, free, t, s, size, uses)
      /\ free' = PopFree(free, t, s)
      /\ fresh' = IF uses = 0 THEN c ELSE NoChunk
  BY DEF Alloc
<1>4. CASE free[l] # <<>>
  <2>1. c = free[l][Len(free[l])]
    BY <1>4 DEF NextChunk
  <2>2. free' = [free EXCEPT ![l] = SubSeq(@, 1, Len(@) - 1)]
    BY <1>3, <1>4 DEF PopFree
  <2> HIDE DEF l, c
  <2>3. /\ free' \in [FreeList -> Seq(Nat)]
        /\ Len(free[l]) \in Nat \ {0}
        /\ c \in Nat
        /\ Len(free'[l]) = Len(free[l]) - 1
        /\ \A i \in 1..(Len(free[l]) - 1) : free'[l][i] = free[l][i]
        /\ \A m \in FreeList \ {l} : free'[m] = free[m]
    <3>1. /\ l \in FreeList /\ free[l] # <<>>
          /\ free \in [FreeList -> Seq(Nat)]
      BY <1>1, <1>2, <1>4
    <3>2. free[l] \in Seq(Nat) /\ free'[l] = SubSeq(free[l], 1, Len(free[l]) - 1)
      BY <3>1, <2>2
    <3>3. /\ Len(free[l]) \in Nat \ {0}
          /\ free[l][Len(free[l])] \in Nat
          /\ free'[l] \in Seq(Nat)
          /\ Len(free'[l]) = Len(free[l]) - 1
          /\ \A i \in 1..(Len(free[l]) - 1) : free'[l][i] = free[l][i]
      BY <3>1, <3>2, FrontFacts
    <3>4. /\ \A m \in FreeList \ {l} : free'[m] = free[m]
          /\ free' \in [FreeList -> Seq(Nat)]
      BY <3>1, <2>2, <3>3
    <3> QED BY <2>1, <3>3, <3>4
  <2>4. /\ NoDoubleFree'
        /\ OnList(c, l)
        /\ \A m \in FreeList, d \in Nat :
              OnList(d, m)' <=> OnList(d, m) /\ d # c
    BY <1>1, <1>2, <2>1, <2>3, PopKeeps
  <2>5. c \in 1..Len(chunks) /\ chunks[c].live = 0
    BY <1>1, <1>2, <2>3, <2>4 DEF ListedAreDead
  <2>6. /\ chunks' \in Seq(ChunkState) /\ Len(chunks') = Len(chunks)
        /\ \A d \in 1..Len(chunks) : d # c => chunks'[d] = chunks[d]
        /\ chunks'[c].live = uses
    BY <1>1, <1>3, <2>5, ReuseFacts DEF c
  <2>7. /\ \A d \in Nat : OnAFreeList(d)' <=> OnAFreeList(d) /\ d # c
    <3>1. \A d \in Nat : OnAFreeList(d)' => OnAFreeList(d) /\ d # c
      BY <2>4, Zenon DEF OnAFreeList
    <3>2. \A d \in Nat : OnAFreeList(d) /\ d # c => OnAFreeList(d)'
      BY <2>4, Zenon DEF OnAFreeList
    <3> QED BY <3>1, <3>2
  <2>8. TypeOK'
    BY <1>1, <1>3, <2>3, <2>6 DEF TypeOK
  <2>9. FreeChunksAreDead'
    <3>1. ListedAreDead'
      BY <1>1, <2>4, <2>6 DEF ListedAreDead
    <3>2. (free \in [FreeList -> Seq(Nat)])'
      BY <2>3
    <3> QED BY <3>1, <3>2, ListedAreDeadIff, PTL
  <2>10. DeadChunksAreFree'
    BY <1>1, <1>3, <2>3, <2>5, <2>6, <2>7 DEF IInv, DeadChunksAreFree
  <2>11. FreshIsDead'
    BY <1>1, <1>3, <2>3, <2>5, <2>6, <2>7 DEF FreshIsDead
  <2> QED BY <2>4, <2>8, <2>9, <2>10, <2>11 DEF IInv
<1>5. CASE free[l] = <<>>
  <2>1. c = Len(chunks) + 1 /\ free' = free
    BY <1>3, <1>5 DEF NextChunk, PopFree
  <2>2. /\ chunks' \in Seq(ChunkState) /\ Len(chunks') = Len(chunks) + 1
        /\ \A d \in 1..Len(chunks) : chunks'[d] = chunks[d]
        /\ chunks'[c].live = uses
    BY <1>1, <1>3, <2>1, GrowFacts
  <2> HIDE DEF l, c
  <2>3. TypeOK'
    BY <1>1, <1>3, <2>1, <2>2 DEF TypeOK
  <2>4. NoDoubleFree'
    BY <1>1, <2>1 DEF NoDoubleFree
  <2>5. \A d \in Nat : /\ OnAFreeList(d)' <=> OnAFreeList(d)
                       /\ \A m \in FreeList : OnList(d, m)' <=> OnList(d, m)
    BY <2>1 DEF OnAFreeList, OnList
  <2>6. ~ OnAFreeList(c)
    BY <1>1, <2>1 DEF OnAFreeList, ListedAreDead
  <2>7. FreeChunksAreDead'
    <3>1. ListedAreDead'
      <4> SUFFICES ASSUME NEW m \in FreeList, NEW d \in Nat, OnList(d, m)'
                   PROVE  /\ d \in 1..Len(chunks')
                          /\ chunks'[d].live = 0
                          /\ chunks'[d].tier = TierOf(m)
        BY DEF ListedAreDead
      <4>1. OnList(d, m)
        BY <2>5
      <4>2. /\ d \in 1..Len(chunks)
            /\ chunks[d].live = 0
            /\ chunks[d].tier = TierOf(m)
        BY <1>1, <4>1 DEF ListedAreDead
      <4> QED BY <1>1, <2>2, <4>2
    <3>2. (free \in [FreeList -> Seq(Nat)])'
      BY <1>1, <2>1
    <3> QED BY <3>1, <3>2, ListedAreDeadIff, PTL
  <2>8. DeadChunksAreFree'
    BY <1>1, <1>3, <2>1, <2>2, <2>5 DEF IInv, DeadChunksAreFree
  <2>9. FreshIsDead'
    BY <1>1, <1>3, <2>1, <2>2, <2>5, <2>6 DEF FreshIsDead
  <2> QED BY <2>3, <2>4, <2>7, <2>8, <2>9 DEF IInv
<1> QED BY <1>4, <1>5

LEMMA StutterIInv == IInv /\ UNCHANGED vars => IInv'
<1> SUFFICES ASSUME IInv, UNCHANGED vars PROVE IInv'
  OBVIOUS
<1>1. chunks' = chunks /\ free' = free /\ fresh' = fresh
  BY DEF vars
<1>2. TypeOK'
  BY <1>1 DEF IInv, TypeOK
<1>3. FreeChunksAreDead' /\ NoDoubleFree'
  BY <1>1 DEF IInv, FreeChunksAreDead, NoDoubleFree
<1>4. DeadChunksAreFree' /\ FreshIsDead'
  BY <1>1 DEF IInv, DeadChunksAreFree, FreshIsDead, OnAFreeList, OnList
<1> QED BY <1>2, <1>3, <1>4 DEF IInv

(***************************************************************************)
(* The inductive invariant.                                                *)
(***************************************************************************)
LEMMA NextIInv == IInv /\ [Next]_vars => IInv'
<1> SUFFICES ASSUME IInv, [Next]_vars PROVE IInv'
  OBVIOUS
<1>1. ASSUME NEW t \in Tier, NEW s \in Stream, NEW size \in Size,
             NEW uses \in Use, Alloc(t, s, size, uses)
      PROVE  IInv'
  BY <1>1, AllocIInv
<1>2. ASSUME NEW c \in DOMAIN chunks, NEW n \in Use, AddUses(c, n)
      PROVE  IInv'
  BY <1>2, AddUsesIInv
<1>3. ASSUME NEW c \in DOMAIN chunks, NEW s \in Stream, ReleaseIfDead(c, s)
      PROVE  IInv'
  BY <1>3, ReleaseIfDeadIInv
<1>4. ASSUME NEW c \in DOMAIN chunks, NEW s \in Stream, Consume(c, s)
      PROVE  IInv'
  BY <1>4, ConsumeIInv
<1>5. CASE UNCHANGED vars
  BY <1>5, StutterIInv
<1> QED BY <1>1, <1>2, <1>3, <1>4, <1>5 DEF Next

(* The chunk table, the free lists and the chunk being bound keep their    *)
(* types (ChunkAllocator's fields).                                        *)
THEOREM TypeCorrect == Spec => []TypeOK
<1>1. IInv => TypeOK
  BY DEF IInv
<1> QED BY <1>1, InitIInv, NextIInv, PTL DEF Spec

(* No chunk on a free list has a read to come, and it is of the list's     *)
(* arena: alloc never hands out a slot that a planned kernel still reads.  *)
THEOREM FreeChunksDead == Spec => []FreeChunksAreDead
<1>1. IInv => FreeChunksAreDead
  BY DEF IInv
<1> QED BY <1>1, InitIInv, NextIInv, PTL DEF Spec

(* No chunk waits at two places of the free lists: alloc never hands out   *)
(* one slot twice.                                                         *)
THEOREM NeverFreedTwice == Spec => []NoDoubleFree
<1>1. IInv => NoDoubleFree
  BY DEF IInv
<1> QED BY <1>1, InitIInv, NextIInv, PTL DEF Spec

(* No slot is lost: a chunk without reads to come waits on a free list     *)
(* unless it is the one being bound (release_if_dead, consume).            *)
THEOREM NoSlotLost == Spec => []DeadChunksAreFree
<1>1. IInv => DeadChunksAreFree
  BY DEF IInv
<1> QED BY <1>1, InitIInv, NextIInv, PTL DEF Spec

(* The free lists and the live uses agree: what waits is dead and waits     *)
(* once, and all that is dead waits but for the chunk being bound (alloc,   *)
(* add_uses, release_if_dead, consume).                                     *)
THEOREM FreeListsAreTrue == Spec => []FreeListsTrue
<1>1. IInv => FreeListsTrue
  BY DEF IInv, FreeListsTrue
<1> QED BY <1>1, InitIInv, NextIInv, PTL DEF Spec

-----------------------------------------------------------------------------
(* Slots only grow.                                                        *)

(* One slot is replaced by one at least as large, or none is touched.      *)
LEMMA ReplacedGrows ==
  ASSUME chunks \in Seq(ChunkState), NEW c \in 1..Len(chunks),
         Len(chunks') = Len(chunks),
         \A d \in 1..Len(chunks) : d # c => chunks'[d] = chunks[d],
         chunks'[c].size >= chunks[c].size, chunks'[c].tier = chunks[c].tier
  PROVE  SlotsGrow
<1>1. \A d \in 1..Len(chunks) : chunks[d].size \in Nat
  <2> TAKE d \in 1..Len(chunks)
  <2>1. chunks[d] \in ChunkState
    OBVIOUS
  <2> QED BY <2>1 DEF ChunkState
<1>2. Len(chunks) \in Nat
  OBVIOUS
<1>3. \A d \in 1..Len(chunks) :
         chunks'[d].size >= chunks[d].size /\ chunks'[d].tier = chunks[d].tier
  <2> TAKE d \in 1..Len(chunks)
  <2>1. CASE d = c
    BY <2>1
  <2>2. CASE d # c
    BY <1>1, <2>2
  <2> QED BY <2>1, <2>2
<1> QED BY <1>2, <1>3 DEF SlotsGrow

LEMMA AllocGrows ==
  ASSUME IInv, NEW t \in Tier, NEW s \in Stream, NEW size \in Size,
         NEW uses \in Use, Alloc(t, s, size, uses)
  PROVE  SlotsGrow
<1> DEFINE l == <<t, s>>
           c == NextChunk(chunks, free, t, s)
<1>1. /\ chunks \in Seq(ChunkState) /\ free \in [FreeList -> Seq(Nat)]
      /\ size \in Nat /\ uses \in Nat /\ Len(chunks) \in Nat
  BY SizeAssumption, UseAssumption DEF IInv, TypeOK
<1>5. l \in FreeList
  BY DEF FreeList
<1>2. chunks' = AllocChunks(chunks, free, t, s, size, uses)
  BY DEF Alloc
<1>3. CASE free[l] # <<>>
  <2>1. c = free[l][Len(free[l])]
    BY <1>3 DEF NextChunk
  <2>2. Len(free[l]) \in Nat \ {0}
    <3>1. free[l] \in Seq(Nat)
      BY <1>1, <1>5
    <3> QED BY <1>3, <3>1, FrontFacts
  <2>3. c \in 1..Len(chunks)
    <3> HIDE DEF l, c
    <3>1. Len(free[l]) \in 1..Len(free[l])
      BY <2>2
    <3> QED BY <1>1, <1>5, <2>1, <3>1 DEF IInv, FreeChunksAreDead
  <2>4. /\ Len(chunks') = Len(chunks)
        /\ \A d \in 1..Len(chunks) : d # c => chunks'[d] = chunks[d]
        /\ chunks'[c].size >= chunks[c].size /\ chunks'[c].tier = chunks[c].tier
    BY <1>1, <1>2, <2>3, ReuseFacts DEF c
  <2> HIDE DEF l, c
  <2> QED BY <1>1, <2>3, <2>4, ReplacedGrows
<1>4. CASE free[l] = <<>>
  <2>1. c = Len(chunks) + 1
    BY <1>4 DEF NextChunk
  <2>2. /\ Len(AllocChunks(chunks, free, t, s, size, uses)) = Len(chunks) + 1
        /\ \A d \in 1..Len(chunks) :
              AllocChunks(chunks, free, t, s, size, uses)[d] = chunks[d]
    BY <1>1, <2>1, GrowFacts
  <2>3. \A d \in 1..Len(chunks) : chunks[d].size \in Nat
    <3> TAKE d \in 1..Len(chunks)
    <3>1. chunks[d] \in ChunkState
      BY <1>1
    <3> QED BY <3>1 DEF ChunkState
  <2> HIDE DEF l, c
  <2>4. Len(chunks') >= Len(chunks)
    BY <1>1, <1>2, <2>2
  <2>5. \A d \in 1..Len(chunks) :
           chunks'[d].size >= chunks[d].size /\ chunks'[d].tier = chunks[d].tier
    BY <1>2, <2>2, <2>3
  <2> QED BY <2>4, <2>5 DEF SlotsGrow
<1> QED BY <1>3, <1>4

LEMMA NextGrows == IInv /\ [Next]_vars => [SlotsGrow]_vars
<1> SUFFICES ASSUME IInv, Next PROVE SlotsGrow
  OBVIOUS
<1>1. /\ chunks \in Seq(ChunkState) /\ Len(chunks) \in Nat
      /\ \A c \in 1..Len(chunks) : chunks[c] \in ChunkState
  BY DEF IInv, TypeOK
<1>2. \A c \in 1..Len(chunks) : chunks[c].size \in Nat
  BY <1>1 DEF ChunkState
<1>3. ASSUME NEW t \in Tier, NEW s \in Stream, NEW size \in Size,
             NEW uses \in Use, Alloc(t, s, size, uses)
      PROVE  SlotsGrow
  BY <1>3, AllocGrows
<1>4. ASSUME NEW c \in DOMAIN chunks, NEW n \in Use, AddUses(c, n)
      PROVE  SlotsGrow
  <2>1. c \in 1..Len(chunks) /\ n \in Nat /\ chunks' = AddUsesTo(chunks, c, n)
    BY <1>1, <1>4, UseAssumption DEF AddUses
  <2>2. /\ Len(chunks') = Len(chunks)
        /\ \A d \in 1..Len(chunks) : d # c => chunks'[d] = chunks[d]
        /\ chunks'[c].size = chunks[c].size /\ chunks'[c].tier = chunks[c].tier
    BY <1>1, <2>1, AddUsesFacts
  <2> QED BY <1>1, <1>2, <2>1, <2>2, ReplacedGrows
<1>5. ASSUME NEW c \in DOMAIN chunks, NEW s \in Stream, ReleaseIfDead(c, s)
      PROVE  SlotsGrow
  <2>1. chunks' = chunks
    BY <1>5 DEF ReleaseIfDead
  <2> QED BY <1>1, <1>2, <2>1 DEF SlotsGrow
<1>6. ASSUME NEW c \in DOMAIN chunks, NEW s \in Stream, Consume(c, s)
      PROVE  SlotsGrow
  <2>1. c \in 1..Len(chunks) /\ chunks' = ConsumeIn(chunks, c)
    BY <1>1, <1>6 DEF Consume
  <2>2. /\ Len(chunks') = Len(chunks)
        /\ \A d \in 1..Len(chunks) : d # c => chunks'[d] = chunks[d]
        /\ chunks'[c].size = chunks[c].size /\ chunks'[c].tier = chunks[c].tier
    BY <1>1, <2>1, ConsumeFacts
  <2> QED BY <1>1, <1>2, <2>1, <2>2, ReplacedGrows
<1> QED BY <1>3, <1>4, <1>5, <1>6 DEF Next

(* A slot never shrinks and never changes its arena: the offsets computed  *)
(* from the final sizes (into_plan) leave room for every value a slot has  *)
(* held since alloc opened it.                                             *)
THEOREM SlotsNeverShrink == Spec => ChunksOnlyGrow
<1>1. Init => IInv
  BY InitIInv
<1>2. IInv /\ [Next]_vars => IInv'
  BY NextIInv
<1>3. IInv /\ [Next]_vars => [SlotsGrow]_vars
  BY NextGrows
<1> QED BY <1>1, <1>2, <1>3, PTL DEF Spec, ChunksOnlyGrow

-----------------------------------------------------------------------------
(* The layout of an arena (into_plan): where its chunks end, by induction    *)
(* over the table.                                                           *)

(* What chunk d takes of the arena of tier t, and where it ends there.       *)
Width(ch, t, d) == IF ch[d].tier = t THEN AlignUp(ch[d].size) ELSE 0
Ends(ch, t) == CHOOSE e : e = [d \in 0..Len(ch) |-> IF d = 0 THEN 0 ELSE e[d - 1] + Width(ch, t, d)]

LEMMA OffsetIsEnd ==
  ASSUME NEW ch, NEW c
  PROVE  OffsetOf(ch, c) = Ends(ch, ch[c].tier)[c - 1]
  BY DEF OffsetOf, Ends, Width

(* align_up: the next multiple of the alignment.                             *)
LEMMA AlignFacts ==
  ASSUME NEW n \in Nat
  PROVE  AlignUp(n) \in Nat /\ n <= AlignUp(n) /\ \E k \in Nat : AlignUp(n) = k * Align
<1> DEFINE k == (n + Align - 1) \div Align
<1>1. Align \in Nat /\ Align > 0
  BY AlignAssumption
<1>2. k \in Nat
  BY <1>1
<1>3. n + Align - 1 < k * Align + Align
  BY <1>1
<1>4. AlignUp(n) = k * Align
  BY DEF AlignUp
<1> HIDE DEF k
<1>5. k * Align \in Nat
  BY <1>1, <1>2
<1> QED
  BY <1>1, <1>2, <1>3, <1>4, <1>5

(* The ends are the partial sums of the widths.                              *)
LEMMA EndsFacts ==
  ASSUME NEW ch \in Seq(ChunkState), NEW t
  PROVE  /\ Ends(ch, t) \in [0..Len(ch) -> Nat]
         /\ Ends(ch, t)[0] = 0
         /\ \A d \in 1..Len(ch) : Ends(ch, t)[d] = Ends(ch, t)[d - 1] + Width(ch, t, d)
<1> DEFINE N == Len(ch)
           w == [d \in 1..N |-> Width(ch, t, d)]
           F(e) == [d \in 0..N |-> IF d = 0 THEN 0 ELSE e[d - 1] + Width(ch, t, d)]
<1>1. N \in Nat
  OBVIOUS
<1>2. w \in [1..N -> Nat]
  <2>1. ASSUME NEW d \in 1..N PROVE Width(ch, t, d) \in Nat
    <3>1. ch[d] \in ChunkState
      OBVIOUS
    <3>2. ch[d].size \in Nat
      BY <3>1 DEF ChunkState
    <3> QED
      BY <3>2, AlignFacts DEF Width
  <2> QED
    BY <2>1
<1>3. PICK f \in [0..N -> Nat] : f[0] = 0 /\ \A d \in 1..N : f[d] = f[d - 1] + w[d]
  BY <1>1, <1>2, SumsExist
<1>4. f = F(f)
  <2>1. \A d \in 0..N : f[d] = F(f)[d]
    BY <1>1, <1>3
  <2> QED
    BY <2>1, <1>3
<1>5. Ends(ch, t) = F(Ends(ch, t))
  BY <1>4 DEF Ends
<1> DEFINE e == Ends(ch, t)
<1>6. /\ DOMAIN e = 0..N
      /\ e[0] = 0
      /\ \A d \in 1..N : e[d] = e[d - 1] + Width(ch, t, d)
  BY <1>1, <1>5
<1> HIDE DEF e
<1> DEFINE S == {n \in 0..N : e[n] \in Nat}
<1>7. 0 \in S
  BY <1>1, <1>6
<1>8. ASSUME NEW n \in 0..(N - 1), n \in S PROVE n + 1 \in S
  <2>1. n + 1 \in 1..N /\ (n + 1) - 1 = n
    BY <1>1
  <2>2. e[n + 1] = e[n] + w[n + 1] /\ w[n + 1] \in Nat
    BY <1>2, <1>6, <2>1
  <2> QED
    BY <1>8, <2>1, <2>2
<1>9. \A n \in 0..N : e[n] \in Nat
  <2> HIDE DEF S, N
  <2>1. \A n \in 0..N : n \in S
    BY <1>1, <1>7, <1>8, UpTo
  <2> QED
    BY <2>1 DEF S
<1>10. e = [d \in 0..N |-> e[d]]
  BY <1>5 DEF e
<1>11. e \in [0..N -> Nat]
  BY <1>9, <1>10
<1> QED
  BY <1>6, <1>11 DEF e

LEMMA Multiples ==
  ASSUME NEW a \in Nat \ {0}, NEW k \in Nat, NEW m \in Nat
  PROVE  (k * a) % a = 0 /\ k * a + m * a = (k + m) * a
<1>1. (k * a) % a = 0
  OBVIOUS
<1>2. k * a + m * a = (k + m) * a
  OBVIOUS
<1> QED
  BY <1>1, <1>2

LEMMA EndsAligned ==
  ASSUME NEW ch \in Seq(ChunkState), NEW t, NEW n \in 0..Len(ch)
  PROVE  Ends(ch, t)[n] % Align = 0
<1> DEFINE e == Ends(ch, t)
           S == {m \in 0..Len(ch) : \E k \in Nat : e[m] = k * Align}
<1>1. Align \in Nat \ {0} /\ Len(ch) \in Nat
  BY AlignAssumption
<1>2. 0 \in S
  <2>1. e[0] = 0 * Align
    BY <1>1, EndsFacts
  <2> QED
    BY <1>1, <2>1
<1>3. ASSUME NEW m \in 0..(Len(ch) - 1), m \in S PROVE m + 1 \in S
  <2>1. PICK k \in Nat : e[m] = k * Align
    BY <1>3
  <2>2. m + 1 \in 1..Len(ch) /\ m + 1 \in 0..Len(ch) /\ (m + 1) - 1 = m
    BY <1>1
  <2>3. e[m + 1] = e[m] + Width(ch, t, m + 1)
    BY <2>2, EndsFacts
  <2>4. ch[m + 1] \in ChunkState
    BY <2>2
  <2>5. ch[m + 1].size \in Nat
    BY <2>4 DEF ChunkState
  <2>6. \E j \in Nat : Width(ch, t, m + 1) = j * Align
    <3>1. CASE ch[m + 1].tier = t
      BY <2>5, <3>1, AlignFacts DEF Width
    <3>2. CASE ch[m + 1].tier # t
      <4>1. Width(ch, t, m + 1) = 0 * Align
        BY <1>1, <3>2 DEF Width
      <4> QED
        BY <4>1
    <3> QED
      BY <3>1, <3>2
  <2>7. PICK j \in Nat : Width(ch, t, m + 1) = j * Align
    BY <2>6
  <2>8. e[m + 1] = (k + j) * Align /\ k + j \in Nat
    <3> HIDE DEF e
    <3> QED
      BY <1>1, <2>1, <2>3, <2>7, Multiples
  <2> QED
    BY <2>2, <2>8
<1>4. n \in S
  <2> HIDE DEF S
  <2>1. \A m \in 0..Len(ch) : m \in S
    BY <1>1, <1>2, <1>3, UpTo
  <2> QED
    BY <2>1
<1>5. PICK k \in Nat : e[n] = k * Align
  BY <1>4
<1> QED
  BY <1>1, <1>5, Multiples

LEMMA EndsGrow ==
  ASSUME NEW ch \in Seq(ChunkState), NEW t, NEW n \in 0..Len(ch), NEW d \in 0..n
  PROVE  Ends(ch, t)[d] <= Ends(ch, t)[n]
<1> DEFINE e == Ends(ch, t)
           S == {m \in 0..Len(ch) : d <= m => e[d] <= e[m]}
<1>1. Len(ch) \in Nat /\ d \in 0..Len(ch) /\ e \in [0..Len(ch) -> Nat]
  BY EndsFacts
<1>2. 0 \in S
  BY <1>1
<1>3. ASSUME NEW m \in 0..(Len(ch) - 1), m \in S PROVE m + 1 \in S
  <2>1. m + 1 \in 1..Len(ch) /\ m + 1 \in 0..Len(ch) /\ (m + 1) - 1 = m
    BY <1>1
  <2>2. e[m + 1] = e[m] + Width(ch, t, m + 1)
    BY <2>1, EndsFacts
  <2>3. ch[m + 1] \in ChunkState
    BY <2>1
  <2>4. Width(ch, t, m + 1) \in Nat
    BY <2>3, AlignFacts DEF Width, ChunkState
  <2>5. e[m] \in Nat /\ e[d] \in Nat
    BY <1>1
  <2> HIDE DEF e
  <2> QED
    BY <1>3, <2>1, <2>2, <2>4, <2>5
<1>4. n \in S
  <2> HIDE DEF S
  <2>1. \A m \in 0..Len(ch) : m \in S
    BY <1>1, <1>2, <1>3, UpTo
  <2> QED
    BY <2>1
<1> QED
  BY <1>4

(* Any chunk table that is well typed has a layout without overlaps.         *)
LEMMA LayoutIsDisjoint == TypeOK => SlotsDisjoint
<1> SUFFICES ASSUME TypeOK, NEW c \in 1..Len(chunks)
             PROVE  /\ OffsetOf(chunks, c) % Align = 0
                    /\ \A d \in 1..Len(chunks) : d < c /\ chunks[d].tier = chunks[c].tier =>
                         OffsetOf(chunks, d) + chunks[d].size <= OffsetOf(chunks, c)
  BY DEF SlotsDisjoint
<1> DEFINE e == Ends(chunks, chunks[c].tier)
<1>1. chunks \in Seq(ChunkState) /\ c - 1 \in 0..Len(chunks)
  BY DEF TypeOK
<1>2. OffsetOf(chunks, c) = e[c - 1]
  BY OffsetIsEnd
<1>3. OffsetOf(chunks, c) % Align = 0
  BY <1>1, <1>2, EndsAligned
<1>4. ASSUME NEW d \in 1..Len(chunks), d < c, chunks[d].tier = chunks[c].tier
      PROVE  OffsetOf(chunks, d) + chunks[d].size <= OffsetOf(chunks, c)
  <2>1. OffsetOf(chunks, d) = e[d - 1]
    BY <1>4, OffsetIsEnd
  <2>2. chunks[d] \in ChunkState
    BY <1>1
  <2>3. chunks[d].size \in Nat /\ chunks[d].size <= AlignUp(chunks[d].size) /\ AlignUp(chunks[d].size) \in Nat
    BY <2>2, AlignFacts DEF ChunkState
  <2>4. e[d] = e[d - 1] + AlignUp(chunks[d].size)
    BY <1>1, <1>4, EndsFacts DEF Width
  <2>5. d \in 0..(c - 1)
    BY <1>4
  <2>6. e[d] <= e[c - 1]
    BY <1>1, <2>5, EndsGrow
  <2>7. e \in [0..Len(chunks) -> Nat] /\ d - 1 \in 0..Len(chunks) /\ d \in 0..Len(chunks)
    BY <1>1, EndsFacts
  <2>8. e[d - 1] \in Nat /\ e[d] \in Nat /\ e[c - 1] \in Nat
    BY <1>1, <2>7
  <2> HIDE DEF e
  <2> QED
    BY <1>2, <2>1, <2>3, <2>4, <2>6, <2>8
<1> QED
  BY <1>3, <1>4

(* into_plan and align_up, for any sizes and any alignment: every chunk      *)
(* starts aligned, and no two chunks of an arena share a byte.               *)
THEOREM SlotsAreDisjoint == Spec => []SlotsDisjoint
  BY TypeCorrect, LayoutIsDisjoint, PTL
=============================================================================
