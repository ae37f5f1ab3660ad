-------------------------- MODULE LlmSession_proofs --------------------------
(***************************************************************************)
(* Proofs about LlmSession, and about the buffers that its prefill and its *)
(* decode session share (Sessions).                                        *)
(***************************************************************************)
EXTENDS LlmSession, Sessions, Induction, SequenceTheorems, TLAPS

-----------------------------------------------------------------------------
(* Remainders, as the ring computes them. *)

LEMMA SmallRemainder ==
  ASSUME NEW a \in Nat, NEW b \in Nat, a < b
  PROVE  a % b = a /\ b % b = 0 /\ (a + b) % b = a
<1>1. a % b = a
  OBVIOUS
<1>2. b % b = 0
  OBVIOUS
<1>3. (a + b) % b = a
  OBVIOUS
<1> QED
  BY <1>1, <1>2, <1>3

LEMMA RemainderInRange ==
  ASSUME NEW a \in Int, NEW b \in Nat \ {0}
  PROVE  a % b \in 0..(b - 1)
OBVIOUS

(* One full chunk less is one chunk less. *)
LEMMA ChunksOf ==
  ASSUME NEW n \in Nat, NEW p \in Nat \ {0}, n > 0
  PROVE  /\ ((n + p - 1) \div p) * p >= p
         /\ n > p => ((n - p + p - 1) \div p) * p = ((n + p - 1) \div p) * p - p
<1> DEFINE q == (n + p - 1) \div p
<1>1. q \in Int /\ q >= 1
  OBVIOUS
<1>2. q * p >= p
  <2> HIDE DEF q
  <2> QED
    BY <1>1
<1>3. ASSUME n > p PROVE (n - p + p - 1) \div p = q - 1
  BY <1>3
<1>4. (q - 1) * p = q * p - p
  <2> HIDE DEF q
  <2> QED
    BY <1>1
<1> QED
  BY <1>2, <1>3, <1>4

-----------------------------------------------------------------------------
(* The stop strings. *)

(* Nothing is found in an empty answer, nor in a prefix of an answer without *)
(* a stop; and what is not found is no part of the answer.                   *)
LEMMA EmptyHasNoStop == ~ hit_stop(<<>>)
<1> SUFFICES ASSUME NEW stop \in Stops, NEW i \in 0..(Len(<<>>) - Len(stop)) PROVE FALSE
  BY DEF hit_stop
<1>1. stop \in Seq(Tokens) /\ stop # <<>>
  BY LlmAssumption
<1>2. Len(stop) \in Nat \ {0} /\ Len(<<>>) = 0
  BY <1>1, EmptySeq
<1> QED
  BY <1>2

LEMMA NoStopInside ==
  ASSUME NEW ids \in Seq(Tokens), ~ hit_stop(ids), NEW stop \in Stops,
         NEW i \in 1..Len(ids), NEW j \in 1..Len(ids)
  PROVE  SubSeq(ids, i, j) # stop
<1> SUFFICES ASSUME SubSeq(ids, i, j) = stop PROVE FALSE
  OBVIOUS
<1>1. stop \in Seq(Tokens) /\ stop # <<>>
  BY LlmAssumption
<1>2. Len(stop) \in Nat \ {0}
  BY <1>1, EmptySeq
<1>3. \A x \in i..j : ids[x] \in Tokens
  BY ElementOfSeq
<1>4. Len(stop) = IF i <= j THEN j - i + 1 ELSE 0
  <2> HIDE DEF Tokens
  <2> QED
    BY <1>3, SubSeqProperties
<1>5. Len(stop) = j - i + 1
  BY <1>2, <1>4
<1>6. i - 1 \in 0..(Len(ids) - Len(stop)) /\ (i - 1) + 1 = i /\ (i - 1) + Len(stop) = j
  BY <1>5, <1>2
<1> QED
  BY <1>6 DEF hit_stop

(* truncate_at_stop pops tokens until nothing is found. *)
LEMMA PoppedEnough ==
  ASSUME NEW ids \in Seq(Tokens)
  PROVE  /\ Popped(ids) \in 0..Len(ids)
         /\ Popped(ids) > 0 <=> hit_stop(ids)
         /\ ~ hit_stop(SubSeq(ids, 1, Len(ids) - Popped(ids)))
<1> DEFINE Clean(k) == ~ hit_stop(SubSeq(ids, 1, Len(ids) - k))
<1>1. Len(ids) \in Nat
  BY LenProperties
<1>2. CASE ~ hit_stop(ids)
  <2>1. Popped(ids) = 0
    BY <1>2 DEF Popped
  <2>2. SubSeq(ids, 1, Len(ids) - Popped(ids)) = ids
    <3>1. Len(ids) - Popped(ids) = Len(ids)
      BY <1>1, <2>1
    <3> QED
      BY <3>1, SubSeqFull, Zenon
  <2>3. ~ hit_stop(SubSeq(ids, 1, Len(ids) - Popped(ids)))
    BY <1>2, <2>2, Zenon
  <2>4. Popped(ids) \in 0..Len(ids) /\ ~ (Popped(ids) > 0)
    BY <1>1, <2>1
  <2> QED
    BY <1>2, <2>3, <2>4, Zenon
<1>3. CASE hit_stop(ids)
  <2> DEFINE S == {k \in 1..Len(ids) : Clean(k)}
  <2>1. Len(ids) > 0
    <3> SUFFICES ASSUME Len(ids) = 0 PROVE FALSE
      BY <1>1
    <3>1. ids = <<>>
      BY EmptySeq
    <3> QED
      BY <3>1, <1>3, EmptyHasNoStop
  <2>2. Clean(Len(ids))
    <3>1. SubSeq(ids, 1, Len(ids) - Len(ids)) = <<>>
      BY <1>1, SubSeqEmpty
    <3> QED
      BY <3>1, EmptyHasNoStop
  <2>3. S \in SUBSET Nat /\ S # {}
    <3>1. Len(ids) \in S
      BY <2>1, <2>2, <1>1
    <3> QED
      BY <3>1
  <2>4. PICK k \in S : \A m \in S : k <= m
    BY <2>3, LeastNatural
  <2>5. k \in 1..Len(ids) /\ Clean(k) /\ \A j \in 1..(k - 1) : ~ Clean(j)
    <3>1. k \in 1..Len(ids) /\ Clean(k)
      BY <2>4
    <3>2. ASSUME NEW j \in 1..(k - 1) PROVE ~ Clean(j)
      <4>1. j \in 1..Len(ids) /\ ~ (k <= j)
        BY <3>1, <1>1
      <4> QED
        BY <4>1, <2>4
    <3> QED
      BY <3>1, <3>2
  <2> DEFINE P == CHOOSE x \in 1..Len(ids) : Clean(x) /\ \A j \in 1..(x - 1) : ~ Clean(j)
  <2>6. Popped(ids) = P
    BY <1>3 DEF Popped
  <2>7. P \in 1..Len(ids) /\ Clean(P)
    <3> HIDE DEF Clean
    <3> QED
      BY <2>5
  <2>8. P > 0 /\ P \in 0..Len(ids)
    <3> HIDE DEF P
    <3> QED
      BY <2>7, <1>1
  <2> QED
    BY <1>3, <2>6, <2>7, <2>8
<1> QED
  BY <1>2, <1>3

-----------------------------------------------------------------------------
(* Ranks, slots and positions. *)

(* The kernels that know the ring are the CUDA ones. *)
RingOnCuda == \A c \in Configs : c.window > 0 => c.ring_kernels

LEMMA ConfigTyped ==
  ASSUME config \in Configs
  PROVE  /\ MaxSeqLen \in Nat \ {0} /\ PrefillLen \in Nat /\ Sink \in Nat /\ Window \in Nat
         /\ config.max_failures \in Nat
         /\ Streaming => MaxActive <= MaxSeqLen /\ PrefillLen <= Window
         /\ MaxActive = Sink + Window
         /\ Streaming <=> Window > 0
<1>1. /\ config.max_seq_len \in Nat \ {0} /\ config.prefill_len \in Nat
      /\ config.sink \in Nat /\ config.window \in Nat /\ config.max_failures \in Nat
      /\ config.window > 0 => config.sink + config.window <= config.max_seq_len
                              /\ config.prefill_len <= config.window
  BY LlmAssumption
<1> QED
  BY <1>1 DEF MaxSeqLen, PrefillLen, Sink, Window, Streaming, MaxActive

LEMMA StartIsZero ==
  ASSUME config \in Configs, Streaming, NEW pos \in Nat, pos <= MaxActive
  PROVE  ring_start(pos) = 0
<1>1. Window \in Nat \ {0} /\ Sink \in Nat /\ MaxActive = Sink + Window
  BY ConfigTyped
<1>2. CASE pos < MaxActive
  BY <1>2 DEF ring_start
<1>3. CASE ~ (pos < MaxActive)
  <2>1. pos - Sink = Window
    BY <1>1, <1>3
  <2>2. Window % Window = 0
    BY <1>1
  <2> QED
    BY <2>1, <2>2, <1>3 DEF ring_start
<1> QED
  BY <1>2, <1>3

LEMMA RankIsSlot ==
  ASSUME config \in Configs, NEW r \in Nat, Streaming => r < MaxActive
  PROVE  ring_phys_index(r, 0) = r
<1>1. /\ Window \in Nat /\ Sink \in Nat /\ MaxActive = Sink + Window
      /\ Streaming <=> Window > 0
  BY ConfigTyped
<1>2. CASE ~ Streaming \/ ~ config.ring_kernels \/ r < Sink
  BY <1>2 DEF ring_phys_index
<1>3. CASE Streaming /\ config.ring_kernels /\ ~ (r < Sink)
  <2>1. r - Sink \in Nat /\ r - Sink < Window /\ 0 + r - Sink = r - Sink
    BY <1>1, <1>3
  <2>2. (r - Sink) % Window = r - Sink
    BY <2>1, <1>1, SmallRemainder
  <2>3. ring_phys_index(r, 0) = Sink + ((0 + r - Sink) % Window)
    BY <1>3 DEF ring_phys_index
  <2> QED
    BY <2>1, <2>2, <2>3, <1>1
<1> QED
  BY <1>2, <1>3

LEMMA RankInside ==
  ASSUME config \in Configs, RingOnCuda, NEW r \in Nat, NEW start \in Int, ~ Streaming => r < MaxSeqLen
  PROVE  ring_phys_index(r, start) \in 0..(MaxSeqLen - 1)
<1>1. /\ Window \in Nat /\ Sink \in Nat /\ MaxActive = Sink + Window /\ MaxSeqLen \in Nat
      /\ Streaming <=> Window > 0
      /\ Streaming => MaxActive <= MaxSeqLen
  BY ConfigTyped
<1>2. CASE ~ Streaming
  BY <1>1, <1>2 DEF ring_phys_index
<1>3. CASE Streaming /\ r < Sink
  BY <1>1, <1>3 DEF ring_phys_index
<1>4. CASE Streaming /\ ~ (r < Sink)
  <2>1. config.ring_kernels
    BY <1>4, <1>1 DEF RingOnCuda, Streaming, Window
  <2> DEFINE d == (start + r - Sink) % Window
  <2>2. d \in 0..(Window - 1)
    BY <1>1, <1>4, RemainderInRange
  <2>3. ring_phys_index(r, start) = Sink + d
    BY <1>4, <2>1 DEF ring_phys_index
  <2> HIDE DEF d
  <2> QED
    BY <2>2, <2>3, <1>1, <1>4
<1> QED
  BY <1>2, <1>3, <1>4

LEMMA PositionOfSlot ==
  ASSUME config \in Configs, Streaming, NEW pos \in Nat, pos <= MaxActive, NEW s \in 0..(MaxActive - 1)
  PROVE  kv_position(pos)[s] = s
<1>1. /\ Window \in Nat \ {0} /\ Sink \in Nat /\ MaxActive = Sink + Window /\ MaxSeqLen \in Nat
      /\ MaxActive <= MaxSeqLen
  BY ConfigTyped
<1>2. ring_start(pos) = 0
  BY StartIsZero
<1>3. s \in 0..(MaxSeqLen - 1)
  BY <1>1
<1> DEFINE age == (s - Sink + Window - 0) % Window
           in_ring == MinOf(IF pos < Sink THEN 0 ELSE pos - Sink, Window)
<1>4. kv_position(pos)[s] = IF Sink <= s /\ s < MaxActive /\ age < in_ring THEN Sink + age ELSE s
  BY <1>2, <1>3 DEF kv_position
<1>5. CASE Sink <= s
  <2>1. s - Sink \in Nat /\ s - Sink < Window /\ s - Sink + Window - 0 = (s - Sink) + Window
    BY <1>1, <1>5
  <2>2. age = s - Sink
    BY <2>1, <1>1, SmallRemainder
  <2> HIDE DEF age, in_ring
  <2> QED
    BY <2>2, <1>4, <1>1, <1>5
<1>6. CASE ~ (Sink <= s)
  BY <1>4, <1>6
<1> QED
  BY <1>5, <1>6

-----------------------------------------------------------------------------
(* One run of a graph: the rows it writes and the rows it attends to. *)

(* The rows of toks follow the rows there were. *)
RowsFollow(toks) ==
  \A r \in 0..(past_len + Len(toks) - 1) :
    cache'[r] = IF r < past_len THEN cache[r] ELSE <<r, toks[r - past_len + 1]>>

(* The last of n queries sees the rows below, each at its own position. *)
ViewFollows(n) ==
  /\ Len(view') = n /\ DOMAIN view' = 1..n
  /\ \A r \in 1..n : /\ view'[r].row = cache'[r - 1]
                     /\ cache'[r - 1][1] = r - 1 => view'[r].rotated = r - 1

Readable == cache \in [0..(MaxSeqLen - 1) -> Int \X Tokens]

LEMMA RunWrites ==
  ASSUME config \in Configs, RingOnCuda, past_len \in Nat, reach \in Nat, Readable, ~ spilled,
         NEW toks \in Seq(Tokens), NEW real \in 1..Len(toks),
         NEW pos \in {past_len, past_len + Len(toks)},
         ~ Streaming => past_len + Len(toks) <= MaxSeqLen,
         Run(toks, real, pos)
  PROVE  /\ cache' \in [0..(MaxSeqLen - 1) -> Int \X Tokens]
         /\ ~ spilled'
         /\ reach' \in Nat /\ reach' >= reach /\ reach' >= past_len + Len(toks)
         /\ (Streaming => reach' <= MaxActive) => RowsFollow(toks) /\ ViewFollows(past_len + real)
<1> DEFINE len == Len(toks)
           start == IF Streaming THEN ring_start(pos) ELSE 0
           active == IF Streaming THEN MinOf(past_len + len, MaxActive) ELSE past_len + len
           slot(t) == ring_phys_index(past_len + t, start)
           latest(s) == {t \in 0..(len - 1) : slot(t) = s}
           top(s) == CHOOSE t \in latest(s) : \A u \in latest(s) : u <= t
           row(s) == <<past_len + top(s), toks[top(s) + 1]>>
<1>1. /\ Window \in Nat /\ Sink \in Nat /\ MaxActive = Sink + Window /\ MaxSeqLen \in Nat \ {0}
      /\ Streaming <=> Window > 0
      /\ Streaming => MaxActive <= MaxSeqLen
  BY ConfigTyped
<1>2. len \in Nat \ {0} /\ pos \in Nat /\ DOMAIN cache = 0..(MaxSeqLen - 1)
  BY LenProperties DEF Readable
<1>3. start \in Int
  <2>1. CASE Streaming
    <3>1. (pos - Sink) % Window \in 0..(Window - 1)
      <4>1. pos - Sink \in Int /\ Window \in Nat \ {0}
        BY <1>1, <1>2, <2>1
      <4> QED
        BY <4>1, RemainderInRange
    <3>2. ring_start(pos) \in Int
      BY <3>1 DEF ring_start
    <3> QED
      BY <3>2, <2>1
  <2>2. CASE ~ Streaming
    BY <2>2
  <2> QED
    BY <2>1, <2>2
<1>4. /\ cache' = [s \in 0..(MaxSeqLen - 1) |-> IF latest(s) = {} THEN cache[s] ELSE row(s)]
      /\ spilled' = (spilled \/ ~ ({slot(t) : t \in 0..(len - 1)} \subseteq 0..(MaxSeqLen - 1)))
      /\ reach' = IF past_len + len > reach THEN past_len + len ELSE reach
  <2> HIDE DEF start
  <2>1. /\ cache' = Stored(toks, start)
        /\ spilled' = (spilled \/ ~ (Slots(toks, start) \subseteq DOMAIN cache))
        /\ reach' = IF past_len + len > reach THEN past_len + len ELSE reach
    BY DEF Run, start
  <2>2. Stored(toks, start) = [s \in 0..(MaxSeqLen - 1) |-> IF latest(s) = {} THEN cache[s] ELSE row(s)]
    BY <1>2, Zenon DEF Stored
  <2>3. Slots(toks, start) = {slot(t) : t \in 0..(len - 1)}
    BY Zenon DEF Slots
  <2> QED
    BY <2>1, <2>2, <2>3, <1>2
<1>5. view' = Attended(cache', active - len + real, pos)
  BY <1>4 DEF Run
<1>6. cache' \in [0..(MaxSeqLen - 1) -> Int \X Tokens]
  <2>1. ASSUME NEW s \in 0..(MaxSeqLen - 1), latest(s) # {}
        PROVE  row(s) \in Int \X Tokens
    <3>1. latest(s) \subseteq 0..(len - 1)
      OBVIOUS
    <3>2. \E t \in latest(s) : \A u \in latest(s) : u <= t
      <4> DEFINE D == {d \in 0..(len - 1) : (len - 1) - d \in latest(s)}
      <4>1. D \in SUBSET Nat /\ D # {}
        <5>1. PICK t \in latest(s) : TRUE
          BY <2>1
        <5>2. t \in 0..(len - 1)
          BY <5>1, <3>1
        <5>3. (len - 1) - t \in 0..(len - 1) /\ (len - 1) - ((len - 1) - t) = t
          BY <5>2, <1>2
        <5>4. (len - 1) - t \in D
          BY <5>1, <5>3
        <5>5. D \subseteq 0..(len - 1)
          OBVIOUS
        <5> HIDE DEF D
        <5> QED
          BY <5>4, <5>5, <1>2
      <4>2. PICK d \in D : \A e \in D : d <= e
        BY <4>1, LeastNatural
      <4>3. d \in 0..(len - 1) /\ (len - 1) - d \in latest(s)
        BY <4>2
      <4>4. ASSUME NEW u \in latest(s) PROVE u <= (len - 1) - d
        <5>1. u \in 0..(len - 1)
          BY <3>1
        <5>2. (len - 1) - u \in 0..(len - 1) /\ (len - 1) - ((len - 1) - u) = u
          BY <5>1, <1>2
        <5>3. (len - 1) - u \in D
          BY <5>2
        <5>4. d <= (len - 1) - u
          BY <5>3, <4>2
        <5> QED
          BY <5>4, <4>3, <5>1, <1>2
      <4> QED
        BY <4>3, <4>4
    <3>3. top(s) \in latest(s)
      <4> HIDE DEF latest
      <4> QED
        BY <3>2
    <3>4. top(s) \in 0..(len - 1)
      BY <3>1, <3>3
    <3> HIDE DEF top
    <3>5. top(s) + 1 \in 1..Len(toks)
      BY <3>4, <1>2
    <3>6. toks[top(s) + 1] \in Tokens
      BY <3>5, ElementOfSeq
    <3> QED
      BY <3>4, <3>6
  <2> HIDE DEF latest, row
  <2> QED
    BY <1>4, <2>1 DEF Readable
<1>7. ~ spilled'
  <2>1. ASSUME NEW t \in 0..(len - 1) PROVE slot(t) \in 0..(MaxSeqLen - 1)
    <3>1. past_len + t \in Nat /\ (~ Streaming => past_len + t < MaxSeqLen)
      BY <1>1, <1>2
    <3> HIDE DEF start
    <3> QED
      BY <3>1, <1>3, RankInside
  <2> HIDE DEF slot
  <2> QED
    BY <2>1, <1>4
<1>8. reach' \in Nat /\ reach' >= reach /\ reach' >= past_len + len
  BY <1>4, <1>2
<1>9. ASSUME Streaming => reach' <= MaxActive
      PROVE  RowsFollow(toks) /\ ViewFollows(past_len + real)
  <2>1. Streaming => past_len + len <= MaxActive /\ pos <= MaxActive
    BY <1>8, <1>9, <1>1, <1>2
  <2>2. Streaming => ring_start(pos) = 0
    BY <2>1, <1>2, StartIsZero
  <2>3. start = 0 /\ active = past_len + len
    BY <2>1, <2>2, <1>2, <1>1 DEF MinOf
  <2>4. past_len + len <= MaxSeqLen
    BY <2>1, <1>1, <1>2
  <2>5. \A t \in 0..(len - 1) : slot(t) = past_len + t
    <3> SUFFICES ASSUME NEW t \in 0..(len - 1) PROVE slot(t) = past_len + t
      OBVIOUS
    <3>1. past_len + t \in Nat /\ (Streaming => past_len + t < MaxActive)
      BY <2>1, <1>1, <1>2
    <3>2. ring_phys_index(past_len + t, 0) = past_len + t
      BY <3>1, RankIsSlot
    <3> QED
      BY <3>2, <2>3
  <2>6. RowsFollow(toks)
    <3> SUFFICES ASSUME NEW r \in 0..(past_len + Len(toks) - 1)
                 PROVE  cache'[r] = IF r < past_len THEN cache[r] ELSE <<r, toks[r - past_len + 1]>>
      BY DEF RowsFollow
    <3>1. r \in 0..(MaxSeqLen - 1)
      BY <2>4, <1>2, <1>1
    <3>2. CASE r < past_len
      <4>1. latest(r) = {}
        <5> SUFFICES ASSUME NEW t \in 0..(len - 1), slot(t) = r PROVE FALSE
          OBVIOUS
        <5>1. slot(t) = past_len + t
          BY <2>5
        <5> QED
          BY <5>1, <3>2, <1>2
      <4> HIDE DEF latest, row
      <4> QED
        BY <4>1, <3>1, <3>2, <1>4
    <3>3. CASE ~ (r < past_len)
      <4> DEFINE t == r - past_len
      <4>1. t \in 0..(len - 1) /\ past_len + t = r
        BY <3>3, <1>2
      <4> HIDE DEF t
      <4>2. latest(r) = {t}
        <5>1. t \in latest(r)
          BY <4>1, <2>5
        <5>2. ASSUME NEW u \in latest(r) PROVE u = t
          <6>1. u \in 0..(len - 1) /\ slot(u) = r
            OBVIOUS
          <6>2. slot(u) = past_len + u
            BY <6>1, <2>5
          <6> QED
            BY <6>1, <6>2, <4>1, <1>2
        <5> QED
          BY <5>1, <5>2
      <4>3. top(r) = t
        <5> HIDE DEF latest
        <5>1. \A x : x \in latest(r) => x = t
          BY <4>2
        <5>2. t \in latest(r) /\ \A u \in latest(r) : u <= t
          BY <4>1, <4>2
        <5>3. top(r) \in latest(r)
          BY <5>2
        <5> HIDE DEF top
        <5> QED
          BY <5>1, <5>3
      <4>4. row(r) = <<r, toks[t + 1]>>
        <5> HIDE DEF top
        <5> QED
          BY <4>3, <4>1
      <4> HIDE DEF latest, row
      <4>5. cache'[r] = row(r)
        BY <4>2, <3>1, <1>4
      <4> QED
        BY <4>4, <4>5, <3>3 DEF t
    <3> QED
      BY <3>2, <3>3
  <2>7. ViewFollows(past_len + real)
    <3> DEFINE n == past_len + real
               att(r) == LET s == ring_phys_index(r - 1, ring_start(pos))
                         IN IF s \notin DOMAIN cache' THEN [row |-> NoRow, rotated |-> r - 1]
                            ELSE [row |-> cache'[s],
                                  rotated |-> IF ~Streaming THEN cache'[s][1]
                                              ELSE IF config.quantized THEN kv_position(pos)[r - 1]
                                              ELSE kv_position(pos)[s]]
    <3>1. active - len + real = n /\ n \in Nat
      BY <2>3, <1>2
    <3>2. view' = [r \in 1..n |-> att(r)]
      <4> HIDE DEF active
      <4>1. view' = Attended(cache', n, pos)
        BY <1>5, <3>1
      <4> QED
        BY <4>1, Zenon DEF Attended
    <3>3. ASSUME NEW r \in 1..n
          PROVE  view'[r].row = cache'[r - 1] /\ (cache'[r - 1][1] = r - 1 => view'[r].rotated = r - 1)
      <4>1. r - 1 \in Nat /\ r - 1 \in 0..(MaxSeqLen - 1) /\ (Streaming => r - 1 \in 0..(MaxActive - 1))
        BY <2>1, <2>4, <1>1, <1>2
      <4>2. ring_phys_index(r - 1, ring_start(pos)) = r - 1
        <5>1. CASE Streaming
          <6>1. ring_phys_index(r - 1, 0) = r - 1
            BY <4>1, <1>1, RankIsSlot
          <6> QED
            BY <6>1, <5>1, <2>2
        <5>2. CASE ~ Streaming
          BY <5>2 DEF ring_phys_index
        <5> QED
          BY <5>1, <5>2
      <4>3. Streaming => kv_position(pos)[r - 1] = r - 1
        BY <4>1, <2>1, <1>2, PositionOfSlot
      <4>4. DOMAIN cache' = 0..(MaxSeqLen - 1)
        BY <1>6
      <4>5. view'[r] = att(r)
        <5> HIDE DEF att, n
        <5> QED
          BY <3>2
      <4>6. att(r) = [row |-> cache'[r - 1],
                      rotated |-> IF ~Streaming THEN cache'[r - 1][1] ELSE kv_position(pos)[r - 1]]
        <5>1. r - 1 \in DOMAIN cache'
          BY <4>1, <4>4
        <5> QED
          BY <5>1, <4>2
      <4> HIDE DEF att
      <4>7. view'[r].row = cache'[r - 1] /\ view'[r].rotated = IF ~Streaming THEN cache'[r - 1][1] ELSE kv_position(pos)[r - 1]
        BY <4>5, <4>6
      <4> QED
        BY <4>7, <4>3
    <3>4. Len(view') = n /\ DOMAIN view' = 1..n
      <4> HIDE DEF att, n
      <4> QED
        BY <3>1, <3>2
    <3> HIDE DEF att
    <3> QED
      BY <3>3, <3>4 DEF ViewFollows
  <2> QED
    BY <2>6, <2>7
<1> QED
  BY <1>6, <1>7, <1>8, <1>9

-----------------------------------------------------------------------------
(* The invariant. *)

Results == {"none", "running", "nothing", "too long", "stopped", "limit", "full", "error"}

Typed ==
  /\ config \in Configs
  /\ past_len \in Nat /\ base \in Nat /\ limit \in Nat /\ reach \in Nat /\ calls \in Nat /\ failures \in Nat
  /\ Readable
  /\ prompt \in Seq(Tokens) /\ rest \in Seq(Tokens) /\ new_ids \in Seq(Tokens) /\ fed \in Seq(Tokens)
  /\ phase \in {"idle", "prompt", "decode"}
  /\ result \in Results

(* What this call has fed is a prefix of its prompt and its answer. *)
SoFar == Len(fed) - base
Follows ==
  /\ SoFar \in 0..(Len(prompt) + Len(new_ids))
  /\ \A i \in 1..SoFar : fed[base + i] = (prompt \o new_ids)[i]

InCall == phase # "idle" \/ result \in {"stopped", "limit", "full", "error"}

(* In the prompt: what is left follows what was fed, and there is room for   *)
(* it.                                                                       *)
Prompting ==
  /\ rest # <<>> /\ new_ids = <<>> /\ limit > 0
  /\ SoFar + Len(rest) = Len(prompt)
  /\ \A i \in 1..Len(rest) : rest[i] = prompt[SoFar + i]
  /\ ~ Streaming => Fits(Len(rest))

(* In the answer: all but the newest token is in the cache, and there is     *)
(* room for that.                                                            *)
Decoding ==
  /\ prompt # <<>>
  /\ Len(new_ids) \in 1..(limit - 1) /\ ~ hit_stop(new_ids)
  /\ SoFar = Len(prompt) + Len(new_ids) - 1
  /\ ~ Streaming => past_len + 1 <= MaxSeqLen

Ended ==
  /\ Len(new_ids) <= limit /\ ~ hit_stop(new_ids)
  /\ SoFar = Len(prompt) + Len(new_ids) - 1

LInv ==
  /\ Typed
  /\ CacheIsHistory
  /\ StaysInside
  /\ InCall => Follows
  /\ phase = "prompt" => Prompting
  /\ phase = "decode" => Decoding
  /\ phase = "idle" /\ result \in {"stopped", "limit", "full"} => Ended
  /\ AttendsHistory

(* The step's answer is pushed, popped tokens are taken back. *)
LEMMA EmitKeeps ==
  ASSUME Typed, NEW t \in Token, NEW tokens \in Seq(Tokens), UNCHANGED <<config, call>>,
         prompt # <<>>, Len(new_ids) < limit,
         Len(tokens) = base + Len(prompt) + Len(new_ids),
         \A i \in 1..(Len(prompt) + Len(new_ids)) : tokens[base + i] = (prompt \o new_ids)[i],
         Emit(t, Len(tokens), tokens)
  PROVE  /\ new_ids' \in Seq(Tokens) /\ fed' \in Seq(Tokens) /\ past_len' = Len(fed')
         /\ Len(fed') <= Len(tokens) /\ \A i \in 1..Len(fed') : fed'[i] = tokens[i]
         /\ phase' \in {"idle", "decode"} /\ result' \in Results
         /\ phase' = "idle" => result' \in {"stopped", "limit", "full"} /\ Ended'
         /\ phase' = "decode" => Decoding' /\ Len(fed') = Len(tokens)
         /\ Follows'
<1> DEFINE ids == Append(new_ids, t)
           stop == t = Eos \/ hit_stop(ids)
           k == IF stop THEN Popped(ids) ELSE 0
           m == Len(prompt) + Len(new_ids)
           past == Len(tokens)
<1> HIDE DEF Tokens
<1>1. t \in Tokens
  BY DEF Tokens
<1>2. /\ ids \in Seq(Tokens) /\ Len(ids) = Len(new_ids) + 1
      /\ \A i \in 1..Len(new_ids) : ids[i] = new_ids[i]
  BY <1>1 DEF Typed
<1>3. Len(prompt) \in Nat \ {0} /\ Len(new_ids) \in Nat /\ past \in Nat /\ base \in Nat /\ limit \in Nat
  BY LenProperties, EmptySeq DEF Typed
<1>4. k \in 0..Len(ids) /\ ~ hit_stop(SubSeq(ids, 1, Len(ids) - k))
  <2>1. CASE stop
    BY <2>1, <1>2, PoppedEnough
  <2>2. CASE ~ stop
    <3>1. Len(ids) - k = Len(ids)
      BY <2>2, <1>2, <1>3
    <3>2. SubSeq(ids, 1, Len(ids) - k) = ids
      BY <3>1, <1>2, SubSeqFull, Zenon
    <3>3. ~ hit_stop(SubSeq(ids, 1, Len(ids) - k))
      BY <3>2, <2>2, Zenon
    <3>4. k \in 0..Len(ids)
      BY <2>2, <1>2, <1>3
    <3> QED
      BY <3>3, <3>4, Zenon
  <2> QED
    BY <2>1, <2>2
<1> DEFINE left == IF past < k THEN 0 ELSE past - k
<1>5. /\ new_ids' = SubSeq(ids, 1, Len(ids) - k) /\ past_len' = left /\ fed' = SubSeq(tokens, 1, left)
      /\ IF stop THEN phase' = "idle" /\ result' = "stopped"
         ELSE IF Len(ids) = limit THEN phase' = "idle" /\ result' = "limit"
         ELSE IF ~Streaming /\ MaxSeqLen < past + 1 THEN phase' = "idle" /\ result' = "full"
         ELSE phase' = "decode" /\ result' = result
  <2> HIDE DEF ids, past
  <2>1. Emit(t, past, tokens)
    BY DEF past
  <2> QED
    BY <2>1, Zenon DEF Emit, ids
<1> HIDE DEF stop, k
<1>6. left = past - k /\ left \in Nat /\ left <= past
  BY <1>2, <1>3, <1>4
<1> HIDE DEF left
<1>7. fed' \in Seq(Tokens) /\ Len(fed') = left /\ \A i \in 1..left : fed'[i] = tokens[i]
  <2>1. \A i \in 1..left : tokens[i] \in Tokens
    BY <1>3, <1>6, ElementOfSeq
  <2>2. /\ SubSeq(tokens, 1, left) \in Seq(Tokens)
        /\ Len(SubSeq(tokens, 1, left)) = IF 1 <= left THEN left - 1 + 1 ELSE 0
        /\ \A i \in 1..(left - 1 + 1) : SubSeq(tokens, 1, left)[i] = tokens[1 + i - 1]
    BY <2>1, <1>6, SubSeqProperties
  <2> QED
    BY <2>2, <1>5, <1>6
<1>8. /\ new_ids' \in Seq(Tokens) /\ Len(new_ids') = Len(ids) - k
      /\ \A i \in 1..(Len(ids) - k) : new_ids'[i] = ids[i]
  <2> DEFINE n == Len(ids) - k
  <2>0. n \in Nat /\ n <= Len(ids)
    BY <1>2, <1>3, <1>4
  <2>1. \A i \in 1..n : ids[i] \in Tokens
    BY <1>2, <2>0, ElementOfSeq
  <2> HIDE DEF n, ids
  <2>2. /\ SubSeq(ids, 1, n) \in Seq(Tokens)
        /\ Len(SubSeq(ids, 1, n)) = IF 1 <= n THEN n - 1 + 1 ELSE 0
        /\ \A i \in 1..(n - 1 + 1) : SubSeq(ids, 1, n)[i] = ids[1 + i - 1]
    BY <2>1, <2>0, SubSeqProperties
  <2>3. new_ids' = SubSeq(ids, 1, n)
    BY <1>5 DEF n
  <2> QED
    BY <2>2, <2>3, <2>0 DEF n
<1>9. prompt' = prompt /\ base' = base /\ limit' = limit /\ config' = config
  BY DEF call
<1>10. SoFar' = m + base - k - base /\ SoFar' = Len(prompt') + Len(new_ids') - 1
  BY <1>2, <1>3, <1>4, <1>6, <1>7, <1>8, <1>9 DEF SoFar
<1>11. Follows'
  <2>0. Len(new_ids') \in Nat /\ Len(new_ids') = Len(ids) - k
    BY <1>8, LenProperties
  <2>1. SoFar' \in 0..(Len(prompt') + Len(new_ids'))
    <3>1. SoFar' = Len(prompt) + Len(new_ids') - 1
      BY <1>9, <1>10
    <3> QED
      BY <3>1, <2>0, <1>3, <1>9
  <2>2. ASSUME NEW i \in 1..SoFar' PROVE fed'[base' + i] = (prompt' \o new_ids')[i]
    <3>1. i \in 1..m /\ base + i \in 1..left /\ SoFar' = left - base
      BY <1>2, <1>3, <1>4, <1>6, <1>10
    <3>2. fed'[base + i] = (prompt \o new_ids)[i]
      BY <3>1, <1>7
    <3>3. (prompt \o new_ids)[i] = IF i <= Len(prompt) THEN prompt[i] ELSE new_ids[i - Len(prompt)]
      BY <3>1, ConcatProperties DEF Typed
    <3>4. i \in 1..(Len(prompt) + Len(new_ids'))
      BY <2>0, <2>1, <1>9, <1>3
    <3>5. (prompt \o new_ids')[i] = IF i <= Len(prompt) THEN prompt[i] ELSE new_ids'[i - Len(prompt)]
      BY <3>4, <1>8, ConcatProperties DEF Typed
    <3>6. ASSUME ~ (i <= Len(prompt)) PROVE new_ids'[i - Len(prompt)] = new_ids[i - Len(prompt)]
      <4>1. i - Len(prompt) \in 1..Len(new_ids) /\ i - Len(prompt) \in 1..(Len(ids) - k)
        BY <3>1, <3>4, <3>6, <1>3, <1>8, SMTT(30)
      <4> HIDE DEF ids
      <4> QED
        BY <4>1, <1>2, <1>8
    <3> QED
      BY <3>2, <3>3, <3>5, <3>6, <1>9
  <2> QED
    BY <2>1, <2>2 DEF Follows
<1>12. ~ hit_stop(new_ids)'
  <2>1. ~ hit_stop(new_ids')
    BY <1>4, <1>5, Zenon
  <2> QED
    BY <2>1 DEF hit_stop
<1>13. Len(new_ids') <= limit'
  BY <1>2, <1>3, <1>4, <1>8, <1>9
<1>14. ASSUME phase' = "decode" PROVE Decoding' /\ Len(fed') = Len(tokens)
  <2>1. ~ stop /\ Len(ids) # limit /\ ~ (~Streaming /\ MaxSeqLen < past + 1)
    BY <1>14, <1>5
  <2>2. k = 0
    BY <2>1 DEF k
  <2>3. Len(new_ids') \in 1..(limit' - 1)
    BY <2>1, <2>2, <1>2, <1>3, <1>8, <1>9
  <2>4. past_len' = past /\ Len(fed') = past
    BY <2>2, <1>5, <1>6, <1>7
  <2>5. ~ Streaming' => past_len' + 1 <= MaxSeqLen'
    <3>1. Streaming' = Streaming /\ MaxSeqLen' = MaxSeqLen /\ MaxSeqLen \in Nat
      BY <1>9, ConfigTyped DEF Streaming, Window, MaxSeqLen, Typed
    <3> QED
      BY <3>1, <2>1, <2>4, <1>3
  <2>6. Decoding'
    BY <2>3, <2>5, <1>9, <1>10, <1>12 DEF Decoding
  <2> QED
    BY <2>4, <2>6
<1>15. phase' = "idle" => result' \in {"stopped", "limit", "full"} /\ Ended'
  <2>1. Ended'
    BY <1>10, <1>12, <1>13 DEF Ended
  <2>2. phase' = "idle" => result' \in {"stopped", "limit", "full"}
    BY <1>5
  <2> QED
    BY <2>1, <2>2
<1>16. phase' \in {"idle", "decode"} /\ result' \in Results
  BY <1>5 DEF Typed, Results
<1> QED
  BY <1>5, <1>6, <1>7, <1>8, <1>11, <1>14, <1>15, <1>16

(* The rows of the tokens fed lie where their positions say, and the view is *)
(* of them, however much of the answer is taken back.                        *)
LEMMA HistoryKept ==
  ASSUME Typed, CacheIsHistory, config' = config,
         NEW toks \in Seq(Tokens), NEW real \in 1..Len(toks),
         reach' \in Nat, reach' >= reach, reach' >= past_len + Len(toks),
         (Streaming => reach' <= MaxActive) => RowsFollow(toks) /\ ViewFollows(past_len + real),
         NEW tokens \in Seq(Tokens), Len(tokens) = past_len + real,
         \A i \in 1..Len(tokens) : tokens[i] = IF i <= past_len THEN fed[i] ELSE toks[i - past_len],
         fed' \in Seq(Tokens), Len(fed') <= Len(tokens), \A i \in 1..Len(fed') : fed'[i] = tokens[i],
         past_len' = Len(fed'), phase' # "idle" => Len(fed') = Len(tokens)
  PROVE  CacheIsHistory' /\ AttendsHistory'
<1> HIDE DEF Tokens
<1>1. /\ Streaming' = Streaming /\ MaxActive' = MaxActive
      /\ MaxActive \in Nat /\ past_len \in Nat /\ past_len = Len(fed) /\ Len(fed') \in Nat
      /\ real \in Nat /\ Len(toks) \in Nat /\ real <= Len(toks) /\ reach \in Nat /\ Len(tokens) \in Nat
  <2>1. Streaming' = Streaming /\ MaxActive' = MaxActive
    BY DEF Streaming, MaxActive, Window, Sink
  <2>2. config \in Configs /\ past_len \in Nat /\ reach \in Nat /\ past_len = Len(fed)
    BY DEF Typed, CacheIsHistory
  <2>3. MaxActive \in Nat
    BY <2>2, ConfigTyped
  <2>4. Len(fed') \in Nat /\ Len(toks) \in Nat /\ Len(tokens) \in Nat
    BY LenProperties
  <2> QED
    BY <2>1, <2>2, <2>3, <2>4
<1>2. ASSUME Streaming => reach' <= MaxActive
      PROVE  \A i \in 1..Len(tokens) : cache'[i - 1] = <<i - 1, tokens[i]>>
  <2> SUFFICES ASSUME NEW i \in 1..Len(tokens) PROVE cache'[i - 1] = <<i - 1, tokens[i]>>
    OBVIOUS
  <2>1. i - 1 \in 0..(past_len + Len(toks) - 1)
    BY <1>1
  <2>2. cache'[i - 1] = IF i - 1 < past_len THEN cache[i - 1] ELSE <<i - 1, toks[i - 1 - past_len + 1]>>
    BY <2>1, <1>2 DEF RowsFollow
  <2>3. CASE i <= past_len
    <3>1. Streaming => reach <= MaxActive
      BY <1>1, <1>2
    <3>2. cache[i - 1] = <<i - 1, fed[i]>>
      <4>1. i \in 1..Len(fed)
        BY <2>3, <1>1
      <4> QED
        BY <3>1, <4>1 DEF CacheIsHistory
    <3>3. i - 1 < past_len
      BY <2>3, <1>1
    <3> QED
      BY <3>2, <3>3, <2>2, <2>3
  <2>4. CASE ~ (i <= past_len)
    <3>1. ~ (i - 1 < past_len) /\ i - 1 - past_len + 1 = i - past_len
      BY <2>4, <1>1
    <3> QED
      BY <3>1, <2>2, <2>4
  <2> QED
    BY <2>3, <2>4
<1>3. CacheIsHistory'
  <2>1. ASSUME Streaming => reach' <= MaxActive, NEW i \in 1..Len(fed')
        PROVE  cache'[i - 1] = <<i - 1, fed'[i]>>
    <3>1. i \in 1..Len(tokens)
      BY <1>1
    <3> QED
      BY <3>1, <1>2, <2>1
  <2> QED
    BY <2>1, <1>1 DEF CacheIsHistory
<1>4. AttendsHistory'
  <2> SUFFICES ASSUME phase' # "idle", Streaming => reach' <= MaxActive
               PROVE  Len(view') = Len(fed') /\ Sees(Recent(Len(fed)))'
    BY <1>1 DEF AttendsHistory
  <2>1. Len(view') = Len(fed') /\ Len(fed') = past_len + real /\ Len(fed') = Len(tokens)
    BY <1>1 DEF ViewFollows
  <2>2. \A r \in 1..Len(fed') : view'[r].row = cache'[r - 1] /\ (cache'[r - 1][1] = r - 1 => view'[r].rotated = r - 1)
    BY <2>1 DEF ViewFollows
  <2>3. \A r \in 1..Len(fed') : cache'[r - 1] = <<r - 1, fed'[r]>>
    BY <2>1, <1>2
  <2>4. Recent(Len(fed))' = [r \in 1..Len(fed') |-> r]
    <3>1. ~ Streaming' \/ Len(fed') <= MaxActive'
      BY <1>1, <2>1
    <3> QED
      BY <3>1 DEF Recent
  <2>5. \A r \in 1..Len(fed') : view'[r].row = <<r - 1, fed'[r]>> /\ view'[r].rotated = r - 1
    BY <2>2, <2>3
  <2>6. DOMAIN view' = 1..Len(fed')
    BY <2>1 DEF ViewFollows
  <2> QED
    BY <2>1, <2>4, <2>5, <2>6 DEF Sees
<1> QED
  BY <1>3, <1>4

-----------------------------------------------------------------------------
(* The steps. *)

LEMMA SamePlace ==
  ASSUME config' = config
  PROVE  Streaming' = Streaming /\ MaxSeqLen' = MaxSeqLen /\ PrefillLen' = PrefillLen /\ MaxActive' = MaxActive
BY DEF Streaming, MaxSeqLen, PrefillLen, MaxActive, Window, Sink

(* What was fed, and n tokens more. *)
Longer(tokens, more, n) ==
  /\ Len(tokens) = past_len + n
  /\ \A i \in 1..Len(tokens) : tokens[i] = IF i <= past_len THEN fed[i] ELSE more[i - past_len]

(* n of the tokens left are fed; they are not the last. *)
FedOn(tokens, n) ==
  /\ n < Len(rest) /\ past_len' = past_len + n /\ fed' = tokens /\ UNCHANGED <<phase, new_ids, result>>
  /\ Len(rest') = Len(rest) - n /\ \A i \in 1..Len(rest') : rest'[i] = rest[n + i]
  /\ ~ Streaming => Fits(Len(rest))'

(* One step of the prompt feeds its next n tokens, the first of the rows.    *)
LEMMA PromptStep ==
  ASSUME LInv, RingOnCuda, phase = "prompt", UNCHANGED <<config, call, calls, failures>>,
         NEW toks \in Seq(Tokens), NEW n \in 1..Len(rest), n <= Len(toks),
         \A i \in 1..n : toks[i] = rest[i],
         NEW pos \in {past_len, past_len + Len(toks)},
         ~ Streaming => past_len + Len(toks) <= MaxSeqLen,
         Run(toks, n, pos),
         NEW tokens \in Seq(Tokens), Longer(tokens, rest, n),
         rest' \in Seq(Tokens),
         FedOn(tokens, n) \/ (n = Len(rest) /\ \E t \in Token : Emit(t, past_len + n, tokens))
  PROVE  LInv'
<1> HIDE DEF Tokens
<1>1. /\ Typed /\ CacheIsHistory /\ Follows /\ Prompting /\ ~ spilled
  BY DEF LInv, InCall, StaysInside
<1>2. /\ config \in Configs /\ past_len \in Nat /\ reach \in Nat /\ Readable /\ past_len = Len(fed)
      /\ fed \in Seq(Tokens) /\ prompt \in Seq(Tokens) /\ new_ids = <<>> /\ rest \in Seq(Tokens)
      /\ base \in Nat /\ limit \in Nat \ {0} /\ n \in Nat \ {0}
  BY <1>1 DEF Typed, CacheIsHistory, Prompting
<1>3. /\ Len(rest) \in Nat /\ Len(prompt) \in Nat /\ Len(new_ids) = 0 /\ Len(toks) \in Nat /\ Len(tokens) \in Nat
      /\ SoFar + Len(rest) = Len(prompt) /\ SoFar = past_len - base /\ SoFar \in Nat
      /\ Len(tokens) = past_len + n
  <2>1. Len(rest) \in Nat /\ Len(prompt) \in Nat /\ Len(new_ids) = 0 /\ Len(toks) \in Nat /\ Len(tokens) \in Nat
    BY <1>2, LenProperties, EmptySeq
  <2>2. SoFar + Len(rest) = Len(prompt) /\ SoFar \in 0..(Len(prompt) + Len(new_ids))
    BY <1>1 DEF Prompting, Follows
  <2>3. SoFar = past_len - base
    BY <1>2 DEF SoFar
  <2>4. Len(tokens) = past_len + n
    BY DEF Longer
  <2> QED
    BY <2>1, <2>2, <2>3, <2>4
<1>4. n \in 1..Len(toks)
  BY <1>2, <1>3
<1>5. /\ cache' \in [0..(MaxSeqLen - 1) -> Int \X Tokens]
      /\ ~ spilled'
      /\ reach' \in Nat /\ reach' >= reach /\ reach' >= past_len + Len(toks)
      /\ (Streaming => reach' <= MaxActive) => RowsFollow(toks) /\ ViewFollows(past_len + n)
  BY <1>1, <1>2, <1>4, RunWrites
<1>6. prompt \o new_ids = prompt
  BY <1>2, ConcatEmptySeq
<1>7. \A i \in 1..(SoFar + n) : tokens[base + i] = prompt[i]
  <2>1. ASSUME NEW j \in (base + 1)..(past_len + n) PROVE tokens[j] = prompt[j - base]
    <3>1. tokens[j] = IF j <= past_len THEN fed[j] ELSE rest[j - past_len]
      <4>1. j \in 1..Len(tokens)
        BY <1>2, <1>3
      <4> QED
        BY <4>1 DEF Longer
    <3>2. CASE j <= past_len
      <4>1. j - base \in 1..SoFar /\ base + (j - base) = j
        BY <3>2, <1>2, <1>3
      <4>2. fed[base + (j - base)] = (prompt \o new_ids)[j - base]
        BY <4>1, <1>1 DEF Follows
      <4> QED
        BY <3>1, <3>2, <4>1, <4>2, <1>6
    <3>3. CASE ~ (j <= past_len)
      <4>1. j - past_len \in 1..Len(rest) /\ SoFar + (j - past_len) = j - base
        BY <3>3, <1>2, <1>3, SMTT(30)
      <4>2. rest[j - past_len] = prompt[SoFar + (j - past_len)]
        BY <4>1, <1>1 DEF Prompting
      <4> QED
        BY <3>1, <3>3, <4>1, <4>2
    <3> QED
      BY <3>2, <3>3
  <2> SUFFICES ASSUME NEW i \in 1..(SoFar + n) PROVE tokens[base + i] = prompt[i]
    OBVIOUS
  <2>2. base + i \in (base + 1)..(past_len + n) /\ (base + i) - base = i
    BY <1>2, <1>3
  <2> QED
    BY <2>1, <2>2
<1>8. \A i \in 1..Len(tokens) : tokens[i] = IF i <= past_len THEN fed[i] ELSE toks[i - past_len]
  <2> SUFFICES ASSUME NEW i \in 1..Len(tokens), ~ (i <= past_len) PROVE rest[i - past_len] = toks[i - past_len]
    BY DEF Longer
  <2>1. i - past_len \in 1..n
    BY <1>2, <1>3
  <2> QED
    BY <2>1
<1>9. /\ prompt' = prompt /\ base' = base /\ limit' = limit /\ config' = config
      /\ calls' = calls /\ failures' = failures
  BY DEF call
<1>10. Readable'
  BY <1>5, <1>9, SamePlace DEF Readable
<1>11. CASE FedOn(tokens, n)
  <2>0. /\ n < Len(rest) /\ past_len' = past_len + n /\ fed' = tokens
        /\ phase' = phase /\ new_ids' = new_ids /\ result' = result
        /\ Len(rest') = Len(rest) - n
    BY <1>11 DEF FedOn
  <2>1. CacheIsHistory' /\ AttendsHistory'
    <3>1. /\ fed' \in Seq(Tokens) /\ Len(fed') <= Len(tokens) /\ \A i \in 1..Len(fed') : fed'[i] = tokens[i]
          /\ past_len' = Len(fed') /\ (phase' # "idle" => Len(fed') = Len(tokens))
      BY <2>0, <1>2, <1>3
    <3> QED
      BY <1>1, <1>4, <1>3, <1>5, <1>8, <1>9, <3>1, HistoryKept
  <2>2. Typed'
    BY <1>1, <1>2, <1>5, <1>9, <1>10, <2>0 DEF Typed
  <2>3. SoFar' = SoFar + n
    <3>1. SoFar' = Len(tokens) - base
      BY <1>9, <2>0 DEF SoFar
    <3> QED
      BY <3>1, <1>2, <1>3
  <2>4. Follows'
    <3>1. SoFar' \in 0..(Len(prompt') + Len(new_ids'))
      BY <2>3, <1>2, <1>3, <1>9, <2>0, SMTT(30)
    <3>2. (prompt \o new_ids)' = prompt
      BY <1>6, <1>9, <2>0
    <3>3. \A i \in 1..SoFar' : fed'[base' + i] = prompt[i]
      BY <2>3, <1>7, <1>9, <2>0
    <3> QED
      BY <3>1, <3>2, <3>3 DEF Follows
  <2>5. Prompting'
    <3>1. Len(rest') > 0 /\ rest' # <<>>
      BY <2>0, <1>2, <1>3, EmptySeq
    <3>2. SoFar' + Len(rest') = Len(prompt')
      <4>1. Len(prompt') = Len(prompt)
        BY <1>9
      <4>2. Len(rest') \in Int /\ SoFar' \in Int
        BY <2>0, <2>3, <1>2, <1>3
      <4> QED
        BY <4>1, <2>0, <2>3, <1>3
    <3>3. \A i \in 1..Len(rest') : rest'[i] = prompt[SoFar' + i]
      <4> SUFFICES ASSUME NEW i \in 1..Len(rest') PROVE rest'[i] = prompt[SoFar' + i]
        OBVIOUS
      <4>0. n \in Nat
        BY <1>2
      <4>1. n + i \in 1..Len(rest) /\ SoFar + (n + i) = SoFar' + i
        BY <4>0, <2>0, <2>3, <1>3
      <4>2. rest[n + i] = prompt[SoFar + (n + i)]
        BY <4>1, <1>1 DEF Prompting
      <4> QED
        BY <4>1, <4>2, <1>11 DEF FedOn
    <3>4. ~ Streaming' => Fits(Len(rest))'
      BY <1>9, <1>11, SamePlace DEF FedOn
    <3> QED
      BY <3>1, <3>2, <3>3, <3>4, <1>2, <1>9, <2>0 DEF Prompting
  <2>6. phase' = "prompt"
    BY <2>0
  <2> QED
    BY <2>1, <2>2, <2>4, <2>5, <2>6, <1>5 DEF LInv, StaysInside
<1>12. CASE n = Len(rest) /\ \E t \in Token : Emit(t, past_len + n, tokens)
  <2>1. PICK t \in Token : Emit(t, past_len + n, tokens)
    BY <1>12
  <2>2. Emit(t, Len(tokens), tokens)
    <3>1. Len(tokens) = past_len + n
      BY <1>3
    <3> HIDE DEF Emit
    <3> QED
      BY <2>1, <3>1, Zenon
  <2>3. /\ prompt # <<>> /\ Len(new_ids) < limit /\ Len(tokens) = base + Len(prompt) + Len(new_ids)
        /\ \A i \in 1..(Len(prompt) + Len(new_ids)) : tokens[base + i] = (prompt \o new_ids)[i]
    <3>1. Len(prompt) = SoFar + n /\ Len(prompt) > 0
      BY <1>2, <1>3, <1>12
    <3>2. prompt # <<>>
      BY <3>1, EmptySeq
    <3>3. Len(prompt) + Len(new_ids) = SoFar + n
      BY <3>1, <1>3, <1>2
    <3>4. Len(new_ids) < limit /\ Len(tokens) = base + Len(prompt) + Len(new_ids)
      BY <3>1, <1>2, <1>3
    <3> QED
      BY <3>2, <3>3, <3>4, <1>6, <1>7
  <2>4. /\ new_ids' \in Seq(Tokens) /\ fed' \in Seq(Tokens) /\ past_len' = Len(fed')
        /\ Len(fed') <= Len(tokens) /\ \A i \in 1..Len(fed') : fed'[i] = tokens[i]
        /\ phase' \in {"idle", "decode"} /\ result' \in Results
        /\ phase' = "idle" => result' \in {"stopped", "limit", "full"} /\ Ended'
        /\ phase' = "decode" => Decoding' /\ Len(fed') = Len(tokens)
        /\ Follows'
    <3>1. UNCHANGED <<config, call>>
      OBVIOUS
    <3> HIDE DEF call, Emit
    <3> QED
      BY <1>1, <2>2, <2>3, <3>1, EmitKeeps
  <2>5. CacheIsHistory' /\ AttendsHistory'
    BY <1>1, <1>4, <1>3, <1>5, <1>8, <1>9, <2>4, HistoryKept
  <2>6. Typed'
    <3>1. past_len' \in Nat
      BY <2>4, LenProperties
    <3> QED
      BY <1>1, <1>2, <1>5, <1>9, <1>10, <2>4, <3>1 DEF Typed
  <2> QED
    BY <2>4, <2>5, <2>6, <1>5 DEF LInv, StaysInside
<1> QED
  BY <1>11, <1>12

LEMMA DecodeStep ==
  ASSUME LInv, RingOnCuda, DecodeToken, config' = config
  PROVE  LInv'
<1> DEFINE newest == new_ids[Len(new_ids)]
           toks == <<newest>>
           tokens == Append(fed, newest)
<1> HIDE DEF Tokens
<1>1. /\ phase = "decode" /\ Run(toks, 1, past_len)
      /\ UNCHANGED <<call, rest, calls, failures>>
      /\ \E t \in Token : Emit(t, past_len + 1, tokens)
  BY Zenon DEF DecodeToken
<1>2. /\ Typed /\ CacheIsHistory /\ Follows /\ Decoding /\ ~ spilled
  BY <1>1 DEF LInv, InCall, StaysInside
<1>3. /\ config \in Configs /\ past_len \in Nat /\ reach \in Nat /\ Readable /\ past_len = Len(fed)
      /\ fed \in Seq(Tokens) /\ prompt \in Seq(Tokens) /\ new_ids \in Seq(Tokens) /\ base \in Nat /\ limit \in Nat
  BY <1>2 DEF Typed, CacheIsHistory
<1>4. /\ Len(new_ids) \in Nat \ {0} /\ Len(prompt) \in Nat /\ Len(new_ids) < limit
      /\ SoFar = Len(prompt) + Len(new_ids) - 1 /\ SoFar = past_len - base
  <2>1. Len(new_ids) \in 1..(limit - 1) /\ SoFar = Len(prompt) + Len(new_ids) - 1
    BY <1>2 DEF Decoding
  <2>2. SoFar = past_len - base /\ Len(prompt) \in Nat /\ Len(new_ids) \in Nat
    BY <1>3, LenProperties DEF SoFar
  <2>3. limit \in Nat
    BY <1>3
  <2> QED
    BY <2>1, <2>2, <2>3
<1>5. newest \in Tokens
  BY <1>3, <1>4, ElementOfSeq
<1> HIDE DEF newest
<1>6. /\ toks \in Seq(Tokens) /\ Len(toks) = 1 /\ toks[1] = newest
      /\ tokens \in Seq(Tokens) /\ Len(tokens) = past_len + 1
      /\ \A i \in 1..Len(tokens) : tokens[i] = IF i <= past_len THEN fed[i] ELSE newest
  BY <1>3, <1>5
<1> HIDE DEF toks, tokens
<1>7. /\ cache' \in [0..(MaxSeqLen - 1) -> Int \X Tokens]
      /\ ~ spilled'
      /\ reach' \in Nat /\ reach' >= reach /\ reach' >= past_len + Len(toks)
      /\ (Streaming => reach' <= MaxActive) => RowsFollow(toks) /\ ViewFollows(past_len + 1)
  <2>1. 1 \in 1..Len(toks) /\ past_len \in {past_len, past_len + Len(toks)}
    BY <1>6
  <2>2. ~ Streaming => past_len + Len(toks) <= MaxSeqLen
    BY <1>2, <1>6 DEF Decoding
  <2> QED
    BY <1>1, <1>2, <1>3, <1>6, <2>1, <2>2, RunWrites
<1>8. /\ prompt' = prompt /\ base' = base /\ limit' = limit /\ config' = config /\ rest' = rest
      /\ calls' = calls /\ failures' = failures
  BY <1>1 DEF call
<1>9. \A i \in 1..(Len(prompt) + Len(new_ids)) : tokens[base + i] = (prompt \o new_ids)[i]
  <2>1. ASSUME NEW j \in (base + 1)..(past_len + 1) PROVE tokens[j] = (prompt \o new_ids)[j - base]
    <3>1. tokens[j] = IF j <= past_len THEN fed[j] ELSE newest
      BY <1>3, <1>6
    <3>2. CASE j <= past_len
      <4>1. j - base \in 1..SoFar /\ base + (j - base) = j
        BY <3>2, <1>3, <1>4
      <4>2. fed[base + (j - base)] = (prompt \o new_ids)[j - base]
        BY <4>1, <1>2 DEF Follows
      <4> QED
        BY <3>1, <3>2, <4>1, <4>2
    <3>3. CASE ~ (j <= past_len)
      <4>1. j - base = Len(prompt) + Len(new_ids) /\ j - base - Len(prompt) = Len(new_ids)
            /\ ~ (j - base <= Len(prompt)) /\ j - base \in 1..(Len(prompt) + Len(new_ids))
        BY <3>3, <1>3, <1>4, SMTT(30)
      <4>2. (prompt \o new_ids)[j - base] =
              IF j - base <= Len(prompt) THEN prompt[j - base] ELSE new_ids[j - base - Len(prompt)]
        BY <4>1, <1>3, ConcatProperties
      <4> QED
        BY <3>1, <3>3, <4>1, <4>2 DEF newest
    <3> QED
      BY <3>2, <3>3
  <2> SUFFICES ASSUME NEW i \in 1..(Len(prompt) + Len(new_ids)) PROVE tokens[base + i] = (prompt \o new_ids)[i]
    OBVIOUS
  <2>2. base + i \in (base + 1)..(past_len + 1) /\ (base + i) - base = i
    BY <1>3, <1>4
  <2> QED
    BY <2>1, <2>2
<1>10. Readable'
  BY <1>7, <1>8, SamePlace DEF Readable
<1>11. PICK t \in Token : Emit(t, past_len + 1, tokens)
  BY <1>1
<1>12. /\ new_ids' \in Seq(Tokens) /\ fed' \in Seq(Tokens) /\ past_len' = Len(fed')
       /\ Len(fed') <= Len(tokens) /\ \A i \in 1..Len(fed') : fed'[i] = tokens[i]
       /\ phase' \in {"idle", "decode"} /\ result' \in Results
       /\ phase' = "idle" => result' \in {"stopped", "limit", "full"} /\ Ended'
       /\ phase' = "decode" => Decoding' /\ Len(fed') = Len(tokens)
       /\ Follows'
  <2>1. Emit(t, Len(tokens), tokens)
    <3> HIDE DEF Emit
    <3> QED
      BY <1>6, <1>11, Zenon
  <2>2. prompt # <<>> /\ Len(tokens) = base + Len(prompt) + Len(new_ids)
    <3>1. Len(tokens) = base + Len(prompt) + Len(new_ids)
      <4>1. Len(tokens) = past_len + 1
        BY <1>6
      <4> QED
        BY <4>1, <1>3, <1>4
    <3>2. prompt # <<>>
      BY <1>2 DEF Decoding
    <3> QED
      BY <3>1, <3>2
  <2>3. UNCHANGED <<config, call>>
    BY <1>1
  <2> HIDE DEF call, Emit
  <2> QED
    BY <1>2, <1>4, <1>6, <1>9, <2>1, <2>2, <2>3, EmitKeeps
<1>13. CacheIsHistory' /\ AttendsHistory'
  <2>1. \A i \in 1..Len(tokens) : tokens[i] = IF i <= past_len THEN fed[i] ELSE toks[i - past_len]
    <3> SUFFICES ASSUME NEW i \in 1..Len(tokens), ~ (i <= past_len) PROVE newest = toks[i - past_len]
      BY <1>6
    <3>1. i - past_len = 1
      BY <1>3, <1>6
    <3> QED
      BY <3>1, <1>6
  <2>2. 1 \in 1..Len(toks)
    BY <1>6
  <2> QED
    BY <1>2, <1>6, <1>7, <1>8, <1>12, <2>1, <2>2, HistoryKept
<1>14. Typed'
  <2>1. past_len' \in Nat
    BY <1>12, LenProperties
  <2> QED
    BY <1>2, <1>3, <1>7, <1>8, <1>10, <1>12, <2>1 DEF Typed
<1> QED
  BY <1>7, <1>12, <1>13, <1>14 DEF LInv, StaysInside

LEMMA ChunkKeeps ==
  ASSUME LInv, RingOnCuda, PrefillChunk, config' = config
  PROVE  LInv'
<1> DEFINE n == MinOf(Len(rest), PrefillLen)
           chunk == SubSeq(rest, 1, n)
           more == SubSeq(rest, n + 1, Len(rest))
           toks == Padded(chunk)
           tokens == fed \o chunk
<1> HIDE DEF Tokens
<1>1. /\ phase = "prompt" /\ PrefillLen > 0
      /\ Run(toks, n, past_len + PrefillLen)
      /\ IF more # <<>> THEN Feed(chunk, more)
         ELSE rest' = more /\ \E t \in Token : Emit(t, past_len + n, tokens)
      /\ UNCHANGED <<call, calls, failures>>
  BY Zenon DEF PrefillChunk
<1>2. Typed /\ Prompting /\ past_len = Len(fed)
  BY <1>1 DEF LInv, CacheIsHistory
<1>3. /\ config \in Configs /\ past_len \in Nat /\ fed \in Seq(Tokens) /\ rest \in Seq(Tokens)
      /\ PrefillLen \in Nat \ {0} /\ Len(rest) \in Nat \ {0} /\ MaxSeqLen \in Nat
  <2>1. config \in Configs /\ past_len \in Nat /\ fed \in Seq(Tokens) /\ rest \in Seq(Tokens) /\ rest # <<>>
    BY <1>2 DEF Typed, Prompting
  <2>2. PrefillLen \in Nat /\ MaxSeqLen \in Nat
    BY <2>1, ConfigTyped
  <2> QED
    BY <2>1, <2>2, <1>1, EmptySeq
<1>4. n \in 1..Len(rest) /\ n <= PrefillLen /\ (n < Len(rest) => n = PrefillLen) /\ n \in Nat
  BY <1>3 DEF MinOf
<1> HIDE DEF n
<1>5. chunk \in Seq(Tokens) /\ Len(chunk) = n /\ \A i \in 1..n : chunk[i] = rest[i]
  <2>1. \A i \in 1..n : rest[i] \in Tokens
    BY <1>3, <1>4, ElementOfSeq
  <2>2. /\ SubSeq(rest, 1, n) \in Seq(Tokens)
        /\ Len(SubSeq(rest, 1, n)) = IF 1 <= n THEN n - 1 + 1 ELSE 0
        /\ \A i \in 1..(n - 1 + 1) : SubSeq(rest, 1, n)[i] = rest[1 + i - 1]
    BY <2>1, <1>4, SubSeqProperties
  <2> QED
    BY <2>2, <1>4
<1>6. more \in Seq(Tokens) /\ Len(more) = Len(rest) - n /\ \A i \in 1..Len(more) : more[i] = rest[n + i]
  <2>1. \A i \in (n + 1)..Len(rest) : rest[i] \in Tokens
    <3> SUFFICES ASSUME NEW i \in (n + 1)..Len(rest) PROVE rest[i] \in Tokens
      OBVIOUS
    <3>1. i \in 1..Len(rest)
      BY <1>4, <1>3
    <3> QED
      BY <3>1, <1>3, ElementOfSeq
  <2>2. /\ SubSeq(rest, n + 1, Len(rest)) \in Seq(Tokens)
        /\ Len(SubSeq(rest, n + 1, Len(rest))) = IF n + 1 <= Len(rest) THEN Len(rest) - (n + 1) + 1 ELSE 0
        /\ \A i \in 1..(Len(rest) - (n + 1) + 1) : SubSeq(rest, n + 1, Len(rest))[i] = rest[n + 1 + i - 1]
    <3>1. n + 1 \in Int /\ Len(rest) \in Int
      BY <1>3, <1>4
    <3> HIDE DEF more
    <3> QED
      BY <2>1, <3>1, SubSeqProperties
  <2> QED
    BY <2>2, <1>3, <1>4
<1> HIDE DEF chunk, more
<1>7. toks \in Seq(Tokens) /\ Len(toks) = PrefillLen /\ \A i \in 1..n : toks[i] = rest[i]
  <2>1. toks = [i \in 1..PrefillLen |-> IF i <= n THEN chunk[i] ELSE Pad]
    BY <1>5 DEF Padded
  <2>2. Pad \in Tokens
    BY DEF Tokens
  <2>3. \A i \in 1..PrefillLen : (IF i <= n THEN chunk[i] ELSE Pad) \in Tokens
    <3> SUFFICES ASSUME NEW i \in 1..PrefillLen, i <= n PROVE chunk[i] \in Tokens
      BY <2>2
    <3>1. i \in 1..Len(chunk)
      BY <1>3, <1>4, <1>5
    <3> QED
      BY <3>1, <1>5, ElementOfSeq
  <2> HIDE DEF toks
  <2>4. toks \in [1..PrefillLen -> Tokens]
    BY <2>1, <2>3
  <2>5. toks \in Seq(Tokens) /\ Len(toks) = PrefillLen
    BY <2>4, <1>3
  <2> QED
    BY <2>1, <2>5, <1>3, <1>4, <1>5
<1>8. tokens \in Seq(Tokens) /\ Longer(tokens, rest, n)
  <2>1. /\ tokens \in Seq(Tokens) /\ Len(tokens) = past_len + n
        /\ \A i \in 1..(past_len + n) : tokens[i] = IF i <= past_len THEN fed[i] ELSE chunk[i - past_len]
    BY <1>2, <1>3, <1>5, ConcatProperties
  <2> HIDE DEF tokens
  <2>2. ASSUME NEW i \in 1..Len(tokens) PROVE tokens[i] = IF i <= past_len THEN fed[i] ELSE rest[i - past_len]
    <3>1. ~ (i <= past_len) => i - past_len \in 1..n
      BY <2>1, <1>3, <1>4
    <3> QED
      BY <3>1, <2>1, <1>5
  <2> QED
    BY <2>1, <2>2 DEF Longer
<1> HIDE DEF toks, tokens
<1>9. ~ Streaming => /\ past_len + PrefillLen <= MaxSeqLen
                     /\ n < Len(rest) => past_len + n + ((Len(rest) - n + PrefillLen - 1) \div PrefillLen) * PrefillLen
                                           <= MaxSeqLen
  <2> SUFFICES ASSUME ~ Streaming
               PROVE  /\ past_len + PrefillLen <= MaxSeqLen
                      /\ n < Len(rest) => past_len + n + ((Len(rest) - n + PrefillLen - 1) \div PrefillLen) * PrefillLen
                                           <= MaxSeqLen
    OBVIOUS
  <2> DEFINE q == ((Len(rest) + PrefillLen - 1) \div PrefillLen) * PrefillLen
             p == ((Len(rest) - PrefillLen + PrefillLen - 1) \div PrefillLen) * PrefillLen
  <2>1. past_len + q <= MaxSeqLen
    BY <1>1, <1>2 DEF Prompting, Fits
  <2>2. q >= PrefillLen /\ (Len(rest) > PrefillLen => p = q - PrefillLen)
    BY <1>3, ChunksOf
  <2>3. q \in Int
    BY <1>3
  <2>4. n < Len(rest) => n = PrefillLen /\ Len(rest) > PrefillLen
    BY <1>3, <1>4
  <2>5. n < Len(rest) => ((Len(rest) - n + PrefillLen - 1) \div PrefillLen) * PrefillLen = p
    BY <2>4
  <2> HIDE DEF p, q
  <2> QED
    BY <2>1, <2>2, <2>3, <2>4, <2>5, <1>3
<1>10. rest' = more /\ (FedOn(tokens, n) \/ (n = Len(rest) /\ \E t \in Token : Emit(t, past_len + n, tokens)))
  <2>1. CASE more # <<>>
    <3>1. /\ past_len' = past_len + n /\ fed' = tokens /\ rest' = more /\ UNCHANGED <<phase, new_ids, result>>
      BY <2>1, <1>1, <1>5 DEF Feed, tokens
    <3>2. n < Len(rest)
      <4>1. Len(more) # 0
        BY <2>1, <1>6, EmptySeq
      <4> QED
        BY <4>1, <1>6, <1>3, <1>4
    <3>3. Len(rest') = Len(rest) - n /\ \A i \in 1..Len(rest') : rest'[i] = rest[n + i]
      BY <3>1, <1>6
    <3>4. ~ Streaming => Fits(Len(rest))'
      <4>1. PrefillLen' = PrefillLen /\ MaxSeqLen' = MaxSeqLen
        BY SamePlace
      <4>2. Fits(Len(rest))' <=> Streaming' \/ past_len' + (IF PrefillLen' > 0 THEN ((Len(rest') + PrefillLen' - 1) \div PrefillLen') * PrefillLen' ELSE Len(rest')) <= MaxSeqLen'
        BY DEF Fits
      <4>3. Len(rest') + PrefillLen' - 1 = Len(rest) - n + PrefillLen - 1
        BY <3>3, <4>1
      <4> QED
        BY <1>1, <1>9, <3>1, <3>2, <4>1, <4>2, <4>3
    <3> QED
      BY <3>1, <3>2, <3>3, <3>4 DEF FedOn
  <2>2. CASE ~ (more # <<>>)
    <3>1. n = Len(rest)
      BY <2>2, <1>6, <1>3, <1>4, EmptySeq
    <3> QED
      BY <3>1, <2>2, <1>1
  <2> QED
    BY <2>1, <2>2
<1>11. rest' \in Seq(Tokens)
  BY <1>6, <1>10
<1>12. UNCHANGED <<config, call, calls, failures>>
  BY <1>1
<1>13. /\ n <= Len(toks) /\ past_len + PrefillLen \in {past_len, past_len + Len(toks)}
       /\ ~ Streaming => past_len + Len(toks) <= MaxSeqLen
  BY <1>4, <1>7, <1>9
<1> HIDE DEF call
<1> QED
  BY <1>1, <1>4, <1>7, <1>8, <1>10, <1>11, <1>12, <1>13, PromptStep

LEMMA TokenKeeps ==
  ASSUME LInv, RingOnCuda, PromptToken, config' = config
  PROVE  LInv'
<1> DEFINE toks == <<Head(rest)>>
           tokens == Append(fed, Head(rest))
<1> HIDE DEF Tokens
<1>1. /\ phase = "prompt" /\ PrefillLen = 0
      /\ Run(toks, 1, past_len)
      /\ IF Len(rest) > 1 THEN Feed(toks, Tail(rest))
         ELSE rest' = <<>> /\ \E t \in Token : Emit(t, past_len + 1, tokens)
      /\ UNCHANGED <<call, calls, failures>>
  BY Zenon DEF PromptToken
<1>2. Typed /\ Prompting /\ past_len = Len(fed)
  BY <1>1 DEF LInv, CacheIsHistory
<1>3. /\ config \in Configs /\ past_len \in Nat /\ fed \in Seq(Tokens) /\ rest \in Seq(Tokens) /\ rest # <<>>
      /\ Len(rest) \in Nat \ {0}
  BY <1>2, EmptySeq DEF Typed, Prompting
<1>4. /\ Head(rest) \in Tokens /\ Head(rest) = rest[1]
      /\ Tail(rest) \in Seq(Tokens) /\ Len(Tail(rest)) = Len(rest) - 1
      /\ \A i \in 1..Len(Tail(rest)) : Tail(rest)[i] = rest[i + 1]
  BY <1>3, HeadTailProperties
<1>5. /\ toks \in Seq(Tokens) /\ Len(toks) = 1 /\ toks[1] = rest[1]
      /\ tokens \in Seq(Tokens) /\ Len(tokens) = past_len + 1
      /\ \A i \in 1..Len(tokens) : tokens[i] = IF i <= past_len THEN fed[i] ELSE rest[1]
      /\ fed \o toks = tokens
  <2>1. toks \in Seq(Tokens) /\ Len(toks) = 1 /\ toks[1] = rest[1]
    BY <1>4
  <2>2. /\ tokens \in Seq(Tokens) /\ Len(tokens) = past_len + 1
        /\ \A i \in 1..Len(tokens) : tokens[i] = IF i <= past_len THEN fed[i] ELSE rest[1]
    BY <1>2, <1>3, <1>4
  <2>3. fed \o toks = tokens
    <3> DEFINE h == Head(rest)
    <3>1. h \in Tokens
      BY <1>4
    <3> HIDE DEF h
    <3>2. fed \o <<h>> = Append(fed, h)
      BY <1>3, <3>1
    <3> QED
      BY <3>2 DEF h
  <2> QED
    BY <2>1, <2>2, <2>3
<1> HIDE DEF toks, tokens
<1>6. Longer(tokens, rest, 1)
  <2>1. ASSUME NEW i \in 1..Len(tokens), ~ (i <= past_len) PROVE rest[1] = rest[i - past_len]
    <3>1. i - past_len = 1
      BY <2>1, <1>3, <1>5
    <3> QED
      BY <3>1
  <2> QED
    BY <2>1, <1>5 DEF Longer
<1>7. ~ Streaming => past_len + Len(rest) <= MaxSeqLen
  BY <1>1, <1>2 DEF Prompting, Fits
<1>8. rest' \in Seq(Tokens) /\ (FedOn(tokens, 1) \/ (1 = Len(rest) /\ \E t \in Token : Emit(t, past_len + 1, tokens)))
  <2>1. CASE Len(rest) > 1
    <3>1. /\ past_len' = past_len + 1 /\ fed' = tokens /\ rest' = Tail(rest) /\ UNCHANGED <<phase, new_ids, result>>
      BY <2>1, <1>1, <1>5 DEF Feed
    <3>2. Len(rest') = Len(rest) - 1 /\ \A i \in 1..Len(rest') : rest'[i] = rest[1 + i]
      BY <3>1, <1>4
    <3>3. ~ Streaming => Fits(Len(rest))'
      <4>1. PrefillLen' = PrefillLen /\ MaxSeqLen' = MaxSeqLen /\ MaxSeqLen \in Nat
        BY SamePlace, <1>3, ConfigTyped
      <4>2. Fits(Len(rest))' <=> Streaming' \/ past_len' + (IF PrefillLen' > 0 THEN ((Len(rest') + PrefillLen' - 1) \div PrefillLen') * PrefillLen' ELSE Len(rest')) <= MaxSeqLen'
        BY DEF Fits
      <4>3. ~ Streaming => past_len' + Len(rest') <= MaxSeqLen'
        BY <1>3, <1>7, <3>1, <3>2, <4>1
      <4> QED
        BY <1>1, <4>1, <4>2, <4>3
    <3> QED
      BY <3>1, <3>2, <3>3, <2>1, <1>4 DEF FedOn
  <2>2. CASE ~ (Len(rest) > 1)
    <3>1. 1 = Len(rest) /\ rest' = <<>>
      <4>0. Len(rest) \in Nat \ {0}
        BY <1>3
      <4>1. 1 = Len(rest)
        BY <2>2, <4>0
      <4>2. rest' = <<>>
        BY <2>2, <1>1, Zenon
      <4> QED
        BY <4>1, <4>2
    <3>2. rest' \in Seq(Tokens)
      BY <3>1, EmptySeq
    <3> QED
      BY <3>1, <3>2, <2>2, <1>1
  <2> QED
    BY <2>1, <2>2
<1>9. UNCHANGED <<config, call, calls, failures>>
  BY <1>1
<1>10. /\ 1 \in 1..Len(rest) /\ 1 <= Len(toks) /\ \A i \in 1..1 : toks[i] = rest[i]
       /\ past_len \in {past_len, past_len + Len(toks)}
       /\ ~ Streaming => past_len + Len(toks) <= MaxSeqLen
  <2>1. MaxSeqLen \in Nat
    BY <1>3, ConfigTyped
  <2> QED
    BY <2>1, <1>3, <1>5, <1>7
<1> HIDE DEF call
<1> QED
  BY <1>1, <1>5, <1>6, <1>8, <1>9, <1>10, PromptStep

(* A failing run drops a token of the prompt only where there are no chunks. *)
NothingDropped == \A c \in Configs : c.max_failures > 0 => c.prefill_len > 0

LEMMA FailureKeeps ==
  ASSUME LInv, NothingDropped, RunFails, config' = config
  PROVE  LInv'
<1> HIDE DEF Tokens
<1>1. Typed /\ CacheIsHistory /\ Follows /\ ~ spilled
  BY DEF LInv, InCall, StaysInside, RunFails
<1>2. config \in Configs /\ failures \in Nat /\ failures < config.max_failures
  BY <1>1 DEF Typed, RunFails
<1>3. PrefillLen > 0
  <2>1. config.max_failures \in Nat
    BY <1>2, ConfigTyped
  <2> QED
    BY <2>1, <1>2 DEF NothingDropped, PrefillLen
<1>4. /\ failures' = failures + 1 /\ phase' = "idle" /\ result' = "error" /\ rest' = rest
      /\ past_len' = past_len /\ cache' = cache /\ spilled' = spilled /\ base' = base /\ prompt' = prompt
      /\ limit' = limit /\ new_ids' = new_ids /\ fed' = fed /\ reach' = reach /\ calls' = calls
  BY <1>3 DEF RunFails, call
<1>5. Typed'
  <2>1. failures' \in Nat
    BY <1>2, <1>4
  <2>2. Readable'
    BY <1>1, <1>4, SamePlace DEF Typed, Readable
  <2> QED
    BY <1>1, <1>4, <2>1, <2>2 DEF Typed, Results
<1>6. CacheIsHistory' /\ AttendsHistory'
  BY <1>1, <1>4, SamePlace DEF CacheIsHistory, AttendsHistory
<1>7. Follows'
  BY <1>1, <1>4 DEF Follows, SoFar
<1> QED
  BY <1>1, <1>4, <1>5, <1>6, <1>7 DEF LInv, StaysInside

LEMMA GenerateKeeps ==
  ASSUME LInv, NEW p \in Prompts, NEW n \in MaxNew, Generate(p, n), config' = config
  PROVE  LInv'
<1> HIDE DEF Tokens
<1>1. Typed /\ CacheIsHistory /\ ~ spilled
  BY DEF LInv, StaysInside
<1>2. p \in Seq(Tokens) /\ n \in Nat /\ past_len = Len(fed) /\ calls \in Nat /\ past_len \in Nat
  BY <1>1, LlmAssumption DEF Typed, CacheIsHistory
<1>3. /\ calls' = calls + 1 /\ base' = past_len /\ prompt' = p /\ rest' = p /\ limit' = n /\ new_ids' = <<>>
      /\ view' = <<>>
      /\ past_len' = past_len /\ cache' = cache /\ spilled' = spilled /\ fed' = fed /\ reach' = reach
      /\ failures' = failures
  BY DEF Generate
<1>4. \/ p # <<>> /\ Fits(Len(p)) /\ n > 0 /\ phase' = "prompt" /\ result' = "running"
      \/ phase' = "idle" /\ result' \in {"nothing", "too long"}
  BY Zenon DEF Generate
<1>5. Typed'
  <2>1. new_ids' \in Seq(Tokens)
    BY <1>3, EmptySeq
  <2>2. phase' \in {"idle", "prompt", "decode"} /\ result' \in Results
    BY <1>4 DEF Results
  <2>3. Readable'
    BY <1>1, <1>3, SamePlace DEF Typed, Readable
  <2> QED
    BY <1>1, <1>2, <1>3, <2>1, <2>2, <2>3 DEF Typed
<1>6. CacheIsHistory' /\ AttendsHistory'
  BY <1>1, <1>3, SamePlace DEF CacheIsHistory, AttendsHistory
<1>7. SoFar' = 0
  BY <1>2, <1>3 DEF SoFar
<1>8. Follows'
  <2>1. Len(prompt') \in Nat /\ Len(new_ids') \in Nat
    BY <1>2, <1>3, EmptySeq, LenProperties
  <2> QED
    BY <2>1, <1>7 DEF Follows
<1>9. phase' = "prompt" => Prompting'
  <2> SUFFICES ASSUME phase' = "prompt" PROVE Prompting'
    OBVIOUS
  <2>1. p # <<>> /\ Fits(Len(p)) /\ n > 0
    BY <1>4
  <2>2. SoFar' + Len(rest') = Len(prompt') /\ \A i \in 1..Len(rest') : rest'[i] = prompt'[SoFar' + i]
    <3>1. Len(p) \in Nat
      BY <1>2
    <3> QED
      BY <3>1, <1>3, <1>7
  <2>3. Fits(Len(rest))'
    <3>1. PrefillLen' = PrefillLen /\ MaxSeqLen' = MaxSeqLen /\ Streaming' = Streaming
      BY SamePlace
    <3> QED
      BY <3>1, <2>1, <1>3 DEF Fits
  <2>4. rest' # <<>> /\ new_ids' = <<>> /\ limit' > 0
    BY <2>1, <1>3
  <2> QED
    BY <2>2, <2>3, <2>4 DEF Prompting
<1>10. phase' # "decode" /\ ~ (phase' = "idle" /\ result' \in {"stopped", "limit", "full"})
  BY <1>4
<1> QED
  BY <1>1, <1>3, <1>5, <1>6, <1>8, <1>9, <1>10 DEF LInv, StaysInside

LEMMA ResetKeeps ==
  ASSUME LInv, Reset, config' = config
  PROVE  LInv'
<1> HIDE DEF Tokens
<1>1. Typed /\ ~ spilled
  BY DEF LInv, StaysInside
<1>2. /\ phase = "idle" /\ past_len' = 0 /\ fed' = <<>> /\ reach' = 0 /\ view' = <<>> /\ result' = "none"
      /\ cache' = cache /\ spilled' = spilled /\ phase' = phase /\ rest' = rest /\ new_ids' = new_ids
      /\ base' = base /\ prompt' = prompt /\ limit' = limit /\ calls' = calls /\ failures' = failures
  BY DEF Reset, call
<1>3. fed' \in Seq(Tokens) /\ Len(fed') = 0
  BY <1>2, EmptySeq
<1>4. Typed'
  BY <1>1, <1>2, <1>3, SamePlace DEF Typed, Readable, Results
<1>5. CacheIsHistory' /\ AttendsHistory'
  BY <1>2, <1>3 DEF CacheIsHistory, AttendsHistory
<1> QED
  BY <1>1, <1>2, <1>4, <1>5 DEF LInv, StaysInside, InCall

LEMMA StutterKeeps ==
  ASSUME LInv, UNCHANGED lvars
  PROVE  LInv'
<1> HIDE DEF Tokens
<1>1. /\ config' = config /\ past_len' = past_len /\ cache' = cache /\ spilled' = spilled /\ phase' = phase
      /\ base' = base /\ prompt' = prompt /\ rest' = rest /\ new_ids' = new_ids /\ limit' = limit
      /\ result' = result /\ fed' = fed /\ view' = view /\ reach' = reach /\ calls' = calls /\ failures' = failures
  BY DEF lvars
<1>2. Streaming' = Streaming /\ MaxSeqLen' = MaxSeqLen /\ PrefillLen' = PrefillLen /\ MaxActive' = MaxActive
      /\ Sink' = Sink
  BY <1>1, SamePlace DEF Sink
<1>3. Typed' = Typed /\ CacheIsHistory' = CacheIsHistory /\ StaysInside' = StaysInside /\ InCall' = InCall
      /\ Follows' = Follows
  BY <1>1, <1>2 DEF Typed, Readable, CacheIsHistory, StaysInside, InCall, Follows, SoFar
<1>4. Prompting' = Prompting /\ Decoding' = Decoding /\ Ended' = Ended
  BY <1>1, <1>2 DEF Prompting, Decoding, Ended, SoFar, Fits, hit_stop
<1>5. AttendsHistory' = AttendsHistory
  BY <1>1, <1>2 DEF AttendsHistory, Sees, Recent
<1> QED
  BY <1>1, <1>3, <1>4, <1>5 DEF LInv

(* The invariant of a session and its cache, for any cache, ring, chunk,     *)
(* prompts and stops, if the kernels know the ring and no token of a prompt  *)
(* is dropped.                                                               *)
THEOREM SessionInvariant ==
  ASSUME RingOnCuda, NothingDropped
  PROVE  LSpec => []LInv
<1> HIDE DEF Tokens
<1>1. LInit => LInv
  <2> SUFFICES ASSUME LInit PROVE LInv
    OBVIOUS
  <2>1. NoRow \in Int \X Tokens
    BY DEF NoRow, Tokens
  <2>2. <<>> \in Seq(Tokens) /\ Len(<<>>) = 0
    BY EmptySeq
  <2>3. Typed
    BY <2>1, <2>2 DEF LInit, Typed, Readable, Results
  <2>4. CacheIsHistory /\ AttendsHistory
    BY <2>2 DEF LInit, CacheIsHistory, AttendsHistory
  <2> QED
    BY <2>3, <2>4 DEF LInit, LInv, StaysInside, InCall
<1>2. LInv /\ [LNext]_lvars => LInv'
  <2> SUFFICES ASSUME LInv, [LNext]_lvars PROVE LInv'
    OBVIOUS
  <2>1. CASE UNCHANGED config /\ \E p \in Prompts, n \in MaxNew : Generate(p, n)
    BY <2>1, GenerateKeeps
  <2>2. CASE UNCHANGED config /\ Reset
    BY <2>2, ResetKeeps
  <2>3. CASE Work
    BY <2>3, ChunkKeeps, TokenKeeps, DecodeStep, FailureKeeps DEF Work
  <2>4. CASE UNCHANGED lvars
    BY <2>4, StutterKeeps
  <2> QED
    BY <2>1, <2>2, <2>3, <2>4 DEF LNext
<1> QED
  BY <1>1, <1>2, PTL DEF LSpec

(* A session and its cache agree between and during calls: past_len is where *)
(* the history ends, nothing is written outside, a call leaves all but the   *)
(* newest token of its answer in the cache, and the answer holds no stop     *)
(* string (generate_ids_with_callback, truncate_at_stop, reset).             *)
THEOREM CacheAlwaysKept ==
  ASSUME RingOnCuda, NothingDropped
  PROVE  LSpec => []CacheKept
<1> HIDE DEF Tokens
<1>1. LInv => CacheKept
  <2> SUFFICES ASSUME LInv PROVE CacheKept
    OBVIOUS
  <2>1. Typed /\ CacheIsHistory /\ StaysInside
    BY DEF LInv
  <2>2. LTypeOK
    BY <2>1 DEF Typed, LTypeOK, Readable, Results
  <2>3. OneTokenShort
    <3> SUFFICES ASSUME phase = "idle", result \in {"stopped", "limit", "full", "error"}
                 PROVE  LET whole == prompt \o new_ids
                            kept  == SubSeq(fed, base + 1, Len(fed))
                        IN  /\ Len(kept) <= Len(whole) /\ kept = SubSeq(whole, 1, Len(kept))
                            /\ result # "error" => Len(kept) = Len(whole) - 1
      BY DEF OneTokenShort
    <3> DEFINE whole == prompt \o new_ids
               kept  == SubSeq(fed, base + 1, Len(fed))
    <3>1. Follows /\ (result # "error" => Ended)
      BY DEF LInv, InCall
    <3>2. /\ prompt \in Seq(Tokens) /\ new_ids \in Seq(Tokens) /\ fed \in Seq(Tokens) /\ base \in Nat
          /\ Len(fed) \in Nat /\ Len(prompt) \in Nat /\ Len(new_ids) \in Nat
      BY <2>1, LenProperties DEF Typed
    <3>3. whole \in Seq(Tokens) /\ Len(whole) = Len(prompt) + Len(new_ids)
      BY <3>2, ConcatProperties
    <3>4. SoFar \in 0..Len(whole) /\ SoFar = Len(fed) - base /\ \A i \in 1..SoFar : fed[base + i] = whole[i]
      BY <3>1, <3>3 DEF Follows, SoFar
    <3>5. kept \in Seq(Tokens) /\ Len(kept) = SoFar /\ \A i \in 1..SoFar : kept[i] = fed[base + i]
      <4>1. \A i \in (base + 1)..Len(fed) : fed[i] \in Tokens
        <5> SUFFICES ASSUME NEW i \in (base + 1)..Len(fed) PROVE fed[i] \in Tokens
          OBVIOUS
        <5>1. i \in 1..Len(fed)
          BY <3>2
        <5> QED
          BY <5>1, <3>2, ElementOfSeq
      <4>2. base + 1 \in Int /\ Len(fed) \in Int
        BY <3>2
      <4>3. /\ SubSeq(fed, base + 1, Len(fed)) \in Seq(Tokens)
            /\ Len(SubSeq(fed, base + 1, Len(fed))) = IF base + 1 <= Len(fed) THEN Len(fed) - (base + 1) + 1 ELSE 0
            /\ \A i \in 1..(Len(fed) - (base + 1) + 1) : SubSeq(fed, base + 1, Len(fed))[i] = fed[base + 1 + i - 1]
        <5> HIDE DEF kept, whole
        <5> QED
          BY <4>1, <4>2, SubSeqProperties
      <4> HIDE DEF whole
      <4>4. Len(kept) = SoFar
        BY <4>3, <3>2, <3>4
      <4>5. ASSUME NEW i \in 1..SoFar PROVE kept[i] = fed[base + i]
        <5>1. i \in 1..(Len(fed) - (base + 1) + 1) /\ base + 1 + i - 1 = base + i
          BY <3>2, <3>4
        <5> QED
          BY <5>1, <4>3
      <4> QED
        BY <4>3, <4>4, <4>5
    <3> HIDE DEF whole, kept
    <3>6. /\ SubSeq(whole, 1, SoFar) \in Seq(Tokens) /\ Len(SubSeq(whole, 1, SoFar)) = SoFar
          /\ \A i \in 1..SoFar : SubSeq(whole, 1, SoFar)[i] = whole[i]
      <4>1. SoFar \in Nat /\ SoFar <= Len(whole)
        BY <3>3, <3>4
      <4>2. \A i \in 1..SoFar : whole[i] \in Tokens
        <5> SUFFICES ASSUME NEW i \in 1..SoFar PROVE whole[i] \in Tokens
          OBVIOUS
        <5>1. i \in 1..Len(whole)
          BY <4>1, <3>3, <3>2
        <5> QED
          BY <5>1, <3>3, ElementOfSeq
      <4>3. /\ SubSeq(whole, 1, SoFar) \in Seq(Tokens)
            /\ Len(SubSeq(whole, 1, SoFar)) = IF 1 <= SoFar THEN SoFar - 1 + 1 ELSE 0
            /\ \A i \in 1..(SoFar - 1 + 1) : SubSeq(whole, 1, SoFar)[i] = whole[1 + i - 1]
        BY <4>1, <4>2, SubSeqProperties
      <4> QED
        BY <4>1, <4>3
    <3>7. kept = SubSeq(whole, 1, SoFar)
      <4>1. \A i \in 1..Len(kept) : kept[i] = SubSeq(whole, 1, SoFar)[i]
        BY <3>4, <3>5, <3>6
      <4>2. Len(kept) = Len(SubSeq(whole, 1, SoFar))
        BY <3>5, <3>6
      <4> QED
        BY <4>1, <4>2, <3>5, <3>6, SeqEqual
    <3>8. Len(kept) <= Len(whole) /\ (result # "error" => Len(kept) = Len(whole) - 1)
      BY <3>1, <3>3, <3>4, <3>5, <3>2 DEF Ended
    <3> QED
      BY <3>5, <3>7, <3>8 DEF whole, kept
  <2>4. AnswerIsClean
    <3> SUFFICES ASSUME phase = "idle", result \in {"stopped", "limit", "full"}
                 PROVE  Len(new_ids) <= limit
                        /\ \A stop \in Stops : \A i, j \in 1..Len(new_ids) : SubSeq(new_ids, i, j) # stop
      BY DEF AnswerIsClean
    <3>1. Ended /\ new_ids \in Seq(Tokens)
      BY <2>1 DEF LInv, Typed
    <3> QED
      BY <3>1, NoStopInside DEF Ended
  <2> QED
    BY <2>1, <2>2, <2>3, <2>4 DEF CacheKept
<1> QED
  BY <1>1, SessionInvariant, PTL

(* Until a ring is full, each step attends to the tokens fed so far, in      *)
(* order, each key at its own position, whatever was padded, popped or       *)
(* failed before (decode_step, run_prefill_rec, streaming_kv_position).      *)
THEOREM HistoryAlwaysAttended ==
  ASSUME RingOnCuda, NothingDropped
  PROVE  LSpec => []AttendsHistory
<1>1. LInv => AttendsHistory
  BY DEF LInv
<1> QED
  BY <1>1, SessionInvariant, PTL
-----------------------------------------------------------------------------
(* The buffers of sessions *)

Names == UNION {UNION {NamesOf(s, k) : k \in Kinds} : s \in Session}
BufferSet == Session \X Kinds \X Names
Building(s) == stage[s] \in {"states", "weights"} \cup {Filling[k] : k \in Kinds}
Opens(s, k) == stage[s] = Filling[k]
Real(r, k, n) == ~ (k = "weights" /\ Placeholder(r, n))

(* A buffer that s may have got for its i-th name: one that s allocated, or  *)
(* one that a session of the same model allocated for its kernels.           *)
Fitting(b, s, k, i) ==
  \E r \in Session :
    /\ b = Buffer(r, k, NameAt(s, k, i)) /\ NameAt(s, k, i) \in NamesOf(r, k)
    /\ r = s \/ (Shares(s) /\ Plan[r].cache = Plan[s].cache)
    /\ IF Real(s, k, NameAt(s, k, i)) THEN Real(r, k, NameAt(s, k, i)) ELSE r = s
(* A buffer that the cache c may hold under a name.                          *)
Entry(b, k, c, n) ==
  \E r \in Session : b = Buffer(r, k, n) /\ Plan[r].cache = c /\ n \in NamesOf(r, k) /\ Real(r, k, n)

BuffersTyped ==
  /\ stage \in [Session -> {"states", "weights", "built", "running", "dropped", "failed"}
                           \cup {Filling[k] : k \in Kinds}]
  /\ lock \in [Locks -> Session \cup {Free}]
  /\ DOMAIN persistent = Kinds \X Caches
  /\ persistent = [l \in Kinds \X Caches |-> persistent[l]]
  /\ got \in [Session -> [Kinds -> Seq(BufferSet)]]
  /\ runs \in [Session -> 0..MaxRuns]
  /\ DOMAIN ptr = Session /\ DOMAIN told = Session
  /\ DOMAIN last = {Memory(s) : s \in Session}

(* What a session has got follows its names, ... *)
GotInOrder ==
  \A s \in Session, k \in Kinds :
    /\ Len(got[s][k]) <= Len(Plan[s][k])
    /\ Opens(s, k) => Len(got[s][k]) < Len(Plan[s][k]) /\ Real(s, k, NextName(s, k))
    /\ \A i \in 1..Len(got[s][k]) : Fitting(got[s][k][i], s, k, i)
(* ... and it has everything when it is built. *)
GotAll ==
  \A s \in Session :
    /\ stage[s] \in {"weights", Filling["weights"], "built", "running"} => AllGot(s, "states")
    /\ stage[s] \in {"built", "running"} => AllGot(s, "weights")

CacheTrue ==
  \A k \in Kinds, c \in Caches : \A n \in DOMAIN persistent[<<k, c>>] : Entry(persistent[<<k, c>>][n], k, c, n)
(* Who fills an entry holds the lock, and the entry is missing. *)
LockHeld ==
  \A s \in Session, k \in Kinds : Opens(s, k) /\ Shares(s) =>
    lock[LockOf(s, k)] = s /\ NextName(s, k) \notin DOMAIN persistent[LockOf(s, k)]
(* While a session is being built, the cache holds all that its sessions got. *)
CacheKeeps ==
  \A s, r \in Session : Building(s) /\ Shares(s) /\ Plan[r].cache = Plan[s].cache =>
    \A k \in Kinds : \A i \in 1..Len(got[r][k]) :
       Real(r, k, NameAt(r, k, i)) =>
         /\ NameAt(r, k, i) \in DOMAIN persistent[<<k, Plan[r].cache>>]
         /\ persistent[<<k, Plan[r].cache>>][NameAt(r, k, i)] = got[r][k][i]

(* What is held is allocated, and nothing else is. *)
Allocated == DOMAIN mem = HeldBy(got, persistent, Opened)

StateAt(m, n) == IF n \in DOMAIN last[m] THEN last[m][n] ELSE Zero
Holds(b) ==
  IF b[2] = "states" THEN [kind |-> StateKind(b[1], b[3]), data |-> StateAt(Memory(b[1]), b[3])]
  ELSE IF Placeholder(b[1], b[3]) THEN [kind |-> "Placeholder", data |-> Zero]
  ELSE [kind |-> "Cuda", data |-> IF b \in Opened THEN Zero ELSE Plan[b[1]].data[b[3]]]
MemTrue == \A b \in DOMAIN mem : b \in BufferSet /\ mem[b] = Holds(b)

(* What a state holds is still in a cache while a session is being built. *)
Remembered ==
  \A s \in Session : Building(s) =>
    \A n \in DOMAIN last[Memory(s)] : Shares(s) /\ n \in DOMAIN persistent[LockOf(s, "states")]

PtrTrue ==
  \A s \in Session :
    /\ Building(s) => ptr[s] = <<>>
    /\ stage[s] = "built" => ptr[s] \in {<<>>, Pointers(s)}
    /\ stage[s] = "running" => ptr[s] = Pointers(s)
OneRuns ==
  \A r, s \in Session : stage[r] = "running" /\ stage[s] = "running" /\ Memory(r) = Memory(s) => r = s

SInv ==
  /\ BuffersTyped /\ GotInOrder /\ GotAll /\ CacheTrue /\ LockHeld /\ CacheKeeps /\ Allocated /\ MemTrue
  /\ Remembered /\ PtrTrue /\ OneRuns /\ OneCopy /\ StatesContinue

-----------------------------------------------------------------------------
(* Names and buffers *)

LEMMA NamesTyped ==
  ASSUME NEW s \in Session, NEW k \in Kinds
  PROVE  /\ Plan[s][k] \in Seq(NamesOf(s, k)) /\ Len(Plan[s][k]) \in Nat
         /\ DOMAIN Plan[s][k] = 1..Len(Plan[s][k])
         /\ NamesOf(s, k) \subseteq Names
         /\ \A i \in 1..Len(Plan[s][k]) : NameAt(s, k, i) \in NamesOf(s, k)
         /\ \A i, j \in 1..Len(Plan[s][k]) : NameAt(s, k, i) = NameAt(s, k, j) => i = j
<1>1. Plan[s][k] \in Seq(NamesOf(s, k))
  BY SessionsAssumption
<1>2. Len(Plan[s][k]) \in Nat /\ DOMAIN Plan[s][k] = 1..Len(Plan[s][k])
  BY <1>1
<1>3. NamesOf(s, k) \subseteq Names
  BY DEF Names
<1>4. \A i \in 1..Len(Plan[s][k]) : NameAt(s, k, i) \in NamesOf(s, k)
  BY <1>2 DEF NamesOf
<1>5. \A i, j \in 1..Len(Plan[s][k]) : NameAt(s, k, i) = NameAt(s, k, j) => i = j
  BY <1>2, SessionsAssumption
<1> QED
  BY <1>1, <1>2, <1>3, <1>4, <1>5

LEMMA KindsAre == Kinds = {"states", "weights"} /\ Filling["states"] = "filling states"
                  /\ Filling["weights"] = "filling weights"
BY DEF Kinds, Filling

LEMMA LocksAre ==
  ASSUME NEW s \in Session, NEW k \in Kinds, Shares(s)
  PROVE  /\ Plan[s].cache \in Caches /\ LockOf(s, k) = <<k, Plan[s].cache>>
         /\ LockOf(s, k) \in Kinds \X Caches /\ LockOf(s, k) \in Locks /\ LockOf(s, k) # Cuda
         /\ Memory(s) = Plan[s].cache
<1>1. Plan[s].cache \in Caches /\ LockOf(s, k) = <<k, Plan[s].cache>>
  BY DEF Caches, Shares, LockOf
<1> QED
  BY <1>1 DEF Locks, Cuda, Kinds, Memory

LEMMA MemoryIs ==
  ASSUME NEW r \in Session, NEW s \in Session
  PROVE  /\ Memory(r) = Memory(s) /\ r # s =>
              Shares(r) /\ Shares(s) /\ Plan[r].cache = Plan[s].cache
         /\ Shares(s) /\ Plan[r].cache = Plan[s].cache => Memory(r) = Memory(s) /\ Shares(r)
<1>1. Shares(r) => Plan[r].cache \in Caches
  BY DEF Shares, Caches
<1>2. Shares(s) => Plan[s].cache \in Caches
  BY DEF Shares, Caches
<1>3. \A c \in Caches : c \notin Session
  BY SessionsAssumption
<1> QED
  BY <1>1, <1>2, <1>3 DEF Memory, Shares

LEMMA FittingIs ==
  ASSUME NEW s \in Session, NEW k \in Kinds, NEW i, NEW b, Fitting(b, s, k, i)
  PROVE  /\ b \in BufferSet /\ b[1] \in Session /\ b[2] = k /\ b[3] = NameAt(s, k, i)
         /\ b = Buffer(b[1], k, NameAt(s, k, i))
         /\ b[1] = s \/ (Shares(s) /\ Plan[b[1]].cache = Plan[s].cache)
         /\ Memory(b[1]) = Memory(s)
         /\ NameAt(s, k, i) \in NamesOf(b[1], k)
         /\ Real(s, k, NameAt(s, k, i)) <=> Real(b[1], k, NameAt(s, k, i))
         /\ ~ Real(s, k, NameAt(s, k, i)) => b[1] = s
<1>1. PICK r \in Session :
    /\ b = Buffer(r, k, NameAt(s, k, i)) /\ NameAt(s, k, i) \in NamesOf(r, k)
    /\ r = s \/ (Shares(s) /\ Plan[r].cache = Plan[s].cache)
    /\ IF Real(s, k, NameAt(s, k, i)) THEN Real(r, k, NameAt(s, k, i)) ELSE r = s
  BY DEF Fitting
<1>2. b[1] = r /\ b[2] = k /\ b[3] = NameAt(s, k, i)
  BY <1>1 DEF Buffer
<1>3. NameAt(s, k, i) \in Names
  BY <1>1, NamesTyped
<1>4. b \in BufferSet
  BY <1>1, <1>3 DEF BufferSet, Buffer
<1>5. Memory(r) = Memory(s)
  BY <1>1, MemoryIs
<1> QED
  BY <1>1, <1>2, <1>4, <1>5

LEMMA EntryIs ==
  ASSUME NEW k \in Kinds, NEW c \in Caches, NEW n, NEW b, Entry(b, k, c, n)
  PROVE  /\ b \in BufferSet /\ b[1] \in Session /\ b[2] = k /\ b[3] = n /\ b = Buffer(b[1], k, n)
         /\ Plan[b[1]].cache = c /\ Shares(b[1]) /\ n \in NamesOf(b[1], k) /\ Real(b[1], k, n)
<1>1. PICK r \in Session : b = Buffer(r, k, n) /\ Plan[r].cache = c /\ n \in NamesOf(r, k) /\ Real(r, k, n)
  BY DEF Entry
<1>2. b[1] = r /\ b[2] = k /\ b[3] = n
  BY <1>1 DEF Buffer
<1>3. n \in Names
  BY <1>1, NamesTyped
<1>4. b \in BufferSet
  BY <1>1, <1>3 DEF BufferSet, Buffer
<1>5. Shares(r)
  BY <1>1 DEF Shares, Caches
<1> QED
  BY <1>1, <1>2, <1>4, <1>5

LEMMA EntryFits ==
  ASSUME NEW s \in Session, NEW k \in Kinds, NEW i, NEW b, Shares(s),
         Entry(b, k, Plan[s].cache, NameAt(s, k, i)), Real(s, k, NameAt(s, k, i))
  PROVE  Fitting(b, s, k, i)
BY DEF Entry, Fitting

LEMMA OwnFits ==
  ASSUME NEW s \in Session, NEW k \in Kinds, NEW i \in 1..Len(Plan[s][k])
  PROVE  Fitting(Buffer(s, k, NameAt(s, k, i)), s, k, i)
<1>1. NameAt(s, k, i) \in NamesOf(s, k)
  BY NamesTyped
<1> QED
  BY <1>1, Zenon DEF Fitting

LEMMA OwnEntry ==
  ASSUME NEW s \in Session, NEW k \in Kinds, NEW n \in NamesOf(s, k), Real(s, k, n)
  PROVE  Entry(Buffer(s, k, n), k, Plan[s].cache, n)
BY DEF Entry

-----------------------------------------------------------------------------
(* What is held, and what is open *)

Openers(b) == \E s \in Session, k \in Kinds : Opens(s, k) /\ b = Buffer(s, k, NextName(s, k))
InSessions(b, g) == \E s \in Session, k \in Kinds : \E i \in DOMAIN g[s][k] : b = g[s][k][i]
InCaches(b, c) == \E l \in Kinds \X Caches : \E n \in DOMAIN c[l] : b = c[l][n]

LEMMA OpenedAre == (\A b : b \in Opened <=> Openers(b)) /\ (\A b : b \in Opened' <=> Openers(b)')
<1>1. \A b : b \in Opened <=> Openers(b)
  BY DEF Opened, Openers, Opens
<1>2. \A b : b \in Opened' <=> Openers(b)'
  BY DEF Opened, Openers, Opens
<1> QED
  BY <1>1, <1>2

LEMMA HeldAre ==
  ASSUME NEW g, NEW c, NEW opened, NEW b
  PROVE  b \in HeldBy(g, c, opened) <=> (InSessions(b, g) \/ InCaches(b, c) \/ b \in opened)
<1>1. b \in UNION {UNION {{g[s][k][i] : i \in DOMAIN g[s][k]} : k \in Kinds} : s \in Session}
        <=> InSessions(b, g)
  BY DEF InSessions
<1>2. b \in UNION {{c[l][n] : n \in DOMAIN c[l]} : l \in Kinds \X Caches} <=> InCaches(b, c)
  BY DEF InCaches
<1> QED
  BY <1>1, <1>2 DEF HeldBy

(* One buffer more. *)
Grows(h, g, s, k, b) ==
  /\ h \in [Session -> [Kinds -> Seq(BufferSet)]]
  /\ \A r \in Session, j \in Kinds : ~ (r = s /\ j = k) => h[r][j] = g[r][j]
  /\ Len(h[s][k]) = Len(g[s][k]) + 1
  /\ \A i \in 1..Len(g[s][k]) : h[s][k][i] = g[s][k][i]
  /\ h[s][k][Len(g[s][k]) + 1] = b

LEMMA WithIs ==
  ASSUME NEW g \in [Session -> [Kinds -> Seq(BufferSet)]], NEW s \in Session, NEW k \in Kinds, NEW b \in BufferSet
  PROVE  Grows(With(g, s, k, b), g, s, k, b)
<1>1. g[s][k] \in Seq(BufferSet)
  OBVIOUS
<1>2. /\ Append(g[s][k], b) \in Seq(BufferSet) /\ Len(Append(g[s][k], b)) = Len(g[s][k]) + 1
      /\ \A i \in 1..Len(g[s][k]) : Append(g[s][k], b)[i] = g[s][k][i]
      /\ Append(g[s][k], b)[Len(g[s][k]) + 1] = b
  BY <1>1, AppendProperties
<1>3. With(g, s, k, b)[s][k] = Append(g[s][k], b)
  BY DEF With
<1>4. \A r \in Session, j \in Kinds : ~ (r = s /\ j = k) => With(g, s, k, b)[r][j] = g[r][j]
  BY DEF With
<1>5. With(g, s, k, b) = [r \in Session |-> [j \in Kinds |-> With(g, s, k, b)[r][j]]]
  BY DEF With
<1>6. \A r \in Session, j \in Kinds : With(g, s, k, b)[r][j] \in Seq(BufferSet)
  BY <1>2, <1>3, <1>4
<1>7. With(g, s, k, b) \in [Session -> [Kinds -> Seq(BufferSet)]]
  <2> DEFINE h == With(g, s, k, b)
  <2>1. h = [r \in Session |-> [j \in Kinds |-> h[r][j]]] /\ \A r \in Session, j \in Kinds : h[r][j] \in Seq(BufferSet)
    BY <1>5, <1>6
  <2> HIDE DEF h
  <2>2. h \in [Session -> [Kinds -> Seq(BufferSet)]]
    BY <2>1
  <2> QED
    BY <2>2 DEF h
<1> QED
  BY <1>2, <1>3, <1>4, <1>7 DEF Grows

LEMMA WithHolds ==
  ASSUME NEW g \in [Session -> [Kinds -> Seq(BufferSet)]], NEW s \in Session, NEW k \in Kinds, NEW b \in BufferSet,
         NEW x
  PROVE  InSessions(x, With(g, s, k, b)) <=> (InSessions(x, g) \/ x = b)
<1> DEFINE h == With(g, s, k, b)
<1>0. Grows(h, g, s, k, b)
  BY WithIs
<1> HIDE DEF h
<1>1. /\ h \in [Session -> [Kinds -> Seq(BufferSet)]]
      /\ \A r \in Session, j \in Kinds : ~ (r = s /\ j = k) => h[r][j] = g[r][j]
      /\ Len(h[s][k]) = Len(g[s][k]) + 1
      /\ \A i \in 1..Len(g[s][k]) : h[s][k][i] = g[s][k][i]
      /\ h[s][k][Len(g[s][k]) + 1] = b
  BY <1>0 DEF Grows
<1>2. \A r \in Session, j \in Kinds : /\ Len(h[r][j]) \in Nat /\ Len(g[r][j]) \in Nat
                                      /\ DOMAIN h[r][j] = 1..Len(h[r][j]) /\ DOMAIN g[r][j] = 1..Len(g[r][j])
  <2> TAKE r \in Session, j \in Kinds
  <2>1. h[r][j] \in Seq(BufferSet) /\ g[r][j] \in Seq(BufferSet)
    BY <1>1
  <2> QED
    BY <2>1
<1>3. ASSUME InSessions(x, h) PROVE InSessions(x, g) \/ x = b
  <2>1. PICK r \in Session, j \in Kinds : \E i \in DOMAIN h[r][j] : x = h[r][j][i]
    BY <1>3 DEF InSessions
  <2>2. PICK i \in DOMAIN h[r][j] : x = h[r][j][i]
    BY <2>1
  <2>3. CASE r = s /\ j = k
    <3>1. i \in 1..Len(g[s][k]) \/ i = Len(g[s][k]) + 1
      BY <1>1, <1>2, <2>2, <2>3
    <3> QED
      BY <1>1, <1>2, <2>2, <2>3, <3>1 DEF InSessions
  <2>4. CASE ~ (r = s /\ j = k)
    BY <1>1, <2>2, <2>4 DEF InSessions
  <2> QED
    BY <2>3, <2>4
<1>4. ASSUME InSessions(x, g) PROVE InSessions(x, h)
  <2>1. PICK r \in Session, j \in Kinds : \E i \in DOMAIN g[r][j] : x = g[r][j][i]
    BY <1>4 DEF InSessions
  <2>2. PICK i \in DOMAIN g[r][j] : x = g[r][j][i]
    BY <2>1
  <2>3. i \in DOMAIN h[r][j] /\ h[r][j][i] = x
    <3>1. CASE r = s /\ j = k
      <4>1. i \in 1..Len(g[s][k]) /\ Len(g[s][k]) \in Nat
        BY <1>2, <2>2, <3>1
      <4>2. h[s][k][i] = g[s][k][i] /\ i \in 1..Len(h[s][k])
        BY <1>1, <4>1
      <4> QED
        BY <1>2, <2>2, <3>1, <4>2
    <3>2. CASE ~ (r = s /\ j = k)
      BY <1>1, <2>2, <3>2
    <3> QED
      BY <3>1, <3>2
  <2> QED
    BY <2>3 DEF InSessions
<1>5. ASSUME x = b PROVE InSessions(x, h)
  <2>1. Len(g[s][k]) + 1 \in DOMAIN h[s][k] /\ h[s][k][Len(g[s][k]) + 1] = x
    BY <1>1, <1>2, <1>5
  <2> QED
    BY <2>1 DEF InSessions
<1> QED
  BY <1>3, <1>4, <1>5 DEF h

(* A session gets a fitting buffer, or two lose nothing but what one held. *)
LEMMA Gained ==
  ASSUME BuffersTyped, GotInOrder, NEW s \in Session, NEW k \in Kinds, NEW b,
         Len(got[s][k]) < Len(Plan[s][k]), Fitting(b, s, k, Len(got[s][k]) + 1), got' = With(got, s, k, b),
         \A r \in Session, j \in Kinds : Opens(r, j)' => r # s /\ Opens(r, j)
  PROVE  /\ got' \in [Session -> [Kinds -> Seq(BufferSet)]] /\ GotInOrder'
         /\ \A r \in Session, j \in Kinds : Len(got[r][j]) \in Nat /\ Len(got'[r][j]) \in Nat
         /\ \A r \in Session, j \in Kinds : ~ (r = s /\ j = k) => got'[r][j] = got[r][j]
         /\ Len(got'[s][k]) = Len(got[s][k]) + 1
         /\ \A i \in 1..Len(got[s][k]) : got'[s][k][i] = got[s][k][i]
         /\ got'[s][k][Len(got[s][k]) + 1] = b
         /\ \A x : InSessions(x, got') <=> (InSessions(x, got) \/ x = b)
<1>0. got \in [Session -> [Kinds -> Seq(BufferSet)]]
  BY DEF BuffersTyped
<1>1. b \in BufferSet
  BY FittingIs
<1>2. /\ got' \in [Session -> [Kinds -> Seq(BufferSet)]]
      /\ \A r \in Session, j \in Kinds : ~ (r = s /\ j = k) => got'[r][j] = got[r][j]
      /\ Len(got'[s][k]) = Len(got[s][k]) + 1
      /\ \A i \in 1..Len(got[s][k]) : got'[s][k][i] = got[s][k][i]
      /\ got'[s][k][Len(got[s][k]) + 1] = b
  <2>1. Grows(With(got, s, k, b), got, s, k, b)
    BY <1>0, <1>1, WithIs
  <2>2. Grows(got', got, s, k, b)
    BY <2>1
  <2> QED
    BY <2>2 DEF Grows
<1>3. \A x : InSessions(x, got') <=> (InSessions(x, got) \/ x = b)
  <2> DEFINE h == With(got, s, k, b)
  <2>1. \A x : InSessions(x, h) <=> (InSessions(x, got) \/ x = b)
    BY <1>0, <1>1, WithHolds
  <2>2. got' = h
    OBVIOUS
  <2> HIDE DEF h
  <2> QED
    BY <2>1, <2>2, Zenon
<1>4. \A r \in Session, j \in Kinds : Len(got[r][j]) \in Nat /\ Len(got'[r][j]) \in Nat
  <2> TAKE r \in Session, j \in Kinds
  <2>1. got[r][j] \in Seq(BufferSet) /\ got'[r][j] \in Seq(BufferSet)
    BY <1>0, <1>2
  <2> QED
    BY <2>1
<1>5. ASSUME NEW r \in Session, NEW j \in Kinds
      PROVE  /\ Len(got'[r][j]) <= Len(Plan[r][j])
             /\ Opens(r, j)' => Len(got'[r][j]) < Len(Plan[r][j]) /\ Real(r, j, NextName(r, j)')
             /\ \A i \in 1..Len(got'[r][j]) : Fitting(got'[r][j][i], r, j, i)
  <2>1. /\ Len(got[r][j]) <= Len(Plan[r][j])
        /\ Opens(r, j) => Len(got[r][j]) < Len(Plan[r][j]) /\ Real(r, j, NextName(r, j))
        /\ \A i \in 1..Len(got[r][j]) : Fitting(got[r][j][i], r, j, i)
    BY DEF GotInOrder
  <2>2. CASE r = s /\ j = k
    <3>1. ASSUME NEW i \in 1..Len(got'[r][j]) PROVE Fitting(got'[r][j][i], r, j, i)
      <4>1. CASE i \in 1..Len(got[r][j])
        BY <1>2, <2>1, <2>2, <4>1
      <4>2. CASE i = Len(got[r][j]) + 1
        BY <1>2, <2>2, <4>2
      <4> QED
        BY <1>2, <1>4, <2>2, <3>1, <4>1, <4>2
    <3>2. Len(got'[r][j]) <= Len(Plan[r][j])
      BY <1>2, <1>4, <2>2, NamesTyped
    <3> QED
      BY <2>2, <3>1, <3>2
  <2>3. CASE ~ (r = s /\ j = k)
    <3>1. got'[r][j] = got[r][j] /\ NextName(r, j)' = NextName(r, j)
      BY <1>2, <2>3 DEF NextName
    <3> QED
      BY <2>1, <3>1
  <2> QED
    BY <2>2, <2>3
<1>6. GotInOrder'
  BY <1>5 DEF GotInOrder, Real, Placeholder, HostResident, Fitting
<1> QED
  BY <1>2, <1>3, <1>4, <1>6

-----------------------------------------------------------------------------
(* What a step leaves alone *)

LEMMA StagesApart ==
  ASSUME NEW s \in Session, NEW k \in Kinds
  PROVE  /\ stage[s] = k => ~ Opens(s, "states") /\ ~ Opens(s, "weights") /\ Building(s) /\ stage[s] # "built"
                            /\ stage[s] # "running"
         /\ Opens(s, k) => Building(s) /\ stage[s] # "built" /\ stage[s] # "running"
         /\ Building(s) => stage[s] \notin {"built", "running", "dropped", "failed"}
BY KindsAre DEF Opens, Building, Kinds, Filling

LEMMA OpenedStays ==
  ASSUME \A r \in Session, j \in Kinds : Opens(r, j)' <=> Opens(r, j),
         \A r \in Session, j \in Kinds : Opens(r, j) => got'[r][j] = got[r][j]
  PROVE  Opened' = Opened
<1>1. ASSUME NEW r \in Session, NEW j \in Kinds, Opens(r, j) PROVE NextName(r, j)' = NextName(r, j)
  BY <1>1 DEF NextName
<1>2. ASSUME NEW b, Openers(b) PROVE Openers(b)'
  <2>1. PICK r \in Session, j \in Kinds : Opens(r, j) /\ b = Buffer(r, j, NextName(r, j))
    BY <1>2 DEF Openers
  <2>2. Opens(r, j)' /\ b = Buffer(r, j, NextName(r, j)')
    BY <1>1, <2>1
  <2> QED
    BY <2>2 DEF Openers, Buffer
<1>3. ASSUME NEW b, Openers(b)' PROVE Openers(b)
  <2>1. PICK r \in Session, j \in Kinds : Opens(r, j)' /\ b = Buffer(r, j, NextName(r, j)')
    BY <1>3 DEF Openers, Buffer
  <2>2. Opens(r, j) /\ b = Buffer(r, j, NextName(r, j))
    BY <1>1, <2>1
  <2> QED
    BY <2>2 DEF Openers
<1>4. \A b : b \in Opened' <=> b \in Opened
  BY <1>2, <1>3, OpenedAre
<1> QED
  BY <1>4, Zenon

LEMMA PtrStays ==
  ASSUME PtrTrue, ptr' = ptr,
         \A r \in Session : Building(r)' => Building(r),
         \A r \in Session : stage'[r] \in {"built", "running"} =>
                              stage'[r] = stage[r] /\ got'[r]["weights"] = got[r]["weights"]
  PROVE  PtrTrue'
<1>1. ASSUME NEW r \in Session, stage'[r] \in {"built", "running"}
      PROVE  Pointers(r)' = Pointers(r) /\ stage'[r] = stage[r]
  <2>1. stage'[r] = stage[r] /\ got'[r]["weights"] = got[r]["weights"]
    BY <1>1
  <2> QED
    BY <2>1 DEF Pointers
<1>2. ASSUME NEW r \in Session
      PROVE  /\ Building(r)' => ptr'[r] = <<>>
             /\ stage'[r] = "built" => ptr'[r] \in {<<>>, Pointers(r)'}
             /\ stage'[r] = "running" => ptr'[r] = Pointers(r)'
  BY <1>1 DEF PtrTrue
<1> QED
  BY <1>2 DEF PtrTrue

LEMMA RunsStay ==
  ASSUME OneRuns, StatesContinue, told' = told, last' = last,
         \A r \in Session : stage'[r] = "running" => stage[r] = "running"
  PROVE  OneRuns' /\ StatesContinue'
BY DEF OneRuns, StatesContinue

LEMMA RememberedStays ==
  ASSUME Remembered, last' = last,
         \A r \in Session : Building(r)' => Building(r),
         \A r \in Session : Building(r)' /\ Shares(r) =>
            DOMAIN persistent[LockOf(r, "states")] \subseteq DOMAIN persistent'[LockOf(r, "states")]
  PROVE  Remembered'
<1>1. ASSUME NEW r \in Session, Building(r)', NEW n \in DOMAIN last'[Memory(r)]
      PROVE  Shares(r) /\ n \in DOMAIN persistent'[LockOf(r, "states")]
  <2>1. Shares(r) /\ n \in DOMAIN persistent[LockOf(r, "states")]
    BY <1>1 DEF Remembered
  <2> QED
    BY <1>1, <2>1
<1> QED
  BY <1>1 DEF Remembered

LEMMA HoldsStays ==
  ASSUME NEW b, last' = last, b \in Opened' <=> b \in Opened
  PROVE  Holds(b)' = Holds(b)
BY DEF Holds, StateAt

LEMMA CacheKeepsOn ==
  ASSUME \A q, r \in Session : Building(q)' /\ Shares(q) /\ Plan[r].cache = Plan[q].cache =>
            \A k \in Kinds : \A i \in 1..Len(got'[r][k]) :
              Real(r, k, NameAt(r, k, i)) =>
                /\ NameAt(r, k, i) \in DOMAIN persistent'[<<k, Plan[r].cache>>]
                /\ persistent'[<<k, Plan[r].cache>>][NameAt(r, k, i)] = got'[r][k][i]
  PROVE  CacheKeeps'
BY DEF CacheKeeps, Real, Placeholder, HostResident, NameAt, Shares

LEMMA MemStays ==
  ASSUME MemTrue, OneCopy, last' = last, DOMAIN mem' \subseteq DOMAIN mem,
         \A b \in DOMAIN mem' : mem'[b] = mem[b] /\ (b \in Opened' <=> b \in Opened)
  PROVE  MemTrue' /\ OneCopy'
<1>1. ASSUME NEW b \in DOMAIN mem' PROVE b \in BufferSet /\ mem'[b] = Holds(b)'
  <2>1. Holds(b)' = Holds(b)
    BY HoldsStays
  <2> QED
    BY <2>1 DEF MemTrue
<1>2. MemTrue'
  BY <1>1 DEF MemTrue, BufferSet
<1>3. OneCopy'
  BY DEF OneCopy
<1> QED
  BY <1>2, <1>3

IsPut(h, f, b, v) ==
  DOMAIN h = DOMAIN f \cup {b} /\ h[b] = v /\ \A d \in DOMAIN f : d # b => h[d] = f[d]
LEMMA PutIs ==
  ASSUME NEW f, NEW b, NEW v
  PROVE  IsPut(Put(f, b, v), f, b, v)
BY DEF Put, IsPut

(* Of what was allocated, what is still held stays allocated. *)
KeptIs(m, g, c, opened) ==
  /\ DOMAIN Kept(m, g, c, opened) = HeldBy(g, c, opened) /\ HeldBy(g, c, opened) \subseteq DOMAIN m
  /\ \A b \in HeldBy(g, c, opened) : Kept(m, g, c, opened)[b] = m[b]
LEMMA KeptIsHeld ==
  ASSUME NEW m, NEW g, NEW c, NEW opened, NEW g1, NEW c1, NEW opened1,
         DOMAIN m = HeldBy(g, c, opened),
         \A b : InSessions(b, g1) => InSessions(b, g),
         \A b : InCaches(b, c1) => InCaches(b, c),
         opened1 \subseteq opened
  PROVE  KeptIs(m, g1, c1, opened1)
<1>1. HeldBy(g1, c1, opened1) \subseteq HeldBy(g, c, opened)
  BY HeldAre
<1> QED
  BY <1>1 DEF Kept, KeptIs

-----------------------------------------------------------------------------
(* Building *)

(* A session that looks for its next buffer waits for no closure of its own. *)
LEMMA Looking ==
  ASSUME SInv, NEW s \in Session, NEW k \in Kinds, stage[s] = k, ~ AllGot(s, k)
  PROVE  /\ Len(got[s][k]) \in Nat /\ Len(got[s][k]) < Len(Plan[s][k])
         /\ NextName(s, k) = NameAt(s, k, Len(got[s][k]) + 1)
         /\ Len(got[s][k]) + 1 \in 1..Len(Plan[s][k])
         /\ NextName(s, k) \in NamesOf(s, k)
         /\ \A j \in Kinds : ~ Opens(s, j)
         /\ Building(s)
<1>1. got[s][k] \in Seq(BufferSet)
  BY DEF SInv, BuffersTyped
<1>2. Len(got[s][k]) \in Nat /\ Len(got[s][k]) < Len(Plan[s][k])
  BY <1>1, NamesTyped DEF SInv, GotInOrder, AllGot
<1>3. Len(got[s][k]) + 1 \in 1..Len(Plan[s][k])
  BY <1>2, NamesTyped
<1>4. NextName(s, k) \in NamesOf(s, k)
  BY <1>3, NamesTyped DEF NextName
<1>5. Building(s) /\ \A j \in Kinds : ~ Opens(s, j)
  BY StagesApart, KindsAre
<1> QED
  BY <1>2, <1>3, <1>4, <1>5 DEF NextName

LEMMA HitKeeps ==
  ASSUME SInv, NEW s \in Session, NEW k \in Kinds, Hit(s, k)
  PROVE  SInv'
<1> DEFINE n == NextName(s, k)
           b == persistent[LockOf(s, k)][n]
           m == Len(got[s][k])
<1>1. /\ stage[s] = k /\ ~ AllGot(s, k) /\ Real(s, k, n) /\ Shares(s) /\ n \in DOMAIN persistent[LockOf(s, k)]
      /\ got' = With(got, s, k, b)
      /\ stage' = stage /\ lock' = lock /\ persistent' = persistent /\ mem' = mem /\ ptr' = ptr
      /\ runs' = runs /\ told' = told /\ last' = last
  BY DEF Hit, Found, Real
<1>2. /\ m \in Nat /\ m < Len(Plan[s][k]) /\ n = NameAt(s, k, m + 1) /\ m + 1 \in 1..Len(Plan[s][k])
      /\ \A j \in Kinds : ~ Opens(s, j)
  BY <1>1, Looking
<1>3. Plan[s].cache \in Caches /\ LockOf(s, k) = <<k, Plan[s].cache>>
  BY <1>1, LocksAre
<1>4. Entry(b, k, Plan[s].cache, n)
  BY <1>1, <1>3 DEF SInv, CacheTrue
<1>5. Fitting(b, s, k, m + 1)
  BY <1>1, <1>2, <1>4, EntryFits
<1>6. \A r \in Session, j \in Kinds : Opens(r, j)' => r # s /\ Opens(r, j)
  BY <1>1, <1>2 DEF Opens
<1> HIDE DEF b, n
<1>7. /\ got' \in [Session -> [Kinds -> Seq(BufferSet)]] /\ GotInOrder'
      /\ \A r \in Session, j \in Kinds : Len(got[r][j]) \in Nat /\ Len(got'[r][j]) \in Nat
      /\ \A r \in Session, j \in Kinds : ~ (r = s /\ j = k) => got'[r][j] = got[r][j]
      /\ Len(got'[s][k]) = m + 1
      /\ \A i \in 1..m : got'[s][k][i] = got[s][k][i]
      /\ got'[s][k][m + 1] = b
      /\ \A x : InSessions(x, got') <=> (InSessions(x, got) \/ x = b)
  BY <1>1, <1>2, <1>5, <1>6, Gained DEF SInv
<1>8. Opened' = Opened
  BY <1>1, <1>6, <1>7, OpenedStays DEF Opens
<1>9. BuffersTyped'
  BY <1>1, <1>7 DEF SInv, BuffersTyped
<1>10. GotAll'
  BY <1>1, <1>7, StagesApart, ZenonT(60) DEF SInv, GotAll, AllGot, Kinds, Filling
<1>11. CacheTrue'
  BY <1>1 DEF SInv, CacheTrue
<1>12. LockHeld'
  <2>1. ASSUME NEW r \in Session, NEW j \in Kinds, Opens(r, j)' PROVE NextName(r, j)' = NextName(r, j) /\ Opens(r, j)
    BY <1>6, <1>7, <2>1 DEF NextName
  <2> QED
    BY <1>1, <2>1 DEF SInv, LockHeld
<1>13. CacheKeeps'
  <2>1. ASSUME NEW q \in Session, NEW r \in Session, Building(q)', Shares(q), Plan[r].cache = Plan[q].cache,
               NEW j \in Kinds, NEW i \in 1..Len(got'[r][j]), Real(r, j, NameAt(r, j, i))
        PROVE  /\ NameAt(r, j, i) \in DOMAIN persistent'[<<j, Plan[r].cache>>]
               /\ persistent'[<<j, Plan[r].cache>>][NameAt(r, j, i)] = got'[r][j][i]
    <3>1. Building(q)
      BY <1>1, <2>1 DEF Building
    <3>2. CASE i \in 1..Len(got[r][j])
      <4>1. got'[r][j][i] = got[r][j][i]
        BY <1>7, <3>2
      <4> QED
        BY <1>1, <2>1, <3>1, <3>2, <4>1 DEF SInv, CacheKeeps
    <3>3. CASE i \notin 1..Len(got[r][j])
      <4>1. r = s /\ j = k /\ i = m + 1
        BY <1>2, <1>7, <3>3
      <4> QED
        BY <1>1, <1>2, <1>3, <1>7, <4>1 DEF b
    <3> QED
      BY <3>2, <3>3
  <2> QED
    BY <2>1 DEF CacheKeeps, Real, Placeholder, HostResident, NameAt, Shares
<1>14. Allocated'
  <2>1. InCaches(b, persistent)
    BY <1>1, <1>3 DEF InCaches, b
  <2>2. \A x : x \in HeldBy(got', persistent', Opened') <=> x \in HeldBy(got, persistent, Opened)
    BY <1>1, <1>7, <1>8, <2>1, HeldAre
  <2>3. HeldBy(got', persistent', Opened') = HeldBy(got, persistent, Opened)
    BY <2>2, Zenon
  <2> QED
    BY <1>1, <2>3 DEF SInv, Allocated
<1>15. MemTrue' /\ OneCopy'
  BY <1>1, <1>8, MemStays DEF SInv
<1>16. Remembered'
  BY <1>1, RememberedStays DEF SInv, Building
<1>17. PtrTrue'
  BY <1>1, <1>7, StagesApart, PtrStays DEF SInv, Building, Kinds
<1>18. OneRuns' /\ StatesContinue'
  BY <1>1, RunsStay DEF SInv
<1> QED
  BY <1>7, <1>9, <1>10, <1>11, <1>12, <1>13, <1>14, <1>15, <1>16, <1>17, <1>18 DEF SInv

LEMMA SkipKeeps ==
  ASSUME SInv, NEW s \in Session, Skip(s)
  PROVE  SInv'
<1> DEFINE k == "weights"
           n == NextName(s, k)
           b == Buffer(s, k, n)
           m == Len(got[s][k])
<1>0. k \in Kinds
  BY DEF Kinds
<1>1. /\ stage[s] = k /\ ~ AllGot(s, k) /\ Placeholder(s, n)
      /\ mem' = Put(mem, b, [kind |-> "Placeholder", data |-> Zero])
      /\ got' = With(got, s, k, b)
      /\ stage' = stage /\ lock' = lock /\ persistent' = persistent /\ ptr' = ptr
      /\ runs' = runs /\ told' = told /\ last' = last
  BY DEF Skip
<1>2. /\ m \in Nat /\ m < Len(Plan[s][k]) /\ n = NameAt(s, k, m + 1) /\ m + 1 \in 1..Len(Plan[s][k])
      /\ \A j \in Kinds : ~ Opens(s, j)
  BY <1>0, <1>1, Looking
<1>3. ~ Real(s, k, n) /\ b[1] = s /\ b[2] = k /\ b[3] = n
  BY <1>1 DEF Real, Buffer
<1>5. Fitting(b, s, k, m + 1)
  BY <1>0, <1>2, OwnFits
<1>6. \A r \in Session, j \in Kinds : Opens(r, j)' => r # s /\ Opens(r, j)
  BY <1>1, <1>2 DEF Opens
<1>m. /\ DOMAIN mem' = DOMAIN mem \cup {b}
      /\ mem'[b] = [kind |-> "Placeholder", data |-> Zero]
      /\ \A d \in DOMAIN mem : d # b => mem'[d] = mem[d]
  <2>1. IsPut(mem', mem, b, [kind |-> "Placeholder", data |-> Zero])
    BY <1>1, PutIs
  <2> QED
    BY <2>1 DEF IsPut
<1>b. b \in BufferSet
  BY <1>0, <1>5, FittingIs
<1> HIDE DEF b, n, k
<1>7. /\ got' \in [Session -> [Kinds -> Seq(BufferSet)]] /\ GotInOrder'
      /\ \A r \in Session, j \in Kinds : Len(got[r][j]) \in Nat /\ Len(got'[r][j]) \in Nat
      /\ \A r \in Session, j \in Kinds : ~ (r = s /\ j = k) => got'[r][j] = got[r][j]
      /\ Len(got'[s][k]) = m + 1
      /\ \A i \in 1..m : got'[s][k][i] = got[s][k][i]
      /\ got'[s][k][m + 1] = b
      /\ \A x : InSessions(x, got') <=> (InSessions(x, got) \/ x = b)
  BY <1>0, <1>1, <1>2, <1>5, <1>6, Gained DEF SInv
<1>8. Opened' = Opened
  BY <1>0, <1>1, <1>6, <1>7, OpenedStays DEF Opens
<1>9. BuffersTyped'
  BY <1>1, <1>7 DEF SInv, BuffersTyped
<1>10. GotAll'
  BY <1>1, <1>7, StagesApart DEF SInv, GotAll, AllGot, Kinds, Filling, k
<1>11. CacheTrue'
  BY <1>1 DEF SInv, CacheTrue
<1>12. LockHeld'
  <2>1. ASSUME NEW r \in Session, NEW j \in Kinds, Opens(r, j)' PROVE NextName(r, j)' = NextName(r, j) /\ Opens(r, j)
    BY <1>6, <1>7, <2>1 DEF NextName
  <2> QED
    BY <1>1, <2>1 DEF SInv, LockHeld
<1>13. CacheKeeps'
  <2>1. ASSUME NEW q \in Session, NEW r \in Session, Building(q)', Shares(q), Plan[r].cache = Plan[q].cache,
               NEW j \in Kinds, NEW i \in 1..Len(got'[r][j]), Real(r, j, NameAt(r, j, i))
        PROVE  /\ NameAt(r, j, i) \in DOMAIN persistent'[<<j, Plan[r].cache>>]
               /\ persistent'[<<j, Plan[r].cache>>][NameAt(r, j, i)] = got'[r][j][i]
    <3>1. Building(q)
      BY <1>1, <2>1 DEF Building
    <3>2. i \in 1..Len(got[r][j])
      <4>1. CASE r = s /\ j = k
        BY <1>2, <1>3, <1>7, <2>1, <4>1
      <4>2. CASE ~ (r = s /\ j = k)
        BY <1>7, <4>2
      <4> QED
        BY <4>1, <4>2
    <3>3. got'[r][j][i] = got[r][j][i]
      BY <1>7, <3>2
    <3> QED
      BY <1>1, <2>1, <3>1, <3>2, <3>3 DEF SInv, CacheKeeps
  <2> QED
    BY <2>1 DEF CacheKeeps, Real, Placeholder, HostResident, NameAt, Shares
<1>14. Allocated'
  <2>1. \A x : x \in HeldBy(got', persistent', Opened') <=> x \in HeldBy(got, persistent, Opened) \cup {b}
    BY <1>1, <1>7, <1>8, HeldAre
  <2>2. HeldBy(got', persistent', Opened') = HeldBy(got, persistent, Opened) \cup {b}
    BY <2>1, Zenon
  <2> QED
    BY <1>m, <2>2 DEF SInv, Allocated
<1>15. MemTrue'
  <2>1. ASSUME NEW d \in DOMAIN mem' PROVE d \in BufferSet /\ mem'[d] = Holds(d)'
    <3>1. Holds(d)' = Holds(d)
      BY <1>1, <1>8, HoldsStays
    <3>2. CASE d = b
      <4>1. Holds(b) = [kind |-> "Placeholder", data |-> Zero]
        BY <1>1, <1>3 DEF Holds, k, n
      <4> QED
        BY <1>b, <1>m, <3>1, <3>2, <4>1
    <3>3. CASE d # b
      BY <1>m, <3>1, <3>3 DEF SInv, MemTrue
    <3> QED
      BY <3>2, <3>3
  <2> QED
    BY <2>1 DEF MemTrue, BufferSet
<1>19. OneCopy'
  <2>1. ASSUME NEW d \in DOMAIN mem', mem'[d].kind # "Placeholder" PROVE d \in DOMAIN mem /\ mem[d] = mem'[d]
    BY <1>m, <2>1
  <2> QED
    BY <2>1 DEF SInv, OneCopy
<1>16. Remembered'
  BY <1>1, RememberedStays DEF SInv, Building
<1>17. PtrTrue'
  BY <1>0, <1>1, <1>7, StagesApart, PtrStays DEF SInv, Building, Kinds
<1>18. OneRuns' /\ StatesContinue'
  BY <1>1, RunsStay DEF SInv
<1> QED
  BY <1>7, <1>9, <1>10, <1>11, <1>12, <1>13, <1>14, <1>15, <1>16, <1>17, <1>18, <1>19 DEF SInv

(* A closure starts: one buffer more is open. *)
LEMMA AllocateKeeps ==
  ASSUME SInv, NEW s \in Session, NEW k \in Kinds, Allocate(s, k)
  PROVE  SInv'
<1>a. PICK n : n = NextName(s, k)
  OBVIOUS
<1>e. PICK b : b = Buffer(s, k, n)
  OBVIOUS
<1> DEFINE m == Len(got[s][k])
           v == [kind |-> IF k = "states" THEN StateKind(s, n) ELSE "Cuda", data |-> Zero]
<1>1. /\ stage[s] = k /\ ~ AllGot(s, k) /\ Real(s, k, n) /\ LocksFree(s, k) /\ ~ Found(s, k, n)
      /\ mem' = Put(mem, b, v) /\ lock' = HeldInClosure(s, k) /\ stage' = [stage EXCEPT ![s] = Filling[k]]
      /\ got' = got /\ persistent' = persistent /\ ptr' = ptr
      /\ runs' = runs /\ told' = told /\ last' = last
  BY <1>a, <1>e DEF Allocate, Real
<1>2. /\ m \in Nat /\ m < Len(Plan[s][k]) /\ n = NameAt(s, k, m + 1) /\ m + 1 \in 1..Len(Plan[s][k])
      /\ n \in NamesOf(s, k) /\ Building(s)
      /\ \A j \in Kinds : ~ Opens(s, j)
  BY <1>1, <1>a, Looking
<1>3. b[1] = s /\ b[2] = k /\ b[3] = n
  BY <1>e DEF Buffer
<1>b. b \in BufferSet
  <2>1. Fitting(b, s, k, m + 1)
    BY <1>2, <1>e, OwnFits
  <2> QED
    BY <2>1, FittingIs
<1> HIDE DEF v
<1>m. DOMAIN mem' = DOMAIN mem \cup {b} /\ mem'[b] = v /\ \A d \in DOMAIN mem : d # b => mem'[d] = mem[d]
  <2>1. IsPut(mem', mem, b, v)
    BY <1>1, PutIs
  <2> QED
    BY <2>1 DEF IsPut
<1>s. /\ stage'[s] = Filling[k] /\ Opens(s, k)'
      /\ \A r \in Session : r # s => stage'[r] = stage[r]
      /\ \A r \in Session, j \in Kinds : Opens(r, j)' <=> (Opens(r, j) \/ (r = s /\ j = k))
      /\ \A r \in Session : Building(r)' <=> Building(r)
      /\ \A r \in Session : stage'[r] \in {"built", "running", "dropped", "failed"} => r # s /\ stage'[r] = stage[r]
  <2>1. stage \in [Session -> {"states", "weights", "built", "running", "dropped", "failed"}
                              \cup {Filling[j] : j \in Kinds}]
    BY DEF SInv, BuffersTyped
  <2>2. stage'[s] = Filling[k] /\ \A r \in Session : r # s => stage'[r] = stage[r]
    BY <1>1, <2>1
  <2>3. \A j \in Kinds : Filling[j] = Filling[k] => j = k
    BY KindsAre
  <2>4. Filling[k] \notin {"built", "running", "dropped", "failed"}
    BY KindsAre
  <2>5. ASSUME NEW r \in Session, NEW j \in Kinds PROVE Opens(r, j)' <=> (Opens(r, j) \/ (r = s /\ j = k))
    BY <1>2, <2>2, <2>3 DEF Opens
  <2>6. ASSUME NEW r \in Session PROVE Building(r)' <=> Building(r)
    BY <1>2, <2>2 DEF Building
  <2> QED
    BY <2>2, <2>4, <2>5, <2>6 DEF Opens
<1>n. \A r \in Session, j \in Kinds : NextName(r, j)' = NextName(r, j)
  BY <1>1 DEF NextName
<1>8. \A d : d \in Opened' <=> (d \in Opened \/ d = b)
  <2>1. ASSUME NEW d, Openers(d)' PROVE Openers(d) \/ d = b
    <3>1. PICK r \in Session, j \in Kinds : Opens(r, j)' /\ d = Buffer(r, j, NextName(r, j)')
      BY <2>1 DEF Openers, Buffer
    <3> QED
      BY <1>a, <1>e, <1>n, <1>s, <3>1 DEF Openers
  <2>2. ASSUME NEW d, Openers(d) PROVE Openers(d)'
    <3>1. PICK r \in Session, j \in Kinds : Opens(r, j) /\ d = Buffer(r, j, NextName(r, j))
      BY <2>2 DEF Openers
    <3>2. Opens(r, j)' /\ d = Buffer(r, j, NextName(r, j)')
      BY <1>n, <1>s, <3>1
    <3> QED
      BY <3>2 DEF Openers, Buffer
  <2>3. Openers(b)'
    <3>1. Opens(s, k)' /\ b = Buffer(s, k, NextName(s, k)')
      BY <1>a, <1>e, <1>n, <1>s
    <3> QED
      BY <3>1 DEF Openers, Buffer
  <2> QED
    BY <2>1, <2>2, <2>3, OpenedAre
(* The lock. *)
<1>l. /\ lock' \in [Locks -> Session \cup {Free}]
      /\ Shares(s) => lock'[LockOf(s, k)] = s /\ lock[LockOf(s, k)] = Free
      /\ \A x \in Locks : lock[x] # Free => lock'[x] = lock[x]
  <2>1. lock \in [Locks -> Session \cup {Free}]
    BY DEF SInv, BuffersTyped
  <2>2. CASE Shares(s)
    <3>1. LockOf(s, k) \in Locks /\ lock[LockOf(s, k)] = Free
      BY <1>1, <2>2, LocksAre DEF LocksFree
    <3>2. lock' = [lock EXCEPT ![LockOf(s, k)] = s]
      BY <1>1, <2>2 DEF HeldInClosure
    <3> QED
      BY <2>1, <3>1, <3>2
  <2>3. CASE ~ Shares(s)
    BY <1>1, <2>1, <2>3 DEF HeldInClosure
  <2> QED
    BY <2>2, <2>3
<1>f. Free \notin Session
  BY SessionsAssumption
<1>7. GotInOrder'
  <2>1. ASSUME NEW r \in Session, NEW j \in Kinds
        PROVE  /\ Len(got[r][j]) <= Len(Plan[r][j])
               /\ Opens(r, j)' => Len(got[r][j]) < Len(Plan[r][j]) /\ Real(r, j, NextName(r, j))
               /\ \A i \in 1..Len(got[r][j]) : Fitting(got[r][j][i], r, j, i)
    <3>1. r = s /\ j = k => Len(got[r][j]) < Len(Plan[r][j]) /\ Real(r, j, NextName(r, j))
      BY <1>1, <1>2, <1>a
    <3> QED
      BY <1>s, <3>1 DEF SInv, GotInOrder
  <2> QED
    BY <1>1, <1>n, <2>1 DEF GotInOrder, Real, Placeholder, HostResident, Fitting
<1>9. BuffersTyped'
  <2>1. stage' \in [Session -> {"states", "weights", "built", "running", "dropped", "failed"}
                               \cup {Filling[j] : j \in Kinds}]
    BY <1>1 DEF SInv, BuffersTyped
  <2> QED
    BY <1>1, <1>l, <2>1 DEF SInv, BuffersTyped
<1>10. GotAll'
  <2>1. ASSUME NEW r \in Session
        PROVE  /\ stage'[r] \in {"weights", Filling["weights"], "built", "running"} => AllGot(r, "states")
               /\ stage'[r] \in {"built", "running"} => AllGot(r, "weights")
    <3>1. CASE r = s
      <4>1. stage'[r] = Filling[k]
        BY <1>s, <3>1
      <4>2. k = "weights" => AllGot(s, "states")
        BY <1>1 DEF SInv, GotAll
      <4> QED
        BY <3>1, <4>1, <4>2, KindsAre
    <3>2. CASE r # s
      BY <1>s, <3>2 DEF SInv, GotAll
    <3> QED
      BY <3>1, <3>2
  <2> QED
    BY <1>1, <2>1 DEF GotAll, AllGot
<1>11. CacheTrue'
  BY <1>1 DEF SInv, CacheTrue
<1>12. LockHeld'
  <2>1. ASSUME NEW r \in Session, NEW j \in Kinds, Opens(r, j)', Shares(r)
        PROVE  lock'[LockOf(r, j)] = r /\ NextName(r, j) \notin DOMAIN persistent[LockOf(r, j)]
    <3>1. CASE r = s /\ j = k
      BY <1>1, <1>a, <1>l, <2>1, <3>1 DEF Found
    <3>2. CASE ~ (r = s /\ j = k)
      <4>1. Opens(r, j)
        BY <1>s, <2>1, <3>2
      <4>2. lock[LockOf(r, j)] = r /\ NextName(r, j) \notin DOMAIN persistent[LockOf(r, j)]
        BY <2>1, <4>1 DEF SInv, LockHeld
      <4>3. LockOf(r, j) \in Locks
        BY <2>1, LocksAre
      <4> QED
        BY <1>f, <1>l, <4>2, <4>3
    <3> QED
      BY <3>1, <3>2
  <2> QED
    BY <1>1, <1>n, <2>1 DEF LockHeld, Shares, LockOf
<1>13. CacheKeeps'
  BY <1>1, <1>s DEF SInv, CacheKeeps
<1>14. Allocated'
  <2>1. \A x : x \in HeldBy(got', persistent', Opened') <=> x \in HeldBy(got, persistent, Opened) \cup {b}
    BY <1>1, <1>8, HeldAre
  <2>2. HeldBy(got', persistent', Opened') = HeldBy(got, persistent, Opened) \cup {b}
    BY <2>1, Zenon
  <2> QED
    BY <1>m, <2>2 DEF SInv, Allocated
<1>15. MemTrue'
  <2>1. ASSUME NEW d \in DOMAIN mem' PROVE d \in BufferSet /\ mem'[d] = Holds(d)'
    <3>2. CASE d = b
      <4>1. b \in Opened'
        BY <1>8
      <4>2. Holds(b)' = v
        <5>1. CASE k = "states"
          <6>1. n \notin DOMAIN last[Memory(s)]
            BY <1>1, <1>2, <5>1 DEF SInv, Remembered, Found
          <6> QED
            BY <1>1, <1>3, <5>1, <6>1 DEF Holds, StateAt, v
        <5>2. CASE k = "weights"
          <6>1. ~ Placeholder(s, n)
            BY <1>1, <5>2 DEF Real
          <6> QED
            BY <1>3, <4>1, <5>2, <6>1 DEF Holds, v
        <5> QED
          BY <5>1, <5>2 DEF Kinds
      <4> QED
        BY <1>b, <1>m, <3>2, <4>2
    <3>3. CASE d # b
      <4>1. Holds(d)' = Holds(d)
        BY <1>1, <1>8, <3>3, HoldsStays
      <4> QED
        BY <1>m, <3>3, <4>1 DEF SInv, MemTrue
    <3> QED
      BY <3>2, <3>3
  <2> QED
    BY <2>1 DEF MemTrue, BufferSet
(* No other session of the model has the buffer: the cache would name it. *)
<1>o. ASSUME Shares(s), NEW d \in DOMAIN mem, Plan[d[1]].cache = Plan[s].cache, d[2] = k, d[3] = n, Real(d[1], k, n)
      PROVE  FALSE
  <2>1. d \in HeldBy(got, persistent, Opened) /\ d \in BufferSet
    BY <1>o DEF SInv, Allocated, MemTrue
  <2>2. /\ n \notin DOMAIN persistent[<<k, Plan[s].cache>>]
        /\ Plan[s].cache \in Caches /\ LockOf(s, k) = <<k, Plan[s].cache>> /\ LockOf(s, k) \in Locks
    BY <1>1, <1>o, LocksAre DEF Found
  <2>3. ASSUME InSessions(d, got) PROVE FALSE
    <3>1. PICK r \in Session, j \in Kinds : \E i \in DOMAIN got[r][j] : d = got[r][j][i]
      BY <2>3 DEF InSessions
    <3>2. PICK i \in DOMAIN got[r][j] : d = got[r][j][i]
      BY <3>1
    <3>3. got[r][j] \in Seq(BufferSet) /\ i \in 1..Len(got[r][j])
      BY <3>2 DEF SInv, BuffersTyped
    <3>4. Fitting(d, r, j, i)
      BY <3>2, <3>3 DEF SInv, GotInOrder
    <3>5. /\ d[1] = r \/ (Shares(r) /\ Plan[d[1]].cache = Plan[r].cache)
          /\ d[2] = j /\ d[3] = NameAt(r, j, i)
          /\ Real(r, j, NameAt(r, j, i)) <=> Real(d[1], j, NameAt(r, j, i))
      BY <3>4, FittingIs
    <3>6. Plan[r].cache = Plan[s].cache /\ j = k /\ NameAt(r, j, i) = n /\ Real(r, k, n)
      BY <1>o, <3>5
    <3> QED
      BY <1>2, <1>o, <2>2, <3>3, <3>6 DEF SInv, CacheKeeps
  <2>4. ASSUME InCaches(d, persistent) PROVE FALSE
    <3>1. PICK l \in Kinds \X Caches : \E x \in DOMAIN persistent[l] : d = persistent[l][x]
      BY <2>4 DEF InCaches
    <3>2. PICK x \in DOMAIN persistent[l] : d = persistent[l][x]
      BY <3>1
    <3>3. PICK j \in Kinds, c \in Caches : l = <<j, c>>
      BY <3>1
    <3>4. Entry(d, j, c, x)
      BY <3>2, <3>3 DEF SInv, CacheTrue
    <3>5. d[2] = j /\ d[3] = x /\ Plan[d[1]].cache = c
      BY <3>4, EntryIs
    <3> QED
      BY <1>o, <2>2, <3>2, <3>3, <3>5
  <2>5. ASSUME Openers(d) PROVE FALSE
    <3>1. PICK r \in Session, j \in Kinds : Opens(r, j) /\ d = Buffer(r, j, NextName(r, j))
      BY <2>5 DEF Openers
    <3>2. d[1] = r /\ j = k
      BY <1>o, <3>1 DEF Buffer
    <3>3. Shares(r) /\ LockOf(r, k) = LockOf(s, k)
      BY <1>o, <3>2 DEF Shares, LockOf
    <3>4. lock[LockOf(s, k)] = r
      BY <3>1, <3>2, <3>3 DEF SInv, LockHeld
    <3> QED
      BY <1>f, <1>l, <1>o, <3>4
  <2> QED
    BY <2>1, <2>3, <2>4, <2>5, HeldAre, OpenedAre
<1>19. OneCopy'
  <2>1. ASSUME NEW d \in DOMAIN mem', NEW e \in DOMAIN mem', Shares(d[1]), Plan[d[1]].cache = Plan[e[1]].cache,
               d[2] = e[2], d[3] = e[3], "Placeholder" \notin {mem'[d].kind, mem'[e].kind}
        PROVE  d = e
    <3>1. ASSUME NEW x \in DOMAIN mem, mem[x].kind # "Placeholder", x[2] = k, x[3] = n PROVE Real(x[1], k, n)
      <4>1. mem[x] = Holds(x)
        BY DEF SInv, MemTrue
      <4> QED
        BY <3>1, <4>1 DEF Holds, Real
    <3>2. Shares(s) <=> Plan[s].cache # NoCache
      BY DEF Shares
    <3>3. CASE d # b /\ e # b
      BY <1>m, <2>1, <3>3 DEF SInv, OneCopy
    <3>4. CASE d = b /\ e # b
      BY <1>3, <1>m, <1>o, <2>1, <3>1, <3>4
    <3>5. CASE d # b /\ e = b
      <4>1. Shares(s) /\ Plan[d[1]].cache = Plan[s].cache /\ d[2] = k /\ d[3] = n
        BY <1>3, <2>1, <3>5 DEF Shares
      <4> QED
        BY <1>m, <1>o, <2>1, <3>1, <3>5, <4>1
    <3> QED
      BY <3>3, <3>4, <3>5
  <2> QED
    BY <2>1 DEF OneCopy, Shares
<1>16. Remembered'
  BY <1>1, <1>s, RememberedStays DEF SInv
<1>17. PtrTrue'
  BY <1>1, <1>s, PtrStays DEF SInv
<1>18. OneRuns' /\ StatesContinue'
  BY <1>1, <1>s, RunsStay DEF SInv
<1> QED
  BY <1>7, <1>9, <1>10, <1>11, <1>12, <1>13, <1>14, <1>15, <1>16, <1>17, <1>18, <1>19 DEF SInv

(* A closure returns: the buffer is the session's and the cache's. *)
LEMMA FillKeeps ==
  ASSUME SInv, NEW s \in Session, NEW k \in Kinds, Fill(s, k)
  PROVE  SInv'
<1>a. PICK n : n = NextName(s, k)
  OBVIOUS
<1>e. PICK b : b = Buffer(s, k, n)
  OBVIOUS
<1> DEFINE m == Len(got[s][k])
<1>1. /\ Opens(s, k)
      /\ mem' = IF k = "weights" THEN [mem EXCEPT ![b].data = Plan[s].data[n]] ELSE mem
      /\ persistent' = IF Shares(s) THEN [persistent EXCEPT ![LockOf(s, k)] = Put(@, n, b)] ELSE persistent
      /\ got' = With(got, s, k, b) /\ lock' = Released(s, k) /\ stage' = [stage EXCEPT ![s] = k]
      /\ ptr' = ptr /\ runs' = runs /\ told' = told /\ last' = last
  BY <1>a, <1>e DEF Fill, Opens
<1>2. /\ m \in Nat /\ m < Len(Plan[s][k]) /\ n = NameAt(s, k, m + 1) /\ m + 1 \in 1..Len(Plan[s][k])
      /\ n \in NamesOf(s, k) /\ Real(s, k, n) /\ Building(s)
  <2>1. got[s][k] \in Seq(BufferSet)
    BY DEF SInv, BuffersTyped
  <2>2. m \in Nat /\ m < Len(Plan[s][k]) /\ Real(s, k, n)
    BY <1>1, <1>a, <2>1 DEF SInv, GotInOrder
  <2>3. m + 1 \in 1..Len(Plan[s][k])
    BY <2>2, NamesTyped
  <2>4. Building(s)
    BY <1>1, StagesApart
  <2> QED
    BY <1>a, <2>2, <2>3, <2>4, NamesTyped DEF NextName
<1>3. b[1] = s /\ b[2] = k /\ b[3] = n
  BY <1>e DEF Buffer
<1>5. Fitting(b, s, k, m + 1) /\ b \in BufferSet
  <2>1. Fitting(b, s, k, m + 1)
    BY <1>2, <1>e, OwnFits
  <2> QED
    BY <2>1, FittingIs
<1>s. /\ stage'[s] = k
      /\ \A r \in Session : r # s => stage'[r] = stage[r]
      /\ \A r \in Session, j \in Kinds : Opens(r, j)' <=> (Opens(r, j) /\ r # s)
      /\ \A r \in Session : Building(r)' => Building(r)
      /\ \A r \in Session : stage'[r] \in {"built", "running", "dropped", "failed"} => r # s /\ stage'[r] = stage[r]
  <2>1. stage \in [Session -> {"states", "weights", "built", "running", "dropped", "failed"}
                              \cup {Filling[j] : j \in Kinds}]
    BY DEF SInv, BuffersTyped
  <2>2. stage'[s] = k /\ \A r \in Session : r # s => stage'[r] = stage[r]
    BY <1>1, <2>1
  <2>3. \A j \in Kinds : Filling[j] # k
    BY KindsAre
  <2>4. k \notin {"built", "running", "dropped", "failed"}
    BY KindsAre
  <2>5. ASSUME NEW r \in Session, NEW j \in Kinds PROVE Opens(r, j)' <=> (Opens(r, j) /\ r # s)
    BY <2>2, <2>3 DEF Opens
  <2>6. ASSUME NEW r \in Session PROVE Building(r)' => Building(r)
    BY <1>2, <2>2 DEF Building
  <2> QED
    BY <2>2, <2>4, <2>5, <2>6
<1>7. /\ got' \in [Session -> [Kinds -> Seq(BufferSet)]] /\ GotInOrder'
      /\ \A r \in Session, j \in Kinds : Len(got[r][j]) \in Nat /\ Len(got'[r][j]) \in Nat
      /\ \A r \in Session, j \in Kinds : ~ (r = s /\ j = k) => got'[r][j] = got[r][j]
      /\ Len(got'[s][k]) = m + 1
      /\ \A i \in 1..m : got'[s][k][i] = got[s][k][i]
      /\ got'[s][k][m + 1] = b
      /\ \A x : InSessions(x, got') <=> (InSessions(x, got) \/ x = b)
  BY <1>1, <1>2, <1>5, <1>s, Gained DEF SInv
<1>n. \A r \in Session, j \in Kinds : r # s => NextName(r, j)' = NextName(r, j)
  BY <1>7 DEF NextName
<1>8. \A d : d \in Opened' <=> (d \in Opened /\ d # b)
  <2>1. ASSUME NEW d, Openers(d)' PROVE Openers(d) /\ d # b
    <3>1. PICK r \in Session, j \in Kinds : Opens(r, j)' /\ d = Buffer(r, j, NextName(r, j)')
      BY <2>1 DEF Openers, Buffer
    <3>2. Opens(r, j) /\ r # s /\ d = Buffer(r, j, NextName(r, j))
      BY <1>n, <1>s, <3>1
    <3>3. d[1] = r
      BY <3>2 DEF Buffer
    <3> QED
      BY <1>3, <3>2, <3>3 DEF Openers
  <2>2. ASSUME NEW d, Openers(d), d # b PROVE Openers(d)'
    <3>1. PICK r \in Session, j \in Kinds : Opens(r, j) /\ d = Buffer(r, j, NextName(r, j))
      BY <2>2 DEF Openers
    <3>2. r = s => j = k
      BY <1>1, <3>1, KindsAre DEF Opens
    <3>3. r # s
      BY <1>a, <1>e, <2>2, <3>1, <3>2
    <3>4. Opens(r, j)' /\ d = Buffer(r, j, NextName(r, j)')
      BY <1>n, <1>s, <3>1, <3>3
    <3> QED
      BY <3>4 DEF Openers, Buffer
  <2> QED
    BY <2>1, <2>2, OpenedAre
<1>b. b \in Opened /\ b \in DOMAIN mem
  <2>1. Openers(b)
    BY <1>1, <1>a, <1>e DEF Openers
  <2>2. b \in Opened
    BY <2>1, OpenedAre
  <2> QED
    BY <2>2, HeldAre DEF SInv, Allocated
<1>c. /\ DOMAIN persistent' = Kinds \X Caches /\ persistent' = [l \in Kinds \X Caches |-> persistent'[l]]
      /\ \A l \in Kinds \X Caches : Shares(s) /\ l = LockOf(s, k) => IsPut(persistent'[l], persistent[l], n, b)
      /\ \A l \in Kinds \X Caches : ~ (Shares(s) /\ l = LockOf(s, k)) => persistent'[l] = persistent[l]
  <2>1. DOMAIN persistent = Kinds \X Caches /\ persistent = [l \in Kinds \X Caches |-> persistent[l]]
    BY DEF SInv, BuffersTyped
  <2>2. CASE Shares(s)
    <3>1. LockOf(s, k) \in Kinds \X Caches
      BY <2>2, LocksAre
    <3>2. persistent' = [persistent EXCEPT ![LockOf(s, k)] = Put(persistent[LockOf(s, k)], n, b)]
      BY <1>1, <2>2
    <3>3. persistent'[LockOf(s, k)] = Put(persistent[LockOf(s, k)], n, b)
      BY <2>1, <3>1, <3>2
    <3> QED
      BY <2>1, <2>2, <3>1, <3>2, <3>3, PutIs
  <2>3. CASE ~ Shares(s)
    BY <1>1, <2>1, <2>3
  <2> QED
    BY <2>2, <2>3
(* The entry was missing, so that none is lost. *)
<1>d. Shares(s) => lock[LockOf(s, k)] = s /\ n \notin DOMAIN persistent[LockOf(s, k)]
  BY <1>1, <1>a DEF SInv, LockHeld
<1>g. \A l \in Kinds \X Caches : \A x \in DOMAIN persistent[l] :
        x \in DOMAIN persistent'[l] /\ persistent'[l][x] = persistent[l][x]
  BY <1>c, <1>d DEF IsPut
<1>h. \A l \in Kinds \X Caches : \A x \in DOMAIN persistent'[l] :
        \/ x \in DOMAIN persistent[l] /\ persistent'[l][x] = persistent[l][x]
        \/ Shares(s) /\ l = LockOf(s, k) /\ x = n /\ persistent'[l][x] = b
  BY <1>c, <1>g DEF IsPut
<1>l. /\ lock' \in [Locks -> Session \cup {Free}]
      /\ \A x \in Locks : ~ (Shares(s) /\ x = LockOf(s, k)) => lock'[x] = lock[x]
  <2>1. lock \in [Locks -> Session \cup {Free}]
    BY DEF SInv, BuffersTyped
  <2>2. CASE Shares(s) /\ lock[LockOf(s, k)] = s
    BY <1>1, <2>1, <2>2, LocksAre DEF Released
  <2>3. CASE ~ (Shares(s) /\ lock[LockOf(s, k)] = s)
    BY <1>1, <2>1, <2>3 DEF Released
  <2> QED
    BY <2>2, <2>3
<1>9. BuffersTyped'
  <2>1. stage' \in [Session -> {"states", "weights", "built", "running", "dropped", "failed"}
                               \cup {Filling[j] : j \in Kinds}]
    BY <1>1, KindsAre DEF SInv, BuffersTyped
  <2> QED
    BY <1>1, <1>7, <1>c, <1>l, <2>1 DEF SInv, BuffersTyped
<1>10. GotAll'
  <2>1. ASSUME NEW r \in Session
        PROVE  /\ stage'[r] \in {"weights", Filling["weights"], "built", "running"} => AllGot(r, "states")'
               /\ stage'[r] \in {"built", "running"} => AllGot(r, "weights")'
    <3>1. CASE r = s
      <4>1. stage'[r] = k
        BY <1>s, <3>1
      <4>2. k = "weights" => AllGot(s, "states")
        BY <1>1 DEF SInv, GotAll, Opens
      <4>3. k = "weights" => AllGot(s, "states")'
        BY <1>7, <4>2, KindsAre DEF AllGot
      <4> QED
        BY <3>1, <4>1, <4>3, KindsAre
    <3>2. CASE r # s
      <4>1. stage'[r] = stage[r] /\ got'[r]["states"] = got[r]["states"] /\ got'[r]["weights"] = got[r]["weights"]
        BY <1>7, <1>s, <3>2, KindsAre
      <4> QED
        BY <4>1 DEF SInv, GotAll, AllGot
    <3> QED
      BY <3>1, <3>2
  <2> QED
    BY <2>1 DEF GotAll
<1>11. CacheTrue'
  <2>1. ASSUME NEW j \in Kinds, NEW c \in Caches, NEW x \in DOMAIN persistent'[<<j, c>>]
        PROVE  Entry(persistent'[<<j, c>>][x], j, c, x)
    <3>1. <<j, c>> \in Kinds \X Caches
      OBVIOUS
    <3>2. CASE x \in DOMAIN persistent[<<j, c>>] /\ persistent'[<<j, c>>][x] = persistent[<<j, c>>][x]
      BY <3>2 DEF SInv, CacheTrue
    <3>3. CASE Shares(s) /\ <<j, c>> = LockOf(s, k) /\ x = n /\ persistent'[<<j, c>>][x] = b
      <4>1. j = k /\ c = Plan[s].cache
        BY <3>3 DEF LockOf
      <4>2. Entry(b, k, Plan[s].cache, n)
        BY <1>2, <1>e, OwnEntry
      <4> QED
        BY <3>3, <4>1, <4>2
    <3> QED
      BY <1>h, <3>1, <3>2, <3>3
  <2> QED
    BY <2>1 DEF CacheTrue, Entry, Caches, Real, Placeholder, HostResident
<1>12. LockHeld'
  <2>1. ASSUME NEW r \in Session, NEW j \in Kinds, Opens(r, j)', Shares(r)
        PROVE  lock'[LockOf(r, j)] = r /\ NextName(r, j)' \notin DOMAIN persistent'[LockOf(r, j)]
    <3>1. r # s /\ Opens(r, j) /\ NextName(r, j)' = NextName(r, j)
      BY <1>n, <1>s, <2>1
    <3>2. lock[LockOf(r, j)] = r /\ NextName(r, j) \notin DOMAIN persistent[LockOf(r, j)]
      BY <2>1, <3>1 DEF SInv, LockHeld
    <3>3. LockOf(r, j) \in Locks /\ LockOf(r, j) \in Kinds \X Caches
      BY <2>1, LocksAre
    <3>4. ~ (Shares(s) /\ LockOf(r, j) = LockOf(s, k))
      BY <1>d, <3>1, <3>2
    <3> QED
      BY <1>c, <1>l, <3>1, <3>2, <3>3, <3>4
  <2> QED
    BY <2>1 DEF LockHeld, Shares, LockOf
<1>13. CacheKeeps'
  <2>1. ASSUME NEW q \in Session, NEW r \in Session, Building(q)', Shares(q), Plan[r].cache = Plan[q].cache,
               NEW j \in Kinds, NEW i \in 1..Len(got'[r][j]), Real(r, j, NameAt(r, j, i))
        PROVE  /\ NameAt(r, j, i) \in DOMAIN persistent'[<<j, Plan[r].cache>>]
               /\ persistent'[<<j, Plan[r].cache>>][NameAt(r, j, i)] = got'[r][j][i]
    <3>1. Building(q) /\ <<j, Plan[r].cache>> \in Kinds \X Caches
      BY <1>s, <2>1, LocksAre
    <3>2. CASE i \in 1..Len(got[r][j])
      <4>1. got'[r][j][i] = got[r][j][i]
        BY <1>7, <3>2
      <4>2. /\ NameAt(r, j, i) \in DOMAIN persistent[<<j, Plan[r].cache>>]
            /\ persistent[<<j, Plan[r].cache>>][NameAt(r, j, i)] = got[r][j][i]
        BY <2>1, <3>1, <3>2 DEF SInv, CacheKeeps
      <4> QED
        BY <1>g, <3>1, <4>1, <4>2
    <3>3. CASE i \notin 1..Len(got[r][j])
      <4>1. r = s /\ j = k /\ i = m + 1
        BY <1>2, <1>7, <3>3
      <4>2. Shares(s) /\ LockOf(s, k) = <<k, Plan[s].cache>>
        BY <2>1, <4>1 DEF Shares, LockOf
      <4>3. IsPut(persistent'[<<k, Plan[s].cache>>], persistent[<<k, Plan[s].cache>>], n, b)
        BY <1>c, <3>1, <4>1, <4>2
      <4> QED
        BY <1>2, <1>7, <4>1, <4>3 DEF IsPut
    <3> QED
      BY <3>2, <3>3
  <2> QED
    BY <2>1 DEF CacheKeeps, Real, Placeholder, HostResident, NameAt, Shares
<1>m. /\ DOMAIN mem' = DOMAIN mem /\ \A d \in DOMAIN mem : d # b => mem'[d] = mem[d]
      /\ \A d \in DOMAIN mem : mem'[d].kind = mem[d].kind
      /\ mem'[b] = IF k = "weights" THEN [kind |-> "Cuda", data |-> Plan[s].data[n]] ELSE mem[b]
  <2>1. CASE k = "weights"
    <3>1. mem' = [mem EXCEPT ![b].data = Plan[s].data[n]]
      BY <1>1, <2>1
    <3>2. mem[b] = Holds(b)
      BY <1>b DEF SInv, MemTrue
    <3>3. mem[b] = [kind |-> "Cuda", data |-> Zero]
      BY <1>2, <1>3, <1>b, <2>1, <3>2 DEF Holds, Real
    <3> QED
      BY <1>b, <2>1, <3>1, <3>3
  <2>2. CASE k # "weights"
    BY <1>1, <2>2
  <2> QED
    BY <2>1, <2>2
<1>14. Allocated'
  <2>1. ASSUME NEW x, InCaches(x, persistent') PROVE InCaches(x, persistent) \/ x = b
    <3>1. PICK l \in Kinds \X Caches : \E y \in DOMAIN persistent'[l] : x = persistent'[l][y]
      BY <2>1 DEF InCaches
    <3>2. PICK y \in DOMAIN persistent'[l] : x = persistent'[l][y]
      BY <3>1
    <3> QED
      BY <1>h, <3>2 DEF InCaches
  <2>2. ASSUME NEW x, InCaches(x, persistent) PROVE InCaches(x, persistent')
    BY <1>g, <2>2 DEF InCaches
  <2>3. \A x : x \in HeldBy(got', persistent', Opened') <=> x \in HeldBy(got, persistent, Opened)
    BY <1>7, <1>8, <1>b, <2>1, <2>2, HeldAre
  <2>4. HeldBy(got', persistent', Opened') = HeldBy(got, persistent, Opened)
    BY <2>3, Zenon
  <2> QED
    BY <1>m, <2>4 DEF SInv, Allocated
<1>15. MemTrue'
  <2>1. ASSUME NEW d \in DOMAIN mem' PROVE d \in BufferSet /\ mem'[d] = Holds(d)'
    <3>2. CASE d = b
      <4>1. b \notin Opened'
        BY <1>8
      <4>2. CASE k = "states"
        <5>1. Holds(b)' = Holds(b)
          BY <1>1, <1>3, <4>2 DEF Holds, StateAt
        <5> QED
          BY <1>5, <1>b, <1>m, <3>2, <4>2, <5>1 DEF SInv, MemTrue
      <4>3. CASE k = "weights"
        <5>1. Holds(b)' = [kind |-> "Cuda", data |-> Plan[s].data[n]]
          BY <1>2, <1>3, <4>1, <4>3 DEF Holds, Real
        <5> QED
          BY <1>5, <1>m, <3>2, <4>3, <5>1
      <4> QED
        BY <4>2, <4>3, KindsAre
    <3>3. CASE d # b
      <4>1. Holds(d)' = Holds(d)
        BY <1>1, <1>8, <3>3, HoldsStays
      <4> QED
        BY <1>m, <3>3, <4>1 DEF SInv, MemTrue
    <3> QED
      BY <3>2, <3>3
  <2> QED
    BY <2>1 DEF MemTrue, BufferSet
<1>19. OneCopy'
  BY <1>m DEF SInv, OneCopy
<1>16. Remembered'
  <2>1. ASSUME NEW r \in Session, Shares(r)
        PROVE  DOMAIN persistent[LockOf(r, "states")] \subseteq DOMAIN persistent'[LockOf(r, "states")]
    <3>1. LockOf(r, "states") \in Kinds \X Caches
      BY <2>1, LocksAre, KindsAre
    <3> QED
      BY <1>g, <3>1
  <2> QED
    BY <1>1, <1>s, <2>1, RememberedStays DEF SInv
<1>17. PtrTrue'
  <2>1. \A r \in Session : stage'[r] \in {"built", "running"} =>
                              stage'[r] = stage[r] /\ got'[r]["weights"] = got[r]["weights"]
    BY <1>7, <1>s, KindsAre
  <2> QED
    BY <1>1, <1>s, <2>1, PtrStays DEF SInv
<1>18. OneRuns' /\ StatesContinue'
  BY <1>1, <1>s, RunsStay DEF SInv
<1> QED
  BY <1>7, <1>9, <1>10, <1>11, <1>12, <1>13, <1>14, <1>15, <1>16, <1>17, <1>18, <1>19 DEF SInv

(* A session goes on, with CUDA_LOCK or without. *)
LEMMA GoesOn ==
  ASSUME SInv, NEW s \in Session, NEW to \in {"weights", "built", "running"},
         stage[s] \in {"states", "weights", "built", "running"},
         to = "weights" => stage[s] = "states", AllGot(s, "states"), to # "weights" => AllGot(s, "weights"),
         stage' = [stage EXCEPT ![s] = to], got' = got, persistent' = persistent, DOMAIN mem' = DOMAIN mem,
         lock' \in [Locks -> Session \cup {Free}], \A x \in Locks : x # Cuda => lock'[x] = lock[x]
  PROVE  /\ stage' \in [Session -> {"states", "weights", "built", "running", "dropped", "failed"}
                                  \cup {Filling[k] : k \in Kinds}]
         /\ stage'[s] = to /\ \A r \in Session : r # s => stage'[r] = stage[r]
         /\ \A r \in Session : Building(r)' => Building(r)
         /\ Building(s)' => to = "weights"
         /\ Opened' = Opened
         /\ GotInOrder' /\ GotAll' /\ CacheTrue' /\ LockHeld' /\ CacheKeeps' /\ Allocated'
<1>1. stage \in [Session -> {"states", "weights", "built", "running", "dropped", "failed"}
                            \cup {Filling[k] : k \in Kinds}]
  BY DEF SInv, BuffersTyped
<1>2. stage' \in [Session -> {"states", "weights", "built", "running", "dropped", "failed"}
                             \cup {Filling[k] : k \in Kinds}]
  BY <1>1
<1>3. stage'[s] = to /\ \A r \in Session : r # s => stage'[r] = stage[r]
  BY <1>1
<1>4. \A j \in Kinds : Filling[j] \notin {"states", "weights", "built", "running"}
  BY KindsAre
<1>5. \A r \in Session, j \in Kinds : Opens(r, j)' <=> Opens(r, j)
  BY <1>3, <1>4 DEF Opens
<1>6. ASSUME NEW r \in Session, Building(r)' PROVE Building(r) /\ (r = s => to = "weights")
  <2>1. CASE r # s
    BY <1>3, <1>6, <2>1 DEF Building
  <2>2. CASE r = s
    <3>1. to \in {"states", "weights"} \cup {Filling[k] : k \in Kinds}
      BY <1>3, <1>6, <2>2 DEF Building
    <3>2. to = "weights"
      BY <1>4, <3>1
    <3> QED
      BY <2>2, <3>2 DEF Building
  <2> QED
    BY <2>1, <2>2
<1>7. Opened' = Opened
  BY <1>5, OpenedStays
<1>8. \A r \in Session, j \in Kinds : NextName(r, j)' = NextName(r, j)
  BY DEF NextName
<1>9. GotInOrder'
  BY <1>5, <1>8 DEF SInv, GotInOrder, Real, Placeholder, HostResident, Fitting
<1>10. GotAll'
  <2>1. ASSUME NEW r \in Session
        PROVE  /\ stage'[r] \in {"weights", Filling["weights"], "built", "running"} => AllGot(r, "states")
               /\ stage'[r] \in {"built", "running"} => AllGot(r, "weights")
    BY <1>3 DEF SInv, GotAll
  <2> QED
    BY <2>1 DEF GotAll, AllGot
<1>11. CacheTrue'
  BY DEF SInv, CacheTrue
<1>12. LockHeld'
  <2>1. ASSUME NEW r \in Session, NEW j \in Kinds, Opens(r, j)', Shares(r)
        PROVE  lock'[LockOf(r, j)] = r /\ NextName(r, j) \notin DOMAIN persistent[LockOf(r, j)]
    <3>1. LockOf(r, j) \in Locks /\ LockOf(r, j) # Cuda
      BY <2>1, LocksAre
    <3> QED
      BY <1>5, <2>1, <3>1 DEF SInv, LockHeld
  <2> QED
    BY <1>8, <2>1 DEF LockHeld, Shares, LockOf
<1>13. CacheKeeps'
  BY <1>6 DEF SInv, CacheKeeps
<1>14. Allocated'
  BY <1>7 DEF SInv, Allocated
<1> QED
  BY <1>2, <1>3, <1>6, <1>7, <1>9, <1>10, <1>11, <1>12, <1>13, <1>14

LEMMA LocksTyped ==
  ASSUME SInv, NEW s \in Session, NEW x \in Session \cup {Free}
  PROVE  /\ [lock EXCEPT ![Cuda] = x] \in [Locks -> Session \cup {Free}]
         /\ \A l \in Locks : l # Cuda => [lock EXCEPT ![Cuda] = x][l] = lock[l]
BY DEF SInv, BuffersTyped, Locks

LEMMA AdvanceKeeps ==
  ASSUME SInv, NEW s \in Session, TakeCudaLock(s) \/ Load(s) \/ LoadHybrid(s)
  PROVE  SInv'
<1> DEFINE to == IF stage[s] = "states" THEN "weights" ELSE "built"
<1>1. /\ stage[s] \in {"states", "weights"} /\ stage' = [stage EXCEPT ![s] = to]
      /\ stage[s] = "states" => AllGot(s, "states")
      /\ stage[s] = "weights" => AllGot(s, "weights")
      /\ lock' = [lock EXCEPT ![Cuda] = s] \/ lock' = [lock EXCEPT ![Cuda] = Free]
      /\ ptr' = ptr \/ (to = "built" /\ ptr' = [ptr EXCEPT ![s] = Pointers(s)])
      /\ got' = got /\ persistent' = persistent /\ mem' = mem /\ runs' = runs /\ told' = told /\ last' = last
  BY DEF TakeCudaLock, Load, LoadHybrid
<1>2. AllGot(s, "states")
  BY <1>1 DEF SInv, GotAll
<1>3. to \in {"weights", "built", "running"} /\ (to = "weights" => stage[s] = "states")
      /\ (to # "weights" => AllGot(s, "weights"))
  BY <1>1
<1>4. lock' \in [Locks -> Session \cup {Free}] /\ \A x \in Locks : x # Cuda => lock'[x] = lock[x]
  BY <1>1, LocksTyped
<1> HIDE DEF to
<1>5. /\ stage' \in [Session -> {"states", "weights", "built", "running", "dropped", "failed"}
                               \cup {Filling[k] : k \in Kinds}]
      /\ stage'[s] = to /\ \A r \in Session : r # s => stage'[r] = stage[r]
      /\ \A r \in Session : Building(r)' => Building(r)
      /\ Building(s)' => to = "weights"
      /\ Opened' = Opened
      /\ GotInOrder' /\ GotAll' /\ CacheTrue' /\ LockHeld' /\ CacheKeeps' /\ Allocated'
  <2>1. PICK u : u = to
    OBVIOUS
  <2> QED
    BY <1>1, <1>2, <1>3, <1>4, <2>1, GoesOn
<1>6. BuffersTyped'
  BY <1>1, <1>4, <1>5 DEF SInv, BuffersTyped
<1>7. MemTrue' /\ OneCopy'
  BY <1>1, <1>5, MemStays DEF SInv
<1>8. Remembered'
  BY <1>1, <1>5, RememberedStays DEF SInv
<1>9. PtrTrue'
  <2>1. \A r \in Session : Pointers(r)' = Pointers(r)
    BY <1>1 DEF Pointers
  <2>2. DOMAIN ptr = Session /\ ptr[s] = <<>>
    BY <1>1 DEF SInv, BuffersTyped, PtrTrue, Building
  <2>3. /\ \A r \in Session : r # s => ptr'[r] = ptr[r]
        /\ ptr'[s] = <<>> \/ (to = "built" /\ ptr'[s] = Pointers(s))
    BY <1>1, <2>2
  <2>4. ASSUME NEW r \in Session
        PROVE  /\ Building(r)' => ptr'[r] = <<>>
               /\ stage'[r] = "built" => ptr'[r] \in {<<>>, Pointers(r)}
               /\ stage'[r] = "running" => ptr'[r] = Pointers(r)
    <3>1. CASE r = s
      BY <1>3, <1>5, <2>3, <3>1 DEF to
    <3>2. CASE r # s
      BY <1>5, <2>3, <3>2 DEF SInv, PtrTrue
    <3> QED
      BY <3>1, <3>2
  <2> QED
    BY <2>1, <2>4 DEF PtrTrue
<1>10. OneRuns' /\ StatesContinue'
  <2>1. \A r \in Session : stage'[r] = "running" => stage[r] = "running"
    BY <1>5 DEF to
  <2> QED
    BY <1>1, <2>1, RunsStay DEF SInv
<1> QED
  BY <1>5, <1>6, <1>7, <1>8, <1>9, <1>10 DEF SInv

-----------------------------------------------------------------------------
(* Runs *)

(* The states of a session that is built. *)
LEMMA StateBuffersAre ==
  ASSUME SInv, NEW s \in Session, AllGot(s, "states"), NEW i \in DOMAIN Plan[s].states
  PROVE  /\ StateBuffer(s, i) \in DOMAIN mem /\ Fitting(StateBuffer(s, i), s, "states", i)
         /\ StateBuffer(s, i)[2] = "states" /\ StateBuffer(s, i)[3] = NameAt(s, "states", i)
         /\ Memory(StateBuffer(s, i)[1]) = Memory(s) /\ StateBuffer(s, i)[1] \in Session
         /\ NameAt(s, "states", i) \in NamesOf(s, "states")
         /\ mem[StateBuffer(s, i)] = [kind |-> StateKind(s, NameAt(s, "states", i)),
                                      data |-> StateAt(Memory(s), NameAt(s, "states", i))]
<1>0. "states" \in Kinds /\ Plan[s].states = Plan[s]["states"]
  BY KindsAre
<1>1. PICK b : b = StateBuffer(s, i)
  OBVIOUS
<1>2. got[s]["states"] \in Seq(BufferSet) /\ i \in 1..Len(got[s]["states"])
  BY <1>0, NamesTyped DEF SInv, BuffersTyped, AllGot
<1>3. Fitting(b, s, "states", i)
  BY <1>0, <1>1, <1>2 DEF SInv, GotInOrder, StateBuffer
<1>4. /\ b[1] \in Session /\ b[2] = "states" /\ b[3] = NameAt(s, "states", i)
      /\ b[1] = s \/ (Shares(s) /\ Plan[b[1]].cache = Plan[s].cache)
      /\ Memory(b[1]) = Memory(s)
      /\ NameAt(s, "states", i) \in NamesOf(b[1], "states")
  BY <1>0, <1>3, FittingIs
<1>5. b \in DOMAIN mem
  <2>1. InSessions(b, got)
    BY <1>0, <1>1, <1>2 DEF InSessions, StateBuffer
  <2> QED
    BY <2>1, HeldAre DEF SInv, Allocated
<1>6. NameAt(s, "states", i) \in NamesOf(s, "states")
  BY <1>0 DEF NamesOf
<1>7. StateKind(b[1], NameAt(s, "states", i)) = StateKind(s, NameAt(s, "states", i))
  <2>1. b[1] # s => (NameAt(s, "states", i) \in Plan[b[1]].onCuda <=> NameAt(s, "states", i) \in Plan[s].onCuda)
    BY <1>4, <1>6, SessionsAssumption
  <2> QED
    BY <2>1 DEF StateKind
<1>8. mem[b] = [kind |-> StateKind(s, NameAt(s, "states", i)), data |-> StateAt(Memory(s), NameAt(s, "states", i))]
  <2>1. mem[b] = Holds(b)
    BY <1>5 DEF SInv, MemTrue
  <2> QED
    BY <1>4, <1>7, <2>1 DEF Holds
<1> QED
  BY <1>1, <1>3, <1>4, <1>5, <1>6, <1>8

LEMMA BeginKeeps ==
  ASSUME SInv, NEW s \in Session, Begin(s)
  PROVE  SInv'
<1> DEFINE found == [i \in DOMAIN Plan[s].states |-> mem[StateBuffer(s, i)].data]
<1>a. PICK to \in {"built", "running"} : to = (IF Refused(s) THEN "built" ELSE "running")
  OBVIOUS
<1>1. /\ stage[s] = "built" /\ runs[s] < MaxRuns /\ MyTurn(s)
      /\ lock' = lock \/ lock' = [lock EXCEPT ![Cuda] = s]
      /\ ptr' = IF ptr[s] = <<>> THEN [ptr EXCEPT ![s] = Pointers(s)] ELSE ptr
      /\ runs' = [runs EXCEPT ![s] = @ + 1]
      /\ to = "built" => stage' = stage /\ told' = told
      /\ to = "running" => stage' = [stage EXCEPT ![s] = "running"] /\ told' = [told EXCEPT ![s] = found]
      /\ got' = got /\ persistent' = persistent /\ mem' = mem /\ last' = last
  BY <1>a DEF Begin
<1>2. AllGot(s, "states") /\ AllGot(s, "weights")
  BY <1>1 DEF SInv, GotAll
<1>3. /\ stage \in [Session -> {"states", "weights", "built", "running", "dropped", "failed"}
                              \cup {Filling[k] : k \in Kinds}]
      /\ lock \in [Locks -> Session \cup {Free}] /\ runs \in [Session -> 0..MaxRuns] /\ MaxRuns \in Nat
      /\ DOMAIN ptr = Session /\ DOMAIN told = Session
  BY SessionsAssumption DEF SInv, BuffersTyped
<1>4. lock' \in [Locks -> Session \cup {Free}] /\ \A x \in Locks : x # Cuda => lock'[x] = lock[x]
  BY <1>1, <1>3, LocksTyped
<1>5. stage' = [stage EXCEPT ![s] = to]
  BY <1>1, <1>3
<1>6. /\ stage' \in [Session -> {"states", "weights", "built", "running", "dropped", "failed"}
                               \cup {Filling[k] : k \in Kinds}]
      /\ stage'[s] = to /\ \A r \in Session : r # s => stage'[r] = stage[r]
      /\ \A r \in Session : Building(r)' => Building(r)
      /\ Building(s)' => to = "weights"
      /\ Opened' = Opened
      /\ GotInOrder' /\ GotAll' /\ CacheTrue' /\ LockHeld' /\ CacheKeeps' /\ Allocated'
  BY <1>1, <1>2, <1>4, <1>5, GoesOn
<1>7. BuffersTyped'
  <2>1. runs' \in [Session -> 0..MaxRuns]
    BY <1>1, <1>3
  <2>2. DOMAIN ptr' = Session /\ DOMAIN told' = Session
    BY <1>1, <1>3
  <2> QED
    BY <1>1, <1>4, <1>6, <2>1, <2>2 DEF SInv, BuffersTyped
<1>8. MemTrue' /\ OneCopy'
  BY <1>1, <1>6, MemStays DEF SInv
<1>9. Remembered'
  BY <1>1, <1>6, RememberedStays DEF SInv
<1>10. PtrTrue'
  <2>1. \A r \in Session : Pointers(r)' = Pointers(r)
    BY <1>1 DEF Pointers
  <2>2. ptr[s] \in {<<>>, Pointers(s)}
    BY <1>1 DEF SInv, PtrTrue
  <2>3. ptr'[s] = Pointers(s) /\ \A r \in Session : r # s => ptr'[r] = ptr[r]
    BY <1>1, <1>3, <2>2
  <2>4. ASSUME NEW r \in Session
        PROVE  /\ Building(r)' => ptr'[r] = <<>>
               /\ stage'[r] = "built" => ptr'[r] \in {<<>>, Pointers(r)}
               /\ stage'[r] = "running" => ptr'[r] = Pointers(r)
    <3>1. CASE r = s
      BY <1>6, <2>3, <3>1
    <3>2. CASE r # s
      BY <1>6, <2>3, <3>2 DEF SInv, PtrTrue
    <3> QED
      BY <3>1, <3>2
  <2> QED
    BY <2>1, <2>4 DEF PtrTrue
<1>11. OneRuns'
  <2>1. \A r \in Session : r # s /\ Memory(r) = Memory(s) => stage[r] # "running"
    BY <1>1 DEF MyTurn
  <2> QED
    BY <1>6, <2>1 DEF SInv, OneRuns
<1>12. StatesContinue'
  <2>1. ASSUME NEW r \in Session, stage'[r] = "running", NEW i \in DOMAIN Plan[r].states
        PROVE  told'[r][i] = StateAt(Memory(r), NameAt(r, "states", i))
    <3>1. CASE r = s
      <4>1. told'[s] = found
        BY <1>1, <1>3, <1>6, <2>1, <3>1
      <4>2. told'[s][i] = mem[StateBuffer(s, i)].data
        BY <2>1, <3>1, <4>1
      <4>3. mem[StateBuffer(s, i)].data = StateAt(Memory(s), NameAt(s, "states", i))
        <5>1. mem[StateBuffer(s, i)] = [kind |-> StateKind(s, NameAt(s, "states", i)),
                                        data |-> StateAt(Memory(s), NameAt(s, "states", i))]
          BY <1>2, <2>1, <3>1, StateBuffersAre
        <5> QED
          BY <5>1
      <4> QED
        BY <3>1, <4>2, <4>3
    <3>2. CASE r # s
      <4>1. stage[r] = "running" /\ told'[r] = told[r]
        BY <1>1, <1>3, <1>6, <2>1, <3>2
      <4> QED
        BY <2>1, <4>1 DEF SInv, StatesContinue, StateAt
    <3> QED
      BY <3>1, <3>2
  <2> QED
    BY <1>1, <2>1 DEF StatesContinue, StateAt
<1> QED
  BY <1>6, <1>7, <1>8, <1>9, <1>10, <1>11, <1>12 DEF SInv

LEMMA EndKeeps ==
  ASSUME SInv, NEW s \in Session, End(s)
  PROVE  SInv'
<1> DEFINE Own(b) == \E i \in DOMAIN Plan[s].states : StateBuffer(s, i) = b
<1>w. PICK w : w = <<s, runs[s]>>
  OBVIOUS
<1>1. /\ stage[s] = "running"
      /\ mem' = [b \in DOMAIN mem |-> IF Own(b) THEN [mem[b] EXCEPT !.data = w] ELSE mem[b]]
      /\ last' = [last EXCEPT ![Memory(s)] = [n \in NamesOf(s, "states") \cup DOMAIN last[Memory(s)] |->
                     IF n \in NamesOf(s, "states") THEN w ELSE last[Memory(s)][n]]]
      /\ lock' = lock \/ lock' = [lock EXCEPT ![Cuda] = Free]
      /\ told' = [told EXCEPT ![s] = <<>>]
      /\ stage' = [stage EXCEPT ![s] = "built"]
      /\ got' = got /\ persistent' = persistent /\ ptr' = ptr /\ runs' = runs
  BY <1>w DEF End
<1>2. AllGot(s, "states") /\ AllGot(s, "weights")
  BY <1>1 DEF SInv, GotAll
<1>3. /\ lock \in [Locks -> Session \cup {Free}]
      /\ DOMAIN told = Session /\ DOMAIN last = {Memory(r) : r \in Session}
  BY DEF SInv, BuffersTyped
<1>4. lock' \in [Locks -> Session \cup {Free}] /\ \A x \in Locks : x # Cuda => lock'[x] = lock[x]
  BY <1>1, <1>3, LocksTyped
<1>6. /\ stage' \in [Session -> {"states", "weights", "built", "running", "dropped", "failed"}
                               \cup {Filling[k] : k \in Kinds}]
      /\ stage'[s] = "built" /\ \A r \in Session : r # s => stage'[r] = stage[r]
      /\ \A r \in Session : Building(r)' => Building(r)
      /\ Building(s)' => "built" = "weights"
      /\ Opened' = Opened
      /\ GotInOrder' /\ GotAll' /\ CacheTrue' /\ LockHeld' /\ CacheKeeps' /\ Allocated'
  <2>1. DOMAIN mem' = DOMAIN mem
    BY <1>1
  <2>2. "built" \in {"weights", "built", "running"} /\ stage[s] \in {"states", "weights", "built", "running"}
    BY <1>1
  <2> HIDE DEF Own
  <2> QED
    BY <1>1, <1>2, <1>4, <2>1, <2>2, GoesOn
<1>7. BuffersTyped'
  <2>1. DOMAIN last' = {Memory(r) : r \in Session} /\ DOMAIN told' = Session
    BY <1>1, <1>3
  <2> QED
    BY <1>1, <1>4, <1>6, <2>1 DEF SInv, BuffersTyped
(* What a state was last written, after the run. *)
<1>l. \A r \in Session : \A n :
        StateAt(Memory(r), n)' =
          IF Memory(r) = Memory(s) /\ n \in NamesOf(s, "states") THEN w ELSE StateAt(Memory(r), n)
  <2> TAKE r \in Session
  <2> TAKE n
  <2>1. CASE Memory(r) = Memory(s)
    <3>1. last'[Memory(s)] = [x \in NamesOf(s, "states") \cup DOMAIN last[Memory(s)] |->
                                IF x \in NamesOf(s, "states") THEN w ELSE last[Memory(s)][x]]
      BY <1>1, <1>3
    <3> QED
      BY <2>1, <3>1 DEF StateAt
  <2>2. CASE Memory(r) # Memory(s)
    <3>1. last'[Memory(r)] = last[Memory(r)]
      BY <1>1, <1>3, <2>2
    <3> QED
      BY <2>2, <3>1 DEF StateAt
  <2> QED
    BY <2>1, <2>2
(* The states of that name are the session's buffers, by OneCopy. *)
<1>o. ASSUME NEW b \in DOMAIN mem, b[2] = "states"
      PROVE  Own(b) <=> (Memory(b[1]) = Memory(s) /\ b[3] \in NamesOf(s, "states"))
  <2>1. ASSUME Own(b) PROVE Memory(b[1]) = Memory(s) /\ b[3] \in NamesOf(s, "states")
    <3>1. PICK i \in DOMAIN Plan[s].states : StateBuffer(s, i) = b
      BY <2>1
    <3> QED
      BY <1>2, <3>1, StateBuffersAre
  <2>2. ASSUME Memory(b[1]) = Memory(s), b[3] \in NamesOf(s, "states") PROVE Own(b)
    <3>0. "states" \in Kinds /\ Plan[s].states = Plan[s]["states"] /\ b \in BufferSet
      BY <1>o, KindsAre DEF SInv, MemTrue
    <3>1. PICK i \in DOMAIN Plan[s].states : b[3] = NameAt(s, "states", i)
      BY <2>2, <3>0 DEF NamesOf
    <3>2. PICK d : d = StateBuffer(s, i)
      OBVIOUS
    <3>3. /\ d \in DOMAIN mem /\ Fitting(d, s, "states", i) /\ d[2] = "states" /\ d[3] = NameAt(s, "states", i)
          /\ Memory(d[1]) = Memory(s) /\ d[1] \in Session
          /\ mem[d].kind = StateKind(s, NameAt(s, "states", i))
      <4>1. /\ d \in DOMAIN mem /\ Fitting(d, s, "states", i) /\ d[2] = "states" /\ d[3] = NameAt(s, "states", i)
            /\ Memory(d[1]) = Memory(s) /\ d[1] \in Session
            /\ mem[d] = [kind |-> StateKind(s, NameAt(s, "states", i)),
                         data |-> StateAt(Memory(s), NameAt(s, "states", i))]
        BY <1>2, <3>2, StateBuffersAre
      <4> QED
        BY <4>1
    <3>4. b[1] \in Session
      BY <3>0 DEF BufferSet
    <3>5. mem[b].kind # "Placeholder" /\ mem[d].kind # "Placeholder"
      <4>1. mem[b] = Holds(b)
        BY DEF SInv, MemTrue
      <4>2. mem[b].kind \in {"Cuda", "Host"} /\ mem[d].kind \in {"Cuda", "Host"}
        BY <1>o, <3>3, <4>1 DEF Holds, StateKind
      <4> QED
        BY <4>2
    <3>6. b = d
      <4>1. CASE b[1] # d[1]
        <5>1. Shares(b[1]) /\ Plan[b[1]].cache = Plan[d[1]].cache
          BY <2>2, <3>3, <3>4, <4>1, MemoryIs
        <5> QED
          BY <1>o, <3>1, <3>3, <3>5, <5>1 DEF SInv, OneCopy
      <4>2. CASE b[1] = d[1]
        BY <1>o, <3>0, <3>1, <3>3, <4>2 DEF BufferSet, SInv, MemTrue
      <4> QED
        BY <4>1, <4>2
    <3> QED
      BY <3>2, <3>6
  <2> QED
    BY <2>1, <2>2
<1>m. ASSUME NEW b \in DOMAIN mem
      PROVE  /\ mem'[b].kind = mem[b].kind
             /\ b[2] # "states" => mem'[b] = mem[b]
             /\ b[2] = "states" => mem'[b] = [kind |-> mem[b].kind, data |-> StateAt(Memory(b[1]), b[3])']
  <2>1. mem[b] = Holds(b) /\ b \in BufferSet /\ b[1] \in Session
    BY DEF SInv, MemTrue, BufferSet
  <2>2. mem[b] = [kind |-> mem[b].kind, data |-> mem[b].data]
    BY <2>1 DEF Holds
  <2>3. mem'[b] = IF Own(b) THEN [kind |-> mem[b].kind, data |-> w] ELSE mem[b]
    <3>1. mem'[b] = IF Own(b) THEN [mem[b] EXCEPT !.data = w] ELSE mem[b]
      BY <1>1
    <3>2. PICK u, v : mem[b] = [kind |-> u, data |-> v]
      BY <2>2
    <3>3. [mem[b] EXCEPT !.data = w] = [kind |-> mem[b].kind, data |-> w]
      BY <3>2
    <3> HIDE DEF Own
    <3> QED
      BY <3>1, <3>3
  <2>4. Own(b) => b[2] = "states"
    BY <1>2, StateBuffersAre
  <2> HIDE DEF Own
  <2>5. CASE b[2] # "states"
    BY <2>3, <2>4, <2>5
  <2>6. CASE b[2] = "states"
    <3>1. StateAt(Memory(b[1]), b[3])' = IF Own(b) THEN w ELSE StateAt(Memory(b[1]), b[3])
      BY <1>l, <1>o, <2>1, <2>6
    <3>2. mem[b].data = StateAt(Memory(b[1]), b[3])
      BY <2>1, <2>6 DEF Holds
    <3> QED
      BY <2>2, <2>3, <2>6, <3>1, <3>2
  <2> QED
    BY <2>3, <2>5, <2>6
<1>d. DOMAIN mem' = DOMAIN mem
  BY <1>1
<1> HIDE DEF Own
<1>8. MemTrue'
  <2>1. ASSUME NEW b \in DOMAIN mem' PROVE b \in BufferSet /\ mem'[b] = Holds(b)'
    <3>1. b \in DOMAIN mem /\ mem[b] = Holds(b) /\ b \in BufferSet
      BY <1>d DEF SInv, MemTrue
    <3>2. CASE b[2] = "states"
      <4>1. mem[b].kind = StateKind(b[1], b[3])
        BY <3>1, <3>2 DEF Holds
      <4> QED
        BY <1>m, <3>1, <3>2, <4>1 DEF Holds
    <3>3. CASE b[2] # "states"
      <4>1. Holds(b)' = Holds(b)
        BY <1>6, <3>3 DEF Holds
      <4> QED
        BY <1>m, <3>1, <3>3, <4>1
    <3> QED
      BY <3>2, <3>3
  <2> QED
    BY <2>1 DEF MemTrue, BufferSet
<1>9. OneCopy'
  BY <1>d, <1>m DEF SInv, OneCopy
<1>10. Remembered'
  <2>1. ASSUME NEW r \in Session, Building(r)', NEW n \in DOMAIN last'[Memory(r)]
        PROVE  Shares(r) /\ n \in DOMAIN persistent[LockOf(r, "states")]
    <3>1. Building(r) /\ r # s
      BY <1>6, <2>1
    <3>2. CASE n \in DOMAIN last[Memory(r)]
      BY <3>1, <3>2 DEF SInv, Remembered
    <3>3. CASE n \notin DOMAIN last[Memory(r)]
      <4>1. Memory(r) = Memory(s) /\ n \in NamesOf(s, "states")
        BY <1>1, <1>3, <2>1, <3>3
      <4>2. Shares(r) /\ Shares(s) /\ Plan[r].cache = Plan[s].cache
        BY <3>1, <4>1, MemoryIs
      <4>3. PICK i \in DOMAIN Plan[s]["states"] : n = NameAt(s, "states", i)
        BY <4>1 DEF NamesOf
      <4>4. i \in 1..Len(got[s]["states"]) /\ Real(s, "states", n)
        BY <1>2, <4>3, NamesTyped, KindsAre DEF AllGot, Real
      <4>5. n \in DOMAIN persistent[<<"states", Plan[s].cache>>]
        BY <3>1, <4>2, <4>3, <4>4, KindsAre DEF SInv, CacheKeeps
      <4> QED
        BY <4>2, <4>5 DEF LockOf
    <3> QED
      BY <3>2, <3>3
  <2> QED
    BY <1>1, <2>1 DEF Remembered, Shares, LockOf, Memory
<1>11. PtrTrue'
  <2>1. \A r \in Session : Pointers(r)' = Pointers(r)
    BY <1>1 DEF Pointers
  <2>2. ASSUME NEW r \in Session
        PROVE  /\ Building(r)' => ptr[r] = <<>>
               /\ stage'[r] = "built" => ptr[r] \in {<<>>, Pointers(r)}
               /\ stage'[r] = "running" => ptr[r] = Pointers(r)
    <3>1. CASE r = s
      BY <1>1, <1>6, <3>1 DEF SInv, PtrTrue
    <3>2. CASE r # s
      BY <1>6, <3>2 DEF SInv, PtrTrue
    <3> QED
      BY <3>1, <3>2
  <2> QED
    BY <1>1, <2>1, <2>2 DEF PtrTrue
<1>12. OneRuns'
  BY <1>6 DEF SInv, OneRuns
<1>13. StatesContinue'
  <2>1. ASSUME NEW r \in Session, stage'[r] = "running", NEW i \in DOMAIN Plan[r].states
        PROVE  told'[r][i] = StateAt(Memory(r), NameAt(r, "states", i))'
    <3>1. r # s /\ stage[r] = "running"
      BY <1>6, <2>1
    <3>2. Memory(r) # Memory(s)
      BY <1>1, <3>1 DEF SInv, OneRuns
    <3>3. told'[r] = told[r]
      BY <1>1, <1>3, <3>1
    <3>4. told[r][i] = StateAt(Memory(r), NameAt(r, "states", i))
      BY <2>1, <3>1 DEF SInv, StatesContinue, StateAt
    <3> QED
      BY <1>l, <3>2, <3>3, <3>4
  <2> QED
    BY <2>1 DEF StatesContinue, StateAt
<1> QED
  BY <1>6, <1>7, <1>8, <1>9, <1>10, <1>11, <1>12, <1>13 DEF SInv

-----------------------------------------------------------------------------
(* Ends *)

HeldElsewhere(b, s) ==
  \E r \in Session \ {s}, k \in Kinds : \E i \in DOMAIN got[r][k] : b = got[r][k][i]

(* A session lets its buffers go: what it leaves of the table is in order. *)
LEMMA LeftAre ==
  ASSUME SInv, NEW s \in Session, got' = [got EXCEPT ![s] = Nothing],
         stage'[s] \in {"failed", "dropped"}, \A r \in Session : r # s => stage'[r] = stage[r],
         stage' \in [Session -> {"states", "weights", "built", "running", "dropped", "failed"}
                                \cup {Filling[k] : k \in Kinds}]
  PROVE  /\ got' \in [Session -> [Kinds -> Seq(BufferSet)]]
         /\ \A r \in Session : r # s => got'[r] = got[r]
         /\ \A k \in Kinds : got'[s][k] = <<>>
         /\ \A b : InSessions(b, got') <=> HeldElsewhere(b, s)
         /\ \A r \in Session, k \in Kinds : Opens(r, k)' <=> (Opens(r, k) /\ r # s)
         /\ \A r \in Session : Building(r)' => Building(r) /\ r # s
         /\ \A r \in Session, k \in Kinds : r # s => NextName(r, k)' = NextName(r, k)
         /\ GotInOrder' /\ GotAll'
<1>0. got \in [Session -> [Kinds -> Seq(BufferSet)]]
  BY DEF SInv, BuffersTyped
<1>1. /\ \A r \in Session : r # s => got'[r] = got[r]
      /\ got'[s] = Nothing /\ \A k \in Kinds : got'[s][k] = <<>>
  BY <1>0 DEF Nothing
<1>2. got' \in [Session -> [Kinds -> Seq(BufferSet)]]
  BY <1>0 DEF Nothing
<1>3. \A j \in Kinds : Filling[j] \notin {"failed", "dropped"}
  BY KindsAre
<1>4. \A r \in Session, k \in Kinds : Opens(r, k)' <=> (Opens(r, k) /\ r # s)
  BY <1>3 DEF Opens
<1>5. \A r \in Session : Building(r)' => Building(r) /\ r # s
  BY <1>3 DEF Building
<1>6. \A r \in Session, k \in Kinds : r # s => NextName(r, k)' = NextName(r, k)
  BY <1>1 DEF NextName
<1>7. ASSUME NEW b
      PROVE  InSessions(b, got') <=> HeldElsewhere(b, s)
  <2>1. ASSUME InSessions(b, got')
        PROVE  HeldElsewhere(b, s)
    <3>1. PICK r \in Session, k \in Kinds : \E i \in DOMAIN got'[r][k] : b = got'[r][k][i]
      BY <2>1 DEF InSessions
    <3>2. r # s
      BY <1>1, <3>1
    <3> QED
      BY <1>1, <3>1, <3>2 DEF HeldElsewhere
  <2>2. ASSUME NEW r \in Session \ {s}, NEW k \in Kinds, NEW i \in DOMAIN got[r][k], b = got[r][k][i]
        PROVE  InSessions(b, got')
    <3>1. got'[r][k] = got[r][k]
      BY <1>1
    <3> QED
      BY <2>2, <3>1 DEF InSessions
  <2> QED
    BY <2>1, <2>2 DEF HeldElsewhere
<1>8. GotInOrder'
  <2>1. ASSUME NEW r \in Session, NEW k \in Kinds
        PROVE  /\ Len(got'[r][k]) <= Len(Plan[r][k])
               /\ Opens(r, k)' => Len(got'[r][k]) < Len(Plan[r][k]) /\ Real(r, k, NextName(r, k)')
               /\ \A i \in 1..Len(got'[r][k]) : Fitting(got'[r][k][i], r, k, i)
    <3>1. CASE r = s
      <4>1. Len(got'[r][k]) = 0
        BY <1>1, <3>1
      <4> QED
        BY <1>4, <3>1, <4>1, NamesTyped
    <3>2. CASE r # s
      <4>1. got'[r][k] = got[r][k] /\ NextName(r, k)' = NextName(r, k)
        BY <1>1, <1>6, <3>2
      <4> QED
        BY <1>4, <4>1 DEF SInv, GotInOrder
    <3> QED
      BY <3>1, <3>2
  <2> QED
    BY <2>1 DEF GotInOrder, Real, Placeholder, HostResident, Fitting
<1>9. GotAll'
  <2>1. ASSUME NEW r \in Session
        PROVE  /\ stage'[r] \in {"weights", Filling["weights"], "built", "running"} => AllGot(r, "states")'
               /\ stage'[r] \in {"built", "running"} => AllGot(r, "weights")'
    <3>1. CASE r = s
      BY <3>1, KindsAre
    <3>2. CASE r # s
      <4>1. stage'[r] = stage[r] /\ got'[r] = got[r]
        BY <1>1, <3>2
      <4> QED
        BY <4>1 DEF SInv, GotAll, AllGot
    <3> QED
      BY <3>1, <3>2
  <2> QED
    BY <2>1 DEF GotAll
<1> QED
  BY <1>1, <1>2, <1>4, <1>5, <1>6, <1>7, <1>8, <1>9

(* ... and so are the caches and what stays in memory. *)
LEMMA LeavesKeep ==
  ASSUME SInv, NEW s \in Session, got' = [got EXCEPT ![s] = Nothing],
         stage'[s] \in {"failed", "dropped"}, \A r \in Session : r # s => stage'[r] = stage[r],
         stage' \in [Session -> {"states", "weights", "built", "running", "dropped", "failed"}
                                \cup {Filling[k] : k \in Kinds}],
         persistent' = persistent, runs' = runs, told' = told, last' = last,
         DOMAIN ptr' = Session, \A r \in Session : r # s => ptr'[r] = ptr[r],
         lock' \in [Locks -> Session \cup {Free}], \A x \in Locks : lock[x] # s => lock'[x] = lock[x],
         Opened' \subseteq Opened, mem' = Kept(mem, got', persistent, Opened')
  PROVE  SInv'
<1>1. /\ got' \in [Session -> [Kinds -> Seq(BufferSet)]]
      /\ \A r \in Session : r # s => got'[r] = got[r]
      /\ \A k \in Kinds : got'[s][k] = <<>>
      /\ \A b : InSessions(b, got') <=> HeldElsewhere(b, s)
      /\ \A r \in Session, k \in Kinds : Opens(r, k)' <=> (Opens(r, k) /\ r # s)
      /\ \A r \in Session : Building(r)' => Building(r) /\ r # s
      /\ \A r \in Session, k \in Kinds : r # s => NextName(r, k)' = NextName(r, k)
      /\ GotInOrder' /\ GotAll'
  BY LeftAre
<1>2. BuffersTyped'
  BY <1>1 DEF SInv, BuffersTyped
<1>3. CacheTrue'
  BY DEF SInv, CacheTrue
<1>4. LockHeld'
  <2>1. ASSUME NEW r \in Session, NEW j \in Kinds, Opens(r, j)', Shares(r)
        PROVE  lock'[LockOf(r, j)] = r /\ NextName(r, j)' \notin DOMAIN persistent[LockOf(r, j)]
    <3>1. r # s /\ Opens(r, j) /\ NextName(r, j)' = NextName(r, j)
      BY <1>1, <2>1
    <3>2. lock[LockOf(r, j)] = r /\ NextName(r, j) \notin DOMAIN persistent[LockOf(r, j)]
      BY <2>1, <3>1 DEF SInv, LockHeld
    <3>3. LockOf(r, j) \in Locks
      BY <2>1, LocksAre
    <3> QED
      BY <3>1, <3>2, <3>3
  <2> QED
    BY <2>1 DEF LockHeld, Shares, LockOf
<1>5. CacheKeeps'
  <2>1. ASSUME NEW q \in Session, NEW r \in Session, Building(q)', Shares(q), Plan[r].cache = Plan[q].cache,
               NEW j \in Kinds, NEW i \in 1..Len(got'[r][j]), Real(r, j, NameAt(r, j, i))
        PROVE  /\ NameAt(r, j, i) \in DOMAIN persistent'[<<j, Plan[r].cache>>]
               /\ persistent'[<<j, Plan[r].cache>>][NameAt(r, j, i)] = got'[r][j][i]
    <3>1. Building(q) /\ (r = s => i \in 1..0)
      BY <1>1, <2>1
    <3>2. r # s /\ got'[r] = got[r]
      BY <1>1, <3>1
    <3> QED
      BY <2>1, <3>1, <3>2 DEF SInv, CacheKeeps
  <2> QED
    BY <2>1, CacheKeepsOn
<1>6. /\ DOMAIN mem' = HeldBy(got', persistent, Opened') /\ DOMAIN mem' \subseteq DOMAIN mem
      /\ \A b \in DOMAIN mem' : mem'[b] = mem[b]
  <2>1. DOMAIN mem = HeldBy(got, persistent, Opened)
    BY DEF SInv, Allocated
  <2>2. \A b : InSessions(b, got') => InSessions(b, got)
    BY <1>1 DEF InSessions
  <2>3. KeptIs(mem, got', persistent, Opened')
    BY <2>1, <2>2, KeptIsHeld
  <2> QED
    BY <2>3 DEF KeptIs
<1>7. Allocated'
  BY <1>6 DEF Allocated
(* What s had opened is in nobody's hands. *)
<1>8. ASSUME NEW b \in DOMAIN mem' PROVE b \in Opened' <=> b \in Opened
  <2>1. SUFFICES ASSUME b \in Opened, b \notin Opened' PROVE FALSE
    OBVIOUS
  <2>2. PICK r \in Session, k \in Kinds : Opens(r, k) /\ b = Buffer(r, k, NextName(r, k))
    BY <2>1, OpenedAre DEF Openers
  <2>3. r = s
    <3>1. ASSUME r # s PROVE FALSE
      <4>1. Opens(r, k)' /\ b = Buffer(r, k, NextName(r, k)')
        BY <1>1, <2>2, <3>1
      <4>2. Openers(b)'
        BY <4>1 DEF Openers, Buffer
      <4> QED
        BY <2>1, <4>2, OpenedAre
    <3> QED
      BY <3>1
  <2>4. PICK n : n = NextName(s, k)
    OBVIOUS
  <2>5. b[1] = s /\ b[2] = k /\ b[3] = n /\ Opens(s, k) /\ Building(s)
    BY <2>2, <2>3, <2>4, StagesApart DEF Buffer
  <2>6. Shares(s) => n \notin DOMAIN persistent[LockOf(s, k)]
    BY <2>4, <2>5 DEF SInv, LockHeld
  <2>7. Real(s, k, n)
    BY <2>4, <2>5 DEF SInv, GotInOrder
  <2>8. ASSUME InSessions(b, got') PROVE FALSE
    <3>0. HeldElsewhere(b, s)
      BY <1>1, <2>8
    <3>1. PICK q \in Session \ {s}, j \in Kinds : \E i \in DOMAIN got[q][j] : b = got[q][j][i]
      BY <3>0 DEF HeldElsewhere
    <3>2. PICK i \in DOMAIN got[q][j] : b = got[q][j][i]
      BY <3>1
    <3>3. got[q][j] \in Seq(BufferSet) /\ i \in 1..Len(got[q][j])
      BY <3>2 DEF SInv, BuffersTyped
    <3>4. Fitting(b, q, j, i)
      BY <3>2, <3>3 DEF SInv, GotInOrder
    <3>5. /\ b[1] = q \/ (Shares(q) /\ Plan[b[1]].cache = Plan[q].cache)
          /\ b[2] = j /\ b[3] = NameAt(q, j, i)
          /\ Real(q, j, NameAt(q, j, i)) <=> Real(b[1], j, NameAt(q, j, i))
      BY <3>4, FittingIs
    <3>6. /\ Shares(s) /\ Plan[q].cache = Plan[s].cache /\ j = k /\ NameAt(q, k, i) = n /\ Real(q, k, n)
          /\ LockOf(s, k) = <<k, Plan[s].cache>>
      BY <2>5, <2>7, <3>5 DEF Shares, LockOf
    <3> QED
      BY <2>5, <2>6, <3>3, <3>6 DEF SInv, CacheKeeps
  <2>9. ASSUME InCaches(b, persistent) PROVE FALSE
    <3>1. PICK l \in Kinds \X Caches : \E x \in DOMAIN persistent[l] : b = persistent[l][x]
      BY <2>9 DEF InCaches
    <3>2. PICK x \in DOMAIN persistent[l] : b = persistent[l][x]
      BY <3>1
    <3>3. PICK j \in Kinds, c \in Caches : l = <<j, c>>
      BY <3>1
    <3>4. Entry(b, j, c, x)
      BY <3>2, <3>3 DEF SInv, CacheTrue
    <3>5. b[2] = j /\ b[3] = x /\ Plan[b[1]].cache = c /\ Shares(b[1])
      BY <3>4, EntryIs
    <3> QED
      BY <2>5, <2>6, <3>2, <3>3, <3>5 DEF LockOf
  <2> QED
    BY <1>6, <2>1, <2>8, <2>9, HeldAre
<1>9. MemTrue' /\ OneCopy'
  BY <1>6, <1>8, MemStays DEF SInv
<1>10. Remembered'
  BY <1>1, RememberedStays DEF SInv
<1>11. PtrTrue'
  <2>1. ASSUME NEW r \in Session
        PROVE  /\ Building(r)' => ptr'[r] = <<>>
               /\ stage'[r] = "built" => ptr'[r] \in {<<>>, Pointers(r)'}
               /\ stage'[r] = "running" => ptr'[r] = Pointers(r)'
    <3>1. CASE r = s
      BY <1>1, <3>1
    <3>2. CASE r # s
      <4>1. Pointers(r)' = Pointers(r)
        BY <1>1, <3>2 DEF Pointers
      <4> QED
        BY <1>1, <3>2, <4>1 DEF SInv, PtrTrue
    <3> QED
      BY <3>1, <3>2
  <2> QED
    BY <2>1 DEF PtrTrue
<1>12. OneRuns' /\ StatesContinue'
  BY RunsStay DEF SInv
<1> QED
  BY <1>1, <1>2, <1>3, <1>4, <1>5, <1>7, <1>9, <1>10, <1>11, <1>12 DEF SInv

LEMMA DropKeeps ==
  ASSUME SInv, NEW s \in Session, Drop(s)
  PROVE  SInv'
<1>1. /\ stage[s] = "built" /\ stage' = [stage EXCEPT ![s] = "dropped"]
      /\ got' = [got EXCEPT ![s] = Nothing] /\ ptr' = [ptr EXCEPT ![s] = <<>>]
      /\ mem' = Kept(mem, got', persistent, Opened)
      /\ lock' = lock /\ persistent' = persistent /\ runs' = runs /\ told' = told /\ last' = last
  BY DEF Drop, Survivors
<1>2. /\ stage \in [Session -> {"states", "weights", "built", "running", "dropped", "failed"}
                              \cup {Filling[k] : k \in Kinds}]
      /\ lock \in [Locks -> Session \cup {Free}] /\ DOMAIN ptr = Session
  BY DEF SInv, BuffersTyped
<1>3. /\ stage'[s] = "dropped" /\ \A r \in Session : r # s => stage'[r] = stage[r]
      /\ stage' \in [Session -> {"states", "weights", "built", "running", "dropped", "failed"}
                                \cup {Filling[k] : k \in Kinds}]
      /\ DOMAIN ptr' = Session /\ \A r \in Session : r # s => ptr'[r] = ptr[r]
  BY <1>1, <1>2
<1>4. /\ \A r \in Session, k \in Kinds : Opens(r, k)' <=> (Opens(r, k) /\ r # s)
      /\ \A r \in Session : r # s => got'[r] = got[r]
  BY <1>1, <1>3, LeftAre
<1>5. \A k \in Kinds : ~ Opens(s, k)
  BY <1>1, KindsAre DEF Opens
<1>6. Opened' = Opened
  BY <1>4, <1>5, OpenedStays
<1> QED
  BY <1>1, <1>2, <1>3, <1>6, LeavesKeep

LEMMA FailKeeps ==
  ASSUME SInv, NEW s \in Session, Fail(s)
  PROVE  SInv'
<1>1. /\ stage' = [stage EXCEPT ![s] = "failed"]
      /\ got' = [got EXCEPT ![s] = Nothing] /\ lock' = Unlocked(s)
      /\ mem' = Kept(mem, got', persistent, {b \in Opened : b[1] # s})
      /\ ptr' = ptr /\ persistent' = persistent /\ runs' = runs /\ told' = told /\ last' = last
  BY DEF Fail
<1>2. /\ stage \in [Session -> {"states", "weights", "built", "running", "dropped", "failed"}
                              \cup {Filling[k] : k \in Kinds}]
      /\ lock \in [Locks -> Session \cup {Free}] /\ DOMAIN ptr = Session
  BY DEF SInv, BuffersTyped
<1>3. /\ stage'[s] = "failed" /\ \A r \in Session : r # s => stage'[r] = stage[r]
      /\ stage' \in [Session -> {"states", "weights", "built", "running", "dropped", "failed"}
                                \cup {Filling[k] : k \in Kinds}]
  BY <1>1, <1>2
<1>4. lock' \in [Locks -> Session \cup {Free}] /\ \A x \in Locks : lock[x] # s => lock'[x] = lock[x]
  BY <1>1, <1>2 DEF Unlocked
<1>5. /\ \A r \in Session, k \in Kinds : Opens(r, k)' <=> (Opens(r, k) /\ r # s)
      /\ \A r \in Session, k \in Kinds : r # s => NextName(r, k)' = NextName(r, k)
  BY <1>1, <1>3, LeftAre
<1>6. \A b : b \in Opened' <=> (b \in Opened /\ b[1] # s)
  <2>1. ASSUME NEW b, Openers(b)' PROVE Openers(b) /\ b[1] # s
    <3>1. PICK r \in Session, k \in Kinds : Opens(r, k)' /\ b = Buffer(r, k, NextName(r, k)')
      BY <2>1 DEF Openers, Buffer
    <3>2. r # s /\ Opens(r, k) /\ b = Buffer(r, k, NextName(r, k)) /\ b[1] = r
      BY <1>5, <3>1 DEF Buffer
    <3> QED
      BY <3>2 DEF Openers
  <2>2. ASSUME NEW b, Openers(b), b[1] # s PROVE Openers(b)'
    <3>1. PICK r \in Session, k \in Kinds : Opens(r, k) /\ b = Buffer(r, k, NextName(r, k))
      BY <2>2 DEF Openers
    <3>2. r # s
      BY <2>2, <3>1 DEF Buffer
    <3>3. Opens(r, k)' /\ b = Buffer(r, k, NextName(r, k)')
      BY <1>5, <3>1, <3>2
    <3> QED
      BY <3>3 DEF Openers, Buffer
  <2> QED
    BY <2>1, <2>2, OpenedAre
<1>7. Opened' = {b \in Opened : b[1] # s}
  BY <1>6, Zenon
<1>8. Opened' \subseteq Opened /\ mem' = Kept(mem, got', persistent, Opened')
  BY <1>1, <1>7
<1> QED
  BY <1>1, <1>2, <1>3, <1>4, <1>8, LeavesKeep

LEMMA DropCachesKeeps ==
  ASSUME SInv, NEW c \in Caches, DropCaches(c)
  PROVE  SInv'
<1>1. /\ \A s \in Session : Plan[s].cache = c => stage[s] \in {"built", "running", "dropped", "failed"}
      /\ persistent' = [l \in Kinds \X Caches |-> IF l[2] = c THEN <<>> ELSE persistent[l]]
      /\ mem' = Kept(mem, got, persistent', Opened)
      /\ stage' = stage /\ lock' = lock /\ got' = got /\ ptr' = ptr
      /\ runs' = runs /\ told' = told /\ last' = last
  BY DEF DropCaches
<1>2. \A r \in Session, j \in Kinds : Opens(r, j)' <=> Opens(r, j)
  BY <1>1 DEF Opens
<1>3. Opened' = Opened
  BY <1>1, <1>2, OpenedStays
<1>4. \A l \in Kinds \X Caches : /\ l[2] = c => DOMAIN persistent'[l] = {}
                                 /\ l[2] # c => persistent'[l] = persistent[l]
  BY <1>1
<1>5. \A s \in Session : Building(s) => Plan[s].cache # c
  BY <1>1, KindsAre DEF Building
<1>6. \A s \in Session, k \in Kinds : Shares(s) /\ Plan[s].cache # c =>
        persistent'[<<k, Plan[s].cache>>] = persistent[<<k, Plan[s].cache>>]
  <2> TAKE s \in Session, k \in Kinds
  <2>1. Shares(s) => <<k, Plan[s].cache>> \in Kinds \X Caches
    BY LocksAre
  <2> QED
    BY <1>4, <2>1
<1>7. BuffersTyped'
  <2>1. DOMAIN persistent' = Kinds \X Caches /\ persistent' = [l \in Kinds \X Caches |-> persistent'[l]]
    BY <1>1
  <2> QED
    BY <1>1, <2>1 DEF SInv, BuffersTyped
<1>n. \A r \in Session, j \in Kinds : NextName(r, j)' = NextName(r, j)
  BY <1>1 DEF NextName
<1>8. GotInOrder'
  BY <1>1, <1>2, <1>n DEF SInv, GotInOrder, Real, Placeholder, HostResident, Fitting
<1>9. GotAll'
  BY <1>1 DEF SInv, GotAll, AllGot
<1>10. CacheTrue'
  <2>1. ASSUME NEW j \in Kinds, NEW d \in Caches, NEW x \in DOMAIN persistent'[<<j, d>>]
        PROVE  Entry(persistent'[<<j, d>>][x], j, d, x)
    <3>1. d # c /\ persistent'[<<j, d>>] = persistent[<<j, d>>]
      BY <1>4, <2>1
    <3> QED
      BY <3>1 DEF SInv, CacheTrue
  <2> QED
    BY <2>1 DEF CacheTrue, Entry, Caches, Real, Placeholder, HostResident
<1>11. LockHeld'
  <2>1. ASSUME NEW r \in Session, NEW j \in Kinds, Opens(r, j), Shares(r)
        PROVE  lock[LockOf(r, j)] = r /\ NextName(r, j) \notin DOMAIN persistent'[LockOf(r, j)]
    <3>1. Building(r)
      BY <2>1, StagesApart
    <3>2. persistent'[LockOf(r, j)] = persistent[LockOf(r, j)]
      BY <1>5, <1>6, <2>1, <3>1 DEF LockOf
    <3> QED
      BY <2>1, <3>2 DEF SInv, LockHeld
  <2> QED
    BY <1>1, <1>2, <1>n, <2>1 DEF LockHeld, Shares, LockOf
<1>12. CacheKeeps'
  <2>1. ASSUME NEW q \in Session, NEW r \in Session, Building(q)', Shares(q), Plan[r].cache = Plan[q].cache,
               NEW j \in Kinds, NEW i \in 1..Len(got'[r][j]), Real(r, j, NameAt(r, j, i))
        PROVE  /\ NameAt(r, j, i) \in DOMAIN persistent'[<<j, Plan[r].cache>>]
               /\ persistent'[<<j, Plan[r].cache>>][NameAt(r, j, i)] = got'[r][j][i]
    <3>1. Building(q)
      BY <1>1, <2>1 DEF Building
    <3>2. persistent'[<<j, Plan[r].cache>>] = persistent[<<j, Plan[r].cache>>]
      BY <1>5, <1>6, <2>1, <3>1
    <3> QED
      BY <1>1, <2>1, <3>1, <3>2 DEF SInv, CacheKeeps
  <2> QED
    BY <2>1, CacheKeepsOn
<1>13. /\ DOMAIN mem' = HeldBy(got, persistent', Opened) /\ DOMAIN mem' \subseteq DOMAIN mem
       /\ \A b \in DOMAIN mem' : mem'[b] = mem[b]
  <2>1. DOMAIN mem = HeldBy(got, persistent, Opened)
    BY DEF SInv, Allocated
  <2>2. ASSUME NEW b, InCaches(b, persistent') PROVE InCaches(b, persistent)
    <3>1. PICK l \in Kinds \X Caches : \E x \in DOMAIN persistent'[l] : b = persistent'[l][x]
      BY <2>2 DEF InCaches
    <3>2. persistent'[l] = persistent[l]
      BY <1>4, <3>1
    <3> QED
      BY <3>1, <3>2 DEF InCaches
  <2>3. KeptIs(mem, got, persistent', Opened)
    BY <2>1, <2>2, KeptIsHeld
  <2> QED
    BY <1>1, <2>3 DEF KeptIs
<1>14. Allocated'
  BY <1>1, <1>3, <1>13 DEF Allocated
<1>15. MemTrue' /\ OneCopy'
  BY <1>1, <1>3, <1>13, MemStays DEF SInv
<1>16. Remembered'
  <2>1. \A r \in Session : Building(r)' => Building(r)
    BY <1>1 DEF Building
  <2>2. ASSUME NEW r \in Session, Building(r)', Shares(r)
        PROVE  persistent'[LockOf(r, "states")] = persistent[LockOf(r, "states")]
    BY <1>5, <1>6, <2>1, <2>2, KindsAre DEF LockOf
  <2> QED
    BY <1>1, <2>1, <2>2, RememberedStays DEF SInv
<1>17. PtrTrue'
  BY <1>1, PtrStays DEF SInv, Building
<1>18. OneRuns' /\ StatesContinue'
  BY <1>1, RunsStay DEF SInv
<1> QED
  BY <1>7, <1>8, <1>9, <1>10, <1>11, <1>12, <1>14, <1>15, <1>16, <1>17, <1>18 DEF SInv

-----------------------------------------------------------------------------
(* The invariant *)

LEMMA NothingSteps ==
  ASSUME SInv, UNCHANGED svars
  PROVE  SInv'
<1>1. /\ stage' = stage /\ lock' = lock /\ persistent' = persistent /\ mem' = mem /\ got' = got
      /\ ptr' = ptr /\ runs' = runs /\ told' = told /\ last' = last
  BY DEF svars
<1>2. \A r \in Session, j \in Kinds : Opens(r, j)' <=> Opens(r, j)
  BY <1>1 DEF Opens
<1>3. Opened' = Opened
  BY <1>1, <1>2, OpenedStays
<1>4. \A r \in Session, j \in Kinds : NextName(r, j)' = NextName(r, j)
  BY <1>1 DEF NextName
<1>5. BuffersTyped' /\ GotAll' /\ CacheTrue' /\ Allocated' /\ CacheKeeps'
  BY <1>1, <1>3 DEF SInv, BuffersTyped, GotAll, AllGot, CacheTrue, Allocated, CacheKeeps, Building
<1>6. GotInOrder'
  BY <1>1, <1>2, <1>4 DEF SInv, GotInOrder, Real, Placeholder, HostResident, Fitting
<1>7. LockHeld'
  BY <1>1, <1>2, <1>4 DEF SInv, LockHeld, Shares, LockOf
<1>8. MemTrue' /\ OneCopy'
  BY <1>1, <1>3, MemStays DEF SInv
<1>9. Remembered'
  BY <1>1, RememberedStays DEF SInv, Building
<1>10. PtrTrue'
  BY <1>1, PtrStays DEF SInv, Building
<1>11. OneRuns' /\ StatesContinue'
  BY <1>1, RunsStay DEF SInv
<1> QED
  BY <1>5, <1>6, <1>7, <1>8, <1>9, <1>10, <1>11 DEF SInv

LEMMA SInitHolds ==
  ASSUME SInit
  PROVE  SInv
<1>1. /\ stage = [s \in Session |-> "states"] /\ lock = [l \in Locks |-> Free]
      /\ persistent = [l \in Kinds \X Caches |-> <<>>] /\ mem = <<>>
      /\ got = [s \in Session |-> Nothing] /\ ptr = [s \in Session |-> <<>>]
      /\ runs = [s \in Session |-> 0] /\ told = [s \in Session |-> <<>>]
      /\ last = [m \in {Memory(s) : s \in Session} |-> <<>>]
  BY DEF SInit
<1>2. \A s \in Session, k \in Kinds : got[s][k] = <<>> /\ Len(got[s][k]) = 0 /\ DOMAIN got[s][k] = {}
  BY <1>1 DEF Nothing
<1>3. \A s \in Session, k \in Kinds : ~ Opens(s, k)
  BY <1>1, KindsAre DEF Opens
<1>4. DOMAIN mem = {}
  BY <1>1
<1>5. BuffersTyped
  <2>1. got \in [Session -> [Kinds -> Seq(BufferSet)]]
    BY <1>1 DEF Nothing
  <2> QED
    BY <1>1, <2>1, SessionsAssumption DEF BuffersTyped
<1>6. GotInOrder
  BY <1>2, <1>3, NamesTyped DEF GotInOrder
<1>7. GotAll /\ LockHeld /\ CacheTrue /\ CacheKeeps
  <2>1. GotAll
    <3>1. \A s \in Session : stage[s] = "states"
      BY <1>1
    <3> QED
      BY <3>1, KindsAre DEF GotAll
  <2>2. LockHeld
    BY <1>3 DEF LockHeld
  <2>3. CacheTrue
    <3>1. \A k \in Kinds, c \in Caches : persistent[<<k, c>>] = <<>>
      BY <1>1
    <3>2. DOMAIN <<>> = {}
      OBVIOUS
    <3>3. \A k \in Kinds, c \in Caches : DOMAIN persistent[<<k, c>>] = {}
      BY <3>1, <3>2, Zenon
    <3> QED
      BY <3>3 DEF CacheTrue
  <2>4. CacheKeeps
    <3>1. \A r \in Session, k \in Kinds : 1..Len(got[r][k]) = {}
      BY <1>2
    <3> QED
      BY <3>1 DEF CacheKeeps
  <2> QED
    BY <2>1, <2>2, <2>3, <2>4
<1>8. Allocated
  <2>1. \A b : ~ (b \in Opened)
    BY <1>3, OpenedAre DEF Openers
  <2>2. \A b : ~ InSessions(b, got) /\ ~ InCaches(b, persistent)
    BY <1>1, <1>2 DEF InSessions, InCaches
  <2>3. \A b : b \notin HeldBy(got, persistent, Opened)
    BY <2>1, <2>2, HeldAre
  <2> QED
    BY <1>4, <2>3 DEF Allocated
<1>9. MemTrue /\ OneCopy
  BY <1>4 DEF MemTrue, OneCopy
<1>10. Remembered /\ PtrTrue /\ OneRuns /\ StatesContinue
  BY <1>1 DEF Remembered, PtrTrue, OneRuns, StatesContinue
<1> QED
  BY <1>5, <1>6, <1>7, <1>8, <1>9, <1>10 DEF SInv

(* Whoever builds, runs, fails or ends when, the table of buffers, the       *)
(* caches and the locks agree (get_or_insert_with, SessionCUDA::new,         *)
(* build_cuda_state, run, drop).                                             *)
THEOREM BuffersInvariant == SSpec => []SInv
<1>1. SInit => SInv
  BY SInitHolds
<1>2. SInv /\ [SNext]_svars => SInv'
  <2> SUFFICES ASSUME SInv, [SNext]_svars PROVE SInv'
    OBVIOUS
  <2>1. ASSUME NEW s \in Session, NEW k \in Kinds, Hit(s, k) PROVE SInv'
    BY <2>1, HitKeeps
  <2>2. ASSUME NEW s \in Session, NEW k \in Kinds, Allocate(s, k) PROVE SInv'
    BY <2>2, AllocateKeeps
  <2>3. ASSUME NEW s \in Session, NEW k \in Kinds, Fill(s, k) PROVE SInv'
    BY <2>3, FillKeeps
  <2>4. ASSUME NEW s \in Session, Skip(s) PROVE SInv'
    BY <2>4, SkipKeeps
  <2>5. ASSUME NEW s \in Session, TakeCudaLock(s) \/ Load(s) \/ LoadHybrid(s) PROVE SInv'
    BY <2>5, AdvanceKeeps
  <2>6. ASSUME NEW s \in Session, Begin(s) PROVE SInv'
    BY <2>6, BeginKeeps
  <2>7. ASSUME NEW s \in Session, End(s) PROVE SInv'
    BY <2>7, EndKeeps
  <2>8. ASSUME NEW s \in Session, Fail(s) PROVE SInv'
    BY <2>8, FailKeeps
  <2>9. ASSUME NEW s \in Session, Drop(s) PROVE SInv'
    BY <2>9, DropKeeps
  <2>10. ASSUME NEW c \in Caches, DropCaches(c) PROVE SInv'
    BY <2>10, DropCachesKeeps
  <2>11. ASSUME UNCHANGED svars PROVE SInv'
    BY <2>11, NothingSteps
  <2> QED
    BY <2>1, <2>2, <2>3, <2>4, <2>5, <2>6, <2>7, <2>8, <2>9, <2>10, <2>11 DEF SNext, SStep
<1> QED
  BY <1>1, <1>2, PTL DEF SSpec

(* What model_init captured is good when a run looks at it. *)
LEMMA InvPointersGood ==
  ASSUME SInv
  PROVE  PointersGood
<1> SUFFICES ASSUME NEW s \in Session, stage[s] = "running"
             PROVE  /\ \A n \in (Plan[s].reads \cup (IF Plan[s].target = "CUDA" THEN Plan[s].given ELSE {})) :
                         ptr[s][n] \in DOMAIN mem /\ mem[ptr[s][n]] = [kind |-> "Cuda", data |-> Plan[s].data[n]]
                    /\ Plan[s].target = "CUDA" => \A n \in Plan[s].staged : ptr[s][n] = InHost
                    /\ \A i \in DOMAIN Plan[s].states : /\ StateBuffer(s, i) \in DOMAIN mem
                                                        /\ mem[StateBuffer(s, i)].kind = StateKind(s, NameAt(s, "states", i))
  BY DEF PointersGood
<1>1. ptr[s] = Pointers(s) /\ AllGot(s, "states") /\ AllGot(s, "weights")
  BY DEF SInv, PtrTrue, GotAll
<1>2. /\ Plan[s].target \in {"CUDA", "Hybrid"}
      /\ Plan[s].reads \cup Plan[s].staged \cup Plan[s].given \subseteq NamesOf(s, "weights")
      /\ Plan[s].target = "CUDA" => Plan[s].staged \cap (Plan[s].reads \cup Plan[s].given) = {}
  BY SessionsAssumption
<1>3. ASSUME NEW n \in (Plan[s].reads \cup (IF Plan[s].target = "CUDA" THEN Plan[s].given ELSE {}))
      PROVE  ptr[s][n] \in DOMAIN mem /\ mem[ptr[s][n]] = [kind |-> "Cuda", data |-> Plan[s].data[n]]
  <2>0. "weights" \in Kinds /\ Plan[s].weights = Plan[s]["weights"]
    BY KindsAre
  <2>1. n \in NamesOf(s, "weights") /\ ~ Placeholder(s, n) /\ n \notin HostResident(s)
    BY <1>2, <1>3 DEF Placeholder, HostResident
  <2>2. PICK i : i = (CHOOSE j \in DOMAIN Plan[s].weights : NameAt(s, "weights", j) = n)
    OBVIOUS
  <2>3. i \in DOMAIN Plan[s].weights /\ NameAt(s, "weights", i) = n
    BY <2>0, <2>1, <2>2 DEF NamesOf
  <2>4. PICK b : b = got[s]["weights"][i]
    OBVIOUS
  <2>5. ptr[s][n] = b
    BY <1>1, <2>1, <2>2, <2>4 DEF Pointers
  <2>6. got[s]["weights"] \in Seq(BufferSet) /\ i \in 1..Len(got[s]["weights"])
    BY <1>1, <2>0, <2>3, NamesTyped DEF SInv, BuffersTyped, AllGot
  <2>7. Fitting(b, s, "weights", i)
    BY <2>0, <2>4, <2>6 DEF SInv, GotInOrder
  <2>8. /\ b \in BufferSet /\ b[1] \in Session /\ b[2] = "weights" /\ b[3] = n
        /\ b[1] = s \/ (Shares(s) /\ Plan[b[1]].cache = Plan[s].cache)
        /\ n \in NamesOf(b[1], "weights")
        /\ Real(s, "weights", n) <=> Real(b[1], "weights", n)
    BY <2>0, <2>3, <2>7, FittingIs
  <2>9. ~ Placeholder(b[1], n)
    BY <2>1, <2>8 DEF Real
  <2>10. b \in DOMAIN mem
    <3>1. InSessions(b, got)
      BY <2>0, <2>4, <2>6 DEF InSessions
    <3> QED
      BY <3>1, HeldAre DEF SInv, Allocated
  <2>11. b \notin Opened
    <3>1. SUFFICES ASSUME b \in Opened PROVE FALSE
      OBVIOUS
    <3>2. PICK r \in Session, k \in Kinds : Opens(r, k) /\ b = Buffer(r, k, NextName(r, k))
      BY <3>1, OpenedAre DEF Openers
    <3>3. b[1] = r /\ k = "weights" /\ NextName(r, k) = n
      BY <2>8, <3>2 DEF Buffer
    <3>4. r # s /\ Building(r)
      BY <3>2, StagesApart
    <3>5. Shares(s) /\ Shares(r) /\ Plan[r].cache = Plan[s].cache
      BY <2>8, <3>3, <3>4 DEF Shares
    <3>6. n \in DOMAIN persistent[<<k, Plan[s].cache>>]
      BY <2>1, <2>3, <2>6, <3>3, <3>4, <3>5 DEF SInv, CacheKeeps, Real
    <3>7. n \notin DOMAIN persistent[LockOf(r, k)]
      BY <3>2, <3>3, <3>5 DEF SInv, LockHeld
    <3> QED
      BY <3>5, <3>6, <3>7 DEF LockOf
  <2>12. mem[b] = [kind |-> "Cuda", data |-> Plan[b[1]].data[n]]
    <3>1. mem[b] = Holds(b)
      BY <2>10 DEF SInv, MemTrue
    <3> QED
      BY <2>8, <2>9, <2>11, <3>1 DEF Holds
  <2>13. Plan[b[1]].data[n] = Plan[s].data[n]
    BY <2>1, <2>8, SessionsAssumption
  <2> QED
    BY <2>5, <2>10, <2>12, <2>13
<1>4. ASSUME Plan[s].target = "CUDA", NEW n \in Plan[s].staged PROVE ptr[s][n] = InHost
  BY <1>1, <1>2, <1>4 DEF Pointers, HostResident
<1>5. ASSUME NEW i \in DOMAIN Plan[s].states
      PROVE  /\ StateBuffer(s, i) \in DOMAIN mem
             /\ mem[StateBuffer(s, i)].kind = StateKind(s, NameAt(s, "states", i))
  <2>1. /\ StateBuffer(s, i) \in DOMAIN mem
        /\ mem[StateBuffer(s, i)] = [kind |-> StateKind(s, NameAt(s, "states", i)),
                                     data |-> StateAt(Memory(s), NameAt(s, "states", i))]
    BY <1>1, StateBuffersAre
  <2> QED
    BY <2>1
<1> QED
  BY <1>3, <1>4, <1>5

(* A run finds every pointer good and in a session state what the last run   *)
(* of its model left, and there is one copy of a weight or a state for all   *)
(* sessions that share it, however their threads interleave                  *)
(* (PersistentBuffers, build_session_state_buffers, init_state).             *)
THEOREM BuffersAlwaysGood == SSpec => []BuffersGood
<1>1. SInv => BuffersGood
  <2> SUFFICES ASSUME SInv PROVE BuffersGood
    OBVIOUS
  <2>1. PointersGood
    BY InvPointersGood
  <2>2. STypeOK
    <3>1. ASSUME NEW b \in DOMAIN mem PROVE mem[b].kind \in {"Cuda", "Host", "Placeholder"}
      <4>1. mem[b] = Holds(b)
        BY DEF SInv, MemTrue
      <4> QED
        BY <4>1 DEF Holds, StateKind
    <3> QED
      BY <3>1 DEF SInv, BuffersTyped, GotInOrder, STypeOK
  <2> QED
    BY <2>1, <2>2 DEF SInv, BuffersGood
<1> QED
  BY <1>1, BuffersInvariant, PTL
=============================================================================
