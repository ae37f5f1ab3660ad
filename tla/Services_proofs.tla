--------------------------- MODULE Services_proofs ---------------------------
(***************************************************************************)
(* Proofs about the chat service (ChatService) and about the models that   *)
(* the same server keeps loaded (ModelRegistry).                           *)
(*                                                                         *)
(* A chat: sequences and what they spell (Flat, Those, Said, render_full), *)
(* then CInv, which needs no assumption on what goes wrong and gives all   *)
(* that is said of streams and of the mutex; then OInv, which adds what    *)
(* the cache holds of a conversation, where there is room for its turns.   *)
(***************************************************************************)
EXTENDS ChatService, ModelRegistry, Induction, SequenceTheorems, FiniteSetTheorems, TLAPS

-----------------------------------------------------------------------------
(* Sequences, one after the other *)

Associates(a, b, c) == (a \o b) \o c = a \o (b \o c)
LEMMA Associative ==
  ASSUME NEW S, NEW a \in Seq(S), NEW b \in Seq(S), NEW c \in Seq(S)
  PROVE  Associates(a, b, c)
  BY ConcatAssociative DEF Associates

(* The partial concatenations of a sequence of sequences.                    *)
Joins(s, f) == f[0] = <<>> /\ \A n \in 1..Len(s) : f[n] = f[n - 1] \o s[n]

(* They exist, for any sequence of sequences, and there is one of them.     *)
LEMMA JoinsExist ==
  ASSUME NEW T, NEW s \in Seq(Seq(T))
  PROVE  \E f \in [0..Len(s) -> Seq(T)] : Joins(s, f)
<1> DEFINE N == Len(s)
           P(n, f) == f[0] = <<>> /\ \A m \in 1..n : f[m] = f[m - 1] \o s[m]
           S == {n \in 0..N : \E f \in [0..n -> Seq(T)] : P(n, f)}
<1>1. N \in Nat /\ \A n \in 1..N : s[n] \in Seq(T)
  OBVIOUS
<1>2. 0 \in S
  <2> DEFINE g == [m \in 0..0 |-> <<>>]
  <2>1. g \in [0..0 -> Seq(T)] /\ P(0, g)
    OBVIOUS
  <2>2. 0 \in 0..N
    BY <1>1
  <2> HIDE DEF g, P
  <2> QED
    BY <2>1, <2>2
<1>3. ASSUME NEW n \in 0..(N - 1), n \in S PROVE n + 1 \in S
  <2>1. PICK f \in [0..n -> Seq(T)] : P(n, f)
    BY <1>3
  <2>2. n \in Nat /\ n + 1 \in 0..N /\ n + 1 \in 1..N
    BY <1>1
  <2> DEFINE g == [m \in 0..(n + 1) |-> IF m <= n THEN f[m] ELSE f[n] \o s[n + 1]]
  <2>3. g \in [0..(n + 1) -> Seq(T)]
    <3>1. f[n] \in Seq(T) /\ s[n + 1] \in Seq(T)
      BY <1>1, <2>2
    <3>2. f[n] \o s[n + 1] \in Seq(T)
      BY <3>1, ConcatProperties
    <3> QED
      BY <2>2, <3>2
  <2>4. g[0] = <<>>
    BY <2>1, <2>2
  <2>5. ASSUME NEW m \in 1..(n + 1) PROVE g[m] = g[m - 1] \o s[m]
    <3>1. CASE m <= n
      <4>1. m \in 1..n /\ m \in 0..(n + 1) /\ m - 1 \in 0..(n + 1) /\ m - 1 <= n
        BY <2>2, <3>1
      <4>2. f[m] = f[m - 1] \o s[m]
        BY <2>1, <4>1
      <4> QED
        BY <4>1, <4>2, <3>1
    <3>2. CASE m = n + 1
      <4>1. m \in 0..(n + 1) /\ m - 1 \in 0..(n + 1) /\ m - 1 = n /\ ~ (m <= n)
        BY <2>2, <3>2
      <4> QED
        BY <4>1, <3>2
    <3>3. m <= n \/ m = n + 1
      BY <2>2
    <3> HIDE DEF g
    <3> QED
      BY <3>1, <3>2, <3>3
  <2>6. P(n + 1, g)
    BY <2>4, <2>5
  <2> HIDE DEF g, P
  <2> QED
    BY <2>2, <2>3, <2>6
<1>4. N \in S
  <2> HIDE DEF S, N
  <2>1. \A n \in 0..N : n \in S
    BY <1>1, <1>2, <1>3, UpTo
  <2> QED
    BY <1>1, <2>1
<1> QED
  BY <1>4 DEF Joins

LEMMA JoinsUnique ==
  ASSUME NEW s, Len(s) \in Nat, NEW f, NEW g, Joins(s, f), Joins(s, g)
  PROVE  \A n \in 0..Len(s) : f[n] = g[n]
<1> DEFINE N == Len(s)
           S == {n \in 0..N : f[n] = g[n]}
<1>1. 0 \in S
  BY DEF Joins
<1>2. ASSUME NEW n \in 0..(N - 1), n \in S PROVE n + 1 \in S
  <2>1. n + 1 \in 1..N /\ n + 1 \in 0..N /\ (n + 1) - 1 = n
    OBVIOUS
  <2>2. f[n + 1] = f[n] \o s[n + 1] /\ g[n + 1] = g[n] \o s[n + 1]
    BY <2>1 DEF Joins
  <2>3. f[n] = g[n]
    BY <1>2
  <2> QED
    BY <2>1, <2>2, <2>3
<1>3. \A n \in 0..N : n \in S
  <2> HIDE DEF S, N
  <2>0. N \in Nat
    BY DEF N
  <2> QED
    BY <2>0, <1>1, <1>2, UpTo
<1> QED
  BY <1>3

(* What Flat computes.                                                       *)
LEMMA FlatIs ==
  ASSUME NEW T, NEW s \in Seq(Seq(T)), NEW f, Joins(s, f)
  PROVE  Flat(s) = f[Len(s)] /\ Flat(s) \in Seq(T)
<1> DEFINE N == Len(s)
           Rec(u) == [n \in 0..N |-> IF n = 0 THEN <<>> ELSE u[n - 1] \o s[n]]
           e == CHOOSE u : u = Rec(u)
<1>1. N \in Nat
  OBVIOUS
<1>2. PICK g \in [0..N -> Seq(T)] : Joins(s, g)
  BY JoinsExist
<1>3. g = Rec(g)
  <2>1. ASSUME NEW n \in 0..N PROVE g[n] = Rec(g)[n]
    <3>1. CASE n = 0
      BY <1>2, <3>1 DEF Joins
    <3>2. CASE n # 0
      <4>1. n \in 1..N
        BY <1>1, <3>2
      <4> QED
        BY <1>2, <3>2, <4>1 DEF Joins
    <3> QED
      BY <3>1, <3>2
  <2>2. g = [n \in 0..N |-> g[n]]
    OBVIOUS
  <2>3. [n \in 0..N |-> g[n]] = [n \in 0..N |-> IF n = 0 THEN <<>> ELSE g[n - 1] \o s[n]]
    BY <2>1
  <2> QED
    BY <2>2, <2>3, Zenon
<1>4. e = Rec(e)
  <2> HIDE DEF Rec
  <2> QED
    BY <1>3
<1>5. Flat(s) = e[N]
  BY DEF Flat
<1>6. Joins(s, e)
  <2> HIDE DEF e
  <2>1. e[0] = <<>>
    BY <1>1, <1>4
  <2>2. ASSUME NEW n \in 1..N PROVE e[n] = e[n - 1] \o s[n]
    <3>1. n \in 0..N /\ n # 0
      BY <1>1
    <3> QED
      BY <1>4, <3>1
  <2> QED
    BY <2>1, <2>2 DEF Joins
<1> HIDE DEF e
<1>7. \A n \in 0..N : e[n] = f[n]
  BY <1>1, <1>6, JoinsUnique
<1>8. \A n \in 0..N : e[n] = g[n]
  BY <1>1, <1>2, <1>6, JoinsUnique
<1>9. N \in 0..N
  BY <1>1
<1> QED
  BY <1>2, <1>5, <1>7, <1>8, <1>9

(* Flat joins sequences over a set into a sequence over it.                 *)
LEMMA FlatTyped ==
  ASSUME NEW T, NEW s \in Seq(Seq(T))
  PROVE  Flat(s) \in Seq(T)
  BY JoinsExist, FlatIs

LEMMA FlatEmpty == Flat(<<>>) = <<>>
<1>1. Joins(<<>>, [n \in 0..0 |-> <<>>])
  BY DEF Joins
<1>2. <<>> \in Seq(Seq({})) /\ Len(<<>>) = 0
  OBVIOUS
<1>3. Flat(<<>>) = [n \in 0..0 |-> <<>>][Len(<<>>)]
  BY <1>1, <1>2, FlatIs, Zenon
<1> QED
  BY <1>2, <1>3

(* ... one more sequence adds its own at the end.                           *)
LEMMA FlatAppend ==
  ASSUME NEW T, NEW s \in Seq(Seq(T)), NEW x \in Seq(T)
  PROVE  Flat(Append(s, x)) = Flat(s) \o x
<1> DEFINE t == Append(s, x)
<1>1. t \in Seq(Seq(T)) /\ Len(t) = Len(s) + 1 /\ Len(s) \in Nat
      /\ (\A n \in 1..Len(s) : t[n] = s[n]) /\ t[Len(s) + 1] = x
  BY AppendProperties
<1> HIDE DEF t
<1>2. PICK f \in [0..Len(t) -> Seq(T)] : Joins(t, f)
  BY <1>1, JoinsExist
<1>3. Joins(s, f)
  <2>1. f[0] = <<>> /\ \A n \in 1..Len(t) : f[n] = f[n - 1] \o t[n]
    BY <1>2 DEF Joins
  <2>2. \A n \in 1..Len(s) : n \in 1..Len(t) /\ t[n] = s[n]
    BY <1>1
  <2> QED
    BY <2>1, <2>2 DEF Joins
<1>4. Flat(t) = f[Len(s) + 1] /\ Flat(s) = f[Len(s)]
  BY <1>1, <1>2, <1>3, FlatIs
<1>5. f[Len(s) + 1] = f[(Len(s) + 1) - 1] \o t[Len(s) + 1]
  <2>1. Len(s) + 1 \in 1..Len(t)
    BY <1>1
  <2> QED
    BY <1>2, <2>1 DEF Joins
<1>6. (Len(s) + 1) - 1 = Len(s)
  BY <1>1
<1> QED
  BY <1>1, <1>4, <1>5, <1>6 DEF t

(* The first n elements.                                                     *)
LEMMA Prefixes ==
  ASSUME NEW S, NEW t \in Seq(S), NEW n \in 0..(Len(t) - 1)
  PROVE  /\ SubSeq(t, 1, n) \in Seq(S) /\ Len(SubSeq(t, 1, n)) = n /\ t[n + 1] \in S
         /\ SubSeq(t, 1, n + 1) = Append(SubSeq(t, 1, n), t[n + 1])
<1>1. Len(t) \in Nat /\ n \in Nat /\ n + 1 \in 1..Len(t) /\ \A i \in 1..(n + 1) : t[i] \in S
  OBVIOUS
<1>2. /\ SubSeq(t, 1, n) \in Seq(S) /\ Len(SubSeq(t, 1, n)) = n
      /\ \A i \in 1..n : SubSeq(t, 1, n)[i] = t[i]
  BY <1>1, SubSeqProperties
<1>3. /\ SubSeq(t, 1, n + 1) \in Seq(S) /\ Len(SubSeq(t, 1, n + 1)) = n + 1
      /\ \A i \in 1..(n + 1) : SubSeq(t, 1, n + 1)[i] = t[i]
  BY <1>1, SubSeqProperties
<1>4. /\ Append(SubSeq(t, 1, n), t[n + 1]) \in Seq(S)
      /\ Len(Append(SubSeq(t, 1, n), t[n + 1])) = n + 1
      /\ \A i \in 1..(n + 1) : Append(SubSeq(t, 1, n), t[n + 1])[i] = t[i]
  BY <1>1, <1>2, AppendProperties
<1>5. SubSeq(t, 1, n + 1) = Append(SubSeq(t, 1, n), t[n + 1])
  BY <1>3, <1>4, SeqEqual
<1> QED
  BY <1>1, <1>2, <1>5

LEMMA AllOfIt ==
  ASSUME NEW S, NEW t \in Seq(S)
  PROVE  SubSeq(t, 1, 0) = <<>> /\ SubSeq(t, 1, Len(t)) = t /\ Len(t) \in Nat
<1>1. SubSeq(t, 1, 0) = <<>>
  BY SubSeqEmpty
<1>2. SubSeq(t, 1, Len(t)) = t
  BY SubSeqFull
<1> QED
  BY <1>1, <1>2

(* ... and what is joined in two parts is joined.                           *)
LEMMA FlatConcat ==
  ASSUME NEW T, NEW s \in Seq(Seq(T)), NEW t \in Seq(Seq(T))
  PROVE  Flat(s \o t) = Flat(s) \o Flat(t)
<1> DEFINE N == Len(t)
           pre(n) == SubSeq(t, 1, n)
           S == {n \in 0..N : Flat(s \o pre(n)) = Flat(s) \o Flat(pre(n))}
<1>0. N \in Nat /\ pre(0) = <<>> /\ pre(N) = t
  BY AllOfIt
<1>1. 0 \in S
  <2>1. s \o <<>> = s /\ Flat(s) \in Seq(T)
    BY ConcatEmptySeq, FlatTyped
  <2>2. Flat(s) \o <<>> = Flat(s)
    BY <2>1, ConcatEmptySeq
  <2>3. Flat(s \o pre(0)) = Flat(s) \o Flat(pre(0))
    BY <1>0, <2>1, <2>2, FlatEmpty
  <2>4. 0 \in 0..N
    BY <1>0
  <2> QED
    BY <2>3, <2>4
<1>2. ASSUME NEW n \in 0..(N - 1), n \in S PROVE n + 1 \in S
  <2>1. /\ pre(n) \in Seq(Seq(T)) /\ t[n + 1] \in Seq(T) /\ pre(n + 1) = Append(pre(n), t[n + 1])
    BY Prefixes
  <2>2. n + 1 \in 0..N
    BY <1>0
  <2>3. Flat(s \o pre(n)) = Flat(s) \o Flat(pre(n))
    BY <1>2
  <2> HIDE DEF pre
  <2>4. s \o pre(n + 1) = Append(s \o pre(n), t[n + 1]) /\ s \o pre(n) \in Seq(Seq(T))
    <3>1. Append(pre(n), t[n + 1]) = pre(n) \o <<t[n + 1]>> /\ <<t[n + 1]>> \in Seq(Seq(T))
      BY <2>1, AppendIsConcat
    <3>2. s \o pre(n) \in Seq(Seq(T))
      BY <2>1, ConcatProperties
    <3>3. (s \o pre(n)) \o <<t[n + 1]>> = s \o (pre(n) \o <<t[n + 1]>>)
      <4>1. pre(n) \in Seq(Seq(T)) /\ <<t[n + 1]>> \in Seq(Seq(T))
        BY <2>1, <3>1
      <4>2. Associates(s, pre(n), <<t[n + 1]>>)
        BY <4>1, Associative
      <4> QED
        BY <4>2 DEF Associates
    <3>4. Append(s \o pre(n), t[n + 1]) = (s \o pre(n)) \o <<t[n + 1]>>
      BY <2>1, <3>2, AppendIsConcat
    <3> QED
      BY <2>1, <3>1, <3>2, <3>3, <3>4
  <2>5. Flat(s \o pre(n + 1)) = (Flat(s) \o Flat(pre(n))) \o t[n + 1]
    BY <2>1, <2>3, <2>4, FlatAppend
  <2>6. Flat(pre(n + 1)) = Flat(pre(n)) \o t[n + 1] /\ Flat(pre(n)) \in Seq(T) /\ Flat(s) \in Seq(T)
    BY <2>1, FlatAppend, FlatTyped
  <2>7. (Flat(s) \o Flat(pre(n))) \o t[n + 1] = Flat(s) \o (Flat(pre(n)) \o t[n + 1])
    <3>1. t[n + 1] \in Seq(T) /\ Flat(pre(n)) \in Seq(T) /\ Flat(s) \in Seq(T)
      BY <2>1, <2>6
    <3>2. Associates(Flat(s), Flat(pre(n)), t[n + 1])
      BY <3>1, Associative
    <3> QED
      BY <3>2 DEF Associates
  <2> QED
    BY <2>2, <2>5, <2>6, <2>7
<1>3. \A n \in 0..N : n \in S
  <2> HIDE DEF S, N
  <2> QED
    BY <1>0, <1>1, <1>2, UpTo
<1>4. Flat(s \o pre(N)) = Flat(s) \o Flat(pre(N))
  BY <1>0, <1>3
<1> QED
  BY <1>0, <1>4

-----------------------------------------------------------------------------
(* ... of what each element stands for *)

Spelled(M, a) == Flat([n \in DOMAIN a |-> M[a[n]]])

LEMMA SpelledTyped ==
  ASSUME NEW T, NEW U, NEW M \in [T -> Seq(U)], NEW a \in Seq(T)
  PROVE  /\ [n \in DOMAIN a |-> M[a[n]]] \in Seq(Seq(U))
         /\ Len([n \in DOMAIN a |-> M[a[n]]]) = Len(a)
         /\ Spelled(M, a) \in Seq(U)
<1>1. Len(a) \in Nat /\ DOMAIN a = 1..Len(a) /\ \A n \in 1..Len(a) : M[a[n]] \in Seq(U)
  OBVIOUS
<1>2. [n \in 1..Len(a) |-> M[a[n]]] \in Seq(Seq(U)) /\ Len([n \in 1..Len(a) |-> M[a[n]]]) = Len(a)
  BY <1>1
<1>3. Spelled(M, a) \in Seq(U)
  BY <1>1, <1>2, FlatTyped DEF Spelled
<1> QED
  BY <1>1, <1>2, <1>3

SpelledApart(M, a, b) == Spelled(M, a \o b) = Spelled(M, a) \o Spelled(M, b)
(* Each part of a sequence is spelled for itself.                           *)
LEMMA SpelledConcat ==
  ASSUME NEW T, NEW U, NEW M \in [T -> Seq(U)], NEW a \in Seq(T), NEW b \in Seq(T)
  PROVE  SpelledApart(M, a, b)
<1> DEFINE A == [n \in DOMAIN a |-> M[a[n]]]
           B == [n \in DOMAIN b |-> M[b[n]]]
           C == [n \in DOMAIN (a \o b) |-> M[(a \o b)[n]]]
<1>1. /\ a \o b \in Seq(T) /\ Len(a \o b) = Len(a) + Len(b) /\ Len(a) \in Nat /\ Len(b) \in Nat
      /\ DOMAIN a = 1..Len(a) /\ DOMAIN b = 1..Len(b) /\ DOMAIN (a \o b) = 1..(Len(a) + Len(b))
      /\ \A i \in 1..(Len(a) + Len(b)) : (a \o b)[i] = IF i <= Len(a) THEN a[i] ELSE b[i - Len(a)]
  BY ConcatProperties
<1>2. /\ A \in Seq(Seq(U)) /\ Len(A) = Len(a) /\ B \in Seq(Seq(U)) /\ Len(B) = Len(b)
      /\ C \in Seq(Seq(U)) /\ Len(C) = Len(a) + Len(b)
  BY <1>1, SpelledTyped
<1>3. /\ A \o B \in Seq(Seq(U)) /\ Len(A \o B) = Len(a) + Len(b)
      /\ \A i \in 1..(Len(a) + Len(b)) : (A \o B)[i] = IF i <= Len(a) THEN A[i] ELSE B[i - Len(a)]
  <2> HIDE DEF A, B
  <2>1. /\ A \o B \in Seq(Seq(U)) /\ Len(A \o B) = Len(A) + Len(B)
        /\ \A i \in 1..(Len(A) + Len(B)) : (A \o B)[i] = IF i <= Len(A) THEN A[i] ELSE B[i - Len(A)]
    <3>1. A \in Seq(Seq(U)) /\ B \in Seq(Seq(U))
      BY <1>2
    <3> QED
      BY <3>1, ConcatProperties, Zenon
  <2>2. Len(A) = Len(a) /\ Len(B) = Len(b)
    BY <1>2
  <2> QED
    BY <2>1, <2>2
<1>4. ASSUME NEW i \in 1..(Len(a) + Len(b)) PROVE C[i] = (A \o B)[i]
  <2>1. C[i] = M[(a \o b)[i]]
    BY <1>1
  <2>2. CASE i <= Len(a)
    <3>1. i \in DOMAIN a /\ (a \o b)[i] = a[i] /\ (A \o B)[i] = A[i]
      <4> HIDE DEF A, B
      <4> QED
        BY <1>1, <1>3, <2>2
    <3>2. A[i] = M[a[i]]
      BY <3>1
    <3> HIDE DEF A, B, C
    <3> QED
      BY <2>1, <3>1, <3>2
  <2>3. CASE ~ (i <= Len(a))
    <3>1. i - Len(a) \in DOMAIN b /\ (a \o b)[i] = b[i - Len(a)] /\ (A \o B)[i] = B[i - Len(a)]
      <4> HIDE DEF A, B
      <4> QED
        BY <1>1, <1>3, <2>3
    <3>2. B[i - Len(a)] = M[b[i - Len(a)]]
      BY <3>1
    <3> HIDE DEF A, B, C
    <3> QED
      BY <2>1, <3>1, <3>2
  <2> QED
    BY <2>2, <2>3
<1>5. C = A \o B
  <2> HIDE DEF A, B, C
  <2> QED
    BY <1>2, <1>3, <1>4, SeqEqual
<1>6. Flat(A \o B) = Flat(A) \o Flat(B)
  <2> HIDE DEF A, B
  <2> QED
    BY <1>2, FlatConcat
<1> QED
  BY <1>5, <1>6 DEF Spelled, SpelledApart

LEMMA SpelledOne ==
  ASSUME NEW T, NEW U, NEW M \in [T -> Seq(U)]
  PROVE  /\ Spelled(M, <<>>) = <<>>
         /\ \A x \in T : Spelled(M, <<x>>) = M[x]
<1>1. Spelled(M, <<>>) = <<>>
  <2>1. [n \in DOMAIN <<>> |-> M[<<>>[n]]] = <<>>
    OBVIOUS
  <2> QED
    BY <2>1, FlatEmpty DEF Spelled
<1>2. ASSUME NEW x \in T PROVE Spelled(M, <<x>>) = M[x]
  <2>1. M[x] \in Seq(U)
    OBVIOUS
  <2>2. [n \in DOMAIN <<x>> |-> M[<<x>>[n]]] = Append(<<>>, M[x])
    OBVIOUS
  <2>3. Flat(Append(<<>>, M[x])) = <<>> \o M[x]
    <3>1. <<>> \in Seq(Seq(U))
      OBVIOUS
    <3> QED
      BY <2>1, <3>1, FlatAppend, FlatEmpty
  <2>4. <<>> \o M[x] = M[x]
    BY <2>1, ConcatEmptySeq
  <2> QED
    BY <2>2, <2>3, <2>4 DEF Spelled
<1> QED
  BY <1>1, <1>2

-----------------------------------------------------------------------------
(* The elements of a sequence that are in a set *)

Pick(T, S) == [x \in T |-> IF x \in S THEN <<x>> ELSE <<>>]

(* Those is spelled too, each element as itself or as nothing.              *)
LEMMA ThoseIs ==
  ASSUME NEW T, NEW S, NEW a \in Seq(T)
  PROVE  Those(a, S) = Spelled(Pick(T, S), a) /\ Pick(T, S) \in [T -> Seq(T)]
<1>1. Pick(T, S) \in [T -> Seq(T)]
  BY DEF Pick
<1>2. \A n \in DOMAIN a : a[n] \in T
  OBVIOUS
<1>3. [n \in DOMAIN a |-> IF a[n] \in S THEN <<a[n]>> ELSE <<>>] = [n \in DOMAIN a |-> Pick(T, S)[a[n]]]
  BY <1>2 DEF Pick
<1> QED
  BY <1>1, <1>3 DEF Those, Spelled

ThoseApart(a, b, S) == Those(a \o b, S) = Those(a, S) \o Those(b, S)
LEMMA ThoseConcat ==
  ASSUME NEW T, NEW S, NEW a \in Seq(T), NEW b \in Seq(T)
  PROVE  Those(a, S) \in Seq(T) /\ ThoseApart(a, b, S)
<1>1. a \o b \in Seq(T)
  BY ConcatProperties
<1>2. /\ Those(a, S) = Spelled(Pick(T, S), a) /\ Those(b, S) = Spelled(Pick(T, S), b)
      /\ Those(a \o b, S) = Spelled(Pick(T, S), a \o b) /\ Pick(T, S) \in [T -> Seq(T)]
  BY <1>1, ThoseIs
<1>3. Spelled(Pick(T, S), a \o b) = Spelled(Pick(T, S), a) \o Spelled(Pick(T, S), b)
  <2>1. Pick(T, S) \in [T -> Seq(T)]
    BY <1>2
  <2>2. SpelledApart(Pick(T, S), a, b)
    BY <2>1, SpelledConcat
  <2> QED
    BY <2>2 DEF SpelledApart
<1>4. Spelled(Pick(T, S), a) \in Seq(T)
  BY <1>2, SpelledTyped
<1> QED
  BY <1>2, <1>3, <1>4 DEF ThoseApart

LEMMA ThoseOne ==
  ASSUME NEW T, NEW S, NEW x \in T
  PROVE  Those(<<>>, S) = <<>> /\ Those(<<x>>, S) = IF x \in S THEN <<x>> ELSE <<>>
<1>1. <<>> \in Seq(T) /\ <<x>> \in Seq(T)
  OBVIOUS
<1>2. /\ Those(<<>>, S) = Spelled(Pick(T, S), <<>>) /\ Those(<<x>>, S) = Spelled(Pick(T, S), <<x>>)
      /\ Pick(T, S) \in [T -> Seq(T)]
  BY <1>1, ThoseIs
<1>3. Spelled(Pick(T, S), <<>>) = <<>> /\ Spelled(Pick(T, S), <<x>>) = Pick(T, S)[x]
  BY <1>2, SpelledOne
<1> QED
  BY <1>2, <1>3 DEF Pick

LEMMA ThoseAppend ==
  ASSUME NEW T, NEW S, NEW a \in Seq(T), NEW x \in T
  PROVE  Those(Append(a, x), S) = IF x \in S THEN Append(Those(a, S), x) ELSE Those(a, S)
<1>1. Append(a, x) = a \o <<x>> /\ <<x>> \in Seq(T)
  BY AppendIsConcat
<1>2. Those(a \o <<x>>, S) = Those(a, S) \o Those(<<x>>, S) /\ Those(a, S) \in Seq(T)
  <2>1. ThoseApart(a, <<x>>, S) /\ Those(a, S) \in Seq(T)
    BY <1>1, ThoseConcat
  <2> QED
    BY <2>1 DEF ThoseApart
<1>3. Those(<<x>>, S) = IF x \in S THEN <<x>> ELSE <<>>
  BY ThoseOne
<1>4. Append(Those(a, S), x) = Those(a, S) \o <<x>> /\ Those(a, S) \o <<>> = Those(a, S)
  BY <1>2, AppendIsConcat, ConcatEmptySeq
<1> QED
  BY <1>1, <1>2, <1>3, <1>4

(* All of a sequence is in a set, or none of it.                            *)
LEMMA ThoseAll ==
  ASSUME NEW T, NEW S, NEW a \in Seq(T), \A n \in 1..Len(a) : a[n] \in S
  PROVE  Those(a, S) = a
<1> DEFINE N == Len(a)
           pre(n) == SubSeq(a, 1, n)
           G == {n \in 0..N : Those(pre(n), S) = pre(n)}
<1>0. N \in Nat /\ pre(0) = <<>> /\ pre(N) = a
  BY AllOfIt
<1>1. 0 \in G
  <2>1. [n \in DOMAIN <<>> |-> IF <<>>[n] \in S THEN <<<<>>[n]>> ELSE <<>>] = <<>>
    OBVIOUS
  <2>2. Those(<<>>, S) = <<>>
    BY <2>1, FlatEmpty DEF Those
  <2> HIDE DEF pre
  <2> QED
    BY <1>0, <2>2
<1>2. ASSUME NEW n \in 0..(N - 1), n \in G PROVE n + 1 \in G
  <2>1. pre(n) \in Seq(T) /\ a[n + 1] \in T /\ pre(n + 1) = Append(pre(n), a[n + 1])
    BY Prefixes
  <2>2. n + 1 \in 0..N /\ a[n + 1] \in S
    BY <1>0
  <2> HIDE DEF pre
  <2>3. Those(pre(n + 1), S) = Append(Those(pre(n), S), a[n + 1])
    BY <2>1, <2>2, ThoseAppend
  <2> QED
    BY <1>2, <2>1, <2>2, <2>3
<1>3. \A n \in 0..N : n \in G
  <2> HIDE DEF G, N
  <2> QED
    BY <1>0, <1>1, <1>2, UpTo
<1>4. N \in G
  <2> HIDE DEF G
  <2> QED
    BY <1>0, <1>3
<1> QED
  BY <1>0, <1>4

LEMMA ThoseNone ==
  ASSUME NEW T, NEW S, NEW a \in Seq(T), \A n \in 1..Len(a) : a[n] \notin S
  PROVE  Those(a, S) = <<>>
<1> DEFINE N == Len(a)
           pre(n) == SubSeq(a, 1, n)
           G == {n \in 0..N : Those(pre(n), S) = <<>>}
<1>0. N \in Nat /\ pre(0) = <<>> /\ pre(N) = a
  BY AllOfIt
<1>1. 0 \in G
  <2>1. [n \in DOMAIN <<>> |-> IF <<>>[n] \in S THEN <<<<>>[n]>> ELSE <<>>] = <<>>
    OBVIOUS
  <2>2. Those(<<>>, S) = <<>>
    BY <2>1, FlatEmpty DEF Those
  <2> HIDE DEF pre
  <2> QED
    BY <1>0, <2>2
<1>2. ASSUME NEW n \in 0..(N - 1), n \in G PROVE n + 1 \in G
  <2>1. pre(n) \in Seq(T) /\ a[n + 1] \in T /\ pre(n + 1) = Append(pre(n), a[n + 1])
    BY Prefixes
  <2>2. n + 1 \in 0..N /\ a[n + 1] \notin S
    BY <1>0
  <2> HIDE DEF pre
  <2>3. Those(Append(pre(n), a[n + 1]), S) = Those(pre(n), S)
    BY <2>1, <2>2, ThoseAppend
  <2> QED
    BY <1>2, <2>1, <2>2, <2>3
<1>3. \A n \in 0..N : n \in G
  <2> HIDE DEF G, N
  <2> QED
    BY <1>0, <1>1, <1>2, UpTo
<1>4. N \in G
  <2> HIDE DEF G
  <2> QED
    BY <1>0, <1>3
<1> QED
  BY <1>0, <1>4

-----------------------------------------------------------------------------
(* What a client is told *)

Event ==
  [kind : {"chunk"}, text : Seq(Plain)] \cup [kind : {"done"}, ended : BOOLEAN] \cup [kind : {"error"}]
Words == [e \in Event |-> IF e.kind = "chunk" THEN e.text ELSE <<>>]

(* An event says a text, or gives a verdict and says nothing.               *)
LEMMA WordsTyped ==
  /\ Words \in [Event -> Seq(Plain)]
  /\ \A text \in Seq(Plain) : Chunk(text) \in Event /\ Words[Chunk(text)] = text /\ Chunk(text).kind = "chunk"
  /\ \A e \in BOOLEAN :
       /\ [kind |-> "done", ended |-> e] \in Event /\ Words[[kind |-> "done", ended |-> e]] = <<>>
       /\ [kind |-> "done", ended |-> e].kind # "chunk"
  /\ [kind |-> "error"] \in Event /\ Words[[kind |-> "error"]] = <<>> /\ [kind |-> "error"].kind # "chunk"
<1>1. \A e \in Event : e.kind = "chunk" => e.text \in Seq(Plain)
  BY DEF Event
<1>2. Words \in [Event -> Seq(Plain)]
  BY <1>1 DEF Words
<1>3. ASSUME NEW text \in Seq(Plain)
      PROVE  Chunk(text) \in Event /\ Words[Chunk(text)] = text /\ Chunk(text).kind = "chunk"
  BY DEF Chunk, Event, Words
<1>4. ASSUME NEW e \in BOOLEAN
      PROVE  /\ [kind |-> "done", ended |-> e] \in Event /\ Words[[kind |-> "done", ended |-> e]] = <<>>
             /\ [kind |-> "done", ended |-> e].kind # "chunk"
  BY DEF Event, Words
<1>5. [kind |-> "error"] \in Event /\ Words[[kind |-> "error"]] = <<>> /\ [kind |-> "error"].kind # "chunk"
  BY DEF Event, Words
<1> QED
  BY <1>2, <1>3, <1>4, <1>5

(* Events sent later say what they say after what was said before.          *)
LEMMA SaidConcat ==
  ASSUME NEW a \in Seq(Event), NEW b \in Seq(Event)
  PROVE  Said(a) \in Seq(Plain) /\ Said(a \o b) = Said(a) \o Said(b)
<1>1. \A c \in Seq(Event) : Said(c) = Spelled(Words, c)
  <2> TAKE c \in Seq(Event)
  <2>1. \A n \in DOMAIN c : c[n] \in Event
    OBVIOUS
  <2>2. [n \in DOMAIN c |-> IF c[n].kind = "chunk" THEN c[n].text ELSE <<>>] = [n \in DOMAIN c |-> Words[c[n]]]
    BY <2>1 DEF Words
  <2> QED
    BY <2>2 DEF Said, Spelled
<1>2. a \o b \in Seq(Event)
  BY ConcatProperties
<1>3. Words \in [Event -> Seq(Plain)]
  BY WordsTyped
<1>4. Spelled(Words, a \o b) = Spelled(Words, a) \o Spelled(Words, b)
  <2>1. SpelledApart(Words, a, b)
    BY <1>3, SpelledConcat
  <2> QED
    BY <2>1 DEF SpelledApart
<1>5. Spelled(Words, a) \in Seq(Plain)
  BY <1>3, SpelledTyped
<1> QED
  BY <1>1, <1>2, <1>4, <1>5

LEMMA SaidOne ==
  /\ Said(<<>>) = <<>>
  /\ \A e \in Event : Said(<<e>>) = Words[e]
<1>1. Said(<<>>) = <<>>
  <2>1. [n \in DOMAIN <<>> |-> IF <<>>[n].kind = "chunk" THEN <<>>[n].text ELSE <<>>] = <<>>
    OBVIOUS
  <2> QED
    BY <2>1, FlatEmpty DEF Said
<1>2. ASSUME NEW e \in Event PROVE Said(<<e>>) = Words[e]
  <2>1. [n \in DOMAIN <<e>> |-> IF <<e>>[n].kind = "chunk" THEN <<e>>[n].text ELSE <<>>]
        = [n \in DOMAIN <<e>> |-> Words[<<e>>[n]]]
    BY DEF Words
  <2>2. Said(<<e>>) = Spelled(Words, <<e>>)
    BY <2>1 DEF Said, Spelled
  <2>3. Words \in [Event -> Seq(Plain)]
    BY WordsTyped
  <2> QED
    BY <2>2, <2>3, SpelledOne
<1> QED
  BY <1>1, <1>2

(* Nothing is a verdict unless it is one in its own part of a stream.       *)
LEMMA VerdictsConcat ==
  ASSUME NEW a \in Seq(Event), NEW b \in Seq(Event)
  PROVE  /\ Verdicts(a \o b) = {} <=> Verdicts(a) = {} /\ Verdicts(b) = {}
         /\ Verdicts(<<>>) = {}
<1>1. /\ Len(a) \in Nat /\ Len(b) \in Nat /\ DOMAIN a = 1..Len(a) /\ DOMAIN b = 1..Len(b)
      /\ DOMAIN (a \o b) = 1..(Len(a) + Len(b))
      /\ \A i \in 1..(Len(a) + Len(b)) : (a \o b)[i] = IF i <= Len(a) THEN a[i] ELSE b[i - Len(a)]
  BY ConcatProperties
<1>2. ASSUME Verdicts(a \o b) = {} PROVE Verdicts(a) = {} /\ Verdicts(b) = {}
  <2>1. \A i \in 1..(Len(a) + Len(b)) : (a \o b)[i].kind = "chunk"
    BY <1>1, <1>2 DEF Verdicts
  <2>2. ASSUME NEW i \in 1..Len(a) PROVE a[i].kind = "chunk"
    <3>1. i \in 1..(Len(a) + Len(b)) /\ (a \o b)[i] = a[i]
      BY <1>1
    <3> QED
      BY <2>1, <3>1
  <2>3. ASSUME NEW i \in 1..Len(b) PROVE b[i].kind = "chunk"
    <3>1. Len(a) + i \in 1..(Len(a) + Len(b)) /\ (a \o b)[Len(a) + i] = b[i]
      BY <1>1
    <3> QED
      BY <2>1, <3>1
  <2> QED
    BY <1>1, <2>2, <2>3 DEF Verdicts
<1>3. ASSUME Verdicts(a) = {}, Verdicts(b) = {} PROVE Verdicts(a \o b) = {}
  <2>1. (\A i \in 1..Len(a) : a[i].kind = "chunk") /\ (\A i \in 1..Len(b) : b[i].kind = "chunk")
    BY <1>1, <1>3 DEF Verdicts
  <2>2. ASSUME NEW i \in 1..(Len(a) + Len(b)) PROVE (a \o b)[i].kind = "chunk"
    BY <1>1, <2>1
  <2> QED
    BY <1>1, <2>2 DEF Verdicts
<1>4. Verdicts(<<>>) = {}
  <2>1. DOMAIN <<>> = {}
    OBVIOUS
  <2> QED
    BY <2>1 DEF Verdicts
<1> QED
  BY <1>2, <1>3, <1>4

(* A verdict sent after none is the only one and the last event.            *)
LEMMA VerdictLast ==
  ASSUME NEW a \in Seq(Event), Verdicts(a) = {}, NEW e \in Event, e.kind # "chunk"
  PROVE  Verdicts(a \o <<e>>) = {Len(a \o <<e>>)}
<1>1. <<e>> \in Seq(Event) /\ Len(<<e>>) = 1 /\ <<e>>[1] = e
  OBVIOUS
<1>2. /\ Len(a) \in Nat /\ DOMAIN a = 1..Len(a) /\ Len(a \o <<e>>) = Len(a) + 1
      /\ DOMAIN (a \o <<e>>) = 1..(Len(a) + 1)
      /\ \A i \in 1..(Len(a) + 1) : (a \o <<e>>)[i] = IF i <= Len(a) THEN a[i] ELSE <<e>>[i - Len(a)]
  BY <1>1, ConcatProperties
<1>3. \A i \in 1..Len(a) : a[i].kind = "chunk"
  BY <1>2 DEF Verdicts
<1>4. \A i \in 1..(Len(a) + 1) : (a \o <<e>>)[i].kind # "chunk" <=> i = Len(a) + 1
  <2> TAKE i \in 1..(Len(a) + 1)
  <2>1. CASE i <= Len(a)
    BY <1>2, <1>3, <2>1
  <2>2. CASE i = Len(a) + 1
    <3>1. i - Len(a) = 1 /\ ~ (i <= Len(a))
      BY <1>2, <2>2
    <3> QED
      BY <1>1, <1>2, <2>2, <3>1
  <2> QED
    BY <1>2, <2>1, <2>2
<1>5. Len(a) + 1 \in 1..(Len(a) + 1)
  BY <1>2
<1> QED
  BY <1>2, <1>4, <1>5 DEF Verdicts

-----------------------------------------------------------------------------
(* Texts without a stop string *)

Clean(text) == \A i, j \in 1..Len(text) : SubSeq(text, i, j) # Stop

(* A part of a text without a stop string has none.                         *)
LEMMA CleanPart ==
  ASSUME NEW T, NEW a \in Seq(T), NEW b \in Seq(T), Clean(a \o b)
  PROVE  Clean(a)
<1>1. Len(a \o b) = Len(a) + Len(b) /\ Len(a) \in Nat /\ Len(b) \in Nat
  BY ConcatProperties
<1>2. ASSUME NEW i \in 1..Len(a), NEW j \in 1..Len(a) PROVE SubSeq(a, i, j) # Stop
  <2>1. SubSeq(a \o b, i, j) = SubSeq(a, i, j)
    BY SubSeqOfConcat1
  <2>2. i \in 1..Len(a \o b) /\ j \in 1..Len(a \o b)
    <3> DEFINE m == Len(a)
               n == Len(b)
    <3>1. m \in Nat /\ n \in Nat /\ Len(a \o b) = m + n /\ i \in 1..m /\ j \in 1..m
      BY <1>1
    <3> HIDE DEF m, n
    <3> QED
      BY <3>1
  <2>3. SubSeq(a \o b, i, j) # Stop
    <3>1. \A p, q \in 1..Len(a \o b) : SubSeq(a \o b, p, q) # Stop
      BY Zenon DEF Clean
    <3> QED
      BY <2>2, <3>1, Zenon
  <2> QED
    BY <2>1, <2>3
<1> QED
  BY <1>2 DEF Clean

LEMMA CleanPrefix ==
  ASSUME NEW T, NEW a \in Seq(T), NEW m \in 0..Len(a), Clean(a)
  PROVE  Clean(SubSeq(a, 1, m))
<1>1. Len(a) \in Nat /\ \A i \in 1..Len(a) : a[i] \in T
  OBVIOUS
<1>2. SubSeq(a, 1, m) \in Seq(T) /\ SubSeq(a, m + 1, Len(a)) \in Seq(T)
  <2>1. m \in Int /\ m + 1 \in Int /\ (\A i \in 1..m : a[i] \in T) /\ (\A i \in (m + 1)..Len(a) : a[i] \in T)
    BY <1>1
  <2> QED
    BY <1>1, <2>1, SubSeqProperties
<1>3. SubSeq(a, 1, m) \o SubSeq(a, m + 1, Len(a)) = SubSeq(a, 1, Len(a))
  <2>1. 1 \in 1..(Len(a) + 1) /\ m \in (1 - 1)..Len(a) /\ Len(a) \in m..Len(a)
    BY <1>1
  <2> QED
    BY <2>1, ConcatAdjacentSubSeq
<1>4. SubSeq(a, 1, Len(a)) = a
  BY AllOfIt
<1> QED
  <2> DEFINE p == SubSeq(a, 1, m)
             q == SubSeq(a, m + 1, Len(a))
  <2>1. p \in Seq(T) /\ q \in Seq(T) /\ p \o q = a
    BY <1>2, <1>3, <1>4, Zenon
  <2> HIDE DEF p, q
  <2>2. Clean(p \o q)
    BY <2>1, Zenon
  <2>3. Clean(p)
    BY <2>1, <2>2, CleanPart, Zenon
  <2> QED
    BY <2>3 DEF p

(* One more token brings in a stop string only if the text ends with it.    *)
LEMMA CleanGrows ==
  ASSUME NEW T, NEW a \in Seq(T), NEW x \in T, Clean(a),
         \A i \in 1..(Len(a) + 1) : SubSeq(Append(a, x), i, Len(a) + 1) # Stop
  PROVE  Clean(Append(a, x))
<1>1. Append(a, x) = a \o <<x>> /\ <<x>> \in Seq(T) /\ Len(Append(a, x)) = Len(a) + 1 /\ Len(a) \in Nat
  BY AppendIsConcat, AppendProperties
<1>2. ASSUME NEW i \in 1..(Len(a) + 1), NEW j \in 1..(Len(a) + 1)
      PROVE  SubSeq(Append(a, x), i, j) # Stop
  <2>1. CASE j = Len(a) + 1
    BY <2>1
  <2>2. CASE j # Len(a) + 1
    <3>1. j \in 1..Len(a)
      BY <1>1, <2>2
    <3>2. CASE i \in 1..Len(a)
      <4>1. SubSeq(a \o <<x>>, i, j) = SubSeq(a, i, j)
        BY <1>1, <3>1, <3>2, SubSeqOfConcat1
      <4>2. SubSeq(a, i, j) # Stop
        BY <3>1, <3>2 DEF Clean
      <4> QED
        BY <1>1, <4>1, <4>2
    <3>3. CASE i \notin 1..Len(a)
      <4>1. i = Len(a) + 1 /\ j < i
        BY <1>1, <3>1, <3>3
      <4>2. SubSeq(Append(a, x), i, j) = <<>>
        BY <1>1, <3>1, <4>1, SubSeqEmpty
      <4>3. Stop # <<>>
        BY ChatAssumption
      <4> QED
        BY <4>2, <4>3
    <3> QED
      BY <3>2, <3>3
  <2> QED
    BY <2>1, <2>2
<1> QED
  BY <1>1, <1>2 DEF Clean

-----------------------------------------------------------------------------
(* A conversation as the model is shown it *)

Shown == [m \in Message |-> IF m.role = "user" THEN m.text ELSE Append(m.text, EndOfTurn)]

LEMMA ShownTyped ==
  Shown \in [Message -> Seq(Tokens)]
<1>1. EndOfTurn \in Tokens
  BY DEF Tokens
<1>2. ASSUME NEW m \in Message
      PROVE  (IF m.role = "user" THEN m.text ELSE Append(m.text, EndOfTurn)) \in Seq(Tokens)
  <2>1. m.text \in Seq(Tokens)
    BY DEF Message
  <2>2. Append(m.text, EndOfTurn) \in Seq(Tokens)
    BY <1>1, <2>1, AppendProperties
  <2> QED
    BY <2>1, <2>2
<1> QED
  BY <1>2 DEF Shown

(* render_full of one more message adds what that message renders to.       *)
LEMMA RenderAppend ==
  ASSUME NEW h \in Seq(Message), NEW m \in Message
  PROVE  /\ render_full(h) \in Seq(Tokens) /\ render_full(<<>>) = <<>>
         /\ Append(h, m) \in Seq(Message)
         /\ render_full(Append(h, m)) = render_full(h) \o Shown[m]
<1>1. \A c \in Seq(Message) : render_full(c) = Spelled(Shown, c)
  <2> TAKE c \in Seq(Message)
  <2>1. \A n \in DOMAIN c : c[n] \in Message
    OBVIOUS
  <2>2. [n \in DOMAIN c |-> IF c[n].role = "user" THEN c[n].text ELSE Append(c[n].text, EndOfTurn)]
        = [n \in DOMAIN c |-> Shown[c[n]]]
    BY <2>1 DEF Shown
  <2> QED
    BY <2>2 DEF render_full, Spelled
<1>2. Shown \in [Message -> Seq(Tokens)]
  BY ShownTyped
<1>3. Append(h, m) = h \o <<m>> /\ <<m>> \in Seq(Message) /\ <<>> \in Seq(Message) /\ Append(h, m) \in Seq(Message)
  BY AppendIsConcat, AppendProperties
<1>4. Spelled(Shown, h \o <<m>>) = Spelled(Shown, h) \o Spelled(Shown, <<m>>)
  <2>1. <<m>> \in Seq(Message)
    BY <1>3
  <2>2. SpelledApart(Shown, h, <<m>>)
    BY <1>2, <2>1, SpelledConcat
  <2> QED
    BY <2>2 DEF SpelledApart
<1>5. Spelled(Shown, h) \in Seq(Tokens)
  BY <1>2, SpelledTyped
<1>6. Spelled(Shown, <<>>) = <<>> /\ Spelled(Shown, <<m>>) = Shown[m]
  BY <1>2, SpelledOne
<1>7. render_full(<<>>) = <<>> /\ render_full(h) = Spelled(Shown, h) /\ render_full(Append(h, m)) = Spelled(Shown, h \o <<m>>)
  BY <1>1, <1>3, <1>6
<1> QED
  BY <1>3, <1>4, <1>5, <1>6, <1>7

-----------------------------------------------------------------------------
(* Chats and their turns *)

ChatTyped ==
  /\ scenario \in Scenarios
  /\ sessions \in [Id -> ChatSession \cup {NoSession}]
  /\ holder \in Request \cup {NoOne} /\ poisoned \in BOOLEAN
  /\ pc \in [Request -> {"new", "evicted", "turn", "closing", "failed", "over"}]
  /\ turn \in [delta : Seq(Tokens), ids : Seq(Plain), emitted : Nat]
  /\ pending \in [Request -> Seq(Event)] /\ channel \in [Request -> Seq(Event)]
  /\ got \in [Request -> Seq(Event)] /\ reading \in [Request -> BOOLEAN]

(* The mutex is held for the turn and to the end of the answer. *)
HolderTrue ==
  /\ \A r \in Request : pc[r] \in {"turn", "closing"} <=> holder = r
  /\ poisoned => holder = NoOne
  /\ \A r \in Request : pc[r] \notin {"new", "over"} => Asks[r].kind = "chat"

(* A turn's question is in the history, at the end or before the answer. *)
History(r) == sessions[id(r)].history
InHistory ==
  \A r \in Request :
    /\ pc[r] \in {"turn", "closing"} => sessions[id(r)] # NoSession
    /\ pc[r] = "turn" => Len(History(r)) > 0 /\ History(r)[Len(History(r))] = User(r)
    /\ pc[r] = "closing" => Len(History(r)) > 1 /\ History(r)[Len(History(r)) - 1] = User(r)

(* An answer under way has no stop string, nor its max of tokens. *)
TurnClean ==
  \A r \in Request : pc[r] = "turn" =>
    Clean(turn.ids) /\ turn.emitted <= Len(turn.ids) /\ Len(turn.ids) < Asks[r].max

(* All that a client has been or will be sent, as things stand. *)
All(r) == got[r] \o channel[r] \o pending[r]
StreamTrue(r) ==
  /\ Clean(Said(All(r))) /\ \A n \in Verdicts(All(r)) : n = Len(All(r))
  /\ pc[r] \in {"new", "evicted"} => All(r) = <<>>
  /\ pc[r] = "turn" => Verdicts(All(r)) = {} /\ Said(All(r)) = SubSeq(turn.ids, 1, turn.emitted)
  /\ pc[r] = "closing" => Said(All(r)) = History(r)[Len(History(r))].text
  /\ pc[r] \in {"closing", "failed"} \/ (pc[r] = "over" /\ Asks[r].kind = "chat" /\ ~ poisoned)
       => Verdicts(All(r)) # {}
StreamGood(r) ==
  /\ reading[r] => StreamTrue(r)
  /\ pc[r] \in {"new", "evicted", "over"} => pending[r] = <<>>
Streams == \A r \in Request : StreamGood(r)

(* The invariant of all behaviours. *)
CInv == ChatTyped /\ HolderTrue /\ InHistory /\ TurnClean /\ Streams

-----------------------------------------------------------------------------
(* What the constants are, as the proofs use it.                            *)
LEMMA TokenSets ==
  /\ Plain \subseteq Tokens /\ Eos \in Tokens /\ EndOfAsk \in Tokens /\ EndOfTurn \in Tokens
  /\ Request \subseteq Tokens /\ NoOne \notin Request
  /\ Plain \cap Request = {} /\ Eos \notin Plain /\ EndOfAsk \notin Request /\ EndOfTurn \notin Request
  /\ Stop \in Seq(Plain) /\ Len(Stop) \in Nat \ {0}
<1>1. Stop \in Seq(Plain) /\ Stop # <<>>
  BY ChatAssumption
<1>2. Len(Stop) \in Nat \ {0}
  BY <1>1, EmptySeq
<1> QED
  BY <1>1, <1>2, ChatAssumption DEF Tokens

LEMMA AskTyped ==
  ASSUME scenario \in Scenarios, NEW r \in Request
  PROVE  /\ id(r) \in Id /\ Asks[r].max \in Nat /\ MaxSeqLen \in Nat
         /\ Asks[r].kind \in {"create", "chat", "destroy", "none"}
         /\ Asks[r].kind = "chat" => Asks[r].max > 0
  BY ChatAssumption DEF id, Asks, MaxSeqLen

LEMMA MessageTyped ==
  /\ \A r \in Request : User(r) \in Message /\ User(r).role = "user" /\ User(r).text = <<r, EndOfAsk>>
  /\ \A ids \in Seq(Plain) : Answer(ids) \in Message /\ Answer(ids).role = "assistant" /\ Answer(ids).text = ids
<1>1. ASSUME NEW r \in Request
      PROVE  User(r) \in Message /\ User(r).role = "user" /\ User(r).text = <<r, EndOfAsk>>
  <2>1. <<r, EndOfAsk>> \in Seq(Tokens)
    BY TokenSets
  <2> QED
    BY <2>1 DEF User, Message
<1>2. ASSUME NEW ids \in Seq(Plain)
      PROVE  Answer(ids) \in Message /\ Answer(ids).role = "assistant" /\ Answer(ids).text = ids
  <2>1. ids \in Seq(Tokens)
    BY TokenSets, SeqMonotonic
  <2> QED
    BY <2>1 DEF Answer, Message
<1> QED
  BY <1>1, <1>2

LEMMA SessionTyped ==
  ASSUME NEW s \in ChatSession
  PROVE  /\ s.history \in Seq(Message) /\ s.cached \in Seq(Tokens)
         /\ s.ended \in BOOLEAN /\ s.expired \in BOOLEAN /\ s.whole \in BOOLEAN
         /\ s # NoSession
  BY ChatAssumption DEF ChatSession

(* The session of a turn, and what is left of it. *)
LEMMA InTurn ==
  ASSUME CInv, NEW r \in Request, pc[r] \in {"turn", "closing"}
  PROVE  /\ id(r) \in Id /\ sessions[id(r)] \in ChatSession /\ holder = r
         /\ \A q \in Request \ {r} : pc[q] \notin {"turn", "closing"}
         /\ Asks[r].kind = "chat" /\ ~ poisoned
<1>1. id(r) \in Id
  BY AskTyped DEF CInv, ChatTyped
<1>2. sessions[id(r)] \in ChatSession
  BY <1>1 DEF CInv, ChatTyped, InHistory
<1>3. holder = r /\ \A q \in Request \ {r} : pc[q] \notin {"turn", "closing"}
  BY DEF CInv, HolderTrue
<1>4. Asks[r].kind = "chat" /\ ~ poisoned
  BY <1>3, TokenSets DEF CInv, HolderTrue
<1> QED
  BY <1>1, <1>2, <1>3, <1>4

(* No turn runs while nobody holds the mutex.                               *)
LEMMA NobodyInTurn ==
  ASSUME CInv, holder = NoOne
  PROVE  \A q \in Request : pc[q] \notin {"turn", "closing"}
  BY TokenSets DEF CInv, HolderTrue

(* A client's stream, when nothing of its turn changes. *)
LEMMA Elsewhere ==
  ASSUME NEW q \in Request, StreamGood(q), UNCHANGED scenario,
         pc'[q] = pc[q], got'[q] = got[q], channel'[q] = channel[q], pending'[q] = pending[q],
         reading'[q] = reading[q], poisoned => poisoned',
         pc[q] = "turn" => turn' = turn, pc[q] = "closing" => History(q)' = History(q)
  PROVE  StreamGood(q)'
<1>1. All(q)' = All(q) /\ Asks' = Asks
  BY DEF All, Asks
<1>2. ASSUME reading[q], StreamTrue(q) PROVE StreamTrue(q)'
  BY <1>1, <1>2 DEF StreamTrue
<1> QED
  BY <1>2 DEF StreamGood

LEMMA AllTyped ==
  ASSUME ChatTyped, NEW r \in Request
  PROVE  /\ All(r) \in Seq(Event) /\ got[r] \o channel[r] \in Seq(Event)
         /\ got[r] \in Seq(Event) /\ channel[r] \in Seq(Event) /\ pending[r] \in Seq(Event)
<1>1. got[r] \in Seq(Event) /\ channel[r] \in Seq(Event) /\ pending[r] \in Seq(Event)
  BY DEF ChatTyped
<1>2. got[r] \o channel[r] \in Seq(Event)
  BY <1>1, ConcatProperties
<1>3. All(r) \in Seq(Event)
  BY <1>1, <1>2, ConcatProperties DEF All
<1> QED
  BY <1>1, <1>2, <1>3

LEMMA EmptyStream ==
  Clean(Said(<<>>)) /\ Verdicts(<<>>) = {} /\ <<>> \o <<>> \o <<>> = <<>> /\ Clean(<<>>)
<1>1. <<>> \in Seq(Event) /\ Len(<<>>) = 0
  OBVIOUS
<1>2. Clean(<<>>)
  BY <1>1 DEF Clean
<1>3. Verdicts(<<>>) = {}
  BY <1>1, VerdictsConcat
<1>4. <<>> \o <<>> \o <<>> = <<>>
  BY <1>1, ConcatEmptySeq
<1> QED
  BY <1>2, <1>3, <1>4, SaidOne

(* The service starts in CInv.                                              *)
LEMMA ChatInit == Init => CInv
<1> SUFFICES ASSUME Init PROVE CInv
  OBVIOUS
<1>1. ChatTyped
  <2>1. NoTurn \in [delta : Seq(Tokens), ids : Seq(Plain), emitted : Nat]
    BY DEF NoTurn
  <2>2. [r \in Request |-> <<>>] \in [Request -> Seq(Event)]
    OBVIOUS
  <2>3. pc \in [Request -> {"new", "evicted", "turn", "closing", "failed", "over"}]
    BY DEF Init
  <2> QED
    BY <2>1, <2>2, <2>3 DEF Init, ChatTyped
<1>2. \A r \in Request : pc[r] = (IF Asks[r].kind = "none" THEN "over" ELSE "new") /\ All(r) = <<>> /\ pending[r] = <<>>
  BY EmptyStream DEF Init, All
<1>3. HolderTrue /\ InHistory /\ TurnClean
  BY <1>2, TokenSets DEF Init, HolderTrue, InHistory, TurnClean
<1>4. ASSUME NEW r \in Request PROVE StreamGood(r)
  <2>1. StreamTrue(r)
    <3>1. pc[r] = (IF Asks[r].kind = "none" THEN "over" ELSE "new") /\ All(r) = <<>>
      BY <1>2
    <3> QED
      BY <3>1, EmptyStream DEF StreamTrue
  <2> QED
    BY <1>2, <2>1 DEF StreamGood
<1> QED
  BY <1>1, <1>3, <1>4 DEF CInv, Streams

-----------------------------------------------------------------------------
(* Steps after which nobody holds the mutex: all turns are as they were.     *)
LEMMA MutexLeft ==
  ASSUME CInv, NEW r \in Request, UNCHANGED <<scenario, channel, reading, got>>, ChatTyped',
         \A q \in Request \ {r} : pc[q] \notin {"turn", "closing"}, holder' = NoOne,
         NEW v \in {"over", "evicted", "failed"}, pc' = [pc EXCEPT ![r] = v],
         v # "over" => Asks[r].kind = "chat", poisoned => poisoned',
         \A q \in Request \ {r} : pending'[q] = pending[q],
         StreamGood(r)'
  PROVE  CInv'
<1>1. Asks' = Asks
  BY DEF Asks
<1>2. pc'[r] = v /\ \A q \in Request \ {r} : pc'[q] = pc[q]
  BY DEF CInv, ChatTyped
<1>3. \A q \in Request : pc'[q] \notin {"turn", "closing"}
  BY <1>2
<1>4. HolderTrue'
  <2>1. \A q \in Request : pc'[q] \notin {"new", "over"} => Asks[q].kind = "chat"
    BY <1>2 DEF CInv, HolderTrue
  <2> QED
    BY <1>1, <1>3, <2>1, TokenSets DEF HolderTrue
<1>5. InHistory' /\ TurnClean'
  BY <1>3 DEF InHistory, TurnClean
<1>6. ASSUME NEW q \in Request PROVE StreamGood(q)'
  <2>1. CASE q = r
    BY <2>1
  <2>2. CASE q # r
    <3>1. StreamGood(q)
      BY DEF CInv, Streams
    <3> QED
      BY <1>2, <2>2, <3>1, Elsewhere
  <2> QED
    BY <2>1, <2>2
<1> QED
  BY <1>4, <1>5, <1>6 DEF CInv, Streams

(* lock().unwrap() fails. *)
LEMMA PanicsGood ==
  ASSUME CInv, NEW r \in Request, UNCHANGED scenario, Free, poisoned, pc[r] \in {"new", "evicted"}, Panics(r)
  PROVE  CInv'
<1>1. /\ pc' = [pc EXCEPT ![r] = "over"]
      /\ UNCHANGED <<sessions, holder, poisoned, turn, pending, channel, reading, got>>
  BY DEF Panics, wires
<1>2. ChatTyped'
  BY <1>1 DEF CInv, ChatTyped
<1>3. StreamGood(r)'
  <2>1. All(r)' = All(r) /\ pc'[r] = "over" /\ pending'[r] = <<>> /\ poisoned'
    BY <1>1 DEF All, CInv, ChatTyped, Streams, StreamGood
  <2>2. reading[r] => StreamTrue(r)
    BY DEF CInv, Streams, StreamGood
  <2>3. reading[r] => StreamTrue(r)'
    BY <2>1, <2>2 DEF StreamTrue
  <2> QED
    BY <1>1, <2>1, <2>3 DEF StreamGood
<1>4. \A q \in Request : pc[q] \notin {"turn", "closing"}
  BY NobodyInTurn DEF Free
<1>5. holder' = NoOne
  BY <1>1 DEF Free
<1> HIDE DEF CInv
<1> QED
  BY <1>1, <1>2, <1>3, <1>4, <1>5, MutexLeft

(* A request that is answered at once, or a chat that comes to its turn.     *)
LEMMA FreshTyped ==
  [history |-> <<>>, cached |-> <<>>, ended |-> TRUE, expired |-> FALSE, whole |-> TRUE] \in ChatSession
<1>1. <<>> \in Seq(Message) /\ <<>> \in Seq(Tokens)
  OBVIOUS
<1> QED
  BY <1>1 DEF ChatSession

(* create, destroy and evict_idle have the mutex: no turn is disturbed.     *)
LEMMA CreateGood ==
  ASSUME CInv, NEW r \in Request, UNCHANGED scenario, Create(r) \/ Destroy(r) \/ evict_idle(r)
  PROVE  CInv'
<1>1. /\ pc[r] = "new" /\ Free
      /\ Asks[r].kind = "chat" <=> evict_idle(r)
  BY DEF Create, Destroy, evict_idle
<1>2. CASE poisoned
  BY <1>1, <1>2, PanicsGood DEF Create, Destroy, evict_idle
<1>3. CASE ~ poisoned
  <2>1. /\ sessions' \in [Id -> ChatSession \cup {NoSession}]
        /\ UNCHANGED <<holder, poisoned, turn, pending, channel, reading, got>>
    BY <1>3, FreshTyped DEF Create, Destroy, evict_idle, wires, CInv, ChatTyped
  <2>2. PICK v \in {"over", "evicted"} :
          /\ pc' = [pc EXCEPT ![r] = v] /\ (v = "evicted" <=> Asks[r].kind = "chat")
    BY <1>1, <1>3 DEF Create, Destroy, evict_idle
  <2>3. ChatTyped'
    BY <2>1, <2>2 DEF CInv, ChatTyped
  <2>4. StreamGood(r)'
    <3>1. All(r)' = All(r) /\ pc'[r] = v /\ pending'[r] = <<>> /\ Asks' = Asks
      BY <1>1, <2>1, <2>2 DEF All, CInv, ChatTyped, Streams, StreamGood, Asks
    <3>2. reading[r] => StreamTrue(r)
      BY DEF CInv, Streams, StreamGood
    <3>3. reading[r] => StreamTrue(r)'
      BY <1>1, <2>2, <3>1, <3>2 DEF StreamTrue
    <3> QED
      BY <2>1, <3>1, <3>3 DEF StreamGood
  <2>5. \A q \in Request : pc[q] \notin {"turn", "closing"}
    BY <1>1, NobodyInTurn DEF Free
  <2>6. holder' = NoOne
    BY <1>1, <2>1 DEF Free
  <2> HIDE DEF CInv
  <2> QED
    BY <2>1, <2>2, <2>3, <2>4, <2>5, <2>6, MutexLeft
<1> QED
  BY <1>2, <1>3

-----------------------------------------------------------------------------
(* A turn that fails: an error, and nothing after it.                        *)
LEMMA ErrorSent ==
  ASSUME CInv, NEW r \in Request, UNCHANGED <<scenario, channel, reading, got>>,
         pc[r] \in {"evicted", "turn"}, pending[r] = <<>>,
         pc'[r] = "failed", pending'[r] = <<[kind |-> "error"]>>
  PROVE  StreamGood(r)'
<1>1. ASSUME reading[r] PROVE StreamTrue(r)'
  <2>1. StreamTrue(r)
    BY <1>1 DEF CInv, Streams, StreamGood
  <2>2. /\ got[r] \o channel[r] \in Seq(Event) /\ All(r) = got[r] \o channel[r]
        /\ [kind |-> "error"] \in Event /\ Words[[kind |-> "error"]] = <<>> /\ [kind |-> "error"].kind # "chunk"
        /\ <<[kind |-> "error"]>> \in Seq(Event)
    <3>1. got[r] \o channel[r] \in Seq(Event)
      BY AllTyped DEF CInv
    <3>2. All(r) = got[r] \o channel[r]
      BY <3>1, ConcatEmptySeq DEF All
    <3> QED
      BY <3>1, <3>2, WordsTyped
  <2>3. All(r)' = All(r) \o <<[kind |-> "error"]>>
    BY <2>2 DEF All
  <2>4. Verdicts(All(r)) = {}
    BY <2>1, EmptyStream DEF StreamTrue
  <2>5. Said(All(r) \o <<[kind |-> "error"]>>) = Said(All(r))
    <3>1. Said(All(r) \o <<[kind |-> "error"]>>) = Said(All(r)) \o Said(<<[kind |-> "error"]>>) /\ Said(All(r)) \in Seq(Plain)
      BY <2>2, SaidConcat
    <3>2. Said(<<[kind |-> "error"]>>) = <<>>
      BY <2>2, SaidOne
    <3> QED
      BY <3>1, <3>2, ConcatEmptySeq
  <2>6. Verdicts(All(r) \o <<[kind |-> "error"]>>) = {Len(All(r) \o <<[kind |-> "error"]>>)}
    BY <2>2, <2>4, VerdictLast
  <2>7. Clean(Said(All(r)))
    BY <2>1 DEF StreamTrue
  <2> HIDE DEF CInv
  <2> QED
    BY <2>3, <2>5, <2>6, <2>7 DEF StreamTrue
<1> QED
  BY <1>1 DEF StreamGood

(* ... its session keeps the question, and the mutex is released.           *)
LEMMA AbortGood ==
  ASSUME CInv, NEW r \in Request, UNCHANGED <<scenario, channel, reading, got, poisoned>>,
         pc[r] \in {"evicted", "turn"}, pending[r] = <<>>, Asks[r].kind = "chat",
         \A q \in Request \ {r} : pc[q] \notin {"turn", "closing"},
         NEW s \in ChatSession, Abort(r, s)
  PROVE  CInv'
<1>1. /\ sessions' = [sessions EXCEPT ![id(r)] = s]
      /\ holder' = NoOne /\ turn' = NoTurn /\ pc' = [pc EXCEPT ![r] = "failed"]
      /\ pending' = [pending EXCEPT ![r] = <<[kind |-> "error"]>>]
  BY DEF Abort
<1>2. <<[kind |-> "error"]>> \in Seq(Event) /\ NoTurn \in [delta : Seq(Tokens), ids : Seq(Plain), emitted : Nat]
  BY WordsTyped DEF NoTurn
<1>3. ChatTyped'
  BY <1>1, <1>2 DEF CInv, ChatTyped
<1>4. pc'[r] = "failed" /\ pending'[r] = <<[kind |-> "error"]>> /\ \A q \in Request \ {r} : pending'[q] = pending[q]
  BY <1>1 DEF CInv, ChatTyped
<1> HIDE DEF CInv
<1>5. StreamGood(r)'
  BY <1>4, ErrorSent
<1> QED
  BY <1>1, <1>3, <1>4, <1>5, MutexLeft

-----------------------------------------------------------------------------
(* A token, and what of the answer it lets out *)

Kept(ids) == IF Ended(ids) THEN SubSeq(ids, 1, Len(ids) - 1) ELSE ids
SentBy(ids, e) ==
  IF e < Safe(ids) THEN <<Chunk(SubSeq(Text(ids), e + 1, Safe(ids)))>> ELSE <<>>
SpokenBy(ids, e) == IF e < Safe(ids) THEN Safe(ids) ELSE e

LEMMA OneElement ==
  ASSUME NEW x
  PROVE  DOMAIN <<x>> = {1} /\ <<x>>[1] = x
OBVIOUS

(* Two sequences that begin alike have the same parts there.                 *)
LEMMA SameStart ==
  ASSUME NEW S, NEW a \in Seq(S), NEW b \in Seq(S), NEW N \in Nat, N <= Len(a), N <= Len(b),
         \A k \in 1..N : a[k] = b[k], NEW i \in 1..(N + 1), NEW j \in 0..N
  PROVE  SubSeq(a, i, j) = SubSeq(b, i, j) /\ SubSeq(a, i, j) \in Seq(S)
<1>1. i \in Int /\ j \in Int /\ \A k \in i..j : k \in 1..N /\ a[k] \in S /\ b[k] \in S
  OBVIOUS
<1>2. /\ SubSeq(a, i, j) \in Seq(S) /\ Len(SubSeq(a, i, j)) = (IF i <= j THEN j - i + 1 ELSE 0)
      /\ \A k \in 1..(j - i + 1) : SubSeq(a, i, j)[k] = a[i + k - 1]
  BY <1>1, SubSeqProperties
<1>3. /\ SubSeq(b, i, j) \in Seq(S) /\ Len(SubSeq(b, i, j)) = (IF i <= j THEN j - i + 1 ELSE 0)
      /\ \A k \in 1..(j - i + 1) : SubSeq(b, i, j)[k] = b[i + k - 1]
  BY <1>1, SubSeqProperties
<1>4. ASSUME NEW k \in 1..Len(SubSeq(a, i, j)) PROVE SubSeq(a, i, j)[k] = SubSeq(b, i, j)[k]
  <2>1. k \in 1..(j - i + 1) /\ i + k - 1 \in 1..N
    BY <1>2
  <2> QED
    BY <1>2, <1>3, <2>1
<1>5. Len(SubSeq(a, i, j)) = Len(SubSeq(b, i, j))
  BY <1>2, <1>3
<1>6. SubSeq(a, i, j) = SubSeq(b, i, j)
  BY <1>2, <1>3, <1>4, <1>5, SeqEqual
<1> QED
  BY <1>2, <1>6

LEMMA Adjacent ==
  ASSUME NEW S, NEW a \in Seq(S), NEW e \in 0..Len(a), NEW m \in e..Len(a)
  PROVE  /\ SubSeq(a, 1, e) \o SubSeq(a, e + 1, m) = SubSeq(a, 1, m)
         /\ SubSeq(a, 1, e) \in Seq(S) /\ SubSeq(a, e + 1, m) \in Seq(S)
<1>1. Len(a) \in Nat /\ 1 \in 1..(Len(a) + 1) /\ e \in (1 - 1)..Len(a) /\ m \in e..Len(a)
  OBVIOUS
<1>2. SubSeq(a, 1, e) \o SubSeq(a, e + 1, m) = SubSeq(a, 1, m)
  BY <1>1, ConcatAdjacentSubSeq
<1>3. \A k \in 1..Len(a) : a[k] \in S
  OBVIOUS
<1>4. e \in Int /\ m \in Int /\ e + 1 \in Int /\ (\A k \in 1..e : a[k] \in S) /\ (\A k \in (e + 1)..m : a[k] \in S)
  BY <1>1, <1>3
<1> QED
  BY <1>2, <1>4, SubSeqProperties

(* One more token has its text, EOS none.                                   *)
LEMMA TextIs ==
  ASSUME NEW ids \in Seq(Plain), NEW t \in Plain \cup {Eos}
  PROVE  /\ Text(Append(ids, t)) = IF t \in Plain THEN Append(ids, t) ELSE ids
         /\ ids \in Seq(Plain \cup {Eos})
<1>1. ids \in Seq(Plain \cup {Eos}) /\ \A n \in 1..Len(ids) : ids[n] \in Plain
  BY SeqMonotonic
<1>2. Those(ids, Plain) = ids
  BY <1>1, ThoseAll
<1>3. Those(Append(ids, t), Plain) = IF t \in Plain THEN Append(Those(ids, Plain), t) ELSE Those(ids, Plain)
  BY <1>1, ThoseAppend
<1> QED
  BY <1>1, <1>2, <1>3 DEF Text

(* What is kept of an answer is in order, and holds what may be let out. *)
LEMMA KeptIs ==
  ASSUME NEW ids0 \in Seq(Plain), Clean(ids0), NEW t \in Plain \cup {Eos}
  PROVE  LET ids == Append(ids0, t) IN
         /\ Kept(ids) \in Seq(Plain) /\ Clean(Kept(ids))
         /\ ~ Ended(ids) => Kept(ids) = ids
         /\ Ended(ids) => Kept(ids) = ids0
         /\ Len(ids) = Len(ids0) + 1
         /\ Text(ids) \in Seq(Plain) /\ Len(Kept(ids)) <= Len(Text(ids))
         /\ \A k \in 1..Len(Kept(ids)) : Text(ids)[k] = Kept(ids)[k]
         /\ Len(ids0) <= Len(Kept(ids)) /\ \A k \in 1..Len(ids0) : ids0[k] = Kept(ids)[k]
         /\ Safe(ids) \in Nat /\ Safe(ids) <= Len(Kept(ids))
<1> DEFINE ids == Append(ids0, t)
<1>1. /\ ids0 \in Seq(Plain \cup {Eos}) /\ ids \in Seq(Plain \cup {Eos})
      /\ Len(ids) = Len(ids0) + 1 /\ Len(ids0) \in Nat
      /\ (\A k \in 1..Len(ids0) : ids[k] = ids0[k]) /\ ids[Len(ids0) + 1] = t
  BY SeqMonotonic, AppendProperties
<1>2. Text(ids) = IF t \in Plain THEN ids ELSE ids0
  BY TextIs
<1>3. t \in Plain => ids \in Seq(Plain)
  BY AppendProperties
<1>4. Stop \in Seq(Plain) /\ Len(Stop) \in Nat \ {0}
  BY TokenSets
<1>5. SubSeq(ids, 1, Len(ids) - 1) = ids0
  <2>1. \A k \in 1..Len(ids0) : ids[k] = ids0[k] /\ ids[k] \in Plain \cup {Eos}
    BY <1>1
  <2>2. Len(ids) - 1 = Len(ids0) /\ Len(ids0) <= Len(ids) /\ 1 \in 1..(Len(ids0) + 1) /\ Len(ids0) \in 0..Len(ids0)
    BY <1>1
  <2> HIDE DEF ids
  <2>3. SubSeq(ids, 1, Len(ids0)) = SubSeq(ids0, 1, Len(ids0))
    BY <1>1, <2>1, <2>2, SameStart
  <2>4. SubSeq(ids0, 1, Len(ids0)) = ids0
    BY <1>1, AllOfIt
  <2> QED
    BY <2>2, <2>3, <2>4
<1> HIDE DEF ids
<1>6. CASE Ended(ids)
  <2>1. Kept(ids) = ids0
    BY <1>5, <1>6 DEF Kept
  <2>2. Text(ids) \in Seq(Plain) /\ Len(ids0) <= Len(Text(ids)) /\ Len(Text(ids)) <= Len(ids0) + 1
        /\ \A k \in 1..Len(ids0) : Text(ids)[k] = ids0[k]
    BY <1>1, <1>2, <1>3
  <2>3. Safe(ids) \in Nat /\ Safe(ids) <= Len(ids0)
    BY <1>1, <1>4, <2>2 DEF Safe
  <2> QED
    BY <1>1, <1>6, <2>1, <2>2, <2>3 DEF ids
<1>7. CASE ~ Ended(ids)
  <2>1. t # Eos
    <3>1. ids[Len(ids)] = t
      BY <1>1
    <3> QED
      BY <1>7, <3>1 DEF Ended
  <2>2. t \in Plain /\ ids \in Seq(Plain) /\ Text(ids) = ids /\ Kept(ids) = ids
    BY <1>2, <1>3, <1>7, <2>1 DEF Kept
  <2>3. Clean(ids)
    <3>1. ASSUME NEW i \in 1..(Len(ids0) + 1) PROVE SubSeq(ids, i, Len(ids0) + 1) # Stop
      BY <1>1, <1>7 DEF Ended
    <3> QED
      BY <2>2, <3>1, CleanGrows DEF ids
  <2>4. Safe(ids) \in Nat /\ Safe(ids) <= Len(ids)
    BY <1>1, <1>4, <2>2 DEF Safe
  <2> QED
    BY <1>1, <1>7, <2>2, <2>3, <2>4 DEF ids
<1> QED
  BY <1>6, <1>7

(* on_token lets out all but the last Len(Stop) tokens, so no more than is  *)
(* kept.                                                                    *)
LEMMA SentIs ==
  ASSUME NEW ids0 \in Seq(Plain), Clean(ids0), NEW t \in Plain \cup {Eos}, NEW e \in 0..Len(ids0)
  PROVE  LET ids == Append(ids0, t) IN
         /\ SentBy(ids, e) \in Seq(Event) /\ Verdicts(SentBy(ids, e)) = {}
         /\ SpokenBy(ids, e) \in 0..Len(Kept(ids))
         /\ SubSeq(ids0, 1, e) \o Said(SentBy(ids, e)) = SubSeq(Kept(ids), 1, SpokenBy(ids, e))
<1> DEFINE ids == Append(ids0, t)
           kept == Kept(ids)
           text == Text(ids)
<1>1. /\ kept \in Seq(Plain) /\ text \in Seq(Plain) /\ Len(kept) <= Len(text)
      /\ \A k \in 1..Len(kept) : text[k] = kept[k]
      /\ Len(ids0) <= Len(kept) /\ \A k \in 1..Len(ids0) : ids0[k] = kept[k]
      /\ Safe(ids) \in Nat /\ Safe(ids) <= Len(kept)
  BY KeptIs
<1>2. Len(ids0) \in Nat /\ e \in Nat /\ e <= Len(ids0) /\ Len(kept) \in Nat /\ Len(text) \in Nat
  BY <1>1
<1> HIDE DEF ids, kept, text
<1>3. SubSeq(ids0, 1, e) = SubSeq(kept, 1, e) /\ SubSeq(kept, 1, e) \in Seq(Plain)
  <2>1. Len(ids0) <= Len(ids0) /\ 1 \in 1..(Len(ids0) + 1) /\ e \in 0..Len(ids0)
    BY <1>2
  <2> QED
    BY <1>1, <1>2, <2>1, SameStart
<1>4. CASE e < Safe(ids)
  <2> DEFINE part == SubSeq(text, e + 1, Safe(ids))
  <2>1. part = SubSeq(kept, e + 1, Safe(ids)) /\ part \in Seq(Plain)
    <3>1. e + 1 \in 1..(Len(kept) + 1) /\ Safe(ids) \in 0..Len(kept) /\ Len(kept) <= Len(kept)
      BY <1>1, <1>2, <1>4
    <3> QED
      BY <1>1, <1>2, <3>1, SameStart
  <2>2. SentBy(ids, e) = <<Chunk(part)>> /\ SpokenBy(ids, e) = Safe(ids)
    BY <1>4 DEF SentBy, SpokenBy, text
  <2>3. SubSeq(kept, 1, e) \o SubSeq(kept, e + 1, Safe(ids)) = SubSeq(kept, 1, Safe(ids))
    <3>1. e \in 0..Len(kept) /\ Safe(ids) \in e..Len(kept)
      BY <1>1, <1>2, <1>4
    <3> QED
      BY <1>1, <3>1, Adjacent
  <2> HIDE DEF part
  <2>4. Chunk(part) \in Event /\ Words[Chunk(part)] = part /\ Chunk(part).kind = "chunk"
    BY <2>1, WordsTyped
  <2>5. Said(<<Chunk(part)>>) = part /\ <<Chunk(part)>> \in Seq(Event)
    BY <2>4, SaidOne
  <2>6. Verdicts(<<Chunk(part)>>) = {}
    <3>1. DOMAIN <<Chunk(part)>> = {1} /\ <<Chunk(part)>>[1] = Chunk(part)
      BY OneElement
    <3> QED
      BY <2>4, <3>1 DEF Verdicts
  <2>7. Safe(ids) \in 0..Len(kept)
    BY <1>1, <1>2
  <2> QED
    BY <1>3, <2>1, <2>2, <2>3, <2>5, <2>6, <2>7 DEF ids, kept
<1>5. CASE ~ (e < Safe(ids))
  <2>1. SentBy(ids, e) = <<>> /\ SpokenBy(ids, e) = e
    BY <1>5 DEF SentBy, SpokenBy
  <2>2. <<>> \in Seq(Event) /\ Said(<<>>) = <<>> /\ Verdicts(<<>>) = {}
    BY SaidOne, EmptyStream
  <2>3. SubSeq(kept, 1, e) \o <<>> = SubSeq(kept, 1, e)
    BY <1>3, ConcatEmptySeq
  <2>4. e \in 0..Len(kept)
    BY <1>1, <1>2
  <2> QED
    BY <1>3, <2>1, <2>2, <2>3, <2>4 DEF ids, kept
<1> QED
  BY <1>4, <1>5

(* The tail of an answer, and the verdict.                                   *)
TailOf(kept, start) == IF start < Len(kept) THEN <<Chunk(SubSeq(kept, start + 1, Len(kept)))>> ELSE <<>>
(* What was let out and the tail spell the answer.                          *)
LEMMA TailIs ==
  ASSUME NEW kept \in Seq(Plain), NEW m \in 0..Len(kept)
  PROVE  /\ TailOf(kept, m) \in Seq(Event) /\ Verdicts(TailOf(kept, m)) = {}
         /\ SubSeq(kept, 1, m) \o Said(TailOf(kept, m)) = kept
<1>1. Len(kept) \in Nat /\ SubSeq(kept, 1, Len(kept)) = kept
  BY AllOfIt, Zenon
<1>2. /\ SubSeq(kept, 1, m) \o SubSeq(kept, m + 1, Len(kept)) = kept
      /\ SubSeq(kept, 1, m) \in Seq(Plain) /\ SubSeq(kept, m + 1, Len(kept)) \in Seq(Plain)
  <2>1. Len(kept) \in m..Len(kept)
    BY <1>1
  <2> QED
    BY <1>1, <2>1, Adjacent, Zenon
<1>3. CASE m < Len(kept)
  <2> DEFINE part == SubSeq(kept, m + 1, Len(kept))
  <2>1. part \in Seq(Plain)
    BY <1>2
  <2>2. TailOf(kept, m) = <<Chunk(part)>>
    BY <1>3 DEF TailOf
  <2> HIDE DEF part
  <2>4. Chunk(part) \in Event /\ Words[Chunk(part)] = part /\ Chunk(part).kind = "chunk"
    BY <2>1, WordsTyped
  <2>5. Said(<<Chunk(part)>>) = part /\ <<Chunk(part)>> \in Seq(Event)
    BY <2>4, SaidOne
  <2>6. Verdicts(<<Chunk(part)>>) = {}
    <3>1. DOMAIN <<Chunk(part)>> = {1} /\ <<Chunk(part)>>[1] = Chunk(part)
      BY OneElement
    <3> QED
      BY <2>4, <3>1 DEF Verdicts
  <2> QED
    BY <1>2, <2>2, <2>5, <2>6 DEF part
<1>4. CASE ~ (m < Len(kept))
  <2>1. TailOf(kept, m) = <<>> /\ m = Len(kept)
    <3>1. m = Len(kept)
      <4>1. m \in 0..Len(kept) /\ Len(kept) \in Nat /\ ~ (m < Len(kept))
        BY <1>1, <1>4
      <4> HIDE DEF TailOf
      <4> QED
        BY ONLY <4>1
    <3>2. TailOf(kept, m) = <<>>
      BY <1>4 DEF TailOf
    <3> QED
      BY <3>1, <3>2
  <2>2. <<>> \in Seq(Event) /\ Said(<<>>) = <<>> /\ Verdicts(<<>>) = {}
    BY SaidOne, EmptyStream
  <2>3. kept \o <<>> = kept
    BY ConcatEmptySeq
  <2>4. SubSeq(kept, 1, m) = kept
    BY <1>1, <2>1
  <2> QED
    BY <2>1, <2>2, <2>3, <2>4, Zenon
<1> QED
  BY <1>3, <1>4, Zenon

-----------------------------------------------------------------------------
(* The steps of a turn *)

(* Begin, with or without room for the conversation. *)
AskedOf(r) ==
  LET s == sessions[id(r)]
      d == Delta(s, render_full(s.history), render_full(Append(s.history, User(r))))
  IN [s EXCEPT !.history = Append(s.history, User(r)), !.cached = d.base]
DeltaOf(r) ==
  LET s == sessions[id(r)]
  IN Delta(s, render_full(s.history), render_full(Append(s.history, User(r))))

(* What the first step of a turn writes is a session.                       *)
LEMMA BeginTyped ==
  ASSUME ChatTyped, NEW r \in Request, sessions[id(r)] # NoSession
  PROVE  /\ id(r) \in Id /\ sessions[id(r)] \in ChatSession /\ AskedOf(r) \in ChatSession
         /\ DeltaOf(r).base \in Seq(Tokens) /\ DeltaOf(r).delta \in Seq(Tokens)
         /\ AskedOf(r).history = Append(sessions[id(r)].history, User(r))
         /\ AskedOf(r).cached = DeltaOf(r).base
         /\ AskedOf(r).ended = sessions[id(r)].ended /\ AskedOf(r).whole = sessions[id(r)].whole
<1>1. id(r) \in Id
  BY AskTyped DEF ChatTyped
<1>2. sessions[id(r)] \in ChatSession
  BY <1>1 DEF ChatTyped
<1> DEFINE s == sessions[id(r)]
           h == Append(s.history, User(r))
<1>3. s.history \in Seq(Message) /\ s.cached \in Seq(Tokens)
  BY <1>2, SessionTyped
<1>4. User(r) \in Message
  BY MessageTyped
<1>5. h \in Seq(Message) /\ render_full(h) \in Seq(Tokens)
  <2>1. h \in Seq(Message)
    BY <1>3, <1>4, RenderAppend
  <2> HIDE DEF h
  <2> QED
    BY <1>4, <2>1, RenderAppend
<1>6. DeltaOf(r) = Delta(s, render_full(s.history), render_full(h))
  BY DEF DeltaOf
<1> HIDE DEF s, h
<1>7. DeltaOf(r).base \in Seq(Tokens) /\ DeltaOf(r).delta \in Seq(Tokens)
  <2>1. render_full(s.history) \in Seq(Tokens) /\ Len(render_full(s.history)) \in Nat /\ Len(render_full(h)) \in Nat
    BY <1>3, <1>4, <1>5, RenderAppend
  <2>2. \A k \in (Len(render_full(s.history)) + 1)..Len(render_full(h)) : render_full(h)[k] \in Tokens
    BY <1>5, <2>1
  <2>3. SubSeq(render_full(h), Len(render_full(s.history)) + 1, Len(render_full(h))) \in Seq(Tokens)
    BY <2>1, <2>2, SubSeqProperties
  <2>4. <<>> \in Seq(Tokens)
    OBVIOUS
  <2> QED
    BY <1>3, <1>5, <1>6, <2>3, <2>4 DEF Delta
<1>8. /\ AskedOf(r) = [s EXCEPT !.history = h, !.cached = DeltaOf(r).base]
      /\ s \in ChatSession
  BY <1>2 DEF AskedOf, DeltaOf, s, h
<1>9. AskedOf(r) \in ChatSession /\ AskedOf(r).history = h /\ AskedOf(r).cached = DeltaOf(r).base
      /\ AskedOf(r).ended = s.ended /\ AskedOf(r).whole = s.whole
  BY <1>5, <1>7, <1>8 DEF ChatSession
<1> QED
  BY <1>1, <1>7, <1>8, <1>9 DEF s, h

(* Begin, case by case.                                                     *)
LEMMA BeginCases ==
  ASSUME NEW r \in Request, Begin(r)
  PROVE  /\ pc[r] = "evicted" /\ Free
         /\ \/ poisoned /\ Panics(r)
            \/ /\ ~ poisoned /\ sessions[id(r)] = NoSession
               /\ pc' = [pc EXCEPT ![r] = "failed"]
               /\ pending' = [pending EXCEPT ![r] = <<[kind |-> "error"]>>]
               /\ UNCHANGED <<sessions, holder, poisoned, turn, channel, reading, got, troubles>>
            \/ /\ ~ poisoned /\ sessions[id(r)] # NoSession
               /\ Len(DeltaOf(r).base) + Len(DeltaOf(r).delta) <= MaxSeqLen
               /\ sessions' = [sessions EXCEPT ![id(r)] = AskedOf(r)]
               /\ holder' = r
               /\ turn' = [delta |-> DeltaOf(r).delta, ids |-> <<>>, emitted |-> 0]
               /\ pc' = [pc EXCEPT ![r] = "turn"]
               /\ UNCHANGED <<poisoned, wires, troubles>>
            \/ /\ ~ poisoned /\ sessions[id(r)] # NoSession
               /\ Len(DeltaOf(r).base) + Len(DeltaOf(r).delta) > MaxSeqLen \/ failures < scenario.max_failures
               /\ Abort(r, AskedOf(r))
               /\ UNCHANGED <<poisoned, channel, reading, got>>
  BY DEF Begin, DeltaOf, AskedOf

(* A turn starts: the question is in the history, and nothing is sent.      *)
LEMMA BeginGood ==
  ASSUME CInv, NEW r \in Request, UNCHANGED scenario, Begin(r)
  PROVE  CInv'
<1>1. pc[r] = "evicted" /\ Free /\ Asks[r].kind = "chat" /\ pending[r] = <<>>
  BY BeginCases DEF CInv, HolderTrue, Streams, StreamGood
<1>2. \A q \in Request : pc[q] \notin {"turn", "closing"}
  BY <1>1, NobodyInTurn DEF Free
<1>3. CASE poisoned /\ Panics(r)
  BY <1>1, <1>3, PanicsGood
<1>4. CASE /\ pc' = [pc EXCEPT ![r] = "failed"]
           /\ pending' = [pending EXCEPT ![r] = <<[kind |-> "error"]>>]
           /\ UNCHANGED <<sessions, holder, poisoned, turn, channel, reading, got, troubles>>
  <2>1. <<[kind |-> "error"]>> \in Seq(Event)
    BY WordsTyped
  <2>2. ChatTyped'
    BY <1>4, <2>1 DEF CInv, ChatTyped
  <2>3. pc'[r] = "failed" /\ pending'[r] = <<[kind |-> "error"]>> /\ \A q \in Request \ {r} : pending'[q] = pending[q]
    BY <1>4 DEF CInv, ChatTyped
  <2> HIDE DEF CInv
  <2>4. StreamGood(r)'
    BY <1>1, <1>4, <2>3, ErrorSent
  <2>5. holder' = NoOne
    BY <1>1, <1>4 DEF Free
  <2> QED
    BY <1>1, <1>2, <1>4, <2>2, <2>3, <2>4, <2>5, MutexLeft
<1>5. CASE /\ ~ poisoned /\ sessions[id(r)] # NoSession
           /\ sessions' = [sessions EXCEPT ![id(r)] = AskedOf(r)]
           /\ holder' = r
           /\ turn' = [delta |-> DeltaOf(r).delta, ids |-> <<>>, emitted |-> 0]
           /\ pc' = [pc EXCEPT ![r] = "turn"]
           /\ UNCHANGED <<poisoned, wires, troubles>>
  <2>1. /\ id(r) \in Id /\ sessions[id(r)] \in ChatSession /\ AskedOf(r) \in ChatSession
        /\ DeltaOf(r).delta \in Seq(Tokens)
        /\ AskedOf(r).history = Append(sessions[id(r)].history, User(r))
    BY <1>5, BeginTyped DEF CInv
  <2>2. /\ turn' \in [delta : Seq(Tokens), ids : Seq(Plain), emitted : Nat]
        /\ turn'.ids = <<>> /\ turn'.emitted = 0
    BY <1>5, <2>1
  <2>3. ChatTyped'
    BY <1>5, <2>1, <2>2 DEF CInv, ChatTyped, wires
  <2>4. pc'[r] = "turn" /\ sessions'[id(r)] = AskedOf(r) /\ \A q \in Request \ {r} : pc'[q] = pc[q] /\ pc'[q] \notin {"turn", "closing"}
    BY <1>2, <1>5, <2>1 DEF CInv, ChatTyped
  <2>5. Asks' = Asks /\ id(r)' = id(r)
    BY DEF Asks, id
  <2>6. HolderTrue'
    <3>1. \A q \in Request : pc'[q] \in {"turn", "closing"} <=> holder' = q
      BY <1>5, <2>4
    <3>2. ~ poisoned'
      BY <1>5
    <3>3. \A q \in Request : pc'[q] \notin {"new", "over"} => Asks'[q].kind = "chat"
      BY <1>1, <2>4, <2>5 DEF CInv, HolderTrue
    <3> QED
      BY <3>1, <3>2, <3>3 DEF HolderTrue
  <2>7. InHistory'
    <3>1. History(r)' = Append(sessions[id(r)].history, User(r)) /\ sessions'[id(r)] # NoSession
      BY <2>1, <2>4, <2>5, SessionTyped DEF History
    <3>2. sessions[id(r)].history \in Seq(Message) /\ User(r) \in Message
      BY <2>1, SessionTyped, MessageTyped
    <3>3. Len(History(r)') > 0 /\ History(r)'[Len(History(r)')] = User(r)
      BY <3>1, <3>2, AppendProperties
    <3> QED
      BY <2>4, <2>5, <3>1, <3>3 DEF InHistory, User
  <2>8. TurnClean'
    <3>1. Len(<<>>) = 0 /\ Asks[r].max \in Nat /\ Asks[r].max > 0
      BY <1>1, AskTyped DEF CInv, ChatTyped
    <3>2. Clean(turn'.ids) /\ turn'.emitted <= Len(turn'.ids) /\ Len(turn'.ids) < Asks'[r].max
      BY <2>2, <2>5, <3>1, EmptyStream
    <3> QED
      BY <2>4, <3>2 DEF TurnClean
  <2>9. ASSUME NEW q \in Request PROVE StreamGood(q)'
    <3>0. StreamGood(q)
      BY DEF CInv, Streams
    <3>1. CASE q = r
      <4>1. All(r)' = All(r)
        BY <1>5 DEF All, wires
      <4>2. ASSUME reading[r] PROVE StreamTrue(r)'
        <5>1. All(r) = <<>>
          BY <1>1, <3>0, <3>1, <4>2 DEF StreamGood, StreamTrue
        <5>2. SubSeq(<<>>, 1, 0) = <<>> /\ Said(<<>>) = <<>>
          BY SubSeqEmpty, SaidOne
        <5>3. Said(All(r)') = SubSeq(turn'.ids, 1, turn'.emitted)
          BY <2>2, <4>1, <5>1, <5>2
        <5> QED
          BY <2>4, <4>1, <5>1, <5>3, EmptyStream DEF StreamTrue
      <4>3. reading' = reading
        BY <1>5 DEF wires
      <4> QED
        BY <2>4, <3>1, <4>2, <4>3 DEF StreamGood
    <3>2. CASE q # r
      <4>1. pc'[q] = pc[q] /\ pc[q] \notin {"turn", "closing"}
        BY <1>2, <2>4, <3>2
      <4>2. got'[q] = got[q] /\ channel'[q] = channel[q] /\ pending'[q] = pending[q] /\ reading'[q] = reading[q] /\ poisoned' = poisoned
        BY <1>5 DEF wires
      <4> QED
        BY <3>0, <4>1, <4>2, Elsewhere
    <3> QED
      BY <3>1, <3>2
  <2> QED
    BY <2>3, <2>6, <2>7, <2>8, <2>9 DEF CInv, Streams
<1>6. CASE /\ ~ poisoned /\ sessions[id(r)] # NoSession
           /\ Abort(r, AskedOf(r))
           /\ UNCHANGED <<poisoned, channel, reading, got>>
  <2>1. AskedOf(r) \in ChatSession
    BY <1>6, BeginTyped DEF CInv
  <2> QED
    BY <1>1, <1>2, <1>6, <2>1, AbortGood
<1> QED
  BY <1>3, <1>4, <1>5, <1>6, BeginCases

(* What a token does, in the terms above. *)
FullAfter(r, t) ==
  Len(sessions[id(r)].cached) + Len(turn.delta) + Len(Append(turn.ids, t)) > MaxSeqLen
Finishes(r, t) ==
  LET ids == Append(turn.ids, t) IN Ended(ids) \/ Len(ids) = Asks[r].max \/ FullAfter(r, t)
EosEmitted(r, ids) == Len(Kept(ids)) < Asks[r].max \/ Ended(ids)
Written(r, ids) ==
  LET s   == sessions[id(r)]
      all == s.cached \o turn.delta \o Kept(ids)
  IN [s EXCEPT !.history = Append(@, Answer(Kept(ids))), !.cached = SubSeq(all, 1, Len(all) - 1),
               !.ended = EosEmitted(r, ids), !.expired = FALSE, !.whole = Ended(ids)]
Done(r, ids) == [kind |-> "done", ended |-> EosEmitted(r, ids)]

(* ... a token finishes the answer, or goes on with it.                     *)
LEMMA TokenCases ==
  ASSUME CInv, NEW r \in Request, Token(r)
  PROVE  /\ pc[r] = "turn" /\ pending[r] = <<>>
         /\ UNCHANGED <<holder, poisoned, channel, reading, got>>
         /\ \E t \in Plain \cup {Eos} :
              \/ /\ Finishes(r, t)
                 /\ sessions' = [sessions EXCEPT ![id(r)] = Written(r, Append(turn.ids, t))]
                 /\ pending' = [pending EXCEPT ![r] =
                      SentBy(Append(turn.ids, t), turn.emitted)
                      \o TailOf(Kept(Append(turn.ids, t)), SpokenBy(Append(turn.ids, t), turn.emitted))
                      \o <<Done(r, Append(turn.ids, t))>>]
                 /\ pc' = [pc EXCEPT ![r] = "closing"] /\ turn' = NoTurn
              \/ /\ ~ Finishes(r, t)
                 /\ turn' = [turn EXCEPT !.ids = Append(turn.ids, t),
                                         !.emitted = SpokenBy(Append(turn.ids, t), turn.emitted)]
                 /\ pending' = [pending EXCEPT ![r] = SentBy(Append(turn.ids, t), turn.emitted)]
                 /\ UNCHANGED <<sessions, pc>>
<1>1. /\ pc[r] = "turn" /\ pending[r] = <<>>
      /\ UNCHANGED <<holder, poisoned, channel, reading, got>>
  BY DEF Token
<1>2. /\ turn \in [delta : Seq(Tokens), ids : Seq(Plain), emitted : Nat]
      /\ Clean(turn.ids) /\ turn.emitted <= Len(turn.ids)
  BY <1>1 DEF CInv, ChatTyped, TurnClean
<1>3. turn.ids \in Seq(Plain) /\ turn.emitted \in 0..Len(turn.ids)
  BY <1>2
<1>4. PICK t \in Plain \cup {Eos} :
         LET ids  == Append(turn.ids, t)
             sent == IF turn.emitted < Safe(ids)
                     THEN <<Chunk(SubSeq(Text(ids), turn.emitted + 1, Safe(ids)))>> ELSE <<>>
             full == Len(sessions[id(r)].cached) + Len(turn.delta) + Len(ids) > MaxSeqLen
         IN IF Ended(ids) \/ Len(ids) = Asks[r].max \/ full
            THEN Finish(r, ids, sent)
            ELSE /\ turn' = [turn EXCEPT !.ids = ids,
                                         !.emitted = IF sent = <<>> THEN @ ELSE Safe(ids)]
                 /\ pending' = [pending EXCEPT ![r] = sent]
                 /\ UNCHANGED <<sessions, pc>>
  BY Zenon DEF Token
<1> DEFINE ids == Append(turn.ids, t)
           e == turn.emitted
           sent == SentBy(ids, e)
<1>5. IF Finishes(r, t) THEN Finish(r, ids, sent)
      ELSE /\ turn' = [turn EXCEPT !.ids = ids, !.emitted = IF sent = <<>> THEN e ELSE Safe(ids)]
           /\ pending' = [pending EXCEPT ![r] = sent]
           /\ UNCHANGED <<sessions, pc>>
  BY <1>4 DEF Finishes, FullAfter, SentBy
<1>6. (IF sent = <<>> THEN e ELSE Safe(ids)) = SpokenBy(ids, e)
  <2>1. CASE e < Safe(ids)
    <3>1. sent # <<>>
      BY <2>1 DEF SentBy
    <3> QED
      BY <2>1, <3>1 DEF SpokenBy
  <2>2. CASE ~ (e < Safe(ids))
    BY <2>2 DEF SentBy, SpokenBy
  <2> QED
    BY <2>1, <2>2
<1>7. SpokenBy(ids, e) \in 0..Len(Kept(ids)) /\ Len(Kept(ids)) \in Nat
  <2>1. SpokenBy(ids, e) \in 0..Len(Kept(ids))
    BY <1>2, <1>3, SentIs
  <2>2. Kept(ids) \in Seq(Plain)
    BY <1>2, <1>3, KeptIs
  <2> QED
    BY <2>1, <2>2
<1>8. MinOf(IF sent = <<>> THEN turn.emitted ELSE Safe(ids), Len(Kept(ids))) = SpokenBy(ids, e)
  <2>1. MinOf(SpokenBy(ids, e), Len(Kept(ids))) = SpokenBy(ids, e)
    BY <1>7 DEF MinOf
  <2> QED
    BY <1>6, <2>1
<1> HIDE DEF ids, sent
<1>9. CASE Finishes(r, t)
  <2>1. Finish(r, ids, sent)
    BY <1>5, <1>9
  <2>2. /\ sessions' = [sessions EXCEPT ![id(r)] = Written(r, ids)]
        /\ pending' = [pending EXCEPT ![r] = sent \o TailOf(Kept(ids), SpokenBy(ids, e)) \o <<Done(r, ids)>>]
        /\ pc' = [pc EXCEPT ![r] = "closing"] /\ turn' = NoTurn
    BY <1>8, <2>1 DEF Finish, Kept, Written, EosEmitted, TailOf, Done
  <2> QED
    BY <1>1, <1>9, <2>2, Zenon DEF ids, sent
<1>10. CASE ~ Finishes(r, t)
  BY <1>1, <1>5, <1>6, <1>10, Zenon DEF ids, sent
<1> QED
  BY <1>9, <1>10, Zenon

(* All that is known of a turn under way.                                   *)
LEMMA TurnTyped ==
  ASSUME CInv, NEW r \in Request, pc[r] = "turn"
  PROVE  /\ id(r) \in Id /\ sessions[id(r)] \in ChatSession /\ sessions[id(r)] # NoSession
         /\ turn \in [delta : Seq(Tokens), ids : Seq(Plain), emitted : Nat]
         /\ turn.ids \in Seq(Plain) /\ turn.delta \in Seq(Tokens) /\ turn.emitted \in 0..Len(turn.ids)
         /\ Clean(turn.ids) /\ Len(turn.ids) < Asks[r].max /\ Asks[r].max \in Nat
         /\ History(r) \in Seq(Message) /\ Len(History(r)) > 0 /\ History(r)[Len(History(r))] = User(r)
<1>1. id(r) \in Id /\ sessions[id(r)] \in ChatSession
  BY InTurn
<1>2. turn \in [delta : Seq(Tokens), ids : Seq(Plain), emitted : Nat]
  BY DEF CInv, ChatTyped
<1>3. Clean(turn.ids) /\ turn.emitted <= Len(turn.ids) /\ Len(turn.ids) < Asks[r].max
  BY DEF CInv, TurnClean
<1>4. Len(History(r)) > 0 /\ History(r)[Len(History(r))] = User(r)
  BY DEF CInv, InHistory
<1>5. History(r) \in Seq(Message) /\ sessions[id(r)] # NoSession
  BY <1>1, SessionTyped DEF History
<1>6. Asks[r].max \in Nat
  BY AskTyped DEF CInv, ChatTyped
<1> QED
  BY <1>1, <1>2, <1>3, <1>4, <1>5, <1>6

(* What an answer leaves in its session.                                    *)
LEMMA WrittenTyped ==
  ASSUME CInv, NEW r \in Request, pc[r] = "turn", NEW t \in Plain \cup {Eos}
  PROVE  LET ids == Append(turn.ids, t)
             all == sessions[id(r)].cached \o turn.delta \o Kept(ids)
         IN /\ all \in Seq(Tokens) /\ Written(r, ids) \in ChatSession
            /\ Written(r, ids).history = Append(History(r), Answer(Kept(ids)))
            /\ Written(r, ids).cached = SubSeq(all, 1, Len(all) - 1)
            /\ Written(r, ids).ended = EosEmitted(r, ids) /\ Written(r, ids).whole = Ended(ids)
<1> DEFINE ids == Append(turn.ids, t)
           s == sessions[id(r)]
           all == s.cached \o turn.delta \o Kept(ids)
<1>1. /\ s \in ChatSession /\ turn.ids \in Seq(Plain) /\ turn.delta \in Seq(Tokens) /\ Clean(turn.ids)
      /\ History(r) \in Seq(Message)
  BY TurnTyped
<1>2. Kept(ids) \in Seq(Plain)
  BY <1>1, KeptIs
<1>3. Kept(ids) \in Seq(Tokens) /\ s.cached \in Seq(Tokens)
  BY <1>1, <1>2, TokenSets, SeqMonotonic, SessionTyped
<1>4. Answer(Kept(ids)) \in Message
  BY <1>2, MessageTyped
<1> HIDE DEF ids
<1>5. all \in Seq(Tokens)
  <2>1. s.cached \o turn.delta \in Seq(Tokens)
    BY <1>1, <1>3, ConcatProperties
  <2> QED
    BY <1>3, <2>1, ConcatProperties
<1>6. Written(r, ids) = [s EXCEPT !.history = Append(@, Answer(Kept(ids))), !.cached = SubSeq(all, 1, Len(all) - 1),
               !.ended = EosEmitted(r, ids), !.expired = FALSE, !.whole = Ended(ids)]
  BY DEF Written
<1>7. EosEmitted(r, ids) \in BOOLEAN /\ Ended(ids) \in BOOLEAN
  BY DEF EosEmitted, Ended
<1> HIDE DEF all, s
<1>8. SubSeq(all, 1, Len(all) - 1) \in Seq(Tokens)
  <2>1. Len(all) - 1 \in Int /\ \A k \in 1..(Len(all) - 1) : all[k] \in Tokens
    BY <1>5
  <2> QED
    BY <2>1, SubSeqProperties
<1>9. s.history = History(r) /\ Append(s.history, Answer(Kept(ids))) \in Seq(Message)
  BY <1>1, <1>4, AppendProperties DEF s, History
<1>10. /\ Written(r, ids) \in ChatSession
       /\ Written(r, ids).history = Append(s.history, Answer(Kept(ids)))
       /\ Written(r, ids).cached = SubSeq(all, 1, Len(all) - 1)
       /\ Written(r, ids).ended = EosEmitted(r, ids) /\ Written(r, ids).whole = Ended(ids)
  BY <1>1, <1>6, <1>7, <1>8, <1>9 DEF ChatSession
<1> QED
  BY <1>5, <1>9, <1>10 DEF ids, all, s

(* All a client has been sent by a token, and no verdict before the last.    *)
LEMMA TokenSpoken ==
  ASSUME CInv, NEW r \in Request, pc[r] = "turn", pending[r] = <<>>, reading[r],
         NEW t \in Plain \cup {Eos}
  PROVE  LET ids == Append(turn.ids, t)
             sent == SentBy(ids, turn.emitted)
         IN /\ sent \in Seq(Event) /\ All(r) = got[r] \o channel[r] /\ All(r) \in Seq(Event)
            /\ All(r) \o sent \in Seq(Event)
            /\ Said(All(r) \o sent) = SubSeq(Kept(ids), 1, SpokenBy(ids, turn.emitted))
            /\ Verdicts(All(r) \o sent) = {}
<1> DEFINE ids == Append(turn.ids, t)
           sent == SentBy(ids, turn.emitted)
<1>1. turn.ids \in Seq(Plain) /\ Clean(turn.ids) /\ turn.emitted \in 0..Len(turn.ids)
  BY TurnTyped
<1>2. /\ sent \in Seq(Event) /\ Verdicts(sent) = {}
      /\ SubSeq(turn.ids, 1, turn.emitted) \o Said(sent) = SubSeq(Kept(ids), 1, SpokenBy(ids, turn.emitted))
  BY <1>1, SentIs
<1> HIDE DEF ids, sent
<1>3. StreamTrue(r)
  BY DEF CInv, Streams, StreamGood
<1>4. Verdicts(All(r)) = {} /\ Said(All(r)) = SubSeq(turn.ids, 1, turn.emitted)
  BY <1>3 DEF StreamTrue
<1>5. All(r) = got[r] \o channel[r] /\ All(r) \in Seq(Event)
  <2>1. got[r] \o channel[r] \in Seq(Event) /\ All(r) \in Seq(Event)
    BY AllTyped DEF CInv
  <2> QED
    BY <2>1, ConcatEmptySeq DEF All
<1>6. Said(All(r) \o sent) = Said(All(r)) \o Said(sent)
  BY <1>2, <1>5, SaidConcat
<1>7. Verdicts(All(r) \o sent) = {} /\ All(r) \o sent \in Seq(Event)
  BY <1>2, <1>4, <1>5, VerdictsConcat, ConcatProperties
<1> QED
  BY <1>2, <1>4, <1>5, <1>6, <1>7 DEF ids, sent

(* A token in the middle of an answer.                                      *)
LEMMA TokenOnGood ==
  ASSUME CInv, NEW r \in Request, UNCHANGED <<scenario, holder, poisoned, channel, reading, got, sessions, pc>>,
         pc[r] = "turn", pending[r] = <<>>, NEW t \in Plain \cup {Eos}, ~ Finishes(r, t),
         turn' = [turn EXCEPT !.ids = Append(turn.ids, t), !.emitted = SpokenBy(Append(turn.ids, t), turn.emitted)],
         pending' = [pending EXCEPT ![r] = SentBy(Append(turn.ids, t), turn.emitted)]
  PROVE  CInv'
<1> DEFINE ids == Append(turn.ids, t)
           e == turn.emitted
<1>1. /\ turn \in [delta : Seq(Tokens), ids : Seq(Plain), emitted : Nat]
      /\ turn.ids \in Seq(Plain) /\ Clean(turn.ids) /\ e \in 0..Len(turn.ids)
      /\ Len(turn.ids) < Asks[r].max /\ Asks[r].max \in Nat
  BY TurnTyped
<1>2. ~ Ended(ids) /\ Len(ids) # Asks[r].max
  BY DEF Finishes
<1>3. Kept(ids) = ids /\ ids \in Seq(Plain) /\ Clean(ids) /\ Len(ids) = Len(turn.ids) + 1
  BY <1>1, <1>2, KeptIs
<1>4. SpokenBy(ids, e) \in 0..Len(ids) /\ SentBy(ids, e) \in Seq(Event)
  BY <1>1, <1>3, SentIs
<1>5. /\ turn' = [turn EXCEPT !.ids = ids, !.emitted = SpokenBy(ids, e)]
      /\ pending' = [pending EXCEPT ![r] = SentBy(ids, e)]
  OBVIOUS
<1>6. Asks' = Asks /\ \A q \in Request : History(q)' = History(q) /\ id(q)' = id(q)
  BY DEF Asks, History, id
<1> HIDE DEF ids
<1>7. turn'.ids = ids /\ turn'.emitted = SpokenBy(ids, e) /\ turn' \in [delta : Seq(Tokens), ids : Seq(Plain), emitted : Nat]
  <2> DEFINE sp == SpokenBy(ids, e)
  <2>1. sp \in Nat
    BY <1>3, <1>4
  <2>2. turn' = [turn EXCEPT !.ids = ids, !.emitted = sp]
    BY <1>5
  <2> HIDE DEF sp
  <2>3. turn'.ids = ids /\ turn'.emitted = sp /\ turn' \in [delta : Seq(Tokens), ids : Seq(Plain), emitted : Nat]
    BY <1>1, <1>3, <2>1, <2>2
  <2> QED
    BY <2>3 DEF sp
<1>8. pending'[r] = SentBy(ids, e) /\ (\A q \in Request \ {r} : pending'[q] = pending[q]) /\ pending' \in [Request -> Seq(Event)]
  BY <1>4, <1>5 DEF CInv, ChatTyped
<1>9. ChatTyped'
  BY <1>7, <1>8 DEF CInv, ChatTyped
<1>10. HolderTrue' /\ InHistory'
  <2>1. HolderTrue'
    BY <1>6 DEF CInv, HolderTrue
  <2>2. InHistory'
    BY <1>6 DEF CInv, InHistory, User
  <2> QED
    BY <2>1, <2>2
<1>11. \A q \in Request \ {r} : pc[q] \notin {"turn", "closing"}
  BY InTurn
<1>12. TurnClean'
  <2>1. Clean(turn'.ids) /\ turn'.emitted <= Len(turn'.ids) /\ Len(turn'.ids) < Asks'[r].max
    <3>1. Len(ids) \in Nat /\ Len(turn.ids) \in Nat /\ Len(ids) < Asks[r].max
      BY <1>1, <1>2, <1>3
    <3>2. SpokenBy(ids, e) <= Len(ids)
      BY <1>4, <3>1
    <3> HIDE DEF CInv
    <3> QED
      BY <1>3, <1>6, <1>7, <3>1, <3>2
  <2> QED
    BY <1>11, <2>1 DEF TurnClean
<1>13. ASSUME NEW q \in Request PROVE StreamGood(q)'
  <2>0. StreamGood(q)
    BY DEF CInv, Streams
  <2>1. CASE q # r
    BY <1>6, <1>8, <1>11, <2>0, <2>1, Elsewhere
  <2>2. CASE q = r
    <3>1. ASSUME reading[r] PROVE StreamTrue(r)'
      <4>1. /\ All(r) = got[r] \o channel[r]
            /\ Said(All(r) \o SentBy(ids, e)) = SubSeq(ids, 1, SpokenBy(ids, e))
            /\ Verdicts(All(r) \o SentBy(ids, e)) = {}
        BY <1>3, <3>1, TokenSpoken DEF ids
      <4>2. All(r)' = All(r) \o SentBy(ids, e)
        BY <1>8, <4>1 DEF All
      <4>3. Clean(SubSeq(ids, 1, SpokenBy(ids, e)))
        BY <1>3, <1>4, CleanPrefix
      <4>4. Clean(Said(All(r)'))
        BY <4>1, <4>2, <4>3
      <4>5. Verdicts(All(r)') = {} /\ Said(All(r)') = SubSeq(turn'.ids, 1, turn'.emitted)
        BY <1>7, <4>1, <4>2
      <4>6. pc'[r] = "turn"
        OBVIOUS
      <4> QED
        BY <4>4, <4>5, <4>6 DEF StreamTrue
    <3> QED
      BY <2>2, <3>1 DEF StreamGood
  <2> QED
    BY <2>1, <2>2
<1> QED
  BY <1>9, <1>10, <1>12, <1>13 DEF CInv, Streams

(* The last token: tail, history and verdict.                               *)
LEMMA FinishGood ==
  ASSUME CInv, NEW r \in Request, UNCHANGED <<scenario, holder, poisoned, channel, reading, got>>,
         pc[r] = "turn", pending[r] = <<>>, NEW t \in Plain \cup {Eos},
         sessions' = [sessions EXCEPT ![id(r)] = Written(r, Append(turn.ids, t))],
         pending' = [pending EXCEPT ![r] =
                      SentBy(Append(turn.ids, t), turn.emitted)
                      \o TailOf(Kept(Append(turn.ids, t)), SpokenBy(Append(turn.ids, t), turn.emitted))
                      \o <<Done(r, Append(turn.ids, t))>>],
         pc' = [pc EXCEPT ![r] = "closing"], turn' = NoTurn
  PROVE  CInv'
<1> DEFINE ids == Append(turn.ids, t)
           e == turn.emitted
           kept == Kept(ids)
           sent == SentBy(ids, e)
           tail == TailOf(kept, SpokenBy(ids, e))
           done == Done(r, ids)
<1>1. /\ turn.ids \in Seq(Plain) /\ Clean(turn.ids) /\ e \in 0..Len(turn.ids)
      /\ id(r) \in Id /\ History(r) \in Seq(Message) /\ Len(History(r)) > 0 /\ History(r)[Len(History(r))] = User(r)
  BY TurnTyped
<1>2. kept \in Seq(Plain) /\ Clean(kept)
  BY <1>1, KeptIs
<1>3. SpokenBy(ids, e) \in 0..Len(kept) /\ sent \in Seq(Event)
  BY <1>1, SentIs
<1>4. tail \in Seq(Event) /\ Verdicts(tail) = {} /\ SubSeq(kept, 1, SpokenBy(ids, e)) \o Said(tail) = kept
  BY <1>2, <1>3, TailIs
<1>5. done \in Event /\ Words[done] = <<>> /\ done.kind # "chunk"
  <2>1. EosEmitted(r, ids) \in BOOLEAN
    BY DEF EosEmitted, Ended
  <2> HIDE DEF ids
  <2> QED
    BY <2>1, WordsTyped DEF Done
<1>6. /\ Written(r, ids) \in ChatSession
      /\ Written(r, ids).history = Append(History(r), Answer(kept))
  BY WrittenTyped
<1>7. /\ sessions' = [sessions EXCEPT ![id(r)] = Written(r, ids)]
      /\ pending' = [pending EXCEPT ![r] = sent \o tail \o <<done>>]
  OBVIOUS
<1>8. Asks' = Asks /\ \A q \in Request : id(q)' = id(q)
  BY DEF Asks, id
<1>9. \A q \in Request \ {r} : pc[q] \notin {"turn", "closing"}
  BY InTurn
<1>10. Answer(kept) \in Message /\ Answer(kept).text = kept
  BY <1>2, MessageTyped
<1>11. reading[r] => /\ All(r) = got[r] \o channel[r] /\ All(r) \in Seq(Event)
                     /\ Said(All(r) \o sent) = SubSeq(kept, 1, SpokenBy(ids, e))
                     /\ Verdicts(All(r) \o sent) = {}
  BY TokenSpoken
<1> HIDE DEF ids, kept, sent, tail, done
<1>12. <<done>> \in Seq(Event) /\ sent \o tail \in Seq(Event) /\ sent \o tail \o <<done>> \in Seq(Event)
  <2>1. <<done>> \in Seq(Event)
    BY <1>5
  <2>2. sent \o tail \in Seq(Event)
    BY <1>3, <1>4, ConcatProperties
  <2> QED
    BY <2>1, <2>2, ConcatProperties
<1>13. /\ pc'[r] = "closing" /\ (\A q \in Request \ {r} : pc'[q] = pc[q] /\ pending'[q] = pending[q])
       /\ pending'[r] = sent \o tail \o <<done>> /\ sessions'[id(r)] = Written(r, ids)
       /\ pending' \in [Request -> Seq(Event)] /\ sessions' \in [Id -> ChatSession \cup {NoSession}]
  <2>1. /\ pc \in [Request -> {"new", "evicted", "turn", "closing", "failed", "over"}]
        /\ pending \in [Request -> Seq(Event)] /\ sessions \in [Id -> ChatSession \cup {NoSession}]
    BY DEF CInv, ChatTyped
  <2> DEFINE p == sent \o tail \o <<done>>
             w == Written(r, ids)
  <2>2. p \in Seq(Event) /\ w \in ChatSession
    BY <1>6, <1>12
  <2>3. pending' = [pending EXCEPT ![r] = p] /\ sessions' = [sessions EXCEPT ![id(r)] = w]
    BY <1>7
  <2> HIDE DEF p, w
  <2>4. /\ pending'[r] = p /\ pending' \in [Request -> Seq(Event)] /\ \A q \in Request \ {r} : pending'[q] = pending[q]
    BY <2>1, <2>2, <2>3
  <2>5. /\ sessions'[id(r)] = w /\ sessions' \in [Id -> ChatSession \cup {NoSession}]
    BY <1>1, <2>1, <2>2, <2>3
  <2>6. pc'[r] = "closing" /\ \A q \in Request \ {r} : pc'[q] = pc[q]
    BY <2>1
  <2> QED
    BY <2>4, <2>5, <2>6 DEF p, w
<1>14. ChatTyped'
  <2>1. NoTurn \in [delta : Seq(Tokens), ids : Seq(Plain), emitted : Nat]
    BY DEF NoTurn
  <2> QED
    BY <1>13, <2>1 DEF CInv, ChatTyped
<1>15. HolderTrue'
  BY <1>8, <1>13 DEF CInv, HolderTrue
<1>16. History(r)' = Append(History(r), Answer(kept)) /\ Len(History(r)') = Len(History(r)) + 1
       /\ History(r)'[Len(History(r)')] = Answer(kept) /\ History(r)'[Len(History(r)') - 1] = User(r)
       /\ Len(History(r)) \in Nat
  <2>1. History(r)' = Append(History(r), Answer(kept))
    BY <1>6, <1>8, <1>13 DEF History
  <2>2. Len(History(r)) \in 1..Len(History(r))
    BY <1>1
  <2> QED
    BY <1>1, <1>10, <2>1, <2>2, AppendProperties
<1>17. InHistory'
  <2>1. sessions'[id(r)] # NoSession
    BY <1>6, <1>13, SessionTyped
  <2>2. /\ Len(History(r)') > 1 /\ History(r)'[Len(History(r)') - 1] = User(r)
    BY <1>1, <1>16
  <2>3. \A q \in Request : pc'[q] \in {"turn", "closing"} => q = r
    BY <1>9, <1>13
  <2>4. sessions'[id(r)'] # NoSession
    BY <1>1, <1>8, <2>1
  <2>5. pc'[r] = "closing"
    BY <1>13
  <2> HIDE DEF CInv
  <2> QED
    BY <2>2, <2>3, <2>4, <2>5 DEF InHistory, User
<1>18. TurnClean'
  BY <1>9, <1>13 DEF TurnClean
<1>19. ASSUME NEW q \in Request PROVE StreamGood(q)'
  <2>0. StreamGood(q)
    BY DEF CInv, Streams
  <2>1. CASE q # r
    BY <1>9, <1>13, <2>0, <2>1, Elsewhere
  <2>2. CASE q = r
    <3>1. ASSUME reading[r] PROVE StreamTrue(r)'
      <4>1. All(r) \in Seq(Event) /\ All(r) \o sent \in Seq(Event)
        BY <1>3, <1>11, <3>1, ConcatProperties
      <4>2. (All(r) \o sent) \o tail \in Seq(Event) /\ Said((All(r) \o sent) \o tail) = kept
            /\ Verdicts((All(r) \o sent) \o tail) = {}
        <5>1. Said((All(r) \o sent) \o tail) = Said(All(r) \o sent) \o Said(tail)
          BY <1>4, <4>1, SaidConcat
        <5>2. Verdicts((All(r) \o sent) \o tail) = {}
          BY <1>4, <1>11, <3>1, <4>1, VerdictsConcat
        <5>3. (All(r) \o sent) \o tail \in Seq(Event)
          BY <1>4, <4>1, ConcatProperties
        <5> QED
          BY <1>4, <1>11, <3>1, <5>1, <5>2, <5>3
      <4> DEFINE told == (All(r) \o sent) \o tail
      <4>3. All(r)' = told \o <<done>>
        <5>1. All(r)' = All(r) \o (sent \o tail \o <<done>>)
          BY <1>11, <1>13, <3>1 DEF All
        <5>2. Associates(All(r), sent \o tail, <<done>>)
          BY <1>12, <4>1, Associative
        <5>3. Associates(All(r), sent, tail)
          BY <1>3, <1>4, <4>1, Associative
        <5> QED
          BY <5>1, <5>2, <5>3 DEF Associates
      <4> HIDE DEF told
      <4>4. Said(told \o <<done>>) = kept
        <5>1. told \in Seq(Event) /\ Said(told) = kept
          BY <4>2 DEF told
        <5>2. Said(told \o <<done>>) = Said(told) \o Said(<<done>>)
          BY <1>12, <5>1, SaidConcat
        <5>3. Said(<<done>>) = <<>>
          BY <1>5, SaidOne
        <5> QED
          BY <1>2, <5>1, <5>2, <5>3, ConcatEmptySeq
      <4>5. Verdicts(told \o <<done>>) = {Len(told \o <<done>>)}
        <5>1. told \in Seq(Event) /\ Verdicts(told) = {}
          BY <4>2 DEF told
        <5> QED
          BY <1>5, <5>1, VerdictLast
      <4>6. Clean(Said(All(r)')) /\ Said(All(r)') = kept
        BY <1>2, <4>3, <4>4
      <4>7. Verdicts(All(r)') = {Len(All(r)')}
        BY <4>3, <4>5
      <4>8. History(r)'[Len(History(r)')].text = kept
        BY <1>10, <1>16
      <4> QED
        BY <1>13, <4>6, <4>7, <4>8 DEF StreamTrue
    <3> QED
      BY <1>13, <2>2, <3>1 DEF StreamGood
  <2> QED
    BY <2>1, <2>2
<1> QED
  BY <1>14, <1>15, <1>17, <1>18, <1>19 DEF CInv, Streams

(* So every token keeps CInv.                                               *)
LEMMA TokenGood ==
  ASSUME CInv, NEW r \in Request, UNCHANGED scenario, Token(r)
  PROVE  CInv'
  BY TokenCases, TokenOnGood, FinishGood, Zenon

(* A turn that fails, or whose thread panics.                                *)
FedBy(r, n) == SubSeq(sessions[id(r)].cached \o turn.delta \o turn.ids, 1, n)
Failed(r, n) == [sessions[id(r)] EXCEPT !.cached = FedBy(r, n)]

(* What is left of a session whose turn failed.                             *)
LEMMA FailedTyped ==
  ASSUME CInv, NEW r \in Request, pc[r] = "turn", NEW n \in Int,
         n <= Len(sessions[id(r)].cached \o turn.delta \o turn.ids) - 1
  PROVE  /\ Failed(r, n) \in ChatSession /\ Failed(r, n).history = History(r)
         /\ Failed(r, n).ended = sessions[id(r)].ended /\ Failed(r, n).whole = sessions[id(r)].whole
<1> DEFINE s == sessions[id(r)]
           all == s.cached \o turn.delta \o turn.ids
<1>1. s \in ChatSession /\ turn.ids \in Seq(Plain) /\ turn.delta \in Seq(Tokens)
  BY TurnTyped
<1>2. s.cached \in Seq(Tokens) /\ turn.ids \in Seq(Tokens)
  BY <1>1, SessionTyped, TokenSets, SeqMonotonic
<1>3. all \in Seq(Tokens)
  <2>1. s.cached \o turn.delta \in Seq(Tokens)
    BY <1>1, <1>2, ConcatProperties
  <2> QED
    BY <1>2, <2>1, ConcatProperties
<1>4. FedBy(r, n) = SubSeq(all, 1, n) /\ Failed(r, n) = [s EXCEPT !.cached = FedBy(r, n)]
  BY DEF FedBy, Failed
<1>5. s.history = History(r) /\ n <= Len(all) - 1
  BY DEF History
<1> HIDE DEF all, s
<1>6. SubSeq(all, 1, n) \in Seq(Tokens)
  <2>1. Len(all) \in Nat /\ \A k \in 1..Len(all) : all[k] \in Tokens
    BY <1>3
  <2>2. \A k \in 1..n : all[k] \in Tokens
    BY <1>5, <2>1
  <2> QED
    BY <2>2, SubSeqProperties
<1>7. FedBy(r, n) \in Seq(Tokens)
  BY <1>4, <1>6
<1>8. /\ [s EXCEPT !.cached = FedBy(r, n)] \in ChatSession
      /\ [s EXCEPT !.cached = FedBy(r, n)].history = s.history
      /\ [s EXCEPT !.cached = FedBy(r, n)].ended = s.ended
      /\ [s EXCEPT !.cached = FedBy(r, n)].whole = s.whole
  BY <1>1, <1>7 DEF ChatSession
<1> QED
  BY <1>4, <1>5, <1>8 DEF s

(* A failing step ends its turn with what it had fed.                       *)
LEMMA TokenFailsCases ==
  ASSUME CInv, NEW r \in Request, TokenFails(r)
  PROVE  /\ pc[r] = "turn" /\ pending[r] = <<>> /\ UNCHANGED <<channel, reading, got, poisoned>>
         /\ failures < scenario.max_failures
         /\ \E n \in Int : /\ n <= Len(sessions[id(r)].cached \o turn.delta \o turn.ids) - 1
                          /\ Abort(r, Failed(r, n))
<1> DEFINE s == sessions[id(r)]
           all == s.cached \o turn.delta \o turn.ids
<1>1. s.cached \in Seq(Tokens) /\ turn.delta \in Seq(Tokens) /\ turn.ids \in Seq(Tokens)
  <2>1. pc[r] = "turn"
    BY DEF TokenFails
  <2>2. s \in ChatSession /\ turn.ids \in Seq(Plain) /\ turn.delta \in Seq(Tokens)
    BY <2>1, TurnTyped
  <2> QED
    BY <2>2, SessionTyped, TokenSets, SeqMonotonic
<1>2. Len(s.cached) \in Int /\ Len(all) - 1 \in Int
  <2>1. s.cached \o turn.delta \in Seq(Tokens)
    BY <1>1, ConcatProperties
  <2>2. all \in Seq(Tokens)
    BY <1>1, <2>1, ConcatProperties
  <2> QED
    BY <1>1, <2>2
<1>3. PICK n \in (IF turn.ids = <<>> THEN Len(s.cached) ELSE Len(all) - 1)..(Len(all) - 1) :
        Abort(r, [s EXCEPT !.cached = SubSeq(all, 1, n)])
  BY DEF TokenFails
<1> HIDE DEF all
<1>4. n \in Int /\ n <= Len(all) - 1
  BY <1>2, <1>3
<1>5. Abort(r, Failed(r, n))
  BY <1>3 DEF all, Failed, FedBy
<1> QED
  BY <1>4, <1>5 DEF TokenFails, all

(* A turn that fails sends its error.                                       *)
LEMMA TokenFailsGood ==
  ASSUME CInv, NEW r \in Request, UNCHANGED scenario, TokenFails(r)
  PROVE  CInv'
<1>1. pc[r] = "turn" /\ pending[r] = <<>> /\ UNCHANGED <<channel, reading, got, poisoned>>
  BY TokenFailsCases
<1>2. PICK n \in Int :
        n <= Len(sessions[id(r)].cached \o turn.delta \o turn.ids) - 1 /\ Abort(r, Failed(r, n))
  BY TokenFailsCases
<1>3. Failed(r, n) \in ChatSession
  BY <1>1, <1>2, FailedTyped
<1>4. Asks[r].kind = "chat" /\ \A q \in Request \ {r} : pc[q] \notin {"turn", "closing"}
  BY <1>1, InTurn
<1> QED
  BY <1>1, <1>2, <1>3, <1>4, AbortGood

(* A turn that panics sends nothing more: its stream ends without a         *)
(* verdict.                                                                 *)
LEMMA TokenPanicsGood ==
  ASSUME CInv, NEW r \in Request, UNCHANGED scenario, TokenPanics(r)
  PROVE  CInv'
<1>1. /\ pc[r] = "turn" /\ poisoned' = TRUE /\ holder' = NoOne /\ turn' = NoTurn
      /\ pc' = [pc EXCEPT ![r] = "over"] /\ pending' = [pending EXCEPT ![r] = <<>>]
      /\ UNCHANGED <<sessions, channel, reading, got>>
  BY DEF TokenPanics
<1>2. NoTurn \in [delta : Seq(Tokens), ids : Seq(Plain), emitted : Nat] /\ <<>> \in Seq(Event)
  BY DEF NoTurn
<1>3. ChatTyped'
  BY <1>1, <1>2 DEF CInv, ChatTyped
<1>4. pc'[r] = "over" /\ pending'[r] = <<>> /\ \A q \in Request \ {r} : pending'[q] = pending[q]
  BY <1>1 DEF CInv, ChatTyped
<1>5. \A q \in Request \ {r} : pc[q] \notin {"turn", "closing"}
  BY <1>1, InTurn
<1>6. StreamGood(r)'
  <2>1. ASSUME reading[r] PROVE StreamTrue(r)'
    <3>1. /\ got[r] \o channel[r] \in Seq(Event) /\ pending[r] \in Seq(Event)
          /\ All(r) = (got[r] \o channel[r]) \o pending[r]
      BY AllTyped DEF CInv, All
    <3>2. All(r)' = got[r] \o channel[r]
      BY <1>1, <1>4, <3>1, ConcatEmptySeq DEF All
    <3>3. Verdicts(All(r)) = {} /\ Clean(Said(All(r)))
      BY <1>1, <2>1 DEF CInv, Streams, StreamGood, StreamTrue
    <3> HIDE DEF CInv
    <3>4. Verdicts(got[r] \o channel[r]) = {}
      BY <3>1, <3>3, VerdictsConcat
    <3>5. Clean(Said(got[r] \o channel[r]))
      <4>1. /\ Said(All(r)) = Said(got[r] \o channel[r]) \o Said(pending[r])
            /\ Said(got[r] \o channel[r]) \in Seq(Plain) /\ Said(pending[r]) \in Seq(Plain)
        BY <3>1, SaidConcat
      <4> QED
        BY <3>3, <4>1, CleanPart
    <3> QED
      BY <1>1, <1>4, <3>2, <3>4, <3>5 DEF StreamTrue
  <2> QED
    BY <1>1, <1>4, <2>1 DEF StreamGood
<1> HIDE DEF CInv
<1> QED
  BY <1>1, <1>3, <1>4, <1>5, <1>6, MutexLeft

(* The thread ends: all of its events are sent.                             *)
LEMMA OverGood ==
  ASSUME CInv, NEW r \in Request, UNCHANGED scenario, Over(r)
  PROVE  CInv'
<1>1. /\ pc[r] \in {"closing", "failed"} /\ pending[r] = <<>>
      /\ pc' = [pc EXCEPT ![r] = "over"] /\ holder' = IF holder = r THEN NoOne ELSE holder
      /\ UNCHANGED <<sessions, poisoned, turn, pending, channel, reading, got>>
  BY DEF Over, wires
<1>2. ChatTyped'
  BY <1>1 DEF CInv, ChatTyped
<1>3. pc'[r] = "over" /\ pending'[r] = <<>> /\ \A q \in Request \ {r} : pc'[q] = pc[q]
  BY <1>1 DEF CInv, ChatTyped
<1>4. Asks' = Asks /\ All(r)' = All(r) /\ \A q \in Request : id(q)' = id(q) /\ History(q)' = History(q)
  BY <1>1 DEF Asks, All, id, History
<1>5. StreamGood(r)'
  <2>1. ASSUME reading[r] PROVE StreamTrue(r)'
    <3>1. StreamTrue(r)
      BY <2>1 DEF CInv, Streams, StreamGood
    <3> HIDE DEF CInv
    <3>2. Verdicts(All(r)) # {} /\ Clean(Said(All(r))) /\ \A n \in Verdicts(All(r)) : n = Len(All(r))
      BY <1>1, <3>1 DEF StreamTrue
    <3> QED
      BY <1>3, <1>4, <3>2 DEF StreamTrue
  <2> QED
    BY <1>1, <1>3, <2>1 DEF StreamGood
<1>6. CASE pc[r] = "closing"
  <2>1. holder = r /\ \A q \in Request \ {r} : pc[q] \notin {"turn", "closing"}
    BY <1>6, InTurn
  <2>2. holder' = NoOne
    BY <1>1, <2>1
  <2> HIDE DEF CInv
  <2> QED
    BY <1>1, <1>2, <1>5, <2>1, <2>2, MutexLeft
<1>7. CASE pc[r] = "failed"
  <2>1. holder # r /\ holder' = holder
    BY <1>1, <1>7 DEF CInv, HolderTrue
  <2>2. HolderTrue'
    BY <1>1, <1>3, <1>4, <1>7, <2>1 DEF CInv, HolderTrue
  <2>3. InHistory' /\ TurnClean'
    <3>1. InHistory'
      BY <1>1, <1>3, <1>4 DEF CInv, InHistory, User
    <3>2. TurnClean'
      BY <1>1, <1>3, <1>4 DEF CInv, TurnClean
    <3> QED
      BY <3>1, <3>2
  <2>4. ASSUME NEW q \in Request PROVE StreamGood(q)'
    <3>1. CASE q = r
      BY <1>5, <3>1
    <3>2. CASE q # r
      <4>1. StreamGood(q)
        BY DEF CInv, Streams
      <4> QED
        BY <1>1, <1>3, <1>4, <3>2, <4>1, Elsewhere
    <3> QED
      BY <3>1, <3>2
  <2> QED
    BY <1>2, <2>2, <2>3, <2>4 DEF CInv, Streams
<1> QED
  BY <1>1, <1>6, <1>7

-----------------------------------------------------------------------------
(* The channel, the client and the clock *)

MovesOn(a, b, S) ==
  /\ Append(a, Head(b)) \o Tail(b) = a \o b
  /\ Append(a, Head(b)) \in Seq(S) /\ Tail(b) \in Seq(S) /\ Head(b) \in S
(* An event that moves from one queue to the next stays in its place.       *)
LEMMA MoveOne ==
  ASSUME NEW S, NEW a \in Seq(S), NEW b \in Seq(S), b # <<>>
  PROVE  MovesOn(a, b, S)
<1>1. Head(b) \in S /\ Tail(b) \in Seq(S) /\ Len(Tail(b)) = Len(b) - 1 /\ Len(b) \in Nat \ {0}
      /\ \A i \in 1..Len(Tail(b)) : Tail(b)[i] = b[i + 1]
  BY HeadTailProperties, EmptySeq
<1>2. Head(b) = b[1]
  OBVIOUS
<1>3. /\ Append(a, Head(b)) \in Seq(S) /\ Len(Append(a, Head(b))) = Len(a) + 1 /\ Len(a) \in Nat
      /\ (\A i \in 1..Len(a) : Append(a, Head(b))[i] = a[i]) /\ Append(a, Head(b))[Len(a) + 1] = Head(b)
  BY <1>1, AppendProperties
<1> DEFINE c == Append(a, Head(b))
           d == Tail(b)
<1> HIDE DEF c, d
<1>4. c \in Seq(S) /\ d \in Seq(S) /\ Len(c) = Len(a) + 1 /\ Len(d) = Len(b) - 1
  BY <1>1, <1>3 DEF c, d
<1>5. /\ c \o d \in Seq(S) /\ Len(c \o d) = Len(a) + Len(b)
      /\ \A i \in 1..(Len(a) + Len(b)) : (c \o d)[i] = IF i <= Len(a) + 1 THEN c[i] ELSE d[i - (Len(a) + 1)]
  <2>1. /\ c \o d \in Seq(S) /\ Len(c \o d) = Len(c) + Len(d)
        /\ \A i \in 1..(Len(c) + Len(d)) : (c \o d)[i] = IF i <= Len(c) THEN c[i] ELSE d[i - Len(c)]
    BY <1>4, ConcatProperties
  <2>2. Len(c) + Len(d) = Len(a) + Len(b)
    BY <1>1, <1>3, <1>4
  <2> QED
    BY <1>4, <2>1, <2>2
<1>6. /\ a \o b \in Seq(S) /\ Len(a \o b) = Len(a) + Len(b)
      /\ \A i \in 1..(Len(a) + Len(b)) : (a \o b)[i] = IF i <= Len(a) THEN a[i] ELSE b[i - Len(a)]
  BY ConcatProperties
<1>7. ASSUME NEW i \in 1..(Len(a) + Len(b)) PROVE (c \o d)[i] = (a \o b)[i]
  <2>1. CASE i <= Len(a)
    BY <1>3, <1>5, <1>6, <2>1 DEF c
  <2>2. CASE i = Len(a) + 1
    <3>1. i - Len(a) = 1 /\ ~ (i <= Len(a)) /\ i <= Len(a) + 1
      BY <1>3, <2>2
    <3> QED
      BY <1>2, <1>3, <1>5, <1>6, <2>2, <3>1 DEF c
  <2>3. CASE i > Len(a) + 1
    <3>1. i - (Len(a) + 1) \in 1..Len(d) /\ (i - (Len(a) + 1)) + 1 = i - Len(a) /\ ~ (i <= Len(a)) /\ ~ (i <= Len(a) + 1)
      BY <1>1, <1>3, <1>4, <2>3
    <3>2. d[i - (Len(a) + 1)] = b[(i - (Len(a) + 1)) + 1]
      BY <1>1, <3>1 DEF d
    <3> QED
      BY <1>5, <1>6, <3>1, <3>2
  <2>4. i <= Len(a) \/ i = Len(a) + 1 \/ i > Len(a) + 1
    BY <1>3
  <2> QED
    BY <2>1, <2>2, <2>3, <2>4
<1>8. c \o d = a \o b
  BY <1>5, <1>6, <1>7, SeqEqual
<1> QED
  BY <1>1, <1>3, <1>8 DEF c, d, MovesOn

(* Nothing but the events on their way changes. *)
LEMMA WiresGood ==
  ASSUME CInv, NEW r \in Request, UNCHANGED <<scenario, sessions, holder, poisoned, pc, turn>>,
         NEW p \in Seq(Event), NEW c \in Seq(Event), NEW g \in Seq(Event), NEW b \in BOOLEAN,
         pending' = [pending EXCEPT ![r] = p], channel' = [channel EXCEPT ![r] = c],
         got' = [got EXCEPT ![r] = g], reading' = [reading EXCEPT ![r] = b],
         b => reading[r] /\ g \o c \o p = All(r),
         pending[r] = <<>> => p = <<>>
  PROVE  CInv'
<1>1. ChatTyped'
  BY DEF CInv, ChatTyped
<1>2. Asks' = Asks /\ \A q \in Request : id(q)' = id(q) /\ History(q)' = History(q)
  BY DEF Asks, id, History
<1>3. HolderTrue' /\ InHistory' /\ TurnClean'
  <2>1. HolderTrue'
    BY <1>2 DEF CInv, HolderTrue
  <2>2. InHistory'
    BY <1>2 DEF CInv, InHistory, User
  <2>3. TurnClean'
    BY <1>2 DEF CInv, TurnClean
  <2> QED
    BY <2>1, <2>2, <2>3
<1>4. /\ pending'[r] = p /\ channel'[r] = c /\ got'[r] = g /\ reading'[r] = b
      /\ \A q \in Request \ {r} :
           pending'[q] = pending[q] /\ channel'[q] = channel[q] /\ got'[q] = got[q] /\ reading'[q] = reading[q]
  BY DEF CInv, ChatTyped
<1>5. ASSUME NEW q \in Request PROVE StreamGood(q)'
  <2>0. StreamGood(q)
    BY DEF CInv, Streams
  <2>1. CASE q = r
    <3>1. ASSUME b PROVE StreamTrue(r)'
      <4>1. All(r)' = All(r) /\ StreamTrue(r)
        BY <1>4, <2>0, <2>1, <3>1 DEF All, StreamGood
      <4> HIDE DEF CInv
      <4> QED
        BY <1>2, <4>1 DEF StreamTrue
    <3>2. pc[r] \in {"new", "evicted", "over"} => p = <<>>
      BY <2>0, <2>1 DEF StreamGood
    <3> QED
      BY <1>4, <2>1, <3>1, <3>2 DEF StreamGood
  <2>2. CASE q # r
    BY <1>2, <1>4, <2>0, <2>2, Elsewhere
  <2> QED
    BY <2>1, <2>2
<1> QED
  BY <1>1, <1>3, <1>5 DEF CInv, Streams

(* blocking_send, the client and the clock change no session.               *)
LEMMA SendGood ==
  ASSUME CInv, NEW r \in Request, UNCHANGED scenario, Send(r)
  PROVE  CInv'
<1>1. /\ pending[r] # <<>>
      /\ pending' = [pending EXCEPT ![r] = Tail(pending[r])]
      /\ channel' = [channel EXCEPT ![r] = IF reading[r] THEN Append(channel[r], Head(pending[r])) ELSE channel[r]]
      /\ UNCHANGED <<sessions, holder, poisoned, pc, turn, reading, got>>
  BY DEF Send
<1>2. got[r] \in Seq(Event) /\ channel[r] \in Seq(Event) /\ pending[r] \in Seq(Event) /\ got[r] \o channel[r] \in Seq(Event)
  BY AllTyped DEF CInv
<1>3. /\ Tail(pending[r]) \in Seq(Event) /\ Head(pending[r]) \in Event
      /\ Append(channel[r], Head(pending[r])) \in Seq(Event)
      /\ Append(got[r] \o channel[r], Head(pending[r])) \o Tail(pending[r]) = (got[r] \o channel[r]) \o pending[r]
  <2>1. MovesOn(channel[r], pending[r], Event)
    BY <1>1, <1>2, MoveOne
  <2>2. MovesOn(got[r] \o channel[r], pending[r], Event)
    BY <1>1, <1>2, MoveOne
  <2> QED
    BY <2>1, <2>2 DEF MovesOn
<1>4. got[r] \o Append(channel[r], Head(pending[r])) = Append(got[r] \o channel[r], Head(pending[r]))
  <2>1. <<Head(pending[r])>> \in Seq(Event)
    BY <1>3
  <2>2. /\ Append(channel[r], Head(pending[r])) = channel[r] \o <<Head(pending[r])>>
        /\ Append(got[r] \o channel[r], Head(pending[r])) = (got[r] \o channel[r]) \o <<Head(pending[r])>>
    BY <1>2, <1>3, AppendIsConcat
  <2>3. Associates(got[r], channel[r], <<Head(pending[r])>>)
    BY <1>2, <2>1, Associative
  <2> QED
    BY <2>2, <2>3 DEF Associates
<1>5. got[r] \o Append(channel[r], Head(pending[r])) \o Tail(pending[r]) = All(r)
  BY <1>3, <1>4 DEF All
<1>6. PICK c \in Seq(Event) : c = IF reading[r] THEN Append(channel[r], Head(pending[r])) ELSE channel[r]
  BY <1>2, <1>3
<1>7. reading[r] \in BOOLEAN /\ got' = [got EXCEPT ![r] = got[r]] /\ reading' = [reading EXCEPT ![r] = reading[r]]
  BY <1>1 DEF CInv, ChatTyped
<1>8. channel' = [channel EXCEPT ![r] = c]
  BY <1>1, <1>6
<1>9. reading[r] => reading[r] /\ got[r] \o c \o Tail(pending[r]) = All(r)
  BY <1>5, <1>6
<1> HIDE DEF CInv
<1> QED
  BY <1>1, <1>2, <1>3, <1>7, <1>8, <1>9, WiresGood

LEMMA ReadGood ==
  ASSUME CInv, NEW r \in Request, UNCHANGED scenario, Read(r)
  PROVE  CInv'
<1>1. /\ reading[r] /\ channel[r] # <<>>
      /\ got' = [got EXCEPT ![r] = Append(got[r], Head(channel[r]))]
      /\ channel' = [channel EXCEPT ![r] = Tail(channel[r])]
      /\ UNCHANGED <<sessions, holder, poisoned, pc, turn, pending, reading>>
  BY DEF Read
<1>2. got[r] \in Seq(Event) /\ channel[r] \in Seq(Event) /\ pending[r] \in Seq(Event)
  BY AllTyped DEF CInv
<1>3. /\ Tail(channel[r]) \in Seq(Event) /\ Append(got[r], Head(channel[r])) \in Seq(Event)
      /\ Append(got[r], Head(channel[r])) \o Tail(channel[r]) = got[r] \o channel[r]
  <2>1. MovesOn(got[r], channel[r], Event)
    BY <1>1, <1>2, MoveOne
  <2> QED
    BY <2>1 DEF MovesOn
<1>4. Append(got[r], Head(channel[r])) \o Tail(channel[r]) \o pending[r] = All(r)
  BY <1>3 DEF All
<1>5. pending' = [pending EXCEPT ![r] = pending[r]] /\ reading' = [reading EXCEPT ![r] = TRUE]
  BY <1>1 DEF CInv, ChatTyped
<1> HIDE DEF CInv
<1> QED
  BY <1>1, <1>2, <1>3, <1>4, <1>5, WiresGood

LEMMA HangUpGood ==
  ASSUME CInv, NEW r \in Request, UNCHANGED scenario, HangUp(r)
  PROVE  CInv'
<1>1. /\ reading' = [reading EXCEPT ![r] = FALSE] /\ channel' = [channel EXCEPT ![r] = <<>>]
      /\ UNCHANGED <<sessions, holder, poisoned, pc, turn, pending, got>>
  BY DEF HangUp
<1>2. got[r] \in Seq(Event) /\ <<>> \in Seq(Event) /\ pending[r] \in Seq(Event)
  BY AllTyped DEF CInv
<1>3. pending' = [pending EXCEPT ![r] = pending[r]] /\ got' = [got EXCEPT ![r] = got[r]]
  BY <1>1 DEF CInv, ChatTyped
<1> HIDE DEF CInv
<1> QED
  BY <1>1, <1>2, <1>3, WiresGood

LEMMA ExpireGood ==
  ASSUME CInv, NEW i \in Id, UNCHANGED scenario, Expire(i)
  PROVE  CInv'
<1>1. /\ sessions[i] # NoSession /\ sessions' = [sessions EXCEPT ![i].expired = TRUE]
      /\ UNCHANGED <<holder, poisoned, pc, turn, pending, channel, reading, got>>
  BY DEF Expire, wires
<1>2. sessions[i] \in ChatSession /\ [sessions[i] EXCEPT !.expired = TRUE] \in ChatSession
      /\ [sessions[i] EXCEPT !.expired = TRUE].history = sessions[i].history
  <2>1. sessions[i] \in ChatSession
    BY <1>1 DEF CInv, ChatTyped
  <2> QED
    BY <2>1 DEF ChatSession
<1>3. sessions' \in [Id -> ChatSession \cup {NoSession}]
  BY <1>1, <1>2 DEF CInv, ChatTyped
<1>4. ChatTyped'
  BY <1>1, <1>3 DEF CInv, ChatTyped
<1>5. \A j \in Id : (sessions'[j] = NoSession <=> sessions[j] = NoSession) /\ (sessions[j] # NoSession => sessions'[j].history = sessions[j].history)
  <2> TAKE j \in Id
  <2>1. CASE j = i
    <3>1. sessions'[j] = [sessions[i] EXCEPT !.expired = TRUE]
      BY <1>1, <2>1 DEF CInv, ChatTyped
    <3> QED
      BY <1>1, <1>2, <2>1, <3>1, SessionTyped
  <2>2. CASE j # i
    BY <1>1, <2>2 DEF CInv, ChatTyped
  <2> QED
    BY <2>1, <2>2
<1>6. Asks' = Asks /\ \A q \in Request : id(q)' = id(q) /\ id(q) \in Id
  BY AskTyped DEF Asks, id, CInv, ChatTyped
<1>7. \A q \in Request : sessions[id(q)] # NoSession => History(q)' = History(q)
  BY <1>5, <1>6 DEF History
<1>8. HolderTrue' /\ InHistory' /\ TurnClean'
  <2>1. HolderTrue'
    BY <1>1, <1>6 DEF CInv, HolderTrue
  <2>2. InHistory'
    BY <1>1, <1>5, <1>6, <1>7 DEF CInv, InHistory, User
  <2>3. TurnClean'
    BY <1>1, <1>6 DEF CInv, TurnClean
  <2> QED
    BY <2>1, <2>2, <2>3
<1>9. ASSUME NEW q \in Request PROVE StreamGood(q)'
  <2>1. StreamGood(q)
    BY DEF CInv, Streams
  <2>2. pc[q] = "closing" => History(q)' = History(q)
    BY <1>7 DEF CInv, InHistory
  <2> QED
    BY <1>1, <2>1, <2>2, Elsewhere
<1> QED
  BY <1>4, <1>8, <1>9 DEF CInv, Streams

(* Every step keeps CInv, whatever fails, panics, expires or hangs up.      *)
LEMMA ChatStep ==
  ASSUME CInv, [Next]_vars
  PROVE  CInv'
<1>1. ASSUME NEW r \in Request, Works(r), ~ Poll(r) PROVE CInv'
  BY <1>1, CreateGood, BeginGood, TokenGood, TokenFailsGood, TokenPanicsGood, OverGood, SendGood DEF Works
<1>2. ASSUME NEW r \in Request, Listens(r) \/ Leaves(r) PROVE CInv'
  BY <1>2, ReadGood, HangUpGood DEF Listens, Leaves
<1>3. ASSUME NEW i \in Id, Expire(i), UNCHANGED scenario PROVE CInv'
  BY <1>3, ExpireGood
<1>4. CASE UNCHANGED vars \/ \E r \in Request : UNCHANGED scenario /\ Poll(r)
  <2>1. UNCHANGED <<scenario, sessions, holder, poisoned, pc, turn, pending, channel, reading, got>>
    BY <1>4 DEF vars, Poll, wires
  <2>2. Asks' = Asks /\ \A q \in Request : id(q)' = id(q) /\ History(q)' = History(q)
    BY <2>1 DEF Asks, id, History
  <2>3. ChatTyped' /\ HolderTrue' /\ TurnClean'
    <3>1. ChatTyped'
      BY <2>1 DEF CInv, ChatTyped
    <3>2. HolderTrue'
      BY <2>1, <2>2 DEF CInv, HolderTrue
    <3>3. TurnClean'
      BY <2>1, <2>2 DEF CInv, TurnClean
    <3> QED
      BY <3>1, <3>2, <3>3
  <2>4. InHistory'
    BY <2>1, <2>2 DEF CInv, InHistory, User
  <2>5. ASSUME NEW q \in Request PROVE StreamGood(q)'
    <3>1. StreamGood(q)
      BY DEF CInv, Streams
    <3> QED
      BY <2>1, <2>2, <3>1, Elsewhere
  <2> QED
    BY <2>3, <2>4, <2>5 DEF CInv, Streams
<1>5. ASSUME NEW r \in Request, Works(r), Poll(r) PROVE CInv'
  BY <1>4, <1>5 DEF Works
<1> QED
  BY <1>1, <1>2, <1>3, <1>4, <1>5 DEF Next

LEMMA ChatInvariant == Spec => []CInv
  BY ChatInit, ChatStep, PTL DEF Spec

(* What CInv says of streams and of the mutex is what the run checks.       *)
LEMMA CInvSuffices ==
  ASSUME CInv
  PROVE  TurnsExclude /\ StreamsSpellAnswers /\ EndsWithVerdict
<1>1. ASSUME NEW r \in Request, pc[r] \in {"turn", "closing"}
      PROVE  /\ holder = r /\ id(r) \in Sessions
             /\ \E n \in DOMAIN sessions[id(r)].history : sessions[id(r)].history[n] = User(r)
  <2>1. id(r) \in Id /\ sessions[id(r)] \in ChatSession /\ holder = r
    BY <1>1, InTurn
  <2>2. sessions[id(r)].history \in Seq(Message) /\ sessions[id(r)] # NoSession
    BY <2>1, SessionTyped
  <2>3. DOMAIN sessions[id(r)].history = 1..Len(sessions[id(r)].history) /\ Len(sessions[id(r)].history) \in Nat
    BY <2>2
  <2>4. \E n \in 1..Len(sessions[id(r)].history) : sessions[id(r)].history[n] = User(r)
    <3>1. CASE pc[r] = "turn"
      <4>1. Len(History(r)) > 0 /\ History(r)[Len(History(r))] = User(r)
        BY <3>1 DEF CInv, InHistory
      <4> QED
        BY <2>3, <4>1 DEF History
    <3>2. CASE pc[r] = "closing"
      <4>1. Len(History(r)) > 1 /\ History(r)[Len(History(r)) - 1] = User(r)
        BY <3>2 DEF CInv, InHistory
      <4> QED
        BY <2>3, <4>1 DEF History
    <3> QED
      BY <1>1, <3>1, <3>2
  <2> QED
    BY <2>1, <2>2, <2>3, <2>4 DEF Sessions
<1>2. ASSUME NEW r \in Request, reading[r]
      PROVE  LET all == got[r] \o channel[r] \o pending[r]
             IN /\ \A n \in Verdicts(all) : n = Len(all)
                /\ \A i, j \in 1..Len(Said(all)) : SubSeq(Said(all), i, j) # Stop
                /\ pc[r] = "closing" =>
                     LET h == sessions[id(r)].history IN Said(all) = h[Len(h)].text
  <2>1. StreamTrue(r)
    BY <1>2 DEF CInv, Streams, StreamGood
  <2> HIDE DEF CInv
  <2> QED
    BY <2>1 DEF StreamTrue, All, Clean, History
<1>3. ASSUME NEW r \in Request, Asks[r].kind = "chat", pc[r] = "over", reading[r], ~ poisoned
      PROVE  Verdicts(got[r] \o channel[r]) # {}
  <2>1. StreamTrue(r) /\ pending[r] = <<>>
    BY <1>3 DEF CInv, Streams, StreamGood
  <2>2. got[r] \o channel[r] \in Seq(Event)
    BY AllTyped DEF CInv
  <2> HIDE DEF CInv
  <2>3. All(r) = got[r] \o channel[r]
    BY <2>1, <2>2, ConcatEmptySeq DEF All
  <2> QED
    BY <1>3, <2>1, <2>3 DEF StreamTrue
<1> QED
  BY <1>1, <1>2, <1>3 DEF TurnsExclude, StreamsSpellAnswers, EndsWithVerdict

-----------------------------------------------------------------------------
(* Histories *)

(* Longest bounds the answers: the n of Roomy.  A chat that has begun has    *)
(* its share of the cache: two tokens of a question, an answer and its end.  *)
RoomFor(s, n) ==
  /\ \A r \in Request : s.asks[r].kind = "chat" => s.asks[r].max <= n
  /\ \A i \in Id : (n + 3) * Cardinality(Chats(s, i)) <= s.max_seq_len
LongestOf(s) == CHOOSE n \in 0..s.max_seq_len : RoomFor(s, n)
Longest == LongestOf(scenario)
Begun(i) == {r \in Chats(scenario, i) : pc[r] \notin {"new", "evicted"}}
Budget(i) == (Longest + 3) * Cardinality(Begun(i))
(* No chat of the session is still to begin. *)
NoneLeft(i) == \A r \in Chats(scenario, i) : pc[r] \notin {"new", "evicted"}

Alternating(h) ==
  \A n \in 1..Len(h) :
    IF n % 2 = 1 THEN \E q \in Request : h[n] = User(q)
    ELSE h[n].role = "assistant" /\ h[n].text \in Seq(Plain)

(* The cache has every message, and no more than the history renders to. *)
Settled(i) ==
  LET s == sessions[i]
      h == s.history
  IN /\ Len(h) % 2 = 0
     /\ h # <<>> => Asked(s.cached) = Asked(render_full(h))
     /\ Len(s.cached) <= Len(render_full(h)) /\ Len(render_full(h)) <= Budget(i)
(* The turn has fed, or feeds, every message, and its answer will fit.       *)
Fed(i) ==
  LET s == sessions[i]
      h == s.history
  IN /\ Len(h) % 2 = 1
     /\ Asked(s.cached \o turn.delta) = Asked(render_full(h))
     /\ turn.delta # <<>> /\ turn.delta[Len(turn.delta)] = EndOfAsk
     /\ Len(s.cached) + Len(turn.delta) <= Len(render_full(h))
     /\ Len(render_full(h)) + Longest + 1 <= Budget(i)
Turning(i) == holder # NoOne /\ id(holder) = i /\ pc[holder] = "turn"
(* A session is settled between turns, unless nobody can use it any more.    *)
OrderlyAt(i) ==
  /\ Alternating(sessions[i].history) /\ sessions[i].ended = sessions[i].whole
  /\ ~ Turning(i) => Settled(i) \/ poisoned \/ NoneLeft(i)
  /\ Turning(i) => Fed(i)
Orderly == \A i \in Sessions : OrderlyAt(i)

(* The invariant of behaviours in Untroubled scenarios. *)
OInv == CInv /\ Orderly /\ failures \in Nat

-----------------------------------------------------------------------------
AskedApart(a, b) == Asked(a \o b) = Asked(a) \o Asked(b)
(* The requests of two parts of a sequence are those of the whole.          *)
LEMMA AskedConcat ==
  ASSUME NEW a \in Seq(Tokens), NEW b \in Seq(Tokens)
  PROVE  AskedApart(a, b) /\ Asked(a) \in Seq(Tokens)
<1>1. Those(a, Request) \in Seq(Tokens) /\ ThoseApart(a, b, Request)
  BY ThoseConcat
<1> QED
  BY <1>1 DEF AskedApart, Asked, ThoseApart

(* A question adds its request to what is rendered.                         *)
LEMMA RenderUser ==
  ASSUME NEW h \in Seq(Message), NEW r \in Request
  PROVE  /\ render_full(h) \in Seq(Tokens) /\ <<r, EndOfAsk>> \in Seq(Tokens)
         /\ Append(h, User(r)) \in Seq(Message)
         /\ render_full(Append(h, User(r))) = render_full(h) \o <<r, EndOfAsk>>
         /\ render_full(Append(h, User(r))) \in Seq(Tokens)
         /\ Len(render_full(Append(h, User(r)))) = Len(render_full(h)) + 2
         /\ Asked(render_full(Append(h, User(r)))) = Asked(render_full(h)) \o Asked(<<r, EndOfAsk>>)
<1>1. User(r) \in Message /\ Shown[User(r)] = <<r, EndOfAsk>>
  BY MessageTyped DEF Shown
<1>2. /\ render_full(h) \in Seq(Tokens) /\ Append(h, User(r)) \in Seq(Message)
      /\ render_full(Append(h, User(r))) = render_full(h) \o <<r, EndOfAsk>>
  BY <1>1, RenderAppend
<1>3. <<r, EndOfAsk>> \in Seq(Tokens) /\ Len(<<r, EndOfAsk>>) = 2
  BY TokenSets
<1>4. render_full(h) \o <<r, EndOfAsk>> \in Seq(Tokens)
      /\ Len(render_full(h) \o <<r, EndOfAsk>>) = Len(render_full(h)) + 2
  BY <1>2, <1>3, ConcatProperties
<1>5. Asked(render_full(h) \o <<r, EndOfAsk>>) = Asked(render_full(h)) \o Asked(<<r, EndOfAsk>>)
  <2>1. AskedApart(render_full(h), <<r, EndOfAsk>>)
    BY <1>2, <1>3, AskedConcat
  <2> QED
    BY <2>1 DEF AskedApart
<1> QED
  BY <1>2, <1>3, <1>4, <1>5

(* An answer adds tokens, and no request.                                   *)
LEMMA RenderAnswer ==
  ASSUME NEW h \in Seq(Message), NEW ids \in Seq(Plain)
  PROVE  /\ Append(h, Answer(ids)) \in Seq(Message)
         /\ render_full(h) \in Seq(Tokens)
         /\ Len(render_full(Append(h, Answer(ids)))) = Len(render_full(h)) + Len(ids) + 1
         /\ Asked(render_full(Append(h, Answer(ids)))) = Asked(render_full(h))
         /\ Asked(ids) = <<>> /\ ids \in Seq(Tokens)
<1>1. /\ Answer(ids) \in Message /\ Answer(ids).role = "assistant" /\ Answer(ids).text = ids
      /\ "assistant" # "user"
  BY MessageTyped
<1>2. Shown[Answer(ids)] = Append(ids, EndOfTurn)
  BY <1>1 DEF Shown
<1>3. ids \in Seq(Tokens) /\ EndOfTurn \in Tokens /\ EndOfTurn \notin Request
  BY TokenSets, SeqMonotonic
<1>4. /\ Append(ids, EndOfTurn) \in Seq(Tokens) /\ Len(Append(ids, EndOfTurn)) = Len(ids) + 1 /\ Len(ids) \in Nat
  BY <1>3, AppendProperties
<1>5. /\ render_full(h) \in Seq(Tokens) /\ Append(h, Answer(ids)) \in Seq(Message)
      /\ render_full(Append(h, Answer(ids))) = render_full(h) \o Append(ids, EndOfTurn)
  BY <1>1, <1>2, RenderAppend
<1>6. Asked(ids) = <<>>
  <2>1. \A n \in 1..Len(ids) : ids[n] \notin Request
    <3>1. \A n \in 1..Len(ids) : ids[n] \in Plain
      OBVIOUS
    <3> QED
      BY <3>1, TokenSets
  <2> QED
    BY <1>3, <2>1, ThoseNone DEF Asked
<1>7. Asked(Append(ids, EndOfTurn)) = <<>>
  BY <1>3, <1>6, ThoseAppend DEF Asked
<1>8. /\ Len(render_full(h) \o Append(ids, EndOfTurn)) = Len(render_full(h)) + (Len(ids) + 1)
      /\ Len(render_full(h)) \in Nat
  BY <1>4, <1>5, ConcatProperties
<1>9. /\ Asked(render_full(h) \o Append(ids, EndOfTurn)) = Asked(render_full(h)) \o Asked(Append(ids, EndOfTurn))
      /\ Asked(render_full(h)) \in Seq(Tokens)
  <2>1. AskedApart(render_full(h), Append(ids, EndOfTurn)) /\ Asked(render_full(h)) \in Seq(Tokens)
    BY <1>4, <1>5, AskedConcat
  <2> QED
    BY <2>1 DEF AskedApart
<1>10. Asked(render_full(h)) \o <<>> = Asked(render_full(h))
  BY <1>9, ConcatEmptySeq
<1>11. Len(render_full(Append(h, Answer(ids)))) = Len(render_full(h)) + Len(ids) + 1
  BY <1>4, <1>5, <1>8
<1> QED
  BY <1>3, <1>5, <1>6, <1>7, <1>9, <1>10, <1>11

(* A question after an even number of messages, an answer after an odd one. *)
LEMMA AlternatingOn ==
  ASSUME NEW h \in Seq(Message), Alternating(h)
  PROVE  /\ \A r \in Request : Len(h) % 2 = 0 =>
              Alternating(Append(h, User(r))) /\ Len(Append(h, User(r))) % 2 = 1
         /\ \A ids \in Seq(Plain) : Len(h) % 2 = 1 =>
              Alternating(Append(h, Answer(ids))) /\ Len(Append(h, Answer(ids))) % 2 = 0
<1>1. Len(h) \in Nat
  OBVIOUS
<1>2. ASSUME NEW m \in Message
      PROVE  /\ Len(Append(h, m)) = Len(h) + 1 /\ (\A n \in 1..Len(h) : Append(h, m)[n] = h[n])
             /\ Append(h, m)[Len(h) + 1] = m
  BY AppendProperties
<1>3. ASSUME NEW r \in Request, Len(h) % 2 = 0
      PROVE  Alternating(Append(h, User(r))) /\ Len(Append(h, User(r))) % 2 = 1
  <2> DEFINE g == Append(h, User(r))
  <2>1. Len(g) = Len(h) + 1 /\ (\A n \in 1..Len(h) : g[n] = h[n]) /\ g[Len(h) + 1] = User(r)
    BY <1>2, MessageTyped
  <2> HIDE DEF g
  <2>2. Len(g) % 2 = 1
    BY <1>1, <1>3, <2>1
  <2>3. ASSUME NEW n \in 1..Len(g)
        PROVE  IF n % 2 = 1 THEN \E q \in Request : g[n] = User(q)
               ELSE g[n].role = "assistant" /\ g[n].text \in Seq(Plain)
    <3>1. CASE n \in 1..Len(h)
      BY <2>1, <3>1 DEF Alternating
    <3>2. CASE n = Len(h) + 1
      BY <2>1, <2>2, <3>2
    <3> QED
      BY <1>1, <2>1, <3>1, <3>2
  <2> QED
    BY <2>2, <2>3 DEF Alternating, g
<1>4. ASSUME NEW ids \in Seq(Plain), Len(h) % 2 = 1
      PROVE  Alternating(Append(h, Answer(ids))) /\ Len(Append(h, Answer(ids))) % 2 = 0
  <2> DEFINE g == Append(h, Answer(ids))
  <2>1. Len(g) = Len(h) + 1 /\ (\A n \in 1..Len(h) : g[n] = h[n]) /\ g[Len(h) + 1] = Answer(ids)
    BY <1>2, MessageTyped
  <2> HIDE DEF g
  <2>2. Len(g) % 2 = 0
    BY <1>1, <1>4, <2>1
  <2>3. ASSUME NEW n \in 1..Len(g)
        PROVE  IF n % 2 = 1 THEN \E q \in Request : g[n] = User(q)
               ELSE g[n].role = "assistant" /\ g[n].text \in Seq(Plain)
    <3>1. CASE n \in 1..Len(h)
      BY <2>1, <3>1 DEF Alternating
    <3>2. CASE n = Len(h) + 1
      <4>1. g[n].role = "assistant" /\ g[n].text \in Seq(Plain)
        BY <2>1, <3>2, MessageTyped
      <4>2. n % 2 # 1
        BY <2>1, <2>2, <3>2
      <4> QED
        BY <4>1, <4>2
    <3> QED
      BY <1>1, <2>1, <3>1, <3>2
  <2> QED
    BY <2>2, <2>3 DEF Alternating, g
<1> QED
  BY <1>3, <1>4

-----------------------------------------------------------------------------
(* What there is room for *)

(* Longest bounds the answers, and all chats together fit.                  *)
LEMMA LongestIs ==
  ASSUME scenario \in Scenarios, Untroubled(scenario)
  PROVE  /\ Longest \in Nat /\ MaxSeqLen \in Nat
         /\ \A r \in Request : Asks[r].kind = "chat" => Asks[r].max <= Longest
         /\ \A i \in Id : (Longest + 3) * Cardinality(Chats(scenario, i)) <= MaxSeqLen
<1>1. MaxSeqLen \in Nat
  BY ChatAssumption DEF MaxSeqLen
<1>2. \E n \in 0..scenario.max_seq_len : RoomFor(scenario, n)
  BY DEF Untroubled, Roomy, RoomFor
<1>3. Longest \in 0..scenario.max_seq_len /\ RoomFor(scenario, Longest)
  <2> HIDE DEF RoomFor
  <2> QED
    BY <1>2 DEF Longest, LongestOf
<1> QED
  BY <1>1, <1>3 DEF RoomFor, MaxSeqLen, Asks

LEMMA Scaled ==
  ASSUME NEW c \in Nat, NEW a \in Nat, NEW b \in Nat, a <= b
  PROVE  c * a <= c * b /\ c * a \in Nat /\ c * (a + 1) = c * a + c
<1>1. PICK d \in Nat : b = a + d
  <2>1. b - a \in Nat /\ b = a + (b - a)
    OBVIOUS
  <2> QED
    BY <2>1
<1>2. c * b = c * a + c * d /\ c * d \in Nat /\ c * a \in Nat
  BY <1>1
<1>3. c * (a + 1) = c * a + c
  OBVIOUS
<1> QED
  BY <1>2, <1>3

(* Requests that have begun are among those that chat.                      *)
LEMMA BegunFinite ==
  ASSUME NEW i \in Id
  PROVE  /\ IsFiniteSet(Begun(i)) /\ Cardinality(Begun(i)) \in Nat
         /\ Cardinality(Chats(scenario, i)) \in Nat /\ Cardinality(Begun(i)) <= Cardinality(Chats(scenario, i))
<1>1. IsFiniteSet(Request)
  BY ChatAssumption
<1>2. Chats(scenario, i) \subseteq Request /\ Begun(i) \subseteq Chats(scenario, i)
  BY DEF Chats, Begun
<1>3. IsFiniteSet(Chats(scenario, i))
  BY <1>1, <1>2, FS_Subset
<1>4. IsFiniteSet(Begun(i)) /\ Cardinality(Begun(i)) <= Cardinality(Chats(scenario, i))
  BY <1>2, <1>3, FS_Subset
<1> QED
  BY <1>3, <1>4, FS_CardinalityType

(* What the chats that have begun may render to fits the cache.             *)
LEMMA BudgetFits ==
  ASSUME scenario \in Scenarios, Untroubled(scenario), NEW i \in Id
  PROVE  Budget(i) \in Nat /\ Budget(i) <= MaxSeqLen
<1>1. Longest + 3 \in Nat /\ MaxSeqLen \in Nat /\ (Longest + 3) * Cardinality(Chats(scenario, i)) <= MaxSeqLen
  BY LongestIs
<1> DEFINE a == Cardinality(Begun(i))
           b == Cardinality(Chats(scenario, i))
           c == Longest + 3
<1>2. a \in Nat /\ b \in Nat /\ a <= b
  BY BegunFinite
<1>3. c * b <= MaxSeqLen /\ c \in Nat
  BY <1>1
<1> HIDE DEF a, b, c
<1>4. c * a <= c * b /\ c * a \in Nat
  BY <1>2, <1>3, Scaled
<1>5. c * b \in Nat
  BY <1>2, <1>3
<1>6. c * a \in Nat /\ c * a <= MaxSeqLen
  BY <1>1, <1>3, <1>4, <1>5
<1> QED
  BY <1>6 DEF Budget, a, c

(* Nothing begins: the budget is the same.                                  *)
LEMMA BegunSame ==
  ASSUME NEW i \in Id, UNCHANGED scenario,
         \A q \in Chats(scenario, i) : pc'[q] \in {"new", "evicted"} <=> pc[q] \in {"new", "evicted"}
  PROVE  Begun(i)' = Begun(i) /\ Budget(i)' = Budget(i) /\ (NoneLeft(i) => NoneLeft(i)') /\ Longest' = Longest
<1>1. Chats(scenario', i) = Chats(scenario, i) /\ LongestOf(scenario') = LongestOf(scenario)
  OBVIOUS
<1>2. Begun(i)' = Begun(i)
  BY <1>1 DEF Begun
<1>3. NoneLeft(i) => NoneLeft(i)'
  BY <1>1 DEF NoneLeft
<1>4. Longest' = Longest
  BY <1>1 DEF Longest
<1>5. Budget(i)' = Budget(i)
  BY <1>2, <1>4 DEF Budget
<1> QED
  BY <1>2, <1>3, <1>4, <1>5

(* A chat that has not begun has its share of the cache yet.                 *)
LEMMA RoomLeft ==
  ASSUME scenario \in Scenarios, Untroubled(scenario),
         NEW r \in Request, Asks[r].kind = "chat", pc[r] \in {"new", "evicted"}
  PROVE  /\ Budget(id(r)) \in Nat /\ Longest \in Nat /\ MaxSeqLen \in Nat
         /\ (Longest + 3) * (Cardinality(Begun(id(r))) + 1) = Budget(id(r)) + Longest + 3
         /\ Budget(id(r)) + Longest + 3 <= MaxSeqLen
         /\ Cardinality(Begun(id(r)) \cup {r}) = Cardinality(Begun(id(r))) + 1
<1>1. id(r) \in Id
  BY AskTyped
<1>2. r \in Chats(scenario, id(r)) /\ r \notin Begun(id(r)) /\ Begun(id(r)) \subseteq Chats(scenario, id(r))
  BY DEF Chats, Begun, id, Asks
<1>3. IsFiniteSet(Chats(scenario, id(r)))
  <2>1. IsFiniteSet(Request) /\ Chats(scenario, id(r)) \subseteq Request
    BY ChatAssumption DEF Chats
  <2> QED
    BY <2>1, FS_Subset
<1>4. IsFiniteSet(Begun(id(r))) /\ Cardinality(Begun(id(r))) \in Nat /\ Cardinality(Chats(scenario, id(r))) \in Nat
  BY <1>1, BegunFinite
<1>5. Cardinality(Begun(id(r)) \cup {r}) = Cardinality(Begun(id(r))) + 1
  BY <1>2, <1>4, FS_AddElement
<1>6. Cardinality(Begun(id(r)) \cup {r}) <= Cardinality(Chats(scenario, id(r)))
  <2>1. Begun(id(r)) \cup {r} \subseteq Chats(scenario, id(r))
    BY <1>2
  <2> QED
    BY <1>3, <2>1, FS_Subset
<1>7. Longest \in Nat /\ MaxSeqLen \in Nat /\ (Longest + 3) * Cardinality(Chats(scenario, id(r))) <= MaxSeqLen
  BY <1>1, LongestIs
<1> DEFINE a == Cardinality(Begun(id(r)))
           b == Cardinality(Chats(scenario, id(r)))
           c == Longest + 3
<1>8. a \in Nat /\ b \in Nat /\ c \in Nat /\ a + 1 \in Nat /\ a + 1 <= b /\ c * b <= MaxSeqLen /\ c = Longest + 3
      /\ Budget(id(r)) = c * a
  BY <1>4, <1>5, <1>6, <1>7 DEF Budget
<1> HIDE DEF a, b, c
<1>9. c * (a + 1) = c * a + c /\ c * a \in Nat
  BY <1>8, Scaled
<1>10. c * (a + 1) <= c * b /\ c * (a + 1) \in Nat /\ c * b \in Nat
  <2>1. c * (a + 1) <= c * b /\ c * (a + 1) \in Nat
    BY <1>8, Scaled
  <2>2. c * b \in Nat
    BY <1>8
  <2> QED
    BY <2>1, <2>2
<1>11. Budget(id(r)) \in Nat /\ c * (a + 1) = Budget(id(r)) + Longest + 3 /\ Budget(id(r)) + Longest + 3 <= MaxSeqLen
  BY <1>7, <1>8, <1>9, <1>10
<1> QED
  BY <1>5, <1>7, <1>11 DEF a, c

(* ... and gets it when it begins.                                          *)
LEMMA BegunGrows ==
  ASSUME scenario \in Scenarios, Untroubled(scenario), UNCHANGED scenario,
         NEW r \in Request, Asks[r].kind = "chat", pc[r] \in {"new", "evicted"},
         pc'[r] \notin {"new", "evicted"}, \A q \in Request \ {r} : pc'[q] = pc[q]
  PROVE  Budget(id(r))' = Budget(id(r)) + Longest + 3 /\ Longest' = Longest
<1>1. Chats(scenario', id(r)) = Chats(scenario, id(r)) /\ LongestOf(scenario') = LongestOf(scenario) /\ id(r)' = id(r)
  BY DEF id, Asks
<1>2. r \in Chats(scenario, id(r))
  BY DEF Chats, id, Asks
<1>3. Begun(id(r))' = Begun(id(r)) \cup {r}
  <2>1. Begun(id(r))' = {q \in Chats(scenario, id(r)) : pc'[q] \notin {"new", "evicted"}}
    BY <1>1 DEF Begun
  <2>2. \A q \in Chats(scenario, id(r)) : q \in Request
    BY DEF Chats
  <2> QED
    BY <1>2, <2>1, <2>2 DEF Begun
<1>4. Longest' = Longest
  BY <1>1 DEF Longest
<1>5. Budget(id(r))' = (Longest + 3) * Cardinality(Begun(id(r)) \cup {r})
  BY <1>3, <1>4 DEF Budget
<1> QED
  BY <1>4, <1>5, RoomLeft

-----------------------------------------------------------------------------
(* A session whose turn does not change. *)
LEMMA SameSession ==
  ASSUME NEW i \in Id, OrderlyAt(i), UNCHANGED scenario,
         sessions'[i].history = sessions[i].history, sessions'[i].cached = sessions[i].cached,
         sessions'[i].ended = sessions[i].ended, sessions'[i].whole = sessions[i].whole,
         Turning(i)' <=> Turning(i), Turning(i) => turn'.delta = turn.delta, poisoned => poisoned',
         \A q \in Chats(scenario, i) : pc'[q] \in {"new", "evicted"} <=> pc[q] \in {"new", "evicted"}
  PROVE  OrderlyAt(i)'
<1>1. Budget(i)' = Budget(i) /\ (NoneLeft(i) => NoneLeft(i)') /\ Longest' = Longest
  BY BegunSame
<1>2. Alternating(sessions'[i].history) /\ sessions'[i].ended = sessions'[i].whole
  BY DEF OrderlyAt
<1>3. Settled(i) => Settled(i)'
  BY <1>1 DEF Settled
<1>4. ASSUME Turning(i) PROVE Fed(i)'
  <2>1. Fed(i)
    BY <1>4 DEF OrderlyAt
  <2> QED
    BY <1>1, <1>4, <2>1 DEF Fed
<1>5. ~ Turning(i) => Settled(i) \/ poisoned \/ NoneLeft(i)
  BY DEF OrderlyAt
<1> QED
  BY <1>1, <1>2, <1>3, <1>4, <1>5 DEF OrderlyAt

(* A request takes part in one session only.                                *)
LEMMA Others ==
  ASSUME CInv, NEW r \in Request, NEW i \in Id, i # id(r) \/ Asks[r].kind # "chat"
  PROVE  \A q \in Chats(scenario, i) : q \in Request \ {r}
  BY DEF Chats, id, Asks

(* lock().unwrap() on a poisoned mutex leaves the sessions as they are.     *)
LEMMA PanicsOrderly ==
  ASSUME OInv, UNCHANGED scenario, NEW r \in Request, Free, poisoned, Panics(r)
  PROVE  Orderly'
<1>1. pc' = [pc EXCEPT ![r] = "over"] /\ UNCHANGED <<sessions, holder, poisoned>>
  BY DEF Panics
<1>2. ASSUME NEW i \in Id, i \in Sessions' PROVE OrderlyAt(i)'
  <2>1. i \in Sessions
    BY <1>1, <1>2 DEF Sessions
  <2>2. OrderlyAt(i)
    BY <2>1 DEF OInv, Orderly
  <2>3. ~ Turning(i)'
    BY <1>1 DEF Turning, Free
  <2>4. Alternating(sessions'[i].history) /\ sessions'[i].ended = sessions'[i].whole /\ poisoned'
    BY <1>1, <2>2 DEF OrderlyAt
  <2> QED
    BY <2>3, <2>4 DEF OrderlyAt
<1> QED
  BY <1>2 DEF Orderly, Sessions

(* A new session is empty; one that is evicted is not asked of.             *)
LEMMA CreateOrderly ==
  ASSUME OInv, UNCHANGED scenario, NEW r \in Request, Untroubled(scenario),
         Create(r) \/ Destroy(r) \/ evict_idle(r)
  PROVE  Orderly'
<1>1. Free
  BY DEF Create, Destroy, evict_idle
<1>2. CASE poisoned
  <2>1. Panics(r)
    BY <1>2 DEF Create, Destroy, evict_idle
  <2> QED
    BY <1>1, <1>2, <2>1, PanicsOrderly
<1>3. CASE ~ poisoned
  <2>1. /\ UNCHANGED <<holder, poisoned, turn>> /\ pc[r] = "new"
        /\ \/ Asks[r].kind # "chat" /\ pc' = [pc EXCEPT ![r] = "over"]
           \/ Asks[r].kind = "chat" /\ pc' = [pc EXCEPT ![r] = "evicted"]
    BY <1>3 DEF Create, Destroy, evict_idle
  <2>2. ASSUME NEW i \in Id
        PROVE  \/ sessions'[i] = NoSession \/ sessions'[i] = sessions[i]
               \/ sessions'[i] = [history |-> <<>>, cached |-> <<>>, ended |-> TRUE, expired |-> FALSE, whole |-> TRUE]
    BY <1>3 DEF Create, Destroy, evict_idle, OInv, CInv, ChatTyped
  <2>3. ASSUME NEW i \in Id
        PROVE  \A q \in Chats(scenario, i) : pc'[q] \in {"new", "evicted"} <=> pc[q] \in {"new", "evicted"}
    <3>1. CASE Asks[r].kind # "chat"
      <4>1. \A q \in Chats(scenario, i) : q \in Request \ {r}
        BY <3>1, Others DEF OInv
      <4> QED
        BY <2>1, <3>1, <4>1 DEF OInv, CInv, ChatTyped
    <3>2. CASE Asks[r].kind = "chat"
      <4>1. \A q \in Chats(scenario, i) : q \in Request
        BY DEF Chats
      <4> QED
        BY <2>1, <3>2, <4>1 DEF OInv, CInv, ChatTyped
    <3> QED
      BY <3>1, <3>2
  <2>4. ASSUME NEW i \in Id PROVE ~ Turning(i) /\ ~ Turning(i)'
    BY <1>1, <2>1 DEF Turning, Free
  <2>5. ASSUME NEW i \in Id, i \in Sessions' PROVE OrderlyAt(i)'
    <3>0. sessions'[i] # NoSession
      BY <2>5 DEF Sessions
    <3>1. CASE sessions'[i] = sessions[i]
      <4>1. OrderlyAt(i)
        BY <3>0, <3>1 DEF Sessions, OInv, Orderly
      <4> QED
        BY <2>1, <2>3, <2>4, <3>1, <4>1, SameSession
    <3>2. CASE sessions'[i] = [history |-> <<>>, cached |-> <<>>, ended |-> TRUE, expired |-> FALSE, whole |-> TRUE]
      <4>1. sessions'[i].history = <<>> /\ sessions'[i].cached = <<>> /\ sessions'[i].ended = sessions'[i].whole
        BY <3>2
      <4>2. Budget(i)' \in Nat
        <5>1. Budget(i)' = Budget(i)
          BY <2>3, BegunSame
        <5>2. Budget(i) \in Nat
          BY BudgetFits DEF OInv, CInv, ChatTyped
        <5> QED
          BY <5>1, <5>2
      <4>3. render_full(<<>>) = <<>> /\ Len(<<>>) = 0
        <5>1. render_full(<<>>) = <<>>
          <6>1. <<>> \in Seq(Message) /\ User(r) \in Message
            BY MessageTyped
          <6> QED
            BY <6>1, RenderAppend
        <5> QED
          BY <5>1
      <4>4. Settled(i)'
        BY <4>1, <4>2, <4>3 DEF Settled
      <4>5. Alternating(sessions'[i].history)
        BY <4>1, <4>3 DEF Alternating
      <4> QED
        BY <2>4, <4>1, <4>4, <4>5 DEF OrderlyAt
    <3> QED
      BY <2>2, <3>0, <3>1, <3>2
  <2> QED
    BY <2>5 DEF Orderly, Sessions
<1> QED
  BY <1>2, <1>3

(* A turn fails when a run may: it was the only one on its session.          *)
LEMMA AbortOrderly ==
  ASSUME OInv, UNCHANGED <<scenario, poisoned>>, NEW r \in Request, Untroubled(scenario),
         Asks[r].kind = "chat", failures < scenario.max_failures,
         holder \in {r, NoOne}, NEW s \in ChatSession, Abort(r, s),
         Alternating(s.history), s.ended = s.whole
  PROVE  Orderly'
<1>1. /\ sessions' = [sessions EXCEPT ![id(r)] = s] /\ holder' = NoOne /\ pc' = [pc EXCEPT ![r] = "failed"]
  BY DEF Abort
<1>2. scenario.max_failures # 0
  BY ChatAssumption DEF OInv, CInv, ChatTyped
<1>3. \A i \in Id : \A p, q \in Chats(scenario, i) : p = q
  BY <1>2 DEF Untroubled
<1>4. id(r) \in Id /\ id(r)' = id(r)
  BY AskTyped DEF OInv, CInv, ChatTyped, id, Asks
<1>5. ASSUME NEW i \in Id, i \in Sessions' PROVE OrderlyAt(i)'
  <2>1. ~ Turning(i)'
    BY <1>1 DEF Turning
  <2>2. CASE i = id(r)
    <3>1. sessions'[i] = s
      BY <1>1, <2>2 DEF OInv, CInv, ChatTyped
    <3>2. r \in Chats(scenario, i)
      BY <2>2 DEF Chats, id, Asks
    <3>3. \A q \in Chats(scenario, i) : q = r
      BY <1>3, <3>2
    <3>4. pc'[r] = "failed"
      BY <1>1 DEF OInv, CInv, ChatTyped
    <3>5. NoneLeft(i)'
      BY <3>3, <3>4 DEF NoneLeft
    <3> QED
      BY <2>1, <3>1, <3>5 DEF OrderlyAt
  <2>3. CASE i # id(r)
    <3>1. sessions'[i] = sessions[i]
      BY <1>1, <1>4, <2>3 DEF OInv, CInv, ChatTyped
    <3>2. OrderlyAt(i)
      BY <1>5, <3>1 DEF Sessions, OInv, Orderly
    <3>3. ~ Turning(i)
      BY <2>3 DEF Turning
    <3>4. \A q \in Chats(scenario, i) : q \in Request \ {r}
      BY <2>3, Others DEF OInv
    <3>5. \A q \in Chats(scenario, i) : pc'[q] \in {"new", "evicted"} <=> pc[q] \in {"new", "evicted"}
      BY <1>1, <3>4 DEF OInv, CInv, ChatTyped
    <3> QED
      BY <2>1, <3>1, <3>2, <3>3, <3>5, SameSession
  <2> QED
    BY <2>2, <2>3
<1> QED
  BY <1>5 DEF Orderly, Sessions

(* What a turn feeds completes the conversation. *)
LEMMA BeginFeeds ==
  ASSUME CInv, NEW r \in Request, sessions[id(r)] # NoSession, Settled(id(r))
  PROVE  LET h == Append(sessions[id(r)].history, User(r))
             d == DeltaOf(r)
         IN /\ Asked(d.base \o d.delta) = Asked(render_full(h))
            /\ d.delta # <<>> /\ d.delta[Len(d.delta)] = EndOfAsk
            /\ Len(d.base) + Len(d.delta) <= Len(render_full(h))
            /\ Len(render_full(h)) = Len(render_full(sessions[id(r)].history)) + 2
<1> DEFINE s == sessions[id(r)]
           h == Append(s.history, User(r))
           prev == render_full(s.history)
           two == <<r, EndOfAsk>>
           d == DeltaOf(r)
<1>1. s \in ChatSession
  BY BeginTyped DEF CInv
<1>2. s.history \in Seq(Message) /\ s.cached \in Seq(Tokens)
  BY <1>1, SessionTyped
<1>3. /\ prev \in Seq(Tokens) /\ two \in Seq(Tokens) /\ h \in Seq(Message)
      /\ render_full(h) = prev \o two /\ render_full(h) \in Seq(Tokens)
      /\ Len(render_full(h)) = Len(prev) + 2
      /\ Asked(render_full(h)) = Asked(prev) \o Asked(two)
  BY <1>2, RenderUser
<1>4. d = Delta(s, prev, render_full(h))
  BY DEF DeltaOf
<1>5. Len(two) = 2 /\ two[2] = EndOfAsk
  OBVIOUS
<1>6. s.history # <<>> => Asked(s.cached) = Asked(prev)
  BY DEF Settled
<1>7. Len(s.cached) <= Len(prev)
  BY DEF Settled
<1> HIDE DEF s, h, prev, two, d
<1>8. CASE s.history = <<>> \/ ~ s.ended \/ prev = <<>>
  <2>1. d.base = <<>> /\ d.delta = render_full(h)
    BY <1>4, <1>8 DEF Delta
  <2>2. <<>> \o render_full(h) = render_full(h) /\ Len(<<>>) = 0
    BY <1>3, ConcatEmptySeq
  <2>3. render_full(h)[Len(render_full(h))] = EndOfAsk
    <3>1. Len(prev) \in Nat /\ Len(prev) + 2 \in 1..(Len(prev) + Len(two)) /\ ~ (Len(prev) + 2 <= Len(prev)) /\ (Len(prev) + 2) - Len(prev) = 2
      BY <1>3, <1>5
    <3>2. (prev \o two)[Len(prev) + 2] = two[(Len(prev) + 2) - Len(prev)]
      BY <1>3, <3>1, ConcatProperties
    <3> QED
      BY <1>3, <1>5, <3>1, <3>2
  <2>4. render_full(h) # <<>> /\ Len(render_full(h)) \in Nat
    <3>1. Len(render_full(h)) \in Nat /\ Len(prev) \in Nat
      BY <1>3
    <3> QED
      BY <1>3, <2>2, <3>1
  <2> QED
    BY <1>3, <2>1, <2>2, <2>3, <2>4 DEF s, h, prev, d
<1>9. CASE ~ (s.history = <<>> \/ ~ s.ended \/ prev = <<>>)
  <2>1. d.base = s.cached /\ d.delta = SubSeq(render_full(h), Len(prev) + 1, Len(render_full(h)))
    BY <1>4, <1>9 DEF Delta
  <2>2. d.delta = two
    <3>1. Len(prev) \in Nat /\ Len(prev) + 1 \in (Len(prev) + 1)..(Len(prev) + Len(two))
          /\ Len(prev) + 2 \in (Len(prev) + 1)..(Len(prev) + Len(two))
          /\ (Len(prev) + 1) - Len(prev) = 1 /\ (Len(prev) + 2) - Len(prev) = 2
      BY <1>3, <1>5
    <3>2. SubSeq(prev \o two, Len(prev) + 1, Len(prev) + 2) = SubSeq(two, (Len(prev) + 1) - Len(prev), (Len(prev) + 2) - Len(prev))
      BY <1>3, <3>1, SubSeqOfConcat2
    <3>3. SubSeq(two, 1, 2) = two
      BY <1>3, <1>5, AllOfIt
    <3> QED
      BY <1>3, <2>1, <3>1, <3>2, <3>3
  <2>3. Asked(s.cached \o two) = Asked(s.cached) \o Asked(two)
    <3>1. AskedApart(s.cached, two)
      BY <1>2, <1>3, AskedConcat
    <3> QED
      BY <3>1 DEF AskedApart
  <2>4. Asked(s.cached) = Asked(prev)
    BY <1>6, <1>9
  <2>5. Len(s.cached) + Len(two) <= Len(render_full(h)) /\ two # <<>>
    <3>1. Len(s.cached) \in Nat /\ Len(prev) \in Nat /\ Len(<<>>) = 0
      BY <1>2, <1>3
    <3> QED
      BY <1>3, <1>5, <1>7, <3>1
  <2> QED
    BY <1>3, <1>5, <2>1, <2>2, <2>3, <2>4, <2>5 DEF s, h, prev, d
<1> QED
  BY <1>8, <1>9

(* A question leaves its turn fed with the whole conversation.              *)
LEMMA BeginOrderly ==
  ASSUME OInv, UNCHANGED scenario, NEW r \in Request, Untroubled(scenario), Begin(r)
  PROVE  Orderly'
<1>1. pc[r] = "evicted" /\ Free /\ Asks[r].kind = "chat" /\ CInv /\ scenario \in Scenarios
  BY BeginCases DEF OInv, CInv, HolderTrue, ChatTyped
<1>2. id(r) \in Id /\ id(r)' = id(r) /\ r \in Chats(scenario, id(r))
  BY <1>1, AskTyped DEF id, Asks, Chats
<1>3. CASE poisoned /\ Panics(r)
  BY <1>1, <1>3, PanicsOrderly
<1>4. CASE /\ sessions[id(r)] = NoSession /\ pc' = [pc EXCEPT ![r] = "failed"]
           /\ UNCHANGED <<sessions, holder, poisoned, turn>>
  <2>1. ASSUME NEW i \in Id, i \in Sessions' PROVE OrderlyAt(i)'
    <3>1. i # id(r) /\ i \in Sessions /\ OrderlyAt(i)
      BY <1>4, <2>1 DEF Sessions, OInv, Orderly
    <3>2. ~ Turning(i) /\ ~ Turning(i)'
      BY <1>1, <1>4 DEF Turning, Free
    <3>3. \A q \in Chats(scenario, i) : q \in Request \ {r}
      BY <1>1, <3>1, Others
    <3>4. \A q \in Chats(scenario, i) : pc'[q] \in {"new", "evicted"} <=> pc[q] \in {"new", "evicted"}
      BY <1>4, <3>3 DEF OInv, CInv, ChatTyped
    <3> QED
      BY <1>4, <3>1, <3>2, <3>4, SameSession
  <2> QED
    BY <2>1 DEF Orderly, Sessions
<1>5. CASE sessions[id(r)] # NoSession /\ ~ poisoned
  <2> DEFINE s == sessions[id(r)]
             h == Append(s.history, User(r))
  <2>1. OrderlyAt(id(r)) /\ ~ Turning(id(r))
    BY <1>1, <1>2, <1>5 DEF OInv, Orderly, Sessions, Turning, Free
  <2>2. Settled(id(r)) /\ Alternating(s.history) /\ s.ended = s.whole
    <3>1. ~ NoneLeft(id(r))
      BY <1>1, <1>2 DEF NoneLeft
    <3> QED
      BY <1>5, <2>1, <3>1 DEF OrderlyAt
  <2>3. /\ s \in ChatSession /\ AskedOf(r) \in ChatSession /\ AskedOf(r).history = h
        /\ AskedOf(r).cached = DeltaOf(r).base
        /\ AskedOf(r).ended = s.ended /\ AskedOf(r).whole = s.whole
        /\ DeltaOf(r).base \in Seq(Tokens) /\ DeltaOf(r).delta \in Seq(Tokens)
    BY <1>1, <1>5, BeginTyped DEF CInv
  <2>4. s.history \in Seq(Message) /\ h \in Seq(Message)
    <3>1. s.history \in Seq(Message)
      BY <2>3, SessionTyped
    <3> QED
      BY <3>1, RenderUser
  <2>5. Alternating(h) /\ Len(h) % 2 = 1
    <3>1. Len(s.history) % 2 = 0
      BY <2>2 DEF Settled
    <3> QED
      BY <2>2, <2>4, <3>1, AlternatingOn
  <2>6. /\ Asked(DeltaOf(r).base \o DeltaOf(r).delta) = Asked(render_full(h))
        /\ DeltaOf(r).delta # <<>> /\ DeltaOf(r).delta[Len(DeltaOf(r).delta)] = EndOfAsk
        /\ Len(DeltaOf(r).base) + Len(DeltaOf(r).delta) <= Len(render_full(h))
        /\ Len(render_full(h)) = Len(render_full(s.history)) + 2
    BY <1>1, <1>5, <2>2, BeginFeeds
  <2>7. /\ Len(render_full(s.history)) <= Budget(id(r)) /\ Len(render_full(s.history)) \in Nat
        /\ Budget(id(r)) \in Nat /\ Longest \in Nat /\ MaxSeqLen \in Nat
        /\ Budget(id(r)) + Longest + 3 <= MaxSeqLen
    <3>1. render_full(s.history) \in Seq(Tokens)
      BY <2>4, RenderUser
    <3>2. Len(render_full(s.history)) <= Budget(id(r))
      BY <2>2 DEF Settled
    <3>3. /\ Budget(id(r)) \in Nat /\ Longest \in Nat /\ MaxSeqLen \in Nat
          /\ Budget(id(r)) + Longest + 3 <= MaxSeqLen
      <4>1. pc[r] \in {"new", "evicted"}
        BY <1>1
      <4> QED
        BY <1>1, <4>1, RoomLeft
    <3>4. Len(render_full(s.history)) \in Nat
      BY <3>1
    <3> QED
      BY <3>2, <3>3, <3>4
  <2>8. ~ (Len(DeltaOf(r).base) + Len(DeltaOf(r).delta) > MaxSeqLen)
    <3>1. ASSUME NEW a \in Nat, NEW b \in Nat, NEW c \in Nat, NEW d \in Nat, NEW m \in Nat, NEW n \in Nat,
                 a + b <= c + 2, c <= n, n + d + 3 <= m
          PROVE  ~ (a + b > m)
      BY <3>1
    <3>2. Len(DeltaOf(r).base) \in Nat /\ Len(DeltaOf(r).delta) \in Nat
      BY <2>3
    <3>3. Len(DeltaOf(r).base) + Len(DeltaOf(r).delta) <= Len(render_full(s.history)) + 2
      BY <2>6
    <3> QED
      BY ONLY <2>7, <3>1, <3>2, <3>3
  <2> HIDE DEF h
  <2>9. CASE /\ sessions' = [sessions EXCEPT ![id(r)] = AskedOf(r)]
             /\ holder' = r
             /\ turn' = [delta |-> DeltaOf(r).delta, ids |-> <<>>, emitted |-> 0]
             /\ pc' = [pc EXCEPT ![r] = "turn"]
             /\ poisoned' = poisoned
    <3>1. pc'[r] = "turn" /\ (\A q \in Request \ {r} : pc'[q] = pc[q]) /\ sessions'[id(r)] = AskedOf(r)
          /\ \A i \in Id : i # id(r) => sessions'[i] = sessions[i]
      BY <1>2, <2>9 DEF OInv, CInv, ChatTyped
    <3>2. \A i \in Id : Turning(i)' <=> i = id(r)
      BY <1>2, <2>9, <3>1, TokenSets DEF Turning
    <3>3. turn'.delta = DeltaOf(r).delta
      BY <2>9
    <3>4. Budget(id(r))' = Budget(id(r)) + Longest + 3 /\ Longest' = Longest
      <4>1. pc[r] \in {"new", "evicted"} /\ pc'[r] \notin {"new", "evicted"}
        BY <1>1, <3>1
      <4> QED
        BY <1>1, <3>1, <4>1, BegunGrows
    <3>5. ASSUME NEW i \in Id, i \in Sessions', i # id(r) PROVE OrderlyAt(i)'
      <4>1. OrderlyAt(i)
        BY <3>1, <3>5 DEF Sessions, OInv, Orderly
      <4>2. ~ Turning(i) /\ ~ Turning(i)'
        BY <1>1, <3>2, <3>5 DEF Turning, Free
      <4>3. \A q \in Chats(scenario, i) : q \in Request \ {r}
        BY <1>1, <3>5, Others
      <4>4. \A q \in Chats(scenario, i) : pc'[q] \in {"new", "evicted"} <=> pc[q] \in {"new", "evicted"}
        BY <3>1, <4>3
      <4> QED
        BY <2>9, <3>1, <3>5, <4>1, <4>2, <4>4, SameSession
    <3>6. ASSUME NEW i \in Id, i = id(r) PROVE OrderlyAt(i)'
      <4>1. /\ sessions'[i].history = h /\ sessions'[i].cached = DeltaOf(r).base
            /\ sessions'[i].ended = sessions'[i].whole /\ Turning(i)'
        BY <2>2, <2>3, <3>1, <3>2, <3>6
      <4>2. Budget(i)' = Budget(id(r)) + Longest + 3
        BY <1>2, <3>4, <3>6
      <4>3. Len(render_full(h)) + Longest + 1 <= Budget(id(r)) + Longest + 3
        BY <2>6, <2>7
      <4>4. Fed(i)'
        BY <2>5, <2>6, <3>3, <3>4, <4>1, <4>2, <4>3 DEF Fed
      <4> QED
        BY <2>5, <4>1, <4>4 DEF OrderlyAt
    <3> QED
      BY <3>5, <3>6 DEF Orderly, Sessions
  <2>10. CASE /\ failures < scenario.max_failures /\ Abort(r, AskedOf(r)) /\ poisoned' = poisoned
    <3>1. Alternating(AskedOf(r).history) /\ AskedOf(r).ended = AskedOf(r).whole
      BY <2>2, <2>3, <2>5
    <3>2. holder \in {r, NoOne}
      BY <1>1 DEF Free
    <3> QED
      BY <1>1, <2>3, <2>10, <3>1, <3>2, AbortOrderly
  <2> QED
    BY <1>5, <2>8, <2>9, <2>10, BeginCases
<1> QED
  BY <1>3, <1>4, <1>5, BeginCases

-----------------------------------------------------------------------------
(* The last of two sequences together.                                       *)
Ends(a, b) ==
  /\ Len(a \o b) = Len(a) + Len(b) /\ Len(a) \in Nat /\ Len(b) \in Nat
  /\ b # <<>> => (a \o b)[Len(a \o b)] = b[Len(b)] /\ Len(b) > 0
  /\ b = <<>> => a \o b = a
LEMMA LastOf ==
  ASSUME NEW S, NEW a \in Seq(S), NEW b \in Seq(S)
  PROVE  Ends(a, b) /\ a \o b \in Seq(S)
<1>1. a \o b \in Seq(S) /\ Len(a \o b) = Len(a) + Len(b) /\ Len(a) \in Nat /\ Len(b) \in Nat
  BY ConcatProperties
<1>2. ASSUME b # <<>> PROVE (a \o b)[Len(a \o b)] = b[Len(b)] /\ Len(b) > 0
  <2>1. Len(b) > 0
    BY <1>1, <1>2, EmptySeq
  <2>2. /\ Len(a) + Len(b) \in 1..(Len(a) + Len(b)) /\ ~ (Len(a) + Len(b) <= Len(a))
        /\ (Len(a) + Len(b)) - Len(a) = Len(b)
    BY <1>1, <2>1
  <2>3. (a \o b)[Len(a) + Len(b)] = b[(Len(a) + Len(b)) - Len(a)]
    BY <2>2, ConcatProperties
  <2> QED
    BY <1>1, <2>1, <2>2, <2>3
<1>3. b = <<>> => a \o b = a
  BY ConcatEmptySeq
<1> QED
  BY <1>1, <1>2, <1>3 DEF Ends

(* All but the last token of a sequence that ends with no request.           *)
LEMMA AskedButLast ==
  ASSUME NEW a \in Seq(Tokens), a # <<>>, a[Len(a)] \notin Request
  PROVE  /\ SubSeq(a, 1, Len(a) - 1) \in Seq(Tokens)
         /\ Asked(SubSeq(a, 1, Len(a) - 1)) = Asked(a)
         /\ Len(SubSeq(a, 1, Len(a) - 1)) = Len(a) - 1
<1>1. Len(a) \in Nat /\ Len(a) > 0
  BY EmptySeq
<1> DEFINE m == Len(a) - 1
           p == SubSeq(a, 1, m)
<1>2. m \in 0..(Len(a) - 1) /\ m + 1 = Len(a)
  BY <1>1
<1> HIDE DEF m
<1>3. p \in Seq(Tokens) /\ Len(p) = m /\ a[m + 1] \in Tokens /\ SubSeq(a, 1, m + 1) = Append(p, a[m + 1])
  BY <1>2, Prefixes
<1>4. a = Append(p, a[Len(a)])
  <2>1. SubSeq(a, 1, Len(a)) = a
    BY AllOfIt
  <2> QED
    BY <1>2, <1>3, <2>1
<1>5. a[Len(a)] \in Tokens
  BY <1>2, <1>3
<1> HIDE DEF p
<1> DEFINE x == a[Len(a)]
<1>6. Those(Append(p, x), Request) = Those(p, Request)
  <2>1. x \in Tokens /\ x \notin Request
    BY <1>5
  <2> HIDE DEF x
  <2> QED
    BY <1>3, <2>1, ThoseAppend
<1> QED
  BY <1>3, <1>4, <1>6 DEF Asked, p, m

(* A turn's answer fits the cache: it ends with the model or with max.       *)
LEMMA NeverFull ==
  ASSUME CInv, Untroubled(scenario), NEW r \in Request, pc[r] = "turn", Fed(id(r)), NEW t \in Plain \cup {Eos}
  PROVE  /\ ~ FullAfter(r, t) /\ Len(Append(turn.ids, t)) <= Longest /\ Len(Append(turn.ids, t)) <= Asks[r].max
         /\ Longest \in Nat /\ Len(render_full(History(r))) \in Nat /\ Budget(id(r)) \in Nat
<1>1. /\ id(r) \in Id /\ sessions[id(r)] \in ChatSession /\ turn.ids \in Seq(Plain) /\ turn.delta \in Seq(Tokens)
      /\ Len(turn.ids) < Asks[r].max /\ Asks[r].max \in Nat /\ History(r) \in Seq(Message) /\ Clean(turn.ids)
  BY TurnTyped
<1>2. Asks[r].kind = "chat" /\ scenario \in Scenarios
  BY InTurn DEF CInv, ChatTyped
<1>3. Longest \in Nat /\ MaxSeqLen \in Nat /\ Asks[r].max <= Longest
  BY <1>2, LongestIs
<1>4. Budget(id(r)) \in Nat /\ Budget(id(r)) <= MaxSeqLen
  BY <1>1, <1>2, BudgetFits
<1>5. Len(render_full(History(r))) \in Nat
  <2>1. render_full(History(r)) \in Seq(Tokens)
    BY <1>1, RenderUser
  <2> QED
    BY <2>1
<1>6. Len(sessions[id(r)].cached) \in Nat /\ Len(turn.delta) \in Nat /\ Len(turn.ids) \in Nat
  <2>1. sessions[id(r)].cached \in Seq(Tokens)
    BY <1>1, SessionTyped
  <2> QED
    BY <1>1, <2>1
<1>7. /\ Len(sessions[id(r)].cached) + Len(turn.delta) <= Len(render_full(History(r)))
      /\ Len(render_full(History(r))) + Longest + 1 <= Budget(id(r))
  BY DEF Fed, History
<1>8. Len(Append(turn.ids, t)) = Len(turn.ids) + 1
  BY <1>1, KeptIs
<1> DEFINE c == Len(sessions[id(r)].cached)
           d == Len(turn.delta)
           k == Len(turn.ids)
           n == Len(render_full(History(r)))
           b == Budget(id(r))
           x == Asks[r].max
<1>9. c \in Nat /\ d \in Nat /\ k \in Nat /\ n \in Nat /\ b \in Nat /\ x \in Nat
  BY <1>1, <1>4, <1>5, <1>6
<1>10. c + d <= n /\ n + Longest + 1 <= b /\ b <= MaxSeqLen /\ k < x /\ x <= Longest
  BY <1>1, <1>3, <1>4, <1>7
<1>11. FullAfter(r, t) <=> c + d + Len(Append(turn.ids, t)) > MaxSeqLen
  BY DEF FullAfter
<1> HIDE DEF c, d, k, n, b, x
<1>12. ~ (c + d + (k + 1) > MaxSeqLen) /\ k + 1 <= Longest /\ k + 1 <= x
  BY <1>3, <1>9, <1>10
<1>13. Len(Append(turn.ids, t)) = k + 1
  BY <1>8 DEF k
<1> QED
  BY <1>3, <1>4, <1>5, <1>11, <1>12, <1>13 DEF x

(* An answer recorded: the conversation is complete, but for the last token. *)
LEMMA FinishSettles ==
  ASSUME CInv, Untroubled(scenario), UNCHANGED scenario, NEW r \in Request, pc[r] = "turn",
         OrderlyAt(id(r)), NEW t \in Plain \cup {Eos}, Finishes(r, t),
         sessions'[id(r)] = Written(r, Append(turn.ids, t)), Budget(id(r))' = Budget(id(r))
  PROVE  /\ Settled(id(r))' /\ Alternating(sessions'[id(r)].history)
         /\ sessions'[id(r)].ended = sessions'[id(r)].whole
<1> DEFINE ids == Append(turn.ids, t)
           kept == Kept(ids)
           s == sessions[id(r)]
           h == History(r)
           both == s.cached \o turn.delta
           all == both \o kept
<1>1. /\ id(r) \in Id /\ s \in ChatSession /\ turn.ids \in Seq(Plain) /\ turn.delta \in Seq(Tokens)
      /\ Asks[r].max \in Nat /\ h \in Seq(Message) /\ Clean(turn.ids)
  BY TurnTyped
<1>2. Fed(id(r)) /\ Alternating(h)
  <2>1. holder = r
    BY InTurn
  <2>2. Turning(id(r))
    BY <2>1, TokenSets DEF Turning
  <2> QED
    BY <2>2 DEF OrderlyAt, History
<1>3. /\ Asked(both) = Asked(render_full(h)) /\ turn.delta # <<>> /\ turn.delta[Len(turn.delta)] = EndOfAsk
      /\ Len(s.cached) + Len(turn.delta) <= Len(render_full(h)) /\ Len(h) % 2 = 1
      /\ Len(render_full(h)) + Longest + 1 <= Budget(id(r))
  BY <1>2 DEF Fed, History
<1>4. /\ ~ FullAfter(r, t) /\ Len(ids) <= Longest /\ Longest \in Nat
      /\ Len(render_full(h)) \in Nat /\ Budget(id(r)) \in Nat
  BY <1>2, NeverFull
<1>5. /\ kept \in Seq(Plain) /\ Len(ids) = Len(turn.ids) + 1
      /\ (~ Ended(ids) => kept = ids) /\ (Ended(ids) => kept = turn.ids)
  BY <1>1, KeptIs
<1>6. Len(kept) \in Nat /\ Len(turn.ids) \in Nat /\ Len(kept) <= Longest
  BY <1>1, <1>4, <1>5
<1>7. /\ Written(r, ids).history = Append(h, Answer(kept))
      /\ Written(r, ids).cached = SubSeq(all, 1, Len(all) - 1)
      /\ Written(r, ids).ended = EosEmitted(r, ids) /\ Written(r, ids).whole = Ended(ids)
  BY WrittenTyped
<1>8. EosEmitted(r, ids) = Ended(ids)
  <2>1. CASE Ended(ids)
    BY <2>1 DEF EosEmitted
  <2>2. CASE ~ Ended(ids)
    <3>1. Len(ids) = Asks[r].max /\ kept = ids
      BY <1>4, <1>5, <2>2 DEF Finishes
    <3>2. ~ (Len(kept) < Asks[r].max)
      BY <1>1, <3>1
    <3> QED
      BY <2>2, <3>2 DEF EosEmitted, Ended
  <2> QED
    BY <2>1, <2>2
<1> HIDE DEF ids
<1>9. s.cached \in Seq(Tokens) /\ both \in Seq(Tokens) /\ Len(both) = Len(s.cached) + Len(turn.delta)
      /\ Len(s.cached) \in Nat /\ Len(turn.delta) \in Nat \ {0}
  <2>1. s.cached \in Seq(Tokens)
    BY <1>1, SessionTyped
  <2>2. Len(turn.delta) \in Nat \ {0}
    BY <1>1, <1>3, EmptySeq
  <2>3. Ends(s.cached, turn.delta) /\ both \in Seq(Tokens)
    BY <1>1, <2>1, LastOf
  <2>4. Len(both) = Len(s.cached) + Len(turn.delta) /\ Len(s.cached) \in Nat
    BY <2>3 DEF Ends
  <2> QED
    BY <2>1, <2>2, <2>3, <2>4
<1>10. both[Len(both)] = EndOfAsk
  <2>1. Ends(s.cached, turn.delta)
    BY <1>1, <1>9, LastOf
  <2> QED
    BY <1>3, <2>1 DEF Ends
<1>11. /\ Append(h, Answer(kept)) \in Seq(Message) /\ render_full(h) \in Seq(Tokens)
       /\ Len(render_full(Append(h, Answer(kept)))) = Len(render_full(h)) + Len(kept) + 1
       /\ Asked(render_full(Append(h, Answer(kept)))) = Asked(render_full(h))
       /\ Asked(kept) = <<>> /\ kept \in Seq(Tokens)
  BY <1>1, <1>5, RenderAnswer
<1> HIDE DEF kept, h, both, s
<1>12. all \in Seq(Tokens) /\ Len(all) = Len(both) + Len(kept) /\ Asked(all) = Asked(render_full(h))
       /\ Len(all) \in Nat /\ Len(all) > 0 /\ all # <<>>
  <2>1. all \in Seq(Tokens) /\ Ends(both, kept)
    BY <1>9, <1>11, LastOf
  <2>2. AskedApart(both, kept) /\ Asked(both) \in Seq(Tokens)
    BY <1>9, <1>11, AskedConcat
  <2>3. Asked(both) \o <<>> = Asked(both)
    BY <2>2, ConcatEmptySeq
  <2>4. Len(all) = Len(both) + Len(kept) /\ Len(both) \in Nat
    BY <2>1 DEF Ends
  <2>5. ASSUME NEW c \in Nat, NEW d \in Nat \ {0}, NEW k \in Nat PROVE c + d + k \in Nat /\ c + d + k > 0
    OBVIOUS
  <2>6. Len(all) \in Nat /\ Len(all) > 0 /\ Len(<<>>) = 0
    BY ONLY <1>6, <1>9, <2>4, <2>5
  <2> QED
    BY <1>3, <1>11, <2>1, <2>2, <2>3, <2>4, <2>6 DEF AskedApart
<1>13. all[Len(all)] \notin Request
  <2>1. Ends(both, kept)
    BY <1>9, <1>11, LastOf
  <2>2. CASE kept = <<>>
    BY <1>10, <2>1, <2>2, TokenSets DEF Ends
  <2>3. CASE kept # <<>>
    <3>1. Len(kept) \in 1..Len(kept) /\ all[Len(all)] = kept[Len(kept)]
      BY <1>6, <2>1, <2>3 DEF Ends
    <3>2. kept[Len(kept)] \in Plain
      BY <1>5, <3>1
    <3> QED
      BY <3>1, <3>2, TokenSets
  <2> QED
    BY <2>2, <2>3
<1> HIDE DEF all
<1>14. /\ Asked(SubSeq(all, 1, Len(all) - 1)) = Asked(render_full(h))
       /\ Len(SubSeq(all, 1, Len(all) - 1)) = Len(all) - 1
  BY <1>12, <1>13, AskedButLast
<1>15. Alternating(Append(h, Answer(kept))) /\ Len(Append(h, Answer(kept))) % 2 = 0
  BY <1>1, <1>2, <1>3, <1>5, AlternatingOn
<1>16. id(r)' = id(r)
  BY DEF id, Asks
<1>17. sessions'[id(r)].history = Append(h, Answer(kept)) /\ sessions'[id(r)].cached = SubSeq(all, 1, Len(all) - 1)
       /\ sessions'[id(r)].ended = sessions'[id(r)].whole
  BY <1>7, <1>8 DEF ids
<1>18. /\ Len(all) - 1 <= Len(render_full(h)) + Len(kept) + 1
       /\ Len(render_full(h)) + Len(kept) + 1 <= Budget(id(r))
  <2>1. ASSUME NEW c \in Nat, NEW d \in Nat, NEW k \in Nat, NEW n \in Nat, NEW b \in Nat, NEW l \in Nat,
               c + d <= n, n + l + 1 <= b, k <= l
        PROVE  (c + d + k) - 1 <= n + k + 1 /\ n + k + 1 <= b
    BY <2>1
  <2>2. Len(all) = Len(s.cached) + Len(turn.delta) + Len(kept) /\ Len(turn.delta) \in Nat
    BY <1>9, <1>12
  <2> QED
    BY ONLY <1>3, <1>4, <1>6, <1>9, <2>1, <2>2
<1>19. Settled(id(r))'
  <2>1. /\ Asked(sessions'[id(r)].cached) = Asked(render_full(sessions'[id(r)].history))
        /\ Len(sessions'[id(r)].cached) <= Len(render_full(sessions'[id(r)].history))
        /\ Len(render_full(sessions'[id(r)].history)) <= Budget(id(r))'
        /\ Len(sessions'[id(r)].history) % 2 = 0
    BY <1>11, <1>14, <1>15, <1>17, <1>18
  <2> QED
    BY <1>16, <2>1 DEF Settled
<1> QED
  BY <1>15, <1>17, <1>19

-----------------------------------------------------------------------------
(* Sessions and places as before, but for the requests under way.            *)
LEMMA NothingStirs ==
  ASSUME OInv, UNCHANGED scenario, UNCHANGED poisoned,
         \A i \in Id : /\ sessions'[i] = NoSession <=> sessions[i] = NoSession
                       /\ sessions[i] # NoSession =>
                            /\ sessions'[i].history = sessions[i].history /\ sessions'[i].cached = sessions[i].cached
                            /\ sessions'[i].ended = sessions[i].ended /\ sessions'[i].whole = sessions[i].whole,
         \A i \in Id : (Turning(i)' <=> Turning(i)) /\ (Turning(i) => turn'.delta = turn.delta),
         \A q \in Request : pc'[q] \in {"new", "evicted"} <=> pc[q] \in {"new", "evicted"}
  PROVE  Orderly'
<1>1. ASSUME NEW i \in Id, i \in Sessions' PROVE OrderlyAt(i)'
  <2>1. sessions[i] # NoSession
    BY <1>1 DEF Sessions
  <2>2. OrderlyAt(i)
    BY <2>1 DEF OInv, Orderly, Sessions
  <2>3. \A q \in Chats(scenario, i) : q \in Request
    BY DEF Chats
  <2>4. \A q \in Chats(scenario, i) : pc'[q] \in {"new", "evicted"} <=> pc[q] \in {"new", "evicted"}
    BY <2>3
  <2>5. /\ sessions'[i].history = sessions[i].history /\ sessions'[i].cached = sessions[i].cached
        /\ sessions'[i].ended = sessions[i].ended /\ sessions'[i].whole = sessions[i].whole
    BY <2>1
  <2> QED
    BY <2>2, <2>4, <2>5, SameSession
<1> QED
  BY <1>1 DEF Orderly, Sessions

(* The last token of an answer leaves its session settled.                  *)
LEMMA FinishOrderly ==
  ASSUME OInv, UNCHANGED <<scenario, holder, poisoned>>, NEW r \in Request, Untroubled(scenario), pc[r] = "turn",
         NEW t \in Plain \cup {Eos}, Finishes(r, t),
         sessions' = [sessions EXCEPT ![id(r)] = Written(r, Append(turn.ids, t))],
         pc' = [pc EXCEPT ![r] = "closing"]
  PROVE  Orderly'
<1>1. id(r) \in Id /\ sessions[id(r)] # NoSession /\ holder = r /\ Asks[r].kind = "chat"
  BY TurnTyped, InTurn DEF OInv
<1>2. pc'[r] = "closing" /\ \A q \in Request \ {r} : pc'[q] = pc[q]
  BY DEF OInv, CInv, ChatTyped
<1>3. \A q \in Request : pc'[q] \in {"new", "evicted"} <=> pc[q] \in {"new", "evicted"}
  BY <1>2
<1> DEFINE w == Written(r, Append(turn.ids, t))
<1> HIDE DEF w
<1>4. sessions' = [sessions EXCEPT ![id(r)] = w]
  BY DEF w
<1>5. sessions'[id(r)] = w /\ \A i \in Id : i # id(r) => sessions'[i] = sessions[i]
  BY <1>1, <1>4 DEF OInv, CInv, ChatTyped
<1>6. \A i \in Id : \A q \in Chats(scenario, i) : pc'[q] \in {"new", "evicted"} <=> pc[q] \in {"new", "evicted"}
  BY <1>3 DEF Chats
<1>7. \A i \in Id : ~ Turning(i)'
  BY <1>1, <1>2 DEF Turning
<1>8. ASSUME NEW i \in Id, i \in Sessions' PROVE OrderlyAt(i)'
  <2>1. CASE i = id(r)
    <3>1. Budget(id(r))' = Budget(id(r))
      <4>1. Budget(i)' = Budget(i)
        BY <1>6, BegunSame
      <4>2. id(r)' = id(r)
        BY DEF id, Asks
      <4> QED
        BY <2>1, <4>1, <4>2
    <3>2. OrderlyAt(id(r))
      BY <1>1 DEF OInv, Orderly, Sessions
    <3>3. /\ Settled(id(r))' /\ Alternating(sessions'[id(r)].history)
          /\ sessions'[id(r)].ended = sessions'[id(r)].whole
      BY <1>5, <3>1, <3>2, FinishSettles DEF OInv, w
    <3>4. id(r)' = id(r)
      BY DEF id, Asks
    <3>5. Settled(i)' /\ Alternating(sessions'[i].history) /\ sessions'[i].ended = sessions'[i].whole
      BY <2>1, <3>3, <3>4
    <3> QED
      BY <1>7, <3>5 DEF OrderlyAt
  <2>2. CASE i # id(r)
    <3>1. sessions'[i] = sessions[i] /\ OrderlyAt(i)
      BY <1>5, <1>8, <2>2 DEF OInv, Orderly, Sessions
    <3>2. ~ Turning(i)
      BY <1>1, <2>2 DEF Turning
    <3> QED
      BY <1>6, <1>7, <3>1, <3>2, SameSession
  <2> QED
    BY <2>1, <2>2
<1> QED
  BY <1>8 DEF Orderly, Sessions

(* So every token leaves all sessions in order.                             *)
LEMMA TokenOrderly ==
  ASSUME OInv, UNCHANGED scenario, NEW r \in Request, Untroubled(scenario), Token(r)
  PROVE  Orderly'
<1>1. pc[r] = "turn" /\ UNCHANGED <<holder, poisoned>>
  BY DEF Token
<1>2. PICK t \in Plain \cup {Eos} :
         \/ /\ Finishes(r, t)
            /\ sessions' = [sessions EXCEPT ![id(r)] = Written(r, Append(turn.ids, t))]
            /\ pc' = [pc EXCEPT ![r] = "closing"]
         \/ /\ turn' = [turn EXCEPT !.ids = Append(turn.ids, t),
                                    !.emitted = SpokenBy(Append(turn.ids, t), turn.emitted)]
            /\ UNCHANGED <<sessions, pc>>
  BY TokenCases, Zenon DEF OInv
<1>3. CASE /\ Finishes(r, t)
           /\ sessions' = [sessions EXCEPT ![id(r)] = Written(r, Append(turn.ids, t))]
           /\ pc' = [pc EXCEPT ![r] = "closing"]
  BY <1>1, <1>3, FinishOrderly
<1>4. CASE /\ turn' = [turn EXCEPT !.ids = Append(turn.ids, t),
                                   !.emitted = SpokenBy(Append(turn.ids, t), turn.emitted)]
           /\ UNCHANGED <<sessions, pc>>
  <2>1. turn'.delta = turn.delta
    BY <1>4 DEF OInv, CInv, ChatTyped
  <2>2. \A i \in Id : Turning(i)' <=> Turning(i)
    BY <1>1, <1>4 DEF Turning, id, Asks
  <2> QED
    BY <1>1, <1>4, <2>1, <2>2, NothingStirs
<1> QED
  BY <1>2, <1>3, <1>4

(* A failing run leaves a question unanswered, with nobody left to ask.     *)
LEMMA TokenFailsOrderly ==
  ASSUME OInv, UNCHANGED scenario, NEW r \in Request, Untroubled(scenario), TokenFails(r)
  PROVE  Orderly'
<1>1. pc[r] = "turn" /\ failures < scenario.max_failures /\ UNCHANGED poisoned
  BY TokenFailsCases DEF OInv
<1>2. PICK n \in Int :
        n <= Len(sessions[id(r)].cached \o turn.delta \o turn.ids) - 1 /\ Abort(r, Failed(r, n))
  BY TokenFailsCases DEF OInv
<1>3. Asks[r].kind = "chat" /\ holder = r /\ id(r) \in Id /\ sessions[id(r)] # NoSession
  BY <1>1, InTurn, TurnTyped DEF OInv
<1>4. OrderlyAt(id(r))
  BY <1>3 DEF OInv, Orderly, Sessions
<1>5. /\ Failed(r, n) \in ChatSession /\ Failed(r, n).history = History(r)
      /\ Failed(r, n).ended = sessions[id(r)].ended /\ Failed(r, n).whole = sessions[id(r)].whole
  BY <1>1, <1>2, FailedTyped DEF OInv
<1>6. Alternating(History(r)) /\ sessions[id(r)].ended = sessions[id(r)].whole
  BY <1>4 DEF OrderlyAt, History
<1> DEFINE s == Failed(r, n)
<1>7. s \in ChatSession /\ Alternating(s.history) /\ s.ended = s.whole /\ Abort(r, s)
  BY <1>2, <1>5, <1>6
<1> HIDE DEF s
<1> QED
  BY <1>1, <1>3, <1>7, AbortOrderly

(* A panic leaves one too; with the mutex poisoned nobody can ask.          *)
LEMMA TokenPanicsOrderly ==
  ASSUME OInv, UNCHANGED scenario, NEW r \in Request, TokenPanics(r)
  PROVE  Orderly'
<1>1. poisoned' /\ holder' = NoOne /\ sessions' = sessions
  BY DEF TokenPanics
<1>2. ASSUME NEW i \in Id, i \in Sessions' PROVE OrderlyAt(i)'
  <2>1. OrderlyAt(i)
    BY <1>1, <1>2 DEF OInv, Orderly, Sessions
  <2>2. ~ Turning(i)'
    BY <1>1 DEF Turning
  <2> QED
    BY <1>1, <2>1, <2>2 DEF OrderlyAt
<1> QED
  BY <1>2 DEF Orderly, Sessions

(* The end of a thread changes no session.                                  *)
LEMMA OverOrderly ==
  ASSUME OInv, UNCHANGED scenario, NEW r \in Request, Over(r)
  PROVE  Orderly'
<1>1. /\ pc[r] \in {"closing", "failed"} /\ pc' = [pc EXCEPT ![r] = "over"]
      /\ holder' = (IF holder = r THEN NoOne ELSE holder) /\ UNCHANGED <<sessions, poisoned, turn>>
  BY DEF Over
<1>2. pc'[r] = "over" /\ \A q \in Request \ {r} : pc'[q] = pc[q]
  BY <1>1 DEF OInv, CInv, ChatTyped
<1>3. \A q \in Request : pc'[q] \in {"new", "evicted"} <=> pc[q] \in {"new", "evicted"}
  BY <1>1, <1>2
<1>4. ASSUME NEW i \in Id PROVE Turning(i)' <=> Turning(i)
  <2>1. CASE holder = r
    BY <1>1, <2>1 DEF Turning
  <2>2. CASE holder # r
    <3>1. holder' = holder /\ holder \in Request \cup {NoOne}
      BY <1>1, <2>2 DEF OInv, CInv, ChatTyped
    <3>2. holder # NoOne => pc'[holder] = pc[holder]
      BY <1>2, <2>2, <3>1
    <3> QED
      BY <3>1, <3>2 DEF Turning, id, Asks
  <2> QED
    BY <2>1, <2>2
<1> QED
  BY <1>1, <1>3, <1>4, NothingStirs

(* Nor does anything that only moves events.                                *)
LEMMA WiresOrderly ==
  ASSUME OInv, UNCHANGED <<scenario, sessions, holder, poisoned, pc, turn>>
  PROVE  Orderly'
<1>1. \A i \in Id : Turning(i)' <=> Turning(i)
  BY DEF Turning, id, Asks
<1> QED
  BY <1>1, NothingStirs

(* Expiry alone changes nothing of a conversation.                          *)
LEMMA ExpireOrderly ==
  ASSUME OInv, UNCHANGED scenario, NEW i \in Id, Expire(i)
  PROVE  Orderly'
<1>1. /\ sessions[i] # NoSession /\ sessions' = [sessions EXCEPT ![i].expired = TRUE]
      /\ UNCHANGED <<holder, poisoned, pc, turn>>
  BY DEF Expire
<1>2. sessions[i] \in ChatSession
  BY <1>1 DEF OInv, CInv, ChatTyped
<1> DEFINE e == [sessions[i] EXCEPT !.expired = TRUE]
<1>3. /\ e \in ChatSession /\ e.history = sessions[i].history /\ e.cached = sessions[i].cached
      /\ e.ended = sessions[i].ended /\ e.whole = sessions[i].whole
  BY <1>2 DEF ChatSession
<1>4. e # NoSession
  BY <1>3, SessionTyped
<1>5. sessions' = [sessions EXCEPT ![i] = e]
  BY <1>1
<1> HIDE DEF e
<1>6. sessions'[i] = e /\ \A j \in Id : j # i => sessions'[j] = sessions[j]
  BY <1>5 DEF OInv, CInv, ChatTyped
<1>7. ASSUME NEW j \in Id
      PROVE  /\ sessions'[j] = NoSession <=> sessions[j] = NoSession
             /\ sessions[j] # NoSession =>
                  /\ sessions'[j].history = sessions[j].history /\ sessions'[j].cached = sessions[j].cached
                  /\ sessions'[j].ended = sessions[j].ended /\ sessions'[j].whole = sessions[j].whole
  <2>1. CASE j = i
    <3>1. sessions'[j] = e /\ e # NoSession /\ sessions[j] # NoSession
      BY <1>1, <1>4, <1>6, <2>1
    <3>2. /\ e.history = sessions[j].history /\ e.cached = sessions[j].cached
          /\ e.ended = sessions[j].ended /\ e.whole = sessions[j].whole
      BY <1>3, <2>1
    <3> QED
      BY <3>1, <3>2, Zenon
  <2>2. CASE j # i
    BY <1>6, <2>2
  <2> QED
    BY <2>1, <2>2
<1>8. \A j \in Id : Turning(j)' <=> Turning(j)
  BY <1>1 DEF Turning, id, Asks
<1> QED
  BY <1>1, <1>7, <1>8, NothingStirs

-----------------------------------------------------------------------------
(* There are no sessions at first.                                          *)
LEMMA OrderlyInit == Init => Orderly /\ failures \in Nat
  BY DEF Init, Orderly, Sessions

LEMMA FailuresCounted ==
  ASSUME failures \in Nat, [Next]_vars
  PROVE  failures' \in Nat
<1>1. failures' \in {failures, failures + 1}
  BY Zenon DEF Next, Works, Listens, Leaves, Panics, Create, Poll, Destroy, evict_idle, Begin, Token, TokenFails, TokenPanics, Over, Send, Read, HangUp,
         Expire, troubles, vars
<1> QED
  BY <1>1

(* Every step keeps the histories in order.                                 *)
LEMMA OrderlyStep ==
  ASSUME OInv, Untroubled(scenario), [Next]_vars
  PROVE  Orderly'
<1>1. ASSUME NEW r \in Request, Works(r) PROVE Orderly'
  <2>1. UNCHANGED scenario
    BY <1>1 DEF Works
  <2>2. CASE Create(r) \/ Destroy(r) \/ evict_idle(r)
    BY <2>1, <2>2, CreateOrderly
  <2>3. CASE Begin(r)
    BY <2>1, <2>3, BeginOrderly
  <2>4. CASE Token(r)
    BY <2>1, <2>4, TokenOrderly
  <2>5. CASE TokenFails(r)
    BY <2>1, <2>5, TokenFailsOrderly
  <2>6. CASE TokenPanics(r)
    BY <2>1, <2>6, TokenPanicsOrderly
  <2>7. CASE Over(r)
    BY <2>1, <2>7, OverOrderly
  <2>8. CASE Send(r)
    <3>1. UNCHANGED <<sessions, holder, poisoned, pc, turn>>
      BY <2>8 DEF Send
    <3> QED
      BY <2>1, <3>1, WiresOrderly
  <2>9. CASE Poll(r)
    <3>1. UNCHANGED <<sessions, holder, poisoned, pc, turn>>
      BY <2>9 DEF Poll
    <3> QED
      BY <2>1, <3>1, WiresOrderly
  <2> QED
    BY <1>1, <2>2, <2>3, <2>4, <2>5, <2>6, <2>7, <2>8, <2>9 DEF Works
<1>2. ASSUME NEW r \in Request, Listens(r) \/ Leaves(r) PROVE Orderly'
  <2>1. UNCHANGED <<scenario, sessions, holder, poisoned, pc, turn>>
    BY <1>2 DEF Listens, Leaves, Read, HangUp
  <2> QED
    BY <2>1, WiresOrderly
<1>3. ASSUME NEW i \in Id, Expire(i), UNCHANGED scenario PROVE Orderly'
  BY <1>3, ExpireOrderly
<1>4. CASE UNCHANGED vars
  <2>1. UNCHANGED <<scenario, sessions, holder, poisoned, pc, turn>>
    BY <1>4 DEF vars
  <2> QED
    BY <2>1, WiresOrderly
<1> QED
  BY <1>1, <1>2, <1>3, <1>4 DEF Next

(* OInv is all that TurnsTrue says of histories.                            *)
LEMMA OInvSuffices ==
  ASSUME OInv
  PROVE  EveryMessageAsked /\ EndedIsTrue /\ Alternates
<1>1. EveryMessageAsked
  <2>1. ASSUME holder # NoOne, pc[holder] = "turn"
        PROVE  Asked(sessions[id(holder)].cached \o turn.delta) = Asked(render_full(sessions[id(holder)].history))
    <3>1. holder \in Request
      BY <2>1 DEF OInv, CInv, ChatTyped
    <3>2. id(holder) \in Id /\ sessions[id(holder)] # NoSession
      BY <2>1, <3>1, TurnTyped DEF OInv
    <3>3. OrderlyAt(id(holder)) /\ Turning(id(holder))
      BY <2>1, <3>2 DEF OInv, Orderly, Sessions, Turning
    <3>4. Fed(id(holder))
      BY <3>3 DEF OrderlyAt
    <3> QED
      BY <3>4 DEF Fed
  <2> QED
    BY <2>1 DEF EveryMessageAsked
<1>2. ASSUME NEW i \in Sessions PROVE sessions[i].ended = sessions[i].whole /\ Alternating(sessions[i].history)
  BY DEF OInv, Orderly, OrderlyAt
<1>3. EndedIsTrue
  BY <1>2 DEF EndedIsTrue, Live
<1>4. Alternates
  <2>1. ASSUME NEW i \in Sessions, NEW n \in DOMAIN sessions[i].history
        PROVE  sessions[i].history[n].role = IF n % 2 = 1 THEN "user" ELSE "assistant"
    <3>1. i \in Id /\ sessions[i] \in ChatSession
      BY DEF OInv, CInv, ChatTyped, Sessions
    <3>2. sessions[i].history \in Seq(Message)
      BY <3>1, SessionTyped
    <3>3. n \in 1..Len(sessions[i].history)
      BY <3>2
    <3>4. Alternating(sessions[i].history)
      BY <1>2
    <3>5. CASE n % 2 = 1
      <4>1. PICK q \in Request : sessions[i].history[n] = User(q)
        BY <3>3, <3>4, <3>5 DEF Alternating
      <4> QED
        BY <3>5, <4>1, MessageTyped
    <3>6. CASE n % 2 # 1
      BY <3>3, <3>4, <3>6 DEF Alternating
    <3> QED
      BY <3>5, <3>6
  <2> QED
    BY <2>1 DEF Alternates, Live
<1> QED
  BY <1>1, <1>3, <1>4

(* chat_stream and the mutex it is under, in all behaviours: one turn at a   *)
(* time, on a session that stays; a client that reads is sent the answer,    *)
(* never a stop string, and one verdict, the last event, at the end unless   *)
(* the thread panicked (on_token, truncate_at_stop, grpc_service.rs chat).   *)
THEOREM StreamsAreTrue == Spec => [](TurnsExclude /\ StreamsSpellAnswers /\ EndsWithVerdict)
<1>1. CInv => TurnsExclude /\ StreamsSpellAnswers /\ EndsWithVerdict
  BY CInvSuffices
<1> QED
  BY <1>1, ChatInvariant, PTL

(* No step changes what may come about.                                     *)
LEMMA SameScenario ==
  ASSUME [Next]_vars
  PROVE  scenario' = scenario
  BY DEF Next, Works, Listens, Leaves, vars

(* What the run services checks of turns, for any requests, ids, tokens,     *)
(* stop string, channel and scenarios: all of the above and, as long as the  *)
(* cache holds what the turns on a session may render to, and a failing run  *)
(* leaves no later turn behind (Untroubled), a turn is answered on the       *)
(* whole conversation, recorded in its order, and last_turn_eos_emitted      *)
(* tells how it ended.                                                       *)
THEOREM TurnsAreTrue == Spec => []TurnsTrue
<1> DEFINE TInv == CInv /\ failures \in Nat /\ (Untroubled(scenario) => Orderly)
<1>1. Init => TInv
  BY ChatInit, OrderlyInit
<1>2. TInv /\ [Next]_vars => TInv'
  <2> SUFFICES ASSUME TInv, [Next]_vars PROVE TInv'
    OBVIOUS
  <2>1. CInv'
    BY ChatStep
  <2>2. failures' \in Nat
    BY FailuresCounted
  <2>3. ASSUME Untroubled(scenario)' PROVE Orderly'
    <3>1. Untroubled(scenario)
      BY <2>3, SameScenario DEF Untroubled, Roomy, Chats
    <3>2. OInv
      BY <3>1 DEF OInv
    <3> QED
      BY <3>1, <3>2, OrderlyStep
  <2> QED
    BY <2>1, <2>2, <2>3
<1>3. TInv => TurnsTrue
  BY CInvSuffices, OInvSuffices DEF OInv, TurnsTrue
<1> QED
  BY <1>1, <1>2, <1>3, PTL DEF Spec

-----------------------------------------------------------------------------
(* Destroys that wait for the mutex on the workers (grpc_service.rs          *)
(* destroy_chat_session).                                                    *)

(* Whoever could go on waits for a worker or for the mutex.                  *)
LEMMA StarvedStep ==
  ASSUME CInv, Starved, [Next]_vars
  PROVE  Starved'
<1>1. /\ holder \in Request /\ pc[holder] \in {"turn", "closing"} /\ ~ Free
      /\ \A r \in Request : pc[r] \in {"turn", "closing"} => r = holder
  BY DEF Starved, Free, CInv, ChatTyped, HolderTrue
<1>2. ~ Idle /\ pending[holder] # <<>> /\ reading[holder] /\ ~ (Len(channel[holder]) < Capacity)
  <2>1. channel[holder] \in Seq(Event) /\ Capacity \in Nat
    BY <1>1, ChatAssumption DEF CInv, ChatTyped
  <2> QED
    BY <2>1 DEF Starved
<1>3. ASSUME Blocked' = Blocked, UNCHANGED <<scenario, holder, channel, reading>>,
             pending'[holder] = pending[holder]
      PROVE  Starved'
  BY <1>3 DEF Starved, Idle
<1>4. ASSUME NEW r \in Request, Works(r) PROVE Starved'
  <2>1. ~ Poll(r) /\ ~ Create(r) /\ ~ Destroy(r) /\ ~ evict_idle(r) /\ ~ Begin(r)
    BY <1>1, <1>2 DEF Poll, Create, Destroy, evict_idle, Begin
  <2>2. ~ Token(r) /\ ~ TokenFails(r) /\ ~ TokenPanics(r)
    BY <1>1, <1>2 DEF Token, TokenFails, TokenPanics
  <2>3. CASE Over(r) /\ UNCHANGED <<scenario, polled>>
    <3>1. /\ pc[r] = "failed" /\ pc' = [pc EXCEPT ![r] = "over"] /\ r # holder
          /\ UNCHANGED <<holder, channel, reading, pending>>
      BY <1>1, <1>2, <2>3 DEF Over, wires
    <3>2. Blocked' = Blocked
      <4>1. \A q : (q \in polled /\ pc'[q] = "new") <=> (q \in polled /\ pc[q] = "new")
        BY <3>1 DEF CInv, ChatTyped
      <4> QED
        BY <2>3, <4>1 DEF Blocked
    <3> QED
      BY <1>3, <2>3, <3>1, <3>2
  <2>4. CASE Send(r) /\ UNCHANGED <<scenario, polled>>
    <3>1. r # holder
      BY <1>2, <2>4 DEF Send
    <3>2. /\ pending'[holder] = pending[holder] /\ channel'[holder] = channel[holder]
          /\ UNCHANGED <<holder, pc, reading>>
      BY <1>1, <2>4, <3>1 DEF Send, CInv, ChatTyped
    <3>3. Blocked' = Blocked
      BY <2>4, <3>2 DEF Blocked
    <3> QED
      BY <2>4, <3>2, <3>3 DEF Starved, Idle
  <2> QED
    BY <1>4, <2>1, <2>2, <2>3, <2>4 DEF Works
<1>5. ASSUME NEW r \in Request PROVE ~ Listens(r) /\ ~ Leaves(r)
  BY <1>2 DEF Listens, Leaves, Read, HangUp
<1>6. ASSUME NEW i \in Id, Expire(i), UNCHANGED <<scenario, polled>> PROVE Starved'
  BY <1>3, <1>6 DEF Expire, wires, Blocked
<1>7. CASE UNCHANGED vars
  BY <1>3, <1>7 DEF vars, Blocked
<1> QED
  BY <1>4, <1>5, <1>6, <1>7 DEF Next

(* A starved server stays so: the stream that the holder of the mutex waits  *)
(* for is never polled again, so that its blocking_send (grpc_service.rs     *)
(* chat) never returns.                                                      *)
THEOREM StarvedForGood == Spec => [][Starved => Starved']_vars
<1>1. CInv /\ [Next]_vars => [Starved => Starved']_vars
  BY StarvedStep
<1> QED
  BY <1>1, ChatInvariant, PTL DEF Spec

Destroys(s) == {r \in Request : s.asks[r].kind = "destroy"}

(* It takes as many destroys as there are workers: with fewer, a worker is   *)
(* always left to poll the streams, and blocking_send under the mutex is     *)
(* safe, as grpc_service.rs 261-262 has it.                                  *)
THEOREM WorkersLeft ==
  ASSUME \A s \in Scenarios : Cardinality(Destroys(s)) < s.workers
  PROVE  Spec => []NobodyStarves
<1> DEFINE PInv == scenario \in Scenarios /\ polled \subseteq Destroys(scenario)
<1>1. Init => PInv
  BY DEF Init
<1>2. PInv /\ [Next]_vars => PInv'
  <2> SUFFICES ASSUME PInv, [Next]_vars PROVE PInv'
    OBVIOUS
  <2>1. scenario' = scenario
    BY SameScenario
  <2>2. polled' = polled \/ \E r \in Request : Poll(r)
    BY DEF Next, Works, Listens, Leaves, vars
  <2>3. ASSUME NEW r \in Request, Poll(r) PROVE polled' \subseteq Destroys(scenario)
    BY <2>3 DEF Poll, Destroys, Asks
  <2> QED
    BY <2>1, <2>2, <2>3 DEF Destroys
<1>3. PInv => NobodyStarves
  <2> SUFFICES ASSUME PInv PROVE Idle
    BY DEF NobodyStarves, Starved
  <2>1. IsFiniteSet(Destroys(scenario)) /\ Blocked \subseteq Destroys(scenario)
    BY ChatAssumption, FS_Subset DEF Destroys, Blocked
  <2>2. /\ Cardinality(Blocked) \in Nat /\ Cardinality(Destroys(scenario)) \in Nat
        /\ Cardinality(Blocked) <= Cardinality(Destroys(scenario))
    BY <2>1, FS_Subset, FS_CardinalityType
  <2>3. scenario.workers \in Nat /\ Cardinality(Destroys(scenario)) < scenario.workers
    BY ChatAssumption
  <2> QED
    BY <2>2, <2>3 DEF Idle
<1> QED
  BY <1>1, <1>2, <1>3, PTL DEF Spec

-----------------------------------------------------------------------------
(* The models.  The writer's side of the lock is what both properties rest on:   *)
(* whoever runs holds it alone, so that nobody evicts the session meanwhile. *)

LockHeld ==
  /\ \A r \in Client : r \in holding <=> stage[r] \in {"holding", "running"}
  /\ \A r, o \in Client : r \in holding /\ o \in holding /\ r # o => Reads(r) /\ Reads(o)

RunsInMap ==
  \A r \in Client :
    /\ stage[r] = "running" => ~ Reads(r) /\ Wanted(r) \in models /\ uses[r] = {Wanted(r)}
    /\ stage[r] # "running" => uses[r] = {}

OneTarget == models \subseteq Places /\ \A s \in models : Other(s) \notin models

IInv ==
  /\ stage \in [Client -> {"new", "waiting", "holding", "running", "ok", "error"}]
  /\ uses \in [Client -> SUBSET Places]
  /\ LockHeld /\ RunsInMap /\ OneTarget

LEMMA WantedTyped ==
  ASSUME NEW r \in Client
  PROVE  /\ Wanted(r) \in Places
         /\ Other(Wanted(r)) # Wanted(r) /\ Other(Other(Wanted(r))) = Wanted(r)
         /\ \A s \in Places : Other(s) = Wanted(r) <=> s = Other(Wanted(r))
  BY WantsAssumption DEF Wanted, Places, Target, Other

LEMMA InitGood == RInit => IInv
  BY DEF RInit, IInv, LockHeld, RunsInMap, OneTarget

(* warm_up leaves one target of the model it loads.                          *)
LEMMA WithoutGood ==
  ASSUME NEW r \in Client, OneTarget
  PROVE  /\ Without(r) \cup {Wanted(r)} \subseteq Places
         /\ \A s \in Without(r) \cup {Wanted(r)} : Other(s) \notin Without(r) \cup {Wanted(r)}
         /\ \A s \in Without(r) : Other(s) \notin Without(r)
  BY WantedTyped DEF OneTarget, Without

(* A reply gives the lock and the session back; nobody else changes.         *)
LEMMA ReplyGood ==
  ASSUME IInv, NEW r \in Client, NEW v \in {"ok", "error"}, Reply(r, v), OneTarget',
         stage[r] \in {"holding", "running"},
         \A o \in Client \ {r} : stage[o] = "running" => Wanted(o) \in models'
  PROVE  IInv'
<1>1. /\ stage' = [stage EXCEPT ![r] = v] /\ holding' = holding \ {r} /\ uses' = [uses EXCEPT ![r] = {}]
  BY DEF Reply
<1>2. /\ stage'[r] = v /\ uses'[r] = {}
      /\ \A o \in Client \ {r} : stage'[o] = stage[o] /\ uses'[o] = uses[o]
  BY <1>1 DEF IInv
<1>3. /\ stage' \in [Client -> {"new", "waiting", "holding", "running", "ok", "error"}]
      /\ uses' \in [Client -> SUBSET Places]
  BY <1>1 DEF IInv
<1>4. LockHeld'
  BY <1>1, <1>2 DEF IInv, LockHeld, Reads
<1>5. RunsInMap'
  BY <1>2 DEF IInv, RunsInMap, Reads, Wanted
<1> QED
  BY <1>3, <1>4, <1>5 DEF IInv

LEMMA AskGood ==
  ASSUME IInv, NEW r \in Client, Ask(r)
  PROVE  IInv'
<1>1. /\ stage[r] = "new" /\ stage' = [stage EXCEPT ![r] = "waiting"]
      /\ UNCHANGED <<models, holding, uses>>
  BY DEF Ask
<1>2. stage' \in [Client -> {"new", "waiting", "holding", "running", "ok", "error"}]
  BY <1>1 DEF IInv
<1>3. LockHeld' /\ RunsInMap' /\ OneTarget'
  BY <1>1 DEF IInv, LockHeld, RunsInMap, OneTarget, Reads, Wanted
<1> QED
  BY <1>1, <1>2, <1>3 DEF IInv

(* Readers enter together, a writer alone.                                   *)
LEMMA AcquireGood ==
  ASSUME IInv, NEW r \in Client, Acquire(r)
  PROVE  IInv'
<1>1. /\ stage[r] = "waiting" /\ stage' = [stage EXCEPT ![r] = "holding"] /\ holding' = holding \cup {r}
      /\ holding = {} \/ (Reads(r) /\ \A o \in holding : Reads(o))
      /\ UNCHANGED <<models, uses>>
  BY DEF Acquire
<1>2. stage' \in [Client -> {"new", "waiting", "holding", "running", "ok", "error"}]
  BY <1>1 DEF IInv
<1>3. LockHeld' /\ RunsInMap' /\ OneTarget'
  BY <1>1 DEF IInv, LockHeld, RunsInMap, OneTarget, Reads, Wanted
<1> QED
  BY <1>1, <1>2, <1>3 DEF IInv

(* Whoever evicts a session holds the lock alone: nobody runs meanwhile.     *)
LEMMA WarmUpGood ==
  ASSUME IInv, NEW r \in Client, warm_up(r)
  PROVE  IInv'
<1>1. stage[r] = "holding" /\ ~ Reads(r)
  BY DEF warm_up
<1>2. \A o \in Client \ {r} : o \notin holding /\ stage[o] # "running"
  BY <1>1 DEF IInv, LockHeld
<1>3. OneTarget' /\ (Wanted(r) \in models' \/ Reply(r, "error"))
  <2>1. CASE Wanted(r) \in models /\ UNCHANGED models
    BY <2>1 DEF IInv, OneTarget
  <2>2. CASE models' = Without(r) \cup {Wanted(r)}
    BY <2>2, WithoutGood DEF IInv, OneTarget
  <2>3. CASE models' = Without(r) /\ Reply(r, "error")
    BY <2>3, WithoutGood DEF IInv, OneTarget
  <2> QED
    BY <2>1, <2>2, <2>3 DEF warm_up
<1>4. ASSUME NEW v \in {"ok", "error"}, Reply(r, v)
      PROVE  IInv'
  BY <1>1, <1>2, <1>3, <1>4, ReplyGood
<1>5. CASE /\ Wanted(r) \in models'
           /\ stage' = [stage EXCEPT ![r] = "running"] /\ uses' = [uses EXCEPT ![r] = {Wanted(r)}]
           /\ UNCHANGED holding
  <2>1. /\ stage'[r] = "running" /\ uses'[r] = {Wanted(r)}
        /\ \A o \in Client \ {r} : stage'[o] = stage[o] /\ uses'[o] = uses[o]
    BY <1>5 DEF IInv
  <2>2. /\ stage' \in [Client -> {"new", "waiting", "holding", "running", "ok", "error"}]
        /\ uses' \in [Client -> SUBSET Places]
    BY <1>5, WantedTyped DEF IInv
  <2>3. LockHeld'
    BY <1>1, <1>5, <2>1 DEF IInv, LockHeld, Reads
  <2>4. RunsInMap'
    BY <1>1, <1>2, <1>5, <2>1 DEF IInv, RunsInMap, Reads, Wanted
  <2> QED
    BY <1>3, <2>2, <2>3, <2>4 DEF IInv
<1> QED
  BY <1>3, <1>4, <1>5 DEF warm_up, Loaded

LEMMA RunGood ==
  ASSUME IInv, NEW r \in Client, Run(r) \/ RunPanics(r) \/ get_initializer(r)
  PROVE  IInv'
<1>1. UNCHANGED models /\ stage[r] \in {"holding", "running"} /\ (Reply(r, "ok") \/ Reply(r, "error"))
  BY DEF Run, RunPanics, get_initializer
<1>2. OneTarget' /\ \A o \in Client \ {r} : stage[o] = "running" => Wanted(o) \in models'
  BY <1>1 DEF IInv, OneTarget, RunsInMap
<1> QED
  BY <1>1, <1>2, ReplyGood

LEMMA InvariantHolds == RSpec => []IInv
<1>1. RInit => IInv
  BY InitGood
<1>2. IInv /\ [RNext]_rvars => IInv'
  <2>1. ASSUME IInv, NEW r \in Client, Serves(r)
        PROVE  IInv'
    BY <2>1, AskGood, AcquireGood, WarmUpGood, RunGood DEF Serves
  <2>2. ASSUME IInv, UNCHANGED rvars
        PROVE  IInv'
    BY <2>2 DEF rvars, IInv, LockHeld, RunsInMap, OneTarget, Reads, Wanted
  <2> QED
    BY <2>1, <2>2 DEF RNext
<1> QED
  BY <1>1, <1>2, PTL DEF RSpec

(* models.rs 127-128, for any requests: a model's weights are never on both  *)
(* backends, not even by a run of a session that was evicted.                *)
THEOREM OneCopyAlways == RSpec => []OneCopy
<1>1. IInv => OneCopy
  <2> SUFFICES ASSUME IInv PROVE OneCopy
    OBVIOUS
  <2>1. InUse \subseteq models
    BY DEF IInv, RunsInMap, InUse
  <2> QED
    BY <2>1 DEF IInv, OneTarget, OneCopy
<1> QED
  BY <1>1, InvariantHolds, PTL

(* run_inference, for any requests: a session runs for one request only, and *)
(* nobody evicts it meanwhile.                                               *)
THEOREM RunsAlone == RSpec => []RunsAreExclusive
<1>1. IInv => RunsAreExclusive
  BY DEF IInv, RunsInMap, LockHeld, RunsAreExclusive
<1> QED
  BY <1>1, InvariantHolds, PTL

(* What the run checks of it: both.                                          *)
THEOREM BackendsNeverShared == RSpec => []BackendsExclusive
  BY OneCopyAlways, RunsAlone, PTL DEF BackendsExclusive
=============================================================================
