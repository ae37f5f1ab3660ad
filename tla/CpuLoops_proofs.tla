--------------------------- MODULE CpuLoops_proofs ---------------------------
(***************************************************************************)
(* What holds of a shared loop for any team, any number of iterations and  *)
(* any width of a row.  The argument: the static schedule cuts the         *)
(* iterations into intervals, the interval of thread t ending where that   *)
(* of t + 1 begins; so every row has one owner, and what a cell holds is a *)
(* function of where its owner stands (Expected).                          *)
(***************************************************************************)
EXTENDS CpuLoops, TLAPS

-----------------------------------------------------------------------------
(* The static schedule.                                                    *)

LEMMA DivMod ==
  ASSUME NEW a \in Nat, NEW b \in Nat \ {0}
  PROVE  /\ a \div b \in Nat /\ a % b \in 0..(b - 1)
         /\ a = b * (a \div b) + (a % b)
  BY SMT

(* The owners of trip iterations on n threads. *)
Owns(trip, n, t, r) == First(trip, n, t) <= r /\ r < OpenEnd(trip, n, t)

(* omp_for_static: a thread's iterations end where the next one's begin.   *)
LEMMA Bounds ==
  ASSUME NEW trip \in Nat \ {0}, NEW n \in Nat \ {0}, NEW t \in 0..(n - 1)
  PROVE  /\ First(trip, n, t) \in 0..trip
         /\ OpenEnd(trip, n, t) \in 0..trip
         /\ First(trip, n, t) <= OpenEnd(trip, n, t)
<1>1. CASE trip < n
  BY <1>1, SMT DEF First, Final, OpenEnd, Least
<1>2. CASE trip >= n
  <2> DEFINE q == trip \div n
             x == trip % n
  <2>1. q \in Nat /\ x \in 0..(n - 1) /\ trip = n * q + x
    BY DivMod
  <2>2. q >= 1
    BY <1>2, <2>1, SMT
  <2> HIDE DEF q, x
  <2>3. t * q \in Nat /\ t * q + q <= n * q
    BY <2>1, SMT
  <2>4. First(trip, n, t) = t * q + Least(t, x)
    BY <1>2 DEF First, Share, Extras, q, x
  <2>5. Final(trip, n, t) = t * q + Least(t, x) + q - (IF t < x THEN 0 ELSE 1)
    BY <1>2, <2>4 DEF Final, Share, Extras, q, x
  <2> DEFINE tq == t * q
             nq == n * q
  <2>6. tq \in Nat /\ tq + q <= nq /\ nq \in Nat /\ trip = nq + x
    BY <2>1, <2>3, SMT
  <2> HIDE DEF tq, nq
  <2>7. First(trip, n, t) = tq + Least(t, x) /\ Final(trip, n, t) = tq + Least(t, x) + q - (IF t < x THEN 0 ELSE 1)
    BY <2>4, <2>5 DEF tq
  <2> QED
    BY <2>1, <2>2, <2>6, <2>7, SMT DEF OpenEnd, Least
<1> QED
  BY <1>1, <1>2

LEMMA NextBegins ==
  ASSUME NEW trip \in Nat \ {0}, NEW n \in Nat \ {0}, NEW t \in 0..(n - 1)
  PROVE  OpenEnd(trip, n, t) = First(trip, n, t + 1)
<1>1. CASE trip < n
  BY <1>1, SMT DEF First, Final, OpenEnd, Least
<1>2. CASE trip >= n
  <2> DEFINE q == trip \div n
             x == trip % n
  <2>1. q \in Nat /\ x \in 0..(n - 1) /\ trip = n * q + x
    BY DivMod
  <2>2. q >= 1
    BY <1>2, <2>1, SMT
  <2>3. /\ First(trip, n, t) = t * q + Least(t, x)
        /\ First(trip, n, t + 1) = (t + 1) * q + Least(t + 1, x)
    BY <1>2 DEF First, Share, Extras
  <2>4. Final(trip, n, t) = t * q + Least(t, x) + q - (IF t < x THEN 0 ELSE 1)
    BY <1>2, <2>3 DEF Final, Share, Extras
  <2> HIDE DEF q, x
  <2>5. (t + 1) * q = t * q + q /\ t * q + q <= n * q
    BY <2>1, SMT
  <2> DEFINE tq == t * q
             nq == n * q
  <2>6. tq \in Nat /\ tq + q <= nq /\ nq \in Nat /\ trip = nq + x /\ (t + 1) * q = tq + q
    BY <2>1, <2>5, SMT
  <2>7. /\ First(trip, n, t + 1) = tq + q + Least(t + 1, x)
        /\ Final(trip, n, t) = tq + Least(t, x) + q - (IF t < x THEN 0 ELSE 1)
    BY <2>3, <2>4, <2>6
  <2> HIDE DEF tq, nq
  <2> QED
    BY <2>1, <2>2, <2>6, <2>7, SMT DEF OpenEnd, Least
<1> QED
  BY <1>1, <1>2

LEMMA FirstGrows ==
  ASSUME NEW trip \in Nat \ {0}, NEW n \in Nat \ {0}, NEW s \in 0..n, NEW t \in 0..n, s <= t
  PROVE  First(trip, n, s) <= First(trip, n, t)
<1>1. CASE trip < n
  BY <1>1, SMT DEF First
<1>2. CASE trip >= n
  <2> DEFINE q == trip \div n
             x == trip % n
  <2>1. q \in Nat /\ x \in 0..(n - 1)
    BY DivMod
  <2>2. /\ First(trip, n, s) = s * q + Least(s, x)
        /\ First(trip, n, t) = t * q + Least(t, x)
    BY <1>2 DEF First, Share, Extras
  <2> HIDE DEF q, x
  <2>3. s * q <= t * q /\ s * q \in Nat /\ t * q \in Nat
    BY <2>1, SMT
  <2> QED
    BY <2>1, <2>2, <2>3, SMT DEF Least
<1> QED
  BY <1>1, <1>2

(* omp_for_static: no iteration has two owners ...                         *)
LEMMA OneOwner ==
  ASSUME NEW trip \in Nat \ {0}, NEW n \in Nat \ {0}, NEW s \in 0..(n - 1), NEW t \in 0..(n - 1),
         NEW r \in Nat, Owns(trip, n, s, r), Owns(trip, n, t, r)
  PROVE  s = t
<1>1. ASSUME NEW u \in 0..(n - 1), NEW v \in 0..(n - 1), u < v,
             Owns(trip, n, u, r), Owns(trip, n, v, r)
      PROVE  FALSE
  <2>1. First(trip, n, u + 1) <= First(trip, n, v)
    BY <1>1, FirstGrows, SMT
  <2>2. OpenEnd(trip, n, u) = First(trip, n, u + 1)
    BY NextBegins
  <2>3. First(trip, n, v) \in Nat /\ OpenEnd(trip, n, u) \in Nat
    BY Bounds, SMT
  <2> QED
    BY <1>1, <2>1, <2>2, <2>3, SMT DEF Owns
<1> QED
  BY <1>1, SMT

(* ... and every iteration has one.                                        *)
LEMMA SomeOwner ==
  ASSUME NEW trip \in Nat \ {0}, NEW n \in Nat \ {0}, NEW r \in 0..(trip - 1)
  PROVE  \E t \in 0..(n - 1) : Owns(trip, n, t, r)
<1>1. CASE trip < n
  BY <1>1, SMT DEF First, Final, OpenEnd, Least, Owns
<1>2. CASE trip >= n
  <2> DEFINE q == trip \div n
             x == trip % n
  <2>1. q \in Nat /\ x \in 0..(n - 1) /\ trip = n * q + x
    BY DivMod
  <2>2. q >= 1
    BY <1>2, <2>1, SMT
  <2>3. ASSUME NEW t \in 0..n
        PROVE  First(trip, n, t) = t * q + Least(t, x)
    BY <1>2 DEF First, Share, Extras
  <2> HIDE DEF q, x
  <2>4. CASE r < x * (q + 1)
    <3> DEFINE t == r \div (q + 1)
               m == r % (q + 1)
    <3>0. q + 1 \in Nat \ {0} /\ (q + 1) - 1 = q /\ r \in Nat
      BY <2>1, SMT
    <3>1. t \in Nat /\ m \in 0..q /\ r = (q + 1) * t + m
      <4>1. t \in Nat /\ m \in 0..((q + 1) - 1) /\ r = (q + 1) * t + m
        BY DivMod, <3>0
      <4> QED
        BY <4>1, <3>0
    <3> HIDE DEF t, m
    <3>2. t < x
      BY <3>1, <2>1, <2>4, SMT
    <3>3. t \in 0..(n - 1) /\ t + 1 \in 0..n
      BY <3>1, <3>2, <2>1, SMT
    <3>4. First(trip, n, t) = t * q + t /\ First(trip, n, t + 1) = (t + 1) * q + (t + 1)
      BY <2>3, <3>1, <3>2, <3>3, <2>1, SMT DEF Least
    <3>5. (q + 1) * t = t * q + t /\ (t + 1) * q = t * q + q
      BY <3>1, <2>1, SMT
    <3>6. First(trip, n, t) <= r /\ r < First(trip, n, t + 1)
      BY <3>1, <3>4, <3>5, <2>1, SMT
    <3> QED
      BY <3>3, <3>6, NextBegins DEF Owns
  <2>5. CASE r >= x * (q + 1)
    <3> DEFINE y == r - x
    <3>1. x * (q + 1) = x * q + x /\ x * q \in Nat
      BY <2>1, SMT
    <3>2. y \in Nat /\ y >= x * q /\ y < n * q
      BY <2>1, <2>5, <3>1, SMT
    <3> DEFINE t == y \div q
               m == y % q
    <3>3. t \in Nat /\ m \in 0..(q - 1) /\ y = q * t + m
      <4>1. q \in Nat \ {0}
        BY <2>1, <2>2, SMT
      <4> QED
        BY DivMod, <3>2, <4>1
    <3> HIDE DEF t, m
    <3>4. t < n /\ t >= x
      BY <3>2, <3>3, <2>1, <2>2, SMT
    <3>5. t \in 0..(n - 1) /\ t + 1 \in 0..n
      BY <3>3, <3>4, SMT
    <3>6. First(trip, n, t) = t * q + x /\ First(trip, n, t + 1) = (t + 1) * q + x
      BY <2>3, <3>3, <3>4, <3>5, <2>1, SMT DEF Least
    <3>7. q * t = t * q /\ (t + 1) * q = t * q + q
      BY <3>3, <2>1, SMT
    <3>8. First(trip, n, t) <= r /\ r < First(trip, n, t + 1)
      BY <3>3, <3>6, <3>7, <2>1, SMT DEF y
    <3> QED
      BY <3>5, <3>8, NextBegins DEF Owns
  <2> QED
    BY <2>1, <2>4, <2>5, SMT
<1> QED
  BY <1>1, <1>2

-----------------------------------------------------------------------------
(* The inductive invariant.                                                *)

MyRow(t, r) == Owns(bound, team, t, r)

(* A thread in a row has its own bounds and stands between them; threads   *)
(* outside the team are done from the start.                               *)
AtHome ==
  \A t \in Tids :
    /\ t >= team => pc[t] = "done"
    /\ pc[t] \in Running => MyRow(t, row[t]) /\ upper[t] = OpenEnd(bound, team, t)

(* What a cell holds by where the row's owner stands.                      *)
Expected(t, r, c) ==
  IF pc[t] = "ready" THEN "old"
  ELSE IF pc[t] \in {"end", "done"} \/ r < row[t] THEN "new"
  ELSE IF pc[t] \in {"store", "max"} \/ r > row[t] THEN "old"
  ELSE IF pc[t] = "exp" THEN IF c < col[t] THEN "exp" ELSE "old"
  ELSE IF c < col[t] THEN "new" ELSE "exp"

CellsExpected ==
  \A t \in 0..(team - 1), r \in RowIds, c \in ColIds :
    MyRow(t, r) => cell[r][c] = Expected(t, r, c)

IInv ==
  /\ TypeOK /\ AtHome /\ CellsExpected /\ NothingWrong
  /\ joined => \A t \in Tids : pc[t] = "done"

-----------------------------------------------------------------------------
(* Facts the steps share.                                                  *)

LEMMA Ranges ==
  ASSUME TypeOK
  PROVE  /\ bound \in Nat \ {0} /\ team \in Nat \ {0} /\ bound <= MaxBound /\ team <= MaxTeam
         /\ Tids \subseteq Nat /\ 0..(team - 1) \subseteq Tids
         /\ \A t \in Tids : row[t] \in Nat /\ upper[t] \in Nat /\ col[t] \in ColIds
         /\ \A c \in ColIds : c \in Nat /\ c < Cols
         /\ RowIds \subseteq Nat /\ 0..(bound - 1) \subseteq RowIds
  BY TeamAssumption, BoundAssumption, ColsAssumption, SMT DEF TypeOK, Tids, RowIds, ColIds

LEMMA MyRowIsRow ==
  ASSUME TypeOK, NEW t \in 0..(team - 1), NEW r \in Nat, MyRow(t, r)
  PROVE  r \in 0..(bound - 1)
<1>1. OpenEnd(bound, team, t) \in 0..bound
  BY Ranges, Bounds
<1> QED
  BY <1>1, Ranges, SMT DEF MyRow, Owns

LEMMA InitGood == Init => IInv
<1> SUFFICES ASSUME Init PROVE IInv
  OBVIOUS
<1>1. team \in 1..MaxTeam
  BY TeamAssumption, SMT DEF Init
<1>2. TypeOK
  <2>1. 0 \in 0..MaxBound /\ 0 \in ColIds
    BY BoundAssumption, ColsAssumption, SMT DEF ColIds
  <2>2. pc \in [Tids -> Running \cup {"ready", "end", "done"}]
    BY SMT DEF Init
  <2>3. row \in [Tids -> 0..MaxBound] /\ upper \in [Tids -> 0..MaxBound] /\ col \in [Tids -> ColIds]
    BY <2>1 DEF Init
  <2>4. cell \in [RowIds -> [ColIds -> {"old", "exp", "new", "wrong"}]]
    BY DEF Init
  <2> QED
    BY <1>1, <2>2, <2>3, <2>4 DEF Init, TypeOK
<1>3. AtHome
  BY <1>1, TeamAssumption, SMT DEF Init, AtHome, Running, Tids
<1>4. CellsExpected
  <2> SUFFICES ASSUME NEW t \in 0..(team - 1), NEW r \in RowIds, NEW c \in ColIds
               PROVE  cell[r][c] = Expected(t, r, c)
    BY DEF CellsExpected
  <2>1. t \in Tids /\ pc[t] = "ready"
    BY <1>1, TeamAssumption, SMT DEF Init, Tids
  <2> QED
    BY <2>1 DEF Init, Expected
<1>5. NothingWrong /\ joined = FALSE
  BY DEF Init, NothingWrong
<1> QED
  BY <1>2, <1>3, <1>4, <1>5 DEF IInv

-----------------------------------------------------------------------------
(* What the thread that moves must keep, for the others keep the rest:     *)
(* their rows are not its own, and it changes nothing of theirs.           *)
LEMMA OthersKept ==
  ASSUME IInv, TypeOK', UNCHANGED <<kernel, bound, team>>, NEW t \in Tids, t < team,
         \A s \in Tids \ {t} : pc'[s] = pc[s] /\ row'[s] = row[s] /\ upper'[s] = upper[s] /\ col'[s] = col[s],
         \A r \in RowIds, c \in ColIds : cell'[r][c] # cell[r][c] => MyRow(t, r),
         pc'[t] \in Running => MyRow(t, row'[t]) /\ upper'[t] = OpenEnd(bound, team, t),
         \A r \in RowIds, c \in ColIds : MyRow(t, r) => cell'[r][c] = Expected(t, r, c)',
         joined' => \A s \in Tids : pc'[s] = "done"
  PROVE  IInv'
<1>1. AtHome'
  <2> SUFFICES ASSUME NEW s \in Tids
               PROVE  /\ s >= team => pc'[s] = "done"
                      /\ pc'[s] \in Running => MyRow(s, row'[s]) /\ upper'[s] = OpenEnd(bound, team, s)
    BY DEF AtHome, MyRow
  <2>1. CASE s = t
    BY <2>1, Ranges, SMT DEF IInv
  <2>2. CASE s # t
    BY <2>2 DEF IInv, AtHome
  <2> QED
    BY <2>1, <2>2
<1>2. CellsExpected'
  <2> SUFFICES ASSUME NEW s \in 0..(team - 1), NEW r \in RowIds, NEW c \in ColIds, MyRow(s, r)
               PROVE  cell'[r][c] = Expected(s, r, c)'
    BY DEF CellsExpected, MyRow
  <2>1. s \in Tids /\ t \in 0..(team - 1) /\ r \in Nat
    BY Ranges, SMT DEF IInv
  <2>2. CASE s = t
    BY <2>2
  <2>3. CASE s # t
    <3>1. ~ MyRow(t, r)
      BY <2>1, <2>3, OneOwner, Ranges DEF MyRow, IInv
    <3>2. cell'[r][c] = cell[r][c] /\ cell[r][c] = Expected(s, r, c)
      BY <3>1, <2>1 DEF IInv, CellsExpected
    <3> QED
      BY <3>2, <2>1, <2>3 DEF Expected
  <2> QED
    BY <2>2, <2>3
<1>3. NothingWrong'
  <2> SUFFICES ASSUME NEW r \in RowIds, NEW c \in ColIds
               PROVE  cell'[r][c] # "wrong"
    BY DEF NothingWrong
  <2>1. CASE MyRow(t, r)
    BY <2>1 DEF Expected
  <2>2. CASE ~ MyRow(t, r)
    BY <2>2 DEF IInv, NothingWrong
  <2> QED
    BY <2>1, <2>2
<1> QED
  BY <1>1, <1>2, <1>3 DEF IInv

(* The row is done: the next one is the thread's own, or it has none left. *)
LEMMA AfterRowGood ==
  ASSUME IInv, NEW t \in Tids, t < team, pc[t] \in Running, AfterRow(t),
         UNCHANGED <<kernel, bound, team, upper>>
  PROVE  /\ row' \in [Tids -> 0..MaxBound]
         /\ pc' \in [Tids -> Running \cup {"ready", "end", "done"}]
         /\ \A s \in Tids \ {t} : pc'[s] = pc[s] /\ row'[s] = row[s]
         /\ row'[t] = row[t] + 1
         /\ pc'[t] \in {"store", "max", "end"}
         /\ pc'[t] \in Running => MyRow(t, row'[t]) /\ upper'[t] = OpenEnd(bound, team, t)
         /\ pc'[t] = "end" => row[t] + 1 = OpenEnd(bound, team, t)
<1>1. MyRow(t, row[t]) /\ upper[t] = OpenEnd(bound, team, t)
  BY DEF IInv, AtHome
<1>2. /\ OpenEnd(bound, team, t) \in 0..bound /\ First(bound, team, t) \in 0..bound
      /\ row[t] \in Nat /\ bound \in Nat /\ bound <= MaxBound
  BY Ranges, Bounds, SMT DEF IInv
<1>3. row[t] < OpenEnd(bound, team, t) /\ First(bound, team, t) <= row[t]
  BY <1>1 DEF MyRow, Owns
<1>4. row[t] + 1 \in 0..MaxBound
  BY <1>2, <1>3, BoundAssumption, SMT
<1>5. /\ row' = [row EXCEPT ![t] = row[t] + 1]
      /\ pc' = [pc EXCEPT ![t] = IF row[t] + 1 < upper[t] THEN FirstPass ELSE "end"]
  BY DEF AfterRow
<1>6. row \in [Tids -> 0..MaxBound] /\ pc \in [Tids -> Running \cup {"ready", "end", "done"}]
  BY DEF IInv, TypeOK
<1>7. FirstPass \in {"store", "max"}
  BY DEF FirstPass
<1>8. /\ row' \in [Tids -> 0..MaxBound]
      /\ pc' \in [Tids -> Running \cup {"ready", "end", "done"}]
  BY <1>4, <1>5, <1>6, <1>7 DEF Running
<1>9. /\ row'[t] = row[t] + 1
      /\ pc'[t] = IF row[t] + 1 < upper[t] THEN FirstPass ELSE "end"
      /\ \A s \in Tids \ {t} : pc'[s] = pc[s] /\ row'[s] = row[s]
  BY <1>5, <1>6
<1>10. row[t] + 1 < upper[t] => MyRow(t, row'[t])
  BY <1>1, <1>2, <1>3, <1>9, SMT DEF MyRow, Owns
<1>11. ~ (row[t] + 1 < upper[t]) => row[t] + 1 = OpenEnd(bound, team, t)
  BY <1>1, <1>2, <1>3, SMT
<1> QED
  BY <1>1, <1>7, <1>8, <1>9, <1>10, <1>11 DEF Running

-----------------------------------------------------------------------------
(* One lemma per action.                                                   *)

LEMMA InTeam ==
  ASSUME IInv, NEW t \in Tids, pc[t] # "done"
  PROVE  t < team /\ t \in 0..(team - 1) /\ ~ joined
<1>1. t < team
  BY Ranges, SMT DEF IInv, AtHome
<1> QED
  BY <1>1, Ranges, SMT DEF IInv

LEMMA EnterGood ==
  ASSUME IInv, NEW t \in Tids, Enter(t)
  PROVE  IInv'
<1> DEFINE F == First(bound, team, t)
           E == OpenEnd(bound, team, t)
<1>1. t < team /\ t \in 0..(team - 1) /\ ~ joined
  BY InTeam DEF Enter
<1>2. F \in 0..bound /\ E \in 0..bound /\ F <= E /\ bound \in Nat /\ bound <= MaxBound
  BY <1>1, Ranges, Bounds DEF IInv
<1> HIDE DEF F, E
<1>3. F \in 0..MaxBound /\ E \in 0..MaxBound /\ F \in Nat /\ E \in Nat
  BY <1>2, BoundAssumption, SMT
<1>4. /\ row' = [row EXCEPT ![t] = F] /\ upper' = [upper EXCEPT ![t] = E]
      /\ pc' = [pc EXCEPT ![t] = IF F < E THEN FirstPass ELSE "end"]
      /\ UNCHANGED <<kernel, bound, team, col, cell, joined>>
  BY DEF Enter, Fixed, F, E
<1>5. TypeOK
  BY DEF IInv
<1>6. FirstPass \in {"store", "max"}
  BY DEF FirstPass
<1>7. TypeOK'
  BY <1>3, <1>4, <1>5, <1>6 DEF TypeOK, Running
<1>8. /\ row'[t] = F /\ upper'[t] = E /\ col'[t] = col[t]
      /\ pc'[t] = IF F < E THEN FirstPass ELSE "end"
      /\ \A s \in Tids \ {t} : pc'[s] = pc[s] /\ row'[s] = row[s] /\ upper'[s] = upper[s] /\ col'[s] = col[s]
  BY <1>4, <1>5 DEF TypeOK
<1>9. pc'[t] \in Running => MyRow(t, row'[t]) /\ upper'[t] = E
  BY <1>3, <1>6, <1>8, SMT DEF Running, MyRow, Owns, F, E
<1>10. ASSUME NEW r \in RowIds, NEW c \in ColIds, MyRow(t, r)
       PROVE  cell'[r][c] = Expected(t, r, c)'
  <2>1. cell[r][c] = "old"
    BY <1>1, <1>10 DEF IInv, CellsExpected, Expected, Enter
  <2>2. F <= r /\ r < E /\ r \in Nat
    BY <1>5, <1>10, Ranges DEF MyRow, Owns, F, E
  <2>3. pc'[t] \in {"store", "max"} /\ ~ (r < row'[t])
    BY <1>3, <1>6, <1>8, <2>2, SMT
  <2> QED
    BY <1>4, <2>1, <2>3 DEF Expected
<1> HIDE DEF MyRow, Expected
<1>11. \A r \in RowIds, c \in ColIds : cell'[r][c] # cell[r][c] => MyRow(t, r)
  BY <1>4
<1> QED
  BY <1>1, <1>4, <1>7, <1>8, <1>9, <1>10, <1>11, OthersKept DEF E

LEMMA StoreRowGood ==
  ASSUME IInv, NEW t \in Tids, StoreRow(t)
  PROVE  IInv'
<1>1. t < team /\ t \in 0..(team - 1) /\ ~ joined
  BY InTeam DEF StoreRow
<1>2. TypeOK
  BY DEF IInv
<1>3. /\ cell' = [cell EXCEPT ![row[t]] = [c \in ColIds |-> "new"]]
      /\ UNCHANGED <<kernel, bound, team, upper, col, joined>>
      /\ pc[t] = "store" /\ AfterRow(t)
  BY DEF StoreRow, Fixed
<1>4. /\ row' \in [Tids -> 0..MaxBound]
      /\ pc' \in [Tids -> Running \cup {"ready", "end", "done"}]
      /\ \A s \in Tids \ {t} : pc'[s] = pc[s] /\ row'[s] = row[s]
      /\ row'[t] = row[t] + 1
      /\ pc'[t] \in {"store", "max", "end"}
      /\ pc'[t] \in Running => MyRow(t, row'[t]) /\ upper'[t] = OpenEnd(bound, team, t)
      /\ pc'[t] = "end" => row[t] + 1 = OpenEnd(bound, team, t)
  BY <1>1, <1>3, AfterRowGood DEF Running
<1>5. MyRow(t, row[t]) /\ row[t] \in Nat
  BY <1>2, <1>3, Ranges DEF IInv, AtHome, Running
<1>6. row[t] \in RowIds
  BY <1>1, <1>2, <1>5, MyRowIsRow, Ranges
<1>7. /\ \A c \in ColIds : cell'[row[t]][c] = "new"
      /\ \A r \in RowIds \ {row[t]} : cell'[r] = cell[r]
      /\ cell' \in [RowIds -> [ColIds -> {"old", "exp", "new", "wrong"}]]
  BY <1>2, <1>3, <1>6 DEF TypeOK
<1>8. TypeOK'
  BY <1>2, <1>3, <1>4, <1>7 DEF TypeOK
<1>9. ASSUME NEW r \in RowIds, NEW c \in ColIds, MyRow(t, r)
      PROVE  cell'[r][c] = Expected(t, r, c)'
  <2>1. cell[r][c] = IF r < row[t] THEN "new" ELSE "old"
    BY <1>1, <1>3, <1>9 DEF IInv, CellsExpected, Expected
  <2>2. r \in Nat /\ r < OpenEnd(bound, team, t) /\ OpenEnd(bound, team, t) \in Nat
    BY <1>1, <1>2, <1>9, Ranges, Bounds, SMT DEF MyRow, Owns
  <2>3. cell'[r][c] = IF r < row[t] + 1 THEN "new" ELSE "old"
    BY <1>5, <1>7, <2>1, <2>2, SMT
  <2>4. CASE pc'[t] = "end"
    BY <1>4, <1>5, <2>2, <2>3, <2>4, SMT DEF Expected
  <2>5. CASE pc'[t] \in {"store", "max"}
    BY <1>4, <2>3, <2>5 DEF Expected
  <2> QED
    BY <1>4, <2>4, <2>5
<1>10. \A r \in RowIds, c \in ColIds : cell'[r][c] # cell[r][c] => MyRow(t, r)
  BY <1>5, <1>7
<1>11. \A s \in Tids \ {t} : pc'[s] = pc[s] /\ row'[s] = row[s] /\ upper'[s] = upper[s] /\ col'[s] = col[s]
  BY <1>3, <1>4
<1> HIDE DEF MyRow, Expected
<1> QED
  BY <1>1, <1>3, <1>4, <1>8, <1>9, <1>10, <1>11, OthersKept

(* A pass begins or the thread leaves: no cell and no row changes.         *)
LEMMA FindMaxGood ==
  ASSUME IInv, NEW t \in Tids, FindMax(t)
  PROVE  IInv'
<1>1. t < team /\ t \in 0..(team - 1) /\ ~ joined
  BY InTeam DEF FindMax
<1>2. TypeOK
  BY DEF IInv
<1>3. /\ pc' = [pc EXCEPT ![t] = "exp"] /\ col' = [col EXCEPT ![t] = 0]
      /\ UNCHANGED <<kernel, bound, team, row, upper, cell, joined>> /\ pc[t] = "max"
  BY DEF FindMax, Fixed
<1>4. 0 \in ColIds /\ \A c \in ColIds : ~ (c < 0)
  BY ColsAssumption, SMT DEF ColIds
<1>5. TypeOK'
  BY <1>2, <1>3, <1>4 DEF TypeOK, Running
<1>6. /\ pc'[t] = "exp" /\ col'[t] = 0
      /\ \A s \in Tids \ {t} : pc'[s] = pc[s] /\ row'[s] = row[s] /\ upper'[s] = upper[s] /\ col'[s] = col[s]
  BY <1>2, <1>3 DEF TypeOK
<1>7. MyRow(t, row'[t]) /\ upper'[t] = OpenEnd(bound, team, t)
  BY <1>2, <1>3 DEF IInv, AtHome, Running
<1>8. ASSUME NEW r \in RowIds, NEW c \in ColIds, MyRow(t, r)
      PROVE  cell'[r][c] = Expected(t, r, c)'
  BY <1>1, <1>3, <1>4, <1>6, <1>8 DEF IInv, CellsExpected, Expected
<1>9. \A r \in RowIds, c \in ColIds : cell'[r][c] # cell[r][c] => MyRow(t, r)
  BY <1>3
<1> HIDE DEF MyRow, Expected
<1> QED
  BY <1>1, <1>3, <1>5, <1>6, <1>7, <1>8, <1>9, OthersKept

LEMMA FiniGood ==
  ASSUME IInv, NEW t \in Tids, Fini(t)
  PROVE  IInv'
<1>1. t < team /\ t \in 0..(team - 1) /\ ~ joined
  BY InTeam DEF Fini
<1>2. TypeOK
  BY DEF IInv
<1>3. /\ pc' = [pc EXCEPT ![t] = "done"]
      /\ UNCHANGED <<kernel, bound, team, row, upper, col, cell, joined>> /\ pc[t] = "end"
  BY DEF Fini, Fixed
<1>4. TypeOK'
  BY <1>2, <1>3 DEF TypeOK
<1>5. /\ pc'[t] = "done"
      /\ \A s \in Tids \ {t} : pc'[s] = pc[s] /\ row'[s] = row[s] /\ upper'[s] = upper[s] /\ col'[s] = col[s]
  BY <1>2, <1>3 DEF TypeOK
<1>6. ASSUME NEW r \in RowIds, NEW c \in ColIds, MyRow(t, r)
      PROVE  cell'[r][c] = Expected(t, r, c)'
  BY <1>1, <1>3, <1>5, <1>6 DEF IInv, CellsExpected, Expected
<1>7. \A r \in RowIds, c \in ColIds : cell'[r][c] # cell[r][c] => MyRow(t, r)
  BY <1>3
<1>8. pc'[t] \notin Running
  BY <1>5 DEF Running
<1> HIDE DEF MyRow, Expected
<1> QED
  BY <1>1, <1>3, <1>4, <1>5, <1>6, <1>7, <1>8, OthersKept

(* Where a pass over a row goes on: to the next cell, or back to the first *)
(* one when the row is over.                                               *)
LEMMA NextCell ==
  ASSUME TypeOK, NEW t \in Tids
  PROVE  /\ (col[t] + 1) % Cols = (IF col[t] + 1 = Cols THEN 0 ELSE col[t] + 1)
         /\ (col[t] + 1) % Cols \in ColIds
         /\ \A c \in ColIds : col[t] + 1 = Cols => c < col[t] \/ c = col[t]
         /\ \A c \in ColIds : c < col[t] + 1 <=> c < col[t] \/ c = col[t]
         /\ \A c \in ColIds : ~ (c < 0)
  BY ColsAssumption, Ranges, SMT DEF ColIds

LEMMA ExponentialGood ==
  ASSUME IInv, NEW t \in Tids, Exponential(t)
  PROVE  IInv'
<1>1. t < team /\ t \in 0..(team - 1) /\ ~ joined
  BY InTeam DEF Exponential
<1>2. TypeOK
  BY DEF IInv
<1> DEFINE next == (col[t] + 1) % Cols
<1>3. /\ cell' = [cell EXCEPT ![row[t]] = [cell[row[t]] EXCEPT ![col[t]] = "exp"]]
      /\ col' = [col EXCEPT ![t] = next]
      /\ pc' = [pc EXCEPT ![t] = IF col[t] + 1 = Cols THEN "div" ELSE pc[t]]
      /\ UNCHANGED <<kernel, bound, team, row, upper, joined>> /\ pc[t] = "exp"
  BY DEF Exponential, Fixed
<1>4. MyRow(t, row[t]) /\ row[t] \in Nat /\ upper[t] = OpenEnd(bound, team, t) /\ col[t] \in ColIds
  BY <1>2, <1>3, Ranges DEF IInv, AtHome, Running
<1>5. row[t] \in RowIds
  BY <1>1, <1>2, <1>4, MyRowIsRow, Ranges
<1>6. next \in ColIds
  BY <1>2, NextCell
<1> HIDE DEF next
<1>7. /\ cell'[row[t]][col[t]] = "exp"
      /\ \A c \in ColIds \ {col[t]} : cell'[row[t]][c] = cell[row[t]][c]
      /\ \A r \in RowIds \ {row[t]} : cell'[r] = cell[r]
      /\ cell' \in [RowIds -> [ColIds -> {"old", "exp", "new", "wrong"}]]
  BY <1>2, <1>3, <1>4, <1>5 DEF TypeOK
<1>8. TypeOK'
  BY <1>2, <1>3, <1>6, <1>7 DEF TypeOK, Running
<1>9. /\ pc'[t] = (IF col[t] + 1 = Cols THEN "div" ELSE "exp") /\ col'[t] = next /\ row'[t] = row[t]
      /\ \A s \in Tids \ {t} : pc'[s] = pc[s] /\ row'[s] = row[s] /\ upper'[s] = upper[s] /\ col'[s] = col[s]
  BY <1>2, <1>3 DEF TypeOK
<1>10. ASSUME NEW r \in RowIds, NEW c \in ColIds, MyRow(t, r)
      PROVE  cell'[r][c] = Expected(t, r, c)'
  <2>1. cell[r][c] = IF r < row[t] THEN "new" ELSE IF r > row[t] THEN "old"
                     ELSE IF c < col[t] THEN "exp" ELSE "old"
    BY <1>1, <1>3, <1>10 DEF IInv, CellsExpected, Expected
  <2>2. r \in Nat /\ c \in Nat
    BY <1>2, Ranges
  <2>3. CASE r # row[t]
    <3>1. r < row[t] \/ r > row[t]
      BY <1>4, <2>2, <2>3, SMT
    <3> QED
      BY <1>4, <1>7, <1>9, <2>1, <2>2, <2>3, <3>1, SMT DEF Expected
  <2>4. CASE r = row[t]
    <3>1. ~ (r < row[t]) /\ ~ (r > row[t])
      BY <1>4, <2>4, SMT
    <3>2. cell'[r][c] = IF c < col[t] \/ c = col[t] THEN "exp" ELSE "old"
      BY <1>7, <2>1, <2>4, <3>1
    <3>3. CASE col[t] + 1 = Cols
      BY <1>2, <1>9, <2>4, <3>1, <3>2, <3>3, NextCell DEF Expected, next
    <3>4. CASE col[t] + 1 # Cols
      BY <1>2, <1>9, <2>4, <3>1, <3>2, <3>4, NextCell DEF Expected, next
    <3> QED
      BY <3>3, <3>4
  <2> QED
    BY <2>3, <2>4
<1>11. \A r \in RowIds, c \in ColIds : cell'[r][c] # cell[r][c] => MyRow(t, r)
  BY <1>4, <1>7
<1>12. MyRow(t, row'[t]) /\ upper'[t] = OpenEnd(bound, team, t)
  BY <1>3, <1>4
<1> HIDE DEF MyRow, Expected
<1> QED
  BY <1>1, <1>3, <1>8, <1>9, <1>10, <1>11, <1>12, OthersKept

(* build_softmax: the cell it divides holds the exponential it stored.     *)
LEMMA DivideGood ==
  ASSUME IInv, NEW t \in Tids, Divide(t)
  PROVE  IInv'
<1>1. t < team /\ t \in 0..(team - 1) /\ ~ joined
  BY InTeam DEF Divide
<1>2. TypeOK
  BY DEF IInv
<1> DEFINE next == (col[t] + 1) % Cols
<1>3. /\ cell' = [cell EXCEPT ![row[t]] = [cell[row[t]] EXCEPT ![col[t]] =
                                             IF cell[row[t]][col[t]] = "exp" THEN "new" ELSE "wrong"]]
      /\ col' = [col EXCEPT ![t] = next]
      /\ UNCHANGED <<kernel, bound, team, upper, joined>> /\ pc[t] = "div"
  BY DEF Divide, Fixed
<1>4. MyRow(t, row[t]) /\ row[t] \in Nat /\ upper[t] = OpenEnd(bound, team, t) /\ col[t] \in ColIds
  BY <1>2, <1>3, Ranges DEF IInv, AtHome, Running
<1>5. row[t] \in RowIds
  BY <1>1, <1>2, <1>4, MyRowIsRow, Ranges
<1>6. next \in ColIds
  BY <1>2, NextCell
<1> HIDE DEF next
<1>7. \A r \in RowIds, c \in ColIds : MyRow(t, r) =>
        cell[r][c] = IF r < row[t] THEN "new" ELSE IF r > row[t] THEN "old"
                     ELSE IF c < col[t] THEN "new" ELSE "exp"
  BY <1>1, <1>3 DEF IInv, CellsExpected, Expected
<1>8. cell[row[t]][col[t]] = "exp"
  BY <1>2, <1>4, <1>5, <1>7, Ranges, SMT
<1>9. /\ cell'[row[t]][col[t]] = "new"
      /\ \A c \in ColIds \ {col[t]} : cell'[row[t]][c] = cell[row[t]][c]
      /\ \A r \in RowIds \ {row[t]} : cell'[r] = cell[r]
      /\ cell' \in [RowIds -> [ColIds -> {"old", "exp", "new", "wrong"}]]
  BY <1>2, <1>3, <1>4, <1>5, <1>8 DEF TypeOK
<1>10. /\ col'[t] = next /\ col' \in [Tids -> ColIds]
       /\ \A s \in Tids \ {t} : upper'[s] = upper[s] /\ col'[s] = col[s]
  BY <1>2, <1>3, <1>6 DEF TypeOK
<1>11. \A r \in RowIds, c \in ColIds : cell'[r][c] # cell[r][c] => MyRow(t, r)
  BY <1>4, <1>9
<1>12. ASSUME NEW r \in RowIds, NEW c \in ColIds, MyRow(t, r)
       PROVE  /\ r \in Nat /\ c \in Nat
              /\ cell'[r][c] = IF r < row[t] THEN "new" ELSE IF r > row[t] THEN "old"
                               ELSE IF c < col[t] \/ c = col[t] THEN "new" ELSE "exp"
  <2>1. r \in Nat /\ c \in Nat
    BY <1>2, Ranges
  <2>2. r # row[t] => r < row[t] \/ r > row[t]
    BY <1>4, <2>1, SMT
  <2>3. r = row[t] => ~ (r < row[t]) /\ ~ (r > row[t])
    BY <1>4, SMT
  <2> QED
    BY <1>7, <1>9, <1>12, <2>1, <2>2, <2>3
<1>13. CASE col[t] + 1 # Cols
  <2>1. UNCHANGED <<row, pc>>
    BY <1>13 DEF Divide
  <2>2. TypeOK'
    BY <1>2, <1>3, <1>9, <1>10, <2>1 DEF TypeOK
  <2>3. ASSUME NEW r \in RowIds, NEW c \in ColIds, MyRow(t, r)
        PROVE  cell'[r][c] = Expected(t, r, c)'
    <3>1. c < next <=> c < col[t] \/ c = col[t]
      BY <1>2, <1>13, NextCell DEF next
    <3> QED
      BY <1>3, <1>10, <1>12, <2>1, <2>3, <3>1 DEF Expected
  <2>4. MyRow(t, row'[t]) /\ upper'[t] = OpenEnd(bound, team, t)
    BY <1>3, <1>4, <2>1
  <2> HIDE DEF MyRow, Expected
  <2> QED
    BY <1>1, <1>3, <1>10, <1>11, <2>1, <2>2, <2>3, <2>4, OthersKept
<1>14. CASE col[t] + 1 = Cols
  <2>1. AfterRow(t)
    BY <1>14 DEF Divide
  <2>2. /\ row' \in [Tids -> 0..MaxBound]
        /\ pc' \in [Tids -> Running \cup {"ready", "end", "done"}]
        /\ \A s \in Tids \ {t} : pc'[s] = pc[s] /\ row'[s] = row[s]
        /\ row'[t] = row[t] + 1
        /\ pc'[t] \in {"store", "max", "end"}
        /\ pc'[t] \in Running => MyRow(t, row'[t]) /\ upper'[t] = OpenEnd(bound, team, t)
        /\ pc'[t] = "end" => row[t] + 1 = OpenEnd(bound, team, t)
    BY <1>1, <1>3, <2>1, AfterRowGood DEF Running
  <2>3. TypeOK'
    BY <1>2, <1>3, <1>9, <1>10, <2>2 DEF TypeOK
  <2>4. ASSUME NEW r \in RowIds, NEW c \in ColIds, MyRow(t, r)
        PROVE  cell'[r][c] = Expected(t, r, c)'
    <3>1. cell'[r][c] = IF r > row[t] THEN "old" ELSE "new"
      <4>1. c < col[t] \/ c = col[t]
        BY <1>2, <1>14, NextCell
      <4> QED
        BY <1>4, <1>12, <2>4, <4>1, SMT
    <3>2. r \in Nat /\ r < OpenEnd(bound, team, t) /\ OpenEnd(bound, team, t) \in Nat
      BY <1>1, <1>2, <2>4, Ranges, Bounds, SMT DEF MyRow, Owns
    <3>3. r > row[t] <=> ~ (r < row[t] + 1)
      BY <1>4, <3>2, SMT
    <3>4. CASE pc'[t] = "end"
      BY <1>4, <2>2, <3>1, <3>2, <3>3, <3>4, SMT DEF Expected
    <3>5. CASE pc'[t] \in {"store", "max"}
      BY <2>2, <3>1, <3>3, <3>5 DEF Expected
    <3> QED
      BY <2>2, <3>4, <3>5
  <2>5. \A s \in Tids \ {t} : pc'[s] = pc[s] /\ row'[s] = row[s] /\ upper'[s] = upper[s] /\ col'[s] = col[s]
    BY <1>10, <2>2
  <2> HIDE DEF MyRow, Expected
  <2> QED
    BY <1>1, <1>3, <1>11, <2>2, <2>3, <2>4, <2>5, OthersKept
<1> QED
  BY <1>13, <1>14

LEMMA JoinGood ==
  ASSUME IInv, Join
  PROVE  IInv'
<1>1. /\ UNCHANGED <<kernel, bound, team, pc, row, upper, col, cell>>
      /\ joined' = TRUE /\ \A t \in Tids : pc[t] = "done"
  BY DEF Join, Fixed
<1>2. TypeOK'
  BY <1>1 DEF IInv, TypeOK
<1>3. AtHome'
  BY <1>1 DEF IInv, AtHome, MyRow
<1>4. CellsExpected'
  BY <1>1 DEF IInv, CellsExpected, MyRow, Expected
<1>5. NothingWrong'
  BY <1>1 DEF IInv, NothingWrong
<1> QED
  BY <1>1, <1>2, <1>3, <1>4, <1>5 DEF IInv

LEMMA StutterGood ==
  ASSUME IInv, UNCHANGED vars
  PROVE  IInv'
  BY DEF vars, IInv, TypeOK, AtHome, CellsExpected, NothingWrong, MyRow, Expected

LEMMA StepGood ==
  ASSUME IInv, [Next]_vars
  PROVE  IInv'
<1>1. ASSUME NEW t \in Tids, Thread(t)
      PROVE  IInv'
  BY <1>1, EnterGood, StoreRowGood, FindMaxGood, ExponentialGood, DivideGood, FiniGood DEF Thread
<1> QED
  BY <1>1, JoinGood, StutterGood DEF Next

-----------------------------------------------------------------------------
(* The theorems.                                                           *)

LEMMA InvariantHolds == Spec => []IInv
<1>1. Init => IInv
  BY InitGood
<1>2. IInv /\ [Next]_vars => IInv'
  BY StepGood
<1> QED
  BY <1>1, <1>2, PTL DEF Spec

(* Every variable of the model of a shared loop keeps its type.            *)
THEOREM TypeCorrect == Spec => []TypeOK
<1>1. IInv => TypeOK
  BY DEF IInv
<1> QED
  BY <1>1, InvariantHolds, PTL

LEMMA NoRowShared == IInv => RowsApart
<1> SUFFICES ASSUME IInv, NEW s \in Tids, NEW t \in Tids, s # t,
                    pc[s] \in Running, pc[t] \in Running, row[s] = row[t]
             PROVE  FALSE
  BY DEF RowsApart
<1>1. MyRow(s, row[s]) /\ MyRow(t, row[s]) /\ row[s] \in Nat
  BY Ranges DEF IInv, AtHome
<1>2. s \in 0..(team - 1) /\ t \in 0..(team - 1)
  BY InTeam DEF Running
<1> QED
  BY <1>1, <1>2, OneOwner, Ranges DEF IInv, MyRow

LEMMA JoinedIsComplete == IInv => RegionComplete
<1> SUFFICES ASSUME IInv, joined, NEW r \in 0..(bound - 1), NEW c \in ColIds
             PROVE  cell[r][c] = "new"
  BY DEF RegionComplete
<1>1. PICK t \in 0..(team - 1) : MyRow(t, r)
  BY SomeOwner, Ranges DEF IInv, MyRow
<1>2. t \in Tids /\ r \in RowIds
  BY Ranges DEF IInv
<1>3. pc[t] = "done"
  BY <1>2 DEF IInv
<1> QED
  BY <1>1, <1>2, <1>3 DEF IInv, CellsExpected, Expected

(* omp_for_static and build_softmax, for every team, bound and width: no   *)
(* iteration is under way in two threads, no exponential is divided twice, *)
(* and when __kmpc_fork_call returns every cell has its result.            *)
THEOREM LoopsAreShared == Spec => []LoopsShared
<1>1. IInv => LoopsShared
  BY NoRowShared, JoinedIsComplete DEF IInv, LoopsShared
<1> QED
  BY <1>1, InvariantHolds, PTL

(* A step stores a result, or an exponential where there was none yet.     *)
LEMMA StepKeepsResults ==
  ASSUME IInv, [Next]_vars, NEW r \in RowIds, NEW c \in ColIds, cell[r][c] = "new"
  PROVE  cell'[r][c] = "new"
<1>1. CASE UNCHANGED cell
  BY <1>1
<1>2. ASSUME NEW t \in Tids, pc[t] \in Running
      PROVE  /\ row[t] \in RowIds /\ col[t] \in ColIds
             /\ pc[t] \in {"exp", "div"} =>
                  cell[row[t]][col[t]] = IF pc[t] = "exp" THEN "old" ELSE "exp"
  <2>1. t \in 0..(team - 1) /\ TypeOK
    BY <1>2, InTeam DEF IInv, Running
  <2>2. MyRow(t, row[t]) /\ row[t] \in Nat /\ col[t] \in ColIds
    BY <1>2, <2>1, Ranges DEF IInv, AtHome
  <2>3. row[t] \in RowIds
    BY <2>1, <2>2, MyRowIsRow, Ranges
  <2>4. ~ (row[t] < row[t]) /\ ~ (row[t] > row[t]) /\ ~ (col[t] < col[t])
    BY <2>1, <2>2, Ranges, SMT
  <2> QED
    BY <2>1, <2>2, <2>3, <2>4 DEF IInv, CellsExpected, Expected
<1>3. cell \in [RowIds -> [ColIds -> {"old", "exp", "new", "wrong"}]]
  BY DEF IInv, TypeOK
<1>4. ASSUME NEW t \in Tids, StoreRow(t)
      PROVE  cell'[r][c] = "new"
  BY <1>3, <1>4 DEF StoreRow
<1>5. ASSUME NEW t \in Tids, Exponential(t)
      PROVE  cell'[r][c] = "new"
  <2>1. pc[t] = "exp" /\ cell' = [cell EXCEPT ![row[t]] = [cell[row[t]] EXCEPT ![col[t]] = "exp"]]
    BY <1>5 DEF Exponential
  <2>2. cell[row[t]][col[t]] = "old" /\ row[t] \in RowIds
    BY <1>2, <2>1 DEF Running
  <2> QED
    BY <1>3, <2>1, <2>2
<1>6. ASSUME NEW t \in Tids, Divide(t)
      PROVE  cell'[r][c] = "new"
  <2>1. /\ pc[t] = "div"
        /\ cell' = [cell EXCEPT ![row[t]] = [cell[row[t]] EXCEPT ![col[t]] =
                                               IF cell[row[t]][col[t]] = "exp" THEN "new" ELSE "wrong"]]
    BY <1>6 DEF Divide
  <2>2. cell[row[t]][col[t]] = "exp" /\ row[t] \in RowIds
    BY <1>2, <2>1 DEF Running
  <2> QED
    BY <1>3, <2>1, <2>2
<1>7. ASSUME NEW t \in Tids, Thread(t)
      PROVE  UNCHANGED cell \/ StoreRow(t) \/ Exponential(t) \/ Divide(t)
  BY <1>7 DEF Thread, Enter, FindMax, Fini
<1>8. Join \/ UNCHANGED vars => UNCHANGED cell
  BY DEF Join, vars
<1> QED
  BY <1>1, <1>4, <1>5, <1>6, <1>7, <1>8 DEF Next

(* No thread computes a result that is there a second time, nor puts an    *)
(* intermediate value in its place.                                        *)
THEOREM ResultsAreKept == Spec => ResultsStay
<1>1. IInv /\ [Next]_vars =>
        \A r \in RowIds, c \in ColIds : cell[r][c] = "new" => cell'[r][c] = "new"
  BY StepKeepsResults
<1>2. IInv /\ [Next]_vars =>
        [\A r \in RowIds, c \in ColIds : cell[r][c] = "new" => cell'[r][c] = "new"]_vars
  BY <1>1
<1> QED
  BY <1>2, InvariantHolds, PTL DEF Spec, ResultsStay
=============================================================================
