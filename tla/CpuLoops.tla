------------------------------- MODULE CpuLoops -------------------------------
(***************************************************************************)
(* Loops of the CPU kernels that a team of OpenMP threads shares            *)
(* (src/schedule/omp.rs; codegen/cpu/translator.rs: omp_parallel,           *)
(* omp_for_static, the bodies of build_flat_loop, build_softmax and         *)
(* build_dequant_matmul_fused_decode). __kmpc_fork_call runs the outlined   *)
(* function on every thread of the team and returns when all have; what     *)
(* __kmpc_for_static_init_4 does is its balanced static schedule.           *)
(*                                                                         *)
(* The loop has bound rows of Cols cells. A softmax goes over its row three *)
(* times: the largest, the exponentials and their sum, the division. The    *)
(* others store a row at once.                                              *)
(***************************************************************************)
EXTENDS Integers

CONSTANTS MaxTeam,      \* the most threads of a team
          MaxBound,     \* the most iterations
          Cols,         \* the cells of a row
          Threshold     \* elementwise_threshold and softmax_threshold

ASSUME TeamAssumption == MaxTeam \in Nat \ {0}
ASSUME BoundAssumption == MaxBound \in Nat \ {0}
ASSUME ColsAssumption == Cols \in Nat \ {0}
ASSUME ThresholdAssumption == Threshold \in Nat

Tids == 0..(MaxTeam - 1)
RowIds == 0..(MaxBound - 1)
ColIds == 0..(Cols - 1)

VARIABLES kernel,   \* [kind, inputs, last]: what is computed, how many inputs, over the last axis
          bound,    \* the iterations
          team,     \* the threads there are
          pc,       \* per thread: ready, in a row (its pass), at the end, done
          row,      \* per thread: the iteration
          upper,    \* per thread: the first iteration that is not its own
          col,      \* per thread: the cell
          cell,     \* the output
          joined    \* the region is over

vars == <<kernel, bound, team, pc, row, upper, col, cell, joined>>

Kernels0 == [kind : {"flat", "softmax", "dot"}, inputs : 1..4, last : BOOLEAN]

(* OmpAnnotatePass: many cells, at most three inputs, the last axis.        *)
Annotated(k, n) ==
  CASE k.kind = "flat" -> k.inputs <= 3 /\ n >= Threshold
    [] k.kind = "softmax" -> k.last /\ n >= Threshold
    [] OTHER -> n >= Threshold

-----------------------------------------------------------------------------
(* The schedule: trip iterations over n threads, the first ones having one  *)
(* more; or one each, and the rest nothing.                                 *)
Least(a, b) == IF a < b THEN a ELSE b
Share(trip, n) == trip \div n
Extras(trip, n) == trip % n
First(trip, n, t) ==
  IF trip < n THEN IF t < trip THEN t ELSE trip ELSE t * Share(trip, n) + Least(t, Extras(trip, n))
Final(trip, n, t) ==
  IF trip < n THEN IF t < trip THEN t ELSE trip - 1
  ELSE First(trip, n, t) + Share(trip, n) - (IF t < Extras(trip, n) THEN 0 ELSE 1)

(* omp_for_static: the last iteration is cut at the end, and made open.     *)
(* Mutant of OpenEnd: the last iteration is taken for the end. *)
OpenEnd_Closed(trip, n, t) == Least(Final(trip, n, t), trip - 1)
OpenEnd(trip, n, t) == Least(Final(trip, n, t), trip - 1) + 1

Init ==
  /\ kernel \in Kernels0
  /\ bound \in 1..MaxBound
  /\ team \in (IF Annotated(kernel, bound) THEN 1..MaxTeam ELSE {1})
  /\ pc = [t \in Tids |-> IF t < team THEN "ready" ELSE "done"]
  /\ row = [t \in Tids |-> 0] /\ upper = [t \in Tids |-> 0] /\ col = [t \in Tids |-> 0]
  /\ cell = [r \in RowIds |-> [c \in ColIds |-> "old"]]
  /\ joined = FALSE

Fixed == UNCHANGED <<kernel, bound, team>>
FirstPass == IF kernel.kind = "softmax" THEN "max" ELSE "store"
AfterRow(t) ==
  /\ row' = [row EXCEPT ![t] = @ + 1]
  /\ pc' = [pc EXCEPT ![t] = IF row[t] + 1 < upper[t] THEN FirstPass ELSE "end"]

(* A thread without iterations goes to the epilogue.                        *)
(* Mutant of Enter: it stays where it is. *)
Enter_NoEpilog(t) ==
  /\ pc[t] = "ready" /\ First(bound, team, t) < OpenEnd(bound, team, t)
  /\ row' = [row EXCEPT ![t] = First(bound, team, t)]
  /\ upper' = [upper EXCEPT ![t] = OpenEnd(bound, team, t)]
  /\ pc' = [pc EXCEPT ![t] = FirstPass]
  /\ Fixed /\ UNCHANGED <<col, cell, joined>>
Enter(t) ==
  /\ pc[t] = "ready"
  /\ row' = [row EXCEPT ![t] = First(bound, team, t)]
  /\ upper' = [upper EXCEPT ![t] = OpenEnd(bound, team, t)]
  /\ pc' = [pc EXCEPT ![t] = IF First(bound, team, t) < OpenEnd(bound, team, t) THEN FirstPass ELSE "end"]
  /\ Fixed /\ UNCHANGED <<col, cell, joined>>

(* An element, or a row's dot product. *)
StoreRow(t) ==
  /\ pc[t] = "store"
  /\ cell' = [cell EXCEPT ![row[t]] = [c \in ColIds |-> "new"]]
  /\ AfterRow(t)
  /\ Fixed /\ UNCHANGED <<upper, col, joined>>

FindMax(t) ==
  /\ pc[t] = "max"
  /\ pc' = [pc EXCEPT ![t] = "exp"] /\ col' = [col EXCEPT ![t] = 0]
  /\ Fixed /\ UNCHANGED <<row, upper, cell, joined>>

(* Stores an exponential and adds it to the sum. *)
Exponential(t) ==
  /\ pc[t] = "exp"
  /\ cell' = [cell EXCEPT ![row[t]][col[t]] = "exp"]
  /\ col' = [col EXCEPT ![t] = (@ + 1) % Cols]
  /\ pc' = [pc EXCEPT ![t] = IF col[t] + 1 = Cols THEN "div" ELSE @]
  /\ Fixed /\ UNCHANGED <<row, upper, joined>>

(* Reads it again and stores the quotient. *)
Divide(t) ==
  /\ pc[t] = "div"
  /\ cell' = [cell EXCEPT ![row[t]][col[t]] = IF @ = "exp" THEN "new" ELSE "wrong"]
  /\ col' = [col EXCEPT ![t] = (@ + 1) % Cols]
  /\ IF col[t] + 1 = Cols THEN AfterRow(t) ELSE UNCHANGED <<row, pc>>
  /\ Fixed /\ UNCHANGED <<upper, joined>>

Fini(t) ==
  /\ pc[t] = "end"
  /\ pc' = [pc EXCEPT ![t] = "done"]
  /\ Fixed /\ UNCHANGED <<row, upper, col, cell, joined>>

Join ==
  /\ ~ joined /\ \A t \in Tids : pc[t] = "done"
  /\ joined' = TRUE
  /\ Fixed /\ UNCHANGED <<pc, row, upper, col, cell>>

Thread(t) == Enter(t) \/ StoreRow(t) \/ FindMax(t) \/ Exponential(t) \/ Divide(t) \/ Fini(t)
Next == Join \/ \E t \in Tids : Thread(t)

(* The threads run and the one that forked waits for them. *)
Fairness == WF_vars(Join) /\ \A t \in Tids : WF_vars(Thread(t))
Spec == Init /\ [][Next]_vars /\ Fairness

-----------------------------------------------------------------------------
Running == {"store", "max", "exp", "div"}

TypeOK ==
  /\ kernel \in Kernels0 /\ bound \in 1..MaxBound /\ team \in 1..MaxTeam
  /\ pc \in [Tids -> Running \cup {"ready", "end", "done"}]
  /\ row \in [Tids -> 0..MaxBound] /\ upper \in [Tids -> 0..MaxBound] /\ col \in [Tids -> ColIds]
  /\ cell \in [RowIds -> [ColIds -> {"old", "exp", "new", "wrong"}]]
  /\ joined \in BOOLEAN

(* omp_for_static: no iteration is under way in two threads. *)
RowsApart == \A s, t \in Tids : s # t /\ pc[s] \in Running /\ pc[t] \in Running => row[s] # row[t]

(* build_softmax: a thread divides the exponentials it stored itself, which *)
(* nobody divides a second time.                                            *)
NothingWrong == \A r \in RowIds, c \in ColIds : cell[r][c] # "wrong"

(* __kmpc_fork_call: after the region every cell has its result. *)
RegionComplete == joined => \A r \in 0..(bound - 1), c \in ColIds : cell[r][c] = "new"

(* The three together: no iteration is given to two threads, no cell is     *)
(* divided twice, and after __kmpc_fork_call every cell has its result.     *)
LoopsShared == RowsApart /\ NothingWrong /\ RegionComplete

(* A result that is there is not computed again. *)
ResultsStay == [][\A r \in RowIds, c \in ColIds : cell[r][c] = "new" => cell'[r][c] = "new"]_vars

(* Every region ends, of however many threads and iterations. *)
RegionEnds == <>joined
=============================================================================
