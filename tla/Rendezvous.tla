----------------------------- MODULE Rendezvous -----------------------------
(* What a collective operation promises: the k-th call of a rank returns    *)
(* only when every rank has made its k-th call.  A rank may drop out at any *)
(* time; those that wait for it then never return, they only drop out too.  *)
EXTENDS Naturals

CONSTANT Rank

VARIABLES calls,    (* how many calls each rank has made  *)
          returns,  (* how many of them have returned     *)
          dropped

Init == calls = [r \in Rank |-> 0] /\ returns = [r \in Rank |-> 0] /\ dropped = {}

Call(r) ==
  /\ r \notin dropped /\ calls[r] = returns[r]
  /\ calls' = [calls EXCEPT ![r] = @ + 1]
  /\ UNCHANGED <<returns, dropped>>

Return(r) ==
  /\ r \notin dropped /\ returns[r] < calls[r]
  /\ \A q \in Rank : calls[q] >= calls[r]
  /\ returns' = [returns EXCEPT ![r] = @ + 1]
  /\ UNCHANGED <<calls, dropped>>

Drop(r) == r \notin dropped /\ dropped' = dropped \cup {r} /\ UNCHANGED <<calls, returns>>

Next == \E r \in Rank : Call(r) \/ Return(r) \/ Drop(r)
Spec == Init /\ [][Next]_<<calls, returns, dropped>>
=============================================================================
