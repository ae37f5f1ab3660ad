---------------------------- MODULE MC_ChatService ----------------------------
(* The two registries of the UI's server: the chat sessions (ChatService)    *)
(* and the loaded models (ModelRegistry).  They share no state; one is       *)
(* chosen at the start.                                                      *)
EXTENDS ChatService, ModelRegistry, TLC

CONSTANTS s1, s2, p, q, m1, m2, MCParts

ask(kind, i, max) == [kind |-> kind, id |-> i, max |-> max]
none == ask("none", s1, 0)

Scenario(asks, workers, rows, fails, crashes, evictions) ==
  [asks |-> asks, workers |-> workers, max_seq_len |-> rows, max_failures |-> fails,
   max_panics |-> crashes, max_expiries |-> evictions]

(* One turn on either of two sessions, while one is destroyed. *)
Race == (1 :> ask("create", s1, 0)) @@ (2 :> ask("create", s2, 0))
     @@ (3 :> ask("chat", s1, 2)) @@ (4 :> ask("chat", s2, 1)) @@ (5 :> ask("destroy", s1, 0))

(* Two turns on one session, in either order. *)
Turns == (1 :> ask("create", s1, 0)) @@ (2 :> ask("chat", s1, 3))
      @@ (3 :> ask("chat", s1, 2)) @@ (4 :> none) @@ (5 :> none)

(* Two short ones. *)
Short == (1 :> ask("create", s1, 0)) @@ (2 :> ask("chat", s1, 2))
      @@ (3 :> ask("chat", s1, 1)) @@ (4 :> none) @@ (5 :> none)

(* A turn, and as many destroys as there are workers. *)
Stall == (1 :> ask("create", s1, 0)) @@ (2 :> ask("chat", s1, 2))
      @@ (3 :> ask("destroy", s1, 0)) @@ (4 :> ask("destroy", s2, 0)) @@ (5 :> none)

MCRequest == 1..5
MCStop == <<p, q>>

(* The last two are not Untroubled: a cache that fills up in a turn, and a  *)
(* turn behind one that fails.                                              *)
MCScenarios ==
  { Scenario(Race, 2, 8, 1, 1, 1), Scenario(Turns, 1, 20, 0, 0, 0), Scenario(Stall, 2, 20, 0, 1, 0),
    Scenario(Turns, 1, 3, 0, 0, 0), Scenario(Short, 1, 20, 1, 0, 0) }

-----------------------------------------------------------------------------
(* Two models; three requests for the first on both backends, one for the    *)
(* second, and a reader.                                                     *)
MCModel == {m1, m2}
want(kind, mo, t) == [kind |-> kind, model |-> mo, target |-> t]
MCWants == (1 :> want("run", m1, "cpu")) @@ (2 :> want("run", m1, "cuda")) @@ (3 :> want("warm", m1, "cpu"))
        @@ (4 :> want("run", m2, "cuda")) @@ (5 :> want("read", m2, "cpu"))

-----------------------------------------------------------------------------
VARIABLES part
mcvars == <<part, vars, rvars>>

MCInit ==
  /\ part \in MCParts
  /\ Init /\ RInit
  /\ part = "models" => scenario = CHOOSE s \in Scenarios : TRUE

Chatting == part = "chat" /\ Next /\ UNCHANGED <<part, rvars>>
Inferring == part = "models" /\ RNext /\ UNCHANGED <<part, vars>>

(* Each with the fairness its module states. *)
MCSpec ==
  /\ MCInit /\ [][Chatting \/ Inferring]_mcvars
  /\ \A r \in Request :
       /\ WF_mcvars(part = "chat" /\ Works(r) /\ UNCHANGED <<part, rvars>>)
       /\ WF_mcvars(part = "chat" /\ Listens(r) /\ UNCHANGED <<part, rvars>>)
       /\ WF_mcvars(part = "models" /\ Serves(r) /\ UNCHANGED <<part, vars>>)

-----------------------------------------------------------------------------
(* What the modules promise, under the names they have there. *)

(* ChatService: whoever holds the mutex, every request is over at last,      *)
(* unless all workers wait in destroys and the holder for a worker.          *)
(* ModelRegistry: every request is answered, whatever loads and runs fail.   *)
EveryoneAnswered ==
  /\ part = "chat" => RequestsEnd
  /\ part = "models" => RequestsAnswered
=============================================================================
