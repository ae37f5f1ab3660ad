---------------------------- MODULE ModelRegistry ----------------------------
(***************************************************************************)
(* The models the UI's server keeps loaded (crates/ui/src/models.rs,       *)
(* grpc_service.rs).  A map from a model and a target to a session, behind *)
(* a readers-writer lock that serves its waiters in order; run_inference   *)
(* keeps the writer's side for the whole run.                              *)
(***************************************************************************)
EXTENDS Integers, Sequences, FiniteSets

CONSTANTS
  Client, Wants,  (* [Client -> [kind : {"run", "warm", "read"}, model, target]] *)
  Model,
  MaxLoadFailures, MaxPanics  (* bounds on failing loads and on runs that panic   *)

Target == {"cpu", "cuda"}

ASSUME WantsAssumption ==
  Wants \in [Client -> [kind : {"run", "warm", "read"}, model : Model, target : Target]]

Places == Model \X Target

VARIABLES
  models,   (* the sessions in the map                                    *)
  queue,    (* the requests waiting for the lock                          *)
  holding,  (* those that have it: readers, or one writer                 *)
  uses,     (* the session a request has a reference to, in a set         *)
  unusable, (* sessions whose mutex is poisoned                           *)
  stage,    (* "new", "waiting", "holding", "running", "ok", "error"      *)
  loadFailures, runPanics

rvars == <<models, queue, holding, uses, unusable, stage, loadFailures, runPanics>>

RInit ==
  /\ models = {} /\ queue = <<>> /\ holding = {}
  /\ uses = [r \in Client |-> {}]
  /\ unusable = {}
  /\ stage = [r \in Client |-> "new"]
  /\ loadFailures = 0 /\ runPanics = 0

Wanted(r) == <<Wants[r].model, Wants[r].target>>
Other(s) == <<s[1], IF s[2] = "cpu" THEN "cuda" ELSE "cpu">>
Reads(r) == Wants[r].kind = "read"

Ask(r) ==
  /\ stage[r] = "new"
  /\ stage' = [stage EXCEPT ![r] = "waiting"]
  /\ queue' = Append(queue, r)
  /\ UNCHANGED <<models, holding, uses, unusable, loadFailures, runPanics>>

(* RwLock::write().await, read().await *)
Acquire(r) ==
  /\ stage[r] = "waiting" /\ Head(queue) = r
  /\ holding = {} \/ (Reads(r) /\ \A o \in holding : Reads(o))
  /\ queue' = Tail(queue) /\ holding' = holding \cup {r}
  /\ stage' = [stage EXCEPT ![r] = "holding"]
  /\ UNCHANGED <<models, uses, unusable, loadFailures, runPanics>>

(* The reply: the guard and the reference go out of scope. *)
Reply(r, verdict) ==
  /\ stage' = [stage EXCEPT ![r] = verdict]
  /\ holding' = holding \ {r}
  /\ uses' = [uses EXCEPT ![r] = {}]

(* What a loaded model leaves to do: warm_up replies, a run begins. *)
Loaded(r) ==
  IF Wants[r].kind = "warm" THEN Reply(r, "ok")
  ELSE /\ stage' = [stage EXCEPT ![r] = "running"]
       /\ uses' = [uses EXCEPT ![r] = {Wanted(r)}]
       /\ UNCHANGED holding

(* ModelRegistry::warm_up: the other backend's session goes before the new *)
(* one is built, whether or not that succeeds.                             *)
(* Mutant of Without: only a model that is loaded there is looked for here. *)
Without_Keeps(r) == models
Without(r) == models \ {Other(Wanted(r))}
warm_up(r) ==
  /\ stage[r] = "holding" /\ ~Reads(r)
  /\ \/ /\ Wanted(r) \in models
        /\ Loaded(r) /\ UNCHANGED <<models, loadFailures>>
     \/ /\ Wanted(r) \notin models
        /\ models' = Without(r) \cup {Wanted(r)}
        /\ Loaded(r) /\ UNCHANGED loadFailures
     \/ /\ Wanted(r) \notin models /\ loadFailures < MaxLoadFailures
        /\ loadFailures' = loadFailures + 1
        /\ models' = Without(r)
        /\ Reply(r, "error")
  /\ unusable' = unusable \ (Places \ models')
  /\ UNCHANGED <<queue, runPanics>>

(* run_inference: the session's mutex, and the run *)
Run(r) ==
  /\ stage[r] = "running"
  /\ Reply(r, IF Wanted(r) \in unusable THEN "error" ELSE "ok")
  /\ UNCHANGED <<models, queue, unusable, loadFailures, runPanics>>

(* A run panics: its mutex is poisoned, the lock of the registry is not. *)
RunPanics(r) ==
  /\ stage[r] = "running" /\ Wanted(r) \notin unusable /\ runPanics < MaxPanics
  /\ runPanics' = runPanics + 1
  /\ unusable' = unusable \cup {Wanted(r)}
  /\ Reply(r, "error")
  /\ UNCHANGED <<models, queue, loadFailures>>

get_initializer(r) ==
  /\ stage[r] = "holding" /\ Reads(r)
  /\ Reply(r, "ok")
  /\ UNCHANGED <<models, queue, unusable, loadFailures, runPanics>>

Serves(r) == Ask(r) \/ Acquire(r) \/ warm_up(r) \/ Run(r) \/ RunPanics(r) \/ get_initializer(r)
RNext == \E r \in Client : Serves(r)

RSpec == RInit /\ [][RNext]_rvars

(* The server's tasks are polled. *)
RFairSpec == RSpec /\ \A r \in Client : WF_rvars(Serves(r))

-----------------------------------------------------------------------------
InUse == UNION {uses[r] : r \in Client}

(* models.rs 127-128: a model's weights are never resident on both         *)
(* backends, neither by the map nor by a run that still has a session      *)
(* that was evicted (warm_up, run_inference).                              *)
OneCopy == \A s \in models \cup InUse : Other(s) \notin models \cup InUse

(* A session that runs is in the map, and runs for one request only        *)
(* (Arc<Mutex<Session>>).                                                  *)
RunsAreExclusive ==
  \A r \in Client : stage[r] = "running" =>
    Wanted(r) \in models /\ \A o \in Client \ {r} : stage[o] # "running"

(* The registry's promise: one copy of a model's weights, one run at a time. *)
BackendsExclusive == OneCopy /\ RunsAreExclusive

(* Every request is answered, whatever loads and runs fail (write().await). *)
RequestsAnswered == \A r \in Client : <>(stage[r] \in {"ok", "error"})
=============================================================================
