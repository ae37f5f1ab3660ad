------------------------------- MODULE Sessions -------------------------------
(***************************************************************************)
(* Sessions that share device buffers by name (src/session.rs): the caches *)
(* of weights and of session states of PersistentBuffers, the building of  *)
(* CUDA and hybrid sessions under the process-wide CUDA_LOCK, the weights  *)
(* the prefetch scheduler keeps in host memory, the raw pointers that      *)
(* model_init captures, runs, and the end of a session.                    *)
(*                                                                         *)
(* Each session is built and used by a thread of its own; those that name  *)
(* the same cache are the prefill and the decode session of one model.     *)
(* What a session does with its buffers is its plan: the weights its       *)
(* kernels read in place, those it copies into a chunk, and those it only  *)
(* hands to an output.                                                     *)
(***************************************************************************)
EXTENDS Integers, Sequences, FiniteSets

CONSTANTS
  Session,   (* the sessions *)
  Plan,      (* Plan[s]: target, cache, states, onCuda, weights, reads, staged, given and data *)
  NoCache,   (* a SessionConfig without PersistentBuffers *)
  MaxRuns    (* runs of a session *)

Caches == {Plan[s].cache : s \in Session} \ {NoCache}

Free == "free"
Zero == <<"zero", 0>>
InHost == <<"host">>
Kinds == {"states", "weights"}
(* the stage while a closure runs *)
Filling == [states |-> "filling states", weights |-> "filling weights"]
Cuda == <<"cuda", "all">>  (* CUDA_LOCK *)
Locks == {Cuda} \cup (Kinds \X Caches)

VARIABLES
  stage,      (* what the thread of a session does *)
  lock,       (* the session that holds a lock, or Free *)
  persistent, (* the buffers a PersistentBuffers holds, by name *)
  mem,        (* the allocated buffers: where they are and what they hold *)
  got,        (* the buffers a session holds (Arc), by kind, in the order of its names *)
  ptr,        (* the weights' pointers model_init captured *)
  runs,       (* runs begun *)
  told,       (* the session state a run found when it began *)
  last        (* what a run last wrote to a session state, by cache (history) *)

svars == <<stage, lock, persistent, mem, got, ptr, runs, told, last>>

Nothing == [k \in Kinds |-> <<>>]
NameAt(s, k, i) == Plan[s][k][i]
NamesOf(s, k) == {NameAt(s, k, i) : i \in DOMAIN Plan[s][k]}
NextName(s, k) == NameAt(s, k, Len(got[s][k]) + 1)
AllGot(s, k) == Len(got[s][k]) = Len(Plan[s][k])
Shares(s) == Plan[s].cache # NoCache
LockOf(s, k) == <<k, Plan[s].cache>>

(* The sessions that share their states with s, or s alone.                *)
Memory(s) == IF Shares(s) THEN Plan[s].cache ELSE s

(* What a plan may be.  The values of a graph have distinct names; a weight *)
(* the prefetch scheduler streams is not also read in place; and sessions  *)
(* that share a cache are compiled from graphs of one model for one target, *)
(* where a name means the same.                                            *)
ASSUME SessionsAssumption ==
  /\ MaxRuns \in Nat /\ Free \notin Session /\ Session \cap Caches = {}
  /\ \A s \in Session :
       /\ Plan[s].target \in {"CUDA", "Hybrid"}
       /\ \A k \in Kinds :
            /\ Plan[s][k] \in Seq(NamesOf(s, k))
            /\ \A i, j \in DOMAIN Plan[s][k] : NameAt(s, k, i) = NameAt(s, k, j) => i = j
       /\ Plan[s].reads \cup Plan[s].staged \cup Plan[s].given \subseteq NamesOf(s, "weights")
       /\ Plan[s].target = "CUDA" => Plan[s].staged \cap (Plan[s].reads \cup Plan[s].given) = {}
  /\ \A r, s \in Session : Shares(s) /\ Plan[r].cache = Plan[s].cache =>
       /\ \A n \in NamesOf(r, "states") \cap NamesOf(s, "states") :
            n \in Plan[r].onCuda <=> n \in Plan[s].onCuda
       /\ \A n \in NamesOf(r, "weights") \cap NamesOf(s, "weights") : Plan[r].data[n] = Plan[s].data[n]

-----------------------------------------------------------------------------
Put(f, x, v) == [y \in DOMAIN f \cup {x} |-> IF y = x THEN v ELSE f[y]]

(* Buffers are freed when no session and no cache holds them. *)
HeldBy(g, c, opened) ==
  (UNION {UNION {{g[s][k][i] : i \in DOMAIN g[s][k]} : k \in Kinds} : s \in Session})
  \cup (UNION {{c[l][n] : n \in DOMAIN c[l]} : l \in Kinds \X Caches}) \cup opened
Kept(m, g, c, opened) == [b \in DOMAIN m \cap HeldBy(g, c, opened) |-> m[b]]

Buffer(s, k, n) == <<s, k, n>>
(* Buffers allocated in a closure that has not returned. *)
Opened ==
  UNION {{Buffer(s, k, NextName(s, k)) : k \in {j \in Kinds : stage[s] = Filling[j]}} : s \in Session}

(* build_session_state_buffers: VRAM if a CUDA kernel touches the state. *)
StateKind(s, n) == IF n \in Plan[s].onCuda THEN "Cuda" ELSE "Host"

(* host_resident_initializer_indices: the weights the plan copies into a   *)
(* chunk. A weight handed to an output is not one of them.                 *)
(* Mutant of HostResident: any weight a transfer reads. *)
HostResident_Any(s) == IF Plan[s].target = "CUDA" THEN Plan[s].staged \cup Plan[s].given ELSE {}
HostResident(s) == IF Plan[s].target = "CUDA" THEN Plan[s].staged ELSE {}
(* A hybrid session uploads what CUDA kernels bind or a transfer moves. *)
Placeholder(s, n) ==
  \/ n \in HostResident(s)
  \/ Plan[s].target = "Hybrid" /\ n \notin Plan[s].reads \cup Plan[s].staged \cup Plan[s].given

-----------------------------------------------------------------------------
SInit ==
  /\ stage = [s \in Session |-> "states"]
  /\ lock = [l \in Locks |-> Free]
  /\ persistent = [l \in Kinds \X Caches |-> <<>>]
  /\ mem = <<>>
  /\ got = [s \in Session |-> Nothing]
  /\ ptr = [s \in Session |-> <<>>]
  /\ runs = [s \in Session |-> 0]
  /\ told = [s \in Session |-> <<>>]
  /\ last = [m \in {Memory(s) : s \in Session} |-> <<>>]

LocksFree(s, k) == Shares(s) => lock[LockOf(s, k)] = Free
With(g, s, k, b) == [g EXCEPT ![s][k] = Append(@, b)]

(* get_or_insert_with finds the name *)
Found(s, k, n) == Shares(s) /\ n \in DOMAIN persistent[LockOf(s, k)]

Hit(s, k) ==
  /\ stage[s] = k /\ ~ AllGot(s, k) /\ LocksFree(s, k)
  /\ ~ (k = "weights" /\ Placeholder(s, NextName(s, k)))
  /\ Found(s, k, NextName(s, k))
  /\ got' = With(got, s, k, persistent[LockOf(s, k)][NextName(s, k)])
  /\ UNCHANGED <<stage, lock, persistent, mem, ptr, runs, told, last>>

(* ... or calls the closure, the lock held: it allocates a zeroed buffer. *)
HeldInClosure(s, k) == IF Shares(s) THEN [lock EXCEPT ![LockOf(s, k)] = s] ELSE lock
Allocate(s, k) ==
  /\ stage[s] = k /\ ~ AllGot(s, k) /\ LocksFree(s, k)
  /\ ~ (k = "weights" /\ Placeholder(s, NextName(s, k)))
  /\ ~ Found(s, k, NextName(s, k))
  /\ lock' = HeldInClosure(s, k)
  /\ mem' = Put(mem, Buffer(s, k, NextName(s, k)),
                [kind |-> IF k = "states" THEN StateKind(s, NextName(s, k)) ELSE "Cuda", data |-> Zero])
  /\ stage' = [stage EXCEPT ![s] = Filling[k]]
  /\ UNCHANGED <<persistent, got, ptr, runs, told, last>>

Released(s, k) == IF Shares(s) /\ lock[LockOf(s, k)] = s THEN [lock EXCEPT ![LockOf(s, k)] = Free] ELSE lock

(* The closure copies a weight's contents (send_initializer_to_device), and *)
(* the buffer goes into the cache.                                         *)
Fill(s, k) ==
  LET n == NextName(s, k)
      b == Buffer(s, k, n)
  IN /\ stage[s] = Filling[k]
     /\ mem' = IF k = "weights" THEN [mem EXCEPT ![b].data = Plan[s].data[n]] ELSE mem
     /\ persistent' = IF Shares(s) THEN [persistent EXCEPT ![LockOf(s, k)] = Put(@, n, b)] ELSE persistent
     /\ got' = With(got, s, k, b)
     /\ lock' = Released(s, k)
     /\ stage' = [stage EXCEPT ![s] = k]
     /\ UNCHANGED <<ptr, runs, told, last>>

(* A weight that the session's kernels do not read in VRAM: one byte, so    *)
(* that model_init's array has no hole.                                    *)
Skip(s) ==
  LET b == Buffer(s, "weights", NextName(s, "weights"))
  IN /\ stage[s] = "weights" /\ ~ AllGot(s, "weights") /\ Placeholder(s, NextName(s, "weights"))
     /\ mem' = Put(mem, b, [kind |-> "Placeholder", data |-> Zero])
     /\ got' = With(got, s, "weights", b)
     /\ UNCHANGED <<stage, lock, persistent, ptr, runs, told, last>>

(* SessionCUDA::new and build_cuda_state: after nvcc, under CUDA_LOCK. *)
TakeCudaLock(s) ==
  /\ stage[s] = "states" /\ AllGot(s, "states")
  /\ lock[Cuda] = Free
  /\ lock' = [lock EXCEPT ![Cuda] = s]
  /\ stage' = [stage EXCEPT ![s] = "weights"]
  /\ UNCHANGED <<persistent, mem, got, ptr, runs, told, last>>

(* init_state: the host pointer in place of a host-resident weight's. *)
Pointers(s) ==
  [n \in NamesOf(s, "weights") |->
     IF n \in HostResident(s) THEN InHost
     ELSE got[s]["weights"][CHOOSE i \in DOMAIN Plan[s].weights : NameAt(s, "weights", i) = n]]

(* The library is loaded. A CUDA session calls model_init in its first run, *)
(* a hybrid session at once.                                               *)
Load(s) ==
  /\ stage[s] = "weights" /\ AllGot(s, "weights") /\ Plan[s].target = "CUDA"
  /\ lock' = [lock EXCEPT ![Cuda] = Free]
  /\ stage' = [stage EXCEPT ![s] = "built"]
  /\ UNCHANGED <<persistent, mem, got, ptr, runs, told, last>>
LoadHybrid(s) ==
  /\ stage[s] = "weights" /\ AllGot(s, "weights") /\ Plan[s].target = "Hybrid"
  /\ ptr' = [ptr EXCEPT ![s] = Pointers(s)]
  /\ lock' = [lock EXCEPT ![Cuda] = Free]
  /\ stage' = [stage EXCEPT ![s] = "built"]
  /\ UNCHANGED <<persistent, mem, got, runs, told, last>>

(* An allocation, a copy or the library's loading fails: the locks' guards *)
(* and the buffers collected so far are dropped.                           *)
(* Mutant of Unlocked: the lock of the CUDA runtime is kept. *)
Unlocked_Not(s) == [l \in Locks |-> IF lock[l] = s /\ l # Cuda THEN Free ELSE lock[l]]
Unlocked(s) == [l \in Locks |-> IF lock[l] = s THEN Free ELSE lock[l]]
Fail(s) ==
  /\ stage[s] \in {"weights"} \cup {Filling[k] : k \in Kinds}
  /\ got' = [got EXCEPT ![s] = Nothing]
  /\ mem' = Kept(mem, got', persistent, {b \in Opened : b[1] # s})
  /\ lock' = Unlocked(s)
  /\ stage' = [stage EXCEPT ![s] = "failed"]
  /\ UNCHANGED <<persistent, ptr, runs, told, last>>

(* The constructor of a model's sessions drops its caches when it returns. *)
DropCaches(c) ==
  /\ \A s \in Session : Plan[s].cache = c => stage[s] \in {"built", "running", "dropped", "failed"}
  /\ \E k \in Kinds : persistent[<<k, c>>] # <<>>
  /\ persistent' = [l \in Kinds \X Caches |-> IF l[2] = c THEN <<>> ELSE persistent[l]]
  /\ mem' = Kept(mem, got, persistent', Opened)
  /\ UNCHANGED <<stage, lock, got, ptr, runs, told, last>>

-----------------------------------------------------------------------------
(* Runs. A CUDA session's run takes CUDA_LOCK, a hybrid session's does not. *)

StateBuffer(s, i) == got[s]["states"][i]
(* resolve: a CPU kernel refuses a session state in VRAM. *)
Refused(s) ==
  /\ Plan[s].target = "Hybrid"
  /\ \E i \in DOMAIN Plan[s].states : /\ NameAt(s, "states", i) \notin Plan[s].onCuda
                                      /\ mem[StateBuffer(s, i)].kind = "Cuda"
(* The two sessions of a model take turns: their owner runs them through   *)
(* &mut self.                                                              *)
MyTurn(s) == \A r \in Session \ {s} : Memory(r) = Memory(s) => stage[r] # "running"

Begin(s) ==
  /\ stage[s] = "built" /\ runs[s] < MaxRuns /\ MyTurn(s)
  /\ Plan[s].target = "CUDA" => lock[Cuda] = Free
  /\ lock' = IF Plan[s].target = "CUDA" THEN [lock EXCEPT ![Cuda] = s] ELSE lock
  /\ ptr' = IF ptr[s] = <<>> THEN [ptr EXCEPT ![s] = Pointers(s)] ELSE ptr
  /\ runs' = [runs EXCEPT ![s] = @ + 1]
  /\ IF Refused(s) THEN UNCHANGED <<stage, told>>
     ELSE /\ stage' = [stage EXCEPT ![s] = "running"]
          /\ told' = [told EXCEPT ![s] = [i \in DOMAIN Plan[s].states |-> mem[StateBuffer(s, i)].data]]
  /\ UNCHANGED <<persistent, mem, got, last>>

(* The run writes its session states, waits for the device and returns. *)
End(s) ==
  /\ stage[s] = "running"
  /\ mem' = [b \in DOMAIN mem |-> IF \E i \in DOMAIN Plan[s].states : StateBuffer(s, i) = b
                                  THEN [mem[b] EXCEPT !.data = <<s, runs[s]>>] ELSE mem[b]]
  /\ last' = [last EXCEPT ![Memory(s)] =
                [n \in NamesOf(s, "states") \cup DOMAIN @ |->
                   IF n \in NamesOf(s, "states") THEN <<s, runs[s]>> ELSE @[n]]]
  /\ lock' = IF Plan[s].target = "CUDA" THEN [lock EXCEPT ![Cuda] = Free] ELSE lock
  /\ told' = [told EXCEPT ![s] = <<>>]
  /\ stage' = [stage EXCEPT ![s] = "built"]
  /\ UNCHANGED <<persistent, got, ptr, runs>>

(* model_destroy frees the arenas of the session, and dropping it the      *)
(* buffers no other session holds.                                         *)
Survivors(s, g) == Kept(mem, g, persistent, Opened)
Drop(s) ==
  /\ stage[s] = "built"
  /\ got' = [got EXCEPT ![s] = Nothing]
  /\ ptr' = [ptr EXCEPT ![s] = <<>>]
  /\ mem' = Survivors(s, got')
  /\ stage' = [stage EXCEPT ![s] = "dropped"]
  /\ UNCHANGED <<lock, persistent, runs, told, last>>

SStep(s) ==
  \/ \E k \in Kinds : Hit(s, k) \/ Allocate(s, k) \/ Fill(s, k)
  \/ Skip(s) \/ TakeCudaLock(s) \/ Load(s) \/ LoadHybrid(s) \/ Begin(s) \/ End(s)
SNext == (\E s \in Session : SStep(s) \/ Fail(s) \/ Drop(s)) \/ (\E c \in Caches : DropCaches(c))

(* A thread goes on unless it waits for a lock; runs are finite, so a lock *)
(* that is wanted is free for good in the end or is taken over.            *)
SSpec == SInit /\ [][SNext]_svars /\ \A s \in Session : WF_svars(SStep(s))

-----------------------------------------------------------------------------
STypeOK ==
  /\ stage \in [Session -> {"states", "weights", "built", "running", "dropped", "failed"} \cup {Filling[k] : k \in Kinds}]
  /\ lock \in [Locks -> Session \cup {Free}]
  /\ \A b \in DOMAIN mem : mem[b].kind \in {"Cuda", "Host", "Placeholder"}
  /\ \A s \in Session : runs[s] \in 0..MaxRuns /\ \A k \in Kinds : Len(got[s][k]) <= Len(Plan[s][k])

(* A run finds every pointer good: a weight its kernels read, or hand to an *)
(* output, is in VRAM, allocated, and has the contents of the session's    *)
(* own graph; one to be copied into a chunk is in host memory; and every   *)
(* session state is allocated where its kernels run.                       *)
PointersGood ==
  \A s \in Session : stage[s] = "running" =>
    /\ \A n \in (Plan[s].reads \cup (IF Plan[s].target = "CUDA" THEN Plan[s].given ELSE {})) :
         /\ ptr[s][n] \in DOMAIN mem /\ mem[ptr[s][n]] = [kind |-> "Cuda", data |-> Plan[s].data[n]]
    /\ Plan[s].target = "CUDA" => \A n \in Plan[s].staged : ptr[s][n] = InHost
    /\ \A i \in DOMAIN Plan[s].states : /\ StateBuffer(s, i) \in DOMAIN mem
                                        /\ mem[StateBuffer(s, i)].kind = StateKind(s, NameAt(s, "states", i))

(* "Sharing one buffer per name ... means the memory one writes is the     *)
(* memory the other reads": a run finds in a session state what the last   *)
(* run of any of the model's sessions wrote.                               *)
StatesContinue ==
  \A s \in Session : stage[s] = "running" =>
    \A i \in DOMAIN Plan[s].states :
      LET n == NameAt(s, "states", i)
      IN told[s][i] = IF n \in DOMAIN last[Memory(s)] THEN last[Memory(s)][n] ELSE Zero

(* The sessions of one model never have two copies of a weight or a state  *)
(* in memory, even while they are being built at the same time.            *)
OneCopy ==
  \A b, d \in DOMAIN mem :
    (Shares(b[1]) /\ Plan[b[1]].cache = Plan[d[1]].cache /\ b[2] = d[2] /\ b[3] = d[3]
       /\ "Placeholder" \notin {mem[b].kind, mem[d].kind}) => b = d

(* A run finds every pointer that model_init captured good, and in a       *)
(* session state what the last run of any of the model's sessions wrote    *)
(* there, for there is one copy of a weight or a state for all of them     *)
(* (get_or_insert_with, SessionCUDA::new, init_state, run).                *)
BuffersGood == STypeOK /\ PointersGood /\ StatesContinue /\ OneCopy

(* The threads never wait for each other's locks for ever. *)
Settles == \A s \in Session : <>(stage[s] \in {"built", "running", "dropped", "failed"})
(* A session that is kept runs as often as it is asked to. *)
Runs == \A s \in Session : [](stage[s] = "built" => <>(runs[s] = MaxRuns \/ stage[s] = "dropped"))
==============================================================================
