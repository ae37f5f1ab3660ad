----------------------------- MODULE LlmSession -----------------------------
(***************************************************************************)
(* LlmSession (crates/llm/src/session.rs): one conversation's KV cache and *)
(* the loop that feeds a prompt, token by token or in padded chunks, and   *)
(* decodes until a limit, the EOS token or a stop string.                  *)
(*                                                                         *)
(* A cache row holds the token it was computed from and the position in    *)
(* the stream at which it was fed; the logits of a step depend on the rows *)
(* its last query attends to, so `view' records them, oldest rank first,   *)
(* each with the position its key is rotated by.  Which token the logits   *)
(* favour is open.  In streaming mode (Window # 0) the kernels map a rank  *)
(* to a slot of a sink followed by a ring (ring_phys_index in common.cuh). *)
(***************************************************************************)
EXTENDS Integers, Sequences, FiniteSets

CONSTANTS
  Token, Eos, Pad,   (* what the model may answer; Pad fills a chunk up   *)
  Prompts, MaxNew,   (* the prompts, encoded, and the values of max_new_tokens *)
  Stops,             (* the token sequences whose text holds a stop string *)
  Configs,           (* how a session may have been built: max_seq_len,     *)
                     (* prefill_len, sink, window, quantized (an int8 cache: *)
                     (* attention itself rotates the keys), ring_kernels (the *)
                     (* CUDA kernels; those of the CPU know no ring), and     *)
                     (* max_failures, a bound on failing runs               *)
  MaxCalls           (* a bound on generate calls                           *)

NoRow == <<-1, Pad>>
Tokens == Token \cup (UNION {{p[i] : i \in DOMAIN p} : p \in Prompts}) \cup {Pad}

(* The assertions of for_llama_streaming.  A stop string is not empty: every *)
(* text would hold it.                                                       *)
ASSUME LlmAssumption ==
  /\ \A c \in Configs :
       /\ c.max_seq_len \in Nat \ {0} /\ c.prefill_len \in Nat /\ c.max_failures \in Nat
       /\ c.sink \in Nat /\ c.window \in Nat
       /\ c.window > 0 => c.sink + c.window <= c.max_seq_len /\ c.prefill_len <= c.window
  /\ MaxNew \subseteq Nat /\ MaxCalls \in Nat
  /\ Prompts \subseteq Seq(Tokens) /\ Stops \subseteq Seq(Tokens) \ {<<>>}

VARIABLES
  config,    (* how the session was built                                 *)
  past_len,  (* how many tokens the session believes it has consumed      *)
  cache,     (* slot -> row                                               *)
  spilled,   (* a kernel wrote outside the cache                          *)
  phase,     (* "idle", "prompt", "decode"                                *)
  base,      (* past_len at the call                                      *)
  prompt, rest, (* the prompt, and what is left of it                     *)
  new_ids, limit, (* the answer so far, max_new_tokens                    *)
  result,    (* how the last call ended                                   *)
  fed,       (* the tokens fed at the positions below past_len            *)
  view,      (* what the last step attended to                            *)
  reach,     (* one more than the highest position written since a reset  *)
  calls, failures

lvars == <<config, past_len, cache, spilled, phase, base, prompt, rest, new_ids, limit,
          result, fed, view, reach, calls, failures>>
call == <<base, prompt, limit>> (* of the call under way *)

MaxSeqLen   == config.max_seq_len
PrefillLen  == config.prefill_len  (* 0: no prefill session *)
Sink        == config.sink
Window      == config.window       (* 0: not streaming      *)
Streaming   == Window > 0
MaxActive   == Sink + Window

MinOf(a, b) == IF a <= b THEN a ELSE b

LInit ==
  /\ config \in Configs
  /\ past_len = 0
  /\ cache = [s \in 0..(MaxSeqLen - 1) |-> NoRow]
  /\ spilled = FALSE /\ phase = "idle" /\ base = 0
  /\ prompt = <<>> /\ rest = <<>> /\ new_ids = <<>> /\ limit = 0 /\ result = "none"
  /\ fed = <<>> /\ view = <<>> /\ reach = 0 /\ calls = 0 /\ failures = 0

-----------------------------------------------------------------------------
(* The kernels' side *)

(* common.cuh ring_phys_index *)
ring_phys_index(rank, start) ==
  IF ~Streaming \/ ~config.ring_kernels \/ rank < Sink THEN rank
  ELSE Sink + ((start + rank - Sink) % Window)

(* Mutant of ring_start: the ring turns as soon as the sink is full. *)
ring_start_Early(pos) == IF pos <= Sink THEN 0 ELSE (pos - Sink) % Window
ring_start(pos) == IF pos < MaxActive THEN 0 ELSE (pos - Sink) % Window

(* kvcache_update: the row of position offset + t goes to the slot that    *)
(* rank offset + t has.                                                    *)
Stored(toks, start) ==
  LET slot(t) == ring_phys_index(past_len + t, start)
      last(s) == {t \in 0..(Len(toks) - 1) : slot(t) = s}
      row(s)  == LET t == CHOOSE t \in last(s) : \A u \in last(s) : u <= t
                 IN <<past_len + t, toks[t + 1]>>
  IN [s \in DOMAIN cache |-> IF last(s) = {} THEN cache[s] ELSE row(s)]

Slots(toks, start) == {ring_phys_index(past_len + t, start) : t \in 0..(Len(toks) - 1)}

(* streaming_kv_position: the rank of each slot *)
kv_position(pos) ==
  [slot \in 0..(MaxSeqLen - 1) |->
     LET age == (slot - Sink + Window - ring_start(pos)) % Window
         in_ring == MinOf(IF pos < Sink THEN 0 ELSE pos - Sink, Window)
     IN IF Sink <= slot /\ slot < MaxActive /\ age < in_ring THEN Sink + age ELSE slot]

(* The rows the last query attends to and the positions of their keys: as  *)
(* stored, by slot before attention, or, quantized, inside the attention.  *)
Attended(rows, count, pos) ==
  [r \in 1..count |->
     LET s == ring_phys_index(r - 1, ring_start(pos))
     IN IF s \notin DOMAIN rows THEN [row |-> NoRow, rotated |-> r - 1]
        ELSE
        [row |-> rows[s],
         rotated |-> IF ~Streaming THEN rows[s][1]
                     ELSE IF config.quantized THEN kv_position(pos)[r - 1]
                     ELSE kv_position(pos)[s]]]

(* One run of a graph on len rows, the first `real' of which are tokens.   *)
(* A single row attends to all of the cache that is active; of a chunk,    *)
(* row i attends up to rank (active - len) + i.                            *)
Run(toks, real, pos) ==
  LET len    == Len(toks)
      start  == IF Streaming THEN ring_start(pos) ELSE 0
      active == IF Streaming THEN MinOf(past_len + len, MaxActive) ELSE past_len + len
  IN /\ cache' = Stored(toks, start)
     /\ spilled' = (spilled \/ ~(Slots(toks, start) \subseteq DOMAIN cache))
     /\ view' = Attended(Stored(toks, start), active - len + real, pos)
     /\ reach' = IF past_len + len > reach THEN past_len + len ELSE reach

-----------------------------------------------------------------------------
(* generate_ids_with_callback *)

Fits(n) ==
  Streaming \/ past_len + (IF PrefillLen > 0 THEN ((n + PrefillLen - 1) \div PrefillLen) * PrefillLen
                           ELSE n) <= MaxSeqLen

Generate(p, n) ==
  /\ phase = "idle" /\ calls < MaxCalls
  /\ calls' = calls + 1
  /\ base' = past_len /\ prompt' = p /\ rest' = p /\ limit' = n /\ new_ids' = <<>>
  /\ IF p # <<>> /\ Fits(Len(p)) /\ n > 0
     THEN phase' = "prompt" /\ result' = "running"
     ELSE /\ phase' = "idle"
          /\ result' = IF p = <<>> \/ Fits(Len(p)) THEN "nothing" ELSE "too long"
  /\ view' = <<>>
  /\ UNCHANGED <<past_len, cache, spilled, fed, reach, failures>>

hit_stop(ids) ==
  \E stop \in Stops : \E i \in 0..(Len(ids) - Len(stop)) : SubSeq(ids, i + 1, i + Len(stop)) = stop

(* truncate_at_stop: how many tokens are popped *)
Popped(ids) ==
  IF hit_stop(ids)
  THEN CHOOSE k \in 1..Len(ids) :
         /\ ~hit_stop(SubSeq(ids, 1, Len(ids) - k))
         /\ \A j \in 1..(k - 1) : hit_stop(SubSeq(ids, 1, Len(ids) - j))
  ELSE 0

(* Mutant of Emit: past_len is not rewound. *)
Emit_NoRewind(t, past, tokens) ==
  LET ids  == Append(new_ids, t)
      stop == t = Eos \/ hit_stop(ids)
      k    == IF stop THEN Popped(ids) ELSE 0
  IN /\ new_ids' = SubSeq(ids, 1, Len(ids) - k)
     /\ past_len' = past /\ fed' = tokens
     /\ IF stop THEN phase' = "idle" /\ result' = "stopped"
        ELSE IF Len(ids) = limit THEN phase' = "idle" /\ result' = "limit"
        ELSE IF ~Streaming /\ MaxSeqLen < past + 1 THEN phase' = "idle" /\ result' = "full"
        ELSE phase' = "decode" /\ result' = result
(* Mutant of Emit: popped tokens do not count, and a stop does not end the loop. *)
Emit_GoesOn(t, past, tokens) ==
  /\ new_ids' = <<t>> /\ past_len' = past - 1 /\ fed' = SubSeq(tokens, 1, past - 1)
  /\ phase' = "decode" /\ result' = result
(* The token a step answers is pushed; past_len is what the step left it.  *)
Emit(t, past, tokens) ==
  LET ids  == Append(new_ids, t)
      stop == t = Eos \/ hit_stop(ids)
      k    == IF stop THEN Popped(ids) ELSE 0
      left == IF past < k THEN 0 ELSE past - k
  IN /\ new_ids' = SubSeq(ids, 1, Len(ids) - k)
     /\ past_len' = left
     /\ fed' = SubSeq(tokens, 1, left)
     /\ IF stop THEN phase' = "idle" /\ result' = "stopped"
        ELSE IF Len(ids) = limit THEN phase' = "idle" /\ result' = "limit"
        ELSE IF ~Streaming /\ MaxSeqLen < past + 1 THEN phase' = "idle" /\ result' = "full"
        ELSE phase' = "decode" /\ result' = result

(* A step that is not a prompt's last: its answer is dropped. *)
Feed(toks, more) ==
  /\ past_len' = past_len + Len(toks) /\ fed' = fed \o toks /\ rest' = more
  /\ UNCHANGED <<phase, new_ids, result>>

Padded(toks) == [i \in 1..PrefillLen |-> IF i <= Len(toks) THEN toks[i] ELSE Pad]

(* run_prefill_rec *)
PrefillChunk ==
  /\ phase = "prompt" /\ PrefillLen > 0
  /\ LET n == MinOf(Len(rest), PrefillLen)
         chunk == SubSeq(rest, 1, n)
         more == SubSeq(rest, n + 1, Len(rest))
     IN /\ Run(Padded(chunk), n, past_len + PrefillLen)
        /\ IF more # <<>> THEN Feed(chunk, more)
           ELSE rest' = more /\ \E t \in Token : Emit(t, past_len + n, fed \o chunk)
  /\ UNCHANGED <<call, calls, failures>>

(* decode_step on a token of the prompt *)
PromptToken ==
  /\ phase = "prompt" /\ PrefillLen = 0
  /\ Run(<<Head(rest)>>, 1, past_len)
  /\ IF Len(rest) > 1 THEN Feed(<<Head(rest)>>, Tail(rest))
     ELSE rest' = <<>> /\ \E t \in Token : Emit(t, past_len + 1, Append(fed, Head(rest)))
  /\ UNCHANGED <<call, calls, failures>>

(* decode_step on the newest token of the answer *)
DecodeToken ==
  /\ phase = "decode"
  /\ Run(<<new_ids[Len(new_ids)]>>, 1, past_len)
  /\ \E t \in Token : Emit(t, past_len + 1, Append(fed, new_ids[Len(new_ids)]))
  /\ UNCHANGED <<call, rest, calls, failures>>

(* session.run fails, before any kernel.  The prompt loop of a session     *)
(* without prefill only looks at what its last step returned.              *)
RunFails ==
  /\ phase # "idle" /\ failures < config.max_failures
  /\ failures' = failures + 1
  /\ IF phase = "prompt" /\ PrefillLen = 0 /\ Len(rest) > 1
     THEN rest' = Tail(rest) /\ UNCHANGED <<phase, result>>
     ELSE phase' = "idle" /\ result' = "error" /\ UNCHANGED rest
  /\ UNCHANGED <<past_len, cache, spilled, call, new_ids, fed, view, reach, calls>>

Reset ==
  /\ phase = "idle" /\ past_len > 0
  /\ past_len' = 0 /\ fed' = <<>> /\ reach' = 0 /\ view' = <<>> /\ result' = "none"
  /\ UNCHANGED <<cache, spilled, phase, call, rest, new_ids, calls, failures>>

Work == UNCHANGED config /\ (PrefillChunk \/ PromptToken \/ DecodeToken \/ RunFails)

LNext ==
  \/ UNCHANGED config /\ \E p \in Prompts, n \in MaxNew : Generate(p, n)
  \/ UNCHANGED config /\ Reset
  \/ Work

LSpec == LInit /\ [][LNext]_lvars

(* A call runs on the thread that made it. *)
LFairSpec == LSpec /\ WF_lvars(Work)

-----------------------------------------------------------------------------
(* Types. *)
LTypeOK ==
  /\ config \in Configs
  /\ past_len \in Nat /\ base \in Nat /\ limit \in Nat /\ reach \in Nat
  /\ \A s \in DOMAIN cache : cache[s] \in Int \X Tokens
  /\ phase \in {"idle", "prompt", "decode"}
  /\ new_ids \in Seq(Tokens) /\ fed \in Seq(Tokens) /\ rest \in Seq(Tokens)
  /\ result \in {"none", "running", "nothing", "too long", "stopped", "limit", "full", "error"}

(* The tokens a query should see of a history: all of it, or the sink and  *)
(* the newest of the rest, oldest first.                                   *)
Recent(n) ==
  IF ~Streaming \/ n <= MaxActive THEN [r \in 1..n |-> r]
  ELSE [r \in 1..MaxActive |-> IF r <= Sink THEN r ELSE n - MaxActive + r]

Sees(ranks) ==
  \A r \in DOMAIN view : /\ view[r].row = <<ranks[r] - 1, fed[ranks[r]]>>
                         /\ view[r].rotated = r - 1

(* Whatever calls came before, with their padding, their popped tokens and *)
(* their failures, and until a ring is full, a step attends to exactly the *)
(* tokens fed so far, in order, each rotated by its own position: nothing  *)
(* stale is seen and nothing is lost (decode_step, run_prefill_rec,        *)
(* streaming_kv_position).                                                 *)
AttendsHistory ==
  phase # "idle" /\ view # <<>> /\ (Streaming => reach <= MaxActive)
    => Len(view) = Len(fed) /\ Sees(Recent(Len(fed)))

(* past_len is where the history ends, and while no ring is full the cache *)
(* holds that history, also between calls (truncate_at_stop, reset).       *)
CacheIsHistory ==
  /\ past_len = Len(fed)
  /\ (Streaming => reach <= MaxActive) =>
       \A i \in 1..Len(fed) : cache[i - 1] = <<i - 1, fed[i]>>

(* The check that a prompt fits, the loop's own check and the ring keep    *)
(* every row a kernel writes inside the cache (generate_ids_with_callback).*)
StaysInside == ~spilled

(* A call that ends well leaves in the cache its prompt and its answer but *)
(* for one token, and a call that fails leaves a prefix of that            *)
(* (generate_ids_with_callback, truncate_at_stop).                         *)
OneTokenShort ==
  LET whole == prompt \o new_ids
      kept  == SubSeq(fed, base + 1, Len(fed))
  IN (phase = "idle" /\ result \in {"stopped", "limit", "full", "error"})
     => /\ Len(kept) <= Len(whole) /\ kept = SubSeq(whole, 1, Len(kept))
        /\ result # "error" => Len(kept) = Len(whole) - 1

(* session.rs 421-424: trailing tokens are popped "rewinding `past_len`    *)
(* accordingly so the KV cache state matches the truncated output": the    *)
(* prompt at least stays.                                                  *)
PromptStays ==
  phase = "idle" /\ result = "stopped" => Len(fed) >= base + Len(prompt)

(* session.rs 591-594: "Ring slots are walked in age order starting from   *)
(* `ring_start`": a full ring shows the sink and the newest tokens.        *)
WindowIsRecent ==
  phase = "decode" /\ reach > MaxActive /\ PrefillLen = 0 => Sees(Recent(Len(fed)))

(* No answer holds a stop string, or passes its limit, when a call is over *)
(* (hit_stop, truncate_at_stop).                                           *)
AnswerIsClean ==
  phase = "idle" /\ result \in {"stopped", "limit", "full"}
    => Len(new_ids) <= limit
       /\ \A stop \in Stops : \A i, j \in 1..Len(new_ids) : SubSeq(new_ids, i, j) # stop

(* Between and during calls the session and its cache agree, and an answer *)
(* is what the caller asked for (generate_ids_with_callback, past_len).    *)
CacheKept == LTypeOK /\ CacheIsHistory /\ StaysInside /\ OneTokenShort /\ AnswerIsClean

(* Every call ends, by its limit, a stop or a full cache. *)
CallsEnd == (phase # "idle") ~> (phase = "idle")
=============================================================================
