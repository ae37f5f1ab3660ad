---------------------------- MODULE MC_LlmSession ----------------------------
(* What keeps a language model going, in three parts:                        *)
(*   generate    LlmSession: the calls on one session                        *)
(*   buffers     Sessions: a decode and a prefill session that share their   *)
(*               weights and states and stream different weights, and a      *)
(*               hybrid session of another model                             *)
(*   collective  CommHub: the ranks of a tensor-parallel world               *)
(* The parts share no state; one is chosen at the start.                     *)
EXTENDS LlmSession, CommHub, Sessions, TLC

CONSTANTS t1, t2, eos,   (* tokens *)
          p0, p1, p2,    (* processes *)
          MCParts

-----------------------------------------------------------------------------
(* Two tokens and an EOS, prompts of up to four tokens, stop strings of one  *)
(* and of two tokens.                                                        *)

MCToken == {t1, t2, eos}
MCPrompts == {<<>>, <<t1>>, <<t1, t2, t1>>}
MCStops == {<<t2>>, <<t1, t1>>}
MCMaxNew == {0, 1, 3}

(* Answers that go on past the end of the ring. *)
MCLongPrompts == {<<t1>>, <<t2, t1, t2, t1>>}
MCNoStops == {}
MCLongNew == {6}

Config(rows, chunk, sink, window, quantized, ring, fails) ==
  [max_seq_len |-> rows, prefill_len |-> chunk, sink |-> sink, window |-> window,
   quantized |-> quantized, ring_kernels |-> ring, max_failures |-> fails]

(* Prompts token by token; in padded chunks of two, with a failing run;      *)
(* streaming with an int8 cache.                                             *)
MCConfigs ==
  {Config(7, 0, 0, 0, FALSE, TRUE, 0), Config(8, 2, 0, 0, FALSE, TRUE, 1),
   Config(6, 2, 1, 4, TRUE, TRUE, 0)}

(* Streaming past the end of the ring, with the kernels of CUDA (where       *)
(* WindowIsRecent fails) and of the CPU (where StaysInside does).            *)
MCRing == {Config(5, 0, 1, 4, FALSE, TRUE, 0)}
MCRingOnCpu == {Config(5, 0, 1, 4, FALSE, FALSE, 0)}

-----------------------------------------------------------------------------
(* "w" is streamed by the prefill session only, "c" handed to an output.     *)
MCPlan ==
  [decode  |-> [target |-> "CUDA", cache |-> "A", states |-> <<"kv">>, onCuda |-> {"kv"}, weights |-> <<"w", "c">>,
                reads |-> {"w"}, staged |-> {}, given |-> {"c"}, data |-> [w |-> <<"W", 1>>, c |-> <<"C", 1>>]],
   prefill |-> [target |-> "CUDA", cache |-> "A", states |-> <<"kv">>, onCuda |-> {"kv"}, weights |-> <<"w", "c">>,
                reads |-> {"c"}, staged |-> {"w"}, given |-> {}, data |-> [w |-> <<"W", 1>>, c |-> <<"C", 1>>]],
   hybrid  |-> [target |-> "Hybrid", cache |-> "none", states |-> <<"kv">>, onCuda |-> {}, weights |-> <<"w", "x">>,
                reads |-> {"x"}, staged |-> {}, given |-> {}, data |-> [w |-> <<"V", 1>>, x |-> <<"X", 1>>]]]
MCSession == {"decode", "prefill", "hybrid"}

-----------------------------------------------------------------------------
(* A world of three ranks.  Well configured, each process has a rank of its  *)
(* own and all run the same program; otherwise two processes have one rank,  *)
(* or both are hubs, or a rank is out of range; or programs differ in an     *)
(* operation, a length or their number of calls.                             *)

MCProc == {p0, p1, p2}
Ranks(x, y, z) == p0 :> x @@ p1 :> y @@ p2 :> z
MCClaims == {Ranks(0, 1, 2), Ranks(0, 1, 1), Ranks(0, 0, 1), Ranks(0, 2, 3)}

Reduce(n) == [tag |-> "all_reduce", len |-> n]
Barrier == [tag |-> "barrier", len |-> 0]
Alike == [s \in MCProc |-> <<Barrier, Reduce(1), Reduce(2)>>]
MCPrograms ==
  {Alike} \cup
  {[s \in MCProc |-> IF s = p0 THEN <<Reduce(1), Barrier>> ELSE IF s = p1 THEN <<Reduce(1), x>> ELSE y] :
     x \in {Barrier, Reduce(1)}, y \in {<<Reduce(1), Barrier>>, <<Reduce(2), Barrier>>, <<Barrier, Reduce(1)>>, <<Reduce(1)>>}}

-----------------------------------------------------------------------------
VARIABLES part
mcvars == <<part, lvars, svars, vars>>

MCInit ==
  /\ part \in MCParts
  /\ LInit /\ SInit /\ Init
  /\ part # "generate" => config = CHOOSE c \in Configs : TRUE
  /\ part # "collective" => claim = Ranks(0, 1, 2) /\ program = Alike

Calls == part = "generate" /\ LNext /\ UNCHANGED <<part, svars, vars>>
Serving == part = "generate" /\ Work /\ UNCHANGED <<part, svars, vars>>
Sharing == part = "buffers" /\ SNext /\ UNCHANGED <<part, lvars, vars>>
Reducing == part = "collective" /\ Next /\ UNCHANGED <<part, lvars, svars>>

(* Each with the fairness its module states. *)
MCSpec ==
  /\ MCInit /\ [][Calls \/ Sharing \/ Reducing]_mcvars
  /\ WF_mcvars(Serving)
  /\ \A s \in MCSession : WF_mcvars(part = "buffers" /\ SStep(s) /\ UNCHANGED <<part, lvars, vars>>)
  /\ \A s \in MCProc : WF_mcvars(part = "collective" /\ Step(s) /\ UNCHANGED <<part, lvars, svars>>)

-----------------------------------------------------------------------------
(* What the modules promise, under the names they have there; a part that   *)
(* was not chosen stays in its initial state.                                *)

(* Sessions: the building threads never wait for each other's locks forever, *)
(* and a session that is kept runs as often as it is asked to.  CommHub:     *)
(* every process ends, or waits for a hub in accept; in a well configured    *)
(* world every program is done, unless someone is killed or gave up before   *)
(* the hub was bound.                                                        *)
NobodyWaitsForever ==
  /\ part = "buffers" => Settles /\ Runs
  /\ part = "collective" => EveryoneEnds
  /\ part = "collective" /\ claim = Ranks(0, 1, 2) /\ program = Alike => AllDone
=============================================================================
