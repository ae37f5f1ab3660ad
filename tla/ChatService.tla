----------------------------- MODULE ChatService -----------------------------
(***************************************************************************)
(* The chat service of the UI (crates/ui/src/llm.rs, grpc_service.rs).     *)
(* create and chat run on blocking threads of their own.  The sessions are *)
(* a map behind one mutex, held by a chat for its whole turn; the turn     *)
(* sends its text in chunks, through a bounded channel, to a client who    *)
(* reads it, or hangs up.                                                  *)
(*                                                                         *)
(* The executor's workers bring a stream to its client, and run destroy,   *)
(* which waits for the mutex where it is: a worker is lost meanwhile. When *)
(* the others got their blocking threads makes no difference, as these     *)
(* wait for nothing but the mutex.                                         *)
(*                                                                         *)
(* A conversation is rendered as a sequence: a user message and its end,   *)
(* the tokens of an answer and, after it, the end-of-turn text.  A token has   *)
(* one character, EOS none.  LlmSession is used by what it promises        *)
(* (LlmSession.tla, OneTokenShort): a call that ends leaves all but the    *)
(* newest token of its answer in the cache.                                *)
(***************************************************************************)
EXTENDS Integers, Sequences, FiniteSets

CONSTANTS
  Request,      (* the requests of a behaviour                            *)
  Scenarios,    (* what may come about: asks, [Request -> [kind, id, max]] *)
                (* with a kind of "create", "chat", "destroy" or "none"   *)
                (* for no request; max_seq_len; the workers of the        *)
                (* executor; and bounds on what goes wrong, max_failures, *)
                (* max_panics and max_expiries                            *)
  Id,           (* session ids                                            *)
  Plain, Eos, EndOfAsk, EndOfTurn, (* tokens with text, EOS, and what a template
                   puts after a message and after an answer               *)
  Stop,         (* a stop string spelled in plain tokens                  *)
  Capacity,     (* of a channel: 64 in the code                           *)
  NoOne, NoSession

Tokens == Plain \cup {Eos, EndOfAsk, EndOfTurn} \cup Request
Message == [role : {"user", "assistant"}, text : Seq(Tokens)]
ChatSession == [history : Seq(Message), cached : Seq(Tokens), ended : BOOLEAN, expired : BOOLEAN, whole : BOOLEAN]

(* chat_stream replaces a max_tokens of 0. *)
ASSUME ChatAssumption ==
  /\ Capacity \in Nat \ {0} /\ IsFiniteSet(Request)
  /\ \A s \in Scenarios :
       /\ {s.max_seq_len, s.max_failures, s.max_panics, s.max_expiries} \subseteq Nat
       /\ s.workers \in Nat \ {0}
       /\ \A r \in Request :
            /\ s.asks[r].kind \in {"create", "chat", "destroy", "none"}
            /\ s.asks[r].id \in Id /\ s.asks[r].max \in Nat
            /\ s.asks[r].kind = "chat" => s.asks[r].max > 0
  /\ NoOne \notin Request /\ NoSession \notin ChatSession
  /\ Eos \notin Plain /\ (Plain \cup {Eos, EndOfAsk, EndOfTurn}) \cap Request = {}
  /\ Stop \in Seq(Plain) \ {<<>>}

VARIABLES
  scenario,
  sessions, (* [Id -> NoSession or [history, cached, ended, expired, whole]]   *)
  holder,   (* the request that holds the mutex                                *)
  poisoned, (* a thread panicked while it held the mutex                       *)
  pc,       (* "new", "evicted", "turn", "closing", "failed", "over"           *)
  turn,     (* the holder's turn: [delta, ids, emitted]                        *)
  pending,  (* the events a thread is about to send                            *)
  channel, reading, (* the channel to each client, and whether it still reads  *)
  got,      (* the events each client has read                                 *)
  polled,   (* the destroys a worker has taken up                              *)
  failures, panics, expiries

vars == <<scenario, sessions, holder, poisoned, pc, turn, pending, channel, reading, got,
          polled, failures, panics, expiries>>
wires == <<pending, channel, reading, got>>
troubles == <<failures, panics, expiries>>

Asks == scenario.asks
MaxSeqLen == scenario.max_seq_len

NoTurn == [delta |-> <<>>, ids |-> <<>>, emitted |-> 0]

Init ==
  /\ scenario \in Scenarios
  /\ sessions = [i \in Id |-> NoSession]
  /\ holder = NoOne /\ poisoned = FALSE
  /\ pc = [r \in Request |-> IF Asks[r].kind = "none" THEN "over" ELSE "new"] /\ turn = NoTurn
  /\ pending = [r \in Request |-> <<>>] /\ channel = [r \in Request |-> <<>>]
  /\ reading = [r \in Request |-> TRUE] /\ got = [r \in Request |-> <<>>]
  /\ polled = {} /\ failures = 0 /\ panics = 0 /\ expiries = 0

id(r) == Asks[r].id
MinOf(a, b) == IF a <= b THEN a ELSE b
Free == holder = NoOne

(* The destroys in front of the mutex have a worker each; one is left. *)
Blocked == {r \in polled : pc[r] = "new"}
Idle == Cardinality(Blocked) < scenario.workers

Flat(seqs) ==
  LET F[n \in 0..Len(seqs)] == IF n = 0 THEN <<>> ELSE F[n - 1] \o seqs[n] IN F[Len(seqs)]

Those(seq, S) == Flat([n \in DOMAIN seq |-> IF seq[n] \in S THEN <<seq[n]>> ELSE <<>>])

(* ChatSession::render_full *)
User(r) == [role |-> "user", text |-> <<r, EndOfAsk>>]
Answer(ids) == [role |-> "assistant", text |-> ids]
render_full(history) ==
  Flat([n \in DOMAIN history |->
          IF history[n].role = "user" THEN history[n].text ELSE Append(history[n].text, EndOfTurn)])

(* lock().unwrap() on a poisoned mutex panics: the client's stream just ends. *)
Panics(r) == pc' = [pc EXCEPT ![r] = "over"] /\ UNCHANGED <<sessions, holder, poisoned, turn, wires, troubles>>

-----------------------------------------------------------------------------
(* ChatRegistry *)

(* create *)
Create(r) ==
  /\ Asks[r].kind = "create" /\ pc[r] = "new" /\ Free
  /\ IF poisoned THEN Panics(r)
     ELSE /\ sessions' = [sessions EXCEPT ![id(r)] =
               [history |-> <<>>, cached |-> <<>>, ended |-> TRUE, expired |-> FALSE, whole |-> TRUE]]
          /\ pc' = [pc EXCEPT ![r] = "over"]
          /\ UNCHANGED <<holder, poisoned, turn, wires, troubles>>

(* A worker takes up a destroy_chat_session; there is no spawn_blocking.    *)
Poll(r) ==
  /\ Asks[r].kind = "destroy" /\ pc[r] = "new" /\ r \notin polled /\ Idle
  /\ polled' = polled \cup {r}
  /\ UNCHANGED <<sessions, holder, poisoned, pc, turn, wires, troubles>>

(* destroy, on the worker *)
Destroy(r) ==
  /\ Asks[r].kind = "destroy" /\ pc[r] = "new" /\ r \in polled /\ Free
  /\ IF poisoned THEN Panics(r)
     ELSE /\ sessions' = [sessions EXCEPT ![id(r)] = NoSession]
          /\ pc' = [pc EXCEPT ![r] = "over"]
          /\ UNCHANGED <<holder, poisoned, turn, wires, troubles>>

(* evict_idle, with the mutex for itself *)
evict_idle(r) ==
  /\ Asks[r].kind = "chat" /\ pc[r] = "new" /\ Free
  /\ IF poisoned THEN Panics(r)
     ELSE /\ sessions' = [i \in Id |-> IF sessions[i] # NoSession /\ sessions[i].expired
                                      THEN NoSession ELSE sessions[i]]
          /\ pc' = [pc EXCEPT ![r] = "evicted"]
          /\ UNCHANGED <<holder, poisoned, turn, wires, troubles>>

(* A turn fails: the mutex is released, then the error is sent. *)
Abort(r, s) ==
  /\ sessions' = [sessions EXCEPT ![id(r)] = s]
  /\ holder' = NoOne /\ turn' = NoTurn
  /\ pc' = [pc EXCEPT ![r] = "failed"]
  /\ pending' = [pending EXCEPT ![r] = <<[kind |-> "error"]>>]

(* The start of chat_stream's turn: what the cache lacks of the rendered   *)
(* conversation is fed; llm.reset() empties the cache.                     *)
Delta(s, prev, asked) ==
  IF s.history = <<>> \/ ~s.ended \/ prev = <<>>
  THEN [base |-> <<>>, delta |-> asked]
  ELSE [base |-> s.cached, delta |-> SubSeq(asked, Len(prev) + 1, Len(asked))]

Begin(r) ==
  /\ pc[r] = "evicted" /\ Free
  /\ IF poisoned THEN Panics(r)
     ELSE IF sessions[id(r)] = NoSession
     THEN /\ pc' = [pc EXCEPT ![r] = "failed"]
          /\ pending' = [pending EXCEPT ![r] = <<[kind |-> "error"]>>]
          /\ UNCHANGED <<sessions, holder, poisoned, turn, channel, reading, got, troubles>>
     ELSE LET s == sessions[id(r)]
              history == Append(s.history, User(r))
              d == Delta(s, render_full(s.history), render_full(history))
              asked == [s EXCEPT !.history = history, !.cached = d.base]
          IN \/ /\ Len(d.base) + Len(d.delta) <= MaxSeqLen
                /\ sessions' = [sessions EXCEPT ![id(r)] = asked]
                /\ holder' = r
                /\ turn' = [delta |-> d.delta, ids |-> <<>>, emitted |-> 0]
                /\ pc' = [pc EXCEPT ![r] = "turn"]
                /\ UNCHANGED <<poisoned, wires, troubles>>
             \/ /\ Len(d.base) + Len(d.delta) > MaxSeqLen
                /\ Abort(r, asked)
                /\ UNCHANGED <<poisoned, channel, reading, got, troubles>>
             \/ /\ failures < scenario.max_failures
                /\ failures' = failures + 1
                /\ Abort(r, asked)
                /\ UNCHANGED <<poisoned, channel, reading, got, panics, expiries>>

Text(ids) == Those(ids, Plain)
Chunk(text) == [kind |-> "chunk", text |-> text]

Ended(ids) ==
  \/ ids[Len(ids)] = Eos
  \/ \E i \in 1..Len(ids) : SubSeq(ids, i, Len(ids)) = Stop

(* on_token: the text but for the last max(stop.len()) characters *)
Safe(ids) == IF Len(Text(ids)) < Len(Stop) THEN 0 ELSE Len(Text(ids)) - Len(Stop)

(* What follows the generation: the tail, the history, the terminal event. *)
(* EOS is a stop string too, so the token that ended the answer is popped. *)
(* Mutant of Finish: the answer is not written to the history. *)
Finish_Unrecorded(r, ids, sent) ==
  /\ sessions' = [sessions EXCEPT ![id(r)].ended = Ended(ids), ![id(r)].whole = Ended(ids),
                                  ![id(r)].expired = FALSE]
  /\ pending' = [pending EXCEPT ![r] = sent \o <<[kind |-> "done", ended |-> TRUE]>>]
  /\ pc' = [pc EXCEPT ![r] = "closing"]
  /\ turn' = NoTurn
Finish(r, ids, sent) ==
  LET kept == IF Ended(ids) THEN SubSeq(ids, 1, Len(ids) - 1) ELSE ids
      eos_emitted == Len(kept) < Asks[r].max \/ Ended(ids)
      start == MinOf(IF sent = <<>> THEN turn.emitted ELSE Safe(ids), Len(kept))
      tail == IF start < Len(kept) THEN <<Chunk(SubSeq(kept, start + 1, Len(kept)))>> ELSE <<>>
      s    == sessions[id(r)]
      all  == s.cached \o turn.delta \o kept
  IN /\ sessions' = [sessions EXCEPT ![id(r)] =
          [s EXCEPT !.history = Append(@, Answer(kept)), !.cached = SubSeq(all, 1, Len(all) - 1),
                    !.ended = eos_emitted, !.expired = FALSE, !.whole = Ended(ids)]]
     /\ pending' = [pending EXCEPT ![r] = sent \o tail \o <<[kind |-> "done", ended |-> eos_emitted]>>]
     /\ pc' = [pc EXCEPT ![r] = "closing"]
     /\ turn' = NoTurn

(* One token of generate_ids_with_callback: its callback may send a chunk, *)
(* and the answer ends with EOS, a stop, max_tokens or a full cache.       *)
Token(r) ==
  /\ pc[r] = "turn" /\ pending[r] = <<>>
  /\ \E t \in Plain \cup {Eos} :
       LET ids  == Append(turn.ids, t)
           sent == IF turn.emitted < Safe(ids)
                   THEN <<Chunk(SubSeq(Text(ids), turn.emitted + 1, Safe(ids)))>> ELSE <<>>
           full == Len(sessions[id(r)].cached) + Len(turn.delta) + Len(ids) > MaxSeqLen
       IN IF Ended(ids) \/ Len(ids) = Asks[r].max \/ full
          THEN Finish(r, ids, sent)
          ELSE /\ turn' = [turn EXCEPT !.ids = ids,
                                       !.emitted = IF sent = <<>> THEN @ ELSE Safe(ids)]
               /\ pending' = [pending EXCEPT ![r] = sent]
               /\ UNCHANGED <<sessions, pc>>
  /\ UNCHANGED <<holder, poisoned, channel, reading, got, troubles>>

(* A run of the graph fails in the middle of a turn: what was fed stays, a *)
(* part of the delta or, later, all but the newest token.                  *)
TokenFails(r) ==
  /\ pc[r] = "turn" /\ pending[r] = <<>> /\ failures < scenario.max_failures
  /\ failures' = failures + 1
  /\ LET s   == sessions[id(r)]
         all == s.cached \o turn.delta \o turn.ids
     IN \E n \in (IF turn.ids = <<>> THEN Len(s.cached) ELSE Len(all) - 1)..(Len(all) - 1) :
          Abort(r, [s EXCEPT !.cached = SubSeq(all, 1, n)])
  /\ UNCHANGED <<poisoned, channel, reading, got, panics, expiries>>

(* A kernel or an assertion panics: the mutex is poisoned, tx is dropped. *)
TokenPanics(r) ==
  /\ pc[r] = "turn" /\ pending[r] = <<>> /\ panics < scenario.max_panics
  /\ panics' = panics + 1
  /\ poisoned' = TRUE /\ holder' = NoOne /\ turn' = NoTurn
  /\ pc' = [pc EXCEPT ![r] = "over"]
  /\ pending' = [pending EXCEPT ![r] = <<>>]
  /\ UNCHANGED <<sessions, channel, reading, got, failures, expiries>>

(* The end of chat_stream: the mutex is released, and the channel closed.  *)
Over(r) ==
  /\ pc[r] \in {"closing", "failed"} /\ pending[r] = <<>>
  /\ pc' = [pc EXCEPT ![r] = "over"]
  /\ holder' = IF holder = r THEN NoOne ELSE holder
  /\ UNCHANGED <<sessions, poisoned, turn, wires, troubles>>

-----------------------------------------------------------------------------
(* The channel of grpc_service.rs chat *)

(* Mutant of Send: a client that has hung up is waited for. *)
Send_Waits(r) ==
  /\ pending[r] # <<>> /\ Len(channel[r]) < Capacity /\ reading[r]
  /\ pending' = [pending EXCEPT ![r] = Tail(@)]
  /\ channel' = [channel EXCEPT ![r] = Append(@, Head(pending[r]))]
  /\ UNCHANGED <<sessions, holder, poisoned, pc, turn, reading, got, troubles>>
(* blocking_send waits for room; what is sent to no one is ignored. *)
Send(r) ==
  /\ pending[r] # <<>>
  /\ ~reading[r] \/ Len(channel[r]) < Capacity
  /\ pending' = [pending EXCEPT ![r] = Tail(@)]
  /\ channel' = [channel EXCEPT ![r] = IF reading[r] THEN Append(@, Head(pending[r])) ELSE @]
  /\ UNCHANGED <<sessions, holder, poisoned, pc, turn, reading, got, troubles>>

(* A worker polls the stream. *)
Read(r) ==
  /\ reading[r] /\ channel[r] # <<>> /\ Idle
  /\ got' = [got EXCEPT ![r] = Append(@, Head(channel[r]))]
  /\ channel' = [channel EXCEPT ![r] = Tail(@)]
  /\ UNCHANGED <<sessions, holder, poisoned, pc, turn, pending, reading, troubles>>

(* The client goes, a worker drops the stream. *)
HangUp(r) ==
  /\ Asks[r].kind = "chat" /\ reading[r] /\ pc[r] # "over" /\ Idle
  /\ reading' = [reading EXCEPT ![r] = FALSE]
  /\ channel' = [channel EXCEPT ![r] = <<>>]
  /\ UNCHANGED <<sessions, holder, poisoned, pc, turn, pending, got, troubles>>

(* SESSION_TTL passes since a session's last turn ended. *)
Expire(i) ==
  /\ expiries < scenario.max_expiries /\ sessions[i] # NoSession /\ ~sessions[i].expired
  /\ expiries' = expiries + 1
  /\ sessions' = [sessions EXCEPT ![i].expired = TRUE]
  /\ UNCHANGED <<holder, poisoned, pc, turn, wires, failures, panics>>

Works(r) ==
  /\ UNCHANGED scenario
  /\ \/ Poll(r)
     \/ /\ UNCHANGED polled
        /\ \/ Create(r) \/ Destroy(r) \/ evict_idle(r) \/ Begin(r)
           \/ Token(r) \/ TokenFails(r) \/ TokenPanics(r) \/ Over(r) \/ Send(r)
Listens(r) == UNCHANGED <<scenario, polled>> /\ Read(r)
Leaves(r) == UNCHANGED <<scenario, polled>> /\ HangUp(r)

Next ==
  \/ \E r \in Request : Works(r) \/ Listens(r) \/ Leaves(r)
  \/ \E i \in Id : Expire(i) /\ UNCHANGED <<scenario, polled>>

Spec == Init /\ [][Next]_vars

(* Threads run, and workers as long as one is left; a client who stays     *)
(* takes what it is sent.                                                  *)
Fairness == \A r \in Request : WF_vars(Works(r)) /\ WF_vars(Listens(r))
FairSpec == Spec /\ Fairness

-----------------------------------------------------------------------------
Sessions == {i \in Id : sessions[i] # NoSession}
Live == {i \in Sessions : holder = NoOne \/ id(holder) # i}  (* not in a turn *)

(* A session is not taken away, or made anew, under a turn that uses it    *)
(* (the mutex is held from get_mut to the end of chat_stream), and only    *)
(* one turn runs.                                                          *)
TurnsExclude ==
  \A r \in Request : pc[r] \in {"turn", "closing"} =>
    /\ holder = r /\ id(r) \in Sessions
    /\ \E n \in DOMAIN sessions[id(r)].history : sessions[id(r)].history[n] = User(r)

(* llm.rs: chunks, then "exactly one Done", or one error; what a client    *)
(* has read of a turn spells the answer in the history, and no stop string *)
(* (lookahead, the tail after truncate_at_stop).                           *)
Said(events) == Flat([n \in DOMAIN events |-> IF events[n].kind = "chunk" THEN events[n].text ELSE <<>>])
Verdicts(events) == {n \in DOMAIN events : events[n].kind # "chunk"}
StreamsSpellAnswers ==
  \A r \in Request : reading[r] =>
    LET all == got[r] \o channel[r] \o pending[r]
    IN /\ \A n \in Verdicts(all) : n = Len(all)
       /\ \A i, j \in 1..Len(Said(all)) : SubSeq(Said(all), i, j) # Stop
       /\ pc[r] = "closing" =>
            LET h == sessions[id(r)].history IN Said(all) = h[Len(h)].text

(* A stream that ends does so with a verdict, unless its thread panicked. *)
EndsWithVerdict ==
  \A r \in Request : Asks[r].kind = "chat" /\ pc[r] = "over" /\ reading[r] /\ ~poisoned
    => Verdicts(got[r] \o channel[r]) # {}

(* llm.rs 52-55: last_turn_eos_emitted is "True iff the previous turn      *)
(* ended at the model emitting EOS".                                       *)
EndedIsTrue == \A i \in Live : sessions[i].history # <<>> => sessions[i].ended = sessions[i].whole

Asked(seq) == Those(seq, Request)

(* The model has every message of the conversation before it, in order,    *)
(* when it answers (prev, with_new, delta).                                *)
EveryMessageAsked ==
  holder # NoOne /\ pc[holder] = "turn" =>
    LET s == sessions[id(holder)] IN Asked(s.cached \o turn.delta) = Asked(render_full(s.history))

(* llm.rs 304-311: "Feed only with_new[len(prev)..]": what the cache holds *)
(* and what is fed make up the rendered conversation.                      *)
CacheIsConversation ==
  holder # NoOne /\ pc[holder] = "turn" =>
    LET s == sessions[id(holder)] IN s.cached \o turn.delta = render_full(s.history)

(* Users and the model take turns, as templates demand (session.history).  *)
Alternates ==
  \A i \in Live : \A n \in DOMAIN sessions[i].history :
    sessions[i].history[n].role = IF n % 2 = 1 THEN "user" ELSE "assistant"

(* What may come about that leaves the histories in order: a cache that     *)
(* holds what all turns on a session may render to, with a message's two,  *)
(* an answer's max and one more token for each; and no failing run, or but *)
(* one turn on each session.                                               *)
Chats(s, i) == {r \in Request : s.asks[r].kind = "chat" /\ s.asks[r].id = i}
Roomy(s) ==
  \E n \in 0..s.max_seq_len :
    /\ \A r \in Request : s.asks[r].kind = "chat" => s.asks[r].max <= n
    /\ \A i \in Id : (n + 3) * Cardinality(Chats(s, i)) <= s.max_seq_len
Untroubled(s) ==
  Roomy(s) /\ (s.max_failures = 0 \/ \A i \in Id : \A q, r \in Chats(s, i) : q = r)

(* A turn is one turn: of one request, streamed to its verdict and, where  *)
(* nothing leaves the histories out of order, on the whole conversation    *)
(* and recorded (chat_stream).                                             *)
TurnsTrue ==
  /\ TurnsExclude /\ StreamsSpellAnswers /\ EndsWithVerdict
  /\ Untroubled(scenario) => EveryMessageAsked /\ EndedIsTrue /\ Alternates

(* Nobody polls the stream that the holder of the mutex waits for: all     *)
(* workers wait for the mutex.                                             *)
Starved ==
  /\ holder # NoOne /\ ~ Idle
  /\ pending[holder] # <<>> /\ reading[holder] /\ Len(channel[holder]) >= Capacity

(* Whoever holds the mutex, every request is over at last (blocking_send   *)
(* under the mutex), unless destroys starve the server.                    *)
RequestsEnd == \A r \in Request : <>(pc[r] = "over" \/ Starved)

(* grpc_service.rs 261-262: "The generator runs in spawn_blocking so       *)
(* blocking_send is safe": no turn waits for ever.                         *)
NobodyStarves == ~ Starved
=============================================================================
