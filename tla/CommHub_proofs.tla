--------------------------- MODULE CommHub_proofs ---------------------------
(***************************************************************************)
(* The collectives, for any processes, ranks and programs, however often   *)
(* processes are killed.                                                   *)
(*                                                                         *)
(* The argument: at any time a hub that lives has heard from each spoke of *)
(* its world a number of collectives (Heard), has answered a number        *)
(* (Answered), and stands perhaps between the header and the payload of    *)
(* the next; this and how far the spoke is fix what is in the spoke's      *)
(* stream (UpOf, DownOf).  A header that the hub takes is the spoke's  *)
(* own of the same call, so what the hub answers everybody has entered as  *)
(* the same operation (Agreed); and this stays true when either dies.      *)
(***************************************************************************)
EXTENDS CommHub, SequenceTheorems, FiniteSetTheorems, TLAPS

-----------------------------------------------------------------------------
(* The inductive invariant.                                                *)

DeadPc   == {"ended", "failed", "gone"}
CallPc   == {"header", "payload", "answer", "result", "returning"}
(* A hub's phases. *)
Hears    == {"answer", "result"}
Answers  == {"header", "payload"}

IsSpoke(q) == claim[q] \in Spokes

(* Who is connected to whom.                                               *)
StreamsTrue ==
  /\ listener # NoProc => IsHub(listener)
  /\ \A h \in Proc : \A i \in 1..Len(backlog[h]) :
       IsSpoke(backlog[h][i]) /\ hub[backlog[h][i]] = h
  /\ \A h \in Proc, r \in Spokes : peers[h][r] # NoProc =>
       claim[peers[h][r]] = r /\ hub[peers[h][r]] = h
  /\ \A q \in Proc : hub[q] # NoProc => IsHub(hub[q]) /\ IsSpoke(q) /\ pc[hub[q]] # "start"
  /\ \A q \in Proc : pc[q] \notin {"start", "failed", "gone"} =>
       IsHub(q) \/ (IsSpoke(q) /\ hub[q] # NoProc)
  /\ \A q \in Proc : pc[q] = "accept" => IsHub(q)
  /\ \A q \in Proc : pc[q] = "start" => hub[q] = NoProc /\ up[q] = <<>>

Whole(h) == \A r \in Spokes : peers[h][r] # NoProc

(* How far a process is in its program.                                    *)
CallsOf(p) ==
  /\ pc[p] \in {"start", "accept"} => entered[p] = 0
  /\ pc[p] = "call" => entered[p] = done[p]
  /\ pc[p] \in CallPc => entered[p] = done[p] + 1
  /\ entered[p] \in {done[p], done[p] + 1} /\ entered[p] <= Len(program[p])
  /\ IsHub(p) /\ (entered[p] > 0 \/ pc[p] \in {"call", "ended"}) => Whole(p)
  /\ entered[p] > 0 => IsHub(p) \/ IsSpoke(p)
  /\ IsHub(p) /\ pc[p] \in Hears \cup Answers => peer[p] \in Spokes

(* Every rank of the world of hub h has entered the k-th collective, as    *)
(* what the hub called.                                                    *)
Agreed(h, k) ==
  /\ Whole(h) /\ entered[h] >= k
  /\ \A r \in Spokes : entered[peers[h][r]] >= k /\ program[peers[h][r]][k] = program[h][k]

(* The collectives the hub has heard from rank r, and has answered.        *)
Heard(h, r) ==
  IF pc[h] \in Answers \cup {"returning"} \/ (pc[h] \in Hears /\ r < peer[h])
  THEN done[h] + 1 ELSE done[h]
HalfHeard(h, r) == pc[h] = "result" /\ peer[h] = r
Answered(h, r) ==
  IF pc[h] = "returning" \/ (pc[h] \in Answers /\ r < peer[h]) THEN done[h] + 1 ELSE done[h]
HalfAnswered(h, r) == pc[h] = "payload" /\ peer[h] = r

(* The hub of q lives, and it has taken q or still may.                    *)
Serves(h, q) ==
  /\ IsHub(h) /\ hub[q] = h /\ pc[h] \notin DeadPc
  /\ pc[h] = "accept" \/ peers[h][claim[q]] = q

(* What a spoke has sent and its hub has not read: nothing, when the hub   *)
(* has heard all it entered; else what it has written of its current call  *)
(* so far, without the header when the hub has that.                       *)
UpOf(h, q) ==
  LET k == Heard(h, claim[q])
      o == program[q][k + 1]
      d == [data |-> {q}]
  IN  \/ /\ entered[q] = k /\ up[q] = <<>> /\ ~ HalfHeard(h, claim[q])
         /\ pc[q] \notin {"header", "payload"}
      \/ /\ entered[q] = k + 1 /\ ~ HalfHeard(h, claim[q])
         /\ \/ up[q] = <<>> /\ pc[q] \in {"header"} \cup DeadPc
            \/ up[q] = <<o>> /\ pc[q] \in {IF o.len > 0 THEN "payload" ELSE "answer"} \cup DeadPc
            \/ up[q] = <<o, d>> /\ o.len > 0 /\ pc[q] \in {"answer"} \cup DeadPc
      \/ /\ entered[q] = k + 1 /\ HalfHeard(h, claim[q]) /\ o = program[h][k + 1]
         /\ \/ up[q] = <<>> /\ pc[q] \in {"payload"} \cup DeadPc
            \/ up[q] = <<d>> /\ pc[q] \in {"answer"} \cup DeadPc

(* How far a spoke is in what its hub has answered.                        *)
DownOf(h, q) ==
  \/ /\ HalfAnswered(h, claim[q]) /\ done[q] = done[h]
     /\ \/ pc[q] = "answer" /\ down[q] = <<program[h][done[h] + 1]>>
        \/ pc[q] = "result" /\ down[q] = <<>>
        \/ pc[q] \in DeadPc
  \/ /\ ~ HalfAnswered(h, claim[q]) /\ done[q] = Answered(h, claim[q])
     /\ \/ pc[q] \in {"start", "call", "header", "payload", "answer"} /\ down[q] = <<>>
        \/ pc[q] \in DeadPc
  \/ ~ HalfAnswered(h, claim[q]) /\ done[q] + 1 = Answered(h, claim[q])

LinksTrue == \A h, q \in Proc : Serves(h, q) => UpOf(h, q) /\ DownOf(h, q)

(* What the hub has heard in this round agrees with what it calls itself,  *)
(* and is in its buffer.                                                   *)
RoundOf(h) ==
  /\ done[h] > 0 => Agreed(h, done[h])
  /\ pc[h] \in {"payload", "result"} => program[h][done[h] + 1].len > 0
  /\ pc[h] \in CallPc => \A r \in Spokes : Heard(h, r) = done[h] + 1 =>
       /\ entered[peers[h][r]] >= done[h] + 1
       /\ program[peers[h][r]][done[h] + 1] = program[h][done[h] + 1]
  /\ pc[h] \in CallPc /\ program[h][done[h] + 1].len > 0 =>
       buf[h] = {h} \cup {peers[h][r] : r \in {i \in Spokes : Heard(h, i) = done[h] + 1}}

(* What a spoke has been told.                                             *)
Told(q) == pc[q] \notin DeadPc /\ (down[q] # <<>> \/ pc[q] \in {"result", "returning"})

SpokeOf(q) ==
  LET o == program[q][done[q] + 1]
      w == [data |-> World(hub[q])]
  IN  /\ Told(q) \/ done[q] > 0 => hub[q] # NoProc /\ peers[hub[q]][claim[q]] = q
      /\ done[q] > 0 => Agreed(hub[q], done[q])
      /\ Told(q) => Agreed(hub[q], done[q] + 1)
      /\ pc[q] \in {"start", "call", "header", "payload", "returning"} => down[q] = <<>>
      /\ pc[q] = "answer" =>
           down[q] = <<>> \/ down[q] = <<o>> \/ (down[q] = <<o, w>> /\ o.len > 0)
      /\ pc[q] = "result" => o.len > 0 /\ (down[q] = <<>> \/ down[q] = <<w>>)
      /\ pc[q] = "returning" /\ o.len > 0 => buf[q] = World(hub[q])
      /\ pc[q] \in {"header", "payload"} => buf[q] = {q}

IInv ==
  /\ TypeOK /\ StreamsTrue /\ LinksTrue
  /\ \A p \in Proc : /\ CallsOf(p)
                     /\ IsHub(p) => RoundOf(p)
                     /\ IsSpoke(p) => SpokeOf(p)

-----------------------------------------------------------------------------
(* Short sequences.                                                        *)

LEMMA Append2 ==
  ASSUME NEW x, NEW y
  PROVE  Append(<<x>>, y) = <<x, y>>
<1> DEFINE S == {x, y}
           s == Append(<<x>>, y)
           t == <<x, y>>
<1>1. <<x>> \in Seq(S) /\ t \in Seq(S) /\ y \in S
  OBVIOUS
<1>2. Len(<<x>>) = 1 /\ <<x>>[1] = x /\ Len(t) = 2 /\ t[1] = x /\ t[2] = y
  OBVIOUS
<1>3. s \in Seq(S) /\ Len(s) = 2 /\ s[1] = x /\ s[2] = y
  BY <1>1, <1>2, AppendProperties
<1> HIDE DEF s, t
<1>4. \A i \in 1..Len(s) : s[i] = t[i]
  BY <1>2, <1>3
<1>5. s = t
  BY <1>1, <1>2, <1>3, <1>4, SeqEqual
<1> QED
  BY <1>5 DEF s, t

LEMMA Short ==
  ASSUME NEW x, NEW y
  PROVE  /\ Append(<<>>, x) = <<x>> /\ Append(<<x>>, y) = <<x, y>>
         /\ <<x>> # <<>> /\ Head(<<x>>) = x /\ Tail(<<x>>) = <<>>
         /\ <<x, y>> # <<>> /\ Head(<<x, y>>) = x /\ Tail(<<x, y>>) = <<y>>
<1>1. Append(<<>>, x) = <<x>>
  OBVIOUS
<1>2. <<x>> # <<>> /\ Head(<<x>>) = x
  OBVIOUS
<1>3. Tail(<<x>>) = <<>>
  OBVIOUS
<1>4. <<x, y>> # <<>> /\ Head(<<x, y>>) = x
  OBVIOUS
<1>5. Tail(<<x, y>>) = <<y>>
  OBVIOUS
<1> QED
  BY <1>1, <1>2, <1>3, <1>4, <1>5, Append2

-----------------------------------------------------------------------------
(* What a step leaves alone.                                               *)

LEMMA Types ==
  ASSUME TypeOK
  PROVE  /\ \A p \in Proc : /\ claim[p] \in Nat /\ entered[p] \in Nat /\ done[p] \in Nat
                            /\ program[p] \in Seq(Op0) /\ Len(program[p]) \in Nat
                            /\ peer[p] \in Nat
         /\ Spokes \subseteq Nat /\ 0 \notin Spokes /\ NoProc \notin Proc
         /\ \A p \in Proc : IsHub(p) => ~ IsSpoke(p)
         /\ \A p \in Proc, r \in Spokes : peers[p][r] # NoProc => peers[p][r] \in Proc
         /\ \A p \in Proc : hub[p] # NoProc => hub[p] \in Proc
<1>1. Spokes \subseteq Nat /\ 0 \notin Spokes
  <2>1. WorldSize \in Nat
    BY WorldAssumption
  <2> QED
    BY <2>1, SMT DEF Spokes
<1>2. \A p \in Proc : claim[p] \in Nat /\ entered[p] \in Nat /\ done[p] \in Nat /\ program[p] \in Seq(Op0)
  BY DEF TypeOK
<1>3. \A p \in Proc : Len(program[p]) \in Nat
  BY <1>2, LenProperties
<1>4. \A p \in Proc : peer[p] \in Nat
  <2>1. \A p \in Proc : peer[p] \in Spokes \/ peer[p] = 1
    BY DEF TypeOK
  <2>2. 1 \in Nat
    OBVIOUS
  <2> QED
    BY <1>1, <2>1, <2>2, Zenon
<1>5. \A p \in Proc, r \in Spokes : peers[p][r] \in Proc \cup {NoProc}
  BY DEF TypeOK
<1>6. \A p \in Proc : hub[p] \in Proc \cup {NoProc}
  BY DEF TypeOK
<1> QED
  BY <1>1, <1>2, <1>3, <1>4, <1>5, <1>6, WorldAssumption DEF IsHub, IsSpoke

LEMMA AgreedKept ==
  ASSUME TypeOK, TypeOK', NEW h \in Proc, NEW k \in Nat, Agreed(h, k),
         program' = program, peers'[h] = peers[h],
         \A q \in Proc : entered'[q] >= entered[q]
  PROVE  Agreed(h, k)'
<1>1. \A r \in Spokes : peers[h][r] \in Proc
  BY Types DEF Agreed, Whole
<1>2. \A q \in Proc : entered[q] >= k => entered'[q] >= k
  <2> TAKE q \in Proc
  <2>1. entered[q] \in Nat /\ entered'[q] \in Nat /\ entered'[q] >= entered[q]
    BY DEF TypeOK
  <2> QED
    BY <2>1, SMT
<1> QED
  BY <1>1, <1>2 DEF Agreed, Whole

LEMMA LinkFrame ==
  ASSUME NEW h \in Proc, NEW q \in Proc, UNCHANGED <<claim, program>>,
         Heard(h, claim[q])' = Heard(h, claim[q]),
         Answered(h, claim[q])' = Answered(h, claim[q]),
         HalfHeard(h, claim[q])' <=> HalfHeard(h, claim[q]),
         HalfAnswered(h, claim[q])' <=> HalfAnswered(h, claim[q]),
         HalfAnswered(h, claim[q]) => done'[h] = done[h],
         pc'[q] = pc[q], done'[q] = done[q], entered'[q] = entered[q],
         up'[q] = up[q], down'[q] = down[q], UpOf(h, q), DownOf(h, q)
  PROVE  UpOf(h, q)' /\ DownOf(h, q)'
<1>1. UpOf(h, q)'
  BY DEF UpOf
<1>2. DownOf(h, q)'
  BY DEF DownOf
<1> QED
  BY <1>1, <1>2

LEMMA RoundFrame ==
  ASSUME TypeOK, TypeOK', NEW h \in Proc, RoundOf(h), CallsOf(h), IsHub(h),
         program' = program, peers'[h] = peers[h], \A q \in Proc : entered'[q] >= entered[q],
         pc'[h] = pc[h], done'[h] = done[h], peer'[h] = peer[h], buf'[h] = buf[h]
  PROVE  RoundOf(h)'
<1>1. done[h] > 0 => Agreed(h, done[h])'
  BY AgreedKept, Types DEF RoundOf
<1>2. pc[h] \in CallPc => \A r \in Spokes : peers[h][r] \in Proc
  <2>1. pc[h] \in CallPc => entered[h] > 0
    BY Types, SMT DEF CallsOf
  <2> QED
    BY <2>1, Types DEF CallsOf, Whole
<1>3. \A q \in Proc : entered[q] >= done[h] + 1 => entered'[q] >= done[h] + 1
  <2> TAKE q \in Proc
  <2>1. entered[q] \in Nat /\ entered'[q] \in Nat /\ entered'[q] >= entered[q] /\ done[h] \in Nat
    BY DEF TypeOK
  <2> QED
    BY <2>1, SMT
<1>4. \A r : Heard(h, r)' = Heard(h, r)
  BY DEF Heard
<1> QED
  BY <1>1, <1>2, <1>3, <1>4 DEF RoundOf, Agreed

LEMMA SpokeFrame ==
  ASSUME TypeOK, TypeOK', NEW q \in Proc, SpokeOf(q),
         UNCHANGED <<claim, program>>, hub'[q] = hub[q],
         hub[q] \in Proc => peers'[hub[q]] = peers[hub[q]],
         \A p \in Proc : entered'[p] >= entered[p],
         pc'[q] = pc[q] \/ (pc'[q] \in DeadPc),
         done'[q] = done[q], down'[q] = down[q], buf'[q] = buf[q]
  PROVE  SpokeOf(q)'
<1>1. (Told(q) \/ done[q] > 0) => hub[q] \in Proc
  BY Types DEF SpokeOf
<1>2. done[q] > 0 => Agreed(hub[q], done[q])'
  BY <1>1, AgreedKept, Types DEF SpokeOf
<1>3. Told(q) => Agreed(hub[q], done[q] + 1)'
  <2>1. done[q] + 1 \in Nat
    BY Types
  <2> QED
    BY <1>1, <2>1, AgreedKept DEF SpokeOf
<1>4. Told(q)' => Told(q)
  BY DEF Told
<1>5. Told(q)' => World(hub[q])' = World(hub[q])
  BY <1>1, <1>4 DEF World
<1>6. (Told(q) \/ done[q] > 0)' => hub'[q] # NoProc /\ peers'[hub'[q]][claim'[q]] = q
  BY <1>1, <1>4 DEF SpokeOf
<1>7. pc'[q] \in {"start", "call", "header", "payload", "returning"} => down'[q] = <<>>
  BY DEF SpokeOf, DeadPc
<1>8. CASE pc'[q] \in DeadPc
  BY <1>2, <1>6, <1>8 DEF SpokeOf, Told, DeadPc, Agreed
<1>9. CASE pc'[q] = pc[q] /\ pc[q] \notin DeadPc
  <2>1. pc[q] = "answer" /\ down[q] # <<>> => Told(q)'
    BY <1>9 DEF Told
  <2>2. pc[q] \in {"result", "returning"} => Told(q)'
    BY <1>9 DEF Told
  <2>3. hub' [q] = hub[q] /\ (Told(q)' => (World(hub[q])' = World(hub[q])))
    BY <1>5
  <2>4. done'[q] > 0 => Agreed(hub[q], done[q])'
    BY <1>2
  <2> QED
    BY <1>3, <1>4, <1>6, <1>9, <2>1, <2>2, <2>3, <2>4 DEF SpokeOf, World, Agreed
<1> QED
  BY <1>8, <1>9

(* One process acts: what it does not do to itself or to its spokes stays. *)
LEMMA OneActs ==
  ASSUME IInv, TypeOK', NEW p \in Proc,
         UNCHANGED <<claim, program, backlog, hub, peers>>,
         listener' = listener \/ (listener' = p /\ IsHub(p)),
         \A q \in Proc : q # p =>
           /\ pc'[q] = pc[q] /\ peer'[q] = peer[q] /\ buf'[q] = buf[q]
           /\ entered'[q] = entered[q] /\ done'[q] = done[q]
           /\ hub[q] # p => up'[q] = up[q] /\ down'[q] = down[q],
         entered'[p] >= entered[p],
         pc'[p] # "start", pc'[p] = "accept" => IsHub(p),
         pc'[p] \in {"failed", "gone"} \/ IsHub(p) \/ pc[p] \notin DeadPc \cup {"start"},
         CallsOf(p)', IsHub(p) => RoundOf(p)', IsSpoke(p) => SpokeOf(p)',
         \A q \in Proc : hub[q] = p => SpokeOf(q)',
         \A q \in Proc : Serves(p, q)' => UpOf(p, q)' /\ DownOf(p, q)',
         \A h \in Proc : h # p /\ Serves(h, p) => UpOf(h, p)' /\ DownOf(h, p)'
  PROVE  IInv'
<1> USE DEF IInv
<1>1. \A q \in Proc : entered'[q] >= entered[q]
  <2>1. \A q \in Proc : q # p => entered'[q] = entered[q] /\ entered[q] \in Nat
    BY Types
  <2> QED
    BY <2>1, SMT
<1>2. \A q \in Proc : CallsOf(q)'
  BY DEF CallsOf, IsHub, IsSpoke, Whole
<1>3. \A q \in Proc : IsHub(q)' => RoundOf(q)'
  <2> TAKE q \in Proc
  <2>1. CASE q = p
    BY <2>1 DEF IsHub
  <2>2. CASE q # p
    <3>1. IsHub(q)' => IsHub(q) /\ RoundOf(q) /\ CallsOf(q)
      BY DEF IsHub
    <3>2. program' = program /\ peers'[q] = peers[q] /\ pc'[q] = pc[q] /\ done'[q] = done[q] /\ peer'[q] = peer[q] /\ buf'[q] = buf[q]
      BY <2>2
    <3> QED
      BY <1>1, <3>1, <3>2, RoundFrame
  <2> QED
    BY <2>1, <2>2
<1>4. \A q \in Proc : IsSpoke(q)' => SpokeOf(q)'
  <2> TAKE q \in Proc
  <2>1. CASE q = p \/ hub[q] = p
    BY <2>1 DEF IsSpoke
  <2>2. CASE q # p /\ hub[q] # p
    <3>1. IsSpoke(q)' => SpokeOf(q)
      BY DEF IsSpoke
    <3>2. hub'[q] = hub[q] /\ peers'[hub[q]] = peers[hub[q]] /\ pc'[q] = pc[q] /\ done'[q] = done[q] /\ down'[q] = down[q] /\ buf'[q] = buf[q]
      BY <2>2
    <3> QED
      BY <1>1, <3>1, <3>2, SpokeFrame
  <2> QED
    BY <2>1, <2>2
<1>5. LinksTrue'
  <2> SUFFICES ASSUME NEW h \in Proc, NEW q \in Proc, Serves(h, q)'
               PROVE  UpOf(h, q)' /\ DownOf(h, q)'
    BY DEF LinksTrue
  <2>1. CASE h = p
    BY <2>1
  <2>2. CASE h # p /\ q = p
    <3>1. Serves(h, p)
      BY <2>2 DEF Serves, IsHub
    <3> QED
      BY <2>2, <3>1
  <2>3. CASE h # p /\ q # p
    <3>1. Serves(h, q) /\ hub[q] # p
      BY <2>3 DEF Serves, IsHub
    <3>2. UpOf(h, q) /\ DownOf(h, q)
      BY <3>1 DEF LinksTrue
    <3>3. pc'[h] = pc[h] /\ peer'[h] = peer[h] /\ done'[h] = done[h]
      BY <2>3
    <3>4. /\ Heard(h, claim[q])' = Heard(h, claim[q]) /\ Answered(h, claim[q])' = Answered(h, claim[q])
          /\ HalfHeard(h, claim[q])' <=> HalfHeard(h, claim[q])
          /\ HalfAnswered(h, claim[q])' <=> HalfAnswered(h, claim[q])
      BY <3>3 DEF Heard, Answered, HalfHeard, HalfAnswered
    <3>5. pc'[q] = pc[q] /\ done'[q] = done[q] /\ entered'[q] = entered[q] /\ up'[q] = up[q] /\ down'[q] = down[q]
      BY <2>3, <3>1
    <3> QED
      BY <3>2, <3>3, <3>4, <3>5, LinkFrame
  <2> QED
    BY <2>1, <2>2, <2>3
<1>6. StreamsTrue'
  <2>1. /\ listener' # NoProc => IsHub(listener)'
        /\ \A q \in Proc : pc'[q] = "accept" => IsHub(q)'
    BY DEF StreamsTrue, IsHub
  <2>2. \A h \in Proc : \A i \in 1..Len(backlog'[h]) : IsSpoke(backlog[h][i])' /\ hub'[backlog'[h][i]] = h
    BY DEF StreamsTrue, IsSpoke
  <2>3. \A h \in Proc, r \in Spokes : peers'[h][r] # NoProc => claim'[peers'[h][r]] = r /\ hub'[peers'[h][r]] = h
    BY DEF StreamsTrue
  <2>4. \A q \in Proc : hub'[q] # NoProc => IsHub(hub[q])' /\ IsSpoke(q)' /\ pc'[hub'[q]] # "start"
    BY Types DEF StreamsTrue, IsHub, IsSpoke
  <2>5. \A q \in Proc : pc'[q] \notin {"start", "failed", "gone"} => IsHub(q)' \/ (IsSpoke(q)' /\ hub'[q] # NoProc)
    <3> TAKE q \in Proc
    <3>1. pc[q] \notin {"start", "failed", "gone"} => IsHub(q) \/ (IsSpoke(q) /\ hub[q] # NoProc)
      BY DEF StreamsTrue
    <3> QED
      BY <3>1 DEF DeadPc, IsHub, IsSpoke
  <2>6. \A q \in Proc : pc'[q] = "start" => hub'[q] = NoProc /\ up'[q] = <<>>
    BY Types DEF StreamsTrue
  <2> QED
    BY <2>1, <2>2, <2>3, <2>4, <2>5, <2>6 DEF StreamsTrue, IsHub, IsSpoke
<1> QED
  BY <1>2, <1>3, <1>4, <1>5, <1>6

-----------------------------------------------------------------------------
(* The actions.                                                            *)

LEMMA HeaderIsOp ==
  ASSUME TypeOK, NEW p \in Proc, done[p] < Len(program[p])
  PROVE  Header(p) = program[p][done[p] + 1] /\ Op(p) = Header(p) /\ Header(p) \in Op0
<1>1. program[p] \in Seq(Op0) /\ done[p] + 1 \in 1..Len(program[p])
  BY Types
<1>2. program[p][done[p] + 1] \in Op0
  BY <1>1
<1>3. \A o \in Op0 : [tag |-> o.tag, len |-> o.len] = o
  BY DEF Op0
<1> QED
  BY <1>2, <1>3 DEF Header, Op

LEMMA InCall ==
  ASSUME IInv, NEW p \in Proc, pc[p] \in CallPc
  PROVE  done[p] < Len(program[p]) /\ entered[p] = done[p] + 1
<1>1. entered[p] = done[p] + 1 /\ entered[p] <= Len(program[p])
  BY DEF IInv, CallsOf
<1>2. Len(program[p]) \in Nat /\ done[p] \in Nat
  BY Types DEF IInv
<1> QED
  BY <1>1, <1>2, SMT

(* A spoke and its hub are two processes.                                  *)
LEMMA HubIsOther ==
  ASSUME IInv, NEW q \in Proc, hub[q] # NoProc
  PROVE  hub[q] \in Proc /\ IsHub(hub[q]) /\ IsSpoke(q) /\ ~ IsHub(q) /\ hub[q] # q
BY Types DEF IInv, StreamsTrue

(* A process ends: all that others know of it stays true.                  *)
LEMMA Die ==
  ASSUME IInv, TypeOK', NEW p \in Proc,
         UNCHANGED <<setting, streams, down, entered, done>>,
         \A q \in Proc : q # p =>
           pc'[q] = pc[q] /\ peer'[q] = peer[q] /\ buf'[q] = buf[q] /\ (hub[q] # p => up'[q] = up[q]),
         buf'[p] = buf[p], up'[p] = up[p], pc'[p] \in {"failed", "gone"}
  PROVE  IInv'
<1> USE DEF IInv, setting, streams
<1>1. CallsOf(p)'
  BY DEF CallsOf, IsHub, IsSpoke, CallPc, Hears, Answers, Whole
<1>2. IsHub(p) => RoundOf(p)'
  BY DEF RoundOf, CallPc, Agreed, Whole
<1>3. \A q \in Proc : entered'[q] >= entered[q]
  BY Types
<1>4. \A q \in Proc : IsSpoke(q) => SpokeOf(q)'
  <2> SUFFICES ASSUME NEW q \in Proc, IsSpoke(q) PROVE SpokeOf(q)'
    OBVIOUS
  <2>1. pc'[q] = pc[q] \/ pc'[q] \in DeadPc
    BY DEF DeadPc
  <2>2. SpokeOf(q) /\ buf'[q] = buf[q]
    OBVIOUS
  <2> QED
    BY <1>3, <2>1, <2>2, SpokeFrame
<1>5. \A q \in Proc : hub[q] = p => SpokeOf(q)'
  BY <1>4, Types DEF StreamsTrue
<1>6. \A q \in Proc : ~ Serves(p, q)'
  BY DEF Serves, DeadPc
<1>7. ASSUME NEW h \in Proc, h # p, Serves(h, p)
      PROVE  UpOf(h, p)' /\ DownOf(h, p)'
  <2>1. UpOf(h, p) /\ DownOf(h, p)
    BY <1>7 DEF LinksTrue
  <2>2. pc'[h] = pc[h] /\ peer'[h] = peer[h] /\ done'[h] = done[h] /\ hub[p] # p
    BY <1>7 DEF Serves
  <2>3. /\ Heard(h, claim[p])' = Heard(h, claim[p]) /\ Answered(h, claim[p])' = Answered(h, claim[p])
        /\ HalfHeard(h, claim[p])' <=> HalfHeard(h, claim[p])
        /\ HalfAnswered(h, claim[p])' <=> HalfAnswered(h, claim[p])
    BY <2>2 DEF Heard, Answered, HalfHeard, HalfAnswered
  <2>4. UpOf(h, p)'
    BY <2>1, <2>3 DEF UpOf, DeadPc
  <2>5. DownOf(h, p)'
    BY <2>1, <2>3 DEF DownOf, DeadPc
  <2> QED
    BY <2>4, <2>5
<1>8. entered'[p] >= entered[p] /\ pc'[p] # "start" /\ pc'[p] # "accept"
  BY <1>3
<1> QED
  BY <1>1, <1>2, <1>4, <1>5, <1>6, <1>7, <1>8, OneActs

LEMMA EndsKeep ==
  ASSUME IInv, NEW p \in Proc, BadRank(p) \/ GiveUp(p) \/ Kill(p)
  PROVE  IInv'
<1>1. /\ UNCHANGED <<setting, streams, up, down, peer, buf, entered, done>>
      /\ \/ pc' = [pc EXCEPT ![p] = "failed"]
         \/ pc' = [pc EXCEPT ![p] = "gone"]
  BY DEF BadRank, GiveUp, Kill, Fails
<1>2. pc'[p] \in {"failed", "gone"} /\ \A q \in Proc : q # p => pc'[q] = pc[q]
  BY <1>1 DEF IInv, TypeOK
<1>3. TypeOK'
  BY <1>1 DEF IInv, TypeOK, setting, streams
<1> QED
  BY <1>1, <1>2, <1>3, Die

LEMMA EnterKeeps ==
  ASSUME IInv, NEW p \in Proc, Enter(p)
  PROVE  IInv'
<1> USE DEF IInv, setting, streams
<1>1. /\ UNCHANGED <<claim, program, listener, backlog, hub, peers, up, down, done>>
      /\ pc[p] = "call" /\ done[p] < Len(program[p]) /\ entered[p] = done[p]
      /\ pc'[p] = IF ~ IsHub(p) THEN "header" ELSE IF Spokes = {} THEN "returning" ELSE "answer"
      /\ buf'[p] = {p} /\ peer'[p] = 1 /\ entered'[p] = done[p] + 1
  BY DEF Enter, AtCall, TypeOK, CallsOf
<1>2. \A q \in Proc : q # p => /\ pc'[q] = pc[q] /\ peer'[q] = peer[q] /\ buf'[q] = buf[q]
                              /\ entered'[q] = entered[q]
  BY DEF Enter, TypeOK
<1>3. TypeOK'
  <2>1. pc' \in [Proc -> {"start", "accept", "call", "header", "payload", "answer", "result",
                          "returning", "ended", "failed", "gone"}]
    BY DEF Enter, TypeOK
  <2>2. buf' \in [Proc -> SUBSET Proc] /\ peer' \in [Proc -> Spokes \cup {1}] /\ entered' \in [Proc -> Nat]
    BY DEF Enter, TypeOK
  <2> QED
    BY <1>1, <2>1, <2>2 DEF TypeOK
<1>4. entered'[p] >= entered[p] /\ done[p] \in Nat /\ entered'[p] <= Len(program[p]) /\ \A q \in Proc : entered'[q] >= entered[q]
  <2>1. done[p] \in Nat /\ Len(program[p]) \in Nat /\ entered[p] \in Nat
    BY Types
  <2>2. entered'[p] >= entered[p] /\ done[p] \in Nat /\ entered'[p] <= Len(program[p])
    BY <1>1, <2>1, SMT
  <2>3. \A q \in Proc : entered[q] \in Nat /\ (q # p => entered'[q] = entered[q])
    BY <1>2, Types
  <2> QED
    BY <2>2, <2>3, SMT
<1>5. CallsOf(p)'
  <2>1. IsHub(p) => Whole(p)
    BY <1>1 DEF CallsOf
  <2>2. IsHub(p) /\ pc'[p] \in Hears \cup Answers => 1 \in Spokes
    <3>1. Spokes # {} => 1 \in Spokes
      <4>1. WorldSize \in Nat
        BY WorldAssumption
      <4> QED
        BY <4>1, SMT DEF Spokes
    <3> QED
      BY <1>1, <3>1 DEF Hears, Answers
  <2>3. IsHub(p) \/ IsSpoke(p)
    BY <1>1 DEF StreamsTrue
  <2> QED
    BY <1>1, <1>4, <2>1, <2>2, <2>3 DEF CallsOf, IsHub, IsSpoke, Whole, CallPc
<1>6. ASSUME NEW q \in Proc, IsSpoke(q), q # p
      PROVE  SpokeOf(q)'
  <2>1. SpokeOf(q) /\ buf'[q] = buf[q] /\ pc'[q] = pc[q]
    BY <1>2, <1>6
  <2> QED
    BY <1>1, <1>3, <1>4, <2>1, SpokeFrame
<1>7. CASE IsHub(p)
  <2>1. ~ IsSpoke(p)
    BY <1>7, Types
  <2>2. done[p] > 0 => Agreed(p, done[p])'
    BY <1>1, <1>3, <1>4, <1>7, AgreedKept DEF RoundOf
  <2>3. \A r \in Spokes : Heard(p, r)' # done[p] + 1
    <3> SUFFICES ASSUME NEW r \in Spokes PROVE Heard(p, r)' # done[p] + 1
      OBVIOUS
    <3>1. pc'[p] = "answer" /\ r \in Nat /\ r # 0
      BY <1>1, <1>7, Types
    <3>2. ~ (r < 1) /\ done[p] # done[p] + 1
      BY <1>4, <3>1, SMT
    <3> QED
      BY <1>1, <3>1, <3>2 DEF Heard, Answers, Hears
  <2>4. RoundOf(p)'
    BY <1>1, <1>7, <2>2, <2>3 DEF RoundOf, CallPc
  <2>5. \A q \in Proc : hub[q] = p => SpokeOf(q)'
    BY <1>6, <2>1, Types DEF StreamsTrue
  <2>6. ASSUME NEW q \in Proc, Serves(p, q)'
        PROVE  UpOf(p, q)' /\ DownOf(p, q)'
    <3>1. hub[q] = p /\ peers[p][claim[q]] = q
      BY <1>1, <1>7, <2>6 DEF Serves
    <3>2. claim[q] \in Spokes /\ q # p
      BY <2>1, <3>1, Types DEF StreamsTrue, IsSpoke
    <3>3. pc'[p] = "answer" /\ claim[q] \in Nat /\ claim[q] # 0
      BY <1>1, <1>7, <3>2, Types
    <3>4. UpOf(p, q) /\ DownOf(p, q)
      BY <1>1, <1>7, <3>1, Types DEF LinksTrue, Serves, DeadPc, StreamsTrue
    <3>5. ~ (claim[q] < 1)
      BY <3>3, SMT
    <3>6. /\ Heard(p, claim[q])' = Heard(p, claim[q]) /\ Answered(p, claim[q])' = Answered(p, claim[q])
          /\ HalfHeard(p, claim[q])' <=> HalfHeard(p, claim[q])
          /\ HalfAnswered(p, claim[q])' <=> HalfAnswered(p, claim[q])
      BY <1>1, <3>3, <3>5 DEF Heard, Answered, HalfHeard, HalfAnswered, Hears, Answers
    <3> QED
      BY <1>1, <1>2, <3>2, <3>4, <3>6, LinkFrame
  <2>7. \A h \in Proc : ~ Serves(h, p)
    BY <2>1, Types DEF Serves, StreamsTrue
  <2> QED
    BY <1>1, <1>2, <1>3, <1>4, <1>5, <2>1, <2>4, <2>5, <2>6, <2>7, <1>7, OneActs
<1>8. CASE ~ IsHub(p)
  <2>1. IsSpoke(p) /\ hub[p] # NoProc /\ pc'[p] = "header"
    BY <1>1, <1>8 DEF StreamsTrue
  <2>2. hub[p] \in Proc /\ hub[p] # p
    BY <2>1, HubIsOther
  <2>3. \A q \in Proc : hub[q] # p
    BY <1>8, Types DEF StreamsTrue
  <2>4. ~ Told(p) /\ down[p] = <<>>
    BY <1>1, <2>1 DEF Told, SpokeOf
  <2>5. done[p] > 0 => Agreed(hub[p], done[p])'
    BY <1>1, <1>3, <1>4, <2>1, <2>2, AgreedKept DEF SpokeOf
  <2>6. SpokeOf(p)'
    BY <1>1, <2>1, <2>4, <2>5 DEF SpokeOf, Told, Agreed, Whole
  <2>7. ASSUME NEW h \in Proc, Serves(h, p)
        PROVE  UpOf(h, p)' /\ DownOf(h, p)'
    <3>1. UpOf(h, p) /\ DownOf(h, p) /\ h # p
      BY <2>2, <2>7 DEF LinksTrue, Serves
    <3>2. pc'[h] = pc[h] /\ peer'[h] = peer[h] /\ done'[h] = done[h]
      BY <1>1, <1>2, <3>1
    <3>3. /\ Heard(h, claim[p])' = Heard(h, claim[p]) /\ Answered(h, claim[p])' = Answered(h, claim[p])
          /\ HalfHeard(h, claim[p])' <=> HalfHeard(h, claim[p])
          /\ HalfAnswered(h, claim[p])' <=> HalfAnswered(h, claim[p])
      BY <1>1, <3>2 DEF Heard, Answered, HalfHeard, HalfAnswered
    <3>4. entered[p] = Heard(h, claim[p]) /\ up[p] = <<>> /\ ~ HalfHeard(h, claim[p])
      BY <1>1, <3>1 DEF UpOf, DeadPc
    <3>5. UpOf(h, p)'
      BY <1>1, <2>1, <3>3, <3>4 DEF UpOf
    <3>6. DownOf(h, p)'
      BY <1>1, <2>1, <2>4, <3>1, <3>3 DEF DownOf, DeadPc
    <3> QED
      BY <3>5, <3>6
  <2>8. \A q \in Proc : ~ Serves(p, q)'
    BY <1>1, <2>3 DEF Serves
  <2> QED
    BY <1>1, <1>2, <1>3, <1>4, <1>5, <1>8, <2>1, <2>3, <2>6, <2>7, <2>8, OneActs DEF DeadPc
<1> QED
  BY <1>7, <1>8

(* What a hub has heard and answered is its own business.                  *)
LEMMA HubSame ==
  ASSUME NEW h \in Proc, NEW r, pc'[h] = pc[h], peer'[h] = peer[h], done'[h] = done[h]
  PROVE  /\ Heard(h, r)' = Heard(h, r) /\ Answered(h, r)' = Answered(h, r)
         /\ HalfHeard(h, r)' <=> HalfHeard(h, r)
         /\ HalfAnswered(h, r)' <=> HalfAnswered(h, r)
BY DEF Heard, Answered, HalfHeard, HalfAnswered

LEMMA SpokesSame ==
  ASSUME IInv, TypeOK', NEW p \in Proc, NEW q \in Proc, IsSpoke(q),
         UNCHANGED <<claim, program, hub, peers>>, \A x \in Proc : entered'[x] >= entered[x],
         pc'[q] = pc[q], done'[q] = done[q], down'[q] = down[q], buf'[q] = buf[q]
  PROVE  SpokeOf(q)'
BY SpokeFrame DEF IInv

LEMMA ReturnKeeps ==
  ASSUME IInv, NEW p \in Proc, Return(p)
  PROVE  IInv'
<1> USE DEF IInv, setting, streams
<1>1. /\ UNCHANGED <<claim, program, listener, backlog, hub, peers, up, down, peer, buf, entered>>
      /\ pc[p] = "returning" /\ done'[p] = done[p] + 1
      /\ pc'[p] \in {"ended", "call"}
  BY DEF Return, TypeOK
<1>2. \A q \in Proc : q # p => pc'[q] = pc[q] /\ done'[q] = done[q]
  BY DEF Return, TypeOK
<1>3. TypeOK'
  <2>1. pc' \in [Proc -> {"start", "accept", "call", "header", "payload", "answer", "result",
                          "returning", "ended", "failed", "gone"}]
    BY DEF Return, TypeOK
  <2>2. done' \in [Proc -> Nat]
    BY DEF Return, TypeOK
  <2> QED
    BY <1>1, <2>1, <2>2 DEF TypeOK
<1>4. /\ entered[p] = done[p] + 1 /\ entered[p] <= Len(program[p])
      /\ done[p] \in Nat /\ entered[p] \in Nat
      /\ \A q \in Proc : entered'[q] >= entered[q]
  BY <1>1, Types DEF CallsOf, CallPc
<1>5. CallsOf(p)'
  <2>1. IsHub(p) => Whole(p)
    BY <1>4, SMT DEF CallsOf
  <2> QED
    BY <1>1, <1>4, <2>1 DEF CallsOf, IsHub, IsSpoke, Whole, CallPc, Hears, Answers
<1>6. ASSUME NEW q \in Proc, IsSpoke(q), q # p
      PROVE  SpokeOf(q)'
  BY <1>1, <1>2, <1>3, <1>4, <1>6, SpokesSame
<1>7. CASE IsHub(p)
  <2>1. ~ IsSpoke(p)
    BY <1>7, Types
  <2>2. Agreed(p, done[p] + 1)
    <3>1. Whole(p)
      BY <1>4, <1>7, SMT DEF CallsOf
    <3>2. \A r \in Spokes : Heard(p, r) = done[p] + 1
      BY <1>1 DEF Heard
    <3>3. pc[p] \in CallPc
      BY <1>1 DEF CallPc
    <3> QED
      BY <1>4, <1>7, <3>1, <3>2, <3>3 DEF RoundOf, Agreed
  <2>3. RoundOf(p)'
    BY <1>1, <2>2 DEF RoundOf, CallPc, Agreed, Whole
  <2>4. \A q \in Proc : hub[q] = p => SpokeOf(q)'
    BY <1>6, <2>1, Types DEF StreamsTrue
  <2>5. ASSUME NEW q \in Proc, Serves(p, q)'
        PROVE  UpOf(p, q)' /\ DownOf(p, q)'
    <3>1. hub[q] = p /\ peers[p][claim[q]] = q /\ pc'[p] = "call"
      BY <1>1, <1>7, <2>5 DEF Serves, DeadPc
    <3>2. q # p
      BY <2>1, <3>1, Types DEF StreamsTrue
    <3>3. UpOf(p, q) /\ DownOf(p, q)
      BY <1>1, <1>7, <3>1 DEF LinksTrue, Serves, DeadPc
    <3>4. /\ Heard(p, claim[q])' = Heard(p, claim[q]) /\ Answered(p, claim[q])' = Answered(p, claim[q])
          /\ HalfHeard(p, claim[q])' <=> HalfHeard(p, claim[q])
          /\ HalfAnswered(p, claim[q])' <=> HalfAnswered(p, claim[q])
          /\ ~ HalfAnswered(p, claim[q])
      BY <1>1, <3>1 DEF Heard, Answered, HalfHeard, HalfAnswered, Hears, Answers
    <3> QED
      BY <1>1, <1>2, <3>2, <3>3, <3>4, LinkFrame
  <2>6. \A h \in Proc : ~ Serves(h, p)
    BY <2>1, Types DEF Serves, StreamsTrue
  <2> QED
    BY <1>1, <1>2, <1>3, <1>4, <1>5, <1>7, <2>1, <2>3, <2>4, <2>5, <2>6, OneActs
<1>8. CASE ~ IsHub(p)
  <2>1. IsSpoke(p) /\ hub[p] # NoProc
    BY <1>1, <1>8 DEF StreamsTrue
  <2>2. hub[p] \in Proc /\ hub[p] # p
    BY <2>1, HubIsOther
  <2>3. \A q \in Proc : hub[q] # p
    BY <1>8, Types DEF StreamsTrue
  <2>4. Told(p) /\ down[p] = <<>>
    BY <1>1, <2>1 DEF Told, SpokeOf, DeadPc
  <2>5. Agreed(hub[p], done[p])'
    <3>1. Agreed(hub[p], done[p] + 1) /\ done[p] + 1 \in Nat
      BY <1>4, <2>1, <2>4 DEF SpokeOf
    <3> QED
      BY <1>1, <1>3, <1>4, <2>2, <3>1, AgreedKept
  <2>6. SpokeOf(p)'
    <3>1. hub'[p] # NoProc /\ peers'[hub'[p]][claim'[p]] = p
      BY <1>1, <2>1, <2>4 DEF SpokeOf
    <3> QED
      BY <1>1, <2>4, <2>5, <3>1 DEF SpokeOf, Told, DeadPc, Agreed, Whole
  <2>7. ASSUME NEW h \in Proc, Serves(h, p)
        PROVE  UpOf(h, p)' /\ DownOf(h, p)'
    <3>1. UpOf(h, p) /\ DownOf(h, p) /\ h # p
      BY <2>2, <2>7 DEF LinksTrue, Serves
    <3>2. pc'[h] = pc[h] /\ peer'[h] = peer[h] /\ done'[h] = done[h]
      BY <1>1, <1>2, <3>1
    <3>3. /\ Heard(h, claim[p])' = Heard(h, claim[p]) /\ Answered(h, claim[p])' = Answered(h, claim[p])
          /\ HalfHeard(h, claim[p])' <=> HalfHeard(h, claim[p])
          /\ HalfAnswered(h, claim[p])' <=> HalfAnswered(h, claim[p])
      BY <1>1, <3>2, HubSame
    <3>4. entered[p] = Heard(h, claim[p]) /\ up[p] = <<>> /\ ~ HalfHeard(h, claim[p])
      BY <1>1, <3>1 DEF UpOf, DeadPc
    <3>5. UpOf(h, p)'
      BY <1>1, <2>1, <3>3, <3>4 DEF UpOf
    <3>6. ~ HalfAnswered(h, claim[p]) /\ done[p] + 1 = Answered(h, claim[p])
      BY <1>1, <3>1 DEF DownOf, DeadPc
    <3>7. DownOf(h, p)'
      BY <1>1, <2>4, <3>3, <3>6 DEF DownOf, DeadPc
    <3> QED
      BY <3>5, <3>7
  <2>8. \A q \in Proc : ~ Serves(p, q)'
    BY <1>1, <2>3 DEF Serves
  <2> QED
    BY <1>1, <1>2, <1>3, <1>4, <1>5, <1>8, <2>1, <2>3, <2>6, <2>7, <2>8, OneActs DEF DeadPc
<1> QED
  BY <1>7, <1>8

LEMMA SendKeeps ==
  ASSUME IInv, NEW p \in Proc, Send(p)
  PROVE  IInv'
<1> USE DEF IInv, setting, streams
<1>1. /\ UNCHANGED <<claim, program, listener, backlog, hub, peers, down, peer, buf, entered, done>>
      /\ pc[p] \in {"header", "payload"} /\ ~ IsHub(p)
      /\ \A q \in Proc : q # p => pc'[q] = pc[q] /\ up'[q] = up[q]
  BY DEF Send, TypeOK, Fails
<1>2. /\ Header(p) = program[p][done[p] + 1] /\ Op(p) = Header(p) /\ Header(p) \in Op0
      /\ entered[p] = done[p] + 1
  BY <1>1, InCall, HeaderIsOp DEF CallPc
<1>3. IsSpoke(p) /\ hub[p] # NoProc
  BY <1>1 DEF StreamsTrue
<1>4. hub[p] \in Proc /\ hub[p] # p
  BY <1>3, HubIsOther
<1>5. buf[p] = {p} /\ down[p] = <<>>
  BY <1>1, <1>3 DEF SpokeOf
<1>6. CASE HubGone(p)
  <2>1. UNCHANGED up /\ pc' = [pc EXCEPT ![p] = "failed"]
    BY <1>6 DEF Send, Fails
  <2>2. TypeOK'
    BY <1>1, <2>1 DEF TypeOK
  <2> QED
    BY <1>1, <2>1, <2>2, Die DEF TypeOK
<1>7. CASE ~ HubGone(p)
  <2> DEFINE x == IF pc[p] = "header" THEN Header(p) ELSE [data |-> {p}]
  <2>1. /\ Len(up[p]) < Capacity /\ up'[p] = Append(up[p], x)
        /\ pc'[p] = IF pc[p] = "header" /\ Header(p).len > 0 THEN "payload" ELSE "answer"
    <3>1. pc' = [pc EXCEPT ![p] = IF pc[p] = "header" /\ Op(p).len > 0 THEN "payload" ELSE "answer"]
      BY <1>7 DEF Send
    <3>2. /\ Len(up[p]) < Capacity
          /\ up' = [up EXCEPT ![p] = Append(@, IF pc[p] = "header" THEN Header(p) ELSE [data |-> buf[p]])]
      BY <1>7 DEF Send
    <3>3. up'[p] = Append(up[p], IF pc[p] = "header" THEN Header(p) ELSE [data |-> {p}])
      BY <1>5, <3>2 DEF TypeOK
    <3> QED
      BY <1>2, <3>1, <3>2, <3>3 DEF TypeOK
  <2>2. x \in Frame
    <3>1. [data |-> {p}] \in [data : SUBSET Proc]
      OBVIOUS
    <3> QED
      BY <1>2, <3>1 DEF Frame
  <2> HIDE DEF x
  <2>3. TypeOK'
    <3>1. pc' \in [Proc -> {"start", "accept", "call", "header", "payload", "answer", "result",
                            "returning", "ended", "failed", "gone"}]
      BY <1>7 DEF Send, TypeOK
    <3>2. up[p] \in Seq(Frame)
      BY DEF TypeOK
    <3>3. up'[p] \in Seq(Frame) /\ Len(up'[p]) = Len(up[p]) + 1
      BY <2>1, <2>2, <3>2, AppendProperties
    <3>4. Len(up'[p]) <= Capacity
      <4>1. Len(up[p]) \in Nat /\ Capacity \in Int
        BY <3>2, LenProperties, WorldAssumption
      <4> QED
        BY <2>1, <3>3, <4>1, SMT
    <3>5. up' \in [Proc -> Seq(Frame)]
      BY <1>1, <1>7, <3>3 DEF Send, TypeOK
    <3> QED
      BY <1>1, <3>1, <3>4, <3>5 DEF TypeOK
  <2>4. CallsOf(p)'
    BY <1>1, <1>2, <2>1 DEF CallsOf, IsHub, IsSpoke, CallPc
  <2>5. SpokeOf(p)'
    <3>1. SpokeOf(p) /\ ~ Told(p) /\ ~ Told(p)' /\ pc'[p] \in {"payload", "answer"} /\ (pc'[p] = "payload" => pc[p] = "header")
      BY <1>1, <1>3, <1>5, <2>1 DEF Told
    <3>2. done[p] > 0 => hub[p] # NoProc /\ peers[hub[p]][claim[p]] = p /\ Agreed(hub[p], done[p])'
      BY <1>1, <3>1 DEF SpokeOf, Agreed, Whole
    <3> QED
      BY <1>1, <1>5, <3>1, <3>2 DEF SpokeOf, Agreed
  <2>6. ASSUME NEW h \in Proc, Serves(h, p)
        PROVE  UpOf(h, p)' /\ DownOf(h, p)'
    <3>1. UpOf(h, p) /\ DownOf(h, p) /\ h # p
      BY <1>4, <2>6 DEF LinksTrue, Serves
    <3>2. pc'[h] = pc[h] /\ peer'[h] = peer[h] /\ done'[h] = done[h]
      BY <1>1, <3>1
    <3>3. /\ Heard(h, claim[p])' = Heard(h, claim[p]) /\ Answered(h, claim[p])' = Answered(h, claim[p])
          /\ HalfHeard(h, claim[p])' <=> HalfHeard(h, claim[p])
          /\ HalfAnswered(h, claim[p])' <=> HalfAnswered(h, claim[p])
      BY <1>1, <3>2, HubSame
    <3> DEFINE k == Heard(h, claim[p])
               o == program[p][k + 1]
               d == [data |-> {p}]
    <3>4. entered[p] = k + 1 /\ k = done[p] /\ o = Header(p)
      <4>1. k \in Nat /\ done[p] \in Nat
        BY Types DEF Heard
      <4>2. entered[p] = k + 1
        BY <1>1, <3>1 DEF UpOf, DeadPc
      <4> HIDE DEF k
      <4>3. k = done[p]
        BY <1>2, <4>1, <4>2, SMT
      <4> QED
        BY <1>2, <4>2, <4>3
    <3> HIDE DEF k
    <3>5. UpOf(h, p)'
      <4>1. CASE pc[p] = "header"
        <5>1. up[p] = <<>> /\ ~ HalfHeard(h, claim[p])
          BY <3>1, <4>1 DEF UpOf, DeadPc
        <5>2. up'[p] = <<o>>
          BY <2>1, <3>4, <4>1, <5>1, Short DEF x
        <5> QED
          BY <1>1, <2>1, <3>3, <3>4, <4>1, <5>1, <5>2 DEF UpOf, k
      <4>2. CASE pc[p] = "payload" /\ ~ HalfHeard(h, claim[p])
        <5>1. up[p] = <<o>> /\ o.len > 0
          BY <3>1, <4>2 DEF UpOf, DeadPc, k
        <5>2. up'[p] = <<o, d>>
          <6>1. x = d /\ up'[p] = Append(<<o>>, x)
            BY <2>1, <4>2, <5>1 DEF x
          <6> QED
            BY <6>1, Append2
        <5> QED
          BY <1>1, <2>1, <3>3, <3>4, <4>2, <5>1, <5>2 DEF UpOf, k
      <4>3. CASE pc[p] = "payload" /\ HalfHeard(h, claim[p])
        <5>1. up[p] = <<>> /\ o = program[h][k + 1]
          BY <3>1, <4>3 DEF UpOf, DeadPc, k
        <5>2. up'[p] = <<d>>
          BY <2>1, <4>3, <5>1, Short DEF x
        <5> QED
          BY <1>1, <2>1, <3>3, <3>4, <4>3, <5>1, <5>2 DEF UpOf, k
      <4> QED
        BY <1>1, <4>1, <4>2, <4>3
    <3>6. DownOf(h, p)'
      BY <1>1, <2>1, <3>1, <3>3 DEF DownOf, DeadPc
    <3> QED
      BY <3>5, <3>6
  <2>7. \A q \in Proc : ~ Serves(p, q)' /\ hub[q] # p
    BY <1>1, Types DEF Serves, StreamsTrue, IsHub
  <2>8. entered'[p] >= entered[p]
    BY <1>1, Types
  <2> QED
    BY <1>1, <1>3, <2>1, <2>3, <2>4, <2>5, <2>6, <2>7, <2>8, OneActs DEF DeadPc
<1> QED
  BY <1>6, <1>7

(* A spoke that is answered has been heard.                                *)
LEMMA ToldIsHeard ==
  ASSUME IInv, NEW p \in Proc, NEW h \in Proc, Serves(h, p),
         pc[p] \in {"answer", "result"}, down[p] # <<>>
  PROVE  /\ entered[p] = Heard(h, claim[p]) /\ up[p] = <<>> /\ ~ HalfHeard(h, claim[p])
         /\ \/ /\ HalfAnswered(h, claim[p]) /\ done[p] = done[h] /\ pc[p] = "answer"
               /\ down[p] = <<program[h][done[h] + 1]>>
            \/ ~ HalfAnswered(h, claim[p]) /\ done[p] + 1 = Answered(h, claim[p])
<1> USE DEF IInv
<1>1. UpOf(h, p) /\ DownOf(h, p)
  BY DEF LinksTrue
<1>2. entered[p] = done[p] + 1 /\ done[p] \in Nat /\ done[h] \in Nat /\ entered[p] \in Nat
  BY InCall, Types DEF CallPc
<1>3. \/ /\ HalfAnswered(h, claim[p]) /\ done[p] = done[h] /\ pc[p] = "answer"
         /\ down[p] = <<program[h][done[h] + 1]>>
      \/ ~ HalfAnswered(h, claim[p]) /\ done[p] + 1 = Answered(h, claim[p])
  BY <1>1 DEF DownOf, DeadPc
<1> DEFINE k == Heard(h, claim[p])
           a == Answered(h, claim[p])
<1>4. k \in {done[h], done[h] + 1} /\ a \in {done[h], done[h] + 1} /\ (a # done[h] => k # done[h])
      /\ (HalfAnswered(h, claim[p]) => k = done[h] + 1)
  BY <1>2 DEF Heard, Answered, HalfAnswered, Answers
<1>5. entered[p] = k \/ entered[p] = k + 1
  BY <1>1 DEF UpOf
<1> HIDE DEF k, a
<1>6. entered[p] = k
  <2>1. CASE HalfAnswered(h, claim[p])
    <3>1. entered[p] = done[h] + 1
      BY <1>2, <1>3, <2>1
    <3> QED
      BY <1>4, <2>1, <3>1
  <2>2. CASE ~ HalfAnswered(h, claim[p])
    <3>1. done[p] + 1 = a
      BY <1>3, <2>2 DEF a
    <3> QED
      BY <1>2, <1>4, <1>5, <3>1, SMT
  <2> QED
    BY <2>1, <2>2
<1>7. k # k + 1
  BY <1>2, <1>4, SMT
<1>8. up[p] = <<>> /\ ~ HalfHeard(h, claim[p])
  BY <1>1, <1>6, <1>7 DEF UpOf, k
<1> QED
  BY <1>3, <1>6, <1>8 DEF k

LEMMA SpokeAnswered ==
  ASSUME NEW q \in Proc, NEW o, NEW w, NEW W, program'[q][done'[q] + 1] = o,
         W = World(hub[q])', w = [data |-> W],
         hub'[q] # NoProc /\ peers'[hub'[q]][claim'[q]] = q,
         done'[q] > 0 => Agreed(hub[q], done[q])', Agreed(hub[q], done[q] + 1)',
         pc'[q] = "result" \/ pc'[q] = "returning",
         pc'[q] = "returning" => down'[q] = <<>>,
         pc'[q] = "result" => o.len > 0,
         pc'[q] = "result" => down'[q] = <<>> \/ down'[q] = <<w>>,
         pc'[q] = "returning" /\ o.len > 0 => buf'[q] = W
  PROVE  SpokeOf(q)'
<1>1. CASE pc'[q] = "result"
  BY <1>1 DEF SpokeOf
<1>2. CASE pc'[q] = "returning"
  BY <1>2 DEF SpokeOf
<1> QED
  BY <1>1, <1>2

LEMMA ReceiveKeeps ==
  ASSUME IInv, NEW p \in Proc, Receive(p)
  PROVE  IInv'
<1> USE DEF IInv, setting, streams
<1>1. /\ UNCHANGED <<claim, program, listener, backlog, hub, peers, up, peer, entered, done>>
      /\ pc[p] \in {"answer", "result"} /\ ~ IsHub(p)
      /\ \A q \in Proc : q # p => pc'[q] = pc[q] /\ down'[q] = down[q] /\ buf'[q] = buf[q]
  BY DEF Receive, TypeOK, Fails
<1>2. /\ Header(p) = program[p][done[p] + 1] /\ Header(p) \in Op0
      /\ entered[p] = done[p] + 1 /\ entered[p] <= Len(program[p])
  BY <1>1, InCall, HeaderIsOp DEF CallPc, CallsOf
<1>3. IsSpoke(p) /\ hub[p] # NoProc
  BY <1>1 DEF StreamsTrue
<1>4. hub[p] \in Proc /\ hub[p] # p
  BY <1>3, HubIsOther
<1>5. CASE down[p] = <<>>
  <2>1. UNCHANGED <<down, buf>> /\ pc' = [pc EXCEPT ![p] = "failed"]
    BY <1>5 DEF Receive, Fails
  <2>2. TypeOK'
    BY <1>1, <2>1 DEF TypeOK
  <2> QED
    BY <1>1, <2>1, <2>2, Die DEF TypeOK
<1>6. CASE down[p] # <<>>
  <2> DEFINE o == Header(p)
             w == [data |-> World(hub[p])]
             x == Head(down[p])
  <2>1. Told(p) /\ Agreed(hub[p], done[p] + 1)
    BY <1>1, <1>3, <1>6 DEF Told, SpokeOf, DeadPc
  <2>2. World(hub[p]) \in SUBSET Proc
    BY <1>4, <2>1, Types DEF World, Agreed, Whole
  <2>3. /\ pc[p] = "answer" => down[p] = <<o>> \/ (down[p] = <<o, w>> /\ o.len > 0)
        /\ pc[p] = "result" => down[p] = <<w>> /\ o.len > 0
    BY <1>1, <1>2, <1>3, <1>6 DEF SpokeOf
  <2> HIDE DEF o, w
  <2>4. /\ pc[p] = "answer" => x = o /\ (down[p] = <<o>> => Tail(down[p]) = <<>>) /\ (down[p] = <<o, w>> => Tail(down[p]) = <<w>>)
        /\ pc[p] = "result" => x = w /\ Tail(down[p]) = <<>>
    <3>1. Head(<<o>>) = o /\ Tail(<<o>>) = <<>> /\ Head(<<w>>) = w /\ Tail(<<w>>) = <<>>
      BY Short
    <3>2. Head(<<o, w>>) = o /\ Tail(<<o, w>>) = <<w>>
      BY Short
    <3> QED
      BY <2>3, <3>1, <3>2 DEF x
  <2> HIDE DEF x
  <2>5. down' = [down EXCEPT ![p] = Tail(@)] /\ down'[p] = Tail(down[p])
    BY <1>6 DEF Receive, TypeOK
  <2>6. /\ pc'[p] = IF pc[p] = "answer" /\ o.len > 0 THEN "result" ELSE "returning"
        /\ down'[p] = <<>> \/ (down'[p] = <<w>> /\ pc'[p] = "result")
        /\ pc'[p] = "returning" /\ o.len > 0 => buf'[p] = World(hub[p])
        /\ \/ pc' = [pc EXCEPT ![p] = "result"]
           \/ pc' = [pc EXCEPT ![p] = "returning"]
        /\ (buf' = buf \/ buf' = [buf EXCEPT ![p] = World(hub[p])])
    <3>1. CASE pc[p] = "answer"
      <4>1. /\ buf' = buf
            /\ o.len > 0 => pc' = [pc EXCEPT ![p] = "result"]
            /\ ~ (o.len > 0) => pc' = [pc EXCEPT ![p] = "returning"]
        BY <1>6, <2>4, <3>1 DEF Receive, x, o
      <4>2. pc'[p] = IF o.len > 0 THEN "result" ELSE "returning"
        BY <4>1 DEF TypeOK
      <4>3. down'[p] = <<>> \/ (down'[p] = <<w>> /\ o.len > 0)
        BY <2>3, <2>4, <2>5, <3>1
      <4>4. CASE o.len > 0
        BY <3>1, <4>1, <4>2, <4>3, <4>4
      <4>5. CASE ~ (o.len > 0)
        BY <3>1, <4>1, <4>2, <4>3, <4>5
      <4> QED
        BY <4>4, <4>5
    <3>2. CASE pc[p] = "result"
      <4>1. buf' = [buf EXCEPT ![p] = w.data] /\ pc' = [pc EXCEPT ![p] = "returning"]
        BY <1>6, <2>4, <3>2 DEF Receive, x
      <4>2. pc'[p] = "returning" /\ down'[p] = <<>> /\ w.data = World(hub[p])
        BY <2>4, <2>5, <3>2, <4>1 DEF TypeOK, w
      <4>3. buf'[p] = World(hub[p]) /\ buf' = [buf EXCEPT ![p] = World(hub[p])]
        BY <4>1, <4>2 DEF TypeOK
      <4> QED
        BY <3>2, <4>1, <4>2, <4>3
    <3> QED
      BY <1>1, <3>1, <3>2
  <2>7. TypeOK'
    <3>1. pc' \in [Proc -> {"start", "accept", "call", "header", "payload", "answer", "result",
                            "returning", "ended", "failed", "gone"}]
      BY <2>6 DEF TypeOK
    <3>2. buf' \in [Proc -> SUBSET Proc]
      BY <2>2, <2>6 DEF TypeOK
    <3>3. down[p] \in Seq(Frame) /\ Capacity \in Nat
      BY WorldAssumption DEF TypeOK
    <3>4. down'[p] \in Seq(Frame) /\ Len(down'[p]) = Len(down[p]) - 1 /\ Len(down[p]) \in Nat
      BY <1>6, <2>5, <3>3, HeadTailProperties, LenProperties
    <3>5. down' \in [Proc -> Seq(Frame)]
      BY <2>5, <3>4 DEF TypeOK
    <3>6. Len(down'[p]) <= Capacity
      <4>1. Len(down[p]) <= Capacity
        BY DEF TypeOK
      <4> QED
        BY <3>3, <3>4, <4>1, SMT
    <3> QED
      BY <1>1, <3>1, <3>2, <3>5, <3>6 DEF TypeOK
  <2>8. CallsOf(p)'
    BY <1>1, <1>2, <2>6 DEF CallsOf, IsHub, IsSpoke, CallPc
  <2>9. SpokeOf(p)'
    <3>1. \A q \in Proc : entered'[q] >= entered[q]
      BY <1>1, Types
    <3>2. done[p] > 0 => Agreed(hub[p], done[p])'
      BY <1>1, <1>3, <1>4, <2>7, <3>1, AgreedKept, Types DEF SpokeOf
    <3>3. Agreed(hub[p], done[p] + 1)'
      <4>1. done[p] + 1 \in Nat
        BY Types
      <4> QED
        BY <1>1, <1>4, <2>1, <2>7, <3>1, <4>1, AgreedKept
    <3>4. hub'[p] # NoProc /\ peers'[hub'[p]][claim'[p]] = p
      BY <1>1, <1>3, <2>1 DEF SpokeOf
    <3>5. World(hub[p])' = World(hub[p])
      BY <1>1 DEF World
    <3>6. program'[p][done'[p] + 1] = o
      BY <1>1, <1>2 DEF o
    <3>7. pc'[p] = "result" => o.len > 0
      BY <2>6
    <3>8. (pc'[p] = "result" \/ pc'[p] = "returning") /\ (pc'[p] = "returning" => down'[p] = <<>>)
      BY <2>6
    <3>9. pc'[p] = "result" => down'[p] = <<>> \/ down'[p] = <<w>>
      BY <2>6
    <3>10. pc'[p] = "returning" /\ o.len > 0 => buf'[p] = World(hub[p])
      BY <2>6
    <3>11. w = [data |-> World(hub[p])]
      BY DEF w
    <3>12. done'[p] = done[p]
      BY <1>1
    <3> QED
      BY <3>2, <3>3, <3>4, <3>5, <3>6, <3>7, <3>8, <3>9, <3>10, <3>11, <3>12, SpokeAnswered
  <2>10. ASSUME NEW h \in Proc, Serves(h, p)
         PROVE  UpOf(h, p)' /\ DownOf(h, p)'
    <3>1. h # p
      BY <1>4, <2>10 DEF Serves
    <3>2. pc'[h] = pc[h] /\ peer'[h] = peer[h] /\ done'[h] = done[h]
      BY <1>1, <3>1
    <3>3. /\ Heard(h, claim[p])' = Heard(h, claim[p]) /\ Answered(h, claim[p])' = Answered(h, claim[p])
          /\ HalfHeard(h, claim[p])' <=> HalfHeard(h, claim[p])
          /\ HalfAnswered(h, claim[p])' <=> HalfAnswered(h, claim[p])
      BY <1>1, <3>2, HubSame
    <3>4. /\ entered[p] = Heard(h, claim[p]) /\ up[p] = <<>> /\ ~ HalfHeard(h, claim[p])
          /\ \/ /\ HalfAnswered(h, claim[p]) /\ done[p] = done[h] /\ pc[p] = "answer"
                /\ down[p] = <<program[h][done[h] + 1]>>
             \/ ~ HalfAnswered(h, claim[p]) /\ done[p] + 1 = Answered(h, claim[p])
      BY <1>1, <1>6, <2>10, ToldIsHeard
    <3>5. UpOf(h, p)'
      BY <1>1, <2>6, <3>3, <3>4 DEF UpOf
    <3>6. CASE HalfAnswered(h, claim[p])
      <4> DEFINE oh == program[h][done[h] + 1]
      <4>1. pc[p] = "answer" /\ done[p] = done[h] /\ down[p] = <<oh>>
        BY <3>4, <3>6
      <4>2. oh.len > 0
        BY <2>10, <3>6 DEF Serves, RoundOf, HalfAnswered
      <4> HIDE DEF oh
      <4>3. x = oh /\ Tail(down[p]) = <<>>
        BY <4>1, Short DEF x
      <4>4. pc'[p] = "result" /\ down'[p] = <<>>
        BY <2>4, <2>5, <2>6, <4>1, <4>2, <4>3
      <4> QED
        BY <1>1, <3>2, <3>3, <3>5, <3>6, <4>1, <4>4 DEF DownOf
    <3>7. CASE ~ HalfAnswered(h, claim[p])
      BY <1>1, <3>3, <3>4, <3>5, <3>7 DEF DownOf
    <3> QED
      BY <3>6, <3>7
  <2>11. \A q \in Proc : ~ Serves(p, q)' /\ hub[q] # p
    BY <1>1, Types DEF Serves, StreamsTrue, IsHub
  <2>12. entered'[p] >= entered[p]
    BY <1>1, Types
  <2> QED
    BY <1>1, <1>3, <2>6, <2>7, <2>8, <2>9, <2>10, <2>11, <2>12, OneActs DEF DeadPc
<1> QED
  BY <1>5, <1>6

(* A hub in a call: nobody serves it, and only its spokes see what it does. *)
LEMMA HubActs ==
  ASSUME IInv, TypeOK', NEW p \in Proc, IsHub(p), pc[p] \in CallPc,
         UNCHANGED <<claim, program, listener, backlog, hub, peers, entered>>,
         \A q \in Proc : q # p =>
           /\ pc'[q] = pc[q] /\ peer'[q] = peer[q] /\ buf'[q] = buf[q] /\ done'[q] = done[q]
           /\ hub[q] # p => up'[q] = up[q] /\ down'[q] = down[q],
         pc'[p] \in CallPc, done'[p] = done[p], peer'[p] \in Spokes, RoundOf(p)',
         \A q \in Proc : hub[q] = p => SpokeOf(q)',
         \A q \in Proc : hub[q] = p /\ peers[p][claim[q]] = q => UpOf(p, q)' /\ DownOf(p, q)'
  PROVE  IInv'
<1> USE DEF IInv
<1>1. ~ IsSpoke(p)
  BY Types
<1>2. \A h \in Proc : ~ Serves(h, p)
  BY <1>1, Types DEF Serves, StreamsTrue
<1>3. CallsOf(p)'
  <2>1. entered[p] = done[p] + 1 /\ entered[p] <= Len(program[p]) /\ entered[p] > 0
    BY Types DEF CallsOf
  <2>2. Whole(p)
    BY <2>1 DEF CallsOf
  <2> QED
    BY <2>1, <2>2 DEF CallsOf, CallPc, IsHub, Whole
<1>4. \A q \in Proc : Serves(p, q)' => UpOf(p, q)' /\ DownOf(p, q)'
  BY DEF Serves, CallPc
<1>5. entered'[p] >= entered[p] /\ pc'[p] # "start" /\ pc'[p] # "accept"
  BY Types DEF CallPc
<1>6. \A q \in Proc : q # p => entered'[q] = entered[q]
  OBVIOUS
<1> QED
  BY <1>1, <1>2, <1>3, <1>4, <1>5, <1>6, OneActs

(* The peer a hub in a call is at.                                         *)
LEMMA AtPeer ==
  ASSUME IInv, NEW p \in Proc, IsHub(p), pc[p] \in Hears \cup Answers
  PROVE  /\ peer[p] \in Spokes /\ peers[p][peer[p]] \in Proc /\ Whole(p)
         /\ \A r \in Spokes : LET q == peers[p][r]
                              IN  /\ q \in Proc /\ claim[q] = r /\ hub[q] = p /\ q # p
                                  /\ IsSpoke(q) /\ Serves(p, q) /\ UpOf(p, q) /\ DownOf(p, q)
<1> USE DEF IInv
<1>1. pc[p] \in CallPc /\ pc[p] \notin DeadPc
  BY DEF CallPc, Hears, Answers, DeadPc
<1>2. entered[p] > 0
  BY <1>1, InCall, Types
<1>3. peer[p] \in Spokes /\ Whole(p)
  BY <1>2 DEF CallsOf
<1>4. ASSUME NEW r \in Spokes
      PROVE  LET q == peers[p][r]
             IN  /\ q \in Proc /\ claim[q] = r /\ hub[q] = p /\ q # p
                 /\ IsSpoke(q) /\ Serves(p, q) /\ UpOf(p, q) /\ DownOf(p, q)
  <2>1. peers[p][r] # NoProc /\ peers[p][r] \in Proc
    BY <1>3, Types DEF Whole
  <2>2. claim[peers[p][r]] = r /\ hub[peers[p][r]] = p
    BY <2>1 DEF StreamsTrue
  <2>3. peers[p][r] # p /\ IsSpoke(peers[p][r])
    BY <2>2, Types DEF IsSpoke
  <2>4. Serves(p, peers[p][r])
    BY <1>1, <2>2 DEF Serves
  <2> QED
    BY <2>1, <2>2, <2>3, <2>4 DEF LinksTrue
<1> QED
  BY <1>3, <1>4

(* The hub has heard a peer: on to the next.                               *)
LEMMA HeardKeeps ==
  ASSUME IInv, TypeOK', NEW p \in Proc, IsHub(p), pc[p] \in Hears,
         NEW q, q = peers[p][peer[p]],
         UNCHANGED <<claim, program, listener, backlog, hub, peers, entered, down, done>>,
         \A s \in Proc : s # p => /\ pc'[s] = pc[s] /\ peer'[s] = peer[s] /\ buf'[s] = buf[s]
                                  /\ s # q => up'[s] = up[s],
         up'[q] = <<>>, up'[p] = up[p],
         peer'[p] = IF peer[p] = WorldSize - 1 THEN 1 ELSE peer[p] + 1,
         pc'[p] = IF peer[p] = WorldSize - 1 THEN "header" ELSE "answer",
         entered[q] = done[p] + 1, program[q][done[p] + 1] = program[p][done[p] + 1],
         pc[q] \in {"answer"} \cup DeadPc,
         program[p][done[p] + 1].len > 0 => buf'[p] = buf[p] \cup {q}
  PROVE  IInv'
<1> USE DEF IInv
<1> DEFINE r == peer[p]
<1>1. r \in Spokes /\ q \in Proc /\ claim[q] = r /\ hub[q] = p /\ q # p /\ IsSpoke(q) /\ Whole(p)
  BY AtPeer
<1>2. WorldSize \in Nat /\ r \in Nat /\ r >= 1 /\ r <= WorldSize - 1
  BY <1>1, SMT, WorldAssumption DEF Spokes
<1>3. pc[p] \in CallPc /\ pc'[p] \in CallPc /\ done[p] \in Nat
  BY Types DEF CallPc, Hears
<1>4. peer'[p] \in Spokes
  BY <1>2, SMT DEF Spokes
<1>5. \A s \in Spokes : /\ Heard(p, s)' = IF s = r THEN done[p] + 1 ELSE Heard(p, s)
                        /\ HalfHeard(p, s)' = FALSE /\ (s # r => HalfHeard(p, s) = FALSE)
                        /\ Answered(p, s)' = done[p] /\ Answered(p, s) = done[p]
                        /\ HalfAnswered(p, s)' = FALSE /\ HalfAnswered(p, s) = FALSE
  <2> SUFFICES ASSUME NEW s \in Spokes
               PROVE /\ Heard(p, s)' = IF s = r THEN done[p] + 1 ELSE Heard(p, s)
                     /\ HalfHeard(p, s)' = FALSE /\ (s # r => HalfHeard(p, s) = FALSE)
                     /\ Answered(p, s)' = done[p] /\ Answered(p, s) = done[p]
                     /\ HalfAnswered(p, s)' = FALSE /\ HalfAnswered(p, s) = FALSE
    OBVIOUS
  <2>1. s \in Nat /\ s >= 1 /\ s <= WorldSize - 1
    BY <1>2, SMT DEF Spokes
  <2>2. /\ r = WorldSize - 1 => (s < r <=> s # r) /\ ~ (s < 1)
        /\ s < r + 1 <=> (s < r \/ s = r)
    BY <1>2, <2>1, SMT
  <2>3. Answered(p, s)' = done[p] /\ Answered(p, s) = done[p]
    BY <2>2 DEF Answered, Hears, Answers
  <2>4. Heard(p, s)' = IF s = r THEN done[p] + 1 ELSE Heard(p, s)
    <3>1. CASE r = WorldSize - 1
      BY <2>2, <3>1 DEF Heard, Hears, Answers
    <3>2. CASE r # WorldSize - 1
      BY <2>2, <3>2 DEF Heard, Hears, Answers
    <3> QED
      BY <3>1, <3>2
  <2> QED
    BY <2>3, <2>4 DEF HalfHeard, HalfAnswered, Hears
<1> HIDE DEF r
<1>6. RoundOf(p)'
  <2> DEFINE o == program[p][done[p] + 1]
             H == {i \in Spokes : Heard(p, i) = done[p] + 1}
             G == {i \in Spokes : Heard(p, i)' = done[p] + 1}
  <2>1. done[p] > 0 => Agreed(p, done[p])'
    BY DEF RoundOf, Agreed, Whole
  <2>2. \A s \in Spokes : s \in G <=> s \in H \/ s = r
    BY <1>1, <1>5
  <2>3. \A s \in G : entered[peers[p][s]] >= done[p] + 1 /\ program[peers[p][s]][done[p] + 1] = o
    <3> SUFFICES ASSUME NEW s \in G
                 PROVE  entered[peers[p][s]] >= done[p] + 1 /\ program[peers[p][s]][done[p] + 1] = o
      OBVIOUS
    <3>1. CASE s = r
      <4>1. done[p] + 1 >= done[p] + 1
        BY <1>3
      <4> QED
        BY <3>1, <4>1 DEF r
    <3>2. CASE s # r
      BY <1>3, <2>2, <3>2 DEF RoundOf
    <3> QED
      BY <3>1, <3>2
  <2>4. o.len > 0 => buf'[p] = {p} \cup {peers[p][s] : s \in G}
    <3>1. o.len > 0 => buf[p] = {p} \cup {peers[p][s] : s \in H}
      BY <1>3 DEF RoundOf
    <3>2. {peers[p][s] : s \in G} = {peers[p][s] : s \in H} \cup {q}
      BY <1>1, <2>2 DEF r
    <3> QED
      BY <3>1, <3>2
  <2> QED
    BY <1>3, <2>1, <2>3, <2>4 DEF RoundOf
<1>7. ASSUME NEW s \in Proc, hub[s] = p
      PROVE  SpokeOf(s)'
  <2>1. IsSpoke(s) /\ s # p
    BY <1>7, Types DEF StreamsTrue
  <2>2. \A x \in Proc : entered'[x] >= entered[x]
    BY Types
  <2> QED
    BY <2>1, <2>2, SpokesSame
<1>8. ASSUME NEW s \in Proc, hub[s] = p, peers[p][claim[s]] = s
      PROVE  UpOf(p, s)' /\ DownOf(p, s)'
  <2>1. claim[s] \in Spokes /\ s # p
    BY <1>8, Types DEF StreamsTrue, IsSpoke
  <2>2. UpOf(p, s) /\ DownOf(p, s)
    BY <1>8, <2>1, AtPeer
  <2>3. CASE s = q
    <3>1. UpOf(p, s)'
      BY <1>1, <1>5, <2>3 DEF UpOf, DeadPc
    <3>2. DownOf(p, s)'
      BY <1>1, <1>5, <2>1, <2>2, <2>3 DEF DownOf
    <3> QED
      BY <3>1, <3>2
  <2>4. CASE s # q
    <3>1. claim[s] # r
      BY <1>8, <2>4 DEF r
    <3>2. /\ Heard(p, claim[s])' = Heard(p, claim[s]) /\ Answered(p, claim[s])' = Answered(p, claim[s])
          /\ HalfHeard(p, claim[s])' <=> HalfHeard(p, claim[s])
          /\ HalfAnswered(p, claim[s])' <=> HalfAnswered(p, claim[s])
      BY <1>5, <2>1, <3>1
    <3> QED
      BY <2>1, <2>2, <2>4, <3>2, LinkFrame
  <2> QED
    BY <2>3, <2>4
<1> QED
  BY <1>1, <1>3, <1>4, <1>6, <1>7, <1>8, HubActs

(* The hub has a header from a peer: its payload is next.                  *)
LEMMA HalfHeardKeeps ==
  ASSUME IInv, TypeOK', NEW p \in Proc, IsHub(p), pc[p] = "answer",
         NEW q, q = peers[p][peer[p]], NEW o, o = program[p][done[p] + 1],
         UNCHANGED <<claim, program, listener, backlog, hub, peers, entered, down, done, peer, buf>>,
         \A s \in Proc : s # p => pc'[s] = pc[s] /\ (s # q => up'[s] = up[s]),
         up'[p] = up[p], pc'[p] = "result",
         o.len > 0, program[q][done[p] + 1] = o, entered[q] = done[p] + 1,
         \/ up'[q] = <<>> /\ pc[q] \in {"payload"} \cup DeadPc
         \/ up'[q] = <<[data |-> {q}]>> /\ pc[q] \in {"answer"} \cup DeadPc
  PROVE  IInv'
<1> USE DEF IInv
<1> DEFINE r == peer[p]
<1>1. r \in Spokes /\ q \in Proc /\ claim[q] = r /\ hub[q] = p /\ q # p /\ IsSpoke(q) /\ Whole(p)
  BY AtPeer DEF Hears
<1>2. pc[p] \in CallPc /\ pc'[p] \in CallPc /\ done[p] \in Nat /\ r \in Nat
  BY <1>1, Types DEF CallPc
<1>3. \A s : /\ Heard(p, s)' = Heard(p, s)
             /\ HalfHeard(p, s)' = (s = r) /\ HalfHeard(p, s) = FALSE
             /\ Answered(p, s)' = Answered(p, s)
             /\ HalfAnswered(p, s)' = FALSE /\ HalfAnswered(p, s) = FALSE
  BY DEF Heard, HalfHeard, Answered, HalfAnswered, Hears, Answers
<1>4. Heard(p, r) = done[p]
  BY <1>2 DEF Heard, Hears, Answers
<1> HIDE DEF r
<1>5. RoundOf(p)'
  <2>1. done[p] > 0 => Agreed(p, done[p])'
    BY DEF RoundOf, Agreed, Whole
  <2> QED
    BY <1>2, <1>3, <2>1 DEF RoundOf
<1>6. ASSUME NEW s \in Proc, hub[s] = p
      PROVE  SpokeOf(s)'
  <2>1. IsSpoke(s) /\ s # p
    BY <1>6, Types DEF StreamsTrue
  <2>2. \A x \in Proc : entered'[x] >= entered[x]
    BY Types
  <2> QED
    BY <2>1, <2>2, SpokesSame
<1>7. ASSUME NEW s \in Proc, hub[s] = p, peers[p][claim[s]] = s
      PROVE  UpOf(p, s)' /\ DownOf(p, s)'
  <2>1. claim[s] \in Spokes /\ s # p
    BY <1>7, Types DEF StreamsTrue, IsSpoke
  <2>2. UpOf(p, s) /\ DownOf(p, s)
    BY <1>7, <2>1, AtPeer DEF Hears
  <2>3. CASE s = q
    <3>1. UpOf(p, s)'
      <4>1. Heard(p, claim[s])' = done[p] /\ HalfHeard(p, claim[s])'
        <5>1. claim'[s] = claim[s] /\ claim[s] = r
          BY <1>1, <2>3
        <5> QED
          BY <1>3, <1>4, <5>1
      <4>2. entered'[s] = done[p] + 1 /\ program'[s][done[p] + 1] = program'[p][done[p] + 1]
        BY <2>3
      <4> QED
        BY <2>1, <2>3, <4>1, <4>2 DEF UpOf, DeadPc
    <3>2. DownOf(p, s)'
      BY <1>1, <1>3, <2>1, <2>2, <2>3 DEF DownOf
    <3> QED
      BY <3>1, <3>2
  <2>4. CASE s # q
    <3>1. claim[s] # r
      BY <1>7, <2>4 DEF r
    <3> QED
      BY <1>3, <2>1, <2>2, <2>4, <3>1, LinkFrame
  <2> QED
    BY <2>3, <2>4
<1>8. peer'[p] \in Spokes
  BY <1>1 DEF r
<1> QED
  BY <1>1, <1>2, <1>5, <1>6, <1>7, <1>8, HubActs

LEMMA GatherKeeps ==
  ASSUME IInv, NEW p \in Proc, Gather(p)
  PROVE  IInv'
<1> USE DEF IInv, setting, streams
<1> DEFINE q == peers[p][peer[p]]
           r == peer[p]
           x == Head(up[q])
           o == program[p][done[p] + 1]
           oq == program[q][done[p] + 1]
           d == [data |-> {q}]
<1>1. /\ UNCHANGED <<claim, program, listener, backlog, hub, peers, down, entered, done>>
      /\ pc[p] \in Hears /\ IsHub(p)
      /\ \A s \in Proc : s # p => pc'[s] = pc[s] /\ peer'[s] = peer[s] /\ buf'[s] = buf[s]
  BY DEF Gather, TypeOK, Fails, Hears
<1>2. /\ r \in Spokes /\ q \in Proc /\ claim[q] = r /\ hub[q] = p /\ q # p /\ IsSpoke(q) /\ Whole(p)
      /\ UpOf(p, q) /\ up[q] \in Seq(Frame)
  BY <1>1, AtPeer DEF TypeOK
<1>3. Header(p) = o /\ o \in Op0 /\ done[p] \in Nat /\ r \in Nat
  BY <1>1, <1>2, InCall, HeaderIsOp, Types DEF CallPc, Hears
<1>4. Heard(p, r) = done[p] /\ HalfHeard(p, r) = (pc[p] = "result")
  BY <1>1, <1>3 DEF Heard, HalfHeard, Hears, Answers
<1>5. CASE up[q] = <<>>
  <2>1. UNCHANGED <<up, buf, peer>> /\ pc' = [pc EXCEPT ![p] = "failed"]
    BY <1>5 DEF Gather, Fails
  <2>2. TypeOK'
    BY <1>1, <2>1 DEF TypeOK
  <2> QED
    BY <1>1, <2>1, <2>2, Die DEF TypeOK
<1>6. CASE up[q] # <<>>
  <2>1. up' = [up EXCEPT ![q] = Tail(@)]
    BY <1>6 DEF Gather
  <2>2. up'[q] = Tail(up[q]) /\ \A s \in Proc : s # q => up'[s] = up[s]
    BY <1>2, <2>1 DEF TypeOK
  <2>3. up' \in [Proc -> Seq(Frame)] /\ \A s \in Proc : Len(up'[s]) <= Capacity
    <3>1. Tail(up[q]) \in Seq(Frame) /\ Len(Tail(up[q])) = Len(up[q]) - 1 /\ Len(up[q]) \in Nat
      BY <1>2, <1>6, HeadTailProperties, LenProperties
    <3>2. Len(up[q]) <= Capacity /\ Capacity \in Nat
      BY <1>2, WorldAssumption DEF TypeOK
    <3>3. Len(Tail(up[q])) <= Capacity
      BY <3>1, <3>2, SMT
    <3> HIDE DEF q
    <3> QED
      BY <2>1, <2>2, <3>1, <3>3 DEF TypeOK
  <2>4. entered[q] = done[p] + 1
    BY <1>2, <1>4, <1>6 DEF UpOf
  <2>7. (IF r = WorldSize - 1 THEN 1 ELSE r + 1) \in Spokes \cup {1}
    <3>1. WorldSize \in Nat /\ r >= 1 /\ r <= WorldSize - 1
      BY <1>2, SMT, WorldAssumption DEF Spokes
    <3> HIDE DEF r
    <3> QED
      BY <1>3, <3>1, SMT DEF Spokes
  <2>5. CASE pc[p] = "answer"
    <3>1. \/ /\ up[q] = <<oq>> /\ pc[q] \in {IF oq.len > 0 THEN "payload" ELSE "answer"} \cup DeadPc
          \/ /\ up[q] = <<oq, d>> /\ oq.len > 0 /\ pc[q] \in {"answer"} \cup DeadPc
      BY <1>2, <1>4, <1>6, <2>5 DEF UpOf
    <3> HIDE DEF oq, d
    <3>2. x = oq /\ (up[q] = <<oq>> => up'[q] = <<>>) /\ (up[q] = <<oq, d>> => up'[q] = <<d>>)
      <4>1. Head(<<oq>>) = oq /\ Tail(<<oq>>) = <<>> /\ Head(<<oq, d>>) = oq /\ Tail(<<oq, d>>) = <<d>>
        BY Short
      <4> QED
        BY <2>2, <3>1, <4>1
    <3> HIDE DEF x
    <3>3. buf' = buf
      BY <1>6, <2>5 DEF Gather
    <3>4. CASE x # o
      <4>1. pc' = [pc EXCEPT ![p] = "failed"]
        BY <1>3, <1>6, <2>5, <3>4 DEF Gather, x
      <4>2. peer' = [peer EXCEPT ![p] = @] /\ pc' \in [Proc -> {"start", "accept", "call", "header", "payload", "answer", "result",
                                                         "returning", "ended", "failed", "gone"}]
        BY <1>3, <1>6, <2>5, <3>4, <4>1 DEF Gather, x, TypeOK
      <4>3. TypeOK'
        <5>1. peer' \in [Proc -> Spokes \cup {1}]
          BY <4>2 DEF TypeOK
        <5> QED
          BY <1>1, <2>3, <3>3, <4>2, <5>1 DEF TypeOK
      <4>4. pc'[p] \in {"failed", "gone"}
        BY <4>1 DEF TypeOK
      <4>5. buf'[p] = buf[p] /\ up'[p] = up[p]
        BY <1>2, <2>2, <3>3
      <4>6. \A s \in Proc : s # p =>
              pc'[s] = pc[s] /\ peer'[s] = peer[s] /\ buf'[s] = buf[s] /\ (hub[s] # p => up'[s] = up[s])
        BY <1>1, <1>2, <2>2
      <4> HIDE DEF q, r
      <4> QED
        BY <1>1, <4>3, <4>4, <4>5, <4>6, Die
    <3>5. CASE x = o /\ o.len = 0
      <4>1. /\ peer' = [peer EXCEPT ![p] = IF r = WorldSize - 1 THEN 1 ELSE r + 1]
            /\ pc' = [pc EXCEPT ![p] = IF r = WorldSize - 1 THEN "header" ELSE "answer"]
        BY <1>3, <1>6, <2>5, <3>5 DEF Gather, x
      <4>2. /\ peer'[p] = IF r = WorldSize - 1 THEN 1 ELSE r + 1
            /\ pc'[p] = IF r = WorldSize - 1 THEN "header" ELSE "answer"
        BY <4>1 DEF TypeOK
      <4>3. TypeOK'
        <5>1. pc' \in [Proc -> {"start", "accept", "call", "header", "payload", "answer", "result",
                                "returning", "ended", "failed", "gone"}]
          BY <4>1 DEF TypeOK
        <5>2. peer' \in [Proc -> Spokes \cup {1}]
          BY <2>7, <4>1 DEF TypeOK
        <5> QED
          BY <1>1, <2>3, <3>3, <5>1, <5>2 DEF TypeOK
      <4>4. up'[q] = <<>> /\ pc[q] \in {"answer"} \cup DeadPc /\ ~ (o.len > 0)
        BY <3>1, <3>2, <3>5
      <4>5. oq = o /\ buf'[p] = buf[p] /\ up'[p] = up[p]
        BY <1>2, <2>2, <3>2, <3>3, <3>5
      <4> QED
        BY <1>1, <1>2, <2>2, <2>4, <4>2, <4>3, <4>4, <4>5, HeardKeeps DEF oq
    <3>6. CASE x = o /\ o.len > 0
      <4>1. peer' = [peer EXCEPT ![p] = @] /\ pc' = [pc EXCEPT ![p] = "result"]
        BY <1>3, <1>6, <2>5, <3>6 DEF Gather, x
      <4>2. peer' = peer /\ pc'[p] = "result"
        BY <4>1 DEF TypeOK
      <4>3. TypeOK'
        <5>1. pc' \in [Proc -> {"start", "accept", "call", "header", "payload", "answer", "result",
                                "returning", "ended", "failed", "gone"}]
          BY <4>1 DEF TypeOK
        <5> QED
          BY <1>1, <2>3, <3>3, <4>2, <5>1 DEF TypeOK
      <4> USE DEF oq, d
      <4>4. oq = o /\ up'[p] = up[p]
        BY <1>2, <2>2, <3>2, <3>6
      <4>5. \/ up'[q] = <<>> /\ pc[q] \in {"payload"} \cup DeadPc
            \/ up'[q] = <<d>> /\ pc[q] \in {"answer"} \cup DeadPc
        BY <3>1, <3>2, <3>6, <4>4
      <4> QED
        <5>1. q = peers[p][peer[p]] /\ o = program[p][done[p] + 1] /\ program[q][done[p] + 1] = o
          BY <4>4
        <5>2. \/ up'[q] = <<>> /\ pc[q] \in {"payload"} \cup DeadPc
              \/ up'[q] = <<[data |-> {q}]>> /\ pc[q] \in {"answer"} \cup DeadPc
          BY <4>5
        <5>3. o.len > 0 /\ up'[p] = up[p]
          BY <3>6, <4>4
        <5>4. \A s \in Proc : s # p => pc'[s] = pc[s] /\ (s # q => up'[s] = up[s])
          BY <1>1, <2>2
        <5> HIDE DEF q, o, oq, d, r, x
        <5> QED
          BY <1>1, <2>4, <2>5, <3>3, <4>2, <4>3, <5>1, <5>2, <5>3, <5>4, HalfHeardKeeps
    <3> QED
      BY <1>3, <3>4, <3>5, <3>6 DEF Op0
  <2>6. CASE pc[p] = "result"
    <3>1. /\ up[q] = <<d>> /\ pc[q] \in {"answer"} \cup DeadPc /\ oq = o
      BY <1>2, <1>4, <1>6, <2>6 DEF UpOf
    <3>2. x = d /\ x.data = {q} /\ up'[q] = <<>>
      <4>1. Head(<<d>>) = d /\ Tail(<<d>>) = <<>>
        BY Short
      <4> QED
        BY <2>2, <3>1, <4>1
    <3>3. /\ buf' = [buf EXCEPT ![p] = @ \cup x.data]
          /\ peer' = [peer EXCEPT ![p] = IF r = WorldSize - 1 THEN 1 ELSE r + 1]
          /\ pc' = [pc EXCEPT ![p] = IF r = WorldSize - 1 THEN "header" ELSE "answer"]
      BY <1>6, <2>6 DEF Gather
    <3> HIDE DEF x
    <3>4. buf'[p] = buf[p] \cup {q}
      BY <3>2, <3>3 DEF TypeOK
    <3>5. /\ peer'[p] = IF r = WorldSize - 1 THEN 1 ELSE r + 1
          /\ pc'[p] = IF r = WorldSize - 1 THEN "header" ELSE "answer"
      BY <3>3 DEF TypeOK
    <3>6. TypeOK'
      <4>1. pc' \in [Proc -> {"start", "accept", "call", "header", "payload", "answer", "result",
                              "returning", "ended", "failed", "gone"}]
        BY <3>3 DEF TypeOK
      <4>2. peer' \in [Proc -> Spokes \cup {1}]
        BY <2>7, <3>3 DEF TypeOK
      <4>3. buf' \in [Proc -> SUBSET Proc]
        BY <1>2, <3>2, <3>3 DEF TypeOK
      <4> QED
        BY <1>1, <2>3, <4>1, <4>2, <4>3 DEF TypeOK
    <3> QED
      BY <1>1, <1>2, <2>2, <2>4, <3>1, <3>2, <3>4, <3>5, <3>6, HeardKeeps
  <2> QED
    BY <1>1, <2>5, <2>6 DEF Hears
<1> QED
  BY <1>5, <1>6

Waits(p, q, o) ==
  /\ Agreed(p, done[p] + 1) /\ (o.len > 0 => buf[p] = World(p))
  /\ done[q] = done[p] /\ program[q][done[p] + 1] = o /\ (pc[p] = "payload" => o.len > 0)
  /\ UpOf(p, q) /\ down[q] \in Seq(Frame)
  /\ \/ pc[p] = "header" /\ pc[q] = "answer" /\ down[q] = <<>>
     \/ pc[p] = "payload" /\ pc[q] = "answer" /\ down[q] = <<o>>
     \/ pc[p] = "payload" /\ pc[q] = "result" /\ down[q] = <<>>

(* The peer a hub is answering waits for it, and all are agreed.           *)
LEMMA Awaited ==
  ASSUME IInv, NEW p \in Proc, IsHub(p), pc[p] \in Answers,
         NEW q, q = peers[p][peer[p]], NEW o, o = program[p][done[p] + 1], ~ Dead(q)
  PROVE  Waits(p, q, o)
<1> USE DEF IInv, Waits
<1> DEFINE r == peer[p]
<1>1. /\ r \in Spokes /\ q \in Proc /\ claim[q] = r /\ hub[q] = p /\ IsSpoke(q) /\ Whole(p)
      /\ UpOf(p, q) /\ DownOf(p, q)
  BY AtPeer
<1>2. pc[p] \in CallPc /\ entered[p] = done[p] + 1 /\ done[p] \in Nat /\ done[q] \in Nat /\ entered[q] \in Nat /\ r \in Nat
  BY <1>1, InCall, Types DEF CallPc, Answers
<1>3. \A s \in Spokes : Heard(p, s) = done[p] + 1 /\ ~ HalfHeard(p, s)
  BY DEF Heard, HalfHeard, Answers
<1>4. done[p] + 1 >= done[p] + 1
  BY <1>2, SMT
<1>5. Agreed(p, done[p] + 1)
  BY <1>1, <1>2, <1>3, <1>4 DEF RoundOf, Agreed
<1>6. o.len > 0 => buf[p] = World(p)
  <2>1. {i \in Spokes : Heard(p, i) = done[p] + 1} = Spokes
    BY <1>3
  <2> QED
    BY <1>2, <2>1 DEF RoundOf, World
<1>7. pc[p] = "payload" => o.len > 0
  BY DEF RoundOf
<1>8. entered[q] >= done[p] + 1 /\ program[q][done[p] + 1] = o
  BY <1>1, <1>5 DEF Agreed
<1>9. Answered(p, r) = done[p] /\ HalfAnswered(p, r) = (pc[p] = "payload")
  BY <1>2 DEF Answered, HalfAnswered, Answers
<1> HIDE DEF r
<1>10. entered[q] \in {done[q], done[q] + 1} /\ (pc[q] \in {"start", "call"} => entered[q] = done[q] \/ entered[q] = 0)
  BY <1>1 DEF CallsOf
<1>11. pc[q] \notin DeadPc
  BY DEF Dead, DeadPc
<1>12. CASE pc[p] = "payload"
  BY <1>1, <1>5, <1>6, <1>7, <1>8, <1>9, <1>11, <1>12 DEF DownOf, TypeOK
<1>13. CASE pc[p] = "header"
  <2>1. ~ (done[q] + 1 = done[p])
    BY <1>2, <1>8, <1>10, SMT
  <2>2. /\ done[q] = done[p] /\ down[q] = <<>>
        /\ pc[q] \in {"start", "call", "header", "payload", "answer"}
    BY <1>1, <1>9, <1>11, <1>13, <2>1 DEF DownOf
  <2>3. entered[q] = done[p] + 1 /\ entered[q] # done[q] /\ entered[q] # 0 /\ entered[q] # done[p] + 1 + 1
    BY <1>2, <1>8, <1>10, <2>2, SMT
  <2>4. pc[q] \notin {"header", "payload"}
    BY <1>1, <1>3, <2>3 DEF UpOf
  <2>5. pc[q] = "answer"
    BY <1>10, <2>2, <2>3, <2>4
  <2> QED
    BY <1>1, <1>5, <1>6, <1>7, <1>8, <1>13, <2>2, <2>5 DEF TypeOK
<1> QED
  BY <1>12, <1>13 DEF Answers

LEMMA SpokeHears ==
  ASSUME NEW q \in Proc, NEW o, NEW w, NEW W, program'[q][done'[q] + 1] = o,
         W = World(hub[q])', w = [data |-> W],
         hub'[q] # NoProc /\ peers'[hub'[q]][claim'[q]] = q,
         done'[q] > 0 => Agreed(hub[q], done[q])', Agreed(hub[q], done[q] + 1)',
         \/ pc'[q] = "answer" /\ (down'[q] = <<o>> \/ (down'[q] = <<o, w>> /\ o.len > 0))
         \/ pc'[q] = "result" /\ o.len > 0 /\ down'[q] = <<w>>
  PROVE  SpokeOf(q)'
<1>1. CASE pc'[q] = "result"
  BY <1>1 DEF SpokeOf
<1>2. CASE pc'[q] = "answer"
  BY <1>2 DEF SpokeOf
<1> QED
  BY <1>1, <1>2

(* The hub writes to a peer: the header only, or all it has to say.        *)
LEMMA AnswerKeeps ==
  ASSUME IInv, TypeOK', NEW p \in Proc, IsHub(p), pc[p] \in Answers,
         NEW q, q = peers[p][peer[p]], NEW o, o = program[p][done[p] + 1], ~ Dead(q),
         UNCHANGED <<claim, program, listener, backlog, hub, peers, entered, up, buf, done>>,
         \A s \in Proc : /\ s # p => pc'[s] = pc[s] /\ peer'[s] = peer[s]
                         /\ s # q => down'[s] = down[s],
         \/ /\ pc[p] = "header" /\ o.len > 0 /\ pc'[p] = "payload" /\ peer'[p] = peer[p]
            /\ down'[q] = <<o>>
         \/ /\ pc'[p] = IF peer[p] = WorldSize - 1 THEN "returning" ELSE "header"
            /\ peer'[p] = IF peer[p] < WorldSize - 1 THEN peer[p] + 1 ELSE peer[p]
            /\ \/ pc[p] = "header" /\ ~ (o.len > 0) /\ down'[q] = <<o>>
               \/ pc[p] = "payload" /\ pc[q] = "answer" /\ down'[q] = <<o, [data |-> buf[p]]>>
               \/ pc[p] = "payload" /\ pc[q] = "result" /\ down'[q] = <<[data |-> buf[p]]>>
  PROVE  IInv'
<1> USE DEF IInv
<1> DEFINE r == peer[p]
           half == pc'[p] = "payload"
<1>1. /\ r \in Spokes /\ q \in Proc /\ claim[q] = r /\ hub[q] = p /\ IsSpoke(q) /\ Whole(p)
      /\ UpOf(p, q) /\ DownOf(p, q) /\ q # p /\ peers[p][r] = q
  BY AtPeer
<1>2. Waits(p, q, o)
  BY Awaited
<1> USE DEF Waits
<1>3. WorldSize \in Nat /\ r \in Nat /\ r >= 1 /\ r <= WorldSize - 1
  BY <1>1, SMT, WorldAssumption DEF Spokes
<1>4. pc[p] \in CallPc /\ pc'[p] \in Answers \cup {"returning"} /\ pc'[p] \in CallPc /\ done[p] \in Nat
  BY Types DEF CallPc, Answers
<1>5. peer'[p] \in Spokes
  BY <1>3, SMT DEF Spokes
<1>6. \A s \in Spokes : /\ Heard(p, s)' = done[p] + 1 /\ Heard(p, s) = done[p] + 1
                        /\ HalfHeard(p, s)' = FALSE /\ HalfHeard(p, s) = FALSE
  BY <1>4 DEF Heard, HalfHeard, Answers
<1>7. \A s \in Spokes : /\ Answered(p, s)' = IF s = r /\ ~ half THEN done[p] + 1 ELSE Answered(p, s)
                        /\ HalfAnswered(p, s)' = (s = r /\ half)
                        /\ s # r => HalfAnswered(p, s) = FALSE
  <2> SUFFICES ASSUME NEW s \in Spokes
               PROVE  /\ Answered(p, s)' = IF s = r /\ ~ half THEN done[p] + 1 ELSE Answered(p, s)
                      /\ HalfAnswered(p, s)' = (s = r /\ half)
                      /\ s # r => HalfAnswered(p, s) = FALSE
    OBVIOUS
  <2>1. s \in Nat /\ s >= 1 /\ s <= WorldSize - 1
    BY <1>3, SMT DEF Spokes
  <2>2. /\ r = WorldSize - 1 => (s < r <=> s # r) /\ ~ (r < WorldSize - 1)
        /\ r # WorldSize - 1 => r < WorldSize - 1
        /\ s < r + 1 <=> (s < r \/ s = r)
    BY <1>3, <2>1, SMT
  <2>3. CASE half
    BY <1>3, <2>3 DEF Answered, HalfAnswered, Answers
  <2>4. CASE ~ half
    <3>1. CASE r = WorldSize - 1
      BY <2>2, <2>4, <3>1 DEF Answered, HalfAnswered, Answers
    <3>2. CASE r # WorldSize - 1
      BY <2>2, <2>4, <3>2 DEF Answered, HalfAnswered, Answers
    <3> QED
      BY <3>1, <3>2
  <2> QED
    BY <2>3, <2>4
<1>8. Agreed(p, done[p] + 1)' /\ (done[p] > 0 => Agreed(p, done[p])')
  BY <1>2 DEF RoundOf, Agreed, Whole
<1>9. RoundOf(p)'
  <2>1. {i \in Spokes : Heard(p, i)' = done[p] + 1} = Spokes /\ {i \in Spokes : Heard(p, i) = done[p] + 1} = Spokes
    BY <1>6
  <2>2. o.len > 0 => buf'[p] = {p} \cup {peers[p][i] : i \in Spokes}
    BY <1>2 DEF World
  <2>3. pc'[p] \in {"payload", "result"} => o.len > 0
    BY <1>4
  <2>4. \A s \in Spokes : entered'[peers'[p][s]] >= done'[p] + 1 /\ program'[peers'[p][s]][done'[p] + 1] = o
    BY <1>2 DEF Agreed
  <2>5. done'[p] = done[p] /\ program'[p][done'[p] + 1] = o /\ peers'[p] = peers[p]
    OBVIOUS
  <2> HIDE DEF IInv, Waits
  <2> QED
    BY <1>4, <1>6, <1>8, <2>1, <2>2, <2>3, <2>4, <2>5 DEF RoundOf
<1> DEFINE W == World(p)
           w == [data |-> W]
<1>10. SpokeOf(q)'
  <2>1. program'[q][done'[q] + 1] = o /\ hub'[q] = p
    BY <1>1, <1>2
  <2>2. W = World(hub[q])' /\ w = [data |-> W]
    BY <2>1 DEF World
  <2>3. hub'[q] # NoProc /\ peers'[hub'[q]][claim'[q]] = q
    BY <1>1, <2>1, Types
  <2>4. done'[q] > 0 => Agreed(hub[q], done[q])'
    BY <1>2, <1>8, <2>1
  <2>5. Agreed(hub[q], done[q] + 1)'
    BY <1>2, <1>8, <2>1
  <2>6. pc'[q] = pc[q] /\ (pc[p] = "payload" => w = [data |-> buf[p]])
    BY <1>1, <1>2
  <2> HIDE DEF W, w
  <2>7. \/ pc'[q] = "answer" /\ (down'[q] = <<o>> \/ (down'[q] = <<o, w>> /\ o.len > 0))
        \/ pc'[q] = "result" /\ o.len > 0 /\ down'[q] = <<w>>
    <3> DEFINE b == [data |-> buf[p]]
    <3>1. pc[p] = "payload" => w = b
      BY <2>6
    <3> HIDE DEF b
    <3>2. \/ down'[q] = <<o>> /\ pc[p] = "header"
          \/ pc[p] = "payload" /\ pc[q] = "answer" /\ down'[q] = <<o, b>>
          \/ pc[p] = "payload" /\ pc[q] = "result" /\ down'[q] = <<b>>
      BY DEF b
    <3>3. (pc[p] = "header" => pc[q] = "answer") /\ (pc[p] = "payload" => o.len > 0)
      BY <1>2
    <3>4. CASE pc[p] = "header"
      BY <2>6, <3>2, <3>3, <3>4
    <3>5. CASE pc[p] = "payload"
      BY <2>6, <3>1, <3>2, <3>3, <3>5
    <3> QED
      BY <3>4, <3>5 DEF Answers
  <2> HIDE DEF IInv, Waits, r, half
  <2> QED
    BY <1>1, <2>1, <2>2, <2>3, <2>4, <2>5, <2>7, SpokeHears
<1>11. ASSUME NEW s \in Proc, hub[s] = p
       PROVE  SpokeOf(s)'
  <2>1. IsSpoke(s) /\ s # p
    BY <1>11, Types DEF StreamsTrue
  <2>2. \A x \in Proc : entered'[x] >= entered[x]
    BY Types
  <2>3. CASE s = q
    BY <1>10, <2>3
  <2>4. CASE s # q
    BY <2>1, <2>2, <2>4, SpokesSame
  <2> QED
    BY <2>3, <2>4
<1> HIDE DEF r
<1>12. ASSUME NEW s \in Proc, hub[s] = p, peers[p][claim[s]] = s
       PROVE  UpOf(p, s)' /\ DownOf(p, s)'
  <2>1. claim[s] \in Spokes /\ s # p /\ claim'[s] = claim[s] /\ pc'[s] = pc[s]
    BY <1>12, Types DEF StreamsTrue, IsSpoke
  <2>2. UpOf(p, s) /\ DownOf(p, s)
    BY <1>12, <2>1, AtPeer
  <2>3. CASE s = q
    <3>1. UpOf(p, s)'
      BY <1>6, <2>1, <2>2 DEF UpOf
    <3>2. CASE half
      <4>1. HalfAnswered(p, claim[s])' /\ pc[p] = "header"
        BY <1>1, <1>7, <2>1, <2>3, <3>2
      <4>2. pc'[s] = "answer" /\ down'[s] = <<o>> /\ done'[s] = done'[p] /\ o = program'[p][done'[p] + 1]
        BY <1>2, <2>1, <2>3, <3>2, <4>1
      <4>3. DownOf(p, s)'
        BY <4>1, <4>2 DEF DownOf
      <4> QED
        BY <3>1, <4>3
    <3>3. CASE ~ half
      <4>1. ~ HalfAnswered(p, claim[s])' /\ Answered(p, claim[s])' = done[p] + 1
        BY <1>1, <1>7, <2>1, <2>3, <3>3
      <4>2. done'[s] = done[p]
        BY <1>2, <2>3
      <4>3. DownOf(p, s)'
        BY <4>1, <4>2 DEF DownOf
      <4> QED
        BY <3>1, <4>3
    <3> QED
      BY <3>2, <3>3
  <2>4. CASE s # q
    <3>1. claim[s] # r
      BY <1>12, <2>4 DEF r
    <3>2. /\ Heard(p, claim[s])' = Heard(p, claim[s]) /\ Answered(p, claim[s])' = Answered(p, claim[s])
          /\ HalfHeard(p, claim[s])' <=> HalfHeard(p, claim[s])
          /\ HalfAnswered(p, claim[s])' <=> HalfAnswered(p, claim[s])
      BY <1>6, <1>7, <2>1, <3>1
    <3> QED
      BY <2>1, <2>2, <2>4, <3>2, LinkFrame
  <2> QED
    BY <2>3, <2>4
<1> QED
  BY <1>1, <1>4, <1>5, <1>9, <1>11, <1>12, HubActs

LEMMA ScatterKeeps ==
  ASSUME IInv, NEW p \in Proc, Scatter(p)
  PROVE  IInv'
<1> DEFINE q == peers[p][peer[p]]
           r == peer[p]
           o == program[p][done[p] + 1]
           b == [data |-> buf[p]]
           x == IF pc[p] = "header" THEN o ELSE b
           last == r = WorldSize - 1
<1>1. /\ UNCHANGED <<claim, program, listener, backlog, hub, peers, up, buf, done, entered>>
      /\ pc[p] \in Answers /\ IsHub(p)
      /\ \A s \in Proc : s # p => pc'[s] = pc[s] /\ peer'[s] = peer[s]
  BY DEF Scatter, IInv, TypeOK, Fails, Answers, setting, streams
<1>2. r \in Spokes /\ q \in Proc /\ hub[q] = p /\ q # p
  BY <1>1, AtPeer
<1>3. Header(p) = o /\ Op(p) = o /\ o \in Op0
  BY <1>1, InCall, HeaderIsOp DEF IInv, CallPc, Answers
<1>4. WorldSize \in Nat /\ r \in Nat /\ r >= 1 /\ r <= WorldSize - 1
  BY <1>2, SMT, WorldAssumption DEF Spokes
<1>5. CASE Dead(q)
  <2>1. UNCHANGED <<down, peer>> /\ pc' = [pc EXCEPT ![p] = "failed"]
    BY <1>5 DEF Scatter, Fails
  <2>2. TypeOK'
    BY <1>1, <2>1 DEF IInv, TypeOK
  <2> QED
    BY <1>1, <2>1, <2>2, Die DEF IInv, TypeOK, setting, streams
<1>6. CASE ~ Dead(q)
  <2>1. Waits(p, q, o)
    BY <1>1, <1>6, Awaited
  <2>2. /\ Len(down[q]) < Capacity /\ down' = [down EXCEPT ![q] = Append(@, x)]
        /\ peer' = [peer EXCEPT ![p] = IF (pc[p] = "payload" \/ o.len = 0) /\ @ < WorldSize - 1 THEN @ + 1 ELSE @]
        /\ pc' = [pc EXCEPT ![p] = IF ~ (pc[p] = "payload" \/ o.len = 0) THEN "payload"
                                   ELSE IF last THEN "returning" ELSE "header"]
    BY <1>3, <1>6 DEF Scatter
  <2>3. down[q] \in Seq(Frame) /\ x \in Frame /\ Capacity \in Nat
    <3>1. buf[p] \in SUBSET Proc
      BY DEF IInv, TypeOK
    <3>2. b \in [data : SUBSET Proc]
      BY <3>1
    <3> QED
      BY <1>2, <1>3, <2>1, <3>2, WorldAssumption DEF Waits, Frame
  <2> HIDE DEF x
  <2>4. down'[q] = Append(down[q], x) /\ \A s \in Proc : s # q => down'[s] = down[s]
    BY <1>2, <2>2 DEF IInv, TypeOK
  <2>5. TypeOK'
    <3>1. down'[q] \in Seq(Frame) /\ Len(down'[q]) = Len(down[q]) + 1 /\ Len(down[q]) \in Nat
      BY <2>3, <2>4, AppendProperties, LenProperties
    <3>2. Len(down'[q]) <= Capacity
      BY <2>2, <2>3, <3>1, SMT
    <3>3. down' \in [Proc -> Seq(Frame)] /\ \A s \in Proc : Len(down'[s]) <= Capacity
      <4> HIDE DEF q
      <4> QED
        BY <2>2, <2>4, <3>1, <3>2 DEF IInv, TypeOK
    <3>4. pc' \in [Proc -> {"start", "accept", "call", "header", "payload", "answer", "result",
                            "returning", "ended", "failed", "gone"}]
      BY <2>2 DEF IInv, TypeOK
    <3>5. peer' \in [Proc -> Spokes \cup {1}]
      <4>1. r < WorldSize - 1 => r + 1 \in Spokes
        BY <1>4, SMT DEF Spokes
      <4> QED
        BY <2>2, <4>1 DEF IInv, TypeOK
    <3> QED
      BY <1>1, <3>3, <3>4, <3>5 DEF IInv, TypeOK
  <2>6. Append(<<>>, o) = <<o>> /\ Append(<<o>>, b) = <<o, b>> /\ Append(<<>>, b) = <<b>>
    BY Short
  <2> HIDE DEF b
  <2>7. \/ pc[p] = "header" /\ down'[q] = <<o>>
        \/ pc[p] = "payload" /\ pc[q] = "answer" /\ down'[q] = <<o, b>>
        \/ pc[p] = "payload" /\ pc[q] = "result" /\ down'[q] = <<b>>
    BY <2>1, <2>4, <2>6 DEF Waits, x
  <2>8. /\ pc'[p] = IF ~ (pc[p] = "payload" \/ o.len = 0) THEN "payload"
                    ELSE IF last THEN "returning" ELSE "header"
        /\ peer'[p] = IF (pc[p] = "payload" \/ o.len = 0) /\ r < WorldSize - 1 THEN r + 1 ELSE r
    BY <2>2 DEF IInv, TypeOK
  <2>9. o.len = 0 \/ o.len > 0
    BY <1>3 DEF Op0
  <2>10. ~ (o.len = 0 /\ o.len > 0)
    BY SMT
  <2>11. \/ /\ pc[p] = "header" /\ o.len > 0 /\ pc'[p] = "payload" /\ peer'[p] = r
            /\ down'[q] = <<o>>
         \/ /\ pc'[p] = IF r = WorldSize - 1 THEN "returning" ELSE "header"
            /\ peer'[p] = IF r < WorldSize - 1 THEN r + 1 ELSE r
            /\ \/ pc[p] = "header" /\ ~ (o.len > 0) /\ down'[q] = <<o>>
               \/ pc[p] = "payload" /\ pc[q] = "answer" /\ down'[q] = <<o, b>>
               \/ pc[p] = "payload" /\ pc[q] = "result" /\ down'[q] = <<b>>
    <3>1. CASE pc[p] = "payload"
      BY <2>7, <2>8, <3>1
    <3>2. CASE pc[p] = "header" /\ o.len = 0
      BY <2>7, <2>8, <2>10, <3>2
    <3>3. CASE pc[p] = "header" /\ o.len > 0
      BY <2>7, <2>8, <2>10, <3>3
    <3> QED
      BY <1>1, <2>9, <3>1, <3>2, <3>3 DEF Answers
  <2>12. \A s \in Proc : /\ s # p => pc'[s] = pc[s] /\ peer'[s] = peer[s]
                         /\ s # q => down'[s] = down[s]
    BY <1>1, <2>4
  <2> QED
    BY <1>1, <1>6, <2>5, <2>11, <2>12, AnswerKeeps DEF b
<1> QED
  BY <1>5, <1>6

LEMMA Fresh ==
  ASSUME IInv, NEW p \in Proc, pc[p] \in {"start", "accept"}
  PROVE  entered[p] = 0 /\ done[p] = 0 /\ 0 <= Len(program[p])
<1>1. entered[p] = 0 /\ entered[p] \in {done[p], done[p] + 1} /\ done[p] \in Nat /\ Len(program[p]) \in Nat
  BY Types DEF IInv, CallsOf
<1> QED
  BY <1>1, SMT

LEMMA BindKeeps ==
  ASSUME IInv, NEW p \in Proc, Bind(p)
  PROVE  IInv'
<1> USE DEF IInv
<1>1. /\ UNCHANGED <<claim, program, backlog, hub, peers, up, down, peer, buf, done, entered>>
      /\ pc[p] = "start" /\ IsHub(p) /\ listener' = p
      /\ pc'[p] = IF WorldSize = 1 THEN "call" ELSE "accept"
      /\ \A q \in Proc : q # p => pc'[q] = pc[q]
  BY DEF Bind, setting, TypeOK
<1>2. TypeOK'
  <2>1. pc' \in [Proc -> {"start", "accept", "call", "header", "payload", "answer", "result",
                          "returning", "ended", "failed", "gone"}]
    BY DEF Bind, TypeOK
  <2> QED
    BY <1>1, <2>1 DEF TypeOK
<1>3. entered[p] = 0 /\ done[p] = 0 /\ 0 <= Len(program[p])
  BY <1>1, Fresh
<1>4. ~ IsSpoke(p)
  BY <1>1, Types
<1>5. \A q \in Proc : hub[q] # p
  BY <1>1, Types DEF StreamsTrue
<1>6. CallsOf(p)'
  <2>1. WorldSize = 1 => Spokes = {}
    BY SMT DEF Spokes
  <2> QED
    BY <1>1, <1>3, <2>1 DEF CallsOf, Whole, CallPc, Hears, Answers
<1>7. RoundOf(p)'
  BY <1>1, <1>3 DEF RoundOf, CallPc
<1>8. (\A q \in Proc : ~ Serves(p, q)') /\ (\A h \in Proc : ~ Serves(h, p))
  BY <1>1, <1>4, <1>5, Types DEF Serves, StreamsTrue
<1>9. entered'[p] >= entered[p] /\ pc'[p] # "start"
  BY <1>1, <1>3
<1> QED
  BY <1>1, <1>2, <1>4, <1>5, <1>6, <1>7, <1>8, <1>9, OneActs

LEMMA ConnectKeeps ==
  ASSUME IInv, NEW p \in Proc, Connect(p)
  PROVE  IInv'
<1> USE DEF IInv
<1>10. listener \in Proc
  BY DEF Connect, Listening, TypeOK
<1> SUFFICES ASSUME NEW h \in Proc, h = listener PROVE IInv'
  BY <1>10
<1>1. /\ UNCHANGED <<claim, program, listener, peers, up, down, peer, buf, done, entered>>
      /\ pc[p] = "start" /\ IsSpoke(p) /\ pc'[p] = "call" /\ hub'[p] = h /\ hub[p] = NoProc
      /\ h \in Proc /\ pc[h] = "accept" /\ IsHub(h) /\ h # p
      /\ backlog'[h] = Append(backlog[h], p) /\ backlog[h] \in Seq(Proc)
      /\ \A q \in Proc : q # p => pc'[q] = pc[q] /\ hub'[q] = hub[q]
      /\ \A q \in Proc : q # h => backlog'[q] = backlog[q]
  <2>1. /\ UNCHANGED <<claim, program, listener, peers, up, down, peer, buf, done, entered>>
        /\ pc[p] = "start" /\ IsSpoke(p) /\ pc'[p] = "call" /\ hub'[p] = h
        /\ pc[h] = "accept" /\ h # NoProc
        /\ \A q \in Proc : q # p => pc'[q] = pc[q] /\ hub'[q] = hub[q]
    BY DEF Connect, Listening, setting, TypeOK, IsSpoke
  <2>2. hub[p] = NoProc /\ IsHub(h) /\ h # p
    BY <2>1 DEF StreamsTrue
  <2>3. /\ backlog'[h] = Append(backlog[h], p) /\ backlog[h] \in Seq(Proc)
        /\ \A q \in Proc : q # h => backlog'[q] = backlog[q]
    BY DEF Connect, TypeOK
  <2> QED
    BY <2>1, <2>2, <2>3
<1>2. TypeOK'
  <2>1. pc' \in [Proc -> {"start", "accept", "call", "header", "payload", "answer", "result",
                          "returning", "ended", "failed", "gone"}]
    BY DEF Connect, TypeOK
  <2>2. hub' \in [Proc -> Proc \cup {NoProc}]
    BY DEF Connect, TypeOK
  <2>3. backlog'[h] \in Seq(Proc)
    BY <1>1, AppendProperties
  <2>4. backlog' \in [Proc -> Seq(Proc)]
    BY <1>1, <2>3 DEF Connect, TypeOK
  <2> QED
    BY <1>1, <2>1, <2>2, <2>4 DEF TypeOK
<1>3. /\ entered[p] = 0 /\ done[p] = 0 /\ 0 <= Len(program[p])
      /\ entered[h] = 0 /\ done[h] = 0
  BY <1>1, Fresh
<1>4. \A q \in Proc : CallsOf(q)'
  <2> SUFFICES ASSUME NEW q \in Proc PROVE CallsOf(q)'
    OBVIOUS
  <2>1. CASE q = p
    BY <1>1, <1>3, <2>1, Types DEF CallsOf, CallPc, Hears, Answers, IsHub
  <2>2. CASE q # p
    BY <1>1, <2>2 DEF CallsOf, IsHub, IsSpoke, Whole
  <2> QED
    BY <2>1, <2>2
<1>5. \A q \in Proc : entered'[q] >= entered[q]
  BY <1>1, Types
<1>6. \A q \in Proc : IsHub(q)' => RoundOf(q)'
  <2> SUFFICES ASSUME NEW q \in Proc, IsHub(q)' PROVE RoundOf(q)'
    OBVIOUS
  <2>1. IsHub(q) /\ RoundOf(q) /\ CallsOf(q) /\ q # p
    BY <1>1, Types DEF IsHub
  <2> QED
    BY <1>1, <1>2, <1>5, <2>1, RoundFrame
<1>7. \A q \in Proc : IsSpoke(q)' => SpokeOf(q)'
  <2> SUFFICES ASSUME NEW q \in Proc, IsSpoke(q)' PROVE SpokeOf(q)'
    OBVIOUS
  <2>1. IsSpoke(q) /\ SpokeOf(q)
    BY <1>1 DEF IsSpoke
  <2>2. CASE q = p
    <3>1. down'[p] = <<>> /\ ~ Told(p)' /\ pc'[p] = "call" /\ ~ (done'[p] > 0)
      BY <1>1, <1>3, <2>1, <2>2 DEF SpokeOf, Told
    <3> QED
      BY <2>2, <3>1 DEF SpokeOf
  <2>3. CASE q # p
    <3>1. hub'[q] = hub[q] /\ peers' = peers /\ pc'[q] = pc[q] /\ done'[q] = done[q] /\ down'[q] = down[q] /\ buf'[q] = buf[q]
      BY <1>1, <2>3
    <3> QED
      BY <1>1, <1>2, <1>5, <2>1, <3>1, SpokeFrame
  <2> QED
    BY <2>2, <2>3
<1>8. LinksTrue'
  <2> SUFFICES ASSUME NEW g \in Proc, NEW q \in Proc, Serves(g, q)'
               PROVE  UpOf(g, q)' /\ DownOf(g, q)'
    BY DEF LinksTrue
  <2>1. CASE q = p
    <3>1. g = h
      BY <1>1, <2>1 DEF Serves
    <3>2. pc'[h] = "accept" /\ done'[h] = 0
      BY <1>1, <1>3
    <3>3. /\ Heard(h, claim[p])' = 0 /\ Answered(h, claim[p])' = 0
          /\ ~ HalfHeard(h, claim[p])' /\ ~ HalfAnswered(h, claim[p])'
      BY <3>2 DEF Heard, Answered, HalfHeard, HalfAnswered, Hears, Answers
    <3>4. up'[p] = <<>> /\ down'[p] = <<>> /\ entered'[p] = 0 /\ done'[p] = 0 /\ pc'[p] = "call"
      BY <1>1, <1>3 DEF StreamsTrue, SpokeOf
    <3>5. UpOf(h, p)'
      BY <3>3, <3>4 DEF UpOf
    <3>6. DownOf(h, p)'
      BY <3>3, <3>4 DEF DownOf
    <3> QED
      BY <2>1, <3>1, <3>5, <3>6
  <2>2. CASE q # p
    <3>1. g # p /\ Serves(g, q)
      BY <1>1, <2>2, Types DEF Serves, IsHub
    <3>2. UpOf(g, q) /\ DownOf(g, q) /\ pc'[g] = pc[g] /\ peer'[g] = peer[g] /\ done'[g] = done[g]
      BY <1>1, <3>1 DEF LinksTrue
    <3>3. /\ Heard(g, claim[q])' = Heard(g, claim[q]) /\ Answered(g, claim[q])' = Answered(g, claim[q])
          /\ HalfHeard(g, claim[q])' <=> HalfHeard(g, claim[q])
          /\ HalfAnswered(g, claim[q])' <=> HalfAnswered(g, claim[q])
      BY <1>1, <3>2 DEF Heard, Answered, HalfHeard, HalfAnswered
    <3> QED
      BY <1>1, <2>2, <3>2, <3>3, LinkFrame
  <2> QED
    BY <2>1, <2>2
<1>9. StreamsTrue'
  <2>1. listener' # NoProc => IsHub(listener)'
    BY <1>1 DEF IsHub
  <2>2. \A g \in Proc : \A i \in 1..Len(backlog'[g]) : IsSpoke(backlog[g][i])' /\ hub'[backlog'[g][i]] = g
    <3> SUFFICES ASSUME NEW g \in Proc, NEW i \in 1..Len(backlog'[g])
                 PROVE  IsSpoke(backlog[g][i])' /\ hub'[backlog'[g][i]] = g
      OBVIOUS
    <3>1. ASSUME NEW j \in 1..Len(backlog[g])
          PROVE  IsSpoke(backlog[g][j]) /\ hub[backlog[g][j]] = g /\ backlog[g][j] \in Proc /\ backlog[g][j] # p
      <4>1. backlog[g] \in Seq(Proc)
        BY DEF TypeOK
      <4>2. IsSpoke(backlog[g][j]) /\ hub[backlog[g][j]] = g /\ backlog[g][j] \in Proc
        BY <3>1, <4>1 DEF StreamsTrue
      <4> QED
        BY <1>1, <4>2, Types
    <3>2. CASE g # h
      BY <1>1, <3>1, <3>2 DEF IsSpoke
    <3>3. CASE g = h /\ i <= Len(backlog[h])
      <4>1. Len(backlog[h]) \in Nat /\ Len(backlog'[h]) = Len(backlog[h]) + 1 /\ i \in 1..Len(backlog[h])
        <5>1. Len(backlog[h]) \in Nat /\ Len(backlog'[h]) = Len(backlog[h]) + 1
          BY <1>1, LenProperties, AppendProperties
        <5> QED
          BY <3>3, <5>1, SMT
      <4>2. backlog'[h][i] = backlog[h][i]
        BY <1>1, <4>1, AppendProperties
      <4> QED
        BY <1>1, <3>1, <3>3, <4>1, <4>2 DEF IsSpoke
    <3>4. CASE g = h /\ ~ (i <= Len(backlog[h]))
      <4>1. backlog'[h][i] = p
        <5>1. Len(backlog[h]) \in Nat /\ Len(backlog'[h]) = Len(backlog[h]) + 1
          BY <1>1, LenProperties, AppendProperties
        <5>2. i = Len(backlog[h]) + 1
          BY <3>4, <5>1, SMT
        <5> QED
          BY <1>1, <5>2, AppendProperties
      <4> QED
        BY <1>1, <3>4, <4>1 DEF IsSpoke
    <3> QED
      BY <3>2, <3>3, <3>4
  <2>3. \A g \in Proc, r \in Spokes : peers'[g][r] # NoProc => claim'[peers'[g][r]] = r /\ hub'[peers'[g][r]] = g
    <3> SUFFICES ASSUME NEW g \in Proc, NEW r \in Spokes, peers[g][r] # NoProc
                 PROVE  claim'[peers[g][r]] = r /\ hub'[peers[g][r]] = g
      BY <1>1
    <3>1. claim[peers[g][r]] = r /\ hub[peers[g][r]] = g /\ peers[g][r] \in Proc
      BY Types DEF StreamsTrue
    <3>2. peers[g][r] # p
      BY <1>1, <3>1, Types
    <3> QED
      BY <1>1, <3>1, <3>2
  <2>4. \A q \in Proc : hub'[q] # NoProc => IsHub(hub[q])' /\ IsSpoke(q)' /\ pc'[hub'[q]] # "start"
    <3> SUFFICES ASSUME NEW q \in Proc, hub'[q] # NoProc
                 PROVE  IsHub(hub[q])' /\ IsSpoke(q)' /\ pc'[hub'[q]] # "start"
      OBVIOUS
    <3>1. CASE q = p
      BY <1>1, <3>1 DEF IsHub, IsSpoke
    <3>2. CASE q # p
      <4>1. hub'[q] = hub[q] /\ hub[q] # NoProc
        BY <1>1, <3>2
      <4>2. IsHub(hub[q]) /\ IsSpoke(q) /\ pc[hub[q]] # "start" /\ hub[q] \in Proc
        BY <4>1, Types DEF StreamsTrue
      <4>3. hub[q] # p
        BY <1>1, <4>2
      <4> QED
        BY <1>1, <4>1, <4>2, <4>3 DEF IsHub, IsSpoke
    <3> QED
      BY <3>1, <3>2
  <2>5. \A q \in Proc : pc'[q] \notin {"start", "failed", "gone"} => IsHub(q)' \/ (IsSpoke(q)' /\ hub'[q] # NoProc)
    <3> SUFFICES ASSUME NEW q \in Proc, pc'[q] \notin {"start", "failed", "gone"}
                 PROVE  IsHub(q)' \/ (IsSpoke(q)' /\ hub'[q] # NoProc)
      OBVIOUS
    <3>1. CASE q = p
      BY <1>1, <3>1, Types DEF IsSpoke
    <3>2. CASE q # p
      BY <1>1, <3>2 DEF StreamsTrue, IsHub, IsSpoke
    <3> QED
      BY <3>1, <3>2
  <2>6. \A q \in Proc : /\ pc'[q] = "accept" => IsHub(q)'
                        /\ pc'[q] = "start" => hub'[q] = NoProc /\ up'[q] = <<>>
    BY <1>1 DEF StreamsTrue, IsHub
  <2> QED
    BY <2>1, <2>2, <2>3, <2>4, <2>5, <2>6 DEF StreamsTrue, IsHub, IsSpoke
<1> QED
  BY <1>2, <1>4, <1>6, <1>7, <1>8, <1>9

LEMMA AcceptKeeps ==
  ASSUME IInv, NEW p \in Proc, Accept(p)
  PROVE  IInv'
<1> USE DEF IInv
<1> DEFINE q0 == Head(backlog[p])
<1>1. /\ UNCHANGED <<claim, program, listener, hub, up, down, peer, buf, done, entered>>
      /\ pc[p] = "accept" /\ backlog[p] # <<>> /\ IsHub(p)
      /\ \A x \in Proc : x # p => pc'[x] = pc[x] /\ peers'[x] = peers[x] /\ backlog'[x] = backlog[x]
  BY DEF Accept, setting, TypeOK, StreamsTrue
<1>2. backlog[p] \in Seq(Proc) /\ backlog'[p] = Tail(backlog[p])
  BY DEF Accept, TypeOK
<1>3. q0 \in Proc /\ IsSpoke(q0) /\ hub[q0] = p
  <2>1. Len(backlog[p]) \in Nat /\ Len(backlog[p]) # 0
    BY <1>1, <1>2, LenProperties, EmptySeq
  <2>2. 1 \in 1..Len(backlog[p]) /\ q0 = backlog[p][1] /\ q0 \in Proc
    BY <1>1, <1>2, <2>1, HeadTailProperties
  <2> QED
    BY <2>2 DEF StreamsTrue
<1> SUFFICES ASSUME NEW q \in Proc, q = q0, NEW c \in Spokes, c = claim[q]
             PROVE  IInv'
  BY <1>3 DEF IsSpoke
<1>4. /\ peers' = [peers EXCEPT ![p] = [peers[p] EXCEPT ![c] = q]]
      /\ pc' = [pc EXCEPT ![p] = IF peers[p][c] # NoProc THEN "failed"
                                 ELSE IF {r \in Spokes \ {c} : peers[p][r] = NoProc} = {} THEN "call" ELSE "accept"]
  BY DEF Accept
<1>5. q # NoProc /\ IsSpoke(q) /\ hub[q] = p /\ q # p
  BY <1>1, <1>3, Types
<1> HIDE DEF q0
<1>6. /\ \A r \in Spokes : peers'[p][r] = IF r = c THEN q ELSE peers[p][r]
      /\ peers'[p] \in [Spokes -> Proc \cup {NoProc}]
  <2>1. peers[p] \in [Spokes -> Proc \cup {NoProc}] /\ peers'[p] = [peers[p] EXCEPT ![c] = q]
    BY <1>4 DEF TypeOK
  <2> QED
    BY <2>1
<1>7. pc'[p] \in {"failed", "call", "accept"} /\ (pc'[p] = "call" => Whole(p)')
  <2>1. /\ pc'[p] \in {"failed", "call", "accept"}
        /\ pc'[p] = "call" => {r \in Spokes \ {c} : peers[p][r] = NoProc} = {}
    BY <1>4 DEF TypeOK
  <2> QED
    BY <1>5, <1>6, <2>1 DEF Whole
<1>8. TypeOK'
  <2>1. pc' \in [Proc -> {"start", "accept", "call", "header", "payload", "answer", "result",
                          "returning", "ended", "failed", "gone"}]
    BY <1>4 DEF TypeOK
  <2>2. peers' \in [Proc -> [Spokes -> Proc \cup {NoProc}]]
    BY <1>4, <1>6 DEF TypeOK
  <2>3. backlog'[p] \in Seq(Proc)
    BY <1>1, <1>2, HeadTailProperties
  <2>4. backlog' \in [Proc -> Seq(Proc)]
    BY <2>3 DEF Accept, TypeOK
  <2> QED
    BY <1>1, <2>1, <2>2, <2>4 DEF TypeOK
<1>9. entered[p] = 0 /\ done[p] = 0 /\ 0 <= Len(program[p])
  BY <1>1, Fresh
<1>10. \A x \in Proc : entered'[x] >= entered[x]
  BY <1>1, Types
<1>11. \A x \in Proc : CallsOf(x)'
  <2> SUFFICES ASSUME NEW x \in Proc PROVE CallsOf(x)'
    OBVIOUS
  <2>1. CASE x = p
    BY <1>1, <1>7, <1>9, <2>1 DEF CallsOf, CallPc, Hears, Answers
  <2>2. CASE x # p
    BY <1>1, <2>2 DEF CallsOf, IsHub, IsSpoke, Whole
  <2> QED
    BY <2>1, <2>2
<1>12. \A x \in Proc : IsHub(x)' => RoundOf(x)'
  <2> SUFFICES ASSUME NEW x \in Proc, IsHub(x)' PROVE RoundOf(x)'
    OBVIOUS
  <2>1. CASE x = p
    BY <1>1, <1>7, <1>9, <2>1 DEF RoundOf, CallPc
  <2>2. CASE x # p
    <3>1. IsHub(x) /\ RoundOf(x) /\ CallsOf(x)
      BY <1>1 DEF IsHub
    <3> QED
      BY <1>1, <1>8, <1>10, <2>2, <3>1, RoundFrame
  <2> QED
    BY <2>1, <2>2
<1>13. \A x \in Proc : IsSpoke(x)' => SpokeOf(x)'
  <2> SUFFICES ASSUME NEW x \in Proc, IsSpoke(x)' PROVE SpokeOf(x)'
    OBVIOUS
  <2>1. IsSpoke(x) /\ SpokeOf(x) /\ x # p /\ pc'[x] = pc[x]
    BY <1>1, Types DEF IsSpoke
  <2>2. CASE hub[x] = p
    <3>1. \A k \in Nat : k > 0 => ~ Agreed(p, k)
      BY <1>9 DEF Agreed
    <3>2. done[x] \in Nat /\ done[x] + 1 \in Nat /\ done[x] + 1 > 0
      BY Types
    <3>3. ~ Told(x) /\ ~ (done[x] > 0)
      BY <2>1, <2>2, <3>1, <3>2 DEF SpokeOf
    <3>4. ~ Told(x)' /\ ~ (done'[x] > 0)
      BY <1>1, <2>1, <3>3 DEF Told
    <3>5. pc[x] = "answer" => down[x] = <<>>
      BY <3>3 DEF Told, DeadPc
    <3>6. pc[x] # "result" /\ pc[x] # "returning"
      BY <3>3 DEF Told, DeadPc
    <3> QED
      BY <1>1, <2>1, <3>4, <3>5, <3>6 DEF SpokeOf
  <2>3. CASE hub[x] # p
    <3>1. hub[x] \in Proc => peers'[hub[x]] = peers[hub[x]]
      BY <1>1, <2>3
    <3> QED
      BY <1>1, <1>8, <1>10, <2>1, <3>1, SpokeFrame
  <2> QED
    BY <2>2, <2>3
<1>14. LinksTrue'
  <2> SUFFICES ASSUME NEW g \in Proc, NEW x \in Proc, Serves(g, x)'
               PROVE  UpOf(g, x)' /\ DownOf(g, x)'
    BY DEF LinksTrue
  <2>1. hub[x] = g /\ x # p
    BY <1>1, Types DEF Serves, StreamsTrue
  <2>2. Serves(g, x)
    BY <1>1, <1>7, <2>1 DEF Serves, IsHub, DeadPc
  <2>3. UpOf(g, x) /\ DownOf(g, x) /\ pc'[x] = pc[x]
    BY <1>1, <2>1, <2>2 DEF LinksTrue
  <2>4. /\ Heard(g, claim[x])' = Heard(g, claim[x]) /\ Answered(g, claim[x])' = Answered(g, claim[x])
        /\ HalfHeard(g, claim[x])' <=> HalfHeard(g, claim[x])
        /\ HalfAnswered(g, claim[x])' <=> HalfAnswered(g, claim[x])
    <3>1. CASE g = p
      <4>1. pc'[p] \in {"call", "accept"}
        BY <1>7, <3>1 DEF Serves, DeadPc
      <4> QED
        BY <1>1, <3>1, <4>1 DEF Heard, Answered, HalfHeard, HalfAnswered, Hears, Answers
    <3>2. CASE g # p
      BY <1>1, <3>2 DEF Heard, Answered, HalfHeard, HalfAnswered
    <3> QED
      BY <3>1, <3>2
  <2> QED
    BY <1>1, <2>3, <2>4, LinkFrame
<1>15. StreamsTrue'
  <2>1. /\ listener' # NoProc => IsHub(listener)'
        /\ \A x \in Proc : pc'[x] = "accept" => IsHub(x)'
        /\ \A x \in Proc : pc'[x] = "start" => hub'[x] = NoProc /\ up'[x] = <<>>
    BY <1>1, <1>7 DEF StreamsTrue, IsHub
  <2>2. \A g \in Proc : \A i \in 1..Len(backlog'[g]) : IsSpoke(backlog[g][i])' /\ hub'[backlog'[g][i]] = g
    <3> SUFFICES ASSUME NEW g \in Proc, NEW i \in 1..Len(backlog'[g])
                 PROVE  IsSpoke(backlog[g][i])' /\ hub'[backlog'[g][i]] = g
      OBVIOUS
    <3>1. CASE g # p
      BY <1>1, <3>1 DEF StreamsTrue, IsSpoke
    <3>2. CASE g = p
      <4>1. /\ Len(backlog[p]) \in Nat /\ Len(backlog'[p]) = Len(backlog[p]) - 1
            /\ \A j \in 1..Len(Tail(backlog[p])) : Tail(backlog[p])[j] = backlog[p][j + 1]
        BY <1>1, <1>2, HeadTailProperties, LenProperties
      <4>2. i + 1 \in 1..Len(backlog[p])
        BY <3>2, <4>1, SMT
      <4>3. backlog'[p][i] = backlog[p][i + 1]
        BY <1>2, <3>2, <4>1
      <4> QED
        BY <1>1, <3>2, <4>2, <4>3 DEF StreamsTrue, IsSpoke
    <3> QED
      BY <3>1, <3>2
  <2>3. \A g \in Proc, r \in Spokes : peers'[g][r] # NoProc => claim'[peers'[g][r]] = r /\ hub'[peers'[g][r]] = g
    <3> SUFFICES ASSUME NEW g \in Proc, NEW r \in Spokes, peers'[g][r] # NoProc
                 PROVE  claim'[peers'[g][r]] = r /\ hub'[peers'[g][r]] = g
      OBVIOUS
    <3>1. CASE g = p /\ r = c
      BY <1>1, <1>5, <1>6, <3>1
    <3>2. CASE g = p /\ r # c
      BY <1>1, <1>6, <3>2 DEF StreamsTrue
    <3>3. CASE g # p
      BY <1>1, <3>3 DEF StreamsTrue
    <3> QED
      BY <3>1, <3>2, <3>3
  <2>4. \A x \in Proc : hub'[x] # NoProc => IsHub(hub[x])' /\ IsSpoke(x)' /\ pc'[hub'[x]] # "start"
    <3> SUFFICES ASSUME NEW x \in Proc, hub[x] # NoProc
                 PROVE  IsHub(hub[x])' /\ IsSpoke(x)' /\ pc'[hub'[x]] # "start"
      BY <1>1
    <3>1. IsHub(hub[x]) /\ IsSpoke(x) /\ pc[hub[x]] # "start" /\ hub[x] \in Proc
      BY Types DEF StreamsTrue
    <3>2. pc'[hub[x]] # "start"
      BY <1>1, <1>7, <3>1
    <3> QED
      BY <1>1, <3>1, <3>2 DEF IsHub, IsSpoke
  <2>5. \A x \in Proc : pc'[x] \notin {"start", "failed", "gone"} => IsHub(x)' \/ (IsSpoke(x)' /\ hub'[x] # NoProc)
    <3> SUFFICES ASSUME NEW x \in Proc, pc'[x] \notin {"start", "failed", "gone"}
                 PROVE  IsHub(x)' \/ (IsSpoke(x)' /\ hub'[x] # NoProc)
      OBVIOUS
    <3>1. CASE x = p
      BY <1>1, <3>1 DEF IsHub
    <3>2. CASE x # p
      BY <1>1, <3>2 DEF StreamsTrue, IsHub, IsSpoke
    <3> QED
      BY <3>1, <3>2
  <2> QED
    BY <2>1, <2>2, <2>3, <2>4, <2>5 DEF StreamsTrue, IsHub, IsSpoke
<1> QED
  BY <1>8, <1>11, <1>12, <1>13, <1>14, <1>15

-----------------------------------------------------------------------------
(* The theorems.                                                           *)

LEMMA InitIInv ==
  ASSUME Init
  PROVE  IInv
<1>1. TypeOK
  <2>1. claim \in [Proc -> Nat] /\ program \in [Proc -> Seq(Op0)] /\ WorldSize \in Nat /\ Capacity \in Nat
    BY WorldAssumption DEF Init
  <2>2. <<>> \in Seq(Frame) /\ <<>> \in Seq(Proc) /\ Len(<<>>) = 0
    OBVIOUS
  <2>3. Len(<<>>) <= Capacity
    BY <2>1, <2>2, SMT
  <2> QED
    BY <2>1, <2>2, <2>3 DEF Init, TypeOK
<1>2. \A p \in Proc : /\ entered[p] = 0 /\ done[p] = 0 /\ pc[p] = "start" /\ hub[p] = NoProc
                      /\ up[p] = <<>> /\ down[p] = <<>> /\ backlog[p] = <<>>
                      /\ \A r \in Spokes : peers[p][r] = NoProc
  BY DEF Init
<1>3. StreamsTrue
  <2>1. Len(<<>>) = 0 /\ 1..0 = {}
    OBVIOUS
  <2> QED
    BY <1>2, <2>1 DEF StreamsTrue, Init
<1>4. LinksTrue
  <2>1. NoProc \notin Proc
    BY WorldAssumption
  <2> QED
    BY <1>2, <2>1 DEF LinksTrue, Serves
<1>5. \A p \in Proc : CallsOf(p)
  <2> SUFFICES ASSUME NEW p \in Proc PROVE CallsOf(p)
    OBVIOUS
  <2>1. 0 <= Len(program[p])
    BY <1>1, Types
  <2> QED
    BY <1>2, <2>1 DEF CallsOf, CallPc, Hears, Answers
<1>6. \A p \in Proc : RoundOf(p) /\ SpokeOf(p)
  BY <1>2 DEF RoundOf, SpokeOf, Told, CallPc
<1> QED
  BY <1>1, <1>3, <1>4, <1>5, <1>6 DEF IInv

LEMMA StutterIInv ==
  ASSUME IInv, UNCHANGED vars
  PROVE  IInv'
<1> USE DEF IInv, vars
<1>1. TypeOK'
  BY DEF TypeOK
<1>2. StreamsTrue'
  BY DEF StreamsTrue, IsHub, IsSpoke
<1>3. \A h, q \in Proc : Heard(h, claim[q])' = Heard(h, claim[q]) /\ Answered(h, claim[q])' = Answered(h, claim[q])
  BY DEF Heard, Answered
<1>4. \A h, q \in Proc : Serves(h, q)' => UpOf(h, q)' /\ DownOf(h, q)'
  <2> SUFFICES ASSUME NEW h \in Proc, NEW q \in Proc, Serves(h, q)' PROVE UpOf(h, q)' /\ DownOf(h, q)'
    OBVIOUS
  <2>1. UpOf(h, q) /\ DownOf(h, q)
    BY DEF LinksTrue, Serves, IsHub
  <2>2. /\ HalfHeard(h, claim[q])' <=> HalfHeard(h, claim[q])
        /\ HalfAnswered(h, claim[q])' <=> HalfAnswered(h, claim[q])
    BY DEF HalfHeard, HalfAnswered
  <2> QED
    BY <1>3, <2>1, <2>2, LinkFrame
<1>5. ASSUME NEW p \in Proc
      PROVE  CallsOf(p)' /\ (IsHub(p)' => RoundOf(p)') /\ (IsSpoke(p)' => SpokeOf(p)')
  BY DEF CallsOf, IsHub, IsSpoke, RoundOf, SpokeOf, Whole, Agreed, Heard, Told, World
<1> QED
  BY <1>1, <1>2, <1>4, <1>5 DEF LinksTrue

LEMMA NextIInv ==
  ASSUME IInv, [Next]_vars
  PROVE  IInv'
<1>1. CASE UNCHANGED vars
  BY <1>1, StutterIInv
<1>2. CASE Next
  <2> SUFFICES ASSUME NEW p \in Proc, Step(p) \/ Kill(p) PROVE IInv'
    BY <1>2 DEF Next
  <2> QED
    BY BindKeeps, ConnectKeeps, AcceptKeeps, EnterKeeps, SendKeeps, ReceiveKeeps, GatherKeeps,
       ScatterKeeps, ReturnKeeps, EndsKeep DEF Step
<1> QED
  BY <1>1, <1>2

(* The inductive invariant always holds of the collectives.                *)
THEOREM Invariance ==
  Spec => []IInv
<1>1. Init => IInv
  BY InitIInv
<1>2. IInv /\ [Next]_vars => IInv'
  BY NextIInv
<1> QED
  BY <1>1, <1>2, PTL DEF Spec

(* Ranks, streams, buffers and counters keep their ranges, and nothing is  *)
(* written into a socket that is full.                                     *)
THEOREM TypeCorrect ==
  Spec => []TypeOK
<1>1. IInv => TypeOK
  BY DEF IInv
<1> QED
  BY <1>1, Invariance, PTL

(* connect of rank 0 serves every rank once, by a process that was given   *)
(* that rank, whatever ranks the environment gives out and however often   *)
(* the socket path changes hands.                                          *)
THEOREM WorldIsAlwaysWhole ==
  Spec => []WorldIsWhole
<1>1. ASSUME IInv PROVE WorldIsWhole
  <2> SUFFICES ASSUME NEW p \in Proc, IsHub(p), InWorld(p), NEW r \in Spokes
               PROVE  peers[p][r] # NoProc /\ claim[peers[p][r]] = r /\ hub[peers[p][r]] = p
    BY DEF WorldIsWhole
  <2>1. pc[p] \in {"call", "ended"} \/ pc[p] \in CallPc
    BY <1>1 DEF IInv, TypeOK, InWorld, CallPc
  <2>2. CallsOf(p) /\ entered[p] \in Nat /\ done[p] \in Nat
    BY <1>1, Types DEF IInv
  <2>3. pc[p] \in CallPc => entered[p] > 0
    BY <2>2 DEF CallsOf
  <2>4. Whole(p)
    BY <2>1, <2>2, <2>3 DEF CallsOf
  <2> QED
    BY <1>1, <2>4 DEF IInv, StreamsTrue, Whole
<1> QED
  BY <1>1, Invariance, PTL

(* all_reduce and barrier: nobody is through a collective that a rank of   *)
(* its world has not entered, or has entered as another operation or on    *)
(* buffers of another length.                                              *)
THEOREM NobodyEverPassesAlone ==
  Spec => []NobodyPassesAlone
<1>1. ASSUME IInv PROVE NobodyPassesAlone
  <2> SUFFICES ASSUME NEW p \in Proc, done[p] > 0, NEW q \in WorldOf(p)
               PROVE  entered[q] >= done[p] /\ program[q][done[p]] = program[p][done[p]]
    BY DEF NobodyPassesAlone
  <2> DEFINE h == Hub(p)
  <2>1. IsHub(p) \/ IsSpoke(p)
    <3>1. entered[p] > 0
      BY <1>1, Types DEF IInv, CallsOf
    <3> QED
      BY <1>1, <3>1 DEF IInv, CallsOf
  <2>2. h \in Proc /\ Agreed(h, done[p]) /\ program[p][done[p]] = program[h][done[p]]
    <3>1. CASE IsHub(p)
      BY <1>1, <3>1 DEF Hub, IInv, RoundOf
    <3>2. CASE ~ IsHub(p)
      <4>1. hub[p] # NoProc /\ peers[hub[p]][claim[p]] = p /\ Agreed(hub[p], done[p]) /\ claim[p] \in Spokes
        BY <1>1, <2>1, <3>2 DEF IInv, SpokeOf, IsSpoke
      <4> QED
        BY <1>1, <3>2, <4>1, HubIsOther DEF Hub, Agreed
    <3> QED
      BY <3>1, <3>2
  <2> HIDE DEF h
  <2>3. q = h \/ \E r \in Spokes : q = peers[h][r]
    BY DEF WorldOf, World, h
  <2> QED
    BY <2>2, <2>3 DEF Agreed
<1> QED
  BY <1>1, Invariance, PTL

(* A reduction returns the sum over all ranks of the world, whatever       *)
(* process is killed meanwhile.                                            *)
THEOREM SumsAreAlwaysWhole ==
  Spec => []SumsAreWhole
<1>1. ASSUME IInv PROVE SumsAreWhole
  <2> SUFFICES ASSUME NEW p \in Proc, pc[p] = "returning", Op(p).len > 0
               PROVE  buf[p] = WorldOf(p)
    BY DEF SumsAreWhole
  <2>1. IsHub(p) \/ (~ IsHub(p) /\ IsSpoke(p))
    BY <1>1 DEF IInv, StreamsTrue
  <2>2. CASE IsHub(p)
    <3>1. {i \in Spokes : Heard(p, i) = done[p] + 1} = Spokes
      BY DEF Heard
    <3>2. buf[p] = {p} \cup {peers[p][r] : r \in {i \in Spokes : Heard(p, i) = done[p] + 1}}
      BY <1>1, <2>2 DEF IInv, RoundOf, CallPc, Op
    <3> QED
      BY <2>2, <3>1, <3>2 DEF WorldOf, World, Hub
  <2>3. CASE ~ IsHub(p) /\ IsSpoke(p)
    BY <1>1, <2>3 DEF IInv, SpokeOf, Op, WorldOf, Hub
  <2> QED
    BY <2>1, <2>2, <2>3
<1> QED
  BY <1>1, Invariance, PTL

(* As many processes as ranks: a whole world is all of them.               *)
LEMMA WholeIsAll ==
  ASSUME IsFiniteSet(Proc), Cardinality(Proc) = WorldSize,
         IInv, NEW h \in Proc, IsHub(h), Whole(h)
  PROVE  World(h) = Proc
<1> DEFINE R == 0..(WorldSize - 1)
           f == [r \in R |-> IF r = 0 THEN h ELSE peers[h][r]]
<1>1. WorldSize \in Nat /\ WorldSize # 0
  BY WorldAssumption
<1>2. \A r \in R : r # 0 => r \in Spokes
  BY <1>1, SMT DEF Spokes
<1>3. \A r \in R : f[r] \in Proc /\ claim[f[r]] = r
  <2> SUFFICES ASSUME NEW r \in R PROVE f[r] \in Proc /\ claim[f[r]] = r
    OBVIOUS
  <2>1. CASE r = 0
    BY <2>1 DEF IsHub
  <2>2. CASE r # 0
    <3>1. r \in Spokes /\ peers[h][r] # NoProc
      BY <1>2, <2>2 DEF Whole
    <3>2. peers[h][r] \in Proc /\ claim[peers[h][r]] = r
      BY <3>1, Types DEF IInv, StreamsTrue
    <3> QED
      BY <2>2, <3>2
  <2> QED
    BY <2>1, <2>2
<1>4. f \in Injection(R, Proc)
  BY <1>3 DEF Injection, IsInjective
<1>5. Cardinality(R) = WorldSize
  <2>1. 0 \in Int /\ WorldSize - 1 \in Int /\ ~ (0 > WorldSize - 1) /\ (WorldSize - 1) - 0 + 1 = WorldSize
    BY <1>1, SMT
  <2> QED
    BY <2>1, FS_Interval
<1>6. f \in Surjection(R, Proc)
  BY <1>4, <1>5, FS_Injection
<1>7. \A q \in Proc : \E r \in R : f[r] = q
  BY <1>6 DEF Surjection
<1>8. \A q \in Proc : q \in World(h)
  BY <1>2, <1>7 DEF World
<1>9. \A r \in Spokes : peers[h][r] \in Proc
  BY Types DEF IInv, Whole
<1> QED
  BY <1>8, <1>9 DEF World

(* Who is in a collective is in its hub's world.                           *)
LEMMA AllHaveCalled ==
  ASSUME IsFiniteSet(Proc), Cardinality(Proc) = WorldSize,
         IInv, NEW p \in Proc, pc[p] = "returning", NEW q \in Proc
  PROVE  entered[q] >= entered[p]
<1> DEFINE h == Hub(p)
<1>1. pc[p] \in CallPc /\ entered[p] = done[p] + 1
  BY InCall DEF CallPc
<1>2. IsHub(p) \/ (~ IsHub(p) /\ IsSpoke(p))
  BY DEF IInv, StreamsTrue
<1>3. h \in Proc /\ IsHub(h) /\ Agreed(h, done[p] + 1)
  <2>1. CASE IsHub(p)
    <3>1. \A r \in Spokes : Heard(p, r) = done[p] + 1
      BY DEF Heard
    <3>2. Whole(p)
      <4>1. entered[p] > 0
        BY <1>1, Types DEF IInv
      <4> QED
        BY <2>1, <4>1 DEF IInv, CallsOf
    <3>3. entered[p] >= done[p] + 1
      BY <1>1, Types DEF IInv
    <3> QED
      BY <1>1, <2>1, <3>1, <3>2, <3>3 DEF IInv, RoundOf, Agreed, Hub
  <2>2. CASE ~ IsHub(p) /\ IsSpoke(p)
    <3>1. Told(p)
      BY DEF Told, DeadPc
    <3>2. hub[p] # NoProc /\ Agreed(hub[p], done[p] + 1)
      BY <2>2, <3>1 DEF IInv, SpokeOf
    <3> QED
      BY <2>2, <3>2, HubIsOther DEF Hub
  <2> QED
    BY <1>2, <2>1, <2>2
<1> HIDE DEF h
<1>4. World(h) = Proc
  BY <1>3, WholeIsAll DEF Agreed
<1>5. q = h \/ \E r \in Spokes : q = peers[h][r]
  BY <1>4 DEF World
<1> QED
  BY <1>1, <1>3, <1>5 DEF Agreed

(* mynn_all_reduce and mynn_barrier, for any world: what the run checks of   *)
(* the collectives, together.                                                *)
THEOREM CollectivesAlwaysWhole == Spec => []CollectivesWhole
  BY WorldIsAlwaysWhole, NobodyEverPassesAlone, SumsAreAlwaysWhole, PTL DEF CollectivesWhole

(* In a world of as many processes as ranks, the collectives are the       *)
(* rendezvous they promise: a call returns only when every process has     *)
(* made it, and who is killed or fails drops out.                          *)
THEOREM CollectivesAreRendezvous ==
  ASSUME IsFiniteSet(Proc), Cardinality(Proc) = WorldSize
  PROVE  Spec => MeetsTheOthers
<1> DEFINE gone == {p \in Proc : pc[p] \in {"failed", "gone"}}
           pvars == <<entered, done, gone>>
<1>1. Init => Promise!Init
  BY DEF Init, Promise!Init
<1>2. ASSUME IInv, [Next]_vars
      PROVE  [Promise!Next]_pvars
  <2>1. CASE UNCHANGED vars
    BY <2>1 DEF vars
  <2>2. ASSUME NEW p \in Proc, Step(p) \/ Kill(p)
        PROVE  [Promise!Next]_pvars
    <3>1. CASE Enter(p)
      <4>1. entered' = [entered EXCEPT ![p] = @ + 1] /\ done' = done /\ entered[p] = done[p] /\ p \notin gone
        BY <1>2, <3>1 DEF Enter, AtCall, IInv, CallsOf
      <4>2. gone' = gone
        BY <1>2, <3>1 DEF Enter, AtCall, IInv, TypeOK
      <4> QED
        BY <4>1, <4>2 DEF Promise!Next, Promise!Call
    <3>2. CASE Return(p)
      <4>1. done' = [done EXCEPT ![p] = @ + 1] /\ entered' = entered /\ pc[p] = "returning" /\ p \notin gone
        BY <3>2 DEF Return
      <4>2. gone' = gone
        BY <1>2, <3>2 DEF Return, IInv, TypeOK
      <4>3. done[p] < entered[p]
        <5>1. entered[p] = done[p] + 1 /\ done[p] \in Nat
          BY <1>2, <4>1, InCall, Types DEF CallPc, IInv
        <5> QED
          BY <5>1, SMT
      <4>4. \A q \in Proc : entered[q] >= entered[p]
        BY <1>2, <4>1, AllHaveCalled
      <4> QED
        BY <4>1, <4>2, <4>3, <4>4 DEF Promise!Next, Promise!Return
    <3>3. CASE ~ Enter(p) /\ ~ Return(p)
      <4>1. entered' = entered /\ done' = done
        BY <2>2, <3>3 DEF Step, BadRank, Bind, Connect, GiveUp, Accept, Send, Receive, Gather, Scatter, Kill
      <4>2. ~ Dead(p) /\ \A q \in Proc : q # p => pc'[q] = pc[q]
        BY <1>2, <2>2, <3>3 DEF Step, BadRank, Bind, Connect, GiveUp, Accept, Send, Receive, Gather, Scatter, Kill,
           Fails, Dead, IInv, TypeOK
      <4>3. p \notin gone
        BY <4>2 DEF Dead
      <4>4. CASE pc'[p] \in {"failed", "gone"}
        <5>1. gone' = gone \cup {p}
          BY <4>2, <4>4
        <5> QED
          BY <4>1, <4>3, <5>1 DEF Promise!Next, Promise!Drop
      <4>5. CASE pc'[p] \notin {"failed", "gone"}
        <5>1. gone' = gone
          BY <4>2, <4>3, <4>5
        <5> QED
          BY <4>1, <5>1
      <4> QED
        BY <4>4, <4>5
    <3> QED
      BY <3>1, <3>2, <3>3
  <2> QED
    BY <1>2, <2>1, <2>2 DEF Next
<1> QED
  BY <1>1, <1>2, Invariance, PTL DEF Spec, MeetsTheOthers, Promise!Spec
=============================================================================
