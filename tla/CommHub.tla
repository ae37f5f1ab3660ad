------------------------------- MODULE CommHub -------------------------------
(***************************************************************************)
(* Collectives over Unix domain sockets (crates/comm/src/uds.rs).  Rank 0  *)
(* binds the socket, accepts the other ranks and is the hub of a star: a   *)
(* collective gathers a frame from every spoke, in the order of the ranks, *)
(* and sends one back to each.  A frame is a header of a tag and a length, *)
(* and a payload when it is not empty.                                     *)
(*                                                                         *)
(* The processes are started with a rank and a program of collectives by   *)
(* their environment, which may be wrong about both.  They may be killed.  *)
(* A call that fails ends the process (mynn_all_reduce expects success).   *)
(***************************************************************************)
EXTENDS Integers, Sequences, FiniteSets

CONSTANTS
  Proc,         (* the processes                                          *)
  WorldSize,    (* MYNN_WORLD_SIZE                                        *)
  Capacity,     (* how many items a socket buffers in one direction       *)
  MaxKills,     (* bound on the processes killed                          *)
  Claims,       (* the possible assignments of ranks, [Proc -> Nat]       *)
  Programs,     (* the possible programs, [Proc -> Seq([tag, len])]       *)
  NoProc

Spokes == 1..(WorldSize - 1)

(* What the environment may give: numbers for ranks, collectives to call.   *)
Op0 == [tag : {"all_reduce", "barrier"}, len : Nat]
ASSUME WorldAssumption ==
  /\ WorldSize \in Nat \ {0} /\ Capacity \in Nat /\ NoProc \notin Proc
  /\ Claims \subseteq [Proc -> Nat] /\ Programs \subseteq [Proc -> Seq(Op0)]

VARIABLES
  claim, program, (* what the environment gives a process                      *)
  pc,       (* "start", "accept", "call", "header", "payload" (sending),        *)
            (* "answer", "result" (receiving), "returning", "ended", "failed",  *)
            (* "gone"                                                           *)
  listener, (* the hub the socket path leads to                                 *)
  backlog,  (* the connections a hub has not accepted, in order                 *)
  hub,      (* the hub a spoke is connected to                                  *)
  peers,    (* a hub's streams, by rank                                         *)
  up, down, (* what is in a spoke's stream, to and from its hub                 *)
  peer,     (* the rank a hub gathers from or sends to                          *)
  buf,      (* a process's buffer: the processes whose data it has added up     *)
  entered,  (* the collectives it has called                                    *)
  done      (* those that have returned                                         *)

vars == <<claim, program, pc, listener, backlog, hub, peers, up, down, peer, buf, entered, done>>
setting == <<claim, program>>
streams == <<listener, backlog, hub, peers>>

Init ==
  /\ claim \in Claims /\ program \in Programs
  /\ pc = [p \in Proc |-> "start"]
  /\ listener = NoProc
  /\ backlog = [p \in Proc |-> <<>>]
  /\ hub = [p \in Proc |-> NoProc]
  /\ peers = [p \in Proc |-> [r \in Spokes |-> NoProc]]
  /\ up = [p \in Proc |-> <<>>] /\ down = [p \in Proc |-> <<>>]
  /\ peer = [p \in Proc |-> 1]
  /\ buf = [p \in Proc |-> {}]
  /\ entered = [p \in Proc |-> 0] /\ done = [p \in Proc |-> 0]

Dead(p) == pc[p] \in {"ended", "failed", "gone"}
IsHub(p) == claim[p] = 0
Fails(p) == pc' = [pc EXCEPT ![p] = "failed"]

-----------------------------------------------------------------------------
(* UdsCommunicator::connect *)

BadRank(p) ==
  /\ pc[p] = "start" /\ claim[p] >= WorldSize
  /\ Fails(p)
  /\ UNCHANGED <<setting, streams, up, down, peer, buf, done, entered>>

(* Rank 0 takes the path over from whoever had it. *)
Bind(p) ==
  /\ pc[p] = "start" /\ IsHub(p)
  /\ pc' = [pc EXCEPT ![p] = IF WorldSize = 1 THEN "call" ELSE "accept"]
  /\ listener' = p
  /\ UNCHANGED <<setting, backlog, hub, peers, up, down, peer, buf, done, entered>>

Listening == listener # NoProc /\ pc[listener] = "accept"

(* connect_with_retry and write_hello: the connection is in the backlog    *)
(* whether or not the hub accepts it.                                      *)
Connect(p) ==
  /\ pc[p] = "start" /\ claim[p] \in Spokes /\ Listening
  /\ pc' = [pc EXCEPT ![p] = "call"]
  /\ hub' = [hub EXCEPT ![p] = listener]
  /\ backlog' = [backlog EXCEPT ![listener] = Append(@, p)]
  /\ UNCHANGED <<setting, listener, peers, up, down, peer, buf, done, entered>>

(* CONNECT_TIMEOUT passes while nobody listens. *)
GiveUp(p) ==
  /\ pc[p] = "start" /\ claim[p] \in Spokes /\ ~ Listening
  /\ Fails(p)
  /\ UNCHANGED <<setting, streams, up, down, peer, buf, done, entered>>

(* One round of the accept loop: the hello names the rank. *)
Accept(p) ==
  /\ pc[p] = "accept" /\ backlog[p] # <<>>
  /\ LET q == Head(backlog[p])
         twice == peers[p][claim[q]] # NoProc
         others == {r \in Spokes \ {claim[q]} : peers[p][r] = NoProc}
     IN  /\ peers' = [peers EXCEPT ![p][claim[q]] = q]
         /\ backlog' = [backlog EXCEPT ![p] = Tail(@)]
         /\ pc' = [pc EXCEPT ![p] = IF twice THEN "failed" ELSE IF others = {} THEN "call" ELSE "accept"]
  /\ UNCHANGED <<setting, listener, hub, up, down, peer, buf, done, entered>>

-----------------------------------------------------------------------------
(* all_reduce and barrier.  A process is in its call number done + 1.      *)

Op(p) == program[p][done[p] + 1]
Header(p) == [tag |-> Op(p).tag, len |-> Op(p).len]
AtCall(p) == pc[p] = "call" /\ done[p] < Len(program[p])

(* The stream to a peer breaks when the peer is dead, or when a hub that   *)
(* has left its accept loop never took it.                                 *)
HubGone(p) == LET h == hub[p]
              IN  Dead(h) \/ (pc[h] # "accept" /\ \A r \in Spokes : peers[h][r] # p)

Enter(p) ==
  /\ AtCall(p)
  /\ buf' = [buf EXCEPT ![p] = {p}]
  /\ pc' = [pc EXCEPT ![p] = IF ~ IsHub(p) THEN "header"
                             ELSE IF Spokes = {} THEN "returning" ELSE "answer"]
  /\ peer' = [peer EXCEPT ![p] = 1]
  /\ entered' = [entered EXCEPT ![p] = @ + 1]
  /\ UNCHANGED <<setting, streams, up, down, done>>

(* write_frame of a spoke: the header, then the payload. *)
Send(p) ==
  /\ pc[p] \in {"header", "payload"} /\ ~ IsHub(p)
  /\ IF HubGone(p) THEN Fails(p) /\ UNCHANGED up
     ELSE /\ Len(up[p]) < Capacity
          /\ up' = [up EXCEPT ![p] = Append(@, IF pc[p] = "header" THEN Header(p) ELSE [data |-> buf[p]])]
          /\ pc' = [pc EXCEPT ![p] = IF pc[p] = "header" /\ Op(p).len > 0 THEN "payload" ELSE "answer"]
  /\ UNCHANGED <<setting, streams, down, peer, buf, done, entered>>

(* read_frame of a spoke, into its own buffer *)
Receive(p) ==
  /\ pc[p] \in {"answer", "result"} /\ ~ IsHub(p)
  /\ IF down[p] = <<>> THEN HubGone(p) /\ Fails(p) /\ UNCHANGED <<down, buf>>
     ELSE LET x == Head(down[p])
          IN  /\ down' = [down EXCEPT ![p] = Tail(@)]
              /\ IF pc[p] = "answer"
                 THEN /\ pc' = [pc EXCEPT ![p] = IF x # Header(p) THEN "failed"
                                                 ELSE IF x.len > 0 THEN "result" ELSE "returning"]
                      /\ UNCHANGED buf
                 ELSE /\ buf' = [buf EXCEPT ![p] = x.data]
                      /\ pc' = [pc EXCEPT ![p] = "returning"]
  /\ UNCHANGED <<setting, streams, up, peer, done, entered>>

(* Mutants of Gather: a frame is taken for what the hub itself is calling; *)
(* it hears the last peer only.                                            *)
Gather_AnyFrame(p) ==
  /\ pc[p] \in {"answer", "result"} /\ IsHub(p)
  /\ LET q == peers[p][peer[p]]
     IN  /\ IF up[q] = <<>> THEN Dead(q) /\ Fails(p) /\ UNCHANGED <<up, buf, peer>>
            ELSE LET x == Head(up[q])
                     heard == (pc[p] = "answer" /\ x.len = 0) \/ pc[p] = "result"
                 IN  /\ up' = [up EXCEPT ![q] = Tail(@)]
                     /\ buf' = IF pc[p] = "result" THEN [buf EXCEPT ![p] = @ \cup x.data] ELSE buf
                     /\ peer' = [peer EXCEPT ![p] = IF ~ heard THEN @ ELSE IF @ = WorldSize - 1 THEN 1 ELSE @ + 1]
                     /\ pc' = [pc EXCEPT ![p] =
                          IF ~ heard THEN "result"
                          ELSE IF peer[p] = WorldSize - 1 THEN "header" ELSE "answer"]
  /\ UNCHANGED <<setting, streams, down, done, entered>>

Gather_LastOnly(p) ==
  /\ pc[p] \in {"answer", "result"} /\ IsHub(p)
  /\ LET q == peers[p][WorldSize - 1]
     IN  /\ IF up[q] = <<>> THEN Dead(q) /\ Fails(p) /\ UNCHANGED <<up, buf, peer>>
            ELSE LET x == Head(up[q])
                     heard == (pc[p] = "answer" /\ x = Header(p) /\ x.len = 0) \/ pc[p] = "result"
                 IN  /\ up' = [up EXCEPT ![q] = Tail(@)]
                     /\ buf' = IF pc[p] = "result" THEN [buf EXCEPT ![p] = @ \cup x.data] ELSE buf
                     /\ peer' = [peer EXCEPT ![p] = 1]
                     /\ pc' = [pc EXCEPT ![p] =
                          IF pc[p] = "answer" /\ x # Header(p) THEN "failed"
                          ELSE IF heard THEN "header" ELSE "result"]
  /\ UNCHANGED <<setting, streams, down, done, entered>>

(* read_frame of the hub from the next peer, and reduce *)
Gather(p) ==
  /\ pc[p] \in {"answer", "result"} /\ IsHub(p)
  /\ LET q == peers[p][peer[p]]
     IN  /\ IF up[q] = <<>> THEN Dead(q) /\ Fails(p) /\ UNCHANGED <<up, buf, peer>>
            ELSE LET x == Head(up[q])
                     heard == (pc[p] = "answer" /\ x = Header(p) /\ x.len = 0) \/ pc[p] = "result"
                 IN  /\ up' = [up EXCEPT ![q] = Tail(@)]
                     /\ buf' = IF pc[p] = "result" THEN [buf EXCEPT ![p] = @ \cup x.data] ELSE buf
                     /\ peer' = [peer EXCEPT ![p] = IF ~ heard THEN @ ELSE IF @ = WorldSize - 1 THEN 1 ELSE @ + 1]
                     /\ pc' = [pc EXCEPT ![p] =
                          IF pc[p] = "answer" /\ x # Header(p) THEN "failed"
                          ELSE IF ~ heard THEN "result"
                          ELSE IF peer[p] = WorldSize - 1 THEN "header" ELSE "answer"]
  /\ UNCHANGED <<setting, streams, down, done, entered>>

(* write_frame of the hub to the next peer *)
Scatter(p) ==
  /\ pc[p] \in {"header", "payload"} /\ IsHub(p)
  /\ LET q == peers[p][peer[p]]
         sent == pc[p] = "payload" \/ Op(p).len = 0
     IN  IF Dead(q) THEN Fails(p) /\ UNCHANGED <<down, peer>>
         ELSE /\ Len(down[q]) < Capacity
              /\ down' = [down EXCEPT ![q] = Append(@, IF pc[p] = "header" THEN Header(p) ELSE [data |-> buf[p]])]
              /\ peer' = [peer EXCEPT ![p] = IF sent /\ @ < WorldSize - 1 THEN @ + 1 ELSE @]
              /\ pc' = [pc EXCEPT ![p] = IF ~ sent THEN "payload"
                                         ELSE IF peer[p] = WorldSize - 1 THEN "returning" ELSE "header"]
  /\ UNCHANGED <<setting, streams, up, buf, done, entered>>

Return(p) ==
  /\ pc[p] = "returning"
  /\ done' = [done EXCEPT ![p] = @ + 1]
  /\ pc' = [pc EXCEPT ![p] = IF done[p] + 1 = Len(program[p]) THEN "ended" ELSE "call"]
  /\ UNCHANGED <<setting, streams, up, down, peer, buf, entered>>

(* The process is killed, between any two steps: its sockets close. *)
Kill(p) ==
  /\ ~ Dead(p) /\ Cardinality({q \in Proc : pc[q] = "gone"}) < MaxKills
  /\ pc' = [pc EXCEPT ![p] = "gone"]
  /\ UNCHANGED <<setting, streams, up, down, peer, buf, done, entered>>

Step(p) ==
  \/ BadRank(p) \/ Bind(p) \/ Connect(p) \/ GiveUp(p) \/ Accept(p)
  \/ Enter(p) \/ Send(p) \/ Receive(p) \/ Gather(p) \/ Scatter(p) \/ Return(p)

Next == \E p \in Proc : Step(p) \/ Kill(p)

(* Every process runs until it blocks; a timeout of ten seconds passes.    *)
Spec == Init /\ [][Next]_vars /\ \A p \in Proc : WF_vars(Step(p))

-----------------------------------------------------------------------------
(* Properties. *)

Frame == Op0 \cup [data : SUBSET Proc]
TypeOK ==
  /\ claim \in [Proc -> Nat] /\ program \in [Proc -> Seq(Op0)]
  /\ pc \in [Proc -> {"start", "accept", "call", "header", "payload", "answer", "result",
                      "returning", "ended", "failed", "gone"}]
  /\ listener \in Proc \cup {NoProc}
  /\ backlog \in [Proc -> Seq(Proc)] /\ hub \in [Proc -> Proc \cup {NoProc}]
  /\ peers \in [Proc -> [Spokes -> Proc \cup {NoProc}]]
  /\ peer \in [Proc -> Spokes \cup {1}] /\ buf \in [Proc -> SUBSET Proc]
  /\ entered \in [Proc -> Nat] /\ done \in [Proc -> Nat]
  /\ up \in [Proc -> Seq(Frame)] /\ down \in [Proc -> Seq(Frame)]
  /\ \A p \in Proc : Len(up[p]) <= Capacity /\ Len(down[p]) <= Capacity

(* A hub that left its accept loop has one stream to each rank, of a       *)
(* process that was given that rank: no rank is served twice or missing.   *)
World(p) == {p} \cup {peers[p][r] : r \in Spokes}
InWorld(p) == pc[p] \notin {"start", "accept", "failed", "gone"}
WorldIsWhole ==
  \A p \in Proc : IsHub(p) /\ InWorld(p) =>
    \A r \in Spokes : peers[p][r] # NoProc /\ claim[peers[p][r]] = r /\ hub[peers[p][r]] = p

(* The world of a process is that of its hub. *)
Hub(p) == IF IsHub(p) THEN p ELSE hub[p]
WorldOf(p) == World(Hub(p))

(* Nobody returns from a collective that some rank of its world has not    *)
(* entered, nor from one that another rank entered as something else: the  *)
(* same operation, on buffers of the same length.                          *)
NobodyPassesAlone ==
  \A p \in Proc : done[p] > 0 =>
    \A q \in WorldOf(p) :
      entered[q] >= done[p] /\ program[q][done[p]] = program[p][done[p]]

(* What a reduction returns is what every rank of the world brought,       *)
(* whatever breaks meanwhile.                                              *)
SumsAreWhole ==
  \A p \in Proc : pc[p] = "returning" /\ Op(p).len > 0 => buf[p] = WorldOf(p)

(* The hub has one stream to each rank; nobody returns from a collective   *)
(* that a rank of its world has not entered, or has entered as something   *)
(* else; and a reduction returns what every rank brought.                  *)
CollectivesWhole == WorldIsWhole /\ NobodyPassesAlone /\ SumsAreWhole

(* Everyone comes to an end, by the end of its program or by an error: no *)
(* collective waits forever, whatever the programs and whoever is killed.  *)
(* What may wait forever is the hub in accept, which has no timeout, and   *)
(* with it the ranks that have connected, when a rank never comes.         *)
EveryoneEnds == <>[](\A p \in Proc : Dead(p) \/ (Hub(p) # NoProc /\ pc[Hub(p)] = "accept"))

(* In a well configured world every program is done, unless a process is   *)
(* killed or the hub binds so late that a rank has given up on it.         *)
AllDone ==
  \/ <>(\A p \in Proc : pc[p] = "ended")
  \/ <>(\E p \in Proc : pc[p] = "gone" \/ (pc[p] = "failed" /\ Hub(p) = NoProc))

(* A well configured world is a rendezvous of its ranks. *)
Promise == INSTANCE Rendezvous WITH
  Rank <- Proc, calls <- entered, returns <- done, dropped <- {p \in Proc : pc[p] \in {"failed", "gone"}}
MeetsTheOthers == Promise!Spec
=============================================================================
