----------------------------- MODULE ChainProofs -----------------------------
(***************************************************************************)
(* Proofs about the chain: the consensus that decides blocks, and the      *)
(* application that executes them.                                         *)
(*                                                                         *)
(* First, what HyperBFT guarantees for any number of validators, heights,  *)
(* view timeouts and crashes.                                              *)
(*                                                                         *)
(* DecidedByQuorum is not inductive: a validator that takes another one's  *)
(* certificate looks at nothing but the number of votes in it.  The        *)
(* invariant adds that every certificate ever sent is backed, that every   *)
(* vote is for a proposal, and that a collector holds votes that were sent.*)
(***************************************************************************)
EXTENDS HyperBft, ChainApp, SumTheorems, SequenceTheorems, TLAPS

Voters(b, sent) == {u \in Validators : Vote(u, b) \in sent}

\* A block that was proposed by its leader and for which a quorum voted.
Backed(b, sent) ==
    /\ b \in Block
    /\ Propose(b) \in sent
    /\ b.proposer = leader_for_height(b.height)
    /\ Cardinality(Voters(b, sent)) >= quorum_size

HeightType ==
    /\ current_height \in [Validators -> Nat]
    /\ decided \in [Validators -> Seq(Block)]
    /\ executed \in [Validators -> Nat]
    /\ \A v \in Validators : Len(decided[v]) = current_height[v]

MessagesInv ==
    \A m \in messages :
        /\ m.type = "Propose" =>
             m.block \in Block /\ m.block.proposer = leader_for_height(m.block.height)
        /\ m.type = "Vote" => Propose(m.block) \in messages
        /\ m.type = "Commit" => Backed(m.block, messages)

CollectorInv ==
    /\ DOMAIN votes = Validators
    /\ \A v \in Validators : \A x \in votes[v] :
         x.voter \in Validators /\ Vote(x.voter, x.block) \in messages

DecidedInv ==
    \A v \in Validators : \A h \in 1..current_height[v] :
        decided[v][h].height = h /\ Backed(decided[v][h], messages)

BftInv == HeightType /\ MessagesInv /\ CollectorInv /\ DecidedInv

\* There are finitely many validators, and so finitely many voters.
LEMMA FiniteVoters == \A S : S \subseteq Validators => IsFiniteSet(S)
  <1>1. IsFiniteSet(Validators)
    BY FS_Interval, HyperBftAssumption DEF Validators
  <1>2. QED
    BY <1>1, FS_Subset

\* A larger set of validators is a larger quorum.
LEMMA LargerQuorum ==
    ASSUME NEW S, NEW T, S \subseteq T, T \subseteq Validators,
           Cardinality(S) >= quorum_size
    PROVE  Cardinality(T) >= quorum_size
  <1>1. IsFiniteSet(T)
    BY FiniteVoters
  <1>2. Cardinality(S) <= Cardinality(T) /\ Cardinality(S) \in Nat /\ Cardinality(T) \in Nat
    BY <1>1, FS_Subset, FS_CardinalityType
  <1>3. quorum_size \in Nat
    BY HyperBftAssumption DEF quorum_size
  <1>4. QED
    BY <1>2, <1>3

\* A block that is backed stays backed: messages are never taken back.
LEMMA BackedStays ==
    ASSUME NEW b, NEW S, NEW T, S \subseteq T, Backed(b, S)
    PROVE  Backed(b, T)
  <1>1. Voters(b, S) \subseteq Voters(b, T) /\ Voters(b, T) \subseteq Validators
    BY DEF Voters
  <1>2. Cardinality(Voters(b, T)) >= quorum_size
    BY <1>1, LargerQuorum DEF Backed
  <1>3. QED
    BY <1>2 DEF Backed

\* The three kinds of messages are told apart by their type.
LEMMA MessageKinds ==
    /\ \A b : Propose(b).type = "Propose" /\ Propose(b).block = b
    /\ \A u, b : Vote(u, b).type = "Vote" /\ Vote(u, b).voter = u /\ Vote(u, b).block = b
    /\ \A b, Q : Commit(b, Q).type = "Commit" /\ Commit(b, Q).block = b
  BY DEF Propose, Vote, Commit

\* The leader's proposal is one more message.
LEMMA ProposeKeeps ==
    ASSUME BftInv, NEW v \in Validators, propose_block(v)
    PROVE  BftInv'
  <1> DEFINE b == [height |-> current_height[v] + 1, proposer |-> v,
                   parent_hash |-> executed[v] + 1]
  <1>1. messages' = messages \cup {Propose(b)} /\ messages \subseteq messages'
    BY DEF propose_block
  <1>2. b \in Block /\ b.proposer = leader_for_height(b.height)
    BY DEF propose_block, BftInv, HeightType, Block
  <1>3. HeightType'
    BY DEF propose_block, BftInv, HeightType
  <1>4. MessagesInv'
    <2>1. SUFFICES ASSUME NEW m \in messages'
                   PROVE  /\ m.type = "Propose" => /\ m.block \in Block
                                                   /\ m.block.proposer = leader_for_height(m.block.height)
                          /\ m.type = "Vote" => Propose(m.block) \in messages'
                          /\ m.type = "Commit" => Backed(m.block, messages')
      BY DEF MessagesInv, leader_for_height, Block, Validators
    <2>2. CASE m \in messages
      BY <1>1, <2>2, BackedStays DEF BftInv, MessagesInv
    <2>3. CASE m = Propose(b)
      <3>1. m.type = "Propose" /\ m.block = b
        BY <2>3, MessageKinds
      <3>2. QED
        BY <1>2, <3>1
    <2>4. QED
      BY <1>1, <2>2, <2>3
  <1>5. CollectorInv'
    BY <1>1 DEF propose_block, BftInv, CollectorInv, Vote
  <1>6. DecidedInv'
    BY <1>1, BackedStays DEF propose_block, BftInv, DecidedInv
  <1>7. QED
    BY <1>3, <1>4, <1>5, <1>6 DEF BftInv

\* A validator that takes a backed block for its next height keeps what is
\* known of the decided blocks.
LEMMA AdvanceKeeps ==
    ASSUME HeightType, DecidedInv, messages \subseteq messages',
           NEW v \in Validators, NEW b, Advance(v, b), UNCHANGED executed,
           b.height = current_height[v] + 1, Backed(b, messages')
    PROVE  HeightType' /\ DecidedInv'
  <1>1. b \in Block
    BY DEF Backed
  <1>2. /\ current_height' = [current_height EXCEPT ![v] = current_height[v] + 1]
        /\ decided' = [decided EXCEPT ![v] = Append(decided[v], b)]
    BY DEF Advance
  <1>3. decided[v] \in Seq(Block) /\ Len(decided[v]) = current_height[v]
    BY DEF HeightType
  <1>4. /\ Append(decided[v], b) \in Seq(Block)
        /\ Len(Append(decided[v], b)) = current_height[v] + 1
        /\ Append(decided[v], b)[current_height[v] + 1] = b
        /\ \A h \in 1..current_height[v] : Append(decided[v], b)[h] = decided[v][h]
    BY <1>1, <1>3
  <1>5. HeightType'
    BY <1>2, <1>3, <1>4 DEF HeightType
  <1>6. ASSUME NEW w \in Validators, NEW h \in 1..current_height'[w]
        PROVE  decided'[w][h].height = h /\ Backed(decided'[w][h], messages')
    <2>1. CASE h \in 1..current_height[w]
      <3>1. decided'[w][h] = decided[w][h]
        BY <1>2, <1>4, <2>1 DEF HeightType
      <3>2. decided[w][h].height = h /\ Backed(decided[w][h], messages)
        BY <2>1 DEF DecidedInv
      <3>3. Backed(decided[w][h], messages')
        BY <3>1, <3>2, BackedStays
      <3>4. QED
        BY <3>1, <3>2, <3>3
    <2>2. CASE w = v /\ h = current_height[v] + 1
      <3>1. decided'[w][h] = b
        BY <1>2, <1>4, <2>2 DEF HeightType
      <3>2. QED
        BY <2>2, <3>1
    <2>3. QED
      BY <1>2, <2>1, <2>2 DEF HeightType
  <1>7. DecidedInv'
    BY <1>6 DEF DecidedInv
  <1>8. QED
    BY <1>5, <1>7

\* Counting a vote that is sent, or has been sent before, for a proposal of the
\* next height, whether it completes a quorum or not.
LEMMA CountVoteKeeps ==
    ASSUME BftInv, NEW v \in Validators, NEW u \in Validators, NEW b,
           Propose(b) \in messages, b.height = current_height[v] + 1,
           NEW sent, sent \subseteq {Vote(u, b)}, Vote(u, b) \in messages \cup sent,
           NEW speculation, CountVote(v, Vote(u, b), sent, speculation),
           UNCHANGED executed
    PROVE  BftInv'
  <1> DEFINE collected == votes[v] \cup {Vote(u, b)}
             voters == Supporters(collected, b)
  <1>1. Vote(u, b).voter = u /\ Vote(u, b).block = b /\ Vote(u, b).type = "Vote"
    BY MessageKinds
  <1>2. b \in Block /\ b.proposer = leader_for_height(b.height)
    BY MessageKinds DEF BftInv, MessagesInv
  <1>3. \A x \in collected :
          x.voter \in Validators /\ Vote(x.voter, x.block) \in messages \cup sent
    BY <1>1 DEF BftInv, CollectorInv
  <1>4. voters \subseteq Voters(b, messages \cup sent)
    BY <1>3 DEF Supporters, Voters
  <1>5. Cardinality(voters) >= quorum_size => Backed(b, messages \cup sent)
    <2>1. Voters(b, messages \cup sent) \subseteq Validators
      BY DEF Voters
    <2>2. QED
      BY <1>2, <1>4, <2>1, LargerQuorum DEF Backed
  <1>6. CASE /\ Cardinality(voters) < quorum_size
             /\ votes' = [votes EXCEPT ![v] = collected]
             /\ messages' = messages \cup sent
             /\ UNCHANGED <<current_height, decided, waiting>>
    <2>1. HeightType'
      BY <1>6 DEF BftInv, HeightType
    <2>2. MessagesInv'
      <3>1. SUFFICES ASSUME NEW m \in messages'
                     PROVE  /\ m.type = "Propose" => /\ m.block \in Block
                                                     /\ m.block.proposer = leader_for_height(m.block.height)
                            /\ m.type = "Vote" => Propose(m.block) \in messages'
                            /\ m.type = "Commit" => Backed(m.block, messages')
        BY DEF MessagesInv
      <3>2. CASE m \in messages
        BY <1>6, <3>2, BackedStays DEF BftInv, MessagesInv
      <3>3. CASE m = Vote(u, b)
        BY <1>1, <1>6, <3>3
      <3>4. QED
        BY <1>6, <3>2, <3>3
    <2>3. CollectorInv'
      BY <1>3, <1>6 DEF BftInv, CollectorInv
    <2>4. DecidedInv'
      BY <1>6, BackedStays DEF BftInv, DecidedInv
    <2>5. QED
      BY <2>1, <2>2, <2>3, <2>4 DEF BftInv
  <1>7. CASE /\ Cardinality(voters) >= quorum_size
             /\ Advance(v, b)
             /\ votes' = [votes EXCEPT ![v] = prune(collected, current_height[v] + 1)]
             /\ messages' = messages \cup sent \cup {Commit(b, voters)}
    <2>1. messages \subseteq messages' /\ messages \cup sent \subseteq messages'
      BY <1>7
    <2>2. Backed(b, messages')
      BY <1>5, <1>7, <2>1, BackedStays
    <2>3. HeightType' /\ DecidedInv'
      BY <1>7, <2>1, <2>2, AdvanceKeeps DEF BftInv
    <2>4. MessagesInv'
      <3>1. SUFFICES ASSUME NEW m \in messages'
                     PROVE  /\ m.type = "Propose" => /\ m.block \in Block
                                                     /\ m.block.proposer = leader_for_height(m.block.height)
                            /\ m.type = "Vote" => Propose(m.block) \in messages'
                            /\ m.type = "Commit" => Backed(m.block, messages')
        BY DEF MessagesInv
      <3>2. CASE m \in messages
        BY <2>1, <3>2, BackedStays DEF BftInv, MessagesInv
      <3>3. CASE m = Vote(u, b)
        BY <1>1, <2>1, <3>3
      <3>4. CASE m = Commit(b, voters)
        <4>1. m.type = "Commit" /\ m.block = b
          BY <3>4, MessageKinds
        <4>2. QED
          BY <2>2, <4>1
      <3>5. QED
        BY <1>7, <3>2, <3>3, <3>4
    <2>5. CollectorInv'
      BY <1>3, <1>7, <2>1 DEF BftInv, CollectorInv, prune
    <2>6. QED
      BY <2>3, <2>4, <2>5 DEF BftInv
  <1>8. QED
    BY <1>1, <1>6, <1>7 DEF CountVote

\* A step that only adds a vote for a proposal to the messages.
LEMMA SecondVoteKeeps ==
    ASSUME BftInv, NEW u \in Validators, NEW b, Propose(b) \in messages,
           messages' = messages \cup {Vote(u, b)},
           UNCHANGED <<current_height, votes, executed, decided>>
    PROVE  BftInv'
  <1>1. Vote(u, b).block = b /\ Vote(u, b).type = "Vote"
    BY MessageKinds
  <1>2. ASSUME NEW m \in messages'
        PROVE  /\ m.type = "Propose" => /\ m.block \in Block
                                        /\ m.block.proposer = leader_for_height(m.block.height)
               /\ m.type = "Vote" => Propose(m.block) \in messages'
               /\ m.type = "Commit" => Backed(m.block, messages')
    <2>1. CASE m \in messages
      BY <2>1, BackedStays DEF BftInv, MessagesInv
    <2>2. CASE m = Vote(u, b)
      BY <1>1, <2>2
    <2>3. QED
      BY <1>2, <2>1, <2>2
  <1>3. MessagesInv'
    BY <1>2 DEF MessagesInv
  <1>4. HeightType' /\ CollectorInv'
    BY DEF BftInv, HeightType, CollectorInv
  <1>5. DecidedInv'
    BY BackedStays DEF BftInv, DecidedInv
  <1>6. QED
    BY <1>3, <1>4, <1>5 DEF BftInv

\* Every step of every validator keeps the invariant.
LEMMA BftStep ==
    ASSUME BftInv, [Next]_vars
    PROVE  BftInv'
  <1>1. ASSUME NEW v \in Validators, propose_block(v)
        PROVE  BftInv'
    BY <1>1, ProposeKeeps
  <1>2. ASSUME NEW v \in Validators, NEW b \in Proposed, HandlePropose(v, b)
        PROVE  BftInv'
    <2>1. Propose(b) \in messages /\ b.height = current_height[v] + 1 /\ UNCHANGED executed
      BY <1>2 DEF HandlePropose, ForNextHeight
    <2>2. CASE /\ messages' = messages \cup {Vote(v, b)}
               /\ UNCHANGED <<current_height, votes, decided>>
      BY <2>1, <2>2, SecondVoteKeeps
    <2>3. CASE CountVote(v, Vote(v, b), {Vote(v, b)}, begin_speculative(v))
      BY <2>1, <2>3, CountVoteKeeps
    <2>4. QED
      BY <1>2, <2>2, <2>3 DEF HandlePropose
  <1>3. ASSUME NEW v \in Validators, NEW b \in Proposed, NEW u \in Validators,
               HandleVote(v, u, b)
        PROVE  BftInv'
    <2>1. Propose(b) \in messages
      <3>1. Vote(u, b) \in messages
        BY <1>3 DEF HandleVote
      <3>2. QED
        BY <3>1, MessageKinds DEF BftInv, MessagesInv
    <2>2. /\ b.height = current_height[v] + 1 /\ UNCHANGED executed
          /\ Vote(u, b) \in messages /\ CountVote(v, Vote(u, b), {}, snapshot_height)
      BY <1>3 DEF HandleVote, ForNextHeight
    <2>3. QED
      BY <2>1, <2>2, CountVoteKeeps
  <1>4. ASSUME NEW v \in Validators, NEW m \in messages, HandleCommit(v, m)
        PROVE  BftInv'
    <2>1. Backed(m.block, messages')
      BY <1>4 DEF HandleCommit, BftInv, MessagesInv
    <2>2. HeightType' /\ DecidedInv'
      BY <1>4, <2>1, AdvanceKeeps DEF HandleCommit, ForNextHeight, BftInv
    <2>3. MessagesInv' /\ CollectorInv'
      BY <1>4 DEF HandleCommit, BftInv, MessagesInv, CollectorInv
    <2>4. QED
      BY <2>2, <2>3 DEF BftInv
  <1>5. ASSUME NEW v \in Validators, Follow(v) \/ Timeout(v) \/ Crash(v)
        PROVE  BftInv'
    <2>1. UNCHANGED <<current_height, votes, executed, messages, decided>>
      BY <1>5 DEF Follow, Timeout, Crash
    <2>2. QED
      BY <2>1 DEF BftInv, HeightType, MessagesInv, CollectorInv, DecidedInv
  <1>6. CASE UNCHANGED vars
    BY <1>6 DEF vars, BftInv, HeightType, MessagesInv, CollectorInv, DecidedInv
  <1>7. QED
    BY <1>1, <1>2, <1>3, <1>4, <1>5, <1>6 DEF Next, Progress

\* Two quorums of a committee share as many members as they exceed it by.
LEMMA QuorumsMeet ==
    ASSUME NEW S, NEW T, S \subseteq Validators, T \subseteq Validators,
           Cardinality(S) >= quorum_size, Cardinality(T) >= quorum_size
    PROVE  Cardinality(S \cap T) >= 2 * quorum_size - num_validators
  <1>1. IsFiniteSet(S) /\ IsFiniteSet(T) /\ IsFiniteSet(Validators)
    BY FiniteVoters
  <1>2. Cardinality(Validators) = num_validators
    BY FS_Interval, HyperBftAssumption DEF Validators
  <1>3. Cardinality(S \cup T) <= num_validators
    BY <1>1, <1>2, FS_Subset
  <1>4. Cardinality(S \cup T) = Cardinality(S) + Cardinality(T) - Cardinality(S \cap T)
    BY <1>1, FS_Union
  <1>5. /\ Cardinality(S) \in Nat /\ Cardinality(T) \in Nat
        /\ Cardinality(S \cap T) \in Nat
    BY <1>1, FS_CardinalityType, FS_Intersection
  <1>6. QED
    BY <1>3, <1>4, <1>5, HyperBftAssumption DEF quorum_size

\* For any number of validators, any f, any number of heights, timeouts and
\* crashes and any delivery of messages: what a validator commits was proposed
\* by the leader of its height and voted for by 2f+1 validators, and where two
\* validators commit different blocks, 2(2f+1) - n validators voted for both.
THEOREM QuorumDecides == Spec => [](DecidedByQuorum /\ ForksTakeDoubleVotes)
  <1>1. Init => BftInv
    BY DEF Init, BftInv, HeightType, MessagesInv, CollectorInv, DecidedInv
  <1>2. BftInv /\ [Next]_vars => BftInv'
    BY BftStep
  <1>3. BftInv => DecidedByQuorum
    BY DEF BftInv, DecidedInv, DecidedByQuorum, Backed, Voters, quorum_size
  <1>4. BftInv => ForksTakeDoubleVotes
    <2>1. SUFFICES ASSUME BftInv, NEW v \in Validators, NEW w \in Validators,
                          NEW h \in 1..current_height[v], h <= current_height[w]
                   PROVE  Cardinality(VotedForBoth(decided[v][h], decided[w][h]))
                            >= 2 * (2 * fault_tolerance + 1) - num_validators
      BY DEF ForksTakeDoubleVotes
    <2>2. h \in 1..current_height[w]
      BY <2>1 DEF BftInv, HeightType
    <2>3. /\ Cardinality(Voters(decided[v][h], messages)) >= quorum_size
          /\ Cardinality(Voters(decided[w][h], messages)) >= quorum_size
      BY <2>1, <2>2 DEF BftInv, DecidedInv, Backed
    <2>4. VotedForBoth(decided[v][h], decided[w][h])
            = Voters(decided[v][h], messages) \cap Voters(decided[w][h], messages)
      BY DEF VotedForBoth, Voters
    <2>5. /\ Voters(decided[v][h], messages) \subseteq Validators
          /\ Voters(decided[w][h], messages) \subseteq Validators
      BY DEF Voters
    <2>6. Cardinality(VotedForBoth(decided[v][h], decided[w][h]))
            >= 2 * quorum_size - num_validators
      BY <2>3, <2>4, <2>5, QuorumsMeet
    <2>7. QED
      BY <2>6 DEF quorum_size
  <1>5. QED
    BY <1>1, <1>2, <1>3, <1>4, PTL DEF Spec

-----------------------------------------------------------------------------
(***************************************************************************)
(* The application: the index of client order ids, for any number of       *)
(* accounts, names, orders, transactions and restarts.                     *)
(*                                                                         *)
(* CloidEntriesTrue and StillFindable are about the index; what they need  *)
(* besides is that an order id is given out once (per start of the spot    *)
(* engine), and what the transaction under way has noted so far.           *)
(***************************************************************************)

\* Whether the ids of a market have not started again.
Live(m) == restarts = 0 \/ m = "perp"

OrdersInv ==
    /\ restarts \in Nat /\ next_order_id \in [Engines -> Nat]
    /\ \A o \in placed : o.market \in Engines /\ o.id \in Nat
    /\ \A o \in placed : Live(o.market) => o.id < next_order_id[o.market]
    /\ \A o, p \in placed : Live(o.market) /\ Oid(o) = Oid(p) => o = p
    /\ book \subseteq placed /\ triggers \subseteq placed /\ confirmed \subseteq placed

\* An order that was placed and, if its id says which one it is, is gone.
Gone(p) == p \in placed /\ (Live(p.market) => p \notin book)

TxInv ==
    tx # NoTx =>
        /\ DOMAIN tx = {"sender", "kind", "register", "filled", "remove"}
        /\ tx.register \in Seq(placed)
        /\ \A oid \in tx.filled : \E p \in placed : Oid(p) = oid /\ Gone(p)
        /\ \A c \in tx.remove : \E p \in placed : Key(p) = <<tx.sender, c>> /\ Gone(p)

\* An entry is of an order that was placed under that name, and a live one is
\* in both maps.
IndexOK(ix) ==
    /\ \A k \in DOMAIN ix.fwd : \E o \in placed : Oid(o) = ix.fwd[k] /\ Key(o) = k
    /\ \A oid \in DOMAIN ix.rev : \E o \in placed : Oid(o) = oid /\ Key(o) = ix.rev[oid]
    /\ \A k \in DOMAIN ix.fwd :
          Live(ix.fwd[k][1]) => ix.fwd[k] \in DOMAIN ix.rev /\ ix.rev[ix.fwd[k]] = k

\* The only order of its name, with an id that says which one it is.
Sole(o) == Live(o.market) /\ \A p \in placed : Key(p) = Key(o) => p = o

Findable(ix, S) ==
    \A o \in S : Sole(o) => Key(o) \in DOMAIN ix.fwd /\ ix.fwd[Key(o)] = Oid(o)

AppInv ==
    OrdersInv /\ TxInv /\ IndexOK(Index) /\ Findable(Index, book \cap confirmed)

\* register_cloid gives an order that was placed its entries.
LEMMA RegisterOne ==
    ASSUME OrdersInv, NEW ix, IndexOK(ix), NEW o \in placed,
           NEW S \in SUBSET placed, Findable(ix, S)
    PROVE  IndexOK(register_cloid(ix, o)) /\ Findable(register_cloid(ix, o), S \cup {o})
  <1>1. PICK f, r, g, q, k, id :
          /\ f = ix.fwd /\ r = ix.rev /\ k = Key(o) /\ id = Oid(o)
          /\ g = With(f, k, id) /\ q = With(r, id, k)
    OBVIOUS
  <1>2. register_cloid(ix, o).fwd = g /\ register_cloid(ix, o).rev = q
    BY <1>1 DEF register_cloid
  <1>3. /\ DOMAIN g = DOMAIN f \cup {k} /\ g[k] = id
        /\ \A y \in DOMAIN f : y # k => g[y] = f[y]
        /\ DOMAIN q = DOMAIN r \cup {id} /\ q[id] = k
        /\ \A y \in DOMAIN r : y # id => q[y] = r[y]
    BY <1>1 DEF With
  <1>4. /\ \A x \in DOMAIN f : \E p \in placed : Oid(p) = f[x] /\ Key(p) = x
        /\ \A x \in DOMAIN r : \E p \in placed : Oid(p) = x /\ Key(p) = r[x]
        /\ \A x \in DOMAIN f : Live(f[x][1]) => f[x] \in DOMAIN r /\ r[f[x]] = x
    BY <1>1 DEF IndexOK
  <1>5. \A x \in DOMAIN g : \E p \in placed : Oid(p) = g[x] /\ Key(p) = x
    BY <1>1, <1>3, <1>4
  <1>6. \A x \in DOMAIN q : \E p \in placed : Oid(p) = x /\ Key(p) = q[x]
    BY <1>1, <1>3, <1>4
  <1>7. ASSUME NEW x \in DOMAIN g, Live(g[x][1])
        PROVE  g[x] \in DOMAIN q /\ q[g[x]] = x
    <2>1. CASE x = k
      BY <1>3, <2>1
    <2>2. CASE x # k
      <3>1. x \in DOMAIN f /\ g[x] = f[x] /\ f[x] \in DOMAIN r /\ r[f[x]] = x
        BY <1>3, <1>4, <1>7, <2>2
      <3>2. f[x] # id
        <4>1. SUFFICES ASSUME f[x] = id PROVE FALSE
          OBVIOUS
        <4>2. PICK p \in placed : Oid(p) = f[x] /\ Key(p) = x
          BY <1>4, <3>1
        <4>3. Oid(p)[1] = p.market
          BY DEF Oid
        <4>4. Live(p.market)
          BY <1>7, <3>1, <4>2, <4>3
        <4>5. p = o
          BY <1>1, <4>1, <4>2, <4>4 DEF OrdersInv
        <4>6. QED
          BY <1>1, <2>2, <4>2, <4>5
      <3>3. QED
        BY <1>3, <3>1, <3>2
    <2>3. QED
      BY <2>1, <2>2
  <1>8. ASSUME NEW p \in S \cup {o}, Sole(p)
        PROVE  Key(p) \in DOMAIN g /\ g[Key(p)] = Oid(p)
    <2>1. CASE Key(p) = k
      <3>1. p = o
        BY <1>1, <1>8, <2>1 DEF Sole
      <3>2. QED
        BY <1>1, <1>3, <3>1
    <2>2. CASE Key(p) # k
      <3>1. p \in S
        BY <1>1, <2>2
      <3>2. Key(p) \in DOMAIN f /\ f[Key(p)] = Oid(p)
        BY <1>1, <1>8, <3>1 DEF Findable
      <3>3. QED
        BY <1>3, <2>2, <3>2
    <2>3. QED
      BY <2>1, <2>2
  <1>9. IndexOK(register_cloid(ix, o))
    BY <1>2, <1>5, <1>6, <1>7 DEF IndexOK
  <1>10. Findable(register_cloid(ix, o), S \cup {o})
    BY <1>2, <1>8 DEF Findable
  <1>11. QED
    BY <1>9, <1>10

\* remove_cloid_by_order takes the entries of filled orders away, and of the
\* orders that stay no sole one's.
LEMMA RemoveFilled ==
    ASSUME OrdersInv, NEW ix, IndexOK(ix), NEW S \in SUBSET placed, Findable(ix, S),
           NEW F, \A o \in S : Live(o.market) => Oid(o) \notin F
    PROVE  /\ IndexOK(remove_cloid_by_order(ix, F))
           /\ Findable(remove_cloid_by_order(ix, F), S)
  <1>1. PICK f, r, g, q, K :
          /\ f = ix.fwd /\ r = ix.rev /\ K = {r[x] : x \in F \cap DOMAIN r}
          /\ g = Without(f, K) /\ q = Without(r, F)
    OBVIOUS
  <1>2. remove_cloid_by_order(ix, F).fwd = g /\ remove_cloid_by_order(ix, F).rev = q
    BY <1>1 DEF remove_cloid_by_order
  <1>3. /\ DOMAIN g = DOMAIN f \ K /\ \A y \in DOMAIN g : g[y] = f[y]
        /\ DOMAIN q = DOMAIN r \ F /\ \A y \in DOMAIN q : q[y] = r[y]
    BY <1>1 DEF Without
  <1>4. /\ \A x \in DOMAIN f : \E p \in placed : Oid(p) = f[x] /\ Key(p) = x
        /\ \A x \in DOMAIN r : \E p \in placed : Oid(p) = x /\ Key(p) = r[x]
        /\ \A x \in DOMAIN f : Live(f[x][1]) => f[x] \in DOMAIN r /\ r[f[x]] = x
    BY <1>1 DEF IndexOK
  <1>5. ASSUME NEW x \in DOMAIN g, Live(g[x][1])
        PROVE  g[x] \in DOMAIN q /\ q[g[x]] = x
    <2>1. x \in DOMAIN f /\ x \notin K /\ g[x] = f[x] /\ f[x] \in DOMAIN r /\ r[f[x]] = x
      BY <1>3, <1>4, <1>5
    <2>2. f[x] \notin F
      BY <1>1, <2>1
    <2>3. QED
      BY <1>3, <2>1, <2>2
  <1>6. ASSUME NEW p \in S, Sole(p)
        PROVE  Key(p) \in DOMAIN g /\ g[Key(p)] = Oid(p)
    <2>1. Key(p) \in DOMAIN f /\ f[Key(p)] = Oid(p)
      BY <1>1, <1>6 DEF Findable
    <2>2. Oid(p) \notin F
      BY <1>6 DEF Sole
    <2>3. Key(p) \notin K
      <3>1. SUFFICES ASSUME NEW x \in F \cap DOMAIN r, r[x] = Key(p) PROVE FALSE
        BY <1>1
      <3>2. PICK o \in placed : Oid(o) = x /\ Key(o) = r[x]
        BY <1>4
      <3>3. o = p
        BY <1>6, <3>1, <3>2 DEF Sole
      <3>4. QED
        BY <2>2, <3>2, <3>3
    <2>4. QED
      BY <1>3, <2>1, <2>3
  <1>7. IndexOK(remove_cloid_by_order(ix, F))
    BY <1>2, <1>3, <1>4, <1>5 DEF IndexOK
  <1>8. Findable(remove_cloid_by_order(ix, F), S)
    BY <1>2, <1>6 DEF Findable
  <1>9. QED
    BY <1>7, <1>8

\* remove_cloid takes the entries of cancelled orders away.
LEMMA RemoveNamed ==
    ASSUME NEW ix, IndexOK(ix), NEW S \in SUBSET placed, Findable(ix, S),
           NEW K, \A o \in S : Sole(o) => Key(o) \notin K
    PROVE  IndexOK(remove_cloid(ix, K)) /\ Findable(remove_cloid(ix, K), S)
  <1>1. PICK f, r, g, q, R :
          /\ f = ix.fwd /\ r = ix.rev /\ R = {f[k] : k \in K \cap DOMAIN f}
          /\ g = Without(f, K) /\ q = Without(r, R)
    OBVIOUS
  <1>2. remove_cloid(ix, K).fwd = g /\ remove_cloid(ix, K).rev = q
    BY <1>1 DEF remove_cloid
  <1>3. /\ DOMAIN g = DOMAIN f \ K /\ \A y \in DOMAIN g : g[y] = f[y]
        /\ DOMAIN q = DOMAIN r \ R /\ \A y \in DOMAIN q : q[y] = r[y]
    BY <1>1 DEF Without
  <1>4. /\ \A x \in DOMAIN f : \E p \in placed : Oid(p) = f[x] /\ Key(p) = x
        /\ \A x \in DOMAIN r : \E p \in placed : Oid(p) = x /\ Key(p) = r[x]
        /\ \A x \in DOMAIN f : Live(f[x][1]) => f[x] \in DOMAIN r /\ r[f[x]] = x
    BY <1>1 DEF IndexOK
  <1>5. ASSUME NEW x \in DOMAIN g, Live(g[x][1])
        PROVE  g[x] \in DOMAIN q /\ q[g[x]] = x
    <2>1. x \in DOMAIN f /\ x \notin K /\ g[x] = f[x] /\ f[x] \in DOMAIN r /\ r[f[x]] = x
      BY <1>3, <1>4, <1>5
    <2>2. f[x] \notin R
      <3>1. SUFFICES ASSUME NEW k \in K \cap DOMAIN f, f[k] = f[x] PROVE FALSE
        BY <1>1
      <3>2. r[f[k]] = k
        BY <1>4, <1>5, <2>1, <3>1
      <3>3. QED
        BY <2>1, <3>1, <3>2
    <2>3. QED
      BY <1>3, <2>1, <2>2
  <1>6. IndexOK(remove_cloid(ix, K))
    BY <1>2, <1>3, <1>4, <1>5 DEF IndexOK
  <1>7. Findable(remove_cloid(ix, K), S)
    BY <1>1, <1>2, <1>3 DEF Findable
  <1>8. QED
    BY <1>6, <1>7

\* The index after each of the first n registrations.
IsRegistration(f, ix, os, n) ==
    f = [i \in 0..n |-> IF i = 0 THEN ix ELSE register_cloid(f[i - 1], os[i])]

\* There are such indexes.
LEMMA RegistrationExists ==
    ASSUME NEW ix, NEW os
    PROVE  \A n \in Nat : \E f : IsRegistration(f, ix, os, n)
  <1> DEFINE N == {n \in Nat : \E f : IsRegistration(f, ix, os, n)}
  <1>1. 0 \in N
    <2>1. IsRegistration([i \in 0..0 |-> ix], ix, os, 0)
      BY DEF IsRegistration
    <2>2. QED
      BY <2>1
  <1>2. ASSUME NEW n \in Nat, n \in N PROVE n + 1 \in N
    <2>1. PICK f : IsRegistration(f, ix, os, n)
      BY <1>2
    <2>2. \A i \in 0..n : f[i] = IF i = 0 THEN ix ELSE register_cloid(f[i - 1], os[i])
      BY <2>1 DEF IsRegistration
    <2> DEFINE g == [i \in 0..(n + 1) |->
                       IF i = n + 1 THEN register_cloid(f[n], os[n + 1]) ELSE f[i]]
    <2>3. ASSUME NEW i \in 0..(n + 1)
          PROVE  g[i] = IF i = 0 THEN ix ELSE register_cloid(g[i - 1], os[i])
      <3>1. CASE i = n + 1
        <4>1. g[i] = register_cloid(f[n], os[n + 1]) /\ g[n] = f[n] /\ i - 1 = n /\ i # 0
          BY <3>1
        <4> HIDE DEF g
        <4>2. QED
          BY <3>1, <4>1
      <3>2. CASE i = 0
        BY <2>2, <3>2
      <3>3. CASE i \in 1..n
        <4>1. g[i] = f[i] /\ g[i - 1] = f[i - 1] /\ i # 0 /\ i \in 0..n
          BY <3>3
        <4> HIDE DEF g
        <4>2. QED
          BY <2>2, <4>1
      <3>4. QED
        BY <3>1, <3>2, <3>3
    <2>4. g = [i \in 0..(n + 1) |-> g[i]]
      OBVIOUS
    <2> HIDE DEF g
    <2>5. IsRegistration(g, ix, os, n + 1)
      BY <2>3, <2>4 DEF IsRegistration
    <2>6. QED
      BY <2>5
  <1> HIDE DEF N
  <1>3. \A n \in Nat : n \in N
    BY <1>1, <1>2, NatSetInduction
  <1>4. QED
    BY <1>3 DEF N

\* All orders of a transaction are registered.
LEMMA RegisterAll ==
    ASSUME OrdersInv, NEW ix, IndexOK(ix), NEW os \in Seq(placed),
           NEW S \in SUBSET placed, Findable(ix, S)
    PROVE  /\ IndexOK(register_all(ix, os))
           /\ Findable(register_all(ix, os), S \cup {os[i] : i \in 1..Len(os)})
  <1>1. PICK n \in Nat : n = Len(os) /\ \A i \in 1..n : os[i] \in placed
    OBVIOUS
  <1>2. PICK f : f = CHOOSE g : IsRegistration(g, ix, os, n)
    OBVIOUS
  <1>3. register_all(ix, os) = f[n]
    BY <1>1, <1>2 DEF register_all, IsRegistration
  <1>4. IsRegistration(f, ix, os, n)
    BY <1>2, RegistrationExists
  <1>5. \A i \in 0..n : f[i] = IF i = 0 THEN ix ELSE register_cloid(f[i - 1], os[i])
    BY <1>4 DEF IsRegistration
  <1> DEFINE T(m) == S \cup {os[i] : i \in 1..m}
             N == {m \in Nat : m <= n => IndexOK(f[m]) /\ Findable(f[m], T(m))}
  <1>6. 0 \in N
    <2>1. f[0] = ix
      BY <1>5
    <2>2. T(0) = S
      OBVIOUS
    <2>3. QED
      BY <2>1, <2>2
  <1>7. ASSUME NEW m \in Nat, m \in N PROVE m + 1 \in N
    <2>1. SUFFICES ASSUME m + 1 <= n
                   PROVE  IndexOK(f[m + 1]) /\ Findable(f[m + 1], T(m + 1))
      OBVIOUS
    <2>2. PICK a, o, U : a = f[m] /\ o = os[m + 1] /\ U = T(m)
      OBVIOUS
    <2>3. IndexOK(a) /\ Findable(a, U)
      BY <1>7, <2>1, <2>2
    <2>4. o \in placed /\ U \in SUBSET placed
      BY <1>1, <2>1, <2>2
    <2>5. m + 1 \in 0..n /\ m + 1 # 0 /\ (m + 1) - 1 = m
      BY <2>1
    <2>6. f[m + 1] = register_cloid(a, o)
      BY <1>5, <2>2, <2>5
    <2>7. T(m + 1) = U \cup {o}
      <3>1. 1..(m + 1) = 1..m \cup {m + 1}
        OBVIOUS
      <3>2. QED
        BY <2>2, <3>1
    <2>8. IndexOK(register_cloid(a, o)) /\ Findable(register_cloid(a, o), U \cup {o})
      BY <2>3, <2>4, RegisterOne
    <2>9. QED
      BY <2>6, <2>7, <2>8
  <1> HIDE DEF N
  <1>8. \A m \in Nat : m \in N
    BY <1>6, <1>7, NatSetInduction
  <1>9. n <= n /\ n \in N
    BY <1>8
  <1>10. IndexOK(f[n]) /\ Findable(f[n], T(n))
    BY <1>9 DEF N
  <1>11. QED
    BY <1>1, <1>3, <1>10

\* The end of a transaction that succeeds.
LEMMA EndTxKeeps ==
    ASSUME AppInv, EndTx
    PROVE  AppInv'
  <1>1. PICK ix, R, a, b, S :
          /\ ix = Index /\ R = {tx.register[i] : i \in 1..Len(tx.register)}
          /\ a = register_all(ix, tx.register) /\ b = remove_cloid_by_order(a, tx.filled)
          /\ S = (book \cap confirmed) \cup R
    OBVIOUS
  <1>2. /\ tx # NoTx /\ tx.register \in Seq(placed)
        /\ \A oid \in tx.filled : \E p \in placed : Oid(p) = oid /\ Gone(p)
        /\ \A c \in tx.remove : \E p \in placed : Key(p) = <<tx.sender, c>> /\ Gone(p)
    BY DEF EndTx, AppInv, TxInv
  <1>3. /\ OrdersInv /\ IndexOK(ix) /\ Findable(ix, book \cap confirmed)
        /\ book \cap confirmed \in SUBSET placed
    BY <1>1 DEF AppInv, OrdersInv
  <1>4. IndexOK(a) /\ Findable(a, S)
    BY <1>1, <1>2, <1>3, RegisterAll
  <1>5. R = Range(tx.register)
    BY <1>1, <1>2 DEF Range
  <1>6. R \subseteq placed
    BY <1>1, <1>2
  <1> DEFINE B == book \cap S
  <1>7. Findable(a, B) /\ B \in SUBSET placed
    BY <1>1, <1>3, <1>4, <1>6 DEF Findable
  <1>8. \A o \in B : Live(o.market) => Oid(o) \notin tx.filled
    <2>1. SUFFICES ASSUME NEW o \in B, Live(o.market), Oid(o) \in tx.filled PROVE FALSE
      OBVIOUS
    <2>2. PICK p \in placed : Oid(p) = Oid(o) /\ Gone(p)
      BY <1>2, <2>1
    <2>3. o = p
      BY <1>3, <1>7, <2>1, <2>2 DEF OrdersInv
    <2>4. QED
      BY <2>1, <2>2, <2>3 DEF Gone
  <1>9. IndexOK(b) /\ Findable(b, B)
    <2> HIDE DEF B
    <2>1. QED
      BY <1>1, <1>3, <1>4, <1>7, <1>8, RemoveFilled
  <1>10. PICK K : K = {<<tx.sender, c>> : c \in tx.remove}
    OBVIOUS
  <1>11. \A o \in B : Sole(o) => Key(o) \notin K
    <2>1. SUFFICES ASSUME NEW o \in B, Sole(o), NEW c \in tx.remove, Key(o) = <<tx.sender, c>>
                   PROVE  FALSE
      BY <1>10
    <2>2. PICK p \in placed : Key(p) = <<tx.sender, c>> /\ Gone(p)
      BY <1>2
    <2>3. p = o
      BY <2>1, <2>2 DEF Sole
    <2>4. QED
      BY <2>1, <2>2, <2>3 DEF Gone, Sole
  <1>12. PICK e : e = remove_cloid(b, K)
    OBVIOUS
  <1>13. IndexOK(e) /\ Findable(e, B)
    <2> HIDE DEF B
    <2>1. QED
      BY <1>7, <1>9, <1>11, <1>12, RemoveNamed
  <1>14. /\ cloid_to_oid' = e.fwd /\ oid_to_cloid' = e.rev
         /\ confirmed' = confirmed \cup R /\ tx' = NoTx
         /\ UNCHANGED <<book, triggers, next_order_id, placed, restarts>>
    BY <1>1, <1>5, <1>10, <1>12 DEF EndTx, AfterCancels, AfterOrders, orderVars
  <1>15. book' \cap confirmed' \subseteq B
    BY <1>1, <1>14
  <1>16. IndexOK(Index)'
    BY <1>13, <1>14 DEF IndexOK, Index, Live
  <1>17. Findable(Index, book \cap confirmed)'
    BY <1>13, <1>14, <1>15 DEF Findable, Index, Live, Sole
  <1>18. OrdersInv'
    BY <1>3, <1>6, <1>14 DEF OrdersInv, Live
  <1>19. TxInv'
    BY <1>14 DEF TxInv
  <1>20. QED
    BY <1>16, <1>17, <1>18, <1>19 DEF AppInv

\* Orders that go away, filled, swept, cancelled or liquidated, leave the
\* index as it is.
LEMMA BookShrinks ==
    ASSUME AppInv, book' \subseteq book, triggers' \subseteq triggers, TxInv',
           UNCHANGED <<next_order_id, placed, indexVars, restarts>>
    PROVE  AppInv'
  <1>1. OrdersInv'
    BY DEF AppInv, OrdersInv, Live, indexVars
  <1>2. IndexOK(Index)'
    BY DEF AppInv, IndexOK, Index, Live, indexVars
  <1>3. Findable(Index, book \cap confirmed)'
    BY DEF AppInv, Findable, Sole, Index, Live, indexVars
  <1>4. QED
    BY <1>1, <1>2, <1>3 DEF AppInv

\* What a transaction has noted stays true when orders go away.
LEMMA TxStays ==
    ASSUME TxInv, tx' = tx \/ tx' = NoTx, book' \subseteq book, UNCHANGED <<placed, restarts>>
    PROVE  TxInv'
  BY DEF TxInv, Gone, Live

\* A cancelled order's name is noted for removal, and that of an order that
\* went in its place.
LEMMA TxNotes ==
    ASSUME TxInv, tx # NoTx, book' \subseteq book, UNCHANGED <<placed, restarts>>,
           NEW C, tx' = [tx EXCEPT !.remove = @ \cup C],
           \A c \in C : \E p \in placed : Key(p) = <<tx.sender, c>> /\ Gone(p)'
    PROVE  TxInv'
  <1>1. /\ DOMAIN tx' = {"sender", "kind", "register", "filled", "remove"}
        /\ tx'.sender = tx.sender /\ tx'.register = tx.register /\ tx'.filled = tx.filled
        /\ tx'.remove = tx.remove \cup C
    BY DEF TxInv
  <1>2. \A p : Gone(p) => Gone(p)'
    BY DEF Gone, Live
  <1>3. \A oid \in tx.filled : \E p \in placed : Oid(p) = oid /\ Gone(p)'
    BY <1>2 DEF TxInv
  <1>4. \A c \in tx.remove \cup C : \E p \in placed : Key(p) = <<tx.sender, c>> /\ Gone(p)'
    BY <1>2 DEF TxInv
  <1>5. tx.register \in Seq(placed)
    BY DEF TxInv
  <1>6. QED
    BY <1>1, <1>3, <1>4, <1>5 DEF TxInv

\* The cancels of a sender's own orders.
LEMMA OwnCancelled ==
    ASSUME AppInv, tx # NoTx, NEW S \in SUBSET book, \A o \in S : o.owner = tx.sender,
           book' = book \ S, Dropped(S),
           UNCHANGED <<triggers, next_order_id, placed, indexVars, restarts>>
    PROVE  AppInv'
  <1>1. PICK C : C = {o.cloid : o \in S}
    OBVIOUS
  <1>2. tx' = [tx EXCEPT !.remove = @ \cup C]
    BY <1>1 DEF Dropped
  <1>3. ASSUME NEW c \in C
        PROVE  \E p \in placed : Key(p) = <<tx.sender, c>> /\ Gone(p)'
    <2>1. PICK o \in S : c = o.cloid
      BY <1>1
    <2>2. o \in placed
      BY DEF AppInv, OrdersInv
    <2>3. Key(o) = <<tx.sender, c>> /\ Gone(o)'
      BY <2>1, <2>2 DEF Key, Gone
    <2>4. QED
      BY <2>2, <2>3
  <1>4. TxInv'
    BY <1>2, <1>3, TxNotes DEF AppInv
  <1>5. QED
    BY <1>4, BookShrinks

\* The cancel by name takes the order that the index names; if its id says
\* which order it is, it is the one that has the name.
LEMMA CancelByCloidKeeps ==
    ASSUME AppInv, NEW cloid, NEW e, CancelByCloid(cloid, e)
    PROVE  AppInv'
  <1>1. PICK k : k = <<tx.sender, cloid>>
    OBVIOUS
  <1>2. PICK o \in book : Oid(o) = cloid_to_oid[k] /\ book' = book \ {o}
    BY <1>1 DEF CancelByCloid
  <1>3. /\ tx # NoTx /\ k \in DOMAIN cloid_to_oid
        /\ tx' = [tx EXCEPT !.remove = @ \cup {cloid}]
        /\ UNCHANGED <<triggers, next_order_id, placed, indexVars, restarts>>
    BY <1>1 DEF CancelByCloid
  <1>4. PICK p \in placed : Oid(p) = cloid_to_oid[k] /\ Key(p) = k
    BY <1>3 DEF AppInv, IndexOK, Index
  <1>5. Gone(p)'
    <2>1. SUFFICES ASSUME Live(p.market) PROVE p = o
      BY <1>2, <1>3 DEF Gone, Live
    <2>2. o \in placed
      BY DEF AppInv, OrdersInv
    <2>3. QED
      BY <1>2, <1>4, <2>1, <2>2 DEF AppInv, OrdersInv
  <1>6. TxInv'
    <2>1. PICK C : C = {cloid}
      OBVIOUS
    <2>2. \A c \in C : \E x \in placed : Key(x) = <<tx.sender, c>> /\ Gone(x)'
      BY <1>1, <1>4, <1>5, <2>1
    <2>3. tx' = [tx EXCEPT !.remove = @ \cup C] /\ book' \subseteq book
      BY <1>2, <1>3, <2>1
    <2>4. QED
      BY <1>3, <2>2, <2>3, TxNotes DEF AppInv
  <1>7. QED
    BY <1>2, <1>3, <1>6, BookShrinks

\* A new order has an id of its own: what is known of the others stays.
LEMMA OrderAdded ==
    ASSUME AppInv, NEW e \in Engines, NEW o, o.market = e, o.id = next_order_id[e],
           next_order_id' = [next_order_id EXCEPT ![e] = @ + 1], placed' = placed \cup {o},
           book' \subseteq book \cup {o}, triggers' \subseteq triggers \cup {o},
           UNCHANGED <<indexVars, restarts>>, TxInv'
    PROVE  AppInv'
  <1>1. OrdersInv
    BY DEF AppInv
  <1>2. next_order_id \in [Engines -> Nat] /\ next_order_id[e] \in Nat
    BY <1>1 DEF OrdersInv
  <1>3. \A p \in placed : Live(p.market) => Oid(p) # Oid(o)
    <2>1. SUFFICES ASSUME NEW p \in placed, Live(p.market), Oid(p) = Oid(o) PROVE FALSE
      OBVIOUS
    <2>2. p.market = e /\ p.id = next_order_id[e]
      BY <2>1 DEF Oid
    <2>3. p.id < next_order_id[p.market]
      BY <1>1, <2>1 DEF OrdersInv
    <2>4. QED
      BY <1>2, <2>2, <2>3
  <1>4. OrdersInv'
    <2>1. next_order_id' \in [Engines -> Nat] /\ next_order_id'[e] = next_order_id[e] + 1
          /\ \A x \in Engines : next_order_id[x] <= next_order_id'[x]
      BY <1>2
    <2>2. \A p \in placed' : p.market \in Engines /\ p.id \in Nat
      BY <1>1, <1>2 DEF OrdersInv
    <2>3. ASSUME NEW p \in placed', Live(p.market) PROVE p.id < next_order_id'[p.market]
      <3>1. CASE p = o
        BY <1>2, <2>1, <3>1
      <3>2. CASE p \in placed
        <4>1. p.market \in Engines /\ p.id \in Nat /\ p.id < next_order_id[p.market]
          BY <1>1, <2>3, <3>2 DEF OrdersInv
        <4>2. next_order_id[p.market] \in Nat /\ next_order_id'[p.market] \in Nat
              /\ next_order_id[p.market] <= next_order_id'[p.market]
          BY <1>2, <2>1, <4>1
        <4>3. QED
          BY <4>1, <4>2
      <3>3. QED
        BY <3>1, <3>2
    <2>4. ASSUME NEW p \in placed', NEW q \in placed', Live(p.market), Oid(p) = Oid(q)
          PROVE  p = q
      <3>1. p.market = q.market
        BY <2>4 DEF Oid
      <3>2. QED
        BY <1>1, <1>3, <2>4, <3>1 DEF OrdersInv
    <2>5. /\ book' \subseteq placed' /\ triggers' \subseteq placed' /\ confirmed' \subseteq placed'
          /\ restarts' \in Nat
      BY <1>1 DEF OrdersInv, indexVars
    <2>6. QED
      BY <2>1, <2>2, <2>3, <2>4, <2>5 DEF OrdersInv, Live
  <1>5. IndexOK(Index)'
    BY DEF AppInv, IndexOK, Index, Live, indexVars
  <1>6. Findable(Index, book \cap confirmed)'
    <2>1. SUFFICES ASSUME NEW p \in book' \cap confirmed', Sole(p)'
                   PROVE  Key(p) \in DOMAIN cloid_to_oid /\ cloid_to_oid[Key(p)] = Oid(p)
      BY DEF Findable, Index, indexVars
    <2>2. p \in confirmed /\ p \in placed
      BY <1>1 DEF OrdersInv, indexVars
    <2>3. Sole(p)
      BY <2>1 DEF Sole, Live
    <2>4. p \in book
      BY <1>3, <2>2, <2>3 DEF Sole
    <2>5. QED
      BY <2>2, <2>3, <2>4 DEF AppInv, Findable, Index
  <1>7. QED
    BY <1>4, <1>5, <1>6 DEF AppInv

\* An order that an engine accepts.
LEMMA PlacedKeeps ==
    ASSUME AppInv, NEW e \in Engines, NEW cloid, NEW F \in SUBSET book, NEW G,
           NEW rests \in BOOLEAN, NEW named \in BOOLEAN, NEW noted \in SUBSET F,
           Placed(e, cloid, F, G, rests, named, noted)
    PROVE  AppInv'
  <1>1. PICK o, M : /\ o = [market |-> e, id |-> next_order_id[e], owner |-> tx.sender,
                            cloid |-> cloid]
                    /\ M = {Oid(p) : p \in noted}
    OBVIOUS
  <1>2. /\ tx # NoTx
        /\ next_order_id' = [next_order_id EXCEPT ![e] = @ + 1]
        /\ book' = (book \ (F \cup G)) \cup (IF rests THEN {o} ELSE {})
        /\ placed' = placed \cup {o}
        /\ tx' = [tx EXCEPT !.register = IF named THEN Append(@, o) ELSE @,
                            !.filled = @ \cup M]
        /\ UNCHANGED <<triggers, indexVars, restarts>>
    BY <1>1 DEF Placed
  <1>3. o.market = e /\ o.id = next_order_id[e]
    BY <1>1
  <1>4. /\ DOMAIN tx = {"sender", "kind", "register", "filled", "remove"}
        /\ tx.register \in Seq(placed)
        /\ \A oid \in tx.filled : \E p \in placed : Oid(p) = oid /\ Gone(p)
        /\ \A c \in tx.remove : \E p \in placed : Key(p) = <<tx.sender, c>> /\ Gone(p)
    BY <1>2 DEF AppInv, TxInv
  <1>5. /\ DOMAIN tx' = {"sender", "kind", "register", "filled", "remove"}
        /\ tx'.sender = tx.sender /\ tx'.remove = tx.remove
        /\ tx'.register = (IF named THEN Append(tx.register, o) ELSE tx.register)
        /\ tx'.filled = tx.filled \cup M
    BY <1>2, <1>4
  <1>6. ASSUME NEW p \in placed, Live(p.market) PROVE p # o
    <2>1. p.id < next_order_id[p.market] /\ next_order_id \in [Engines -> Nat]
      BY <1>6 DEF AppInv, OrdersInv
    <2>2. QED
      BY <1>3, <2>1
  <1>7. \A p \in placed : Gone(p) => Gone(p)'
    BY <1>2, <1>6 DEF Gone, Live
  <1>8. \A p \in noted : p \in placed /\ Gone(p)'
    <2>1. \A p \in noted : p \in placed
      BY DEF AppInv, OrdersInv
    <2>2. QED
      BY <1>2, <1>6, <2>1 DEF Gone, Live
  <1>9. tx'.register \in Seq(placed')
    <2>1. tx.register \in Seq(placed')
      BY <1>2, <1>4
    <2>2. o \in placed'
      BY <1>2
    <2>3. QED
      BY <1>5, <2>1, <2>2
  <1>10. \A oid \in tx'.filled : \E p \in placed' : Oid(p) = oid /\ Gone(p)'
    BY <1>1, <1>2, <1>4, <1>5, <1>7, <1>8
  <1>11. \A c \in tx'.remove : \E p \in placed' : Key(p) = <<tx'.sender, c>> /\ Gone(p)'
    BY <1>2, <1>4, <1>5, <1>7
  <1>12. TxInv'
    BY <1>5, <1>9, <1>10, <1>11 DEF TxInv
  <1>13. book' \subseteq book \cup {o} /\ triggers' \subseteq triggers \cup {o}
    BY <1>2
  <1>14. QED
    BY <1>2, <1>3, <1>12, <1>13, OrderAdded

\* A trigger order that is stored.
LEMMA PlaceTriggerKeeps ==
    ASSUME AppInv, NEW cloid, PlaceTrigger(cloid)
    PROVE  AppInv'
  <1>1. PICK o, e : /\ e = "perp"
                    /\ o = [market |-> e, id |-> next_order_id[e], owner |-> tx.sender,
                            cloid |-> cloid]
    OBVIOUS
  <1>2. /\ tx # NoTx
        /\ next_order_id' = [next_order_id EXCEPT ![e] = @ + 1]
        /\ triggers' = triggers \cup {o}
        /\ placed' = placed \cup {o}
        /\ tx' = [tx EXCEPT !.register = Append(@, o)]
        /\ UNCHANGED <<book, indexVars, restarts>>
    BY <1>1 DEF PlaceTrigger
  <1>3. o.market = e /\ o.id = next_order_id[e] /\ e \in Engines
    BY <1>1 DEF Engines
  <1>4. /\ DOMAIN tx = {"sender", "kind", "register", "filled", "remove"}
        /\ tx.register \in Seq(placed)
        /\ \A oid \in tx.filled : \E p \in placed : Oid(p) = oid /\ Gone(p)
        /\ \A c \in tx.remove : \E p \in placed : Key(p) = <<tx.sender, c>> /\ Gone(p)
    BY <1>2 DEF AppInv, TxInv
  <1>5. /\ DOMAIN tx' = {"sender", "kind", "register", "filled", "remove"}
        /\ tx'.sender = tx.sender /\ tx'.remove = tx.remove
        /\ tx'.register = Append(tx.register, o) /\ tx'.filled = tx.filled
    BY <1>2, <1>4
  <1>6. \A p \in placed : Gone(p) => Gone(p)'
    BY <1>2 DEF Gone, Live
  <1>7. tx'.register \in Seq(placed')
    <2>1. tx.register \in Seq(placed') /\ o \in placed'
      BY <1>2, <1>4
    <2>2. QED
      BY <1>5, <2>1
  <1>8. TxInv'
    BY <1>2, <1>4, <1>5, <1>6, <1>7 DEF TxInv
  <1>9. book' \subseteq book \cup {o} /\ triggers' \subseteq triggers \cup {o}
    BY <1>2
  <1>10. QED
    BY <1>2, <1>3, <1>8, <1>9, OrderAdded

\* A restart: the reverse map is made anew, and of a perpetual order only one
\* name leads to it.
LEMMA RestartKeeps ==
    ASSUME AppInv, Restart
    PROVE  AppInv'
  <1>1. /\ tx = NoTx /\ tx' = tx /\ restarts' = restarts + 1
        /\ book' = {o \in book : o.market = "perp"} /\ triggers' = {}
        /\ next_order_id' = [next_order_id EXCEPT !["spot"] = 0]
        /\ UNCHANGED <<placed, cloid_to_oid, confirmed>>
    BY DEF Restart
  <1>2. PICK rev \in [Range(cloid_to_oid) -> DOMAIN cloid_to_oid] :
          /\ \A oid \in DOMAIN rev : cloid_to_oid[rev[oid]] = oid
          /\ oid_to_cloid' = rev
    BY DEF Restart
  <1>3. restarts < MaxRestarts
    BY DEF Restart
  <1>4. \A m : Live(m)' => m = "perp"
    BY <1>1 DEF Live, AppInv, OrdersInv
  <1>5. Live("perp") /\ Live("perp")'
    BY DEF Live
  <1>6. OrdersInv'
    <2>1. next_order_id' \in [Engines -> Nat] /\ next_order_id'["perp"] = next_order_id["perp"]
      BY <1>1 DEF AppInv, OrdersInv, Engines
    <2>2. \A o \in placed : o.market = "perp" => o.id < next_order_id'[o.market]
      BY <1>5, <2>1 DEF AppInv, OrdersInv
    <2>3. \A o, p \in placed : o.market = "perp" /\ Oid(o) = Oid(p) => o = p
      BY <1>5 DEF AppInv, OrdersInv
    <2>4. /\ restarts' \in Nat /\ book' \subseteq placed' /\ triggers' \subseteq placed'
          /\ confirmed' \subseteq placed'
          /\ \A o \in placed : o.market \in Engines /\ o.id \in Nat
      BY <1>1 DEF AppInv, OrdersInv
    <2>5. QED
      BY <1>1, <1>4, <2>1, <2>2, <2>3, <2>4 DEF OrdersInv
  <1>7. IndexOK(Index)'
    <2>1. \A k \in DOMAIN cloid_to_oid : \E o \in placed : Oid(o) = cloid_to_oid[k] /\ Key(o) = k
      BY DEF AppInv, IndexOK, Index
    <2>2. /\ DOMAIN rev = Range(cloid_to_oid)
          /\ \A oid \in DOMAIN rev : rev[oid] \in DOMAIN cloid_to_oid
      BY <1>2
    <2>3. ASSUME NEW oid \in DOMAIN rev
          PROVE  \E o \in placed : Oid(o) = oid /\ Key(o) = rev[oid]
      BY <1>2, <2>1, <2>2, SMTT(40)
    <2>4. ASSUME NEW k \in DOMAIN cloid_to_oid, cloid_to_oid[k][1] = "perp"
          PROVE  cloid_to_oid[k] \in DOMAIN rev /\ rev[cloid_to_oid[k]] = k
      <3>1. PICK oid : oid = cloid_to_oid[k]
        OBVIOUS
      <3>2. oid \in DOMAIN rev
        BY <2>2, <3>1 DEF Range
      <3>3. PICK o \in placed : Oid(o) = oid /\ Key(o) = k
        BY <2>1, <3>1
      <3>4. PICK p \in placed : Oid(p) = oid /\ Key(p) = rev[oid]
        BY <2>3, <3>2
      <3>5. o.market = "perp"
        BY <2>4, <3>1, <3>3 DEF Oid
      <3>6. o = p
        BY <1>5, <3>3, <3>4, <3>5 DEF AppInv, OrdersInv
      <3>7. QED
        BY <3>1, <3>2, <3>3, <3>4, <3>6
    <2>5. QED
      BY <1>1, <1>2, <1>4, <2>1, <2>3, <2>4 DEF IndexOK, Index
  <1>8. Findable(Index, book \cap confirmed)'
    <2>1. SUFFICES ASSUME NEW o \in book' \cap confirmed', Sole(o)'
                   PROVE  Key(o) \in DOMAIN cloid_to_oid /\ cloid_to_oid[Key(o)] = Oid(o)
      BY <1>1 DEF Findable, Index
    <2>2. o \in book \cap confirmed /\ o.market = "perp"
      BY <1>1
    <2>3. Sole(o)
      BY <1>1, <1>5, <2>1, <2>2 DEF Sole
    <2>4. QED
      BY <2>2, <2>3 DEF AppInv, Findable, Index
  <1>9. TxInv'
    BY <1>1 DEF TxInv
  <1>10. QED
    BY <1>6, <1>7, <1>8, <1>9 DEF AppInv

\* The invariant holds at the start.
LEMMA AppInvInit == AppInit => AppInv
  <1>1. SUFFICES ASSUME AppInit PROVE AppInv
    OBVIOUS
  <1>2. /\ book = {} /\ triggers = {} /\ placed = {} /\ confirmed = {}
        /\ next_order_id = [e \in Engines |-> 0]
        /\ cloid_to_oid = <<>> /\ oid_to_cloid = <<>> /\ tx = NoTx /\ restarts = 0
    BY <1>1, Zenon DEF AppInit
  <1>3. OrdersInv
    BY <1>2 DEF OrdersInv
  <1>4. DOMAIN cloid_to_oid = {} /\ DOMAIN oid_to_cloid = {}
    BY <1>2
  <1>5. IndexOK(Index)
    BY <1>4 DEF IndexOK, Index
  <1>6. Findable(Index, book \cap confirmed) /\ TxInv
    BY <1>2 DEF Findable, TxInv
  <1>7. QED
    BY <1>3, <1>5, <1>6 DEF AppInv

\* Steps that leave orders and index alone.
LEMMA OthersKeep ==
    ASSUME AppInv, UNCHANGED <<orderVars, indexVars, restarts>>, TxInv'
    PROVE  AppInv'
  BY BookShrinks DEF orderVars

\* Every step keeps the invariant.
LEMMA AppInvNext == AppInv /\ [AppNext]_chainVars => AppInv'
  <1>1. SUFFICES ASSUME AppInv, [AppNext]_chainVars PROVE AppInv'
    OBVIOUS
  <1>2. TxInv /\ book \subseteq placed
    BY <1>1 DEF AppInv, OrdersInv
  <1>3. ASSUME NEW a, NEW kind, BeginTx(a, kind) PROVE AppInv'
    <2>1. tx' = [sender |-> a, kind |-> kind, register |-> <<>>, filled |-> {}, remove |-> {}]
          /\ UNCHANGED <<orderVars, indexVars, restarts>>
      BY <1>3 DEF BeginTx
    <2>2. TxInv'
      BY <2>1 DEF TxInv
    <2>3. QED
      BY <1>1, <2>1, <2>2, OthersKeep
  <1>4. CASE FailTx
    <2>1. tx' = NoTx /\ UNCHANGED <<orderVars, indexVars, restarts>>
      BY <1>4 DEF FailTx
    <2>2. TxInv'
      BY <2>1 DEF TxInv
    <2>3. QED
      BY <1>1, <2>1, <2>2, OthersKeep
  <1>5. CASE EndTx
    BY <1>1, <1>5, EndTxKeeps
  <1>6. ASSUME NEW c, NEW rests \in BOOLEAN, NEW F \in SUBSET SpotMakers, SpotOrder(c, F, rests)
        PROVE  AppInv'
    <2>1. PICK noted \in {F, {}}, named \in BOOLEAN :
               Placed("spot", c, F, {}, rests, named, noted)
      BY <1>6 DEF SpotOrder
    <2>2. noted \in SUBSET F /\ F \in SUBSET book /\ "spot" \in Engines
      BY DEF SpotMakers, Engines
    <2>3. PICK e, G : e = "spot" /\ G = {}
      OBVIOUS
    <2>4. Placed(e, c, F, G, rests, named, noted) /\ e \in Engines
      BY <2>1, <2>2, <2>3
    <2>5. QED
      BY <1>1, <2>2, <2>4, PlacedKeeps
  <1>7. ASSUME NEW c, NEW rests \in BOOLEAN, NEW F \in SUBSET PerpMakers, NEW G,
               PerpOrder(c, F, G, rests)
        PROVE  AppInv'
    <2>1. PICK e, noted : e = "perp" /\ noted = F
      OBVIOUS
    <2>2. Placed(e, c, F, G, rests, rests, noted)
      BY <1>7, <2>1 DEF PerpOrder
    <2>3. noted \in SUBSET F /\ F \in SUBSET book /\ e \in Engines
      BY <2>1 DEF PerpMakers, Engines
    <2>4. QED
      BY <1>1, <2>2, <2>3, PlacedKeeps
  <1>8. ASSUME NEW c, PlaceTrigger(c) PROVE AppInv'
    BY <1>1, <1>8, PlaceTriggerKeeps
  <1>9. ASSUME NEW o \in book, CancelOrder(o) PROVE AppInv'
    <2>1. PICK S : S = {o}
      OBVIOUS
    <2>2. /\ tx # NoTx /\ S \in SUBSET book /\ \A p \in S : p.owner = tx.sender
          /\ book' = book \ S /\ Dropped(S)
          /\ UNCHANGED <<triggers, next_order_id, placed, indexVars, restarts>>
      BY <1>9, <2>1 DEF CancelOrder, MayCancel
    <2>3. QED
      BY <1>1, <2>2, OwnCancelled
  <1>10. ASSUME NEW c, NEW e, CancelByCloid(c, e) PROVE AppInv'
    BY <1>1, <1>10, CancelByCloidKeeps
  <1>11. ASSUME NEW e, CancelAll(e) PROVE AppInv'
    <2>1. PICK S : S = Own(e)
      OBVIOUS
    <2>2. S \in SUBSET book /\ \A p \in S : p.owner = tx.sender
      BY <2>1 DEF Own
    <2>3. /\ tx # NoTx /\ book' = book \ S /\ Dropped(S)
          /\ UNCHANGED <<triggers, next_order_id, placed, indexVars, restarts>>
      BY <1>11, <2>1 DEF CancelAll
    <2>4. QED
      BY <1>1, <2>2, <2>3, OwnCancelled
  <1>12. CASE SpotCancelAll
    <2>1. book' \subseteq book
          /\ UNCHANGED <<triggers, next_order_id, placed, indexVars, tx, restarts>>
      BY <1>12 DEF SpotCancelAll
    <2>2. QED
      BY <1>1, <1>2, <2>1, TxStays, BookShrinks
  <1>13. ASSUME NEW o, CancelTrigger(o) PROVE AppInv'
    <2>1. triggers' \subseteq triggers
          /\ UNCHANGED <<book, next_order_id, placed, indexVars, tx, restarts>>
      BY <1>13 DEF CancelTrigger
    <2>2. QED
      BY <1>1, <1>2, <2>1, TxStays, BookShrinks
  <1>14. ASSUME NEW new, Transfer(new) PROVE AppInv'
    <2>1. UNCHANGED <<orderVars, indexVars, tx, restarts>>
      BY <1>14 DEF Transfer
    <2>2. TxInv'
      BY <1>2, <2>1, TxStays DEF orderVars
    <2>3. QED
      BY <1>1, <2>1, <2>2, OthersKeep
  <1>15. ASSUME NEW G, EndBlock(G) PROVE AppInv'
    <2>1. book' \subseteq book
          /\ UNCHANGED <<triggers, next_order_id, placed, indexVars, tx, restarts>>
      BY <1>15 DEF EndBlock
    <2>2. QED
      BY <1>1, <1>2, <2>1, TxStays, BookShrinks
  <1>16. CASE Restart
    BY <1>1, <1>16, RestartKeeps
  <1>17. CASE UNCHANGED chainVars
    <2>1. UNCHANGED <<orderVars, indexVars, tx, restarts>>
      BY <1>17 DEF chainVars
    <2>2. TxInv'
      BY <1>2, <2>1, TxStays DEF orderVars
    <2>3. QED
      BY <1>1, <2>1, <2>2, OthersKeep
  <1>18. ASSUME NEW a \in Accounts,
                \/ \E to \in Accounts : UsdTransfer(a, to)
                \/ Withdraw(a)
                \/ ViewTransfer(a, "core", "evm") \/ ViewTransfer(a, "evm", "core")
         PROVE  AppInv'
    <2>1. \E new : Transfer(new)
      BY <1>18 DEF UsdTransfer, Withdraw, ViewTransfer
    <2>2. QED
      BY <1>14, <2>1
  <1>19. QED
    BY <1>1, <1>3, <1>4, <1>5, <1>6, <1>7, <1>8, <1>9, <1>10, <1>11, <1>12, <1>13, <1>15, <1>16,
       <1>17, <1>18 DEF AppNext

\* The invariant gives what is claimed of the index.
LEMMA AppInvImplies == AppInv => CloidEntriesTrue /\ StillFindable
  <1>1. SUFFICES ASSUME AppInv PROVE CloidEntriesTrue /\ StillFindable
    OBVIOUS
  <1>2. CloidEntriesTrue
    <2>1. SUFFICES ASSUME NEW k \in DOMAIN cloid_to_oid, Live(cloid_to_oid[k][1])
                   PROVE  /\ cloid_to_oid[k] \in DOMAIN oid_to_cloid
                          /\ oid_to_cloid[cloid_to_oid[k]] = k
                          /\ \A o \in book \cup triggers : Oid(o) = cloid_to_oid[k] => Key(o) = k
      BY DEF CloidEntriesTrue, Live
    <2>2. cloid_to_oid[k] \in DOMAIN oid_to_cloid /\ oid_to_cloid[cloid_to_oid[k]] = k
      BY <1>1, <2>1 DEF AppInv, IndexOK, Index
    <2>3. PICK p \in placed : Oid(p) = cloid_to_oid[k] /\ Key(p) = k
      BY <1>1, <2>1 DEF AppInv, IndexOK, Index
    <2>4. Live(p.market)
      BY <2>1, <2>3 DEF Oid
    <2>5. ASSUME NEW o \in book \cup triggers, Oid(o) = cloid_to_oid[k] PROVE Key(o) = k
      BY <1>1, <2>3, <2>4, <2>5 DEF AppInv, OrdersInv
    <2>6. QED
      BY <2>2, <2>5
  <1>3. StillFindable
    BY <1>1 DEF AppInv, Findable, Sole, Live, Index, StillFindable
  <1>4. QED
    BY <1>2, <1>3

\* What cancel_by_cloid cancels is the order that its sender gave the name,
\* whatever transactions failed half way, filled, cancelled or restarted
\* before, for any number of them: no entry of the index ever leads to
\* another order.
THEOREM CloidEntriesAlwaysTrue == AppSpec => []CloidEntriesTrue
  <1>1. AppInv => CloidEntriesTrue
    BY AppInvImplies
  <1>2. QED
    BY <1>1, AppInvInit, AppInvNext, PTL DEF AppSpec

\* A resting order of a transaction that succeeded is never lost from the
\* index while its account has used the name for no other order.
THEOREM OrdersAlwaysFindable == AppSpec => []StillFindable
  <1>1. AppInv => StillFindable
    BY AppInvImplies
  <1>2. QED
    BY <1>1, AppInvInit, AppInvNext, PTL DEF AppSpec

-----------------------------------------------------------------------------
(* Merkle trees *)

IsList(s) == s \in Seq(Range(s))

\* What a list is.
LEMMA ListFacts ==
    ASSUME NEW s, IsList(s)
    PROVE  /\ Len(s) \in Nat /\ DOMAIN s = 1..Len(s)
           /\ \A i \in 1..Len(s) : s[i] \in Range(s)
           /\ s # <<>> <=> Len(s) # 0
  BY DEF IsList, Range

\* A function on the first n positions is a list.
LEMMA FunctionIsList ==
    ASSUME NEW n \in Nat, NEW f, f = [i \in 1..n |-> f[i]]
    PROVE  IsList(f) /\ Len(f) = n /\ DOMAIN f = 1..n
  <1>1. DOMAIN f = 1..n
    OBVIOUS
  <1>2. \A i \in 1..n : f[i] \in Range(f)
    BY <1>1 DEF Range
  <1>3. f \in [1..n -> Range(f)]
    BY <1>2
  <1>4. f \in Seq(Range(f))
    BY <1>3
  <1>5. QED
    BY <1>1, <1>4, LenProperties DEF IsList

\* A list with one more member is a list.
LEMMA AppendIsList ==
    ASSUME NEW s, IsList(s), NEW x
    PROVE  /\ IsList(Append(s, x)) /\ Len(Append(s, x)) = Len(s) + 1
           /\ Append(s, x)[Len(s) + 1] = x
           /\ \A i \in 1..Len(s) : Append(s, x)[i] = s[i]
  <1>1. PICK n \in Nat : n = Len(s) /\ DOMAIN s = 1..n /\ s # <<>> <=> n # 0
    BY ListFacts
  <1>2. PICK T : T = Range(s) \cup {x}
    OBVIOUS
  <1>3. s \in Seq(T)
    BY <1>2 DEF IsList
  <1>4. x \in T
    BY <1>2
  <1>5. PICK t : t = Append(s, x)
    OBVIOUS
  <1>6. /\ t \in Seq(T) /\ Len(t) = Len(s) + 1 /\ t[Len(s) + 1] = x
        /\ \A i \in 1..Len(s) : t[i] = s[i]
    BY <1>3, <1>4, <1>5, AppendProperties
  <1>7. DOMAIN t = 1..Len(t) /\ Len(t) \in Nat
    BY <1>6
  <1>8. t = [i \in 1..Len(t) |-> t[i]]
    BY <1>6
  <1>9. IsList(t)
    BY <1>7, <1>8, FunctionIsList
  <1>10. QED
    BY <1>5, <1>6, <1>9

\* A level has half as many nodes as the one below, rounded up.
LEMMA NextLevelFacts ==
    ASSUME NEW s, IsList(s), s # <<>>
    PROVE  /\ IsList(NextLevel(s)) /\ NextLevel(s) # <<>>
           /\ Len(NextLevel(s)) = (Len(s) + 1) \div 2
           /\ Len(s) = 1 => Len(NextLevel(s)) = 1
           /\ Len(s) # 1 => Len(NextLevel(s)) <= Len(s) - 1
           /\ \A i \in 1..Len(NextLevel(s)) :
                 /\ 2 * i - 1 \in 1..Len(s)
                 /\ 2 * i - 1 # Len(s) => 2 * i \in 1..Len(s)
                 /\ NextLevel(s)[i] =
                       hash_pair(s[2 * i - 1],
                                 IF 2 * i <= Len(s) THEN s[2 * i] ELSE s[2 * i - 1])
  <1>1. PICK n \in Nat : n = Len(s) /\ n # 0
    BY ListFacts
  <1>2. PICK m : m = (n + 1) \div 2
    OBVIOUS
  <1>3. m \in Nat /\ m # 0 /\ 2 * m <= n + 1 /\ n <= 2 * m
    BY <1>1, <1>2
  <1>4. PICK t : t = NextLevel(s)
    OBVIOUS
  <1>5. t = [i \in 1..m |->
                hash_pair(s[2 * i - 1], IF 2 * i <= n THEN s[2 * i] ELSE s[2 * i - 1])]
    BY <1>1, <1>2, <1>4 DEF NextLevel
  <1>6. t = [i \in 1..m |-> t[i]]
    BY <1>5
  <1>7. IsList(t) /\ Len(t) = m /\ t # <<>>
    <2>1. IsList(t) /\ Len(t) = m
      BY <1>3, <1>6, FunctionIsList
    <2>2. QED
      BY <1>3, <2>1, ListFacts
  <1>8. (n = 1 => m = 1) /\ (n # 1 => m <= n - 1)
    BY <1>1, <1>3, SMTT(40)
  <1>9. \A i \in 1..m : 2 * i - 1 \in 1..n /\ (2 * i - 1 # n => 2 * i \in 1..n)
    BY <1>3, SMTT(40)
  <1>10. \A i \in 1..m :
            t[i] = hash_pair(s[2 * i - 1], IF 2 * i <= n THEN s[2 * i] ELSE s[2 * i - 1])
    BY <1>5
  <1>11. QED
    BY <1>1, <1>2, <1>4, <1>7, <1>8, <1>9, <1>10

\* The levels from the leaves up, as far as they have been built.
IsTree(levels, leaves) ==
    /\ IsList(levels) /\ levels # <<>> /\ levels[1] = leaves
    /\ \A l \in 1..Len(levels) : IsList(levels[l]) /\ levels[l] # <<>>
    /\ \A l \in 1..(Len(levels) - 1) : levels[l + 1] = NextLevel(levels[l])

\* A level more.
LEMMA TreeGrows ==
    ASSUME NEW levels, NEW leaves, IsTree(levels, leaves)
    PROVE  /\ IsTree(Append(levels, NextLevel(Last(levels))), leaves)
           /\ Len(Append(levels, NextLevel(Last(levels)))) = Len(levels) + 1
           /\ Last(Append(levels, NextLevel(Last(levels)))) = NextLevel(Last(levels))
           /\ IsList(Last(levels)) /\ Last(levels) # <<>>
  <1>1. PICK n \in Nat : n = Len(levels) /\ n # 0 /\ n \in 1..n /\ 1 \in 1..n
    BY ListFacts DEF IsTree
  <1>2. PICK top : top = Last(levels)
    OBVIOUS
  <1>3. top = levels[n] /\ IsList(top) /\ top # <<>>
    BY <1>1, <1>2 DEF IsTree, Last
  <1>4. PICK t, x : t = Append(levels, x) /\ x = NextLevel(top)
    OBVIOUS
  <1>5. IsList(x) /\ x # <<>>
    BY <1>3, <1>4, NextLevelFacts
  <1>6. /\ IsList(t) /\ Len(t) = n + 1 /\ t[n + 1] = x
        /\ \A i \in 1..n : t[i] = levels[i]
    BY <1>1, <1>4, AppendIsList DEF IsTree
  <1>7. t # <<>>
    BY <1>1, <1>6, ListFacts
  <1>8. t[1] = leaves
    BY <1>1, <1>6 DEF IsTree
  <1>9. ASSUME NEW l \in 1..(n + 1) PROVE IsList(t[l]) /\ t[l] # <<>>
    <2>1. l = n + 1 \/ l \in 1..n
      BY <1>1
    <2>2. QED
      BY <1>1, <1>5, <1>6, <2>1 DEF IsTree
  <1>10. ASSUME NEW l \in 1..n PROVE t[l + 1] = NextLevel(t[l])
    <2>1. l = n \/ (l \in 1..(n - 1) /\ l + 1 \in 1..n)
      BY <1>1
    <2>2. CASE l = n
      BY <1>1, <1>3, <1>4, <1>6, <2>2
    <2>3. CASE l \in 1..(n - 1) /\ l + 1 \in 1..n
      BY <1>1, <1>6, <2>3 DEF IsTree
    <2>4. QED
      BY <2>1, <2>2, <2>3
  <1>11. (n + 1) - 1 = n
    BY <1>1
  <1>12. IsTree(t, leaves)
    BY <1>6, <1>7, <1>8, <1>9, <1>10, <1>11 DEF IsTree
  <1>13. Last(t) = x
    BY <1>6 DEF Last
  <1>14. QED
    BY <1>1, <1>2, <1>3, <1>4, <1>6, <1>12, <1>13

\* The levels after each of the first n turns of the loop.
IsBuild(f, leaves, n) ==
    f = [i \in 0..n |-> IF i = 0 THEN <<leaves>> ELSE AddLevel(f[i - 1])]

\* There are such levels.
LEMMA BuildExists ==
    ASSUME NEW leaves
    PROVE  \A n \in Nat : \E f : IsBuild(f, leaves, n)
  <1> DEFINE N == {n \in Nat : \E f : IsBuild(f, leaves, n)}
  <1>1. 0 \in N
    <2>1. IsBuild([i \in 0..0 |-> <<leaves>>], leaves, 0)
      BY DEF IsBuild
    <2>2. QED
      BY <2>1
  <1>2. ASSUME NEW n \in Nat, n \in N PROVE n + 1 \in N
    <2>1. PICK f : IsBuild(f, leaves, n)
      BY <1>2
    <2>2. \A i \in 0..n : f[i] = IF i = 0 THEN <<leaves>> ELSE AddLevel(f[i - 1])
      BY <2>1 DEF IsBuild
    <2> DEFINE g == [i \in 0..(n + 1) |-> IF i = n + 1 THEN AddLevel(f[n]) ELSE f[i]]
    <2>3. ASSUME NEW i \in 0..(n + 1)
          PROVE  g[i] = IF i = 0 THEN <<leaves>> ELSE AddLevel(g[i - 1])
      <3>1. CASE i = n + 1
        <4>1. g[i] = AddLevel(f[n]) /\ g[n] = f[n] /\ i - 1 = n /\ i # 0
          BY <3>1
        <4> HIDE DEF g
        <4>2. QED
          BY <4>1
      <3>2. CASE i = 0
        BY <2>2, <3>2
      <3>3. CASE i \in 1..n
        <4>1. g[i] = f[i] /\ g[i - 1] = f[i - 1] /\ i # 0 /\ i \in 0..n
          BY <3>3
        <4> HIDE DEF g
        <4>2. QED
          BY <2>2, <4>1
      <3>4. QED
        BY <3>1, <3>2, <3>3
    <2>4. g = [i \in 0..(n + 1) |-> g[i]]
      OBVIOUS
    <2> HIDE DEF g
    <2>5. IsBuild(g, leaves, n + 1)
      BY <2>3, <2>4 DEF IsBuild
    <2>6. QED
      BY <2>5
  <1> HIDE DEF N
  <1>3. \A n \in Nat : n \in N
    BY <1>1, <1>2, NatSetInduction
  <1>4. QED
    BY <1>3 DEF N

\* The loop of from_leaves ends with a complete tree: as long as it goes on,
\* every turn makes the top level shorter.
LEMMA TreeBuilt ==
    ASSUME NEW leaves, IsList(leaves), leaves # <<>>
    PROVE  IsTree(from_leaves(leaves), leaves) /\ Complete(from_leaves(leaves))
  <1>1. PICK L \in Nat : L = Len(leaves) /\ L # 0
    BY ListFacts
  <1>2. PICK f : f = CHOOSE g : IsBuild(g, leaves, L)
    OBVIOUS
  <1>3. from_leaves(leaves) = f[L]
    BY <1>1, <1>2 DEF from_leaves, IsBuild
  <1>4. IsBuild(f, leaves, L)
    BY <1>2, BuildExists
  <1>5. \A i \in 0..L : f[i] = IF i = 0 THEN <<leaves>> ELSE AddLevel(f[i - 1])
    BY <1>4 DEF IsBuild
  <1> DEFINE Built(n, t) ==
                 /\ IsTree(t, leaves)
                 /\ Complete(t) \/ (Len(t) = n + 1 /\ Len(Last(t)) <= L - n)
             N == {n \in Nat : n <= L => Built(n, f[n])}
  <1>6. 0 \in N
    <2>1. f[0] = <<leaves>>
      BY <1>5
    <2>2. PICK t : t = <<leaves>>
      OBVIOUS
    <2>3. t = [i \in 1..1 |-> t[i]] /\ t[1] = leaves /\ 1 \in Nat
      BY <2>2
    <2>4. IsList(t) /\ Len(t) = 1
      BY <2>3, FunctionIsList
    <2>5. t # <<>>
      BY <2>2
    <2>6. IsTree(t, leaves)
      BY <2>3, <2>4, <2>5 DEF IsTree
    <2>7. Last(t) = leaves
      BY <2>3, <2>4 DEF Last
    <2>8. Built(0, t)
      BY <1>1, <2>4, <2>6, <2>7
    <2>9. QED
      BY <2>1, <2>2, <2>8
  <1>7. ASSUME NEW n \in Nat, n \in N PROVE n + 1 \in N
    <2>1. SUFFICES ASSUME n + 1 <= L PROVE Built(n + 1, f[n + 1])
      OBVIOUS
    <2>2. PICK t : t = f[n]
      OBVIOUS
    <2>3. Built(n, t)
      BY <1>1, <1>7, <2>1, <2>2
    <2>4. n + 1 \in 0..L /\ n + 1 # 0 /\ (n + 1) - 1 = n
      BY <2>1
    <2>5. f[n + 1] = AddLevel(t)
      BY <1>5, <2>2, <2>4
    <2>6. CASE Complete(t)
      BY <2>3, <2>5, <2>6 DEF AddLevel
    <2>7. CASE ~Complete(t)
      <3>1. PICK u, x : u = Append(t, x) /\ x = NextLevel(Last(t))
        OBVIOUS
      <3>2. AddLevel(t) = u
        BY <2>7, <3>1 DEF AddLevel
      <3>3. PICK m : m = Len(Last(t))
        OBVIOUS
      <3>4. /\ IsTree(u, leaves) /\ Len(u) = Len(t) + 1 /\ Last(u) = x
            /\ IsList(Last(t)) /\ Last(t) # <<>>
        BY <2>3, <3>1, TreeGrows
      <3>5. m \in Nat /\ m # 0
        BY <3>3, <3>4, ListFacts
      <3>6. (m = 1 => Len(x) = 1) /\ (m # 1 => Len(x) <= m - 1) /\ Len(x) \in Nat
        BY <3>1, <3>3, <3>4, NextLevelFacts, ListFacts
      <3>7. Len(t) = n + 1 /\ m <= L - n
        BY <2>3, <2>7, <3>3
      <3>8. CASE m = 1
        <4>1. Len(u) > 1 /\ Len(Last(u)) = 1
          BY <3>4, <3>6, <3>7, <3>8
        <4>2. QED
          BY <2>5, <3>2, <3>4, <4>1 DEF Complete
      <3>9. CASE m # 1
        <4>1. Len(x) <= L - (n + 1) /\ Len(u) = (n + 1) + 1
          BY <1>1, <3>4, <3>5, <3>6, <3>7, <3>9
        <4>2. QED
          BY <3>4, <4>1, <2>5, <3>2
      <3>10. QED
        BY <2>5, <3>2, <3>4, <3>8, <3>9
    <2>8. QED
      BY <2>6, <2>7
  <1> HIDE DEF N
  <1>8. \A n \in Nat : n \in N
    BY <1>6, <1>7, NatSetInduction
  <1>9. L <= L /\ L \in N
    BY <1>1, <1>8
  <1>10. Built(L, f[L])
    BY <1>9 DEF N
  <1>11. PICK t : t = f[L]
    OBVIOUS
  <1>12. Len(Last(t)) # 0 /\ Len(Last(t)) \in Nat
    <2>1. IsList(Last(t)) /\ Last(t) # <<>>
      BY <1>10, <1>11, TreeGrows
    <2>2. QED
      BY <2>1, ListFacts
  <1>13. ~(Len(Last(t)) <= L - L)
    BY <1>1, <1>12
  <1>14. QED
    BY <1>3, <1>10, <1>11, <1>13

\* The way from a node to its parent.
LEMMA NodeStep ==
    ASSUME NEW s, IsList(s), s # <<>>, NEW j \in 1..Len(s), NEW k, k = (j + 1) \div 2
    PROVE  k \in 1..Len(NextLevel(s)) /\ NextLevel(s)[k] = Parent(s[j], Step(s, j))
  <1>1. PICK n, m, t : n = Len(s) /\ t = NextLevel(s) /\ m = Len(t)
    OBVIOUS
  <1>2. n \in Nat /\ n # 0
    BY <1>1, ListFacts
  <1>3. /\ m = (n + 1) \div 2
        /\ \A i \in 1..m :
              t[i] = hash_pair(s[2 * i - 1], IF 2 * i <= n THEN s[2 * i] ELSE s[2 * i - 1])
    BY <1>1, NextLevelFacts
  <1>4. j \in 1..n
    BY <1>1
  <1>5. k \in 1..m
    BY <1>2, <1>3, <1>4
  <1>6. (j % 2 = 0 /\ j = 2 * k) \/ (j % 2 # 0 /\ j = 2 * k - 1)
    BY <1>2, <1>4
  <1>7. CASE j % 2 = 0 /\ j = 2 * k
    <2>1. 2 * k <= n /\ j - 1 = 2 * k - 1
      BY <1>2, <1>4, <1>5, <1>7
    <2>2. Parent(s[j], Step(s, j)) = hash_pair(s[j - 1], s[j])
      BY <1>7 DEF Parent, Step
    <2>3. t[k] = hash_pair(s[2 * k - 1], s[2 * k])
      BY <1>3, <1>5, <2>1
    <2>4. QED
      BY <1>1, <1>5, <1>7, <2>1, <2>2, <2>3
  <1>8. CASE j % 2 # 0 /\ j = 2 * k - 1
    <2>1. PICK i : i = IF j + 1 > n THEN j ELSE j + 1
      OBVIOUS
    <2>2. i = IF 2 * k <= n THEN 2 * k ELSE 2 * k - 1
      BY <1>2, <1>4, <1>5, <1>8, <2>1
    <2>3. Parent(s[j], Step(s, j)) = hash_pair(s[j], s[i])
      BY <1>1, <1>8, <2>1 DEF Parent, Step
    <2>4. t[k] = hash_pair(s[2 * k - 1], IF 2 * k <= n THEN s[2 * k] ELSE s[2 * k - 1])
      BY <1>3, <1>5
    <2>5. QED
      BY <1>1, <1>5, <1>8, <2>2, <2>3, <2>4
  <1>9. QED
    BY <1>6, <1>7, <1>8

\* The positions on the way up, from the leaf at i.
IsPath(f, i, n) == f = [l \in 1..n |-> IF l = 1 THEN i ELSE (f[l - 1] + 1) \div 2]

\* There are such positions.
LEMMA PathExists ==
    ASSUME NEW i
    PROVE  \A n \in Nat : \E f : IsPath(f, i, n)
  <1> DEFINE N == {n \in Nat : \E f : IsPath(f, i, n)}
  <1>1. 0 \in N
    <2>1. IsPath([l \in 1..0 |-> i], i, 0)
      BY DEF IsPath
    <2>2. QED
      BY <2>1
  <1>2. ASSUME NEW n \in Nat, n \in N PROVE n + 1 \in N
    <2>1. PICK f : IsPath(f, i, n)
      BY <1>2
    <2>2. \A l \in 1..n : f[l] = IF l = 1 THEN i ELSE (f[l - 1] + 1) \div 2
      BY <2>1 DEF IsPath
    <2>3. PICK v : v = IF n + 1 = 1 THEN i ELSE (f[n] + 1) \div 2
      OBVIOUS
    <2> DEFINE g == [l \in 1..(n + 1) |-> IF l = n + 1 THEN v ELSE f[l]]
    <2>4. ASSUME NEW l \in 1..(n + 1)
          PROVE  g[l] = IF l = 1 THEN i ELSE (g[l - 1] + 1) \div 2
      <3>1. CASE l = n + 1
        <4>1. g[l] = v /\ l - 1 = n /\ (l # 1 => g[n] = f[n])
          BY <3>1
        <4> HIDE DEF g
        <4>2. QED
          BY <2>3, <3>1, <4>1
      <3>2. CASE l \in 1..n
        <4>1. g[l] = f[l] /\ (l # 1 => g[l - 1] = f[l - 1])
          BY <3>2
        <4> HIDE DEF g
        <4>2. QED
          BY <2>2, <3>2, <4>1
      <3>3. QED
        BY <3>1, <3>2
    <2>5. g = [l \in 1..(n + 1) |-> g[l]]
      OBVIOUS
    <2> HIDE DEF g
    <2>6. IsPath(g, i, n + 1)
      BY <2>4, <2>5 DEF IsPath
    <2>7. QED
      BY <2>6
  <1> HIDE DEF N
  <1>3. \A n \in Nat : n \in N
    BY <1>1, <1>2, NatSetInduction
  <1>4. QED
    BY <1>3 DEF N

\* What compute_root has after each of the first n steps.
IsClimb(f, h, steps, n) == f = [i \in 0..n |-> IF i = 0 THEN h ELSE Parent(f[i - 1], steps[i])]

\* There are such values.
LEMMA ClimbExists ==
    ASSUME NEW h, NEW steps
    PROVE  \A n \in Nat : \E f : IsClimb(f, h, steps, n)
  <1> DEFINE N == {n \in Nat : \E f : IsClimb(f, h, steps, n)}
  <1>1. 0 \in N
    <2>1. IsClimb([i \in 0..0 |-> h], h, steps, 0)
      BY DEF IsClimb
    <2>2. QED
      BY <2>1
  <1>2. ASSUME NEW n \in Nat, n \in N PROVE n + 1 \in N
    <2>1. PICK f : IsClimb(f, h, steps, n)
      BY <1>2
    <2>2. \A i \in 0..n : f[i] = IF i = 0 THEN h ELSE Parent(f[i - 1], steps[i])
      BY <2>1 DEF IsClimb
    <2> DEFINE g == [i \in 0..(n + 1) |->
                       IF i = n + 1 THEN Parent(f[n], steps[n + 1]) ELSE f[i]]
    <2>3. ASSUME NEW i \in 0..(n + 1)
          PROVE  g[i] = IF i = 0 THEN h ELSE Parent(g[i - 1], steps[i])
      <3>1. CASE i = n + 1
        <4>1. g[i] = Parent(f[n], steps[n + 1]) /\ g[n] = f[n] /\ i - 1 = n /\ i # 0
          BY <3>1
        <4> HIDE DEF g
        <4>2. QED
          BY <3>1, <4>1
      <3>2. CASE i = 0
        BY <2>2, <3>2
      <3>3. CASE i \in 1..n
        <4>1. g[i] = f[i] /\ g[i - 1] = f[i - 1] /\ i # 0 /\ i \in 0..n
          BY <3>3
        <4> HIDE DEF g
        <4>2. QED
          BY <2>2, <4>1
      <3>4. QED
        BY <3>1, <3>2, <3>3
    <2>4. g = [i \in 0..(n + 1) |-> g[i]]
      OBVIOUS
    <2> HIDE DEF g
    <2>5. IsClimb(g, h, steps, n + 1)
      BY <2>3, <2>4 DEF IsClimb
    <2>6. QED
      BY <2>5
  <1> HIDE DEF N
  <1>3. \A n \in Nat : n \in N
    BY <1>1, <1>2, NatSetInduction
  <1>4. QED
    BY <1>3 DEF N

\* What compute_root hashes on the way from the leaf is v, one node per step.
ClimbsAlong(p, v, n) ==
    /\ compute_root(p) = v[n] /\ v[0] = p.leaf_hash
    /\ \A i \in 1..n : v[i] = Parent(v[i - 1], p.steps[i])

\* What compute_root computes is the last of such nodes.
LEMMA ComputeRoot ==
    ASSUME NEW p, NEW n, n = Len(p.steps), n \in Nat
    PROVE  \E v : ClimbsAlong(p, v, n)
  <1>1. PICK h, steps : h = p.leaf_hash /\ steps = p.steps
    OBVIOUS
  <1>2. PICK v : v = CHOOSE g : IsClimb(g, h, steps, n)
    OBVIOUS
  <1>3. compute_root(p) = v[n]
    BY <1>1, <1>2 DEF compute_root, IsClimb
  <1>4. IsClimb(v, h, steps, n)
    BY <1>1, <1>2, ClimbExists
  <1>5. \A i \in 0..n : v[i] = IF i = 0 THEN h ELSE Parent(v[i - 1], steps[i])
    BY <1>4 DEF IsClimb
  <1>6. v[0] = h
    BY <1>5
  <1>7. \A i \in 1..n : v[i] = Parent(v[i - 1], steps[i])
    BY <1>5
  <1>8. QED
    BY <1>1, <1>3, <1>6, <1>7 DEF ClimbsAlong

\* The proof of the leaf at i goes through the positions of f, half as far at every level.
ProvedAlong(levels, i, f, n) ==
    /\ prove(levels, i) = [leaf_hash |-> levels[1][i],
                           steps |-> [l \in 1..(n - 1) |-> Step(levels[l], f[l])]]
    /\ f[1] = i
    /\ \A l \in 1..(n - 1) : f[l + 1] = (f[l] + 1) \div 2

\* The proof of the leaf at i goes through some such positions.
LEMMA ProveFacts ==
    ASSUME NEW levels, NEW i, NEW n, n = Len(levels), n \in Nat, n # 0, ~(i > Len(levels[1]))
    PROVE  \E f : ProvedAlong(levels, i, f, n)
  <1>1. PICK f : f = CHOOSE g : IsPath(g, i, n)
    OBVIOUS
  <1>2. prove(levels, i) =
          [leaf_hash |-> levels[1][i], steps |-> [l \in 1..(n - 1) |-> Step(levels[l], f[l])]]
    BY <1>1 DEF prove, IsPath
  <1>3. IsPath(f, i, n)
    BY <1>1, PathExists
  <1>4. \A l \in 1..n : f[l] = IF l = 1 THEN i ELSE (f[l - 1] + 1) \div 2
    BY <1>3 DEF IsPath
  <1>5. f[1] = i
    BY <1>4
  <1>6. ASSUME NEW l \in 1..(n - 1) PROVE f[l + 1] = (f[l] + 1) \div 2
    <2>1. l + 1 \in 1..n /\ l + 1 # 1 /\ (l + 1) - 1 = l
      OBVIOUS
    <2>2. QED
      BY <1>4, <2>1
  <1>7. QED
    BY <1>2, <1>5, <1>6 DEF ProvedAlong

\* Every leaf of a complete tree has a proof that verifies.
LEMMA LeavesHaveProofs ==
    ASSUME NEW levels, NEW leaves, IsTree(levels, leaves), Complete(levels), NEW i \in 1..Len(leaves)
    PROVE  /\ prove(levels, i) # NoProof /\ prove(levels, i).leaf_hash = leaves[i]
           /\ verify(prove(levels, i), root(levels))
  <1>1. PICK n : n = Len(levels) /\ n \in Nat /\ n # 0
    BY ListFacts DEF IsTree
  <1>2. IsList(leaves) /\ leaves # <<>> /\ levels[1] = leaves
    BY <1>1 DEF IsTree
  <1>3. Len(leaves) \in Nat
    BY <1>2, ListFacts
  <1>4. i \in Nat /\ ~(i > Len(levels[1]))
    BY <1>2, <1>3
  <1>5. PICK f : /\ prove(levels, i) =
                      [leaf_hash |-> levels[1][i],
                       steps |-> [l \in 1..(n - 1) |-> Step(levels[l], f[l])]]
                 /\ f[1] = i
                 /\ \A l \in 1..(n - 1) : f[l + 1] = (f[l] + 1) \div 2
    <2>1. \E f : ProvedAlong(levels, i, f, n)
      BY <1>1, <1>4, ProveFacts, Zenon
    <2>2. QED
      BY <2>1 DEF ProvedAlong
  <1>6. PICK p : p = prove(levels, i)
    OBVIOUS
  <1>7. /\ p.leaf_hash = leaves[i] /\ p.steps = [l \in 1..(n - 1) |-> Step(levels[l], f[l])]
        /\ p # NoProof
    <2>1. DOMAIN p = {"leaf_hash", "steps"} /\ DOMAIN NoProof = {"none"}
      BY <1>5, <1>6 DEF NoProof
    <2>2. p # NoProof
      <3>1. "none" # "steps"
        OBVIOUS
      <3>2. QED
        BY <2>1, <3>1
    <2>3. p.leaf_hash = leaves[i] /\ p.steps = [l \in 1..(n - 1) |-> Step(levels[l], f[l])]
      BY <1>2, <1>5, <1>6
    <2>4. QED
      BY <2>2, <2>3
  <1>8. PICK K : K = n - 1 /\ K \in Nat
    BY <1>1
  <1>9. Len(p.steps) = K /\ \A l \in 1..K : p.steps[l] = Step(levels[l], f[l])
    BY <1>7, <1>8
  <1>10. PICK v : /\ compute_root(p) = v[K] /\ v[0] = p.leaf_hash
                  /\ \A k \in 1..K : v[k] = Parent(v[k - 1], p.steps[k])
    <2>1. \E v : ClimbsAlong(p, v, K)
      BY <1>8, <1>9, ComputeRoot, Zenon
    <2>2. QED
      BY <2>1 DEF ClimbsAlong
  <1> DEFINE N == {k \in Nat : k <= K => /\ f[k + 1] \in 1..Len(levels[k + 1])
                                         /\ v[k] = levels[k + 1][f[k + 1]]}
  <1>11. 0 \in N
    BY <1>2, <1>5, <1>7, <1>10
  <1>12. ASSUME NEW k \in Nat, k \in N PROVE k + 1 \in N
    <2>1. SUFFICES ASSUME k + 1 <= K
                   PROVE  /\ f[(k + 1) + 1] \in 1..Len(levels[(k + 1) + 1])
                          /\ v[k + 1] = levels[(k + 1) + 1][f[(k + 1) + 1]]
      OBVIOUS
    <2>2. PICK l, s, j : l = k + 1 /\ s = levels[l] /\ j = f[l]
      OBVIOUS
    <2>3. l \in 1..K /\ l \in 1..(n - 1) /\ l \in 1..n /\ l - 1 = k /\ k <= K
      BY <1>1, <1>8, <2>1, <2>2
    <2>4. IsList(s) /\ s # <<>> /\ levels[l + 1] = NextLevel(s)
      BY <1>1, <2>2, <2>3 DEF IsTree
    <2>5. j \in 1..Len(s) /\ v[k] = s[j]
      BY <1>12, <2>2, <2>3
    <2>6. PICK q : q = f[l + 1]
      OBVIOUS
    <2>7. q = (j + 1) \div 2
      BY <1>5, <2>2, <2>3, <2>6
    <2>8. q \in 1..Len(NextLevel(s)) /\ NextLevel(s)[q] = Parent(s[j], Step(s, j))
      BY <2>4, <2>5, <2>7, NodeStep
    <2>9. v[l] = Parent(v[k], Step(s, j))
      BY <1>9, <1>10, <2>2, <2>3
    <2>10. QED
      BY <2>2, <2>4, <2>5, <2>6, <2>8, <2>9
  <1> HIDE DEF N
  <1>13. \A k \in Nat : k \in N
    BY <1>11, <1>12, NatSetInduction
  <1>14. f[K + 1] \in 1..Len(levels[K + 1]) /\ v[K] = levels[K + 1][f[K + 1]]
    BY <1>8, <1>13 DEF N
  <1>15. K + 1 = n /\ Last(levels) = levels[n] /\ Len(levels[n]) = 1
    BY <1>1, <1>8 DEF Complete, Last
  <1>16. f[n] = 1
    BY <1>14, <1>15
  <1>17. QED
    BY <1>6, <1>7, <1>10, <1>14, <1>15, <1>16 DEF verify, root

\* Whether x is the hash of an entry, and whether it is a node of the tree.
IsEntry(x) == \E a, b : x = hash_entry(a, b)
IsNode(levels, x) == \E l \in 1..Len(levels) : \E j \in 1..Len(levels[l]) : x = levels[l][j]

\* A node that is a pair has two nodes below it, and a node that is an entry is
\* a leaf.
LEMMA NodesBelow ==
    ASSUME NEW levels, NEW leaves, IsTree(levels, leaves),
           \A i \in 1..Len(leaves) : IsEntry(leaves[i]), NEW x, IsNode(levels, x)
    PROVE  /\ \A y, z : x = hash_pair(y, z) => IsNode(levels, y) /\ IsNode(levels, z)
           /\ IsEntry(x) => x \in Range(leaves)
  <1>1. PICK n : n = Len(levels) /\ n \in Nat /\ n # 0
    BY ListFacts DEF IsTree
  <1>2. PICK l \in 1..n : \E j \in 1..Len(levels[l]) : x = levels[l][j]
    BY <1>1 DEF IsNode
  <1>3. PICK j \in 1..Len(levels[l]) : x = levels[l][j]
    BY <1>2
  <1>4. CASE l = 1
    <2>1. x = leaves[j] /\ j \in 1..Len(leaves)
      BY <1>3, <1>4 DEF IsTree
    <2>2. IsEntry(x)
      BY <2>1
    <2>3. \A y, z : x # hash_pair(y, z)
      BY <2>2 DEF IsEntry, hash_entry, hash_pair
    <2>4. x \in Range(leaves)
      <3>1. IsList(leaves)
        BY <1>1, <1>2, <1>4 DEF IsTree
      <3>2. QED
        BY <2>1, <3>1, ListFacts
    <2>5. QED
      BY <2>3, <2>4
  <1>5. CASE l # 1
    <2>1. PICK k : k = l - 1 /\ k \in 1..(n - 1) /\ k \in 1..n /\ k + 1 = l
      BY <1>1, <1>2, <1>5
    <2>2. PICK s : s = levels[k]
      OBVIOUS
    <2>3. IsList(s) /\ s # <<>> /\ levels[l] = NextLevel(s)
      BY <1>1, <2>1, <2>2 DEF IsTree
    <2>4. j \in 1..Len(NextLevel(s)) /\ x = NextLevel(s)[j]
      BY <1>3, <2>3
    <2>5. PICK i1, i2 : /\ i1 = 2 * j - 1
                        /\ i2 = IF 2 * j <= Len(s) THEN 2 * j ELSE 2 * j - 1
      OBVIOUS
    <2>6. /\ 2 * j - 1 \in 1..Len(s)
          /\ x = hash_pair(s[2 * j - 1], IF 2 * j <= Len(s) THEN s[2 * j] ELSE s[2 * j - 1])
      BY <2>3, <2>4, NextLevelFacts
    <2>7. Len(NextLevel(s)) \in Nat /\ Len(s) \in Nat
      BY <2>3, NextLevelFacts, ListFacts
    <2>8. i1 \in 1..Len(s) /\ i2 \in 1..Len(s)
      BY <2>4, <2>5, <2>6, <2>7
    <2>9. x = hash_pair(s[i1], s[i2])
      BY <2>5, <2>6
    <2>10. IsNode(levels, s[i1]) /\ IsNode(levels, s[i2])
      BY <1>1, <2>1, <2>2, <2>8 DEF IsNode
    <2>11. ~IsEntry(x)
      BY <2>9 DEF IsEntry, hash_entry, hash_pair
    <2>12. ASSUME NEW y, NEW z, x = hash_pair(y, z) PROVE y = s[i1] /\ z = s[i2]
      BY <2>9, <2>12 DEF hash_pair
    <2>13. QED
      BY <2>10, <2>11, <2>12
  <1>6. QED
    BY <1>4, <1>5

\* Whatever its steps, a proof that leads from an entry to the root of a tree
\* is of an entry in the tree.
LEMMA OnlyLeavesProved ==
    ASSUME NEW leaves, IsList(leaves), \A i \in 1..Len(leaves) : IsEntry(leaves[i]),
           NEW p, Len(p.steps) \in Nat, IsEntry(p.leaf_hash),
           verify(p, root(from_leaves(leaves)))
    PROVE  p.leaf_hash \in Range(leaves)
  <1>1. PICK K \in Nat : K = Len(p.steps)
    OBVIOUS
  <1>2. PICK levels : levels = from_leaves(leaves)
    OBVIOUS
  <1>3. PICK v : /\ compute_root(p) = v[K] /\ v[0] = p.leaf_hash
                 /\ \A k \in 1..K : v[k] = Parent(v[k - 1], p.steps[k])
    <2>1. \E v : ClimbsAlong(p, v, K)
      BY <1>1, ComputeRoot, Zenon
    <2>2. QED
      BY <2>1 DEF ClimbsAlong
  <1>4. \A x, s : \E y, z : Parent(x, s) = hash_pair(y, z) /\ (x = y \/ x = z)
    BY DEF Parent
  <1>5. v[K] = root(levels)
    BY <1>2, <1>3 DEF verify
  <1>6. CASE leaves = <<>>
    <2>1. root(levels) = EmptyRoot
      BY <1>2, <1>6 DEF from_leaves, root, Last
    <2>2. IsEntry(v[K]) \/ \E y, z : v[K] = hash_pair(y, z)
      <3>1. CASE K = 0
        BY <1>3, <3>1
      <3>2. CASE K # 0
        <4>1. K \in 1..K
          BY <3>2
        <4>2. QED
          BY <1>3, <1>4, <4>1
      <3>3. QED
        BY <3>1, <3>2
    <2>3. QED
      BY <1>5, <2>1, <2>2 DEF IsEntry, hash_entry, hash_pair, EmptyRoot
  <1>7. CASE leaves # <<>>
    <2>1. IsTree(levels, leaves) /\ Complete(levels)
      BY <1>2, <1>7, TreeBuilt
    <2>2. IsNode(levels, v[K])
      <3>1. PICK n : n = Len(levels) /\ n \in Nat /\ n # 0 /\ n \in 1..n
        BY <2>1, ListFacts DEF IsTree
      <3>2. v[K] = levels[n][1] /\ Len(levels[n]) = 1
        BY <1>5, <2>1, <3>1 DEF root, Last, Complete
      <3>3. 1 \in 1..Len(levels[n])
        BY <3>2
      <3>4. QED
        BY <3>1, <3>2, <3>3 DEF IsNode
    <2> DEFINE N == {d \in Nat : d <= K => IsNode(levels, v[K - d])}
    <2>3. 0 \in N
      BY <2>2
    <2>4. ASSUME NEW d \in Nat, d \in N PROVE d + 1 \in N
      <3>1. SUFFICES ASSUME d + 1 <= K PROVE IsNode(levels, v[K - (d + 1)])
        OBVIOUS
      <3>2. PICK k : k = K - d /\ k \in 1..K /\ k - 1 = K - (d + 1)
        BY <3>1
      <3>3. IsNode(levels, v[k])
        BY <2>4, <3>1, <3>2
      <3>4. PICK x, s : x = v[k - 1] /\ s = p.steps[k]
        OBVIOUS
      <3>5. v[k] = Parent(x, s)
        BY <1>3, <3>2, <3>4
      <3>6. PICK y, z : Parent(x, s) = hash_pair(y, z) /\ (x = y \/ x = z)
        BY <1>4
      <3>7. IsNode(levels, y) /\ IsNode(levels, z)
        BY <2>1, <3>3, <3>5, <3>6, NodesBelow
      <3>8. QED
        BY <3>2, <3>4, <3>6, <3>7
    <2> HIDE DEF N
    <2>5. \A d \in Nat : d \in N
      BY <2>3, <2>4, NatSetInduction
    <2>6. K \in N /\ K <= K /\ K - K = 0
      BY <2>5
    <2>7. IsNode(levels, v[0])
      BY <2>6 DEF N
    <2>8. QED
      BY <1>3, <2>1, <2>7, NodesBelow
  <1>8. QED
    BY <1>6, <1>7

-----------------------------------------------------------------------------
(* The proofs of balances *)

\* A finite set of numbers has a greatest one.
LEMMA GreatestNat ==
    ASSUME NEW S, IsFiniteSet(S), S \subseteq Nat, S # {}
    PROVE  \E m \in S : \A y \in S : y <= m
  <1> DEFINE F == {T \in SUBSET S : T = {} \/ \E m \in T : \A y \in T : y <= m}
  <1>1. {} \in F
    OBVIOUS
  <1>2. ASSUME NEW T \in SUBSET S, T # {}, \A x \in T : T \ {x} \in F PROVE T \in F
    <2>1. PICK x \in T : TRUE
      BY <1>2
    <2>2. PICK U : U = T \ {x}
      OBVIOUS
    <2>3. U \in F
      BY <1>2, <2>2
    <2>4. CASE U = {}
      <3>1. \A y \in T : y <= x
        BY <2>2, <2>4
      <3>2. QED
        BY <3>1
    <2>5. CASE U # {}
      <3>1. PICK m \in U : \A y \in U : y <= m
        BY <2>3, <2>5
      <3>2. m \in T /\ m \in Nat /\ x \in Nat /\ T = U \cup {x} /\ \A y \in U : y \in Nat
        BY <2>2, <3>1
      <3>3. (\A y \in T : y <= m) \/ (\A y \in T : y <= x)
        BY <3>1, <3>2
      <3>4. QED
        BY <3>2, <3>3
    <2>6. QED
      BY <2>4, <2>5
  <1> HIDE DEF F
  <1>3. \A T \in SUBSET S : T \in F
    BY <1>1, <1>2, SubsetInduction
  <1>4. S \in F
    BY <1>3
  <1>5. QED
    BY <1>4 DEF F

Ascending(s, S) ==
    /\ s \in [1..Cardinality(S) -> S]
    /\ Range(s) = S /\ \A i \in 2..Cardinality(S) : s[i - 1] < s[i]

\* The members of a finite set of numbers can be put in ascending order.
LEMMA SortedFacts ==
    ASSUME NEW S, IsFiniteSet(S), S \subseteq Nat
    PROVE  Ascending(Sorted(S), S)
  <1> DEFINE F == {T \in SUBSET S : \E s : Ascending(s, T)}
  <1>1. {} \in F
    <2>1. PICK s : s = [i \in 1..0 |-> i]
      OBVIOUS
    <2>2. Cardinality({}) = 0 /\ 1..0 = {} /\ 2..0 = {}
      BY FS_EmptySet
    <2>3. s \in [1..0 -> {}] /\ Range(s) = {}
      BY <2>1, <2>2 DEF Range
    <2>4. Ascending(s, {})
      BY <2>2, <2>3 DEF Ascending
    <2>5. QED
      BY <2>4
  <1>2. ASSUME NEW T \in SUBSET S, T # {}, \A x \in T : T \ {x} \in F PROVE T \in F
    <2>1. IsFiniteSet(T) /\ T \subseteq Nat
      BY FS_Subset
    <2>2. PICK m \in T : \A y \in T : y <= m
      BY <1>2, <2>1, GreatestNat
    <2>3. PICK U : U = T \ {m}
      OBVIOUS
    <2>4. PICK s : Ascending(s, U)
      BY <1>2, <2>2, <2>3
    <2>5. PICK n, k : n = Cardinality(T) /\ k = Cardinality(U)
      OBVIOUS
    <2>6. IsFiniteSet(U) /\ k = n - 1 /\ k \in Nat /\ n \in Nat
      BY <2>1, <2>2, <2>3, <2>5, FS_RemoveElement, FS_CardinalityType
    <2>7. /\ s \in [1..k -> U] /\ Range(s) = U
          /\ \A i \in 2..k : s[i - 1] < s[i]
      BY <2>4, <2>5 DEF Ascending
    <2>8. PICK t : t = [i \in 1..n |-> IF i = n THEN m ELSE s[i]]
      OBVIOUS
    <2>9. \A i \in 1..n : i # n => i \in 1..k
      BY <2>6
    <2>10. t \in [1..n -> T]
      BY <2>2, <2>3, <2>7, <2>8, <2>9
    <2>11. Range(t) = T
      <3>1. \A i \in 1..k : i \in 1..n /\ i # n
        BY <2>6
      <3>2. n \in 1..n
        BY <2>6
      <3>3. DOMAIN t = 1..n /\ t[n] = m /\ \A i \in 1..k : t[i] = s[i]
        BY <2>8, <3>1, <3>2
      <3>4. ASSUME NEW y \in T PROVE y \in Range(t)
        <4>1. CASE y = m
          BY <3>2, <3>3, <4>1 DEF Range
        <4>2. CASE y # m
          <5>1. y \in Range(s) /\ DOMAIN s = 1..k
            BY <2>3, <2>7, <4>2
          <5>2. PICK i \in 1..k : y = s[i]
            BY <5>1 DEF Range
          <5>3. QED
            BY <3>1, <3>3, <5>2 DEF Range
        <4>3. QED
          BY <4>1, <4>2
      <3>5. \A y \in Range(t) : y \in T
        BY <2>10 DEF Range
      <3>6. QED
        BY <3>4, <3>5
    <2>12. ASSUME NEW i \in 2..n PROVE t[i - 1] < t[i]
      <3>1. i - 1 \in 1..n /\ i - 1 # n /\ i \in 1..n /\ i - 1 \in 1..k
        BY <2>6
      <3>2. t[i - 1] = s[i - 1]
        BY <2>8, <3>1
      <3>3. CASE i = n
        <4>1. s[i - 1] \in U
          BY <2>7, <3>1
        <4>2. s[i - 1] \in T /\ s[i - 1] # m /\ s[i - 1] <= m /\ s[i - 1] \in Nat /\ m \in Nat
          BY <2>1, <2>2, <2>3, <4>1
        <4>3. t[i] = m
          BY <2>8, <3>1, <3>3
        <4>4. QED
          BY <3>2, <4>2, <4>3
      <3>4. CASE i # n
        <4>1. i \in 2..k
          BY <2>6, <3>4
        <4>2. t[i] = s[i]
          BY <2>8, <3>1, <3>4
        <4>3. QED
          BY <2>7, <3>2, <4>1, <4>2
      <3>5. QED
        BY <3>3, <3>4
    <2>13. Ascending(t, T)
      BY <2>5, <2>10, <2>11, <2>12 DEF Ascending
    <2>14. QED
      BY <2>13
  <1> HIDE DEF F
  <1>3. \A T \in SUBSET S : T \in F
    BY <1>1, <1>2, SubsetInduction
  <1>4. S \in F
    BY <1>3
  <1>5. PICK s : Ascending(s, S)
    BY <1>4 DEF F
  <1>6. QED
    BY <1>5 DEF Ascending, Sorted

\* The cached tree is the tree of some entries.
SheetInv ==
    /\ IsFiniteSet(DOMAIN balances) /\ DOMAIN balances \subseteq Nat
    /\ tree # NoTree =>
          \E leaves : /\ IsList(leaves) /\ \A i \in 1..Len(leaves) : IsEntry(leaves[i])
                      /\ tree = from_leaves(leaves)

\* The leaves of a tree are its first level.
LEMMA FirstLevel ==
    ASSUME NEW leaves, IsList(leaves)
    PROVE  from_leaves(leaves)[1] = leaves /\ Len(from_leaves(leaves)) \in Nat \ {0}
  <1>1. CASE leaves = <<>>
    <2>1. from_leaves(leaves) = <<leaves, <<EmptyRoot>>>>
      BY <1>1 DEF from_leaves
    <2>2. QED
      BY <2>1
  <1>2. CASE leaves # <<>>
    <2>1. IsTree(from_leaves(leaves), leaves)
      BY <1>2, TreeBuilt
    <2>2. QED
      BY <2>1, ListFacts DEF IsTree
  <1>3. QED
    BY <1>1, <1>2

\* The tree of the sheet has an entry for each account, in ascending order.
LEMMA SheetTree ==
    ASSUME IsFiniteSet(DOMAIN balances), DOMAIN balances \subseteq Nat
    PROVE  \E leaves :
             /\ build_unified_state_tree = from_leaves(leaves)
             /\ IsList(leaves) /\ Len(leaves) = Cardinality(DOMAIN balances)
             /\ \A i \in 1..Len(leaves) : IsEntry(leaves[i])
             /\ \A i \in 1..Len(leaves) :
                   leaves[i] = hash_entry(Sorted(DOMAIN balances)[i],
                                          balances[Sorted(DOMAIN balances)[i]])
  <1>1. PICK D, s, n : D = DOMAIN balances /\ s = Sorted(D) /\ n = Cardinality(D)
    OBVIOUS
  <1>2. n \in Nat /\ DOMAIN s = 1..n
    BY <1>1, SortedFacts, FS_CardinalityType DEF Ascending
  <1>3. PICK entries : entries = [i \in 1..n |-> <<s[i], balances[s[i]]>>]
    OBVIOUS
  <1>4. PICK leaves : leaves = [i \in 1..n |-> hash_entry(entries[i][1], entries[i][2])]
    OBVIOUS
  <1>5. build_unified_state_tree = from_leaves(leaves)
    BY <1>1, <1>2, <1>3, <1>4 DEF build_unified_state_tree, from_entries
  <1>6. \A i \in 1..n : leaves[i] = hash_entry(s[i], balances[s[i]])
    BY <1>3, <1>4
  <1>7. leaves = [i \in 1..n |-> leaves[i]]
    BY <1>4
  <1>8. IsList(leaves) /\ Len(leaves) = n
    BY <1>2, <1>7, FunctionIsList
  <1>9. \A i \in 1..n : IsEntry(leaves[i])
    BY <1>6 DEF IsEntry
  <1>10. QED
    BY <1>1, <1>5, <1>6, <1>8, <1>9

\* Genesis.
LEMMA SheetInit == AppInit => SheetInv
  BY ChainAssumption, FS_Subset DEF AppInit, SheetInv

\* An account more.
LEMMA SheetWith ==
    ASSUME NEW f, IsFiniteSet(DOMAIN f), DOMAIN f \subseteq Nat, NEW a \in Accounts, NEW v
    PROVE  IsFiniteSet(DOMAIN With(f, a, v)) /\ DOMAIN With(f, a, v) \subseteq Nat
  <1>1. DOMAIN With(f, a, v) = DOMAIN f \cup {a}
    BY DEF With
  <1>2. QED
    BY <1>1, FS_AddElement, ChainAssumption

\* Only transfers, the end of a block and a restart touch sheet and tree.
LEMMA SheetNext == SheetInv /\ [AppNext]_chainVars => SheetInv'
  <1>1. SUFFICES ASSUME SheetInv, [AppNext]_chainVars PROVE SheetInv'
    OBVIOUS
  <1>2. ASSUME UNCHANGED sheetVars PROVE SheetInv'
    BY <1>1, <1>2 DEF sheetVars, SheetInv
  <1>3. ASSUME NEW new, Transfer(new), IsFiniteSet(DOMAIN new), DOMAIN new \subseteq Nat
        PROVE  SheetInv'
    BY <1>1, <1>3 DEF Transfer, SheetInv
  <1>4. ASSUME NEW G, EndBlock(G) PROVE SheetInv'
    <2>1. balances' = balances /\ tree' = build_unified_state_tree
      BY <1>4 DEF EndBlock
    <2>2. PICK leaves : /\ build_unified_state_tree = from_leaves(leaves) /\ IsList(leaves)
                        /\ \A i \in 1..Len(leaves) : IsEntry(leaves[i])
      BY <1>1, SheetTree DEF SheetInv
    <2>3. QED
      BY <1>1, <2>1, <2>2 DEF SheetInv
  <1>5. CASE Restart
    BY <1>1, <1>5 DEF Restart, SheetInv
  <1>6. ASSUME NEW a \in Accounts,
               \/ \E to \in Accounts : UsdTransfer(a, to)
               \/ Withdraw(a)
               \/ ViewTransfer(a, "core", "evm") \/ ViewTransfer(a, "evm", "core")
        PROVE  SheetInv'
    <2>1. IsFiniteSet(DOMAIN balances) /\ DOMAIN balances \subseteq Nat
      BY <1>1 DEF SheetInv
    <2>2. PICK new, v : /\ Transfer(new)
                        /\ \/ new = With(balances, a, v)
                           \/ \E to \in Accounts : \E w : new = With(With(balances, a, v), to, w)
      BY <1>6 DEF UsdTransfer, Withdraw, ViewTransfer
    <2>3. PICK f : f = With(balances, a, v)
      OBVIOUS
    <2>4. IsFiniteSet(DOMAIN f) /\ DOMAIN f \subseteq Nat
      BY <2>1, <2>3, SheetWith
    <2>5. CASE new = f
      BY <1>3, <2>2, <2>4, <2>5
    <2>6. ASSUME NEW to \in Accounts, NEW w, new = With(f, to, w) PROVE SheetInv'
      BY <1>3, <2>2, <2>4, <2>6, SheetWith
    <2>7. QED
      BY <2>2, <2>3, <2>5, <2>6
  <1>7. CASE UNCHANGED chainVars
    BY <1>2, <1>7 DEF chainVars
  <1>8. ASSUME NEW a, NEW kind, BeginTx(a, kind) PROVE SheetInv'
    BY <1>2, <1>8 DEF BeginTx
  <1>9. CASE FailTx \/ EndTx
    BY <1>2, <1>9 DEF FailTx, EndTx
  <1>10. ASSUME NEW c, NEW F, NEW rests, SpotOrder(c, F, rests) PROVE SheetInv'
    BY <1>2, <1>10 DEF SpotOrder, Placed
  <1>11. ASSUME NEW c, NEW F, NEW G, NEW rests, PerpOrder(c, F, G, rests) PROVE SheetInv'
    BY <1>2, <1>11 DEF PerpOrder, Placed
  <1>12. ASSUME NEW c, PlaceTrigger(c) PROVE SheetInv'
    BY <1>2, <1>12 DEF PlaceTrigger
  <1>13. ASSUME NEW o, CancelOrder(o) \/ CancelTrigger(o) PROVE SheetInv'
    BY <1>2, <1>13 DEF CancelOrder, CancelTrigger
  <1>14. ASSUME NEW c, NEW e, CancelByCloid(c, e) PROVE SheetInv'
    BY <1>2, <1>14 DEF CancelByCloid
  <1>15. ASSUME NEW e, CancelAll(e) \/ SpotCancelAll PROVE SheetInv'
    BY <1>2, <1>15 DEF CancelAll, SpotCancelAll
  <1>16. QED
    BY <1>1, <1>4, <1>5, <1>6, <1>7, <1>8, <1>9, <1>10, <1>11, <1>12, <1>13, <1>14, <1>15
       DEF AppNext

\* ProofsSound for every proof there can be, not just for those that
\* prove_balance makes.
AnyProofSound ==
    tree # NoTree =>
        \A a, b, p : Len(p.steps) \in Nat /\ verify_balance_proof(a, b, p) =>
            hash_entry(a, b) \in Range(tree[1])

\* No steps lead from another entry to the root of the cached tree.
LEMMA ProofsAreOfEntries == SheetInv => AnyProofSound
  <1>1. SUFFICES ASSUME SheetInv, tree # NoTree, NEW a, NEW b, NEW p,
                        Len(p.steps) \in Nat, verify_balance_proof(a, b, p)
                 PROVE  hash_entry(a, b) \in Range(tree[1])
    BY DEF AnyProofSound
  <1>2. PICK leaves : /\ IsList(leaves) /\ \A i \in 1..Len(leaves) : IsEntry(leaves[i])
                      /\ tree = from_leaves(leaves)
    BY <1>1 DEF SheetInv
  <1>3. p.leaf_hash = hash_entry(a, b) /\ verify(p, root(tree))
    BY <1>1 DEF verify_balance_proof
  <1>4. IsEntry(p.leaf_hash)
    BY <1>3 DEF IsEntry
  <1>5. p.leaf_hash \in Range(leaves)
    BY <1>1, <1>2, <1>3, <1>4, OnlyLeavesProved
  <1>6. QED
    BY <1>2, <1>3, <1>5, FirstLevel

\* An account of the sheet has a place in its order.
LEMMA PositionFacts ==
    ASSUME IsFiniteSet(DOMAIN balances), DOMAIN balances \subseteq Nat, NEW a \in DOMAIN balances
    PROVE  /\ Position(Sorted(DOMAIN balances), a) \in 1..Cardinality(DOMAIN balances)
           /\ Sorted(DOMAIN balances)[Position(Sorted(DOMAIN balances), a)] = a
  <1>1. PICK s, n : s = Sorted(DOMAIN balances) /\ n = Cardinality(DOMAIN balances)
    OBVIOUS
  <1>2. DOMAIN s = 1..n /\ a \in Range(s)
    BY <1>1, SortedFacts DEF Ascending
  <1>3. \E i \in DOMAIN s : s[i] = a
    BY <1>2 DEF Range
  <1>4. PICK i : i = CHOOSE j \in DOMAIN s : s[j] = a
    OBVIOUS
  <1>5. i \in DOMAIN s /\ s[i] = a
    BY <1>3, <1>4
  <1>6. QED
    BY <1>1, <1>2, <1>4, <1>5 DEF Position

\* The invariant gives what is claimed of the proofs.
LEMMA SheetInvImplies == SheetInv => ProofsSound
  <1>1. SUFFICES ASSUME SheetInv, tree # NoTree, NEW a \in DOMAIN balances
                 PROVE  /\ \A b \in Range(balances) :
                             /\ prove_balance(a) # NoProof /\ verify_balance_proof(a, b, prove_balance(a))
                                  => hash_entry(a, b) \in Range(tree[1])
                             /\ \A i \in DOMAIN tree[1] :
                                  verify_balance_proof(a, b,
                                      [prove(tree, i) EXCEPT !.leaf_hash = hash_entry(a, b)])
                                    => hash_entry(a, b) \in Range(tree[1])
                        /\ tree = build_unified_state_tree =>
                             /\ prove_balance(a) # NoProof
                             /\ verify_balance_proof(a, balances[a], prove_balance(a))
                             /\ hash_entry(a, balances[a]) \in Range(tree[1])
    BY DEF ProofsSound
  <1>2. IsFiniteSet(DOMAIN balances) /\ DOMAIN balances \subseteq Nat
    BY <1>1 DEF SheetInv
  <1>3. PICK leaves : IsList(leaves) /\ tree = from_leaves(leaves)
    BY <1>1 DEF SheetInv
  <1>4. tree[1] = leaves /\ Len(tree) \in Nat \ {0}
    BY <1>3, FirstLevel
  <1>5. DOMAIN leaves = 1..Len(leaves) /\ Len(leaves) \in Nat
    BY <1>3, ListFacts
  <1>6. PICK k : k = Position(Sorted(DOMAIN balances), a)
    OBVIOUS
  <1>7. prove_balance(a) = prove(tree, k)
    BY <1>1, <1>6 DEF prove_balance
  <1>8. k \in 1..Cardinality(DOMAIN balances) /\ Sorted(DOMAIN balances)[k] = a
    BY <1>2, <1>6, PositionFacts
  <1>9. k \in Nat /\ k # 0
    BY <1>2, <1>8, FS_CardinalityType
  <1>10. ASSUME NEW i \in Nat, i # 0, ~(i > Len(leaves))
         PROVE  \E h, s : /\ prove(tree, i) = [leaf_hash |-> h, steps |-> s]
                          /\ h \in Range(leaves) /\ Len(s) \in Nat
    <2>1. i \in 1..Len(leaves)
      BY <1>5, <1>10
    <2>2. PICK f : prove(tree, i) =
                     [leaf_hash |-> tree[1][i],
                      steps |-> [l \in 1..(Len(tree) - 1) |-> Step(tree[l], f[l])]]
      <3>1. PICK n : n = Len(tree) /\ n \in Nat /\ n # 0
        BY <1>4
      <3>2. \E f : ProvedAlong(tree, i, f, n)
        BY <1>4, <1>10, <3>1, ProveFacts, Zenon
      <3>3. QED
        BY <3>1, <3>2 DEF ProvedAlong
    <2>3. PICK s : s = [l \in 1..(Len(tree) - 1) |-> Step(tree[l], f[l])]
      OBVIOUS
    <2>4. Len(tree) - 1 \in Nat
      BY <1>4
    <2>5. s = [l \in 1..(Len(tree) - 1) |-> s[l]]
      BY <2>3
    <2>6. Len(s) \in Nat
      BY <2>4, <2>5, FunctionIsList
    <2>7. leaves[i] \in Range(leaves)
      BY <1>5, <2>1 DEF Range
    <2>8. QED
      BY <1>4, <2>2, <2>3, <2>6, <2>7
  <1>11. ASSUME NEW b, prove_balance(a) # NoProof, verify_balance_proof(a, b, prove_balance(a))
         PROVE  hash_entry(a, b) \in Range(tree[1])
    <2>1. ~(k > Len(leaves))
      BY <1>4, <1>7, <1>11 DEF prove
    <2>2. PICK h, s : prove(tree, k) = [leaf_hash |-> h, steps |-> s] /\ h \in Range(leaves)
      BY <1>9, <1>10, <2>1
    <2>3. prove_balance(a).leaf_hash = h
      BY <1>7, <2>2
    <2>4. QED
      BY <1>4, <1>11, <2>2, <2>3 DEF verify_balance_proof
  <1>12. ASSUME NEW b, NEW i \in DOMAIN tree[1], NEW x, x = hash_entry(a, b),
                verify_balance_proof(a, b, [prove(tree, i) EXCEPT !.leaf_hash = x])
         PROVE  x \in Range(tree[1])
    <2>1. i \in Nat /\ i # 0 /\ ~(i > Len(leaves))
      BY <1>4, <1>5
    <2>2. PICK h, s : prove(tree, i) = [leaf_hash |-> h, steps |-> s] /\ Len(s) \in Nat
      BY <1>10, <2>1
    <2>3. PICK p : p = [prove(tree, i) EXCEPT !.leaf_hash = x]
      OBVIOUS
    <2>4. p.steps = s
      BY <2>2, <2>3
    <2>5. Len(p.steps) \in Nat
      BY <2>2, <2>4
    <2>6. verify_balance_proof(a, b, p)
      BY <1>12, <2>3
    <2>7. QED
      BY <1>1, <1>12, <2>5, <2>6, ProofsAreOfEntries DEF AnyProofSound
  <1>13. ASSUME tree = build_unified_state_tree
         PROVE  /\ prove_balance(a) # NoProof
                /\ verify_balance_proof(a, balances[a], prove_balance(a))
                /\ hash_entry(a, balances[a]) \in Range(tree[1])
    <2>1. PICK l2 : /\ build_unified_state_tree = from_leaves(l2)
                    /\ IsList(l2) /\ Len(l2) = Cardinality(DOMAIN balances)
                    /\ \A i \in 1..Len(l2) :
                          l2[i] = hash_entry(Sorted(DOMAIN balances)[i],
                                             balances[Sorted(DOMAIN balances)[i]])
      BY <1>2, SheetTree
    <2>2. k \in 1..Len(l2) /\ l2[k] = hash_entry(a, balances[a])
      BY <1>8, <2>1
    <2>3. DOMAIN l2 = 1..Len(l2) /\ Len(l2) \in Nat /\ (l2 # <<>> <=> Len(l2) # 0)
      BY <2>1, ListFacts
    <2>4. l2 # <<>>
      BY <2>2, <2>3
    <2>5. IsTree(tree, l2) /\ Complete(tree) /\ tree[1] = l2
      BY <1>13, <2>1, <2>4, TreeBuilt, FirstLevel
    <2>6. /\ prove(tree, k) # NoProof /\ prove(tree, k).leaf_hash = l2[k]
          /\ verify(prove(tree, k), root(tree))
      BY <2>2, <2>5, LeavesHaveProofs
    <2>7. hash_entry(a, balances[a]) \in Range(tree[1])
      BY <2>2, <2>3, <2>5 DEF Range
    <2>8. QED
      BY <1>7, <2>2, <2>6, <2>7 DEF verify_balance_proof
  <1>14. QED
    BY <1>11, <1>12, <1>13

\* Proofs of balances are sound and complete: for any number of accounts, so
\* that the tree may have any number of leaves and levels, and however the
\* sheet has changed since the block.
THEOREM BalanceProofsSound == AppSpec => []ProofsSound
  <1>1. SheetInv => ProofsSound
    BY SheetInvImplies
  <1>2. QED
    BY <1>1, SheetInit, SheetNext, PTL DEF AppSpec

\* A proof that verify_balance_proof accepts, whatever its path and wherever it
\* comes from, is of an entry of the last block, as long as hashes do not
\* collide.
THEOREM NoOtherProofAccepted == AppSpec => []AnyProofSound
  <1>1. SheetInv => AnyProofSound
    BY ProofsAreOfEntries
  <1>2. QED
    BY <1>1, SheetInit, SheetNext, PTL DEF AppSpec
=============================================================================
