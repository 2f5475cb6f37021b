------------------------------ MODULE HyperBft ------------------------------
(***************************************************************************)
(* HyperBFT consensus (chain/src/hyperbft/): a leader per height proposes  *)
(* a block, every validator votes and collects votes, 2f+1 votes make a    *)
(* certificate and a certificate advances the height.                      *)
(*                                                                         *)
(* Every validator follows the code; it may crash.  The transport is not   *)
(* part of the module that is modelled: messages are the set of all        *)
(* messages ever sent, and a validator may receive any of them at any      *)
(* time, again, or never.  A message for another height, a vote that was   *)
(* counted before and the two sync messages change nothing when they are   *)
(* handled and have no action.                                             *)
(*                                                                         *)
(* A block is its proposal; its hash takes in all the fields it has here,  *)
(* so the block stands for its hash.  The phase of a validator is written  *)
(* and never read and is left out.                                         *)
(***************************************************************************)
EXTENDS Naturals, FiniteSets, Sequences

CONSTANTS
    num_validators,
    fault_tolerance,    \* f
    vote_history,       \* heights below the committed one that prune keeps
    Loopback,           \* the transport delivers to the sender as well
    MaxHeight,          \* bound: heights
    MaxTimeouts,        \* bound: view timeouts, of all validators
    MaxCrashes          \* bound: crashes

ASSUME HyperBftAssumption ==
    /\ num_validators \in Nat \ {0} /\ fault_tolerance \in Nat
    /\ vote_history \in Nat /\ Loopback \in BOOLEAN
    /\ MaxHeight \in Nat /\ MaxTimeouts \in Nat /\ MaxCrashes \in Nat

Validators == 0..(num_validators - 1)

VARIABLES
    current_height,     \* height committed last
    waiting,            \* in the inner loop of run, waiting for messages
    votes,              \* VoteCollector.votes
    snapshot_height,    \* OptimisticExecutor: height of the speculation, 0 if none
    executed,           \* blocks the validator's BlockProducer has executed
    messages,           \* every message sent so far
    decided,            \* the block of every height a validator has committed
    crashed,
    timeouts

vars == <<current_height, waiting, votes, snapshot_height, executed, messages,
          decided, crashed, timeouts>>

Block == [height : Nat, proposer : Validators, parent_hash : Nat]

Propose(b) == [type |-> "Propose", block |-> b]
Vote(v, b) == [type |-> "Vote", voter |-> v, block |-> b]
Commit(b, voters) == [type |-> "Commit", block |-> b, voters |-> voters]

Init ==
    /\ current_height = [v \in Validators |-> 0]
    /\ waiting = [v \in Validators |-> FALSE]
    /\ votes = [v \in Validators |-> {}]
    /\ snapshot_height = [v \in Validators |-> 0]
    /\ executed = [v \in Validators |-> 0]
    /\ messages = {}
    /\ decided = [v \in Validators |-> <<>>]
    /\ crashed = {}
    /\ timeouts = 0

-----------------------------------------------------------------------------

leader_for_height(h) == h % num_validators

\* Mutant: one vote more.
quorum_size_Large == 2 * fault_tolerance + 2

quorum_size == 2 * fault_tolerance + 1

\* Mutant: votes for any block of the height add up.
Supporters_OfHeight(collected, b) ==
    {vote.voter : vote \in {x \in collected : x.block.height = b.height}}

\* The validators that voted for b among the votes a collector has.
Supporters(collected, b) == {vote.voter : vote \in {x \in collected : x.block = b}}

\* VoteCollector::add_vote counts one vote of a validator per height.
HasVoted(v, vote) ==
    \E x \in votes[v] : x.block.height = vote.block.height /\ x.voter = vote.voter

prune(collected, h) == {x \in collected : x.block.height + vote_history >= h}

begin_speculative(v) == [snapshot_height EXCEPT ![v] = current_height[v] + 1]

confirm(v) == [snapshot_height EXCEPT ![v] = 0]

\* The height advances and the outer loop starts over.
Advance(v, b) ==
    /\ current_height' = [current_height EXCEPT ![v] = @ + 1]
    /\ decided' = [decided EXCEPT ![v] = Append(@, b)]
    /\ snapshot_height' = confirm(v)
    /\ waiting' = [waiting EXCEPT ![v] = FALSE]

\* add_vote completes a quorum and commit_block follows, or it does not and the
\* height stays, with the given speculation.
CountVote(v, vote, sent, speculation) ==
    LET collected == votes[v] \cup {vote}
        voters == Supporters(collected, vote.block)
    IN  \/ /\ Cardinality(voters) < quorum_size
           /\ votes' = [votes EXCEPT ![v] = collected]
           /\ messages' = messages \cup sent
           /\ snapshot_height' = speculation
           /\ UNCHANGED <<current_height, decided, waiting>>
        \/ /\ Cardinality(voters) >= quorum_size
           /\ Advance(v, vote.block)
           /\ votes' = [votes EXCEPT ![v] = prune(collected, current_height[v] + 1)]
           /\ messages' = messages \cup sent \cup {Commit(vote.block, voters)}

-----------------------------------------------------------------------------
(* The outer loop of run *)

Running(v) == v \notin crashed /\ current_height[v] < MaxHeight

\* The leader of the next height produces a block, which executes it, and
\* broadcasts the proposal.
propose_block(v) ==
    /\ Running(v) /\ ~waiting[v]
    /\ leader_for_height(current_height[v] + 1) = v
    /\ executed' = [executed EXCEPT ![v] = @ + 1]
    /\ messages' = messages \cup
         {Propose([height |-> current_height[v] + 1, proposer |-> v,
                   parent_hash |-> executed[v] + 1])}
    /\ waiting' = [waiting EXCEPT ![v] = TRUE]
    /\ UNCHANGED <<current_height, votes, snapshot_height, decided, crashed, timeouts>>

\* Every other validator just waits.
Follow(v) ==
    /\ Running(v) /\ ~waiting[v]
    /\ leader_for_height(current_height[v] + 1) # v
    /\ waiting' = [waiting EXCEPT ![v] = TRUE]
    /\ UNCHANGED <<current_height, votes, snapshot_height, executed, messages, decided,
                   crashed, timeouts>>

\* The view times out: the speculation is given up, without a snapshot to
\* restore, and the loop starts over at the same height.
Timeout(v) ==
    /\ Running(v) /\ waiting[v]
    /\ timeouts < MaxTimeouts
    /\ timeouts' = timeouts + 1
    /\ snapshot_height' = [snapshot_height EXCEPT ![v] = 0]
    /\ waiting' = [waiting EXCEPT ![v] = FALSE]
    /\ UNCHANGED <<current_height, votes, executed, messages, decided, crashed>>

-----------------------------------------------------------------------------
(* handle_message *)

ForNextHeight(v, b) == b.height = current_height[v] + 1

\* The vote is sent before the collector looks whether the validator has
\* voted at this height.
HandlePropose(v, b) ==
    /\ Running(v) /\ waiting[v]
    /\ Propose(b) \in messages
    /\ b.proposer # v \/ Loopback
    /\ ForNextHeight(v, b)
    /\ \/ /\ HasVoted(v, Vote(v, b))
          /\ messages' = messages \cup {Vote(v, b)}
          /\ snapshot_height' = begin_speculative(v)
          /\ UNCHANGED <<current_height, waiting, votes, decided>>
       \/ /\ ~HasVoted(v, Vote(v, b))
          /\ CountVote(v, Vote(v, b), {Vote(v, b)}, begin_speculative(v))
    /\ UNCHANGED <<executed, crashed, timeouts>>

HandleVote(v, u, b) ==
    /\ Running(v) /\ waiting[v]
    /\ Vote(u, b) \in messages
    /\ ForNextHeight(v, b)
    /\ ~HasVoted(v, Vote(u, b))
    /\ CountVote(v, Vote(u, b), {}, snapshot_height)
    /\ UNCHANGED <<executed, crashed, timeouts>>

\* A certificate of another validator.  Old votes are not pruned here.
HandleCommit(v, m) ==
    /\ Running(v) /\ waiting[v]
    /\ m \in messages /\ m.type = "Commit"
    /\ ForNextHeight(v, m.block)
    /\ Cardinality(m.voters) >= quorum_size
    /\ Advance(v, m.block)
    /\ UNCHANGED <<votes, executed, messages, crashed, timeouts>>

Crash(v) ==
    /\ v \notin crashed
    /\ Cardinality(crashed) < MaxCrashes
    /\ crashed' = crashed \cup {v}
    /\ UNCHANGED <<current_height, waiting, votes, snapshot_height, executed, messages,
                   decided, timeouts>>

Proposed == {m.block : m \in {x \in messages : x.type = "Propose"}}

\* What a validator does when it runs and messages reach it.
Progress(v) ==
    \/ propose_block(v) \/ Follow(v)
    \/ \E b \in Proposed :
         HandlePropose(v, b) \/ \E u \in Validators : HandleVote(v, u, b)
    \/ \E m \in messages : HandleCommit(v, m)

Next == \E v \in Validators : Progress(v) \/ Timeout(v) \/ Crash(v)

Spec == Init /\ [][Next]_vars

\* A validator that has not crashed keeps running, and what it has not handled
\* yet keeps arriving: a height takes it a bounded number of steps.
FairSpec == Spec /\ \A v \in Validators : WF_vars(Progress(v))

-----------------------------------------------------------------------------
(* Properties *)

\* Every variable keeps its type, and a collector never counts two votes of a
\* validator at one height, although validators send them.
TypeOK ==
    /\ current_height \in [Validators -> Nat]
    /\ waiting \in [Validators -> BOOLEAN]
    /\ DOMAIN votes = Validators
    /\ \A v \in Validators : \A x \in votes[v] : x.voter \in Validators /\ x.block \in Block
    /\ \A v \in Validators : \A x, y \in votes[v] :
         x.voter = y.voter /\ x.block.height = y.block.height => x = y
    /\ snapshot_height \in [Validators -> Nat]
    /\ executed \in [Validators -> Nat]
    /\ \A m \in messages : m.type \in {"Propose", "Vote", "Commit"} /\ m.block \in Block
    /\ decided \in [Validators -> Seq(Block)]
    /\ \A v \in Validators : Len(decided[v]) = current_height[v]
    /\ crashed \subseteq Validators
    /\ timeouts \in Nat

\* Every committed block was proposed by the leader of its height, and 2f+1
\* different validators sent a vote for it, whether the validator counted the
\* votes itself or took another one's certificate.
DecidedByQuorum ==
    \A v \in Validators : \A h \in 1..current_height[v] :
        LET b == decided[v][h]
        IN  /\ b.height = h /\ b.proposer = leader_for_height(h)
            /\ Propose(b) \in messages
            /\ Cardinality({u \in Validators : Vote(u, b) \in messages})
                 >= 2 * fault_tolerance + 1

VotedForBoth(b, c) ==
    {u \in Validators : Vote(u, b) \in messages /\ Vote(u, c) \in messages}

\* A fork takes double votes: where two validators have committed different
\* blocks of a height, the two quorums share 2(2f+1) - n validators that sent a
\* vote for each, in whatever order the votes came in and whoever committed by
\* another one's certificate.  Forks do happen: a view timeout makes the leader
\* propose again, and a validator sends a vote for every proposal.
ForksTakeDoubleVotes ==
    \A v, w \in Validators : \A h \in 1..current_height[v] :
        h <= current_height[w] /\ decided[v][h] # decided[w][h] =>
            Cardinality(VotedForBoth(decided[v][h], decided[w][h]))
                >= 2 * (2 * fault_tolerance + 1) - num_validators

QuorumAlive == Cardinality(Validators \ crashed) >= 2 * fault_tolerance + 1

\* As long as no view times out and a quorum is alive, the first block that is
\* proposed is committed by every validator that has not crashed, in whatever
\* order proposal, votes and certificates reach them.
ProposedIsCommitted ==
    [](timeouts = 0 /\ QuorumAlive) =>
        (Proposed # {}) ~> (\A v \in Validators : current_height[v] >= 1 \/ v \in crashed)
=============================================================================
