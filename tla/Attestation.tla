----------------------------- MODULE Attestation ------------------------------
(***************************************************************************)
(* The attestations of a node: attestation_collector.rs,                   *)
(* attestation_gossip.rs and divergence_handler.rs of chain/src, as the    *)
(* node wires them (node/src/main.rs) to its block producer.               *)
(*                                                                         *)
(* Four tasks: the producer, which attests every block it commits; the     *)
(* gossip loop, which publishes what the producer sends and takes in what  *)
(* the network brings; the forwarder, which hands that to the collector;   *)
(* and the handler of alerts.  Bounded channels join them, and a full one  *)
(* stops its sender.  The attestations of the other validators arrive in   *)
(* any order, more than once, or never.                                    *)
(***************************************************************************)
EXTENDS Integers, Sequences, FiniteSets, FiniteSetsExt, SequencesExt

CONSTANTS
    Validators, Me,       \* the known validators, with one unit of power each
    retention_blocks,
    Diverging,            \* bound: the validators that may compute a wrong hash
    Ahead,                \* bound: the ones whose later attestations may come early
    Buffer,               \* capacity of each channel
    NoVote,
    MaxHeight,            \* bound: blocks
    MaxClears             \* bound: halts cleared by hand

ASSUME AttestationAssumption ==
    /\ IsFiniteSet(Validators) /\ Me \in Validators /\ NoVote \notin Validators \X Nat
    /\ retention_blocks \in Nat /\ Buffer \in Nat \ {0}
    /\ MaxHeight \in Nat /\ MaxClears \in Nat

VARIABLES
    first,          \* the first height whose hash is wrong, per validator
    wrong,          \* the wrong hash: it sorts before or after the right one
    height,         \* of the application
    our_hashes, attestations,      \* the collector: heights recorded, votes stored
    producer, forwarder, gossip,   \* where a task is, and its attestation
    broadcast, incoming, alerts,   \* the channels
    halted, clears

nodeVars == <<our_hashes, attestations, halted, clears>>
channels == <<broadcast, incoming, alerts>>
vars == <<first, wrong, height, nodeVars, producer, forwarder, gossip, channels>>

\* Some of the others are one block ahead of the node.
Heights == 1..MaxHeight + 1
Votes == {vote \in Validators \X Heights : vote[2] <= MaxHeight \/ vote[1] \in Ahead}

Right == 1

\* The app hash chains the hashes before it: who has diverged stays so.
Hash(v, h) == IF h < first[v] THEN Right ELSE wrong

Init ==
    /\ first \in [Validators -> 1..MaxHeight + 1]
    /\ \A v \in Validators \ Diverging : first[v] = MaxHeight + 1
    /\ wrong \in {0, 2}
    /\ height = 0
    /\ our_hashes = {} /\ attestations = {}
    /\ producer = "idle"
    /\ forwarder = [at |-> "recv", vote |-> NoVote] /\ gossip = NoVote
    /\ broadcast = <<>> /\ incoming = <<>> /\ alerts = <<>>
    /\ halted = FALSE /\ clears = 0

-----------------------------------------------------------------------------
(* AttestationCollector *)

VotesAt(h) == {v \in Validators : <<v, h>> \in attestations}
PowerFor(S, h, x) == Cardinality({v \in S : Hash(v, h) = x})
HashesOf(S, h) == {Hash(v, h) : v \in S}

\* Mutant: the share of the power that has voted is not asked for.
Quorum_Any(S) == S # {}

\* The ratio of the voted to the total power is at least quorum_threshold, 0.67.
Quorum(S) == 100 * Cardinality(S) >= 67 * Cardinality(Validators)

\* max_by_key gives the last of equals, in the order of the hashes.
MajorityHash(S, h) ==
    Max({x \in HashesOf(S, h) : \A y \in HashesOf(S, h) : PowerFor(S, h, x) >= PowerFor(S, h, y)})

Diverged(h) == Quorum(VotesAt(h)) /\ Cardinality(HashesOf(VotesAt(h), h)) > 1

Minority(h) == h \in our_hashes /\ Hash(Me, h) # MajorityHash(VotesAt(h), h)

\* record_our_hash and its cleanup.
Recorded(h) == {g \in our_hashes \cup {h} : g + retention_blocks >= h}

\* Two locks, one after the other: first the look whether the height is too old,
\* then whether the validator has voted for it.
Recent(vote) == \A g \in our_hashes : vote[2] + retention_blocks >= g
New(vote) == vote \notin attestations

\* The vote is stored, and votes too far below its height are dropped.
Stored(vote) == {w \in attestations \cup {vote} : w[2] + retention_blocks >= vote[2]}

\* check_divergence reads everything again after the write lock is gone; the
\* send of its alert waits for room.
CheckDivergence(h) ==
    IF Diverged(h)
    THEN Len(alerts) < Buffer /\ alerts' = Append(alerts, Minority(h))
    ELSE UNCHANGED alerts

-----------------------------------------------------------------------------
(* The block producer *)

\* Mutant: the node's own hash is recorded after its attestation is processed.
NextStage_RecordLate(stage) ==
    CASE stage = "idle" -> "store"
      [] stage = "store" -> "check"
      [] stage = "check" -> "record"
      [] stage = "record" -> "broadcast"

\* The own attestation is processed once the hash is recorded, then sent.
NextStage(stage) ==
    CASE stage = "idle" -> "record"
      [] stage = "record" -> "store"
      [] stage = "store" -> "check"
      [] stage = "check" -> "broadcast"

\* A tick while the node is not halted: a block is executed and committed.
ProduceBlock ==
    /\ producer = "idle" /\ ~halted
    /\ height < MaxHeight
    /\ height' = height + 1
    /\ producer' = NextStage("idle")
    /\ UNCHANGED <<first, wrong, nodeVars, forwarder, gossip, channels>>

RecordOurHash ==
    /\ producer = "record"
    /\ our_hashes' = Recorded(height)
    /\ producer' = NextStage("record")
    /\ UNCHANGED <<first, wrong, height, attestations, halted, clears, forwarder, gossip,
                   channels>>

\* No other task records hashes, so that its look at them is one step with the
\* rest.
StoreOwn ==
    /\ producer = "store"
    /\ IF Recent(<<Me, height>>) /\ New(<<Me, height>>)
       THEN attestations' = Stored(<<Me, height>>) /\ producer' = NextStage("store")
       ELSE UNCHANGED attestations /\ producer' = "broadcast"
    /\ UNCHANGED <<first, wrong, height, our_hashes, halted, clears, forwarder, gossip,
                   channels>>

CheckOwn ==
    /\ producer = "check"
    /\ CheckDivergence(height)
    /\ producer' = NextStage("check")
    /\ UNCHANGED <<first, wrong, height, nodeVars, forwarder, gossip, broadcast, incoming>>

Broadcast ==
    /\ producer = "broadcast"
    /\ Len(broadcast) < Buffer
    /\ broadcast' = Append(broadcast, <<Me, height>>)
    /\ producer' = "idle"
    /\ UNCHANGED <<first, wrong, height, nodeVars, forwarder, gossip, incoming, alerts>>

-----------------------------------------------------------------------------
(* The gossip loop and the forwarder *)

\* A failed publish is only logged.
Publish ==
    /\ gossip = NoVote /\ broadcast # <<>>
    /\ broadcast' = Tail(broadcast)
    /\ UNCHANGED <<first, wrong, height, nodeVars, producer, forwarder, gossip, incoming,
                   alerts>>

\* A message of the network, which others may bring again.
TakeIn(vote) ==
    /\ gossip = NoVote
    /\ vote[1] # Me
    /\ gossip' = vote
    /\ UNCHANGED <<first, wrong, height, nodeVars, producer, forwarder, channels>>

\* The loop waits while the channel to the forwarder is full.
SendIncoming ==
    /\ gossip # NoVote
    /\ Len(incoming) < Buffer
    /\ incoming' = Append(incoming, gossip)
    /\ gossip' = NoVote
    /\ UNCHANGED <<first, wrong, height, nodeVars, producer, forwarder, broadcast, alerts>>

ForwarderRecv ==
    /\ forwarder.at = "recv" /\ incoming # <<>>
    /\ forwarder' = [at |-> "age", vote |-> Head(incoming)]
    /\ incoming' = Tail(incoming)
    /\ UNCHANGED <<first, wrong, height, nodeVars, producer, gossip, broadcast, alerts>>

\* The lock is dropped before the vote is stored: the producer may record a
\* hash in between.
ForwarderAge ==
    /\ forwarder.at = "age"
    /\ forwarder' = IF Recent(forwarder.vote) THEN [forwarder EXCEPT !.at = "store"]
                    ELSE [at |-> "recv", vote |-> NoVote]
    /\ UNCHANGED <<first, wrong, height, nodeVars, producer, gossip, channels>>

ForwarderStore ==
    /\ forwarder.at = "store"
    /\ IF New(forwarder.vote)
       THEN /\ attestations' = Stored(forwarder.vote)
            /\ forwarder' = [forwarder EXCEPT !.at = "check"]
       ELSE /\ UNCHANGED attestations
            /\ forwarder' = [at |-> "recv", vote |-> NoVote]
    /\ UNCHANGED <<first, wrong, height, our_hashes, halted, clears, producer, gossip, channels>>

ForwarderCheck ==
    /\ forwarder.at = "check"
    /\ CheckDivergence(forwarder.vote[2])
    /\ forwarder' = [at |-> "recv", vote |-> NoVote]
    /\ UNCHANGED <<first, wrong, height, nodeVars, producer, gossip, broadcast, incoming>>

-----------------------------------------------------------------------------
(* DivergenceHandler, with policy Halt and halt_only_on_minority *)

\* Mutant: a handler that has halted the node takes no more alerts.
Listening_UntilHalt == ~halted

Listening == TRUE

HandleAlert ==
    /\ Listening
    /\ alerts # <<>>
    /\ alerts' = Tail(alerts)
    /\ halted' = (halted \/ Head(alerts))
    /\ UNCHANGED <<first, wrong, height, our_hashes, attestations, clears, producer, forwarder,
                   gossip, broadcast, incoming>>

\* An operator clears the halt.
clear_halt ==
    /\ halted /\ clears < MaxClears
    /\ halted' = FALSE
    /\ clears' = clears + 1
    /\ UNCHANGED <<first, wrong, height, our_hashes, attestations, producer, forwarder, gossip,
                   channels>>

Producer == RecordOurHash \/ StoreOwn \/ CheckOwn \/ Broadcast
Gossip == Publish \/ SendIncoming
Forwarder == ForwarderRecv \/ ForwarderAge \/ ForwarderStore \/ ForwarderCheck

Next ==
    \/ ProduceBlock \/ Producer
    \/ Gossip \/ (\E vote \in Votes : TakeIn(vote))
    \/ Forwarder
    \/ HandleAlert
    \/ clear_halt

Spec == Init /\ [][Next]_vars

\* Every task runs when it can; the select of the gossip loop picks at random
\* among what is ready, so a message to publish is not passed over for ever.
FairSpec ==
    /\ Spec
    /\ WF_vars(Producer) /\ WF_vars(Forwarder) /\ WF_vars(HandleAlert)
    /\ WF_vars(SendIncoming) /\ SF_vars(Publish)

-----------------------------------------------------------------------------
(* Properties *)

TypeOK ==
    /\ height \in 0..MaxHeight /\ our_hashes \subseteq Heights /\ attestations \subseteq Votes
    /\ producer \in {"idle", "record", "store", "check", "broadcast"}
    /\ forwarder.at \in {"recv", "age", "store", "check"}
    /\ forwarder.vote \in Votes \cup {NoVote} /\ gossip \in Votes \cup {NoVote}
    /\ \A c \in {broadcast, incoming, alerts} : Len(c) <= Buffer
    /\ halted \in BOOLEAN /\ clears \in 0..MaxClears

\* A node that computes what more than two thirds of the power computes at
\* every height is not halted, whatever the others attest and in whatever order
\* it arrives.
MajorityNotHalted ==
    halted => \E h \in Heights :
        3 * PowerFor(Validators, h, Hash(Me, h)) <= 2 * Cardinality(Validators)

CheckPending(h) ==
    \/ producer = "check" /\ height = h
    \/ forwarder.at = "check" /\ forwarder.vote[2] = h

\* When the attestations of all validators for a height have come in, and the
\* hash of most of them is not the node's, then the node has halted or is about
\* to: no order of the node's own record, its own attestation and the others'
\* makes it miss the divergence.
MinorityHalts ==
    \A h \in our_hashes :
        (VotesAt(h) = Validators /\ Minority(h)) =>
            \/ halted \/ clears > 0
            \/ TRUE \in Range(alerts)
            \/ CheckPending(h)

\* The producer is never stuck behind full channels: every block it commits is
\* attested and sent.
EveryBlockIsSent == (producer # "idle") ~> (producer = "idle")
===============================================================================
