-------------------------- MODULE AttestationProofs --------------------------
(***************************************************************************)
(* The two safety properties of divergence handling, for any set of        *)
(* validators with one unit of power each, any channel sizes, retention    *)
(* and number of blocks, and any of the validators diverging.              *)
(*                                                                         *)
(* MajorityNotHalted rests on counting: of a quorum of 0.67 at most a      *)
(* third can vote against what more than two thirds compute.               *)
(* MinorityHalts rests on the order record, store, check of the producer:  *)
(* its own vote is in the collector only after its hash is, so whichever   *)
(* vote completes a height, its sender checks afterwards.                  *)
(***************************************************************************)
EXTENDS Attestation, FiniteSetTheorems, TLAPS

Types ==
    /\ first \in [Validators -> Nat] /\ wrong \in {0, 2}
    /\ height \in 0..MaxHeight
    /\ producer \in {"idle", "record", "store", "check", "broadcast"}
    /\ producer # "idle" => height > 0
    /\ forwarder \in [at : {"recv", "age", "store", "check"}, vote : Votes \cup {NoVote}]
    /\ alerts \in Seq(BOOLEAN)
    /\ our_hashes \subseteq Heights
    /\ clears \in Nat

\* The network brings the votes of others, and only a task at "recv" has none.
Foreign(vote) == vote \in Votes /\ vote[1] # Me
ForeignOnly ==
    /\ gossip # NoVote => Foreign(gossip)
    /\ incoming \in Seq(Votes) /\ \A i \in DOMAIN incoming : Foreign(incoming[i])
    /\ forwarder.at # "recv" => Foreign(forwarder.vote)

\* The node's own vote for a height comes after the record of its hash.
OwnLate ==
    \A g \in Heights :
        <<Me, g>> \in attestations =>
            g <= height /\ (producer \in {"record", "store"} => g < height)

\* What MajorityNotHalted says of a halted node.
NotMajority ==
    \E h \in Heights : 3 * PowerFor(Validators, h, Hash(Me, h)) <= 2 * Cardinality(Validators)

Alerted == \E i \in DOMAIN alerts : alerts[i] = TRUE

AlertsSound == Alerted \/ halted => NotMajority

\* MinorityHalts with the alert spelled out.
Noticed(h) == halted \/ clears > 0 \/ Alerted \/ CheckPending(h)
AllNoticed ==
    \A h \in our_hashes : (VotesAt(h) = Validators /\ Minority(h)) => Noticed(h)

AInv == Types /\ ForeignOnly /\ OwnLate /\ AlertsSound /\ AllNoticed

-----------------------------------------------------------------------------
(* Counting *)

LEMMA HashTyped ==
    ASSUME Types, NEW v, NEW h
    PROVE  Hash(v, h) \in {Right, wrong} /\ Hash(v, h) \in Int
BY DEF Types, Hash, Right

LEMMA Subsets ==
    ASSUME NEW S \in SUBSET Validators
    PROVE  IsFiniteSet(S) /\ Cardinality(S) \in Nat /\ Cardinality(S) <= Cardinality(Validators)
           /\ Cardinality(Validators) \in Nat
BY AttestationAssumption, FS_Subset, FS_CardinalityType

\* The parts of a finite set add up.
LEMMA PartsAddUp ==
    ASSUME NEW S, NEW A, NEW B, IsFiniteSet(A), IsFiniteSet(B), A \cap B = {}, A \cup B = S
    PROVE  Cardinality(S) = Cardinality(A) + Cardinality(B)
<1>1. Cardinality(A \cup B) = Cardinality(A) + Cardinality(B) - Cardinality(A \cap B)
  BY FS_Union
<1>2. Cardinality(A) \in Nat /\ Cardinality(B) \in Nat /\ Cardinality(A \cap B) = 0
  BY FS_CardinalityType, FS_EmptySet
<1> QED BY <1>1, <1>2

\* With more than two thirds of all power on the node's hash, every quorum has
\* that hash as its majority.
LEMMA CheckSound ==
    ASSUME Types, NEW h \in Heights, Diverged(h), Minority(h)
    PROVE  NotMajority
<1> DEFINE S == VotesAt(h)
           x == Hash(Me, h)
           A == {v \in Validators : Hash(v, h) = x}
           B == {v \in Validators : Hash(v, h) # x}
           C == {v \in S : Hash(v, h) = x}
           D == {v \in S : Hash(v, h) # x}
<1>1. SUFFICES ASSUME 3 * Cardinality(A) > 2 * Cardinality(Validators)
               PROVE  FALSE
  <2>1. Cardinality(A) \in Nat /\ Cardinality(Validators) \in Nat
    BY Subsets
  <2>2. PowerFor(Validators, h, x) = Cardinality(A)
    BY DEF PowerFor
  <2> QED BY <2>1, <2>2 DEF NotMajority
<1>2. S \in SUBSET Validators /\ 100 * Cardinality(S) >= 67 * Cardinality(Validators)
  BY DEF Diverged, Quorum, VotesAt
<1> HIDE DEF S
<1>3. Cardinality(Validators) = Cardinality(A) + Cardinality(B)
  <2>1. IsFiniteSet(A) /\ IsFiniteSet(B) /\ A \cap B = {} /\ A \cup B = Validators
    BY Subsets
  <2> QED BY <2>1, PartsAddUp
<1>4. Cardinality(S) = Cardinality(C) + Cardinality(D)
  <2>1. IsFiniteSet(C) /\ IsFiniteSet(D) /\ C \cap D = {} /\ C \cup D = S
    BY <1>2, Subsets
  <2> QED BY <2>1, PartsAddUp
<1>5. Cardinality(D) <= Cardinality(B)
  BY <1>2, Subsets, FS_Subset
<1>6. /\ Cardinality(A) \in Nat /\ Cardinality(B) \in Nat /\ Cardinality(C) \in Nat
      /\ Cardinality(D) \in Nat /\ Cardinality(S) \in Nat /\ Cardinality(Validators) \in Nat
  BY <1>2, Subsets
<1>7. Cardinality(C) > Cardinality(D)
  BY <1>1, <1>2, <1>3, <1>4, <1>5, <1>6
<1>8. C # {}
  BY <1>6, <1>7, FS_EmptySet
<1>9. x \in HashesOf(S, h)
  BY <1>8 DEF HashesOf
<1>10. ASSUME NEW y \in HashesOf(S, h), y # x
       PROVE  PowerFor(S, h, x) > PowerFor(S, h, y)
  <2> DEFINE E == {v \in S : Hash(v, h) = y}
  <2>1. E \subseteq D
    BY <1>10
  <2>2. Cardinality(E) \in Nat /\ Cardinality(E) <= Cardinality(D)
    BY <1>2, <2>1, Subsets, FS_Subset
  <2>3. PowerFor(S, h, x) = Cardinality(C) /\ PowerFor(S, h, y) = Cardinality(E)
    BY DEF PowerFor
  <2> HIDE DEF E, C, D
  <2> QED BY <1>6, <1>7, <2>2, <2>3
<1>11. \A y \in HashesOf(S, h) : PowerFor(S, h, y) \in Int
  BY <1>2, Subsets DEF PowerFor
<1>12. {z \in HashesOf(S, h) : \A y \in HashesOf(S, h) : PowerFor(S, h, z) >= PowerFor(S, h, y)}
         = {x}
  <2> HIDE DEF x
  <2> QED BY <1>9, <1>10, <1>11
<1>13. Max({x}) = x
  <2>1. x \in Int
    BY HashTyped
  <2> HIDE DEF x
  <2> QED BY <2>1 DEF Max
<1>14. MajorityHash(S, h) = x
  BY <1>12, <1>13 DEF MajorityHash
<1> QED BY <1>14 DEF Minority, S

\* Once everyone has voted, a node in the minority sees a divergence.
LEMMA AllVotedDiverged ==
    ASSUME Types, NEW h, VotesAt(h) = Validators, Minority(h)
    PROVE  Diverged(h)
<1> DEFINE HS == HashesOf(Validators, h)
           power == [z \in HS |-> PowerFor(Validators, h, z)]
           M == {z \in HS : \A y \in HS : power[z] >= power[y]}
<1>1. HS \subseteq {Right, wrong} /\ Hash(Me, h) \in HS
  BY HashTyped, AttestationAssumption DEF HashesOf
<1>2. Right \in Int /\ wrong \in Int /\ power \in [HS -> Nat]
  BY Subsets DEF Types, Right, PowerFor
<1>5. Max(M) \in M
  <2>1. HS \in SUBSET {Right, wrong} /\ HS # {}
    BY <1>1
  <2>2. PICK H, f, r, w, N : H = HS /\ f = power /\ r = Right /\ w = wrong /\ N = M
    OBVIOUS
  <2>3. N = {z \in H : \A y \in H : f[z] >= f[y]}
    <3> HIDE DEF HS, power
    <3> QED BY <2>2
  <2> HIDE DEF HS, power, M
  <2>4. r \in Int /\ w \in Int /\ H \in SUBSET {r, w} /\ H # {} /\ f \in [H -> Nat]
    BY <1>2, <2>1, <2>2
  <2>5. N # {} /\ N \subseteq {r, w}
    <3>1. \A z \in H : f[z] \in Nat
      BY <2>4
    <3>2. CASE H = {r}
      BY <2>3, <3>1, <3>2
    <3>3. CASE H = {w}
      BY <2>3, <3>1, <3>3
    <3>4. CASE H = {r, w}
      BY <2>3, <3>1, <3>4
    <3> QED BY <2>4, <3>2, <3>3, <3>4
  <2>6. \E z \in N : \A y \in N : z >= y
    <3>1. CASE N = {r}
      BY <2>4, <3>1
    <3>2. CASE N = {w}
      BY <2>4, <3>2
    <3>3. CASE N = {r, w}
      BY <2>4, <3>3
    <3> QED BY <2>5, <3>1, <3>2, <3>3
  <2>7. Max(N) \in N
    BY <2>6 DEF Max
  <2> QED BY <2>2, <2>7, Zenon
<1>6. MajorityHash(Validators, h) = Max(M)
  <2>1. M = {z \in HS : \A y \in HS : PowerFor(Validators, h, z) >= PowerFor(Validators, h, y)}
    <3> HIDE DEF HS
    <3> QED OBVIOUS
  <2> QED BY <2>1 DEF MajorityHash
<1>7. MajorityHash(Validators, h) \in HS /\ MajorityHash(Validators, h) # Hash(Me, h)
  BY <1>5, <1>6 DEF Minority
<1>8. PICK a, b : a \in HS /\ b \in HS /\ a # b
  BY <1>1, <1>7
<1>9. IsFiniteSet(HS)
  <2>1. IsFiniteSet({Right, wrong})
    <3>1. {Right, wrong} = {Right} \cup {wrong}
      OBVIOUS
    <3>2. IsFiniteSet({Right}) /\ IsFiniteSet({wrong})
      BY FS_Singleton, Zenon
    <3>3. IsFiniteSet({Right} \cup {wrong})
      BY <3>2, FS_Union, Zenon
    <3> QED BY <3>1, <3>3, Zenon
  <2> QED BY <1>1, <2>1, FS_Subset
<1>10. Cardinality(HS) > 1
  <2>1. IsFiniteSet({b}) /\ Cardinality({b}) = 1
    BY FS_Singleton
  <2>2. Cardinality({a, b}) = 2
    <3>1. {a, b} = {b} \cup {a} /\ a \notin {b}
      BY <1>8
    <3> QED BY <2>1, <3>1, FS_AddElement
  <2>3. Cardinality({a, b}) <= Cardinality(HS) /\ Cardinality(HS) \in Nat
    BY <1>8, <1>9, FS_Subset, FS_CardinalityType
  <2> QED BY <2>2, <2>3
<1>11. Quorum(Validators)
  BY Subsets DEF Quorum
<1> QED BY <1>10, <1>11 DEF Diverged, HS

-----------------------------------------------------------------------------
(* The invariant is inductive *)

\* What only the hashes of the validators decide stays decided.
LEMMA NotMajorityStays ==
    ASSUME NotMajority, UNCHANGED <<first, wrong>>
    PROVE  NotMajority'
BY DEF NotMajority, PowerFor, Hash

\* A check only adds to the alerts, and the alert it adds says that the node
\* is in the minority if and only if the node is.
LEMMA CheckAppends ==
    ASSUME Types, NEW h, CheckDivergence(h)
    PROVE  /\ alerts' \in Seq(BOOLEAN)
           /\ Alerted => Alerted'
           /\ Alerted' => Alerted \/ (Diverged(h) /\ Minority(h))
           /\ Diverged(h) /\ Minority(h) => Alerted'
<1>1. alerts \in Seq(BOOLEAN)
  BY DEF Types
<1>2. CASE ~Diverged(h)
  BY <1>1, <1>2 DEF CheckDivergence, Alerted
<1>3. CASE Diverged(h)
  <2>1. PICK b \in BOOLEAN : b = Minority(h)
    BY Zenon DEF Minority
  <2>2. alerts' = Append(alerts, b)
    BY <1>3, <2>1 DEF CheckDivergence
  <2>3. alerts' \in Seq(BOOLEAN)
    BY <1>1, <2>2
  <2>4. /\ DOMAIN alerts = 1..Len(alerts) /\ DOMAIN alerts' = 1..(Len(alerts) + 1)
        /\ Len(alerts) \in Nat /\ alerts'[Len(alerts) + 1] = b
        /\ \A i \in 1..Len(alerts) : alerts'[i] = alerts[i]
    BY <1>1, <2>2
  <2>5. Alerted => Alerted'
    BY <2>4 DEF Alerted
  <2>6. Alerted' => Alerted \/ b = TRUE
    BY <2>4 DEF Alerted
  <2>7. b = TRUE => Alerted'
    <3>1. Len(alerts) + 1 \in DOMAIN alerts'
      BY <2>4
    <3> QED BY <2>4, <3>1, Zenon DEF Alerted
  <2> QED BY <1>3, <2>1, <2>3, <2>5, <2>6, <2>7
<1> QED BY <1>2, <1>3

\* The handler takes the first alert and leaves the others.
LEMMA HandlerTakes ==
    ASSUME Types, HandleAlert
    PROVE  /\ alerts' \in Seq(BOOLEAN)
           /\ Alerted' => Alerted
           /\ halted' => halted \/ Alerted
           /\ Alerted => Alerted' \/ halted'
           /\ halted => halted'
<1>1. alerts \in Seq(BOOLEAN) /\ alerts # <<>> /\ alerts' = Tail(alerts)
  BY DEF Types, HandleAlert
<1>2. /\ alerts' \in Seq(BOOLEAN) /\ Head(alerts) \in BOOLEAN /\ Len(alerts) \in Nat
      /\ DOMAIN alerts = 1..Len(alerts) /\ DOMAIN alerts' = 1..(Len(alerts) - 1)
      /\ Head(alerts) = alerts[1] /\ Len(alerts) > 0
      /\ \A i \in 1..(Len(alerts) - 1) : alerts'[i] = alerts[i + 1]
  BY <1>1
<1>3. PICK b \in BOOLEAN : b = Head(alerts)
  BY <1>2
<1>4. halted' = (halted \/ b)
  BY <1>3 DEF HandleAlert
<1>5. Alerted' => Alerted
  BY <1>2 DEF Alerted
<1>6. b = TRUE => Alerted
  BY <1>2, <1>3 DEF Alerted
<1>7. Alerted => Alerted' \/ b = TRUE
  <2>1. SUFFICES ASSUME NEW i \in DOMAIN alerts, alerts[i] = TRUE, i # 1 PROVE Alerted'
    BY <1>2, <1>3 DEF Alerted
  <2>2. i - 1 \in DOMAIN alerts' /\ alerts'[i - 1] = TRUE
    BY <1>2, <2>1
  <2> QED BY <2>2 DEF Alerted
<1> QED BY <1>2, <1>3, <1>4, <1>5, <1>6, <1>7

LEMMA InitEstablishes == Init => AInv
<1>1. SUFFICES ASSUME Init PROVE AInv
  OBVIOUS
<1>2. Types
  BY <1>1, AttestationAssumption DEF Init, Types
<1>3. ForeignOnly
  BY <1>1 DEF Init, ForeignOnly
<1>4. OwnLate /\ AlertsSound /\ AllNoticed
  BY <1>1 DEF Init, OwnLate, AlertsSound, Alerted, AllNoticed
<1> QED BY <1>2, <1>3, <1>4 DEF AInv

\* Types is preserved.
LEMMA TypesStep ==
    ASSUME AInv, [Next]_vars
    PROVE  Types'
<1>1. CASE ProduceBlock
  BY <1>1, AttestationAssumption
  DEF ProduceBlock, AInv, Types, ForeignOnly, NextStage, nodeVars, channels
<1>2. CASE RecordOurHash
  BY <1>2, AttestationAssumption
  DEF RecordOurHash, Recorded, Heights, AInv, Types, NextStage, channels
<1>3. CASE StoreOwn
  BY <1>3, AttestationAssumption
  DEF StoreOwn, AInv, Types, ForeignOnly, NextStage, nodeVars, channels
<1>4. CASE CheckOwn
  BY <1>4, CheckAppends DEF CheckOwn, AInv, Types, NextStage, nodeVars
<1>5. CASE Broadcast
  BY <1>5, AttestationAssumption
  DEF Broadcast, AInv, Types, ForeignOnly, NextStage, nodeVars, channels
<1>6. CASE Publish
  BY <1>6, AttestationAssumption
  DEF Publish, AInv, Types, ForeignOnly, NextStage, nodeVars, channels
<1>7. CASE \E vote \in Votes : TakeIn(vote)
  BY <1>7, AttestationAssumption
  DEF TakeIn, AInv, Types, ForeignOnly, NextStage, nodeVars, channels
<1>8. CASE SendIncoming
  BY <1>8, AttestationAssumption
  DEF SendIncoming, AInv, Types, ForeignOnly, NextStage, nodeVars, channels
<1>9. CASE ForwarderRecv
  BY <1>9, AttestationAssumption
  DEF ForwarderRecv, AInv, Types, ForeignOnly, NextStage, nodeVars, channels
<1>10. CASE ForwarderStore
  BY <1>10, AttestationAssumption, SMTT(40)
  DEF ForwarderStore, AInv, Types, ForeignOnly, NextStage, nodeVars, channels
<1>15. CASE ForwarderAge
  BY <1>15, AttestationAssumption
  DEF ForwarderAge, AInv, Types, ForeignOnly, NextStage, nodeVars, channels
<1>11. CASE ForwarderCheck
  BY <1>11, CheckAppends DEF ForwarderCheck, AInv, Types, nodeVars
<1>12. CASE HandleAlert
  BY <1>12, HandlerTakes DEF HandleAlert, AInv, Types
<1>13. CASE clear_halt
  BY <1>13, AttestationAssumption
  DEF clear_halt, AInv, Types, ForeignOnly, NextStage, nodeVars, channels
<1>14. CASE UNCHANGED vars
  BY <1>14, AttestationAssumption DEF AInv, Types, nodeVars, channels, vars
<1> QED BY <1>1, <1>2, <1>3, <1>4, <1>5, <1>6, <1>7,
          <1>8, <1>9, <1>10, <1>11, <1>12, <1>13, <1>14, <1>15
   DEF Next, Producer, Gossip, Forwarder

\* What a task holds and what waits in the channel are votes of others.
LEMMA ForeignStep ==
    ASSUME AInv, [Next]_vars
    PROVE  ForeignOnly'
<1> USE DEF AInv, ForeignOnly, Foreign
<1>1. CASE UNCHANGED <<gossip, incoming, forwarder>>
  BY <1>1
<1>2. CASE \E vote \in Votes : TakeIn(vote)
  BY <1>2 DEF TakeIn, channels
<1>3. CASE SendIncoming
  <2>1. incoming' = Append(incoming, gossip) /\ gossip' = NoVote /\ UNCHANGED forwarder
    BY <1>3 DEF SendIncoming
  <2>2. Foreign(gossip)
    BY <1>3 DEF SendIncoming
  <2> QED BY <2>1, <2>2
<1>4. CASE ForwarderRecv
  <2>1. /\ incoming # <<>> /\ incoming' = Tail(incoming) /\ UNCHANGED gossip
        /\ forwarder' = [at |-> "age", vote |-> Head(incoming)]
    BY <1>4 DEF ForwarderRecv
  <2>2. Foreign(Head(incoming))
    BY <2>1
  <2>3. incoming' \in Seq(Votes) /\ \A i \in DOMAIN incoming' : Foreign(incoming'[i])
    BY <2>1
  <2> QED BY <2>1, <2>2, <2>3
<1>5. CASE ForwarderStore
  BY <1>5 DEF ForwarderStore, channels, Types
<1>6. CASE ForwarderCheck
  BY <1>6 DEF ForwarderCheck
<1>8. CASE ForwarderAge
  BY <1>8 DEF ForwarderAge, channels, Types
<1>7. ProduceBlock \/ Producer \/ Publish \/ HandleAlert \/ clear_halt \/ UNCHANGED vars
        => UNCHANGED <<gossip, incoming, forwarder>>
  BY DEF ProduceBlock, Producer, RecordOurHash, StoreOwn, CheckOwn, Broadcast, Publish,
         HandleAlert, clear_halt, channels, vars
<1> QED BY <1>1, <1>2, <1>3, <1>4, <1>5, <1>6, <1>7, <1>8 DEF Next, Gossip, Forwarder

\* The node's own vote is stored after the record of the hash of its height.
LEMMA OwnLateStep ==
    ASSUME AInv, [Next]_vars
    PROVE  OwnLate'
<1> USE DEF AInv, OwnLate, Types
<1>1. CASE UNCHANGED <<attestations, height, producer>>
  BY <1>1
<1>2. CASE ProduceBlock
  BY <1>2 DEF ProduceBlock, NextStage, nodeVars, Heights
<1>3. CASE RecordOurHash
  BY <1>3 DEF RecordOurHash, NextStage
<1>4. CASE StoreOwn
  <2>1. /\ \A w \in attestations' : w \in attestations \/ w = <<Me, height>>
        /\ UNCHANGED height /\ producer' \notin {"record", "store"}
    BY <1>4 DEF StoreOwn, Stored, NextStage
  <2> QED BY <2>1
<1>5. CASE CheckOwn \/ Broadcast
  BY <1>5 DEF CheckOwn, Broadcast, NextStage, nodeVars
<1>6. CASE ForwarderStore
  <2>1. /\ \A w \in attestations' : w \in attestations \/ w = forwarder.vote
        /\ UNCHANGED <<height, producer>> /\ forwarder.at = "store"
    BY <1>6 DEF ForwarderStore, Stored
  <2>2. forwarder.vote[1] # Me
    BY <2>1 DEF ForeignOnly, Foreign
  <2> QED BY <2>1, <2>2
<1>7. /\ Gossip \/ (\E vote \in Votes : TakeIn(vote)) \/ ForwarderRecv \/ ForwarderAge \/ ForwarderCheck
         => UNCHANGED <<attestations, height, producer>>
      /\ HandleAlert \/ clear_halt \/ UNCHANGED vars
         => UNCHANGED <<attestations, height, producer>>
  BY DEF Gossip, Publish, SendIncoming, TakeIn, ForwarderRecv, ForwarderAge, ForwarderCheck,
         HandleAlert, clear_halt, nodeVars, vars
<1> QED BY <1>1, <1>2, <1>3, <1>4, <1>5, <1>6, <1>7 DEF Next, Producer, Forwarder

\* The height a task checks is one of the heights.
LEMMA CheckedHeights ==
    ASSUME AInv
    PROVE  /\ producer = "check" => height \in Heights
           /\ forwarder.at = "check" => forwarder.vote[2] \in Heights
BY AttestationAssumption DEF AInv, Types, ForeignOnly, Foreign, Votes, Heights

\* No step changes what the validators compute.
LEMMA HashesFixed ==
    ASSUME [Next]_vars
    PROVE  UNCHANGED <<first, wrong>>
BY DEF Next, ProduceBlock, Producer, RecordOurHash, StoreOwn, CheckOwn, Broadcast, Gossip,
       Publish, SendIncoming, TakeIn, Forwarder, ForwarderRecv, ForwarderAge, ForwarderStore,
       ForwarderCheck, HandleAlert, clear_halt, vars

\* An alert that halts a node is true of it.
LEMMA AlertsSoundStep ==
    ASSUME AInv, [Next]_vars
    PROVE  AlertsSound'
<1>1. UNCHANGED <<first, wrong>>
  BY HashesFixed
<1>2. NotMajority => NotMajority'
  BY <1>1, NotMajorityStays
<1>3. SUFFICES Alerted' \/ halted' => NotMajority
  BY <1>2 DEF AlertsSound
<1>4. Alerted \/ halted => NotMajority
  BY DEF AInv, AlertsSound
<1>5. CASE UNCHANGED <<alerts, halted>>
  BY <1>4, <1>5 DEF Alerted
<1>6. ASSUME NEW h \in Heights, CheckDivergence(h), UNCHANGED halted
      PROVE  Alerted' \/ halted' => NotMajority
  BY <1>4, <1>6, CheckAppends, CheckSound DEF AInv
<1>7. CASE CheckOwn
  BY <1>6, <1>7, CheckedHeights DEF CheckOwn, nodeVars
<1>8. CASE ForwarderCheck
  BY <1>6, <1>8, CheckedHeights DEF ForwarderCheck, nodeVars
<1>9. CASE HandleAlert
  BY <1>4, <1>9, HandlerTakes DEF AInv
<1>10. CASE clear_halt
  BY <1>4, <1>10 DEF clear_halt, channels, Alerted
<1>11. /\ ProduceBlock \/ RecordOurHash \/ StoreOwn \/ Broadcast \/ Gossip
          => UNCHANGED <<alerts, halted>>
       /\ (\E vote \in Votes : TakeIn(vote)) \/ ForwarderRecv \/ ForwarderAge \/ ForwarderStore
          => UNCHANGED <<alerts, halted>>
       /\ UNCHANGED vars => UNCHANGED <<alerts, halted>>
  BY DEF ProduceBlock, RecordOurHash, StoreOwn, Broadcast, Gossip, Publish, SendIncoming,
         TakeIn, ForwarderRecv, ForwarderAge, ForwarderStore, nodeVars, channels, vars
<1> QED BY <1>5, <1>7, <1>8, <1>9, <1>10, <1>11 DEF Next, Producer, Forwarder

\* With the votes of a height unchanged, so is the verdict on it.
LEMMA SameVerdict ==
    ASSUME UNCHANGED <<first, wrong>>, NEW h, h \in our_hashes, VotesAt(h)' = VotesAt(h),
           Minority(h)'
    PROVE  Minority(h)
<1>1. \A v : Hash(v, h)' = Hash(v, h)
  BY DEF Hash
<1>2. MajorityHash(VotesAt(h), h)' = MajorityHash(VotesAt(h), h)
  BY <1>1 DEF MajorityHash, HashesOf, PowerFor, Hash
<1> QED BY <1>1, <1>2 DEF Minority

\* Storing a vote completes no height but the vote's own.
LEMMA OnlyItsHeight ==
    ASSUME NEW vote, attestations' = Stored(vote), NEW h, VotesAt(h)' = Validators
    PROVE  h = vote[2] \/ VotesAt(h) = Validators
BY DEF Stored, VotesAt

\* No divergence that all have voted on is missed.
LEMMA AllNoticedStep ==
    ASSUME AInv, [Next]_vars
    PROVE  AllNoticed'
<1>1. SUFFICES ASSUME NEW h \in our_hashes', VotesAt(h)' = Validators, Minority(h)'
               PROVE  Noticed(h)'
  BY DEF AllNoticed
<1>2. ASSUME h \in our_hashes, VotesAt(h) = Validators
      PROVE  Minority(h) /\ Noticed(h)
  <2>1. Minority(h)
    BY <1>1, <1>2, HashesFixed, SameVerdict
  <2> QED BY <1>2, <2>1 DEF AInv, AllNoticed
<1>3. CASE /\ UNCHANGED <<our_hashes, attestations, alerts, halted, clears>>
           /\ CheckPending(h) => CheckPending(h)'
  <2>1. VotesAt(h) = Validators
    BY <1>1, <1>3 DEF VotesAt
  <2>2. Noticed(h)
    BY <1>1, <1>2, <1>3, <2>1
  <2> QED BY <1>3, <2>2 DEF Noticed, Alerted
<1>4. CASE RecordOurHash
  <2>1. VotesAt(h) = Validators
    BY <1>1, <1>4 DEF RecordOurHash, VotesAt
  <2>2. h # height
    <3>1. SUFFICES ASSUME h = height PROVE FALSE
      OBVIOUS
    <3>2. <<Me, height>> \in attestations
      BY <2>1, <3>1, AttestationAssumption DEF VotesAt
    <3>3. height \in Heights /\ producer = "record"
      BY <1>4, AttestationAssumption DEF RecordOurHash, AInv, Types, Heights
    <3> QED BY <3>2, <3>3 DEF AInv, OwnLate, Types
  <2>3. h \in our_hashes
    BY <1>1, <1>4, <2>2 DEF RecordOurHash, Recorded
  <2>4. Noticed(h)
    BY <1>2, <2>1, <2>3
  <2> QED BY <1>4, <2>4
      DEF RecordOurHash, NextStage, Noticed, Alerted, CheckPending, channels
<1>5. CASE StoreOwn
  <2>1. CASE ~(Recent(<<Me, height>>) /\ New(<<Me, height>>))
    BY <1>3, <1>5, <2>1 DEF StoreOwn, CheckPending, channels
  <2>2. CASE Recent(<<Me, height>>) /\ New(<<Me, height>>)
    <3>1. /\ attestations' = Stored(<<Me, height>>) /\ producer' = "check"
          /\ producer = "store"
          /\ UNCHANGED <<height, our_hashes, halted, clears, forwarder, alerts>>
      BY <1>5, <2>2 DEF StoreOwn, NextStage, channels
    <3>2. CASE h = height
      BY <3>1, <3>2 DEF Noticed, CheckPending
    <3>3. CASE h # height
      <4>1. VotesAt(h) = Validators
        BY <1>1, <3>1, <3>3, OnlyItsHeight
      <4>2. Noticed(h)
        BY <1>1, <1>2, <3>1, <4>1
      <4> QED BY <3>1, <4>2 DEF Noticed, CheckPending, Alerted
    <3> QED BY <3>2, <3>3
  <2> QED BY <2>1, <2>2
<1>6. CASE ForwarderStore
  <2> DEFINE vote == forwarder.vote
  <2>1. CASE ~New(vote)
    BY <1>3, <1>6, <2>1 DEF ForwarderStore, CheckPending, channels
  <2>2. CASE New(vote)
    <3>1. /\ attestations' = Stored(vote) /\ forwarder'.at = "check" /\ forwarder'.vote = vote
          /\ forwarder.at = "store"
          /\ UNCHANGED <<height, our_hashes, halted, clears, producer, alerts>>
      BY <1>6, <2>2 DEF ForwarderStore, channels, AInv, Types
    <3> HIDE DEF vote
    <3>2. CASE h = vote[2]
      BY <3>1, <3>2 DEF Noticed, CheckPending
    <3>3. CASE h # vote[2]
      <4>1. VotesAt(h) = Validators
        BY <1>1, <3>1, <3>3, OnlyItsHeight
      <4>2. Noticed(h)
        BY <1>1, <1>2, <3>1, <4>1
      <4> QED BY <3>1, <4>2 DEF Noticed, CheckPending, Alerted
    <3> QED BY <3>2, <3>3
  <2> QED BY <2>1, <2>2
<1>7. ASSUME NEW g, CheckDivergence(g), UNCHANGED <<our_hashes, attestations, halted, clears>>,
             CheckPending(h) => CheckPending(h)' \/ g = h
      PROVE  Noticed(h)'
  <2>1. VotesAt(h) = Validators
    BY <1>1, <1>7 DEF VotesAt
  <2>2. Minority(h) /\ Noticed(h)
    BY <1>1, <1>2, <1>7, <2>1
  <2>3. Types /\ Diverged(h)
    BY <2>1, <2>2, AllVotedDiverged DEF AInv
  <2>4. (Alerted => Alerted') /\ (g = h => Alerted')
    BY <1>7, <2>2, <2>3, CheckAppends
  <2> QED BY <1>7, <2>2, <2>4 DEF Noticed
<1>8. CASE CheckOwn
  <2>1. /\ CheckDivergence(height) /\ producer' = "broadcast"
        /\ UNCHANGED <<our_hashes, attestations, halted, clears, forwarder>>
    BY <1>8 DEF CheckOwn, NextStage, nodeVars
  <2>2. CheckPending(h) => CheckPending(h)' \/ height = h
    BY <2>1 DEF CheckPending
  <2> QED BY <1>7, <2>1, <2>2
<1>9. CASE ForwarderCheck
  <2>1. /\ CheckDivergence(forwarder.vote[2])
        /\ UNCHANGED <<our_hashes, attestations, halted, clears, height, producer>>
    BY <1>9 DEF ForwarderCheck, nodeVars
  <2>2. CheckPending(h) => CheckPending(h)' \/ forwarder.vote[2] = h
    BY <2>1 DEF CheckPending
  <2> QED BY <1>7, <2>1, <2>2
<1>10. CASE HandleAlert
  <2>1. UNCHANGED <<our_hashes, attestations, clears, height, producer, forwarder>>
    BY <1>10 DEF HandleAlert
  <2>2. VotesAt(h) = Validators
    BY <1>1, <2>1 DEF VotesAt
  <2>3. Noticed(h)
    BY <1>1, <1>2, <2>1, <2>2
  <2>4. Alerted \/ halted => Alerted' \/ halted'
    BY <1>10, HandlerTakes DEF AInv
  <2> QED BY <2>1, <2>3, <2>4 DEF Noticed, CheckPending
<1>11. CASE clear_halt
  BY <1>11 DEF clear_halt, Noticed, AInv, Types
<1>12. CASE ProduceBlock \/ Broadcast
  BY <1>3, <1>12 DEF ProduceBlock, Broadcast, NextStage, CheckPending, nodeVars, channels
<1>13. CASE Gossip \/ (\E vote \in Votes : TakeIn(vote)) \/ ForwarderRecv \/ ForwarderAge
  BY <1>3, <1>13 DEF Gossip, Publish, SendIncoming, TakeIn, ForwarderRecv, ForwarderAge,
                     CheckPending, nodeVars, channels
<1>14. CASE UNCHANGED vars
  BY <1>3, <1>14 DEF vars, CheckPending, nodeVars, channels
<1> QED BY <1>4, <1>5, <1>6, <1>8, <1>9, <1>10, <1>11, <1>12, <1>13, <1>14
        DEF Next, Producer, Forwarder

-----------------------------------------------------------------------------
(* The theorems *)

LEMMA InvariantHolds == Spec => []AInv
<1>1. AInv /\ [Next]_vars => AInv'
  BY TypesStep, ForeignStep, OwnLateStep, AlertsSoundStep, AllNoticedStep DEF AInv
<1> QED BY InitEstablishes, <1>1, PTL DEF Spec

\* A node that computes what more than two thirds of the power computes is never
\* halted by divergence_handler.rs, for any number of validators, any order of
\* the attestations and any of the tasks.
THEOREM MajorityRuns == Spec => []MajorityNotHalted
<1>1. AInv => MajorityNotHalted
  BY DEF AInv, AlertsSound, NotMajority, MajorityNotHalted
<1> QED BY <1>1, InvariantHolds, PTL

\* A divergence of the node from most of the others that all have voted on is
\* checked, alerted or has halted the node: the order record, store, check of
\* the collector's callers loses none.
THEOREM MinorityIsNoticed == Spec => []MinorityHalts
<1>1. AInv => MinorityHalts
  <2>1. Alerted => TRUE \in Range(alerts)
    BY Zenon DEF Alerted, Range
  <2> QED BY <2>1, Zenon DEF AInv, AllNoticed, Noticed, MinorityHalts
<1> QED BY <1>1, InvariantHolds, PTL
=============================================================================
