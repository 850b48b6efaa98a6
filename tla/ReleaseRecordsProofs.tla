-------------------------- MODULE ReleaseRecordsProofs --------------------------
(***************************************************************************)
(* Proofs about ReleaseRecords, for any addresses, subgroups and bounds.   *)
(* The three invariants are inductive together.                            *)
(***************************************************************************)
EXTENDS ReleaseRecords, TLAPS

USE BoundAssumption

RInv == RTypeOK /\ TokensBacked /\ NothingAhead

LEMMA RaiseToIs ==
  ASSUME NEW old \in Nat, NEW new \in Nat
  PROVE  /\ RaiseTo(old, new) >= old
         /\ RaiseTo(old, new) \in {old, new}
BY DEF RaiseTo

LEMMA RInitInv == RInit => RInv
<1> SUFFICES ASSUME RInit
             PROVE  RInv
  OBVIOUS
<1>1. \A c, p \in Subgroup : acquired_token[c][p] = 0
  BY DEF RInit, NoTokens
<1>2. RTypeOK
  BY DEF RInit, RTypeOK, NoTokens, Epoch
<1>3. TokensBacked
  BY <1>1 DEF TokensBacked
<1>4. NothingAhead
  BY <1>1 DEF RInit, NothingAhead
<1> QED BY <1>2, <1>3, <1>4 DEF RInv

LEMMA ReleaseInv ==
  ASSUME RInv, NEW a \in Address, NEW p \in Subgroup, NEW e \in Epoch, Release(a, p, e)
  PROVE  RInv'
<1>1. /\ e <= subgroup_epoch /\ UNCHANGED <<generation, subgroup_epoch, acquired_token>>
      /\ released' = released \cup ({a} \X {p} \X (0 .. e))
  BY DEF Release
<1>2. {a} \X {p} \X (0 .. e) \subseteq Address \X Subgroup \X Epoch
  BY DEF Epoch
<1>3. RTypeOK'
  BY <1>1, <1>2 DEF RInv, RTypeOK
<1>4. TokensBacked'
  BY <1>1 DEF RInv, TokensBacked
<1>5. NothingAhead'
  <2>1. ASSUME NEW b \in Address, NEW q \in Subgroup, NEW f \in Epoch,
               <<b, q, f>> \in released'
        PROVE  f <= subgroup_epoch
    <3>1. CASE <<b, q, f>> \in released
      BY <3>1 DEF RInv, NothingAhead
    <3>2. CASE <<b, q, f>> \in {a} \X {p} \X (0 .. e)
      BY <1>1, <3>2 DEF RInv, RTypeOK, Epoch
    <3> QED BY <1>1, <2>1, <3>1, <3>2
  <2> QED BY <1>1, <2>1 DEF RInv, NothingAhead
<1> QED BY <1>3, <1>4, <1>5 DEF RInv

LEMMA ImportInv ==
  ASSUME RInv, NEW c \in Subgroup, NEW p \in Subgroup, NEW a \in Address, Import(c, p, a)
  PROVE  RInv'
<1>1. PICK e \in Epoch :
        /\ <<a, p, e>> \in released
        /\ acquired_token' =
             [acquired_token EXCEPT ![c][p] = RaiseTo(acquired_token[c][p], e + 1)]
  BY DEF Import, RInv, RTypeOK
<1>2. UNCHANGED <<generation, subgroup_epoch, released>>
  BY DEF Import
<1>3. /\ acquired_token \in [Subgroup -> [Subgroup -> 0 .. MaxEpoch + 1]]
      /\ acquired_token[c][p] \in Nat /\ e + 1 \in 0 .. MaxEpoch + 1 /\ e \in Nat
  BY DEF RInv, RTypeOK, Epoch
<1>4. RaiseTo(acquired_token[c][p], e + 1) \in {acquired_token[c][p], e + 1}
  BY <1>3, RaiseToIs
<1>5. acquired_token' \in [Subgroup -> [Subgroup -> 0 .. MaxEpoch + 1]]
  BY <1>1, <1>3, <1>4
<1>6. \A d, q \in Subgroup :
        acquired_token'[d][q] = acquired_token[d][q] \/
        (q = p /\ acquired_token'[d][q] = e + 1)
  BY <1>1, <1>3, <1>4
<1>7. RTypeOK'
  BY <1>2, <1>5 DEF RInv, RTypeOK
<1>8. TokensBacked'
  <2>1. ASSUME NEW d \in Subgroup, NEW q \in Subgroup, acquired_token'[d][q] > 0
        PROVE  \E b \in Address : <<b, q, acquired_token'[d][q] - 1>> \in released
    <3>1. CASE acquired_token'[d][q] = acquired_token[d][q]
      BY <2>1, <3>1 DEF RInv, TokensBacked
    <3>2. CASE q = p /\ acquired_token'[d][q] = e + 1
      <4>1. acquired_token'[d][q] - 1 = e
        BY <1>3, <3>2
      <4> QED BY <1>1, <3>2, <4>1
    <3> QED BY <1>6, <3>1, <3>2
  <2> QED BY <1>2, <2>1 DEF TokensBacked
<1>9. NothingAhead'
  <2>1. e + 1 <= subgroup_epoch + 1
    BY <1>1, <1>3 DEF RInv, NothingAhead, RTypeOK, Epoch
  <2>2. \A d, q \in Subgroup : acquired_token'[d][q] <= subgroup_epoch + 1
    BY <1>6, <2>1 DEF RInv, NothingAhead
  <2> QED BY <1>2, <2>2 DEF RInv, NothingAhead
<1> QED BY <1>7, <1>8, <1>9 DEF RInv

LEMMA BarrierInv ==
  ASSUME RInv, Barrier
  PROVE  RInv'
<1>1. /\ subgroup_epoch' = subgroup_epoch + 1 /\ subgroup_epoch < MaxEpoch
      /\ subgroup_epoch \in Nat /\ UNCHANGED <<generation, released, acquired_token>>
  BY DEF Barrier, RInv, RTypeOK, Epoch
<1>2. RTypeOK'
  <2>1. subgroup_epoch' \in 0 .. MaxEpoch
    BY <1>1
  <2> QED BY <1>1, <2>1 DEF RInv, RTypeOK, Epoch
<1>3. TokensBacked'
  BY <1>1 DEF RInv, TokensBacked
<1>4. NothingAhead'
  <2>1. \A c, p \in Subgroup : acquired_token[c][p] \in Nat
    BY DEF RInv, RTypeOK
  <2> QED BY <1>1, <2>1 DEF RInv, NothingAhead, Epoch
<1> QED BY <1>2, <1>3, <1>4 DEF RInv

LEMMA LaunchInv ==
  ASSUME RInv, Launch
  PROVE  RInv'
<1>1. /\ generation' = generation + 1 /\ generation < MaxLaunch /\ subgroup_epoch' = 0
      /\ released' = {} /\ acquired_token' = NoTokens
  BY DEF Launch
<1>2. \A c, p \in Subgroup : acquired_token'[c][p] = 0
  BY <1>1 DEF NoTokens
<1>3. RTypeOK'
  BY <1>1 DEF RInv, RTypeOK, NoTokens, Epoch
<1>4. TokensBacked' /\ NothingAhead'
  BY <1>1, <1>2 DEF TokensBacked, NothingAhead
<1> QED BY <1>3, <1>4 DEF RInv

LEMMA RNextInv == RInv /\ [RNext]_rvars => RInv'
<1> SUFFICES ASSUME RInv, [RNext]_rvars
             PROVE  RInv'
  OBVIOUS
<1>1. CASE \E a \in Address, p \in Subgroup, e \in Epoch : Release(a, p, e)
  BY <1>1, ReleaseInv
<1>2. CASE \E c, p \in Subgroup, a \in Address : Import(c, p, a)
  BY <1>2, ImportInv
<1>3. CASE Barrier
  BY <1>3, BarrierInv
<1>4. CASE Launch
  BY <1>4, LaunchInv
<1>5. CASE UNCHANGED rvars
  BY <1>5 DEF rvars, RInv, RTypeOK, TokensBacked, NothingAhead
<1> QED BY <1>1, <1>2, <1>3, <1>4, <1>5 DEF RNext

THEOREM RInvariance == RSpec => []RInv
<1> QED BY RInitInv, RNextInv, PTL DEF RSpec

\* No acquire ever invents an epoch: every token is one more than an epoch its
\* producer released in this launch (context.hpp:966-983).
THEOREM EveryTokenBacked == RSpec => []TokensBacked
<1>1. RInv => TokensBacked
  BY DEF RInv
<1> QED BY <1>1, RInvariance, PTL

\* No release and no token is ahead of the workgroup's epoch.
THEOREM NothingIsAhead == RSpec => []NothingAhead
<1>1. RInv => NothingAhead
  BY DEF RInv
<1> QED BY <1>1, RInvariance, PTL

\* Inside a launch no step lowers a token.
LEMMA StepRaises ==
  ASSUME RInv, [RNext]_rvars, generation' = generation,
         NEW c \in Subgroup, NEW p \in Subgroup
  PROVE  acquired_token'[c][p] >= acquired_token[c][p]
<1>1. /\ acquired_token \in [Subgroup -> [Subgroup -> 0 .. MaxEpoch + 1]]
      /\ generation \in Nat
  BY DEF RInv, RTypeOK
<1>2. CASE acquired_token' = acquired_token
  BY <1>1, <1>2
<1>3. CASE \E d, q \in Subgroup, a \in Address : Import(d, q, a)
  <2>1. PICK d \in Subgroup, q \in Subgroup, e \in Epoch :
          acquired_token' =
            [acquired_token EXCEPT ![d][q] = RaiseTo(acquired_token[d][q], e + 1)]
    BY <1>1, <1>3 DEF Import
  <2>2. acquired_token[d][q] \in Nat /\ e + 1 \in Nat
    BY <1>1 DEF Epoch
  <2>3. RaiseTo(acquired_token[d][q], e + 1) >= acquired_token[d][q]
    BY <2>2, RaiseToIs
  <2> QED BY <1>1, <2>1, <2>3
<1> QED BY <1>1, <1>2, <1>3 DEF RNext, Release, Barrier, Launch, rvars

\* A token is never lowered inside a launch (context.hpp:979-981).
THEOREM TokensGrow == RSpec => TokensOnlyGrow
<1> DEFINE Grows == generation' = generation =>
             \A c, p \in Subgroup : acquired_token'[c][p] >= acquired_token[c][p]
<1>1. RInv /\ [RNext]_rvars => [Grows]_rvars
  BY StepRaises
<1> QED BY <1>1, RInvariance, PTL DEF RSpec, TokensOnlyGrow

===============================================================================
