---------------------------- MODULE ReleaseRecords ----------------------------
(***************************************************************************)
(* What hip_moi::context promises about atomic synchronisation metadata,   *)
(* with no table, no probing and no claiming: a release publishes, for one *)
(* atomic address and one producer subgroup, every epoch up to the         *)
(* released one; an acquire may import what has been published at its      *)
(* address and nothing else.  An acquired token of N + 1 says "the         *)
(* consumer has acquired producer epoch N", 0 says "nothing acquired".     *)
(* AtomicTable and ExactDetector implement this specification.             *)
(***************************************************************************)
EXTENDS Integers

CONSTANTS
  Address,    \* atomic addresses
  Subgroup,   \* those within storage_ref::subgroup_capacity
  MaxEpoch,   \* bound: barriers of one launch
  MaxLaunch   \* bound: launches

ASSUME BoundAssumption == MaxEpoch \in Nat /\ MaxLaunch \in Nat \ {0}

Epoch == 0 .. MaxEpoch

VARIABLES
  generation,      \* storage_ref::generation, one per launch
  subgroup_epoch,  \* storage_ref::subgroup_epochs, equal between barriers
  released,        \* <<address, producer, epoch>> published in this launch
  acquired_token   \* storage_ref::acquired_subgroup_epoch_tokens

rvars == <<generation, subgroup_epoch, released, acquired_token>>

NoTokens == [consumer \in Subgroup |-> [producer \in Subgroup |-> 0]]

\* atomicMax on one word of the token matrix
RaiseTo(old, new) == IF old < new THEN new ELSE old

RInit ==
  /\ generation = 1
  /\ subgroup_epoch = 0
  /\ released = {}
  /\ acquired_token = NoTokens

\* A release at epoch e covers the epochs before it: tokens are compared
\* with >=, and records join by atomicMax.
Release(address, producer, e) ==
  /\ e <= subgroup_epoch
  /\ released' = released \cup ({address} \X {producer} \X (0 .. e))
  /\ UNCHANGED <<generation, subgroup_epoch, acquired_token>>

\* Mutant: the epoch is the consumer's own.
ImportOwnEpoch(consumer, producer, address) ==
  /\ consumer # producer
  /\ \E e \in Epoch : <<address, producer, e>> \in released
  /\ acquired_token' =
       [acquired_token EXCEPT ![consumer][producer] = RaiseTo(@, subgroup_epoch + 1)]
  /\ UNCHANGED <<generation, subgroup_epoch, released>>

Import(consumer, producer, address) ==
  /\ consumer # producer
  /\ \E e \in Epoch :
       /\ <<address, producer, e>> \in released
       /\ acquired_token' =
            [acquired_token EXCEPT ![consumer][producer] = RaiseTo(@, e + 1)]
  /\ UNCHANGED <<generation, subgroup_epoch, released>>

\* context::close_current_epoch, once every thread has reached the barrier
Barrier ==
  /\ subgroup_epoch < MaxEpoch
  /\ subgroup_epoch' = subgroup_epoch + 1
  /\ UNCHANGED <<generation, released, acquired_token>>

\* host_context::launch_ref and context::init_workgroup
Launch ==
  /\ generation < MaxLaunch
  /\ generation' = generation + 1
  /\ subgroup_epoch' = 0
  /\ released' = {}
  /\ acquired_token' = NoTokens

RNext ==
  \/ \E a \in Address, p \in Subgroup, e \in Epoch : Release(a, p, e)
  \/ \E c, p \in Subgroup, a \in Address : Import(c, p, a)
  \/ Barrier
  \/ Launch

RSpec == RInit /\ [][RNext]_rvars

-------------------------------------------------------------------------------

RTypeOK ==
  /\ generation \in 1 .. MaxLaunch
  /\ subgroup_epoch \in Epoch
  /\ released \in SUBSET (Address \X Subgroup \X Epoch)
  /\ acquired_token \in [Subgroup -> [Subgroup -> 0 .. MaxEpoch + 1]]

\* Every acquired token is backed by a release: a consumer never believes it
\* has acquired an epoch that its producer did not publish at some address in
\* this launch (context.hpp:966-983).  An invented token would hide a race.
TokensBacked ==
  \A c, p \in Subgroup :
    acquired_token[c][p] > 0 =>
      \E a \in Address : <<a, p, acquired_token[c][p] - 1>> \in released

\* No release covers an epoch the workgroup has not reached, so no token can
\* suppress a conflict of an epoch that is still to come.
NothingAhead ==
  /\ \A a \in Address, p \in Subgroup, e \in Epoch :
       <<a, p, e>> \in released => e <= subgroup_epoch
  /\ \A c, p \in Subgroup : acquired_token[c][p] <= subgroup_epoch + 1

\* Inside one launch ordering evidence only grows: a token is never lowered
\* except by init_workgroup, so an ordered pair stays ordered.
TokensOnlyGrow ==
  [][generation' = generation =>
       \A c, p \in Subgroup : acquired_token'[c][p] >= acquired_token[c][p]]_rvars
===============================================================================
