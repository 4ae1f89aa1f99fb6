------------------------- MODULE MCCommitScheduler -------------------------
(* Instances of CommitScheduler for TLC. *)
EXTENDS CommitScheduler, TLC

CONSTANTS r1, r2, r3

\* Two blocking group requests and a blocking single one.
MixedClass == r1 :> "group" @@ r2 :> "group" @@ r3 :> "single"
BlockingApi == [r \in Request |-> "submit"]

\* A cohort of two beside a group request that may be cancelled or expire.
GroupClass == [r \in Request |-> "group"]
CohortApi == r1 :> "cohort" @@ r2 :> "cohort" @@ r3 :> "controlled"
OneCohort == {<<r1, r2>>}

\* Group requests that may all be cancelled or expire.
ControlledApi == [r \in Request |-> "controlled"]

\* Group requests that do not wait for a slot, alike enough to be exchanged.
TryApi == [r \in Request |-> "try"]
Symmetry == Permutations(Request)
============================================================================
