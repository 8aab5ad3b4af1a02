-------------------------- MODULE MCSkillSnapshots --------------------------
(***************************************************************************)
(* An instance of SkillSnapshots: a publication of two snapshots and its    *)
(* exact retry, a closing, two deletions of the first snapshot and a        *)
(* resolution of it.                                                        *)
(***************************************************************************)
EXTENDS SkillSnapshots, TLC

CONSTANTS a1, a2, k1, d1, d2, v1, ra, pa

MCPublicationOf == ra :> pa
MCBindings == ra :> <<2, 1>>
MCRequestOf == [c \in Publisher \cup Closer \cup Resolver |-> ra]
MCSnapshotOf == [c \in Deleter \cup Resolver |-> 1]
Twins == Permutations({a1, a2}) \cup Permutations({d1, d2})

=============================================================================
