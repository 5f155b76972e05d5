----------------------------- MODULE MCLifecycle -----------------------------
(* One document for TLC: every bound is a CONSTANT given in the .cfg files. *)
EXTENDS DocumentLifecycle, TLC

\* Ids are compared for equality only; the default ACL and the first delete job
\* are told apart from the others, and stay where they are.
Symmetry ==
    Permutations(Versions) \cup Permutations(Generations)
    \cup Permutations(AclJobs) \cup Permutations(AclValues \ {DefaultAcl})
    \cup Permutations(DeleteJobs \ {FirstDelete})

\* Bounds on what one behaviour has at once.  With deletes: three of the faults,
\* the delete jobs (a retry is one more) and the second version.
AtMostThree ==
    faults + Cardinality({d \in DeleteJobs : delStatus[d] # "none"})
           + Cardinality({v \in Versions : verStatus[v] # "none"}) <= 4

\* With ACL jobs: two edits and a fault of one version, one and one, two edits or
\* two faults of two.
FaultsApart ==
    faults + Cardinality({j \in AclJobs : aclFp[j] # None})
           + Cardinality({v \in Versions : verStatus[v] # "none"}) <= 4
=============================================================================
