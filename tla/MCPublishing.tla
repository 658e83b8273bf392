----------------------------- MODULE MCPublishing -----------------------------
(***************************************************************************)
(* Instances of PublishingProperties for TLC.  Ids of publishers and of    *)
(* work_publisher are numbers of two sequences that both start at 1.       *)
(***************************************************************************)
EXTENDS PublishingProperties, TLC

CONSTANTS n1, n2, n3, t1, t2, l1, l2, l3

Symmetric == Permutations(Name) \cup Permutations(Town) \cup Permutations(Work)
               \cup Permutations(Session) \cup Permutations(InitialLocation)
               \cup Permutations(Location \ InitialLocation)
=============================================================================
