------------------------------- MODULE MCTree -------------------------------
(***************************************************************************)
(* Instances of TreeProperties for TLC.                                    *)
(***************************************************************************)
EXTENDS TreeProperties, TLC

CONSTANTS f1, f2, f3, f4

\* Ids and works are interchangeable, except where liveness is checked.
Symmetric == Permutations(Folder \ InitialFolder) \cup Permutations(InitialFolder)
                \cup Permutations(Work) \cup Permutations(Session)
=============================================================================
