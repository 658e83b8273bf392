------------------------------ MODULE Bookmarks ------------------------------
(***************************************************************************)
(* What a reader of the bibliography is promised about the id in a         *)
(* bookmarked URL (comment of Folder::lookupById): once issued, it leads   *)
(* to a folder that exists, whatever merges happen, unless an editor asked *)
(* for that folder to be deleted.                                          *)
(***************************************************************************)
CONSTANT Folder

VARIABLES
  live,       \* folders that exist
  leads,      \* leads[x]: the folders a lookup of id x may return
  condemned   \* folders some editor has asked to delete

bookmarkVars == <<live, leads, condemned>>

Init ==
  /\ live \subseteq Folder
  /\ leads = [x \in Folder |-> {x} \cap live]
  /\ condemned = {}

\* A folder is created under an id that led nowhere.
Issue(f) ==
  /\ leads[f] = {}
  /\ live' = live \cup {f}
  /\ leads' = [leads EXCEPT ![f] = {f}]
  /\ UNCHANGED condemned

\* While `from` is merged into `to`, a bookmark of `from` may lead to `to`
\* as well, or instead.
Redirect(from, to) ==
  /\ {from, to} \subseteq live /\ from # to
  /\ leads' \in [Folder -> SUBSET live]
  /\ \A x \in Folder :
       \/ leads'[x] = leads[x]
       \/ from \in leads[x] /\ leads'[x] \in {leads[x] \cup {to}, (leads[x] \ {from}) \cup {to}}
  /\ UNCHANGED <<live, condemned>>

\* `from` goes; no bookmark depended on it alone.
Absorb(from) ==
  /\ from \in live
  /\ \A x \in Folder : leads[x] # {from}
  /\ live' = live \ {from}
  /\ leads' = [x \in Folder |-> leads[x] \ {from}]
  /\ UNCHANGED condemned

\* Editors ask for folders to be deleted, or change their minds.
Ask == condemned' \subseteq live /\ UNCHANGED <<live, leads>>

\* A folder is deleted on request; its bookmarks may be left dead.
Withdraw(f) ==
  /\ f \in condemned
  /\ live' = live \ {f}
  /\ leads' = [x \in Folder |-> leads[x] \ {f}]
  /\ condemned' \subseteq condemned

Next ==
  \/ \E f \in Folder : Issue(f) \/ Absorb(f) \/ Withdraw(f)
  \/ \E from, to \in Folder : Redirect(from, to)
  \/ Ask

Spec == Init /\ [][Next]_bookmarkVars
==============================================================================
