--------------------------- MODULE ExperimentRecord ---------------------------
(***************************************************************************)
(* What the manifest of an experiment directory promises its reader: each   *)
(* experiment that takes the directory is announced once, then decided once *)
(* and for good.  In between the manifest may be unreadable; a decided one  *)
(* disappears only when a later experiment takes the directory.             *)
(***************************************************************************)
EXTENDS Naturals

VARIABLES
    owner,  \* the experiment that took the directory last, 0 if none did
    stage,  \* new, announced or decided
    shown   \* what a reader finds: unreadable, or an experiment and its outcome

vars == <<owner, stage, shown>>

Outcomes == {"running", "passed", "failed"}
Unreadable == [by |-> 0, outcome |-> "none"]

Init ==
    /\ owner = 0
    /\ stage = "new"
    /\ shown = Unreadable

\* Cleaned, the directory shows nothing; otherwise the old manifest stays.
Take ==
    /\ owner' \in Nat /\ owner' > owner
    /\ stage' = "new"
    /\ shown' \in {shown, Unreadable}

\* A manifest that is going to be replaced.
Hide ==
    /\ owner > 0
    /\ stage # "decided"
    /\ shown' = Unreadable
    /\ UNCHANGED <<owner, stage>>

Announce ==
    /\ owner > 0
    /\ stage = "new" /\ shown = Unreadable
    /\ stage' = "announced"
    /\ shown' = [by |-> owner, outcome |-> "running"]
    /\ UNCHANGED owner

Decide ==
    /\ stage = "announced" /\ shown = Unreadable
    /\ stage' = "decided"
    /\ shown' \in [by: {owner}, outcome: {"passed", "failed"}]
    /\ UNCHANGED owner

Next == Take \/ Hide \/ Announce \/ Decide

Spec == Init /\ [][Next]_vars
===============================================================================
