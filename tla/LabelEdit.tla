----------------------------- MODULE LabelEdit -----------------------------
(***************************************************************************)
(* What the label dialog promises: once the user has applied a choice, the *)
(* dialog ends, and "Labels updated" is said only when every label has     *)
(* been set or cleared as chosen.  When it says it failed, each label is   *)
(* as chosen or as it was, and none is set again later.                    *)
(***************************************************************************)
CONSTANTS Articles, Labels, NoArticle

VARIABLES
    assigned,  \* the labels the server has on each article
    target,    \* the article whose labels are being set, or NoArticle
    chosen,    \* the labels it shall have
    rest,      \* the labels still to be set or cleared
    told       \* what the user knows of the last choice

avars == <<assigned, target, chosen, rest, told>>

AInit ==
    /\ assigned \in [Articles -> SUBSET Labels]
    /\ target = NoArticle
    /\ chosen = {}
    /\ rest = {}
    /\ told = "none"

\* The user applies a choice among the labels offered.
Begin(a, offered, choice) ==
    /\ target = NoArticle
    /\ target' = a
    /\ chosen' = choice
    /\ rest' = offered
    /\ told' = "none"
    /\ UNCHANGED assigned

\* What the article has once l is as chosen.
AsChosen(l) ==
    [assigned EXCEPT ![target] = IF l \in chosen THEN @ \cup {l} ELSE @ \ {l}]

Put(l) ==
    /\ l \in rest
    /\ assigned' = AsChosen(l)
    /\ rest' = rest \ {l}
    /\ UNCHANGED <<target, chosen, told>>

End(report) ==
    /\ target # NoArticle
    /\ target' = NoArticle
    /\ chosen' = {}
    /\ rest' = {}
    /\ told' = report

Succeed ==
    /\ rest = {}
    /\ End("ok")
    /\ UNCHANGED assigned

\* The request that failed was carried out or not.
Fail(l) ==
    /\ l \in rest
    /\ End("error")
    /\ assigned' \in {assigned, AsChosen(l)}

\* Another client sets or clears labels.
Other(a, labels) ==
    /\ assigned' = [assigned EXCEPT ![a] = labels]
    /\ UNCHANGED <<target, chosen, rest, told>>

ANext ==
    \/ \E a \in Articles, offered \in SUBSET Labels :
          \E choice \in SUBSET offered : Begin(a, offered, choice)
    \/ \E l \in rest : Put(l) \/ Fail(l)
    \/ Succeed
    \/ \E a \in Articles, labels \in SUBSET Labels : Other(a, labels)

ASafety == AInit /\ [][ANext]_avars

AEnds == target # NoArticle ~> target = NoArticle

ASpec == ASafety /\ AEnds
=============================================================================
