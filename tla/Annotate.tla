------------------------------ MODULE Annotate ------------------------------
(***************************************************************************)
(* What the user notes about an article: its note, its score and its       *)
(* labels (do_note, do_score and do_labels of src/ui/screen.c, the label   *)
(* picker of src/ui/dialog.c, setArticleLabel and getLabels of             *)
(* src/api/api.c).                                                         *)
(*                                                                         *)
(* The client keeps two copies of an article, its row in the headline list *)
(* and the article on display; the server and its other clients go on      *)
(* meanwhile, and the answer to a request may be lost once the server has  *)
(* carried it out.                                                         *)
(***************************************************************************)
EXTENDS Wire

CONSTANTS
    Articles,     \* the ids of the articles, positive
    LabelLists,   \* the lists of labels a server may have, in its order
    Notes,        \* the notes a user may write
    MaxScore,     \* bound: no score beyond it, either way
    MaxWrites,    \* bound: changes made or tried, here or by another client
    NoArticle

Scores == -MaxScore .. MaxScore
Labels == UNION {ToSet(list) : list \in LabelLists}
Annotations == [note : Notes \cup {NoText}, score : Scores, labels : SUBSET Labels]
\* A copy of an article, and an entry of the picker.
Copies == [id : Articles, note : Notes \cup {NoText}, score : Scores,
           labels : SUBSET Labels]
Picked == [id : Labels, caption : Labels, checked : BOOLEAN]

Fields == {"note", "score", "labels"}

VARIABLES
    labelList,  \* the labels the server has
    srv,        \* the server's annotations of each article
    rows,       \* the headline list: the copy in each row
    art,        \* the article on display, or NoArticle
    pc,         \* what the client waits for: a key, the picker's keys, the server
    target,     \* the article whose labels are picked
    pick,       \* the labels of the picker
    next,       \* the label whose request is next
    told,       \* what the status line said of the last choice of labels
    behind,     \* history: the copies that may lag behind the server
    writes      \* bound: how many changes so far

client == <<rows, art>>
picker == <<pc, target, pick, next, told>>
vars == <<labelList, srv, client, picker, behind, writes>>

-----------------------------------------------------------------------------
(* Requests and answers.                                                   *)

\* getArticle and getHeadlines (external): labels come by position, in an order
\* that nothing here depends on.
SendOwnLabels(labels, d) ==
    LET own == SetToSeq(labels)
    IN  Array([i \in DOMAIN own |->
                 Array(<<SendInt(own[i], d), Str(own[i], "other", 0)>>)])

SendHeadline(a, e, d) ==
    Object([id |-> SendInt(a, d), note |-> SendText(e.note, d),
            score |-> SendInt(e.score, d), labels |-> SendOwnLabels(e.labels, d)])

\* getLabels (external): all the labels, those of the article checked.
SendLabels(list, labels, d) ==
    Array([i \in DOMAIN list |->
             Object([id |-> SendInt(list[i], d),
                     caption |-> Str(list[i], "other", 0),
                     checked |-> SendBool(list[i] \in labels, d)])])

\* Labels have no number twice, and what stands for nothing is not one of them.
ASSUME ConstantsAssumption ==
    /\ Articles \subseteq Int
    /\ MaxScore \in Nat /\ MaxWrites \in Nat
    /\ NoText \notin Notes
    /\ NoArticle \notin Articles \cup Copies
    /\ \A list \in LabelLists :
          /\ list \in Seq(Int)
          /\ \A i, j \in DOMAIN list : list[i] = list[j] => i = j

-----------------------------------------------------------------------------
\* A change, made or tried.
Write ==
    /\ writes < MaxWrites
    /\ writes' = writes + 1

\* How a request that changes the server may end: done, done although its
\* answer was lost, or not done at all.
Outcomes == {"ok", "lost", "refused"}
ReachesServer(outcome) == outcome \in {"ok", "lost"}

-----------------------------------------------------------------------------
(* Reading.                                                                *)

Idle == pc = "key"

\* The copies of one field of an article.
Both(a, field) == {"row", "art"} \X {a} \X {field}

\* headlines_load: the list holds the articles of one view.
LoadList(shown, d) ==
    /\ Idle
    /\ rows' = [a \in shown |-> ParseHeadline(SendHeadline(a, srv[a], d))]
    /\ behind' = behind \ ({"row"} \X Articles \X Fields)
    /\ UNCHANGED <<labelList, srv, art, picker, writes>>

\* article_load
Open(a, d) ==
    /\ Idle
    /\ a \in DOMAIN rows
    /\ art' = ParseHeadline(SendHeadline(a, srv[a], d))
    /\ behind' = behind \ ({"art"} \X Articles \X Fields)
    /\ UNCHANGED <<labelList, srv, rows, picker, writes>>

\* article_load fails: the article that was on display is gone.
OpenFails ==
    /\ Idle
    /\ rows # <<>>
    /\ art' = NoArticle
    /\ behind' = behind \ ({"art"} \X Articles \X Fields)
    /\ UNCHANGED <<labelList, srv, rows, picker, writes>>

-----------------------------------------------------------------------------
(* Note and score.                                                         *)

\* mutation_target: the article on display, or the selected row.
Targets == {rows[a] : a \in DOMAIN rows} \cup (IF art = NoArticle THEN {} ELSE {art})

\* Mutant: the row is left alone.
MirrorArticleOnly(a, field, value) ==
    /\ art' = IF art # NoArticle /\ art.id = a
              THEN [art EXCEPT ![field] = value] ELSE art
    /\ UNCHANGED rows

\* apply_field, on the target and on the other copy of the article.
Mirror(a, field, value) ==
    /\ art' = IF art # NoArticle /\ art.id = a
              THEN [art EXCEPT ![field] = value] ELSE art
    /\ rows' = IF a \in DOMAIN rows
               THEN [rows EXCEPT ![a] = [@ EXCEPT ![field] = value]] ELSE rows

\* mutate
Mutate(a, field, value, outcome) ==
    /\ Write
    /\ srv' = IF ReachesServer(outcome)
              THEN [srv EXCEPT ![a] = [@ EXCEPT ![field] = value]] ELSE srv
    /\ IF outcome = "ok" THEN Mirror(a, field, value) ELSE UNCHANGED client
    /\ behind' = CASE outcome = "ok" -> behind \ Both(a, field)
                   [] outcome = "lost" -> behind \cup Both(a, field)
                   [] OTHER -> behind
    /\ UNCHANGED <<labelList, picker>>

\* do_note
SetNote(note, outcome) ==
    /\ Idle
    /\ \E h \in Targets : Mutate(h.id, "note", note, outcome)

\* do_score: the new score comes from the copy, and is sent as it is.
Score(delta, outcome) ==
    /\ Idle
    /\ \E h \in Targets :
          /\ h.score + delta \in Scores
          /\ Mutate(h.id, "score", h.score + delta, outcome)

-----------------------------------------------------------------------------
(* Labels: dialog_label_picker.                                            *)

\* getLabels; without labels there is only a message.
OpenPicker(d) ==
    /\ Idle
    /\ \E h \in Targets :
          LET labels == ParseLabels(SendLabels(labelList, srv[h.id].labels, d)) IN
          /\ labels # <<>>
          /\ pc' = "picker"
          /\ target' = h.id
          /\ pick' = labels
    /\ UNCHANGED <<labelList, srv, client, next, told, behind, writes>>

ToggleLabel(i) ==
    /\ pc = "picker"
    /\ pick' = [pick EXCEPT ![i].checked = ~@]
    /\ UNCHANGED <<labelList, srv, client, pc, target, next, told, behind, writes>>

\* The picker is closed.
Close(report) ==
    /\ pc' = "key"
    /\ target' = NoArticle
    /\ pick' = <<>>
    /\ next' = 1
    /\ told' = report

Cancel ==
    /\ pc = "picker"
    /\ Close(told)
    /\ UNCHANGED <<labelList, srv, client, behind, writes>>

Apply ==
    /\ pc = "picker"
    /\ pc' = "sending"
    /\ Write
    /\ next' = 1
    /\ told' = "none"
    /\ UNCHANGED <<labelList, srv, client, target, pick, behind>>

\* setArticleLabel
Assign(labels, l) == IF l.checked THEN labels \cup {l.id} ELSE labels \ {l.id}

\* Mutant: the other labels are sent all the same, and the last answer counts.
SendOneGoesOn(outcome) ==
    /\ srv' = IF ReachesServer(outcome)
              THEN [srv EXCEPT ![target].labels = Assign(@, pick[next])] ELSE srv
    /\ next' = next + 1
    /\ UNCHANGED <<pc, target, pick, told>>

\* One label; the first failure ends it.
SendOne(outcome) ==
    /\ srv' = IF ReachesServer(outcome)
              THEN [srv EXCEPT ![target].labels = Assign(@, pick[next])] ELSE srv
    /\ IF outcome = "ok"
       THEN next' = next + 1 /\ UNCHANGED <<pc, target, pick, told>>
       ELSE Close("error")

\* The labels on display are not read again.
SendLabel(outcome) ==
    /\ pc = "sending"
    /\ next \in DOMAIN pick
    /\ SendOne(outcome)
    /\ behind' = behind \cup Both(target, "labels")
    /\ UNCHANGED <<labelList, client, writes>>

AllSent ==
    /\ pc = "sending"
    /\ next \notin DOMAIN pick
    /\ Close("ok")
    /\ UNCHANGED <<labelList, srv, client, behind, writes>>

-----------------------------------------------------------------------------
(* Another client of the same account.                                     *)

OtherClient(a, field, value) ==
    /\ Write
    /\ srv' = [srv EXCEPT ![a] = [@ EXCEPT ![field] = value]]
    /\ behind' = behind \cup Both(a, field)
    /\ UNCHANGED <<labelList, client, picker>>

-----------------------------------------------------------------------------
Init ==
    /\ labelList \in LabelLists
    /\ srv = [a \in Articles |-> [note |-> NoText, score |-> 0, labels |-> {}]]
    /\ rows = <<>>
    /\ art = NoArticle
    /\ pc = "key"
    /\ target = NoArticle
    /\ pick = <<>>
    /\ next = 1
    /\ told = "none"
    /\ behind = {}
    /\ writes = 0

\* The client goes on with the labels the user has chosen.
Sending == (\E outcome \in Outcomes : SendLabel(outcome)) \/ AllSent

Next ==
    \/ \E shown \in SUBSET Articles, d \in Dialects : LoadList(shown, d)
    \/ \E a \in Articles, d \in Dialects : Open(a, d)
    \/ OpenFails
    \/ \E note \in Notes, outcome \in Outcomes : SetNote(note, outcome)
    \/ \E delta \in {-1, 1}, outcome \in Outcomes : Score(delta, outcome)
    \/ \E d \in Dialects : OpenPicker(d)
    \/ \E i \in DOMAIN pick : ToggleLabel(i)
    \/ Cancel
    \/ Apply
    \/ Sending
    \/ \E a \in Articles, note \in Notes \cup {NoText} : OtherClient(a, "note", note)
    \/ \E a \in Articles, score \in Scores : OtherClient(a, "score", score)
    \/ \E a \in Articles, labels \in SUBSET ToSet(labelList) :
          OtherClient(a, "labels", labels)

\* A request that was sent ends, at the latest with curl's timeout.
Fairness == WF_vars(Sending)

Spec == Init /\ [][Next]_vars /\ Fairness

-----------------------------------------------------------------------------
\* Type invariant: every copy is an article with a note, a score in bounds
\* and labels of the server, whatever dialect it came in; the picker has a
\* target exactly while it is open.
TypeOK ==
    /\ labelList \in LabelLists
    /\ srv \in [Articles -> Annotations]
    /\ \A a \in Articles : srv[a].labels \subseteq ToSet(labelList)
    /\ DOMAIN rows \subseteq Articles
    /\ \A a \in DOMAIN rows : rows[a] \in Copies /\ rows[a].id = a
    /\ art \in Copies \cup {NoArticle}
    /\ pc \in {"key", "picker", "sending"}
    /\ target \in (IF Idle THEN {NoArticle} ELSE Articles)
    /\ pick \in Seq(Picked)
    /\ Idle => pick = <<>>
    /\ \A i \in DOMAIN pick : pick[i].id \in ToSet(labelList)
    /\ next \in 1 .. Len(pick) + 1
    /\ told \in {"none", "ok", "error"}
    /\ behind \subseteq {"row", "art"} \X Articles \X Fields
    /\ writes \in 0 .. MaxWrites

\* A copy shows what the server has, on the row and on display, unless
\* another client changed it, or an answer was lost, since it was read or
\* last set here.  The labels of an article also lag behind once they were
\* picked: nothing reads them again before the article is opened again.
CopiesAgree ==
    /\ \A a \in DOMAIN rows, f \in Fields :
          <<"row", a, f>> \notin behind => rows[a][f] = srv[a][f]
    /\ art # NoArticle =>
          \A f \in Fields :
             <<"art", art.id, f>> \notin behind => art[f] = srv[art.id][f]

\* When the picker opens it offers every label of the server, and a label is
\* checked exactly when the article has it, however the server sends a flag.
PickerShowsServer ==
    [][ Idle /\ pc' = "picker" =>
          /\ [i \in DOMAIN pick' |-> pick'[i].id] = labelList
          /\ \A i \in DOMAIN pick' :
                pick'[i].checked <=> pick'[i].id \in srv[target'].labels ]_vars

\* What LabelEdit knows of the labels and of the picker.
Assigned == [a \in Articles |-> srv[a].labels]
Editing == pc = "sending"
EditTarget == IF Editing THEN target ELSE NoArticle
Chosen == IF Editing THEN {l.id : l \in {k \in ToSet(pick) : k.checked}} ELSE {}
Rest == IF Editing THEN {pick[i].id : i \in next .. Len(pick)} ELSE {}

Edit == INSTANCE LabelEdit WITH
    assigned <- Assigned, target <- EditTarget, chosen <- Chosen, rest <- Rest

\* The label dialog keeps its promise: "Labels updated" only when every label
\* is as the user chose it, an end to every dialog, and no request after it.
KeepsLabelPromise == Edit!ASpec
=============================================================================
