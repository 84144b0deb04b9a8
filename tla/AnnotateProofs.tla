--------------------------- MODULE AnnotateProofs ---------------------------
(***************************************************************************)
(* Proofs about notes, scores and labels: the copies agree with the server *)
(* unless another client or a lost answer came between, and the label      *)
(* dialog reports success only when every label is as chosen.              *)
(***************************************************************************)
EXTENDS Annotate, TLAPS, SequenceTheorems, FiniteSetTheorems

-----------------------------------------------------------------------------
(* What the client reads is what the server sent, in every dialect.        *)

\* A number is read as it was sent.
LEMMA NumberRead ==
    ASSUME NEW n \in Int, NEW d \in Dialects
    PROVE  JsInt(SendInt(n, d), 0) = n
  BY DEF JsInt, SendInt, Dialects, Str, Number, Missing

\* A text is read as it was sent, and none as none.
LEMMA TextRead ==
    ASSUME NEW t, NEW d \in Dialects
    PROVE  JsStr(SendText(t, d)) = t
  BY DEF JsStr, SendText, Dialects, Str, Missing, Null

\* A flag is read as it was sent.
LEMMA FlagRead ==
    ASSUME NEW b \in BOOLEAN, NEW d \in Dialects
    PROVE  JsBool(SendBool(b, d), FALSE) = b
  <1>1. CASE d = "plain"
    <2>1. SendBool(b, d) = [is |-> "bool", bool |-> b]
      BY <1>1 DEF SendBool, Flag
    <2>2. [is |-> "bool", bool |-> b].is = "bool" /\ [is |-> "bool", bool |-> b].bool = b
      BY Zenon
    <2> QED
      BY <2>1, <2>2, Zenon DEF JsBool
  <1>2. CASE d = "strings"
    <2>1. SendBool(b, d) = IF b THEN Str("true", "t", 0) ELSE Str("false", "f", 0)
      BY <1>2, Zenon DEF SendBool
    <2>2. /\ JsBool(Str("true", "t", 0), FALSE) = TRUE
          /\ JsBool(Str("false", "f", 0), FALSE) = FALSE
      BY DEF JsBool, Str
    <2>3. CASE b
      BY <2>1, <2>2, <2>3, Zenon
    <2>4. CASE ~b
      BY <2>1, <2>2, <2>4, Zenon
    <2> QED
      BY <2>3, <2>4
  <1>3. CASE d = "sparse"
    <2>1. SendBool(b, d) = Number(IF b THEN 1 ELSE 0)
      BY <1>3, Zenon DEF SendBool
    <2>2. JsBool(Number(1), FALSE) = TRUE /\ JsBool(Number(0), FALSE) = FALSE
      BY DEF JsBool, Number
    <2>3. CASE b
      BY <2>1, <2>2, <2>3, Zenon
    <2>4. CASE ~b
      BY <2>1, <2>2, <2>4, Zenon
    <2> QED
      BY <2>3, <2>4
  <1> QED
    BY <1>1, <1>2, <1>3 DEF Dialects

\* Who copies every element of an array has the array.
LEMMA SubsequenceOfAll ==
    ASSUME NEW n \in Nat, NEW s, DOMAIN s = 1 .. n
    PROVE  /\ DOMAIN Subsequence(s, 1 .. n) = 1 .. n
           /\ \A k \in 1 .. n : Subsequence(s, 1 .. n)[k] = s[k]
  <1>1. Cardinality(1 .. n) = n
    BY FS_Interval
  <1>2. ASSUME NEW i \in 1 .. n PROVE Before(1 .. n, i) = i - 1
    <2>1. \A j \in 1 .. n : j < i <=> j \in 1 .. i - 1
      OBVIOUS
    <2>2. {j \in 1 .. n : j < i} = 1 .. i - 1
      BY <2>1
    <2>3. Cardinality(1 .. i - 1) = i - 1
      BY FS_Interval
    <2> QED
      BY <2>2, <2>3 DEF Before
  <1>3. ASSUME NEW k \in 1 .. n PROVE Nth(1 .. n, k) = k
    <2>1. \A i \in 1 .. n : Before(1 .. n, i) = k - 1 <=> i = k
      BY <1>2
    <2> QED
      BY <2>1 DEF Nth
  <1> QED
    BY <1>1, <1>3 DEF Subsequence

\* Of an array of labels parse_labels_array makes an entry for each of them.
LEMMA LabelsParsed ==
    ASSUME NEW n \in Nat, NEW s, DOMAIN s = 1 .. n, \A i \in 1 .. n : IsLabel(s[i])
    PROVE  ParseLabels(Array(s)) = [i \in 1 .. n |-> ParseLabel(s[i])]
  <1>1. Array(s).is = "array" /\ Array(s).items = s
    BY DEF Array
  <1>2. {i \in DOMAIN s : IsLabel(s[i])} = 1 .. n
    OBVIOUS
  <1>3. ParseLabels(Array(s)) =
           [i \in DOMAIN Subsequence(s, 1 .. n) |-> ParseLabel(Subsequence(s, 1 .. n)[i])]
    BY <1>1, <1>2 DEF ParseLabels
  <1> QED
    BY <1>3, SubsequenceOfAll

\* A list of labels has finitely many of them.
LEMMA LabelsAreFinite ==
    ASSUME NEW list \in Seq(Int)
    PROVE  IsFiniteSet(ToSet(list))
  <1>1. Len(list) \in Nat /\ DOMAIN list = 1 .. Len(list)
    BY LenProperties
  <1>2. list \in [1 .. Len(list) -> ToSet(list)]
    BY <1>1, LenProperties DEF ToSet
  <1>3. list \in Surjection(1 .. Len(list), ToSet(list))
    BY <1>1, <1>2 DEF Surjection, ToSet
  <1> QED
    BY <1>1, <1>3, FS_Interval, FS_Surjection

\* A finite set, in some order, is that set.
LEMMA SetInOrder ==
    ASSUME NEW S, IsFiniteSet(S)
    PROVE  /\ SetToSeq(S) \in [1 .. Cardinality(S) -> S]
           /\ \A x \in S : \E i \in 1 .. Cardinality(S) : SetToSeq(S)[i] = x
  <1> DEFINE n == Cardinality(S)
             f == SetToSeq(S)
  <1>1. n \in Nat /\ ExistsBijection(1 .. n, S)
    BY FS_CardinalityType
  <1>2. \E g \in [1 .. n -> S] : IsInjective(g)
    BY <1>1 DEF ExistsBijection, Bijection, Injection, IsInjective
  <1>3. f \in [1 .. n -> S] /\ IsInjective(f)
    BY <1>2 DEF SetToSeq
  <1>4. IsFiniteSet(1 .. n) /\ Cardinality(1 .. n) = n
    BY <1>1, FS_Interval
  <1> HIDE DEF f
  <1>5. f \in Injection(1 .. n, S)
    BY <1>3 DEF Injection
  <1>6. f \in Surjection(1 .. n, S)
    BY <1>4, <1>5, FS_Injection
  <1> QED
    BY <1>3, <1>6 DEF Surjection, f

\* The labels of an article are read as they were sent.
LEMMA OwnLabelsRead ==
    ASSUME NEW labels, IsFiniteSet(labels), NEW d \in Dialects
    PROVE  {l.caption : l \in ToSet(ParseLabels(SendOwnLabels(labels, d)))} = labels
  <1> DEFINE n == Cardinality(labels)
             own == SetToSeq(labels)
             sent == [i \in DOMAIN own |->
                         Array(<<SendInt(own[i], d), Str(own[i], "other", 0)>>)]
             parsed == ParseLabels(SendOwnLabels(labels, d))
  <1>1. n \in Nat
    BY FS_CardinalityType
  <1>2. own \in [1 .. n -> labels] /\ \A x \in labels : \E i \in 1 .. n : own[i] = x
    BY SetInOrder
  <1>3. SendOwnLabels(labels, d) = Array(sent)
    BY DEF SendOwnLabels
  <1> HIDE DEF n, own
  <1>4. /\ DOMAIN sent = 1 .. n
        /\ \A i \in 1 .. n : IsLabel(sent[i]) /\ ParseLabel(sent[i]).caption = own[i]
    <2> SUFFICES ASSUME NEW i \in 1 .. n
                 PROVE  IsLabel(sent[i]) /\ ParseLabel(sent[i]).caption = own[i]
      BY <1>2
    <2> DEFINE pair == <<SendInt(own[i], d), Str(own[i], "other", 0)>>
    <2>1. sent[i] = Array(pair)
      BY <1>2
    <2>2. Entry(Array(pair), 2) = Str(own[i], "other", 0)
      BY DEF Entry, Array
    <2>3. Array(pair).is = "array"
      BY DEF Array
    <2> HIDE DEF pair, sent
    <2>4. JsStr(Str(own[i], "other", 0)) = own[i]
      BY DEF JsStr, Str
    <2> QED
      BY <2>1, <2>2, <2>3, <2>4 DEF IsLabel, ParseLabel
  <1> HIDE DEF sent
  <1>5. parsed = [i \in 1 .. n |-> ParseLabel(sent[i])]
    BY <1>1, <1>3, <1>4, LabelsParsed
  <1> HIDE DEF parsed
  <1>6. ToSet(parsed) = {parsed[i] : i \in 1 .. n}
    BY <1>5 DEF ToSet
  <1>7. \A i \in 1 .. n : parsed[i].caption = own[i]
    BY <1>4, <1>5
  <1>8. {l.caption : l \in ToSet(parsed)} = labels
    BY <1>2, <1>6, <1>7
  <1> QED
    BY <1>8 DEF parsed

\* getLabels is read as it was sent: an entry for every label of the server, in
\* its order, checked when the article has it.
LEMMA LabelsRead ==
    ASSUME NEW list \in LabelLists, NEW labels, NEW d \in Dialects
    PROVE  LET parsed == ParseLabels(SendLabels(list, labels, d)) IN
           /\ parsed \in Seq(Picked)
           /\ DOMAIN parsed = DOMAIN list
           /\ \A i \in DOMAIN list :
                 parsed[i].id = list[i] /\ (parsed[i].checked <=> list[i] \in labels)
  <1> DEFINE n == Len(list)
             F(i) == [id |-> SendInt(list[i], d),
                      caption |-> Str(list[i], "other", 0),
                      checked |-> SendBool(list[i] \in labels, d)]
             sent == [i \in DOMAIN list |-> Object(F(i))]
             parsed == ParseLabels(SendLabels(list, labels, d))
  <1>1. /\ n \in Nat /\ DOMAIN list = 1 .. n
        /\ \A i \in 1 .. n : list[i] \in Int /\ list[i] \in Labels
    BY ConstantsAssumption, LenProperties DEF Labels, ToSet
  <1>2. SendLabels(list, labels, d) = Array(sent)
    BY DEF SendLabels
  <1>3. ASSUME NEW i \in 1 .. n
        PROVE  /\ IsLabel(Object(F(i)))
               /\ ParseLabel(Object(F(i))) = [id |-> list[i], caption |-> list[i],
                                              checked |-> (list[i] \in labels)]
    <2>1. Object(F(i)).is = "object"
      BY DEF Object
    <2>2. /\ Field(Object(F(i)), "id") = SendInt(list[i], d)
          /\ Field(Object(F(i)), "caption") = Str(list[i], "other", 0)
          /\ Field(Object(F(i)), "checked") = SendBool(list[i] \in labels, d)
      BY DEF Field, Object
    <2> HIDE DEF F
    <2>3. JsInt(SendInt(list[i], d), 0) = list[i]
      BY <1>1, NumberRead
    <2>4. JsStr(Str(list[i], "other", 0)) = list[i]
      BY DEF JsStr, Str
    <2>5. JsBool(SendBool(list[i] \in labels, d), FALSE) = (list[i] \in labels)
      <3>1. (list[i] \in labels) \in BOOLEAN
        OBVIOUS
      <3> QED
        BY <3>1, FlagRead, Zenon
    <2> QED
      BY <2>1, <2>2, <2>3, <2>4, <2>5 DEF IsLabel, ParseLabel
  <1> HIDE DEF F
  <1>4. DOMAIN sent = 1 .. n /\ \A i \in 1 .. n : sent[i] = Object(F(i))
    BY <1>1
  <1> HIDE DEF sent
  <1>5. parsed = [i \in 1 .. n |-> ParseLabel(sent[i])]
    BY <1>1, <1>2, <1>3, <1>4, LabelsParsed
  <1> HIDE DEF parsed
  <1>6. \A i \in 1 .. n :
           parsed[i] = [id |-> list[i], caption |-> list[i], checked |-> (list[i] \in labels)]
    BY <1>3, <1>4, <1>5
  <1>7. parsed \in Seq(Picked)
    <2>1. ASSUME NEW i \in 1 .. n PROVE parsed[i] \in Picked
      <3>1. list[i] \in Labels /\ (list[i] \in labels) \in BOOLEAN
        BY <1>1
      <3>2. \A x \in Labels, b \in BOOLEAN :
               [id |-> x, caption |-> x, checked |-> b] \in Picked
        BY DEF Picked
      <3> QED
        BY <1>6, <3>1, <3>2, Zenon
    <2> QED
      BY <1>1, <1>5, <2>1, IsASeq
  <1>8. DOMAIN parsed = DOMAIN list
    BY <1>1, <1>5
  <1>9. \A i \in DOMAIN list :
           parsed[i].id = list[i] /\ (parsed[i].checked <=> list[i] \in labels)
    <2> SUFFICES ASSUME NEW i \in 1 .. n
                 PROVE  parsed[i].id = list[i] /\ (parsed[i].checked <=> list[i] \in labels)
      BY <1>1
    <2>1. (list[i] \in labels) \in BOOLEAN
      OBVIOUS
    <2>2. PICK b \in BOOLEAN : b = (list[i] \in labels)
      BY <2>1, Zenon
    <2>3. parsed[i] = [id |-> list[i], caption |-> list[i], checked |-> b]
      BY <1>6, <2>2, Zenon
    <2>4. parsed[i].id = list[i] /\ parsed[i].checked = b
      BY <2>3
    <2> QED
      BY <2>2, <2>4, Zenon
  <1> QED
    BY <1>7, <1>8, <1>9 DEF parsed

\* An article is read as it was sent.
LEMMA HeadlineRead ==
    ASSUME NEW list \in LabelLists, NEW a \in Int, NEW e \in Annotations,
           e.labels \subseteq ToSet(list), NEW d \in Dialects
    PROVE  ParseHeadline(SendHeadline(a, e, d)) =
              [id |-> a, note |-> e.note, score |-> e.score, labels |-> e.labels]
  <1>1. e.score \in Int
    BY ConstantsAssumption DEF Annotations, Scores
  <1>2. JsInt(SendInt(a, d), 0) = a /\ JsInt(SendInt(e.score, d), 0) = e.score
    BY <1>1, NumberRead
  <1>3. JsStr(SendText(e.note, d)) = e.note
    BY TextRead
  <1>4. {l.caption : l \in ToSet(ParseLabels(SendOwnLabels(e.labels, d)))} = e.labels
    <2>1. IsFiniteSet(ToSet(list))
      BY ConstantsAssumption, LabelsAreFinite
    <2>2. IsFiniteSet(e.labels)
      BY <2>1, FS_Subset
    <2> QED
      BY <2>2, OwnLabelsRead
  <1> DEFINE F == [id |-> SendInt(a, d), note |-> SendText(e.note, d),
                   score |-> SendInt(e.score, d),
                   labels |-> SendOwnLabels(e.labels, d)]
  <1>5. /\ Field(Object(F), "id") = SendInt(a, d)
        /\ Field(Object(F), "note") = SendText(e.note, d)
        /\ Field(Object(F), "score") = SendInt(e.score, d)
        /\ Field(Object(F), "labels") = SendOwnLabels(e.labels, d)
    BY DEF Field, Object
  <1>6. SendHeadline(a, e, d) = Object(F)
    BY DEF SendHeadline
  <1> HIDE DEF F
  <1> QED
    BY <1>2, <1>3, <1>4, <1>5, <1>6 DEF ParseHeadline

-----------------------------------------------------------------------------
(* The copies and the server's annotations keep their types.               *)

\* A value that may stand in a field.
Fits(field, value) ==
    \/ field = "note" /\ value \in Notes \cup {NoText}
    \/ field = "score" /\ value \in Scores

LEMMA UpdateFits ==
    ASSUME NEW field, NEW value, Fits(field, value)
    PROVE  /\ \A e \in Annotations :
                 /\ [e EXCEPT ![field] = value] \in Annotations
                 /\ [e EXCEPT ![field] = value].labels = e.labels
           /\ \A c \in Copies :
                 /\ [c EXCEPT ![field] = value] \in Copies
                 /\ [c EXCEPT ![field] = value].id = c.id
  BY DEF Fits, Annotations, Copies

\* What is read of an article is a copy of it.
LEMMA ReadIsCopy ==
    ASSUME TypeOK, NEW a \in Articles, NEW d \in Dialects
    PROVE  LET c == ParseHeadline(SendHeadline(a, srv[a], d)) IN
           /\ c \in Copies
           /\ c.id = a
           /\ \A f \in Fields : c[f] = srv[a][f]
  <1>1. a \in Int /\ srv[a] \in Annotations /\ labelList \in LabelLists
        /\ srv[a].labels \subseteq ToSet(labelList)
    BY ConstantsAssumption DEF TypeOK
  <1>2. ParseHeadline(SendHeadline(a, srv[a], d)) =
           [id |-> a, note |-> srv[a].note, score |-> srv[a].score,
            labels |-> srv[a].labels]
    BY <1>1, HeadlineRead
  <1> QED
    BY <1>1, <1>2 DEF Copies, Annotations, Fields

\* The target of a change is an article.
LEMMA TargetsAreCopies ==
    ASSUME TypeOK
    PROVE  Targets \subseteq Copies
  BY DEF TypeOK, Targets

LEMMA MutateTypes ==
    ASSUME TypeOK, NEW a \in Articles, NEW field, NEW value, Fits(field, value),
           NEW outcome \in Outcomes, Mutate(a, field, value, outcome)
    PROVE  TypeOK'
  <1>1. UNCHANGED <<labelList, pc, target, pick, next, told>>
    BY DEF Mutate, picker
  <1>2. /\ srv' \in [Articles -> Annotations]
        /\ \A b \in Articles : srv'[b].labels = srv[b].labels
    BY UpdateFits DEF TypeOK, Mutate
  <1>3. /\ DOMAIN rows' \subseteq Articles
        /\ \A b \in DOMAIN rows' : rows'[b] \in Copies /\ rows'[b].id = b
        /\ art' \in Copies \cup {NoArticle}
    <2>1. CASE UNCHANGED client
      BY <2>1 DEF TypeOK, client
    <2>2. CASE Mirror(a, field, value)
      <3>1. art' \in Copies \cup {NoArticle}
        BY <2>2, UpdateFits DEF TypeOK, Mirror
      <3>2. CASE a \in DOMAIN rows
        <4>1. rows' = [rows EXCEPT ![a] = [rows[a] EXCEPT ![field] = value]]
          BY <2>2, <3>2 DEF Mirror
        <4>2. /\ [rows[a] EXCEPT ![field] = value] \in Copies
              /\ [rows[a] EXCEPT ![field] = value].id = a
          BY <3>2, UpdateFits DEF TypeOK
        <4>3. DOMAIN rows' = DOMAIN rows
          BY <4>1
        <4>4. \A b \in DOMAIN rows : b # a => rows'[b] = rows[b]
          BY <4>1
        <4>5. rows'[a] = [rows[a] EXCEPT ![field] = value]
          BY <4>1, <3>2
        <4> QED
          BY <3>1, <4>2, <4>3, <4>4, <4>5 DEF TypeOK
      <3>3. CASE a \notin DOMAIN rows
        BY <2>2, <3>1, <3>3 DEF TypeOK, Mirror
      <3> QED
        BY <3>2, <3>3
    <2> QED
      BY <2>1, <2>2 DEF Mutate
  <1>4. behind' \subseteq {"row", "art"} \X Articles \X Fields
    <2>1. Both(a, field) \subseteq {"row", "art"} \X Articles \X Fields
      BY DEF Both, Fits, Fields
    <2> QED
      BY <2>1 DEF TypeOK, Mutate, Outcomes
  <1>5. writes' \in 0 .. MaxWrites
    BY ConstantsAssumption DEF TypeOK, Mutate, Write
  <1> QED
    BY <1>1, <1>2, <1>3, <1>4, <1>5 DEF TypeOK, Idle

\* A value another client may give a field.
FitsServer(field, value) ==
    \/ Fits(field, value)
    \/ field = "labels" /\ value \in SUBSET ToSet(labelList)

LEMMA OtherTypes ==
    ASSUME TypeOK, NEW a \in Articles, NEW field \in Fields, NEW value,
           FitsServer(field, value), OtherClient(a, field, value)
    PROVE  TypeOK'
  <1>1. UNCHANGED <<labelList, rows, art, pc, target, pick, next, told>>
    BY DEF OtherClient, client, picker
  <1>2. /\ srv' \in [Articles -> Annotations]
        /\ \A b \in Articles : srv'[b].labels \subseteq ToSet(labelList)
    <2>1. CASE Fits(field, value)
      <3> DEFINE e == [srv[a] EXCEPT ![field] = value]
      <3>1. e \in Annotations /\ e.labels = srv[a].labels
        BY <2>1, UpdateFits DEF TypeOK
      <3>2. srv' = [srv EXCEPT ![a] = e]
        BY DEF OtherClient
      <3> HIDE DEF e
      <3> QED
        BY <3>1, <3>2 DEF TypeOK
    <2>2. CASE field = "labels" /\ value \in SUBSET ToSet(labelList)
      <3>1. value \in SUBSET Labels
        BY <2>2 DEF TypeOK, Labels
      <3>2. /\ [srv[a] EXCEPT !.labels = value] \in Annotations
            /\ [srv[a] EXCEPT !.labels = value].labels = value
        BY <3>1 DEF TypeOK, Annotations
      <3> QED
        BY <2>2, <3>2 DEF TypeOK, OtherClient
    <2> QED
      BY <2>1, <2>2 DEF FitsServer
  <1>3. behind' \subseteq {"row", "art"} \X Articles \X Fields
    <2>1. Both(a, field) \subseteq {"row", "art"} \X Articles \X Fields
      BY DEF Both
    <2> QED
      BY <2>1 DEF TypeOK, OtherClient
  <1>4. writes' \in 0 .. MaxWrites
    BY ConstantsAssumption DEF TypeOK, OtherClient, Write
  <1> QED
    BY <1>1, <1>2, <1>3, <1>4 DEF TypeOK, Idle

LEMMA TypeInit == Init => TypeOK
  <1> SUFFICES ASSUME Init PROVE TypeOK
    OBVIOUS
  <1>1. srv \in [Articles -> Annotations]
        /\ \A a \in Articles : srv[a].labels \subseteq ToSet(labelList)
    BY ConstantsAssumption DEF Init, Annotations, Scores
  <1>2. pick \in Seq(Picked) /\ Len(pick) = 0 /\ DOMAIN pick = {}
    BY DEF Init
  <1>3. DOMAIN rows = {}
    BY DEF Init
  <1>4. next \in 1 .. Len(pick) + 1 /\ writes \in 0 .. MaxWrites
    BY <1>2, ConstantsAssumption DEF Init
  <1>5. /\ labelList \in LabelLists
        /\ art = NoArticle /\ Idle /\ target = NoArticle /\ pick = <<>>
        /\ told = "none" /\ behind = {}
    BY DEF Init, Idle
  <1>6. pc \in {"key", "picker", "sending"} /\ told \in {"none", "ok", "error"}
    BY DEF Init
  <1> QED
    BY <1>1, <1>2, <1>3, <1>4, <1>5, <1>6 DEF TypeOK

\* What OpenPicker offers: every label of the server, once.
LEMMA PickerTypes ==
    ASSUME TypeOK, NEW a \in Articles, NEW d \in Dialects
    PROVE  LET labels == ParseLabels(SendLabels(labelList, srv[a].labels, d)) IN
           /\ labels \in Seq(Picked)
           /\ \A i \in DOMAIN labels : labels[i].id \in ToSet(labelList)
           /\ \A i, j \in DOMAIN labels : labels[i].id = labels[j].id => i = j
  <1>1. labelList \in LabelLists /\ srv[a].labels \in SUBSET ToSet(labelList)
    BY DEF TypeOK
  <1> DEFINE parsed == ParseLabels(SendLabels(labelList, srv[a].labels, d))
  <1>2. /\ parsed \in Seq(Picked)
        /\ DOMAIN parsed = DOMAIN labelList
        /\ \A i \in DOMAIN labelList : parsed[i].id = labelList[i]
    BY <1>1, LabelsRead
  <1> HIDE DEF parsed
  <1>3. \A i, j \in DOMAIN labelList : labelList[i] = labelList[j] => i = j
    BY <1>1, ConstantsAssumption
  <1>4. \A i \in DOMAIN labelList : labelList[i] \in ToSet(labelList)
    BY DEF ToSet
  <1>5. /\ parsed \in Seq(Picked)
        /\ \A i \in DOMAIN parsed : parsed[i].id \in ToSet(labelList)
        /\ \A i, j \in DOMAIN parsed : parsed[i].id = parsed[j].id => i = j
    BY <1>2, <1>3, <1>4
  <1> QED
    BY <1>5 DEF parsed

LEMMA TypeStep == TypeOK /\ [Next]_vars => TypeOK'
  <1> SUFFICES ASSUME TypeOK, [Next]_vars PROVE TypeOK'
    OBVIOUS
  <1>1. ASSUME NEW shown \in SUBSET Articles, NEW d \in Dialects, LoadList(shown, d)
        PROVE  TypeOK'
    <2>1. /\ DOMAIN rows' = shown
          /\ \A a \in shown : rows'[a] \in Copies /\ rows'[a].id = a
      BY <1>1, ReadIsCopy DEF LoadList
    <2> QED
      BY <1>1, <2>1 DEF TypeOK, LoadList, picker, Idle
  <1>2. ASSUME NEW a \in Articles, NEW d \in Dialects, Open(a, d)
        PROVE  TypeOK'
    <2>1. art' \in Copies
      BY <1>2, ReadIsCopy DEF Open
    <2> QED
      BY <1>2, <2>1 DEF TypeOK, Open, picker, Idle
  <1>3. CASE OpenFails
    BY <1>3 DEF TypeOK, OpenFails, picker, Idle
  <1>4. ASSUME NEW note \in Notes, NEW outcome \in Outcomes, SetNote(note, outcome)
        PROVE  TypeOK'
    <2>1. PICK h \in Targets : Mutate(h.id, "note", note, outcome)
      BY <1>4 DEF SetNote
    <2>2. h.id \in Articles
      BY TargetsAreCopies DEF Copies
    <2>3. Fits("note", note)
      BY DEF Fits
    <2> QED
      BY <2>1, <2>2, <2>3, MutateTypes
  <1>5. ASSUME NEW delta \in {-1, 1}, NEW outcome \in Outcomes, Score(delta, outcome)
        PROVE  TypeOK'
    <2>1. PICK h \in Targets : /\ h.score + delta \in Scores
                               /\ Mutate(h.id, "score", h.score + delta, outcome)
      BY <1>5 DEF Score
    <2>2. h.id \in Articles
      BY TargetsAreCopies DEF Copies
    <2>3. Fits("score", h.score + delta)
      BY <2>1 DEF Fits
    <2> QED
      BY <2>1, <2>2, <2>3, MutateTypes
  <1>6. ASSUME NEW d \in Dialects, OpenPicker(d)
        PROVE  TypeOK'
    <2>1. PICK h \in Targets :
             /\ pc' = "picker" /\ target' = h.id
             /\ pick' = ParseLabels(SendLabels(labelList, srv[h.id].labels, d))
             /\ pick' # <<>>
      BY <1>6 DEF OpenPicker
    <2>2. h.id \in Articles
      BY TargetsAreCopies DEF Copies
    <2>3. /\ pick' \in Seq(Picked)
          /\ \A i \in DOMAIN pick' : pick'[i].id \in ToSet(labelList)
      BY <2>1, <2>2, PickerTypes
    <2>4. Idle
      BY <1>6 DEF OpenPicker
    <2>5. next \in 1 .. Len(pick') + 1
      <3>1. Len(pick) = 0
        BY <2>4 DEF TypeOK
      <3> QED
        BY <2>3, <3>1 DEF TypeOK
    <2>6. UNCHANGED <<labelList, srv, rows, art, next, told, behind, writes>>
      BY <1>6 DEF OpenPicker, client
    <2> QED
      BY <2>1, <2>2, <2>3, <2>5, <2>6 DEF TypeOK, Idle
  <1>7. ASSUME NEW i \in DOMAIN pick, ToggleLabel(i)
        PROVE  TypeOK'
    <2>1. /\ pick[i] \in Picked
          /\ DOMAIN pick = 1 .. Len(pick)
      BY DEF TypeOK
    <2> DEFINE e == [pick[i] EXCEPT !.checked = ~pick[i].checked]
    <2>2. e \in Picked /\ e.id = pick[i].id
      BY <2>1 DEF Picked
    <2>3. pick' = [pick EXCEPT ![i] = e]
      BY <1>7 DEF ToggleLabel
    <2> HIDE DEF e
    <2>4. /\ pick' \in Seq(Picked) /\ Len(pick') = Len(pick)
          /\ DOMAIN pick' = DOMAIN pick
          /\ \A j \in DOMAIN pick : pick'[j].id = pick[j].id
      BY <2>1, <2>2, <2>3 DEF TypeOK
    <2>5. /\ UNCHANGED <<labelList, srv, client, pc, target, next, told, behind, writes>>
          /\ ~Idle
      BY <1>7 DEF ToggleLabel, Idle
    <2>6. UNCHANGED <<labelList, srv, rows, art, pc, target, next, told, behind, writes>>
      BY <2>5 DEF client
    <2> QED
      BY <2>4, <2>5, <2>6 DEF TypeOK, Idle
  <1>8. ASSUME NEW report \in {"none", "ok", "error"}, Close(report),
               UNCHANGED <<labelList, rows, art>>,
               srv' \in [Articles -> Annotations],
               \A a \in Articles : srv'[a].labels \subseteq ToSet(labelList),
               behind' \subseteq {"row", "art"} \X Articles \X Fields,
               writes' = writes
        PROVE  TypeOK'
    <2>1. pick' \in Seq(Picked) /\ Len(pick') = 0 /\ DOMAIN pick' = {}
      BY <1>8 DEF Close
    <2> QED
      BY <1>8, <2>1 DEF TypeOK, Close, Idle
  <1>9. CASE Cancel
    BY <1>8, <1>9 DEF Cancel, TypeOK, client
  <1>10. CASE Apply
    <2>1. writes' \in 0 .. MaxWrites
      BY <1>10, ConstantsAssumption DEF TypeOK, Apply, Write
    <2>2. 1 \in 1 .. Len(pick) + 1
      BY DEF TypeOK
    <2> QED
      BY <1>10, <2>1, <2>2 DEF TypeOK, Apply, client, Idle
  <1>11. ASSUME NEW outcome \in Outcomes, SendLabel(outcome)
         PROVE  TypeOK'
    <2>1. target \in Articles /\ pick[next] \in Picked /\ pick[next].id \in ToSet(labelList)
      BY <1>11 DEF TypeOK, SendLabel, Idle
    <2>2. /\ Assign(srv[target].labels, pick[next]) \subseteq ToSet(labelList)
          /\ ToSet(labelList) \subseteq Labels
      BY <2>1 DEF TypeOK, Assign, Labels
    <2>3. /\ srv' \in [Articles -> Annotations]
          /\ \A a \in Articles : srv'[a].labels \subseteq ToSet(labelList)
      <3>1. srv[target] \in Annotations
        BY <2>1 DEF TypeOK
      <3> DEFINE e == [srv[target] EXCEPT !.labels = Assign(@, pick[next])]
      <3>2. e \in Annotations /\ e.labels = Assign(srv[target].labels, pick[next])
        BY <2>2, <3>1 DEF Annotations
      <3>3. srv' = srv \/ srv' = [srv EXCEPT ![target] = e]
        BY <1>11 DEF SendLabel, SendOne
      <3> HIDE DEF e
      <3> QED
        BY <2>1, <2>2, <3>2, <3>3 DEF TypeOK
    <2>4. behind' \subseteq {"row", "art"} \X Articles \X Fields
      <3>1. Both(target, "labels") \subseteq {"row", "art"} \X Articles \X Fields
        BY <2>1 DEF Both, Fields
      <3> QED
        BY <1>11, <3>1 DEF TypeOK, SendLabel
    <2>5. UNCHANGED <<labelList, rows, art, writes>>
      BY <1>11 DEF SendLabel, client
    <2>6. CASE Close("error")
      BY <1>8, <2>3, <2>4, <2>5, <2>6
    <2>7. CASE next' = next + 1 /\ UNCHANGED <<pc, target, pick, told>>
      <3>1. next' \in 1 .. Len(pick) + 1
        BY <1>11, <2>7 DEF TypeOK, SendLabel
      <3> QED
        BY <2>3, <2>4, <2>5, <2>7, <3>1 DEF TypeOK, Idle
    <2> QED
      BY <1>11, <2>6, <2>7 DEF SendLabel, SendOne
  <1>12. CASE AllSent
    BY <1>8, <1>12 DEF AllSent, TypeOK, client
  <1>13. ASSUME NEW a \in Articles, NEW note \in Notes \cup {NoText},
                OtherClient(a, "note", note)
         PROVE  TypeOK'
    <2>1. FitsServer("note", note) /\ "note" \in Fields
      BY DEF FitsServer, Fits, Fields
    <2> QED
      BY <1>13, <2>1, OtherTypes
  <1>14. ASSUME NEW a \in Articles, NEW score \in Scores, OtherClient(a, "score", score)
         PROVE  TypeOK'
    <2>1. FitsServer("score", score) /\ "score" \in Fields
      BY DEF FitsServer, Fits, Fields
    <2> QED
      BY <1>14, <2>1, OtherTypes
  <1>15. ASSUME NEW a \in Articles, NEW labels \in SUBSET ToSet(labelList),
                OtherClient(a, "labels", labels)
         PROVE  TypeOK'
    <2>1. FitsServer("labels", labels) /\ "labels" \in Fields
      BY DEF FitsServer, Fields
    <2> QED
      BY <1>15, <2>1, OtherTypes
  <1>16. CASE UNCHANGED vars
    BY <1>16 DEF TypeOK, vars, client, picker, Idle
  <1> QED
    BY <1>1, <1>2, <1>3, <1>4, <1>5, <1>6, <1>7, <1>9, <1>10, <1>11, <1>12, <1>13,
       <1>14, <1>15, <1>16 DEF Next, Sending

\* The copies, the picker and the server's annotations have their types, and
\* every score its bounds, whatever dialect the server speaks.
THEOREM TypeCorrect == Spec => []TypeOK
  <1>1. Init => TypeOK
    BY TypeInit
  <1>2. TypeOK /\ [Next]_vars => TypeOK'
    BY TypeStep
  <1> QED
    BY <1>1, <1>2, PTL DEF Spec

-----------------------------------------------------------------------------
(* The copies agree with the server.                                       *)

\* One field of one article changes on the server, and its copies are known
\* to lag behind.
LEMMA ServerChange ==
    ASSUME TypeOK, CopiesAgree, NEW a \in Articles, NEW f \in Fields,
           UNCHANGED <<rows, art>>, behind' = behind \cup Both(a, f),
           \A b \in Articles, g \in Fields :
              <<b, g>> # <<a, f>> => srv'[b][g] = srv[b][g]
    PROVE  CopiesAgree'
  <1>1. <<"row", a, f>> \in behind' /\ <<"art", a, f>> \in behind'
    BY DEF Both
  <1>2. ASSUME NEW b \in DOMAIN rows', NEW g \in Fields, <<"row", b, g>> \notin behind'
        PROVE  rows'[b][g] = srv'[b][g]
    <2>1. b \in Articles /\ <<b, g>> # <<a, f>> /\ <<"row", b, g>> \notin behind
      BY <1>1, <1>2 DEF TypeOK
    <2> QED
      BY <1>2, <2>1 DEF CopiesAgree
  <1>3. ASSUME art' # NoArticle, NEW g \in Fields, <<"art", art'.id, g>> \notin behind'
        PROVE  art'[g] = srv'[art'.id][g]
    <2>1. /\ art.id \in Articles /\ <<art.id, g>> # <<a, f>>
          /\ <<"art", art.id, g>> \notin behind
      BY <1>1, <1>3 DEF TypeOK, Copies
    <2> QED
      BY <1>3, <2>1 DEF CopiesAgree
  <1> QED
    BY <1>2, <1>3 DEF CopiesAgree

\* A change of one field of an article leaves the others as they were.
LEMMA UpdateElsewhere ==
    ASSUME TypeOK, NEW a \in Articles, NEW f \in Fields, NEW value,
           srv' = [srv EXCEPT ![a] = [srv[a] EXCEPT ![f] = value]]
    PROVE  \A b \in Articles, g \in Fields :
              <<b, g>> # <<a, f>> => srv'[b][g] = srv[b][g]
  <1>1. srv'[a] = [srv[a] EXCEPT ![f] = value]
    BY DEF TypeOK
  <1>2. \A b \in Articles : b # a => srv'[b] = srv[b]
    BY DEF TypeOK
  <1>3. DOMAIN srv[a] = Fields
    BY DEF TypeOK, Annotations, Fields
  <1>4. \A g \in Fields : g # f => srv'[a][g] = srv[a][g]
    BY <1>1, <1>3
  <1> QED
    BY <1>2, <1>4

LEMMA MutateCopies ==
    ASSUME TypeOK, CopiesAgree, NEW a \in Articles, NEW field \in Fields, NEW value,
           NEW outcome \in Outcomes, Mutate(a, field, value, outcome)
    PROVE  CopiesAgree'
  <1>1. CASE outcome = "refused"
    BY <1>1 DEF Mutate, ReachesServer, client, CopiesAgree
  <1>2. CASE outcome = "lost"
    <2>1. /\ srv' = [srv EXCEPT ![a] = [srv[a] EXCEPT ![field] = value]]
          /\ UNCHANGED <<rows, art>>
          /\ behind' = behind \cup Both(a, field)
      BY <1>2 DEF Mutate, ReachesServer, client
    <2> QED
      BY <2>1, ServerChange, UpdateElsewhere
  <1>3. CASE outcome = "ok"
    <2>1. /\ srv' = [srv EXCEPT ![a] = [srv[a] EXCEPT ![field] = value]]
          /\ Mirror(a, field, value)
          /\ behind' = behind \ Both(a, field)
      BY <1>3 DEF Mutate, ReachesServer
    <2>2. /\ srv'[a][field] = value
          /\ \A b \in Articles, g \in Fields :
                <<b, g>> # <<a, field>> => srv'[b][g] = srv[b][g]
      <3>1. srv' = [srv EXCEPT ![a] = [srv[a] EXCEPT ![field] = value]]
        BY <2>1
      <3>2. srv'[a][field] = value
        <4>1. DOMAIN srv = Articles /\ DOMAIN srv[a] = Fields
          BY DEF TypeOK, Annotations, Fields
        <4>2. srv'[a] = [srv[a] EXCEPT ![field] = value]
          BY <3>1, <4>1
        <4> QED
          BY <4>1, <4>2
      <3>3. ASSUME NEW b \in Articles, NEW g \in Fields, <<b, g>> # <<a, field>>
            PROVE  srv'[b][g] = srv[b][g]
        BY <3>1, <3>3, UpdateElsewhere
      <3> QED
        BY <3>2, <3>3
    <2>3. \A b, g, p : <<p, b, g>> \notin behind' =>
                          <<p, b, g>> \notin behind \/ <<b, g>> = <<a, field>>
      BY <2>1 DEF Both
    <2>4. /\ DOMAIN rows' = DOMAIN rows
          /\ \A b \in DOMAIN rows, g \in Fields :
                rows'[b][g] = IF <<b, g>> = <<a, field>> THEN value ELSE rows[b][g]
      <3>1. \A b \in DOMAIN rows : Fields \subseteq DOMAIN rows[b]
        BY DEF TypeOK, Copies, Fields
      <3>2. CASE a \in DOMAIN rows
        <4>1. rows' = [rows EXCEPT ![a] = [rows[a] EXCEPT ![field] = value]]
          BY <2>1, <3>2 DEF Mirror
        <4>2. DOMAIN rows' = DOMAIN rows
          BY <4>1
        <4>3. \A b \in DOMAIN rows : b # a => rows'[b] = rows[b]
          BY <4>1
        <4>4. rows'[a] = [rows[a] EXCEPT ![field] = value]
          BY <3>2, <4>1
        <4>5. \A g \in Fields : rows'[a][g] = IF g = field THEN value ELSE rows[a][g]
          BY <3>1, <3>2, <4>4
        <4> QED
          BY <4>2, <4>3, <4>5
      <3>3. CASE a \notin DOMAIN rows
        BY <2>1, <3>3 DEF Mirror
      <3> QED
        BY <3>2, <3>3
    <2>5. ASSUME art' # NoArticle
          PROVE  /\ art # NoArticle /\ art'.id = art.id /\ art.id \in Articles
                 /\ \A g \in Fields : art'[g] = IF <<art.id, g>> = <<a, field>>
                                                 THEN value ELSE art[g]
      <3>1. art # NoArticle /\ art \in Copies
        BY <2>1, <2>5 DEF Mirror, TypeOK
      <3>2. art.id \in Articles /\ Fields \subseteq DOMAIN art /\ "id" \notin Fields
            /\ "id" \in DOMAIN art
        BY <3>1 DEF Copies, Fields
      <3>3. CASE art.id = a
        <4>1. art' = [art EXCEPT ![field] = value]
          BY <2>1, <3>1, <3>3 DEF Mirror
        <4>2. /\ art'["id"] = art["id"]
              /\ \A g \in Fields : art'[g] = IF g = field THEN value ELSE art[g]
          BY <3>2, <4>1
        <4> QED
          BY <3>1, <3>2, <3>3, <4>2
      <3>4. CASE art.id # a
        BY <2>1, <3>1, <3>2, <3>4 DEF Mirror
      <3> QED
        BY <3>3, <3>4
    <2>6. ASSUME NEW b \in DOMAIN rows', NEW g \in Fields, <<"row", b, g>> \notin behind'
          PROVE  rows'[b][g] = srv'[b][g]
      <3>1. b \in Articles /\ b \in DOMAIN rows
        BY <2>4, <2>6 DEF TypeOK
      <3>2. CASE <<b, g>> = <<a, field>>
        BY <2>2, <2>4, <3>1, <3>2
      <3>3. CASE <<b, g>> # <<a, field>>
        BY <2>2, <2>3, <2>4, <2>6, <3>1, <3>3 DEF CopiesAgree
      <3> QED
        BY <3>2, <3>3
    <2>7. ASSUME art' # NoArticle, NEW g \in Fields, <<"art", art'.id, g>> \notin behind'
          PROVE  art'[g] = srv'[art'.id][g]
      <3>1. CASE <<art.id, g>> = <<a, field>>
        BY <2>2, <2>5, <2>7, <3>1
      <3>2. CASE <<art.id, g>> # <<a, field>>
        BY <2>2, <2>3, <2>5, <2>7, <3>2 DEF CopiesAgree
      <3> QED
        BY <3>1, <3>2
    <2> QED
      BY <2>6, <2>7 DEF CopiesAgree
  <1> QED
    BY <1>1, <1>2, <1>3 DEF Outcomes

LEMMA CopiesStep == TypeOK /\ CopiesAgree /\ [Next]_vars => CopiesAgree'
  <1> SUFFICES ASSUME TypeOK, CopiesAgree, [Next]_vars PROVE CopiesAgree'
    OBVIOUS
  <1>1. ASSUME NEW shown \in SUBSET Articles, NEW d \in Dialects, LoadList(shown, d)
        PROVE  CopiesAgree'
    <2>1. /\ DOMAIN rows' = shown
          /\ \A a \in shown, f \in Fields : rows'[a][f] = srv[a][f]
      BY <1>1, ReadIsCopy DEF LoadList
    <2>2. ASSUME art # NoArticle, NEW f \in Fields, <<"art", art.id, f>> \notin behind'
          PROVE  art[f] = srv[art.id][f]
      <3>1. <<"art", art.id, f>> \notin behind
        BY <1>1, <2>2 DEF LoadList
      <3> QED
        BY <2>2, <3>1 DEF CopiesAgree
    <2>3. UNCHANGED <<srv, art>>
      BY <1>1 DEF LoadList
    <2> QED
      BY <2>1, <2>2, <2>3 DEF CopiesAgree
  <1>2. ASSUME NEW a \in Articles, NEW d \in Dialects, Open(a, d)
        PROVE  CopiesAgree'
    <2>1. art'.id = a /\ \A f \in Fields : art'[f] = srv[a][f]
      BY <1>2, ReadIsCopy DEF Open
    <2>2. ASSUME NEW b \in DOMAIN rows, NEW f \in Fields, <<"row", b, f>> \notin behind'
          PROVE  rows[b][f] = srv[b][f]
      <3>1. <<"row", b, f>> \notin behind
        BY <1>2, <2>2 DEF Open
      <3> QED
        BY <2>2, <3>1 DEF CopiesAgree
    <2>3. UNCHANGED <<srv, rows>>
      BY <1>2 DEF Open
    <2> QED
      BY <2>1, <2>2, <2>3 DEF CopiesAgree
  <1>3. CASE OpenFails
    <2>1. ASSUME NEW b \in DOMAIN rows, NEW f \in Fields, <<"row", b, f>> \notin behind'
          PROVE  rows[b][f] = srv[b][f]
      <3>1. <<"row", b, f>> \notin behind
        BY <1>3, <2>1 DEF OpenFails
      <3> QED
        BY <2>1, <3>1 DEF CopiesAgree
    <2> QED
      BY <1>3, <2>1 DEF OpenFails, CopiesAgree
  <1>4. ASSUME NEW note \in Notes, NEW outcome \in Outcomes, SetNote(note, outcome)
        PROVE  CopiesAgree'
    <2>1. PICK h \in Targets : Mutate(h.id, "note", note, outcome)
      BY <1>4 DEF SetNote
    <2>2. h.id \in Articles /\ "note" \in Fields
      BY TargetsAreCopies DEF Copies, Fields
    <2> QED
      BY <2>1, <2>2, MutateCopies
  <1>5. ASSUME NEW delta \in {-1, 1}, NEW outcome \in Outcomes, Score(delta, outcome)
        PROVE  CopiesAgree'
    <2>1. PICK h \in Targets : Mutate(h.id, "score", h.score + delta, outcome)
      BY <1>5 DEF Score
    <2>2. h.id \in Articles /\ "score" \in Fields
      BY TargetsAreCopies DEF Copies, Fields
    <2> QED
      BY <2>1, <2>2, MutateCopies
  <1>6. ASSUME NEW outcome \in Outcomes, SendLabel(outcome)
        PROVE  CopiesAgree'
    <2>1. target \in Articles /\ "labels" \in Fields
      BY <1>6 DEF TypeOK, SendLabel, Idle, Fields
    <2>2. \A b \in Articles, g \in Fields :
             <<b, g>> # <<target, "labels">> => srv'[b][g] = srv[b][g]
      <3>1. CASE UNCHANGED srv
        BY <3>1
      <3>2. CASE srv' = [srv EXCEPT ![target] =
                           [srv[target] EXCEPT !["labels"] =
                              Assign(srv[target].labels, pick[next])]]
        BY <2>1, <3>2, UpdateElsewhere
      <3> QED
        BY <1>6, <3>1, <3>2 DEF SendLabel, SendOne
    <2>3. UNCHANGED <<rows, art>> /\ behind' = behind \cup Both(target, "labels")
      BY <1>6 DEF SendLabel, client
    <2> QED
      BY <2>1, <2>2, <2>3, ServerChange
  <1>7. ASSUME NEW a \in Articles, NEW f \in Fields, NEW value, OtherClient(a, f, value)
        PROVE  CopiesAgree'
    <2>1. /\ srv' = [srv EXCEPT ![a] = [srv[a] EXCEPT ![f] = value]]
          /\ UNCHANGED <<rows, art>>
          /\ behind' = behind \cup Both(a, f)
      BY <1>7 DEF OtherClient, client
    <2> QED
      BY <2>1, ServerChange, UpdateElsewhere
  <1>8. CASE UNCHANGED <<srv, rows, art, behind>>
    BY <1>8 DEF CopiesAgree
  <1>9. ASSUME NEW d \in Dialects, OpenPicker(d) PROVE CopiesAgree'
    BY <1>8, <1>9 DEF OpenPicker, client
  <1>10. ASSUME NEW i \in DOMAIN pick, ToggleLabel(i) PROVE CopiesAgree'
    <2>1. UNCHANGED <<srv, client, behind>>
      BY <1>10 DEF ToggleLabel
    <2> QED
      BY <1>8, <2>1 DEF client
  <1>11. CASE Cancel \/ Apply \/ AllSent
    BY <1>8, <1>11 DEF Cancel, Apply, AllSent, client
  <1>12. CASE UNCHANGED vars
    BY <1>8, <1>12 DEF vars, client
  <1>13. "note" \in Fields /\ "score" \in Fields /\ "labels" \in Fields
    BY DEF Fields
  <1> QED
    BY <1>1, <1>2, <1>3, <1>4, <1>5, <1>6, <1>7, <1>9, <1>10, <1>11, <1>12, <1>13
       DEF Next, Sending

\* A row and the article on display show what the server has, unless another
\* client changed it, or an answer was lost, since it was read or set here, or
\* labels were picked meanwhile.
THEOREM CopiesAlwaysAgree == Spec => []CopiesAgree
  <1>1. Init => CopiesAgree
    <2> SUFFICES ASSUME Init PROVE CopiesAgree
      OBVIOUS
    <2>1. DOMAIN rows = {} /\ art = NoArticle
      BY DEF Init
    <2> QED
      BY <2>1 DEF CopiesAgree
  <1>2. TypeOK /\ CopiesAgree /\ [Next]_vars => CopiesAgree'
    BY CopiesStep
  <1> QED
    BY <1>1, <1>2, TypeCorrect, PTL DEF Spec

-----------------------------------------------------------------------------
(* The label dialog implements LabelEdit.                                  *)

\* The picker offers no label twice.
PickDistinct == \A i, j \in DOMAIN pick : pick[i].id = pick[j].id => i = j

LEMMA DistinctStep == TypeOK /\ PickDistinct /\ [Next]_vars => PickDistinct'
  <1> SUFFICES ASSUME TypeOK, PickDistinct, [Next]_vars PROVE PickDistinct'
    OBVIOUS
  <1>1. CASE UNCHANGED pick
    BY <1>1 DEF PickDistinct
  <1>2. CASE pick' = <<>>
    <2>1. DOMAIN pick' = {}
      BY <1>2
    <2> QED
      BY <2>1 DEF PickDistinct
  <1>3. ASSUME NEW d \in Dialects, OpenPicker(d) PROVE PickDistinct'
    <2>1. PICK h \in Targets :
             pick' = ParseLabels(SendLabels(labelList, srv[h.id].labels, d))
      BY <1>3 DEF OpenPicker
    <2>2. h.id \in Articles
      BY TargetsAreCopies DEF Copies
    <2> QED
      BY <2>1, <2>2, PickerTypes DEF PickDistinct
  <1>4. ASSUME NEW i \in DOMAIN pick, ToggleLabel(i) PROVE PickDistinct'
    <2>1. pick[i] \in Picked
      BY DEF TypeOK
    <2> DEFINE e == [pick[i] EXCEPT !.checked = ~pick[i].checked]
    <2>2. e.id = pick[i].id
      BY <2>1 DEF Picked
    <2>3. pick' = [pick EXCEPT ![i] = e]
      BY <1>4 DEF ToggleLabel
    <2> HIDE DEF e
    <2>4. DOMAIN pick' = DOMAIN pick /\ \A j \in DOMAIN pick : pick'[j].id = pick[j].id
      BY <2>2, <2>3
    <2> QED
      BY <2>4 DEF PickDistinct
  <1>5. ASSUME NEW outcome \in Outcomes, SendLabel(outcome) PROVE PickDistinct'
    BY <1>1, <1>2, <1>5 DEF SendLabel, SendOne, Close
  <1>6. CASE Cancel \/ AllSent
    BY <1>2, <1>6 DEF Cancel, AllSent, Close
  <1>7. CASE Apply \/ UNCHANGED vars
    BY <1>1, <1>7 DEF Apply, vars, picker
  <1>8. ASSUME UNCHANGED picker PROVE PickDistinct'
    BY <1>1, <1>8 DEF picker
  <1>9. ASSUME NEW shown, NEW d, LoadList(shown, d) PROVE UNCHANGED picker
    BY <1>9 DEF LoadList
  <1>10. ASSUME NEW a, NEW d, Open(a, d) PROVE UNCHANGED picker
    BY <1>10 DEF Open
  <1>11. CASE OpenFails
    BY <1>8, <1>11 DEF OpenFails
  <1>12. ASSUME NEW note, NEW outcome, SetNote(note, outcome) PROVE UNCHANGED picker
    BY <1>12 DEF SetNote, Mutate
  <1>13. ASSUME NEW delta, NEW outcome, Score(delta, outcome) PROVE UNCHANGED picker
    BY <1>13 DEF Score, Mutate
  <1>14. ASSUME NEW a, NEW f, NEW value, OtherClient(a, f, value) PROVE UNCHANGED picker
    BY <1>14 DEF OtherClient
  <1> QED
    BY <1>3, <1>4, <1>5, <1>6, <1>7, <1>8, <1>9, <1>10, <1>11, <1>12, <1>13, <1>14
       DEF Next, Sending

\* As long as no label and nothing of the picker that LabelEdit knows of
\* changes, LabelEdit stutters.
LEMMA EditStutters ==
    ASSUME \A a \in Articles : srv'[a].labels = srv[a].labels,
           \/ UNCHANGED <<pc, target, pick, next, told>>
           \/ ~Editing /\ ~Editing' /\ UNCHANGED told
    PROVE  UNCHANGED Edit!avars
  <1>1. Assigned' = Assigned
    BY DEF Assigned
  <1>2. UNCHANGED <<EditTarget, Chosen, Rest, told>>
    BY DEF EditTarget, Chosen, Rest, Editing
  <1> QED
    BY <1>1, <1>2 DEF Edit!avars

\* A change of a note or a score changes no label.
LEMMA MutateKeepsLabels ==
    ASSUME TypeOK, NEW a \in Articles, NEW field, NEW value, Fits(field, value),
           srv' = [srv EXCEPT ![a] = [srv[a] EXCEPT ![field] = value]]
    PROVE  \A b \in Articles : srv'[b].labels = srv[b].labels
  <1> DEFINE e == [srv[a] EXCEPT ![field] = value]
  <1>1. e.labels = srv[a].labels
    BY UpdateFits DEF TypeOK
  <1>2. srv' = [srv EXCEPT ![a] = e] /\ DOMAIN srv = Articles
    BY DEF TypeOK
  <1> HIDE DEF e
  <1> QED
    BY <1>1, <1>2

\* The step the picker takes when the user applies the choice.
LEMMA ApplyBegins ==
    ASSUME TypeOK, Apply
    PROVE  Edit!ANext
  <1>1. /\ ~Editing /\ Editing' /\ next' = 1 /\ told' = "none"
        /\ UNCHANGED <<srv, target, pick>>
    BY DEF Apply, Editing
  <1>2. target \in Articles
    BY DEF TypeOK, Apply, Idle
  <1>3. Rest' = {pick[i].id : i \in 1 .. Len(pick)}
    BY <1>1 DEF Rest
  <1>4. \A i \in 1 .. Len(pick) : pick[i].id \in Labels
    <2>1. \A i \in 1 .. Len(pick) : pick[i] \in Picked
      BY DEF TypeOK
    <2> QED
      BY <2>1 DEF Picked
  <1>5. Rest' \in SUBSET Labels
    BY <1>3, <1>4
  <1>6. Chosen' \in SUBSET Rest'
    <2>1. Chosen' = {l.id : l \in {k \in ToSet(pick) : k.checked}}
      BY <1>1 DEF Chosen
    <2>2. \A l \in ToSet(pick) : \E i \in 1 .. Len(pick) : l = pick[i]
      BY DEF TypeOK, ToSet
    <2> QED
      BY <1>3, <2>1, <2>2
  <1>7. Edit!Begin(target, Rest', Chosen')
    BY <1>1 DEF Edit!Begin, Assigned, EditTarget
  <1>8. \E a \in Articles, offered \in SUBSET Labels :
           \E choice \in SUBSET offered : Edit!Begin(a, offered, choice)
    BY <1>2, <1>5, <1>6, <1>7
  <1> QED
    BY <1>8 DEF Edit!ANext

\* One request puts one label; any answer but a success ends the dialog.
LEMMA SendPuts ==
    ASSUME TypeOK, PickDistinct, NEW outcome \in Outcomes, SendLabel(outcome)
    PROVE  Edit!ANext
  <1> DEFINE l == pick[next]
  <1>1. /\ target \in Articles /\ target # NoArticle /\ l \in Picked
        /\ next \in DOMAIN pick /\ next \in 1 .. Len(pick) /\ Editing
    BY ConstantsAssumption DEF TypeOK, SendLabel, Idle, Editing
  <1>2. /\ EditTarget = target
        /\ Chosen = {k.id : k \in {k \in ToSet(pick) : k.checked}}
        /\ Rest = {pick[i].id : i \in next .. Len(pick)}
    BY <1>1 DEF EditTarget, Chosen, Rest
  <1>3. l.id \in Rest
    BY <1>1, <1>2
  <1>4. l.id \in Chosen <=> l.checked
    <2>1. \A k \in ToSet(pick) : \E i \in DOMAIN pick : k = pick[i]
      BY DEF ToSet
    <2>2. l \in ToSet(pick)
      BY <1>1 DEF ToSet
    <2> QED
      BY <1>1, <1>2, <2>1, <2>2 DEF PickDistinct
  <1>5. ASSUME srv' = [srv EXCEPT ![target].labels = Assign(@, l)]
        PROVE  Assigned' = Edit!AsChosen(l.id)
    <2>1. srv'[target].labels = Assign(srv[target].labels, l)
      BY <1>1, <1>5 DEF TypeOK, Annotations
    <2>2. \A a \in Articles : a # target => srv'[a].labels = srv[a].labels
      BY <1>1, <1>5 DEF TypeOK
    <2>3. Assign(srv[target].labels, l) =
             IF l.id \in Chosen THEN srv[target].labels \cup {l.id}
                                ELSE srv[target].labels \ {l.id}
      BY <1>4 DEF Assign
    <2> HIDE DEF l
    <2>4. Edit!AsChosen(l.id) =
             [a \in Articles |-> IF a = target THEN Assign(srv[target].labels, l)
                                               ELSE srv[a].labels]
      BY <1>1, <1>2, <2>3 DEF Edit!AsChosen, Assigned
    <2>5. \A a \in Articles :
             srv'[a].labels = IF a = target THEN Assign(srv[target].labels, l)
                                            ELSE srv[a].labels
      BY <2>1, <2>2
    <2> QED
      BY <2>4, <2>5 DEF Assigned
  <1>6. CASE outcome = "ok"
    <2>1. /\ next' = next + 1 /\ UNCHANGED <<pc, target, pick, told>>
          /\ srv' = [srv EXCEPT ![target].labels = Assign(@, l)]
      BY <1>6 DEF SendLabel, SendOne, ReachesServer
    <2>2. Rest' = Rest \ {l.id}
      <3>1. \A i \in next .. Len(pick) : i # next => pick[i].id # l.id
        BY <1>1 DEF PickDistinct, TypeOK
      <3>2. \A i : i \in next .. Len(pick) <=> i = next \/ i \in (next + 1) .. Len(pick)
        BY <1>1
      <3>3. Rest' = {pick[i].id : i \in (next + 1) .. Len(pick)}
        BY <1>1, <2>1 DEF Rest, Editing
      <3>4. next \notin (next + 1) .. Len(pick)
        BY <1>1
      <3> QED
        BY <1>2, <3>1, <3>2, <3>3, <3>4
    <2>3. UNCHANGED <<EditTarget, Chosen, told>>
      BY <2>1 DEF EditTarget, Chosen, Editing
    <2>4. Edit!Put(l.id)
      BY <1>3, <1>5, <2>1, <2>2, <2>3 DEF Edit!Put
    <2> QED
      BY <1>3, <2>4 DEF Edit!ANext
  <1>7. CASE outcome # "ok"
    <2>1. Close("error")
      BY <1>7 DEF SendLabel, SendOne
    <2>2. EditTarget' = NoArticle /\ Chosen' = {} /\ Rest' = {} /\ told' = "error"
      BY <2>1 DEF Close, EditTarget, Chosen, Rest, Editing
    <2>3. Edit!End("error")
      BY <1>1, <1>2, <2>2 DEF Edit!End
    <2>4. Assigned' = Assigned \/ Assigned' = Edit!AsChosen(l.id)
      <3>1. CASE srv' = srv
        BY <3>1 DEF Assigned
      <3> QED
        BY <1>5, <3>1 DEF SendLabel, SendOne
    <2>5. Edit!Fail(l.id)
      BY <1>3, <2>3, <2>4 DEF Edit!Fail
    <2> QED
      BY <1>3, <2>5 DEF Edit!ANext
  <1> QED
    BY <1>6, <1>7

\* Another client's change of labels is one of LabelEdit.
LEMMA OtherLabels ==
    ASSUME TypeOK, NEW a \in Articles, NEW labels \in SUBSET ToSet(labelList),
           OtherClient(a, "labels", labels)
    PROVE  Edit!ANext
  <1>1. labels \in SUBSET Labels
    BY DEF TypeOK, Labels
  <1>2. srv' = [srv EXCEPT ![a] = [srv[a] EXCEPT !["labels"] = labels]]
    BY DEF OtherClient
  <1>3. srv'[a].labels = labels
    BY <1>2 DEF TypeOK, Annotations
  <1>4. \A b \in Articles : b # a => srv'[b].labels = srv[b].labels
    BY <1>2 DEF TypeOK
  <1>5. Assigned' = [Assigned EXCEPT ![a] = labels]
    BY <1>3, <1>4 DEF Assigned
  <1>6. UNCHANGED <<EditTarget, Chosen, Rest, told>>
    BY DEF OtherClient, picker, EditTarget, Chosen, Rest, Editing
  <1>7. Edit!Other(a, labels)
    BY <1>5, <1>6 DEF Edit!Other
  <1> QED
    BY <1>1, <1>7 DEF Edit!ANext

LEMMA EditStep ==
    TypeOK /\ PickDistinct /\ [Next]_vars => [Edit!ANext]_(Edit!avars)
  <1> SUFFICES ASSUME TypeOK, PickDistinct, [Next]_vars
               PROVE  Edit!ANext \/ UNCHANGED Edit!avars
    OBVIOUS
  <1>1. ASSUME UNCHANGED <<srv, picker>> PROVE UNCHANGED Edit!avars
    BY <1>1, EditStutters DEF picker
  <1>2. ASSUME UNCHANGED srv, ~Editing, ~Editing', UNCHANGED told
        PROVE  UNCHANGED Edit!avars
    BY <1>2, EditStutters
  <1>3. ASSUME NEW a \in Articles, NEW field, NEW value, Fits(field, value),
               UNCHANGED picker,
               \/ srv' = srv
               \/ srv' = [srv EXCEPT ![a] = [srv[a] EXCEPT ![field] = value]]
        PROVE  UNCHANGED Edit!avars
    <2>1. \A b \in Articles : srv'[b].labels = srv[b].labels
      BY <1>3, MutateKeepsLabels
    <2> QED
      BY <1>3, <2>1, EditStutters DEF picker
  <1>4. ASSUME NEW shown, NEW d, LoadList(shown, d) PROVE UNCHANGED <<srv, picker>>
    BY <1>4 DEF LoadList
  <1>5. ASSUME NEW a, NEW d, Open(a, d) PROVE UNCHANGED <<srv, picker>>
    BY <1>5 DEF Open
  <1>6. CASE OpenFails
    BY <1>1, <1>6 DEF OpenFails
  <1>7. ASSUME NEW note \in Notes, NEW outcome \in Outcomes, SetNote(note, outcome)
        PROVE  UNCHANGED Edit!avars
    <2>1. PICK h \in Targets : Mutate(h.id, "note", note, outcome)
      BY <1>7 DEF SetNote
    <2>2. h.id \in Articles /\ Fits("note", note)
      BY TargetsAreCopies DEF Copies, Fits
    <2> QED
      BY <1>3, <2>1, <2>2 DEF Mutate
  <1>8. ASSUME NEW delta \in {-1, 1}, NEW outcome \in Outcomes, Score(delta, outcome)
        PROVE  UNCHANGED Edit!avars
    <2>1. PICK h \in Targets : /\ h.score + delta \in Scores
                               /\ Mutate(h.id, "score", h.score + delta, outcome)
      BY <1>8 DEF Score
    <2>2. h.id \in Articles /\ Fits("score", h.score + delta)
      BY <2>1, TargetsAreCopies DEF Copies, Fits
    <2> QED
      BY <1>3, <2>1, <2>2 DEF Mutate
  <1>9. ASSUME NEW d \in Dialects, OpenPicker(d) PROVE UNCHANGED Edit!avars
    BY <1>2, <1>9 DEF OpenPicker, Editing, Idle
  <1>10. ASSUME NEW i \in DOMAIN pick, ToggleLabel(i) PROVE UNCHANGED Edit!avars
    <2>1. UNCHANGED <<srv, pc, told>> /\ pc = "picker"
      BY <1>10 DEF ToggleLabel
    <2> QED
      BY <1>2, <2>1 DEF Editing
  <1>11. CASE Cancel
    BY <1>2, <1>11 DEF Cancel, Close, Editing
  <1>12. CASE Apply
    BY <1>12, ApplyBegins
  <1>13. ASSUME NEW outcome \in Outcomes, SendLabel(outcome) PROVE Edit!ANext
    BY <1>13, SendPuts
  <1>14. CASE AllSent
    <2>1. Editing /\ ~Editing' /\ told' = "ok" /\ UNCHANGED srv
      BY <1>14 DEF AllSent, Close, Editing
    <2>2. Rest = {}
      <3>1. next .. Len(pick) = {}
        BY <1>14 DEF AllSent, TypeOK
      <3> QED
        BY <3>1 DEF Rest
    <2>3. EditTarget = target /\ target # NoArticle
      BY <2>1, ConstantsAssumption DEF EditTarget, Editing, TypeOK, Idle
    <2>4. EditTarget' = NoArticle /\ Chosen' = {} /\ Rest' = {} /\ Assigned' = Assigned
      BY <2>1 DEF EditTarget, Chosen, Rest, Assigned
    <2>5. Edit!Succeed
      BY <2>1, <2>2, <2>3, <2>4 DEF Edit!Succeed, Edit!End
    <2> QED
      BY <2>5 DEF Edit!ANext
  <1>15. ASSUME NEW a \in Articles, NEW note \in Notes \cup {NoText},
                OtherClient(a, "note", note)
         PROVE  UNCHANGED Edit!avars
    BY <1>3, <1>15 DEF OtherClient, Fits
  <1>16. ASSUME NEW a \in Articles, NEW score \in Scores, OtherClient(a, "score", score)
         PROVE  UNCHANGED Edit!avars
    BY <1>3, <1>16 DEF OtherClient, Fits
  <1>17. ASSUME NEW a \in Articles, NEW labels \in SUBSET ToSet(labelList),
                OtherClient(a, "labels", labels)
         PROVE  Edit!ANext
    BY <1>17, OtherLabels
  <1>18. CASE UNCHANGED vars
    BY <1>1, <1>18 DEF vars
  <1> QED
    BY <1>1, <1>4, <1>5, <1>6, <1>7, <1>8, <1>9, <1>10, <1>11, <1>12, <1>13, <1>14,
       <1>15, <1>16, <1>17, <1>18 DEF Next, Sending

\* "Labels updated" is said only when every label of the picker has been set
\* or cleared as the user chose; after a failure no label is sent any more.
THEOREM KeepsLabelSafety == Spec => Edit!ASafety
  <1>1. Init => Edit!AInit
    <2> SUFFICES ASSUME Init PROVE Edit!AInit
      OBVIOUS
    <2>1. Assigned \in [Articles -> SUBSET Labels]
      BY DEF Init, Assigned
    <2>2. EditTarget = NoArticle /\ Chosen = {} /\ Rest = {} /\ told = "none"
      BY DEF Init, EditTarget, Chosen, Rest, Editing
    <2> QED
      BY <2>1, <2>2 DEF Edit!AInit
  <1>2. Init => PickDistinct
    <2> SUFFICES ASSUME Init PROVE PickDistinct
      OBVIOUS
    <2>1. DOMAIN pick = {}
      BY DEF Init
    <2> QED
      BY <2>1 DEF PickDistinct
  <1>3. TypeOK /\ PickDistinct /\ [Next]_vars => PickDistinct'
    BY DistinctStep
  <1>4. TypeOK /\ PickDistinct /\ [Next]_vars => [Edit!ANext]_(Edit!avars)
    BY EditStep
  <1> QED
    BY <1>1, <1>2, <1>3, <1>4, TypeCorrect, PTL DEF Spec, Edit!ASafety

\* Only OpenPicker opens the picker.
LEMMA PickerIsOpened ==
    ASSUME [Next]_vars, Idle, pc' = "picker"
    PROVE  \E d \in Dialects : OpenPicker(d)
  <1>1. pc = "key" /\ pc' # pc
    BY DEF Idle
  <1>2. /\ ~ \E shown \in SUBSET Articles, d \in Dialects : LoadList(shown, d)
        /\ ~ \E a \in Articles, d \in Dialects : Open(a, d)
        /\ ~ OpenFails
    BY <1>1 DEF LoadList, Open, OpenFails, picker
  <1>3. /\ ~ \E note \in Notes, outcome \in Outcomes : SetNote(note, outcome)
        /\ ~ \E delta \in {-1, 1}, outcome \in Outcomes : Score(delta, outcome)
    BY <1>1 DEF SetNote, Score, Mutate, picker
  <1>4. ~ (\E i \in DOMAIN pick : ToggleLabel(i)) /\ ~ Cancel /\ ~ Apply /\ ~ Sending
    BY <1>1 DEF ToggleLabel, Cancel, Apply, Sending, SendLabel, AllSent
  <1>5. /\ ~ \E a \in Articles, note \in Notes \cup {NoText} : OtherClient(a, "note", note)
        /\ ~ \E a \in Articles, score \in Scores : OtherClient(a, "score", score)
        /\ ~ \E a \in Articles, labels \in SUBSET ToSet(labelList) :
                OtherClient(a, "labels", labels)
    BY <1>1 DEF OtherClient, picker
  <1>6. ~ UNCHANGED vars
    BY <1>1 DEF vars, picker
  <1> QED
    BY <1>2, <1>3, <1>4, <1>5, <1>6 DEF Next

\* The picker opens with every label of the server, each checked exactly when
\* the article has it, in whichever dialect getLabels is answered.
THEOREM PickerAlwaysShowsServer == Spec => PickerShowsServer
  <1> DEFINE Shows == Idle /\ pc' = "picker" =>
          /\ [i \in DOMAIN pick' |-> pick'[i].id] = labelList
          /\ \A i \in DOMAIN pick' :
                pick'[i].checked <=> pick'[i].id \in srv[target'].labels
  <1>1. TypeOK /\ [Next]_vars => [Shows]_vars
    <2> SUFFICES ASSUME TypeOK, [Next]_vars, Idle, pc' = "picker"
                 PROVE  /\ [i \in DOMAIN pick' |-> pick'[i].id] = labelList
                        /\ \A i \in DOMAIN pick' :
                              pick'[i].checked <=> pick'[i].id \in srv[target'].labels
      OBVIOUS
    <2>1. PICK d \in Dialects : OpenPicker(d)
      BY PickerIsOpened
    <2>2. PICK h \in Targets :
             target' = h.id
             /\ pick' = ParseLabels(SendLabels(labelList, srv[h.id].labels, d))
      BY <2>1 DEF OpenPicker
    <2>3. labelList \in LabelLists /\ labelList \in Seq(Int)
      BY ConstantsAssumption DEF TypeOK
    <2>4. /\ pick' \in Seq(Picked)
          /\ DOMAIN pick' = DOMAIN labelList
          /\ \A i \in DOMAIN labelList :
                pick'[i].id = labelList[i]
                /\ (pick'[i].checked <=> labelList[i] \in srv[target'].labels)
      BY <2>2, <2>3, LabelsRead
    <2>5. labelList = [i \in DOMAIN labelList |-> labelList[i]]
      BY <2>3
    <2>6. [i \in DOMAIN pick' |-> pick'[i].id] = labelList
      BY <2>4, <2>5
    <2> QED
      BY <2>4, <2>6
  <1> QED
    BY <1>1, TypeCorrect, PTL DEF Spec, PickerShowsServer
=============================================================================
