----------------------------- MODULE TextProofs -----------------------------
(***************************************************************************)
(* Proofs about the text of an article: no loop leaves its input, no line  *)
(* is too wide, and no letter is lost.                                     *)
(***************************************************************************)
EXTENDS Text, TLAPS, WellFoundedInduction, SequenceTheorems, FiniteSetTheorems

-----------------------------------------------------------------------------
(* The places the loops go on from.                                        *)

\* A set of numbers that is not empty has a least one.
LEMMA LeastExists ==
    ASSUME NEW T \in SUBSET Nat, T # {}
    PROVE  \E x \in T : \A y \in T : x <= y
  <1>1. IsWellFoundedOn(OpToRel(<, Nat), Nat)
    BY NatLessThanWellFounded
  <1>2. \E x \in T : \A y \in T : ~(<<y, x>> \in OpToRel(<, Nat))
    BY <1>1, WFMin
  <1>3. \A x, y \in Nat : <<y, x>> \in OpToRel(<, Nat) <=> y < x
    BY DEF OpToRel
  <1>4. PICK x \in T : \A y \in T : ~(<<y, x>> \in OpToRel(<, Nat))
    BY <1>2
  <1>5. ASSUME NEW y \in T PROVE x <= y
    <2>1. x \in Nat /\ y \in Nat
      BY <1>4
    <2>2. ~(y < x)
      BY <1>3, <1>4, <2>1
    <2> QED
      BY <2>1, <2>2
  <1> QED
    BY <1>5

LEMMA NextOfType ==
    ASSUME NEW tokens, input \in Seq(Tokens), NEW i \in Nat \ {0}
    PROVE  /\ NextOf(tokens, i) \in 0 .. Len(input)
           /\ NextOf(tokens, i) # 0 => NextOf(tokens, i) >= i
  <1> DEFINE places == {j \in i .. Len(input) : input[j] \in tokens}
  <1>1. CASE places = {}
    BY <1>1 DEF NextOf
  <1>2. CASE places # {}
    <2>1. places \in SUBSET Nat
      OBVIOUS
    <2>2. \E x \in places : \A y \in places : x <= y
      BY <1>2, <2>1, LeastExists
    <2>3. NextOf(tokens, i) = CHOOSE x \in places : \A y \in places : x <= y
      BY <1>2 DEF NextOf
    <2> DEFINE least == CHOOSE x \in places : \A y \in places : x <= y
    <2>4. least \in places
      BY <2>2
    <2> HIDE DEF least
    <2>5. least \in i .. Len(input)
      BY <2>4
    <2> QED
      BY <2>3, <2>5 DEF least
  <1> QED
    BY <1>1, <1>2

\* What is left of a sequence without its end.
LEMMA TrimType ==
    ASSUME NEW S, NEW s \in Seq(S), NEW tokens
    PROVE  /\ Trim(s, tokens) \in Seq(S)
           /\ Len(Trim(s, tokens)) <= Len(s)
  <1> DEFINE T == {n \in 0 .. Len(s) : \A i \in n + 1 .. Len(s) : s[i] \in tokens}
             Ok(n) == /\ n = 0 \/ s[n] \notin tokens
                      /\ \A i \in n + 1 .. Len(s) : s[i] \in tokens
  <1>1. Len(s) \in T /\ T \in SUBSET Nat
    OBVIOUS
  <1>2. PICK n \in T : \A m \in T : n <= m
    BY <1>1, LeastExists
  <1>3. Ok(n)
    <2>1. CASE n # 0 /\ s[n] \in tokens
      <3>1. n - 1 \in T
        BY <1>2, <2>1
      <3>2. n \in Nat
        BY <1>1, <1>2
      <3>3. n <= n - 1
        <4> HIDE DEF T
        <4> QED
          BY <1>2, <3>1
      <3> QED
        BY <3>2, <3>3
    <2> QED
      BY <1>2, <2>1
  <1>4. \E k \in 0 .. Len(s) : Ok(k)
    BY <1>2, <1>3
  <1> DEFINE k == CHOOSE k \in 0 .. Len(s) : Ok(k)
  <1>5. k \in 0 .. Len(s)
    BY <1>4
  <1>6. Trim(s, tokens) = SubSeq(s, 1, k)
    BY DEF Trim
  <1> HIDE DEF k, Ok
  <1> QED
    BY <1>5, <1>6, SubSeqProperties

-----------------------------------------------------------------------------
(* Types.                                                                  *)

\* Until the text is wrapped there are no lines.
NoLinesYet ==
    phase \in {"scan", "squeeze"} => line = None /\ word = None /\ lines = <<>>

\* The numbers a stretch holds.
LEMMA StretchOf ==
    ASSUME TypeOK, NEW s \in Stretches
    PROVE  s[1] \in Nat /\ s[2] \in Nat /\ 1 <= s[1] /\ s[2] <= Len(input)
           /\ s # None
  BY DEF Stretches, None

LEMMA MakeStretch ==
    ASSUME NEW i \in Nat, NEW j \in Nat, 1 <= i, j <= Len(input)
    PROVE  <<i, j>> \in Stretches
  BY DEF Stretches

LEMMA TypeInit == Init => TypeOK /\ NoLinesYet
  <1> SUFFICES ASSUME Init PROVE TypeOK /\ NoLinesYet
    OBVIOUS
  <1>1. input \in (IF phase = "scan" THEN Seq(Tokens) ELSE Texts)
    BY InputsAssumption DEF Init
  <1>2. input \in Seq(Tokens) \/ input \in Seq(Letters \cup Blanks)
    BY <1>1 DEF Texts
  <1>3. pos \in 1 .. Len(input) + 1
    BY <1>2 DEF Init
  <1>4. out \in Texts /\ lines \in Seq(Stretches)
    BY DEF Init, Texts
  <1>5. phase \in {"scan", "squeeze", "wrap", "done"} /\ fresh \in BOOLEAN
        /\ newlines \in Nat /\ line = None /\ word = None /\ lines = <<>>
    BY DEF Init
  <1> QED
    BY <1>1, <1>3, <1>4, <1>5 DEF TypeOK, NoLinesYet

LEMMA ScanTypes ==
    ASSUME TypeOK, NoLinesYet, Scan
    PROVE  TypeOK' /\ NoLinesYet'
  <1>1. /\ phase = "scan" /\ input \in Seq(Tokens) /\ pos \in 1 .. Len(input)
        /\ UNCHANGED <<phase, input, newlines, line, word, fresh, lines>>
    <2>1. phase = "scan" /\ pos <= Len(input) /\ UNCHANGED <<phase, input, newlines>>
      BY DEF Scan
    <2>2. UNCHANGED <<line, word, fresh, lines>>
      BY DEF Scan, wrapVars
    <2>3. input \in Seq(Tokens)
      BY <2>1 DEF TypeOK
    <2>4. pos \in 1 .. Len(input)
      BY <2>1, <2>3 DEF TypeOK
    <2> QED
      BY <2>1, <2>2, <2>3, <2>4
  <1>2. ASSUME NEW c \in Letters \cup Blanks, NEW next \in 1 .. Len(input) + 1,
               Put(c, next)
        PROVE  pos' \in 1 .. Len(input) + 1 /\ out' \in Texts
    BY <1>2 DEF Put, TypeOK, Texts
  <1>3. ASSUME NEW next \in 1 .. Len(input) + 1, Skip(next)
        PROVE  pos' \in 1 .. Len(input) + 1 /\ out' \in Texts
    BY <1>3 DEF Skip, TypeOK
  <1>4. "x" \in Letters \cup Blanks /\ "newline" \in Letters \cup Blanks
    BY DEF Letters, Blanks
  <1>5. /\ TagEnd \in 0 .. Len(input)
        /\ pos + 1 \in 1 .. Len(input) + 1
        /\ TagEnd # 0 => TagEnd + 1 \in 1 .. Len(input) + 1
    BY <1>1, NextOfType DEF TagEnd
  <1>6. AfterComment \in 1 .. Len(input) + 1
    BY <1>1, NextOfType DEF AfterComment
  <1>7. TagEnd # 0 => AfterHidden \in 1 .. Len(input) + 1
    BY <1>1, <1>5, NextOfType DEF AfterHidden
  <1>8. pos' \in 1 .. Len(input) + 1 /\ out' \in Texts
    <2>1. CASE Skip(AfterComment)
      BY <1>3, <1>6, <2>1
    <2>2. CASE Stray
      BY <1>2, <1>4, <1>5, <2>2 DEF Stray
    <2>3. CASE TagEnd # 0 /\ Skip(AfterHidden)
      BY <1>3, <1>7, <2>3
    <2>4. CASE TagEnd # 0 /\ (Put("newline", TagEnd + 1) \/ Skip(TagEnd + 1))
      BY <1>2, <1>3, <1>4, <1>5, <2>4
    <2>5. CASE input[pos] \in Letters \cup Blanks /\ Put(input[pos], pos + 1)
      BY <1>2, <1>5, <2>5
    <2>6. CASE Put("x", pos + 1)
      BY <1>2, <1>4, <1>5, <2>6
    <2> QED
      BY <2>1, <2>2, <2>3, <2>4, <2>5, <2>6 DEF Scan
  <1> QED
    BY <1>1, <1>8 DEF TypeOK, NoLinesYet, Stretches

LEMMA HtmlTypes ==
    ASSUME TypeOK, NoLinesYet, StartSqueeze \/ Squeeze \/ StartWrap
    PROVE  TypeOK' /\ NoLinesYet'
  <1>1. /\ line = None /\ word = None /\ lines = <<>>
        /\ UNCHANGED <<line, word, fresh, lines>>
    BY DEF StartSqueeze, Squeeze, StartWrap, NoLinesYet, wrapVars
  <1>2. NoLinesYet'
    BY <1>1 DEF NoLinesYet
  <1>3. lines' \in Seq(Stretches') /\ line' = None /\ word' = None /\ fresh' \in BOOLEAN
    BY <1>1 DEF TypeOK
  <1>4. ASSUME phase' \in {"squeeze", "wrap"}, input' \in Texts,
               pos' \in 1 .. Len(input') + 1, out' \in Texts, newlines' \in Nat
        PROVE  TypeOK'
    BY <1>3, <1>4 DEF TypeOK
  <1>5. CASE StartSqueeze
    <2>1. out \in Seq(Letters \cup Blanks)
      BY DEF TypeOK, Texts
    <2>2. 1 \in 1 .. Len(out) + 1
      BY <2>1
    <2>3. <<>> \in Texts
      BY DEF Texts
    <2> QED
      BY <1>2, <1>4, <1>5, <2>2, <2>3 DEF StartSqueeze, TypeOK
  <1>6. CASE StartWrap
    <2>1. Trim(out, Blanks) \in Texts
      BY TrimType DEF TypeOK, Texts
    <2>2. 1 \in 1 .. Len(Trim(out, Blanks)) + 1
      BY <2>1 DEF Texts
    <2> QED
      BY <1>2, <1>4, <1>6, <2>1, <2>2 DEF StartWrap, TypeOK, htmlVars
  <1>7. CASE Squeeze
    <2>1. /\ phase' = "squeeze" /\ input' = input /\ input \in Texts
          /\ pos' = pos + 1 /\ pos <= Len(input)
      BY <1>7 DEF Squeeze, TypeOK
    <2>2. pos' \in 1 .. Len(input) + 1
      BY <2>1 DEF TypeOK
    <2>3. newlines' \in Nat
      BY <1>7 DEF Squeeze, TypeOK
    <2>4. out' \in Texts
      <3> DEFINE S == Letters \cup Blanks
      <3>1. out \in Seq(S) /\ "newline" \in S /\ "space" \in S
        BY DEF TypeOK, Texts, Blanks
      <3>2. Trim(out, {"space"}) \in Seq(S)
        BY <3>1, TrimType
      <3>3. <<"newline">> \in Seq(S) /\ <<>> \in Seq(S)
        BY <3>1
      <3>4. Trim(out, {"space"}) \o <<"newline">> \in Seq(S)
            /\ Trim(out, {"space"}) \o <<>> \in Seq(S)
        BY <3>2, <3>3, ConcatProperties
      <3>5. \A c \in S : Append(out, c) \in Seq(S)
        BY <3>1
      <3> QED
        BY <1>7, <3>1, <3>4, <3>5 DEF Squeeze, Texts
    <2> QED
      BY <1>2, <1>4, <2>1, <2>2, <2>3, <2>4
  <1> QED
    BY <1>5, <1>6, <1>7

\* What a step of render_wrap reads and leaves alone.
LEMMA WrapFrame ==
    ASSUME TypeOK, Wrap
    PROVE  /\ phase = "wrap" /\ input \in Seq(Letters \cup Blanks)
           /\ DOMAIN input = 1 .. Len(input)
           /\ pos \in Nat /\ 1 <= pos /\ pos <= Len(input) + 1
           /\ UNCHANGED <<input, out, newlines>>
           /\ Flushed \in Seq(Stretches)
  <1>1. phase = "wrap"
    BY DEF Wrap
  <1>2. input \in Seq(Letters \cup Blanks)
    BY <1>1 DEF TypeOK, Texts
  <1>3. pos \in Nat /\ 1 <= pos /\ pos <= Len(input) + 1
    BY <1>2 DEF TypeOK
  <1>4. UNCHANGED <<input, htmlVars>>
    BY DEF Wrap, EmptyParagraph, EndParagraph, Blank, Finish, Word, Cut, Rest
  <1>5. Flushed \in Seq(Stretches)
    BY DEF Flushed, TypeOK
  <1> QED
    BY <1>1, <1>2, <1>3, <1>4, <1>5 DEF htmlVars

LEMMA WrapTypes ==
    ASSUME TypeOK, Wrap
    PROVE  TypeOK' /\ NoLinesYet'
  <1>1. /\ phase = "wrap" /\ input \in Seq(Letters \cup Blanks)
        /\ pos \in Nat /\ 1 <= pos /\ pos <= Len(input) + 1
        /\ UNCHANGED <<input, out, newlines>>
        /\ Flushed \in Seq(Stretches)
    BY WrapFrame
  <1>2. Stretches' = Stretches
    BY <1>1 DEF Stretches
  <1>3. ASSUME phase' \in {"wrap", "done"}, pos' \in 1 .. Len(input) + 1,
               line' \in Stretches \cup {None}, word' \in Stretches \cup {None},
               fresh' \in BOOLEAN, lines' \in Seq(Stretches)
        PROVE  TypeOK' /\ NoLinesYet'
    <2>1. NoLinesYet'
      BY <1>3 DEF NoLinesYet
    <2>2. input' \in Texts /\ out' \in Texts /\ newlines' \in Nat
      BY <1>1 DEF TypeOK, Texts
    <2> QED
      BY <1>1, <1>2, <1>3, <2>1, <2>2 DEF TypeOK
  <1>4. CASE word = None /\ EmptyParagraph
    <2>1. <<pos, pos - 1>> \in Stretches
      BY <1>1, MakeStretch
    <2>2. lines' \in Seq(Stretches)
      BY <1>1, <1>4, <2>1 DEF EmptyParagraph
    <2>3. pos' \in 1 .. Len(input) + 1 /\ phase' \in {"wrap", "done"}
      BY <1>1, <1>4 DEF EmptyParagraph
    <2>4. line' = None /\ word' = word /\ fresh' = fresh
      BY <1>4 DEF EmptyParagraph
    <2> QED
      BY <1>3, <2>2, <2>3, <2>4 DEF TypeOK
  <1>5. CASE word = None /\ (EndParagraph \/ Blank)
    <2>1. /\ pos <= Len(input) /\ pos' = pos + 1
          /\ phase' = phase /\ line' = line /\ word' = word /\ lines' = lines
      BY <1>5 DEF EndParagraph, Blank
    <2>2. fresh' \in BOOLEAN
      BY <1>5, Zenon DEF EndParagraph, Blank
    <2>3. pos' \in 1 .. Len(input) + 1
      BY <1>1, <2>1
    <2> QED
      BY <1>1, <1>3, <2>1, <2>2, <2>3 DEF TypeOK
  <1>6. CASE word = None /\ Finish
    <2>1. UNCHANGED <<pos, word, fresh>> /\ line' = None /\ phase' = "done"
          /\ lines' = Flushed
      BY <1>6 DEF Finish
    <2> QED
      BY <1>1, <1>3, <2>1 DEF TypeOK
  <1>7. ASSUME word = None, NEW j \in pos .. Len(input), Word(j)
        PROVE  TypeOK' /\ NoLinesYet'
    <2>0. pos' = j + 1 /\ fresh' = FALSE /\ phase' = phase
      BY <1>7 DEF Word
    <2>1. pos' \in 1 .. Len(input) + 1 /\ fresh' \in BOOLEAN /\ phase' = phase
      <3>1. j + 1 \in 1 .. Len(input) + 1
        BY <1>1
      <3> QED
        BY <2>0, <3>1
    <2>2. CASE Fits(j)
      <3>1. line \in Stretches
        BY <2>2 DEF Fits, TypeOK
      <3>2. <<line[1], j>> \in Stretches
        BY <1>1, <3>1, StretchOf, MakeStretch
      <3> QED
        BY <1>1, <1>3, <1>7, <2>1, <2>2, <3>2 DEF Word, TypeOK
    <2>3. CASE ~Fits(j)
      <3>1. <<pos, j>> \in Stretches
        BY <1>1, MakeStretch
      <3> QED
        BY <1>1, <1>3, <1>7, <2>1, <2>3, <3>1 DEF Word
    <2> QED
      BY <2>2, <2>3
  <1>8. ASSUME word # None, NEW k \in word[1] - 1 .. word[2] - 1, Cut(k)
        PROVE  TypeOK' /\ NoLinesYet'
    <2>1. word \in Stretches
      BY <1>8 DEF TypeOK
    <2>2. k \in Nat /\ 0 <= k /\ k < Len(input) /\ word[1] \in Nat /\ 1 <= word[1]
          /\ word[2] \in Nat /\ word[2] <= Len(input)
      BY <1>8, <2>1, StretchOf
    <2>3. <<word[1], k>> \in Stretches /\ <<k + 1, word[2]>> \in Stretches
      BY <2>2, MakeStretch
    <2>4. lines' \in Seq(Stretches)
      BY <1>8, <2>3 DEF Cut, TypeOK
    <2> QED
      BY <1>1, <1>3, <1>8, <2>3, <2>4 DEF Cut, TypeOK
  <1>9. CASE word # None /\ Rest
    BY <1>1, <1>3, <1>9 DEF Rest, TypeOK
  <1> QED
    BY <1>4, <1>5, <1>6, <1>7, <1>8, <1>9 DEF Wrap

LEMMA TypeStep == TypeOK /\ NoLinesYet /\ [Next]_vars => TypeOK' /\ NoLinesYet'
  <1> SUFFICES ASSUME TypeOK, NoLinesYet, [Next]_vars PROVE TypeOK' /\ NoLinesYet'
    OBVIOUS
  <1>1. CASE UNCHANGED vars
    BY <1>1 DEF vars, htmlVars, wrapVars, TypeOK, NoLinesYet, Stretches
  <1> QED
    BY <1>1, ScanTypes, HtmlTypes, WrapTypes DEF Next

\* No loop reads past the end of its input, and what is wrapped is a text
\* without markup, whatever the content.
THEOREM TypeCorrect == Spec => []TypeOK
  <1>1. Init => TypeOK /\ NoLinesYet
    BY TypeInit
  <1>2. TypeOK /\ NoLinesYet /\ [Next]_vars => TypeOK' /\ NoLinesYet'
    BY TypeStep
  <1> QED
    BY <1>1, <1>2, PTL DEF Spec

-----------------------------------------------------------------------------
(* No letter is lost.                                                      *)

Ordered(ls) == \A m, n \in DOMAIN ls : m < n => ls[m][2] < ls[n][1]
Before(ls, i) == \A n \in DOMAIN ls : ls[n][2] < i
Shown(i, stretches) == \E s \in stretches : i \in s[1] .. s[2]

\* What NothingLost needs to be kept: the open line, or the word that is being
\* put on lines, is the last of what has been read, and follows every line.
Kept ==
    phase \in {"wrap", "done"} =>
       /\ line = None \/ word = None
       /\ line # None => line[1] <= line[2] /\ line[2] < pos /\ Before(lines, line[1])
       /\ word # None => /\ word[1] <= word[2] /\ word[2] = pos - 1
                         /\ Before(lines, word[1])
       /\ Before(lines, pos)
       /\ Ordered(lines)
       /\ \A i \in 1 .. pos - 1 :
             IsLetter(i) => Shown(i, ToSet(lines) \cup ({line, word} \ {None}))
       /\ phase = "done" => pos > Len(input) /\ line = None /\ word = None

LEMMA BeforeLater ==
    ASSUME TypeOK, NEW ls \in Seq(Stretches), NEW i \in Nat, NEW j \in Nat,
           Before(ls, i), i <= j
    PROVE  Before(ls, j)
  <1> SUFFICES ASSUME NEW n \in DOMAIN ls PROVE ls[n][2] < j
    BY DEF Before
  <1>1. ls[n] \in Stretches
    OBVIOUS
  <1>2. ls[n][2] \in Nat /\ ls[n][2] < i
    BY <1>1, StretchOf DEF Before
  <1> QED
    BY <1>2

LEMMA AppendShows ==
    ASSUME NEW ls \in Seq(Stretches), NEW s \in Stretches
    PROVE  ToSet(Append(ls, s)) = ToSet(ls) \cup {s}
  <1> DEFINE both == Append(ls, s)
  <1>1. /\ DOMAIN both = DOMAIN ls \cup {Len(ls) + 1}
        /\ \A n \in DOMAIN ls : both[n] = ls[n]
        /\ both[Len(ls) + 1] = s
    OBVIOUS
  <1> HIDE DEF both
  <1>2. ToSet(both) = ToSet(ls) \cup {s}
    BY <1>1 DEF ToSet
  <1> QED
    BY <1>2 DEF both

\* A stretch after the others, put after the others.
LEMMA AppendKeeps ==
    ASSUME TypeOK, NEW ls \in Seq(Stretches), NEW s \in Stretches,
           Ordered(ls), Before(ls, s[1])
    PROVE  /\ Append(ls, s) \in Seq(Stretches)
           /\ Ordered(Append(ls, s))
           /\ ToSet(Append(ls, s)) = ToSet(ls) \cup {s}
           /\ \A i \in Nat : Before(ls, i) /\ s[2] < i => Before(Append(ls, s), i)
  <1> DEFINE both == Append(ls, s)
  <1>1. /\ both \in Seq(Stretches)
        /\ DOMAIN both = 1 .. Len(ls) + 1 /\ DOMAIN ls = 1 .. Len(ls)
        /\ Len(ls) \in Nat
        /\ \A n \in DOMAIN ls : both[n] = ls[n]
        /\ both[Len(ls) + 1] = s
    OBVIOUS
  <1> HIDE DEF both
  <1>2. \A n \in DOMAIN both : n \in DOMAIN ls \/ n = Len(ls) + 1
    BY <1>1
  <1>3. Ordered(both)
    <2> SUFFICES ASSUME NEW m \in DOMAIN both, NEW n \in DOMAIN both, m < n
                 PROVE  both[m][2] < both[n][1]
      BY DEF Ordered
    <2>1. m \in DOMAIN ls
      BY <1>1
    <2>2. CASE n \in DOMAIN ls
      BY <1>1, <2>1, <2>2 DEF Ordered
    <2>3. CASE n = Len(ls) + 1
      BY <1>1, <2>1, <2>3 DEF Before
    <2> QED
      BY <1>2, <2>2, <2>3
  <1>4. ToSet(both) = ToSet(ls) \cup {s}
    BY AppendShows DEF both
  <1>5. ASSUME NEW i \in Nat, Before(ls, i), s[2] < i PROVE Before(both, i)
    BY <1>1, <1>2, <1>5 DEF Before
  <1> QED
    BY <1>1, <1>3, <1>4, <1>5 DEF both

\* Putting the open line among the finished ones changes nothing of that.
LEMMA FlushedKeeps ==
    ASSUME TypeOK, Kept, phase = "wrap", word = None
    PROVE  /\ Flushed \in Seq(Stretches)
           /\ Ordered(Flushed)
           /\ Before(Flushed, pos)
           /\ ToSet(Flushed) = ToSet(lines) \cup ({line, word} \ {None})
  <1>1. lines \in Seq(Stretches) /\ pos \in Nat /\ line \in Stretches \cup {None}
    BY DEF TypeOK
  <1>2. Before(lines, pos) /\ Ordered(lines)
    BY DEF Kept
  <1>3. CASE line = None
    BY <1>1, <1>2, <1>3 DEF Flushed
  <1>4. CASE line # None
    <2>1. line \in Stretches /\ line[2] < pos /\ Before(lines, line[1])
      BY <1>1, <1>4 DEF Kept
    <2>2. Flushed = Append(lines, line)
      BY <1>4 DEF Flushed
    <2>3. {line, word} \ {None} = {line}
      BY <1>4
    <2> QED
      BY <1>1, <1>2, <2>1, <2>2, <2>3, AppendKeeps
  <1> QED
    BY <1>3, <1>4

LEMMA WrapKeeps ==
    ASSUME TypeOK, Kept, Wrap
    PROVE  Kept'
  <1>1. /\ phase = "wrap" /\ input \in Seq(Letters \cup Blanks)
        /\ DOMAIN input = 1 .. Len(input)
        /\ pos \in Nat /\ 1 <= pos /\ pos <= Len(input) + 1
        /\ input' = input
    BY WrapFrame
  <1>2. /\ lines \in Seq(Stretches)
        /\ line \in Stretches \cup {None} /\ word \in Stretches \cup {None}
    BY DEF TypeOK
  <1>3. /\ Before(lines, pos) /\ Ordered(lines)
        /\ \A i \in 1 .. pos - 1 :
              IsLetter(i) => Shown(i, ToSet(lines) \cup ({line, word} \ {None}))
    BY <1>1 DEF Kept
  <1>4. \A i : IsLetter(i)' <=> IsLetter(i)
    BY <1>1 DEF IsLetter
  <1>5. CASE word = None /\ EmptyParagraph
    <2> DEFINE s == <<pos, pos - 1>>
    <2>1. s \in Stretches /\ s[1] = pos /\ s[2] = pos - 1
      BY <1>1, MakeStretch
    <2>2. /\ Flushed \in Seq(Stretches) /\ Ordered(Flushed) /\ Before(Flushed, pos)
          /\ ToSet(Flushed) = ToSet(lines) \cup ({line, word} \ {None})
      BY <1>1, <1>5, FlushedKeeps
    <2>3. /\ pos' \in Nat /\ pos <= pos' /\ lines' = Append(Flushed, s)
          /\ line' = None /\ word' = None
          /\ phase' = "done" => pos' > Len(input)
      BY <1>1, <1>5 DEF EmptyParagraph
    <2>4. ~IsLetter(pos)
      BY <1>1, <1>5 DEF EmptyParagraph, IsLetter, Letters
    <2>5. pos' = pos \/ pos' = pos + 1
      BY <1>5 DEF EmptyParagraph
    <2> HIDE DEF s
    <2>6. /\ Ordered(lines') /\ ToSet(lines') = ToSet(Flushed) \cup {s}
          /\ Before(lines', pos)
      <3>1. Before(Flushed, s[1]) /\ s[2] < pos
        BY <1>1, <2>1, <2>2
      <3> QED
        BY <1>1, <2>1, <2>2, <2>3, <3>1, AppendKeeps
    <2>7. Before(lines', pos')
      <3>1. lines' \in Seq(Stretches)
        BY <2>1, <2>2, <2>3
      <3> QED
        BY <1>1, <2>3, <2>6, <3>1, BeforeLater
    <2>8. ASSUME NEW i \in 1 .. pos' - 1, IsLetter(i)
          PROVE  Shown(i, ToSet(lines') \cup ({line', word'} \ {None}))
      <3>1. i \in 1 .. pos - 1
        BY <1>1, <2>4, <2>5, <2>8
      <3> QED
        BY <1>3, <2>2, <2>6, <2>8, <3>1 DEF Shown
    <2> QED
      BY <1>1, <1>4, <2>3, <2>6, <2>7, <2>8 DEF Kept
  <1>6. CASE word = None /\ (EndParagraph \/ Blank)
    <2>1. /\ pos' = pos + 1 /\ ~IsLetter(pos)
          /\ phase' = phase /\ line' = line /\ word' = word /\ lines' = lines
      BY <1>6 DEF EndParagraph, Blank, IsLetter, Letters
    <2>2. Before(lines, pos + 1)
      BY <1>1, <1>2, <1>3, BeforeLater
    <2>3. line # None => line[1] <= line[2] /\ line[2] < pos + 1 /\ Before(lines, line[1])
      <3>1. line # None => line[2] \in Nat /\ line[2] < pos
        BY <1>1, <1>2, StretchOf DEF Kept
      <3> QED
        BY <1>1, <3>1 DEF Kept
    <2>4. \A i \in 1 .. pos : IsLetter(i) => i \in 1 .. pos - 1
      BY <1>1, <2>1
    <2>5. pos' - 1 = pos
      BY <1>1, <2>1
    <2> QED
      BY <1>1, <1>3, <1>4, <1>6, <2>1, <2>2, <2>3, <2>4, <2>5 DEF Kept
  <1>7. CASE word = None /\ Finish
    <2>1. /\ phase' = "done" /\ pos > Len(input) /\ pos' = pos
          /\ lines' = Flushed /\ line' = None /\ word' = None
      BY <1>7 DEF Finish
    <2>2. /\ Ordered(Flushed) /\ Before(Flushed, pos)
          /\ ToSet(Flushed) = ToSet(lines) \cup ({line, word} \ {None})
      BY <1>1, <1>7, FlushedKeeps
    <2> QED
      BY <1>1, <1>3, <1>4, <2>1, <2>2 DEF Kept, Shown
  <1>8. ASSUME word = None, NEW j \in pos .. Len(input), Word(j)
        PROVE  Kept'
    <2>1. /\ pos' = j + 1 /\ phase' = phase /\ j \in Nat /\ pos <= j
          /\ pos' - 1 = j /\ pos' \in Nat /\ pos <= pos'
      BY <1>1, <1>8 DEF Word
    <2>2. CASE Fits(j)
      <3> DEFINE s == <<line[1], j>>
      <3>1. line \in Stretches
        BY <1>2, <2>2 DEF Fits
      <3>2. /\ line[1] \in Nat /\ line[2] \in Nat /\ line[1] <= line[2] /\ line[2] < pos
            /\ Before(lines, line[1]) /\ line # None /\ 1 <= line[1]
        BY <1>1, <3>1, StretchOf DEF Kept
      <3>3. line' = s /\ word' = None /\ lines' = lines
        BY <1>8, <2>2 DEF Word
      <3>4. s[1] = line[1] /\ s[2] = j /\ s # None
        BY DEF None
      <3> HIDE DEF s
      <3>5. Before(lines, pos')
        BY <1>1, <1>2, <1>3, <2>1, BeforeLater
      <3>6. ASSUME NEW i \in 1 .. pos' - 1, IsLetter(i)
            PROVE  Shown(i, ToSet(lines') \cup ({line', word'} \ {None}))
        <4>1. {line', word'} \ {None} = {s} /\ {line, word} \ {None} = {line}
          BY <1>8, <3>2, <3>3, <3>4
        <4>2. CASE i \in 1 .. pos - 1
          <5>1. PICK t \in ToSet(lines) \cup {line} : i \in t[1] .. t[2]
            BY <1>3, <3>6, <4>1, <4>2 DEF Shown
          <5>2. CASE t = line
            <6>1. i \in s[1] .. s[2]
              BY <1>1, <2>1, <3>2, <3>4, <5>1, <5>2
            <6> QED
              BY <4>1, <6>1 DEF Shown
          <5>3. CASE t \in ToSet(lines)
            BY <3>3, <5>1, <5>3 DEF Shown
          <5> QED
            BY <5>1, <5>2, <5>3
        <4>3. CASE i \notin 1 .. pos - 1
          <5>1. i \in s[1] .. s[2]
            BY <1>1, <2>1, <3>2, <3>4, <4>3
          <5> QED
            BY <4>1, <5>1 DEF Shown
        <4> QED
          BY <4>2, <4>3
      <3>7. s[1] <= s[2] /\ s[2] < pos' /\ Before(lines, s[1])
        BY <1>1, <2>1, <3>2, <3>4
      <3> QED
        BY <1>1, <1>3, <1>4, <2>1, <3>3, <3>5, <3>6, <3>7 DEF Kept
    <2>3. CASE ~Fits(j)
      <3> DEFINE s == <<pos, j>>
      <3>1. line' = None /\ word' = s /\ lines' = Flushed
        BY <1>8, <2>3 DEF Word
      <3>2. s[1] = pos /\ s[2] = j /\ s # None
        BY DEF None
      <3> HIDE DEF s
      <3>3. /\ Flushed \in Seq(Stretches) /\ Ordered(Flushed) /\ Before(Flushed, pos)
            /\ ToSet(Flushed) = ToSet(lines) \cup ({line, word} \ {None})
        BY <1>1, <1>8, FlushedKeeps
      <3>4. Before(Flushed, pos')
        BY <1>1, <2>1, <3>3, BeforeLater
      <3>5. ASSUME NEW i \in 1 .. pos' - 1, IsLetter(i)
            PROVE  Shown(i, ToSet(lines') \cup ({line', word'} \ {None}))
        <4>1. {line', word'} \ {None} = {s}
          BY <3>1, <3>2
        <4>2. CASE i \in 1 .. pos - 1
          BY <1>3, <3>1, <3>3, <3>5, <4>2 DEF Shown
        <4>3. CASE i \notin 1 .. pos - 1
          <5>1. i \in s[1] .. s[2]
            BY <1>1, <2>1, <3>2, <4>3
          <5> QED
            BY <4>1, <5>1 DEF Shown
        <4> QED
          BY <4>2, <4>3
      <3>6. s[1] <= s[2] /\ s[2] = pos' - 1 /\ Before(Flushed, s[1])
        BY <1>1, <2>1, <3>2, <3>3
      <3> QED
        BY <1>1, <1>4, <2>1, <3>1, <3>3, <3>4, <3>5, <3>6 DEF Kept
    <2> QED
      BY <2>2, <2>3
  <1>9. ASSUME word # None, NEW k \in word[1] - 1 .. word[2] - 1, Cut(k)
        PROVE  Kept'
    <2> DEFINE s == <<word[1], k>>
               t == <<k + 1, word[2]>>
    <2>1. /\ word \in Stretches /\ word[1] \in Nat /\ word[2] \in Nat
          /\ 1 <= word[1] /\ word[1] <= word[2] /\ word[2] = pos - 1
          /\ Before(lines, word[1]) /\ line = None /\ word[2] <= Len(input)
      BY <1>1, <1>2, <1>9, StretchOf DEF Kept
    <2>2. /\ lines' = Append(lines, s) /\ word' = t
          /\ pos' = pos /\ phase' = phase /\ line' = line
      BY <1>9 DEF Cut
    <2>3. s[1] = word[1] /\ s[2] = k /\ t[1] = k + 1 /\ t[2] = word[2] /\ t # None
      BY DEF None
    <2>4. k \in Nat /\ word[1] <= k + 1 /\ k < word[2]
      BY <1>9, <2>1
    <2>5. s \in Stretches
      BY <2>1, <2>4, MakeStretch
    <2> HIDE DEF s, t
    <2>6. /\ lines' \in Seq(Stretches) /\ Ordered(lines')
          /\ ToSet(lines') = ToSet(lines) \cup {s}
          /\ Before(lines', k + 1) /\ Before(lines', pos)
      <3>1. Before(lines, k + 1) /\ k + 1 \in Nat /\ s[2] < k + 1 /\ s[2] < pos
        BY <1>1, <1>2, <2>1, <2>3, <2>4, BeforeLater
      <3>2. Before(lines, s[1])
        BY <2>1, <2>3
      <3> QED
        BY <1>1, <1>2, <1>3, <2>2, <2>5, <3>1, <3>2, AppendKeeps
    <2>7. ASSUME NEW i \in 1 .. pos - 1, IsLetter(i)
          PROVE  Shown(i, ToSet(lines') \cup ({line', word'} \ {None}))
      <3>1. {line', word'} \ {None} = {t} /\ {line, word} \ {None} = {word}
        BY <1>9, <2>1, <2>2, <2>3
      <3>2. PICK u \in ToSet(lines) \cup {word} : i \in u[1] .. u[2]
        BY <1>3, <2>7, <3>1 DEF Shown
      <3>3. CASE u \in ToSet(lines)
        BY <2>6, <3>2, <3>3 DEF Shown
      <3>4. CASE u = word
        <4>1. i \in s[1] .. s[2] \/ i \in t[1] .. t[2]
          BY <2>1, <2>3, <2>4, <3>2, <3>4
        <4> QED
          BY <2>6, <3>1, <4>1 DEF Shown
      <3> QED
        BY <3>2, <3>3, <3>4
    <2>8. t[1] <= t[2] /\ t[2] = pos - 1 /\ Before(lines', t[1])
      BY <2>1, <2>3, <2>4, <2>6
    <2> QED
      BY <1>1, <1>4, <2>1, <2>2, <2>6, <2>7, <2>8 DEF Kept
  <1>10. CASE word # None /\ Rest
    <2>1. /\ line' = word /\ word' = None
          /\ pos' = pos /\ phase' = phase /\ lines' = lines
      BY <1>10 DEF Rest
    <2>2. /\ word[2] \in Nat /\ word[1] <= word[2] /\ word[2] = pos - 1
          /\ Before(lines, word[1]) /\ line = None
      BY <1>1, <1>2, <1>10, StretchOf DEF Kept
    <2>3. word[2] < pos
      BY <1>1, <2>2
    <2>4. {line', word'} \ {None} = {line, word} \ {None}
      BY <2>1, <2>2
    <2> QED
      BY <1>1, <1>3, <1>4, <2>1, <2>2, <2>3, <2>4 DEF Kept
  <1> QED
    BY <1>5, <1>6, <1>7, <1>8, <1>9, <1>10 DEF Wrap

LEMMA KeptStep == TypeOK /\ NoLinesYet /\ Kept /\ [Next]_vars => Kept'
  <1> SUFFICES ASSUME TypeOK, NoLinesYet, Kept, [Next]_vars PROVE Kept'
    OBVIOUS
  <1>1. CASE UNCHANGED vars
    BY <1>1 DEF vars, htmlVars, wrapVars, Kept, IsLetter, Shown, Before, Ordered
  <1>2. CASE Scan \/ StartSqueeze \/ Squeeze
    BY <1>2 DEF Scan, StartSqueeze, Squeeze, Kept
  <1>3. CASE StartWrap
    <2>1. /\ line' = None /\ word' = None /\ lines' = <<>>
          /\ pos' = 1 /\ phase' = "wrap"
      BY <1>3 DEF StartWrap, NoLinesYet, wrapVars
    <2> QED
      BY <2>1 DEF Kept, Before, Ordered
  <1> QED
    BY <1>1, <1>2, <1>3, WrapKeeps DEF Next

\* For every text and width: each letter that was read stands on a line, in
\* its order, and at the end none is left over.
THEOREM NothingIsLost == Spec => []NothingLost
  <1>1. Init => TypeOK /\ NoLinesYet /\ Kept
    <2> SUFFICES ASSUME Init PROVE Kept
      BY TypeInit
    <2>1. pos = 1 /\ line = None /\ word = None /\ lines = <<>> /\ phase # "done"
      BY DEF Init
    <2> QED
      BY <2>1 DEF Kept, Before, Ordered
  <1>2. TypeOK /\ NoLinesYet /\ Kept /\ [Next]_vars => (TypeOK /\ NoLinesYet /\ Kept)'
    BY TypeStep, KeptStep
  <1>3. TypeOK /\ NoLinesYet /\ Kept => NothingLost
    <2> SUFFICES ASSUME TypeOK, NoLinesYet, Kept PROVE NothingLost
      OBVIOUS
    <2>1. CASE phase \in {"scan", "squeeze"}
      BY <2>1 DEF NothingLost, NoLinesYet, Open
    <2>2. CASE phase \in {"wrap", "done"}
      <3>1. \A n \in DOMAIN lines, s \in Open : lines[n][2] < s[1]
        BY <2>2 DEF Kept, Open, Before
      <3>2. phase = "done" => pos > Len(input) /\ Open = {}
        BY DEF Kept, Open
      <3> QED
        BY <2>2, <3>1, <3>2 DEF NothingLost, Kept, Ordered, Shown, Open
    <2> QED
      BY <2>1, <2>2 DEF TypeOK
  <1> QED
    BY <1>1, <1>2, <1>3, PTL DEF Spec

-----------------------------------------------------------------------------
(* No line is too wide.                                                    *)

LEMMA CardinalityAtMost ==
    ASSUME NEW S, NEW T, IsFiniteSet(S), IsFiniteSet(T), NEW R \in SUBSET (S \cup T)
    PROVE  /\ Cardinality(R) \in Nat /\ Cardinality(S) \in Nat /\ Cardinality(T) \in Nat
           /\ Cardinality(R) <= Cardinality(S) + Cardinality(T)
  <1>1. /\ IsFiniteSet(S \cup T)
        /\ Cardinality(S \cup T) = Cardinality(S) + Cardinality(T) - Cardinality(S \cap T)
    BY FS_Union
  <1>2. IsFiniteSet(R) /\ Cardinality(R) <= Cardinality(S \cup T)
    BY <1>1, FS_Subset
  <1>3. IsFiniteSet(S \cap T)
    <2>1. S \cap T \in SUBSET S
      OBVIOUS
    <2> QED
      BY <2>1, FS_Subset
  <1>4. /\ Cardinality(R) \in Nat /\ Cardinality(S) \in Nat /\ Cardinality(T) \in Nat
        /\ Cardinality(S \cap T) \in Nat /\ Cardinality(S \cup T) \in Nat
    BY <1>1, <1>2, <1>3, FS_CardinalityType
  <1> QED
    BY <1>1, <1>2, <1>4

LettersOf(i, j) == {k \in i .. j : input[k] \in Letters}
WideOf(i, j) == {k \in LettersOf(i, j) : input[k] = "W"}
StartsOf(i, j) == {k \in LettersOf(i, j) : k > i /\ ~IsLetter(k - 1)}

LEMMA CellsAreFinite ==
    ASSUME NEW i \in Nat, NEW j \in Int
    PROVE  /\ IsFiniteSet(LettersOf(i, j)) /\ IsFiniteSet(WideOf(i, j))
           /\ IsFiniteSet(StartsOf(i, j))
           /\ Cells(i, j) = Cardinality(LettersOf(i, j)) + Cardinality(WideOf(i, j))
                            + Cardinality(StartsOf(i, j))
  <1>1. IsFiniteSet(i .. j)
    BY FS_Interval
  <1>2. /\ LettersOf(i, j) \in SUBSET (i .. j)
        /\ WideOf(i, j) \in SUBSET (i .. j)
        /\ StartsOf(i, j) \in SUBSET (i .. j)
    BY DEF LettersOf, WideOf, StartsOf
  <1> QED
    BY <1>1, <1>2, FS_Subset DEF Cells, LettersOf, WideOf, StartsOf

\* A word after a stretch of words adds its cells and one blank.
LEMMA CellsOfBoth ==
    ASSUME NEW a \in Nat, NEW b \in Nat, NEW p \in Nat, NEW j \in Nat,
           a <= b, b < p, p <= j, j <= Len(input), 1 <= a,
           input \in Seq(Letters \cup Blanks),
           \A k \in b + 1 .. p - 1 : ~IsLetter(k)
    PROVE  Cells(a, j) <= Cells(a, b) + 1 + Cells(p, j)
  <1>1. /\ IsFiniteSet(LettersOf(a, b)) /\ IsFiniteSet(WideOf(a, b))
        /\ IsFiniteSet(StartsOf(a, b))
        /\ Cells(a, b) = Cardinality(LettersOf(a, b)) + Cardinality(WideOf(a, b))
                         + Cardinality(StartsOf(a, b))
    BY CellsAreFinite
  <1>2. /\ IsFiniteSet(LettersOf(p, j)) /\ IsFiniteSet(WideOf(p, j))
        /\ IsFiniteSet(StartsOf(p, j))
        /\ Cells(p, j) = Cardinality(LettersOf(p, j)) + Cardinality(WideOf(p, j))
                         + Cardinality(StartsOf(p, j))
    BY CellsAreFinite
  <1>3. Cells(a, j) = Cardinality(LettersOf(a, j)) + Cardinality(WideOf(a, j))
                      + Cardinality(StartsOf(a, j))
    BY CellsAreFinite
  <1>4. DOMAIN input = 1 .. Len(input)
    OBVIOUS
  <1>5. \A k \in LettersOf(a, j) : k \in a .. b \/ k \in p .. j
    BY <1>4 DEF LettersOf, IsLetter
  <1>6. LettersOf(a, j) \in SUBSET (LettersOf(a, b) \cup LettersOf(p, j))
    BY <1>5 DEF LettersOf
  <1>7. WideOf(a, j) \in SUBSET (WideOf(a, b) \cup WideOf(p, j))
    BY <1>6 DEF WideOf
  <1>8. StartsOf(a, j) \in SUBSET ((StartsOf(a, b) \cup {p}) \cup StartsOf(p, j))
    <2> SUFFICES ASSUME NEW k \in StartsOf(a, j)
                 PROVE  k \in StartsOf(a, b) \/ k = p \/ k \in StartsOf(p, j)
      OBVIOUS
    <2>1. k \in LettersOf(a, j) /\ k > a /\ ~IsLetter(k - 1)
      BY DEF StartsOf
    <2>2. CASE k \in LettersOf(a, b)
      BY <2>1, <2>2 DEF StartsOf
    <2>3. CASE k \in LettersOf(p, j)
      <3>1. k = p \/ k > p
        BY <2>3 DEF LettersOf
      <3> QED
        BY <2>1, <2>3, <3>1 DEF StartsOf
    <2> QED
      BY <1>6, <2>1, <2>2, <2>3
  <1>9. /\ IsFiniteSet(StartsOf(a, b) \cup {p})
        /\ Cardinality(StartsOf(a, b)) \in Nat
        /\ Cardinality(StartsOf(a, b) \cup {p}) <= Cardinality(StartsOf(a, b)) + 1
    <2>1. Cardinality(StartsOf(a, b)) \in Nat
      BY <1>1, FS_CardinalityType
    <2>2. /\ IsFiniteSet(StartsOf(a, b) \cup {p})
          /\ Cardinality(StartsOf(a, b) \cup {p})
               = IF p \in StartsOf(a, b) THEN Cardinality(StartsOf(a, b))
                                         ELSE Cardinality(StartsOf(a, b)) + 1
      BY <1>1, FS_AddElement
    <2> QED
      BY <2>1, <2>2
  <1>10. /\ Cardinality(LettersOf(a, j)) \in Nat
         /\ Cardinality(LettersOf(a, b)) \in Nat /\ Cardinality(LettersOf(p, j)) \in Nat
         /\ Cardinality(LettersOf(a, j))
              <= Cardinality(LettersOf(a, b)) + Cardinality(LettersOf(p, j))
    BY <1>1, <1>2, <1>6, CardinalityAtMost
  <1>11. /\ Cardinality(WideOf(a, j)) \in Nat
         /\ Cardinality(WideOf(a, b)) \in Nat /\ Cardinality(WideOf(p, j)) \in Nat
         /\ Cardinality(WideOf(a, j))
              <= Cardinality(WideOf(a, b)) + Cardinality(WideOf(p, j))
    BY <1>1, <1>2, <1>7, CardinalityAtMost
  <1>12. /\ Cardinality(StartsOf(a, j)) \in Nat
         /\ Cardinality(StartsOf(a, b) \cup {p}) \in Nat
         /\ Cardinality(StartsOf(p, j)) \in Nat
         /\ Cardinality(StartsOf(a, j))
              <= Cardinality(StartsOf(a, b) \cup {p}) + Cardinality(StartsOf(p, j))
    BY <1>2, <1>8, <1>9, CardinalityAtMost
  <1> DEFINE l == Cardinality(LettersOf(a, j))
             l1 == Cardinality(LettersOf(a, b))
             l2 == Cardinality(LettersOf(p, j))
             w == Cardinality(WideOf(a, j))
             w1 == Cardinality(WideOf(a, b))
             w2 == Cardinality(WideOf(p, j))
             s == Cardinality(StartsOf(a, j))
             s1 == Cardinality(StartsOf(a, b))
             s2 == Cardinality(StartsOf(p, j))
             t == Cardinality(StartsOf(a, b) \cup {p})
  <1>13. Cells(a, j) = l + w + s /\ Cells(a, b) = l1 + w1 + s1 /\ Cells(p, j) = l2 + w2 + s2
    BY <1>1, <1>2, <1>3
  <1>14. /\ l \in Nat /\ l1 \in Nat /\ l2 \in Nat /\ l <= l1 + l2
         /\ w \in Nat /\ w1 \in Nat /\ w2 \in Nat /\ w <= w1 + w2
         /\ s \in Nat /\ s1 \in Nat /\ s2 \in Nat /\ t \in Nat
         /\ s <= t + s2 /\ t <= s1 + 1
    BY <1>9, <1>10, <1>11, <1>12
  <1> HIDE DEF l, l1, l2, w, w1, w2, s, s1, s2, t
  <1>15. l + w + s <= (l1 + w1 + s1) + 1 + (l2 + w2 + s2)
    BY <1>14
  <1> QED
    BY <1>13, <1>15

LEMMA CellsAreNumbers ==
    ASSUME NEW i \in Nat, NEW j \in Int
    PROVE  Cells(i, j) \in Nat
  <1>1. /\ Cardinality(LettersOf(i, j)) \in Nat /\ Cardinality(WideOf(i, j)) \in Nat
        /\ Cardinality(StartsOf(i, j)) \in Nat
    BY CellsAreFinite, FS_CardinalityType
  <1> QED
    BY <1>1, CellsAreFinite

\* A line without a character takes no cells.
LEMMA CellsOfNone ==
    ASSUME NEW i \in Nat
    PROVE  Cells(i, i - 1) = 0
  <1>1. i .. i - 1 = {}
    OBVIOUS
  <1>2. /\ LettersOf(i, i - 1) = {} /\ WideOf(i, i - 1) = {} /\ StartsOf(i, i - 1) = {}
    BY <1>1 DEF LettersOf, WideOf, StartsOf
  <1>3. i - 1 \in Int
    OBVIOUS
  <1> QED
    BY <1>2, <1>3, CellsAreFinite, FS_EmptySet

\* What LinesFit needs to be kept: since the open line nothing but blanks has
\* been read.
Fitting ==
    phase \in {"wrap", "done"} =>
       /\ \A l \in ToSet(lines) : Cells(l[1], l[2]) <= Width
       /\ line # None => /\ Cells(line[1], line[2]) <= Width
                         /\ \A k \in line[2] + 1 .. pos - 1 : ~IsLetter(k)

LEMMA FlushedFits ==
    ASSUME TypeOK, Fitting, phase = "wrap"
    PROVE  \A l \in ToSet(Flushed) : Cells(l[1], l[2]) <= Width
  <1>1. lines \in Seq(Stretches) /\ line \in Stretches \cup {None}
    BY DEF TypeOK
  <1>2. CASE line = None
    BY <1>2 DEF Fitting, Flushed
  <1>3. CASE line # None
    <2>1. Flushed = Append(lines, line) /\ line \in Stretches
      BY <1>1, <1>3 DEF Flushed
    <2>2. ToSet(Append(lines, line)) = ToSet(lines) \cup {line}
      BY <1>1, <2>1, AppendShows
    <2> QED
      BY <1>3, <2>1, <2>2 DEF Fitting
  <1> QED
    BY <1>2, <1>3

LEMMA WrapFits ==
    ASSUME TypeOK, Kept, Fitting, Wrap
    PROVE  Fitting'
  <1>1. /\ phase = "wrap" /\ input \in Seq(Letters \cup Blanks)
        /\ DOMAIN input = 1 .. Len(input)
        /\ pos \in Nat /\ 1 <= pos /\ pos <= Len(input) + 1
        /\ input' = input /\ Flushed \in Seq(Stretches)
    BY WrapFrame
  <1>2. /\ lines \in Seq(Stretches)
        /\ line \in Stretches \cup {None} /\ word \in Stretches \cup {None}
    BY DEF TypeOK
  <1>3. /\ \A i : IsLetter(i)' <=> IsLetter(i)
        /\ \A i, j : Cells(i, j)' = Cells(i, j)
    BY <1>1 DEF IsLetter, Cells
  <1>4. \A l \in ToSet(Flushed) : Cells(l[1], l[2]) <= Width
    BY <1>1, FlushedFits
  <1>5. CASE word = None /\ EmptyParagraph
    <2> DEFINE s == <<pos, pos - 1>>
    <2>1. s \in Stretches /\ s[1] = pos /\ s[2] = pos - 1
      BY <1>1, MakeStretch
    <2>2. lines' = Append(Flushed, s) /\ line' = None
      BY <1>5 DEF EmptyParagraph
    <2> HIDE DEF s
    <2>3. ToSet(lines') = ToSet(Flushed) \cup {s}
      BY <1>1, <2>1, <2>2, AppendShows
    <2>4. Cells(s[1], s[2]) <= Width
      BY <1>1, <2>1, CellsOfNone, WidthAssumption
    <2> QED
      BY <1>3, <1>4, <2>2, <2>3, <2>4 DEF Fitting
  <1>6. CASE word = None /\ (EndParagraph \/ Blank)
    <2>1. pos' = pos + 1 /\ ~IsLetter(pos) /\ line' = line /\ lines' = lines
      BY <1>6 DEF EndParagraph, Blank, IsLetter, Letters
    <2>2. line # None => \A k \in line[2] + 1 .. pos : ~IsLetter(k)
      <3> SUFFICES ASSUME line # None, NEW k \in line[2] + 1 .. pos PROVE ~IsLetter(k)
        OBVIOUS
      <3>1. line[2] \in Nat
        BY <1>2, StretchOf
      <3>2. k = pos \/ k \in line[2] + 1 .. pos - 1
        BY <1>1, <3>1
      <3> QED
        BY <1>1, <2>1, <3>2 DEF Fitting
    <2>3. pos' - 1 = pos
      BY <1>1, <2>1
    <2> QED
      BY <1>1, <1>3, <2>1, <2>2, <2>3 DEF Fitting
  <1>7. CASE word = None /\ Finish
    BY <1>3, <1>4, <1>7 DEF Fitting, Finish
  <1>8. ASSUME word = None, NEW j \in pos .. Len(input), Word(j)
        PROVE  Fitting'
    <2>1. CASE Fits(j)
      <3> DEFINE s == <<line[1], j>>
      <3>1. line \in Stretches /\ line # None
        BY <1>2, <2>1 DEF Fits
      <3>2. /\ line[1] \in Nat /\ line[2] \in Nat /\ line[1] <= line[2]
            /\ line[2] < pos /\ 1 <= line[1]
        BY <1>1, <3>1, StretchOf DEF Kept
      <3>3. line' = s /\ lines' = lines /\ pos' = j + 1
        BY <1>8, <2>1 DEF Word
      <3>4. s[1] = line[1] /\ s[2] = j
        OBVIOUS
      <3>5. Cells(line[1], j) <= Cells(line[1], line[2]) + 1 + Cells(pos, j)
        <4>1. \A k \in line[2] + 1 .. pos - 1 : ~IsLetter(k)
          BY <1>1, <3>1 DEF Fitting
        <4> QED
          BY <1>1, <1>8, <3>2, <4>1, CellsOfBoth
      <3>6. Cells(line[1], j) <= Width
        <4>1. Cells(line[1], line[2]) + 1 + Cells(pos, j) <= Width
          BY <2>1 DEF Fits
        <4>2. /\ Cells(line[1], j) \in Nat /\ Cells(line[1], line[2]) \in Nat
              /\ Cells(pos, j) \in Nat /\ Width \in Nat
          <5>1. j \in Int /\ line[1] \in Nat /\ line[2] \in Int /\ pos \in Nat
            BY <1>1, <3>2
          <5> QED
            BY <5>1, CellsAreNumbers, WidthAssumption
        <4> QED
          BY <3>5, <4>1, <4>2
      <3> HIDE DEF s
      <3>7. \A k \in s[2] + 1 .. pos' - 1 : ~IsLetter(k)
        BY <1>1, <3>3, <3>4
      <3> QED
        BY <1>1, <1>3, <3>3, <3>4, <3>6, <3>7 DEF Fitting
    <2>2. CASE ~Fits(j)
      BY <1>3, <1>4, <1>8, <2>2 DEF Fitting, Word
    <2> QED
      BY <2>1, <2>2
  <1>9. ASSUME word # None, NEW k \in word[1] - 1 .. word[2] - 1, Cut(k)
        PROVE  Fitting'
    <2> DEFINE s == <<word[1], k>>
    <2>1. word \in Stretches /\ line = None
      BY <1>1, <1>2, <1>9 DEF Kept
    <2>2. k \in Nat /\ k < Len(input) /\ word[1] \in Nat /\ 1 <= word[1]
      BY <1>9, <2>1, StretchOf
    <2>3. s \in Stretches /\ s[1] = word[1] /\ s[2] = k
      BY <2>2, MakeStretch
    <2>4. lines' = Append(lines, s) /\ line' = None /\ Cells(word[1], k) <= Width
      BY <1>9, <2>1 DEF Cut
    <2> HIDE DEF s
    <2>5. ToSet(lines') = ToSet(lines) \cup {s}
      BY <1>2, <2>3, <2>4, AppendShows
    <2> QED
      BY <1>1, <1>3, <2>3, <2>4, <2>5 DEF Fitting
  <1>10. CASE word # None /\ Rest
    <2>1. line' = word /\ lines' = lines /\ pos' = pos /\ Cells(word[1], word[2]) <= Width
      BY <1>10 DEF Rest
    <2>2. word[2] = pos - 1
      BY <1>1, <1>10 DEF Kept
    <2>3. \A k \in word[2] + 1 .. pos - 1 : ~IsLetter(k)
      BY <1>1, <2>2
    <2> QED
      BY <1>1, <1>3, <2>1, <2>3 DEF Fitting
  <1> QED
    BY <1>5, <1>6, <1>7, <1>8, <1>9, <1>10 DEF Wrap

LEMMA FittingStep == TypeOK /\ NoLinesYet /\ Kept /\ Fitting /\ [Next]_vars => Fitting'
  <1> SUFFICES ASSUME TypeOK, NoLinesYet, Kept, Fitting, [Next]_vars PROVE Fitting'
    OBVIOUS
  <1>1. CASE UNCHANGED vars
    BY <1>1 DEF vars, htmlVars, wrapVars, Fitting, IsLetter, Cells
  <1>2. CASE Scan \/ StartSqueeze \/ Squeeze
    BY <1>2 DEF Scan, StartSqueeze, Squeeze, Fitting
  <1>3. CASE StartWrap
    <2>1. line' = None /\ lines' = <<>>
      BY <1>3 DEF StartWrap, NoLinesYet, wrapVars
    <2> QED
      BY <2>1 DEF Fitting, ToSet
  <1> QED
    BY <1>1, <1>2, <1>3, WrapFits DEF Next

\* For every text and width of at least two: no line is wider than the pane.
THEOREM LinesAlwaysFit == Spec => []LinesFit
  <1>1. Init => TypeOK /\ NoLinesYet /\ Kept /\ Fitting
    <2> SUFFICES ASSUME Init PROVE Kept /\ Fitting
      BY TypeInit
    <2>1. pos = 1 /\ line = None /\ word = None /\ lines = <<>> /\ phase # "done"
      BY DEF Init
    <2> QED
      BY <2>1 DEF Kept, Before, Ordered, Fitting, ToSet
  <1>2. TypeOK /\ NoLinesYet /\ Kept /\ Fitting /\ [Next]_vars
           => (TypeOK /\ NoLinesYet /\ Kept /\ Fitting)'
    BY TypeStep, KeptStep, FittingStep
  <1>3. TypeOK /\ NoLinesYet /\ Kept /\ Fitting => LinesFit
    BY DEF LinesFit, Fitting, Open
  <1> QED
    BY <1>1, <1>2, <1>3, PTL DEF Spec

-----------------------------------------------------------------------------
(* What is hidden stays hidden.                                            *)

LEMMA NextOfFinds ==
    ASSUME NEW tokens, input \in Seq(Tokens), NEW i \in Nat \ {0}
    PROVE  /\ NextOf(tokens, i) = 0 => \A j \in i .. Len(input) : input[j] \notin tokens
           /\ NextOf(tokens, i) # 0 => /\ NextOf(tokens, i) \in i .. Len(input)
                                       /\ input[NextOf(tokens, i)] \in tokens
  <1> DEFINE places == {j \in i .. Len(input) : input[j] \in tokens}
  <1>1. CASE places = {}
    BY <1>1 DEF NextOf
  <1>2. CASE places # {}
    <2>1. places \in SUBSET Nat
      OBVIOUS
    <2>2. \E x \in places : \A y \in places : x <= y
      BY <1>2, <2>1, LeastExists
    <2>3. NextOf(tokens, i) = CHOOSE x \in places : \A y \in places : x <= y
      BY <1>2 DEF NextOf
    <2>4. NextOf(tokens, i) \in places
      BY <2>2, <2>3
    <2> QED
      BY <2>4
  <1> QED
    BY <1>1, <1>2

\* No markup is read before place s.
First(s) == \A k \in 1 .. s - 1 : input[k] \notin Opening \cup {"<!--"}

\* The scan does not stop within what the first markup hides, and is past the
\* tag of a first script or style sheet when it is past its name.
PastHidden ==
    phase = "scan" =>
       /\ pos <= Len(input) => ~WithinFirst(pos)
       /\ \A s \in 1 .. pos - 1, e \in 1 .. Len(input) :
             First(s) /\ input[s] \in Hiding /\ s < e /\ input[e] \in Closing
                => \E d \in s + 1 .. pos - 1 : input[d] \in Closing

\* Where the scan goes on from each kind of token that matters here.
LEMMA ScanSteps ==
    ASSUME TypeOK, Scan
    PROVE  /\ pos' \in Nat /\ pos < pos' /\ input' = input
           /\ phase = "scan" /\ phase' = "scan"
           /\ input \in Seq(Tokens) /\ pos \in 1 .. Len(input)
           /\ input[pos] \notin Opening \cup {"<!--"} => pos' = pos + 1
           /\ input[pos] = "<!--" => pos' = AfterComment
           /\ input[pos] \in Hiding /\ TagEnd # 0 => pos' = AfterHidden
           /\ TagEnd # 0 => TagEnd \in pos .. Len(input) /\ input[TagEnd] \in Closing
           /\ TagEnd = 0 => \A j \in pos .. Len(input) : input[j] \notin Closing
  <1>1. /\ phase = "scan" /\ phase' = "scan" /\ input' = input
        /\ input \in Seq(Tokens) /\ pos \in 1 .. Len(input)
    <2>1. phase = "scan" /\ pos <= Len(input) /\ UNCHANGED <<phase, input>>
      BY DEF Scan
    <2>2. input \in Seq(Tokens)
      BY <2>1 DEF TypeOK
    <2> QED
      BY <2>1, <2>2 DEF TypeOK
  <1>2. pos \in Nat \ {0} /\ pos + 1 \in Nat \ {0}
    BY <1>1
  <1>3. /\ TagEnd # 0 => TagEnd \in pos .. Len(input) /\ input[TagEnd] \in Closing
        /\ TagEnd = 0 => \A j \in pos .. Len(input) : input[j] \notin Closing
    BY <1>1, <1>2, NextOfFinds DEF TagEnd
  <1>4. AfterComment \in Nat /\ pos < AfterComment
    BY <1>1, <1>2, NextOfFinds DEF AfterComment
  <1>5. input[pos] \in Hiding /\ TagEnd # 0 => AfterHidden \in Nat /\ pos < AfterHidden
    <2> SUFFICES ASSUME input[pos] \in Hiding, TagEnd # 0
                 PROVE  AfterHidden \in Nat /\ pos < AfterHidden
      OBVIOUS
    <2>1. TagEnd \in Nat \ {0} /\ pos <= TagEnd
      BY <1>1, <1>3
    <2>2. TagEnd # pos
      BY <1>3 DEF Hiding, Closing
    <2> QED
      BY <1>1, <1>2, <2>1, <2>2, NextOfFinds DEF AfterHidden
  <1>6. /\ input[pos] \notin Opening \cup {"<!--"} => pos' = pos + 1
        /\ input[pos] = "<!--" => pos' = AfterComment
        /\ input[pos] \in Hiding /\ TagEnd # 0 => pos' = AfterHidden
    BY DEF Scan, Put, Skip, Stray, Opening, Hiding, Breaks, Letters, Blanks, Closing
  <1>7. \/ pos' = AfterComment
        \/ pos' = pos + 1
        \/ TagEnd # 0 /\ pos' = TagEnd + 1
        \/ TagEnd # 0 /\ input[pos] \in Hiding /\ pos' = AfterHidden
    <2>1. CASE Skip(AfterComment)
      BY <2>1 DEF Skip
    <2>2. CASE Stray
      BY <2>2 DEF Stray, Put
    <2>3. CASE input[pos] \in Hiding /\ TagEnd # 0 /\ Skip(AfterHidden)
      BY <2>3 DEF Skip
    <2>4. CASE TagEnd # 0 /\ (Put("newline", TagEnd + 1) \/ Skip(TagEnd + 1))
      BY <2>4 DEF Put, Skip
    <2>5. CASE Put(input[pos], pos + 1) \/ Put("x", pos + 1)
      BY <2>5 DEF Put
    <2> QED
      BY <2>1, <2>2, <2>3, <2>4, <2>5 DEF Scan
  <1>8. pos' \in Nat /\ pos < pos'
    BY <1>1, <1>3, <1>4, <1>5, <1>7
  <1> QED
    BY <1>1, <1>3, <1>6, <1>8

LEMMA ScanPastHidden ==
    ASSUME TypeOK, PastHidden, Scan
    PROVE  PastHidden'
  <1>1. PICK next \in Nat :
        /\ pos' = next /\ pos < next /\ input' = input
        /\ phase = "scan" /\ phase' = "scan"
        /\ input \in Seq(Tokens) /\ pos \in 1 .. Len(input)
        /\ input[pos] \notin Opening \cup {"<!--"} => next = pos + 1
        /\ input[pos] = "<!--" => next = AfterComment
        /\ input[pos] \in Hiding /\ TagEnd # 0 => next = AfterHidden
        /\ TagEnd # 0 => TagEnd \in pos .. Len(input) /\ input[TagEnd] \in Closing
        /\ TagEnd = 0 => \A j \in pos .. Len(input) : input[j] \notin Closing
    BY ScanSteps
  <1>0. /\ pos \in Nat /\ 1 <= pos /\ pos < next
        /\ pos <= Len(input) /\ Len(input) \in Nat
    BY <1>1
  <1>2. ASSUME NEW s \in 1 .. next - 1, First(s), ~(s < pos) PROVE s = pos
    <2>1. CASE pos < s
      <3>1. input[pos] \notin Opening \cup {"<!--"}
        BY <1>0, <1>2, <2>1 DEF First
      <3>2. next = pos + 1
        BY <1>1, <3>1
      <3> QED
        BY <1>0, <2>1, <3>2
    <2> QED
      BY <1>0, <1>2, <2>1
  <1>3. ASSUME input[pos] \in Hiding, TagEnd # 0
        PROVE  /\ TagEnd \in pos + 1 .. next - 1
               /\ \/ input[next] = Closer(input[pos])
                  \/ \A j \in next .. Len(input) : input[j] # Closer(input[pos])
    <2> DEFINE close == NextOf({Closer(input[pos])}, TagEnd)
    <2>1. TagEnd \in Nat \ {0} /\ pos < TagEnd /\ input[TagEnd] # Closer(input[pos])
      BY <1>1, <1>3 DEF Hiding, Closing, Closer
    <2>2. /\ close = 0 => \A j \in TagEnd .. Len(input) : input[j] # Closer(input[pos])
          /\ close # 0 => close \in TagEnd .. Len(input)
                          /\ input[close] = Closer(input[pos])
      BY <1>1, <2>1, NextOfFinds
    <2>3. next = IF close = 0 THEN TagEnd + 1 ELSE close
      BY <1>1, <1>3 DEF AfterHidden
    <2> HIDE DEF close
    <2> QED
      BY <1>1, <2>1, <2>2, <2>3
  <1>4. ASSUME NEW s \in 1 .. next - 1, NEW e \in 1 .. Len(input),
               First(s), input[s] \in Hiding, s < e, input[e] \in Closing
        PROVE  \E d \in s + 1 .. next - 1 : input[d] \in Closing
    <2>1. CASE s < pos
      <3>1. s \in 1 .. pos - 1
        BY <1>1, <2>1
      <3>2. PICK d \in s + 1 .. pos - 1 : input[d] \in Closing
        BY <1>1, <1>4, <3>1 DEF PastHidden
      <3>3. d \in s + 1 .. next - 1
        <4>1. s \in Nat /\ d \in Nat /\ s + 1 <= d /\ d <= pos - 1
          BY <1>0, <2>1, <3>2
        <4> QED
          BY <1>0, <4>1
      <3> QED
        BY <3>2, <3>3
    <2>2. CASE ~(s < pos)
      <3>1. s = pos
        BY <1>2, <1>4, <2>2
      <3>2. TagEnd # 0
        BY <1>1, <1>4, <3>1
      <3> QED
        BY <1>1, <1>3, <1>4, <3>1, <3>2
    <2> QED
      BY <2>1, <2>2
  <1>5. ASSUME next <= Len(input), NEW s \in 1 .. next - 1, First(s),
               input[s] = "<!--", \A k \in s .. next : input[k] # "-->"
        PROVE  FALSE
    <2>1. CASE s < pos
      <3>1. s \in 1 .. pos - 1 /\ \A k \in s .. pos : input[k] # "-->"
        BY <1>1, <1>5, <2>1
      <3> QED
        BY <1>1, <1>5, <3>1 DEF PastHidden, WithinFirst, First
    <2>2. CASE ~(s < pos)
      <3>1. s = pos
        BY <1>2, <1>5, <2>2
      <3> DEFINE end == NextOf({"-->"}, pos + 1)
      <3>2. end # 0 => end \in pos + 1 .. Len(input) /\ input[end] = "-->"
        <4>1. pos + 1 \in Nat \ {0}
          BY <1>1
        <4> QED
          BY <1>1, <4>1, NextOfFinds
      <3>3. next = IF end = 0 THEN Len(input) + 1 ELSE end + 1
        BY <1>1, <1>5, <3>1 DEF AfterComment
      <3> HIDE DEF end
      <3> QED
        BY <1>1, <1>5, <3>1, <3>2, <3>3
    <2> QED
      BY <2>1, <2>2
  <1>6. ASSUME next <= Len(input), NEW s \in 1 .. next - 1, First(s),
               input[s] \in Hiding,
               NEW e \in s + 1 .. next - 1, input[e] \in Closing,
               NEW c \in next + 1 .. Len(input), input[c] = Closer(input[s]),
               \A k \in s .. next : input[k] # Closer(input[s])
        PROVE  FALSE
    <2>0. e \in 1 .. Len(input) /\ s < e
      BY <1>0, <1>6
    <2>1. CASE s < pos
      <3>1. s \in 1 .. pos - 1
        BY <1>1, <2>1
      <3>2. PICK d \in s + 1 .. pos - 1 : input[d] \in Closing
        BY <1>1, <1>6, <2>0, <3>1 DEF PastHidden
      <3>3. c \in pos + 1 .. Len(input) /\ \A k \in s .. pos : k \in s .. next
        BY <1>0, <1>6, <3>1
      <3>4. WithinFirst(pos)
        BY <1>6, <3>1, <3>2, <3>3 DEF WithinFirst, First, Hiding
      <3> QED
        BY <1>1, <3>4 DEF PastHidden
    <2>2. CASE ~(s < pos)
      <3>1. s = pos
        BY <1>2, <1>6, <2>2
      <3>2. TagEnd # 0
        BY <1>1, <1>6, <2>0, <3>1
      <3>3. c \in next .. Len(input) /\ next \in s .. next
        BY <1>0, <1>6, <3>1
      <3> QED
        BY <1>3, <1>6, <3>1, <3>2, <3>3
    <2> QED
      BY <2>1, <2>2
  <1>7. ASSUME next <= Len(input) PROVE ~WithinFirst(next)
    <2> SUFFICES ASSUME WithinFirst(next) PROVE FALSE
      OBVIOUS
    <2>1. PICK s \in 1 .. next - 1 :
             /\ First(s)
             /\ \/ /\ input[s] = "<!--"
                   /\ \A k \in s .. next : input[k] # "-->"
                \/ /\ input[s] \in Hiding
                   /\ \E e \in s + 1 .. next - 1 : input[e] \in Closing
                   /\ \E c \in next + 1 .. Len(input) : input[c] = Closer(input[s])
                   /\ \A k \in s .. next : input[k] # Closer(input[s])
      BY DEF WithinFirst, First, Hiding
    <2> QED
      BY <1>5, <1>6, <1>7, <2>1
  <1>8. WithinFirst(pos)' <=> WithinFirst(next)
    BY <1>1 DEF WithinFirst
  <1>9. \A s : First(s)' <=> First(s)
    BY <1>1 DEF First
  <1> QED
    BY <1>1, <1>4, <1>7, <1>8, <1>9 DEF PastHidden

\* Whatever the content: if its first markup is a comment, or a script or a style
\* sheet that is closed, nothing within it gets into the text.
THEOREM HiddenNeverShows == Spec => HiddenStaysHidden
  <1>1. Init => TypeOK /\ NoLinesYet /\ PastHidden
    <2> SUFFICES ASSUME Init PROVE PastHidden
      BY TypeInit
    <2>1. pos = 1
      BY DEF Init
    <2> QED
      BY <2>1 DEF PastHidden, WithinFirst
  <1>2. TypeOK /\ NoLinesYet /\ PastHidden /\ [Next]_vars
           => (TypeOK /\ NoLinesYet /\ PastHidden)'
    <2> SUFFICES ASSUME TypeOK, NoLinesYet, PastHidden, [Next]_vars PROVE PastHidden'
      BY TypeStep
    <2>1. CASE UNCHANGED vars
      BY <2>1 DEF vars, htmlVars, wrapVars, PastHidden, WithinFirst, First
    <2>2. CASE StartSqueeze \/ Squeeze \/ StartWrap
      BY <2>2 DEF StartSqueeze, Squeeze, StartWrap, PastHidden
    <2>3. CASE Wrap
      BY <2>3 DEF Wrap, EmptyParagraph, EndParagraph, Blank, Finish, Word, Cut, Rest,
                  PastHidden
    <2> QED
      BY <2>1, <2>2, <2>3, ScanPastHidden DEF Next
  <1>3. TypeOK /\ PastHidden /\ [Next]_vars
           => [phase = "scan" /\ phase' = "scan" /\ out' # out => ~WithinFirst(pos)]_vars
    <2> SUFFICES ASSUME TypeOK, PastHidden, Next, phase = "scan", phase' = "scan"
                 PROVE  ~WithinFirst(pos)
      OBVIOUS
    <2>1. Scan
      BY DEF Next, StartSqueeze, Squeeze, StartWrap, Wrap
    <2> QED
      BY <2>1, ScanSteps DEF PastHidden
  <1> QED
    BY <1>1, <1>2, <1>3, PTL DEF Spec, HiddenStaysHidden
=============================================================================
