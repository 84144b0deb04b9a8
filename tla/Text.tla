-------------------------------- MODULE Text --------------------------------
(***************************************************************************)
(* From what the server sends to the lines of the article pane.            *)
(*                                                                         *)
(* html_to_text (src/util/util.c) scans the content of an article, leaves  *)
(* out tags, comments, scripts and styles, and squeezes the blanks of what *)
(* is left; render_wrap (src/ui/render.c) cuts that text, or a title or a  *)
(* note as it is, into lines of the pane's width.  A text is a sequence of *)
(* tokens: a letter of one or two cells, a blank, or what html has at a    *)
(* place, an opening "<" together with the name that follows it.           *)
(***************************************************************************)
EXTENDS Integers, Sequences, FiniteSets, SequencesExt

CONSTANTS
    Contents,   \* what the server may send as an article's content
    Plain,      \* titles and notes, which are not html
    Width       \* the cells of a line

ASSUME WidthAssumption == Width \in Nat /\ Width >= 2

Letters == {"x", "W"}
Blanks == {"space", "newline"}
Opening == {"<br", "<b", "<script", "</script", "<style", "</style"}
Other == {">", "<!--", "-->", "&lt;"}
Tokens == Letters \cup Blanks \cup Opening \cup Other

Texts == Seq(Letters \cup Blanks)

ASSUME InputsAssumption == Contents \subseteq Seq(Tokens) /\ Plain \subseteq Texts

VARIABLES
    phase,     \* html_to_text's two loops, render_wrap, or done
    input,     \* what is read
    pos,       \* the next place of it to read
    out,       \* what html_to_text has written
    newlines,  \* how many newlines were read in a row
    line,      \* the stretch of the text on the open line, or none
    word,      \* the word that is being put on lines of its own, or none
    fresh,     \* nothing of the paragraph has been read yet
    lines      \* the finished lines: each the stretch of the text it shows

htmlVars == <<out, newlines>>
wrapVars == <<line, word, fresh, lines>>
vars == <<phase, input, pos, htmlVars, wrapVars>>

-----------------------------------------------------------------------------
(* html_to_text: scanning.                                                 *)

\* The first place from i on with one of these tokens; 0 when there is none.
NextOf(tokens, i) ==
    LET places == {j \in i .. Len(input) : input[j] \in tokens}
    IN  IF places = {} THEN 0 ELSE CHOOSE j \in places : \A k \in places : j <= k

\* strchr for '>': the end of a comment has one as well.
Closing == {">", "-->"}
TagEnd == NextOf(Closing, pos)

\* tag_is_break, and the elements whose contents are no text.
Breaks == {"<br"}
Hiding == {"<script", "<style"}
Closer(tag) == IF tag = "<script" THEN "</script" ELSE "</style"

Put(c, next) == out' = Append(out, c) /\ pos' = next
Skip(next) == pos' = next /\ UNCHANGED out

\* Mutant: past the end of a content whose comment is not closed.
AfterCommentPastEnd ==
    LET end == NextOf({"-->"}, pos + 1) IN IF end = 0 THEN Len(input) + 2 ELSE end + 1

AfterComment ==
    LET end == NextOf({"-->"}, pos + 1) IN IF end = 0 THEN Len(input) + 1 ELSE end + 1

\* Mutant: only the tag of a script is left out.
AfterHiddenTag == TagEnd + 1

\* A script or a style sheet is left out up to its closing tag, if it has one.
AfterHidden ==
    LET close == NextOf({Closer(input[pos])}, TagEnd)
    IN  IF close = 0 THEN TagEnd + 1 ELSE close

\* Mutant: the "<" is found again.
StrayStays == Skip(pos)

\* A "<" without a ">": only the "<" is left out, its name is text.
Stray == Put("x", pos + 1)

\* What an entity stands for is text, never markup, and one that stands for a
\* control character is a letter as well (decode_entity, sb_put_cp).
Scan ==
    /\ phase = "scan"
    /\ pos <= Len(input)
    /\ LET c == input[pos] IN
       \/ c = "<!--" /\ Skip(AfterComment)
       \/ c \in Opening /\ TagEnd = 0 /\ Stray
       \/ c \in Hiding /\ TagEnd # 0 /\ Skip(AfterHidden)
       \/ c \in Breaks /\ TagEnd # 0 /\ Put("newline", TagEnd + 1)
       \/ c \in Opening \ (Hiding \cup Breaks) /\ TagEnd # 0 /\ Skip(TagEnd + 1)
       \/ c \in Letters \cup Blanks /\ Put(c, pos + 1)
       \/ c \in Closing \cup {"&lt;"} /\ Put("x", pos + 1)
    /\ UNCHANGED <<phase, input, newlines, wrapVars>>

\* The loop over the result begins.
StartSqueeze ==
    /\ phase = "scan"
    /\ pos > Len(input)
    /\ phase' = "squeeze"
    /\ input' = out
    /\ pos' = 1
    /\ out' = <<>>
    /\ UNCHANGED <<newlines, wrapVars>>

-----------------------------------------------------------------------------
(* html_to_text: squeezing the blanks.                                     *)

\* s without what it ends in of these.
Trim(s, tokens) ==
    SubSeq(s, 1, CHOOSE n \in 0 .. Len(s) :
                    /\ n = 0 \/ s[n] \notin tokens
                    /\ \A i \in n + 1 .. Len(s) : s[i] \in tokens)

Squeeze ==
    /\ phase = "squeeze"
    /\ pos <= Len(input)
    /\ pos' = pos + 1
    /\ \/ /\ input[pos] = "newline"
          /\ out' = Trim(out, {"space"}) \o IF newlines < 2 THEN <<"newline">> ELSE <<>>
          /\ newlines' = newlines + 1
       \/ /\ input[pos] = "space"
          /\ out' = IF out # <<>> /\ Last(out) \notin Blanks
                    THEN Append(out, "space") ELSE out
          /\ UNCHANGED newlines
       \/ /\ input[pos] \in Letters
          /\ out' = Append(out, input[pos])
          /\ newlines' = 0
    /\ UNCHANGED <<phase, input, wrapVars>>

\* The text is done, and is wrapped.
StartWrap ==
    /\ phase = "squeeze"
    /\ pos > Len(input)
    /\ phase' = "wrap"
    /\ input' = Trim(out, Blanks)
    /\ pos' = 1
    /\ UNCHANGED <<htmlVars, wrapVars>>

-----------------------------------------------------------------------------
(* render_wrap.  A stretch <<i, j>> is the text from place i to place j.   *)

None == <<>>
IsLetter(i) == i \in DOMAIN input /\ input[i] \in Letters

\* The stretch from i to j is a word.
IsWord(i, j) ==
    /\ \A k \in i .. j : IsLetter(k)
    /\ ~IsLetter(i - 1) /\ ~IsLetter(j + 1)

\* utf8_width of a stretch as it stands on a line: a cell for each letter, one
\* more if it is wide, and one for the blanks before each word but the first.
Cells(i, j) ==
    LET letters == {k \in i .. j : input[k] \in Letters}
    IN  Cardinality(letters)
        + Cardinality({k \in letters : input[k] = "W"})
        + Cardinality({k \in letters : k > i /\ ~IsLetter(k - 1)})

\* What has been read but is on no finished line.
Open == {line, word} \ {None}

\* Mutant: the open line is forgotten.
FlushedNot == lines

\* push_line, if there is something on the open line
Flushed == IF line = None THEN lines ELSE Append(lines, line)

\* A paragraph without a character is a line without one.
EmptyParagraph ==
    /\ fresh
    /\ pos \in DOMAIN input => input[pos] = "newline"
    /\ lines' = Append(Flushed, <<pos, pos - 1>>)
    /\ line' = None
    /\ IF pos > Len(input) THEN phase' = "done" /\ UNCHANGED pos
                           ELSE pos' = pos + 1 /\ UNCHANGED phase
    /\ UNCHANGED <<input, htmlVars, word, fresh>>

\* The end of another paragraph does not end the line.
EndParagraph ==
    /\ ~fresh
    /\ pos <= Len(input) /\ input[pos] = "newline"
    /\ pos' = pos + 1
    /\ fresh' = TRUE
    /\ UNCHANGED <<phase, input, htmlVars, line, word, lines>>

Blank ==
    /\ pos <= Len(input) /\ input[pos] = "space"
    /\ pos' = pos + 1
    /\ fresh' = FALSE
    /\ UNCHANGED <<phase, input, htmlVars, line, word, lines>>

\* Mutant: the blank before the word is not counted.
FitsWithoutBlank(j) ==
    line # None /\ Cells(line[1], line[2]) + Cells(pos, j) <= Width

Fits(j) == line # None /\ Cells(line[1], line[2]) + 1 + Cells(pos, j) <= Width

\* A word that fits goes on the open line, any other on a new one.
Word(j) ==
    /\ IsWord(pos, j)
    /\ IF Fits(j)
       THEN line' = <<line[1], j>> /\ UNCHANGED <<word, lines>>
       ELSE word' = <<pos, j>> /\ lines' = Flushed /\ line' = None
    /\ pos' = j + 1
    /\ fresh' = FALSE
    /\ UNCHANGED <<phase, input, htmlVars>>

\* utf8_copy_cells: as much of a word that is too long as fits.
Cut(k) ==
    /\ Cells(word[1], word[2]) > Width
    /\ Cells(word[1], k) <= Width
    /\ Cells(word[1], k + 1) > Width
    /\ lines' = Append(lines, <<word[1], k>>)
    /\ word' = <<k + 1, word[2]>>
    /\ UNCHANGED <<phase, input, pos, htmlVars, line, fresh>>

\* What is left of a word that was cut, or a word that fits a line.
Rest ==
    /\ Cells(word[1], word[2]) <= Width
    /\ line' = word
    /\ word' = None
    /\ UNCHANGED <<phase, input, pos, htmlVars, fresh, lines>>

Finish ==
    /\ ~fresh
    /\ pos > Len(input)
    /\ phase' = "done"
    /\ lines' = Flushed
    /\ line' = None
    /\ UNCHANGED <<input, pos, htmlVars, word, fresh>>

Wrap ==
    /\ phase = "wrap"
    /\ \/ /\ word = None
          /\ EmptyParagraph \/ EndParagraph \/ Blank \/ Finish
       \/ /\ word = None
          /\ \E j \in pos .. Len(input) : Word(j)
       \/ /\ word # None
          /\ \/ \E k \in word[1] - 1 .. word[2] - 1 : Cut(k)
             \/ Rest

-----------------------------------------------------------------------------
\* The content of an article, or a title or a note.
Init ==
    /\ \/ phase = "scan" /\ input \in Contents
       \/ phase = "wrap" /\ input \in Plain
    /\ pos = 1
    /\ out = <<>>
    /\ newlines = 0
    /\ line = None
    /\ word = None
    /\ fresh = TRUE
    /\ lines = <<>>

Next == Scan \/ StartSqueeze \/ Squeeze \/ StartWrap \/ Wrap

\* The loops run on: there is nothing to wait for.
Spec == Init /\ [][Next]_vars /\ WF_vars(Next)

-----------------------------------------------------------------------------
Stretches == {s \in Nat \X Nat : 1 <= s[1] /\ s[2] <= Len(input)}

\* Type invariant: no loop reads past the end of its input, and what is
\* wrapped is a text without markup.
TypeOK ==
    /\ phase \in {"scan", "squeeze", "wrap", "done"}
    /\ input \in IF phase = "scan" THEN Seq(Tokens) ELSE Texts
    /\ pos \in 1 .. Len(input) + 1
    /\ out \in Texts
    /\ newlines \in Nat
    /\ line \in Stretches \cup {None}
    /\ word \in Stretches \cup {None}
    /\ fresh \in BOOLEAN
    /\ lines \in Seq(Stretches)

\* No line is wider than the pane.
LinesFit ==
    phase \in {"wrap", "done"} =>
       \A l \in ToSet(lines) \cup (Open \ {word}) : Cells(l[1], l[2]) <= Width

\* Every letter of the text that was read stands on a line, and the lines have
\* them in their order: none is lost, or shown twice, where a line or a word
\* is cut or the text ends.
NothingLost ==
    /\ \A i \in 1 .. pos - 1 :
          phase \in {"wrap", "done"} /\ IsLetter(i) =>
             \E s \in ToSet(lines) \cup Open : i \in s[1] .. s[2]
    /\ \A m, n \in DOMAIN lines : m < n => lines[m][2] < lines[n][1]
    /\ \A n \in DOMAIN lines, s \in Open : lines[n][2] < s[1]
    /\ phase = "done" => pos > Len(input) /\ Open = {}

\* The first markup of a content is a script, a style sheet or a comment, and
\* place i is within it.
WithinFirst(i) ==
    \E s \in 1 .. i - 1 :
       /\ \A k \in 1 .. s - 1 : input[k] \notin Opening \cup {"<!--"}
       /\ \/ /\ input[s] = "<!--"
             /\ \A k \in s .. i : input[k] # "-->"
          \/ /\ input[s] \in {"<script", "<style"}
             /\ \E e \in s + 1 .. i - 1 : input[e] \in Closing
             /\ \E c \in i + 1 .. Len(input) : input[c] = Closer(input[s])
             /\ \A k \in s .. i : input[k] # Closer(input[s])

\* Nothing within a comment, or within a script or a style sheet that is closed,
\* gets into the text, if it is the first markup of the content: what comes before
\* could open it in another way, and html_to_text shows what is in an unclosed one.
HiddenStaysHidden ==
    [][ phase = "scan" /\ phase' = "scan" /\ out' # out => ~WithinFirst(pos) ]_vars

\* Every text is wrapped in the end: both loops of html_to_text and the one of
\* render_wrap get on whatever they are given.
Terminates == <>(phase = "done")
=============================================================================
