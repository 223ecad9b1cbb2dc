----------------------------- MODULE AcrosticText -----------------------------
(***************************************************************************)
(* The markdown-aware first-letter extractor of the sentence acrostic      *)
(* (watermark/acrostics_icw.py) and the predicate that tells the decoder   *)
(* it is about to write a first letter.                                    *)
(*                                                                         *)
(* A text is a sequence of characters, one per class the regular           *)
(* expressions tell apart: a letter, "." (any of .!?), "nl", " ", "#",     *)
(* "*" (emphasis and bullet), ">" (quote marker and end of a tag), "<",    *)
(* "q" (quotes and brackets, opening or closing), "tick" (one backtick)    *)
(* and "fence" (three of them).                                            *)
(***************************************************************************)
EXTENDS Integers, Sequences

CONSTANT Letters

Marks == {".", "nl", " ", "#", "*", ">", "<", "q", "tick", "fence"}
Characters == Letters \cup Marks

ASSUME LettersAssumption == Letters \cap Marks = {}

White == {" ", "nl"}

\* The first position from p on whose character is not in C.
SkipRun(s, p, C) ==
  CHOOSE n \in p..Len(s) + 1 :
    /\ n <= Len(s) => s[n] \notin C
    /\ \A i \in p..n - 1 : s[i] \in C

-----------------------------------------------------------------------------
(***************************************************************************)
(* _md_preprocess: code and tags are cut out.                              *)
(***************************************************************************)

\* re.sub of open [^barrier]* close, at least least characters inside.
Elide(t, open, close, barrier, least, patch) ==
  LET Ends(p) == {n \in p + 1 + least..Len(t) :
                    t[n] = close /\ \A i \in p + 1..n - 1 : t[i] \notin barrier \cup {close}}
      From[p \in 1..Len(t) + 1] ==
        IF p > Len(t) THEN <<>>
        ELSE IF t[p] = open /\ Ends(p) # {}
        THEN patch \o From[(CHOOSE n \in Ends(p) : TRUE) + 1]
        ELSE <<t[p]>> \o From[p + 1]
  IN  From[1]

Preprocess(t) ==
  LET fenced == Elide(t, "fence", "fence", {}, 0, <<"nl">>)
      inline == Elide(fenced, "tick", "tick", {"nl"}, 1, <<>>)
  IN  Elide(inline, "<", ">", {"nl"}, 1, <<>>)

-----------------------------------------------------------------------------
(***************************************************************************)
(* Lines, block markers and blocks.                                        *)
(***************************************************************************)

\* One marker with the white space around it; p itself if there is none.
MarkerUnit(s, p) ==
  LET i == SkipRun(s, p, {" "})
      j == IF i > Len(s) THEN i
           ELSE IF s[i] = "#" THEN SkipRun(s, i, {"#"})
           ELSE IF s[i] \in {"*", ">"} THEN i + 1 ELSE i
      k == SkipRun(s, j, White)
  IN  IF j > i /\ k > j THEN k ELSE p

\* Where the content after all leading markers starts.
AfterMarkers(s) ==
  LET Rest[p \in 1..Len(s) + 1] ==
        IF MarkerUnit(s, p) = p THEN p ELSE Rest[MarkerUnit(s, p)]
  IN  Rest[1]

IsMarkerLine(line) == MarkerUnit(line, 1) > 1

LineStarts(t) == {p \in 1..Len(t) + 1 : p = 1 \/ t[p - 1] = "nl"}
LineEnd(t, p) == CHOOSE n \in p..Len(t) + 1 :
  /\ n <= Len(t) => t[n] = "nl"
  /\ \A i \in p..n - 1 : t[i] # "nl"
Line(t, p) == SubSeq(t, p, LineEnd(t, p) - 1)
PreviousLine(t, p) == CHOOSE n \in LineStarts(t) :
  n < p /\ \A m \in LineStarts(t) : m < p => m <= n
Blank(line) == \A i \in 1..Len(line) : line[i] \in White

\* A line opens a block when a blank line or a marker line comes before it, or
\* when it has a marker itself.
OpensBlock(t, p) ==
  /\ ~Blank(Line(t, p))
  /\ \/ p = 1
     \/ IsMarkerLine(Line(t, p))
     \/ LET before == Line(t, PreviousLine(t, p)) IN Blank(before) \/ IsMarkerLine(before)

BlockStarts(t) == {p \in LineStarts(t) : OpensBlock(t, p)}

\* A block ends at the next blank line or the next block.
BlockEnd(t, p) ==
  LET stops == {n \in LineStarts(t) : n > p /\ (OpensBlock(t, n) \/ Blank(Line(t, n)))}
  IN  IF stops = {} THEN Len(t) + 1 ELSE CHOOSE n \in stops : \A m \in stops : n <= m

Block(t, p) == SubSeq(t, p, BlockEnd(t, p) - 1)

-----------------------------------------------------------------------------
(***************************************************************************)
(* Acrostic positions and the letters found there.                         *)
(***************************************************************************)

\* Where the text goes on after each sentence terminator from position c on.
SentenceStarts(b, c) ==
  LET Closed(i) == SkipRun(b, i + 1, {"q"})
  IN  {SkipRun(b, Closed(i), White) :
         i \in {n \in c..Len(b) : b[n] = "." /\ Closed(n) <= Len(b) /\ b[Closed(n)] \in White}}

AcrosticPositions(b) ==
  LET c == IF IsMarkerLine(Line(b, 1)) THEN AfterMarkers(b) ELSE 1
  IN  {c} \cup SentenceStarts(b, c)

\* _md_extract_position: past white space, quotes and emphasis.
LetterPositions(b) ==
  {n \in {SkipRun(b, p, White \cup {"q", "*"}) : p \in AcrosticPositions(b)} :
     n <= Len(b) /\ b[n] \in Letters}

\* The places of the "valid" entries of the diagnosis.
LetterPlaces(t) ==
  UNION {{p + n - 1 : n \in LetterPositions(Block(t, p))} : p \in BlockStarts(t)}

\* Their letters, in the order of the text.
FirstLetters(text) ==
  LET t     == Preprocess(text)
      found == LetterPlaces(t)
      upTo[n \in 0..Len(t)] ==
        IF n = 0 THEN <<>>
        ELSE IF n \in found THEN Append(upTo[n - 1], t[n]) ELSE upTo[n - 1]
  IN  upTo[Len(t)]

-----------------------------------------------------------------------------
(***************************************************************************)
(* is_md_pre_letter, on the raw text.                                      *)
(***************************************************************************)

\* Emphasis and spaces, then quotes, up to the end of the line.
OnlyDecoration(line, p) ==
  SkipRun(line, SkipRun(line, p, {" ", "*"}), {"q"}) = Len(line) + 1

LineSkippable(line) == OnlyDecoration(line, AfterMarkers(line))

EndsSentence(line) ==
  \E i \in 1..Len(line) :
    line[i] = "." /\ SkipRun(line, SkipRun(line, i + 1, {"q"}), White) = Len(line) + 1

AfterSentence(line) ==
  \E i \in 1..Len(line) :
    LET j == SkipRun(line, i + 1, {"q"})
    IN  line[i] = "." /\ j <= Len(line) /\ line[j] = " " /\ OnlyDecoration(line, j)

LastLineStart(t) == CHOOSE p \in LineStarts(t) : \A n \in LineStarts(t) : n <= p

\* Mutant: a soft line break after a finished sentence is overlooked.
IsPreLetterNoSoftBreak(t) ==
  LET last == LastLineStart(t)
      line == Line(t, last)
      filled == {p \in LineStarts(t) : p < last /\ ~Blank(Line(t, p))}
      above == Line(t, CHOOSE p \in filled : \A n \in filled : n <= p)
  IN  IF LineSkippable(line)
      THEN \/ IsMarkerLine(line)
           \/ filled = {}
           \/ Blank(line) /\ Blank(Line(t, PreviousLine(t, last)))
           \/ IsMarkerLine(above)
      ELSE AfterSentence(line)

IsPreLetter(t) ==
  LET last == LastLineStart(t)
      line == Line(t, last)
      filled == {p \in LineStarts(t) : p < last /\ ~Blank(Line(t, p))}
      above == Line(t, CHOOSE p \in filled : \A n \in filled : n <= p)
  IN  IF LineSkippable(line)
      THEN \/ IsMarkerLine(line)
           \/ filled = {}
           \/ Blank(line) /\ Blank(Line(t, PreviousLine(t, last)))
           \/ IsMarkerLine(above)
           \/ EndsSentence(above)
      ELSE AfterSentence(line)
=============================================================================
