-------------------------- MODULE MarkdownChunker --------------------------
(***************************************************************************)
(* MarkdownChunker.chunk: a document is cut at its headings, sections that *)
(* are too long are cut at paragraphs, then at spaces, then anywhere, and  *)
(* short pieces are joined with their neighbour.  One loop iteration of    *)
(* the code is one step here.                                              *)
(*                                                                         *)
(* Characters are the printing ones, 1..size.  A piece of the text is the  *)
(* interval of its characters: what lies outside of them is white space,   *)
(* which strip() removes at either end of a piece.                         *)
(***************************************************************************)
EXTENDS Integers, Sequences, FiniteSets

CONSTANTS Documents, max_chars, min_chunk_chars, None

\* Of a document: the number of printing characters; of each of them where it
\* stands in the text and what its gap, the white space before it, does there
\* (stay on the line, end it, leave an empty line); where the text has a " ",
\* which may be in a gap of any kind, while a gap on the line may also be a
\* tab; and of the first character of a line whether _HEADING_PATTERN or
\* _FENCE_PATTERN matches the line.
Gaps == {"none", "inline", "line", "blank"}
Fences == {"backticks", "tildes"}
Level(mark) == CASE mark = "#" -> 1 [] mark = "##" -> 2 [] mark = "###" -> 3 [] OTHER -> 0

IsDocument(d) ==
    /\ d.size \in Nat
    /\ d.gap \in [1..d.size -> Gaps]
    /\ d.mark \in [1..d.size -> {"text", "#", "##", "###"} \cup Fences]
    /\ d.offset \in [1..d.size -> Nat]
    /\ d.spaces \subseteq Nat
    /\ \A k \in 1..d.size : d.offset[k] \notin d.spaces
    /\ \A k \in 2..d.size : d.mark[k] # "text" => d.gap[k] \in {"line", "blank"}
    /\ \A k \in 2..d.size :
          LET between == d.offset[k] - d.offset[k - 1] - 1
          IN /\ between >= 0
             /\ between = 0 <=> d.gap[k] = "none"
             /\ d.gap[k] = "blank" => between >= 2

\* Intervals of a document's characters.
Intervals == [from : Nat \ {0}, to : Nat]
Sections == [from : Nat \ {0}, to : Nat, heading_path : Seq(Nat)]
Pieces == [from : Nat \ {0}, to : Nat, length : Int, heading_path : Seq(Nat)]

ASSUME ChunkerAssumption ==
    /\ max_chars \in Nat \ {0} /\ min_chunk_chars \in 1..max_chars
    /\ \A d \in Documents : IsDocument(d)
    /\ None \notin Pieces /\ None \notin Intervals /\ None \notin Fences

VARIABLES doc,       \* the document
          at,        \* the loop the code is in: sections, split, merge, done
          next,      \* first character not looked at yet
          start,     \* first character of the lines collected
          fence,     \* fence_marker
          path,      \* heading_path: the first characters of the headings
          sections, pieces, merged,
          current,   \* the paragraphs collected
          remaining, \* what _split_hard still has to cut
          pending    \* the piece that may be joined with the next

vars == <<doc, at, next, start, fence, path, sections, pieces, merged, current, remaining, pending>>

---------------------------------------------------------------------------

Interval(i, j) == [from |-> i, to |-> j]

\* len(text) of the characters from i to j, with the white space between.
Length(i, j) == doc.offset[j] - doc.offset[i] + 1

\* From i on, j is the last character before a gap of one of the kinds, or is
\* the end.
IsEnd(i, j, kinds, end) ==
    /\ \A k \in (i + 1)..j : doc.gap[k] \notin kinds
    /\ j # end => doc.gap[j + 1] \in kinds

Piece(i, j, under) == [from |-> i, to |-> j, length |-> Length(i, j), heading_path |-> under]

\* Two texts joined by an empty line.
Joined(a, b) == [a EXCEPT !.to = b.to, !.length = a.length + 2 + b.length]

Collected == IF current = None THEN <<>> ELSE <<current>>

Init ==
    /\ doc \in Documents
    /\ at = "sections" /\ next = 1 /\ start = 1
    /\ fence = None /\ path = <<>>
    /\ sections = <<>> /\ pieces = <<>> /\ merged = <<>>
    /\ current = None /\ remaining = None /\ pending = None

---------------------------------------------------------------------------
(* _sections: line by line.                                                *)

flush == IF start < next
         THEN Append(sections, [from |-> start, to |-> next - 1, heading_path |-> path])
         ELSE sections

FenceLine ==
    /\ doc.mark[next] \in Fences
    /\ fence' = CASE fence = None            -> doc.mark[next]
                  [] fence = doc.mark[next]  -> None
                  [] OTHER                   -> fence
    /\ UNCHANGED <<start, path, sections>>

\* Faulty variant: the path keeps the heading that this one replaces.
HeadingLineBeside ==
    LET level == Level(doc.mark[next])
        kept == IF level < Len(path) THEN level ELSE Len(path)
    IN /\ level > 0 /\ fence = None
       /\ sections' = flush
       /\ start' = next
       /\ path' = Append(SubSeq(path, 1, kept), next)
       /\ UNCHANGED fence

HeadingLine ==
    LET level == Level(doc.mark[next])
        kept == IF level - 1 < Len(path) THEN level - 1 ELSE Len(path)
    IN /\ level > 0 /\ fence = None
       /\ sections' = flush
       /\ start' = next
       /\ path' = Append(SubSeq(path, 1, kept), next)
       /\ UNCHANGED fence

OtherLine ==
    /\ doc.mark[next] \notin Fences
    /\ Level(doc.mark[next]) > 0 => fence # None
    /\ UNCHANGED <<start, fence, path, sections>>

ReadLine ==
    /\ at = "sections" /\ next <= doc.size
    /\ FenceLine \/ HeadingLine \/ OtherLine
    /\ \E last \in next..doc.size : IsEnd(next, last, {"line", "blank"}, doc.size) /\ next' = last + 1
    /\ UNCHANGED <<doc, at, pieces, merged, current, remaining, pending>>

EndOfText ==
    /\ at = "sections" /\ next > doc.size
    /\ sections' = flush
    /\ at' = "split" /\ next' = 1
    /\ UNCHANGED <<doc, start, fence, path, pieces, merged, current, remaining, pending>>

---------------------------------------------------------------------------
(* _split_to_max_size, for one section after the other.                    *)

TooLong(section) == Length(section.from, section.to) > max_chars

KeepSection ==
    /\ at = "split" /\ sections # <<>>
    /\ LET section == Head(sections)
       IN /\ ~TooLong(section)
          /\ pieces' = Append(pieces, Piece(section.from, section.to, section.heading_path))
          /\ next' = section.to + 1
    /\ sections' = Tail(sections)
    /\ UNCHANGED <<doc, at, start, fence, path, merged, current, remaining, pending>>

\* A paragraph joins the collected ones, or ends them and is cut by itself.
TakeParagraph ==
    /\ at = "split" /\ sections # <<>> /\ remaining = None
    /\ LET section == Head(sections)
       IN /\ TooLong(section) /\ next <= section.to
          /\ \E last \in next..section.to :
                LET paragraph == Piece(next, last, section.heading_path)
                    candidate == IF current = None THEN paragraph ELSE Joined(current, paragraph)
                IN /\ IsEnd(next, last, {"blank"}, section.to)
                   /\ next' = last + 1
                   /\ IF candidate.length <= max_chars
                      THEN current' = candidate /\ UNCHANGED <<pieces, remaining>>
                      ELSE /\ pieces' = pieces \o Collected
                           /\ current' = None
                           /\ remaining' = Interval(next, last)
    /\ UNCHANGED <<doc, at, start, fence, path, sections, merged, pending>>

\* Faulty variant: the cut is one character late.
IsCutLate(i, j, k) ==
    LET fitting == {n \in (i + 1)..j : Length(i, n - 1) <= max_chars + 1}
    IN k \in fitting /\ \A n \in fitting : n <= k

\* The gap before n has a " " in the first max_chars + 1 characters from i on.
SpaceBefore(i, n) ==
    \E p \in doc.spaces :
        /\ doc.offset[n - 1] < p /\ p < doc.offset[n]
        /\ p - doc.offset[i] <= max_chars

\* _split_hard: the last such " " from i to j, or, when there is none, the last
\* character that fits.
IsCut(i, j, k) ==
    LET spaces == {n \in (i + 1)..j : SpaceBefore(i, n)}
        fitting == {n \in (i + 1)..j : Length(i, n - 1) <= max_chars}
    IN /\ k \in (IF spaces # {} THEN spaces ELSE fitting)
       /\ \A n \in (IF spaces # {} THEN spaces ELSE fitting) : n <= k

SplitHard ==
    /\ at = "split" /\ remaining # None
    /\ LET under == Head(sections).heading_path
       IN IF Length(remaining.from, remaining.to) > max_chars
          THEN \E k \in (remaining.from + 1)..remaining.to :
                  /\ IsCut(remaining.from, remaining.to, k)
                  /\ pieces' = Append(pieces, Piece(remaining.from, k - 1, under))
                  /\ remaining' = Interval(k, remaining.to)
          ELSE /\ pieces' = Append(pieces, Piece(remaining.from, remaining.to, under))
               /\ remaining' = None
    /\ UNCHANGED <<doc, at, next, start, fence, path, sections, merged, current, pending>>

\* Faulty variant: what is collected at the end is dropped.
EndSectionOnly ==
    /\ at = "split" /\ sections # <<>> /\ remaining = None
    /\ LET section == Head(sections)
       IN TooLong(section) /\ next > section.to
    /\ current' = None
    /\ sections' = Tail(sections)
    /\ UNCHANGED <<doc, at, next, start, fence, path, pieces, merged, remaining, pending>>

EndSection ==
    /\ at = "split" /\ sections # <<>> /\ remaining = None
    /\ LET section == Head(sections)
       IN TooLong(section) /\ next > section.to
    /\ pieces' = pieces \o Collected
    /\ current' = None
    /\ sections' = Tail(sections)
    /\ UNCHANGED <<doc, at, next, start, fence, path, merged, remaining, pending>>

EndOfSections ==
    /\ at = "split" /\ sections = <<>>
    /\ at' = "merge"
    /\ UNCHANGED <<doc, next, start, fence, path, sections, pieces, merged, current, remaining, pending>>

---------------------------------------------------------------------------
(* _merge_short_pieces.                                                    *)

\* Faulty variant: a short piece is joined whatever the length of the next.
MergeAnyPiece ==
    /\ at = "merge" /\ pieces # <<>>
    /\ IF pending # None /\ pending.length < min_chunk_chars
       THEN pending' = Joined(pending, Head(pieces)) /\ UNCHANGED merged
       ELSE /\ pending' = Head(pieces)
            /\ merged' = IF pending = None THEN merged ELSE Append(merged, pending)
    /\ pieces' = Tail(pieces)
    /\ UNCHANGED <<doc, at, next, start, fence, path, sections, current, remaining>>

MergePiece ==
    /\ at = "merge" /\ pieces # <<>>
    /\ LET piece == Head(pieces)
       IN CASE pending = None -> pending' = piece /\ UNCHANGED merged
            [] pending # None /\ pending.length < min_chunk_chars
                 /\ Joined(pending, piece).length <= max_chars
                   -> pending' = Joined(pending, piece) /\ UNCHANGED merged
            [] OTHER -> pending' = piece /\ merged' = Append(merged, pending)
    /\ pieces' = Tail(pieces)
    /\ UNCHANGED <<doc, at, next, start, fence, path, sections, current, remaining>>

EndOfPieces ==
    /\ at = "merge" /\ pieces = <<>>
    /\ merged' = IF pending = None THEN merged ELSE Append(merged, pending)
    /\ at' = "done" /\ pending' = None
    /\ UNCHANGED <<doc, next, start, fence, path, sections, pieces, current, remaining>>

Next ==
    \/ ReadLine \/ EndOfText
    \/ KeepSection \/ TakeParagraph \/ SplitHard \/ EndSection \/ EndOfSections
    \/ MergePiece \/ EndOfPieces

Spec == Init /\ [][Next]_vars

---------------------------------------------------------------------------
(* Properties.                                                             *)

\* Each of the intervals follows the one before it, from i to j.
Chain(seq, i, j) ==
    /\ \A n \in DOMAIN seq : seq[n].from <= seq[n].to /\ seq[n].to <= j
    /\ \A n \in 1..(Len(seq) - 1) : seq[n + 1].from = seq[n].to + 1
    /\ IF seq = <<>> THEN j = i - 1 ELSE seq[1].from = i /\ seq[Len(seq)].to = j

\* Every variable has the type the code gives it.
ChunkerTypeOK ==
    /\ IsDocument(doc)
    /\ at \in {"sections", "split", "merge", "done"}
    /\ next \in 1..(doc.size + 1) /\ start \in 1..(doc.size + 1)
    /\ fence \in Fences \cup {None} /\ path \in Seq(Nat)
    /\ sections \in Seq(Sections)
    /\ pieces \in Seq(Pieces) /\ merged \in Seq(Pieces)
    /\ current \in Pieces \cup {None} /\ pending \in Pieces \cup {None}
    /\ remaining \in Intervals \cup {None}

\* What is collected, cut and joined so far, and what is left, follow each
\* other without a gap in every loop of the code.
SectionsFollow ==
    at = "sections" =>
        /\ start <= next /\ Chain(sections, 1, start - 1)
        /\ pieces = <<>> /\ merged = <<>>
        /\ current = None /\ remaining = None /\ pending = None

PiecesFollow ==
    at = "split" =>
        /\ merged = <<>> /\ pending = None
        /\ current = None \/ remaining = None
        /\ Chain(pieces, 1, (IF current # None THEN current.from
                             ELSE IF remaining # None THEN remaining.from ELSE next) - 1)
        /\ current # None => current.from <= current.to /\ current.to = next - 1
        /\ remaining # None => remaining.from <= remaining.to /\ remaining.to = next - 1
        /\ IF sections = <<>>
           THEN current = None /\ remaining = None /\ next = doc.size + 1
           ELSE /\ Chain(sections, sections[1].from, doc.size)
                /\ next \in sections[1].from..(sections[1].to + 1)
                /\ ~TooLong(sections[1]) =>
                       current = None /\ remaining = None /\ next = sections[1].from

MergedFollow ==
    /\ at = "merge" =>
        IF pending = None
        THEN merged = <<>> /\ Chain(pieces, 1, doc.size)
        ELSE /\ pending.from <= pending.to
             /\ Chain(merged, 1, pending.from - 1) /\ Chain(pieces, pending.to + 1, doc.size)
    /\ at = "done" => Chain(merged, 1, doc.size)

LengthsFit ==
    /\ \A n \in DOMAIN pieces : pieces[n].length <= max_chars
    /\ \A n \in DOMAIN merged : merged[n].length <= max_chars
    /\ current # None => current.length <= max_chars
    /\ pending # None => pending.length <= max_chars

ChunkerInv == ChunkerTypeOK /\ SectionsFollow /\ PiecesFollow /\ MergedFollow /\ LengthsFit

\* The chunks hold every printing character of the document, each once and in
\* its order, however sections, paragraphs and lines were cut and joined.
ContentKept == at = "done" => Chain(merged, 1, doc.size)

\* No chunk is longer than max_chars, also not one that was joined from pieces.
ChunksFit == at = "done" => \A n \in DOMAIN merged : merged[n].length <= max_chars

\* What a line does to the marker of the code block that is open before it.
OpenAfter(mark, open) ==
    CASE mark \in Fences /\ open = None -> mark
      [] mark = open                    -> None
      [] OTHER                          -> open

\* The marker of the code block that is open before each line of a document.
Fenced(d) ==
    LET open[k \in 1..(d.size + 1)] ==
            IF k = 1 THEN None ELSE OpenAfter(d.mark[k - 1], open[k - 1])
    IN open

Headings(d) == LET open == Fenced(d)
               IN {k \in 1..d.size : Level(d.mark[k]) > 0 /\ open[k] = None}

Before(d, k) == {h \in Headings(d) : h < k}

LastOf(set) == CHOOSE h \in set : \A k \in set : k <= h

\* Each heading is at most one level below the one before it.
NoLevelSkipped(d) ==
    \A h \in Headings(d) :
        Level(d.mark[h]) <= IF Before(d, h) = {} THEN 1 ELSE Level(d.mark[LastOf(Before(d, h))]) + 1

\* The heading_path a chunk is stored with is that of the text it starts with:
\* it ends with the last heading up to there, code blocks apart, and names, in
\* a document that skips no level, the headings above it level by level.
ChunkUnderItsHeading ==
    at = "done" =>
        \A n \in DOMAIN merged :
            LET above == Before(doc, merged[n].from + 1)
                names == merged[n].heading_path
            IN /\ IF above = {} THEN names = <<>> ELSE names[Len(names)] = LastOf(above)
               /\ NoLevelSkipped(doc) => \A m \in DOMAIN names : Level(doc.mark[names[m]]) = m
============================================================================
