----------------------- MODULE MarkdownChunkerProofs -----------------------
(***************************************************************************)
(* For every document and every max_chars and min_chunk_chars: the chunks  *)
(* hold each printing character once and in order, none is too long, and   *)
(* each carries the headings it stands under.  The first two follow from   *)
(* ChunkerInv, which says where the loops of the code stand, the third     *)
(* from HeadingInv on top of it; the proofs have a step per loop iteration.*)
(***************************************************************************)
EXTENDS MarkdownChunker, SequenceTheorems, WellFoundedInduction, TLAPS

---------------------------------------------------------------------------
(* Chains of intervals.                                                    *)

\* A chain goes on with an interval that starts right after its end.
LEMMA ChainAppend ==
    ASSUME NEW S, NEW seq \in Seq(S), NEW e \in S, NEW i \in Int, NEW j \in Int,
           e.from \in Int, e.to \in Int, \A s \in S : s.to \in Int,
           Chain(seq, i, j), e.from = j + 1, e.from <= e.to
    PROVE  Chain(Append(seq, e), i, e.to)
<1> DEFINE t == Append(seq, e)
<1>1. /\ Len(t) = Len(seq) + 1 /\ Len(seq) \in Nat /\ t # <<>> /\ DOMAIN t = 1..Len(t)
      /\ DOMAIN seq = 1..Len(seq)
      /\ \A n \in 1..Len(seq) : t[n] = seq[n]
      /\ t[Len(t)] = e
  OBVIOUS
<1>2. ASSUME NEW n \in DOMAIN t PROVE t[n].from <= t[n].to /\ t[n].to <= e.to
  <2>0. n \in 1..Len(seq) \/ n = Len(t) BY <1>1
  <2>1. CASE n \in 1..Len(seq)
    <3>1. t[n] = seq[n] /\ seq[n] \in S BY <2>1, <1>1
    <3>2. seq[n].from <= seq[n].to /\ seq[n].to <= j BY <2>1, <1>1 DEF Chain
    <3>3. seq[n].to \in Int BY <3>1
    <3>4. QED BY <3>1, <3>2, <3>3
  <2>2. CASE n = Len(t) BY <2>2, <1>1
  <2>3. QED BY <2>0, <2>1, <2>2
<1>3. ASSUME NEW n \in 1..(Len(t) - 1) PROVE t[n + 1].from = t[n].to + 1
  <2>0. n < Len(seq) \/ n = Len(seq)
    <3>1. Len(t) - 1 = Len(seq) /\ Len(seq) \in Nat BY <1>1
    <3>2. n \in 1..Len(seq) BY <3>1
    <3>3. QED BY <3>1, <3>2
  <2>1. CASE n < Len(seq)
    <3>1. n \in 1..(Len(seq) - 1) /\ n \in 1..Len(seq) /\ n + 1 \in 1..Len(seq) BY <2>1, <1>1
    <3>2. seq[n + 1].from = seq[n].to + 1 BY <3>1 DEF Chain
    <3>3. t[n + 1] = seq[n + 1] /\ t[n] = seq[n] BY <3>1, <1>1
    <3>4. QED BY <3>2, <3>3
  <2>2. CASE n = Len(seq)
    <3>1. seq # <<>> BY <2>2, <1>1
    <3>2. seq[Len(seq)].to = j BY <3>1 DEF Chain
    <3>3. t[n + 1] = e /\ t[n] = seq[Len(seq)] BY <2>2, <1>1
    <3>4. QED BY <3>2, <3>3
  <2>3. QED BY <2>0, <2>1, <2>2
<1>4. t[1].from = i /\ t[Len(t)].to = e.to
  <2>1. CASE seq = <<>> BY <2>1, <1>1 DEF Chain
  <2>2. CASE seq # <<>> BY <2>2, <1>1 DEF Chain
  <2>3. QED BY <2>1, <2>2
<1>5. QED BY <1>1, <1>2, <1>3, <1>4 DEF Chain

\* Without its first interval a chain starts right after it.
LEMMA ChainTail ==
    ASSUME NEW S, NEW seq \in Seq(S), NEW i \in Int, NEW j \in Int,
           seq # <<>>, Chain(seq, i, j)
    PROVE  /\ seq[1] \in S /\ Tail(seq) \in Seq(S)
           /\ seq[1].from = i /\ seq[1].from <= seq[1].to /\ seq[1].to <= j
           /\ Tail(seq) = <<>> => seq[1].to = j
           /\ Tail(seq) # <<>> => Tail(seq)[1].from = seq[1].to + 1
           /\ seq[1].to \in Int => Chain(Tail(seq), seq[1].to + 1, j)
<1> DEFINE t == Tail(seq)
<1>1. /\ Len(t) = Len(seq) - 1 /\ Len(seq) \in Nat \ {0} /\ DOMAIN t = 1..Len(t)
      /\ DOMAIN seq = 1..Len(seq)
      /\ \A n \in 1..Len(t) : t[n] = seq[n + 1]
      /\ t = <<>> <=> Len(seq) = 1
      /\ seq[1] \in S /\ t \in Seq(S)
  <2>1. Len(seq) \in Nat \ {0} /\ DOMAIN seq = 1..Len(seq) /\ seq[1] \in S OBVIOUS
  <2>2. t \in Seq(S) /\ Len(t) = Len(seq) - 1 /\ DOMAIN t = 1..Len(t) OBVIOUS
  <2>3. \A n \in 1..Len(t) : t[n] = seq[n + 1] BY <2>1, <2>2
  <2>4. t = <<>> <=> Len(seq) = 1
    <3> HIDE DEF t
    <3>1. t = <<>> => Len(t) = 0 BY EmptySeq
    <3>2. t # <<>> => Len(t) # 0 BY <2>2, EmptySeq
    <3>3. QED BY <2>1, <2>2, <3>1, <3>2
  <2>5. QED BY <2>1, <2>2, <2>3, <2>4
<1>2. \A n \in DOMAIN t : t[n].from <= t[n].to /\ t[n].to <= j
  BY <1>1 DEF Chain
<1>3. \A n \in 1..(Len(t) - 1) : t[n + 1].from = t[n].to + 1
  BY <1>1 DEF Chain
<1>4. t # <<>> => t[1].from = seq[1].to + 1 /\ t[Len(t)].to = j
  BY <1>1 DEF Chain
<1>5. seq[1].from = i /\ seq[1].from <= seq[1].to /\ seq[1].to <= j /\ (t = <<>> => seq[1].to = j)
  BY <1>1 DEF Chain
<1>6. seq[1].to \in Int => Chain(t, seq[1].to + 1, j)
  <2>1. t = <<>> /\ seq[1].to \in Int => j = (seq[1].to + 1) - 1
    BY <1>5
  <2> HIDE DEF t
  <2>2. QED BY <1>2, <1>3, <1>4, <2>1 DEF Chain
<1>7. QED BY <1>1, <1>4, <1>5, <1>6

---------------------------------------------------------------------------
(* The invariant.                                                          *)

\* The bounds of sections and pieces are positions in the text.
LEMMA Bounds ==
    /\ \A s \in Sections : s.from \in Nat \ {0} /\ s.to \in Int
    /\ \A p \in Pieces : p.from \in Nat \ {0} /\ p.to \in Int
    /\ \A v \in Intervals : v.from \in Nat \ {0} /\ v.to \in Int
  BY DEF Sections, Pieces, Intervals

\* What an interval of a document's characters measures is an integer.
LEMMA LengthInt ==
    ASSUME IsDocument(doc), NEW i \in 1..doc.size, NEW j \in 1..doc.size
    PROVE  Length(i, j) \in Int
<1>1. doc.offset \in [1..doc.size -> Nat] BY DEF IsDocument
<1>2. doc.offset[i] \in Nat /\ doc.offset[j] \in Nat BY <1>1
<1>3. QED BY <1>2 DEF Length

\* A part of the document as a piece, and as a text still to cut.
LEMMA PieceIs ==
    ASSUME IsDocument(doc), doc.size \in Nat, NEW i \in 1..doc.size, NEW j \in 1..doc.size,
           NEW under \in Seq(Nat)
    PROVE  /\ Piece(i, j, under) \in Pieces
           /\ Piece(i, j, under).from = i /\ Piece(i, j, under).to = j
           /\ Piece(i, j, under).length = Length(i, j)
<1>1. Length(i, j) \in Int BY LengthInt
<1>2. i \in Nat \ {0} /\ j \in Nat OBVIOUS
<1>3. QED BY <1>1, <1>2 DEF Piece, Pieces

LEMMA IntervalIs ==
    ASSUME NEW i \in Nat \ {0}, NEW j \in Nat
    PROVE  /\ Interval(i, j) \in Intervals /\ Interval(i, j) # None
           /\ Interval(i, j).from = i /\ Interval(i, j).to = j
<1>1. Interval(i, j) \in Intervals /\ Interval(i, j).from = i /\ Interval(i, j).to = j
  BY DEF Interval, Intervals
<1>2. QED BY <1>1, ChunkerAssumption

\* Every conjunct holds when the code starts.
LEMMA ChunkerInit == Init => ChunkerInv
<1> USE DEF ChunkerInv, ChunkerTypeOK
<1> SUFFICES ASSUME Init PROVE ChunkerInv
  OBVIOUS
<1>1. IsDocument(doc) BY ChunkerAssumption DEF Init
<1>2. doc.size \in Nat BY <1>1 DEF IsDocument
<1>3. ChunkerTypeOK BY <1>1, <1>2 DEF Init
<1>4. SectionsFollow BY <1>2 DEF Init, SectionsFollow, Chain
<1>5. PiecesFollow /\ MergedFollow /\ LengthsFit
  BY DEF Init, PiecesFollow, MergedFollow, LengthsFit
<1>6. QED BY <1>3, <1>4, <1>5

\* The section that flush() adds continues the chain of sections.
LEMMA Flushed ==
    ASSUME ChunkerInv, at = "sections"
    PROVE  flush \in Seq(Sections) /\ Chain(flush, 1, next - 1)
<1> USE DEF ChunkerInv, ChunkerTypeOK
<1> DEFINE section == [from |-> start, to |-> next - 1, heading_path |-> path]
<1>1. doc.size \in Nat /\ start \in Int /\ next \in Int BY DEF IsDocument
<1>2. start <= next /\ Chain(sections, 1, start - 1) BY DEF SectionsFollow
<1>3. CASE start < next
  <2>1. section \in Sections BY <1>1 DEF Sections
  <2>2. section.from = (start - 1) + 1 /\ section.from <= section.to BY <1>1, <1>3
  <2>3. Chain(Append(sections, section), 1, section.to)
    <3>1. /\ sections \in Seq(Sections) /\ start - 1 \in Int
          /\ section.from \in Int /\ section.to \in Int
          /\ \A s \in Sections : s.to \in Int
      BY <1>1, Bounds
    <3> HIDE DEF section, ChunkerInv, ChunkerTypeOK
    <3>2. QED BY <1>2, <2>1, <2>2, <3>1, ChainAppend
  <2>4. QED BY <1>3, <2>1, <2>3 DEF flush
<1>4. CASE start = next BY <1>1, <1>2, <1>4 DEF flush
<1>5. QED BY <1>1, <1>2, <1>3, <1>4

LEMMA ReadLineStep == ChunkerInv /\ ReadLine => ChunkerInv'
<1> USE DEF ChunkerInv, ChunkerTypeOK
<1> SUFFICES ASSUME ChunkerInv, ReadLine PROVE ChunkerInv'
  OBVIOUS
<1>1. /\ at = "sections" /\ at' = "sections" /\ next <= doc.size
      /\ UNCHANGED <<doc, pieces, merged, current, remaining, pending>>
  BY DEF ReadLine
<1>2. doc.size \in Nat /\ IsDocument(doc)' BY <1>1 DEF IsDocument
<1>3. next' \in 1..(doc.size + 1) /\ next < next'
  BY <1>2 DEF ReadLine
<1>4. start <= next /\ Chain(sections, 1, start - 1) BY <1>1 DEF SectionsFollow
<1>5. /\ start' \in 1..(doc.size + 1) /\ start' <= next'
      /\ sections' \in Seq(Sections) /\ Chain(sections', 1, start' - 1)
      /\ fence' \in Fences \cup {None} /\ path' \in Seq(Nat)
  <2>1. CASE FenceLine BY <2>1, <1>2, <1>3, <1>4 DEF FenceLine
  <2>2. CASE HeadingLine
    <3> DEFINE level == Level(doc.mark[next])
               kept == IF level - 1 < Len(path) THEN level - 1 ELSE Len(path)
    <3>1. level \in Nat /\ level > 0 BY <2>2 DEF HeadingLine, Level
    <3>2. kept \in 0..Len(path) BY <3>1
    <3>3. SubSeq(path, 1, kept) \in Seq(Nat) BY <3>2
    <3>4. path' = Append(SubSeq(path, 1, kept), next) BY <2>2 DEF HeadingLine
    <3>5. path' \in Seq(Nat) BY <3>3, <3>4, <1>2
    <3>6. sections' = flush /\ start' = next /\ fence' = fence BY <2>2 DEF HeadingLine
    <3>7. QED BY <3>5, <3>6, <1>1, <1>2, <1>3, Flushed
  <2>3. CASE OtherLine BY <2>3, <1>2, <1>3, <1>4 DEF OtherLine
  <2>4. QED BY <2>1, <2>2, <2>3 DEF ReadLine
<1>6. ChunkerTypeOK' BY <1>1, <1>2, <1>3, <1>5
<1>7. SectionsFollow' BY <1>1, <1>5 DEF SectionsFollow
<1>8. PiecesFollow' /\ MergedFollow' BY <1>1 DEF PiecesFollow, MergedFollow
<1>9. LengthsFit' BY <1>1 DEF LengthsFit
<1>10. QED BY <1>6, <1>7, <1>8, <1>9

LEMMA EndOfTextStep == ChunkerInv /\ EndOfText => ChunkerInv'
<1> USE DEF ChunkerInv, ChunkerTypeOK
<1> SUFFICES ASSUME ChunkerInv, EndOfText PROVE ChunkerInv'
  OBVIOUS
<1>1. /\ at = "sections" /\ at' = "split" /\ next > doc.size /\ next' = 1 /\ sections' = flush
      /\ UNCHANGED <<doc, start, fence, path, pieces, merged, current, remaining, pending>>
  BY DEF EndOfText
<1>2. doc.size \in Nat /\ IsDocument(doc)' BY <1>1 DEF IsDocument
<1>3. next - 1 = doc.size
  <2>1. next \in 1..(doc.size + 1) OBVIOUS
  <2>2. next > doc.size BY <1>1
  <2>3. doc.size \in Nat BY <1>2
  <2> HIDE DEF ChunkerInv, ChunkerTypeOK
  <2>4. ASSUME NEW n \in Nat, NEW k \in 1..(n + 1), k > n PROVE k - 1 = n
    BY <2>4
  <2>5. QED BY <2>1, <2>2, <2>3, <2>4
<1>4. /\ pieces = <<>> /\ merged = <<>>
      /\ current = None /\ remaining = None /\ pending = None
  BY <1>1 DEF SectionsFollow
<1>5. flush \in Seq(Sections) /\ Chain(flush, 1, doc.size) BY <1>1, <1>3, Flushed
<1>6. ChunkerTypeOK' BY <1>1, <1>2, <1>5
<1>7. SectionsFollow' /\ MergedFollow' BY <1>1 DEF SectionsFollow, MergedFollow
<1>8. PiecesFollow'
  <2>1. Chain(pieces', 1, next' - 1) BY <1>1, <1>4 DEF Chain
  <2>2. CASE flush = <<>> BY <2>1, <2>2, <1>1, <1>2, <1>4, <1>5 DEF PiecesFollow, Chain
  <2>3. CASE flush # <<>>
    <3>1. /\ flush[1] \in Sections /\ flush[1].from = 1 /\ flush[1].from <= flush[1].to
      <4>1. doc.size \in Int /\ 1 \in Int BY <1>2
      <4> HIDE DEF ChunkerInv, ChunkerTypeOK
      <4>2. QED BY <2>3, <4>1, <1>5, ChainTail
    <3>2. next' \in flush[1].from..(flush[1].to + 1) BY <3>1, <1>1 DEF Sections
    <3>3. QED BY <3>1, <3>2, <2>1, <2>3, <1>1, <1>4, <1>5 DEF PiecesFollow
  <2>4. QED BY <2>2, <2>3
<1>9. LengthsFit' BY <1>1, <1>4 DEF LengthsFit
<1>10. QED BY <1>6, <1>7, <1>8, <1>9

\* What the loop over the sections finds: the first one, in the text.
LEMMA FirstSection ==
    ASSUME ChunkerInv, at = "split", sections # <<>>
    PROVE  LET section == sections[1]
               rest == Tail(sections)
           IN /\ doc.size \in Nat /\ section \in Sections /\ rest \in Seq(Sections)
              /\ section.from \in 1..doc.size /\ section.to \in 1..doc.size
              /\ section.heading_path \in Seq(Nat)
              /\ next \in section.from..(section.to + 1)
              /\ rest = <<>> => section.to = doc.size
              /\ rest # <<>> => /\ rest[1].from = section.to + 1
                                /\ section.to + 1 \in rest[1].from..(rest[1].to + 1)
              /\ Chain(rest, section.to + 1, doc.size)
<1> DEFINE section == sections[1]
           rest == Tail(sections)
<1>1. doc.size \in Nat /\ sections \in Seq(Sections) BY DEF ChunkerInv, ChunkerTypeOK, IsDocument
<1>2. Chain(sections, section.from, doc.size) /\ next \in section.from..(section.to + 1)
  BY DEF ChunkerInv, PiecesFollow
<1>3. section \in Sections BY <1>1
<1>4. section.from \in Nat \ {0} /\ section.to \in Nat /\ section.heading_path \in Seq(Nat)
  BY <1>3 DEF Sections
<1>5. /\ rest \in Seq(Sections)
      /\ section.from <= section.to /\ section.to <= doc.size
      /\ rest = <<>> => section.to = doc.size
      /\ rest # <<>> => rest[1].from = section.to + 1
      /\ Chain(rest, section.to + 1, doc.size)
  <2>1. section.from \in Int /\ doc.size \in Int /\ section.to \in Int BY <1>1, <1>4
  <2> HIDE DEF section
  <2>2. Chain(sections, section.from, doc.size) BY <1>2
  <2>3. QED BY <1>1, <2>1, <2>2, ChainTail DEF section
<1>6. ASSUME rest # <<>> PROVE section.to + 1 \in rest[1].from..(rest[1].to + 1)
  <2> HIDE DEF section, rest
  <2>1. rest[1] \in Sections /\ rest[1].from <= rest[1].to
    BY <1>1, <1>4, <1>5, <1>6, ChainTail
  <2>2. rest[1].from \in Nat /\ rest[1].to \in Nat BY <2>1 DEF Sections
  <2>3. QED BY <1>4, <1>5, <1>6, <2>1, <2>2
<1>7. section.from \in 1..doc.size /\ section.to \in 1..doc.size
  <2> HIDE DEF section
  <2>1. QED BY <1>1, <1>4, <1>5
<1>8. QED BY <1>1, <1>2, <1>3, <1>4, <1>5, <1>6, <1>7

\* A section that is finished leaves the loop at the next one.
LEMMA SectionDone ==
    ASSUME ChunkerInv, at = "split", sections # <<>>, at' = "split",
           sections' = Tail(sections), next' = sections[1].to + 1,
           current' = None, remaining' = None, UNCHANGED <<doc, merged, pending>>,
           Chain(pieces', 1, sections[1].to)
    PROVE  PiecesFollow' /\ next' \in 1..(doc.size + 1) /\ sections' \in Seq(Sections)
<1> DEFINE section == sections[1]
           rest == Tail(sections)
<1>1. /\ doc.size \in Nat /\ section.to \in 1..doc.size /\ rest \in Seq(Sections)
      /\ rest = <<>> => section.to = doc.size
      /\ rest # <<>> => /\ rest[1].from = section.to + 1
                        /\ section.to + 1 \in rest[1].from..(rest[1].to + 1)
      /\ Chain(rest, section.to + 1, doc.size)
  BY FirstSection
<1>2. merged' = <<>> /\ pending' = None BY DEF ChunkerInv, PiecesFollow
<1>3. next' = section.to + 1 /\ sections' = rest /\ Chain(pieces', 1, section.to) OBVIOUS
<1> HIDE DEF section, rest
<1>4. next' - 1 = section.to /\ next' \in 1..(doc.size + 1)
  <2>1. doc.size \in Nat /\ section.to \in 1..doc.size /\ next' = section.to + 1 BY <1>1, <1>3
  <2>2. QED BY <2>1
<1>5. CASE rest = <<>> BY <1>1, <1>2, <1>3, <1>4, <1>5 DEF PiecesFollow
<1>6. CASE rest # <<>> BY <1>1, <1>2, <1>3, <1>4, <1>6 DEF PiecesFollow
<1>7. QED BY <1>1, <1>3, <1>4, <1>5, <1>6

\* A section that is short enough is one piece.
LEMMA KeepSectionStep == ChunkerInv /\ KeepSection => ChunkerInv'
<1> SUFFICES ASSUME ChunkerInv, KeepSection PROVE ChunkerInv'
  OBVIOUS
<1> DEFINE section == sections[1]
           piece == Piece(section.from, section.to, section.heading_path)
<1>1. /\ at = "split" /\ at' = "split" /\ sections # <<>> /\ ~TooLong(section)
      /\ pieces' = Append(pieces, piece) /\ next' = section.to + 1 /\ sections' = Tail(sections)
      /\ UNCHANGED <<doc, start, fence, path, merged, current, remaining, pending>>
  BY DEF KeepSection
<1>2. /\ current = None /\ remaining = None /\ next = section.from
      /\ Chain(pieces, 1, next - 1)
  BY <1>1 DEF PiecesFollow, ChunkerInv
<1>3. /\ doc.size \in Nat /\ section.from \in 1..doc.size /\ section.to \in 1..doc.size
      /\ section.heading_path \in Seq(Nat) /\ next \in section.from..(section.to + 1)
      /\ section \in Sections
  BY <1>1, FirstSection
<1>4. section.from <= section.to
  BY <1>1, ChainTail, Bounds DEF ChunkerInv, ChunkerTypeOK, PiecesFollow, IsDocument
<1>5. IsDocument(doc) /\ pieces \in Seq(Pieces) BY DEF ChunkerInv, ChunkerTypeOK
<1>6. TooLong(section) <=> Length(section.from, section.to) > max_chars BY DEF TooLong
<1> HIDE DEF section
<1>7. Length(section.from, section.to) \in Int /\ Length(section.from, section.to) <= max_chars
  <2>1. Length(section.from, section.to) \in Int BY <1>3, <1>5, LengthInt
  <2>2. max_chars \in Int BY ChunkerAssumption
  <2>3. QED BY <1>1, <1>6, <2>1, <2>2
<1>8. /\ piece \in Pieces /\ piece.from = section.from /\ piece.to = section.to
      /\ piece.length <= max_chars
  <2> HIDE DEF piece
  <2>1. /\ piece \in Pieces /\ piece.from = section.from /\ piece.to = section.to
        /\ piece.length = Length(section.from, section.to)
    BY <1>3, <1>5, PieceIs DEF piece
  <2>2. QED BY <1>7, <2>1
<1> HIDE DEF piece
<1>9. pieces' \in Seq(Pieces) /\ Chain(pieces', 1, section.to)
  <2>1. /\ next - 1 \in Int /\ piece.from = (next - 1) + 1
        /\ piece.from \in Int /\ piece.to \in Int /\ piece.from <= piece.to
    BY <1>2, <1>3, <1>4, <1>8
  <2>2. QED BY <1>1, <1>2, <1>5, <1>8, <2>1, ChainAppend, Bounds
<1>10. PiecesFollow' /\ next' \in 1..(doc.size + 1) /\ sections' \in Seq(Sections)
  BY <1>1, <1>2, <1>9, SectionDone DEF section
<1>11. ChunkerTypeOK' BY <1>1, <1>9, <1>10 DEF ChunkerInv, ChunkerTypeOK
<1>12. SectionsFollow' /\ MergedFollow' BY <1>1 DEF SectionsFollow, MergedFollow
<1>13. LengthsFit' BY <1>1, <1>2, <1>5, <1>8 DEF ChunkerInv, LengthsFit
<1>14. QED BY <1>10, <1>11, <1>12, <1>13 DEF ChunkerInv

\* The collected paragraphs become a piece, wherever that happens.
LEMMA CollectedFollow ==
    ASSUME ChunkerInv, at = "split", remaining = None
    PROVE  /\ pieces \o Collected \in Seq(Pieces)
           /\ Chain(pieces \o Collected, 1, next - 1)
           /\ \A n \in DOMAIN (pieces \o Collected) : (pieces \o Collected)[n].length <= max_chars
<1>1. /\ pieces \in Seq(Pieces) /\ current \in Pieces \cup {None} /\ next \in Nat
      /\ \A n \in DOMAIN pieces : pieces[n].length <= max_chars
      /\ current # None => current.length <= max_chars
  BY DEF ChunkerInv, ChunkerTypeOK, LengthsFit, IsDocument
<1>2. CASE current = None
  <2>1. pieces \o Collected = pieces BY <1>1, <1>2 DEF Collected
  <2>2. Chain(pieces, 1, next - 1) BY <1>2 DEF ChunkerInv, PiecesFollow
  <2>3. QED BY <1>1, <2>1, <2>2
<1>3. CASE current # None
  <2>1. current \in Pieces BY <1>1, <1>3
  <2>2. pieces \o Collected = Append(pieces, current) BY <1>1, <1>3, <2>1 DEF Collected
  <2>3. /\ Chain(pieces, 1, current.from - 1)
        /\ current.from <= current.to /\ current.to = next - 1
    BY <1>3 DEF ChunkerInv, PiecesFollow
  <2>4. current.from \in Int /\ current.to \in Int /\ current.from - 1 \in Int
        /\ current.from = (current.from - 1) + 1
    BY <2>1, Bounds
  <2>5. Chain(Append(pieces, current), 1, current.to)
    BY <1>1, <2>1, <2>3, <2>4, ChainAppend, Bounds
  <2>6. QED BY <1>1, <1>3, <2>1, <2>2, <2>3, <2>5
<1>4. QED BY <1>2, <1>3

\* At the end of a long section the collected paragraphs are a piece.
LEMMA EndSectionStep == ChunkerInv /\ EndSection => ChunkerInv'
<1> SUFFICES ASSUME ChunkerInv, EndSection PROVE ChunkerInv'
  OBVIOUS
<1> DEFINE section == sections[1]
<1>1. /\ at = "split" /\ at' = "split" /\ sections # <<>> /\ remaining = None
      /\ next > section.to /\ pieces' = pieces \o Collected /\ current' = None
      /\ sections' = Tail(sections)
      /\ UNCHANGED <<doc, next, start, fence, path, merged, remaining, pending>>
  BY DEF EndSection
<1>2. section.from \in Int /\ section.to \in Int /\ next \in section.from..(section.to + 1)
  BY <1>1, FirstSection
<1>3. next = section.to + 1 /\ next - 1 = section.to BY <1>1, <1>2
<1>4. pieces' \in Seq(Pieces) /\ Chain(pieces', 1, section.to)
      /\ \A n \in DOMAIN pieces' : pieces'[n].length <= max_chars
  BY <1>1, <1>3, CollectedFollow
<1>5. PiecesFollow' /\ next' \in 1..(doc.size + 1) /\ sections' \in Seq(Sections)
  BY <1>1, <1>3, <1>4, SectionDone
<1>6. ChunkerTypeOK' BY <1>1, <1>4, <1>5 DEF ChunkerInv, ChunkerTypeOK
<1>7. SectionsFollow' /\ MergedFollow' BY <1>1 DEF SectionsFollow, MergedFollow
<1>8. LengthsFit' BY <1>1, <1>4 DEF ChunkerInv, LengthsFit
<1>9. QED BY <1>5, <1>6, <1>7, <1>8 DEF ChunkerInv

\* A paragraph is collected when it fits, and otherwise is the next to be cut.
LEMMA TakeParagraphStep == ChunkerInv /\ TakeParagraph => ChunkerInv'
<1> SUFFICES ASSUME ChunkerInv, TakeParagraph PROVE ChunkerInv'
  OBVIOUS
<1> DEFINE section == sections[1]
<1>1. /\ at = "split" /\ at' = "split" /\ sections # <<>> /\ remaining = None
      /\ TooLong(section) /\ next <= section.to
      /\ UNCHANGED <<doc, at, start, fence, path, sections, merged, pending>>
  BY DEF TakeParagraph
<1>2. /\ doc.size \in Nat /\ section.from \in 1..doc.size /\ section.to \in 1..doc.size
      /\ section.heading_path \in Seq(Nat) /\ next \in section.from..(section.to + 1)
  BY <1>1, FirstSection
<1>3. PICK last \in next..section.to :
        LET paragraph == Piece(next, last, section.heading_path)
            candidate == IF current = None THEN paragraph ELSE Joined(current, paragraph)
        IN /\ next' = last + 1
           /\ IF candidate.length <= max_chars
              THEN current' = candidate /\ UNCHANGED <<pieces, remaining>>
              ELSE /\ pieces' = pieces \o Collected
                   /\ current' = None
                   /\ remaining' = Interval(next, last)
  BY <1>1 DEF TakeParagraph
<1> DEFINE paragraph == Piece(next, last, section.heading_path)
           candidate == IF current = None THEN paragraph ELSE Joined(current, paragraph)
<1>4. IsDocument(doc) /\ pieces \in Seq(Pieces) /\ current \in Pieces \cup {None}
  BY DEF ChunkerInv, ChunkerTypeOK
<1>5. /\ merged = <<>> /\ pending = None
      /\ Chain(pieces, 1, (IF current # None THEN current.from ELSE next) - 1)
      /\ current # None => current.from <= current.to /\ current.to = next - 1
      /\ Chain(sections, sections[1].from, doc.size)
  BY <1>1 DEF ChunkerInv, PiecesFollow
<1>6. TooLong(section)' BY <1>1 DEF TooLong, Length
<1>7. section' = section BY <1>1
<1> HIDE DEF section
<1>8. last \in 1..doc.size /\ next \in 1..doc.size /\ next <= last
      /\ last + 1 \in section.from..(section.to + 1) /\ (last + 1) - 1 = last
      /\ last + 1 \in 1..(doc.size + 1)
  BY <1>2, <1>3
<1>9. paragraph \in Pieces /\ paragraph.from = next /\ paragraph.to = last
  BY <1>2, <1>4, <1>8, PieceIs
<1> HIDE DEF paragraph
<1>10. /\ candidate \in Pieces /\ candidate.to = last /\ candidate.from <= last
       /\ candidate.from = IF current # None THEN current.from ELSE next
  <2>1. CASE current = None BY <1>8, <1>9, <2>1
  <2>2. CASE current # None
    <3>1. current \in Pieces /\ current.from <= current.to /\ current.to = next - 1
      BY <1>4, <1>5, <2>2
    <3>2. candidate = [current EXCEPT !.to = last, !.length = current.length + 2 + paragraph.length]
      BY <1>9, <2>2 DEF Joined
    <3>3. current.from \in Nat \ {0} /\ current.length + 2 + paragraph.length \in Int /\ last \in Nat
      BY <1>8, <1>9, <3>1 DEF Pieces
    <3>4. candidate \in Pieces /\ candidate.to = last /\ candidate.from = current.from
      BY <3>1, <3>2, <3>3 DEF Pieces
    <3>5. QED BY <1>8, <2>2, <3>1, <3>3, <3>4
  <2>3. QED BY <2>1, <2>2
<1> HIDE DEF candidate
<1>11. CASE candidate.length <= max_chars
  <2>1. current' = candidate /\ next' = last + 1 /\ UNCHANGED <<pieces, remaining>>
    BY <1>3, <1>11 DEF candidate, paragraph
  <2>2. candidate # None BY <1>10, ChunkerAssumption
  <2>3. ChunkerTypeOK' BY <1>1, <1>4, <1>8, <1>10, <2>1 DEF ChunkerInv, ChunkerTypeOK
  <2>4. SectionsFollow' /\ MergedFollow' BY <1>1 DEF SectionsFollow, MergedFollow
  <2>5. PiecesFollow'
    BY <1>1, <1>5, <1>6, <1>7, <1>8, <1>10, <2>1, <2>2 DEF PiecesFollow, section
  <2>6. LengthsFit' BY <1>1, <1>5, <1>11, <2>1 DEF ChunkerInv, LengthsFit
  <2>7. QED BY <2>3, <2>4, <2>5, <2>6 DEF ChunkerInv
<1>12. CASE ~(candidate.length <= max_chars)
  <2>1. /\ pieces' = pieces \o Collected /\ next' = last + 1
        /\ current' = None /\ remaining' = Interval(next, last)
    BY <1>3, <1>12 DEF candidate, paragraph
  <2>2. /\ remaining' \in Intervals /\ remaining' # None
        /\ remaining'.from = next /\ remaining'.to = last
    <3>1. next \in Nat \ {0} /\ last \in Nat BY <1>8
    <3>2. QED BY <2>1, <3>1, IntervalIs
  <2>3. /\ pieces' \in Seq(Pieces) /\ Chain(pieces', 1, next - 1)
        /\ \A n \in DOMAIN pieces' : pieces'[n].length <= max_chars
    BY <1>1, <2>1, CollectedFollow
  <2>4. ChunkerTypeOK' BY <1>1, <1>8, <2>1, <2>2, <2>3 DEF ChunkerInv, ChunkerTypeOK
  <2>5. SectionsFollow' /\ MergedFollow' BY <1>1 DEF SectionsFollow, MergedFollow
  <2>6. PiecesFollow'
    BY <1>1, <1>5, <1>6, <1>7, <1>8, <2>1, <2>2, <2>3 DEF PiecesFollow, section
  <2>7. LengthsFit' BY <1>1, <1>5, <2>1, <2>3 DEF ChunkerInv, LengthsFit
  <2>8. QED BY <2>4, <2>5, <2>6, <2>7 DEF ChunkerInv
<1>13. QED BY <1>11, <1>12

\* One cut of _split_hard, or the rest that needs none.
LEMMA SplitHardStep == ChunkerInv /\ SplitHard => ChunkerInv'
<1> SUFFICES ASSUME ChunkerInv, SplitHard PROVE ChunkerInv'
  OBVIOUS
<1> DEFINE section == sections[1]
           long == Length(remaining.from, remaining.to) > max_chars
<1>1. /\ at = "split" /\ at' = "split" /\ remaining # None
      /\ UNCHANGED <<doc, at, next, start, fence, path, sections, merged, current, pending>>
  BY DEF SplitHard
<1>2. /\ merged = <<>> /\ pending = None /\ current = None /\ sections # <<>>
      /\ Chain(pieces, 1, remaining.from - 1)
      /\ remaining.from <= remaining.to /\ remaining.to = next - 1
      /\ TooLong(section)
  BY <1>1 DEF ChunkerInv, PiecesFollow
<1>3. /\ doc.size \in Nat /\ section.to \in 1..doc.size /\ section.from \in 1..doc.size
      /\ section.heading_path \in Seq(Nat) /\ next \in section.from..(section.to + 1)
      /\ Head(sections) = section
  BY <1>1, <1>2, FirstSection
<1>4. IsDocument(doc) /\ pieces \in Seq(Pieces) /\ remaining \in Intervals
  BY <1>1 DEF ChunkerInv, ChunkerTypeOK
<1>5. TooLong(section)' BY <1>1, <1>2 DEF TooLong, Length
<1> HIDE DEF section
<1>6. /\ remaining.from \in 1..doc.size /\ remaining.to \in 1..doc.size
      /\ remaining.from - 1 \in Int /\ remaining.from = (remaining.from - 1) + 1
  <2> DEFINE i == remaining.from
             j == remaining.to
  <2>1. i \in Nat \ {0} /\ j \in Nat BY <1>4, Bounds DEF Intervals
  <2>2. i <= j /\ j = next - 1 BY <1>2
  <2>3. next \in Nat /\ next <= section.to + 1 /\ section.to \in 1..doc.size /\ doc.size \in Nat
    BY <1>3
  <2> HIDE DEF i, j
  <2>4. i \in 1..doc.size /\ j \in 1..doc.size /\ i - 1 \in Int /\ i = (i - 1) + 1
    BY <2>1, <2>2, <2>3
  <2>5. QED BY <2>4 DEF i, j
<1>7. SectionsFollow' /\ MergedFollow' BY <1>1 DEF SectionsFollow, MergedFollow
<1>8. CASE long
  <2>1. PICK k \in (remaining.from + 1)..remaining.to :
           /\ IsCut(remaining.from, remaining.to, k)
           /\ pieces' = Append(pieces, Piece(remaining.from, k - 1, section.heading_path))
           /\ remaining' = Interval(k, remaining.to)
    BY <1>3, <1>8 DEF SplitHard
  <2> DEFINE piece == Piece(remaining.from, k - 1, section.heading_path)
  <2>2. /\ k \in 1..doc.size /\ k - 1 \in 1..doc.size /\ remaining.from <= k - 1 /\ k <= remaining.to
        /\ (k - 1) + 1 = k
    <3> DEFINE i == remaining.from
               j == remaining.to
    <3>1. k \in (i + 1)..j /\ i \in 1..doc.size /\ j \in 1..doc.size /\ doc.size \in Nat
      BY <1>3, <1>6, <2>1
    <3> HIDE DEF i, j
    <3>2. k \in 1..doc.size /\ k - 1 \in 1..doc.size /\ i <= k - 1 /\ k <= j /\ (k - 1) + 1 = k
      BY <3>1
    <3>3. QED BY <3>2 DEF i, j
  <2>3. Length(remaining.from, k - 1) <= max_chars
    <3>1. CASE SpaceBefore(remaining.from, k)
      <4>1. PICK p \in doc.spaces : /\ doc.offset[k - 1] < p /\ p - doc.offset[remaining.from] <= max_chars
        BY <3>1 DEF SpaceBefore
      <4>2. /\ p \in Nat /\ doc.offset[k - 1] \in Nat /\ doc.offset[remaining.from] \in Nat
        BY <1>4, <1>6, <2>2, <4>1 DEF IsDocument
      <4>3. max_chars \in Nat BY ChunkerAssumption
      <4>4. QED BY <4>1, <4>2, <4>3 DEF Length
    <3>2. CASE ~SpaceBefore(remaining.from, k)
      <4>1. IsCut(remaining.from, remaining.to, k) BY <2>1
      <4>2. QED BY <3>2, <4>1 DEF IsCut
    <3>3. QED BY <3>1, <3>2
  <2>4. piece \in Pieces /\ piece.from = remaining.from /\ piece.to = k - 1
        /\ piece.length <= max_chars
    <3> HIDE DEF piece
    <3>1. /\ piece \in Pieces /\ piece.from = remaining.from /\ piece.to = k - 1
          /\ piece.length = Length(remaining.from, k - 1)
      <4>1. /\ doc.size \in Nat /\ IsDocument(doc) /\ section.heading_path \in Seq(Nat)
            /\ remaining.from \in 1..doc.size /\ k - 1 \in 1..doc.size
        BY <1>3, <1>4, <1>6, <2>2
      <4>2. QED BY <4>1, PieceIs DEF piece
    <3>2. QED BY <2>3, <3>1
  <2>5. pieces' = Append(pieces, piece) BY <2>1
  <2> HIDE DEF piece
  <2>6. pieces' \in Seq(Pieces) /\ Chain(pieces', 1, k - 1)
    <3>1. /\ piece.from = (remaining.from - 1) + 1 /\ piece.from \in Int /\ piece.to \in Int
          /\ piece.from <= piece.to
      BY <1>6, <2>2, <2>4
    <3>2. QED BY <1>2, <1>4, <1>6, <2>4, <2>5, <3>1, ChainAppend, Bounds
  <2>7. /\ remaining' \in Intervals /\ remaining' # None
        /\ remaining'.from = k /\ remaining'.to = remaining.to
    <3>1. k \in Nat \ {0} /\ remaining.to \in Nat BY <1>4, <2>2, Bounds DEF Intervals
    <3>2. QED BY <2>1, <3>1, IntervalIs
  <2>8. ChunkerTypeOK' BY <1>1, <2>6, <2>7 DEF ChunkerInv, ChunkerTypeOK
  <2>9. PiecesFollow'
    BY <1>1, <1>2, <1>5, <2>2, <2>6, <2>7 DEF ChunkerInv, PiecesFollow, section
  <2>10. LengthsFit' BY <1>1, <1>2, <1>4, <2>4, <2>5 DEF ChunkerInv, LengthsFit
  <2>11. QED BY <1>7, <2>8, <2>9, <2>10 DEF ChunkerInv
<1>9. CASE ~long
  <2> DEFINE piece == Piece(remaining.from, remaining.to, section.heading_path)
  <2>1. pieces' = Append(pieces, piece) /\ remaining' = None BY <1>3, <1>9 DEF SplitHard
  <2>2. Length(remaining.from, remaining.to) <= max_chars
    <3>1. Length(remaining.from, remaining.to) \in Int BY <1>4, <1>6, LengthInt
    <3>2. max_chars \in Int BY ChunkerAssumption
    <3>3. QED BY <1>9, <3>1, <3>2
  <2>3. piece \in Pieces /\ piece.from = remaining.from /\ piece.to = remaining.to
        /\ piece.length <= max_chars
    <3> HIDE DEF piece
    <3>1. /\ piece \in Pieces /\ piece.from = remaining.from /\ piece.to = remaining.to
          /\ piece.length = Length(remaining.from, remaining.to)
      BY <1>3, <1>4, <1>6, PieceIs DEF piece
    <3>2. QED BY <2>2, <3>1
  <2> HIDE DEF piece
  <2>4. pieces' \in Seq(Pieces) /\ Chain(pieces', 1, remaining.to)
    <3>1. /\ piece.from = (remaining.from - 1) + 1 /\ piece.from \in Int /\ piece.to \in Int
          /\ piece.from <= piece.to
      BY <1>2, <1>6, <2>3
    <3>2. QED BY <1>2, <1>4, <1>6, <2>1, <2>3, <3>1, ChainAppend, Bounds
  <2>5. ChunkerTypeOK' BY <1>1, <2>1, <2>4 DEF ChunkerInv, ChunkerTypeOK
  <2>6. PiecesFollow'
    BY <1>1, <1>2, <1>5, <2>1, <2>4 DEF ChunkerInv, PiecesFollow, section
  <2>7. LengthsFit' BY <1>1, <1>2, <1>4, <2>1, <2>3 DEF ChunkerInv, LengthsFit
  <2>8. QED BY <1>7, <2>5, <2>6, <2>7 DEF ChunkerInv
<1>10. QED BY <1>8, <1>9

\* Every section is cut: the pieces are all there.
LEMMA EndOfSectionsStep == ChunkerInv /\ EndOfSections => ChunkerInv'
<1> SUFFICES ASSUME ChunkerInv, EndOfSections PROVE ChunkerInv'
  OBVIOUS
<1>1. /\ at = "split" /\ at' = "merge" /\ sections = <<>>
      /\ UNCHANGED <<doc, next, start, fence, path, sections, pieces, merged, current, remaining, pending>>
  BY DEF EndOfSections
<1>2. doc.size \in Nat BY DEF ChunkerInv, ChunkerTypeOK, IsDocument
<1>3. /\ merged = <<>> /\ pending = None /\ current = None /\ remaining = None
      /\ next = doc.size + 1 /\ Chain(pieces, 1, next - 1)
  BY <1>1 DEF ChunkerInv, PiecesFollow
<1>4. next - 1 = doc.size BY <1>2, <1>3
<1>5. ChunkerTypeOK' BY <1>1 DEF ChunkerInv, ChunkerTypeOK
<1>6. SectionsFollow' /\ PiecesFollow' BY <1>1 DEF SectionsFollow, PiecesFollow
<1>7. MergedFollow' BY <1>1, <1>3, <1>4 DEF MergedFollow
<1>8. LengthsFit' BY <1>1 DEF ChunkerInv, LengthsFit
<1>9. QED BY <1>5, <1>6, <1>7, <1>8 DEF ChunkerInv

\* A piece is joined with the short one before it, or takes its place.
LEMMA MergePieceStep == ChunkerInv /\ MergePiece => ChunkerInv'
<1> SUFFICES ASSUME ChunkerInv, MergePiece PROVE ChunkerInv'
  OBVIOUS
<1> DEFINE piece == pieces[1]
           joins == /\ pending # None /\ pending.length < min_chunk_chars
                    /\ Joined(pending, piece).length <= max_chars
<1>1. /\ at = "merge" /\ at' = "merge" /\ pieces # <<>> /\ pieces' = Tail(pieces)
      /\ UNCHANGED <<doc, at, next, start, fence, path, sections, current, remaining>>
  BY DEF MergePiece
<1>2. /\ pending = None => pending' = piece /\ merged' = merged
      /\ joins => pending' = Joined(pending, piece) /\ merged' = merged
      /\ pending # None /\ ~joins => pending' = piece /\ merged' = Append(merged, pending)
  BY <1>1 DEF MergePiece
<1>3. /\ pieces \in Seq(Pieces) /\ merged \in Seq(Pieces) /\ pending \in Pieces \cup {None}
      /\ doc.size \in Nat
      /\ \A n \in DOMAIN pieces : pieces[n].length <= max_chars
      /\ \A n \in DOMAIN merged : merged[n].length <= max_chars
      /\ pending # None => pending.length <= max_chars
  BY DEF ChunkerInv, ChunkerTypeOK, LengthsFit, IsDocument
<1> DEFINE first == IF pending = None THEN 1 ELSE pending.to + 1
<1>4. Chain(pieces, first, doc.size) BY <1>1 DEF ChunkerInv, MergedFollow
<1>5. first \in Int /\ doc.size \in Int BY <1>3 DEF Pieces
<1>6. /\ piece \in Pieces /\ Tail(pieces) \in Seq(Pieces)
      /\ piece.from = first /\ piece.from <= piece.to
      /\ piece.from \in Nat \ {0} /\ piece.to \in Nat
      /\ Chain(Tail(pieces), piece.to + 1, doc.size)
  <2>1. piece \in Pieces BY <1>1, <1>3
  <2>2. piece.from \in Nat \ {0} /\ piece.to \in Nat BY <2>1 DEF Pieces
  <2> HIDE DEF first
  <2>3. QED BY <1>1, <1>3, <1>4, <1>5, <2>1, <2>2, ChainTail
<1>7. piece.length <= max_chars
  <2>1. 1 \in DOMAIN pieces BY <1>1, <1>3
  <2>2. QED BY <1>3, <2>1
<1>8. \A n \in DOMAIN pieces' : pieces'[n].length <= max_chars
  <2>1. ASSUME NEW n \in DOMAIN pieces' PROVE n + 1 \in DOMAIN pieces /\ pieces'[n] = pieces[n + 1]
    BY <1>1, <1>3, <2>1
  <2>2. QED BY <1>3, <2>1
<1>9. SectionsFollow' /\ PiecesFollow' BY <1>1 DEF SectionsFollow, PiecesFollow
<1> HIDE DEF piece
<1>10. CASE pending = None
  <2>1. pending' = piece /\ merged' = merged /\ pending' # None
    BY <1>2, <1>6, <1>10, ChunkerAssumption
  <2>2. merged = <<>> /\ piece.from = 1 BY <1>1, <1>6, <1>10 DEF ChunkerInv, MergedFollow
  <2>3. Chain(merged', 1, pending'.from - 1) BY <2>1, <2>2 DEF Chain
  <2>4. ChunkerTypeOK' BY <1>1, <1>6, <2>1 DEF ChunkerInv, ChunkerTypeOK
  <2>5. MergedFollow' BY <1>1, <1>6, <2>1, <2>3 DEF MergedFollow
  <2>6. LengthsFit' BY <1>1, <1>3, <1>7, <1>8, <2>1 DEF ChunkerInv, LengthsFit
  <2>7. QED BY <1>9, <2>4, <2>5, <2>6 DEF ChunkerInv
<1>11. CASE pending # None
  <2>1. /\ pending \in Pieces /\ pending.from <= pending.to
        /\ Chain(merged, 1, pending.from - 1) /\ piece.from = pending.to + 1
    BY <1>1, <1>3, <1>6, <1>11 DEF ChunkerInv, MergedFollow
  <2>2. pending.from \in Nat \ {0} /\ pending.to \in Nat BY <2>1 DEF Pieces
  <2>3. CASE joins
    <3> DEFINE both == Joined(pending, piece)
    <3>1. /\ both \in Pieces /\ both.from = pending.from /\ both.to = piece.to
      <4>1. both = [pending EXCEPT !.to = piece.to, !.length = pending.length + 2 + piece.length]
        BY DEF Joined
      <4>2. pending.length + 2 + piece.length \in Int BY <1>6, <2>1 DEF Pieces
      <4> HIDE DEF both
      <4>3. QED BY <1>6, <2>1, <4>1, <4>2 DEF Pieces
    <3>2. both.length <= max_chars BY <2>3
    <3> HIDE DEF both
    <3>3. pending' = both /\ merged' = merged /\ pending' # None
      BY <1>2, <2>3, <3>1, ChunkerAssumption DEF both
    <3>4. pending'.from <= pending'.to BY <1>6, <2>1, <2>2, <3>1, <3>3
    <3>5. ChunkerTypeOK' BY <1>1, <1>6, <3>1, <3>3 DEF ChunkerInv, ChunkerTypeOK
    <3>6. MergedFollow' BY <1>1, <1>6, <2>1, <3>1, <3>3, <3>4 DEF MergedFollow
    <3>7. LengthsFit' BY <1>1, <1>3, <1>8, <3>2, <3>3 DEF ChunkerInv, LengthsFit
    <3>8. QED BY <1>9, <3>5, <3>6, <3>7 DEF ChunkerInv
  <2>4. CASE ~joins
    <3>1. pending' = piece /\ merged' = Append(merged, pending) /\ pending' # None
      BY <1>2, <1>6, <1>11, <2>4, ChunkerAssumption
    <3>2. merged' \in Seq(Pieces) /\ Chain(merged', 1, pending.to)
      <4>1. pending.from - 1 \in Int /\ pending.from = (pending.from - 1) + 1 BY <2>2
      <4>2. QED BY <1>3, <2>1, <2>2, <3>1, <4>1, ChainAppend, Bounds
    <3>3. pending.to = pending'.from - 1 BY <2>1, <2>2, <3>1
    <3>4. ChunkerTypeOK' BY <1>1, <1>6, <3>1, <3>2 DEF ChunkerInv, ChunkerTypeOK
    <3>5. MergedFollow' BY <1>1, <1>6, <3>1, <3>2, <3>3 DEF MergedFollow
    <3>6. LengthsFit' BY <1>1, <1>3, <1>7, <1>8, <1>11, <3>1 DEF ChunkerInv, LengthsFit
    <3>7. QED BY <1>9, <3>4, <3>5, <3>6 DEF ChunkerInv
  <2>5. QED BY <2>3, <2>4
<1>12. QED BY <1>10, <1>11

\* The last piece is the last chunk.
LEMMA EndOfPiecesStep == ChunkerInv /\ EndOfPieces => ChunkerInv'
<1> SUFFICES ASSUME ChunkerInv, EndOfPieces PROVE ChunkerInv'
  OBVIOUS
<1>1. /\ at = "merge" /\ at' = "done" /\ pieces = <<>> /\ pending' = None
      /\ merged' = IF pending = None THEN merged ELSE Append(merged, pending)
      /\ UNCHANGED <<doc, next, start, fence, path, sections, pieces, current, remaining>>
  BY DEF EndOfPieces
<1>2. /\ merged \in Seq(Pieces) /\ pending \in Pieces \cup {None} /\ doc.size \in Nat
      /\ \A n \in DOMAIN merged : merged[n].length <= max_chars
      /\ pending # None => pending.length <= max_chars
  BY DEF ChunkerInv, ChunkerTypeOK, LengthsFit, IsDocument
<1>3. merged' \in Seq(Pieces) /\ Chain(merged', 1, doc.size)
      /\ \A n \in DOMAIN merged' : merged'[n].length <= max_chars
  <2>1. CASE pending = None
    <3>1. merged = <<>> /\ Chain(pieces, 1, doc.size)
      BY <1>1, <2>1 DEF ChunkerInv, MergedFollow
    <3>2. Chain(merged, 1, doc.size) BY <1>1, <3>1
    <3>3. QED BY <1>1, <1>2, <2>1, <3>2
  <2>2. CASE pending # None
    <3>1. /\ pending \in Pieces /\ pending.from <= pending.to
          /\ Chain(merged, 1, pending.from - 1) /\ Chain(pieces, pending.to + 1, doc.size)
      BY <1>1, <1>2, <2>2 DEF ChunkerInv, MergedFollow
    <3>2. /\ pending.from \in Nat \ {0} /\ pending.to \in Nat
          /\ pending.from - 1 \in Int /\ pending.from = (pending.from - 1) + 1
      BY <3>1 DEF Pieces
    <3>3. pending.to = doc.size BY <1>1, <1>2, <3>1, <3>2 DEF Chain
    <3>4. Chain(Append(merged, pending), 1, pending.to)
      BY <1>2, <3>1, <3>2, ChainAppend, Bounds
    <3>5. QED BY <1>1, <1>2, <2>2, <3>1, <3>3, <3>4
  <2>3. QED BY <2>1, <2>2
<1>4. ChunkerTypeOK' BY <1>1, <1>3 DEF ChunkerInv, ChunkerTypeOK
<1>5. SectionsFollow' /\ PiecesFollow' BY <1>1 DEF SectionsFollow, PiecesFollow
<1>6. MergedFollow' BY <1>1, <1>3 DEF MergedFollow
<1>7. LengthsFit' BY <1>1, <1>3 DEF ChunkerInv, LengthsFit
<1>8. QED BY <1>4, <1>5, <1>6, <1>7 DEF ChunkerInv

---------------------------------------------------------------------------
(* The theorems.                                                           *)

\* In every loop of the code what is collected, cut and joined, and what is
\* left, follow each other without a gap, and no piece is longer than
\* max_chars.
THEOREM ChunkerInvariant == Spec => []ChunkerInv
<1>1. ChunkerInv /\ [Next]_vars => ChunkerInv'
  <2> SUFFICES ASSUME ChunkerInv, [Next]_vars PROVE ChunkerInv'
    OBVIOUS
  <2>1. CASE ReadLine BY <2>1, ReadLineStep
  <2>2. CASE EndOfText BY <2>2, EndOfTextStep
  <2>3. CASE KeepSection BY <2>3, KeepSectionStep
  <2>4. CASE TakeParagraph BY <2>4, TakeParagraphStep
  <2>5. CASE SplitHard BY <2>5, SplitHardStep
  <2>6. CASE EndSection BY <2>6, EndSectionStep
  <2>7. CASE EndOfSections BY <2>7, EndOfSectionsStep
  <2>8. CASE MergePiece BY <2>8, MergePieceStep
  <2>9. CASE EndOfPieces BY <2>9, EndOfPiecesStep
  <2>10. CASE UNCHANGED vars
    BY <2>10 DEF vars, ChunkerInv, ChunkerTypeOK, SectionsFollow, PiecesFollow, MergedFollow,
                 LengthsFit, TooLong, Length
  <2>11. QED
    BY <2>1, <2>2, <2>3, <2>4, <2>5, <2>6, <2>7, <2>8, <2>9, <2>10 DEF Next
<1>2. QED BY <1>1, ChunkerInit, PTL DEF Spec

\* MarkdownChunker.chunk keeps every printing character of every document,
\* each in one chunk and in its order.
THEOREM ChunksKeepContent == Spec => []ContentKept
<1>1. ChunkerInv => ContentKept BY DEF ChunkerInv, MergedFollow, ContentKept
<1>2. QED BY <1>1, ChunkerInvariant, PTL

\* No chunk is longer than max_chars, whatever was cut and joined to make it.
THEOREM ChunksKeepLimit == Spec => []ChunksFit
<1>1. ChunkerInv => ChunksFit BY DEF ChunkerInv, LengthsFit, ChunksFit
<1>2. QED BY <1>1, ChunkerInvariant, PTL

---------------------------------------------------------------------------
(* The code blocks of a document.                                          *)

\* A non-empty set of naturals has a least element.
LEMMA LeastExists ==
    ASSUME NEW S \in SUBSET Nat, S # {}
    PROVE  \E i \in S : \A j \in S : i <= j
<1> DEFINE R == OpToRel(<, Nat)
<1>1. IsWellFoundedOn(R, Nat)
  BY NatLessThanWellFounded
<1>2. \A x, y \in Nat : <<x, y>> \in R <=> x < y
  BY DEF OpToRel
<1> HIDE DEF R
<1>3. PICK i \in S : \A j \in S : ~(<<j, i>> \in R)
  BY <1>1, WFMin
<1>4. ASSUME NEW j \in S PROVE i <= j
  <2>1. ~(j < i)
    BY <1>2, <1>3
  <2> QED BY <2>1
<1> QED BY <1>4

\* The markers before the first n lines of a document.
Marked(d, n, open) ==
    open = [k \in 1..n |-> IF k = 1 THEN None ELSE OpenAfter(d.mark[k - 1], open[k - 1])]

\* The markers before n lines decide the one before the next.
LEMMA MarkedFurther ==
    ASSUME NEW d, NEW n \in Nat \ {0}, NEW open, Marked(d, n, open)
    PROVE  \E more : Marked(d, n + 1, more)
<1> DEFINE more == [k \in 1..(n + 1) |-> IF k = n + 1 THEN OpenAfter(d.mark[n], open[n]) ELSE open[k]]
<1>1. ASSUME NEW k \in 1..(n + 1)
      PROVE  more[k] = IF k = 1 THEN None ELSE OpenAfter(d.mark[k - 1], more[k - 1])
  <2>1. CASE k = n + 1
    <3>1. k # 1 /\ k - 1 = n /\ n \in 1..(n + 1) /\ n # n + 1
      BY <2>1
    <3>2. more[k] = OpenAfter(d.mark[n], open[n]) /\ more[k - 1] = open[n]
      BY <2>1, <3>1
    <3> QED BY <3>1, <3>2
  <2>2. CASE k \in 1..n
    <3>1. more[k] = open[k]
      BY <2>2
    <3>2. open[k] = IF k = 1 THEN None ELSE OpenAfter(d.mark[k - 1], open[k - 1])
      BY <2>2 DEF Marked
    <3>3. k # 1 => more[k - 1] = open[k - 1]
      BY <2>2
    <3> QED BY <3>1, <3>2, <3>3
  <2> QED BY <2>1, <2>2
<1>2. more = [k \in 1..(n + 1) |-> more[k]]
  OBVIOUS
<1> HIDE DEF more
<1>3. Marked(d, n + 1, more)
  BY <1>1, <1>2 DEF Marked
<1> QED BY <1>3

\* The recursion has a solution, which is what Fenced denotes.
LEMMA FencedIsMarked ==
    ASSUME NEW d, d.size \in Nat
    PROVE  Marked(d, d.size + 1, Fenced(d))
<1> DEFINE Missing == {n \in 1..(d.size + 1) : ~ \E open : Marked(d, n, open)}
<1>1. Missing = {}
  <2> SUFFICES ASSUME Missing # {} PROVE FALSE
    OBVIOUS
  <2>1. PICK n \in Missing : \A m \in Missing : n <= m
    <3>1. Missing \in SUBSET Nat
      OBVIOUS
    <3> HIDE DEF Missing
    <3> QED BY <3>1, LeastExists
  <2>2. n \in Nat \ {0} /\ n <= d.size + 1
    OBVIOUS
  <2>3. CASE n = 1
    <3>1. Marked(d, 1, [k \in 1..1 |-> None])
      BY DEF Marked
    <3> QED BY <2>3, <3>1
  <2>4. CASE n # 1
    <3>1. n - 1 \in Nat \ {0} /\ (n - 1) + 1 = n /\ n - 1 \in 1..(d.size + 1) /\ ~(n <= n - 1)
      BY <2>2, <2>4
    <3>2. PICK open : Marked(d, n - 1, open)
      BY <2>1, <3>1
    <3> QED BY <3>1, <3>2, MarkedFurther
  <2> QED BY <2>3, <2>4
<1>2. \E open : Marked(d, d.size + 1, open)
  <2>1. d.size + 1 \in 1..(d.size + 1)
    OBVIOUS
  <2> QED BY <1>1, <2>1
<1> QED BY <1>2 DEF Marked, Fenced

\* The recursion equation, and what it yields.
LEMMA FencedEquation ==
    ASSUME NEW d, IsDocument(d)
    PROVE  /\ Fenced(d)[1] = None
           /\ \A k \in 1..d.size : Fenced(d)[k + 1] = OpenAfter(d.mark[k], Fenced(d)[k])
<1>1. d.size \in Nat
  BY DEF IsDocument
<1> DEFINE open == Fenced(d)
<1>2. open = [k \in 1..(d.size + 1) |->
                  IF k = 1 THEN None ELSE OpenAfter(d.mark[k - 1], open[k - 1])]
  BY <1>1, FencedIsMarked DEF Marked
<1> HIDE DEF open
<1>3. 1 \in 1..(d.size + 1)
  BY <1>1
<1>4. open[1] = None
  BY <1>2, <1>3
<1>5. ASSUME NEW k \in 1..d.size
      PROVE  open[k + 1] = OpenAfter(d.mark[k], open[k])
  <2>1. k + 1 \in 1..(d.size + 1) /\ k + 1 # 1 /\ (k + 1) - 1 = k
    BY <1>1
  <2>2. open[k + 1] = IF k + 1 = 1 THEN None
                      ELSE OpenAfter(d.mark[(k + 1) - 1], open[(k + 1) - 1])
    BY <1>2, <2>1
  <2> QED BY <2>1, <2>2
<1> QED BY <1>4, <1>5 DEF open

\* It is None or a marker.
LEMMA FencedTyped ==
    ASSUME NEW d, IsDocument(d), NEW j \in 1..(d.size + 1)
    PROVE  Fenced(d)[j] \in Fences \cup {None}
<1>1. d.size \in Nat
  BY DEF IsDocument
<1> DEFINE open == Fenced(d)
           Bad == {n \in 1..(d.size + 1) : open[n] \notin Fences \cup {None}}
<1>2. open[1] = None /\ \A k \in 1..d.size : open[k + 1] = OpenAfter(d.mark[k], open[k])
  BY FencedEquation
<1> HIDE DEF open
<1>3. Bad = {}
  <2> SUFFICES ASSUME Bad # {} PROVE FALSE
    OBVIOUS
  <2>1. Bad \in SUBSET Nat
    BY <1>1
  <2>2. PICK n \in Bad : \A m \in Bad : n <= m
    <3> HIDE DEF Bad
    <3> QED BY <2>1, LeastExists
  <2>3. n \in 1..(d.size + 1) /\ open[n] \notin Fences \cup {None} /\ n # 1
    BY <1>2, <2>2
  <2>4. n - 1 \in 1..(d.size + 1) /\ n - 1 \in 1..d.size /\ (n - 1) + 1 = n /\ ~(n <= n - 1)
    BY <1>1, <2>3
  <2>5. open[n - 1] \in Fences \cup {None}
    BY <2>2, <2>4
  <2>6. open[n] = OpenAfter(d.mark[n - 1], open[n - 1])
    BY <1>2, <2>4
  <2> QED BY <2>3, <2>5, <2>6 DEF OpenAfter
<1> QED BY <1>3 DEF open

\* Lines without a marker leave a code block open or closed.
LEMMA TextKeepsFence ==
    ASSUME NEW d, IsDocument(d), NEW i \in 1..(d.size + 1), NEW j \in i..(d.size + 1),
           \A k \in i..(j - 1) : d.mark[k] = "text"
    PROVE  Fenced(d)[j] = Fenced(d)[i]
<1>1. d.size \in Nat
  BY DEF IsDocument
<1> DEFINE open == Fenced(d)
           Changed == {n \in i..j : open[n] # open[i]}
<1>2. \A k \in 1..d.size : open[k + 1] = OpenAfter(d.mark[k], open[k])
  BY FencedEquation
<1> HIDE DEF open
<1>3. Changed = {}
  <2> SUFFICES ASSUME Changed # {} PROVE FALSE
    OBVIOUS
  <2>1. Changed \in SUBSET Nat
    BY <1>1
  <2>2. PICK n \in Changed : \A m \in Changed : n <= m
    <3> HIDE DEF Changed
    <3> QED BY <2>1, LeastExists
  <2>3. n \in i..j /\ open[n] # open[i] /\ n # i
    BY <2>2
  <2>4. /\ n - 1 \in i..(j - 1) /\ n - 1 \in i..j /\ n - 1 \in 1..d.size /\ n - 1 \in 1..(d.size + 1)
        /\ (n - 1) + 1 = n /\ ~(n <= n - 1)
    BY <1>1, <2>3
  <2>5. open[n - 1] = open[i]
    BY <2>2, <2>4
  <2>6. open[n] = OpenAfter("text", open[n - 1])
    BY <1>2, <2>4
  <2>7. OpenAfter("text", open[n - 1]) = open[n - 1]
    <3>1. "text" \notin Fences
      BY DEF Fences
    <3>2. open[n - 1] \in Fences \cup {None}
      BY <2>4, FencedTyped DEF open
    <3> QED BY <3>1, <3>2 DEF OpenAfter
  <2> QED BY <2>3, <2>5, <2>6, <2>7
<1>4. j \in i..j
  BY <1>1
<1> QED BY <1>3, <1>4 DEF open

---------------------------------------------------------------------------
(* Texts and the headings above them.                                      *)

\* names is the heading_path of a text that follows the headings of S.
PathOf(S, names) ==
    /\ IF S = {} THEN names = <<>>
       ELSE /\ names # <<>> /\ names[Len(names)] \in S
            /\ \A h \in S : h <= names[Len(names)]
    /\ NoLevelSkipped(doc) => \A m \in DOMAIN names : Level(doc.mark[names[m]]) = m

\* A text that starts with character k stands under names.
Under(k, names) == PathOf(Before(doc, k + 1), names)

NoHeadingIn(i, j) == \A h \in Headings(doc) : ~(i < h /\ h <= j)

\* Between two lines: the code block that is open, and the headings so far.
HeadingsRead ==
    at = "sections" =>
        /\ fence = Fenced(doc)[next]
        /\ PathOf(Before(doc, next), path)
        /\ NoHeadingIn(start, next - 1)

SectionsUnder ==
    \A n \in DOMAIN sections : /\ Under(sections[n].from, sections[n].heading_path)
                               /\ NoHeadingIn(sections[n].from, sections[n].to)

PiecesUnder ==
    /\ \A n \in DOMAIN pieces : Under(pieces[n].from, pieces[n].heading_path)
    /\ \A n \in DOMAIN merged : Under(merged[n].from, merged[n].heading_path)
    /\ current # None => Under(current.from, current.heading_path)
    /\ pending # None => Under(pending.from, pending.heading_path)

\* What is being cut is of the first section.
CutInside ==
    at = "split" /\ remaining # None =>
        /\ sections # <<>> /\ remaining.to <= sections[1].to
        /\ sections[1].from <= remaining.from

HeadingInv == ChunkerInv /\ HeadingsRead /\ SectionsUnder /\ PiecesUnder /\ CutInside

\* Of one line with its marker, and of none.
LEMMA LevelOf ==
    /\ Level("text") = 0 /\ \A mark \in Fences : Level(mark) = 0
    /\ \A mark : Level(mark) \in 0..3
BY DEF Level, Fences

\* A heading in a document is a line of that kind outside of the code blocks.
LEMMA HeadingIs ==
    ASSUME IsDocument(doc), NEW k \in 1..doc.size
    PROVE  k \in Headings(doc) <=> Level(doc.mark[k]) > 0 /\ Fenced(doc)[k] = None
BY DEF Headings

LEMMA HeadingsTyped ==
    ASSUME IsDocument(doc)
    PROVE  Headings(doc) \in SUBSET (1..doc.size) /\ doc.size \in Nat
BY DEF Headings, IsDocument

\* The texts of a section stand under the same headings.
LEMMA UnderFurther ==
    ASSUME IsDocument(doc), NEW names, NEW i \in Nat, NEW j \in Nat, NEW k \in i..j,
           Under(i, names), NoHeadingIn(i, j)
    PROVE  Under(k, names)
<1>1. Before(doc, k + 1) = Before(doc, i + 1)
  <2>1. ASSUME NEW h \in Headings(doc) PROVE h < k + 1 <=> h < i + 1
    BY HeadingsTyped DEF NoHeadingIn
  <2> QED BY <2>1 DEF Before
<1> QED BY <1>1 DEF Under

\* Reading a line: what follows on the line itself changes nothing.
LEMMA LineRead ==
    ASSUME HeadingInv, ReadLine
    PROVE  /\ next \in 1..doc.size /\ next' \in (next + 1)..(doc.size + 1) /\ doc' = doc
           /\ fence = Fenced(doc)[next] /\ fence' = Fenced(doc)[next']
           /\ \A h \in Headings(doc) : h < next' => h <= next
           /\ next \in Headings(doc) <=> HeadingLine
<1>1. /\ at = "sections" /\ next <= doc.size /\ doc' = doc
      /\ FenceLine \/ HeadingLine \/ OtherLine
  BY DEF ReadLine
<1>2. IsDocument(doc) /\ next \in 1..(doc.size + 1) /\ doc.size \in Nat /\ fence = Fenced(doc)[next]
  BY <1>1, HeadingsTyped DEF HeadingInv, ChunkerInv, ChunkerTypeOK, HeadingsRead
<1>3. PICK last \in next..doc.size :
          IsEnd(next, last, {"line", "blank"}, doc.size) /\ next' = last + 1
  BY DEF ReadLine
<1>4. next \in 1..doc.size /\ fence \in Fences \cup {None} /\ None \notin Fences
  BY <1>1, <1>2, FencedTyped, ChunkerAssumption
<1>5. fence' = OpenAfter(doc.mark[next], fence)
  <2>1. CASE FenceLine
    BY <1>4, <2>1 DEF FenceLine, OpenAfter
  <2>2. CASE HeadingLine
    <3>1. fence = None /\ fence' = None /\ doc.mark[next] \notin Fences
      BY <2>2, LevelOf DEF HeadingLine
    <3> QED BY <3>1 DEF OpenAfter
  <2>3. CASE OtherLine
    <3>1. fence' = fence /\ doc.mark[next] \notin Fences
      BY <2>3 DEF OtherLine
    <3> QED BY <1>4, <3>1 DEF OpenAfter
  <2> QED BY <1>1, <2>1, <2>2, <2>3
<1>6. \A k \in (next + 1)..last : doc.mark[k] = "text"
  <2> TAKE k \in (next + 1)..last
  <2>1. k \in 2..doc.size /\ doc.gap[k] \notin {"line", "blank"}
    BY <1>2, <1>3, <1>4 DEF IsEnd
  <2> QED BY <1>2, <2>1 DEF IsDocument
<1>7. fence' = Fenced(doc)[next']
  <2>1. Fenced(doc)[next + 1] = fence'
    BY <1>2, <1>4, <1>5, FencedEquation
  <2>2. /\ next + 1 \in 1..(doc.size + 1) /\ last + 1 \in (next + 1)..(doc.size + 1)
        /\ (last + 1) - 1 = last
    BY <1>2, <1>3, <1>4
  <2>3. Fenced(doc)[last + 1] = Fenced(doc)[next + 1]
    BY <1>2, <1>6, <2>2, TextKeepsFence
  <2> QED BY <1>3, <2>1, <2>3
<1>8. \A h \in Headings(doc) : h < next' => h <= next
  <2> SUFFICES ASSUME NEW h \in Headings(doc), h < next', ~(h <= next) PROVE FALSE
    OBVIOUS
  <2>1. h \in (next + 1)..last /\ h \in 1..doc.size
    BY <1>2, <1>3, <1>4, HeadingsTyped
  <2> QED BY <1>2, <1>6, <2>1, HeadingIs, LevelOf
<1>9. next \in Headings(doc) <=> HeadingLine
  <2>1. next \in Headings(doc) <=> Level(doc.mark[next]) > 0 /\ fence = None
    BY <1>2, <1>4, HeadingIs
  <2>2. HeadingLine => next \in Headings(doc)
    BY <2>1 DEF HeadingLine
  <2>3. FenceLine => next \notin Headings(doc)
    BY <2>1, LevelOf DEF FenceLine
  <2>4. OtherLine => next \notin Headings(doc)
    BY <1>4, <2>1, LevelOf DEF OtherLine
  <2> QED BY <1>1, <2>2, <2>3, <2>4
<1>10. next' \in (next + 1)..(doc.size + 1)
  BY <1>2, <1>3, <1>4
<1> QED BY <1>1, <1>2, <1>4, <1>7, <1>8, <1>9, <1>10

\* The last of a set of lines is the one that none of them is beyond.
LEMMA LastUnique ==
    ASSUME NEW S \in SUBSET Nat, NEW x \in S, \A h \in S : h <= x
    PROVE  LastOf(S) = x
<1>1. \A h \in S : (\A k \in S : k <= h) => h = x
  OBVIOUS
<1>2. LastOf(S) \in S /\ \A k \in S : k <= LastOf(S)
  BY DEF LastOf
<1> QED BY <1>1, <1>2

\* A new heading takes the place of those of its level and below.
LEMMA PathReplaced ==
    ASSUME HeadingInv, ReadLine, HeadingLine
    PROVE  PathOf(Before(doc, next + 1), path')
<1> DEFINE level == Level(doc.mark[next])
           kept == IF level - 1 < Len(path) THEN level - 1 ELSE Len(path)
           names == Append(SubSeq(path, 1, kept), next)
<1>1. at = "sections" /\ level > 0 /\ path' = names
  BY DEF HeadingLine, ReadLine
<1>2. IsDocument(doc) /\ path \in Seq(Nat) /\ next \in 1..doc.size /\ next \in Headings(doc)
  BY LineRead DEF HeadingInv, ChunkerInv, ChunkerTypeOK
<1>3. PathOf(Before(doc, next), path)
  BY <1>1 DEF HeadingInv, HeadingsRead
<1>4. level \in 1..3 /\ Len(path) \in Nat /\ kept \in 0..Len(path) /\ doc.size \in Nat
  <2>1. level \in 0..3
    BY LevelOf
  <2>2. Len(path) \in Nat
    BY <1>2
  <2> HIDE DEF level
  <2> QED BY <1>1, <1>2, <2>1, <2>2, HeadingsTyped
<1> HIDE DEF level
<1>5. kept <= level - 1 /\ (level <= Len(path) + 1 => kept = level - 1)
  BY <1>4
<1> HIDE DEF kept
<1>6. /\ Len(names) = kept + 1 /\ names # <<>> /\ DOMAIN names = 1..(kept + 1)
      /\ names[kept + 1] = next
      /\ \A m \in 1..kept : names[m] = path[m] /\ m \in DOMAIN path
  BY <1>2, <1>4
<1> HIDE DEF names
<1>7. Before(doc, next + 1) = Before(doc, next) \cup {next}
  BY <1>2, HeadingsTyped DEF Before
<1>8. \A h \in Before(doc, next + 1) : h <= next
  BY <1>2, HeadingsTyped DEF Before
<1>9. ASSUME NoLevelSkipped(doc), NEW m \in DOMAIN names
      PROVE  Level(doc.mark[names[m]]) = m
  <2>1. level <= Len(path) + 1
    <3>1. level <= IF Before(doc, next) = {} THEN 1
                   ELSE Level(doc.mark[LastOf(Before(doc, next))]) + 1
      BY <1>2, <1>9 DEF NoLevelSkipped, level
    <3>2. CASE Before(doc, next) = {}
      BY <1>4, <3>1, <3>2
    <3>3. CASE Before(doc, next) # {}
      <4>1. /\ path[Len(path)] \in Before(doc, next) /\ path # <<>>
            /\ \A h \in Before(doc, next) : h <= path[Len(path)]
        BY <1>3, <3>3 DEF PathOf
      <4>2. Before(doc, next) \in SUBSET Nat
        BY <1>2, HeadingsTyped DEF Before
      <4>3. LastOf(Before(doc, next)) = path[Len(path)]
        BY <4>1, <4>2, LastUnique
      <4>4. Level(doc.mark[path[Len(path)]]) = Len(path)
        BY <1>2, <1>3, <1>9, <4>1 DEF PathOf
      <4> QED BY <3>1, <3>3, <4>3, <4>4
    <3> QED BY <3>2, <3>3
  <2>2. kept = level - 1
    BY <1>5, <2>1
  <2>3. CASE m = kept + 1
    BY <1>4, <1>6, <2>2, <2>3 DEF level
  <2>4. CASE m \in 1..kept
    BY <1>3, <1>6, <1>9, <2>4 DEF PathOf
  <2> QED BY <1>4, <1>6, <2>3, <2>4
<1> QED BY <1>1, <1>6, <1>7, <1>8, <1>9 DEF PathOf

\* What is collected at the end of a section stands under the path so far.
LEMMA FlushedUnder ==
    ASSUME HeadingInv, at = "sections"
    PROVE  \A n \in DOMAIN flush : /\ Under(flush[n].from, flush[n].heading_path)
                                   /\ NoHeadingIn(flush[n].from, flush[n].to)
<1> DEFINE section == [from |-> start, to |-> next - 1, heading_path |-> path]
<1>1. /\ IsDocument(doc) /\ sections \in Seq(Sections) /\ start \in Nat /\ next \in Nat /\ start <= next
      /\ PathOf(Before(doc, next), path) /\ NoHeadingIn(start, next - 1)
  BY HeadingsTyped DEF HeadingInv, ChunkerInv, ChunkerTypeOK, SectionsFollow, HeadingsRead
<1>2. CASE ~(start < next)
  BY <1>2 DEF flush, HeadingInv, SectionsUnder
<1>3. CASE start < next
  <2>1. Under(section.from, section.heading_path) /\ NoHeadingIn(section.from, section.to)
    <3>1. Before(doc, start + 1) = Before(doc, next)
      <4>1. ASSUME NEW h \in Headings(doc) PROVE h < start + 1 <=> h < next
        BY <1>1, <1>3, HeadingsTyped DEF NoHeadingIn
      <4> QED BY <4>1 DEF Before
    <3> QED BY <1>1, <3>1 DEF Under
  <2>2. flush = Append(sections, section)
    BY <1>3 DEF flush
  <2> HIDE DEF section
  <2>3. \A n \in DOMAIN flush : (n \in DOMAIN sections /\ flush[n] = sections[n]) \/ flush[n] = section
    BY <1>1, <2>2
  <2> QED BY <2>1, <2>3 DEF HeadingInv, SectionsUnder
<1> QED BY <1>2, <1>3

\* Of the document only its headings matter to what is collected.
LEMMA SameDocument ==
    ASSUME doc' = doc
    PROVE  /\ \A k, names : Under(k, names)' <=> Under(k, names)
           /\ \A i, j : NoHeadingIn(i, j)' <=> NoHeadingIn(i, j)
           /\ \A k : Before(doc', k) = Before(doc, k)
           /\ \A S, names : PathOf(S, names)' <=> PathOf(S, names)
BY DEF Under, NoHeadingIn, PathOf

LEMMA ReadLineUnder ==
    ASSUME HeadingInv, ReadLine
    PROVE  HeadingsRead' /\ SectionsUnder' /\ PiecesUnder' /\ CutInside'
<1>1. /\ at = "sections" /\ at' = "sections" /\ doc' = doc
      /\ pieces' = <<>> /\ merged' = <<>> /\ current' = None /\ pending' = None
  BY DEF ReadLine, HeadingInv, ChunkerInv, SectionsFollow
<1>2. /\ next \in 1..doc.size /\ next' \in (next + 1)..(doc.size + 1) /\ doc.size \in Nat
      /\ fence' = Fenced(doc)[next']
      /\ \A h \in Headings(doc) : h < next' => h <= next
      /\ next \in Headings(doc) <=> HeadingLine
  BY LineRead, HeadingsTyped DEF HeadingInv, ChunkerInv, ChunkerTypeOK
<1>3. Headings(doc) \in SUBSET Nat
  BY HeadingsTyped DEF HeadingInv, ChunkerInv, ChunkerTypeOK
<1>4. Before(doc, next') = Before(doc, next + 1)
  BY <1>2, <1>3 DEF Before
<1>5. PathOf(Before(doc, next'), path') /\ NoHeadingIn(start', next' - 1)
  <2>1. CASE HeadingLine
    <3>1. start' = next
      BY <2>1 DEF HeadingLine
    <3>2. NoHeadingIn(next, next' - 1)
      BY <1>2, <1>3 DEF NoHeadingIn
    <3> QED BY <1>4, <2>1, <3>1, <3>2, PathReplaced
  <2>2. CASE ~HeadingLine
    <3>1. start' = start /\ path' = path /\ start \in Nat
      BY <2>2 DEF ReadLine, FenceLine, OtherLine, HeadingInv, ChunkerInv, ChunkerTypeOK
    <3>2. PathOf(Before(doc, next), path) /\ NoHeadingIn(start, next - 1)
      BY <1>1 DEF HeadingInv, HeadingsRead
    <3>3. Before(doc, next + 1) = Before(doc, next)
      BY <1>2, <1>3, <2>2 DEF Before
    <3>4. NoHeadingIn(start, next' - 1)
      BY <1>2, <1>3, <2>2, <3>1, <3>2 DEF NoHeadingIn
    <3> QED BY <1>4, <3>1, <3>2, <3>3, <3>4
  <2> QED BY <2>1, <2>2
<1>6. SectionsUnder'
  <2>1. sections' = sections \/ sections' = flush
    BY DEF ReadLine, FenceLine, HeadingLine, OtherLine
  <2>2. \A n \in DOMAIN sections' : /\ Under(sections'[n].from, sections'[n].heading_path)
                                    /\ NoHeadingIn(sections'[n].from, sections'[n].to)
    BY <1>1, <2>1, FlushedUnder DEF HeadingInv, SectionsUnder
  <2> QED BY <1>1, <2>2, SameDocument DEF SectionsUnder
<1>7. HeadingsRead'
  BY <1>1, <1>2, <1>5, SameDocument DEF HeadingsRead
<1>8. PiecesUnder' /\ CutInside'
  BY <1>1 DEF PiecesUnder, CutInside
<1> QED BY <1>6, <1>7, <1>8

LEMMA EndOfTextUnder ==
    ASSUME HeadingInv, EndOfText
    PROVE  HeadingsRead' /\ SectionsUnder' /\ PiecesUnder' /\ CutInside'
<1>1. /\ at = "sections" /\ at' = "split" /\ doc' = doc /\ sections' = flush
      /\ pieces' = <<>> /\ merged' = <<>> /\ current' = None /\ pending' = None /\ remaining' = None
  BY DEF EndOfText, HeadingInv, ChunkerInv, SectionsFollow
<1>2. SectionsUnder'
  BY <1>1, FlushedUnder, SameDocument DEF SectionsUnder
<1> QED BY <1>1, <1>2 DEF HeadingsRead, PiecesUnder, CutInside

\* Of the sections the first one is done.
LEMMA RestUnder ==
    ASSUME HeadingInv, sections # <<>>, sections' = Tail(sections), doc' = doc
    PROVE  SectionsUnder'
<1>1. sections \in Seq(Sections)
  BY DEF HeadingInv, ChunkerInv, ChunkerTypeOK
<1>2. \A n \in DOMAIN Tail(sections) : n + 1 \in DOMAIN sections /\ Tail(sections)[n] = sections[n + 1]
  BY <1>1
<1> QED BY <1>2, SameDocument DEF HeadingInv, SectionsUnder

\* A piece of the first section stands under the headings of the section.
LEMMA PieceUnder ==
    ASSUME HeadingInv, at = "split", sections # <<>>,
           NEW k \in sections[1].from..sections[1].to
    PROVE  Under(k, sections[1].heading_path)
<1>1. /\ IsDocument(doc) /\ sections \in Seq(Sections) /\ 1 \in DOMAIN sections
      /\ sections[1].from \in Nat /\ sections[1].to \in Nat
  <2>1. ChunkerInv /\ IsDocument(doc) /\ sections \in Seq(Sections)
    BY DEF HeadingInv, ChunkerInv, ChunkerTypeOK
  <2>2. sections[1] \in Sections
    BY <2>1, FirstSection
  <2>3. 1 \in DOMAIN sections
    BY <2>1
  <2> QED BY <2>1, <2>2, <2>3 DEF Sections
<1>2. Under(sections[1].from, sections[1].heading_path) /\ NoHeadingIn(sections[1].from, sections[1].to)
  BY <1>1 DEF HeadingInv, SectionsUnder
<1> QED BY <1>1, <1>2, UnderFurther

\* Adding a piece, or the paragraphs collected, to the pieces.
LEMMA AddedUnder ==
    ASSUME HeadingInv, NEW piece, Under(piece.from, piece.heading_path)
    PROVE  \A n \in DOMAIN Append(pieces, piece) :
               Under(Append(pieces, piece)[n].from, Append(pieces, piece)[n].heading_path)
<1>1. pieces \in Seq(Pieces)
  BY DEF HeadingInv, ChunkerInv, ChunkerTypeOK
<1>2. \A n \in DOMAIN Append(pieces, piece) :
          \/ n \in DOMAIN pieces /\ Append(pieces, piece)[n] = pieces[n]
          \/ Append(pieces, piece)[n] = piece
  BY <1>1
<1> QED BY <1>2 DEF HeadingInv, PiecesUnder

LEMMA CollectedUnder ==
    ASSUME HeadingInv
    PROVE  \A n \in DOMAIN (pieces \o Collected) :
               Under((pieces \o Collected)[n].from, (pieces \o Collected)[n].heading_path)
<1>1. pieces \in Seq(Pieces)
  BY DEF HeadingInv, ChunkerInv, ChunkerTypeOK
<1>2. CASE current = None
  <2>1. pieces \o Collected = pieces
    BY <1>1, <1>2 DEF Collected
  <2> QED BY <2>1 DEF HeadingInv, PiecesUnder
<1>3. CASE current # None
  <2>1. pieces \o Collected = Append(pieces, current)
    BY <1>1, <1>3 DEF Collected
  <2>2. Under(current.from, current.heading_path)
    BY <1>3 DEF HeadingInv, PiecesUnder
  <2> QED BY <2>1, <2>2, AddedUnder
<1> QED BY <1>2, <1>3

LEMMA KeepSectionUnder ==
    ASSUME HeadingInv, KeepSection
    PROVE  HeadingsRead' /\ SectionsUnder' /\ PiecesUnder' /\ CutInside'
<1> DEFINE section == sections[1]
           piece == Piece(section.from, section.to, section.heading_path)
<1>1. /\ at = "split" /\ at' = "split" /\ sections # <<>> /\ ~TooLong(section)
      /\ pieces' = Append(pieces, piece) /\ sections' = Tail(sections)
      /\ UNCHANGED <<doc, merged, current, remaining, pending>>
  BY DEF KeepSection
<1>2. remaining = None
  BY <1>1 DEF HeadingInv, ChunkerInv, PiecesFollow
<1>3. section.from \in section.from..section.to
  <2>1. /\ sections \in Seq(Sections) /\ sections[1].from \in Nat /\ sections[1].to \in Nat
        /\ Chain(sections, sections[1].from, doc.size) /\ 1 \in DOMAIN sections
    BY <1>1, FirstSection DEF HeadingInv, ChunkerInv, ChunkerTypeOK, PiecesFollow
  <2> QED BY <2>1 DEF Chain
<1>4. Under(piece.from, piece.heading_path)
  BY <1>1, <1>3, PieceUnder DEF Piece
<1> HIDE DEF piece
<1>5. PiecesUnder'
  BY <1>1, <1>4, AddedUnder, SameDocument DEF HeadingInv, PiecesUnder
<1> QED BY <1>1, <1>2, <1>5, RestUnder DEF HeadingsRead, CutInside

LEMMA TakeParagraphUnder ==
    ASSUME HeadingInv, TakeParagraph
    PROVE  HeadingsRead' /\ SectionsUnder' /\ PiecesUnder' /\ CutInside'
<1> DEFINE section == sections[1]
<1>1. /\ at = "split" /\ at' = "split" /\ sections # <<>> /\ remaining = None /\ next <= section.to
      /\ UNCHANGED <<doc, sections, merged, pending>>
  BY DEF TakeParagraph
<1>2. PICK last \in next..section.to :
        LET paragraph == Piece(next, last, section.heading_path)
            candidate == IF current = None THEN paragraph ELSE Joined(current, paragraph)
        IN IF candidate.length <= max_chars
           THEN current' = candidate /\ UNCHANGED <<pieces, remaining>>
           ELSE /\ pieces' = pieces \o Collected
                /\ current' = None
                /\ remaining' = Interval(next, last)
  BY DEF TakeParagraph
<1>3. next \in section.from..section.to /\ section.from \in Nat /\ section.to \in Nat
  BY <1>1, FirstSection DEF HeadingInv
<1>4. Under(next, section.heading_path)
  BY <1>1, <1>3, PieceUnder
<1> DEFINE paragraph == Piece(next, last, section.heading_path)
           candidate == IF current = None THEN paragraph ELSE Joined(current, paragraph)
<1>5. CASE candidate.length <= max_chars
  <2>1. current' = candidate /\ UNCHANGED <<pieces, remaining>>
    BY <1>2, <1>5
  <2>2. Under(candidate.from, candidate.heading_path)
    <3>1. CASE current = None
      BY <1>4, <3>1 DEF Piece
    <3>2. CASE current # None
      <4>1. current \in Pieces
        BY <3>2 DEF HeadingInv, ChunkerInv, ChunkerTypeOK
      <4>2. candidate.from = current.from /\ candidate.heading_path = current.heading_path
        BY <3>2, <4>1 DEF Joined, Pieces
      <4> QED BY <3>2, <4>2 DEF HeadingInv, PiecesUnder
    <3> QED BY <3>1, <3>2
  <2> HIDE DEF candidate
  <2>3. PiecesUnder'
    BY <1>1, <2>1, <2>2, SameDocument DEF HeadingInv, PiecesUnder
  <2> QED BY <1>1, <2>1, <2>3, SameDocument DEF HeadingInv, HeadingsRead, SectionsUnder, CutInside
<1>6. CASE ~(candidate.length <= max_chars)
  <2>1. pieces' = pieces \o Collected /\ current' = None /\ remaining' = Interval(next, last)
    BY <1>2, <1>6
  <2>2. PiecesUnder'
    BY <1>1, <2>1, CollectedUnder, SameDocument DEF HeadingInv, PiecesUnder
  <2>3. CutInside'
    BY <1>1, <1>2, <1>3, <2>1 DEF CutInside, Interval
  <2> QED BY <1>1, <2>2, <2>3, SameDocument DEF HeadingInv, HeadingsRead, SectionsUnder
<1> QED BY <1>5, <1>6

LEMMA SplitHardUnder ==
    ASSUME HeadingInv, SplitHard
    PROVE  HeadingsRead' /\ SectionsUnder' /\ PiecesUnder' /\ CutInside'
<1> DEFINE under == sections[1].heading_path
<1>1. /\ at = "split" /\ at' = "split" /\ remaining # None
      /\ UNCHANGED <<doc, sections, merged, current, pending>>
  BY DEF SplitHard
<1>2. /\ sections # <<>> /\ remaining.to <= sections[1].to /\ sections[1].from <= remaining.from
      /\ remaining.from <= remaining.to /\ remaining \in Intervals
  BY <1>1 DEF HeadingInv, ChunkerInv, ChunkerTypeOK, PiecesFollow, CutInside
<1>3. /\ remaining.from \in Nat /\ remaining.to \in Nat
      /\ sections[1].from \in Nat /\ sections[1].to \in Nat
  BY <1>1, <1>2, FirstSection DEF HeadingInv, Intervals
<1>4. Under(remaining.from, under)
  BY <1>1, <1>2, <1>3, PieceUnder
<1>5. /\ \E j : pieces' = Append(pieces, Piece(remaining.from, j, under))
      /\ remaining' # None =>
             \E k \in (remaining.from + 1)..remaining.to : remaining' = Interval(k, remaining.to)
  BY <1>1 DEF SplitHard
<1>6. PiecesUnder'
  <2>1. PICK j : pieces' = Append(pieces, Piece(remaining.from, j, under))
    BY <1>5
  <2> DEFINE piece == Piece(remaining.from, j, under)
  <2>2. Under(piece.from, piece.heading_path)
    BY <1>4 DEF Piece
  <2> HIDE DEF piece
  <2> QED BY <1>1, <2>1, <2>2, AddedUnder, SameDocument DEF HeadingInv, PiecesUnder, piece
<1>7. CutInside'
  <2> SUFFICES ASSUME remaining' # None
               PROVE  /\ remaining'.to <= sections[1].to
                      /\ sections[1].from <= remaining'.from
    BY <1>1, <1>2 DEF CutInside
  <2>1. PICK k \in (remaining.from + 1)..remaining.to : remaining' = Interval(k, remaining.to)
    BY <1>5
  <2>2. remaining'.to = remaining.to /\ remaining'.from = k
    BY <2>1 DEF Interval
  <2> QED BY <1>2, <1>3, <2>2
<1> QED BY <1>1, <1>6, <1>7, SameDocument DEF HeadingInv, HeadingsRead, SectionsUnder

LEMMA EndSectionUnder ==
    ASSUME HeadingInv, EndSection \/ EndOfSections
    PROVE  HeadingsRead' /\ SectionsUnder' /\ PiecesUnder' /\ CutInside'
<1>1. CASE EndSection
  <2>1. /\ at' = "split" /\ sections # <<>> /\ remaining = None
        /\ pieces' = pieces \o Collected /\ current' = None /\ sections' = Tail(sections)
        /\ UNCHANGED <<doc, merged, remaining, pending>>
    BY <1>1 DEF EndSection
  <2>2. PiecesUnder'
    BY <2>1, CollectedUnder, SameDocument DEF HeadingInv, PiecesUnder
  <2> QED BY <2>1, <2>2, RestUnder DEF HeadingsRead, CutInside
<1>2. CASE EndOfSections
  BY <1>2, SameDocument DEF EndOfSections, HeadingInv, HeadingsRead, SectionsUnder, PiecesUnder, CutInside
<1> QED BY <1>1, <1>2

LEMMA MergePieceUnder ==
    ASSUME HeadingInv, MergePiece
    PROVE  HeadingsRead' /\ SectionsUnder' /\ PiecesUnder' /\ CutInside'
<1> DEFINE piece == pieces[1]
<1>1. /\ at = "merge" /\ at' = "merge" /\ pieces # <<>> /\ pieces' = Tail(pieces)
      /\ UNCHANGED <<doc, sections, current>>
      /\ \/ pending' = piece /\ merged' \in {merged, Append(merged, pending)}
            /\ (merged' # merged => pending # None)
         \/ pending # None /\ pending' = Joined(pending, piece) /\ merged' = merged
  BY DEF MergePiece
<1>2. pieces \in Seq(Pieces) /\ merged \in Seq(Pieces) /\ 1 \in DOMAIN pieces
  BY <1>1 DEF HeadingInv, ChunkerInv, ChunkerTypeOK
<1>3. Under(piece.from, piece.heading_path)
  BY <1>2 DEF HeadingInv, PiecesUnder
<1>4. pending # None => Under(pending.from, pending.heading_path) /\ pending \in Pieces
  BY DEF HeadingInv, PiecesUnder, ChunkerInv, ChunkerTypeOK
<1>5. \A n \in DOMAIN pieces' : Under(pieces'[n].from, pieces'[n].heading_path)
  <2>1. \A n \in DOMAIN pieces' : n + 1 \in DOMAIN pieces /\ pieces'[n] = pieces[n + 1]
    BY <1>1, <1>2
  <2> QED BY <2>1 DEF HeadingInv, PiecesUnder
<1>6. \A n \in DOMAIN merged' : Under(merged'[n].from, merged'[n].heading_path)
  <2>1. CASE merged' = merged
    BY <2>1 DEF HeadingInv, PiecesUnder
  <2>2. CASE merged' = Append(merged, pending) /\ pending # None
    <3>1. \A n \in DOMAIN merged' : (n \in DOMAIN merged /\ merged'[n] = merged[n]) \/ merged'[n] = pending
      BY <1>2, <2>2
    <3> QED BY <1>4, <2>2, <3>1 DEF HeadingInv, PiecesUnder
  <2> QED BY <1>1, <2>1, <2>2
<1>7. Under(pending'.from, pending'.heading_path)
  <2>1. CASE pending' = piece
    BY <1>3, <2>1
  <2>2. CASE pending # None /\ pending' = Joined(pending, piece)
    <3>1. pending'.from = pending.from /\ pending'.heading_path = pending.heading_path
      BY <1>4, <2>2 DEF Joined, Pieces
    <3> QED BY <1>4, <2>2, <3>1
  <2> QED BY <1>1, <2>1, <2>2
<1>8. PiecesUnder'
  BY <1>1, <1>5, <1>6, <1>7, SameDocument DEF HeadingInv, PiecesUnder
<1> QED BY <1>1, <1>8, SameDocument DEF HeadingInv, HeadingsRead, SectionsUnder, CutInside

LEMMA EndOfPiecesUnder ==
    ASSUME HeadingInv, EndOfPieces
    PROVE  HeadingsRead' /\ SectionsUnder' /\ PiecesUnder' /\ CutInside'
<1>1. /\ at' = "done" /\ pending' = None
      /\ merged' = IF pending = None THEN merged ELSE Append(merged, pending)
      /\ UNCHANGED <<doc, sections, pieces, current>>
  BY DEF EndOfPieces
<1>2. merged \in Seq(Pieces)
  BY DEF HeadingInv, ChunkerInv, ChunkerTypeOK
<1>3. \A n \in DOMAIN merged' : \/ n \in DOMAIN merged /\ merged'[n] = merged[n]
                                \/ pending # None /\ merged'[n] = pending
  BY <1>1, <1>2
<1>4. PiecesUnder'
  BY <1>1, <1>3, SameDocument DEF HeadingInv, PiecesUnder
<1> QED BY <1>1, <1>4, SameDocument DEF HeadingInv, HeadingsRead, SectionsUnder, CutInside

LEMMA HeadingsInit == Init => HeadingInv
<1> SUFFICES ASSUME Init PROVE HeadingInv
  OBVIOUS
<1>1. /\ at = "sections" /\ next = 1 /\ start = 1 /\ fence = None /\ path = <<>>
      /\ sections = <<>> /\ pieces = <<>> /\ merged = <<>>
      /\ current = None /\ remaining = None /\ pending = None
  BY DEF Init
<1>2. IsDocument(doc) /\ ChunkerInv
  BY ChunkerInit DEF ChunkerInv, ChunkerTypeOK
<1>3. Before(doc, 1) = {} /\ NoHeadingIn(1, 0)
  BY <1>2, HeadingsTyped DEF Before, NoHeadingIn
<1>4. HeadingsRead
  BY <1>1, <1>2, <1>3, FencedEquation DEF HeadingsRead, PathOf
<1> QED BY <1>1, <1>2, <1>4 DEF HeadingInv, SectionsUnder, PiecesUnder, CutInside

\* Every chunk carries the headings that its first character stands under,
\* whatever code blocks hide, however sections were cut and pieces joined.
THEOREM ChunksUnderTheirHeading == Spec => []ChunkUnderItsHeading
<1>1. ChunkerInv /\ HeadingInv /\ [Next]_vars /\ ChunkerInv' => HeadingInv'
  <2> SUFFICES ASSUME HeadingInv, [Next]_vars
               PROVE  HeadingsRead' /\ SectionsUnder' /\ PiecesUnder' /\ CutInside'
    BY DEF HeadingInv
  <2>1. CASE UNCHANGED vars
    BY <2>1, SameDocument
    DEF vars, HeadingInv, HeadingsRead, SectionsUnder, PiecesUnder, CutInside
  <2> QED BY <2>1, ReadLineUnder, EndOfTextUnder, KeepSectionUnder, TakeParagraphUnder,
             SplitHardUnder, EndSectionUnder, MergePieceUnder, EndOfPiecesUnder DEF Next
<1>2. HeadingInv => ChunkUnderItsHeading
  <2> SUFFICES ASSUME HeadingInv, at = "done", NEW n \in DOMAIN merged
               PROVE  LET above == Before(doc, merged[n].from + 1)
                          names == merged[n].heading_path
                      IN /\ IF above = {} THEN names = <<>> ELSE names[Len(names)] = LastOf(above)
                         /\ NoLevelSkipped(doc) => \A m \in DOMAIN names : Level(doc.mark[names[m]]) = m
    BY DEF ChunkUnderItsHeading
  <2> DEFINE above == Before(doc, merged[n].from + 1)
             names == merged[n].heading_path
  <2>1. PathOf(above, names)
    BY DEF HeadingInv, PiecesUnder, Under
  <2>2. above \in SUBSET Nat
    BY HeadingsTyped DEF Before, HeadingInv, ChunkerInv, ChunkerTypeOK
  <2> HIDE DEF above, names
  <2>3. above # {} => LastOf(above) = names[Len(names)]
    <3> SUFFICES ASSUME above # {} PROVE LastOf(above) = names[Len(names)]
      OBVIOUS
    <3>1. names[Len(names)] \in above /\ \A h \in above : h <= names[Len(names)]
      BY <2>1 DEF PathOf
    <3> QED BY <2>2, <3>1, LastUnique
  <2> QED BY <2>1, <2>3 DEF PathOf, above, names
<1> QED BY <1>1, <1>2, HeadingsInit, ChunkerInvariant, PTL DEF Spec
============================================================================
