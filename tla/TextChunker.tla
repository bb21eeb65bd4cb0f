------------------------------- MODULE TextChunker -------------------------------
(***************************************************************************)
(* chunkText (internal/indexer/extractors/chunker.go): the extracted text  *)
(* of a file is cut into chunks of about Target bytes, at blank lines, then *)
(* at line ends, then anywhere.  A text is a sequence over "x" (any other  *)
(* byte) and "n" (a newline; the carriage returns that nextParagraph also  *)
(* skips are left out); a chunk is [off, text], off counted from 1.        *)
(***************************************************************************)
EXTENDS Integers, Sequences, SequencesExt

CONSTANTS
    Target          \* DefaultChunkTargetBytes, 2048 in the code

ASSUME TargetAssumption == Target \in Nat \ {0}


maxChunk == (3 * Target) \div 2
smallFile == (5 * Target) \div 4
SkipBlank(t, p) == CHOOSE q \in p .. (Len(t) + 1) :
    (q = Len(t) + 1 \/ t[q] # "n") /\ \A r \in p .. (q - 1) : t[r] = "n"
Chunk(t, from, to) == [off |-> from, text |-> SubSeq(t, from, to)]

\* nextParagraph from its first byte p: where it ends, and where the next one is looked for.
ParaEnds(t, p) == {q \in p .. (Len(t) - 1) : t[q] = "n" /\ t[q + 1] = "n"}
ParaEnd(t, p) == IF ParaEnds(t, p) = {}
                 THEN (IF Len(t) >= p /\ Last(t) = "n" THEN Len(t) - 1 ELSE Len(t))
                 ELSE (CHOOSE q \in ParaEnds(t, p) : \A r \in ParaEnds(t, p) : q <= r) - 1
ParaNext(t, p) == IF ParaEnds(t, p) = {} THEN Len(t) + 1 ELSE ParaEnd(t, p) + 3

HardSplit(t, from, to) ==
    LET n == (to - from + Target) \div Target
    IN  [i \in 1 .. n |-> Chunk(t, from + (i - 1) * Target,
                                IF i = n THEN to ELSE from + i * Target - 1)]

LineEnd(t, p, to) == CHOOSE q \in p .. to : (q = to \/ t[q] = "n") /\ \A r \in p .. (q - 1) : t[r] # "n"

\* The lines from .. to of a long paragraph.  In lines[p, cur], the rest begins at p, and cur is
\* where the chunk being filled began, 0 for none.
chunkByLine(t, from, to) ==
    LET lines[p \in from .. (to + 1), cur \in 0 .. to] ==
          LET flush == IF cur = 0 THEN <<>> ELSE <<Chunk(t, cur, p - 1)>>
              e == LineEnd(t, p, to)
          IN  CASE p > to -> flush
                [] p <= to /\ e - p + 1 > maxChunk -> flush \o HardSplit(t, p, e) \o lines[e + 1, 0]
                [] p <= to /\ e - p + 1 <= maxChunk /\ cur # 0 /\ e - cur + 1 > Target ->
                     flush \o lines[e + 1, p]
                [] OTHER -> lines[e + 1, IF cur = 0 THEN p ELSE cur]
    IN  lines[from, 0]

\* Mutant: the offset of a chunk is where the search for its paragraph began.
RawStart(t, pos) == pos

ParaStart(t, pos) == SkipBlank(t, pos)

noChunk == [off |-> 0, text |-> <<>>]

\* In paras[pos, cur], the paragraphs from pos on are left, and cur is the chunk being filled.
chunkParas(t) ==
    LET paras[pos \in 1 .. (Len(t) + 2), cur \in [off : Nat, text : Seq({"x", "n"})]] ==
          LET flush == IF cur.text = <<>> THEN <<>> ELSE <<cur>>
              first == SkipBlank(t, pos)
              para == SubSeq(t, first, ParaEnd(t, first))
              rest == ParaNext(t, first)
              begun == [off |-> ParaStart(t, pos), text |-> para]
              joined == [cur EXCEPT !.text = @ \o <<"n", "n">> \o para]
          IN  CASE pos > Len(t) -> flush
                [] pos <= Len(t) /\ Len(para) > maxChunk ->
                     flush \o chunkByLine(t, first, first + Len(para) - 1) \o paras[rest, noChunk]
                [] pos <= Len(t) /\ Len(para) <= maxChunk /\ cur.text = <<>> -> paras[rest, begun]
                [] pos <= Len(t) /\ Len(para) <= maxChunk /\ cur.text # <<>>
                     /\ Len(cur.text) + Len(para) + 2 > Target -> flush \o paras[rest, begun]
                [] OTHER -> paras[rest, joined]
    IN  paras[1, noChunk]

chunkText(t) ==
    IF t = <<>> THEN <<>>
    ELSE IF Len(t) <= smallFile THEN <<Chunk(t, 1, Len(t))>>
    ELSE chunkParas(t)

-----------------------------------------------------------------------------
(* What a chunk must be, whatever the text. *)

NonBlank(s) == SelectSeq(s, LAMBDA c : c # "n")

\* The chunks of a text start at the offsets they carry, none is empty or larger than the
\* overrun allows, and each holds exactly the non-blank bytes up to where the next one starts,
\* so no byte of the file is missing from the index or in it twice (chunkText).
FaithfulChunks(t) ==
    LET cs == chunkText(t)
        upTo(i) == IF i = Len(cs) THEN Len(t) ELSE cs[i + 1].off - 1
    IN  /\ cs # <<>> => NonBlank(SubSeq(t, 1, cs[1].off - 1)) = <<>>
        /\ cs = <<>> => NonBlank(t) = <<>>
        /\ \A i \in DOMAIN cs :
             /\ Len(cs[i].text) \in 1 .. maxChunk
             /\ Head(cs[i].text) = t[cs[i].off]
             /\ NonBlank(cs[i].text) = NonBlank(SubSeq(t, cs[i].off, upTo(i)))

=============================================================================
