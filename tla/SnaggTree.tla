-------------------------------- MODULE SnaggTree --------------------------------
(***************************************************************************)
(* The signed B-tree of the Aggregate index (contracts/snagg): records are *)
(* sorted by key, packed into leaf pages, the leaves into levels of        *)
(* interior pages, and the pages laid out from the root down, one torrent  *)
(* piece each.  A prefix query walks from the root to the leaves whose key *)
(* range meets the prefix.                                                 *)
(*                                                                         *)
(* A keyword is a sequence of positive numbers, its bytes; a record is     *)
(* [kw, ih]; a key is kw, a zero byte and ih.  The signatures, the proof   *)
(* of work and the byte layout of the pages are left out; what an encoder  *)
(* decides is kept: when a page overflows, and that the first separator of *)
(* an interior page is written empty.                                      *)
(***************************************************************************)
EXTENDS Integers, Sequences, FiniteSets, SequencesExt

CONSTANTS
    PageSize,       \* MinPieceSize, 16384 bytes in the code
    RecordSize      \* the bytes of a record besides its keyword

ASSUME PageAssumption == PageSize \in Nat /\ RecordSize \in Nat \ {0}

-----------------------------------------------------------------------------
(* Keys. *)

RecordKey(r) == r.kw \o <<0, r.ih>>

\* bytes.Compare(a, b) < 0
Less(a, b) ==
    LET n == IF Len(a) < Len(b) THEN Len(a) ELSE Len(b)
        differ == {i \in 1 .. n : a[i] # b[i]}
    IN  IF differ = {} THEN Len(a) < Len(b)
        ELSE LET i == CHOOSE i \in differ : \A j \in differ : i <= j IN a[i] < b[i]
compareRecords(r, s) == Less(RecordKey(r), RecordKey(s))

\* Every byte string that begins with p is below nextPrefix(p); no byte of the model is 0xFF.
nextPrefix(p) == [p EXCEPT ![Len(p)] = @ + 1]

-----------------------------------------------------------------------------
(* Pages.  A node is [recs, kids, minKey]: a leaf has records, an interior *)
(* node has children.                                                      *)

leafOverflows(recs) == FoldLeft(LAMBDA n, r : n + RecordSize + Len(r.kw), 0, recs) > PageSize
\* A child costs its separator and an index; the first separator is empty.
interiorOverflows(kids) ==
    FoldLeft(LAMBDA n, k : n + 1 + Len(k.minKey), Len(kids[1].minKey) * (-1), kids) > PageSize

mkLeaf(recs) == [recs |-> recs, kids |-> <<>>, minKey |-> RecordKey(recs[1])]
mkInterior(kids) == [recs |-> <<>>, kids |-> kids, minKey |-> kids[1].minKey]

\* Fill a page until the next item overflows it, then begin another.
Pack(items, Overflows(_), Mk(_)) ==
    LET add(acc, x) == IF acc.cur # <<>> /\ Overflows(Append(acc.cur, x))
                       THEN [done |-> Append(acc.done, Mk(acc.cur)), cur |-> <<x>>]
                       ELSE [acc EXCEPT !.cur = Append(@, x)]
        close(acc) == Append(acc.done, Mk(acc.cur))
    IN  close(FoldLeft(add, [done |-> <<>>, cur |-> <<>>], items))

packLeaves(sorted) == Pack(sorted, leafOverflows, mkLeaf)
packInteriorLevel(kids) == Pack(kids, interiorOverflows, mkInterior)

-----------------------------------------------------------------------------
(* BuildBTree. *)

\* sort.SliceStable: a record's position is the number of records below it.
Sorted(recs) ==
    [i \in 1 .. Cardinality(recs) |->
        CHOOSE r \in recs : Cardinality({s \in recs : compareRecords(s, r)}) = i - 1]

\* The levels from the leaves up; a single leaf still gets a root above it.
UpToRoot(level) ==
    LET height == CHOOSE h \in DOMAIN level \ {0} :
                      Len(level[h]) = 1 /\ \A l \in 1 .. (h - 1) : Len(level[l]) > 1
    IN  [l \in 0 .. height |-> level[l]]
LevelsAbove(leaves) ==
    LET level[l \in 0 .. Len(leaves)] ==
            IF l = 0 THEN leaves ELSE packInteriorLevel(level[l - 1])
    IN  UpToRoot(level)
Levels(recs) == LevelsAbove(packLeaves(Sorted(recs)))

Height(levels) == CHOOSE h \in DOMAIN levels : \A l \in DOMAIN levels : l <= h

\* The piece of the first node of a level: the root level comes first, the leaves last.
FirstPiece(levels, l) ==
    FoldLeft(LAMBDA n, m : n + Len(levels[m]), 0, SetToSeq({m \in DOMAIN levels : m > l}))

\* Mutant: every separator is written, one child late.
SeparatorLate(kids, j) == IF j = 1 THEN <<>> ELSE kids[j - 1].minKey

\* interiorChildrenOf and EncodeInterior
Separator(kids, j) == IF j = 1 THEN <<>> ELSE kids[j].minKey

\* The children of the i-th node of a level sit side by side in the level below.
ChildPiece(levels, l, i, j) ==
    FirstPiece(levels, l - 1) + j - 1
    + FoldLeft(LAMBDA n, k : n + Len(levels[l][k].kids), 0, [k \in 1 .. (i - 1) |-> k])

Page(levels, l, i) ==
    LET nd == levels[l][i]
    IN  [kind |-> IF l = 0 THEN "leaf" ELSE IF l = Height(levels) THEN "root" ELSE "interior",
         recs |-> nd.recs,
         kids |-> [j \in DOMAIN nd.kids |->
                      [sep |-> Separator(nd.kids, j), child |-> ChildPiece(levels, l, i, j)]]]

\* The data pages in piece order, and the trailer.
Layout(levels, sorted) ==
    LET pagesOf(l) == [i \in DOMAIN levels[l] |-> Page(levels, l, i)]
        top == Height(levels)
    IN  [pages |-> FoldLeft(LAMBDA s, l : s \o pagesOf(top - l), <<>>, [l \in 1 .. (top + 1) |-> l - 1]),
         trailer |-> [numPages |-> FirstPiece(levels, 0) + Len(levels[0]) + 1,
                      numRecords |-> Len(sorted), fingerprint |-> sorted]]
BuildBTree(recs) == Layout(Levels(recs), Sorted(recs))

-----------------------------------------------------------------------------
(* Find. *)

Piece(tree, p) == tree.pages[p + 1]
NumPieces(tree) == Len(tree.pages) + 1

\* OpenBTree: a root, a leaf and a trailer at least, and as many pieces as the trailer claims.
OpenBTree(tree) == NumPieces(tree) >= 3 /\ tree.trailer.numPages = NumPieces(tree)

\* Whether [lower, upper) meets [lo, hi); an empty lower bound is minus infinity, and the last
\* child of a page has no upper bound.
rangeOverlapsPrefix(kids, j, lo, hi) ==
    /\ j < Len(kids) => Less(lo, kids[j + 1].sep)
    /\ kids[j].sep # <<>> => Less(kids[j].sep, hi)

\* walkToLeaves: children must lie after the page and after one another, and before the trailer.
ChildrenInOrder(tree, p) ==
    LET kids == Piece(tree, p).kids
    IN  \A j \in DOMAIN kids : /\ kids[j].child > (IF j = 1 THEN p ELSE kids[j - 1].child)
                               /\ kids[j].child < NumPieces(tree) - 1

walkToLeaves(tree, lo, hi) ==
    LET walk[p \in 0 .. (Len(tree.pages) - 1)] ==
            LET page == Piece(tree, p)
                into(s, j) == IF rangeOverlapsPrefix(page.kids, j, lo, hi)
                              THEN s \o walk[page.kids[j].child] ELSE s
            IN  IF page.kind = "leaf" THEN <<p>>
                ELSE FoldLeft(into, <<>>, [j \in DOMAIN page.kids |-> j])
    IN  walk[0]

Find(tree, prefix) ==
    LET leaves == walkToLeaves(tree, prefix, nextPrefix(prefix))
        all == FoldLeft(LAMBDA s, p : s \o Piece(tree, p).recs, <<>>, leaves)
    IN  SelectSeq(all, LAMBDA r : IsPrefix(prefix, r.kw))

\* VerifyFingerprint: the leaves in piece order hold the records of the fingerprint.
VerifyFingerprint(tree) ==
    LET stream == FoldLeft(LAMBDA s, page : s \o page.recs, <<>>, tree.pages)
    IN  Len(stream) = tree.trailer.numRecords /\ stream = tree.trailer.fingerprint

\* The infohashes of the records whose keyword is the token.
exactHits(tree, token) == {r.ih : r \in {s \in Range(Find(tree, token)) : s.kw = token}}

-----------------------------------------------------------------------------
\* A tree answers every prefix with exactly the records that have it, each once and in key
\* order, its pages pass the walk's checks, and its leaves match its fingerprint.
Answers(tree, sorted, prefixes) ==
    /\ OpenBTree(tree) /\ Piece(tree, 0).kind = "root"
    /\ \A p \in 0 .. (Len(tree.pages) - 1) : ChildrenInOrder(tree, p)
    /\ VerifyFingerprint(tree)
    /\ \A q \in prefixes : Find(tree, q) = SelectSeq(sorted, LAMBDA r : IsPrefix(q, r.kw))
FindsAll(recs, prefixes) == Answers(BuildBTree(recs), Sorted(recs), prefixes)

=============================================================================
