--------------------------- MODULE ThreeWayMerge ---------------------------
(***************************************************************************)
(* The three-way merge of core/conflict/merger.rs: the fast paths, the two *)
(* attempts to apply one side's patch to the other side, and the loop that *)
(* writes conflict markers when both fail.  A file is a sequence of lines. *)
(*                                                                         *)
(* The patch library is external.  A patch made with its default context   *)
(* of three lines takes in the whole base of files of at most PatchContext *)
(* lines, so it applies exactly where the base occurs in the image.        *)
(***************************************************************************)
EXTENDS Naturals, Sequences, FiniteSets

CONSTANTS
    Lines,          \* the lines files consist of
    NoLine,         \* what reading past the end of a file gives
    PatchContext    \* lines of the longest file

\* The four marker lines; no file is assumed to contain one of them.
OursMark   == "<<< ours (SVN)"
BaseMark   == "||| base"
SplitMark  == "==="
TheirsMark == ">>> theirs (Git)"
Marks == {OursMark, BaseMark, SplitMark, TheirsMark}

ASSUME ThreeWayMergeAssumption ==
    /\ Lines \cap Marks = {} /\ NoLine \notin Lines \cup Marks
    /\ PatchContext \in 1..3

VARIABLES
    base, ours, theirs,     \* the arguments
    step,                   \* "start", "scan" in the marker loop, "done"
    i,                      \* the loop's line number, from 1
    output,                 \* merged_content
    markers,                \* conflict_markers: the span of every block
    conflicted              \* has_conflicts

mergeVars == <<base, ours, theirs, step, i, output, markers, conflicted>>

Files == UNION {[1..n -> Lines] : n \in 0..PatchContext}

MergeInit ==
    /\ base \in Files /\ ours \in Files /\ theirs \in Files
    /\ step = "start" /\ i = 1
    /\ output = <<>> /\ markers = <<>> /\ conflicted = FALSE

-----------------------------------------------------------------------------
\* The patch library.

Offsets(image) ==
    {k \in 0..Len(image) :
        /\ k + Len(base) <= Len(image)
        /\ SubSeq(image, k + 1, k + Len(base)) = base}

Applies(image) == Offsets(image) # {}

\* Applying the patch from base to new at one of the places it fits.
Applied(new, image, k) ==
    SubSeq(image, 1, k) \o new \o SubSeq(image, k + Len(base) + 1, Len(image))

-----------------------------------------------------------------------------
\* three_way_merge before the marker loop.

CleanMerge(content) ==
    /\ output' = content /\ step' = "done"
    /\ UNCHANGED <<base, ours, theirs, i, markers, conflicted>>

\* One side is the base, or both made the same change.
FastPath ==
    /\ step = "start"
    /\ \/ ours = base /\ CleanMerge(theirs)
       \/ theirs = base /\ CleanMerge(ours)
       \/ ours = theirs /\ CleanMerge(ours)

BothChanged == ours # base /\ theirs # base /\ ours # theirs

ApplyTheirs ==
    /\ step = "start" /\ BothChanged
    /\ \E k \in Offsets(ours) : CleanMerge(Applied(theirs, ours, k))

ApplyOurs ==
    /\ step = "start" /\ BothChanged /\ ~Applies(ours)
    /\ \E k \in Offsets(theirs) : CleanMerge(Applied(ours, theirs, k))

BothPatchesFail ==
    /\ step = "start" /\ BothChanged /\ ~Applies(ours) /\ ~Applies(theirs)
    /\ step' = "scan"
    /\ UNCHANGED <<base, ours, theirs, i, output, markers, conflicted>>

\* The engine asks this before it merges.
CanAutoMerge ==
    \/ ours = base \/ theirs = base \/ ours = theirs
    \/ Applies(ours) \/ Applies(theirs)

-----------------------------------------------------------------------------
\* generate_conflict_output, one action for every arm of its match.

Longest(a, b) == IF a < b THEN b ELSE a

MaxLen == Longest(Longest(Len(ours), Len(theirs)), Len(base))

LineAt(file, k) == IF k \in 1..Len(file) THEN file[k] ELSE NoLine

Agree(k) == LineAt(ours, k) = LineAt(theirs, k)

\* Variant for mutation testing.
SpanOffByOne(file, a, b) ==
    SubSeq(file, a + 1, IF b - 1 < Len(file) THEN b - 1 ELSE Len(file))

\* The lines of a file from line a to the line before b that exist.
Span(file, a, b) ==
    SubSeq(file, a, IF b - 1 < Len(file) THEN b - 1 ELSE Len(file))

\* The line after the block that begins at the line a.
BlockEnd(a) ==
    CHOOSE b \in (a + 1)..(MaxLen + 1) :
        /\ b = MaxLen + 1 \/ Agree(b)
        /\ \A k \in (a + 1)..(b - 1) : ~Agree(k)

BaseBlock(a, b) ==
    IF a <= Len(base) THEN <<BaseMark>> \o Span(base, a, b) ELSE <<>>

Block(a, b) ==
    <<OursMark>> \o Span(ours, a, b) \o BaseBlock(a, b)
        \o <<SplitMark>> \o Span(theirs, a, b) \o <<TheirsMark>>

FirstLineOfBlock == Len(output) + 1

Scanning == step = "scan" /\ i <= MaxLen

KeepLine(line) ==
    /\ output' = Append(output, line) /\ i' = i + 1
    /\ UNCHANGED <<base, ours, theirs, step, markers, conflicted>>

KeepCommonLine ==
    /\ Scanning /\ i <= Len(ours) /\ i <= Len(theirs) /\ Agree(i)
    /\ KeepLine(ours[i])

WriteBlock ==
    /\ Scanning /\ i <= Len(ours) /\ i <= Len(theirs) /\ ~Agree(i)
    /\ output' = output \o Block(i, BlockEnd(i))
    /\ markers' = Append(markers, [start |-> FirstLineOfBlock,
                                   end   |-> Len(output')])
    /\ i' = BlockEnd(i)
    /\ UNCHANGED <<base, ours, theirs, step, conflicted>>

KeepOursOnly ==
    Scanning /\ i <= Len(ours) /\ i > Len(theirs) /\ KeepLine(ours[i])

KeepTheirsOnly ==
    Scanning /\ i > Len(ours) /\ i <= Len(theirs) /\ KeepLine(theirs[i])

SkipBaseOnly ==
    /\ Scanning /\ i > Len(ours) /\ i > Len(theirs)
    /\ i' = i + 1
    /\ UNCHANGED <<base, ours, theirs, step, output, markers, conflicted>>

FinishMarkers ==
    /\ step = "scan" /\ i > MaxLen
    /\ conflicted' = TRUE /\ step' = "done"
    /\ UNCHANGED <<base, ours, theirs, i, output, markers>>

MergeNext ==
    \/ FastPath \/ ApplyTheirs \/ ApplyOurs \/ BothPatchesFail
    \/ KeepCommonLine \/ WriteBlock \/ KeepOursOnly \/ KeepTheirsOnly
    \/ SkipBaseOnly \/ FinishMarkers

MergeSpec == MergeInit /\ [][MergeNext]_mergeVars

-----------------------------------------------------------------------------
\* The reported spans are the blocks of the output: each begins at its first
\* marker line and ends at its last, they follow one another, and no marker
\* line lies outside (ConflictMarker's 1-based start_line and end_line).
MarkersLocateBlocks ==
    /\ \A m \in 1..Len(markers) :
        /\ markers[m].start < markers[m].end
        /\ markers[m].end <= Len(output)
        /\ output[markers[m].start] = OursMark
        /\ output[markers[m].end] = TheirsMark
        /\ m > 1 => markers[m - 1].end < markers[m].start
    /\ \A k \in 1..Len(output) :
        output[k] \in Marks =>
            \E m \in 1..Len(markers) :
                markers[m].start <= k /\ k <= markers[m].end

InBlock(m, k) == markers[m].start <= k /\ k <= markers[m].end

MarkBetween(m, k, mark) ==
    \E n \in markers[m].start..k : output[n] = mark

\* The lines left when every block is resolved in favour of one side.
OursSide ==
    {k \in 1..Len(output) :
        \A m \in 1..Len(markers) : InBlock(m, k) =>
            /\ output[k] \notin Marks
            /\ ~MarkBetween(m, k, BaseMark) /\ ~MarkBetween(m, k, SplitMark)}

TheirsSide ==
    {k \in 1..Len(output) :
        \A m \in 1..Len(markers) : InBlock(m, k) =>
            output[k] \notin Marks /\ MarkBetween(m, k, SplitMark)}

Kept(side) ==
    [n \in 1..Cardinality(side) |->
        output[CHOOSE k \in side : Cardinality({m \in side : m <= k}) = n]]

StartsWith(file, head) ==
    Len(head) <= Len(file) /\ SubSeq(file, 1, Len(head)) = head

\* Whichever side a reader keeps in the blocks, that side's file comes back
\* whole and in order: the marker loop drops and reorders nothing.
SidesRecoverable ==
    step = "done" /\ conflicted =>
        StartsWith(Kept(OursSide), ours) /\ StartsWith(Kept(TheirsSide), theirs)

LinesOf(file) == {file[k] : k \in 1..Len(file)}

\* No merge, clean or not, loses a line that a side wrote and the base lacks.
AddedLinesSurvive ==
    step = "done" =>
        (LinesOf(ours) \cup LinesOf(theirs)) \ LinesOf(base)
            \subseteq LinesOf(output)

\* The engine's test and the merge agree: can_auto_merge promises a clean
\* merge exactly when three_way_merge delivers one.
AutoMergeAgrees == step = "done" => (CanAutoMerge <=> ~conflicted)

\* What merger.rs promises of any merge: marker blocks where they are reported
\* to be, both files whole in a merge with conflicts, no line lost that a side
\* added, and an answer to can_auto_merge that three_way_merge keeps.
MergeCorrect ==
    /\ MarkersLocateBlocks /\ SidesRecoverable
    /\ AddedLinesSurvive /\ AutoMergeAgrees
=============================================================================
