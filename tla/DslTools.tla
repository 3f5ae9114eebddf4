------------------------------ MODULE DslTools ------------------------------
(***************************************************************************)
(* core/runtime/pygo_fmt.py and source_map.py.  format_project uses one    *)
(* formatter for all files, read here line by line; of a line matters      *)
(* which braces it has.  A generated file gets a PYGO_ORIGINAL comment     *)
(* after each line whose source line is known; the errors of the compiler  *)
(* are translated by the nearest comment.                                  *)
(***************************************************************************)
EXTENDS Integers, Sequences, FiniteSets

CONSTANTS
    MaxFileLines,   \* bound: lines of a .pgo file
    GenLines        \* lines of the generated file, before comments

ASSUME DslToolsAssumption == MaxFileLines \in Nat /\ GenLines \in Nat

VARIABLES
    lines,      \* the lines read of the file being formatted
    out,        \* their indentation in the result, Kept for as it was
    level,      \* PyGoFormatter.indent_level
    gen,        \* the generated file: [src, mark], the code of a source line
                \*   or the comment that names it
    smap,       \* the source map: [at, src] for each comment found
    fresh       \* history: gen is as it was when smap was made

fmtVars == <<lines, out, level>>
smapVars == <<gen, smap, fresh>>

-----------------------------------------------------------------------------
(* PyGoFormatter *)

\* Blank lines count as comments; "both" has an opening and a closing brace.
Kinds == {"comment", "open", "close", "both", "plain"}
Kept == -1

FmtInit == lines = <<>> /\ out = <<>> /\ level = 0

OpenFileAt(l) == lines' = <<>> /\ out' = <<>> /\ level' = l

\* format_content for the next file begins.
OpenFileKeepsLevel == OpenFileAt(level)

OpenFile == OpenFileAt(0)

\* One turn of the loop.
FormatLine(kind) ==
    LET less == IF level > 0 THEN level - 1 ELSE 0 IN
    /\ Len(lines) < MaxFileLines
    /\ lines' = Append(lines, kind)
    /\ out' = Append(out, CASE kind = "comment" -> Kept
                            [] kind = "close" -> less
                            [] OTHER -> level)
    /\ level' = CASE kind = "open" -> level + 1
                  [] kind \in {"close", "both"} -> less
                  [] OTHER -> level

FmtNext == OpenFile \/ \E kind \in Kinds : FormatLine(kind)

-----------------------------------------------------------------------------
(* SourceMapGenerator *)

Code(s) == [src |-> s, mark |-> FALSE]
Comment(s) == [src |-> s, mark |-> TRUE]

\* A line moves down by the comments before it; its own comment follows it.
Moved(tracked, s) == s + Cardinality({t \in tracked : t < s})
LinesOf(tracked, s) == Moved(tracked, s)..(Moved(tracked, s) + IF s \in tracked THEN 1 ELSE 0)

\* The file with a comment after each tracked line.
Injected(tracked) ==
    [n \in 1..(GenLines + Cardinality(tracked)) |->
        LET s == CHOOSE s \in 1..GenLines : n \in LinesOf(tracked, s)
        IN  IF n = Moved(tracked, s) THEN Code(s) ELSE Comment(s)]

SmapInit == gen = Injected({}) /\ smap = {} /\ fresh = FALSE

\* The file is generated again, without comments.
Compile ==
    /\ gen' = Injected({})
    /\ fresh' = FALSE
    /\ UNCHANGED smap

\* inject_source_map_comment; the line numbers of line_map are those of the
\* file without comments.
Inject(tracked) ==
    /\ \A i \in DOMAIN gen : ~gen[i].mark
    /\ gen' = Injected(tracked)
    /\ fresh' = FALSE
    /\ UNCHANGED smap

Marks == {[at |-> i, src |-> gen[i].src] : i \in {i \in DOMAIN gen : gen[i].mark}}

GenerateForFile ==
    /\ smap' = Marks
    /\ fresh' = TRUE
    /\ UNCHANGED gen

Distance(e, l) == IF e.at > l THEN e.at - l ELSE l - e.at

\* translate_error: the nearest entry, the first of two; 0 stands for the
\* position in the generated file itself.
Translate(l) ==
    IF smap = {} THEN 0
    ELSE (CHOOSE e \in smap : \A f \in smap :
             \/ Distance(e, l) < Distance(f, l)
             \/ Distance(e, l) = Distance(f, l) /\ e.at <= f.at).src

SmapNext == Compile \/ GenerateForFile \/ \E tracked \in SUBSET (1..GenLines) : Inject(tracked)

-----------------------------------------------------------------------------
(* Properties *)

Count(kind, n) == Cardinality({i \in 1..n : lines[i] = kind})
Nested(n) == \A i \in 1..n : Count("close", i) <= Count("open", i)

\* In a file whose braces match, a line is indented by the number of blocks
\* it stands in, whatever file was formatted before; a line with both braces
\* takes an indentation from what follows, and never adds one.
IndentIsDepth ==
    \A i \in DOMAIN out : Nested(i) /\ out[i] # Kept =>
        LET depth == Count("open", i - 1) - Count("close", i) IN
        /\ out[i] <= depth
        /\ Count("both", i - 1) = 0 => out[i] = depth

\* A position is translated by a neighbour: no tracked line lies between it
\* and the line it is said to come from.  A tracked line is translated to its
\* own source line or, when the line just before it is tracked too, to that one.
TranslatesNear ==
    fresh /\ smap # {} => \A l \in {l \in DOMAIN gen : ~gen[l].mark} :
        LET answer == Translate(l)
            tracked == {e.src : e \in smap}
            here == gen[l].src
        IN  /\ answer \in tracked
            /\ \A s \in tracked : ~(here < s /\ s < answer) /\ ~(answer < s /\ s < here)
            /\ here \in tracked => answer = here \/ (answer = here - 1)

\* The tools for .pgo files keep structure and positions.
ToolsSound == IndentIsDepth /\ TranslatesNear

\* What each half needs: the depth at the end of what has been read, and what
\* the generated file is.
FmtIInv ==
    /\ lines \in Seq(Kinds) /\ out \in Seq(Int) /\ Len(out) = Len(lines) /\ level \in Nat
    /\ Nested(Len(lines)) =>
          LET depth == Count("open", Len(lines)) - Count("close", Len(lines)) IN
          level <= depth /\ (Count("both", Len(lines)) = 0 => level = depth)
    /\ IndentIsDepth

SmapIInv ==
    /\ \E tracked \in SUBSET (1..GenLines) : gen = Injected(tracked)
    /\ fresh \in BOOLEAN /\ (fresh => smap = Marks)

ToolsIInv == FmtIInv /\ SmapIInv
=============================================================================
