-------------------------- MODULE PythonTranspiler --------------------------
(***************************************************************************)
(* The translation of a contestant's Python into JavaScript,               *)
(* ContestantRunner._transpile of vidhi_context/src/engine/                *)
(* simulation.worker.js: one pass over the lines of on_tick that turns     *)
(* indentation into braces.                                                *)
(*                                                                         *)
(* A line is its indentation and its kind; what it says is left out.  The  *)
(* model reads any program of the contestant line by line and keeps two    *)
(* accounts of it: the blocks Python sees (py) and the braces the          *)
(* translation has open (js).  A block is named by the line of its header. *)
(***************************************************************************)
EXTENDS Integers, Sequences

CONSTANTS
    Units,      \* by how much a block may be indented
    MaxDepth,   \* bound on open blocks
    MaxLines    \* bound on the lines of the program

ASSUME TranspilerAssumption ==
    /\ Units \subseteq Nat \ {0}
    /\ MaxDepth \in Nat /\ MaxLines \in Nat

VARIABLES
    n,      \* lines read
    base,   \* indentation of the body of on_tick
    py,     \* blocks that are open for Python, the outermost first
    must,   \* the indentation the next line must have, 0 when it has a choice
    stack,  \* indentStack
    js,     \* blocks whose brace is open
    ok,     \* no brace was closed that was not open
    kept,   \* every statement was put into the blocks it belongs to
    plain,  \* no def within the code
    wide,   \* every block was indented by four or more
    split,  \* no block was written on the line of its header
    ended

source == <<base, py, must>>
lineVars == <<n, source, stack, js, ok, kept, plain, wide, split, ended>>

Begin ==
    /\ n = 0 /\ base \in Units /\ py = <<>> /\ must = 0
    /\ stack = <<0>> /\ js = <<>>
    /\ ok = TRUE /\ kept = TRUE /\ plain = TRUE
    /\ wide = TRUE /\ split = TRUE /\ ended = FALSE

---------------------------------------------------------------------------
(* Python's side. *)

\* Where a line may begin.  A block written on the line of its header
\* ("else: x = 1") has no further lines.
Levels ==
    IF must # 0 THEN {must}
    ELSE {base} \cup {py[k].body : k \in {k \in DOMAIN py : ~py[k].inline}}

\* The blocks a line at indentation i is in: the others have ended.
InBlock(i, k) == py[k].body =< i /\ ~py[k].inline

Enclosing(i) ==
    CHOOSE k \in 0..Len(py) :
        /\ \A j \in 1..k : InBlock(i, j)
        /\ \A j \in (k + 1)..Len(py) : ~InBlock(i, j)

Outer(i) == SubSeq(py, 1, Enclosing(i))

Ids(blocks) == [k \in DOMAIN blocks |-> blocks[k].id]

---------------------------------------------------------------------------
(* The translator's side. *)

\* Deliberate error: blocks that end together are closed one at a time.
Kept_once(i) == IF i < stack[Len(stack)] THEN Len(stack) - 1 ELSE Len(stack)

\* while (indent < top) pop: how much of indentStack stays.
Kept(i) ==
    CHOOSE k \in 1..Len(stack) :
        stack[k] =< i /\ \A j \in (k + 1)..Len(stack) : i < stack[j]

\* What is pushed for the block of a header at indentation i.
Pushed(i) == i + 4

\* The braces that are open once m of them were closed.
Closing(m) == IF m =< Len(js) THEN SubSeq(js, 1, Len(js) - m) ELSE <<>>

\* The lines that close blocks before a line at indentation i.
Dedented(i) == Len(stack) - Kept(i)

---------------------------------------------------------------------------
(* The lines. *)

Reads == ~ended /\ n < MaxLines /\ n' = n + 1

\* A blank line or a comment: an empty line of output, wherever it begins.
Blank ==
    /\ Reads
    /\ UNCHANGED <<source, stack, js, ok, kept, plain, wide, split, ended>>

\* A statement of one line.
Statement(i) ==
    /\ Reads /\ i \in Levels
    /\ py' = Outer(i) /\ must' = 0
    /\ stack' = SubSeq(stack, 1, Kept(i))
    /\ js' = Closing(Dedented(i)) /\ ok' = (ok /\ Dedented(i) =< Len(js))
    /\ kept' = (kept /\ js' = Ids(py'))
    /\ UNCHANGED <<base, plain, wide, split, ended>>

\* A header (if, for, while, try, with) of a block that is indented by u.
BlockOpen(i, u) ==
    /\ Reads /\ i \in Levels /\ Len(Outer(i)) < MaxDepth
    /\ py' = Append(Outer(i), [head |-> i, body |-> i + u, id |-> n', inline |-> FALSE])
    /\ must' = i + u /\ wide' = (wide /\ u >= 4)
    /\ stack' = Append(SubSeq(stack, 1, Kept(i)), Pushed(i))
    /\ js' = Append(Closing(Dedented(i)), n') /\ ok' = (ok /\ Dedented(i) =< Len(js))
    /\ UNCHANGED <<base, kept, plain, split, ended>>

\* A def: a comment takes its place, without a brace.
NestedDef(i, u) ==
    /\ Reads /\ i \in Levels /\ Len(Outer(i)) < MaxDepth
    /\ py' = Append(Outer(i), [head |-> i, body |-> i + u, id |-> n', inline |-> FALSE])
    /\ must' = i + u /\ wide' = (wide /\ u >= 4)
    /\ stack' = Append(SubSeq(stack, 1, Kept(i)), Pushed(i))
    /\ js' = Closing(Dedented(i)) /\ ok' = (ok /\ Dedented(i) =< Len(js))
    /\ plain' = FALSE
    /\ UNCHANGED <<base, kept, split, ended>>

\* elif, else, except and finally are joined to the closing brace if that is
\* the last line of the output, which it is only when this line wrote it.
Joins(i) == Dedented(i) > 0

\* Such a line continues the block that just ended, whose header began at i.
\* The code of "else: x = 1" is not looked at (inline): its block stays empty.
\* (That of "elif c: x = 1" ends up in the condition, which no JavaScript
\* compiler accepts; a whole "if c: x = 1" passes as a statement, and neither
\* does it.)
Continues(i, u, inline) ==
    /\ Reads /\ must = 0
    /\ Enclosing(i) < Len(py) /\ py[Enclosing(i) + 1].head = i
    /\ py' = Append(Outer(i), [head |-> i, body |-> i + u, id |-> n', inline |-> inline])
    /\ must' = IF inline THEN 0 ELSE i + u
    /\ wide' = (wide /\ (inline \/ u >= 4))
    /\ stack' = Append(SubSeq(stack, 1, Kept(i)), Pushed(i))
    /\ LET m == Dedented(i) + (IF Joins(i) THEN 0 ELSE 1) IN
        js' = Append(Closing(m), n') /\ ok' = (ok /\ m =< Len(js))
    /\ kept' = (kept /\ ~inline) /\ split' = (split /\ ~inline)
    /\ UNCHANGED <<base, plain, ended>>

\* Deliberate error: what is still open stays open.
Finish_open ==
    /\ ~ended /\ must = 0 /\ ended' = TRUE
    /\ UNCHANGED <<n, source, stack, js, ok, kept, plain, wide, split>>

\* Deliberate error: the ground level is popped, too.
Finish_popsAll ==
    /\ ~ended /\ must = 0 /\ ended' = TRUE
    /\ stack' = <<>>
    /\ js' = Closing(Len(stack)) /\ ok' = (ok /\ Len(stack) =< Len(js))
    /\ UNCHANGED <<n, source, kept, plain, wide, split>>

\* After the last line the remaining blocks are closed.
Finish ==
    /\ ~ended /\ must = 0 /\ ended' = TRUE
    /\ stack' = <<0>>
    /\ js' = Closing(Len(stack) - 1) /\ ok' = (ok /\ Len(stack) - 1 =< Len(js))
    /\ UNCHANGED <<n, source, kept, plain, wide, split>>

Indents == {base, must} \cup {py[k].body : k \in DOMAIN py}

Line ==
    \/ Blank
    \/ \E i \in Indents :
        \/ Statement(i)
        \/ \E u \in Units :
            \/ BlockOpen(i, u) \/ NestedDef(i, u)
            \/ \E inline \in BOOLEAN : Continues(i, u, inline)
    \/ Finish

Transpile == Begin /\ [][Line]_lineVars

---------------------------------------------------------------------------
(* Properties. *)

Block == [head : Nat, body : Nat, id : Nat, inline : BOOLEAN]

\* indentStack is never popped empty.
WellFormed ==
    /\ n \in Nat /\ base \in Units /\ must \in Nat
    /\ py \in Seq(Block) /\ stack \in Seq(Nat) /\ js \in Seq(Nat)
    /\ {ok, kept, plain, wide, split, ended} \subseteq BOOLEAN
    /\ Len(stack) >= 1 /\ stack[1] = 0

\* The Function constructor finds every brace closed.
Compiles == ended /\ ok /\ js = <<>>

\* Python whose blocks stand on lines of their own, indented by four or more,
\* is never taken for something else: if the translation compiles, every
\* statement is in the blocks it was written in.  ("Full indentation-aware
\* Python -> JS transpiler".)  Both conditions are needed: with a smaller
\* indentation a block is closed before its first line, the braces match all
\* the same, and its code always runs; and the code on the line of an else or
\* a finally is dropped.
CompiledKeepsNesting == wide /\ split /\ Compiles => kept

\* And it does compile, as far as braces go, unless it defines functions.
BracesMatch == ended /\ wide /\ plain => Compiles
=============================================================================
