---- MODULE AgentMessages ----
(*
How the page reads the text of an agent's message while it grows
(agent-message-format.ts): the directives that become cards, and the
brackets that become display mathematics before the rest is rendered as
Markdown.

A line is the sequence of the tokens these functions tell apart: "x" is
any other text, "frac" a command of mathematics, "::dir" a directive
that is complete.
*)
EXTENDS Naturals, FiniteSets, SequencesExt, FiniteSetsExt

CONSTANTS
    Lines,       \* lines a message may have
    MaxLines,    \* bound: lines of a message
    MaxLoose     \* maxLooseDisplayMathLines

VARIABLES lines  \* the message so far

Fences == [t \in {"three", "four", "tildes"} |->
    CASE t = "three" -> [char |-> "backquote", length |-> 3]
      [] t = "four" -> [char |-> "backquote", length |-> 4]
      [] t = "tildes" -> [char |-> "tilde", length |-> 3]]
NoFence == [char |-> "none", length |-> 0]
IsFence(line) == Len(line) > 0 /\ line[1] \in DOMAIN Fences
AllFences == {NoFence} \cup {Fences[t] : t \in DOMAIN Fences}
Display == <<"$$">>

Init == lines = <<>>
\* A delta that completes a line.
Grows == \E line \in Lines : Len(lines) < MaxLines /\ lines' = Append(lines, line)
Next == Grows
Spec == Init /\ [][Next]_lines

----
(* normalizeLooseDisplayMath *)

\* mutant: a fence ends at any fence of its kind.
ClosesAny(line, fence) == IsFence(line) /\ Fences[line[1]].char = fence.char
Closes(line, fence) ==
    /\ IsFence(line) /\ Fences[line[1]].char = fence.char
    /\ Fences[line[1]].length >= fence.length

Window(ls, i) == {k \in i..Len(ls) : k < i + MaxLoose}
First(S) == IF S = {} THEN 0 ELSE Min(S)
Where(line, t) == First({c \in 1..Len(line) : line[c] = t})

\* \[ : the line of the \] that ends it, 0 for none.
TexEnd(ls, i) ==
    First({k \in Window(ls, i) : Where(ls[k], "tex]") # 0 /\ Where(ls[k], "tex]") = Len(ls[k])})

\* The loop over one line: the brackets open after it, and where they are even.
Scan(line, depth) == FoldLeft(
    LAMBDA s, t :
        IF s.even # 0 THEN s
        ELSE [depth |-> CASE t = "[" -> s.depth + 1 [] t = "]" -> s.depth - 1 [] OTHER -> s.depth,
              even |-> IF t = "]" /\ s.depth = 1 THEN s.column + 1 ELSE 0,
              column |-> s.column + 1],
    [depth |-> depth, even |-> 0, column |-> 0], line)

\* [ : the line of the ] that ends it, 0 if none does or text follows it.
LooseEnd(ls, i) == FoldLeft(
    LAMBDA s, k :
        IF s.done THEN s
        ELSE LET scan == Scan(ls[k], s.depth)
             IN  [depth |-> scan.depth, done |-> scan.depth = 0,
                  end |-> IF scan.depth = 0 /\ scan.even = Len(ls[k]) THEN k ELSE 0],
    [depth |-> 0, done |-> FALSE, end |-> 0],
    SetToSortSeq(Window(ls, i), <)).end

\* The lines between the delimiters; lines without anything are trimmed away.
Content(ls, i, end) ==
    LET stripped == [k \in 1..(end - i + 1) |->
            LET l == ls[i + k - 1]
            IN  SubSeq(l, IF k = 1 THEN 2 ELSE 1, IF i + k - 1 = end THEN Len(l) - 1 ELSE Len(l))]
        filled == {k \in DOMAIN stripped : stripped[k] # <<>>}
    IN  IF filled = {} THEN <<>>
        ELSE SubSeq(stripped, Min(filled), Max(filled))

Mentions(content, t) == \E k \in DOMAIN content : \E c \in DOMAIN content[k] : content[k][c] = t

\* The last line of the mathematics that begins at line i, 0 if none does.
MathEnd(ls, i) ==
    IF ls[i] = <<>> THEN 0
    ELSE IF ls[i][1] = "tex["
    THEN LET end == TexEnd(ls, i) IN IF end # 0 /\ Content(ls, i, end) # <<>> THEN end ELSE 0
    ELSE IF ls[i][1] = "["
    THEN LET end == LooseEnd(ls, i)
         IN  IF end # 0 /\ Mentions(Content(ls, i, end), "frac") THEN end ELSE 0
    ELSE 0

\* mutant: the line after the mathematics is taken for its end.
SkipsOne(end) == end + 2
NextLine(end) == end + 1

\* The lines that are rendered, from line i on and within the fence given.
Normalized(ls) ==
    LET out[i \in 1..(Len(ls) + 2), fence \in AllFences] ==
        IF i > Len(ls) THEN <<>>
        ELSE IF fence # NoFence
        THEN <<ls[i]>> \o out[i + 1, IF Closes(ls[i], fence) THEN NoFence ELSE fence]
        ELSE IF IsFence(ls[i]) THEN <<ls[i]>> \o out[i + 1, Fences[ls[i][1]]]
        ELSE LET end == MathEnd(ls, i)
             IN  IF end = 0 THEN <<ls[i]>> \o out[i + 1, NoFence]
                 ELSE <<Display>> \o Content(ls, i, end) \o <<Display>> \o out[NextLine(end), NoFence]
    IN  out[1, NoFence]

----
(* parseAgentMessage *)

IsDirective(line) == line = <<"::dir">>
\* mutant: whether a fence is open does not matter.
CardAnywhere(line, fenced) == IsDirective(line)
Card(line, fenced) == ~fenced /\ IsDirective(line)
\* Any line that begins with three backquotes begins or ends a fence.
Toggles(line) == Len(line) > 0 /\ line[1] \in {"three", "four"}

\* Blocks: of text, with its lines, or a card.
Blocks(ls) ==
    LET step(s, line) ==
            IF Card(line, s.fenced)
            THEN [fenced |-> s.fenced, text |-> <<>>,
                  blocks |-> s.blocks \o (IF s.text = <<>> THEN <<>> ELSE <<s.text>>) \o <<"card">>]
            ELSE [s EXCEPT !.fenced = (Toggles(line) # s.fenced), !.text = Append(@, line)]
        all == FoldLeft(step, [fenced |-> FALSE, text |-> <<>>, blocks |-> <<>>], ls)
    IN  all.blocks \o (IF all.text = <<>> THEN <<>> ELSE <<all.text>>)

----
(* What Markdown makes of lines: code between fences, mathematics between *)
(* lines of $$, whichever begins first. *)

Kinds(ls) ==
    LET state[i \in 0..Len(ls)] ==
        IF i = 0 THEN [in |-> "text", fence |-> NoFence, kind |-> "none"]
        ELSE LET s == state[i - 1]
             IN  IF s.in = "code"
                 THEN IF IsFence(ls[i]) /\ Fences[ls[i][1]].char = s.fence.char
                         /\ Fences[ls[i][1]].length >= s.fence.length
                      THEN [in |-> "text", fence |-> NoFence, kind |-> "code"]
                      ELSE [s EXCEPT !.kind = "code"]
                 ELSE IF ls[i] = Display
                 THEN [in |-> IF s.in = "math" THEN "text" ELSE "math", fence |-> NoFence,
                       kind |-> "math"]
                 ELSE IF s.in = "math" THEN [s EXCEPT !.kind = "math"]
                 ELSE IF IsFence(ls[i])
                 THEN [in |-> "code", fence |-> Fences[ls[i][1]], kind |-> "code"]
                 ELSE [s EXCEPT !.kind = "text"]
    IN  [i \in 1..Len(ls) |-> state[i].kind]

Plain(ls) == \A i \in DOMAIN ls : ls[i] # Display
OneFence(ls) == \A i \in DOMAIN ls : IsFence(ls[i]) => ls[i][1] = "three"

Bare(ls) ==
    SelectSeq(FlattenSeq(ls), LAMBDA t : t \notin {"[", "]", "tex[", "tex]", "$$"})

TypeOK == lines \in Seq(Lines) /\ Len(lines) <= MaxLines

\* Mathematics that is made of brackets is mathematics where it is rendered: it
\* is never within code, never within other mathematics, and ends where it ends,
\* in a text that has no display mathematics of its own.
MathIsMath ==
    Plain(lines) =>
        LET out == Normalized(lines) IN
        \A i \in DOMAIN out : out[i] = Display => Kinds(out)[i] = "math"

\* Only delimiters are replaced: all other text is rendered, once and in order.
NothingIsLost == Bare(Normalized(lines)) = Bare(lines)

\* A directive becomes a card unless it is within a code block, where three
\* backquotes are the only fence of the text.
CardsAreNotCode ==
    OneFence(lines) /\ Plain(lines) =>
        LET cards == SelectSeq(Blocks(lines), LAMBDA b : b = "card")
        IN  Len(cards) = Cardinality({i \in DOMAIN lines :
                IsDirective(lines[i]) /\ Kinds(lines)[i] # "code"})
====
