--------------------------- MODULE SyntaxRoundTrip ---------------------------
(***************************************************************************)
(* What is written in Structured Text and what is read back.  A unit is    *)
(* printed and parsed; or printed, one token of it lost, and parsed; or a  *)
(* text someone wrote is parsed, printed and parsed again.                 *)
(***************************************************************************)
EXTENDS StPrinter

CONSTANTS Units,     \* the units printed
          Damaged,   \* those of them that lose a token
          Texts      \* the texts written by hand

VARIABLES unit,    \* what the text was printed from, None for a written one
          cut,     \* the token lost, End when none was
          phase,   \* "unit", "text" or "tree": what was made last
          out      \* the parser's result
vars == <<tokens, unit, cut, phase, out>>

Unread == [p |-> 0, e |-> 0, t |-> Nothing, a |-> Nothing, q |-> 0]

Init == /\ \/ unit \in Units /\ tokens = <<>> /\ phase = "unit"
           \/ unit = None /\ tokens \in Texts /\ phase = "text"
        /\ cut = End /\ out = Unread

\* print_unit
WriteUnit == /\ phase = "unit"
             /\ tokens' = PrintUnit(unit) /\ phase' = "text"
             /\ UNCHANGED <<unit, cut, out>>

LoseToken == /\ phase = "text" /\ unit \in Damaged /\ cut = End
             /\ \E i \in DOMAIN tokens:
                   /\ tokens' = RemoveAt(tokens, i) /\ cut' = tokens[i]
             /\ UNCHANGED <<unit, phase, out>>

\* parse
ReadText == /\ phase = "text"
            /\ out' = Unit /\ phase' = "tree"
            /\ UNCHANGED <<tokens, unit, cut>>

\* A text that parsed is printed and read again.
Reformat == /\ phase = "tree" /\ unit = None /\ out.e = 0
            /\ unit' = out.t /\ phase' = "unit" /\ out' = Unread
            /\ UNCHANGED <<tokens, cut>>

Next == WriteUnit \/ LoseToken \/ ReadText \/ Reformat
Spec == Init /\ [][Next]_vars

-----------------------------------------------------------------------------
(* Properties. *)

\* A tree without its parentheses, a negated literal as a negative one.
RECURSIVE Normalized(_)
Normalized(x) ==
    IF x.k = "paren" THEN Normalized(x.s[1])
    ELSE IF x.k = "un" /\ x.v = <<"-">> /\ x.s[1].k = "lit"
            /\ x.s[1].v[1] \in {"5", "6", "1.5"}
    THEN Node("negative", x.s[1].v, <<>>)
    ELSE [x EXCEPT !.s = [i \in DOMAIN x.s |-> Normalized(x.s[i])]]

\* Whatever unit is printed, the text parses without an error and to the
\* same tree but for parentheses (printer.rs).
RoundTrip == phase = "tree" /\ unit # None /\ cut = End =>
                out.e = 0 /\ Normalized(out.t) = Normalized(unit)

\* The names and values of a text, but for a named argument with no value.
Words(text) ==
    LET at(i) == IF i \in DOMAIN text THEN text[i] ELSE End
        empty(i) == at(i + 1) \in {":=", "=>"} /\ at(i + 2) \in {",", ")"}
    IN SelectSeq([i \in DOMAIN text |-> IF empty(i) THEN End ELSE text[i]],
                 LAMBDA t: t \in Literals \/ IsPlain(t))
Without(list, kind) == SelectSeq(list, LAMBDA d: d.k # kind)

\* A text that has lost a token is either reported, or every name and value
\* left in it is in the tree: recovery drops nothing in silence.  Inside a
\* CONFIGURATION the parser does pass over what it does not know.
NothingLost == phase = "tree" /\ out.e = 0
                  /\ Without(out.t.s, "CONFIGURATION") = out.t.s =>
                  Words(PrintUnit(out.t)) = Words(tokens)
=============================================================================
