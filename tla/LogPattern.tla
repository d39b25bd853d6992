----------------------------- MODULE LogPattern -----------------------------
(***************************************************************************)
(* LogFormatter::init of src/sylar/log.cc: how a pattern such as           *)
(* "%d{%H:%M}%T[%p]" becomes the list of items that format an event.       *)
(*                                                                         *)
(* A pattern is a sequence of symbols: "%", "{", "}", letters and one      *)
(* symbol that stands for every other character.                           *)
(***************************************************************************)
EXTENDS Integers, SequencesExt

CONSTANTS
    Letters,   \* the symbols for which isalpha() holds
    Known      \* the conversions of s_format_items, as sequences of letters

Text(s) == [kind |-> "text", str |-> s, fmt |-> <<>>]
Item(s, f) == [kind |-> "item", str |-> s, fmt |-> f]
Bad == [kind |-> "error", str |-> <<>>, fmt |-> <<>>]

Sub(p, from, to) == SubSeq(p, from, to - 1)

\* The first place from i on whose symbol is in S, or the one behind the end.
First(p, i, S) == Min({k \in i .. Len(p) : p[k] \in S} \cup {Len(p) + 1})

\* The inner loop, from the symbol behind the "%" at i: where it stops, whether
\* inside braces, the name of the conversion and what the braces hold.
Conversion(p, i) ==
    LET stop  == First(p, i + 1, ToSet(p) \ (Letters \cup {"}"}))
        close == First(p, stop + 1, {"}"})
        open  == stop <= Len(p) /\ p[stop] = "{"
    IN  [n        |-> IF open THEN close + 1 ELSE stop,
         inBraces |-> open /\ close > Len(p),
         str      |-> Sub(p, i + 1, stop),
         fmt      |-> IF open THEN Sub(p, stop + 1, close) ELSE <<>>]

\* Mutant: the text before a conversion is forgotten.
FlushForgets(items, nstr) == items

\* The text collected so far becomes an item, if there is any.
Flush(items, nstr) == IF nstr = <<>> THEN items ELSE Append(items, Text(nstr))

\* One turn of the outer loop at symbol i: the items found so far, the text that
\* is not yet one of them, and the place the loop goes on from.
Turn(p, st, i) ==
    CASE i < st.next -> st
      [] i >= st.next /\ (p[i] # "%" \/ (i < Len(p) /\ p[i + 1] = "%")) ->
           [st EXCEPT !.nstr = Append(@, p[i])]
      [] OTHER ->
           LET c == Conversion(p, i) IN
           IF c.inBraces
           THEN [st EXCEPT !.items = Append(@, Bad)]
           ELSE [next  |-> c.n,
                 items |-> Append(Flush(st.items, st.nstr),
                                  IF c.str \in Known THEN Item(c.str, c.fmt) ELSE Bad),
                 nstr  |-> <<>>]

\* m_items; isError() is that a Bad one is among them.
Parse(p) ==
    LET end == FoldLeftDomain(LAMBDA st, i : Turn(p, st, i),
                              [next |-> 1, items |-> <<>>, nstr |-> <<>>], p)
    IN  Flush(end.items, end.nstr)

IsError(p) == \E k \in DOMAIN Parse(p) : Parse(p)[k] = Bad

-----------------------------------------------------------------------------
\* How a user writes down a list of items.  A "%" of the text is doubled, as
\* the comment above init() has it.
Doubled(s) == FlattenSeq([k \in DOMAIN s |-> IF s[k] = "%" THEN <<"%", "%">> ELSE <<s[k]>>])

RenderItem(it) ==
    IF it.kind = "text" THEN Doubled(it.str)
    ELSE <<"%">> \o it.str \o (IF it.fmt = <<>> THEN <<>> ELSE <<"{">> \o it.fmt \o <<"}">>)

Render(layout) == FlattenSeq([k \in DOMAIN layout |-> RenderItem(layout[k])])

\* The layouts a pattern can say: two texts are never neighbours, and a text
\* behind a conversion without braces does not begin with a letter or a brace.
Writable(layout) ==
    \A k \in 2 .. Len(layout) :
        layout[k].kind = "text" =>
            /\ layout[k - 1].kind = "item"
            /\ layout[k - 1].fmt = <<>> =>
                   layout[k].str[1] \notin Letters \cup {"{", "}"}
=============================================================================
