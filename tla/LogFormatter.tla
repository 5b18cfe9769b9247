---------------------------- MODULE LogFormatter ----------------------------
(***************************************************************************)
(* LogFormatter::Parse (src/log/log.cpp): a pattern becomes a list of      *)
(* items, pieces of text to copy and format items such as %d{%H:%M}.       *)
(*                                                                         *)
(* A pattern is a sequence of characters, of which the parser tells apart  *)
(* "%", "{", "}", letters and all others.  An item is written with its     *)
(* kind, its name or text, and its parameter.                              *)
(***************************************************************************)
EXTENDS Naturals, Sequences, FiniteSets, SequencesExt

CONSTANTS Letters,      \* the letters that occur in patterns
          KnownItems    \* the names in the table of format items

\* The signs of the parser's, and "." for everything that is neither a letter nor one of them.
Percent == "%"
Open == "{"
Close == "}"
Characters == Letters \cup {Percent, Open, Close, "."}

\* isalpha holds of none of the others.
ASSUME LettersAssumption == Letters \cap {Percent, Open, Close, "."} = {}

Text(s) == [kind |-> "text", name |-> s, param |-> <<>>]
Item(s, param) == [kind |-> "item", name |-> s, param |-> param]
PatternError == [kind |-> "pattern_error", name |-> <<>>, param |-> <<>>]

\* The first index after i at which one of chars stands, or the one after the end.
NextIndex(p, i, chars) ==
    LET n == SelectInSubSeq(p, i + 1, Len(p), LAMBDA c : c \in chars)
    IN  IF n = 0 THEN Len(p) + 1 ELSE n

\* The characters that end a name: !isalpha(c) && c != '}'.
EndsName == Characters \ (Letters \cup {Close})

\* The loop's variables: i, and what status, nstr and items have come to.
Loop(i, nstr, items, error) == [i |-> i, nstr |-> nstr, items |-> items, error |-> error]

\* if (!nstr.empty()) items.push_back(nstr)
Flushed(st) == IF st.nstr = <<>> THEN st.items ELSE Append(st.items, Text(st.nstr))

\* if (!format_str.empty()) items.push_back(format_str, param_str)
Added(items, name, param) == IF name = <<>> THEN items ELSE Append(items, Item(name, param))

\* Mutant: the text before the item stays behind.
FormatItem_Unflushed(p, st, n) ==
    Loop(n, st.nstr, Added(st.items, SubSeq(p, st.i + 1, n - 1), <<>>), st.error)

\* A name that ends at n, without a parameter.
FormatItem(p, st, n) ==
    Loop(n, <<>>, Added(Flushed(st), SubSeq(p, st.i + 1, n - 1), <<>>), st.error)

\* Mutant: the parameter keeps its closing brace.
FormatItemWithParam_Brace(p, st, n) ==
    LET close == NextIndex(p, n, {Close})
        name == SubSeq(p, st.i + 1, n - 1)
    IN  IF close > Len(p)
        THEN Loop(close, st.nstr, Append(st.items, PatternError), TRUE)
        ELSE Loop(close + 1, <<>>, Added(Flushed(st), name, SubSeq(p, n + 1, close)), st.error)

\* A name that ends at the brace at n.  A parameter without an end is an error, and the text
\* before it is not flushed first.
FormatItemWithParam(p, st, n) ==
    LET close == NextIndex(p, n, {Close})
        name == SubSeq(p, st.i + 1, n - 1)
    IN  IF close > Len(p)
        THEN Loop(close, st.nstr, Append(st.items, PatternError), TRUE)
        ELSE Loop(close + 1, <<>>, Added(Flushed(st), name, SubSeq(p, n + 1, close - 1)), st.error)

\* One turn of the loop over the pattern.
Turn(p, st) ==
    LET i == st.i
        n == NextIndex(p, i, EndsName)
    IN  CASE i > Len(p) -> st
          [] i <= Len(p) /\ p[i] # Percent -> Loop(i + 1, Append(st.nstr, p[i]), st.items, st.error)
          [] i < Len(p) /\ p[i] = Percent /\ p[i + 1] = Percent ->
                Loop(i + 1, Append(st.nstr, Percent), st.items, st.error)
          [] OTHER -> IF n <= Len(p) /\ p[n] = Open THEN FormatItemWithParam(p, st, n)
                                                    ELSE FormatItem(p, st, n)

ParseStart == Loop(1, <<>>, <<>>, FALSE)

\* The table of the format items does not have the name: the item reports an error instead.
LookedUp(item) == IF item.kind = "item" /\ item.name \notin KnownItems
               THEN [item EXCEPT !.kind = "error_format"] ELSE item

\* After the loop: what is left of the text, and the table.
ParseEnd(st) ==
    [error |-> st.error, items |-> [k \in DOMAIN Flushed(st) |-> LookedUp(Flushed(st)[k])]]

\* Every turn moves i, so as many turns as there are characters are enough.
Parse(p) ==
    LET after[k \in 0..Len(p)] == IF k = 0 THEN ParseStart ELSE Turn(p, after[k - 1])
    IN  ParseEnd(after[Len(p)])

\* m_error after the constructor.
IsError(p) == Parse(p).error
=============================================================================
