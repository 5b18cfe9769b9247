----------------------------- MODULE Formatting -----------------------------
(***************************************************************************)
(* The life of a LogFormatter (src/log/log.cpp): its constructor parses a  *)
(* pattern, turn by turn, and the two overloads of Format then let every   *)
(* item write what it makes of one event, to a stream and into a string.   *)
(***************************************************************************)
EXTENDS LogFormatter

CONSTANTS MaxPattern,   \* bound: the length of a pattern
          MaxOutput,    \* bound: the length of what a format item writes
          MaxSize       \* bound: the length of the string that Format is given

ASSUME FormattingAssumption == {MaxPattern, MaxOutput, MaxSize} \subseteq Nat

VARIABLES
    m_pattern,
    parse,      \* the variables of Parse's loop
    m_items,
    next,       \* the item that Format gets to next, 0 before Format is called
    stream,     \* what the one overload has written
    out,        \* the string of the other, and its pos
    \* History, read by the properties.
    size,       \* how long the string was at first
    longest     \* the length of the longest output so far

formatVars == <<next, stream, out, size, longest>>
vars == <<m_pattern, parse, m_items, formatVars>>

Strings(chars, len) == UNION {[1..k -> chars] : k \in 0..len}

Init ==
    /\ m_pattern \in Strings(Characters, MaxPattern)
    /\ parse = ParseStart
    /\ m_items = <<>>
    /\ next = 0 /\ stream = <<>> /\ size = 0 /\ longest = 0
    /\ out = [str |-> <<>>, pos |-> 0, fits |-> TRUE]

Constructed == parse.i > Len(m_pattern)

\* One turn of Parse's loop, and with the last one what follows the loop.
ParseTurn ==
    /\ ~Constructed
    /\ parse' = Turn(m_pattern, parse)
    /\ m_items' = IF parse'.i > Len(m_pattern) THEN ParseEnd(parse').items ELSE m_items
    /\ UNCHANGED <<m_pattern, formatVars>>

\* The event is formatted, into a string of n characters.
FormatCall(n) ==
    /\ Constructed /\ next = 0
    /\ next' = 1
    /\ size' = n
    /\ out' = [out EXCEPT !.str = [k \in 1..n |-> "0"]]
    /\ UNCHANGED <<m_pattern, parse, m_items, stream, longest>>

\* What an item may write: a text itself, a StringFormatItem that reports an error something
\* else, the others what the event has for them.
Outputs(item) == CASE item.kind = "text" -> {item.name}
                   [] item.kind = "item" -> Strings(Letters, MaxOutput)
                   [] OTHER -> {<<"!">>}

\* Mutant: the string is never made longer.
Put_NoResize(st, kind, s) ==
    LET str == IF kind # "item" THEN st.str \o s ELSE st.str
        end == st.pos + Len(s)
    IN  IF end > Len(str) THEN [st EXCEPT !.fits = FALSE]
        ELSE [st EXCEPT !.pos = end,
                        !.str = [n \in DOMAIN str |-> IF n \in (st.pos + 1)..end
                                                      THEN s[n - st.pos] ELSE str[n]]]

\* Format(event, str, pos) of an item: the string becomes twice as long, once, if it is too
\* short, and the output is copied; if that runs over the end, fits is FALSE from then on.
\* StringFormatItem first appends its text to the string.
Put(st, kind, s) ==
    LET text == IF kind # "item" THEN st.str \o s ELSE st.str
        end == st.pos + Len(s)
        str == IF end > Len(text) THEN text \o [n \in DOMAIN text |-> "0"] ELSE text
    IN  IF end > Len(str) THEN [st EXCEPT !.fits = FALSE]
        ELSE [st EXCEPT !.pos = end,
                        !.str = [n \in DOMAIN str |-> IF n \in (st.pos + 1)..end
                                                      THEN s[n - st.pos] ELSE str[n]]]

FormatNext(s) ==
    /\ stream' = stream \o s
    /\ out' = IF out.fits THEN Put(out, m_items[next].kind, s) ELSE out
    /\ longest' = Max({longest, Len(s)})
    /\ next' = next + 1
    /\ UNCHANGED <<m_pattern, parse, m_items, size>>

Next == \/ ParseTurn
        \/ \E n \in 0..MaxSize : FormatCall(n)
        \/ /\ next \in DOMAIN m_items
           /\ \E s \in Outputs(m_items[next]) : FormatNext(s)

Spec == Init /\ [][Next]_vars
-----------------------------------------------------------------------------
(***************************************************************************)
(* Properties.                                                             *)
(***************************************************************************)
Plain(s) == FlattenSeq([k \in DOMAIN s |-> IF s[k] \in {Percent, Open, Close} THEN <<>> ELSE <<s[k]>>])
Flat(items) == FlattenSeq([k \in DOMAIN items |-> items[k].name \o items[k].param])

\* At every turn each character of the pattern that the parser is past is in the items or in
\* the text it collects, once and in its place, apart from those with a meaning to the parser:
\* unless a parameter does not end, or has no name before it, which drops it without an error.
TextKept ==
    \/ parse.error
    \/ \E k \in 1..(Len(m_pattern) - 1) : m_pattern[k] = Percent /\ m_pattern[k + 1] = Open
    \/ Plain(Flat(parse.items) \o parse.nstr) = Plain(SubSeq(m_pattern, 1, parse.i - 1))

\* A list of items, written as a pattern with every parameter in braces.
Printed(items) ==
    FlattenSeq([k \in DOMAIN items |->
        IF items[k].kind = "text" THEN items[k].name
        ELSE <<Percent>> \o items[k].name \o <<Open>> \o items[k].param \o <<Close>>])

\* What was parsed, written as a pattern, is parsed to the same items, so that a formatter is
\* its pattern, as the configuration takes it to be: unless it has an error, or a text that
\* has a "%" or follows another text.
ItemsParsed ==
    LET items == m_items
        faulty == \/ \E k \in DOMAIN items : /\ items[k].kind = "text"
                                             /\ Percent \in {items[k].name[n] : n \in DOMAIN items[k].name}
                  \/ \E k \in 2..Len(items) : items[k - 1].kind = "text" /\ items[k].kind = "text"
    IN  next = 0 /\ ~parse.error /\ ~faulty => Parse(Printed(items)).items = items

\* Format into a string writes what Format to a stream writes, and never over the string's
\* end, although every item doubles the string only once: unless the string was shorter than
\* some output.
FormatsAgree ==
    longest <= size => out.fits /\ SubSeq(out.str, 1, out.pos) = stream
=============================================================================
