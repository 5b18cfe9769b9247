-------------------------- MODULE FormattingProofs --------------------------
(***************************************************************************)
(* What TLAPS proves of Formatting, for every pattern and every table of   *)
(* format items.                                                           *)
(*                                                                         *)
(* The overloads of Format agree because the string they write into is     *)
(* always long enough: FormatInv relates out, pos and stream item by item. *)
(* That Parse keeps the text is an invariant of its loop: Keeps says, for  *)
(* the place i the parser has come to, that what is in the items and in    *)
(* nstr is what stood before i without the signs.  How many turns it takes *)
(* has no bound here, and the text an item stands for is a fold over the   *)
(* items, for which SequenceFacts has the inductions.                      *)
(* That the items, printed, are parsed to themselves needs a second run of *)
(* the parser, over what they are printed as: Reached says where it is     *)
(* after each of them, ItemsInv what the first run made of their names.    *)
(***************************************************************************)
EXTENDS Formatting, SequenceFacts

LEMMA Smallest ==
    ASSUME NEW T \in SUBSET Nat, T # {}
    PROVE  Min(T) \in T /\ \A k \in T : Min(T) <= k
BY Least DEF Min

LEMMA NextIndexAt ==
    ASSUME NEW p \in Seq(Characters), NEW i \in Nat, i <= Len(p), NEW chars
    PROVE  /\ NextIndex(p, i, chars) \in i + 1..Len(p) + 1
           /\ NextIndex(p, i, chars) <= Len(p) => p[NextIndex(p, i, chars)] \in chars
           /\ \A k \in i + 1..NextIndex(p, i, chars) - 1 : p[k] \notin chars
<1> DEFINE T == {k \in i + 1..Len(p) : p[k] \in chars}
           n == NextIndex(p, i, chars)
<1>1. n = IF T # {} THEN (IF Min(T) = 0 THEN Len(p) + 1 ELSE Min(T)) ELSE Len(p) + 1
  BY DEF NextIndex, SelectInSubSeq
<1>2. T # {} => Min(T) \in T /\ \A k \in T : Min(T) <= k
  <2>1. T \in SUBSET Nat
    OBVIOUS
  <2> HIDE DEF T
  <2> QED
    BY <2>1, Smallest
<1>3. CASE T = {}
  BY <1>1, <1>3
<1>4. CASE T # {}
  <2>1. n = Min(T) /\ Min(T) \in Nat
    BY <1>1, <1>2, <1>4
  <2>2. n \in T /\ \A k \in T : n <= k
    BY <1>2, <1>4, <2>1, Zenon
  <2> HIDE DEF n
  <2>3. \A k \in i + 1..n - 1 : p[k] \notin chars
    BY <2>2
  <2>4. n \in i + 1..Len(p) + 1 /\ p[n] \in chars
    BY <2>2
  <2> QED
    BY <2>3, <2>4 DEF n
<1> QED
  BY <1>3, <1>4

Kinds == {"text", "item", "pattern_error", "error_format"}
Items == [kind : Kinds, name : Seq(Characters), param : Seq(Characters)]
ParseStates == [i : Nat \ {0}, nstr : Seq(Characters), items : Seq(Items), error : BOOLEAN]

TypeInv ==
    /\ m_pattern \in Seq(Characters)
    /\ parse \in ParseStates
    /\ m_items \in Seq(Items)

LEMMA FieldTypes ==
    ASSUME NEW st \in ParseStates
    PROVE  /\ st.i \in Nat \ {0} /\ st.i \in Nat
           /\ st.nstr \in Seq(Characters) /\ st.items \in Seq(Items) /\ st.error \in BOOLEAN
BY DEF ParseStates

LEMMA LoopTyped ==
    ASSUME NEW i \in Nat \ {0}, NEW nstr \in Seq(Characters), NEW items \in Seq(Items), NEW error \in BOOLEAN
    PROVE  Loop(i, nstr, items, error) \in ParseStates
BY DEF Loop, ParseStates

LEMMA FlushedTyped ==
    ASSUME NEW st \in ParseStates
    PROVE  Flushed(st) \in Seq(Items)
<1>1. Text(st.nstr) \in Items
  BY FieldTypes DEF Text, Items, Kinds
<1> QED
  BY <1>1, FieldTypes DEF Flushed

LEMMA AddedTyped ==
    ASSUME NEW items \in Seq(Items), NEW name \in Seq(Characters), NEW param \in Seq(Characters)
    PROVE  Added(items, name, param) \in Seq(Items)
<1>1. Item(name, param) \in Items
  BY DEF Item, Items, Kinds
<1> QED
  BY <1>1 DEF Added

LEMMA PatternErrorTyped == PatternError \in Items
BY DEF PatternError, Items, Kinds

\* What one turn does, case by case.
LEMMA TurnPast ==
    ASSUME NEW p \in Seq(Characters), NEW st \in ParseStates, ~(st.i <= Len(p))
    PROVE  Turn(p, st) = st
<1>1. st.i > Len(p) /\ st.i \in Nat /\ Len(p) \in Nat
  BY FieldTypes
<1> QED
  BY <1>1 DEF Turn

LEMMA TurnAtText ==
    ASSUME NEW p \in Seq(Characters), NEW st \in ParseStates, st.i <= Len(p), p[st.i] # Percent
    PROVE  Turn(p, st) = Loop(st.i + 1, Append(st.nstr, p[st.i]), st.items, st.error)
<1>1. st.i \in Nat /\ ~(st.i > Len(p))
  BY FieldTypes
<1> QED
  BY <1>1 DEF Turn

LEMMA TurnAtPercents ==
    ASSUME NEW p \in Seq(Characters), NEW st \in ParseStates,
           st.i < Len(p), p[st.i] = Percent, p[st.i + 1] = Percent
    PROVE  Turn(p, st) = Loop(st.i + 1, Append(st.nstr, Percent), st.items, st.error)
<1>1. st.i \in Nat /\ ~(st.i > Len(p))
  BY FieldTypes
<1> QED
  BY <1>1 DEF Turn

\* An item starts at i.  Its name ends at NameEnd, its parameter, if it has one, at ParamEnd.
Starts(p, i) == i <= Len(p) /\ p[i] = Percent /\ ~(i < Len(p) /\ p[i + 1] = Percent)
NameEnd(p, i) == NextIndex(p, i, EndsName)
ParamEnd(p, i) == NextIndex(p, NameEnd(p, i), {Close})
HasParam(p, i) == NameEnd(p, i) <= Len(p) /\ p[NameEnd(p, i)] = Open

Name(p, i) == SubSeq(p, i + 1, NameEnd(p, i) - 1)
Param(p, i) == SubSeq(p, NameEnd(p, i) + 1, ParamEnd(p, i) - 1)

LEMMA TurnAtItem ==
    ASSUME NEW p \in Seq(Characters), NEW st \in ParseStates, Starts(p, st.i), ~HasParam(p, st.i)
    PROVE  Turn(p, st) = Loop(NameEnd(p, st.i), <<>>, Added(Flushed(st), Name(p, st.i), <<>>), st.error)
<1>1. st.i \in Nat /\ ~(st.i > Len(p))
  BY FieldTypes DEF Starts
<1>2. Turn(p, st) = FormatItem(p, st, NameEnd(p, st.i))
  BY <1>1 DEF Turn, Starts, HasParam, NameEnd
<1> QED
  BY <1>2, Zenon DEF FormatItem, Name

LEMMA TurnAtParam ==
    ASSUME NEW p \in Seq(Characters), NEW st \in ParseStates, Starts(p, st.i), HasParam(p, st.i)
    PROVE  Turn(p, st) =
             IF ParamEnd(p, st.i) > Len(p)
             THEN Loop(ParamEnd(p, st.i), st.nstr, Append(st.items, PatternError), TRUE)
             ELSE Loop(ParamEnd(p, st.i) + 1, <<>>, Added(Flushed(st), Name(p, st.i), Param(p, st.i)), st.error)
<1>1. st.i \in Nat /\ ~(st.i > Len(p))
  BY FieldTypes DEF Starts
<1>2. Turn(p, st) = FormatItemWithParam(p, st, NameEnd(p, st.i))
  BY <1>1 DEF Turn, Starts, HasParam, NameEnd
<1> QED
  BY <1>2, Zenon DEF FormatItemWithParam, Name, Param, ParamEnd

\* Where the ends are, and what is between.
LEMMA Ends ==
    ASSUME NEW p \in Seq(Characters), NEW i \in Nat, i <= Len(p)
    PROVE  /\ NameEnd(p, i) \in i + 1..Len(p) + 1
           /\ NameEnd(p, i) <= Len(p) => p[NameEnd(p, i)] \in EndsName
           /\ \A k \in i + 1..NameEnd(p, i) - 1 : p[k] \notin EndsName
           /\ Name(p, i) \in Seq(Characters)
           /\ HasParam(p, i) =>
                /\ ParamEnd(p, i) \in NameEnd(p, i) + 1..Len(p) + 1
                /\ ParamEnd(p, i) <= Len(p) => p[ParamEnd(p, i)] = Close
                /\ \A k \in NameEnd(p, i) + 1..ParamEnd(p, i) - 1 : p[k] # Close
                /\ Param(p, i) \in Seq(Characters)
<1> DEFINE n == NameEnd(p, i)
           m == ParamEnd(p, i)
<1>1. /\ n \in i + 1..Len(p) + 1
      /\ n <= Len(p) => p[n] \in EndsName
      /\ \A k \in i + 1..n - 1 : p[k] \notin EndsName
  BY NextIndexAt DEF NameEnd
<1>2. n \in Nat
  <2> HIDE DEF n
  <2> QED
    BY <1>1
<1>3. Name(p, i) \in Seq(Characters)
  <2> HIDE DEF n
  <2>1. SubSeq(p, i + 1, n - 1) \in Seq(Characters)
    BY <1>1
  <2> QED
    BY <2>1 DEF Name, n
<1>4. ASSUME HasParam(p, i)
      PROVE  /\ m \in n + 1..Len(p) + 1
             /\ m <= Len(p) => p[m] = Close
             /\ \A k \in n + 1..m - 1 : p[k] # Close
             /\ Param(p, i) \in Seq(Characters)
  <2>1. n <= Len(p)
    BY <1>4 DEF HasParam
  <2>2. m = NextIndex(p, n, {Close})
    BY DEF ParamEnd
  <2> HIDE DEF n
  <2>3. /\ NextIndex(p, n, {Close}) \in n + 1..Len(p) + 1
        /\ NextIndex(p, n, {Close}) <= Len(p) => p[NextIndex(p, n, {Close})] \in {Close}
        /\ \A k \in n + 1..NextIndex(p, n, {Close}) - 1 : p[k] \notin {Close}
    BY <1>2, <2>1, NextIndexAt
  <2> HIDE DEF m
  <2>4. /\ m \in n + 1..Len(p) + 1
        /\ m <= Len(p) => p[m] = Close
        /\ \A k \in n + 1..m - 1 : p[k] # Close
    BY <2>2, <2>3
  <2>5. SubSeq(p, n + 1, m - 1) \in Seq(Characters)
    BY <1>2, <2>4
  <2> QED
    BY <2>4, <2>5 DEF Param, n, m
<1> QED
  BY <1>1, <1>3, <1>4

LEMMA TurnTyped ==
    ASSUME NEW p \in Seq(Characters), NEW st \in ParseStates
    PROVE  /\ Turn(p, st) \in ParseStates
           /\ st.i <= Len(p) => st.i < Turn(p, st).i
           /\ ~(st.i <= Len(p)) => Turn(p, st) = st
<1> DEFINE i == st.i
           n == NameEnd(p, i)
           m == ParamEnd(p, i)
           Moves == \E a \in Nat \ {0} : \E b \in Seq(Characters) : \E c \in Seq(Items) : \E d \in BOOLEAN :
                       a > i /\ Turn(p, st) = Loop(a, b, c, d)
<1>0. /\ i \in Nat \ {0} /\ i \in Nat /\ i + 1 \in Nat \ {0} /\ i + 1 > i
      /\ st.nstr \in Seq(Characters) /\ st.items \in Seq(Items) /\ st.error \in BOOLEAN
      /\ <<>> \in Seq(Characters)
  BY FieldTypes
<1>1. CASE ~(i <= Len(p))
  BY <1>1, TurnPast
<1>2. ASSUME Moves
      PROVE  Turn(p, st) \in ParseStates /\ i < Turn(p, st).i
  BY <1>2, <1>0 DEF Loop, ParseStates
<1>3. ASSUME i <= Len(p), p[i] # Percent
      PROVE  Moves
  <2>1. Append(st.nstr, p[i]) \in Seq(Characters)
    BY <1>0, <1>3
  <2> QED
    BY <1>0, <1>3, <2>1, TurnAtText, Zenon
<1>4. ASSUME i < Len(p), p[i] = Percent, p[i + 1] = Percent
      PROVE  Moves
  <2>1. Append(st.nstr, Percent) \in Seq(Characters)
    BY <1>0 DEF Characters
  <2> QED
    BY <1>0, <1>4, <2>1, TurnAtPercents, Zenon
<1>5. ASSUME Starts(p, i)
      PROVE  Moves
  <2>0. i <= Len(p)
    BY <1>5 DEF Starts
  <2>1. n \in i + 1..Len(p) + 1 /\ (HasParam(p, i) => m \in n + 1..Len(p) + 1)
    BY <1>0, <2>0, Ends
  <2>2. Name(p, i) \in Seq(Characters) /\ (HasParam(p, i) => Param(p, i) \in Seq(Characters))
    BY <1>0, <2>0, Ends
  <2>3. n \in Nat \ {0} /\ n > i /\ (HasParam(p, i) => m \in Nat \ {0} /\ m > i /\ m + 1 \in Nat \ {0} /\ m + 1 > i)
    <3> HIDE DEF n, m, i
    <3> QED
      BY <1>0, <2>1
  <2>4. CASE ~HasParam(p, i)
    BY <1>0, <1>5, <2>2, <2>3, <2>4, TurnAtItem, FlushedTyped, AddedTyped, Zenon
  <2>5. CASE HasParam(p, i) /\ ~(m > Len(p))
    BY <1>0, <1>5, <2>2, <2>3, <2>5, TurnAtParam, FlushedTyped, AddedTyped, Zenon
  <2>6. CASE HasParam(p, i) /\ m > Len(p)
    <3>1. Append(st.items, PatternError) \in Seq(Items)
      BY <1>0, PatternErrorTyped
    <3> QED
      BY <1>0, <1>5, <2>3, <2>6, <3>1, TurnAtParam, Zenon
  <2> QED
    BY <2>4, <2>5, <2>6
<1> HIDE DEF Moves
<1> QED
  BY <1>0, <1>1, <1>2, <1>3, <1>4, <1>5 DEF Starts

LEMMA EndTyped ==
    ASSUME NEW st \in ParseStates
    PROVE  ParseEnd(st).items \in Seq(Items)
<1>1. \A item \in Items : LookedUp(item) \in Items
  BY DEF Items, Kinds, LookedUp
<1>2. ASSUME NEW items \in Seq(Items)
      PROVE  [k \in DOMAIN items |-> LookedUp(items[k])] \in Seq(Items)
  BY <1>1
<1> QED
  BY <1>2, FlushedTyped DEF ParseEnd

\* The parser's place, its lists, and the positions of both outputs keep their types.
THEOREM Typed == Spec => []TypeInv
<1>1. Init => TypeInv
  BY DEF Init, TypeInv, Strings, ParseStart, Loop, ParseStates
<1>2. TypeInv /\ [Next]_vars => TypeInv'
  <2> SUFFICES ASSUME TypeInv, [Next]_vars
               PROVE  TypeInv'
    OBVIOUS
  <2>1. CASE ParseTurn
    BY <2>1, TurnTyped, EndTyped DEF ParseTurn, TypeInv
  <2>2. ASSUME NEW n \in 0..MaxSize, FormatCall(n)
        PROVE  TypeInv'
    BY <2>2 DEF FormatCall, TypeInv
  <2>3. ASSUME NEW s \in Outputs(m_items[next]), FormatNext(s)
        PROVE  TypeInv'
    BY <2>3 DEF FormatNext, TypeInv
  <2>4. CASE UNCHANGED vars
    BY <2>4 DEF vars, TypeInv
  <2> QED
    BY <2>1, <2>2, <2>3, <2>4 DEF Next
<1> QED
  BY <1>1, <1>2, PTL DEF Spec

-----------------------------------------------------------------------------
\* What items write, and what FormatCall fills the string with.
Written == Characters \cup {"!", "0"}
Strs == [str : Seq(Written), pos : Nat, fits : BOOLEAN]

\* The string begins with what the stream has.
Agrees(st, w) == st.fits /\ st.pos = Len(w) /\ st.pos <= Len(st.str) /\ \A k \in 1..st.pos : st.str[k] = w[k]

FormatInv ==
    /\ next \in Nat /\ size \in Nat /\ longest \in Nat
    /\ stream \in Seq(Written)
    /\ next = 0 => stream = <<>> /\ longest = 0
    /\ longest <= size => out \in Strs /\ Agrees(out, stream) /\ Len(out.str) >= size

LEMMA Longest ==
    ASSUME NEW a \in Nat, NEW b \in Nat
    PROVE  Max({a, b}) \in {a, b} /\ Max({a, b}) >= a /\ Max({a, b}) >= b
<1>1. \E x \in {a, b} : \A y \in {a, b} : x >= y
  OBVIOUS
<1>2. Max({a, b}) \in {a, b} /\ \A y \in {a, b} : Max({a, b}) >= y
  BY <1>1, Zenon DEF Max
<1> QED
  BY <1>2

LEMMA OutputsTyped ==
    ASSUME NEW item \in Items, NEW s \in Outputs(item)
    PROVE  s \in Seq(Written)
<1>1. CASE item.kind = "text"
  BY <1>1 DEF Outputs, Items, Written
<1>2. CASE item.kind = "item"
  BY <1>2 DEF Outputs, Strings, Written, Characters
<1>3. CASE item.kind # "text" /\ item.kind # "item"
  BY <1>3 DEF Outputs, Written
<1> QED
  BY <1>1, <1>2, <1>3

LEMMA PutAgrees ==
    ASSUME NEW st \in Strs, NEW w \in Seq(Written),
           Agrees(st, w), NEW kind, NEW s \in Seq(Written), Len(s) <= Len(st.str)
    PROVE  /\ Put(st, kind, s) \in Strs
           /\ Agrees(Put(st, kind, s), w \o s)
           /\ Len(Put(st, kind, s).str) >= Len(st.str)
<1> DEFINE text == IF kind # "item" THEN st.str \o s ELSE st.str
           end == st.pos + Len(s)
           str == IF end > Len(text) THEN text \o [n \in DOMAIN text |-> "0"] ELSE text
           new == [n \in DOMAIN str |-> IF n \in (st.pos + 1)..end THEN s[n - st.pos] ELSE str[n]]
<1>1. /\ st.str \in Seq(Written) /\ st.pos \in Nat /\ st.fits
      /\ st.pos = Len(w) /\ st.pos <= Len(st.str) /\ \A k \in 1..st.pos : st.str[k] = w[k]
  BY DEF Agrees, Strs
<1>2. /\ text \in Seq(Written) /\ Len(text) >= Len(st.str)
      /\ \A k \in 1..st.pos : text[k] = st.str[k]
      /\ kind # "item" => Len(text) = Len(st.str) + Len(s)
  BY <1>1
<1>3. /\ str \in Seq(Written) /\ Len(str) >= Len(text) /\ end <= Len(str)
      /\ \A k \in 1..st.pos : str[k] = text[k]
  <2>1. "0" \in Written
    BY DEF Written
  <2> HIDE DEF text
  <2>2. CASE end > Len(text)
    <3>1. kind = "item" /\ Len(text) = Len(st.str)
      BY <1>1, <1>2, <2>2 DEF text
    <3>2. [n \in DOMAIN text |-> "0"] \in Seq(Written) /\ Len([n \in DOMAIN text |-> "0"]) = Len(text)
      <4>1. Len(text) \in Nat /\ [n \in DOMAIN text |-> "0"] \in [1..Len(text) -> Written]
        BY <1>2, <2>1
      <4> HIDE DEF text
      <4> QED
        BY <4>1, FunctionIsSeq
    <3> QED
      BY <1>1, <1>2, <2>2, <3>1, <3>2
  <2>3. CASE ~(end > Len(text))
    BY <1>1, <1>2, <2>3
  <2> QED
    BY <2>2, <2>3
<1>4. Put(st, kind, s) = [st EXCEPT !.pos = end, !.str = new]
  <2>1. ~(end > Len(str))
    <3> HIDE DEF str
    <3> QED
      BY <1>1, <1>3
  <2> QED
    BY <2>1, Zenon DEF Put
<1> HIDE DEF str, text
<1>5. new \in Seq(Written) /\ Len(new) = Len(str)
  <2>1. \A n \in DOMAIN str : n \in (st.pos + 1)..end => n - st.pos \in DOMAIN s
    BY <1>1, <1>3
  <2>2. \A n \in DOMAIN str : str[n] \in Written
    BY <1>3
  <2>3. \A n \in DOMAIN s : s[n] \in Written
    OBVIOUS
  <2>4. new \in [1..Len(str) -> Written] /\ Len(str) \in Nat
    <3> HIDE DEF end
    <3>1. DOMAIN str = 1..Len(str) /\ Len(str) \in Nat
      BY <1>3
    <3> QED
      BY <2>1, <2>2, <2>3, <3>1, Zenon
  <2> HIDE DEF new
  <2> QED
    BY <2>4, FunctionIsSeq
<1>6. /\ end = Len(w \o s) /\ w \o s \in Seq(Written) /\ end \in Nat
      /\ \A k \in 1..end : new[k] = (w \o s)[k]
  BY <1>1, <1>2, <1>3
<1>7. Put(st, kind, s).pos = end /\ Put(st, kind, s).str = new /\ Put(st, kind, s).fits = st.fits
  <2> HIDE DEF new, end
  <2> QED
    BY <1>4 DEF Strs
<1>8. Put(st, kind, s) \in Strs
  <2> HIDE DEF new, end
  <2> QED
    BY <1>4, <1>5, <1>6 DEF Strs
<1> HIDE DEF new, end
<1> QED
  BY <1>1, <1>2, <1>3, <1>5, <1>6, <1>7, <1>8 DEF Agrees

\* Every item finds room in the string that was doubled for it, and what the overload with a
\* string has written so far is what the one with a stream has.
THEOREM FormatSafe == Spec => []FormatInv
<1>1. Init => FormatInv
  <2> SUFFICES ASSUME Init
               PROVE  FormatInv
    OBVIOUS
  <2>1. out = [str |-> <<>>, pos |-> 0, fits |-> TRUE] /\ stream = <<>> /\ size = 0 /\ longest = 0 /\ next = 0
    BY DEF Init
  <2> QED
    BY <2>1 DEF FormatInv, Agrees, Strs
<1>2. TypeInv /\ FormatInv /\ [Next]_vars => FormatInv'
  <2> SUFFICES ASSUME TypeInv, FormatInv, [Next]_vars
               PROVE  FormatInv'
    OBVIOUS
  <2>1. CASE ParseTurn
    BY <2>1 DEF ParseTurn, formatVars, FormatInv
  <2>2. ASSUME NEW n \in 0..MaxSize, FormatCall(n)
        PROVE  FormatInv'
    <3> DEFINE str == [k \in 1..n |-> "0"]
    <3>1. str \in Seq(Written) /\ Len(str) = n
      <4>1. str \in [1..n -> Written] /\ n \in Nat
        BY FormattingAssumption DEF Written
      <4> HIDE DEF str
      <4> QED
        BY <4>1, FunctionIsSeq
    <3>2. /\ next = 0 /\ next' = 1 /\ size' = n /\ stream' = stream /\ longest' = longest
          /\ out' = [out EXCEPT !.str = str] /\ n \in Nat
      BY <2>2, FormattingAssumption DEF FormatCall
    <3> HIDE DEF str
    <3>3. out'.str = str /\ out'.pos = 0 /\ out'.fits /\ out' \in Strs
      BY <3>1, <3>2 DEF FormatInv, Agrees, Strs
    <3> QED
      BY <3>1, <3>2, <3>3 DEF FormatInv, Agrees
  <2>3. ASSUME next \in DOMAIN m_items, NEW s \in Outputs(m_items[next]), FormatNext(s)
        PROVE  FormatInv'
    <3>1. s \in Seq(Written)
      <4>1. m_items[next] \in Items
        BY <2>3 DEF TypeInv
      <4> QED
        BY <4>1, OutputsTyped
    <3>2. /\ stream' = stream \o s /\ next' = next + 1 /\ size' = size
          /\ out' = (IF out.fits THEN Put(out, m_items[next].kind, s) ELSE out)
          /\ longest' = Max({longest, Len(s)})
      BY <2>3 DEF FormatNext
    <3>3. stream' \in Seq(Written) /\ next' \in Nat /\ next' # 0
      BY <3>1, <3>2 DEF FormatInv
    <3>4. longest' \in Nat /\ longest' >= longest /\ longest' >= Len(s)
      <4>1. longest \in Nat /\ Len(s) \in Nat
        BY <3>1 DEF FormatInv
      <4>2. longest' = Max({longest, Len(s)})
        BY <3>2
      <4> QED
        BY <4>1, <4>2, Longest
    <3>5. ASSUME longest' <= size'
          PROVE  Agrees(out', stream') /\ Len(out'.str) >= size'
                 /\ out' \in Strs
      <4>1. longest <= size /\ Len(s) <= size
        BY <3>1, <3>2, <3>4, <3>5 DEF FormatInv
      <4>2. out \in Strs /\ Agrees(out, stream) /\ Len(out.str) >= size /\ out.fits
        BY <4>1 DEF FormatInv, Agrees
      <4>3. Len(s) <= Len(out.str)
        BY <3>1, <4>1, <4>2 DEF FormatInv, Strs
      <4>4. out' = Put(out, m_items[next].kind, s)
        BY <3>2, <4>2
      <4>5. /\ Put(out, m_items[next].kind, s) \in Strs
            /\ Agrees(Put(out, m_items[next].kind, s), stream \o s)
            /\ Len(Put(out, m_items[next].kind, s).str) >= Len(out.str)
        BY <3>1, <4>2, <4>3, PutAgrees DEF FormatInv
      <4> QED
        BY <3>2, <4>2, <4>4, <4>5 DEF FormatInv
    <3> QED
      BY <3>2, <3>3, <3>4, <3>5 DEF FormatInv
  <2>4. CASE UNCHANGED vars
    BY <2>4 DEF vars, formatVars, FormatInv
  <2> QED
    BY <2>1, <2>2, <2>3, <2>4 DEF Next
<1> QED
  BY <1>1, <1>2, Typed, PTL DEF Spec

\* LogFormatter::Format: both overloads write the same, whatever the pattern and however long.
THEOREM FormatsAlike == Spec => []FormatsAgree
<1>1. FormatInv => FormatsAgree
  <2> SUFFICES ASSUME FormatInv, longest <= size
               PROVE  SubSeq(out.str, 1, out.pos) = stream
    BY DEF FormatInv, Agrees, FormatsAgree
  <2>1. /\ out.str \in Seq(Written) /\ out.pos \in Nat /\ stream \in Seq(Written)
        /\ out.pos = Len(stream) /\ out.pos <= Len(out.str)
        /\ \A k \in 1..out.pos : out.str[k] = stream[k]
    BY DEF FormatInv, Agrees, Strs
  <2> QED
    BY <2>1
<1> QED
  BY <1>1, FormatSafe, PTL

-----------------------------------------------------------------------------
Signs == {Percent, Open, Close}
Kept(c) == IF c \in Signs THEN <<>> ELSE <<c>>

LEMMA PlainIs ==
    ASSUME NEW s \in Seq(Characters)
    PROVE  /\ Plain(s) = FlattenSeq([k \in 1..Len(s) |-> Kept(s[k])])
           /\ [k \in 1..Len(s) |-> Kept(s[k])] \in Seq(Seq(Characters))
           /\ Len([k \in 1..Len(s) |-> Kept(s[k])]) = Len(s)
           /\ Plain(s) \in Seq(Characters)
<1>1. \A c \in Characters : Kept(c) \in Seq(Characters)
  BY DEF Kept
<1>2. /\ [k \in 1..Len(s) |-> Kept(s[k])] \in Seq(Seq(Characters))
      /\ Len([k \in 1..Len(s) |-> Kept(s[k])]) = Len(s)
  <2>1. [k \in 1..Len(s) |-> Kept(s[k])] \in [1..Len(s) -> Seq(Characters)] /\ Len(s) \in Nat
    BY <1>1
  <2> HIDE DEF Kept
  <2> QED
    BY <2>1, FunctionIsSeq
<1>3. DOMAIN s = 1..Len(s)
  OBVIOUS
<1>4. Plain(s) = FlattenSeq([k \in 1..Len(s) |-> Kept(s[k])])
  BY <1>3, Zenon DEF Plain, Kept, Signs
<1> QED
  BY <1>2, <1>4, FlattenTyped, Zenon

LEMMA PlainConcat ==
    ASSUME NEW s \in Seq(Characters), NEW t \in Seq(Characters)
    PROVE  Plain(s \o t) = Plain(s) \o Plain(t)
<1> DEFINE K(u) == [k \in 1..Len(u) |-> Kept(u[k])]
<1>1. K(s \o t) = K(s) \o K(t)
  <2>1. /\ Len(s \o t) = Len(s) + Len(t) /\ Len(s) \in Nat /\ Len(t) \in Nat
        /\ \A k \in 1..Len(s) + Len(t) : (s \o t)[k] = IF k <= Len(s) THEN s[k] ELSE t[k - Len(s)]
    OBVIOUS
  <2>2. K(s) \in Seq(Seq(Characters)) /\ K(t) \in Seq(Seq(Characters)) /\ Len(K(s)) = Len(s) /\ Len(K(t)) = Len(t)
    BY PlainIs
  <2>3. /\ Len(K(s) \o K(t)) = Len(s) + Len(t)
        /\ \A k \in 1..Len(s) + Len(t) : (K(s) \o K(t))[k] = IF k <= Len(s) THEN Kept(s[k]) ELSE Kept(t[k - Len(s)])
    BY <2>1, <2>2
  <2> QED
    BY <2>1, <2>2, <2>3
<1>2. s \o t \in Seq(Characters)
  OBVIOUS
<1> HIDE DEF K
<1>3. K(s) \in Seq(Seq(Characters)) /\ K(t) \in Seq(Seq(Characters))
  BY PlainIs DEF K
<1>4. FlattenSeq(K(s) \o K(t)) = FlattenSeq(K(s)) \o FlattenSeq(K(t))
  BY <1>3, FlattenConcat
<1> QED
  BY <1>1, <1>2, <1>4, PlainIs DEF K

\* The sequence of one element, as a name the provers do not look into.
One(c) == <<c>>

LEMMA OneIs ==
    ASSUME NEW S, NEW c \in S
    PROVE  /\ One(c) \in Seq(S) /\ Len(One(c)) = 1 /\ One(c)[1] = c
           /\ \A s \in Seq(S) : Len(s) = 1 /\ s[1] = c => s = One(c)
BY DEF One

LEMMA PlainOne ==
    ASSUME NEW c \in Characters
    PROVE  Plain(One(c)) = Kept(c)
<1>1. <<c>> \in Seq(Characters) /\ [k \in 1..Len(<<c>>) |-> Kept(<<c>>[k])] = <<Kept(c)>>
  OBVIOUS
<1>2. Kept(c) \in Seq(Characters)
  BY DEF Kept
<1> QED
  BY <1>1, <1>2, PlainIs, FlattenOne DEF One

LEMMA PlainEmpty == Plain(<<>>) = <<>>
<1>1. [k \in 1..Len(<<>>) |-> Kept(<<>>[k])] = <<>> /\ <<>> \in Seq(Characters)
  OBVIOUS
<1> QED
  BY <1>1, PlainIs, FlattenEmpty

LEMMA FlatIs ==
    ASSUME NEW items \in Seq(Items)
    PROVE  /\ [k \in DOMAIN items |-> items[k].name \o items[k].param] \in Seq(Seq(Characters))
           /\ Flat(items) \in Seq(Characters)
<1>1. [k \in DOMAIN items |-> items[k].name \o items[k].param] \in Seq(Seq(Characters))
  <2>1. \A item \in Items : item.name \o item.param \in Seq(Characters)
    <3>1. \A item \in Items : item.name \in Seq(Characters) /\ item.param \in Seq(Characters)
      BY DEF Items
    <3> QED
      BY <3>1
  <2>2. \A k \in 1..Len(items) : items[k] \in Items
    OBVIOUS
  <2>3. /\ [k \in DOMAIN items |-> items[k].name \o items[k].param] \in [1..Len(items) -> Seq(Characters)]
        /\ Len(items) \in Nat
    <3>1. DOMAIN items = 1..Len(items) /\ Len(items) \in Nat
      OBVIOUS
    <3> QED
      BY <2>1, <2>2, <3>1, Zenon
  <2> QED
    BY <2>3, FunctionIsSeq
<1> QED
  BY <1>1, FlattenTyped, Zenon DEF Flat

LEMMA FlatAppend ==
    ASSUME NEW items \in Seq(Items), NEW item \in Items
    PROVE  Flat(Append(items, item)) = Flat(items) \o (item.name \o item.param)
<1> DEFINE F(l) == [k \in DOMAIN l |-> l[k].name \o l[k].param]
<1>1. F(items) \in Seq(Seq(Characters)) /\ item.name \o item.param \in Seq(Characters)
  <2>1. item.name \in Seq(Characters) /\ item.param \in Seq(Characters)
    BY DEF Items
  <2>2. F(items) \in Seq(Seq(Characters))
    BY FlatIs, Zenon
  <2> QED
    BY <2>1, <2>2
<1>2. F(Append(items, item)) = Append(F(items), item.name \o item.param)
  <2>1. /\ DOMAIN items = 1..Len(items) /\ DOMAIN Append(items, item) = 1..Len(items) + 1 /\ Len(items) \in Nat
        /\ \A k \in 1..Len(items) : Append(items, item)[k] = items[k]
        /\ Append(items, item)[Len(items) + 1] = item
    OBVIOUS
  <2>2. DOMAIN F(items) = 1..Len(items)
    BY <2>1
  <2>3. Len(F(items)) = Len(items)
    BY <1>1, <2>1, <2>2
  <2> DEFINE new == item.name \o item.param
             f == F(items)
             more == Append(items, item)
             g == F(more)
  <2>4. /\ \A k \in 1..Len(items) : f[k] = items[k].name \o items[k].param
    BY <2>1, Zenon
  <2>5. /\ DOMAIN g = 1..Len(items) + 1
        /\ \A k \in 1..Len(items) + 1 : g[k] = more[k].name \o more[k].param
        /\ g = [k \in 1..Len(items) + 1 |-> g[k]]
    BY <2>1, Zenon
  <2>6. /\ \A k \in 1..Len(items) : k \in 1..Len(items) + 1
        /\ Len(items) + 1 \in 1..Len(items) + 1
        /\ \A k \in 1..Len(items) + 1 : k \in 1..Len(items) \/ k = Len(items) + 1
    BY <2>1
  <2>7. g[Len(items) + 1] = new /\ \A k \in 1..Len(items) : g[k] = f[k]
    BY <2>1, <2>4, <2>5, <2>6, Zenon
  <2> HIDE DEF new, f, g, more
  <2>8. f \in Seq(Seq(Characters)) /\ new \in Seq(Characters) /\ Len(f) = Len(items)
    BY <1>1, <2>3 DEF f, new
  <2>9. g \in [1..Len(f) + 1 -> Seq(Characters)] /\ Append(f, new) = g
    <3>1. \A k \in 1..Len(f) : f[k] \in Seq(Characters)
      BY <2>8
    <3>2. \A k \in 1..Len(f) + 1 : g[k] \in Seq(Characters)
      BY <2>6, <2>7, <2>8, <3>1, Zenon
    <3>3. g \in [1..Len(f) + 1 -> Seq(Characters)]
      BY <2>5, <2>8, <3>2, Zenon
    <3> QED
      BY <2>7, <2>8, <3>3, AppendIs
  <2> QED
    BY <2>9 DEF f, g, more, new
<1>3. Flat(Append(items, item)) = FlattenSeq(F(Append(items, item))) /\ Flat(items) = FlattenSeq(F(items))
  BY Zenon DEF Flat
<1> HIDE DEF F
<1> QED
  BY <1>1, <1>2, <1>3, FlattenAppend

LEMMA FlatEmpty == Flat(<<>>) = <<>>
<1>1. [k \in DOMAIN <<>> |-> <<>>[k].name \o <<>>[k].param] = <<>>
  OBVIOUS
<1> QED
  BY <1>1, FlattenEmpty DEF Flat

LEMMA FlatFlushed ==
    ASSUME NEW st \in ParseStates
    PROVE  Flat(Flushed(st)) = Flat(st.items) \o st.nstr
<1>1. CASE st.nstr = <<>>
  BY <1>1, FieldTypes, FlatIs DEF Flushed
<1>2. CASE st.nstr # <<>>
  <2>1. Text(st.nstr) \in Items /\ Text(st.nstr).name = st.nstr /\ Text(st.nstr).param = <<>>
    BY FieldTypes DEF Text, Items, Kinds
  <2>2. Flat(Flushed(st)) = Flat(st.items) \o (st.nstr \o <<>>)
    BY <1>2, <2>1, FieldTypes, FlatAppend DEF Flushed
  <2>3. st.nstr \o <<>> = st.nstr
    BY FieldTypes
  <2> QED
    BY <2>2, <2>3
<1> QED
  BY <1>1, <1>2

LEMMA FlatAdded ==
    ASSUME NEW items \in Seq(Items), NEW name \in Seq(Characters), NEW param \in Seq(Characters), 
           name = <<>> => param = <<>>
    PROVE  Flat(Added(items, name, param)) = Flat(items) \o (name \o param)
<1>1. CASE name = <<>>
  <2>1. Added(items, name, param) = items /\ name \o param = <<>>
    BY <1>1 DEF Added
  <2> QED
    BY <2>1, FlatIs
<1>2. CASE name # <<>>
  <2>1. Item(name, param) \in Items /\ Item(name, param).name = name /\ Item(name, param).param = param
    BY DEF Item, Items, Kinds
  <2> QED
    BY <1>2, <2>1, FlatAppend DEF Added
<1> QED
  BY <1>1, <1>2

LEMMA FlatAddedAlone ==
    ASSUME NEW items \in Seq(Items), NEW name \in Seq(Characters)
    PROVE  Flat(Added(items, name, <<>>)) = Flat(items) \o name
<1>1. name \o <<>> = name /\ <<>> \in Seq(Characters)
  OBVIOUS
<1> QED
  BY <1>1, FlatAdded

LEMMA Slice ==
    ASSUME NEW S, NEW p \in Seq(S), NEW a \in 1..Len(p) + 1, NEW b \in a..Len(p) + 1
    PROVE  SubSeq(p, 1, b - 1) = SubSeq(p, 1, a - 1) \o SubSeq(p, a, b - 1)
OBVIOUS

LEMMA SliceOne ==
    ASSUME NEW S, NEW p \in Seq(S), NEW a \in 1..Len(p)
    PROVE  SubSeq(p, a, a) = One(p[a])
<1>1. SubSeq(p, a, a) \in Seq(S) /\ Len(SubSeq(p, a, a)) = 1 /\ SubSeq(p, a, a)[1] = p[a] /\ p[a] \in S
  OBVIOUS
<1> QED
  BY <1>1, OneIs

\* What TextKept says of a state of the loop, and that i has not run over the pattern's end.
Nameless(p) == \E k \in 1..(Len(p) - 1) : p[k] = Percent /\ p[k + 1] = Open
Keeps(p, st) ==
    /\ st.i <= Len(p) + 1
    /\ \/ st.error
       \/ Nameless(p)
       \/ Plain(Flat(st.items) \o st.nstr) = Plain(SubSeq(p, 1, st.i - 1))

\* A piece of the pattern and a piece of the items that are alike but for the signs.
LEMMA KeepsPiece ==
    ASSUME NEW p \in Seq(Characters), NEW i \in 1..Len(p) + 1, NEW a \in i..Len(p) + 1,
           NEW had \in Seq(Characters), Plain(had) = Plain(SubSeq(p, 1, i - 1)),
           NEW piece \in Seq(Characters), Plain(piece) = Plain(SubSeq(p, i, a - 1))
    PROVE  Plain(had \o piece) = Plain(SubSeq(p, 1, a - 1))
<1>1. SubSeq(p, 1, a - 1) = SubSeq(p, 1, i - 1) \o SubSeq(p, i, a - 1)
  BY Slice
<1>2. SubSeq(p, 1, i - 1) \in Seq(Characters) /\ SubSeq(p, i, a - 1) \in Seq(Characters)
  OBVIOUS
<1>3. /\ Plain(had \o piece) = Plain(had) \o Plain(piece)
      /\ Plain(SubSeq(p, 1, a - 1)) = Plain(SubSeq(p, 1, i - 1)) \o Plain(SubSeq(p, i, a - 1))
  BY <1>1, <1>2, PlainConcat, Zenon
<1> QED
  BY <1>3, Zenon

LEMMA Appends ==
    ASSUME NEW a \in Seq(Characters), NEW b \in Seq(Characters), NEW c \in Characters
    PROVE  a \o Append(b, c) = (a \o b) \o One(c) /\ a \o b \in Seq(Characters) /\ a \o <<>> = a
BY DEF One

LEMMA SignsPlain ==
    /\ Percent \in Characters /\ Open \in Characters /\ Close \in Characters
    /\ Plain(One(Percent)) = <<>> /\ Plain(One(Open)) = <<>> /\ Plain(One(Close)) = <<>>
<1>1. Percent \in Characters /\ Open \in Characters /\ Close \in Characters
  BY DEF Characters
<1> QED
  BY <1>1, PlainOne DEF Kept, Signs

LEMMA FirstOne ==
    ASSUME NEW s \in Seq(Characters), NEW t \in Seq(Characters), NEW c \in Characters,
           Len(t) = Len(s) + 1, t[1] = c, \A k \in 1..Len(s) : t[k + 1] = s[k]
    PROVE  t = One(c) \o s
<1>1. PICK x \in Seq(Characters) : x = One(c) /\ Len(x) = 1 /\ x[1] = c
  BY OneIs
<1>2. /\ x \o s \in Seq(Characters) /\ Len(x \o s) = Len(x) + Len(s)
      /\ \A k \in 1..Len(x) + Len(s) : (x \o s)[k] = IF k <= Len(x) THEN x[k] ELSE s[k - Len(x)]
  OBVIOUS
<1>3. \A k \in 1..Len(s) + 1 : k = 1 \/ (k - 1 \in 1..Len(s) /\ k = (k - 1) + 1 /\ ~(k <= 1))
  OBVIOUS
<1>4. \A k \in 1..Len(s) + 1 : t[k] = IF k <= 1 THEN c ELSE s[k - 1]
  <2>1. ASSUME NEW k \in 1..Len(s) + 1
        PROVE  t[k] = IF k <= 1 THEN c ELSE s[k - 1]
    <3>1. CASE k = 1
      BY <3>1
    <3>2. CASE k - 1 \in 1..Len(s) /\ k = (k - 1) + 1 /\ ~(k <= 1)
      BY <3>2
    <3> QED
      BY <1>3, <3>1, <3>2
  <2> QED
    BY <2>1
<1>5. x \o s \in Seq(Characters) /\ Len(x \o s) = Len(t) /\ \A k \in 1..Len(t) : (x \o s)[k] = t[k]
  BY <1>1, <1>2, <1>4
<1>6. ASSUME NEW u \in Seq(Characters), Len(u) = Len(t), \A k \in 1..Len(t) : u[k] = t[k]
      PROVE  u = t
  BY <1>6
<1>7. x \o s = t
  BY <1>5, <1>6
<1> QED
  BY <1>1, <1>7

\* A piece without signs but the one it begins with, or the ones around it.
LEMMA PieceAfter ==
    ASSUME NEW p \in Seq(Characters), NEW i \in 1..Len(p), NEW a \in i + 1..Len(p) + 1, NEW sign,
           p[i] = sign, Plain(One(sign)) = <<>>
    PROVE  Plain(SubSeq(p, i, a - 1)) = Plain(SubSeq(p, i + 1, a - 1))
<1>1. SubSeq(p, i, a - 1) = One(sign) \o SubSeq(p, i + 1, a - 1)
  <2>2. /\ SubSeq(p, i, a - 1) \in Seq(Characters) /\ SubSeq(p, i + 1, a - 1) \in Seq(Characters)
        /\ sign \in Characters
        /\ Len(SubSeq(p, i, a - 1)) = Len(SubSeq(p, i + 1, a - 1)) + 1
        /\ SubSeq(p, i, a - 1)[1] = sign
        /\ \A k \in 1..Len(SubSeq(p, i + 1, a - 1)) : SubSeq(p, i, a - 1)[k + 1] = SubSeq(p, i + 1, a - 1)[k]
    OBVIOUS
  <2> QED
    BY <2>2, FirstOne
<1>2. SubSeq(p, i + 1, a - 1) \in Seq(Characters) /\ One(sign) \in Seq(Characters)
  BY OneIs
<1>3. Plain(SubSeq(p, i, a - 1)) = <<>> \o Plain(SubSeq(p, i + 1, a - 1))
  BY <1>1, <1>2, PlainConcat, Zenon
<1>4. Plain(SubSeq(p, i + 1, a - 1)) \in Seq(Characters)
  BY <1>2, PlainIs
<1> QED
  BY <1>3, <1>4

LEMMA PieceItem ==
    ASSUME NEW p \in Seq(Characters), NEW i \in 1..Len(p), Starts(p, i)
    PROVE  /\ Plain(SubSeq(p, i, NameEnd(p, i) - 1)) = Plain(Name(p, i))
           /\ HasParam(p, i) /\ ParamEnd(p, i) <= Len(p) =>
                Plain(SubSeq(p, i, (ParamEnd(p, i) + 1) - 1)) = Plain(Name(p, i) \o Param(p, i))
<1> DEFINE n == NameEnd(p, i)
           m == ParamEnd(p, i)
<1>1. n \in i + 1..Len(p) + 1 /\ Name(p, i) \in Seq(Characters)
  BY Ends
<1>2. Plain(SubSeq(p, i, n - 1)) = Plain(Name(p, i))
  <2>1. p[i] = Percent /\ Name(p, i) = SubSeq(p, i + 1, n - 1)
    BY DEF Starts, Name
  <2> QED
    BY <1>1, <2>1, PieceAfter, SignsPlain, Zenon
<1>3. ASSUME HasParam(p, i), m <= Len(p)
      PROVE  Plain(SubSeq(p, i, (m + 1) - 1)) = Plain(Name(p, i) \o Param(p, i))
  <2>1. /\ n \in 1..Len(p) /\ m \in n + 1..Len(p) /\ i \in 1..n /\ p[n] = Open /\ p[m] = Close
        /\ Param(p, i) \in Seq(Characters) /\ Param(p, i) = SubSeq(p, n + 1, m - 1)
    <3>1. n <= Len(p) /\ p[n] = Open
      BY <1>3 DEF HasParam
    <3>2. m \in n + 1..Len(p) + 1 /\ p[m] = Close /\ Param(p, i) \in Seq(Characters)
      BY <1>3, Ends
    <3>3. Param(p, i) = SubSeq(p, n + 1, m - 1)
      BY DEF Param
    <3> HIDE DEF n, m
    <3> QED
      BY <1>1, <1>3, <3>1, <3>2, <3>3
  <2> HIDE DEF n, m
  <2>2. Plain(SubSeq(p, n, m - 1)) = Plain(Param(p, i))
    <3>1. m \in n + 1..Len(p) + 1
      BY <2>1
    <3> QED
      BY <2>1, <3>1, PieceAfter, SignsPlain, Zenon
  <2>3. Plain(SubSeq(p, i, m - 1)) = Plain(Name(p, i) \o Param(p, i))
    <3>1. SubSeq(p, i, m - 1) = SubSeq(p, i, n - 1) \o SubSeq(p, n, m - 1)
      BY <2>1
    <3>2. SubSeq(p, i, n - 1) \in Seq(Characters) /\ SubSeq(p, n, m - 1) \in Seq(Characters)
      BY <2>1
    <3>3. Plain(SubSeq(p, i, n - 1) \o SubSeq(p, n, m - 1)) = Plain(SubSeq(p, i, n - 1)) \o Plain(SubSeq(p, n, m - 1))
      BY <3>2, PlainConcat
    <3>4. Plain(Name(p, i) \o Param(p, i)) = Plain(Name(p, i)) \o Plain(Param(p, i))
      BY <1>1, <2>1, PlainConcat
    <3> QED
      BY <1>2, <2>2, <3>1, <3>3, <3>4, Zenon DEF n
  <2>4. Plain(SubSeq(p, i, (m + 1) - 1)) = Plain(SubSeq(p, i, m - 1)) \o <<>>
    <3>1. SubSeq(p, i, (m + 1) - 1) = SubSeq(p, i, m - 1) \o SubSeq(p, m, m)
      BY <2>1
    <3>2. SubSeq(p, i, m - 1) \in Seq(Characters)
      BY <2>1
    <3>3. SubSeq(p, m, m) = One(Close) /\ One(Close) \in Seq(Characters)
      <4>1. m \in 1..Len(p) /\ p[m] = Close
        BY <2>1
      <4> QED
        BY <4>1, SliceOne, OneIs, SignsPlain
    <3>4. Plain(SubSeq(p, i, m - 1) \o One(Close)) = Plain(SubSeq(p, i, m - 1)) \o Plain(One(Close))
      BY <3>2, <3>3, PlainConcat
    <3> QED
      BY <3>1, <3>3, <3>4, SignsPlain, Zenon
  <2>5. Plain(SubSeq(p, i, m - 1)) \in Seq(Characters)
    <3>1. SubSeq(p, i, m - 1) \in Seq(Characters)
      BY <2>1
    <3> QED
      BY <3>1, PlainIs
  <2>6. Plain(SubSeq(p, i, m - 1)) \o <<>> = Plain(SubSeq(p, i, m - 1))
    BY <2>5
  <2> QED
    BY <2>3, <2>4, <2>6, Zenon
<1> QED
  BY <1>2, <1>3

LEMMA HasName ==
    ASSUME NEW p \in Seq(Characters), NEW i \in 1..Len(p), Starts(p, i), HasParam(p, i), ~Nameless(p)
    PROVE  Name(p, i) # <<>>
<1> DEFINE n == NameEnd(p, i)
<1>1. n \in i + 1..Len(p) /\ p[n] = Open /\ p[i] = Percent
  BY Ends DEF HasParam, Starts
<1> HIDE DEF n
<1>2. n # i + 1
  BY <1>1 DEF Nameless
<1>3. SubSeq(p, i + 1, n - 1) # <<>>
  <2>1. Len(SubSeq(p, i + 1, n - 1)) = n - i - 1 /\ n - i - 1 # 0
    BY <1>1, <1>2
  <2> QED
    BY <2>1
<1> QED
  BY <1>3 DEF Name, n

\* A turn does not run over the pattern's end, and an error stays.
LEMMA TurnWithin ==
    ASSUME NEW p \in Seq(Characters), NEW st \in ParseStates, st.i <= Len(p)
    PROVE  Turn(p, st).i <= Len(p) + 1 /\ (st.error => Turn(p, st).error)
<1> DEFINE t == Turn(p, st)
           Within == \E a \in 1..Len(p) + 1 : \E b, c, d : t = Loop(a, b, c, d) /\ (st.error => d)
<1>0. PICK i \in 1..Len(p) : i = st.i
  BY FieldTypes
<1>a. i \in Nat /\ i + 1 \in 1..Len(p) + 1 /\ i <= Len(p)
  BY <1>0
<1>1. ASSUME Within
      PROVE  t.i <= Len(p) + 1 /\ (st.error => t.error)
  BY <1>1 DEF Loop
<1>2. ASSUME p[i] # Percent
      PROVE  Within
  BY <1>0, <1>a, <1>2, TurnAtText, Zenon
<1>3. ASSUME i < Len(p), p[i] = Percent, p[i + 1] = Percent
      PROVE  Within
  BY <1>0, <1>a, <1>3, TurnAtPercents, Zenon
<1>4. ASSUME Starts(p, i)
      PROVE  Within
  <2> DEFINE n == NameEnd(p, i)
             m == ParamEnd(p, i)
  <2>1. n \in i + 1..Len(p) + 1 /\ (HasParam(p, i) => m \in n + 1..Len(p) + 1)
    BY <1>a, Ends
  <2>2. n \in 1..Len(p) + 1 /\ (HasParam(p, i) => m \in 1..Len(p) + 1 /\ (~(m > Len(p)) => m + 1 \in 1..Len(p) + 1))
    <3> HIDE DEF n, m
    <3> QED
      BY <1>a, <2>1
  <2>3. CASE ~HasParam(p, i)
    BY <1>0, <1>4, <2>2, <2>3, TurnAtItem, Zenon
  <2>4. CASE HasParam(p, i) /\ m > Len(p)
    BY <1>0, <1>4, <2>2, <2>4, TurnAtParam, Zenon
  <2>5. CASE HasParam(p, i) /\ ~(m > Len(p))
    BY <1>0, <1>4, <2>2, <2>5, TurnAtParam, Zenon
  <2> QED
    BY <2>3, <2>4, <2>5
<1> HIDE DEF Within
<1> QED
  BY <1>0, <1>1, <1>2, <1>3, <1>4 DEF Starts

LEMMA TurnKeeps ==
    ASSUME NEW p \in Seq(Characters), NEW st \in ParseStates, Keeps(p, st), st.i <= Len(p)
    PROVE  Keeps(p, Turn(p, st))
<1> DEFINE t == Turn(p, st)
           had == Flat(st.items) \o st.nstr
<1>0. PICK i \in 1..Len(p) : i = st.i
  BY FieldTypes
<1>a. i \in Nat /\ i \in 1..Len(p) + 1 /\ i + 1 \in i..Len(p) + 1 /\ (i + 1) - 1 = i
  BY <1>0
<1>b. /\ st.nstr \in Seq(Characters) /\ st.items \in Seq(Items)
      /\ Flat(st.items) \in Seq(Characters)
  BY FieldTypes, FlatIs
<1>c. had \in Seq(Characters)
  BY <1>b, Appends
<1>h. ASSUME NEW c \in Characters
      PROVE  Flat(st.items) \o Append(st.nstr, c) = had \o One(c)
  BY <1>b, Appends
<1>g. ASSUME NEW a, NEW b, NEW c, NEW d, t = Loop(a, b, c, d)
      PROVE  t.i = a /\ t.nstr = b /\ t.items = c /\ t.error = d
  BY <1>g DEF Loop
<1>1. CASE st.error \/ Nameless(p)
  <2>1. t.i <= Len(p) + 1 /\ (st.error => t.error)
    BY TurnWithin
  <2> QED
    BY <1>1, <2>1 DEF Keeps
<1>2. CASE ~st.error /\ ~Nameless(p)
  <2>1. Plain(had) = Plain(SubSeq(p, 1, i - 1))
    BY <1>0, <1>2 DEF Keeps
  <2> HIDE DEF had
  <2>3. ASSUME p[i] # Percent
        PROVE  Keeps(p, t)
    <3>1. t = Loop(i + 1, Append(st.nstr, p[i]), st.items, st.error) /\ p[i] \in Characters
      BY <1>0, <2>3, TurnAtText
    <3>2. t.i = i + 1 /\ t.items = st.items /\ t.nstr = Append(st.nstr, p[i])
      BY <1>g, <3>1, Zenon
    <3>3. Flat(t.items) \o t.nstr = had \o One(p[i])
      BY <1>h, <3>1, <3>2, Zenon
    <3>4. SubSeq(p, i, (i + 1) - 1) = One(p[i]) /\ One(p[i]) \in Seq(Characters)
      BY <1>a, <3>1, SliceOne, OneIs
    <3>5. Plain(had \o One(p[i])) = Plain(SubSeq(p, 1, (i + 1) - 1))
      BY <1>a, <1>c, <2>1, <3>4, KeepsPiece
    <3>6. t.i <= Len(p) + 1
      BY <1>a, <3>2
    <3> QED
      BY <3>2, <3>3, <3>5, <3>6, Zenon DEF Keeps
  <2>4. ASSUME i < Len(p), p[i] = Percent, p[i + 1] = Percent
        PROVE  Keeps(p, t)
    <3>1. t = Loop(i + 1, Append(st.nstr, Percent), st.items, st.error) /\ Percent \in Characters
      BY <1>0, <2>4, TurnAtPercents, SignsPlain
    <3>2. t.i = i + 1 /\ t.items = st.items /\ t.nstr = Append(st.nstr, Percent)
      BY <1>g, <3>1, Zenon
    <3>3. Flat(t.items) \o t.nstr = had \o One(Percent)
      BY <1>h, <3>1, <3>2, Zenon
    <3>4. SubSeq(p, i, (i + 1) - 1) = One(Percent) /\ One(Percent) \in Seq(Characters)
      BY <1>a, <2>4, <3>1, SliceOne, OneIs
    <3>5. Plain(had \o One(Percent)) = Plain(SubSeq(p, 1, (i + 1) - 1))
      BY <1>a, <1>c, <2>1, <3>4, KeepsPiece
    <3>6. t.i <= Len(p) + 1
      BY <1>a, <3>2
    <3> QED
      BY <3>2, <3>3, <3>5, <3>6, Zenon DEF Keeps
  <2>5. ASSUME Starts(p, i)
        PROVE  Keeps(p, t)
    <3> DEFINE n == NameEnd(p, i)
               m == ParamEnd(p, i)
    <3>1. /\ n \in i + 1..Len(p) + 1
          /\ Name(p, i) \in Seq(Characters)
          /\ HasParam(p, i) => m \in n + 1..Len(p) + 1 /\ Param(p, i) \in Seq(Characters)
      BY <1>0, <1>a, Ends
    <3>2. Flushed(st) \in Seq(Items) /\ Flat(Flushed(st)) = had
      BY FlushedTyped, FlatFlushed DEF had
    <3>3. CASE ~HasParam(p, i)
      <4>1. t = Loop(n, <<>>, Added(Flushed(st), Name(p, i), <<>>), st.error)
        BY <1>0, <2>5, <3>3, TurnAtItem
      <4>2. t.i = n /\ t.items = Added(Flushed(st), Name(p, i), <<>>) /\ t.nstr = <<>>
        BY <1>g, <4>1, Zenon
      <4>3. Flat(t.items) = had \o Name(p, i)
        BY <3>1, <3>2, <4>2, FlatAddedAlone
      <4>4. Flat(t.items) \o t.nstr = had \o Name(p, i)
        <5>1. had \o Name(p, i) \in Seq(Characters)
          BY <1>c, <3>1, Appends
        <5> QED
          BY <3>1, <4>2, <4>3, <5>1, Appends
      <4>5. Plain(had \o Name(p, i)) = Plain(SubSeq(p, 1, n - 1))
        <5>1. n \in i..Len(p) + 1
          BY <1>a, <3>1
        <5>2. Plain(Name(p, i)) = Plain(SubSeq(p, i, n - 1))
          BY <1>0, <2>5, PieceItem
        <5> QED
          BY <1>a, <1>c, <2>1, <3>1, <5>1, <5>2, KeepsPiece
      <4>6. t.i <= Len(p) + 1
        BY <3>1, <4>2
      <4> QED
        BY <4>2, <4>4, <4>5, <4>6, Zenon DEF Keeps
    <3>4. CASE HasParam(p, i) /\ ~(m > Len(p))
      <4>1. t = Loop(m + 1, <<>>, Added(Flushed(st), Name(p, i), Param(p, i)), st.error)
        BY <1>0, <2>5, <3>4, TurnAtParam
      <4>2. t.i = m + 1 /\ t.items = Added(Flushed(st), Name(p, i), Param(p, i)) /\ t.nstr = <<>>
        BY <1>g, <4>1, Zenon
      <4>3. Flat(t.items) = had \o (Name(p, i) \o Param(p, i))
        <5>1. Name(p, i) # <<>>
          BY <1>0, <1>2, <2>5, <3>4, HasName
        <5> QED
          BY <3>1, <3>2, <3>4, <4>2, <5>1, FlatAdded
      <4>4. Name(p, i) \o Param(p, i) \in Seq(Characters)
        BY <3>1, <3>4, Appends
      <4>5. Flat(t.items) \o t.nstr = had \o (Name(p, i) \o Param(p, i))
        <5>1. had \o (Name(p, i) \o Param(p, i)) \in Seq(Characters)
          BY <1>c, <4>4, Appends
        <5> QED
          BY <4>2, <4>3, <5>1, Appends
      <4>6. m + 1 \in i..Len(p) + 1 /\ m <= Len(p)
        <5> HIDE DEF m, n
        <5> QED
          BY <1>a, <3>1, <3>4
      <4>7. Plain(had \o (Name(p, i) \o Param(p, i))) = Plain(SubSeq(p, 1, (m + 1) - 1))
        <5>1. Plain(Name(p, i) \o Param(p, i)) = Plain(SubSeq(p, i, (m + 1) - 1))
          BY <1>0, <2>5, <3>4, <4>6, PieceItem
        <5> QED
          BY <1>a, <1>c, <2>1, <4>4, <4>6, <5>1, KeepsPiece
      <4>8. t.i <= Len(p) + 1
        <5> HIDE DEF m
        <5> QED
          BY <4>2, <4>6
      <4> QED
        BY <4>2, <4>5, <4>7, <4>8, Zenon DEF Keeps
    <3>5. CASE HasParam(p, i) /\ m > Len(p)
      <4>1. t = Loop(m, st.nstr, Append(st.items, PatternError), TRUE)
        BY <1>0, <2>5, <3>5, TurnAtParam
      <4>2. t.i = m /\ t.error
        BY <1>g, <4>1, Zenon
      <4>3. t.i <= Len(p) + 1
        BY <3>1, <3>5, <4>2
      <4> QED
        BY <4>2, <4>3 DEF Keeps
    <3> QED
      BY <3>3, <3>4, <3>5
  <2> QED
    BY <1>0, <2>3, <2>4, <2>5 DEF Starts
<1> QED
  BY <1>1, <1>2

\* Parse: at every turn each character that the parser is past is in the items or in the text
\* it collects, once and in its place, apart from the signs it gives a meaning to, whatever the
\* pattern is and however long, unless a parameter does not end or has no name.
THEOREM TextStays == Spec => []TextKept
<1> DEFINE Inv == Keeps(m_pattern, parse)
<1>1. TypeInv /\ Init => Inv
  <2> SUFFICES ASSUME TypeInv, Init
               PROVE  Inv
    OBVIOUS
  <2>1. m_pattern \in Seq(Characters) /\ parse.i = 1 /\ parse.items = <<>> /\ parse.nstr = <<>>
    BY DEF TypeInv, Init, ParseStart, Loop
  <2>2. SubSeq(m_pattern, 1, 1 - 1) = <<>> /\ 1 <= Len(m_pattern) + 1
    BY <2>1
  <2>3. Flat(<<>>) \o <<>> = <<>>
    BY FlatEmpty
  <2> QED
    BY <2>1, <2>2, <2>3, Zenon DEF Keeps
<1>2. TypeInv /\ Inv /\ [Next]_vars => Inv'
  <2> SUFFICES ASSUME TypeInv, Inv, [Next]_vars
               PROVE  Inv'
    OBVIOUS
  <2>1. CASE ParseTurn
    <3>1. /\ m_pattern \in Seq(Characters) /\ parse \in ParseStates
          /\ m_pattern' = m_pattern /\ parse' = Turn(m_pattern, parse)
          /\ ~(parse.i > Len(m_pattern))
      BY <2>1 DEF ParseTurn, Constructed, TypeInv
    <3>2. parse.i <= Len(m_pattern)
      BY <3>1, FieldTypes
    <3> QED
      BY <3>1, <3>2, TurnKeeps
  <2>2. ASSUME UNCHANGED <<m_pattern, parse>>
        PROVE  Inv'
    BY <2>2
  <2> QED
    BY <2>1, <2>2 DEF Next, FormatCall, FormatNext, vars
<1>3. Inv => TextKept
  BY Zenon DEF Keeps, TextKept, Nameless
<1> QED
  BY <1>1, <1>2, <1>3, Typed, PTL DEF Spec

-----------------------------------------------------------------------------
(***************************************************************************)
(* What was parsed, printed and parsed again.                              *)
(***************************************************************************)
\* What an item of a pattern without errors is.
Proper(item) ==
    \/ item.kind = "text" /\ item.name # <<>> /\ item.param = <<>>
    \/ /\ item.kind = "item" /\ item.name # <<>>
       /\ \A k \in 1..Len(item.name) : item.name[k] \notin EndsName
       /\ \A k \in 1..Len(item.param) : item.param[k] # Close

AllProper(items) == \A k \in 1..Len(items) : Proper(items[k])

\* Of the items the parser has so far, and of those the formatter has.
ItemsInv ==
    /\ parse.error \/ AllProper(parse.items)
    /\ m_items = IF Constructed THEN ParseEnd(parse).items ELSE <<>>

LEMMA NamesProper ==
    ASSUME NEW p \in Seq(Characters), NEW i \in 1..Len(p)
    PROVE  /\ \A k \in 1..Len(Name(p, i)) : Name(p, i)[k] \notin EndsName
           /\ HasParam(p, i) => \A k \in 1..Len(Param(p, i)) : Param(p, i)[k] # Close
<1> DEFINE n == NameEnd(p, i)
           m == ParamEnd(p, i)
<1>1. /\ n \in i + 1..Len(p) + 1 /\ \A k \in i + 1..n - 1 : p[k] \notin EndsName
      /\ HasParam(p, i) => m \in n + 1..Len(p) + 1 /\ \A k \in n + 1..m - 1 : p[k] # Close
  BY Ends
<1>2. Name(p, i) = SubSeq(p, i + 1, n - 1) /\ Param(p, i) = SubSeq(p, n + 1, m - 1)
  BY DEF Name, Param
<1> HIDE DEF n, m
<1>3. ASSUME NEW k \in 1..Len(SubSeq(p, i + 1, n - 1))
      PROVE  SubSeq(p, i + 1, n - 1)[k] \notin EndsName
  <2>1. i + k \in i + 1..n - 1 /\ SubSeq(p, i + 1, n - 1)[k] = p[i + k]
    BY <1>1, <1>3
  <2> QED
    BY <1>1, <2>1
<1>4. ASSUME HasParam(p, i), NEW k \in 1..Len(SubSeq(p, n + 1, m - 1))
      PROVE  SubSeq(p, n + 1, m - 1)[k] # Close
  <2>1. n + k \in n + 1..m - 1 /\ SubSeq(p, n + 1, m - 1)[k] = p[n + k]
    BY <1>1, <1>4
  <2> QED
    BY <1>1, <1>4, <2>1
<1> QED
  BY <1>2, <1>3, <1>4

LEMMA ProperAppend ==
    ASSUME NEW items \in Seq(Items), AllProper(items), NEW item, Proper(item)
    PROVE  AllProper(Append(items, item))
BY DEF AllProper

LEMMA ProperFlushed ==
    ASSUME NEW st \in ParseStates, AllProper(st.items)
    PROVE  AllProper(Flushed(st))
<1>1. st.nstr # <<>> => Proper(Text(st.nstr))
  BY DEF Proper, Text
<1> QED
  BY <1>1, FieldTypes, ProperAppend DEF Flushed

LEMMA ProperAdded ==
    ASSUME NEW items \in Seq(Items), AllProper(items), NEW name \in Seq(Characters), NEW param \in Seq(Characters),
           \A k \in 1..Len(name) : name[k] \notin EndsName,
           \A k \in 1..Len(param) : param[k] # Close
    PROVE  AllProper(Added(items, name, param))
<1>1. name # <<>> => Proper(Item(name, param))
  BY DEF Proper, Item
<1> QED
  BY <1>1, ProperAppend DEF Added

LEMMA TurnProper ==
    ASSUME NEW p \in Seq(Characters), NEW st \in ParseStates, st.error \/ AllProper(st.items)
    PROVE  Turn(p, st).error \/ AllProper(Turn(p, st).items)
<1> DEFINE i == st.i
           t == Turn(p, st)
           m == ParamEnd(p, i)
<1>f. ASSUME NEW a, NEW b, NEW c, NEW d, t = Loop(a, b, c, d)
      PROVE  t.items = c /\ t.error = d
  BY <1>f DEF Loop
<1>i. i \in Nat \ {0} /\ (i <= Len(p) => i \in 1..Len(p))
  BY FieldTypes
<1> HIDE DEF t
<1>1. CASE ~(i <= Len(p))
  BY <1>1, TurnPast DEF t
<1>2. CASE i <= Len(p) /\ p[i] # Percent
  <2>1. t = Loop(i + 1, Append(st.nstr, p[i]), st.items, st.error)
    BY <1>2, TurnAtText DEF t
  <2> QED
    BY <1>f, <2>1, Zenon DEF t
<1>3. CASE i < Len(p) /\ p[i] = Percent /\ p[i + 1] = Percent
  <2>1. t = Loop(i + 1, Append(st.nstr, Percent), st.items, st.error)
    BY <1>3, TurnAtPercents DEF t
  <2> QED
    BY <1>f, <2>1, Zenon DEF t
<1>4. CASE Starts(p, i)
  <2>0. i \in 1..Len(p)
    BY <1>i, <1>4 DEF Starts
  <2>1. Name(p, i) \in Seq(Characters) /\ (HasParam(p, i) => Param(p, i) \in Seq(Characters))
    BY <2>0, Ends
  <2>2. CASE st.error
    <3>1. \E a, b, c : t = Loop(a, b, c, TRUE)
      <4>1. CASE ~HasParam(p, i)
        BY <1>4, <2>2, <4>1, TurnAtItem, Zenon DEF t
      <4>2. CASE HasParam(p, i) /\ m > Len(p)
        BY <1>4, <4>2, TurnAtParam, Zenon DEF t
      <4>3. CASE HasParam(p, i) /\ ~(m > Len(p))
        BY <1>4, <2>2, <4>3, TurnAtParam, Zenon DEF t
      <4> QED
        BY <4>1, <4>2, <4>3
    <3> QED
      BY <1>f, <3>1 DEF t
  <2>3. CASE AllProper(st.items)
    <3>1. Flushed(st) \in Seq(Items) /\ AllProper(Flushed(st))
      BY <2>3, ProperFlushed, FlushedTyped
    <3>2. /\ \A k \in 1..Len(Name(p, i)) : Name(p, i)[k] \notin EndsName
          /\ HasParam(p, i) => \A k \in 1..Len(Param(p, i)) : Param(p, i)[k] # Close
      BY <2>0, NamesProper
    <3>3. CASE ~HasParam(p, i)
      <4>1. t.items = Added(Flushed(st), Name(p, i), <<>>)
        <5>1. t = Loop(NameEnd(p, i), <<>>, Added(Flushed(st), Name(p, i), <<>>), st.error)
          BY <1>4, <3>3, TurnAtItem DEF t
        <5> QED
          BY <1>f, <5>1, Zenon
      <4>2. <<>> \in Seq(Characters) /\ \A k \in 1..Len(<<>>) : <<>>[k] # Close
        OBVIOUS
      <4>3. AllProper(Added(Flushed(st), Name(p, i), <<>>))
        BY <2>1, <3>1, <3>2, <4>2, ProperAdded
      <4> QED
        BY <4>1, <4>3 DEF t
    <3>4. CASE HasParam(p, i) /\ m > Len(p)
      <4>1. t.error = TRUE
        <5>1. t = Loop(m, st.nstr, Append(st.items, PatternError), TRUE)
          BY <1>4, <3>4, TurnAtParam DEF t
        <5> QED
          BY <1>f, <5>1, Zenon
      <4> QED
        BY <4>1 DEF t
    <3>5. CASE HasParam(p, i) /\ ~(m > Len(p))
      <4>1. t.items = Added(Flushed(st), Name(p, i), Param(p, i))
        <5>1. t = Loop(m + 1, <<>>, Added(Flushed(st), Name(p, i), Param(p, i)), st.error)
          BY <1>4, <3>5, TurnAtParam DEF t
        <5> QED
          BY <1>f, <5>1, Zenon
      <4>2. AllProper(Added(Flushed(st), Name(p, i), Param(p, i)))
        BY <2>1, <3>1, <3>2, <3>5, ProperAdded
      <4> QED
        BY <4>1, <4>2 DEF t
    <3> QED
      BY <3>3, <3>4, <3>5
  <2> QED
    BY <2>2, <2>3
<1> QED
  BY <1>1, <1>2, <1>3, <1>4 DEF Starts

\* After an error nothing is said of the items; without one each is a text that is not empty, or
\* a name with a parameter that the parser takes for just that.
THEOREM ItemsProper == Spec => []ItemsInv
<1>1. Init => ItemsInv
  <2> SUFFICES ASSUME Init
               PROVE  ItemsInv
    OBVIOUS
  <2>1. parse.i = 1 /\ parse.items = <<>> /\ parse.nstr = <<>> /\ m_items = <<>>
    BY DEF Init, ParseStart, Loop
  <2>2. ParseEnd(parse).items = <<>>
    <3>1. Flushed(parse) = <<>>
      BY <2>1 DEF Flushed
    <3> QED
      BY <3>1 DEF ParseEnd
  <2>3. AllProper(<<>>)
    BY DEF AllProper
  <2> QED
    BY <2>1, <2>2, <2>3 DEF ItemsInv
<1>2. TypeInv /\ ItemsInv /\ [Next]_vars => ItemsInv'
  <2> SUFFICES ASSUME TypeInv, ItemsInv, [Next]_vars
               PROVE  ItemsInv'
    OBVIOUS
  <2>1. CASE ParseTurn
    <3>1. /\ m_pattern \in Seq(Characters) /\ parse \in ParseStates /\ parse' = Turn(m_pattern, parse)
          /\ ~Constructed /\ m_pattern' = m_pattern
          /\ m_items' = IF Constructed' THEN ParseEnd(parse').items ELSE m_items
      BY <2>1 DEF ParseTurn, TypeInv, Constructed
    <3>2. parse.error \/ AllProper(parse.items)
      BY DEF ItemsInv
    <3>3. parse'.error \/ AllProper(parse'.items)
      BY <3>1, <3>2, TurnProper
    <3>4. m_items = <<>>
      BY <3>1 DEF ItemsInv
    <3> QED
      BY <3>1, <3>3, <3>4 DEF ItemsInv
  <2>2. CASE UNCHANGED <<m_pattern, parse, m_items>>
    BY <2>2 DEF ItemsInv, Constructed
  <2> QED
    BY <2>1, <2>2 DEF Next, FormatCall, FormatNext, vars
<1> QED
  BY <1>1, <1>2, Typed, PTL DEF Spec

\* Parse comes to an end: every step of the constructor moves the parser on, to at most one past
\* the pattern, and an error that was noticed stays.
ParseAdvances ==
    [][~Constructed => /\ parse.i < parse'.i /\ parse'.i <= Len(m_pattern) + 1
                       /\ parse.error => parse'.error]_vars

\* The constructor of a formatter takes at most one turn for each character of its pattern.
THEOREM ParseEnds == Spec => ParseAdvances
<1>1. ASSUME TypeInv, ItemsInv, Next, ~Constructed
      PROVE  parse.i < parse'.i /\ parse'.i <= Len(m_pattern) + 1 /\ (parse.error => parse'.error)
  <2>1. next \notin DOMAIN m_items
    BY <1>1 DEF ItemsInv
  <2>2. parse' = Turn(m_pattern, parse)
    BY <1>1, <2>1 DEF Next, ParseTurn, FormatCall
  <2>3. m_pattern \in Seq(Characters) /\ parse \in ParseStates /\ parse.i <= Len(m_pattern)
    BY <1>1, FieldTypes DEF TypeInv, Constructed
  <2> QED
    BY <2>2, <2>3, TurnTyped, TurnWithin
<1>2. TypeInv /\ ItemsInv /\ [Next]_vars =>
          [~Constructed => /\ parse.i < parse'.i /\ parse'.i <= Len(m_pattern) + 1
                           /\ parse.error => parse'.error]_vars
  BY <1>1
<1> QED
  BY <1>2, Typed, ItemsProper, PTL DEF Spec, ParseAdvances

\* What an item is printed as.
Piece(item) == IF item.kind = "text" THEN item.name
               ELSE One(Percent) \o item.name \o One(Open) \o item.param \o One(Close)
Pieces(items) == [k \in 1..Len(items) |-> Piece(items[k])]

LEMMA PieceTyped ==
    ASSUME NEW item \in Items
    PROVE  Piece(item) \in Seq(Characters)
<1>1. item.name \in Seq(Characters) /\ item.param \in Seq(Characters)
  BY DEF Items
<1>2. One(Percent) \in Seq(Characters) /\ One(Open) \in Seq(Characters) /\ One(Close) \in Seq(Characters)
  BY SignsPlain, OneIs
<1> QED
  BY <1>1, <1>2 DEF Piece

LEMMA PiecesTyped ==
    ASSUME NEW items \in Seq(Items)
    PROVE  Pieces(items) \in Seq(Seq(Characters)) /\ Len(Pieces(items)) = Len(items)
<1>1. \A k \in 1..Len(items) : items[k] \in Items
  OBVIOUS
<1>2. \A k \in 1..Len(items) : Piece(items[k]) \in Seq(Characters)
  BY <1>1, PieceTyped, Zenon
<1>3. Pieces(items) \in [1..Len(items) -> Seq(Characters)] /\ Len(items) \in Nat
  <2>1. Len(items) \in Nat
    OBVIOUS
  <2> QED
    BY <1>2, <2>1, Zenon DEF Pieces
<1> QED
  BY <1>3, FunctionIsSeq

LEMMA PrintedIs ==
    ASSUME NEW items \in Seq(Items)
    PROVE  Printed(items) = FlattenSeq(Pieces(items)) /\ Printed(items) \in Seq(Characters)
<1>1. DOMAIN items = 1..Len(items)
  OBVIOUS
<1>2. Printed(items) = FlattenSeq(Pieces(items))
  BY <1>1, Zenon DEF Printed, Pieces, Piece, One
<1>3. FlattenSeq(Pieces(items)) \in Seq(Characters)
  BY PiecesTyped, FlattenTyped
<1> QED
  BY <1>2, <1>3

LEMMA ConcatIs ==
    ASSUME NEW S, NEW x \in Seq(S), NEW y \in Seq(S), NEW z \in Seq(S), Len(z) = Len(x) + Len(y),
           \A k \in 1..Len(x) + Len(y) : z[k] = IF k <= Len(x) THEN x[k] ELSE y[k - Len(x)]
    PROVE  z = x \o y
<1>1. /\ Len(x) \in Nat /\ Len(y) \in Nat
      /\ \A k \in 1..Len(x) + Len(y) : (x \o y)[k] = IF k <= Len(x) THEN x[k] ELSE y[k - Len(x)]
      /\ x \o y \in Seq(S) /\ Len(x \o y) = Len(x) + Len(y)
  OBVIOUS
<1> DEFINE w == x \o y
<1>2. w \in Seq(S) /\ Len(w) = Len(z) /\ \A k \in 1..Len(z) : w[k] = z[k]
  BY <1>1
<1> HIDE DEF w
<1>3. w = z
  BY <1>2
<1> QED
  BY <1>3 DEF w

LEMMA PrintedConcat ==
    ASSUME NEW a \in Seq(Items), NEW b \in Seq(Items)
    PROVE  Printed(a \o b) = Printed(a) \o Printed(b)
<1>1. Pieces(a \o b) = Pieces(a) \o Pieces(b)
  <2>1. /\ Len(a \o b) = Len(a) + Len(b) /\ Len(a) \in Nat /\ Len(b) \in Nat /\ a \o b \in Seq(Items)
        /\ \A k \in 1..Len(a) + Len(b) : (a \o b)[k] = IF k <= Len(a) THEN a[k] ELSE b[k - Len(a)]
    OBVIOUS
  <2>2. /\ Pieces(a) \in Seq(Seq(Characters)) /\ Len(Pieces(a)) = Len(a)
        /\ Pieces(b) \in Seq(Seq(Characters)) /\ Len(Pieces(b)) = Len(b)
        /\ Pieces(a \o b) \in Seq(Seq(Characters)) /\ Len(Pieces(a \o b)) = Len(a) + Len(b)
    BY <2>1, PiecesTyped
  <2>3. /\ \A k \in 1..Len(a) : Pieces(a)[k] = Piece(a[k])
        /\ \A k \in 1..Len(b) : Pieces(b)[k] = Piece(b[k])
        /\ \A k \in 1..Len(a) + Len(b) : Pieces(a \o b)[k] = Piece((a \o b)[k])
    BY <2>1, Zenon DEF Pieces
  <2>4. \A k \in 1..Len(a) + Len(b) : Pieces(a \o b)[k] = IF k <= Len(a) THEN Pieces(a)[k] ELSE Pieces(b)[k - Len(a)]
    BY <2>1, <2>3
  <2>5. Len(Pieces(a \o b)) = Len(Pieces(a)) + Len(Pieces(b))
    BY <2>2
  <2>6. \A k \in 1..Len(Pieces(a)) + Len(Pieces(b)) :
           Pieces(a \o b)[k] = IF k <= Len(Pieces(a)) THEN Pieces(a)[k] ELSE Pieces(b)[k - Len(Pieces(a))]
    BY <2>2, <2>4
  <2> QED
    BY <2>2, <2>5, <2>6, ConcatIs
<1>2. Pieces(a) \in Seq(Seq(Characters)) /\ Pieces(b) \in Seq(Seq(Characters)) /\ a \o b \in Seq(Items)
  BY PiecesTyped
<1>3. FlattenSeq(Pieces(a) \o Pieces(b)) = FlattenSeq(Pieces(a)) \o FlattenSeq(Pieces(b))
  BY <1>2, FlattenConcat
<1> QED
  BY <1>1, <1>2, <1>3, PrintedIs

LEMMA PrintedOne ==
    ASSUME NEW item \in Items
    PROVE  Printed(One(item)) = Piece(item)
<1>1. One(item) \in Seq(Items) /\ Len(One(item)) = 1 /\ One(item)[1] = item
  BY OneIs
<1>2. /\ Pieces(One(item)) \in Seq(Seq(Characters)) /\ Len(Pieces(One(item))) = 1
      /\ Pieces(One(item))[1] = Piece(item) /\ Piece(item) \in Seq(Characters)
  <2>1. 1 \in 1..1
    OBVIOUS
  <2> QED
    BY <1>1, <2>1, PiecesTyped, PieceTyped, Zenon DEF Pieces
<1>3. Pieces(One(item)) = One(Piece(item))
  BY <1>2, OneIs
<1>4. FlattenSeq(One(Piece(item))) = Piece(item)
  BY <1>2, FlattenOne DEF One
<1> QED
  BY <1>1, <1>3, <1>4, PrintedIs

\* p continues after its first a characters with s.
Begins(p, a, s) == a + Len(s) <= Len(p) /\ \A k \in 1..Len(s) : p[a + k] = s[k]

\* Where the n-th item begins in what its list is printed as.
Before(its, n) == Len(Printed(SubSeq(its, 1, n)))

LEMMA PrintedPlaces ==
    ASSUME NEW its \in Seq(Items), NEW n \in 0..Len(its) - 1
    PROVE  /\ Before(its, n) \in Nat
           /\ Before(its, n + 1) = Before(its, n) + Len(Piece(its[n + 1]))
           /\ Begins(Printed(its), Before(its, n), Piece(its[n + 1]))
<1> DEFINE a == SubSeq(its, 1, n)
           item == its[n + 1]
           b == SubSeq(its, n + 2, Len(its))
           x == Printed(a)
           y == Piece(item)
           z == Printed(b)
<1>1. a \in Seq(Items) /\ b \in Seq(Items) /\ item \in Items
  OBVIOUS
<1>2. One(item) \in Seq(Items) /\ Len(One(item)) = 1 /\ One(item)[1] = item
  BY <1>1, OneIs
<1>3. SubSeq(its, 1, n + 1) = a \o One(item) /\ its = (a \o One(item)) \o b
  <2> DEFINE o == One(item)
  <2>1. o \in Seq(Items) /\ Len(o) = 1 /\ o[1] = its[n + 1]
    BY <1>2
  <2> HIDE DEF o
  <2> DEFINE c == SubSeq(its, 1, n + 1)
  <2>a. n \in Nat /\ n + 1 \in Nat /\ n + 1 <= Len(its) /\ Len(its) \in Nat
    OBVIOUS
  <2>b. a \in Seq(Items) /\ Len(a) = n /\ \A k \in 1..n : a[k] = its[k]
    BY <2>a
  <2>c. c \in Seq(Items) /\ Len(c) = n + 1 /\ \A k \in 1..n + 1 : c[k] = its[k]
    BY <2>a
  <2>d. b \in Seq(Items) /\ Len(b) = Len(its) - (n + 1) /\ \A k \in 1..Len(b) : b[k] = its[n + 1 + k]
    BY <2>a
  <2> HIDE DEF a, b, c
  <2>2. c = a \o o
    <3>1. \A k \in 1..Len(a) + Len(o) : c[k] = IF k <= Len(a) THEN a[k] ELSE o[k - Len(a)]
      BY <2>1, <2>a, <2>b, <2>c
    <3>2. o \in Seq(Items) /\ Len(c) = Len(a) + Len(o)
      BY <2>1, <2>b, <2>c
    <3> QED
      BY <2>b, <2>c, <3>1, <3>2, ConcatIs
  <2>3. its = c \o b
    <3>1. \A k \in 1..Len(c) + Len(b) : its[k] = IF k <= Len(c) THEN c[k] ELSE b[k - Len(c)]
      <4>1. ASSUME NEW k \in 1..Len(c) + Len(b), ~(k <= Len(c))
            PROVE  its[k] = b[k - Len(c)]
        <5>1. k - (n + 1) \in 1..Len(b) /\ n + 1 + (k - (n + 1)) = k
          BY <2>a, <2>c, <2>d, <4>1
        <5>2. b[k - (n + 1)] = its[n + 1 + (k - (n + 1))]
          BY <2>d, <5>1
        <5> QED
          BY <2>c, <5>1, <5>2
      <4>2. ASSUME NEW k \in 1..Len(c) + Len(b), k <= Len(c)
            PROVE  its[k] = c[k]
        BY <2>a, <2>c, <2>d, <4>2
      <4> QED
        BY <4>1, <4>2
    <3>2. Len(its) = Len(c) + Len(b)
      BY <2>a, <2>c, <2>d
    <3> QED
      BY <2>c, <2>d, <3>1, <3>2, ConcatIs
  <2> QED
    BY <2>2, <2>3 DEF o, c
<1>4. x \in Seq(Characters) /\ y \in Seq(Characters) /\ z \in Seq(Characters)
  BY <1>1, PrintedIs, PieceTyped
<1> HIDE DEF a, b, item
<1>5. a \o One(item) \in Seq(Items)
  BY <1>1, <1>2
<1>6. Printed(a \o One(item)) = x \o y
  BY <1>1, <1>2, PrintedConcat, PrintedOne
<1>7. Printed(its) = (x \o y) \o z
  BY <1>1, <1>3, <1>5, <1>6, PrintedConcat
<1>8. Before(its, n) = Len(x) /\ Before(its, n + 1) = Len(x \o y)
  BY <1>3, <1>6 DEF Before, a
<1> HIDE DEF x, y, z
<1>9. Len(x \o y) = Len(x) + Len(y) /\ Begins((x \o y) \o z, Len(x), y)
  BY <1>4 DEF Begins
<1> QED
  BY <1>4, <1>7, <1>8, <1>9 DEF y, item

\* The states of the parser at its turns.
Run(f, p) ==
    /\ f \in [0..Len(p) -> ParseStates]
    /\ f[0] = ParseStart
    /\ \A k \in 1..Len(p) : f[k] = Turn(p, f[k - 1])

LEMMA ParseRuns ==
    ASSUME NEW p \in Seq(Characters)
    PROVE  \E f : Run(f, p) /\ Parse(p) = ParseEnd(f[Len(p)])
<1> DEFINE n == Len(p)
           F(f) == f = [k \in 0..n |-> IF k = 0 THEN ParseStart ELSE Turn(p, f[k - 1])]
           D == [k \in 1..n |-> [st \in ParseStates |-> Turn(p, st)]]
<1>1. n \in Nat /\ ParseStart \in ParseStates
  BY DEF ParseStart, Loop, ParseStates
<1>2. \A st \in ParseStates : Turn(p, st) \in ParseStates
  BY TurnTyped
<1>3. Parse(p) = ParseEnd((CHOOSE f : F(f))[n])
  BY Zenon DEF Parse
<1> HIDE DEF n
<1>4. Steps(D, n, ParseStates)
  BY <1>1, <1>2 DEF Steps
<1>5. PICK g : Computes(g, ParseStart, D, n, ParseStates)
  <2> HIDE DEF D
  <2> QED
    BY <1>1, <1>4, Recursion
<1>6. /\ g \in [0..n -> ParseStates] /\ g[0] = ParseStart
      /\ \A k \in 1..n : k - 1 \in 0..n /\ g[k] = D[k][g[k - 1]]
  <2>1. \A k \in 1..n : k - 1 \in 0..n
    BY <1>1
  <2> HIDE DEF D
  <2> QED
    BY <1>5, <2>1, Zenon DEF Computes
<1>7. \A k \in 1..n : g[k] = Turn(p, g[k - 1])
  <2>1. ASSUME NEW k \in 1..n
        PROVE  g[k] = Turn(p, g[k - 1])
    <3>1. g[k - 1] \in ParseStates /\ g[k] = D[k][g[k - 1]]
      BY <1>6
    <3> QED
      BY <3>1, Zenon
  <2> QED
    BY <2>1
<1>8. F(g)
  <2>1. \A k \in 0..n : g[k] = IF k = 0 THEN ParseStart ELSE Turn(p, g[k - 1])
    <3>1. \A k \in 0..n : k = 0 \/ k \in 1..n
      BY <1>1
    <3> QED
      BY <1>6, <1>7, <3>1
  <2>2. DOMAIN g = 0..n /\ g = [k \in DOMAIN g |-> g[k]]
    BY <1>6
  <2> QED
    BY <2>1, <2>2, Zenon
<1>9. PICK f : F(f) /\ Parse(p) = ParseEnd(f[n])
  <2> HIDE DEF F
  <2> QED
    BY <1>3, <1>8, Zenon
<1>10. \A k \in 0..n : f[k] = IF k = 0 THEN ParseStart ELSE Turn(p, f[k - 1])
  BY <1>9, Zenon
<1>11. f = g
  <2> DEFINE T == {k \in Nat : k \in 0..n => f[k] = g[k]}
  <2>1. 0 \in T
    BY <1>1, <1>6, <1>10
  <2>2. ASSUME NEW k \in T
        PROVE  k + 1 \in T
    <3>1. ASSUME k + 1 \in 0..n
          PROVE  f[k + 1] = g[k + 1]
      <4>1. k \in Nat /\ k \in 0..n /\ k + 1 \in 1..n /\ (k + 1) - 1 = k /\ k + 1 # 0
        BY <1>1, <3>1
      <4>2. f[k] = g[k]
        BY <4>1
      <4> HIDE DEF T
      <4>3. f[k + 1] = Turn(p, f[k]) /\ g[k + 1] = Turn(p, g[k])
        BY <1>7, <1>10, <3>1, <4>1, Zenon
      <4> QED
        BY <4>2, <4>3
    <3> QED
      BY <3>1
  <2>3. T = Nat
    <3>1. T \in SUBSET Nat
      OBVIOUS
    <3> HIDE DEF T
    <3> QED
      BY <2>1, <2>2, <3>1, Induction
  <2>4. \A k \in 0..n : f[k] = g[k]
    BY <1>1, <2>3
  <2>5. DOMAIN f = 0..n /\ f = [k \in DOMAIN f |-> f[k]] /\ DOMAIN g = 0..n /\ g = [k \in DOMAIN g |-> g[k]]
    BY <1>6, <1>9, Zenon
  <2> QED
    BY <2>4, <2>5, Zenon
<1>12. Run(g, p)
  BY <1>6, <1>7 DEF Run, n
<1> QED
  BY <1>9, <1>11, <1>12 DEF n

LEMMA SignsEnd ==
    /\ Percent \in EndsName /\ Open \in EndsName /\ Close \notin EndsName
    /\ Percent # Close /\ Percent # Open /\ Open # Close
<1>1. Percent # Close
  BY Zenon DEF Percent, Close
<1>2. Percent # Open
  BY Zenon DEF Percent, Open
<1>3. Open # Close
  BY Zenon DEF Open, Close
<1> QED
  BY <1>1, <1>2, <1>3, LettersAssumption DEF EndsName, Characters

LEMMA NextIndexIs ==
    ASSUME NEW p \in Seq(Characters), NEW i \in Nat, i <= Len(p), NEW n \in i + 1..Len(p), NEW chars,
           p[n] \in chars, \A k \in i + 1..n - 1 : p[k] \notin chars
    PROVE  NextIndex(p, i, chars) = n
<1> DEFINE m == NextIndex(p, i, chars)
<1>1. /\ m \in i + 1..Len(p) + 1
      /\ m <= Len(p) => p[m] \in chars
      /\ \A k \in i + 1..m - 1 : p[k] \notin chars
  BY NextIndexAt
<1>i. i \in Nat /\ n \in Nat /\ Len(p) \in Nat /\ i < n /\ n <= Len(p)
  OBVIOUS
<1> HIDE DEF m
<1>m. m \in Nat /\ i < m
  <2>1. m \in i + 1..Len(p) + 1
    BY <1>1
  <2> QED
    BY <1>i, <2>1
<1>2. m < n \/ m > n \/ m = n
  BY <1>i, <1>m
<1>3. ~(m < n)
  <2>1. m < n => m \in i + 1..n - 1 /\ m <= Len(p)
    BY <1>i, <1>m
  <2> QED
    BY <1>1, <2>1
<1>4. ~(m > n)
  <2>1. m > n => n \in i + 1..m - 1
    BY <1>i, <1>m
  <2> QED
    BY <1>1, <2>1
<1> QED
  BY <1>2, <1>3, <1>4 DEF m

LEMMA ItemFacts ==
    ASSUME NEW item \in Items
    PROVE  /\ item.name \in Seq(Characters) /\ item.param \in Seq(Characters)
           /\ item.kind = "item" => Item(item.name, item.param) = item
           /\ item.kind = "text" /\ item.param = <<>> => Text(item.name) = item
BY DEF Items, Item, Text

LEMMA ConcatParts ==
    ASSUME NEW S, NEW x \in Seq(S), NEW y \in Seq(S)
    PROVE  /\ x \o y \in Seq(S) /\ Len(x \o y) = Len(x) + Len(y) /\ Len(x) \in Nat /\ Len(y) \in Nat
           /\ \A k \in 1..Len(x) : (x \o y)[k] = x[k]
           /\ \A k \in 1..Len(y) : (x \o y)[Len(x) + k] = y[k]
OBVIOUS

\* A format item is printed as a sign, its name, a brace, its parameter, and a brace.
LEMMA PieceSigns ==
    ASSUME NEW item \in Items, item.kind # "text"
    PROVE  LET l == Len(item.name)
               m == Len(item.param)
               s == Piece(item)
           IN  /\ Len(s) = l + m + 3
               /\ s[1] = Percent /\ s[l + 2] = Open /\ s[l + m + 3] = Close
               /\ \A k \in 1..l : s[k + 1] = item.name[k]
               /\ \A k \in 1..m : s[l + 2 + k] = item.param[k]
<1>1. item.name \in Seq(Characters) /\ item.param \in Seq(Characters)
  BY ItemFacts
<1>2. PICK a \in Seq(Characters) : a = One(Percent) /\ Len(a) = 1 /\ a[1] = Percent
  BY SignsPlain, OneIs
<1>3. PICK b \in Seq(Characters) : b = One(Open) /\ Len(b) = 1 /\ b[1] = Open
  BY SignsPlain, OneIs
<1>4. PICK c \in Seq(Characters) : c = One(Close) /\ Len(c) = 1 /\ c[1] = Close
  BY SignsPlain, OneIs
<1> DEFINE x == item.name
           y == item.param
<1>5. Piece(item) = a \o x \o b \o y \o c
  BY <1>2, <1>3, <1>4 DEF Piece
<1>6. x \in Seq(Characters) /\ y \in Seq(Characters) /\ Len(x) \in Nat /\ Len(y) \in Nat
  BY <1>1
<1> HIDE DEF x, y
<1> DEFINE u == a \o x
           v == u \o b
           w == v \o y
           s == w \o c
<1>7. u \in Seq(Characters) /\ Len(u) = Len(x) + 1 /\ u[1] = Percent /\ \A k \in 1..Len(x) : u[1 + k] = x[k]
  <2>1. /\ u \in Seq(Characters) /\ Len(u) = Len(a) + Len(x)
        /\ \A k \in 1..Len(a) : u[k] = a[k]
        /\ \A k \in 1..Len(x) : u[Len(a) + k] = x[k]
    BY <1>6, ConcatParts
  <2> QED
    BY <1>2, <1>6, <2>1
<1> HIDE DEF u
<1>8. /\ v \in Seq(Characters) /\ Len(v) = Len(x) + 2 /\ v[Len(x) + 2] = Open
      /\ \A k \in 1..Len(x) + 1 : v[k] = u[k]
  <2>1. /\ v \in Seq(Characters) /\ Len(v) = Len(u) + Len(b)
        /\ \A k \in 1..Len(u) : v[k] = u[k]
        /\ \A k \in 1..Len(b) : v[Len(u) + k] = b[k]
    <3>1. u \in Seq(Characters) /\ b \in Seq(Characters)
      BY <1>6, <1>7
    <3> QED
      BY <3>1, ConcatParts
  <2>2. 1 \in 1..Len(b) /\ Len(u) + 1 = Len(x) + 2 /\ Len(u) + Len(b) = Len(x) + 2
    BY <1>3, <1>6, <1>7
  <2> QED
    BY <1>3, <1>7, <2>1, <2>2
<1> HIDE DEF v
<1>9. /\ w \in Seq(Characters) /\ Len(w) = Len(x) + Len(y) + 2 /\ \A k \in 1..Len(y) : w[Len(x) + 2 + k] = y[k]
      /\ \A k \in 1..Len(x) + 2 : w[k] = v[k]
  <2>1. /\ w \in Seq(Characters) /\ Len(w) = Len(v) + Len(y)
        /\ \A k \in 1..Len(v) : w[k] = v[k]
        /\ \A k \in 1..Len(y) : w[Len(v) + k] = y[k]
    <3>1. v \in Seq(Characters) /\ y \in Seq(Characters)
      BY <1>6, <1>8
    <3> QED
      BY <3>1, ConcatParts
  <2> QED
    BY <1>6, <1>8, <2>1
<1> HIDE DEF w
<1>10. /\ Len(s) = Len(x) + Len(y) + 3 /\ s[Len(x) + Len(y) + 3] = Close
       /\ \A k \in 1..Len(x) + Len(y) + 2 : s[k] = w[k]
  <2>1. /\ Len(s) = Len(w) + Len(c)
        /\ \A k \in 1..Len(w) : s[k] = w[k]
        /\ \A k \in 1..Len(c) : s[Len(w) + k] = c[k]
    <3>1. w \in Seq(Characters) /\ c \in Seq(Characters)
      BY <1>6, <1>9
    <3> QED
      BY <3>1, ConcatParts
  <2>2. 1 \in 1..Len(c) /\ Len(w) + 1 = Len(x) + Len(y) + 3 /\ Len(w) + Len(c) = Len(x) + Len(y) + 3
    BY <1>4, <1>6, <1>9
  <2> QED
    BY <1>4, <1>9, <2>1, <2>2
<1>11. Piece(item) = s
  BY <1>5 DEF u, v, w
<1> HIDE DEF s
<1>12. s[1] = Percent /\ s[Len(x) + 2] = Open
  <2>1. /\ 1 \in 1..Len(x) + 1 /\ 1 \in 1..Len(x) + 2 /\ 1 \in 1..Len(x) + Len(y) + 2
        /\ Len(x) + 2 \in 1..Len(x) + 2 /\ Len(x) + 2 \in 1..Len(x) + Len(y) + 2
    BY <1>6
  <2>2. s[1] = w[1] /\ w[1] = v[1] /\ v[1] = u[1] /\ s[Len(x) + 2] = w[Len(x) + 2] /\ w[Len(x) + 2] = v[Len(x) + 2]
    BY <1>8, <1>9, <1>10, <2>1
  <2> QED
    BY <1>7, <1>8, <2>2
<1>13. ASSUME NEW k \in 1..Len(x)
       PROVE  s[k + 1] = x[k]
  <2>1. 1 + k = k + 1 /\ k + 1 \in 1..Len(x) + 1 /\ k + 1 \in 1..Len(x) + 2 /\ k + 1 \in 1..Len(x) + Len(y) + 2
    BY <1>6
  <2> QED
    BY <1>7, <1>8, <1>9, <1>10, <2>1
<1>14. ASSUME NEW k \in 1..Len(y)
       PROVE  s[Len(x) + 2 + k] = y[k]
  <2>1. Len(x) + 2 + k \in 1..Len(x) + Len(y) + 2
    BY <1>6
  <2> QED
    BY <1>9, <1>10, <2>1
<1> QED
  BY <1>10, <1>11, <1>12, <1>13, <1>14 DEF x, y

LEMMA BeginsSlice ==
    ASSUME NEW p \in Seq(Characters), NEW a \in Nat, NEW x \in Seq(Characters), Begins(p, a, x)
    PROVE  SubSeq(p, a + 1, a + Len(x)) = x
<1> DEFINE l == Len(x)
           u == SubSeq(p, a + 1, a + l)
<1>1. l \in Nat /\ a + l <= Len(p) /\ \A k \in 1..l : p[a + k] = x[k]
  BY DEF Begins
<1>2. u \in Seq(Characters) /\ Len(u) = l /\ \A k \in 1..l : u[k] = p[a + k]
  <2>1. l \in Nat /\ a + l <= Len(p)
    BY <1>1
  <2> HIDE DEF l
  <2> QED
    BY <2>1
<1> HIDE DEF u
<1>3. u = x
  <2>1. \A k \in 1..l : u[k] = x[k]
    BY <1>1, <1>2
  <2> QED
    BY <1>2, <2>1
<1> QED
  BY <1>3 DEF u

\* The turn of the parser at an item that was printed.
LEMMA ItemTurn ==
    ASSUME NEW p \in Seq(Characters), NEW st \in ParseStates, NEW item \in Items,
           Proper(item), item.kind = "item", NEW b \in Nat, st.i = b + 1, Begins(p, b, Piece(item))
    PROVE  Turn(p, st) = Loop(b + 1 + Len(Piece(item)), <<>>, Append(Flushed(st), item), st.error)
<1> DEFINE i == st.i
           x == item.name
           y == item.param
           l == Len(x)
           m == Len(y)
           s == Piece(item)
<1>1. /\ x \in Seq(Characters) /\ y \in Seq(Characters) /\ l \in Nat /\ m \in Nat /\ l >= 1 /\ x # <<>>
      /\ \A k \in 1..l : x[k] \notin EndsName
      /\ \A k \in 1..m : y[k] # Close
      /\ Item(x, y) = item
  <2>1. x \in Seq(Characters) /\ y \in Seq(Characters) /\ Item(x, y) = item
    BY ItemFacts
  <2>2. /\ x # <<>>
        /\ \A k \in 1..l : x[k] \notin EndsName
        /\ \A k \in 1..m : y[k] # Close
    BY DEF Proper
  <2>3. l \in Nat /\ m \in Nat /\ l >= 1
    BY <2>1, <2>2
  <2> QED
    BY <2>1, <2>2, <2>3
<1>2. /\ Len(s) = l + m + 3
      /\ s[1] = Percent /\ s[l + 2] = Open /\ s[l + m + 3] = Close
      /\ \A k \in 1..l : s[k + 1] = x[k]
      /\ \A k \in 1..m : s[l + 2 + k] = y[k]
  BY PieceSigns
<1>p. Len(p) \in Nat /\ b \in Nat
  OBVIOUS
<1>i. i = b + 1
  OBVIOUS
<1>a. l \in Nat /\ m \in Nat /\ l >= 1 /\ Len(s) = l + m + 3
  BY <1>1, <1>2
<1>3. b + Len(s) <= Len(p) /\ \A k \in 1..Len(s) : p[b + k] = s[k]
  BY DEF Begins
<1> HIDE DEF i, x, y, l, m, s
<1>4. /\ p[i] = Percent /\ p[i + l + 1] = Open /\ p[i + l + m + 2] = Close
      /\ i + l + m + 2 <= Len(p) /\ i + l + m + 2 = b + Len(s)
  <2>1. /\ 1 \in 1..Len(s) /\ l + 2 \in 1..Len(s) /\ l + m + 3 \in 1..Len(s)
        /\ b + 1 = i /\ b + (l + 2) = i + l + 1 /\ b + (l + m + 3) = i + l + m + 2
    BY <1>a, <1>p, <1>i
  <2>2. p[b + 1] = s[1] /\ p[b + (l + 2)] = s[l + 2] /\ p[b + (l + m + 3)] = s[l + m + 3]
    BY <1>3, <2>1
  <2>3. b + Len(s) <= Len(p)
    BY <1>3
  <2>4. i + l + m + 2 <= Len(p) /\ i + l + m + 2 = b + Len(s)
    BY <1>a, <1>p, <1>i, <2>3
  <2> QED
    BY <1>2, <2>1, <2>2, <2>4
<1>5. \A k \in i + 1..i + l : p[k] = x[k - i] /\ k - i \in 1..l
  <2>1. ASSUME NEW k \in i + 1..i + l
        PROVE  p[k] = x[k - i] /\ k - i \in 1..l
    <3>1. k - i \in 1..l /\ (k - i) + 1 \in 1..Len(s) /\ b + ((k - i) + 1) = k
      BY <1>a, <1>p, <1>i, <2>1
    <3>2. p[b + ((k - i) + 1)] = s[(k - i) + 1] /\ s[(k - i) + 1] = x[k - i]
      BY <1>2, <1>3, <3>1
    <3> QED
      BY <3>1, <3>2
  <2> QED
    BY <2>1
<1>6. \A k \in i + l + 2..i + l + m + 1 : p[k] = y[k - (i + l + 1)] /\ k - (i + l + 1) \in 1..m
  <2>1. ASSUME NEW k \in i + l + 2..i + l + m + 1
        PROVE  p[k] = y[k - (i + l + 1)] /\ k - (i + l + 1) \in 1..m
    <3> DEFINE j == k - (i + l + 1)
    <3>1. j \in 1..m /\ l + 2 + j \in 1..Len(s) /\ b + (l + 2 + j) = k
      BY <1>a, <1>p, <1>i, <2>1
    <3> HIDE DEF j
    <3>2. p[b + (l + 2 + j)] = s[l + 2 + j] /\ s[l + 2 + j] = y[j]
      BY <1>2, <1>3, <3>1
    <3> QED
      BY <3>1, <3>2 DEF j
  <2> QED
    BY <2>1
<1>7. i \in Nat /\ i <= Len(p) /\ i < Len(p) /\ i + l + 1 \in i + 1..Len(p) /\ i + l + m + 2 \in i + l + 2..Len(p)
      /\ i + l + 1 <= Len(p) /\ i + l + 1 \in Nat
  <2>1. i + l + m + 2 <= Len(p)
    BY <1>4
  <2> QED
    BY <1>a, <1>p, <1>i, <2>1
<1>8. Starts(p, i)
  <2>1. i + 1 \in i + 1..i + l
    BY <1>1, <1>7
  <2>2. p[i + 1] \notin EndsName
    BY <1>1, <1>5, <2>1
  <2> QED
    BY <1>4, <1>7, <2>2, SignsEnd DEF Starts
<1>9. NameEnd(p, i) = i + l + 1
  <2>1. \A k \in i + 1..(i + l + 1) - 1 : p[k] \notin EndsName
    <3>1. (i + l + 1) - 1 = i + l
      BY <1>1, <1>7
    <3> QED
      BY <1>1, <1>5, <3>1
  <2>2. p[i + l + 1] \in EndsName
    BY <1>4, SignsEnd
  <2> DEFINE n == i + l + 1
  <2>3. n \in i + 1..Len(p) /\ p[n] \in EndsName /\ \A k \in i + 1..n - 1 : p[k] \notin EndsName
    BY <1>7, <2>1, <2>2
  <2> HIDE DEF n
  <2>4. NextIndex(p, i, EndsName) = n
    BY <1>7, <2>3, NextIndexIs
  <2> QED
    BY <2>4 DEF NameEnd, n
<1>10. HasParam(p, i)
  BY <1>4, <1>7, <1>9 DEF HasParam
<1>11. ParamEnd(p, i) = i + l + m + 2
  <2> DEFINE n == i + l + 1
             e == i + l + m + 2
  <2>1. \A k \in n + 1..e - 1 : p[k] \notin {Close}
    <3>1. n + 1 = i + l + 2 /\ e - 1 = i + l + m + 1
      BY <1>1, <1>7
    <3> HIDE DEF n, e
    <3> QED
      BY <1>1, <1>6, <3>1
  <2>2. n \in Nat /\ n <= Len(p) /\ e \in n + 1..Len(p) /\ p[e] \in {Close}
    <3>1. n + 1 = i + l + 2
      BY <1>1, <1>7
    <3> QED
      BY <1>4, <1>7, <3>1
  <2>n. NameEnd(p, i) = n
    BY <1>9
  <2> HIDE DEF n, e
  <2>3. NextIndex(p, n, {Close}) = e
    BY <2>1, <2>2, NextIndexIs
  <2> QED
    BY <2>3, <2>n DEF ParamEnd, e
<1>12. Name(p, i) = x
  <2>1. i + l <= Len(p) /\ (i + l + 1) - 1 = i + l
    BY <1>a, <1>7
  <2>2. \A k \in 1..l : i + k \in i + 1..i + l /\ (i + k) - i = k
    BY <1>a, <1>7
  <2>3. \A k \in 1..l : p[i + k] = x[k]
    BY <1>5, <2>2
  <2>4. Begins(p, i, x)
    BY <2>1, <2>3 DEF Begins, l
  <2>5. SubSeq(p, i + 1, i + l) = x
    BY <1>1, <1>7, <2>4, BeginsSlice DEF l
  <2> QED
    BY <1>9, <2>1, <2>5 DEF Name
<1>13. Param(p, i) = y
  <2> DEFINE n == i + l + 1
  <2>0. /\ n \in Nat /\ n + m <= Len(p) /\ n + 1 = i + l + 2 /\ n + m = i + l + m + 1
        /\ (i + l + m + 2) - 1 = n + m
    BY <1>a, <1>7
  <2>n. NameEnd(p, i) = n /\ \A k \in n + 1..n + m : p[k] = y[k - n]
    BY <1>6, <1>9, <2>0
  <2> HIDE DEF n
  <2>2. \A k \in 1..m : n + k \in n + 1..n + m /\ (n + k) - n = k
    BY <1>a, <2>0
  <2>3. \A k \in 1..m : p[n + k] = y[k]
    BY <2>n, <2>2
  <2>4. Begins(p, n, y)
    BY <2>0, <2>3 DEF Begins, m
  <2>5. SubSeq(p, n + 1, n + m) = y
    BY <1>1, <2>0, <2>4, BeginsSlice DEF m
  <2> QED
    BY <1>11, <2>0, <2>n, <2>5 DEF Param
<1>14. ~(ParamEnd(p, i) > Len(p)) /\ ParamEnd(p, i) + 1 = b + 1 + Len(s)
  <2>1. i + l + m + 2 <= Len(p)
    BY <1>4
  <2> QED
    BY <1>a, <1>i, <1>p, <1>11, <2>1
<1>15. Turn(p, st) = Loop(b + 1 + Len(s), <<>>, Added(Flushed(st), x, y), st.error)
  <2>1. Turn(p, st) = Loop(ParamEnd(p, i) + 1, <<>>, Added(Flushed(st), Name(p, i), Param(p, i)), st.error)
    BY <1>8, <1>10, <1>14, TurnAtParam DEF i
  <2> QED
    BY <1>12, <1>13, <1>14, <2>1
<1>16. Added(Flushed(st), x, y) = Append(Flushed(st), item)
  BY <1>1 DEF Added
<1> QED
  BY <1>15, <1>16 DEF s

\* The turns of the parser at a text that was printed, one for each character.
LEMMA TextTurns ==
    ASSUME NEW p \in Seq(Characters), NEW f, Run(f, p), NEW b \in Nat, NEW t \in 0..b, b <= Len(p),
           f[t].i = b + 1, f[t].nstr = <<>>,
           NEW s \in Seq(Characters), \A k \in 1..Len(s) : s[k] # Percent, Begins(p, b, s)
    PROVE  f[t + Len(s)] = Loop(b + 1 + Len(s), s, f[t].items, f[t].error)
<1> DEFINE its == f[t].items
           err == f[t].error
           Texts(j) == f[t + j] = Loop(b + 1 + j, SubSeq(s, 1, j), its, err)
           T == {j \in Nat : j <= Len(s) => Texts(j)}
<1>1. Len(s) \in Nat /\ Len(p) \in Nat /\ b \in Nat /\ t \in Nat /\ t <= b /\ b + Len(s) <= Len(p)
  BY DEF Begins
<1>2. \A k \in 0..Len(p) : f[k] \in ParseStates
  BY DEF Run
<1>3. 0 \in T
  <2>1. f[t] \in ParseStates
    BY <1>1, <1>2
  <2>2. f[t] = Loop(f[t].i, f[t].nstr, f[t].items, f[t].error)
    BY <2>1 DEF ParseStates, Loop
  <2>3. SubSeq(s, 1, 0) = <<>> /\ t + 0 = t /\ b + 1 + 0 = b + 1
    BY <1>1
  <2>4. Texts(0)
    BY <2>2, <2>3
  <2> HIDE DEF Texts
  <2> QED
    BY <2>4
<1>4. ASSUME NEW j \in T
      PROVE  j + 1 \in T
  <2>0. j \in Nat
    OBVIOUS
  <2>1. ASSUME j + 1 <= Len(s)
        PROVE  Texts(j + 1)
    <3>1. /\ t + (j + 1) \in 1..Len(p) /\ (t + (j + 1)) - 1 = t + j /\ t + j \in 0..Len(p)
          /\ j <= Len(s) /\ j + 1 \in 1..Len(s) /\ b + 1 + j <= Len(p) /\ b + (j + 1) = b + 1 + j
          /\ b + 1 + (j + 1) = (b + 1 + j) + 1
      <4> DEFINE l == Len(s)
                 m == Len(p)
      <4>1. l \in Nat /\ m \in Nat /\ b \in Nat /\ t \in Nat /\ t <= b /\ b + l <= m /\ j \in Nat /\ j + 1 <= l
        BY <1>1, <2>0, <2>1
      <4> HIDE DEF l, m
      <4>2. /\ t + (j + 1) \in 1..m /\ (t + (j + 1)) - 1 = t + j /\ t + j \in 0..m
            /\ j <= l /\ j + 1 \in 1..l /\ b + 1 + j <= m /\ b + (j + 1) = b + 1 + j
            /\ b + 1 + (j + 1) = (b + 1 + j) + 1
        BY <4>1
      <4> QED
        BY <4>2 DEF l, m
    <3>2. Texts(j)
      BY <3>1
    <3> DEFINE st == f[t + j]
    <3>3. /\ st \in ParseStates /\ st.i = b + 1 + j /\ st.nstr = SubSeq(s, 1, j)
          /\ st.items = its /\ st.error = err
      <4>1. st \in ParseStates
        BY <1>2, <3>1
      <4> HIDE DEF its, err
      <4> QED
        BY <3>2, <4>1 DEF Loop
    <3>4. f[t + (j + 1)] = Turn(p, st)
      BY <3>1 DEF Run
    <3> HIDE DEF st, its, err
    <3>5. p[b + 1 + j] = s[j + 1] /\ s[j + 1] # Percent
      <4>1. p[b + (j + 1)] = s[j + 1] /\ s[j + 1] # Percent
        BY <3>1 DEF Begins
      <4> QED
        BY <3>1, <4>1
    <3>6. Turn(p, st) = Loop((b + 1 + j) + 1, Append(SubSeq(s, 1, j), s[j + 1]), its, err)
      <4>1. st.i <= Len(p) /\ p[st.i] # Percent
        BY <3>1, <3>3, <3>5
      <4>2. Turn(p, st) = Loop(st.i + 1, Append(st.nstr, p[st.i]), st.items, st.error)
        BY <3>3, <4>1, TurnAtText
      <4> QED
        BY <3>3, <3>5, <4>2
    <3>7. Append(SubSeq(s, 1, j), s[j + 1]) = SubSeq(s, 1, j + 1)
      BY <1>1, <2>0, <2>1
    <3> QED
      BY <3>1, <3>4, <3>6, <3>7
  <2> HIDE DEF Texts
  <2> QED
    BY <2>0, <2>1
<1>5. T = Nat
  <2>1. T \in SUBSET Nat
    OBVIOUS
  <2> HIDE DEF T
  <2> QED
    BY <1>3, <1>4, <2>1, Induction
<1>6. Texts(Len(s))
  <2> HIDE DEF Texts
  <2> QED
    BY <1>1, <1>5
<1>7. SubSeq(s, 1, Len(s)) = s
  OBVIOUS
<1> QED
  BY <1>6, <1>7

\* A list that could have been parsed, without the texts that are not parsed as they are.
Parsed(its) ==
    /\ its \in Seq(Items) /\ AllProper(its)
    /\ \A k \in 1..Len(its) : its[k].kind = "text" => \A n \in 1..Len(its[k].name) : its[k].name[n] # Percent
    /\ \A k \in 2..Len(its) : ~(its[k - 1].kind = "text" /\ its[k].kind = "text")

\* The parser has come to the end of the n-th item, as st after t turns.
Reached(st, t, its, n) ==
    /\ t \in 0..Before(its, n) /\ st.i = Before(its, n) + 1 /\ ~st.error
    /\ Flushed(st) = SubSeq(its, 1, n)
    /\ n = 0 \/ its[n].kind = "item" => st.nstr = <<>>

LEMMA ReachedNext ==
    ASSUME NEW its, Parsed(its), NEW f, Run(f, Printed(its)), NEW n \in 0..Len(its) - 1,
           NEW t, Reached(f[t], t, its, n)
    PROVE  \E u : Reached(f[u], u, its, n + 1)
<1> DEFINE p == Printed(its)
           item == its[n + 1]
           b == Before(its, n)
           s == Piece(item)
           st == f[t]
<1>0. its \in Seq(Items) /\ Len(its) \in Nat /\ n \in Nat /\ n + 1 \in 1..Len(its) /\ n + 1 # 0
  BY DEF Parsed
<1>1. item \in Items /\ Proper(item) /\ p \in Seq(Characters) /\ s \in Seq(Characters)
  <2>1. item \in Items
    BY <1>0
  <2> QED
    BY <1>0, <2>1, PrintedIs, PieceTyped DEF Parsed, AllProper
<1>2. b \in Nat /\ Before(its, n + 1) = b + Len(s) /\ Begins(p, b, s)
  BY <1>0, PrintedPlaces
<1>3. /\ t \in 0..b /\ st.i = b + 1 /\ ~st.error /\ Flushed(st) = SubSeq(its, 1, n)
      /\ n = 0 \/ its[n].kind = "item" => st.nstr = <<>>
  BY DEF Reached
<1>4. SubSeq(its, 1, n + 1) = Append(SubSeq(its, 1, n), item)
  BY <1>0
<1>5. Len(s) \in Nat /\ Len(p) \in Nat /\ b + Len(s) <= Len(p) /\ t \in Nat /\ t <= b
  BY <1>1, <1>2, <1>3 DEF Begins
<1>6. st \in ParseStates
  <2>1. t \in 0..Len(p)
    BY <1>2, <1>5
  <2> QED
    BY <2>1 DEF Run
<1>k. item.kind = "item" \/ item.kind = "text"
  BY <1>1 DEF Proper
<1> HIDE DEF p, item, b, s, st
<1>7. CASE item.kind = "item"
  <2>1. Turn(p, st) = Loop(b + 1 + Len(s), <<>>, Append(Flushed(st), item), st.error)
    BY <1>1, <1>2, <1>3, <1>6, <1>7, ItemTurn DEF s
  <2>2. Len(s) >= 1
    <3>1. Len(s) = Len(item.name) + Len(item.param) + 3 /\ item.name \in Seq(Characters) /\ item.param \in Seq(Characters)
      BY <1>1, <1>7, PieceSigns, ItemFacts DEF s
    <3> DEFINE l == Len(item.name)
               m == Len(item.param)
    <3>2. l \in Nat /\ m \in Nat /\ Len(s) = l + m + 3
      BY <3>1
    <3> HIDE DEF l, m
    <3> QED
      BY <3>2
  <2>3. t + 1 \in 1..Len(p) /\ (t + 1) - 1 = t /\ t + 1 \in 0..b + Len(s)
    BY <1>2, <1>5, <2>2
  <2>4. f[t + 1] = Turn(p, st)
    BY <2>3 DEF Run, p, st
  <2>5. f[t + 1] = Loop(b + 1 + Len(s), <<>>, SubSeq(its, 1, n + 1), st.error)
    BY <1>3, <1>4, <2>1, <2>4
  <2>6. /\ f[t + 1].i = b + 1 + Len(s) /\ f[t + 1].nstr = <<>> /\ f[t + 1].items = SubSeq(its, 1, n + 1)
        /\ f[t + 1].error = st.error
    BY <2>5 DEF Loop
  <2>7. b + 1 + Len(s) = (b + Len(s)) + 1
    BY <1>2, <1>5
  <2>8. Reached(f[t + 1], t + 1, its, n + 1)
    BY <1>2, <1>3, <2>3, <2>6, <2>7 DEF Reached, Flushed
  <2> QED
    BY <2>8
<1>8. CASE item.kind = "text"
  <2>1. n = 0 \/ its[n].kind = "item"
    <3>1. CASE n # 0
      <4>1. n + 1 \in 2..Len(its) /\ (n + 1) - 1 = n /\ n \in 1..Len(its)
        BY <1>0, <3>1
      <4>2. its[n].kind # "text"
        BY <1>8, <4>1 DEF Parsed, item
      <4>3. Proper(its[n])
        BY <4>1 DEF Parsed, AllProper
      <4> QED
        BY <4>2, <4>3 DEF Proper
    <3> QED
      BY <3>1
  <2>2. st.nstr = <<>> /\ st.items = SubSeq(its, 1, n)
    BY <1>3, <2>1 DEF Flushed
  <2>3. s = item.name /\ s # <<>> /\ Text(s) = item
    <3>1. s = item.name
      BY <1>8 DEF s, Piece
    <3>2. item.name # <<>> /\ item.param = <<>>
      BY <1>1, <1>8 DEF Proper
    <3> QED
      BY <1>1, <1>8, <3>1, <3>2, ItemFacts
  <2>4. \A k \in 1..Len(s) : s[k] # Percent
    BY <1>0, <1>8, <2>3 DEF Parsed, item
  <2>5. f[t + Len(s)] = Loop(b + 1 + Len(s), s, st.items, st.error)
    <3>1. b <= Len(p)
      BY <1>2, <1>5
    <3>2. Run(f, p) /\ f[t].i = b + 1 /\ f[t].nstr = <<>>
      BY <1>3, <2>2 DEF p, st
    <3>3. f[t + Len(s)] = Loop(b + 1 + Len(s), s, f[t].items, f[t].error)
      BY <1>1, <1>2, <1>3, <2>4, <3>1, <3>2, TextTurns
    <3> QED
      BY <3>3 DEF st
  <2> DEFINE u == t + Len(s)
  <2>6. f[u].i = b + 1 + Len(s) /\ f[u].nstr = s /\ f[u].items = st.items /\ f[u].error = st.error
    BY <2>5 DEF Loop
  <2>7. u \in 0..b + Len(s) /\ b + 1 + Len(s) = (b + Len(s)) + 1
    BY <1>2, <1>5
  <2> HIDE DEF u
  <2>8. Flushed(f[u]) = SubSeq(its, 1, n + 1)
    BY <1>4, <2>2, <2>3, <2>6 DEF Flushed
  <2>9. ~(n + 1 = 0 \/ its[n + 1].kind = "item")
    BY <1>0, <1>8 DEF item
  <2>10. Reached(f[u], u, its, n + 1)
    BY <1>2, <1>3, <2>6, <2>7, <2>8, <2>9 DEF Reached
  <2> QED
    BY <2>10
<1> QED
  BY <1>k, <1>7, <1>8

LEMMA Reparsed ==
    ASSUME NEW its, Parsed(its)
    PROVE  Parse(Printed(its)).items = [k \in DOMAIN its |-> LookedUp(its[k])]
<1> DEFINE p == Printed(its)
<1>0. its \in Seq(Items) /\ Len(its) \in Nat /\ p \in Seq(Characters) /\ Len(p) \in Nat
  <2>1. its \in Seq(Items)
    BY DEF Parsed
  <2>2. p \in Seq(Characters)
    BY <2>1, PrintedIs
  <2> HIDE DEF p
  <2> QED
    BY <2>1, <2>2
<1>1. PICK f : Run(f, p) /\ Parse(p) = ParseEnd(f[Len(p)])
  BY <1>0, ParseRuns
<1> DEFINE T == {n \in Nat : n <= Len(its) => \E t : Reached(f[t], t, its, n)}
<1>2. 0 \in T
  <2>1. f[0] = ParseStart
    BY <1>1 DEF Run
  <2>2. f[0].i = 1 /\ f[0].nstr = <<>> /\ f[0].items = <<>> /\ f[0].error = FALSE
    BY <2>1 DEF ParseStart, Loop
  <2>3. SubSeq(its, 1, 0) = <<>>
    BY <1>0
  <2>4. Before(its, 0) = 0
    <3>1. Printed(<<>>) = <<>>
      <4>1. Pieces(<<>>) = <<>> /\ <<>> \in Seq(Items)
        BY DEF Pieces
      <4> QED
        BY <4>1, PrintedIs, FlattenEmpty
    <3>2. Len(<<>>) = 0
      OBVIOUS
    <3> QED
      BY <2>3, <3>1, <3>2, Zenon DEF Before
  <2>5. Reached(f[0], 0, its, 0)
    BY <2>2, <2>3, <2>4 DEF Reached, Flushed
  <2> QED
    BY <2>5
<1>3. ASSUME NEW n \in T
      PROVE  n + 1 \in T
  <2>0. n \in Nat
    OBVIOUS
  <2>1. ASSUME n + 1 <= Len(its)
        PROVE  \E t : Reached(f[t], t, its, n + 1)
    <3>1. n \in 0..Len(its) - 1 /\ n <= Len(its)
      BY <1>0, <2>0, <2>1
    <3>2. PICK t : Reached(f[t], t, its, n)
      BY <3>1
    <3> HIDE DEF T
    <3> QED
      BY <1>1, <3>1, <3>2, ReachedNext
  <2> QED
    BY <2>0, <2>1
<1>4. T = Nat
  <2>1. T \in SUBSET Nat
    OBVIOUS
  <2> HIDE DEF T
  <2> QED
    BY <1>2, <1>3, <2>1, Induction
<1>5. PICK t : Reached(f[t], t, its, Len(its))
  BY <1>0, <1>4
<1> HIDE DEF T, p
<1>6. SubSeq(its, 1, Len(its)) = its
  BY <1>0
<1>7. Before(its, Len(its)) = Len(p)
  BY <1>6 DEF Before, p
<1>8. t \in 0..Len(p) /\ f[t].i = Len(p) + 1 /\ Flushed(f[t]) = its
  BY <1>5, <1>6, <1>7 DEF Reached
<1> DEFINE U == {j \in Nat : t + j \in 0..Len(p) => f[t + j] = f[t]}
<1>9. 0 \in U
  BY <1>0, <1>8
<1>10. ASSUME NEW j \in U
       PROVE  j + 1 \in U
  <2>0. j \in Nat
    OBVIOUS
  <2>1. ASSUME t + (j + 1) \in 0..Len(p)
        PROVE  f[t + (j + 1)] = f[t]
    <3>1. t + (j + 1) \in 1..Len(p) /\ (t + (j + 1)) - 1 = t + j /\ t + j \in 0..Len(p)
      BY <1>0, <1>8, <2>0, <2>1
    <3>2. f[t + j] = f[t]
      BY <3>1
    <3> HIDE DEF U
    <3>3. f[t + (j + 1)] = Turn(p, f[t])
      BY <1>1, <3>1, <3>2 DEF Run
    <3>4. f[t] \in ParseStates /\ ~(f[t].i <= Len(p))
      BY <1>0, <1>1, <1>8 DEF Run
    <3> QED
      BY <1>0, <3>3, <3>4, TurnPast
  <2> QED
    BY <2>0, <2>1
<1>11. U = Nat
  <2>1. U \in SUBSET Nat
    OBVIOUS
  <2> HIDE DEF U
  <2> QED
    BY <1>9, <1>10, <2>1, Induction
<1>12. f[Len(p)] = f[t]
  <2>1. Len(p) - t \in Nat /\ t + (Len(p) - t) = Len(p) /\ Len(p) \in 0..Len(p)
    BY <1>0, <1>8
  <2> QED
    BY <1>11, <2>1
<1>13. Parse(p).items = ParseEnd(f[t]).items
  BY <1>1, <1>12
<1> QED
  BY <1>8, <1>13 DEF ParseEnd, p

\* The table of the format items changes nothing of how an item is printed.
LEMMA LookedUpIs ==
    ASSUME NEW item \in Items
    PROVE  /\ LookedUp(item) \in Items /\ LookedUp(item).name = item.name
           /\ LookedUp(item).kind = "text" <=> item.kind = "text"
           /\ Piece(LookedUp(item)) = Piece(item)
<1>1. CASE item.kind = "item" /\ item.name \notin KnownItems
  <2>1. LookedUp(item) = [item EXCEPT !.kind = "error_format"]
    BY <1>1 DEF LookedUp
  <2>2. /\ LookedUp(item) \in Items /\ LookedUp(item).name = item.name /\ LookedUp(item).param = item.param
        /\ LookedUp(item).kind = "error_format"
    BY <2>1 DEF Items, Kinds
  <2> QED
    BY <1>1, <2>2 DEF Piece
<1>2. CASE ~(item.kind = "item" /\ item.name \notin KnownItems)
  BY <1>2 DEF LookedUp
<1> QED
  BY <1>1, <1>2

\* Parse: what a pattern was parsed to, printed with every parameter in braces, is parsed to the
\* same items, for patterns and texts of any length and any table of format items.
THEOREM ItemsReparse == Spec => []ItemsParsed
<1>1. TypeInv /\ ItemsInv => ItemsParsed
  <2> SUFFICES ASSUME TypeInv, ItemsInv, ~parse.error,
                      ~\E k \in DOMAIN m_items :
                          /\ m_items[k].kind = "text"
                          /\ Percent \in {m_items[k].name[n] : n \in DOMAIN m_items[k].name},
                      ~\E k \in 2..Len(m_items) : m_items[k - 1].kind = "text" /\ m_items[k].kind = "text"
               PROVE  Parse(Printed(m_items)).items = m_items
    BY Zenon DEF ItemsParsed
  <2> DEFINE its == Flushed(parse)
  <2>0. parse \in ParseStates /\ m_items \in Seq(Items)
    BY DEF TypeInv
  <2>1. CASE ~Constructed
    <3>1. m_items = <<>>
      BY <2>1 DEF ItemsInv
    <3>2. Parsed(<<>>)
      BY DEF Parsed, AllProper
    <3>3. Parse(Printed(<<>>)).items = [k \in DOMAIN <<>> |-> LookedUp(<<>>[k])]
      BY <3>2, Reparsed
    <3>4. [k \in DOMAIN <<>> |-> LookedUp(<<>>[k])] = <<>>
      OBVIOUS
    <3> QED
      BY <3>1, <3>3, <3>4
  <2>2. CASE Constructed
    <3>1. its \in Seq(Items) /\ AllProper(its)
      BY <2>0, FlushedTyped, ProperFlushed DEF ItemsInv
    <3>2. m_items = [k \in DOMAIN its |-> LookedUp(its[k])]
      BY <2>2 DEF ItemsInv, ParseEnd
    <3> HIDE DEF its
    <3>3. DOMAIN its = 1..Len(its) /\ \A k \in 1..Len(its) : its[k] \in Items
      BY <3>1
    <3>4. /\ Len(m_items) = Len(its) /\ DOMAIN m_items = 1..Len(its)
          /\ \A k \in 1..Len(its) : m_items[k] = LookedUp(its[k])
      <4>1. DOMAIN m_items = 1..Len(its) /\ \A k \in 1..Len(its) : m_items[k] = LookedUp(its[k])
        BY <3>2, <3>3
      <4>2. Len(its) \in Nat
        BY <3>1
      <4> QED
        BY <2>0, <4>1, <4>2
    <3>5. \A k \in 1..Len(its) : /\ m_items[k].name = its[k].name
                                 /\ m_items[k].kind = "text" <=> its[k].kind = "text"
                                 /\ Piece(m_items[k]) = Piece(its[k])
      BY <3>3, <3>4, LookedUpIs
    <3>6. Parsed(its)
      <4>1. ASSUME NEW k \in 1..Len(its), its[k].kind = "text", NEW n \in 1..Len(its[k].name)
            PROVE  its[k].name[n] # Percent
        <5>1. k \in DOMAIN m_items /\ m_items[k].kind = "text" /\ m_items[k].name = its[k].name
          BY <3>4, <3>5, <4>1
        <5>2. n \in DOMAIN m_items[k].name
          <6>1. its[k].name \in Seq(Characters)
            BY <3>3, ItemFacts
          <6> QED
            BY <4>1, <5>1, <6>1
        <5> QED
          BY <5>1, <5>2
      <4>2. ASSUME NEW k \in 2..Len(its), its[k - 1].kind = "text", its[k].kind = "text"
            PROVE  FALSE
        <5>1. k \in 1..Len(its) /\ k - 1 \in 1..Len(its) /\ k \in 2..Len(m_items)
          BY <3>1, <3>4, <4>2
        <5> QED
          BY <3>5, <4>2, <5>1
      <4> QED
        BY <3>1, <4>1, <4>2 DEF Parsed
    <3>7. Printed(m_items) = Printed(its)
      <4>1. Pieces(m_items) = Pieces(its)
        BY <3>4, <3>5, Zenon DEF Pieces
      <4> QED
        BY <2>0, <3>1, <4>1, PrintedIs
    <3>8. Parse(Printed(its)).items = m_items
      BY <3>2, <3>6, Reparsed
    <3> QED
      BY <3>7, <3>8
  <2> QED
    BY <2>1, <2>2
<1> QED
  BY <1>1, Typed, ItemsProper, PTL
=============================================================================
