---------------------------- MODULE LoggersProofs ----------------------------
(***************************************************************************)
(* What TLAPS proves of Loggers for every set of names, patterns, files,   *)
(* documents and users, and any number of SetValues.                       *)
(*                                                                         *)
(* The listener is a loop over names with a loop over appenders in it,     *)
(* interleaved with the users.  The invariants follow it, each on top of   *)
(* the ones before: TypeInv; NamesInv, which name leads to which logger;   *)
(* CutInv, root keeps an appender while another logger is without;         *)
(* ProgressInv, what set says fits the value that is being set; NamedInv,  *)
(* the values in force have one entry for a name; ConfigInv, where every   *)
(* logger is between its old entry and its new one.                        *)
(***************************************************************************)
EXTENDS Loggers, SequenceFacts

Formats == Patterns \cup {DefaultPattern}
Levels == 0..5

\* An appender of a logger: it has a formatter that counts as its own, also if it is the logger's.
\* Only a FileLogAppender has a file.
Appenders ==
    {a \in [type : {"StdOut", "File"}, file : Files \cup {Missing}, level : Levels \ {0},
            m_hasFormatter : {TRUE}, formatter : Formats] : (a.type = "File") <=> (a.file # Missing)}
LoggerObjects == [name : Names, level : Levels, formatter : Formats, appenders : Seq(Appenders)]

AppenderConfigs ==
    {a \in [type : {"StdOut", "File"}, file : Files \cup {Missing}, level : {0, DEBUG, INFO},
            formatter : Formats \cup {Missing}] : (a.type = "File") <=> (a.file # Missing)}
Configs == [level : {0, DEBUG, INFO}, formatter : Formats \cup {Missing}, appenders : Seq(AppenderConfigs)]
Values == UNION {[D -> Configs] : D \in SUBSET Names}

Maps == UNION {[D -> Nat] : D \in SUBSET Names}
SetStates == [pc : {"idle", "get", "clear", "level", "format", "append", "delete"}, new : Values,
              rest : SUBSET Names, name : Names, ptr : Nat, i : Nat, touched : SUBSET Names]

\* The listener is at the entry set.name, whose logger is at set.ptr.
AtEntry == set.pc \in {"clear", "level", "format", "append"}

TypeInv ==
    /\ logger \in Seq(LoggerObjects) /\ Len(logger) >= 1 /\ logger[1].name = Root
    /\ m_loggers \in Maps /\ \A n \in DOMAIN m_loggers : m_loggers[n] \in 1..Len(logger)
    /\ m_val \in Values
    /\ set \in SetStates
    /\ AtEntry => set.ptr \in 1..Len(logger) /\ set.name \in DOMAIN set.new /\ set.i >= 1
    /\ AtEntry \/ set.pc = "get" => set.rest \subseteq DOMAIN set.new
    /\ set.pc = "delete" => set.rest \subseteq DOMAIN m_val \ DOMAIN set.new
    /\ handle \in [Users -> Nat] /\ \A u \in Users : handle[u] <= Len(logger)

-----------------------------------------------------------------------------
LEMMA ObjectFields ==
    ASSUME NEW l \in LoggerObjects
    PROVE  /\ l.name \in Names /\ l.level \in Levels /\ l.formatter \in Formats
           /\ l.appenders \in Seq(Appenders)
BY DEF LoggerObjects

LEMMA ConfigFields ==
    ASSUME NEW v \in Values, NEW n \in DOMAIN v
    PROVE  /\ n \in Names /\ v[n] \in Configs
           /\ v[n].level \in {0, DEBUG, INFO} /\ v[n].formatter \in Formats \cup {Missing}
           /\ v[n].appenders \in Seq(AppenderConfigs)
BY DEF Values, Configs

LEMMA AppenderFields ==
    ASSUME NEW a \in AppenderConfigs
    PROVE  /\ a.type \in {"StdOut", "File"} /\ a.file \in Files \cup {Missing} /\ a.level \in {0, DEBUG, INFO}
           /\ a.formatter \in Formats \cup {Missing} /\ (a.type = "File" <=> a.file # Missing)
           /\ a = [type |-> a.type, file |-> a.file, level |-> a.level, formatter |-> a.formatter]
BY DEF AppenderConfigs

LEMMA NewLoggerTyped ==
    ASSUME NEW n \in Names
    PROVE  NewLogger(n) \in LoggerObjects /\ NewLogger(n).name = n /\ NewLogger(n).appenders = <<>>
BY DEF NewLogger, LoggerObjects, Levels, Formats, DEBUG

LEMMA AppenderIs ==
    ASSUME NEW a \in Appenders
    PROVE  /\ a.type \in {"StdOut", "File"} /\ a.file \in Files \cup {Missing} /\ a.level \in Levels \ {0}
           /\ a.m_hasFormatter /\ a.formatter \in Formats /\ (a.type = "File" <=> a.file # Missing)
           /\ a = [type |-> a.type, file |-> a.file, level |-> a.level, m_hasFormatter |-> TRUE,
                   formatter |-> a.formatter]
BY DEF Appenders

LEMMA AppenderMade ==
    ASSUME NEW t \in {"StdOut", "File"}, NEW f \in Files \cup {Missing}, NEW v \in Levels \ {0},
           NEW g \in Formats, (t = "File") <=> (f # Missing)
    PROVE  [type |-> t, file |-> f, level |-> v, m_hasFormatter |-> TRUE, formatter |-> g] \in Appenders
BY DEF Appenders

\* What AddAppender adds.
LEMMA AddAppenderIs ==
    ASSUME NEW l \in LoggerObjects, NEW a, NEW b \in Appenders,
           b = IF a.m_hasFormatter THEN a ELSE WithFormatter(a, l.formatter)
    PROVE  /\ AddAppender(l, a) = [l EXCEPT !.appenders = Append(l.appenders, b)]
           /\ AddAppender(l, a) \in LoggerObjects
<1>1. AddAppender(l, a) = [l EXCEPT !.appenders = Append(l.appenders, b)]
  BY Zenon DEF AddAppender
<1>2. Append(l.appenders, b) \in Seq(Appenders)
  BY ObjectFields
<1>3. AddAppender(l, a) \in LoggerObjects
  <2> HIDE DEF AddAppender
  <2>1. \A s \in Seq(Appenders) : [l EXCEPT !.appenders = s] \in LoggerObjects
    BY DEF LoggerObjects
  <2> QED
    BY <1>1, <1>2, <2>1
<1> QED
  BY <1>1, <1>3

\* Every appender has its own formatter, so that SetFormatter with a pattern leaves them alone.
LEMMA SetPatternIs ==
    ASSUME NEW l \in LoggerObjects, NEW p \in Formats
    PROVE  /\ SetPattern(l, p) = IF IsError(p) THEN l ELSE [l EXCEPT !.formatter = p]
           /\ SetPattern(l, p) \in LoggerObjects
<1> DEFINE s == [i \in DOMAIN l.appenders |->
                    IF l.appenders[i].m_hasFormatter THEN l.appenders[i] ELSE WithFormatter(l.appenders[i], p)]
<1>1. s = l.appenders
  <2>1. \A i \in DOMAIN l.appenders : l.appenders[i].m_hasFormatter
    BY ObjectFields, AppenderIs
  <2>2. l.appenders = [i \in DOMAIN l.appenders |-> l.appenders[i]]
    BY ObjectFields
  <2> QED
    BY <2>1, <2>2, Zenon
<1>2. CASE IsError(p)
  BY <1>2 DEF SetPattern
<1>3. CASE ~IsError(p)
  <2>1. SetPattern(l, p) = [l EXCEPT !.formatter = p, !.appenders = s]
    BY <1>3, Zenon DEF SetPattern
  <2> HIDE DEF s
  <2>2. SetPattern(l, p) = [l EXCEPT !.formatter = p, !.appenders = l.appenders]
    BY <1>1, <2>1, Zenon
  <2> HIDE DEF SetPattern
  <2>3. [l EXCEPT !.formatter = p, !.appenders = l.appenders] = [l EXCEPT !.formatter = p]
    BY DEF LoggerObjects
  <2>4. [l EXCEPT !.formatter = p] \in LoggerObjects
    BY DEF LoggerObjects, Formats
  <2> QED
    BY <1>3, <2>2, <2>3, <2>4
<1> QED
  BY <1>2, <1>3

\* A logger with one field changed.
LEMMA Except ==
    ASSUME NEW l \in LoggerObjects
    PROVE  /\ \A s \in Seq(Appenders) :
                /\ [l EXCEPT !.appenders = s] \in LoggerObjects
                /\ [l EXCEPT !.appenders = s].name = l.name
                /\ [l EXCEPT !.appenders = s].level = l.level
                /\ [l EXCEPT !.appenders = s].formatter = l.formatter
                /\ [l EXCEPT !.appenders = s].appenders = s
           /\ \A p \in Formats :
                /\ [l EXCEPT !.formatter = p] \in LoggerObjects
                /\ [l EXCEPT !.formatter = p].name = l.name
                /\ [l EXCEPT !.formatter = p].level = l.level
                /\ [l EXCEPT !.formatter = p].formatter = p
                /\ [l EXCEPT !.formatter = p].appenders = l.appenders
           /\ \A v \in Levels :
                /\ [l EXCEPT !.level = v] \in LoggerObjects
                /\ [l EXCEPT !.level = v].name = l.name
                /\ [l EXCEPT !.level = v].level = v
                /\ [l EXCEPT !.level = v].formatter = l.formatter
                /\ [l EXCEPT !.level = v].appenders = l.appenders
BY DEF LoggerObjects

\* What the listener makes of an appender's entry, in a logger with this formatter.
Configured(a, formatter) ==
    [type |-> a.type, file |-> a.file, level |-> IF a.level # 0 THEN a.level ELSE DEBUG,
     m_hasFormatter |-> TRUE, formatter |-> IF a.formatter = Missing THEN formatter ELSE a.formatter]

LEMMA AppendedIs ==
    ASSUME NEW l \in LoggerObjects, NEW a \in AppenderConfigs
    PROVE  /\ Appended(l, a) = IF Skipped(l.name, a) THEN l
                               ELSE [l EXCEPT !.appenders = Append(l.appenders, Configured(a, l.formatter))]
           /\ Configured(a, l.formatter) \in Appenders
           /\ Appended(l, a) \in LoggerObjects
<1> DEFINE made == Made(a)
           b == Configured(a, l.formatter)
           level == IF a.level # 0 THEN a.level ELSE DEBUG
<1>1. b \in Appenders
  <2>1. level \in Levels \ {0} /\ l.formatter \in Formats
    BY AppenderFields, ObjectFields DEF Levels, DEBUG, INFO
  <2>2. (IF a.formatter = Missing THEN l.formatter ELSE a.formatter) \in Formats
    BY <2>1, AppenderFields DEF Formats
  <2> HIDE DEF level
  <2>3. b = [type |-> a.type, file |-> a.file, level |-> level, m_hasFormatter |-> TRUE,
             formatter |-> IF a.formatter = Missing THEN l.formatter ELSE a.formatter]
    BY Zenon DEF Configured, level
  <2> QED
    BY <2>1, <2>2, <2>3, AppenderFields, AppenderMade
<1>2. b = IF made.m_hasFormatter THEN made ELSE WithFormatter(made, l.formatter)
  BY Zenon DEF Made, NewAppender, WithFormatter, Configured
<1>3. AddAppender(l, made) = [l EXCEPT !.appenders = Append(l.appenders, b)] /\ AddAppender(l, made) \in LoggerObjects
  <2> HIDE DEF b, made
  <2> QED
    BY <1>1, <1>2, AddAppenderIs
<1> HIDE DEF b, made
<1>4. CASE Skipped(l.name, a)
  BY <1>1, <1>4 DEF Appended, b
<1>5. CASE ~Skipped(l.name, a)
  BY <1>1, <1>3, <1>5 DEF Appended, b, made
<1> QED
  BY <1>4, <1>5

LEMMA AppendedFields ==
    ASSUME NEW l \in LoggerObjects, NEW a \in AppenderConfigs
    PROVE  /\ Appended(l, a) \in LoggerObjects
           /\ Appended(l, a).name = l.name /\ Appended(l, a).level = l.level
           /\ Appended(l, a).formatter = l.formatter
           /\ Appended(l, a).appenders = IF Skipped(l.name, a) THEN l.appenders
                                         ELSE Append(l.appenders, Configured(a, l.formatter))
<1>1. Append(l.appenders, Configured(a, l.formatter)) \in Seq(Appenders)
  BY AppendedIs, ObjectFields
<1>2. CASE Skipped(l.name, a)
  BY <1>2, AppendedIs
<1>3. CASE ~Skipped(l.name, a)
  <2>1. Appended(l, a) = [l EXCEPT !.appenders = Append(l.appenders, Configured(a, l.formatter))]
    BY <1>3, AppendedIs
  <2> QED
    <3> DEFINE x == Append(l.appenders, Configured(a, l.formatter))
    <3> HIDE DEF x
    <3>1. Appended(l, a) = [l EXCEPT !.appenders = x] /\ x \in Seq(Appenders)
      BY <1>1, <2>1 DEF x
    <3>2. /\ Appended(l, a) \in LoggerObjects
          /\ Appended(l, a).name = l.name /\ Appended(l, a).level = l.level
          /\ Appended(l, a).formatter = l.formatter /\ Appended(l, a).appenders = x
      BY <3>1, Except
    <3> QED
      BY <1>3, <3>2 DEF x
<1> QED
  BY <1>2, <1>3

LEMMA FormattedFields ==
    ASSUME NEW l \in LoggerObjects, NEW p \in Formats \cup {Missing}
    PROVE  /\ Formatted(l, p) \in LoggerObjects
           /\ Formatted(l, p).name = l.name /\ Formatted(l, p).level = l.level
           /\ Formatted(l, p).appenders = l.appenders
           /\ Formatted(l, p).formatter = IF p = Missing \/ IsError(p) THEN l.formatter ELSE p
<1>1. CASE p = Missing \/ p = l.formatter
  BY <1>1 DEF Formatted
<1>2. CASE ~(p = Missing \/ p = l.formatter)
  <2>1. p \in Formats /\ Formatted(l, p) = SetPattern(l, p)
    BY <1>2 DEF Formatted, Formats
  <2>2. CASE IsError(p)
    BY <1>2, <2>1, <2>2, SetPatternIs
  <2>3. CASE ~IsError(p)
    <3>1. Formatted(l, p) = [l EXCEPT !.formatter = p]
      BY <2>1, <2>3, SetPatternIs
    <3> QED
      BY <1>2, <2>1, <2>3, <3>1, Except
  <2> QED
    BY <2>2, <2>3
<1> QED
  BY <1>1, <1>2

-----------------------------------------------------------------------------
\* The first of the names is one of them.
LEMMA FirstIs ==
    ASSUME NEW names \in SUBSET Names, names # {}
    PROVE  First(names) \in names
<1> DEFINE T == {i \in DOMAIN NameOrder : NameOrder[i] \in names}
<1>1. NameOrder \in Seq(Names)
  BY LoggersAssumption
<1>2. T \in SUBSET Nat /\ T # {}
  BY <1>1 DEF Names
<1>3. PICK m \in T : \A k \in T : m <= k
  <2> HIDE DEF T
  <2> QED
    BY <1>2, Least
<1>4. \A j \in 1..(m - 1) : NameOrder[j] \notin names
  BY <1>1, <1>3
<1>5. \E n \in names : \E i \in DOMAIN NameOrder :
         NameOrder[i] = n /\ \A j \in 1..(i - 1) : NameOrder[j] \notin names
  BY <1>3, <1>4, Zenon
<1> QED
  BY <1>5, Zenon DEF First

LEMMA ConfigTyped ==
    ASSUME NEW entry \in Entries, ~Malformed(entry)
    PROVE  LoggerConfig(entry) \in Configs /\ entry.name \in Names
<1>1. /\ entry.name \in Names \cup {Missing} /\ entry.formatter \in Patterns \cup {Missing}
      /\ entry.appenders \in Seq(AppenderEntries)
  BY DEF Entries
<1>2. entry.name \in Names
  BY <1>1 DEF Malformed
<1>3. \A x : FromString(x) \in {0, DEBUG, INFO}
  BY DEF FromString
<1>4. ASSUME NEW i \in DOMAIN entry.appenders
      PROVE  LogAppenderConfig(entry.appenders[i]) \in AppenderConfigs
  <2> DEFINE a == entry.appenders[i]
  <2>1. a \in AppenderEntries
    BY <1>1
  <2>2. a.type \in {"StdOut", "File"} /\ ~(a.type = "File" /\ a.file = Missing)
    BY Zenon DEF Malformed
  <2>3. a.file \in Files \cup {Missing} /\ a.formatter \in Patterns \cup {Missing}
    BY <2>1 DEF AppenderEntries
  <2> HIDE DEF a
  <2>4. LogAppenderConfig(a) \in AppenderConfigs
    BY <1>3, <2>2, <2>3 DEF Formats, LogAppenderConfig, AppenderConfigs
  <2> QED
    BY <2>4 DEF a
<1>5. [i \in DOMAIN entry.appenders |-> LogAppenderConfig(entry.appenders[i])] \in Seq(AppenderConfigs)
  BY <1>1, <1>4
<1> QED
  BY <1>1, <1>2, <1>3, <1>5 DEF Formats, LoggerConfig, Configs

LEMMA CastTyped ==
    ASSUME NEW doc \in Docs, \A i \in DOMAIN doc : ~Malformed(doc[i])
    PROVE  Cast(doc) \in Values
<1>1. doc \in Seq(Entries)
  BY FilesAssumption
<1> DEFINE D == {doc[i].name : i \in DOMAIN doc}
           At(n) == CHOOSE i \in DOMAIN doc : doc[i].name = n /\ \A j \in 1..(i - 1) : doc[j].name # n
<1>2. ASSUME NEW n \in D
      PROVE  At(n) \in DOMAIN doc
  <2> DEFINE T == {i \in DOMAIN doc : doc[i].name = n}
  <2>1. T \in SUBSET Nat /\ T # {}
    BY <1>1
  <2>2. PICK m \in T : \A k \in T : m <= k
    <3> HIDE DEF T
    <3> QED
      BY <2>1, Least
  <2>3. \A j \in 1..(m - 1) : doc[j].name # n
    BY <1>1, <2>2
  <2>4. \E i \in DOMAIN doc : doc[i].name = n /\ \A j \in 1..(i - 1) : doc[j].name # n
    BY <2>2, <2>3, Zenon
  <2> QED
    BY <2>4, Zenon
<1>3. \A i \in DOMAIN doc : LoggerConfig(doc[i]) \in Configs /\ doc[i].name \in Names
  <2>1. \A i \in DOMAIN doc : doc[i] \in Entries
    BY <1>1
  <2> QED
    BY <2>1, ConfigTyped
<1>4. D \in SUBSET Names
  BY <1>3
<1>5. Cast(doc) = [n \in D |-> LoggerConfig(doc[At(n)])]
  BY Zenon DEF Cast
<1>6. \A n \in D : LoggerConfig(doc[At(n)]) \in Configs
  BY <1>2, <1>3, Zenon
<1> HIDE DEF D, At
<1> QED
  BY <1>4, <1>5, <1>6 DEF Values

LEMMA GetLoggerIs ==
    ASSUME TypeInv, NEW n \in Names, GetLogger(n)
    PROVE  /\ logger' \in Seq(LoggerObjects) /\ Len(logger') >= Len(logger)
           /\ \A i \in 1..Len(logger) : logger'[i] = logger[i]
           /\ \A i \in 1..Len(logger') : i \in 1..Len(logger)
                  \/ (i = Found(n) /\ logger'[i] = NewLogger(n) /\ n \notin DOMAIN m_loggers)
           /\ m_loggers' \in Maps /\ DOMAIN m_loggers' = DOMAIN m_loggers \cup {n}
           /\ m_loggers'[n] = Found(n) /\ \A m \in DOMAIN m_loggers : m_loggers'[m] = m_loggers[m]
           /\ Found(n) \in 1..Len(logger')
<1>1. /\ logger \in Seq(LoggerObjects) /\ DOMAIN m_loggers \in SUBSET Names
      /\ \A m \in DOMAIN m_loggers : m_loggers[m] \in 1..Len(logger)
  BY DEF TypeInv, Maps
<1>2. NewLogger(n) \in LoggerObjects
  BY NewLoggerTyped
<1>3. m_loggers' = [m \in DOMAIN m_loggers \cup {n} |-> IF m = n THEN Found(n) ELSE m_loggers[m]]
  BY DEF GetLogger
<1>4. Found(n) \in Nat /\ \A m \in DOMAIN m_loggers : m_loggers[m] \in Nat /\ (m = n => Found(n) = m_loggers[m])
  BY <1>1 DEF Found
<1>5. /\ m_loggers' \in Maps /\ DOMAIN m_loggers' = DOMAIN m_loggers \cup {n}
      /\ m_loggers'[n] = Found(n) /\ \A m \in DOMAIN m_loggers : m_loggers'[m] = m_loggers[m]
  <2>1. DOMAIN m_loggers \cup {n} \in SUBSET Names
    BY <1>1
  <2>2. m_loggers' \in [DOMAIN m_loggers \cup {n} -> Nat]
    BY <1>3, <1>4
  <2>3. /\ DOMAIN m_loggers' = DOMAIN m_loggers \cup {n}
        /\ m_loggers'[n] = Found(n) /\ \A m \in DOMAIN m_loggers : m_loggers'[m] = m_loggers[m]
    BY <1>3, <1>4, Zenon
  <2> QED
    BY <2>1, <2>2, <2>3, Zenon DEF Maps
<1>6. CASE n \in DOMAIN m_loggers
  <2>1. logger' = logger /\ Found(n) = m_loggers[n]
    BY <1>6 DEF GetLogger, Found
  <2>2. Found(n) \in 1..Len(logger')
    BY <1>1, <1>6, <2>1
  <2>3. Len(logger') >= Len(logger) /\ logger' \in Seq(LoggerObjects)
    BY <1>1, <2>1
  <2> QED
    BY <1>5, <2>1, <2>2, <2>3
<1>7. CASE n \notin DOMAIN m_loggers
  <2>1. logger' = Append(logger, NewLogger(n)) /\ Found(n) = Len(logger) + 1
    BY <1>7 DEF GetLogger, Found
  <2> QED
    BY <1>1, <1>2, <1>5, <1>7, <2>1
<1> QED
  BY <1>6, <1>7

LEMMA DelLoggerIs ==
    ASSUME TypeInv, NEW n, DelLogger(n)
    PROVE  /\ m_loggers' \in Maps /\ DOMAIN m_loggers' = DOMAIN m_loggers \ {n}
           /\ \A m \in DOMAIN m_loggers' : m_loggers'[m] = m_loggers[m]
<1>1. DOMAIN m_loggers \in SUBSET Names /\ \A m \in DOMAIN m_loggers : m_loggers[m] \in Nat
  BY DEF TypeInv, Maps
<1>2. m_loggers' = [m \in DOMAIN m_loggers \ {n} |-> m_loggers[m]]
  BY DEF DelLogger
<1> QED
  BY <1>1, <1>2 DEF Maps

\* The logger at id is changed.
LEMMA ChangeIs ==
    ASSUME TypeInv, NEW id \in 1..Len(logger), NEW l \in LoggerObjects,
           logger' = [logger EXCEPT ![id] = l]
    PROVE  /\ logger' \in Seq(LoggerObjects) /\ Len(logger') = Len(logger) /\ logger'[id] = l
           /\ \A i \in 1..Len(logger) : i # id => logger'[i] = logger[i]
BY DEF TypeInv

\* What the program makes of a logger.
LEMMA ChangedTyped ==
    ASSUME NEW l \in LoggerObjects, NEW c \in Changed(l)
    PROVE  c \in LoggerObjects /\ c.name = l.name
<1>1. CASE c = AddAppender(l, NewAppender("StdOut", Missing, DEBUG))
  <2> DEFINE a == NewAppender("StdOut", Missing, DEBUG)
  <2>1. WithFormatter(a, l.formatter) \in Appenders
    <3>1. /\ l.formatter \in Formats /\ Missing \in Files \cup {Missing} /\ DEBUG \in Levels \ {0}
      BY ObjectFields DEF Levels, DEBUG
    <3>2. WithFormatter(a, l.formatter) = [type |-> "StdOut", file |-> Missing, level |-> DEBUG,
                                           m_hasFormatter |-> TRUE, formatter |-> l.formatter]
      BY DEF WithFormatter, NewAppender
    <3> QED
      BY <3>1, <3>2, AppenderMade
  <2>2. WithFormatter(a, l.formatter) = IF a.m_hasFormatter THEN a ELSE WithFormatter(a, l.formatter)
    BY Zenon DEF NewAppender
  <2> HIDE DEF a
  <2>3. AddAppender(l, a) = [l EXCEPT !.appenders = Append(l.appenders, WithFormatter(a, l.formatter))]
        /\ AddAppender(l, a) \in LoggerObjects
    BY <2>1, <2>2, AddAppenderIs
  <2>4. c = AddAppender(l, a)
    BY <1>1 DEF a
  <2>5. Append(l.appenders, WithFormatter(a, l.formatter)) \in Seq(Appenders)
    BY <2>1, ObjectFields
  <2> QED
    BY <2>3, <2>4, <2>5, Except
<1>2. CASE c = [l EXCEPT !.appenders = <<>>]
  <2>1. <<>> \in Seq(Appenders)
    OBVIOUS
  <2> QED
    BY <1>2, <2>1, Except, Zenon
<1>3. ASSUME NEW v \in {DEBUG, FATAL}, c = [l EXCEPT !.level = v]
      PROVE  c \in LoggerObjects /\ c.name = l.name
  <2>1. v \in Levels
    BY DEF DEBUG, FATAL, Levels
  <2> QED
    BY <1>3, <2>1, Except
<1>4. ASSUME NEW p \in Patterns, c = SetPattern(l, p)
      PROVE  c \in LoggerObjects /\ c.name = l.name
  <2>1. p \in Formats
    BY DEF Formats
  <2>2. c = l \/ c = [l EXCEPT !.formatter = p]
    BY <1>4, SetPatternIs DEF Formats
  <2>3. CASE c = l
    BY <2>3
  <2>4. CASE c = [l EXCEPT !.formatter = p]
    BY <2>1, <2>4, Except, Zenon
  <2> QED
    BY <2>2, <2>3, <2>4
<1>5. ASSUME NEW f \in Patterns \cup {NoFormatter}, c = SetFormatter(l, f)
      PROVE  c \in LoggerObjects /\ c.name = l.name
  <2>1. CASE f = NoFormatter
    BY <1>5, <2>1 DEF SetFormatter
  <2>2. CASE f # NoFormatter
    <3> DEFINE s == [i \in DOMAIN l.appenders |-> WithFormatter(l.appenders[i], f)]
    <3>1. s \in Seq(Appenders)
      <4>1. l.appenders \in Seq(Appenders) /\ f \in Formats
        BY <2>2, ObjectFields DEF Formats
      <4>2. \A i \in DOMAIN l.appenders : WithFormatter(l.appenders[i], f) \in Appenders
        <5>1. \A a \in Appenders : WithFormatter(a, f) \in Appenders
          BY <4>1, AppenderIs, AppenderMade DEF WithFormatter
        <5> QED
          BY <4>1, <5>1
      <4> QED
        BY <4>1, <4>2
    <3>2. c = [l EXCEPT !.formatter = f, !.appenders = s]
      BY <1>5, <2>2, Zenon DEF SetFormatter
    <3> HIDE DEF s
    <3> QED
      BY <2>2, <3>1, <3>2 DEF LoggerObjects, Formats
  <2> QED
    BY <2>1, <2>2
<1>6. ASSUME NEW i \in DOMAIN l.appenders, c = [l EXCEPT !.appenders = RemoveAt(@, i)]
      PROVE  c \in LoggerObjects /\ c.name = l.name
  <2>1. l.appenders \in Seq(Appenders)
    BY ObjectFields
  <2>2. RemoveAt(l.appenders, i) \in Seq(Appenders)
    BY <2>1 DEF RemoveAt
  <2>3. c = [l EXCEPT !.appenders = RemoveAt(l.appenders, i)]
    BY <1>6
  <2> QED
    BY <2>2, <2>3, Except
<1> QED
  BY <1>1, <1>2, <1>3, <1>4, <1>5, <1>6, Zenon DEF Changed

-----------------------------------------------------------------------------
LEMMA SetMade ==
    ASSUME NEW t,
           t = [pc |-> t.pc, new |-> t.new, rest |-> t.rest, name |-> t.name, ptr |-> t.ptr, i |-> t.i,
                touched |-> t.touched],
           t.pc \in {"idle", "get", "clear", "level", "format", "append", "delete"}, t.new \in Values,
           t.rest \in SUBSET Names, t.name \in Names, t.ptr \in Nat, t.i \in Nat,
           t.touched \in SUBSET Names
    PROVE  t \in SetStates
BY DEF SetStates

\* The listener's state with another position.
Moved(pc, rest, i) ==
    [pc |-> pc, new |-> set.new, rest |-> rest, name |-> set.name, ptr |-> set.ptr, i |-> i, touched |-> set.touched]

LEMMA MovedIs ==
    ASSUME set \in SetStates, NEW pc \in {"get", "clear", "level", "format", "append", "delete"},
           NEW rest \in SUBSET Names, NEW i \in Nat, set' = Moved(pc, rest, i)
    PROVE  /\ set' \in SetStates
           /\ set'.pc = pc /\ set'.new = set.new /\ set'.rest = rest /\ set'.name = set.name
           /\ set'.ptr = set.ptr /\ set'.i = i /\ set'.touched = set.touched
<1>1. /\ set.new \in Values /\ set.name \in Names /\ set.ptr \in Nat /\ set.touched \in SUBSET Names
  BY DEF SetStates
<1>2. /\ set'.pc = pc /\ set'.new = set.new /\ set'.rest = rest /\ set'.name = set.name
      /\ set'.ptr = set.ptr /\ set'.i = i /\ set'.touched = set.touched
      /\ set' = [pc |-> set'.pc, new |-> set'.new, rest |-> set'.rest, name |-> set'.name, ptr |-> set'.ptr,
                 i |-> set'.i, touched |-> set'.touched]
  BY DEF Moved
<1> QED
  BY <1>1, <1>2, SetMade

LEMMA Moves ==
    ASSUME set \in SetStates
    PROVE  /\ \A pc : [set EXCEPT !.pc = pc] = Moved(pc, set.rest, set.i)
           /\ \A i : [set EXCEPT !.i = i] = Moved(set.pc, set.rest, i)
           /\ \A rest : [set EXCEPT !.rest = rest] = Moved(set.pc, rest, set.i)
           /\ \A pc, rest : [set EXCEPT !.pc = pc, !.rest = rest] = Moved(pc, rest, set.i)
<1>1. \A pc : [set EXCEPT !.pc = pc] = Moved(pc, set.rest, set.i)
  BY DEF SetStates, Moved
<1>2. \A i : [set EXCEPT !.i = i] = Moved(set.pc, set.rest, i)
  BY DEF SetStates, Moved
<1>3. \A rest : [set EXCEPT !.rest = rest] = Moved(set.pc, rest, set.i)
  BY DEF SetStates, Moved
<1>4. ASSUME NEW pc, NEW rest
      PROVE  [set EXCEPT !.pc = pc, !.rest = rest] = Moved(pc, rest, set.i)
  <2> DEFINE t == [set EXCEPT !.pc = pc, !.rest = rest]
  <2>1. /\ t.pc = pc /\ t.new = set.new /\ t.rest = rest /\ t.name = set.name /\ t.ptr = set.ptr
        /\ t.i = set.i /\ t.touched = set.touched
    BY DEF SetStates
  <2>2. DOMAIN t = {"pc", "new", "rest", "name", "ptr", "i", "touched"} /\ t = [x \in DOMAIN t |-> t[x]]
    BY DEF SetStates
  <2> HIDE DEF t
  <2>3. t = [pc |-> t.pc, new |-> t.new, rest |-> t.rest, name |-> t.name, ptr |-> t.ptr, i |-> t.i,
             touched |-> t.touched]
    BY <2>2
  <2> QED
    BY <2>1, <2>3, Zenon DEF Moved, t
<1> QED
  BY <1>1, <1>2, <1>3, <1>4

LEMMA MadeValues ==
    ASSUME NEW D \in SUBSET Names
    PROVE  (\A f \in [D -> Nat] : f \in Maps) /\ (\A f \in [D -> Configs] : f \in Values)
BY Zenon DEF Maps, Values

\* No SetValue is in progress.
LEMMA IdleIs ==
    /\ NoLoggers \in Values /\ Idle \in SetStates
    /\ Idle.pc = "idle" /\ Idle.new = NoLoggers /\ Idle.rest = {} /\ Idle.touched = {}
<1>1. NoLoggers \in Values
  <2>1. NoLoggers \in [{} -> Configs] /\ {} \in SUBSET Names
    BY DEF NoLoggers
  <2> QED
    BY <2>1, MadeValues
<1>2. Root \in Names
  BY LoggersAssumption
<1>3. Idle.pc = "idle" /\ Idle.new = NoLoggers /\ Idle.rest = {} /\ Idle.touched = {}
  BY DEF Idle
<1>4. Idle \in SetStates
  BY <1>1, <1>2 DEF Idle, SetStates
<1> QED
  BY <1>1, <1>3, <1>4

LEMMA InitTyped == Init => TypeInv
<1> SUFFICES ASSUME Init
             PROVE  TypeInv
  OBVIOUS
<1> DEFINE l == AddAppender(NewLogger(Root), NewAppender("StdOut", Missing, DEBUG))
<1>1. l \in LoggerObjects /\ l.name = Root
  <2>1. NewLogger(Root) \in LoggerObjects /\ NewLogger(Root).name = Root
    BY LoggersAssumption, NewLoggerTyped
  <2>2. l \in Changed(NewLogger(Root))
    BY Zenon DEF Changed
  <2> HIDE DEF l
  <2> QED
    BY <2>1, <2>2, ChangedTyped, Zenon
<1>2. logger = <<l>>
  BY Zenon DEF Init
<1> HIDE DEF l
<1>3. logger \in Seq(LoggerObjects) /\ Len(logger) = 1 /\ logger[1].name = Root
  BY <1>1, <1>2
<1>5. m_loggers \in Maps /\ m_loggers[Root] = 1 /\ DOMAIN m_loggers = {Root}
  <2>1. m_loggers = [n \in {Root} |-> 1] /\ Root \in Names
    BY LoggersAssumption DEF Init
  <2>2. m_loggers \in [{Root} -> Nat]
    BY <2>1
  <2> QED
    BY <2>1, <2>2, MadeValues
<1>7. m_val \in Values /\ set \in SetStates /\ set.pc = "idle"
  BY IdleIs DEF Init
<1>8. handle \in [Users -> Nat] /\ \A u \in Users : handle[u] = 0
  BY DEF Init
<1> QED
  BY <1>3, <1>5, <1>7, <1>8 DEF TypeInv, AtEntry

-----------------------------------------------------------------------------
(***************************************************************************)
(* What each step of the listener does.                                    *)
(***************************************************************************)
SetTo(pc, rest, i) ==
    /\ set' \in SetStates
    /\ set'.pc = pc /\ set'.new = set.new /\ set'.rest = rest /\ set'.name = set.name
    /\ set'.ptr = set.ptr /\ set'.i = i /\ set'.touched = set.touched

\* The logger of the entry is the only one that changes.
Changes ==
    /\ AtEntry /\ set.ptr \in 1..Len(logger)
    /\ logger' \in Seq(LoggerObjects) /\ Len(logger') = Len(logger)
    /\ logger'[set.ptr].name = logger[set.ptr].name
    /\ \A k \in 1..Len(logger) : k # set.ptr => logger'[k] = logger[k]
    /\ UNCHANGED <<m_loggers, m_val, handle, event, astray, dropped, lost, muted>>

LEMMA AtEntryIs ==
    ASSUME TypeInv, AtEntry
    PROVE  /\ set.ptr \in 1..Len(logger) /\ logger[set.ptr] \in LoggerObjects
           /\ set.name \in DOMAIN set.new /\ set.name \in Names
           /\ Entry = set.new[set.name] /\ Entry \in Configs
           /\ Entry.level \in {0, DEBUG, INFO} /\ Entry.level \in Levels
           /\ Entry.formatter \in Formats \cup {Missing}
           /\ Entry.appenders \in Seq(AppenderConfigs)
           /\ set.i >= 1 /\ set.i \in Nat /\ set.rest \in SUBSET Names
<1>1. /\ set.new \in Values /\ set.ptr \in 1..Len(logger) /\ logger \in Seq(LoggerObjects)
      /\ set.name \in DOMAIN set.new /\ set.i >= 1 /\ set.i \in Nat /\ set.rest \in SUBSET Names
  BY DEF TypeInv, SetStates
<1> QED
  BY <1>1, ConfigFields DEF Entry, Levels, DEBUG, INFO

LEMMA ChangesIs ==
    ASSUME TypeInv, AtEntry, NEW l \in LoggerObjects, l.name = logger[set.ptr].name, Change(l),
           UNCHANGED <<m_loggers, m_val, handle, event, astray, dropped, lost, muted>>
    PROVE  Changes /\ logger'[set.ptr] = l
BY AtEntryIs, ChangeIs DEF Change, Changes

LEMMA ClearStep ==
    ASSUME TypeInv, ListenerClear
    PROVE  /\ set.pc = "clear" /\ Changes /\ SetTo("level", set.rest, set.i)
           /\ logger'[set.ptr].appenders = <<>> /\ logger'[set.ptr].level = logger[set.ptr].level
           /\ rootCut' = (rootCut \/ set.ptr = 1) /\ UNCHANGED rootRaised
<1> DEFINE l == [logger[set.ptr] EXCEPT !.appenders = <<>>]
<1>1. /\ AtEntry /\ Change(l) /\ set.pc = "clear" /\ set' = [set EXCEPT !.pc = "level"]
      /\ UNCHANGED <<m_loggers, m_val, handle, event, astray, dropped, lost, muted>>
      /\ rootCut' = (rootCut \/ set.ptr = 1) /\ UNCHANGED rootRaised
  BY DEF ListenerClear, AtEntry, userVars, lostVars
<1>2. /\ l \in LoggerObjects /\ l.name = logger[set.ptr].name
      /\ l.appenders = <<>> /\ l.level = logger[set.ptr].level
  <2>1. <<>> \in Seq(Appenders) /\ logger[set.ptr] \in LoggerObjects
    BY <1>1, AtEntryIs
  <2> QED
    BY <2>1, Except, Zenon
<1> HIDE DEF l
<1>3. set' = Moved("level", set.rest, set.i) /\ set \in SetStates
  <2>1. set \in SetStates
    BY DEF TypeInv
  <2> QED
    BY <1>1, <2>1, Moves, Zenon
<1> QED
  BY <1>1, <1>2, <1>3, AtEntryIs, ChangesIs, MovedIs DEF SetTo

LEMMA LevelStep ==
    ASSUME TypeInv, ListenerLevel
    PROVE  /\ set.pc = "level" /\ Changes /\ SetTo("format", set.rest, set.i)
           /\ logger'[set.ptr].appenders = logger[set.ptr].appenders
           /\ logger'[set.ptr].level = Entry.level /\ UNCHANGED rootCut
           /\ rootRaised' = (rootRaised \/ (set.ptr = 1 /\ Entry.level > DEBUG))
<1> DEFINE l == [logger[set.ptr] EXCEPT !.level = Entry.level]
<1>1. /\ AtEntry /\ Change(l) /\ set.pc = "level" /\ set' = [set EXCEPT !.pc = "format"]
      /\ UNCHANGED <<m_loggers, m_val, handle, event, astray, dropped, lost, muted, rootCut>>
      /\ rootRaised' = (rootRaised \/ (set.ptr = 1 /\ Entry.level > DEBUG))
  BY DEF ListenerLevel, AtEntry, userVars, rootVars, lostVars
<1>2. /\ l \in LoggerObjects /\ l.name = logger[set.ptr].name
      /\ l.appenders = logger[set.ptr].appenders /\ l.level = Entry.level
  <2>1. Entry.level \in Levels /\ logger[set.ptr] \in LoggerObjects
    BY <1>1, AtEntryIs
  <2> QED
    BY <2>1, Except, Zenon
<1> HIDE DEF l
<1>3. set' = Moved("format", set.rest, set.i) /\ set \in SetStates
  <2>1. set \in SetStates
    BY DEF TypeInv
  <2> QED
    BY <1>1, <2>1, Moves, Zenon
<1> QED
  BY <1>1, <1>2, <1>3, AtEntryIs, ChangesIs, MovedIs DEF SetTo

LEMMA FormatStep ==
    ASSUME TypeInv, ListenerFormat
    PROVE  /\ set.pc = "format" /\ Changes /\ SetTo("append", set.rest, set.i)
           /\ logger'[set.ptr].appenders = logger[set.ptr].appenders
           /\ logger'[set.ptr].level = logger[set.ptr].level
           /\ Entry.formatter # Missing /\ ~IsError(Entry.formatter) =>
                logger'[set.ptr].formatter = Entry.formatter
           /\ UNCHANGED <<rootCut, rootRaised>>
<1> DEFINE l == Formatted(logger[set.ptr], Entry.formatter)
<1>1. /\ AtEntry /\ Change(l) /\ set.pc = "format" /\ set' = [set EXCEPT !.pc = "append"]
      /\ UNCHANGED <<m_loggers, m_val, handle, event, astray, dropped, lost, muted, rootCut, rootRaised>>
  BY DEF ListenerFormat, AtEntry, userVars, rootVars, lostVars
<1>2. /\ l \in LoggerObjects /\ l.name = logger[set.ptr].name
      /\ l.appenders = logger[set.ptr].appenders /\ l.level = logger[set.ptr].level
      /\ Entry.formatter # Missing /\ ~IsError(Entry.formatter) => l.formatter = Entry.formatter
  <2> DEFINE p == Entry.formatter
             was == logger[set.ptr]
  <2>1. p \in Formats \cup {Missing} /\ was \in LoggerObjects
    BY <1>1, AtEntryIs
  <2> HIDE DEF p, was
  <2>2. /\ Formatted(was, p) \in LoggerObjects
        /\ Formatted(was, p).name = was.name /\ Formatted(was, p).level = was.level
        /\ Formatted(was, p).appenders = was.appenders
        /\ Formatted(was, p).formatter = IF p = Missing \/ IsError(p) THEN was.formatter ELSE p
    BY <2>1, FormattedFields
  <2> QED
    BY <2>2 DEF p, was
<1> HIDE DEF l
<1>3. set' = Moved("append", set.rest, set.i) /\ set \in SetStates
  <2>1. set \in SetStates
    BY DEF TypeInv
  <2> QED
    BY <1>1, <2>1, Moves, Zenon
<1> QED
  BY <1>1, <1>2, <1>3, AtEntryIs, ChangesIs, MovedIs DEF SetTo

LEMMA AppendStep ==
    ASSUME TypeInv, ListenerAppend
    PROVE  /\ set.pc = "append" /\ set.i \in 1..Len(Entry.appenders) /\ Changes
           /\ SetTo("append", set.rest, set.i + 1)
           /\ ~Rejected(set.name, Entry.appenders[set.i])
           /\ logger'[set.ptr].level = logger[set.ptr].level
           /\ logger'[set.ptr].formatter = logger[set.ptr].formatter
           /\ logger'[set.ptr].appenders =
                IF Skipped(logger[set.ptr].name, Entry.appenders[set.i]) THEN logger[set.ptr].appenders
                ELSE Append(logger[set.ptr].appenders,
                            Configured(Entry.appenders[set.i], logger[set.ptr].formatter))
           /\ UNCHANGED <<rootCut, rootRaised>>
<1> DEFINE was == logger[set.ptr]
           a == Entry.appenders[set.i]
           l == Appended(was, a)
<1>1. /\ AtEntry /\ Change(l) /\ set.pc = "append" /\ set' = [set EXCEPT !.i = set.i + 1]
      /\ UNCHANGED <<m_loggers, m_val, handle, event, astray, dropped, lost, muted, rootCut, rootRaised>>
      /\ set.i <= Len(Entry.appenders) /\ ~Rejected(set.name, a)
  BY DEF ListenerAppend, AtEntry, userVars, rootVars, lostVars
<1>2. was \in LoggerObjects /\ a \in AppenderConfigs /\ set.i \in 1..Len(Entry.appenders)
  BY <1>1, AtEntryIs
<1> HIDE DEF was, a
<1>3. /\ l \in LoggerObjects /\ l.name = was.name /\ l.level = was.level /\ l.formatter = was.formatter
      /\ l.appenders = IF Skipped(was.name, a) THEN was.appenders
                       ELSE Append(was.appenders, Configured(a, was.formatter))
  BY <1>2, AppendedFields
<1> HIDE DEF l
<1>4. set' = Moved("append", set.rest, set.i + 1) /\ set \in SetStates
  <2>1. set \in SetStates
    BY DEF TypeInv
  <2> QED
    BY <1>1, <2>1, Moves, Zenon
<1>5. SetTo("append", set.rest, set.i + 1)
  <2>1. set.i + 1 \in Nat /\ set.rest \in SUBSET Names
    BY <1>1, AtEntryIs
  <2> QED
    BY <1>4, <2>1, MovedIs DEF SetTo
<1>6. Changes /\ logger'[set.ptr] = l
  <2>1. l.name = logger[set.ptr].name
    BY <1>3 DEF was
  <2> QED
    BY <1>1, <1>3, <2>1, ChangesIs
<1> QED
  BY <1>1, <1>2, <1>3, <1>5, <1>6 DEF was, a

LEMMA GetStep ==
    ASSUME TypeInv, ListenerGet
    PROVE  LET n == First(set.rest)
               same == n \in DOMAIN m_val /\ m_val[n] = set.new[n]
           IN  /\ set.pc = "get" /\ n \in set.rest /\ n \in Names /\ n \in DOMAIN set.new
               /\ set.rest \subseteq DOMAIN set.new /\ GetLogger(n)
               /\ set' \in SetStates /\ set'.new = set.new /\ set'.rest = set.rest \ {n}
               /\ set'.name = n /\ set'.ptr = Found(n) /\ set'.i = 1
               /\ IF same THEN set'.pc = "get" /\ set'.touched = set.touched
                  ELSE /\ set'.pc = IF n \in DOMAIN m_val THEN "clear" ELSE "level"
                       /\ set'.touched = set.touched \cup {n}
               /\ UNCHANGED <<m_val, handle, event, astray, dropped, lost, muted, rootCut, rootRaised>>
<1> DEFINE n == First(set.rest)
           known == n \in DOMAIN m_val
           same == known /\ m_val[n] = set.new[n]
           pc == IF same THEN "get" ELSE IF known THEN "clear" ELSE "level"
           touched == IF same THEN set.touched ELSE set.touched \cup {n}
<1>1. /\ set.new \in Values /\ set.rest \in SUBSET Names /\ set.touched \in SUBSET Names
      /\ set.pc = "get" /\ set.rest # {} /\ set.rest \subseteq DOMAIN set.new
  BY DEF ListenerGet, TypeInv, SetStates
<1>2. n \in set.rest /\ n \in Names /\ n \in DOMAIN set.new
  BY <1>1, FirstIs
<1>3. GetLogger(n)
      /\ UNCHANGED <<m_val, handle, event, astray, dropped, lost, muted, rootCut, rootRaised>>
      /\ set' = [pc |-> pc, new |-> set.new, rest |-> set.rest \ {n}, name |-> n, ptr |-> Found(n), i |-> 1,
                 touched |-> touched]
  BY Zenon DEF ListenerGet, userVars, rootVars, lostVars
<1>4. pc \in {"get", "clear", "level"} /\ touched \in SUBSET Names /\ set.rest \ {n} \in SUBSET Names
  BY <1>1, <1>2
<1>5. Found(n) \in Nat
  <2> HIDE DEF n
  <2>1. Found(n) \in 1..Len(logger')
    BY <1>2, <1>3, GetLoggerIs
  <2> QED
    BY <2>1
<1> HIDE DEF pc, touched, n
<1>6. /\ set' \in SetStates /\ set'.pc = pc /\ set'.new = set.new /\ set'.rest = set.rest \ {n}
      /\ set'.name = n /\ set'.ptr = Found(n) /\ set'.i = 1 /\ set'.touched = touched
  BY <1>1, <1>2, <1>3, <1>4, <1>5, SetMade
<1>7. IF same THEN set'.pc = "get" /\ set'.touched = set.touched
      ELSE /\ set'.pc = IF n \in DOMAIN m_val THEN "clear" ELSE "level"
           /\ set'.touched = set.touched \cup {n}
  BY <1>6 DEF pc, touched
<1> QED
  BY <1>1, <1>2, <1>3, <1>6, <1>7 DEF n

LEMMA ThrowStep ==
    ASSUME TypeInv, ListenerThrow
    PROVE  /\ set.pc = "append" /\ set' = Idle /\ astray' = astray \cup set.touched
           /\ UNCHANGED <<logger, m_loggers, m_val, handle, event, dropped, lost, muted, rootCut, rootRaised>>
BY DEF ListenerThrow, objectVars, userVars, rootVars, lostVars

LEMMA NextStep ==
    ASSUME TypeInv, ListenerNext
    PROVE  /\ \/ set.pc = "append" /\ set.i > Len(Entry.appenders) /\ SetTo("get", set.rest, set.i)
              \/ /\ set.pc = "get" /\ set.rest = {}
                 /\ SetTo("delete", DOMAIN m_val \ DOMAIN set.new, set.i)
           /\ UNCHANGED <<logger, m_loggers, m_val, handle, event, astray, dropped, lost, muted, rootCut, rootRaised>>
<1>1. set \in SetStates /\ set.i \in Nat /\ set.rest \in SUBSET Names /\ m_val \in Values
  BY DEF TypeInv, SetStates
<1>2. UNCHANGED <<logger, m_loggers, m_val, handle, event, astray, dropped, lost, muted, rootCut, rootRaised>>
  BY DEF ListenerNext, objectVars, userVars, rootVars, lostVars
<1>3. CASE set.pc = "append" /\ set.i > Len(Entry.appenders) /\ set' = [set EXCEPT !.pc = "get"]
  <2>1. set' = Moved("get", set.rest, set.i)
    BY <1>1, <1>3, Moves, Zenon
  <2> QED
    BY <1>1, <1>2, <1>3, <2>1, MovedIs DEF SetTo
<1>4. CASE /\ set.pc = "get" /\ set.rest = {}
           /\ set' = [set EXCEPT !.pc = "delete", !.rest = DOMAIN m_val \ DOMAIN set.new]
  <2>1. DOMAIN m_val \ DOMAIN set.new \in SUBSET Names
    BY <1>1 DEF Values
  <2>2. set' = Moved("delete", DOMAIN m_val \ DOMAIN set.new, set.i)
    BY <1>1, <1>4, Moves, Zenon
  <2> QED
    BY <1>1, <1>2, <1>4, <2>1, <2>2, MovedIs DEF SetTo
<1> QED
  BY <1>3, <1>4 DEF ListenerNext

LEMMA DeleteStep ==
    ASSUME TypeInv, ListenerDelete
    PROVE  LET n == First(set.rest)
           IN  /\ set.pc = "delete" /\ n \in set.rest /\ n \in Names /\ DelLogger(n)
               /\ n \in DOMAIN m_val \ DOMAIN set.new
               /\ SetTo("delete", set.rest \ {n}, set.i) /\ astray' = astray \ {n}
               /\ UNCHANGED <<logger, m_val, handle, event, lost, muted, rootCut, rootRaised>>
<1> DEFINE n == First(set.rest)
<1>1. /\ set \in SetStates /\ set.i \in Nat /\ set.rest \in SUBSET Names
      /\ set.pc = "delete" /\ set.rest # {} /\ set.rest \subseteq DOMAIN m_val \ DOMAIN set.new
  BY DEF TypeInv, SetStates, ListenerDelete
<1>2. n \in set.rest /\ n \in Names /\ n \in DOMAIN m_val \ DOMAIN set.new
  BY <1>1, FirstIs
<1>3. /\ DelLogger(n) /\ set' = [set EXCEPT !.rest = set.rest \ {n}] /\ astray' = astray \ {n}
      /\ UNCHANGED <<logger, m_val, handle, event, lost, muted, rootCut, rootRaised>>
  BY Zenon DEF ListenerDelete, userVars, rootVars, lostVars
<1> HIDE DEF n
<1>4. set' = Moved("delete", set.rest \ {n}, set.i) /\ set.rest \ {n} \in SUBSET Names
  BY <1>1, <1>3, Moves
<1>5. SetTo("delete", set.rest \ {n}, set.i)
  BY <1>1, <1>4, MovedIs DEF SetTo
<1> QED
  BY <1>1, <1>2, <1>3, <1>5 DEF n

LEMMA CallStep ==
    ASSUME NEW doc \in Docs, SetValueCall(doc)
    PROVE  /\ set.pc = "idle" /\ set' \in SetStates /\ set'.pc = "get" /\ set'.new \in Values
           /\ set'.rest = DOMAIN set'.new /\ set'.touched = {}
           /\ UNCHANGED <<logger, m_loggers, m_val, handle, event, astray, dropped, lost, muted, rootCut, rootRaised>>
<1> DEFINE new == Cast(doc)
<1>1. new \in Values
  BY CastTyped DEF SetValueCall
<1>2. DOMAIN new \in SUBSET Names
  BY <1>1 DEF Values
<1> HIDE DEF new
<1>3. /\ set.pc = "idle" /\ set' = [Idle EXCEPT !.pc = "get", !.new = new, !.rest = DOMAIN new]
      /\ UNCHANGED <<logger, m_loggers, m_val, handle, event, astray, dropped, lost, muted, rootCut, rootRaised>>
  BY DEF SetValueCall, new, objectVars, userVars, rootVars, lostVars
<1>4. set' = [pc |-> "get", new |-> new, rest |-> DOMAIN new, name |-> Root, ptr |-> 0, i |-> 0, touched |-> {}]
  BY <1>3 DEF Idle
<1>5. Root \in Names
  BY LoggersAssumption
<1>6. set' \in SetStates /\ set'.pc = "get" /\ set'.rest = DOMAIN new /\ set'.new = new /\ set'.touched = {}
  BY <1>1, <1>2, <1>4, <1>5, SetMade
<1> QED
  BY <1>1, <1>3, <1>6

LEMMA ReturnStep ==
    ASSUME TypeInv, SetValueReturn
    PROVE  /\ set.pc = "delete" /\ set.rest = {} /\ set' = Idle /\ m_val' = set.new
           /\ UNCHANGED <<logger, m_loggers, handle, event, astray, dropped, lost, muted, rootCut, rootRaised>>
BY DEF SetValueReturn, objectVars, userVars, rootVars, lostVars

Listener == \/ ListenerGet \/ ListenerClear \/ ListenerLevel \/ ListenerFormat \/ ListenerAppend
            \/ ListenerThrow \/ ListenerNext \/ ListenerDelete

\* The listener's loop does not change the type of anything.
LEMMA ListenerTyped ==
    ASSUME TypeInv, Listener
    PROVE  TypeInv'
<1>1. Len(logger) \in Nat /\ Len(logger) >= 1 /\ 1 \in 1..Len(logger) /\ logger[1].name = Root
  BY DEF TypeInv
<1>2. CASE ListenerGet
  <2> DEFINE n == First(set.rest)
  <2>1. /\ set.pc = "get" /\ n \in Names /\ n \in DOMAIN set.new
        /\ set.rest \subseteq DOMAIN set.new /\ GetLogger(n)
        /\ set' \in SetStates /\ set'.new = set.new /\ set'.rest = set.rest \ {n}
        /\ set'.name = n /\ set'.ptr = Found(n) /\ set'.i = 1
        /\ set'.pc \in {"get", "clear", "level"} /\ UNCHANGED <<m_val, handle>>
    BY <1>2, GetStep
  <2> HIDE DEF n
  <2>2. /\ logger' \in Seq(LoggerObjects) /\ Len(logger') >= Len(logger)
        /\ \A k \in 1..Len(logger) : logger'[k] = logger[k]
        /\ m_loggers' \in Maps /\ DOMAIN m_loggers' = DOMAIN m_loggers \cup {n}
        /\ m_loggers'[n] = Found(n) /\ \A m \in DOMAIN m_loggers : m_loggers'[m] = m_loggers[m]
        /\ Found(n) \in 1..Len(logger')
    BY <2>1, GetLoggerIs
  <2>3. \A m \in DOMAIN m_loggers : m_loggers[m] \in 1..Len(logger)
    BY DEF TypeInv
  <2>4. /\ logger'[1].name = Root /\ Len(logger') >= 1
        /\ \A m \in DOMAIN m_loggers' : m_loggers'[m] \in 1..Len(logger')
    BY <1>1, <2>2, <2>3
  <2> QED
    BY <2>1, <2>2, <2>4 DEF TypeInv, AtEntry
<1>3. ASSUME Changes, NEW pc \in {"level", "format", "append"}, NEW i \in Nat, i >= set.i,
             SetTo(pc, set.rest, i)
      PROVE  TypeInv'
  <2>1. /\ set.name \in DOMAIN set.new /\ set.ptr \in 1..Len(logger) /\ i >= 1
        /\ logger' \in Seq(LoggerObjects) /\ Len(logger') = Len(logger) /\ logger'[1].name = logger[1].name
    BY <1>1, <1>3, AtEntryIs DEF Changes
  <2> QED
    BY <1>3, <2>1 DEF TypeInv, AtEntry, Changes, SetTo
<1>4. ASSUME Changes
      PROVE  set.i \in Nat /\ set.i + 1 \in Nat /\ set.i + 1 >= set.i /\ set.i >= set.i
  BY <1>4, AtEntryIs DEF Changes
<1>5. CASE ListenerClear
  BY <1>3, <1>4, <1>5, ClearStep
<1>6. CASE ListenerLevel
  BY <1>3, <1>4, <1>6, LevelStep
<1>7. CASE ListenerFormat
  BY <1>3, <1>4, <1>7, FormatStep
<1>8. CASE ListenerAppend
  BY <1>3, <1>4, <1>8, AppendStep
<1>9. CASE ListenerThrow
  BY <1>9, ThrowStep, IdleIs DEF TypeInv, AtEntry
<1>10. CASE ListenerNext
  BY <1>10, NextStep DEF TypeInv, AtEntry, SetTo
<1>11. CASE ListenerDelete
  <2> DEFINE n == First(set.rest)
  <2>1. set.pc = "delete" /\ DelLogger(n) /\ SetTo("delete", set.rest \ {n}, set.i) /\ UNCHANGED <<logger, m_val, handle>>
    BY <1>11, DeleteStep
  <2> HIDE DEF n
  <2> QED
    BY <2>1, DelLoggerIs DEF TypeInv, AtEntry, SetTo
<1> QED
  BY <1>2, <1>5, <1>6, <1>7, <1>8, <1>9, <1>10, <1>11 DEF Listener

LEMMA UserGetStep ==
    ASSUME NEW u \in Users, NEW n \in UserNames, UserGet(u, n)
    PROVE  /\ n \in Names /\ GetLogger(n) /\ handle' = [handle EXCEPT ![u] = Found(n)] /\ event[u] = 0
           /\ UNCHANGED <<m_val, set, event, astray, dropped, lost, muted, rootCut, rootRaised>>
BY LoggersAssumption DEF UserGet, rootVars, lostVars

LEMMA UserDelStep ==
    ASSUME NEW n \in UserNames, UserDelLogger(n)
    PROVE  /\ DelLogger(n) /\ astray' = astray \cup {n}
           /\ UNCHANGED <<logger, m_val, set, handle, event, lost, muted, rootCut, rootRaised>>
BY DEF UserDelLogger, userVars, rootVars, lostVars

LEMMA UserChangeStep ==
    ASSUME TypeInv, NEW u \in Users, UserChange(u)
    PROVE  LET id == handle[u]
           IN  /\ id \in 1..Len(logger)
               /\ logger' \in Seq(LoggerObjects) /\ Len(logger') = Len(logger)
               /\ logger'[id].name = logger[id].name
               /\ \A k \in 1..Len(logger) : k # id => logger'[k] = logger[k]
               /\ astray' = astray \cup {logger[id].name}
               /\ rootCut' = (rootCut \/ (id = 1 /\ Len(logger'[1].appenders) < Len(logger[1].appenders)))
               /\ rootRaised' = (rootRaised \/ (id = 1 /\ logger'[1].level > DEBUG))
               /\ UNCHANGED <<m_loggers, m_val, set, handle, event, dropped, lost, muted>>
<1> DEFINE id == handle[u]
<1>1. PICK l \in Changed(logger[id]) :
          /\ logger' = [logger EXCEPT ![id] = l]
          /\ rootCut' = (rootCut \/ (id = 1 /\ Len(l.appenders) < Len(logger[1].appenders)))
          /\ rootRaised' = (rootRaised \/ (id = 1 /\ l.level > DEBUG))
  BY Zenon DEF UserChange
<1>2. /\ id # 0 /\ astray' = astray \cup {logger[id].name}
      /\ UNCHANGED <<m_loggers, m_val, set, handle, event, dropped, lost, muted>>
  BY DEF UserChange, userVars, lostVars
<1>3. id \in 1..Len(logger) /\ logger[id] \in LoggerObjects
  BY <1>2 DEF TypeInv
<1> HIDE DEF id
<1>4. l \in LoggerObjects /\ l.name = logger[id].name
  BY <1>3, ChangedTyped
<1>5. /\ logger' \in Seq(LoggerObjects) /\ Len(logger') = Len(logger) /\ logger'[id] = l
      /\ \A k \in 1..Len(logger) : k # id => logger'[k] = logger[k]
  BY <1>1, <1>3, <1>4, ChangeIs
<1>6. /\ rootCut' = (rootCut \/ (id = 1 /\ Len(logger'[1].appenders) < Len(logger[1].appenders)))
      /\ rootRaised' = (rootRaised \/ (id = 1 /\ logger'[1].level > DEBUG))
  BY <1>1, <1>5
<1> QED
  BY <1>2, <1>3, <1>4, <1>5, <1>6 DEF id

\* A message is written, or nothing happens.
Quiet ==
    /\ UNCHANGED <<logger, m_loggers, m_val, set, handle, astray, dropped, rootCut, rootRaised>>
    /\ \/ UNCHANGED <<event, lost, muted>>
       \/ \E u \in Users, v \in {DEBUG, INFO, FATAL} : LogCall(u, v)
       \/ \E u \in Users : LogEmit(u)

\* Every step is one of these.
LEMMA Steppings ==
    ASSUME [Next]_vars
    PROVE  \/ \E doc \in Docs : SetValueCall(doc)
           \/ Listener
           \/ SetValueReturn
           \/ \E u \in Users, n \in UserNames : UserGet(u, n)
           \/ \E u \in Users : UserChange(u)
           \/ \E n \in UserNames : UserDelLogger(n)
           \/ Quiet
<1>1. CASE UNCHANGED vars
  BY <1>1 DEF vars, objectVars, userVars, rootVars, lostVars, Quiet
<1>2. CASE \E u \in Users, v \in {DEBUG, INFO, FATAL} : LogCall(u, v)
  BY <1>2 DEF LogCall, objectVars, userVars, rootVars, Quiet
<1>3. CASE \E u \in Users : LogEmit(u)
  BY <1>3 DEF LogEmit, objectVars, userVars, rootVars, Quiet
<1>4. CASE ~(UNCHANGED vars) /\ ~(\E u \in Users, v \in {DEBUG, INFO, FATAL} : LogCall(u, v)) /\ ~(\E u \in Users : LogEmit(u))
  BY <1>4, Zenon DEF Next, ConfigNext, UserNext, Listener
<1> QED
  BY <1>1, <1>2, <1>3, <1>4

\* Every value has the type of its place; no appender is without a formatter of its own.
THEOREM Typed == Spec => []TypeInv
<1>1. TypeInv /\ [Next]_vars => TypeInv'
  <2> SUFFICES ASSUME TypeInv, [Next]_vars
               PROVE  TypeInv'
    OBVIOUS
  <2>0. set \in SetStates /\ set.new \in Values /\ logger \in Seq(LoggerObjects) /\ Len(logger) \in Nat
    BY DEF TypeInv, SetStates
  <2>1. ASSUME NEW doc \in Docs, SetValueCall(doc)
        PROVE  TypeInv'
    BY <2>1, CallStep DEF TypeInv, AtEntry
  <2>2. CASE Listener
    BY <2>2, ListenerTyped
  <2>3. CASE SetValueReturn
    BY <2>0, <2>3, ReturnStep, IdleIs DEF TypeInv, AtEntry
  <2>4. ASSUME NEW u \in Users, NEW n \in UserNames, UserGet(u, n)
        PROVE  TypeInv'
    <3>1. n \in Names /\ GetLogger(n) /\ handle' = [handle EXCEPT ![u] = Found(n)] /\ UNCHANGED <<m_val, set>>
      BY <2>4, UserGetStep
    <3>3. /\ logger' \in Seq(LoggerObjects) /\ Len(logger') >= Len(logger)
          /\ \A k \in 1..Len(logger) : logger'[k] = logger[k]
          /\ m_loggers' \in Maps /\ DOMAIN m_loggers' = DOMAIN m_loggers \cup {n}
          /\ m_loggers'[n] = Found(n) /\ \A m \in DOMAIN m_loggers : m_loggers'[m] = m_loggers[m]
          /\ Found(n) \in 1..Len(logger')
      BY <3>1, GetLoggerIs
    <3>4. /\ Len(logger) >= 1 /\ logger[1].name = Root /\ handle \in [Users -> Nat]
          /\ \A m \in DOMAIN m_loggers : m_loggers[m] \in 1..Len(logger)
          /\ \A w \in Users : handle[w] <= Len(logger)
          /\ AtEntry => set.ptr \in 1..Len(logger)
      BY DEF TypeInv
    <3>5. /\ Len(logger') >= 1 /\ logger'[1].name = Root
          /\ \A m \in DOMAIN m_loggers' : m_loggers'[m] \in 1..Len(logger')
          /\ AtEntry => set.ptr \in 1..Len(logger')
      BY <2>0, <3>3, <3>4
    <3>6. handle' \in [Users -> Nat] /\ \A w \in Users : handle'[w] <= Len(logger')
      BY <2>0, <3>1, <3>3, <3>4
    <3> QED
      BY <3>1, <3>3, <3>5, <3>6 DEF TypeInv, AtEntry
  <2>5. ASSUME NEW u \in Users, UserChange(u)
        PROVE  TypeInv'
    <3> DEFINE id == handle[u]
    <3>1. /\ id \in 1..Len(logger)
          /\ logger' \in Seq(LoggerObjects) /\ Len(logger') = Len(logger)
          /\ logger'[id].name = logger[id].name
          /\ \A k \in 1..Len(logger) : k # id => logger'[k] = logger[k]
          /\ UNCHANGED <<m_loggers, m_val, set, handle>>
      BY <2>5, UserChangeStep
    <3> HIDE DEF id
    <3>2. 1 \in 1..Len(logger) /\ logger[1].name = Root
      BY <2>0 DEF TypeInv
    <3>3. logger'[1].name = Root
      BY <3>1, <3>2
    <3> QED
      BY <3>1, <3>3 DEF TypeInv, AtEntry
  <2>6. ASSUME NEW n \in UserNames, UserDelLogger(n)
        PROVE  TypeInv'
    BY <2>6, UserDelStep, DelLoggerIs DEF TypeInv, AtEntry
  <2>7. CASE Quiet
    BY <2>7 DEF Quiet, TypeInv, AtEntry
  <2> QED
    BY <2>1, <2>2, <2>3, <2>4, <2>5, <2>6, <2>7, Steppings
<1> QED
  BY <1>1, InitTyped, PTL DEF Spec

\* Logger::Log calls the formatter of every appender without a look: it has one, whoever added
\* the appender, SetFormatter, a file or the default of its logger.
THEOREM Formatters == Spec => []AppendersFormatted
<1>1. TypeInv => AppendersFormatted
  <2> SUFFICES ASSUME TypeInv, NEW id \in DOMAIN logger, NEW k \in DOMAIN logger[id].appenders
               PROVE  logger[id].appenders[k].formatter # NoFormatter
    BY DEF AppendersFormatted
  <2>1. logger[id] \in LoggerObjects
    BY DEF TypeInv
  <2>2. logger[id].appenders[k] \in Appenders
    BY <2>1, ObjectFields
  <2>3. logger[id].appenders[k].formatter \in Formats
    BY <2>2, AppenderIs
  <2> QED
    BY <2>3, FilesAssumption DEF Formats
<1> QED
  BY <1>1, Typed, PTL

-----------------------------------------------------------------------------
(***************************************************************************)
(* The names of the loggers.                                               *)
(***************************************************************************)
\* No logger is made or erased, and none gets another name.
RenamesNothing ==
    /\ Len(logger') = Len(logger) /\ \A k \in 1..Len(logger) : logger'[k].name = logger[k].name
    /\ UNCHANGED <<m_loggers, dropped>>

\* What a step does to the loggers and the map.
LEMMA Kinds ==
    ASSUME TypeInv, [Next]_vars
    PROVE  \/ \E n \in Names : GetLogger(n) /\ UNCHANGED dropped
           \/ \E n : DelLogger(n) /\ UNCHANGED logger
           \/ RenamesNothing
<1>1. Changes => RenamesNothing
  BY DEF Changes, RenamesNothing
<1>2. UNCHANGED <<logger, m_loggers, dropped>> => RenamesNothing
  BY DEF RenamesNothing
<1>3. ASSUME NEW doc \in Docs, SetValueCall(doc)
      PROVE  RenamesNothing
  BY <1>2, <1>3, CallStep
<1>4. CASE ListenerGet
  BY <1>4, GetStep, Zenon
<1>5. CASE ListenerClear \/ ListenerLevel \/ ListenerFormat \/ ListenerAppend
  BY <1>1, <1>5, ClearStep, LevelStep, FormatStep, AppendStep
<1>6. CASE ListenerThrow \/ ListenerNext
  BY <1>2, <1>6, ThrowStep, NextStep
<1>7. CASE ListenerDelete
  BY <1>7, DeleteStep, Zenon
<1>8. CASE SetValueReturn
  BY <1>2, <1>8, ReturnStep
<1>9. ASSUME NEW u \in Users, NEW n \in UserNames, UserGet(u, n)
      PROVE  \E m \in Names : GetLogger(m) /\ UNCHANGED dropped
  BY <1>9, UserGetStep, Zenon
<1>10. ASSUME NEW u \in Users, UserChange(u)
       PROVE  RenamesNothing
  <2> DEFINE id == handle[u]
  <2>1. /\ id \in 1..Len(logger) /\ Len(logger') = Len(logger)
        /\ logger'[id].name = logger[id].name
        /\ \A k \in 1..Len(logger) : k # id => logger'[k] = logger[k]
        /\ UNCHANGED <<m_loggers, dropped>>
    BY <1>10, UserChangeStep
  <2> HIDE DEF id
  <2> QED
    BY <2>1 DEF RenamesNothing
<1>11. ASSUME NEW n \in UserNames, UserDelLogger(n)
       PROVE  DelLogger(n) /\ UNCHANGED logger
  BY <1>11, UserDelStep
<1>12. CASE Quiet
  BY <1>2, <1>12 DEF Quiet, DelLogger
<1> QED
  BY <1>3, <1>4, <1>5, <1>6, <1>7, <1>8, <1>9, <1>10, <1>11, <1>12, Steppings, Zenon DEF Listener

\* What a step does to the place of the listener.
LEMMA Places ==
    ASSUME TypeInv, [Next]_vars
    PROVE  \/ ~AtEntry'
           \/ AtEntry /\ set'.ptr = set.ptr /\ set'.name = set.name
           \/ /\ ListenerGet /\ set'.name \in Names /\ GetLogger(set'.name)
              /\ set'.ptr = Found(set'.name) /\ UNCHANGED dropped
<1>1. UNCHANGED set => ~AtEntry' \/ (AtEntry /\ set'.ptr = set.ptr /\ set'.name = set.name)
  BY DEF AtEntry
<1>2. ASSUME NEW doc \in Docs, SetValueCall(doc)
      PROVE  ~AtEntry'
  BY <1>2, CallStep DEF AtEntry
<1>3. CASE ListenerGet
  BY <1>3, GetStep, Zenon
<1>4. CASE ListenerClear \/ ListenerLevel \/ ListenerFormat \/ ListenerAppend
  BY <1>4, ClearStep, LevelStep, FormatStep, AppendStep DEF AtEntry, SetTo
<1>5. CASE ListenerThrow \/ SetValueReturn
  BY <1>5, ThrowStep, ReturnStep, IdleIs DEF AtEntry
<1>6. CASE ListenerNext \/ ListenerDelete
  BY <1>6, NextStep, DeleteStep DEF AtEntry, SetTo
<1>7. ASSUME NEW u \in Users, NEW n \in UserNames, UserGet(u, n)
      PROVE  UNCHANGED set
  BY <1>7, UserGetStep
<1>8. ASSUME NEW u \in Users, UserChange(u)
      PROVE  UNCHANGED set
  BY <1>8, UserChangeStep
<1>9. ASSUME NEW n \in UserNames, UserDelLogger(n)
      PROVE  UNCHANGED set
  BY <1>9, UserDelStep
<1>10. Quiet => UNCHANGED set
  BY DEF Quiet
<1> QED
  BY <1>1, <1>2, <1>3, <1>4, <1>5, <1>6, <1>7, <1>8, <1>9, <1>10, Steppings DEF Listener

\* The map leads from a name to a logger of this name, which is the only one unless the name was
\* erased before; the listener holds the logger of its entry.
NamesInv ==
    /\ \A n \in DOMAIN m_loggers : logger[m_loggers[n]].name = n
    /\ \A k \in 1..Len(logger) : logger[k].name \notin dropped =>
            logger[k].name \in DOMAIN m_loggers /\ m_loggers[logger[k].name] = k
    /\ AtEntry => logger[set.ptr].name = set.name

LEMMA NamesStep == TypeInv /\ NamesInv /\ [Next]_vars => NamesInv'
<1> SUFFICES ASSUME TypeInv, NamesInv, [Next]_vars
             PROVE  NamesInv'
  OBVIOUS
<1>0. /\ Len(logger) \in Nat /\ \A n \in DOMAIN m_loggers : m_loggers[n] \in 1..Len(logger)
      /\ AtEntry => set.ptr \in 1..Len(logger)
  BY DEF TypeInv
<1> DEFINE A == \A n \in DOMAIN m_loggers : logger[m_loggers[n]].name = n
           B == \A k \in 1..Len(logger) : logger[k].name \notin dropped =>
                    logger[k].name \in DOMAIN m_loggers /\ m_loggers[logger[k].name] = k
           C == AtEntry => logger[set.ptr].name = set.name
<1>1. A /\ B /\ C
  BY DEF NamesInv
<1>2. ASSUME NEW n \in Names, GetLogger(n), UNCHANGED dropped
      PROVE  A' /\ B' /\ (\A k \in 1..Len(logger) : logger'[k].name = logger[k].name) /\ logger'[Found(n)].name = n
  <2>1. /\ \A i \in 1..Len(logger) : logger'[i] = logger[i]
        /\ \A i \in 1..Len(logger') : i \in 1..Len(logger)
                  \/ (i = Found(n) /\ logger'[i] = NewLogger(n) /\ n \notin DOMAIN m_loggers)
        /\ DOMAIN m_loggers' = DOMAIN m_loggers \cup {n}
        /\ m_loggers'[n] = Found(n) /\ \A m \in DOMAIN m_loggers : m_loggers'[m] = m_loggers[m]
        /\ Found(n) \in 1..Len(logger')
    BY <1>2, GetLoggerIs
  <2>2. NewLogger(n).name = n
    BY NewLoggerTyped
  <2>3. n \in DOMAIN m_loggers => Found(n) = m_loggers[n]
    BY DEF Found
  <2>4. logger'[Found(n)].name = n
    <3>1. CASE n \in DOMAIN m_loggers
      BY <1>0, <1>1, <2>1, <2>3, <3>1
    <3>2. CASE n \notin DOMAIN m_loggers
      <4>1. Found(n) \notin 1..Len(logger)
        BY <1>0, <3>2 DEF Found
      <4> QED
        BY <2>1, <2>2, <4>1
    <3> QED
      BY <3>1, <3>2
  <2>5. A'
    BY <1>0, <1>1, <2>1, <2>4
  <2>6. B'
    <3> SUFFICES ASSUME NEW k \in 1..Len(logger'), logger'[k].name \notin dropped
                 PROVE  logger'[k].name \in DOMAIN m_loggers' /\ m_loggers'[logger'[k].name] = k
      BY <1>2
    <3>1. CASE k \in 1..Len(logger)
      BY <1>1, <2>1, <3>1
    <3>2. CASE k = Found(n)
      BY <2>1, <2>4, <3>2
    <3> QED
      BY <2>1, <3>1, <3>2
  <2> QED
    BY <2>1, <2>4, <2>5, <2>6
<1>3. ASSUME NEW n, DelLogger(n), UNCHANGED logger
      PROVE  A' /\ B' /\ (\A k \in 1..Len(logger) : logger'[k].name = logger[k].name)
  <2>1. /\ DOMAIN m_loggers' = DOMAIN m_loggers \ {n} /\ dropped' = dropped \cup {n}
        /\ \A m \in DOMAIN m_loggers' : m_loggers'[m] = m_loggers[m]
    BY <1>3, DelLoggerIs DEF DelLogger
  <2> QED
    BY <1>1, <1>3, <2>1
<1>4. ASSUME RenamesNothing
      PROVE  A' /\ B' /\ (\A k \in 1..Len(logger) : logger'[k].name = logger[k].name)
  BY <1>0, <1>1, <1>4 DEF RenamesNothing
<1> HIDE DEF A, B, C
<1>5. A' /\ B' /\ (\A k \in 1..Len(logger) : logger'[k].name = logger[k].name)
  BY <1>2, <1>3, <1>4, Kinds
<1>6. C'
  BY <1>0, <1>1, <1>2, <1>5, Places DEF C
<1> QED
  BY <1>5, <1>6 DEF NamesInv, A, B, C

LEMMA InitNames == Init => NamesInv
<1> SUFFICES ASSUME Init
             PROVE  NamesInv
  OBVIOUS
<1>1. TypeInv /\ Len(logger) = 1
  BY InitTyped, Zenon DEF Init
<1> QED
  BY <1>1, IdleIs DEF Init, NamesInv, AtEntry, TypeInv

\* LOG_ROOT and LOG_NAME("root"), and two LOG_NAMEs of one name, reach one logger, until the name
\* is erased.
THEOREM OneLoggerAName == Spec => []SameNameSameLogger
<1>1. TypeInv /\ NamesInv => SameNameSameLogger
  <2> SUFFICES ASSUME TypeInv, NamesInv, NEW i \in DOMAIN logger, NEW j \in DOMAIN logger,
                      logger[i].name = logger[j].name, logger[i].name \notin dropped
               PROVE  i = j
    BY DEF SameNameSameLogger
  <2>1. i \in 1..Len(logger) /\ j \in 1..Len(logger)
    BY DEF TypeInv
  <2> QED
    BY <2>1 DEF NamesInv
<1> QED
  BY <1>1, Typed, InitNames, NamesStep, PTL DEF Spec

-----------------------------------------------------------------------------
(***************************************************************************)
(* No message is lost.                                                     *)
(***************************************************************************)
\* m_root has an appender until one is taken from it, and lets every message pass until its level
\* is raised.
CutInv ==
    /\ ~rootCut => logger[1].appenders # <<>>
    /\ ~rootRaised => logger[1].level <= DEBUG
    /\ event \in [Users -> {0, DEBUG, INFO, FATAL}]
    /\ lost => rootCut
    /\ muted => rootRaised

LEMMA CutStep == TypeInv /\ CutInv /\ [Next]_vars => CutInv'
<1> SUFFICES ASSUME TypeInv, CutInv, [Next]_vars
             PROVE  CutInv'
  OBVIOUS
<1>1. 1 \in 1..Len(logger) /\ Len(logger) \in Nat /\ logger \in Seq(LoggerObjects) /\ logger[1] \in LoggerObjects
  BY DEF TypeInv
<1>2. UNCHANGED <<logger, event, lost, muted, rootCut, rootRaised>> => CutInv'
  BY DEF CutInv
<1>3. ASSUME NEW n \in Names, GetLogger(n), UNCHANGED <<event, lost, muted, rootCut, rootRaised>>
      PROVE  CutInv'
  <2>1. logger'[1] = logger[1]
    BY <1>1, <1>3, GetLoggerIs
  <2> QED
    BY <1>3, <2>1 DEF CutInv
<1>4. ASSUME NEW doc \in Docs, SetValueCall(doc)
      PROVE  CutInv'
  BY <1>2, <1>4, CallStep
<1>5. CASE ListenerGet
  BY <1>3, <1>5, GetStep
<1>6. CASE ListenerClear
  <2>1. /\ Changes /\ UNCHANGED <<lost, muted, event, rootRaised>> /\ rootCut' = (rootCut \/ set.ptr = 1)
        /\ logger'[set.ptr].level = logger[set.ptr].level
    BY <1>6, ClearStep DEF Changes
  <2>2. rootCut' <=> (rootCut \/ set.ptr = 1)
    BY <2>1, Zenon
  <2>3. ~rootCut' => logger'[1] = logger[1] /\ logger[1].appenders # <<>>
    BY <1>1, <2>1, <2>2 DEF Changes, CutInv
  <2>4. logger'[1].level = logger[1].level
    BY <1>1, <2>1 DEF Changes
  <2> QED
    BY <2>1, <2>2, <2>3, <2>4 DEF CutInv
<1>7. CASE ListenerLevel
  <2>1. /\ Changes /\ UNCHANGED <<lost, muted, event, rootCut>>
        /\ logger'[set.ptr].appenders = logger[set.ptr].appenders /\ logger'[set.ptr].level = Entry.level
        /\ rootRaised' = (rootRaised \/ (set.ptr = 1 /\ Entry.level > DEBUG))
    BY <1>7, LevelStep DEF Changes
  <2>2. rootRaised' <=> (rootRaised \/ (set.ptr = 1 /\ Entry.level > DEBUG))
    BY <2>1, Zenon
  <2>3. logger'[1].appenders = logger[1].appenders
    BY <1>1, <2>1 DEF Changes
  <2>4. Entry.level \in Levels
    BY <2>1, AtEntryIs DEF Changes
  <2>5. ~rootRaised' => logger'[1].level <= DEBUG
    <3>1. CASE set.ptr = 1
      BY <2>1, <2>2, <2>4, <3>1 DEF Levels, DEBUG
    <3>2. CASE set.ptr # 1
      <4>1. logger'[1] = logger[1]
        BY <1>1, <2>1, <3>2 DEF Changes
      <4> QED
        BY <2>2, <4>1 DEF CutInv
    <3> QED
      BY <3>1, <3>2
  <2> QED
    BY <2>1, <2>2, <2>3, <2>5 DEF CutInv
<1>8. CASE ListenerFormat
  BY <1>1, <1>8, FormatStep DEF Changes, CutInv
<1>9. CASE ListenerAppend
  <2> DEFINE was == logger[set.ptr]
             a == Configured(Entry.appenders[set.i], was.formatter)
  <2>1. /\ logger'[set.ptr].appenders = was.appenders \/ logger'[set.ptr].appenders = Append(was.appenders, a)
        /\ logger'[set.ptr].level = was.level /\ Changes /\ UNCHANGED <<rootCut, rootRaised>>
    BY <1>9, AppendStep
  <2>2. was.appenders \in Seq(Appenders)
    BY <2>1, AtEntryIs, ObjectFields DEF Changes
  <2> HIDE DEF a
  <2>3. Append(was.appenders, a) # <<>>
    BY <2>2
  <2> QED
    BY <1>1, <2>1, <2>3 DEF Changes, CutInv
<1>10. CASE ListenerThrow \/ ListenerNext
  BY <1>2, <1>10, ThrowStep, NextStep
<1>11. CASE ListenerDelete
  BY <1>2, <1>11, DeleteStep
<1>12. CASE SetValueReturn
  BY <1>2, <1>12, ReturnStep
<1>13. ASSUME NEW u \in Users, NEW n \in UserNames, UserGet(u, n)
       PROVE  CutInv'
  BY <1>3, <1>13, UserGetStep
<1>14. ASSUME NEW u \in Users, UserChange(u)
       PROVE  CutInv'
  <2> DEFINE id == handle[u]
  <2>1. /\ logger' \in Seq(LoggerObjects) /\ Len(logger') = Len(logger)
        /\ \A k \in 1..Len(logger) : k # id => logger'[k] = logger[k]
        /\ rootCut' = (rootCut \/ (id = 1 /\ Len(logger'[1].appenders) < Len(logger[1].appenders)))
        /\ rootRaised' = (rootRaised \/ (id = 1 /\ logger'[1].level > DEBUG))
        /\ UNCHANGED <<event, lost, muted>>
    BY <1>14, UserChangeStep
  <2> HIDE DEF id
  <2>2. /\ logger[1].appenders \in Seq(Appenders) /\ logger'[1].appenders \in Seq(Appenders)
        /\ logger'[1].level \in Levels
    <3>1. logger'[1] \in LoggerObjects
      BY <1>1, <2>1
    <3> QED
      BY <1>1, <3>1, ObjectFields
  <2>3. \A s \in Seq(Appenders) : Len(s) \in Nat /\ (s # <<>> <=> Len(s) # 0)
    OBVIOUS
  <2>4. /\ rootCut' <=> (rootCut \/ (id = 1 /\ Len(logger'[1].appenders) < Len(logger[1].appenders)))
        /\ rootRaised' <=> (rootRaised \/ (id = 1 /\ logger'[1].level > DEBUG))
    BY <2>1, Zenon
  <2>5. ~rootCut' => logger'[1].appenders # <<>>
    BY <1>1, <2>1, <2>2, <2>3, <2>4 DEF CutInv
  <2>6. ~rootRaised' => logger'[1].level <= DEBUG
    <3>1. CASE id = 1
      BY <2>2, <2>4, <3>1 DEF Levels, DEBUG
    <3>2. CASE id # 1
      <4>1. logger'[1] = logger[1]
        BY <1>1, <2>1, <3>2
      <4> QED
        BY <2>4, <4>1 DEF CutInv
    <3> QED
      BY <3>1, <3>2
  <2> QED
    BY <2>1, <2>4, <2>5, <2>6 DEF CutInv
<1>15. ASSUME NEW n \in UserNames, UserDelLogger(n)
       PROVE  CutInv'
  BY <1>2, <1>15, UserDelStep
<1>16. CASE Quiet
  <2>1. UNCHANGED <<logger, rootCut, rootRaised>>
    BY <1>16 DEF Quiet
  <2>2. ASSUME NEW u \in Users, LogEmit(u)
        PROVE  CutInv'
    <3>1. event' = [event EXCEPT ![u] = 0]
      BY <2>2 DEF LogEmit
    <3>2. event' \in [Users -> {0, DEBUG, INFO, FATAL}]
      BY <3>1 DEF CutInv
    <3>3. lost' => lost \/ logger[1].appenders = <<>>
      BY <2>2 DEF LogEmit
    <3>4. muted' => muted \/ event[u] < logger[1].level
      BY <2>2 DEF LogEmit
    <3>5. event[u] < logger[1].level => rootRaised
      <4>1. event[u] \in {DEBUG, INFO, FATAL} /\ logger[1].level \in Levels
        BY <1>1, <2>2, ObjectFields DEF LogEmit, CutInv
      <4>2. ~rootRaised => logger[1].level <= DEBUG
        BY DEF CutInv
      <4> QED
        BY <4>1, <4>2 DEF Levels, DEBUG, INFO, FATAL
    <3> QED
      BY <2>1, <3>2, <3>3, <3>4, <3>5 DEF CutInv
  <2>3. ASSUME NEW u \in Users, NEW v \in {DEBUG, INFO, FATAL}, LogCall(u, v)
        PROVE  CutInv'
    <3>1. event' = [event EXCEPT ![u] = v] /\ UNCHANGED <<lost, muted>>
      BY <2>3 DEF LogCall, lostVars
    <3>2. event' \in [Users -> {0, DEBUG, INFO, FATAL}]
      BY <3>1 DEF CutInv
    <3> QED
      BY <2>1, <3>1, <3>2 DEF CutInv
  <2> QED
    BY <1>2, <1>16, <2>1, <2>2, <2>3 DEF Quiet
<1> QED
  BY <1>4, <1>5, <1>6, <1>7, <1>8, <1>9, <1>10, <1>11, <1>12, <1>13, <1>14, <1>15, <1>16, Steppings DEF Listener

\* m_root has a StdOut when the program starts.
LEMMA InitRoot ==
    ASSUME Init
    PROVE  /\ m_loggers = [n \in {Root} |-> 1] /\ m_val = NoLoggers /\ set = Idle /\ lost = FALSE
           /\ logger[1].level = DEBUG
           /\ \E b \in Appenders : b.type = "StdOut" /\ logger[1].appenders = Append(<<>>, b)
<1> DEFINE a == NewAppender("StdOut", Missing, DEBUG)
           l == NewLogger(Root)
           b == WithFormatter(a, l.formatter)
<1>1. l \in LoggerObjects /\ l.appenders = <<>> /\ l.formatter = DefaultPattern /\ l.level = DEBUG
  BY LoggersAssumption, NewLoggerTyped DEF NewLogger
<1>2. b \in Appenders /\ b.type = "StdOut"
  <2>1. DefaultPattern \in Formats /\ Missing \in Files \cup {Missing} /\ DEBUG \in Levels \ {0}
    BY DEF Formats, Levels, DEBUG
  <2>2. b = [type |-> "StdOut", file |-> Missing, level |-> DEBUG, m_hasFormatter |-> TRUE,
             formatter |-> l.formatter]
    BY Zenon DEF WithFormatter, NewAppender
  <2> HIDE DEF b, l
  <2> QED
    BY <1>1, <2>1, <2>2, AppenderMade
<1>3. b = IF a.m_hasFormatter THEN a ELSE WithFormatter(a, l.formatter)
  BY Zenon DEF NewAppender
<1>4. logger = <<AddAppender(l, a)>> /\ m_loggers = [n \in {Root} |-> 1] /\ m_val = NoLoggers /\ set = Idle /\ lost = FALSE
  BY Zenon DEF Init
<1> HIDE DEF a, l, b
<1>5. AddAppender(l, a) = [l EXCEPT !.appenders = Append(l.appenders, b)] /\ Append(l.appenders, b) \in Seq(Appenders)
  <2>1. AddAppender(l, a) = [l EXCEPT !.appenders = Append(l.appenders, b)]
    BY <1>1, <1>2, <1>3, AddAppenderIs
  <2> QED
    BY <1>1, <1>2, <2>1, ObjectFields
<1>6. AddAppender(l, a).appenders = Append(l.appenders, b) /\ AddAppender(l, a).level = l.level
  BY <1>1, <1>5, Except
<1>7. logger[1].appenders = Append(<<>>, b) /\ logger[1].level = DEBUG
  BY <1>1, <1>4, <1>6
<1> QED
  BY <1>2, <1>4, <1>7

LEMMA InitCut == Init => CutInv
<1> SUFFICES ASSUME Init
             PROVE  CutInv
  OBVIOUS
<1>1. \A b : Append(<<>>, b) # <<>>
  OBVIOUS
<1>2. logger[1].appenders # <<>> /\ lost = FALSE
  BY <1>1, InitRoot
<1>3. event = [u \in Users |-> 0] /\ muted = FALSE
  BY Zenon DEF Init
<1>4. logger[1].level = DEBUG
  BY InitRoot
<1> QED
  BY <1>2, <1>3, <1>4 DEF CutInv, DEBUG

\* A message that its logger accepts is handed to an appender, also while the listener has taken
\* the logger's own: it finds none only if somebody took one from m_root, and m_root's level drops
\* it only if somebody raised that level above DEBUG.
THEOREM Messages == Spec => []NothingLost
<1>1. CutInv => NothingLost
  BY DEF CutInv, NothingLost
<1> QED
  BY <1>1, Typed, InitCut, CutStep, PTL DEF Spec

-----------------------------------------------------------------------------
(***************************************************************************)
(* The configuration in force can be read back.                            *)
(***************************************************************************)
\* Where the listener is in the new value: it has not been at the names in rest, it leaves alone
\* what the old value has too, and has touched the others.
ProgressInv ==
    /\ set.touched \subseteq DOMAIN set.new
    /\ set.pc = "idle" => set.touched = {}
    /\ set.pc # "delete" => set.touched \cap set.rest = {}
    /\ AtEntry => set.name \in set.touched /\ set.i <= Len(Entry.appenders) + 1
    /\ set.pc \in {"clear", "level", "format"} => set.i = 1
    /\ \A n \in DOMAIN set.new \ set.touched :
          \/ set.pc # "delete" /\ n \in set.rest
          \/ n \in DOMAIN m_val /\ m_val[n] = set.new[n]

LEMMA NothingNew == DOMAIN Idle.new = {}
BY DEF Idle, NoLoggers

LEMMA ProgressStep == TypeInv /\ ProgressInv /\ [Next]_vars => ProgressInv'
<1> SUFFICES ASSUME TypeInv, ProgressInv, [Next]_vars
             PROVE  ProgressInv'
  OBVIOUS
<1>1. UNCHANGED <<set, m_val>> => ProgressInv'
  BY DEF ProgressInv, AtEntry, Entry
<1>2. set.i \in Nat
  BY DEF TypeInv, SetStates
<1>3. ASSUME NEW doc \in Docs, SetValueCall(doc)
      PROVE  ProgressInv'
  BY <1>3, CallStep DEF ProgressInv, AtEntry
<1>4. CASE ListenerGet
  <2> DEFINE n == First(set.rest)
             same == n \in DOMAIN m_val /\ m_val[n] = set.new[n]
  <2>1. /\ set.pc = "get" /\ n \in set.rest /\ n \in DOMAIN set.new /\ set.rest \subseteq DOMAIN set.new
        /\ set' \in SetStates /\ set'.new = set.new /\ set'.rest = set.rest \ {n}
        /\ set'.name = n /\ set'.i = 1
        /\ IF same THEN set'.pc = "get" /\ set'.touched = set.touched
           ELSE set'.pc \in {"clear", "level"} /\ set'.touched = set.touched \cup {n}
        /\ UNCHANGED m_val
    BY <1>4, GetStep
  <2> HIDE DEF n
  <2>2. Len(set.new[n].appenders) \in Nat
    <3>1. set.new \in Values
      BY DEF TypeInv, SetStates
    <3> QED
      BY <2>1, <3>1, ConfigFields
  <2>3. set'.touched \subseteq DOMAIN set'.new /\ set'.touched \cap set'.rest = {}
    BY <2>1 DEF ProgressInv
  <2>4. AtEntry' => set'.name \in set'.touched /\ set'.i <= Len(Entry'.appenders) + 1
    BY <2>1, <2>2 DEF AtEntry, Entry
  <2>5. \A m \in DOMAIN set'.new \ set'.touched :
            (set'.pc # "delete" /\ m \in set'.rest) \/ (m \in DOMAIN m_val' /\ m_val'[m] = set'.new[m])
    BY <2>1 DEF ProgressInv
  <2> QED
    BY <2>1, <2>3, <2>4, <2>5 DEF ProgressInv
<1>5. CASE ListenerClear \/ ListenerLevel \/ ListenerFormat
  <2>1. /\ set.pc \in {"clear", "level", "format"} /\ UNCHANGED m_val /\ AtEntry
        /\ \E pc \in {"level", "format", "append"} : SetTo(pc, set.rest, set.i)
    BY <1>5, ClearStep, LevelStep, FormatStep DEF Changes
  <2> QED
    BY <2>1 DEF ProgressInv, AtEntry, Entry, SetTo
<1>6. CASE ListenerAppend
  <2>1. /\ set.pc = "append" /\ UNCHANGED m_val /\ AtEntry /\ set.i \in 1..Len(Entry.appenders)
        /\ SetTo("append", set.rest, set.i + 1)
    BY <1>6, AppendStep DEF Changes
  <2>2. Entry' = Entry /\ Len(Entry.appenders) \in Nat /\ set.i + 1 <= Len(Entry.appenders) + 1
    BY <1>2, <2>1, AtEntryIs DEF Entry, SetTo
  <2> QED
    BY <2>1, <2>2 DEF ProgressInv, AtEntry, SetTo
<1>7. CASE ListenerThrow \/ SetValueReturn
  BY <1>7, ThrowStep, ReturnStep, IdleIs, NothingNew DEF ProgressInv, AtEntry
<1>8. CASE ListenerNext
  BY <1>8, NextStep DEF ProgressInv, AtEntry, SetTo
<1>9. CASE ListenerDelete
  <2>1. set.pc = "delete" /\ SetTo("delete", set.rest \ {First(set.rest)}, set.i) /\ UNCHANGED m_val
    BY <1>9, DeleteStep
  <2> QED
    BY <2>1 DEF ProgressInv, AtEntry, SetTo
<1>10. ASSUME NEW u \in Users, NEW n \in UserNames, UserGet(u, n)
       PROVE  ProgressInv'
  BY <1>1, <1>10, UserGetStep
<1>11. ASSUME NEW u \in Users, UserChange(u)
       PROVE  ProgressInv'
  BY <1>1, <1>11, UserChangeStep
<1>12. ASSUME NEW n \in UserNames, UserDelLogger(n)
       PROVE  ProgressInv'
  BY <1>1, <1>12, UserDelStep
<1>13. Quiet => ProgressInv'
  BY <1>1 DEF Quiet
<1> QED
  BY <1>3, <1>4, <1>5, <1>6, <1>7, <1>8, <1>9, <1>10, <1>11, <1>12, <1>13, Steppings DEF Listener

LEMMA InitProgress == Init => ProgressInv
BY IdleIs, NothingNew DEF Init, ProgressInv, AtEntry

\* The files of the first k - 1 appenders have names.
Named(config, k) ==
    \A j \in 1..Len(config.appenders) :
        j < k /\ config.appenders[j].type = "File" => config.appenders[j].file # Unnamed
AllNamed(config) == Named(config, Len(config.appenders) + 1)

\* An entry whose file has no name makes the listener throw: it is never in force.
NamedInv ==
    /\ \A n \in DOMAIN m_val : AllNamed(m_val[n])
    /\ \A n \in set.touched :
          IF AtEntry /\ n = set.name THEN Named(set.new[n], set.i) ELSE AllNamed(set.new[n])

LEMMA NamedStep == TypeInv /\ ProgressInv /\ NamedInv /\ [Next]_vars => NamedInv'
<1> SUFFICES ASSUME TypeInv, ProgressInv, NamedInv, [Next]_vars
             PROVE  NamedInv'
  OBVIOUS
<1>1. UNCHANGED <<set, m_val>> => NamedInv'
  BY DEF NamedInv, AtEntry
<1>2. set.i \in Nat /\ set.new \in Values
  BY DEF TypeInv, SetStates
<1>3. ASSUME NEW doc \in Docs, SetValueCall(doc)
      PROVE  NamedInv'
  BY <1>3, CallStep DEF NamedInv, AtEntry
<1>4. CASE ListenerGet
  <2> DEFINE n == First(set.rest)
             same == n \in DOMAIN m_val /\ m_val[n] = set.new[n]
  <2>1. /\ set.pc = "get" /\ n \in DOMAIN set.new
        /\ set'.new = set.new /\ set'.name = n /\ set'.i = 1
        /\ IF same THEN set'.pc = "get" /\ set'.touched = set.touched
           ELSE set'.pc \in {"clear", "level"} /\ set'.touched = set.touched \cup {n}
        /\ UNCHANGED m_val
    BY <1>4, GetStep
  <2> HIDE DEF n
  <2>2. Named(set.new[n], 1)
    <3>1. set.new[n].appenders \in Seq(AppenderConfigs)
      BY <1>2, <2>1, ConfigFields
    <3> QED
      BY <3>1 DEF Named
  <2> QED
    BY <2>1, <2>2 DEF NamedInv, AtEntry
<1>5. CASE ListenerClear \/ ListenerLevel \/ ListenerFormat
  <2>1. /\ AtEntry /\ UNCHANGED m_val
        /\ \E pc \in {"level", "format", "append"} : SetTo(pc, set.rest, set.i)
    BY <1>5, ClearStep, LevelStep, FormatStep DEF Changes
  <2> QED
    BY <2>1 DEF NamedInv, AtEntry, SetTo
<1>6. CASE ListenerAppend
  <2>1. /\ UNCHANGED m_val /\ AtEntry /\ set.i \in 1..Len(Entry.appenders)
        /\ SetTo("append", set.rest, set.i + 1) /\ ~Rejected(set.name, Entry.appenders[set.i])
    BY <1>6, AppendStep DEF Changes
  <2>2. set.name \in set.touched /\ Named(Entry, set.i) /\ Entry.appenders \in Seq(AppenderConfigs)
    BY <2>1, AtEntryIs DEF NamedInv, ProgressInv, Entry
  <2>3. Entry.appenders[set.i].type = "File" => Entry.appenders[set.i].file # Unnamed
    BY <2>1 DEF Rejected, Skipped
  <2>4. Named(Entry, set.i + 1)
    BY <1>2, <2>2, <2>3 DEF Named
  <2> QED
    BY <2>1, <2>4 DEF NamedInv, AtEntry, SetTo, Entry
<1>7. CASE ListenerThrow
  BY <1>7, ThrowStep, IdleIs DEF NamedInv, AtEntry
<1>8. CASE ListenerNext
  <2>1. UNCHANGED m_val
    BY <1>8, NextStep
  <2>2. CASE set.pc = "append" /\ set.i > Len(Entry.appenders) /\ SetTo("get", set.rest, set.i)
    <3>1. AtEntry /\ Entry.appenders \in Seq(AppenderConfigs)
      BY <2>2, AtEntryIs DEF AtEntry
    <3>2. set.name \in set.touched /\ Named(Entry, set.i)
      BY <3>1 DEF NamedInv, ProgressInv, Entry
    <3>3. AllNamed(Entry)
      BY <1>2, <2>2, <3>1, <3>2 DEF Named, AllNamed
    <3> QED
      BY <2>1, <2>2, <3>1, <3>3 DEF NamedInv, AtEntry, SetTo, Entry
  <2>3. CASE set.pc = "get" /\ SetTo("delete", DOMAIN m_val \ DOMAIN set.new, set.i)
    BY <2>1, <2>3 DEF NamedInv, AtEntry, SetTo
  <2> QED
    BY <1>8, <2>2, <2>3, NextStep
<1>9. CASE ListenerDelete
  <2>1. set.pc = "delete" /\ SetTo("delete", set.rest \ {First(set.rest)}, set.i) /\ UNCHANGED m_val
    BY <1>9, DeleteStep
  <2> QED
    BY <2>1 DEF NamedInv, AtEntry, SetTo
<1>10. CASE SetValueReturn
  BY <1>10, ReturnStep, IdleIs DEF NamedInv, ProgressInv, AtEntry
<1>11. ASSUME NEW u \in Users, NEW n \in UserNames, UserGet(u, n)
       PROVE  NamedInv'
  BY <1>1, <1>11, UserGetStep
<1>12. ASSUME NEW u \in Users, UserChange(u)
       PROVE  NamedInv'
  BY <1>1, <1>12, UserChangeStep
<1>13. ASSUME NEW n \in UserNames, UserDelLogger(n)
       PROVE  NamedInv'
  BY <1>1, <1>13, UserDelStep
<1>14. Quiet => NamedInv'
  BY <1>1 DEF Quiet
<1> QED
  BY <1>3, <1>4, <1>5, <1>6, <1>7, <1>8, <1>9, <1>10, <1>11, <1>12, <1>13, <1>14, Steppings DEF Listener

LEMMA InitNamed == Init => NamedInv
BY IdleIs, NothingNew DEF Init, NamedInv, AtEntry

\* The two levels that FromString knows, and none.
LEMMA LevelBack ==
    /\ \A v \in {0, DEBUG, INFO} : FromString(LevelName(v)) = v /\ LevelName(v) # Missing
    /\ FromString(Missing) = 0
<1>1. Missing \notin {"DEBUG", "INFO", "UNKNOWN"}
  BY FilesAssumption DEF LevelNames
<1> QED
  BY <1>1 DEF FromString, LevelName, DEBUG, INFO, FATAL

LEMMA AppenderBack ==
    ASSUME NEW a \in AppenderConfigs, a.type = "File" => a.file # Unnamed
    PROVE  /\ AppenderText(a).type \in {"StdOut", "File"}
           /\ AppenderText(a).type = "File" => AppenderText(a).file # Missing
           /\ LogAppenderConfig(AppenderText(a)) = a
<1> DEFINE file == IF a.file = Unnamed THEN Missing ELSE a.file
           level == IF a.level = 0 THEN Missing ELSE LevelName(a.level)
<1>1. /\ a.type \in {"StdOut", "File"} /\ a.level \in {0, DEBUG, INFO} /\ (a.type = "File" <=> a.file # Missing)
      /\ a = [type |-> a.type, file |-> a.file, level |-> a.level, formatter |-> a.formatter]
  BY AppenderFields
<1>2. FromString(level) = a.level /\ (IF a.type = "File" THEN file ELSE Missing) = a.file
  BY <1>1, LevelBack
<1> HIDE DEF level, file
<1>3. AppenderText(a) = [type |-> a.type, file |-> file, level |-> level, formatter |-> a.formatter]
  BY Zenon DEF AppenderText, file, level
<1>4. LogAppenderConfig(AppenderText(a)) =
        [type |-> a.type, file |-> IF a.type = "File" THEN file ELSE Missing, level |-> FromString(level),
         formatter |-> a.formatter]
  <2> DEFINE t == AppenderText(a)
  <2>1. t.type = a.type /\ t.file = file /\ t.level = level /\ t.formatter = a.formatter
    BY <1>3
  <2> HIDE DEF t
  <2> QED
    BY <2>1, Zenon DEF LogAppenderConfig, t
<1>5. LogAppenderConfig(AppenderText(a)) = a
  BY <1>1, <1>2, <1>4, Zenon
<1>6. a.type = "File" => file # Missing
  BY <1>1 DEF file
<1>7. AppenderText(a).type = a.type /\ AppenderText(a).file = file
  BY <1>3
<1> QED
  BY <1>1, <1>5, <1>6, <1>7

LEMMA ConfigBack ==
    ASSUME NEW n \in Names, NEW c \in Configs, AllNamed(c)
    PROVE  ~Malformed(ConfigText(n, c)) /\ LoggerConfig(ConfigText(n, c)) = [c EXCEPT !.formatter = Missing]
<1> DEFINE s == c.appenders
           texts == [k \in DOMAIN s |-> AppenderText(s[k])]
           text == ConfigText(n, c)
<1>1. s \in Seq(AppenderConfigs) /\ c.level \in {0, DEBUG, INFO} /\ Len(s) \in Nat
  BY DEF Configs
<1>2. \A k \in DOMAIN s : s[k] \in AppenderConfigs /\ (s[k].type = "File" => s[k].file # Unnamed)
  BY <1>1 DEF AllNamed, Named
<1>3. text = [name |-> n, level |-> LevelName(c.level), formatter |-> Missing, appenders |-> texts]
  BY Zenon DEF ConfigText
<1>4. DOMAIN texts = DOMAIN s /\ \A k \in DOMAIN s : texts[k] = AppenderText(s[k])
  BY Zenon
<1>5. \A k \in DOMAIN s : /\ texts[k].type \in {"StdOut", "File"} /\ (texts[k].type = "File" => texts[k].file # Missing)
                          /\ LogAppenderConfig(texts[k]) = s[k]
  BY <1>2, <1>4, AppenderBack
<1> HIDE DEF text, texts
<1>6. text.name = n /\ text.level = LevelName(c.level) /\ text.formatter = Missing /\ text.appenders = texts
  BY <1>3
<1>7. ~Malformed(text)
  <2>1. n # Missing /\ LevelName(c.level) # Missing
    BY <1>1, LevelBack, FilesAssumption
  <2> QED
    BY <1>4, <1>5, <1>6, <2>1 DEF Malformed
<1>8. [k \in DOMAIN texts |-> LogAppenderConfig(texts[k])] = s
  <2>1. s = [k \in DOMAIN s |-> s[k]]
    BY <1>1
  <2> QED
    BY <1>4, <1>5, <2>1, Zenon
<1>9. LoggerConfig(text) = [level |-> c.level, formatter |-> Missing, appenders |-> s]
  BY <1>1, <1>6, <1>8, LevelBack, Zenon DEF LoggerConfig
<1>10. [c EXCEPT !.formatter = Missing] = [level |-> c.level, formatter |-> Missing, appenders |-> s]
  BY DEF Configs
<1> QED
  BY <1>7, <1>9, <1>10 DEF text

\* What ToString writes of the configuration in force is that configuration, but for the formatters
\* of the loggers.
THEOREM ReadsBack == Spec => []ConfigReadsBack
<1>1. TypeInv /\ NamedInv => ConfigReadsBack
  <2> SUFFICES ASSUME TypeInv, NamedInv, NEW n \in DOMAIN m_val
               PROVE  /\ ~Malformed(ConfigText(n, m_val[n]))
                      /\ LoggerConfig(ConfigText(n, m_val[n])) = [m_val[n] EXCEPT !.formatter = Missing]
    BY DEF ConfigReadsBack
  <2>1. n \in Names /\ m_val[n] \in Configs
    BY ConfigFields DEF TypeInv
  <2>2. AllNamed(m_val[n])
    BY DEF NamedInv
  <2> QED
    BY <2>1, <2>2, ConfigBack
<1> QED
  BY <1>1, Typed, InitProgress, ProgressStep, InitNamed, NamedStep, PTL DEF Spec

-----------------------------------------------------------------------------
(***************************************************************************)
(* What the appenders of a logger, or of an entry, come to.                *)
(***************************************************************************)
Shape(a, formatter) ==
    [type |-> a.type, file |-> a.file, level |-> IF a.level = 0 THEN DEBUG ELSE a.level,
     formatter |-> IF a.formatter = Missing THEN formatter ELSE a.formatter]
Piece(name, a, formatter) == IF Skipped(name, a) THEN <<>> ELSE <<Shape(a, formatter)>>
Pieces(name, appenders, formatter) == [k \in DOMAIN appenders |-> Piece(name, appenders[k], formatter)]

Shapes == [type : {"StdOut", "File"}, file : Files \cup {Missing}, level : Levels, formatter : Formats]
Either == Appenders \cup AppenderConfigs

LEMMA ShownIs ==
    ASSUME NEW name, NEW appenders, NEW formatter
    PROVE  Shown(name, appenders, formatter) = FlattenSeq(Pieces(name, appenders, formatter))
BY Zenon DEF Shown, Pieces, Piece, Shape

LEMMA PieceTyped ==
    ASSUME NEW name, NEW a \in Either, NEW formatter \in Formats
    PROVE  Piece(name, a, formatter) \in Seq(Shapes)
<1>1. /\ a.type \in {"StdOut", "File"} /\ a.file \in Files \cup {Missing} /\ a.level \in Levels
      /\ a.formatter \in Formats \cup {Missing}
  BY AppenderFields, AppenderIs DEF Either, Levels, DEBUG, INFO
<1>2. Shape(a, formatter) \in Shapes
  <2> DEFINE level == IF a.level = 0 THEN DEBUG ELSE a.level
             f == IF a.formatter = Missing THEN formatter ELSE a.formatter
  <2>1. level \in Levels /\ f \in Formats
    BY <1>1 DEF Levels, DEBUG
  <2>2. Shape(a, formatter) = [type |-> a.type, file |-> a.file, level |-> level, formatter |-> f]
    BY Zenon DEF Shape
  <2> HIDE DEF level, f
  <2> QED
    BY <1>1, <2>1, <2>2 DEF Shapes
<1> HIDE DEF Shape
<1> QED
  BY <1>2 DEF Piece

LEMMA PiecesTyped ==
    ASSUME NEW name, NEW s \in Seq(Either), NEW formatter \in Formats
    PROVE  Pieces(name, s, formatter) \in Seq(Seq(Shapes)) /\ Len(Pieces(name, s, formatter)) = Len(s)
<1> DEFINE p == Pieces(name, s, formatter)
<1>1. \A k \in 1..Len(s) : Piece(name, s[k], formatter) \in Seq(Shapes)
  BY PieceTyped
<1>2. Len(s) \in Nat /\ p = [k \in 1..Len(s) |-> Piece(name, s[k], formatter)]
  <2>1. Len(s) \in Nat /\ DOMAIN s = 1..Len(s)
    OBVIOUS
  <2> QED
    BY <2>1, Zenon DEF Pieces
<1>3. p \in [1..Len(s) -> Seq(Shapes)]
  <2> HIDE DEF p
  <2> QED
    BY <1>1, <1>2
<1> HIDE DEF p
<1>4. p \in Seq(Seq(Shapes)) /\ Len(p) = Len(s)
  BY <1>2, <1>3, FunctionIsSeq
<1> QED
  BY <1>4 DEF p

LEMMA ShownTyped ==
    ASSUME NEW name, NEW s \in Seq(Either), NEW formatter \in Formats
    PROVE  Shown(name, s, formatter) \in Seq(Shapes)
BY ShownIs, PiecesTyped, FlattenTyped

LEMMA ShownEmpty ==
    ASSUME NEW name, NEW formatter
    PROVE  Shown(name, <<>>, formatter) = <<>>
<1>1. Pieces(name, <<>>, formatter) = <<>>
  BY DEF Pieces
<1> QED
  BY <1>1, ShownIs, FlattenEmpty

LEMMA ShownAppend ==
    ASSUME NEW name, NEW s \in Seq(Either), NEW a \in Either, NEW formatter \in Formats
    PROVE  Shown(name, Append(s, a), formatter) = Shown(name, s, formatter) \o Piece(name, a, formatter)
<1> DEFINE p == Pieces(name, s, formatter)
           q == Pieces(name, Append(s, a), formatter)
           x == Piece(name, a, formatter)
<1>1. p \in Seq(Seq(Shapes)) /\ Len(p) = Len(s) /\ x \in Seq(Shapes)
  BY PiecesTyped, PieceTyped
<1>2. Append(s, a) \in Seq(Either) /\ Len(Append(s, a)) = Len(s) + 1 /\ Len(s) \in Nat
      /\ Append(s, a)[Len(s) + 1] = a /\ \A k \in 1..Len(s) : Append(s, a)[k] = s[k]
  OBVIOUS
<1>3. q \in Seq(Seq(Shapes)) /\ Len(q) = Len(s) + 1
  BY <1>2, PiecesTyped
<1>4. q[Len(s) + 1] = x /\ \A k \in 1..Len(s) : q[k] = p[k]
  <2> DEFINE t == Append(s, a)
  <2> HIDE DEF t
  <2>1. DOMAIN t = 1..Len(s) + 1 /\ DOMAIN s = 1..Len(s)
    BY <1>2 DEF t
  <2>2. t[Len(s) + 1] = a /\ \A k \in 1..Len(s) : t[k] = s[k]
    BY <1>2 DEF t
  <2>3. q = [k \in DOMAIN t |-> Piece(name, t[k], formatter)] /\ p = [k \in DOMAIN s |-> Piece(name, s[k], formatter)]
    BY Zenon DEF Pieces, t
  <2>4. Len(s) + 1 \in DOMAIN t /\ \A k \in 1..Len(s) : k \in DOMAIN t
    BY <1>2, <2>1
  <2> HIDE DEF q, p
  <2> QED
    BY <2>1, <2>2, <2>3, <2>4, Zenon
<1> HIDE DEF p, q, x
<1>5. q = Append(p, x)
  BY <1>1, <1>2, <1>3, <1>4
<1>6. FlattenSeq(q) = FlattenSeq(p) \o x
  BY <1>1, <1>5, FlattenAppend
<1> QED
  BY <1>6, ShownIs DEF p, q, x

\* An appender of a logger has a formatter, so the logger's does not matter.
LEMMA ShownSame ==
    ASSUME NEW name, NEW s \in Seq(Appenders), NEW f, NEW g
    PROVE  Shown(name, s, f) = Shown(name, s, g)
<1>1. \A k \in DOMAIN s : s[k].formatter # Missing
  <2>1. \A k \in DOMAIN s : s[k] \in Appenders
    OBVIOUS
  <2>2. \A a \in Appenders : a.formatter # Missing
    BY AppenderIs, FilesAssumption DEF Formats
  <2> QED
    BY <2>1, <2>2
<1>2. \A k \in DOMAIN s : Shape(s[k], f) = Shape(s[k], g)
  BY <1>1, Zenon DEF Shape
<1>3. \A k \in DOMAIN s : Piece(name, s[k], f) = Piece(name, s[k], g)
  BY <1>2, Zenon DEF Piece
<1>4. Pieces(name, s, f) = Pieces(name, s, g)
  BY <1>3, Zenon DEF Pieces
<1> QED
  BY <1>4, ShownIs

LEMMA PieceConfigured ==
    ASSUME NEW name, NEW a \in AppenderConfigs, NEW f \in Formats
    PROVE  Piece(name, Configured(a, f), f) = Piece(name, a, f)
<1> DEFINE c == Configured(a, f)
<1>1. c.type = a.type /\ c.file = a.file /\ c.level = (IF a.level # 0 THEN a.level ELSE DEBUG)
      /\ c.formatter = (IF a.formatter = Missing THEN f ELSE a.formatter)
  BY DEF Configured
<1>2. a.level \in {0, DEBUG, INFO} /\ DEBUG # 0 /\ Missing # f
  BY AppenderFields, FilesAssumption DEF DEBUG, Formats
<1> HIDE DEF c
<1>3. (IF c.level = 0 THEN DEBUG ELSE c.level) = IF a.level = 0 THEN DEBUG ELSE a.level
  BY <1>1, <1>2
<1>4. (IF c.formatter = Missing THEN f ELSE c.formatter) = IF a.formatter = Missing THEN f ELSE a.formatter
  BY <1>1, <1>2
<1>5. Shape(c, f) = Shape(a, f)
  BY <1>1, <1>3, <1>4, Zenon DEF Shape
<1>6. Skipped(name, c) <=> Skipped(name, a)
  BY <1>1 DEF Skipped
<1> QED
  BY <1>5, <1>6, Zenon DEF Piece, c

-----------------------------------------------------------------------------
(***************************************************************************)
(* The configuration is applied.                                           *)
(***************************************************************************)
\* The logger of this name is as the entry says.
Fits(n, config) == n \in DOMAIN m_loggers /\ Applied(logger[m_loggers[n]], config)

\* The logger of this name, if there is one, has no appender but root's StdOut.
Bare(n) ==
    n \in DOMAIN m_loggers =>
        Shown(n, logger[m_loggers[n]].appenders, logger[m_loggers[n]].formatter) = <<>>

\* How far the logger of the entry is, at which the listener is.
Staged ==
    LET l == logger[set.ptr]
    IN  /\ set.name \in DOMAIN m_loggers /\ m_loggers[set.name] = set.ptr
        /\ set.pc # "clear" => Shown(set.name, l.appenders, l.formatter)
                               = Shown(set.name, SubSeq(Entry.appenders, 1, set.i - 1), l.formatter)
        /\ set.pc \in {"format", "append"} => l.level = Entry.level
        /\ set.pc = "append" /\ Entry.formatter # Missing /\ ~IsError(Entry.formatter) =>
              l.formatter = Entry.formatter

\* The old value has the name, and the listener has not erased its logger.
InForce(n) == n \in DOMAIN m_val /\ (set.pc = "delete" => n \in DOMAIN set.new \cup set.rest)

\* Every logger that nobody else has changed is as the new value says if the listener has touched it,
\* and else as the old value says.
Right(n) ==
    IF AtEntry /\ n = set.name THEN Staged
    ELSE IF n \in set.touched THEN Fits(n, set.new[n])
    ELSE IF InForce(n) THEN Fits(n, m_val[n])
    ELSE Bare(n)

ConfigInv == \A n \in Names \ astray : Right(n)

\* The step leaves the logger of this name alone.
Kept(n) ==
    /\ n \in DOMAIN m_loggers' <=> n \in DOMAIN m_loggers
    /\ n \in DOMAIN m_loggers =>
          m_loggers'[n] = m_loggers[n] /\ logger'[m_loggers[n]] = logger[m_loggers[n]]

LEMMA KeptRight ==
    ASSUME NEW n, Right(n), Kept(n), UNCHANGED <<set, m_val>>
    PROVE  Right(n)'
<1>1. CASE AtEntry /\ n = set.name
  BY <1>1 DEF Right, Kept, Staged, AtEntry, Entry
<1>2. CASE ~(AtEntry /\ n = set.name)
  BY <1>2 DEF Right, Kept, Fits, Bare, InForce, AtEntry
<1> QED
  BY <1>1, <1>2

LEMMA NothingChanges ==
    ASSUME UNCHANGED <<logger, m_loggers>>, NEW n
    PROVE  Kept(n)
BY DEF Kept

LEMMA GetKeeps ==
    ASSUME TypeInv, NEW n \in Names, GetLogger(n), NEW m, m # n \/ m \in DOMAIN m_loggers
    PROVE  Kept(m)
<1>1. \A k \in DOMAIN m_loggers : m_loggers[k] \in 1..Len(logger)
  BY DEF TypeInv
<1>2. /\ \A i \in 1..Len(logger) : logger'[i] = logger[i]
      /\ DOMAIN m_loggers' = DOMAIN m_loggers \cup {n}
      /\ \A k \in DOMAIN m_loggers : m_loggers'[k] = m_loggers[k]
  BY GetLoggerIs
<1>3. m \in DOMAIN m_loggers' <=> m \in DOMAIN m_loggers
  BY <1>2
<1> QED
  BY <1>1, <1>2, <1>3 DEF Kept

LEMMA ChangesKeep ==
    ASSUME TypeInv, NamesInv, Changes, NEW m, m # set.name
    PROVE  Kept(m)
<1>1. \A k \in DOMAIN m_loggers : m_loggers[k] \in 1..Len(logger) /\ logger[m_loggers[k]].name = k
  BY DEF TypeInv, NamesInv
<1>2. logger[set.ptr].name = set.name
  BY DEF NamesInv, Changes
<1> QED
  BY <1>1, <1>2 DEF Kept, Changes

LEMMA DelKeeps ==
    ASSUME TypeInv, NEW n, DelLogger(n), UNCHANGED logger, NEW m, m # n
    PROVE  Kept(m)
<1>1. /\ DOMAIN m_loggers' = DOMAIN m_loggers \ {n}
      /\ \A k \in DOMAIN m_loggers' : m_loggers'[k] = m_loggers[k]
  BY DelLoggerIs
<1>2. m \in DOMAIN m_loggers' <=> m \in DOMAIN m_loggers
  BY <1>1
<1> QED
  BY <1>1, <1>2 DEF Kept

\* LOG_NAME of any name.
LEMMA GetRight ==
    ASSUME TypeInv, NEW n \in Names, GetLogger(n), UNCHANGED <<set, m_val>>, NEW m \in Names, Right(m)
    PROVE  Right(m)'
<1>1. CASE m # n \/ m \in DOMAIN m_loggers
  BY <1>1, GetKeeps, KeptRight
<1>2. CASE m = n /\ m \notin DOMAIN m_loggers
  <2>1. /\ ~(AtEntry /\ m = set.name) /\ m \notin set.touched /\ ~InForce(m)
    BY <1>2 DEF Right, Fits, Staged
  <2>2. Bare(m)'
    <3>1. m_loggers'[n] = Len(logger) + 1 /\ logger' = Append(logger, NewLogger(n))
      BY <1>2, GetLoggerIs DEF Found, GetLogger
    <3>2. logger \in Seq(LoggerObjects) /\ NewLogger(n).appenders = <<>> /\ NewLogger(n) \in LoggerObjects
      BY NewLoggerTyped DEF TypeInv
    <3>3. logger'[m_loggers'[m]].appenders = <<>>
      BY <1>2, <3>1, <3>2
    <3> QED
      BY <3>3, ShownEmpty DEF Bare
  <2> QED
    BY <2>1, <2>2 DEF Right, AtEntry, InForce
<1> QED
  BY <1>1, <1>2

\* The listener is at one entry: the others' loggers are left alone.
LEMMA OthersRight ==
    ASSUME TypeInv, NamesInv, Changes, NEW pc \in {"level", "format", "append"}, NEW k,
           SetTo(pc, set.rest, k), NEW m, Right(m), m # set.name
    PROVE  Right(m)'
<1>1. Kept(m)
  BY ChangesKeep
<1>2. AtEntry /\ AtEntry' /\ UNCHANGED m_val /\ set.pc # "delete" /\ set'.pc # "delete"
  BY DEF Changes, AtEntry, SetTo
<1> QED
  BY <1>1, <1>2 DEF Right, Kept, Fits, Bare, InForce, SetTo

\* The four steps at an entry bring its logger to the next stage.
LEMMA EntryStaged ==
    ASSUME TypeInv, NamesInv, ProgressInv, Staged,
           ListenerClear \/ ListenerLevel \/ ListenerFormat \/ ListenerAppend
    PROVE  Staged'
<1> DEFINE l == logger[set.ptr]
           m == logger'[set.ptr]
           es == Entry.appenders
<1>1. /\ Changes /\ AtEntry /\ AtEntry' /\ m \in LoggerObjects /\ l \in LoggerObjects
      /\ Entry' = Entry /\ set'.name = set.name /\ set'.ptr = set.ptr /\ UNCHANGED m_loggers
  <2>1. Changes /\ \E pc \in {"level", "format", "append"}, k \in Nat : SetTo(pc, set.rest, k)
    <3>1. set.i \in Nat /\ set.i + 1 \in Nat
      BY DEF TypeInv, SetStates
    <3> QED
      BY <3>1, ClearStep, LevelStep, FormatStep, AppendStep
  <2> QED
    BY <2>1 DEF Changes, AtEntry, SetTo, TypeInv, Entry
<1>2. /\ l.name = set.name /\ l.appenders \in Seq(Appenders) /\ l.formatter \in Formats
      /\ m.appenders \in Seq(Appenders) /\ m.formatter \in Formats
      /\ es \in Seq(AppenderConfigs) /\ set.i >= 1 /\ set.i \in Nat /\ Len(es) \in Nat
  BY <1>1, ObjectFields, AtEntryIs DEF NamesInv
<1>3. set.name \in DOMAIN m_loggers' /\ m_loggers'[set.name] = set'.ptr
  BY <1>1 DEF Staged
<1>4. SubSeq(es, 1, 0) = <<>>
  BY <1>2
<1>5. CASE ListenerClear
  <2>1. set.pc = "clear" /\ set'.pc = "level" /\ set'.i = 1 /\ m.appenders = <<>>
    BY <1>5, ClearStep DEF SetTo, ProgressInv
  <2>2. Shown(set.name, m.appenders, m.formatter) = Shown(set.name, SubSeq(es, 1, set'.i - 1), m.formatter)
    <3>1. set'.i - 1 = 0
      BY <2>1
    <3> QED
      BY <1>4, <2>1, <3>1, Zenon
  <2> QED
    BY <1>1, <1>3, <2>1, <2>2 DEF Staged
<1>6. CASE ListenerLevel \/ ListenerFormat
  <2>1. /\ set.pc \in {"level", "format"} /\ set'.i = 1 /\ set.i = 1 /\ m.appenders = l.appenders
        /\ set.pc = "level" => set'.pc = "format" /\ m.level = Entry.level
        /\ set.pc = "format" =>
              /\ set'.pc = "append" /\ m.level = l.level
              /\ Entry.formatter # Missing /\ ~IsError(Entry.formatter) => m.formatter = Entry.formatter
    <3>1. CASE ListenerLevel
      BY <3>1, LevelStep DEF SetTo, ProgressInv
    <3>2. CASE ListenerFormat
      BY <3>2, FormatStep DEF SetTo, ProgressInv
    <3> QED
      BY <1>6, <3>1, <3>2
  <2>2. Shown(set.name, l.appenders, l.formatter) = <<>>
    <3>1. Shown(set.name, l.appenders, l.formatter) = Shown(set.name, SubSeq(es, 1, set.i - 1), l.formatter)
      BY <2>1 DEF Staged
    <3>2. set.i - 1 = 0
      BY <2>1
    <3> QED
      BY <1>4, <3>1, <3>2, ShownEmpty, Zenon
  <2>3. Shown(set.name, m.appenders, m.formatter) = <<>>
    BY <1>2, <2>1, <2>2, ShownSame
  <2>4. Shown(set.name, m.appenders, m.formatter) = Shown(set.name, SubSeq(es, 1, set'.i - 1), m.formatter)
    <3>1. set'.i - 1 = 0
      BY <2>1
    <3> QED
      BY <1>4, <2>3, <3>1, ShownEmpty, Zenon
  <2> QED
    BY <1>1, <1>3, <2>1, <2>4 DEF Staged
<1>7. CASE ListenerAppend
  <2> DEFINE a == es[set.i]
             f == l.formatter
             had == SubSeq(es, 1, set.i - 1)
  <2>1. /\ set.pc = "append" /\ set'.pc = "append" /\ set'.i = set.i + 1 /\ set.i \in 1..Len(es)
        /\ m.level = l.level /\ m.formatter = f
        /\ m.appenders = IF Skipped(set.name, a) THEN l.appenders
                         ELSE Append(l.appenders, Configured(a, f))
    BY <1>2, <1>7, AppendStep DEF SetTo
  <2>2. a \in AppenderConfigs /\ had \in Seq(AppenderConfigs) /\ SubSeq(es, 1, set'.i - 1) = Append(had, a)
    <3>1. \A s \in Seq(AppenderConfigs) : \A k \in 1..Len(s) :
              /\ s[k] \in AppenderConfigs /\ SubSeq(s, 1, k - 1) \in Seq(AppenderConfigs)
              /\ SubSeq(s, 1, k) = Append(SubSeq(s, 1, k - 1), s[k])
      OBVIOUS
    <3>2. set'.i - 1 = set.i
      BY <1>2, <2>1
    <3> QED
      BY <1>2, <2>1, <3>1, <3>2, Zenon
  <2>3. Shown(set.name, l.appenders, f) = Shown(set.name, had, f)
    BY <2>1 DEF Staged
  <2>t. l.appenders \in Seq(Either) /\ had \in Seq(Either) /\ a \in Either
    BY <1>2, <2>2 DEF Either
  <2> DEFINE c == Configured(a, f)
  <2>c. c \in Either /\ f \in Formats
    BY <1>1, <1>2, <2>2, AppendedIs DEF Either
  <2>h. PICK x : x = a /\ x \in AppenderConfigs
    BY <2>2
  <2> HIDE DEF a, f, had, c
  <2>4. Shown(set.name, Append(had, a), f) = Shown(set.name, had, f) \o Piece(set.name, a, f)
    BY <2>c, <2>t, ShownAppend
  <2>5. Shown(set.name, m.appenders, f) = Shown(set.name, Append(had, a), f)
    <3>1. CASE Skipped(set.name, a)
      <4>1. Piece(set.name, a, f) = <<>> /\ m.appenders = l.appenders
        BY <2>1, <3>1, Zenon DEF Piece
      <4>2. Shown(set.name, had, f) \in Seq(Shapes)
        BY <2>c, <2>t, ShownTyped
      <4>3. Shown(set.name, had, f) \o <<>> = Shown(set.name, had, f)
        BY <4>2
      <4> QED
        BY <2>3, <2>4, <4>1, <4>3
    <3>2. CASE ~Skipped(set.name, a)
      <4>1. m.appenders = Append(l.appenders, c)
        BY <2>1, <3>2 DEF c
      <4>2. Shown(set.name, Append(l.appenders, c), f) = Shown(set.name, l.appenders, f) \o Piece(set.name, c, f)
        BY <2>c, <2>t, ShownAppend
      <4>3. Piece(set.name, c, f) = Piece(set.name, a, f)
        BY <2>2, <2>c, PieceConfigured DEF c
      <4> QED
        BY <2>3, <2>4, <4>1, <4>2, <4>3
    <3> QED
      BY <3>1, <3>2
  <2>6. m.level = Entry.level
    BY <2>1 DEF Staged
  <2>7. Entry.formatter # Missing /\ ~IsError(Entry.formatter) => m.formatter = Entry.formatter
    BY <2>1 DEF Staged, f
  <2> QED
    BY <1>1, <1>3, <2>1, <2>2, <2>5, <2>6, <2>7 DEF Staged
<1> QED
  BY <1>5, <1>6, <1>7

\* After its last appender the logger is as the entry says.
LEMMA StagedFits ==
    ASSUME TypeInv, NamesInv, ProgressInv, Staged, set.pc = "append", set.i > Len(Entry.appenders)
    PROVE  Fits(set.name, Entry)
<1> DEFINE l == logger[set.ptr]
           es == Entry.appenders
<1>1. AtEntry /\ es \in Seq(AppenderConfigs) /\ Len(es) \in Nat /\ set.i \in Nat /\ l.name = set.name
  BY AtEntryIs DEF AtEntry, NamesInv
<1>2. set.i = Len(es) + 1
  BY <1>1 DEF ProgressInv
<1>3. SubSeq(es, 1, set.i - 1) = es
  BY <1>1, <1>2
<1>4. /\ Shown(set.name, l.appenders, l.formatter) = Shown(set.name, es, l.formatter)
      /\ l.level = Entry.level
      /\ Entry.formatter # Missing /\ ~IsError(Entry.formatter) => l.formatter = Entry.formatter
      /\ set.name \in DOMAIN m_loggers /\ m_loggers[set.name] = set.ptr
  BY <1>3 DEF Staged
<1>5. Applied(l, Entry)
  BY <1>1, <1>4 DEF Applied
<1> QED
  BY <1>4, <1>5 DEF Fits

LEMMA GetStepRight ==
    ASSUME TypeInv, NamesInv, ProgressInv, ListenerGet, NEW m \in Names, Right(m)
    PROVE  Right(m)'
<1> DEFINE n == First(set.rest)
           same == n \in DOMAIN m_val /\ m_val[n] = set.new[n]
<1>1. /\ set.pc = "get" /\ n \in set.rest /\ n \in Names /\ n \in DOMAIN set.new /\ GetLogger(n)
      /\ set'.new = set.new /\ set'.rest = set.rest \ {n} /\ set'.name = n /\ set'.ptr = Found(n) /\ set'.i = 1
      /\ IF same THEN set'.pc = "get" /\ set'.touched = set.touched
         ELSE /\ set'.pc = IF n \in DOMAIN m_val THEN "clear" ELSE "level"
              /\ set'.touched = set.touched \cup {n}
      /\ UNCHANGED m_val
  BY GetStep
<1>2. n \notin set.touched
  BY <1>1 DEF ProgressInv
<1> HIDE DEF n
<1>3. CASE m # n
  <2>1. Kept(m)
    BY <1>1, <1>3, GetKeeps
  <2>2. ~AtEntry /\ (m \in set'.touched <=> m \in set.touched) /\ (InForce(m)' <=> InForce(m))
        /\ ~(AtEntry' /\ m = set'.name)
    BY <1>1, <1>3 DEF AtEntry, InForce
  <2> QED
    BY <1>1, <2>1, <2>2 DEF Right, Kept, Fits, Bare
<1>4. CASE m = n
  <2>1. IF n \in DOMAIN m_val THEN Fits(n, m_val[n]) ELSE Bare(n)
    BY <1>1, <1>2, <1>4 DEF Right, AtEntry, InForce
  <2>2. CASE same
    <3>1. Kept(m) /\ n \in DOMAIN m_loggers
      BY <1>1, <1>4, <2>1, <2>2, GetKeeps DEF Fits
    <3> QED
      BY <1>1, <1>2, <1>4, <2>1, <2>2, <3>1 DEF Right, Kept, Fits, AtEntry, InForce
  <2>3. CASE ~same
    <3> DEFINE l == logger'[Found(n)]
    <3>0. AtEntry' /\ set'.pc \in {"clear", "level"} /\ (set'.pc = "level" => n \notin DOMAIN m_val)
      BY <1>1, <2>3 DEF AtEntry
    <3>1. n \in DOMAIN m_loggers' /\ m_loggers'[n] = set'.ptr
      BY <1>1, GetLoggerIs
    <3>2. set'.pc = "level" => Shown(n, l.appenders, l.formatter) = <<>>
      <4> SUFFICES ASSUME n \notin DOMAIN m_val
                   PROVE  Shown(n, l.appenders, l.formatter) = <<>>
        BY <3>0
      <4>1. CASE n \in DOMAIN m_loggers
        <5>1. l = logger[m_loggers[n]] /\ Found(n) = m_loggers[n]
          BY <1>1, <4>1, GetKeeps DEF Kept, Found
        <5> QED
          BY <2>1, <4>1, <5>1 DEF Bare
      <4>2. CASE n \notin DOMAIN m_loggers
        <5>1. logger' = Append(logger, NewLogger(n)) /\ Found(n) = Len(logger) + 1
          BY <1>1, <4>2 DEF GetLogger, Found
        <5>2. logger \in Seq(LoggerObjects) /\ NewLogger(n).appenders = <<>> /\ NewLogger(n) \in LoggerObjects
          BY <1>1, NewLoggerTyped DEF TypeInv
        <5>3. l.appenders = <<>>
          BY <5>1, <5>2
        <5> QED
          BY <5>3, ShownEmpty
      <4> QED
        BY <4>1, <4>2
    <3>3. Entry'.appenders \in Seq(AppenderConfigs)
      <4>1. set.new \in Values
        BY DEF TypeInv, SetStates
      <4> QED
        BY <1>1, <4>1, ConfigFields DEF Entry
    <3>4. SubSeq(Entry'.appenders, 1, set'.i - 1) = <<>>
      BY <1>1, <3>3
    <3>5. l = logger'[set'.ptr]
      BY <1>1
    <3> HIDE DEF l
    <3>6. set'.pc # "clear" => Shown(set'.name, l.appenders, l.formatter)
                               = Shown(set'.name, SubSeq(Entry'.appenders, 1, set'.i - 1), l.formatter)
      BY <1>1, <3>0, <3>2, <3>4, ShownEmpty
    <3>7. Staged'
      BY <1>1, <3>0, <3>1, <3>5, <3>6 DEF Staged
    <3> QED
      BY <1>1, <1>4, <3>0, <3>7 DEF Right
  <2> QED
    BY <2>2, <2>3
<1> QED
  BY <1>3, <1>4

LEMMA ConfigStep == TypeInv /\ NamesInv /\ ProgressInv /\ ConfigInv /\ [Next]_vars => ConfigInv'
<1> SUFFICES ASSUME TypeInv, NamesInv, ProgressInv, ConfigInv, [Next]_vars
             PROVE  ConfigInv'
  OBVIOUS
<1>1. ASSUME NEW doc \in Docs, SetValueCall(doc)
      PROVE  ConfigInv'
  BY <1>1, CallStep DEF ConfigInv, Right, ProgressInv, AtEntry, InForce, Fits, Bare
<1>2. CASE ListenerGet
  BY <1>2, GetStep, GetStepRight DEF ConfigInv
<1>3. CASE ListenerClear \/ ListenerLevel \/ ListenerFormat \/ ListenerAppend
  <2>1. Changes /\ \E pc \in {"level", "format", "append"}, k \in Nat : SetTo(pc, set.rest, k)
    <3>1. set.i \in Nat /\ set.i + 1 \in Nat
      BY DEF TypeInv, SetStates
    <3> QED
      BY <1>3, <3>1, ClearStep, LevelStep, FormatStep, AppendStep
  <2>2. AtEntry /\ AtEntry' /\ set'.name = set.name /\ astray' = astray
    BY <2>1 DEF Changes, SetTo, AtEntry
  <2>3. ASSUME NEW m \in Names \ astray
        PROVE  Right(m)'
    <3>1. Right(m)
      BY DEF ConfigInv
    <3>2. CASE m = set.name
      <4>1. Staged
        BY <2>2, <3>1, <3>2 DEF Right
      <4>2. Staged'
        BY <1>3, <4>1, EntryStaged
      <4> QED
        BY <2>2, <3>2, <4>2 DEF Right
    <3>3. CASE m # set.name
      BY <2>1, <3>1, <3>3, OthersRight
    <3> QED
      BY <3>2, <3>3
  <2> QED
    BY <2>2, <2>3 DEF ConfigInv
<1>4. CASE ListenerThrow
  <2>1. /\ set.pc = "append" /\ set' = Idle /\ astray' = astray \cup set.touched
        /\ UNCHANGED <<logger, m_loggers, m_val>>
    BY <1>4, ThrowStep
  <2>2. ASSUME NEW m \in Names \ astray'
        PROVE  Right(m)'
    <3>1. Right(m) /\ m \notin set.touched /\ ~(AtEntry /\ m = set.name)
      BY <2>1 DEF ConfigInv, ProgressInv
    <3> QED
      BY <2>1, <3>1, IdleIs DEF Right, AtEntry, InForce, Fits, Bare
  <2> QED
    BY <2>2 DEF ConfigInv
<1>5. CASE ListenerNext
  <2>1. UNCHANGED <<logger, m_loggers, m_val, astray>>
    BY <1>5, NextStep
  <2>2. CASE set.pc = "append" /\ set.i > Len(Entry.appenders) /\ SetTo("get", set.rest, set.i)
    <3>1. set.name \in set.touched /\ AtEntry /\ ~AtEntry'
      BY <2>2 DEF ProgressInv, AtEntry, SetTo
    <3>2. ASSUME NEW m \in Names \ astray
          PROVE  Right(m)'
      <4>1. Right(m)
        BY DEF ConfigInv
      <4>2. CASE m = set.name
        <5>1. Fits(m, set.new[m])
          BY <2>2, <3>1, <4>1, <4>2, StagedFits DEF Right, Entry
        <5> QED
          BY <2>1, <2>2, <3>1, <4>2, <5>1 DEF Right, Fits, SetTo
      <4>3. CASE m # set.name
        BY <2>1, <2>2, <3>1, <4>1, <4>3 DEF Right, InForce, Fits, Bare, SetTo
      <4> QED
        BY <4>2, <4>3
    <3> QED
      BY <2>1, <3>2 DEF ConfigInv
  <2>3. CASE set.pc = "get" /\ SetTo("delete", DOMAIN m_val \ DOMAIN set.new, set.i)
    BY <2>1, <2>3 DEF ConfigInv, Right, InForce, Fits, Bare, AtEntry, SetTo
  <2> QED
    BY <1>5, <2>2, <2>3, NextStep
<1>6. CASE ListenerDelete
  <2> DEFINE n == First(set.rest)
  <2>1. /\ set.pc = "delete" /\ n \in Names /\ DelLogger(n) /\ n \in DOMAIN m_val \ DOMAIN set.new
        /\ SetTo("delete", set.rest \ {n}, set.i) /\ astray' = astray \ {n} /\ UNCHANGED <<logger, m_val>>
    BY <1>6, DeleteStep
  <2> HIDE DEF n
  <2>2. ~AtEntry /\ ~AtEntry'
    BY <2>1 DEF AtEntry, SetTo
  <2>3. ASSUME NEW m \in Names \ astray'
        PROVE  Right(m)'
    <3>1. CASE m = n
      <4>1. n \notin DOMAIN m_loggers'
        BY <2>1, DelLoggerIs
      <4>2. m \notin set'.touched /\ ~InForce(m)'
        BY <2>1, <3>1 DEF ProgressInv, InForce, SetTo
      <4> QED
        BY <2>2, <3>1, <4>1, <4>2 DEF Right, Bare
    <3>2. CASE m # n
      <4>1. Right(m) /\ Kept(m)
        BY <2>1, <3>2, DelKeeps DEF ConfigInv
      <4>2. InForce(m)' <=> InForce(m)
        BY <2>1, <3>2 DEF InForce, SetTo
      <4> QED
        BY <2>1, <2>2, <4>1, <4>2 DEF Right, Kept, Fits, Bare, SetTo
    <3> QED
      BY <3>1, <3>2
  <2> QED
    BY <2>3 DEF ConfigInv
<1>7. CASE SetValueReturn
  <2>1. /\ set.pc = "delete" /\ set.rest = {} /\ set' = Idle /\ m_val' = set.new
        /\ UNCHANGED <<logger, m_loggers, astray>>
    BY <1>7, ReturnStep
  <2>2. ASSUME NEW m \in Names \ astray
        PROVE  Right(m)'
    <3>1. Right(m) /\ ~AtEntry
      BY <2>1 DEF ConfigInv, AtEntry
    <3>2. ~AtEntry' /\ set'.touched = {} /\ set'.pc = "idle"
      BY <2>1, IdleIs DEF AtEntry
    <3>3. CASE m \in DOMAIN set.new
      <4>1. Fits(m, set.new[m])
        <5>1. CASE m \in set.touched
          BY <3>1, <5>1 DEF Right
        <5>2. CASE m \notin set.touched
          <6>1. m \in DOMAIN m_val /\ m_val[m] = set.new[m]
            BY <2>1, <3>3, <5>2 DEF ProgressInv
          <6> QED
            BY <3>1, <3>3, <5>2, <6>1 DEF Right, InForce
        <5> QED
          BY <5>1, <5>2
      <4> QED
        BY <2>1, <3>2, <3>3, <4>1 DEF Right, InForce, Fits
    <3>4. CASE m \notin DOMAIN set.new
      <4>1. m \notin set.touched /\ ~InForce(m)
        BY <2>1, <3>4 DEF ProgressInv, InForce
      <4>2. Bare(m)
        BY <3>1, <4>1 DEF Right
      <4> QED
        BY <2>1, <3>2, <3>4, <4>2 DEF Right, InForce, Bare
    <3> QED
      BY <3>3, <3>4
  <2> QED
    BY <2>1, <2>2 DEF ConfigInv
<1>8. ASSUME NEW u \in Users, NEW n \in UserNames, UserGet(u, n)
      PROVE  ConfigInv'
  <2>1. n \in Names /\ GetLogger(n) /\ UNCHANGED <<set, m_val, astray>>
    BY <1>8, UserGetStep
  <2> QED
    BY <2>1, GetRight DEF ConfigInv
<1>9. ASSUME NEW u \in Users, UserChange(u)
      PROVE  ConfigInv'
  <2> DEFINE id == handle[u]
  <2>1. /\ \A k \in 1..Len(logger) : k # id => logger'[k] = logger[k]
        /\ astray' = astray \cup {logger[id].name}
        /\ UNCHANGED <<m_loggers, m_val, set>>
    BY <1>9, UserChangeStep
  <2> HIDE DEF id
  <2>2. ASSUME NEW m \in Names \ astray'
        PROVE  Right(m)'
    <3>1. m \in DOMAIN m_loggers => m_loggers[m] \in 1..Len(logger) /\ m_loggers[m] # id
      BY <2>1 DEF TypeInv, NamesInv
    <3>2. Right(m) /\ Kept(m)
      BY <2>1, <3>1 DEF ConfigInv, Kept
    <3> QED
      BY <2>1, <3>2, KeptRight
  <2> QED
    BY <2>2 DEF ConfigInv
<1>10. ASSUME NEW n \in UserNames, UserDelLogger(n)
       PROVE  ConfigInv'
  <2>1. DelLogger(n) /\ astray' = astray \cup {n} /\ UNCHANGED <<logger, m_val, set>>
    BY <1>10, UserDelStep
  <2> QED
    BY <2>1, DelKeeps, KeptRight DEF ConfigInv
<1>11. CASE Quiet
  BY <1>11, NothingChanges, KeptRight DEF ConfigInv, Quiet
<1> QED
  BY <1>1, <1>2, <1>3, <1>4, <1>5, <1>6, <1>7, <1>8, <1>9, <1>10, <1>11, Steppings DEF Listener

LEMMA InitConfig == Init => ConfigInv
<1> SUFFICES ASSUME Init, NEW n \in Names \ astray
             PROVE  Right(n)
  BY DEF ConfigInv
<1>1. PICK b \in Appenders : b.type = "StdOut" /\ logger[1].appenders = Append(<<>>, b)
  BY InitRoot
<1>2. m_loggers = [m \in {Root} |-> 1] /\ m_val = NoLoggers /\ set = Idle
  BY InitRoot
<1> DEFINE f == logger[1].formatter
<1>3. f \in Formats
  BY InitTyped, ObjectFields DEF TypeInv
<1>4. Shown(Root, logger[1].appenders, f) = <<>>
  <2> HIDE DEF f
  <2>1. b \in Either /\ <<>> \in Seq(Either)
    BY DEF Either
  <2>2. Shown(Root, logger[1].appenders, f) = Shown(Root, <<>>, f) \o Piece(Root, b, f)
    BY <1>1, <1>3, <2>1, ShownAppend
  <2>3. Piece(Root, b, f) = <<>>
    BY <1>1, Zenon DEF Piece, Skipped
  <2>4. <<>> \o <<>> = <<>>
    OBVIOUS
  <2> QED
    BY <2>2, <2>3, <2>4, ShownEmpty
<1>5. Bare(n)
  BY <1>2, <1>4 DEF Bare
<1>6. ~AtEntry /\ set.touched = {} /\ ~InForce(n)
  BY <1>2, IdleIs DEF AtEntry, InForce, NoLoggers
<1> QED
  BY <1>5, <1>6 DEF Right

\* Between two SetValues every logger of the configuration is as its entry says: the appenders of the
\* old value are gone, those of the new one there once, and neither a throw nor a logger that was
\* erased and comes back leaves another one behind.
THEOREM LoggersConfigured == Spec => []ConfigApplied
<1>1. TypeInv /\ ProgressInv /\ ConfigInv => ConfigApplied
  <2> SUFFICES ASSUME TypeInv, ProgressInv, ConfigInv, set.pc = "idle", NEW n \in DOMAIN m_val \ astray
               PROVE  n \in DOMAIN m_loggers /\ Applied(logger[m_loggers[n]], m_val[n])
    BY DEF ConfigApplied
  <2>1. n \in Names
    BY ConfigFields DEF TypeInv
  <2>2. Right(n) /\ n \notin set.touched /\ ~AtEntry /\ InForce(n)
    BY <2>1 DEF ConfigInv, ProgressInv, AtEntry, InForce
  <2> QED
    BY <2>2 DEF Right, Fits
<1> QED
  BY <1>1, Typed, InitNames, NamesStep, InitProgress, ProgressStep, InitConfig, ConfigStep, PTL DEF Spec

-----------------------------------------------------------------------------
(***************************************************************************)
(* A logger can be rebuilt from what ToYamlString writes of it.            *)
(***************************************************************************)
\* A logger that can be written: it is not root, its levels can be read and its patterns parsed.
Legible(l) ==
    /\ l.name # Root /\ l.level \in Writable /\ ~IsError(l.formatter)
    /\ \A k \in 1..Len(l.appenders) :
          l.appenders[k].level \in Writable /\ ~IsError(l.appenders[k].formatter)

\* The entry of an appender, read back.
Reread(a) == [type |-> a.type, file |-> a.file, level |-> a.level, formatter |-> a.formatter]

LEMMA AppenderReread ==
    ASSUME NEW a \in Appenders, a.level \in Writable
    PROVE  /\ LogAppenderConfig(AppenderYaml(a)) = Reread(a)
           /\ AppenderYaml(a).type \in {"StdOut", "File"}
           /\ AppenderYaml(a).type = "File" => AppenderYaml(a).file # Missing
           /\ Reread(a) \in AppenderConfigs
           /\ \A f : Configured(Reread(a), f) = a
<1>1. /\ a.type \in {"StdOut", "File"} /\ a.file \in Files \cup {Missing} /\ a.m_hasFormatter /\ a.formatter \in Formats
      /\ (a.type = "File" <=> a.file # Missing)
      /\ a = [type |-> a.type, file |-> a.file, level |-> a.level, m_hasFormatter |-> TRUE, formatter |-> a.formatter]
  BY AppenderIs
<1>2. a.level \in {DEBUG, INFO} /\ a.level # 0 /\ FromString(LevelName(a.level)) = a.level
  BY LevelBack DEF Writable, DEBUG, INFO
<1>3. a.formatter # NoFormatter /\ a.formatter # Missing
  BY <1>1, FilesAssumption DEF Formats
<1> DEFINE y == AppenderYaml(a)
<1>4. y.type = a.type /\ y.file = a.file /\ y.level = LevelName(a.level) /\ y.formatter = a.formatter
  BY <1>1, <1>2, <1>3 DEF AppenderYaml
<1> HIDE DEF y
<1>5. LogAppenderConfig(y) = Reread(a)
  <2>1. (IF y.type = "File" THEN y.file ELSE Missing) = a.file
    BY <1>1, <1>4
  <2> QED
    BY <1>2, <1>4, <2>1, Zenon DEF LogAppenderConfig, Reread
<1>6. Reread(a) \in AppenderConfigs
  BY <1>1, <1>2 DEF Reread, AppenderConfigs
<1> DEFINE r == Reread(a)
<1>7. r.type = a.type /\ r.file = a.file /\ r.level = a.level /\ r.formatter = a.formatter
  BY DEF Reread
<1> HIDE DEF r
<1>8. \A f : Configured(r, f) = a
  <2>1. (IF r.level # 0 THEN r.level ELSE DEBUG) = a.level
    BY <1>2, <1>7
  <2>2. \A f : (IF r.formatter = Missing THEN f ELSE r.formatter) = a.formatter
    BY <1>3, <1>7
  <2> QED
    BY <1>1, <1>7, <2>1, <2>2, Zenon DEF Configured
<1> QED
  BY <1>1, <1>4, <1>5, <1>6, <1>8 DEF y, r

\* What is read back of the logger.
LEMMA LoggerReread ==
    ASSUME NEW l \in LoggerObjects, Legible(l)
    PROVE  LET c == LoggerConfig(LoggerYaml(l))
           IN  /\ ~Malformed(LoggerYaml(l))
               /\ c \in Configs /\ c.level = l.level /\ c.formatter = l.formatter
               /\ Len(c.appenders) = Len(l.appenders)
               /\ \A k \in 1..Len(l.appenders) : c.appenders[k] = Reread(l.appenders[k])
<1> DEFINE s == l.appenders
           y == LoggerYaml(l)
           ys == [k \in DOMAIN s |-> AppenderYaml(s[k])]
           cs == [k \in DOMAIN ys |-> LogAppenderConfig(ys[k])]
<1>1. s \in Seq(Appenders) /\ Len(s) \in Nat /\ DOMAIN s = 1..Len(s) /\ l.name \in Names /\ l.formatter \in Formats
  BY ObjectFields
<1>2. \A k \in 1..Len(s) : s[k] \in Appenders /\ s[k].level \in Writable
  BY <1>1 DEF Legible
<1>3. l.level \in {DEBUG, INFO} /\ l.level # 0 /\ FromString(LevelName(l.level)) = l.level /\ LevelName(l.level) # Missing
  BY LevelBack DEF Legible, Writable, DEBUG, INFO
<1>4. y = [name |-> l.name, level |-> IF l.level = 0 THEN Missing ELSE LevelName(l.level),
           formatter |-> l.formatter, appenders |-> ys]
  BY Zenon DEF LoggerYaml
<1>5. DOMAIN ys = 1..Len(s) /\ \A k \in 1..Len(s) : ys[k] = AppenderYaml(s[k])
  BY <1>1, Zenon
<1>6. \A k \in 1..Len(s) : /\ ys[k].type \in {"StdOut", "File"} /\ (ys[k].type = "File" => ys[k].file # Missing)
                           /\ LogAppenderConfig(ys[k]) = Reread(s[k]) /\ Reread(s[k]) \in AppenderConfigs
  BY <1>2, <1>5, AppenderReread
<1>7. DOMAIN cs = 1..Len(s) /\ \A k \in 1..Len(s) : cs[k] = Reread(s[k])
  BY <1>5, <1>6, Zenon
<1> HIDE DEF y, ys
<1>8. y.name = l.name /\ y.level = LevelName(l.level) /\ y.formatter = l.formatter /\ y.appenders = ys
  BY <1>3, <1>4
<1>9. ~Malformed(y)
  <2>1. l.name # Missing
    BY <1>1, FilesAssumption
  <2> QED
    BY <1>3, <1>5, <1>6, <1>8, <2>1 DEF Malformed
<1>10. LoggerConfig(y) = [level |-> l.level, formatter |-> l.formatter, appenders |-> cs]
  BY <1>3, <1>8, Zenon DEF LoggerConfig
<1>11. cs \in [1..Len(s) -> AppenderConfigs]
  <2>1. cs = [k \in 1..Len(s) |-> Reread(s[k])]
    BY <1>5, <1>6
  <2> HIDE DEF cs
  <2> QED
    BY <1>6, <2>1
<1> HIDE DEF cs
<1>12. cs \in Seq(AppenderConfigs) /\ Len(cs) = Len(s)
  BY <1>1, <1>11, FunctionIsSeq
<1>13. [level |-> l.level, formatter |-> l.formatter, appenders |-> cs] \in Configs
  BY <1>1, <1>3, <1>12 DEF Configs
<1> QED
  BY <1>7, <1>9, <1>10, <1>12, <1>13 DEF y

LEMMA SameObject ==
    ASSUME NEW x \in LoggerObjects, NEW y \in LoggerObjects,
           x.name = y.name, x.level = y.level, x.formatter = y.formatter, x.appenders = y.appenders
    PROVE  x = y
BY DEF LoggerObjects

\* A logger with the first k of its appenders.
Until(l, k) == [l EXCEPT !.appenders = SubSeq(l.appenders, 1, k)]

LEMMA UntilIs ==
    ASSUME NEW l \in LoggerObjects
    PROVE  /\ \A k \in 0..Len(l.appenders) :
                /\ Until(l, k) \in LoggerObjects
                /\ Until(l, k).name = l.name /\ Until(l, k).level = l.level
                /\ Until(l, k).formatter = l.formatter
                /\ Until(l, k).appenders = SubSeq(l.appenders, 1, k)
           /\ Until(l, Len(l.appenders)) = l
<1>1. l.appenders \in Seq(Appenders)
  BY ObjectFields
<1>2. \A k \in 0..Len(l.appenders) : SubSeq(l.appenders, 1, k) \in Seq(Appenders)
  BY <1>1
<1>3. ASSUME NEW k \in 0..Len(l.appenders)
      PROVE  /\ Until(l, k) \in LoggerObjects
             /\ Until(l, k).name = l.name /\ Until(l, k).level = l.level
             /\ Until(l, k).formatter = l.formatter
             /\ Until(l, k).appenders = SubSeq(l.appenders, 1, k)
  BY <1>2, Except, Zenon DEF Until
<1>4. SubSeq(l.appenders, 1, Len(l.appenders)) = l.appenders /\ Len(l.appenders) \in 0..Len(l.appenders)
  BY <1>1
<1> HIDE DEF Until
<1>5. Until(l, Len(l.appenders)) = l
  BY <1>3, <1>4, SameObject
<1> QED
  BY <1>3, <1>5

\* What the listener starts from, and what the loop over the appenders adds.
Begun(name, c) == Formatted([NewLogger(name) EXCEPT !.level = c.level], c.formatter)

LEMMA BegunIs ==
    ASSUME NEW l \in LoggerObjects, Legible(l), NEW c \in Configs, c.level = l.level, c.formatter = l.formatter
    PROVE  Begun(l.name, c) = Until(l, 0)
<1> DEFINE new == NewLogger(l.name)
           x == [new EXCEPT !.level = l.level]
           p == l.formatter
<1>1. l.name \in Names /\ l.level \in Levels /\ p \in Formats /\ p # Missing /\ l.appenders \in Seq(Appenders) /\ ~IsError(p)
  BY ObjectFields, FilesAssumption DEF Formats, Legible
<1>2. new \in LoggerObjects /\ new.name = l.name /\ new.appenders = <<>>
  BY <1>1, NewLoggerTyped
<1> HIDE DEF new
<1>3. x \in LoggerObjects /\ x.name = l.name /\ x.level = l.level /\ x.appenders = <<>>
  BY <1>1, <1>2, Except, Zenon
<1> HIDE DEF x, p
<1> DEFINE y == Formatted(x, p)
<1>4. y \in LoggerObjects /\ y.name = l.name /\ y.level = l.level /\ y.appenders = <<>> /\ y.formatter = p
  BY <1>1, <1>3, FormattedFields
<1>5. Begun(l.name, c) = y
  BY Zenon DEF Begun, x, new, p
<1> HIDE DEF y
<1>6. 0 \in 0..Len(l.appenders) /\ SubSeq(l.appenders, 1, 0) = <<>>
  BY <1>1
<1>7. /\ Until(l, 0) \in LoggerObjects /\ Until(l, 0).name = l.name /\ Until(l, 0).level = l.level
      /\ Until(l, 0).formatter = p /\ Until(l, 0).appenders = <<>>
  BY <1>6, UntilIs DEF p
<1>8. y = Until(l, 0)
  BY <1>4, <1>7, SameObject
<1> QED
  BY <1>5, <1>8

LEMMA UntilNext ==
    ASSUME NEW l \in LoggerObjects, Legible(l), NEW k \in 1..Len(l.appenders)
    PROVE  Until(l, k) = Appended(Until(l, k - 1), Reread(l.appenders[k]))
<1> DEFINE s == l.appenders
           u == Until(l, k - 1)
           a == s[k]
           r == Reread(a)
           v == Appended(u, r)
<1>1. s \in Seq(Appenders) /\ l.name # Root /\ k - 1 \in 0..Len(s) /\ k \in 0..Len(s)
  BY ObjectFields DEF Legible
<1>2. a \in Appenders /\ a.level \in Writable
  BY <1>1 DEF Legible
<1>3. SubSeq(s, 1, k) = Append(SubSeq(s, 1, k - 1), a)
  BY <1>1
<1>4. /\ u \in LoggerObjects /\ u.name = l.name /\ u.level = l.level
      /\ u.formatter = l.formatter /\ u.appenders = SubSeq(s, 1, k - 1)
  BY <1>1, UntilIs
<1>5. /\ Until(l, k) \in LoggerObjects /\ Until(l, k).name = l.name /\ Until(l, k).level = l.level
      /\ Until(l, k).formatter = l.formatter /\ Until(l, k).appenders = SubSeq(s, 1, k)
  BY <1>1, UntilIs
<1> HIDE DEF u, a
<1>6. r \in AppenderConfigs /\ \A f : Configured(r, f) = a
  BY <1>2, AppenderReread
<1>7. ~Skipped(u.name, r)
  BY <1>1, <1>4 DEF Skipped
<1> HIDE DEF r
<1>8. /\ v \in LoggerObjects /\ v.name = u.name /\ v.level = u.level /\ v.formatter = u.formatter
      /\ v.appenders = Append(u.appenders, Configured(r, u.formatter))
  BY <1>4, <1>6, <1>7, AppendedFields
<1> HIDE DEF v, s
<1>9. v.appenders = SubSeq(s, 1, k)
  BY <1>3, <1>4, <1>6, <1>8
<1>10. v = Until(l, k)
  BY <1>4, <1>5, <1>8, <1>9, SameObject
<1> QED
  BY <1>10 DEF v, u, r, a, s

LEMMA RebuiltIs ==
    ASSUME NEW l \in LoggerObjects, Legible(l)
    PROVE  Rebuilt(l.name, LoggerConfig(LoggerYaml(l))) = l
<1> DEFINE c == LoggerConfig(LoggerYaml(l))
           s == l.appenders
           n == Len(c.appenders)
           F(f) == f = [i \in 0..n |-> IF i = 0 THEN Begun(l.name, c) ELSE Appended(f[i - 1], c.appenders[i])]
           g == [i \in 0..n |-> Until(l, i)]
<1>1. /\ c \in Configs /\ c.level = l.level /\ c.formatter = l.formatter /\ n = Len(s) /\ n \in Nat
      /\ \A k \in 1..n : c.appenders[k] = Reread(s[k])
  BY LoggerReread, ObjectFields
<1>2. Rebuilt(l.name, c) = (CHOOSE f : F(f))[n]
  BY Zenon DEF Rebuilt, Begun
<1> HIDE DEF c, n, s
<1>3. Begun(l.name, c) = Until(l, 0)
  BY <1>1, BegunIs
<1>4. \A k \in 1..n : Until(l, k) = Appended(Until(l, k - 1), c.appenders[k])
  BY <1>1, UntilNext DEF s
<1>5. \A k \in 0..n : k # 0 => k \in 1..n /\ k - 1 \in 0..n
  BY <1>1
<1>6. F(g)
  <2>1. \A k \in 0..n : Until(l, k) = IF k = 0 THEN Begun(l.name, c) ELSE Appended(g[k - 1], c.appenders[k])
    BY <1>3, <1>4, <1>5, Zenon
  <2> QED
    BY <2>1, Zenon
<1>7. PICK f : F(f) /\ Rebuilt(l.name, c) = f[n]
  <2> HIDE DEF F
  <2> QED
    BY <1>2, <1>6, Zenon
<1>8. \A k \in 0..n : f[k] = IF k = 0 THEN Begun(l.name, c) ELSE Appended(f[k - 1], c.appenders[k])
  BY <1>7, Zenon
<1> DEFINE T == {k \in Nat : k <= n => f[k] = Until(l, k)}
<1>9. 0 \in T
  <2>1. 0 \in 0..n
    BY <1>1
  <2>2. f[0] = Until(l, 0)
    BY <1>3, <1>8, <2>1, Zenon
  <2> QED
    BY <2>2
<1>10. ASSUME NEW k \in T
       PROVE  k + 1 \in T
  <2>0. k \in Nat /\ k + 1 \in Nat
    OBVIOUS
  <2>1. ASSUME k + 1 <= n
        PROVE  f[k + 1] = Until(l, k + 1)
    <3>1. k + 1 \in 0..n /\ k + 1 \in 1..n /\ k + 1 # 0 /\ (k + 1) - 1 = k /\ f[k] = Until(l, k)
      BY <1>1, <2>0, <2>1
    <3> HIDE DEF T
    <3>2. f[k + 1] = Appended(f[k], c.appenders[k + 1])
      BY <1>8, <3>1, Zenon
    <3>3. Until(l, k + 1) = Appended(Until(l, k), c.appenders[k + 1])
      BY <1>4, <3>1, Zenon
    <3> QED
      BY <3>1, <3>2, <3>3, Zenon
  <2> QED
    BY <2>0, <2>1
<1>11. T = Nat
  <2>1. T \in SUBSET Nat
    OBVIOUS
  <2> HIDE DEF T
  <2> QED
    BY <1>9, <1>10, <2>1, Induction
<1>12. f[n] = Until(l, n)
  <2>1. n \in T /\ n <= n
    BY <1>1, <1>11
  <2> QED
    BY <2>1
<1> QED
  BY <1>1, <1>7, <1>12, UntilIs DEF c, s

\* A program that loads what ToYamlString writes of a logger gets the same logger, whenever it is
\* written: also in the middle of a configuration.
THEOREM Rebuilds == Spec => []YamlRebuilds
<1>1. TypeInv => YamlRebuilds
  <2> SUFFICES ASSUME TypeInv, NEW id \in DOMAIN logger,
                      logger[id].name # Root,
                      {logger[id].level} \cup {a.level : a \in {logger[id].appenders[i] : i \in DOMAIN logger[id].appenders}}
                          \subseteq Writable,
                      \A f \in {logger[id].formatter} \cup
                               {a.formatter : a \in {logger[id].appenders[i] : i \in DOMAIN logger[id].appenders}} :
                          ~IsError(f)
               PROVE  /\ ~Malformed(LoggerYaml(logger[id]))
                      /\ Rebuilt(logger[id].name, LoggerConfig(LoggerYaml(logger[id]))) = logger[id]
    BY Zenon DEF YamlRebuilds
  <2>1. logger[id] \in LoggerObjects
    BY DEF TypeInv
  <2>2. DOMAIN logger[id].appenders = 1..Len(logger[id].appenders)
    BY <2>1, ObjectFields
  <2>3. Legible(logger[id])
    BY <2>2 DEF Legible
  <2> QED
    BY <2>1, <2>3, LoggerReread, RebuiltIs
<1> QED
  BY <1>1, Typed, PTL
=============================================================================
