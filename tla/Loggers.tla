------------------------------ MODULE Loggers ------------------------------
(***************************************************************************)
(* The log module (src/log/log.h, log.cpp): the LoggerManager, the loggers *)
(* and their appenders, the configuration variable "logs" and the listener *)
(* with which LogIniter applies a new value of it, while threads of the    *)
(* program look loggers up, change them and write messages.                *)
(*                                                                         *)
(* A step is one critical section: the manager, a logger and an appender   *)
(* have a mutex each, nested in that order, which nothing here holds from  *)
(* one step to the next.  The mutex of the configuration variable is held  *)
(* for the whole of SetValue, so one SetValue at a time is in progress.    *)
(* The unlocked reads and writes of m_level are single loads and stores.   *)
(* What an appender writes, and to where, is not modelled, only that it    *)
(* writes.                                                                 *)
(***************************************************************************)
EXTENDS LogFormatter

CONSTANTS Root,             \* kKeyRootLoggerName
          NameOrder,        \* the loggers' names, in the order of std::string
          Docs,             \* the values of the key "logs" in the files that are loaded
          Missing,          \* a field that is not in the file, or is empty but for a file's name
          Files,            \* the names of log files, the empty name may be one
          DefaultPattern,   \* kKeyDefaultPattern
          Patterns,         \* the patterns that the program sets
          NoFormatter,      \* a null LogFormatter::ptr
          Users,            \* threads that use the loggers
          UserNames,        \* the names they look up
          MaxSets,          \* how often the configuration is set
          MaxChanges        \* how often the program changes a logger itself

Names == {NameOrder[i] : i \in DOMAIN NameOrder}

DEBUG == 1
INFO == 2
FATAL == 5

LevelNames == {"DEBUG", "INFO", "WARN", "ERROR", "FATAL", "UNKNOWN"}

\* What a file may have for a logger.
AppenderEntries == [type : {"StdOut", "File", Missing}, file : Files \cup {Missing},
                    level : LevelNames \cup {Missing}, formatter : Patterns \cup {Missing}]
Entries == [name : Names \cup {Missing}, level : LevelNames \cup {Missing},
            formatter : Patterns \cup {Missing}, appenders : Seq(AppenderEntries)]

ASSUME LoggersAssumption ==
    /\ NameOrder \in Seq(Names)
    /\ Root \in Names
    /\ UserNames \subseteq Names
    /\ {MaxSets, MaxChanges} \subseteq Nat

ASSUME FilesAssumption ==
    /\ Docs \subseteq Seq(Entries)
    /\ Missing \notin Names /\ Missing \notin Files /\ Missing \notin LevelNames \cup {"StdOut", "File"}
    /\ {Missing, NoFormatter} \cap (Patterns \cup {DefaultPattern}) = {} /\ Missing # NoFormatter

VARIABLES
    logger,     \* every Logger object, by number; number 1 is m_root of the manager
    m_loggers,  \* the manager's map from names to loggers
    m_val,      \* the value of g_logger_config_vec, a map from names to LoggerConfig
    set,        \* the SetValue in progress: its new value and where the listener is
    handle,     \* the logger a thread holds a pointer to, 0 for none
    event,      \* the level of the message it is writing, 0 for none
    \* History, read by the properties, and bounds.
    astray,     \* names whose logger the program, or a SetValue that threw, has changed
    dropped,    \* names that were ever erased from m_loggers
    rootCut,    \* appenders were taken from m_root
    rootRaised, \* m_root's level was set above DEBUG, with which it begins
    lost,       \* a message that its logger accepted found no appender
    muted,      \* a message that its logger accepted was dropped by the level of m_root
    rootCutByUser, sets, changes

objectVars == <<logger, m_loggers>>
userVars == <<handle, event>>
rootVars == <<rootCut, rootCutByUser, rootRaised>>
lostVars == <<lost, muted>>
vars == <<objectVars, m_val, set, userVars, astray, dropped, rootVars, lostVars, sets, changes>>
-----------------------------------------------------------------------------
(***************************************************************************)
(* The value of the variable: what is read from a file.                    *)
(***************************************************************************)
\* LogLevel::FromString knows two of the names that ToString writes.
FromString(level) == IF level = "DEBUG" THEN DEBUG ELSE IF level = "INFO" THEN INFO ELSE 0

\* LexicalCast<std::string, LoggerConfig> throws for such an entry.
Malformed(entry) ==
    \/ Missing \in {entry.name, entry.level}
    \/ \E a \in {entry.appenders[i] : i \in DOMAIN entry.appenders} :
          a.type \notin {"StdOut", "File"} \/ (a.type = "File" /\ a.file = Missing)

\* The file of a StdOutLogAppender is not read.
LogAppenderConfig(a) ==
    [type |-> a.type, file |-> IF a.type = "File" THEN a.file ELSE Missing,
     level |-> FromString(a.level), formatter |-> a.formatter]

LoggerConfig(entry) ==
    [level |-> FromString(entry.level),
     formatter |-> entry.formatter,
     appenders |-> [i \in DOMAIN entry.appenders |-> LogAppenderConfig(entry.appenders[i])]]

\* std::set<LoggerConfig> compares by name: of two entries with one name the first stays.
Cast(doc) ==
    [n \in {doc[i].name : i \in DOMAIN doc} |->
        LoggerConfig(doc[CHOOSE i \in DOMAIN doc :
                            doc[i].name = n /\ \A j \in 1..(i - 1) : doc[j].name # n])]
-----------------------------------------------------------------------------
(***************************************************************************)
(* Appenders and loggers.                                                  *)
(***************************************************************************)
NewAppender(type, file, level) ==
    [type |-> type, file |-> file, level |-> level,
     m_hasFormatter |-> FALSE, formatter |-> NoFormatter]

\* LogAppender::SetFormatter: from now on the appender counts as having its own.
WithFormatter(a, formatter) ==
    [type |-> a.type, file |-> a.file, level |-> a.level, m_hasFormatter |-> TRUE, formatter |-> formatter]

NewLogger(name) ==
    [name |-> name, level |-> DEBUG, formatter |-> DefaultPattern, appenders |-> <<>>]

\* Mutant: the appender is not given the logger's formatter.
AddAppender_Bare(l, a) == [l EXCEPT !.appenders = Append(@, a)]

AddAppender(l, a) ==
    [l EXCEPT !.appenders =
        Append(@, IF a.m_hasFormatter THEN a ELSE WithFormatter(a, l.formatter))]

\* Logger::SetFormatter(const std::string&).
SetPattern(l, pattern) ==
    IF IsError(pattern) THEN l
    ELSE [l EXCEPT !.formatter = pattern,
                   !.appenders = [i \in DOMAIN @ |->
                       IF @[i].m_hasFormatter THEN @[i] ELSE WithFormatter(@[i], pattern)]]

\* The listener sets a pattern only if it is another one.
Formatted(l, pattern) ==
    IF pattern \in {Missing, l.formatter} THEN l ELSE SetPattern(l, pattern)

\* Logger::SetFormatter(LogFormatter::ptr): null is ignored, every appender follows.
SetFormatter(l, formatter) ==
    IF formatter = NoFormatter THEN l
    ELSE [l EXCEPT !.formatter = formatter,
                   !.appenders = [i \in DOMAIN @ |-> WithFormatter(@[i], formatter)]]

Unnamed == ""     \* the empty name of a file

\* One turn of the listener's loop over the appenders of an entry: root has its StdOut already,
\* a file needs a name, and a pattern that cannot be parsed throws.
Skipped(name, a) == a.type = "StdOut" /\ name = Root
Rejected(name, a) ==
    ~Skipped(name, a) /\ ((a.type = "File" /\ a.file = Unnamed) \/ (a.formatter # Missing /\ IsError(a.formatter)))
Made(a) == LET b == NewAppender(a.type, a.file, IF a.level # 0 THEN a.level ELSE DEBUG)
           IN  IF a.formatter = Missing THEN b ELSE WithFormatter(b, a.formatter)
Appended(l, a) == IF Skipped(l.name, a) THEN l ELSE AddAppender(l, Made(a))

\* The number of the logger that GetLogger returns, which is a new one if the map has none.
Found(n) == IF n \in DOMAIN m_loggers THEN m_loggers[n] ELSE Len(logger) + 1

\* LoggerManager::GetLogger.
\* Mutant: the new logger is not put into the map.
GetLogger_Unregistered(n) ==
    /\ logger' = IF n \in DOMAIN m_loggers THEN logger ELSE Append(logger, NewLogger(n))
    /\ m_loggers' = m_loggers

GetLogger(n) ==
    /\ logger' = IF n \in DOMAIN m_loggers THEN logger ELSE Append(logger, NewLogger(n))
    /\ m_loggers' = [m \in DOMAIN m_loggers \cup {n} |-> IF m = n THEN Found(n) ELSE m_loggers[m]]

\* LoggerManager::DelLogger: those who hold the logger keep it.
DelLogger(n) ==
    /\ m_loggers' = [m \in DOMAIN m_loggers \ {n} |-> m_loggers[m]]
    /\ dropped' = dropped \cup {n}

NoLoggers == [n \in {} |-> 0]

Idle == [pc |-> "idle", new |-> NoLoggers, rest |-> {}, name |-> Root, ptr |-> 0, i |-> 0,
         touched |-> {}]

-----------------------------------------------------------------------------
(***************************************************************************)
(* ToYamlString of a logger, and ToString of the variable's value.         *)
(***************************************************************************)
\* LogLevel::ToString.
LevelName(level) == CASE level = DEBUG -> "DEBUG" [] level = INFO -> "INFO" [] level = 3 -> "WARN"
                     [] level = 4 -> "ERROR" [] level = FATAL -> "FATAL" [] OTHER -> "UNKNOWN"

\* Mutant: a formatter is not written.
AppenderYaml_NoFormatter(a) ==
    [type |-> a.type, file |-> a.file, level |-> IF a.level = 0 THEN Missing ELSE LevelName(a.level),
     formatter |-> Missing]

AppenderYaml(a) ==
    [type |-> a.type, file |-> a.file, level |-> IF a.level = 0 THEN Missing ELSE LevelName(a.level),
     formatter |-> IF a.m_hasFormatter /\ a.formatter # NoFormatter THEN a.formatter ELSE Missing]

LoggerYaml(l) ==
    [name |-> l.name, level |-> IF l.level = 0 THEN Missing ELSE LevelName(l.level),
     formatter |-> l.formatter,
     appenders |-> [i \in DOMAIN l.appenders |-> AppenderYaml(l.appenders[i])]]

\* Mutant: the type and the file only.
AppenderText_Short(a) == [a EXCEPT !.level = Missing, !.formatter = Missing]

\* An appender's empty file is not written.
AppenderText(a) ==
    [type |-> a.type, file |-> IF a.file = Unnamed THEN Missing ELSE a.file,
     level |-> IF a.level = 0 THEN Missing ELSE LevelName(a.level), formatter |-> a.formatter]

\* LexicalCast<LoggerConfig, std::string>, which leaves the logger's formatter out.
ConfigText(name, config) ==
    [name |-> name, level |-> LevelName(config.level), formatter |-> Missing,
     appenders |-> [i \in DOMAIN config.appenders |-> AppenderText(config.appenders[i])]]

Init ==
    /\ logger = <<AddAppender(NewLogger(Root), NewAppender("StdOut", Missing, DEBUG))>>
    /\ m_loggers = [n \in {Root} |-> 1]
    /\ m_val = NoLoggers
    /\ set = Idle
    /\ handle = [u \in Users |-> 0]
    /\ event = [u \in Users |-> 0]
    /\ astray = {} /\ dropped = {}
    /\ rootCut = FALSE /\ rootCutByUser = FALSE /\ rootRaised = FALSE
    /\ lost = FALSE /\ muted = FALSE
    /\ sets = 0 /\ changes = 0
-----------------------------------------------------------------------------
(***************************************************************************)
(* SetValue, with the listener of LogIniter inlined in it.                 *)
(***************************************************************************)
First(names) == CHOOSE n \in names : \E i \in DOMAIN NameOrder :
                    NameOrder[i] = n /\ \A j \in 1..(i - 1) : NameOrder[j] \notin names

\* A file that cannot be cast, or whose value is the one in force, changes nothing.
SetValueCall(doc) ==
    /\ set.pc = "idle"
    /\ sets < MaxSets
    /\ \A i \in DOMAIN doc : ~Malformed(doc[i])
    /\ Cast(doc) # m_val
    /\ set' = [Idle EXCEPT !.pc = "get", !.new = Cast(doc), !.rest = DOMAIN Cast(doc)]
    /\ sets' = sets + 1
    /\ UNCHANGED <<objectVars, m_val, userVars, astray, dropped, rootVars, lostVars, changes>>

\* LOG_NAME(i.name); an entry that the old value has too is left alone.
ListenerGet ==
    /\ set.pc = "get" /\ set.rest # {}
    /\ LET n == First(set.rest)
           known == n \in DOMAIN m_val
           same == known /\ m_val[n] = set.new[n]
       IN  /\ GetLogger(n)
           /\ set' = [pc |-> IF same THEN "get" ELSE IF known THEN "clear" ELSE "level",
                      new |-> set.new, rest |-> set.rest \ {n}, name |-> n, ptr |-> Found(n), i |-> 1,
                      touched |-> IF same THEN set.touched ELSE set.touched \cup {n}]
    /\ UNCHANGED <<m_val, userVars, astray, dropped, rootVars, lostVars, sets, changes>>

Entry == set.new[set.name]
Change(l) == logger' = [logger EXCEPT ![set.ptr] = l]

\* Mutant: the old appenders stay.
ListenerClear_Keep ==
    /\ set.pc = "clear"
    /\ set' = [set EXCEPT !.pc = "level"]
    /\ UNCHANGED <<objectVars, m_val, userVars, astray, dropped, rootVars, lostVars, sets, changes>>

ListenerClear ==
    /\ set.pc = "clear"
    /\ Change([logger[set.ptr] EXCEPT !.appenders = <<>>])
    /\ set' = [set EXCEPT !.pc = "level"]
    /\ rootCut' = (rootCut \/ set.ptr = 1)
    /\ UNCHANGED <<m_loggers, m_val, userVars, astray, dropped, rootCutByUser, rootRaised,
                   lostVars, sets, changes>>

ListenerLevel ==
    /\ set.pc = "level"
    /\ Change([logger[set.ptr] EXCEPT !.level = Entry.level])
    /\ set' = [set EXCEPT !.pc = "format"]
    /\ rootRaised' = (rootRaised \/ (set.ptr = 1 /\ Entry.level > DEBUG))
    /\ UNCHANGED <<m_loggers, m_val, userVars, astray, dropped, rootCut, rootCutByUser,
                   lostVars, sets, changes>>

ListenerFormat ==
    /\ set.pc = "format"
    /\ Change(Formatted(logger[set.ptr], Entry.formatter))
    /\ set' = [set EXCEPT !.pc = "append"]
    /\ UNCHANGED <<m_loggers, m_val, userVars, astray, dropped, rootVars, lostVars, sets, changes>>

ListenerAppend ==
    /\ set.pc = "append" /\ set.i <= Len(Entry.appenders)
    /\ LET a == Entry.appenders[set.i]
       IN  /\ ~Rejected(set.name, a)
           /\ Change(Appended(logger[set.ptr], a))
    /\ set' = [set EXCEPT !.i = @ + 1]
    /\ UNCHANGED <<m_loggers, m_val, userVars, astray, dropped, rootVars, lostVars, sets, changes>>

\* The exception leaves the listener and SetValue: m_val is still the old value.
ListenerThrow ==
    /\ set.pc = "append" /\ set.i <= Len(Entry.appenders)
    /\ Rejected(set.name, Entry.appenders[set.i])
    /\ set' = Idle
    /\ astray' = astray \cup set.touched
    /\ UNCHANGED <<objectVars, m_val, userVars, dropped, rootVars, lostVars, sets, changes>>

ListenerNext ==
    /\ \/ /\ set.pc = "append" /\ set.i > Len(Entry.appenders)
          /\ set' = [set EXCEPT !.pc = "get"]
       \/ /\ set.pc = "get" /\ set.rest = {}
          /\ set' = [set EXCEPT !.pc = "delete", !.rest = DOMAIN m_val \ DOMAIN set.new]
    /\ UNCHANGED <<objectVars, m_val, userVars, astray, dropped, rootVars, lostVars, sets, changes>>

ListenerDelete ==
    /\ set.pc = "delete" /\ set.rest # {}
    /\ LET n == First(set.rest)
       IN  /\ DelLogger(n)
           /\ set' = [set EXCEPT !.rest = @ \ {n}]
           /\ astray' = astray \ {n}
    /\ UNCHANGED <<logger, m_val, userVars, rootVars, lostVars, sets, changes>>

SetValueReturn ==
    /\ set.pc = "delete" /\ set.rest = {}
    /\ m_val' = set.new
    /\ set' = Idle
    /\ UNCHANGED <<objectVars, userVars, astray, dropped, rootVars, lostVars, sets, changes>>
-----------------------------------------------------------------------------
(***************************************************************************)
(* The threads of the program.                                             *)
(***************************************************************************)
\* LOG_NAME(n).
UserGet(u, n) ==
    /\ event[u] = 0
    /\ GetLogger(n)
    /\ handle' = [handle EXCEPT ![u] = Found(n)]
    /\ UNCHANGED <<m_val, set, event, astray, dropped, rootVars, lostVars, sets, changes>>

UserDelLogger(n) ==
    /\ changes < MaxChanges
    /\ n \in DOMAIN m_loggers
    /\ DelLogger(n)
    /\ astray' = astray \cup {n}
    /\ changes' = changes + 1
    /\ UNCHANGED <<logger, m_val, set, userVars, rootVars, lostVars, sets>>

\* A logger after a call of one of its member functions.
Changed(l) ==
    {AddAppender(l, NewAppender("StdOut", Missing, DEBUG)), [l EXCEPT !.appenders = <<>>]}
    \cup {[l EXCEPT !.level = v] : v \in {DEBUG, FATAL}}
    \cup {SetPattern(l, p) : p \in Patterns}
    \cup {SetFormatter(l, f) : f \in Patterns \cup {NoFormatter}}
    \cup {[l EXCEPT !.appenders = RemoveAt(@, i)] :
             i \in DOMAIN l.appenders}

UserChange(u) ==
    /\ handle[u] # 0 /\ event[u] = 0
    /\ changes < MaxChanges
    /\ \E l \in Changed(logger[handle[u]]) :
          /\ logger' = [logger EXCEPT ![handle[u]] = l]
          /\ rootRaised' = (rootRaised \/ (handle[u] = 1 /\ l.level > DEBUG))
          /\ LET cut == handle[u] = 1 /\ Len(l.appenders) < Len(logger[1].appenders)
             IN  rootCut' = (rootCut \/ cut) /\ rootCutByUser' = (rootCutByUser \/ cut)
    /\ astray' = astray \cup {logger[handle[u]].name}
    /\ changes' = changes + 1
    /\ UNCHANGED <<m_loggers, m_val, set, userVars, dropped, lostVars, sets>>

\* The macros and Logger::Log look at the level before they take the logger's mutex.
LogCall(u, level) ==
    /\ handle[u] # 0 /\ event[u] = 0
    /\ level >= logger[handle[u]].level
    /\ event' = [event EXCEPT ![u] = level]
    /\ UNCHANGED <<objectVars, m_val, set, handle, astray, dropped, rootVars, lostVars, sets, changes>>

\* Mutant: a logger without appenders does not pass the message on.
LogEmit_NoRoot(u) ==
    /\ event[u] # 0
    /\ event' = [event EXCEPT ![u] = 0]
    /\ lost' = (lost \/ logger[handle[u]].appenders = <<>>)
    /\ UNCHANGED <<objectVars, m_val, set, handle, astray, dropped, rootVars, muted, sets, changes>>

\* Mutant: m_root drops also what is at its level.
LogEmit_Above(u) ==
    /\ event[u] # 0
    /\ event' = [event EXCEPT ![u] = 0]
    /\ LET forwards == logger[handle[u]].appenders = <<>> /\ handle[u] # 1
       IN  muted' = (muted \/ (forwards /\ event[u] <= logger[1].level))
    /\ UNCHANGED <<objectVars, m_val, set, handle, astray, dropped, rootVars, lost, sets, changes>>

\* Under the mutex: the logger's own appenders, or, if it has none, m_root->Log, which drops
\* what is below m_root's level.
LogEmit(u) ==
    /\ event[u] # 0
    /\ event' = [event EXCEPT ![u] = 0]
    /\ LET l == logger[handle[u]]
           forwards == l.appenders = <<>> /\ handle[u] # 1
           drops == forwards /\ event[u] < logger[1].level
       IN  /\ muted' = (muted \/ drops)
           /\ lost' = (lost \/ (~drops /\ (IF forwards THEN logger[1] ELSE l).appenders = <<>>))
    /\ UNCHANGED <<objectVars, m_val, set, handle, astray, dropped, rootVars, sets, changes>>
-----------------------------------------------------------------------------
ConfigNext == \/ \E doc \in Docs : SetValueCall(doc)
              \/ ListenerGet
              \/ ListenerClear
              \/ ListenerLevel
              \/ ListenerFormat
              \/ ListenerAppend
              \/ ListenerThrow
              \/ ListenerNext
              \/ ListenerDelete
              \/ SetValueReturn

UserNext(u) == \/ \E n \in UserNames : UserGet(u, n)
               \/ UserChange(u)
               \/ \E v \in {DEBUG, INFO, FATAL} : LogCall(u, v)
               \/ LogEmit(u)

Next == \/ ConfigNext
        \/ \E u \in Users : UserNext(u)
        \/ \E n \in UserNames : UserDelLogger(n)

Spec == Init /\ [][Next]_vars
-----------------------------------------------------------------------------
(***************************************************************************)
(* Properties.                                                             *)
(***************************************************************************)
\* An appender of a logger has a formatter, whoever added it and whatever was configured:
\* Log calls it without a look.
AppendersFormatted ==
    \A id \in DOMAIN logger : \A i \in DOMAIN logger[id].appenders :
        logger[id].appenders[i].formatter # NoFormatter

\* Two loggers have one name only after the first was erased from the manager, by the
\* program or by a configuration without it; only then can LOG_ROOT and LOG_NAME("root")
\* differ.
SameNameSameLogger ==
    \A i, j \in DOMAIN logger : i # j /\ logger[i].name = logger[j].name =>
        logger[i].name \in dropped

\* What the appenders of a logger, or the ones its entry asks for, come to if the logger has
\* this formatter.  The StdOut of root is there, or not, whatever the entry says.
Shown(name, appenders, formatter) ==
    FlattenSeq([i \in DOMAIN appenders |->
        LET a == appenders[i]
        IN  IF Skipped(name, a) THEN <<>>
            ELSE <<[type |-> a.type, file |-> a.file,
                    level |-> IF a.level = 0 THEN DEBUG ELSE a.level,
                    formatter |-> IF a.formatter = Missing THEN formatter ELSE a.formatter]>>])

\* What an entry asks of its logger.
Applied(l, entry) ==
    /\ l.level = entry.level
    /\ entry.formatter # Missing /\ ~IsError(entry.formatter) => l.formatter = entry.formatter
    /\ Shown(l.name, l.appenders, l.formatter) = Shown(l.name, entry.appenders, l.formatter)

\* Between two SetValues every logger of the configuration is as its entry says, appenders
\* neither missing nor twice there, and a logger that was removed is not the one that comes
\* back: except those that the program changed, or that a SetValue had changed when it threw.
ConfigApplied ==
    set.pc = "idle" =>
        \A n \in DOMAIN m_val \ astray :
            n \in DOMAIN m_loggers /\ Applied(logger[m_loggers[n]], m_val[n])

\* What the listener makes of an entry in a program that has no such logger yet.
Rebuilt(name, entry) ==
    LET made[i \in 0..Len(entry.appenders)] ==
            IF i = 0 THEN Formatted([NewLogger(name) EXCEPT !.level = entry.level], entry.formatter)
                     ELSE Appended(made[i - 1], entry.appenders[i])
    IN  made[Len(entry.appenders)]

Writable == {DEBUG, INFO}   \* the levels that FromString knows

\* A program that loads what ToYamlString writes of a logger gets the same logger, with the
\* same appenders, levels and formatters, at any time of a configuration: unless it is root, a
\* formatter cannot be parsed, or a level is one that FromString does not know.
YamlRebuilds ==
    \A id \in DOMAIN logger :
        LET l == logger[id]
            all == {l.appenders[i] : i \in DOMAIN l.appenders}
            y == LoggerYaml(l)
        IN  /\ l.name # Root
            /\ {l.level} \cup {a.level : a \in all} \subseteq Writable
            /\ \A f \in {l.formatter} \cup {a.formatter : a \in all} : ~IsError(f)
            => ~Malformed(y) /\ Rebuilt(l.name, LoggerConfig(y)) = l

\* ToString of the configuration in force can be loaded and gives the same configuration,
\* without the formatters of its loggers, which are lost: an appender that could not be read
\* back is never in force.
ConfigReadsBack ==
    \A n \in DOMAIN m_val :
        LET text == ConfigText(n, m_val[n])
        IN  ~Malformed(text) /\ LoggerConfig(text) = [m_val[n] EXCEPT !.formatter = Missing]

\* Logger::Log falls back to m_root when its own logger has no appender, also in the middle of a
\* configuration, between ClearAppenders and AddAppender.  A message that its logger accepts is
\* then handed to an appender, of its own or of root, but for two reasons, each with its cause:
\* there is none only if somebody took one from root, and m_root's own level drops the message
\* only if somebody set that level above DEBUG.
NothingLost == (lost => rootCut) /\ (muted => rootRaised)

\* log.cpp:802: root has a default StdOutLogAppender.  It has one until the program itself
\* takes an appender away.
RootHasStdOut ==
    rootCutByUser \/ set.pc # "idle" \/
        \E i \in DOMAIN logger[1].appenders : logger[1].appenders[i].type = "StdOut"
=============================================================================
