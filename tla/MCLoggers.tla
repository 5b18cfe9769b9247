----------------------------- MODULE MCLoggers -----------------------------
(***************************************************************************)
(* Instances of Loggers for TLC: the files are variations of conf/log.yaml.*)
(***************************************************************************)
EXTENDS Loggers

CONSTANT u1

MCLetters == {"d", "z"}
MCKnownItems == {<<"d">>}
DefPattern == <<"%", "d">>
P == <<"%", "d", ".">>
Q == <<"%", "z">>
Bad == <<"%", "d", "{">>

System == "system"
MCNameOrder == <<"root", System>>
MCPatterns == {P, Q, Bad}
MCFiles == {"log.txt", ""}

StdOut == [type |-> "StdOut", file |-> Missing, level |-> Missing, formatter |-> Missing]
File(formatter) == [type |-> "File", file |-> "log.txt", level |-> "INFO", formatter |-> formatter]
NoName == [type |-> "File", file |-> "", level |-> Missing, formatter |-> Missing]

RootEntry(level) == [name |-> "root", level |-> level, formatter |-> Missing,
                     appenders |-> <<File(Missing), StdOut>>]
SystemEntry(formatter, appenders) ==
    [name |-> System, level |-> "WARN", formatter |-> formatter, appenders |-> appenders]

MCDocs ==
    {<<>>,
     <<RootEntry("INFO"), [SystemEntry(P, <<File(Q), StdOut>>) EXCEPT !.level = "INFO"]>>,
     <<RootEntry("DEBUG"), SystemEntry(P, <<StdOut>>), SystemEntry(Q, <<>>)>>,
     <<SystemEntry(Bad, <<StdOut, File(Bad)>>)>>,
     <<SystemEntry(P, <<StdOut, NoName>>)>>,
     <<SystemEntry(P, <<>>)>>,
     <<[SystemEntry(P, <<>>) EXCEPT !.level = Missing]>>}
=============================================================================
