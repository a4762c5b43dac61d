------------------------------ MODULE MCConfig ------------------------------
(* Instances of Config for TLC. *)
EXTENDS Config

\* the default path and a relative one, a log level
CONSTANTS Etc, Rel, Info

Line(key, value, indent) == [key |-> key, value |-> value, indent |-> indent]
Keys == Line("oauth", "k", FALSE)

\* Command lines that both sides read alike, ...
PlainArgvs ==
  {<<>>, <<"-c", Etc>>, <<"-c", Rel>>, <<"-d">>, <<"-d", "-c", Rel>>, <<"-c", Etc, "-d">>,
   <<"--noservice", "-c", Etc>>, <<"-l", Rel>>, <<"-p", Rel>>, <<"--loglevel", Info>>,
   <<"--loglevel", Rel>>}

\* ... and such as end in an option, have an option for an operand, two -c, a help
\* switch or what looks like one, or a word that is unknown.
OddArgvs ==
  {<<"-c">>, <<"-l">>, <<"-c", Etc, "-c">>, <<"-c", "-d">>, <<"-c", "-c">>,
   <<"-l", "-c", Etc>>, <<"-p", "-c", "-d">>,
   <<"-h">>, <<"-l", "-h">>, <<"--loglevel", "-h">>, <<Etc>>, <<"-d", Rel>>}

SomeArgvs == PlainArgvs \cup OddArgvs

\* A file that names its server twice and its log, one whose key is indented, one
\* with an interval that is no number, one with a log level that is unknown.
SomeContents ==
  {<<Line("resources", "a", FALSE), Keys, Line("resources", "b", TRUE),
     Line("log_file", "f", FALSE)>>,
   <<Line("oauth", "k", TRUE)>>,
   <<Keys, Line("ping_interval", Number, FALSE), Line("ping_interval", "soon", FALSE)>>,
   <<Keys, Line("log_level", "loud", FALSE)>>}
=============================================================================
