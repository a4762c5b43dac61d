------------------------------- MODULE Config -------------------------------
(***************************************************************************)
(* The configuration. The C side (equus_conf.c, equus_load_config) takes   *)
(* the server of the modules from it, when the process starts and, on      *)
(* Unix, at every SIGUSR1; stage0.lua takes everything else, for every VM. *)
(* Each side finds the file by its own reading of the command line, and on *)
(* Windows the C side does not look at that at all. Threads read the C     *)
(* side's structure while the signal's handler replaces and frees it.      *)
(***************************************************************************)
EXTENDS Integers, Sequences, SequencesExt, FiniteSetsExt

CONSTANTS
  Argvs,        \* bound: command lines, without argv[0]
  Paths,        \* paths among the words
  AbsPaths,     \* the absolute ones
  DefaultPath,  \* /etc/cloudkick.conf, or cloudkick.cfg under %ProgramFiles%
  LogLevels,    \* words that util.log_levels knows
  Number,       \* a value that tonumber takes
  NoWord,       \* the NULL after the last word, and a setting that is nil
  Contents,     \* bound: what a file may hold, sequences of lines
  Missing,      \* in place of a file's contents: it cannot be opened
  Lanes,        \* threads that call equus_url
  MaxConf       \* bound: equus_conf_t structures, addresses 1..MaxConf

ASSUME PathAssumption ==
  DefaultPath \in AbsPaths /\ AbsPaths \subseteq Paths /\ NoWord \notin Paths
ASSUME BoundAssumption == MaxConf \in Nat \ {0}

-----------------------------------------------------------------------------
\* The command line. Words are options, which stand for their long forms too, and
\* "--noservice" for every switch that only main looks at, paths and log levels.

WithOperand == {"-c", "-l", "-p", "--loglevel"}
Words == Paths \cup LogLevels \cup WithOperand \cup {"-d", "-h", "--noservice"}
ASSUME ArgvAssumption == Argvs \subseteq Seq(Words) /\ NoWord \notin Words

\* equus_get_argv, which lets the index be argc
GetArgv(words, i) == IF i <= Len(words) THEN words[i] ELSE NoWord

\* is_help_switch_present
HelpPresent(words) == \E i \in 1..Len(words) : words[i] = "-h"

\* Slip: the operand is taken from the place of the option itself.
ConfigPathOff(words) ==
  LET hits == {i \in 1..Len(words) : words[i] = "-c" /\ GetArgv(words, i + 1) # NoWord}
  IN  IF hits = {} THEN DefaultPath ELSE GetArgv(words, Min(hits))

\* get_config_path: the first -c that has a word after it, whatever that is
ConfigPath(words) ==
  LET hits == {i \in 1..Len(words) : words[i] = "-c" /\ GetArgv(words, i + 1) # NoWord}
  IN  IF hits = {} THEN DefaultPath ELSE GetArgv(words, Min(hits) + 1)

\* process_argv: left to right, operands skipped, the last -c counts; -h and
\* unknown words end it
ArgvStep(words, s, i) ==
  LET operand(option, value) == IF words[i] = option THEN GetArgv(words, i + 1) ELSE value
  IN  IF ~s.ok THEN s
      ELSE IF s.skip THEN [s EXCEPT !.skip = FALSE]
      ELSE [ok |-> words[i] \in WithOperand \cup {"-d", "--noservice"},
            skip |-> words[i] \in WithOperand,
            deamonize |-> s.deamonize \/ words[i] = "-d",
            config_file |-> operand("-c", s.config_file),
            log_file |-> operand("-l", s.log_file),
            log_level |-> operand("--loglevel", s.log_level),
            pid_file |-> operand("-p", s.pid_file)]

\* conf before the first word: pick_config and nil
Fresh == [ok |-> TRUE, skip |-> FALSE, deamonize |-> FALSE, config_file |-> DefaultPath,
          log_file |-> NoWord, log_level |-> NoWord, pid_file |-> NoWord]

\* conf after each word
ArgvScan(words) ==
  LET scan[i \in 0..Len(words)] ==
        IF i = 0 THEN Fresh ELSE ArgvStep(words, scan[i - 1], i)
  IN  scan

ProcessArgv(words) == ArgvScan(words)[Len(words)]

\* what the two sides make of a command line
Picked == [a \in Argvs |-> ConfigPath(a)]
Parsed == [a \in Argvs |-> ProcessArgv(a)]

-----------------------------------------------------------------------------
\* A file. A line has a key, a value and perhaps spaces before the key.

\* the values of resources while and after conf_parse reads the file
Free == <<"free">>          \* the structure is not in use
Filling == <<"filling">>    \* between calloc and the end of equus_conf_init
Unset == <<>>               \* resources is NULL
Bootstrap == <<"bootstrap">>

\* conf_parse and equus_conf_init: the last resources line, indented or not
Url(lines) ==
  LET found == SelectSeq(lines, LAMBDA l : l.key = "resources")
  IN  IF found = <<>> THEN Bootstrap ELSE <<"http", Last(found).value>>

\* loadconf: the last line with the key counts, and one that begins with spaces
\* has an empty key
Setting(lines, key) ==
  LET hits == {i \in 1..Len(lines) : lines[i].key = key /\ ~lines[i].indent}
  IN  IF hits = {} THEN NoWord ELSE lines[Max(hits)].value

\* mergeConfTables: the command line goes before the file
Option(word, lines, key) == IF word # NoWord THEN word ELSE Setting(lines, key)

-----------------------------------------------------------------------------
Confs == 1..MaxConf
Null == 0
Places == ({"root"} \X Paths) \cup ({"start"} \X (Paths \ AbsPaths))
NoRead == <<<<"none", NoWord>>, Missing>>

VARIABLES
  argv,     \* the command line
  platform, \* what the agent was built for
  env,      \* whether %ProgramFiles% is set
  disk,     \* the contents of the file at each place, or Missing
  cwd,      \* the working directory
  pc,       \* where the main thread is
  runs,     \* g_equus_run_count, up to 2
  restart,  \* g_equus_restart
  gconf,    \* global_conf
  heap,     \* what each equus_conf_t holds
  usr1,     \* where the handler of SIGUSR1 is
  other,    \* its conf_new, and after the exchange its conf_old
  ptr,      \* the structure a thread inside equus_url has found
  late,     \* the threads whose structure is one from before the last exchange
  cread,    \* history: the place and contents the C side has read last
  lread,    \* history: the place and contents the Lua side has read last
  nolog,    \* history: the Lua side could not open the log file then
  edited    \* history: files were edited since the C side has read

setup == <<argv, platform, env>>
process == <<setup, cwd, runs>>
vars == <<process, disk, pc, restart, gconf, heap, usr1, other, ptr, late,
          cread, lread, nolog, edited>>

\* the path of equus_conf_init, which on Windows is a fixed one
ConfPath == IF platform = "windows" THEN DefaultPath ELSE Picked[argv]

\* getenv("ProgramFiles") returns nothing
NoEnv == platform = "windows" /\ env = "unset"

\* the places that matter: no other is ever read
Named == {p \in Places : p[2] \in {ConfPath, Parsed[argv].config_file}}

Init ==
  /\ argv \in Argvs
  /\ platform \in {"unix", "windows"} /\ env \in {"set", "unset"}
  /\ platform = "unix" => env = "unset"
  /\ \E files \in [Named -> Contents \cup {Missing}] :
       disk = [p \in Places |-> IF p \in Named THEN files[p] ELSE Missing]
  /\ cwd = "start" /\ pc = "init" /\ runs = 0 /\ restart = FALSE
  /\ gconf = Null /\ heap = [c \in Confs |-> Free]
  /\ usr1 = "idle" /\ other = Null
  /\ ptr = [l \in Lanes |-> Null] /\ late = {}
  /\ cread = NoRead /\ lread = NoRead /\ nolog = FALSE /\ edited = FALSE

\* where a path leads, and what is there
Place(p) == <<IF p \in AbsPaths THEN "root" ELSE cwd, p>>
File(p) == IF p \in Paths THEN disk[Place(p)] ELSE Missing

\* equus_conf_init: what it opens, and what resources becomes
ConfFile == IF NoEnv THEN Missing ELSE File(ConfPath)
Loaded == IF ConfFile = Missing THEN Unset ELSE Url(ConfFile)

ReadByC ==
  /\ cread' = <<Place(ConfPath), ConfFile>>
  /\ edited' = FALSE

-----------------------------------------------------------------------------
\* The process has ended, over its configuration or over something else.
Over == {"exit", "failed"}

\* The main thread; it stands still while the handler runs on it.
Goto(from, to) == usr1 = "idle" /\ pc = from /\ pc' = to

\* equus_util_init with a help switch, or what looks like one
SkipConfig ==
  /\ Goto("init", "loop")
  /\ HelpPresent(argv)
  /\ UNCHANGED <<process, disk, restart, gconf, heap, usr1, other, ptr, late,
                 cread, lread, nolog, edited>>

FirstConfig ==
  /\ Goto("init", IF Loaded = Unset THEN "exit" ELSE "loop")
  /\ ~HelpPresent(argv)
  /\ \E c \in Confs : gconf' = c /\ heap' = [heap EXCEPT ![c] = Loaded]
  /\ ReadByC
  /\ UNCHANGED <<process, disk, restart, usr1, other, ptr, late, lread, nolog>>

\* the head of main_core's loop
Loop ==
  /\ Goto("loop", "config")
  /\ restart' = FALSE
  /\ runs' = IF runs = 2 THEN 2 ELSE runs + 1
  /\ UNCHANGED <<setup, cwd, disk, gconf, heap, usr1, other, ptr, late, cread,
                 lread, nolog, edited>>

\* load_config_defaults, in a new VM: the file it reads ...
LuaFile == File(Parsed[argv].config_file)

ReadByLua ==
  lread' = IF NoEnv \/ ~Parsed[argv].ok THEN NoRead
           ELSE <<Place(Parsed[argv].config_file), LuaFile>>

\* Slip: a log level that is not given is not replaced by the default.
VerdictNoDefault ==
  IF NoEnv THEN "raise"
  ELSE IF ~Parsed[argv].ok \/ LuaFile = Missing THEN "return"
  ELSE IF Setting(LuaFile, "oauth") = NoWord THEN "return"
  ELSE IF Setting(LuaFile, "ping_interval") \notin {NoWord, Number} THEN "raise"
  ELSE IF Option(Parsed[argv].log_level, LuaFile, "log_level") \in LogLevels
  THEN "go" ELSE "return"

\* ... and its tests in their order, up to the log file: without %ProgramFiles% and
\* with an interval that is no number it raises, and it returns without a
\* configuration if the file cannot be read, the keys are missing or the log level
\* is unknown.
Verdict ==
  IF NoEnv THEN "raise"
  ELSE IF ~Parsed[argv].ok \/ LuaFile = Missing THEN "return"
  ELSE IF Setting(LuaFile, "oauth") = NoWord THEN "return"
  ELSE IF Setting(LuaFile, "ping_interval") \notin {NoWord, Number} THEN "raise"
  ELSE IF Option(Parsed[argv].log_level, LuaFile, "log_level") \in LogLevels \cup {NoWord}
  THEN "go" ELSE "return"

\* a daemon logs to a file in any case
LogNamed ==
  \/ Parsed[argv].deamonize
  \/ Option(Parsed[argv].log_file, LuaFile, "log_file") # NoWord

LoadDefaults ==
  /\ Goto("config", "detach")
  /\ Verdict = "go"
  /\ ReadByLua /\ nolog' = FALSE
  /\ UNCHANGED <<process, disk, restart, gconf, heap, usr1, other, ptr, late, cread,
                 edited>>

NoDefaults ==
  /\ Goto("config", "close")
  /\ Verdict = "return"
  /\ ReadByLua /\ nolog' = FALSE
  /\ UNCHANGED <<process, disk, restart, gconf, heap, usr1, other, ptr, late, cread,
                 edited>>

\* equus_log_set_path cannot open the file
LogFails ==
  /\ Goto("config", "close")
  /\ Verdict = "go" /\ LogNamed
  /\ ReadByLua /\ nolog' = TRUE
  /\ UNCHANGED <<process, disk, restart, gconf, heap, usr1, other, ptr, late, cread,
                 edited>>

\* a Lua error: main_core returns, whatever the flag says
DefaultsRaise ==
  /\ Goto("config", "exit")
  /\ Verdict = "raise"
  /\ ReadByLua /\ nolog' = FALSE
  /\ UNCHANGED <<process, disk, restart, gconf, heap, usr1, other, ptr, late, cread,
                 edited>>

\* the first VM becomes a daemon
Daemonizes == runs <= 1 /\ Parsed[argv].deamonize

\* Slip: the flag is cleared once the VM has its configuration.
DetachClears ==
  /\ Goto("detach", "running")
  /\ ~(Daemonizes /\ platform = "windows")
  /\ cwd' = IF Daemonizes THEN "root" ELSE cwd
  /\ restart' = FALSE
  /\ UNCHANGED <<setup, runs, disk, gconf, heap, usr1, other, ptr, late, cread, lread, nolog,
                 edited>>

\* stage0.run: the first VM changes to the root directory and forks. Windows has
\* neither call for alien to find.
Detach ==
  /\ Goto("detach", "running")
  /\ ~(Daemonizes /\ platform = "windows")
  /\ cwd' = IF Daemonizes THEN "root" ELSE cwd
  /\ UNCHANGED <<setup, runs, disk, restart, gconf, heap, usr1, other, ptr, late,
                 cread, lread, nolog, edited>>

\* chdir, fork or setsid fails and ends the process, or write_pidfile raises
DetachFails ==
  /\ Goto("detach", "failed")
  /\ \/ Daemonizes
     \/ runs <= 1 /\ Option(Parsed[argv].pid_file, lread[2], "pid_file") # NoWord
  /\ UNCHANGED <<process, disk, restart, gconf, heap, usr1, other, ptr, late, cread,
                 lread, nolog, edited>>

\* the restart command, or missed pings
Restart ==
  /\ Goto("running", "running")
  /\ restart' = TRUE
  /\ UNCHANGED <<process, disk, gconf, heap, usr1, other, ptr, late, cread, lread, nolog,
                 edited>>

LeaveRun ==
  /\ Goto("running", "close")
  /\ restart
  /\ UNCHANGED <<process, disk, restart, gconf, heap, usr1, other, ptr, late, cread,
                 lread, nolog, edited>>

\* lua_close, and the test of main_core's loop
Close ==
  /\ Goto("close", IF restart THEN "loop" ELSE "exit")
  /\ UNCHANGED <<process, disk, restart, gconf, heap, usr1, other, ptr, late, cread,
                 lread, nolog, edited>>

-----------------------------------------------------------------------------
\* usr1_handler, installed on Unix once equus_util_init has returned
Handler(from, to) ==
  platform = "unix" /\ pc \notin Over \cup {"init"} /\ usr1 = from /\ usr1' = to

\* Slip: the old structure is freed before the new one takes its place.
ReadNewFrees ==
  /\ gconf # Null
  /\ Handler("idle", "exchange")
  /\ \E c \in Confs :
       /\ heap[c] = Free
       /\ heap' = [heap EXCEPT ![c] = Loaded, ![gconf] = Free]
       /\ other' = c
  /\ ReadByC
  /\ UNCHANGED <<process, disk, pc, restart, gconf, ptr, late, lread, nolog>>

\* equus_conf_init fills a structure that no thread knows yet ...
ReadNew ==
  /\ gconf # Null
  /\ Handler("idle", "exchange")
  /\ \E c \in Confs :
       /\ heap[c] = Free
       /\ heap' = [heap EXCEPT ![c] = Loaded]
       /\ other' = c
  /\ ReadByC
  /\ UNCHANGED <<process, disk, pc, restart, gconf, ptr, late, lread, nolog>>

\* the threads that have found a structure and not yet read it
Takers == {l \in Lanes : ptr[l] # Null}

\* Slip: the old structure is not remembered.
ExchangeForgets ==
  /\ Handler("exchange", "free")
  /\ gconf' = other
  /\ other' = Null
  /\ late' = Takers
  /\ UNCHANGED <<process, disk, pc, restart, heap, ptr, cread, lread, nolog, edited>>

Exchange ==
  /\ Handler("exchange", "free")
  /\ gconf' = other
  /\ other' = gconf
  /\ late' = Takers
  /\ UNCHANGED <<process, disk, pc, restart, heap, ptr, cread, lread, nolog, edited>>

\* ... or, the first time after a help switch, the one they all see.
PublishEmpty ==
  /\ gconf = Null
  /\ Handler("idle", "fill")
  /\ \E c \in Confs : gconf' = c /\ heap' = [heap EXCEPT ![c] = Filling]
  /\ UNCHANGED <<process, disk, pc, restart, other, ptr, late, cread, lread, nolog, edited>>
Fill ==
  /\ Handler("fill", "decide")
  /\ heap' = [heap EXCEPT ![gconf] = Loaded]
  /\ ReadByC
  /\ UNCHANGED <<process, disk, pc, restart, gconf, other, ptr, late, lread, nolog>>

\* Slip: the old structure is never freed.
FreeNone ==
  /\ Handler("free", "decide")
  /\ other' = Null
  /\ UNCHANGED <<process, disk, pc, restart, gconf, heap, ptr, late, cread, lread, nolog,
                 edited>>

FreeOld ==
  /\ Handler("free", "decide")
  /\ heap' = [heap EXCEPT ![other] = Free]
  /\ other' = Null
  /\ UNCHANGED <<process, disk, pc, restart, gconf, ptr, late, cread, lread, nolog, edited>>

\* an unreadable file ends the process, any other restarts the VM
Decide ==
  /\ Handler("decide", "idle")
  /\ pc' = IF heap[gconf] = Unset THEN "exit" ELSE pc
  /\ restart' = (heap[gconf] # Unset \/ restart)
  /\ UNCHANGED <<process, disk, gconf, heap, other, ptr, late, cread, lread, nolog, edited>>

-----------------------------------------------------------------------------
\* equus_url in a thread of some VM, and the copy of what it returns
TakeUrl(l) ==
  /\ runs > 0 /\ pc \notin Over /\ gconf # Null /\ ptr[l] = Null
  /\ ptr' = [ptr EXCEPT ![l] = gconf]
  /\ UNCHANGED <<process, disk, pc, restart, gconf, heap, usr1, other, late, cread,
                 lread, nolog, edited>>
CopyUrl(l) ==
  /\ ptr[l] # Null /\ pc \notin Over
  /\ ptr' = [ptr EXCEPT ![l] = Null]
  /\ late' = late \ {l}
  /\ UNCHANGED <<process, disk, pc, restart, gconf, heap, usr1, other, cread, lread, nolog,
                 edited>>

\* somebody changes a file
Edit ==
  /\ pc \notin Over \cup {"init"}
  /\ \E p \in Named, c \in Contents \cup {Missing} :
       disk[p] # c /\ disk' = [disk EXCEPT ![p] = c]
  /\ edited' = TRUE
  /\ UNCHANGED <<process, pc, restart, gconf, heap, usr1, other, ptr, late, cread,
                 lread, nolog>>

Ended == pc \in Over /\ UNCHANGED vars

Next ==
  \/ SkipConfig \/ FirstConfig \/ Loop
  \/ LoadDefaults \/ NoDefaults \/ LogFails \/ DefaultsRaise
  \/ Detach \/ DetachFails \/ Restart \/ LeaveRun \/ Close
  \/ ReadNew \/ Exchange \/ PublishEmpty \/ Fill \/ FreeOld \/ Decide
  \/ \E l \in Lanes : TakeUrl(l) \/ CopyUrl(l)
  \/ Edit \/ Ended

Spec == Init /\ [][Next]_vars

-----------------------------------------------------------------------------
\* The type invariant: global_conf is unset only before the first file is read,
\* and the handler's pointers are there when it uses them.
TypeOK ==
  /\ argv \in Argvs
  /\ platform \in {"unix", "windows"} /\ env \in {"set", "unset"}
  /\ disk \in [Places -> Contents \cup {Missing}]
  /\ cwd \in {"root", "start"}
  /\ pc \in {"init", "loop", "config", "detach", "running", "close"} \cup Over
  /\ runs \in 0..2 /\ restart \in BOOLEAN /\ edited \in BOOLEAN /\ nolog \in BOOLEAN
  /\ gconf \in Confs \cup {Null} /\ other \in Confs \cup {Null}
  /\ DOMAIN heap = Confs
  /\ usr1 \in {"idle", "exchange", "fill", "free", "decide"}
  /\ usr1 # "idle" /\ usr1 # "fill" => gconf # Null
  /\ usr1 \in {"exchange", "free"} => other # Null
  /\ ptr \in [Lanes -> Confs \cup {Null}]
  /\ late \subseteq Takers

\* There is one configuration structure, and it holds what the C side has read
\* last: reloading neither leaks one nor frees the one in use.
OneConf ==
  pc \notin Over \cup {"init"} /\ usr1 = "idle" =>
    /\ {c \in Confs : heap[c] # Free} = {gconf} \ {Null}
    /\ gconf # Null => heap[gconf] = Url(cread[2])

\* equus_url reads a structure that is live and complete, unless the handler has
\* exchanged it since the thread found it: no thread can find one that is freed or,
\* but for a reload after a help switch, one that is still being filled, and one
\* without a URL is there only while the handler that put it there is on its way to
\* end the process.
UrlIsLive ==
  pc \notin Over => \A l \in Takers \ late :
    /\ heap[ptr[l]] # Free
    /\ heap[ptr[l]] = Filling => HelpPresent(argv)
    /\ heap[ptr[l]] = Unset => usr1 \in {"free", "decide"}

\* A command line both parsers read alike: one -c at most, which is no operand,
\* and no help switch.
Plain(words) ==
  LET cs == {i \in 1..Len(words) : words[i] = "-c"} IN
  /\ ~HelpPresent(words)
  /\ \A i, j \in cs : i = j
  /\ \A i \in cs : i > 1 => words[i - 1] \notin WithOperand

\* On Windows both sides take the same file only if there is no -c.
Alike ==
  /\ Plain(argv)
  /\ platform = "windows" => \A i \in 1..Len(argv) : argv[i] # "-c"

\* the file such a command line means: the one after its -c, from where the agent
\* was started
Meant ==
  LET cs == {i \in 1..(Len(argv) - 1) : argv[i] = "-c"}
  IN  IF cs = {} THEN DefaultPath ELSE argv[Min(cs) + 1]
Home == <<IF Meant \in AbsPaths THEN "root" ELSE "start", Meant>>

\* that does not depend on the working directory
Steady == Meant \in AbsPaths \/ ~Parsed[argv].deamonize

\* A VM that runs, with no restart pending, has its configuration from the same
\* file, and from the same contents of it, as the C side, if nobody has edited
\* it since the C side has read it: wherever SIGUSR1 comes, neither side keeps what
\* the other has replaced.
SameConfig ==
  pc = "running" /\ usr1 = "idle" /\ ~restart /\ ~edited /\ Alike /\ Steady =>
    cread = lread /\ cread[1] = Home

\* A file that load_config_defaults has a reason to refuse: it lacks the keys, its
\* ping interval is no number, or its log level, if the command line gives none, is
\* unknown.
Faulty(lines) ==
  \/ lines = Missing
  \/ Setting(lines, "oauth") = NoWord
  \/ Setting(lines, "ping_interval") \notin {NoWord, Number}
  \/ Option(Parsed[argv].log_level, lines, "log_level") \notin LogLevels \cup {NoWord}

\* The agent ends over its configuration only for a reason that lies in the file its
\* command line names (one that cannot be found without %ProgramFiles% is missing), or
\* because its log could not be opened at the last reading, however often it is
\* restarted and after it has become a daemon (unless that has moved a relative path).
EndsForCause ==
  pc = "exit" /\ Alike /\ Parsed[argv].ok /\ Steady =>
    \/ Parsed[argv].config_file = NoWord
    \/ cread = <<Home, Missing>>
    \/ lread[1] = Home /\ (Faulty(lread[2]) \/ nolog)
=============================================================================
