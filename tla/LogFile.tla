------------------------------ MODULE LogFile ------------------------------
(***************************************************************************)
(* The log of equus_util.c: the FILE in use, the path it was opened with,  *)
(* equus_log_set_path, which stage0 calls for every VM, and                *)
(* equus_log_rotate, which set_path ends with and SIGHUP calls. A signal   *)
(* runs its handler on the main thread, between any two of its steps. The  *)
(* threads that log take no lock: each reads g_equus_log_fp and writes to  *)
(* what it has read, while the main thread replaces and closes it.         *)
(***************************************************************************)
EXTENDS Integers, FiniteSets

CONSTANTS
  Paths,     \* paths conf.log_file may name
  Minus,     \* the path "-", which stands for stderr
  Lanes,     \* threads that log
  Junk,      \* what freed memory holds when it is read as a path
  MaxFile,   \* bound: FILE objects, addresses 1..MaxFile
  MaxString  \* bound: copies of paths, addresses 1..MaxString

ASSUME PathsAssumption == Minus \notin Paths /\ Junk \notin Paths /\ Minus # Junk
ASSUME BoundsAssumption == MaxFile \in Nat /\ MaxString \in Nat

Null == 0
Stderr == -1
Free == Minus           \* marks an address that is not in use
Files == 1..MaxFile
Strings == 1..MaxString
Runs == {"main", "hup"} \* the main thread's code and the handler above it

VARIABLES
  fp,      \* g_equus_log_fp
  path,    \* g_equus_log_path
  file,    \* what each FILE was opened with, Free for none
  string,  \* the text at each address, Free for none
  pc,      \* where set_path and rotate are
  old,     \* their local variables old and oldfp
  nxt,     \* rotate's local variable nxt
  oldstr,  \* set_path's local variable oldstr
  arg,     \* set_path's last argument
  opened,  \* whether the last fopen succeeded
  clean,   \* none of the three hazards below has happened
  at,      \* where each thread is in equus_log
  held,    \* the FILE it has read from g_equus_log_fp
  late     \* the threads whose FILE is one from before the last change

lines == <<at, held, late>>
vars == <<fp, path, file, string, pc, old, nxt, oldstr, arg, opened, clean, lines>>

Init ==
  /\ fp = Null /\ path = Null
  /\ file = [a \in Files |-> Free]
  /\ string = [a \in Strings |-> Free]
  /\ pc = [r \in Runs |-> "idle"]
  /\ old = [r \in Runs |-> Null]
  /\ nxt = [r \in Runs |-> Stderr]
  /\ oldstr = Null
  /\ arg = Minus
  /\ opened = TRUE /\ clean = TRUE
  /\ at = [l \in Lanes |-> "idle"]
  /\ held = [l \in Lanes |-> Null]
  /\ late = {}

\* The main thread stands still while a handler runs on it.
Goto(r, from, to) ==
  /\ r = "main" => pc["hup"] = "idle"
  /\ pc[r] = from
  /\ pc' = [pc EXCEPT ![r] = to]

\* the local variables of rotate are gone
Return(r) == old' = [old EXCEPT ![r] = Null] /\ nxt' = [nxt EXCEPT ![r] = Stderr]

\* equus_log_buf: a line that is not below the log level
Logged == {fp, IF fp = Null THEN Stderr ELSE fp}

\* the threads that have read g_equus_log_fp and not yet used it
Holders == {l \in Lanes : at[l] \in {"write", "flush"}}

\* fclose and free: undefined for what is not in use; here they take whatever
\* has the address by now.
Fclose(f) == IF f \in Files THEN [file EXCEPT ![f] = Free] ELSE file
FreeString(a) == IF a = Null THEN string ELSE [string EXCEPT ![a] = Free]

-----------------------------------------------------------------------------
\* equus_log_rotate, in main's set_path or in the handler
SaveOld(r) ==
  /\ Goto(r, "rotate", "open")
  /\ old' = [old EXCEPT ![r] = fp]
  /\ UNCHANGED <<fp, path, file, string, nxt, oldstr, arg, opened, clean, lines>>

\* the text at path, which may have been freed and used for something else
Text == IF string[path] = Free THEN Paths \cup {Junk} ELSE {string[path]}

OpenStderr(r) ==
  /\ path = Null
  /\ Goto(r, "open", "assign")
  /\ nxt' = [nxt EXCEPT ![r] = Stderr]
  /\ opened' = TRUE
  /\ UNCHANGED <<fp, path, file, string, old, oldstr, arg, clean, lines>>

\* Slip: the old FILE is closed before the new one takes its place.
OpenFileCloses(r) ==
  /\ path # Null
  /\ Goto(r, "open", "assign")
  /\ \E a \in Files, t \in Text :
       /\ file[a] = Free
       /\ file' = [Fclose(old[r]) EXCEPT ![a] = t]
       /\ nxt' = [nxt EXCEPT ![r] = a]
  /\ opened' = TRUE
  /\ UNCHANGED <<fp, path, string, old, oldstr, arg, clean, lines>>

OpenFile(r) ==
  /\ path # Null
  /\ Goto(r, "open", "assign")
  /\ \E a \in Files, t \in Text :
       /\ file[a] = Free
       /\ file' = [file EXCEPT ![a] = t]
       /\ nxt' = [nxt EXCEPT ![r] = a]
  /\ opened' = TRUE
  /\ UNCHANGED <<fp, path, string, old, oldstr, arg, clean, lines>>

\* Slip: the failure is logged and the NULL taken for a FILE.
OpenFailsOn(r) ==
  /\ path # Null
  /\ Goto(r, "open", "assign")
  /\ nxt' = [nxt EXCEPT ![r] = Null]
  /\ fp' \in Logged
  /\ opened' = FALSE
  /\ UNCHANGED <<path, file, string, old, oldstr, arg, clean, lines>>

\* logged, and the FILE stays what it is
OpenFails(r) ==
  /\ path # Null
  /\ Goto(r, "open", "idle")
  /\ Return(r)
  /\ fp' \in Logged
  /\ opened' = FALSE
  /\ UNCHANGED <<path, file, string, oldstr, arg, clean, lines>>

Assign(r) ==
  /\ Goto(r, "assign", "close")
  /\ fp' = nxt[r]
  /\ late' = Holders
  /\ UNCHANGED <<path, file, string, old, nxt, oldstr, arg, opened, clean, at, held>>

\* Slip: the old FILE is kept open.
CloseOldKeeps(r) ==
  /\ Goto(r, "close", "idle")
  /\ Return(r)
  /\ UNCHANGED <<fp, path, file, string, oldstr, arg, opened, clean, lines>>

CloseOld(r) ==
  /\ Goto(r, "close", "idle")
  /\ Return(r)
  /\ file' = Fclose(old[r])
  /\ UNCHANGED <<fp, path, string, oldstr, arg, opened, clean, lines>>

Rotate(r) ==
  SaveOld(r) \/ OpenStderr(r) \/ OpenFile(r) \/ OpenFails(r) \/ Assign(r) \/ CloseOld(r)

-----------------------------------------------------------------------------
\* load_config_defaults calls equus_log_set_path. Freeing a path that stays in
\* g_equus_log_path is the first hazard.
SetPath ==
  /\ Goto("main", "idle", "set")
  /\ arg' \in Paths \cup {Minus}
  /\ oldstr' = path
  /\ clean' = (clean /\ (arg' = Minus => path = Null))
  /\ UNCHANGED <<fp, path, file, string, old, nxt, opened, lines>>

\* "-" while the log is a file, or not set yet
LeaveFile ==
  /\ arg = Minus /\ fp # Stderr
  /\ Goto("main", "set", "tostderr")
  /\ old' = [old EXCEPT !["main"] = fp]
  /\ UNCHANGED <<fp, path, file, string, nxt, oldstr, arg, opened, clean, lines>>
ToStderr ==
  /\ Goto("main", "tostderr", "closefile")
  /\ fp' = Stderr
  /\ late' = Holders
  /\ UNCHANGED <<path, file, string, old, nxt, oldstr, arg, opened, clean, at, held>>
CloseFile ==
  /\ Goto("main", "closefile", "free")
  /\ file' = Fclose(old["main"])
  /\ UNCHANGED <<fp, path, string, old, nxt, oldstr, arg, opened, clean, lines>>

\* "-" once more
StayStderr ==
  /\ arg = Minus /\ fp = Stderr
  /\ Goto("main", "set", "free")
  /\ UNCHANGED <<fp, path, file, string, old, nxt, oldstr, arg, opened, clean, lines>>

\* Slip: a path once set is kept.
NewPathOnce ==
  /\ arg \in Paths
  /\ Goto("main", "set", "rotate")
  /\ \E a \in Strings :
       /\ string[a] = Free
       /\ string' = IF path = Null THEN [string EXCEPT ![a] = arg] ELSE string
       /\ path' = IF path = Null THEN a ELSE path
  /\ UNCHANGED <<fp, file, old, nxt, oldstr, arg, opened, clean, lines>>

\* strdup
NewPath ==
  /\ arg \in Paths
  /\ Goto("main", "set", "free")
  /\ \E a \in Strings :
       /\ string[a] = Free
       /\ string' = [string EXCEPT ![a] = arg]
       /\ path' = a
  /\ UNCHANGED <<fp, file, old, nxt, oldstr, arg, opened, clean, lines>>

FreeOld ==
  /\ Goto("main", "free", "rotate")
  /\ string' = FreeString(oldstr)
  /\ oldstr' = Null
  /\ UNCHANGED <<fp, path, file, old, nxt, arg, opened, clean, lines>>

\* equus_log from the main thread, which sets the FILE on its first use
Log ==
  /\ pc["main"] = "idle" /\ pc["hup"] = "idle"
  /\ fp = Null
  /\ fp' = Stderr
  /\ UNCHANGED <<path, file, string, pc, old, nxt, oldstr, arg, opened, clean, lines>>

-----------------------------------------------------------------------------
\* equus_log and equus_log_buf in a thread, for a line that is not below the
\* log level. The FILE is read for fwrite and once more for fflush.
Step(l, from, to) == at[l] = from /\ at' = [at EXCEPT ![l] = to]

LineBegins(l) ==
  /\ Step(l, "idle", IF fp = Null THEN "unset" ELSE "load")
  /\ UNCHANGED <<fp, path, file, string, pc, old, nxt, oldstr, arg, opened, clean,
                 held, late>>

\* The third hazard is that the main thread has opened a log since the test.
LineSetsStderr(l) ==
  /\ Step(l, "unset", "load")
  /\ fp' = Stderr
  /\ late' = Holders
  /\ clean' = (clean /\ fp \notin Files)
  /\ UNCHANGED <<path, file, string, pc, old, nxt, oldstr, arg, opened, held>>

LineLoads(l) ==
  /\ Step(l, "load", "write") \/ Step(l, "reload", "flush")
  /\ held' = [held EXCEPT ![l] = fp]
  /\ late' = late \ {l}
  /\ UNCHANGED <<fp, path, file, string, pc, old, nxt, oldstr, arg, opened, clean>>

\* fwrite and fflush: they change no pointer
LineWrites(l) ==
  /\ Step(l, "write", "reload") \/ Step(l, "flush", "idle")
  /\ held' = [held EXCEPT ![l] = Null]
  /\ late' = late \ {l}
  /\ UNCHANGED <<fp, path, file, string, pc, old, nxt, oldstr, arg, opened, clean>>

\* hup_handler. The second hazard is that it interrupts the main thread while
\* that holds a copy of g_equus_log_fp it is about to replace and to close.
Hup ==
  /\ Goto("hup", "idle", "rotate")
  /\ clean' = (clean /\ pc["main"] \notin {"open", "assign", "tostderr"})
  /\ UNCHANGED <<fp, path, file, string, old, nxt, oldstr, arg, opened, lines>>

Next ==
  \/ SetPath \/ LeaveFile \/ ToStderr \/ CloseFile \/ StayStderr \/ NewPath
  \/ FreeOld \/ Log \/ Hup
  \/ \E r \in Runs : Rotate(r)
  \/ \E l \in Lanes :
       LineBegins(l) \/ LineSetsStderr(l) \/ LineLoads(l) \/ LineWrites(l)

Spec == Init /\ [][Next]_vars

-----------------------------------------------------------------------------
\* The type invariant: what is in use, and what is about to be, is never a
\* NULL that a failed fopen has returned.
TypeOK ==
  /\ fp \in Files \cup {Null, Stderr}
  /\ path \in Strings \cup {Null}
  /\ file \in [Files -> Paths \cup {Free, Junk}]
  /\ string \in [Strings -> Paths \cup {Free}]
  /\ pc \in [Runs -> {"idle", "set", "tostderr", "closefile", "free",
                     "rotate", "open", "assign", "close"}]
  /\ pc["hup"] \in {"idle", "rotate", "open", "assign", "close"}
  /\ old \in [Runs -> Files \cup {Null, Stderr}]
  /\ nxt \in [Runs -> Files \cup {Stderr}]
  /\ oldstr \in Strings \cup {Null}
  /\ arg \in Paths \cup {Minus}
  /\ opened \in BOOLEAN /\ clean \in BOOLEAN
  /\ at \in [Lanes -> {"idle", "unset", "load", "write", "reload", "flush"}]
  /\ held \in [Lanes -> Files \cup {Null, Stderr}]
  /\ late \subseteq Holders

Quiet == \A r \in Runs : pc[r] = "idle"
Open == {a \in Files : file[a] # Free}

\* Outside set_path and rotate the log's FILE is open and no other is: nothing
\* leaks and nothing is closed under the log, whatever open fails and wherever
\* a SIGHUP comes, but for the three hazards.
OneLogFile == clean /\ Quiet => Open = {fp} \cap Files

\* The log is in the file that the configuration named last, unless that could
\* not be opened; a path that was freed is never opened.
SamePath ==
  clean /\ Quiet /\ opened =>
    \/ path = Null /\ fp \notin Files
    \/ path # Null /\ string[path] = arg /\ fp \in Files /\ file[fp] = arg

\* A thread writes to and flushes a FILE that is open, however often the log is
\* rotated while it does, unless the log was replaced after the thread read
\* g_equus_log_fp: no thread can still read the FILE that is being closed.
WriteIsLive ==
  clean => \A l \in Holders \ late : held[l] \in Files => file[held[l]] # Free

\* equus_util.h on equus_log_set_path: if NULL, it sets the log file to stderr.
\* The rotate that set_path ends with opens the freed path again.
MinusIsStderr == Quiet /\ arg = Minus /\ opened => fp \in {Null, Stderr}
=============================================================================
