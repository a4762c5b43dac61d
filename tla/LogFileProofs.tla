--------------------------- MODULE LogFileProofs ---------------------------
(***************************************************************************)
(* What TLAPS proves of LogFile, for any paths, any number of threads that *)
(* log and any number of FILEs.                                            *)
(***************************************************************************)
EXTENDS LogFile, TLAPS

\* The FILE that a run of rotate or set_path has besides the log's: the one it
\* has opened, or the one it is about to close.
Extra(r) == IF pc[r] = "assign" THEN nxt[r]
            ELSE IF pc[r] \in {"close", "closefile"} THEN old[r] ELSE Null

\* What is open is the log's FILE and those; they are different FILEs.
FilesKnown ==
  /\ \A a \in Files : file[a] # Free <=> a \in {fp, Extra("main"), Extra("hup")}
  /\ \A r \in Runs : Extra(r) \in Files => Extra(r) # fp
  /\ Extra("main") \in Files => Extra("main") # Extra("hup")

\* A run that is about to replace the log's FILE has that one in old.
OldIsLog ==
  \A r \in Runs : pc[r] \in {"open", "assign", "tostderr"} =>
    old[r] = fp \/ (old[r] \notin Files /\ fp \notin Files)

\* A handler has not interrupted the main thread between reading the log's FILE
\* and replacing it.
HandlerApart ==
  pc["hup"] # "idle" => pc["main"] \notin {"open", "assign", "tostderr"}

\* The path is the last argument, but while set_path takes a new one, and the
\* string it frees is another one.
PathKnown ==
  /\ path # Null => string[path] # Free
  /\ path # Null /\ pc["main"] # "set" => string[path] = arg
  /\ arg = Minus => path = Null
  /\ pc["main"] \in {"set", "tostderr", "closefile"} => oldstr = path
  /\ pc["main"] \in {"tostderr", "closefile"} => arg = Minus
  /\ pc["main"] = "free" => oldstr = Null \/ oldstr # path

\* f was opened with the path
OpenedWith(f) ==
  \/ path = Null /\ f \notin Files
  \/ path # Null /\ f \in Files /\ file[f] = string[path]

\* What was opened last is the log, or will be.
LogKnown ==
  /\ \A r \in Runs : pc[r] = "assign" => OpenedWith(nxt[r])
  /\ pc["main"] \in {"idle", "close"} /\ pc["hup"] # "assign" /\ opened => OpenedWith(fp)

\* A thread has the log's FILE, unless that was replaced since.
HeldIsLog == \A l \in Holders \ late : held[l] \in Files => held[l] = fp

\* The inductive invariant.
LogInv ==
  /\ TypeOK /\ HeldIsLog
  /\ clean => FilesKnown /\ OldIsLog /\ HandlerApart /\ PathKnown /\ LogKnown

-----------------------------------------------------------------------------
\* The values that are told apart.
LEMMA Apart ==
  /\ Null \notin Files /\ Stderr \notin Files /\ Null \notin Strings /\ Null # Stderr
  /\ "main" \in Runs /\ "hup" \in Runs /\ \A r \in Runs : r = "main" \/ r = "hup"
  /\ Free = Minus /\ Free \notin Paths /\ Free # Junk
  BY PathsAssumption, BoundsAssumption DEF Null, Stderr, Files, Strings, Runs, Free

\* What fopen may be given is not the mark of an address that is free.
LEMMA TextShape ==
  ASSUME TypeOK, path # Null, NEW t \in Text
  PROVE  t \in Paths \cup {Junk} /\ t # Free
  BY Apart DEF Text, TypeOK

LEMMA InitLog == Init => LogInv
  <1> SUFFICES ASSUME Init PROVE LogInv
    OBVIOUS
  <1>1. TypeOK
    <2>1. opened \in BOOLEAN /\ clean \in BOOLEAN
      BY Zenon DEF Init
    <2> QED BY <2>1 DEF Init, TypeOK, Holders, Runs
  <1>2. HeldIsLog
    BY DEF Init, HeldIsLog, Holders
  <1>3. FilesKnown
    BY Apart DEF Init, FilesKnown, Extra
  <1>4. OldIsLog /\ HandlerApart
    BY Apart DEF Init, OldIsLog, HandlerApart
  <1>5. PathKnown
    BY Apart DEF Init, PathKnown
  <1>6. LogKnown
    BY Apart DEF Init, LogKnown, OpenedWith
  <1> QED BY <1>1, <1>2, <1>3, <1>4, <1>5, <1>6 DEF LogInv

LEMMA TypeStep == TypeOK /\ [Next]_vars => TypeOK'
  <1> SUFFICES ASSUME TypeOK, [Next]_vars PROVE TypeOK'
    OBVIOUS
  <1> USE Apart DEF TypeOK, Goto, lines
  <1>1. CASE SetPath
    <2>1. clean' \in BOOLEAN
      BY <1>1, Zenon DEF SetPath
    <2> QED BY <1>1, <2>1 DEF SetPath, Holders
  <1>2. CASE LeaveFile
    BY <1>2 DEF LeaveFile, Holders
  <1>3. CASE ToStderr
    BY <1>3 DEF ToStderr, Holders
  <1>4. CASE CloseFile
    BY <1>4 DEF CloseFile, Fclose, Holders
  <1>5. CASE StayStderr
    BY <1>5 DEF StayStderr, Holders
  <1>6. CASE NewPath
    BY <1>6 DEF NewPath, Holders
  <1>7. CASE FreeOld
    BY <1>7 DEF FreeOld, FreeString, Holders
  <1>8. CASE Log
    BY <1>8 DEF Log, Holders
  <1>9. CASE Hup
    <2>1. clean' \in BOOLEAN
      BY <1>9, Zenon DEF Hup
    <2> QED BY <1>9, <2>1 DEF Hup, Holders
  <1>10. ASSUME NEW r \in Runs, Rotate(r) PROVE TypeOK'
    <2>1. CASE SaveOld(r)
      BY <2>1 DEF SaveOld, Holders
    <2>2. CASE OpenStderr(r)
      <3>1. opened' \in BOOLEAN
        BY <2>2, Zenon DEF OpenStderr
      <3> QED BY <2>2, <3>1 DEF OpenStderr, Holders
    <2>3. CASE OpenFile(r)
      <3>1. opened' \in BOOLEAN
        BY <2>3, Zenon DEF OpenFile
      <3> QED BY <2>3, <3>1, TextShape DEF OpenFile, Holders
    <2>4. CASE OpenFails(r)
      <3>1. opened' \in BOOLEAN
        BY <2>4, Zenon DEF OpenFails
      <3> QED BY <2>4, <3>1 DEF OpenFails, Return, Logged, Holders
    <2>5. CASE Assign(r)
      BY <2>5 DEF Assign, Holders
    <2>6. CASE CloseOld(r)
      BY <2>6 DEF CloseOld, Return, Fclose, Holders
    <2> QED BY <1>10, <2>1, <2>2, <2>3, <2>4, <2>5, <2>6 DEF Rotate
  <1>11. ASSUME NEW l \in Lanes,
                LineBegins(l) \/ LineSetsStderr(l) \/ LineLoads(l) \/ LineWrites(l)
         PROVE  TypeOK'
    <2>1. CASE LineBegins(l)
      BY <2>1 DEF LineBegins, Step, Holders
    <2>2. CASE LineSetsStderr(l)
      <3>1. clean' \in BOOLEAN
        BY <2>2, Zenon DEF LineSetsStderr
      <3> QED BY <2>2, <3>1 DEF LineSetsStderr, Step, Holders
    <2>3. CASE LineLoads(l)
      BY <2>3 DEF LineLoads, Step, Holders
    <2>4. CASE LineWrites(l)
      BY <2>4 DEF LineWrites, Step, Holders
    <2> QED BY <1>11, <2>1, <2>2, <2>3, <2>4
  <1>12. CASE UNCHANGED vars
    BY <1>12 DEF vars, Holders
  <1> QED
    BY <1>1, <1>2, <1>3, <1>4, <1>5, <1>6, <1>7, <1>8, <1>9, <1>10, <1>11, <1>12
    DEF Next

-----------------------------------------------------------------------------
\* A thread that holds the log's FILE is marked late when that is replaced.
LEMMA HeldStep == LogInv /\ [Next]_vars => HeldIsLog'
  <1> SUFFICES ASSUME LogInv, [Next]_vars PROVE HeldIsLog'
    OBVIOUS
  <1> USE Apart DEF LogInv, HeldIsLog, TypeOK, Goto, lines, Holders
  <1>1. CASE SetPath \/ LeaveFile \/ CloseFile \/ StayStderr \/ NewPath \/ FreeOld \/ Hup
    BY <1>1 DEF SetPath, LeaveFile, CloseFile, StayStderr, NewPath, FreeOld, Hup
  <1>2. CASE ToStderr \/ Log
    BY <1>2 DEF ToStderr, Log
  <1>3. ASSUME NEW r \in Runs, Rotate(r) PROVE HeldIsLog'
    BY <1>3 DEF Rotate, SaveOld, OpenStderr, OpenFile, OpenFails, Logged, Assign, CloseOld
  <1>4. ASSUME NEW l \in Lanes,
               LineBegins(l) \/ LineSetsStderr(l) \/ LineLoads(l) \/ LineWrites(l)
        PROVE  HeldIsLog'
    <2>1. CASE LineBegins(l)
      BY <2>1 DEF LineBegins, Step
    <2>2. CASE LineSetsStderr(l)
      BY <2>2 DEF LineSetsStderr, Step
    <2>3. CASE LineLoads(l)
      BY <2>3 DEF LineLoads, Step
    <2>4. CASE LineWrites(l)
      BY <2>4 DEF LineWrites, Step
    <2> QED BY <1>4, <2>1, <2>2, <2>3, <2>4
  <1>5. CASE UNCHANGED vars
    BY <1>5 DEF vars
  <1> QED BY <1>1, <1>2, <1>3, <1>4, <1>5 DEF Next

\* What is assumed below of a step without a hazard.
CleanInv == TypeOK /\ FilesKnown /\ OldIsLog /\ HandlerApart /\ PathKnown /\ LogKnown

\* A hazard that has happened is not forgotten.
LEMMA CleanBefore == LogInv /\ [Next]_vars /\ clean' => CleanInv
  <1> SUFFICES ASSUME LogInv, [Next]_vars, clean' PROVE clean
    BY DEF LogInv, CleanInv
  <1> QED
    BY Zenon DEF Next, vars, SetPath, LeaveFile, ToStderr, CloseFile, StayStderr, NewPath,
       FreeOld, Log, Hup, Rotate, SaveOld, OpenStderr, OpenFile, OpenFails, Assign,
       CloseOld, LineBegins, LineSetsStderr, LineLoads, LineWrites

\* Steps of set_path that open and close nothing and a thread's steps.
LEMMA Bystanders ==
  ASSUME CleanInv, UNCHANGED <<fp, path, file, string, pc, old, nxt, oldstr, arg, opened>>
  PROVE  FilesKnown' /\ OldIsLog' /\ HandlerApart' /\ PathKnown' /\ LogKnown'
  BY DEF CleanInv, FilesKnown, Extra, OldIsLog, HandlerApart, PathKnown, LogKnown, OpenedWith

\* equus_log_set_path and what is open.
LEMMA SetPathFiles ==
  ASSUME CleanInv, \/ SetPath \/ LeaveFile \/ ToStderr \/ CloseFile
         \/ StayStderr \/ NewPath \/ FreeOld
  PROVE  FilesKnown'
  <1> USE Apart DEF CleanInv, TypeOK, Goto, FilesKnown, Extra, OldIsLog, HandlerApart
  <1>1. CASE SetPath
    BY <1>1 DEF SetPath
  <1>2. CASE LeaveFile
    BY <1>2 DEF LeaveFile
  <1>3. CASE ToStderr
    BY <1>3 DEF ToStderr
  <1>4. CASE CloseFile
    BY <1>4 DEF CloseFile, Fclose
  <1>5. CASE StayStderr
    BY <1>5 DEF StayStderr
  <1>6. CASE NewPath
    BY <1>6 DEF NewPath
  <1>7. CASE FreeOld
    BY <1>7 DEF FreeOld, FreeString
  <1> QED BY <1>1, <1>2, <1>3, <1>4, <1>5, <1>6, <1>7

\* equus_log_rotate and what is open.
LEMMA RotateFiles ==
  ASSUME CleanInv, NEW r \in Runs, Rotate(r)
  PROVE  FilesKnown'
  <1> USE Apart DEF CleanInv, TypeOK, Goto, FilesKnown, Extra, OldIsLog, HandlerApart
  <1>1. CASE SaveOld(r)
    BY <1>1 DEF SaveOld
  <1>2. CASE OpenStderr(r)
    BY <1>2 DEF OpenStderr
  <1>3. CASE OpenFile(r)
    BY <1>3, TextShape DEF OpenFile
  <1>4. CASE OpenFails(r)
    BY <1>4 DEF OpenFails, Return, Logged
  <1>5. CASE Assign(r)
    BY <1>5 DEF Assign
  <1>6. CASE CloseOld(r)
    BY <1>6 DEF CloseOld, Return, Fclose
  <1> QED BY <1>1, <1>2, <1>3, <1>4, <1>5, <1>6 DEF Rotate

\* equus_log_set_path and what the runs of rotate have saved.
LEMMA SetPathOld ==
  ASSUME CleanInv, \/ SetPath \/ LeaveFile \/ ToStderr \/ CloseFile
         \/ StayStderr \/ NewPath \/ FreeOld
  PROVE  (OldIsLog /\ HandlerApart)'
  <1> USE Apart DEF CleanInv, TypeOK, Goto, OldIsLog, HandlerApart
  <1>1. CASE SetPath
    BY <1>1 DEF SetPath
  <1>2. CASE LeaveFile
    BY <1>2 DEF LeaveFile
  <1>3. CASE ToStderr
    BY <1>3 DEF ToStderr
  <1>4. CASE CloseFile
    BY <1>4 DEF CloseFile, Fclose
  <1>5. CASE StayStderr
    BY <1>5 DEF StayStderr
  <1>6. CASE NewPath
    BY <1>6 DEF NewPath
  <1>7. CASE FreeOld
    BY <1>7 DEF FreeOld, FreeString
  <1> QED BY <1>1, <1>2, <1>3, <1>4, <1>5, <1>6, <1>7

\* equus_log_rotate and what the runs of rotate have saved.
LEMMA RotateOld ==
  ASSUME CleanInv, NEW r \in Runs, Rotate(r)
  PROVE  (OldIsLog /\ HandlerApart)'
  <1> USE Apart DEF CleanInv, TypeOK, Goto, OldIsLog, HandlerApart
  <1>1. CASE SaveOld(r)
    BY <1>1 DEF SaveOld
  <1>2. CASE OpenStderr(r)
    BY <1>2 DEF OpenStderr
  <1>3. CASE OpenFile(r)
    BY <1>3, TextShape DEF OpenFile
  <1>4. CASE OpenFails(r)
    BY <1>4 DEF OpenFails, Return, Logged
  <1>5. CASE Assign(r)
    BY <1>5 DEF Assign
  <1>6. CASE CloseOld(r)
    BY <1>6 DEF CloseOld, Return, Fclose
  <1> QED BY <1>1, <1>2, <1>3, <1>4, <1>5, <1>6 DEF Rotate

\* equus_log_set_path and the path.
LEMMA SetPathPath ==
  ASSUME CleanInv, clean', \/ SetPath \/ LeaveFile \/ ToStderr \/ CloseFile
         \/ StayStderr \/ NewPath \/ FreeOld
  PROVE  PathKnown'
  <1> USE Apart DEF CleanInv, TypeOK, Goto, PathKnown
  <1>1. CASE SetPath
    <2>1. arg' = Minus => path = Null
      BY <1>1, Zenon DEF SetPath
    <2> QED BY <1>1, <2>1 DEF SetPath
  <1>2. CASE LeaveFile
    BY <1>2 DEF LeaveFile
  <1>3. CASE ToStderr
    BY <1>3 DEF ToStderr
  <1>4. CASE CloseFile
    BY <1>4 DEF CloseFile, Fclose
  <1>5. CASE StayStderr
    BY <1>5 DEF StayStderr
  <1>6. CASE NewPath
    BY <1>6 DEF NewPath
  <1>7. CASE FreeOld
    BY <1>7 DEF FreeOld, FreeString
  <1> QED BY <1>1, <1>2, <1>3, <1>4, <1>5, <1>6, <1>7

\* equus_log_rotate and the path.
LEMMA RotatePath ==
  ASSUME CleanInv, NEW r \in Runs, Rotate(r)
  PROVE  PathKnown'
  <1> USE Apart DEF CleanInv, TypeOK, Goto, PathKnown
  <1>1. CASE SaveOld(r)
    BY <1>1 DEF SaveOld
  <1>2. CASE OpenStderr(r)
    BY <1>2 DEF OpenStderr
  <1>3. CASE OpenFile(r)
    BY <1>3, TextShape DEF OpenFile
  <1>4. CASE OpenFails(r)
    BY <1>4 DEF OpenFails, Return, Logged
  <1>5. CASE Assign(r)
    BY <1>5 DEF Assign
  <1>6. CASE CloseOld(r)
    BY <1>6 DEF CloseOld, Return, Fclose
  <1> QED BY <1>1, <1>2, <1>3, <1>4, <1>5, <1>6 DEF Rotate

\* equus_log_set_path and what was opened last.
LEMMA SetPathKnown ==
  ASSUME CleanInv, \/ SetPath \/ LeaveFile \/ ToStderr \/ CloseFile
         \/ StayStderr \/ NewPath \/ FreeOld
  PROVE  LogKnown'
  <1> USE Apart DEF CleanInv, TypeOK, Goto, LogKnown, OpenedWith, PathKnown, FilesKnown,
                    OldIsLog, HandlerApart, Extra
  <1>1. CASE SetPath
    BY <1>1 DEF SetPath
  <1>2. CASE LeaveFile
    BY <1>2 DEF LeaveFile
  <1>3. CASE ToStderr
    BY <1>3 DEF ToStderr
  <1>4. CASE CloseFile
    BY <1>4 DEF CloseFile, Fclose
  <1>5. CASE StayStderr
    BY <1>5 DEF StayStderr
  <1>6. CASE NewPath
    BY <1>6 DEF NewPath
  <1>7. CASE FreeOld
    BY <1>7 DEF FreeOld, FreeString
  <1> QED BY <1>1, <1>2, <1>3, <1>4, <1>5, <1>6, <1>7

\* equus_log_rotate and what was opened last.
LEMMA RotateKnown ==
  ASSUME CleanInv, NEW r \in Runs, Rotate(r)
  PROVE  LogKnown'
  <1> USE Apart DEF CleanInv, TypeOK, Goto, LogKnown, OpenedWith, PathKnown, FilesKnown,
                    OldIsLog, HandlerApart, Extra
  <1>1. CASE SaveOld(r)
    BY <1>1 DEF SaveOld
  <1>2. CASE OpenStderr(r)
    BY <1>2 DEF OpenStderr
  <1>3. CASE OpenFile(r)
    <2>1. PICK a \in Files : /\ file[a] = Free
                             /\ file' = [file EXCEPT ![a] = string[path]]
                             /\ nxt' = [nxt EXCEPT ![r] = a]
      BY <1>3 DEF OpenFile, Text
    <2>2. OpenedWith(nxt[r])'
      BY <1>3, <2>1 DEF OpenFile
    <2>3. pc'[r] = "assign" /\ \A q \in Runs \ {r} : pc'[q] # "assign"
      BY <1>3 DEF OpenFile
    <2>4. ~(pc'["main"] \in {"idle", "close"} /\ pc'["hup"] # "assign")
      BY <2>3
    <2> QED BY <2>2, <2>3, <2>4
  <1>4. CASE OpenFails(r)
    BY <1>4 DEF OpenFails, Return, Logged
  <1>5. CASE Assign(r)
    BY <1>5 DEF Assign
  <1>6. CASE CloseOld(r)
    BY <1>6 DEF CloseOld, Return, Fclose
  <1> QED BY <1>1, <1>2, <1>3, <1>4, <1>5, <1>6 DEF Rotate

LEMMA CleanStep ==
  ASSUME LogInv, [Next]_vars, clean'
  PROVE  FilesKnown' /\ OldIsLog' /\ HandlerApart' /\ PathKnown' /\ LogKnown'
  <1>0. CleanInv
    BY CleanBefore
  <1>1. CASE SetPath \/ LeaveFile \/ ToStderr \/ CloseFile \/ StayStderr \/ NewPath \/ FreeOld
    BY <1>0, <1>1, SetPathFiles, SetPathOld, SetPathPath, SetPathKnown
  <1>2. ASSUME NEW r \in Runs, Rotate(r)
        PROVE  FilesKnown' /\ OldIsLog' /\ HandlerApart' /\ PathKnown' /\ LogKnown'
    BY <1>0, <1>2, RotateFiles, RotateOld, RotatePath, RotateKnown
  <1>3. CASE Hup
    <2>1. pc["main"] \notin {"open", "assign", "tostderr"}
      BY <1>3, Zenon DEF Hup
    <2> USE <1>0, <1>3, Apart DEF CleanInv, TypeOK, Hup, Goto, lines
    <2>2. FilesKnown'
      BY DEF FilesKnown, Extra
    <2>3. OldIsLog' /\ HandlerApart'
      BY <2>1 DEF OldIsLog, HandlerApart
    <2>4. PathKnown'
      BY DEF PathKnown
    <2>5. LogKnown'
      BY DEF LogKnown, OpenedWith
    <2> QED BY <2>2, <2>3, <2>4, <2>5
  <1>4. ASSUME fp' = Stderr, fp \notin Files,
               UNCHANGED <<path, file, string, pc, old, nxt, oldstr, arg, opened>>
        PROVE  FilesKnown' /\ OldIsLog' /\ HandlerApart' /\ PathKnown' /\ LogKnown'
    <2> USE <1>0, <1>4, Apart DEF CleanInv, TypeOK
    <2>1. FilesKnown'
      BY DEF FilesKnown, Extra
    <2>2. OldIsLog' /\ HandlerApart'
      BY DEF OldIsLog, HandlerApart
    <2>3. PathKnown'
      BY DEF PathKnown
    <2>4. LogKnown'
      BY DEF LogKnown, OpenedWith
    <2> QED BY <2>1, <2>2, <2>3, <2>4
  <1>5. CASE Log
    BY <1>4, <1>5, Apart DEF Log
  <1>6. ASSUME NEW l \in Lanes,
               LineBegins(l) \/ LineSetsStderr(l) \/ LineLoads(l) \/ LineWrites(l)
        PROVE  FilesKnown' /\ OldIsLog' /\ HandlerApart' /\ PathKnown' /\ LogKnown'
    <2>1. CASE LineSetsStderr(l)
      <3>1. fp \notin Files
        BY <2>1, Zenon DEF LineSetsStderr
      <3> QED BY <3>1, <2>1, <1>4 DEF LineSetsStderr
    <2>2. CASE LineBegins(l) \/ LineLoads(l) \/ LineWrites(l)
      BY <2>2, <1>0, Bystanders DEF LineBegins, LineLoads, LineWrites
    <2> QED BY <1>6, <2>1, <2>2
  <1>7. CASE UNCHANGED vars
    BY <1>7, <1>0, Bystanders DEF vars
  <1> QED BY <1>1, <1>2, <1>3, <1>5, <1>6, <1>7 DEF Next

\* LogInv holds in every state of every behaviour.
THEOREM LogInvariant == Spec => []LogInv
  <1>1. LogInv /\ [Next]_vars => LogInv'
    <2> SUFFICES ASSUME LogInv, [Next]_vars PROVE LogInv'
      OBVIOUS
    <2>1. TypeOK' /\ HeldIsLog'
      BY TypeStep, HeldStep DEF LogInv
    <2>2. ASSUME clean'
          PROVE  FilesKnown' /\ OldIsLog' /\ HandlerApart' /\ PathKnown' /\ LogKnown'
      BY <2>2, CleanStep
    <2> QED BY <2>1, <2>2 DEF LogInv
  <1> QED BY InitLog, <1>1, PTL DEF Spec

\* Type correctness: the log is never a NULL that a failed fopen has returned.
THEOREM LogTypes == Spec => []TypeOK
  <1>1. LogInv => TypeOK
    BY DEF LogInv
  <1> QED BY LogInvariant, <1>1, PTL

\* Between two runs of set_path and rotate the log's FILE is the one that is open.
THEOREM OneFileOpen == Spec => []OneLogFile
  <1>1. LogInv => OneLogFile
    <2> SUFFICES ASSUME LogInv, clean, Quiet PROVE Open = {fp} \cap Files
      BY DEF OneLogFile
    <2>1. FilesKnown
      BY DEF LogInv
    <2>2. Extra("main") = Null /\ Extra("hup") = Null
      BY Apart DEF Quiet, Extra
    <2> QED BY <2>1, <2>2, Apart DEF FilesKnown, Open
  <1> QED BY LogInvariant, <1>1, PTL

\* The log is in the file that equus_log_set_path was given last, unless fopen
\* has failed.
THEOREM LogIsWhereNamed == Spec => []SamePath
  <1>1. LogInv => SamePath
    <2> SUFFICES ASSUME LogInv, clean, Quiet, opened
                 PROVE  \/ path = Null /\ fp \notin Files
                        \/ path # Null /\ string[path] = arg /\ fp \in Files /\ file[fp] = arg
      BY DEF SamePath
    <2>1. PathKnown /\ LogKnown
      BY DEF LogInv
    <2>2. pc["main"] = "idle" /\ pc["hup"] = "idle"
      BY Apart DEF Quiet
    <2>3. OpenedWith(fp)
      BY <2>1, <2>2, Zenon DEF LogKnown
    <2> QED BY <2>1, <2>2, <2>3 DEF PathKnown, OpenedWith
  <1> QED BY LogInvariant, <1>1, PTL

\* equus_log_buf writes to a FILE that is open, unless the log was replaced
\* between its reading of g_equus_log_fp and the write.
THEOREM WritesAreLive == Spec => []WriteIsLive
  <1>1. LogInv => WriteIsLive
    BY Apart DEF LogInv, WriteIsLive, HeldIsLog, FilesKnown
  <1> QED BY LogInvariant, <1>1, PTL
=============================================================================
