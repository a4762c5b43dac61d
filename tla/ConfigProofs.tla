---------------------------- MODULE ConfigProofs ----------------------------
(***************************************************************************)
(* Theorems about Config, for every set of command lines, files and        *)
(* threads and any number of structures.                                   *)
(***************************************************************************)
EXTENDS Config, WellFoundedInduction, TLAPS

\* The main thread in equus_util_init: nobody else is there yet.
Starting ==
  pc = "init" =>
    /\ runs = 0 /\ usr1 = "idle" /\ gconf = Null
    /\ \A l \in Lanes : ptr[l] = Null
    /\ \A c \in Confs : heap[c] = Free

\* What the C side makes of what it has read.
Content(file) == IF file = Missing THEN Unset ELSE Url(file)

\* the structures that are in use
Used == IF usr1 \in {"exchange", "free"} THEN {gconf, other} ELSE {gconf} \ {Null}

\* The structure that holds what was read last.
Newest == IF usr1 = "exchange" THEN other ELSE gconf

Structures ==
  /\ \A c \in Confs : heap[c] # Free <=> c \in Used
  /\ usr1 = "fill" => gconf # Null /\ heap[gconf] = Filling
  /\ usr1 = "exchange" => heap[gconf] # Unset
  /\ usr1 \in {"exchange", "free"} => gconf # other
  /\ gconf # Null /\ usr1 # "fill" => heap[Newest] = Content(cread[2])
  /\ gconf # Null /\ usr1 = "idle" /\ pc \notin Over => cread[2] # Missing

\* A thread that has found a structure which was not exchanged since holds the
\* present one.
TakersHold == \A l \in Takers \ late : ptr[l] = gconf

\* Without a help switch the first file is read before any other thread runs.
NoHelp ==
  ~HelpPresent(argv) =>
    /\ pc # "init" => gconf # Null
    /\ usr1 # "fill"
    /\ \A c \in Confs : heap[c] # Filling

ConfInv == TypeOK /\ Starting /\ Structures /\ TakersHold /\ NoHelp

-----------------------------------------------------------------------------
\* What conf_parse and equus_conf_init make of a file is a URL.
LEMMA UrlShape ==
  ASSUME NEW lines
  PROVE  Url(lines) \notin {Free, Filling, Unset}
  BY DEF Url, Free, Filling, Unset, Bootstrap

LEMMA LoadedShape == Loaded = Content(ConfFile) /\ Loaded \notin {Free, Filling}
  BY UrlShape DEF Loaded, Content, Free, Filling, Unset

LEMMA InitConf == Init => ConfInv
  <1> SUFFICES ASSUME Init PROVE ConfInv
    OBVIOUS
  <1>1. disk \in [Places -> Contents \cup {Missing}]
    <2>1. PICK files \in [Named -> Contents \cup {Missing}] :
            disk = [p \in Places |-> IF p \in Named THEN files[p] ELSE Missing]
      BY DEF Init
    <2> QED BY <2>1
  <1>2. TypeOK
    <2>1. restart \in BOOLEAN /\ edited \in BOOLEAN /\ nolog \in BOOLEAN
      BY DEF Init
    <2> QED BY <1>1, <2>1, BoundAssumption DEF Init, TypeOK, Confs, Null, Over, Takers
  <1>3. Starting /\ TakersHold /\ NoHelp
    BY DEF Init, Starting, TakersHold, NoHelp, Takers, Free, Filling
  <1>4. Structures
    BY DEF Init, Structures, Used, Newest
  <1> QED BY <1>2, <1>3, <1>4 DEF ConfInv

LEMMA StepConf == ConfInv /\ [Next]_vars => ConfInv'
  <1> SUFFICES ASSUME ConfInv, [Next]_vars PROVE ConfInv'
    OBVIOUS
  <1> USE DEF ConfInv, TypeOK, Starting, Structures, TakersHold, NoHelp, Used, Newest,
              Takers, Goto, Handler, Over, setup, process, Null, Confs
  <1>1. CASE UNCHANGED vars
    BY <1>1 DEF vars
  <1>2. CASE SkipConfig
    BY <1>2 DEF SkipConfig
  <1>3. CASE FirstConfig
    <2>1. PICK c \in Confs : gconf' = c /\ heap' = [heap EXCEPT ![c] = Loaded]
      BY <1>3 DEF FirstConfig
    <2>2. cread'[2] = ConfFile
      BY <1>3 DEF FirstConfig, ReadByC
    <2>3. TypeOK' /\ Starting'
      BY <1>3, <2>1 DEF FirstConfig, ReadByC
    <2>4. Structures'
      BY <1>3, <2>1, <2>2, LoadedShape DEF FirstConfig, Content
    <2>5. TakersHold'
      BY <1>3, <2>1 DEF FirstConfig
    <2>6. NoHelp'
      <3>1. \A d \in Confs : heap'[d] # Filling
        BY <1>3, <2>1, LoadedShape DEF FirstConfig, Free, Filling
      <3> QED BY <1>3, <2>1, <3>1 DEF FirstConfig
    <2> QED BY <2>3, <2>4, <2>5, <2>6
  <1>4. CASE Loop
    <2>1. restart' \in BOOLEAN /\ edited' \in BOOLEAN /\ nolog' \in BOOLEAN
      BY <1>4 DEF Loop
    <2>2. TypeOK' /\ Starting'
      BY <1>4, <2>1 DEF Loop
    <2>3. Structures' /\ TakersHold' /\ NoHelp'
      BY <1>4 DEF Loop
    <2> QED BY <2>2, <2>3
  <1>5. CASE LoadDefaults \/ NoDefaults \/ LogFails \/ DefaultsRaise
    <2>1. nolog' \in BOOLEAN
      BY <1>5, Zenon DEF LoadDefaults, NoDefaults, LogFails, DefaultsRaise
    <2>2. /\ pc = "config" /\ pc' \in {"detach", "close", "exit"} /\ usr1 = "idle"
          /\ UNCHANGED <<process, disk, restart, gconf, heap, usr1, other, ptr, late, cread,
                         edited>>
      BY <1>5 DEF LoadDefaults, NoDefaults, LogFails, DefaultsRaise
    <2> QED BY <2>1, <2>2
  <1>6. CASE Detach
    BY <1>6 DEF Detach
  <1>7. CASE DetachFails
    BY <1>7 DEF DetachFails
  <1>8. CASE Restart
    BY <1>8 DEF Restart
  <1>9. CASE LeaveRun
    BY <1>9 DEF LeaveRun
  <1>10. CASE Close
    BY <1>10 DEF Close
  <1>11. CASE ReadNew
    <2>1. PICK c \in Confs : heap[c] = Free /\ heap' = [heap EXCEPT ![c] = Loaded] /\ other' = c
      BY <1>11 DEF ReadNew
    <2>2. cread'[2] = ConfFile
      BY <1>11 DEF ReadNew, ReadByC
    <2>3. TypeOK' /\ Starting'
      <3>1. restart' \in BOOLEAN /\ edited' \in BOOLEAN /\ nolog' \in BOOLEAN
        BY <1>11 DEF ReadNew, ReadByC
      <3> QED BY <1>11, <2>1, <3>1 DEF ReadNew
    <2>4. Structures'
      <3>1. heap[gconf] = Url(cread[2])
        BY <1>11 DEF ReadNew, Content
      <3>2. heap[gconf] # Unset /\ heap[gconf] # Free
        BY <3>1, UrlShape
      <3>3. gconf \in Confs /\ gconf # c
        BY <1>11, <2>1, <3>2 DEF ReadNew
      <3>4. heap'[gconf] # Unset
        BY <2>1, <3>2, <3>3
      <3>5. heap'[c] = Content(cread'[2]) /\ heap'[c] # Free
        BY <2>1, <2>2, LoadedShape
      <3>6. \A d \in Confs : heap'[d] # Free <=> d \in {gconf, c}
        BY <1>11, <2>1, <3>2, <3>3, <3>5 DEF ReadNew
      <3> QED BY <1>11, <2>1, <3>3, <3>4, <3>5, <3>6 DEF ReadNew
    <2>5. TakersHold' /\ NoHelp'
      BY <1>11, <2>1, LoadedShape DEF ReadNew
    <2> QED BY <2>3, <2>4, <2>5
  <1>12. CASE Exchange
    BY <1>12 DEF Exchange
  <1>13. CASE PublishEmpty
    BY <1>13 DEF PublishEmpty, Filling, Free
  <1>14. CASE Fill
    BY <1>14, LoadedShape DEF Fill, ReadByC
  <1>15. CASE FreeOld
    BY <1>15 DEF FreeOld, Free, Filling
  <1>16. CASE Decide
    BY <1>16, UrlShape DEF Decide, Content
  <1>17. ASSUME NEW l \in Lanes, TakeUrl(l) PROVE ConfInv'
    BY <1>17 DEF TakeUrl
  <1>18. ASSUME NEW l \in Lanes, CopyUrl(l) PROVE ConfInv'
    BY <1>18 DEF CopyUrl
  <1>19. CASE Edit
    BY <1>19 DEF Edit, Named
  <1>20. CASE Ended
    BY <1>20 DEF Ended, vars
  <1> QED
    BY <1>1, <1>2, <1>3, <1>4, <1>5, <1>6, <1>7, <1>8, <1>9, <1>10, <1>11, <1>12,
       <1>13, <1>14, <1>15, <1>16, <1>17, <1>18, <1>19, <1>20 DEF Next

\* The invariant of the structures and of who holds them.
THEOREM ConfInvariant == Spec => []ConfInv
  BY InitConf, StepConf, PTL DEF Spec

\* Every state is well typed: the handler's pointers are there when it uses them.
THEOREM ConfigTypes == Spec => []TypeOK
  <1>1. ConfInv => TypeOK
    BY DEF ConfInv
  <1> QED BY <1>1, ConfInvariant, PTL

\* There is one structure, with what equus_conf_init has read last, however often
\* SIGUSR1 has replaced it.
THEOREM OneStructure == Spec => []OneConf
  <1>1. ConfInv => OneConf
    BY DEF ConfInv, OneConf, Structures, TypeOK, Used, Newest, Content, Over, Confs, Null
  <1> QED BY <1>1, ConfInvariant, PTL

\* A thread in equus_url never finds a structure that is freed or, without a help
\* switch, one that is still being filled, and one without a URL only while the
\* handler is about to end the process: only an exchange after it has found one can
\* take it away.
THEOREM UrlLive == Spec => []UrlIsLive
  <1>1. ASSUME ConfInv PROVE UrlIsLive
    <2> SUFFICES ASSUME pc \notin Over, NEW l \in Takers \ late
                 PROVE  /\ heap[ptr[l]] # Free
                        /\ heap[ptr[l]] = Filling => HelpPresent(argv)
                        /\ heap[ptr[l]] = Unset => usr1 \in {"free", "decide"}
      BY DEF UrlIsLive
    <2>1. ptr[l] = gconf /\ gconf \in Confs /\ gconf # Null
      BY <1>1 DEF ConfInv, TakersHold, TypeOK, Takers
    <2>2. heap[gconf] # Free
      BY <1>1, <2>1 DEF ConfInv, Structures, Used
    <2>3. heap[gconf] = Filling => HelpPresent(argv)
      BY <1>1, <2>1 DEF ConfInv, NoHelp
    <2>4. usr1 = "idle" => heap[gconf] # Unset
      BY <1>1, <2>1, UrlShape DEF ConfInv, Structures, Newest, Content
    <2>5. usr1 = "fill" => heap[gconf] # Unset
      BY <1>1 DEF ConfInv, Structures, Filling, Unset
    <2>6. usr1 \in {"idle", "exchange", "fill", "free", "decide"}
      BY <1>1 DEF ConfInv, TypeOK
    <2> QED BY <1>1, <2>1, <2>2, <2>3, <2>4, <2>5, <2>6 DEF ConfInv, Structures
  <1> QED BY <1>1, ConfInvariant, PTL

-----------------------------------------------------------------------------
(******************** the two readings of the command line *****************)

\* Natural numbers are well-founded: a set of them has a least element ...
LEMMA Least ==
  ASSUME NEW T \in SUBSET Nat, T # {}
  PROVE  \E m \in T : \A k \in T : m <= k
  <1>1. PICK m \in T : \A k \in T : ~(<<k, m>> \in OpToRel(<, Nat))
    BY NatLessThanWellFounded, WFMin
  <1>2. ASSUME NEW k \in T PROVE m <= k
    <2>1. ~(<<k, m>> \in OpToRel(<, Nat))
      BY <1>1
    <2>2. ~(k < m)
      BY <2>1 DEF OpToRel
    <2> QED BY <2>2
  <1> QED BY <1>2

\* ... so that one with 0 and with the successors of its elements is all of them.
LEMMA Upwards ==
  ASSUME NEW n \in Nat, NEW T \in SUBSET (0..n), 0 \in T,
         \A i \in 0..(n - 1) : i \in T => i + 1 \in T
  PROVE  \A i \in 0..n : i \in T
  <1> SUFFICES ASSUME (0..n) \ T # {} PROVE FALSE
    OBVIOUS
  <1>1. (0..n) \ T \in SUBSET Nat
    OBVIOUS
  <1>2. PICK m \in (0..n) \ T : \A k \in (0..n) \ T : m <= k
    BY <1>1, Least
  <1>3. m - 1 \in 0..(n - 1) /\ m - 1 \in T
    BY <1>2
  <1> QED BY <1>2, <1>3

\* g is what process_argv makes of the first m words.
Scans(words, m, g) ==
  g = [i \in 0..m |-> IF i = 0 THEN Fresh ELSE ArgvStep(words, g[i - 1], i)]

\* The recursion of process_argv is well defined.
LEMMA ScanDefined ==
  ASSUME NEW words \in Seq(Words)
  PROVE  Scans(words, Len(words), ArgvScan(words))
  <1> DEFINE n == Len(words)
             T == {m \in 0..n : \E g : Scans(words, m, g)}
  <1>1. 0 \in T
    <2>1. Scans(words, 0, [i \in 0..0 |-> Fresh])
      BY DEF Scans
    <2> QED BY <2>1
  <1>2. ASSUME NEW m \in 0..(n - 1), m \in T PROVE m + 1 \in T
    <2>1. PICK g : Scans(words, m, g)
      BY <1>2
    <2> DEFINE h == [i \in 0..(m + 1) |-> IF i = m + 1 THEN ArgvStep(words, g[m], m + 1) ELSE g[i]]
    <2>2. ASSUME NEW i \in 0..(m + 1)
          PROVE  h[i] = IF i = 0 THEN Fresh ELSE ArgvStep(words, h[i - 1], i)
      <3>1. CASE i = m + 1
        <4>1. h[i - 1] = g[m] /\ h[i] = ArgvStep(words, g[m], m + 1) /\ i # 0
          BY <3>1
        <4> HIDE DEF h
        <4> QED BY <3>1, <4>1
      <3>2. CASE i # m + 1
        <4>1. i \in 0..m /\ h[i] = g[i]
          BY <3>2
        <4>2. g[i] = IF i = 0 THEN Fresh ELSE ArgvStep(words, g[i - 1], i)
          BY <2>1, <4>1 DEF Scans
        <4>3. i # 0 => h[i - 1] = g[i - 1]
          BY <3>2, <4>1
        <4> HIDE DEF h
        <4> QED BY <4>1, <4>2, <4>3
      <3> QED BY <3>1, <3>2
    <2>3. Scans(words, m + 1, h)
      BY <2>2 DEF Scans
    <2> HIDE DEF h
    <2> QED BY <2>3
  <1>3. n \in Nat /\ n \in 0..n
    OBVIOUS
  <1> HIDE DEF T
  <1>4. T \in SUBSET (0..n)
    BY DEF T
  <1>5. n \in T
    BY <1>1, <1>2, <1>3, <1>4, Upwards
  <1>6. \E g : Scans(words, n, g)
    BY <1>5 DEF T
  <1>7. ArgvScan(words) = CHOOSE g : Scans(words, n, g)
    BY DEF ArgvScan, Scans, Fresh
  <1> QED BY <1>6, <1>7

\* What process_argv knows after i words of a plain command line: whether the
\* next one is an operand, and the word after the -c.
ReadSoFar(words, i, s) ==
  /\ s.skip => i >= 1 /\ words[i] \in WithOperand
  /\ \/ \E j \in 1..i : words[j] = "-c" /\ s.config_file = GetArgv(words, j + 1)
     \/ (\A j \in 1..i : words[j] # "-c") /\ s.config_file = DefaultPath

LEMMA ScanPlain ==
  ASSUME NEW words \in Seq(Words), Plain(words), ProcessArgv(words).ok
  PROVE  ReadSoFar(words, Len(words), ProcessArgv(words))
  <1> DEFINE n == Len(words)
             f == ArgvScan(words)
             T == {i \in 0..n : f[i].ok => ReadSoFar(words, i, f[i])}
  <1>1. /\ f[0] = Fresh
        /\ \A i \in 0..(n - 1) : f[i + 1] = ArgvStep(words, f[i], i + 1)
    <2>1. Scans(words, n, f)
      BY ScanDefined
    <2> HIDE DEF f
    <2>2. 0 \in 0..n /\ \A i \in 0..(n - 1) : i + 1 \in 0..n /\ i + 1 # 0 /\ (i + 1) - 1 = i
      OBVIOUS
    <2> QED BY <2>1, <2>2 DEF Scans
  <1> HIDE DEF f
  <1>2. 0 \in T
    <2>1. ReadSoFar(words, 0, f[0])
      BY <1>1 DEF Fresh, ReadSoFar
    <2> QED BY <2>1
  <1>3. ASSUME NEW i \in 0..(n - 1), i \in T PROVE i + 1 \in T
    <2> SUFFICES ASSUME f[i + 1].ok PROVE ReadSoFar(words, i + 1, f[i + 1])
      OBVIOUS
    <2>1. f[i + 1] = ArgvStep(words, f[i], i + 1) /\ i + 1 \in 1..n /\ i \in 0..n
      BY <1>1
    <2>2. f[i].ok
      BY <2>1 DEF ArgvStep
    <2>3. ReadSoFar(words, i, f[i])
      BY <1>3, <2>2
    <2>4. CASE f[i].skip
      <3>1. f[i + 1].config_file = f[i].config_file /\ ~f[i + 1].skip
        BY <2>1, <2>2, <2>4 DEF ArgvStep
      <3>2. i >= 1 /\ words[i] \in WithOperand
        BY <2>3, <2>4 DEF ReadSoFar
      <3>3. words[i + 1] # "-c"
        BY <2>1, <3>2 DEF Plain
      <3> QED BY <2>3, <3>1, <3>3 DEF ReadSoFar
    <2>5. CASE ~f[i].skip
      <3>1. /\ f[i + 1].skip => words[i + 1] \in WithOperand
            /\ f[i + 1].config_file = IF words[i + 1] = "-c" THEN GetArgv(words, (i + 1) + 1)
                                      ELSE f[i].config_file
        <4> DEFINE operand(option, value) ==
                     IF words[i + 1] = option THEN GetArgv(words, (i + 1) + 1) ELSE value
                   ok == words[i + 1] \in WithOperand \cup {"-d", "--noservice"}
                   skip == words[i + 1] \in WithOperand
                   deamonize == f[i].deamonize \/ words[i + 1] = "-d"
                   file == operand("-c", f[i].config_file)
                   log == operand("-l", f[i].log_file)
                   level == operand("--loglevel", f[i].log_level)
                   pid == operand("-p", f[i].pid_file)
        <4>1. f[i + 1] = [ok |-> ok, skip |-> skip, deamonize |-> deamonize,
                          config_file |-> file, log_file |-> log, log_level |-> level,
                          pid_file |-> pid]
          BY <2>1, <2>2, <2>5, Zenon DEF ArgvStep
        <4> HIDE DEF ok, skip, deamonize, file, log, level, pid
        <4>2. f[i + 1].skip = skip /\ f[i + 1].config_file = file
          BY <4>1
        <4> QED BY <4>2, Zenon DEF skip, file
      <3>2. CASE words[i + 1] = "-c"
        BY <2>1, <3>1, <3>2 DEF ReadSoFar
      <3>3. CASE words[i + 1] # "-c"
        BY <2>1, <2>3, <3>1, <3>3 DEF ReadSoFar
      <3> QED BY <3>2, <3>3
    <2> QED BY <2>4, <2>5
  <1> HIDE DEF T
  <1>4. T \in SUBSET (0..n) /\ n \in Nat /\ n \in 0..n
    BY DEF T
  <1>5. n \in T
    BY <1>2, <1>3, <1>4, Upwards
  <1> QED BY <1>5 DEF T, ProcessArgv, f

\* The C side picks the file that is meant, whatever else is on the command line ...
LEMMA PickedIsMeant ==
  ASSUME argv \in Argvs
  PROVE  Picked[argv] = Meant
  <1>1. argv \in Seq(Words) /\ NoWord \notin Words
    BY ArgvAssumption
  <1> DEFINE hits == {i \in 1..Len(argv) : argv[i] = "-c" /\ GetArgv(argv, i + 1) # NoWord}
             cs == {i \in 1..(Len(argv) - 1) : argv[i] = "-c"}
  <1>2. hits = cs
    <2>1. \A i \in 1..Len(argv) : GetArgv(argv, i + 1) # NoWord <=> i \in 1..(Len(argv) - 1)
      BY <1>1 DEF GetArgv
    <2> QED BY <1>1, <2>1
  <1>3. Picked[argv] = IF hits = {} THEN DefaultPath ELSE GetArgv(argv, Min(hits) + 1)
    BY DEF Picked, ConfigPath
  <1>4. Meant = IF cs = {} THEN DefaultPath ELSE argv[Min(cs) + 1]
    BY DEF Meant
  <1>5. cs # {} => GetArgv(argv, Min(cs) + 1) = argv[Min(cs) + 1]
    <2> SUFFICES ASSUME cs # {} PROVE GetArgv(argv, Min(cs) + 1) = argv[Min(cs) + 1]
      OBVIOUS
    <2>1. cs \in SUBSET Nat
      OBVIOUS
    <2>2. \E m \in cs : \A k \in cs : m <= k
      BY <2>1, Least
    <2> HIDE DEF cs
    <2>3. Min(cs) \in cs
      BY <2>2 DEF Min
    <2> USE DEF cs
    <2>4. Min(cs) + 1 <= Len(argv)
      BY <1>1, <2>3
    <2> QED BY <2>4 DEF GetArgv
  <1> QED BY <1>2, <1>3, <1>4, <1>5

\* ... and reads it, on Windows if there is no -c.
LEMMA ConfPathIsMeant ==
  ASSUME argv \in Argvs, Alike
  PROVE  ConfPath = Meant
  <1>1. CASE platform = "windows"
    <2>1. \A i \in 1..Len(argv) : argv[i] # "-c"
      BY <1>1 DEF Alike
    <2>2. Len(argv) \in Nat
      BY ArgvAssumption
    <2>3. {i \in 1..(Len(argv) - 1) : argv[i] = "-c"} = {}
      BY <2>1, <2>2
    <2> QED BY <1>1, <2>3 DEF ConfPath, Meant
  <1>2. CASE platform # "windows"
    BY <1>2, PickedIsMeant DEF ConfPath
  <1> QED BY <1>1, <1>2

\* So does the Lua side if the command line is plain and it takes a file at all.
LEMMA ParsedIsMeant ==
  ASSUME argv \in Argvs, Plain(argv), Parsed[argv].ok, Parsed[argv].config_file # NoWord
  PROVE  Parsed[argv].config_file = Meant
  <1>1. argv \in Seq(Words) /\ Parsed[argv] = ProcessArgv(argv)
    BY ArgvAssumption DEF Parsed
  <1>2. ReadSoFar(argv, Len(argv), Parsed[argv])
    BY <1>1, ScanPlain
  <1> DEFINE cs == {i \in 1..(Len(argv) - 1) : argv[i] = "-c"}
  <1>3. Meant = IF cs = {} THEN DefaultPath ELSE argv[Min(cs) + 1]
    BY DEF Meant
  <1>4. CASE \A j \in 1..Len(argv) : argv[j] # "-c"
    <2>1. cs = {}
      BY <1>1, <1>4
    <2>2. Parsed[argv].config_file = DefaultPath
      BY <1>2, <1>4 DEF ReadSoFar
    <2> QED BY <1>3, <2>1, <2>2
  <1>5. CASE \E j \in 1..Len(argv) : argv[j] = "-c"
    <2>1. PICK j \in 1..Len(argv) :
            argv[j] = "-c" /\ Parsed[argv].config_file = GetArgv(argv, j + 1)
      BY <1>2, <1>5 DEF ReadSoFar
    <2>2. j + 1 <= Len(argv) /\ Parsed[argv].config_file = argv[j + 1]
      BY <2>1 DEF GetArgv
    <2>3. \A i \in 1..Len(argv) : argv[i] = "-c" => i = j
      BY <2>1 DEF Plain
    <2>4. cs = {j}
      BY <1>1, <2>1, <2>2, <2>3
    <2> HIDE DEF cs
    <2>5. Min(cs) = j
      BY <2>4 DEF Min
    <2> QED BY <1>3, <2>2, <2>4, <2>5
  <1> QED BY <1>4, <1>5

-----------------------------------------------------------------------------
(************************* both sides stay in step *************************)

\* A command line both sides read alike, with a file that does not move.
Settled == Alike /\ Steady

\* what is in that file now
HomeFile == IF NoEnv \/ Meant \notin Paths THEN Missing ELSE disk[Home]

\* the Lua side, too, looks for the file
Takes == Parsed[argv].ok /\ Parsed[argv].config_file # NoWord

\* it was refused
Refused == lread[1] = Home /\ (Faulty(lread[2]) \/ nolog)

\* no VM is there
Outside == {"init", "exit", "failed"}

InStep ==
  /\ ~Parsed[argv].deamonize => cwd = "start"
  /\ Settled /\ pc \notin Outside => ~NoEnv
  /\ Settled /\ pc # "init" => cread[1] = Home /\ cread = <<cread[1], cread[2]>>
  /\ Settled /\ pc # "init" /\ ~edited => cread[2] = HomeFile
  /\ Settled /\ pc \in {"detach", "running"} /\ usr1 = "idle" /\ ~restart /\ ~edited =>
       lread = cread
  /\ Settled /\ Takes /\ pc = "close" /\ ~restart => Refused
  /\ Settled /\ Takes /\ pc = "exit" => cread = <<Home, Missing>> \/ Refused

\* None of this depends on anything but the command line and the platform.
LEMMA HomeKept ==
  ASSUME UNCHANGED setup
  PROVE  /\ Meant' = Meant /\ Home' = Home /\ Parsed[argv]' = Parsed[argv]
         /\ Settled' <=> Settled
         /\ Takes' <=> Takes
         /\ NoEnv' <=> NoEnv
         /\ disk' = disk => HomeFile' = HomeFile
         /\ UNCHANGED <<lread, nolog>> => (Refused' <=> Refused)
  <1>1. Meant' = Meant /\ Parsed[argv]' = Parsed[argv]
    BY DEF setup, Meant
  <1>2. Home' = Home
    BY <1>1 DEF Home
  <1>3. Settled' <=> Settled
    BY <1>1 DEF Settled, Alike, Steady, setup
  <1>4. Takes' <=> Takes
    BY <1>1 DEF Takes
  <1>5. NoEnv' <=> NoEnv
    BY DEF setup, NoEnv
  <1>6. disk' = disk => HomeFile' = HomeFile
    BY <1>1, <1>2, <1>5 DEF HomeFile
  <1>7. UNCHANGED <<lread, nolog>> => (Refused' <=> Refused)
    BY <1>1, <1>2 DEF Refused, Faulty
  <1> QED BY <1>1, <1>2, <1>3, <1>4, <1>5, <1>6, <1>7

\* Both sides find the file at its place.
LEMMA ReadsHome ==
  ASSUME InStep, Settled
  PROVE  /\ Place(Meant) = Home
         /\ ~NoEnv => File(Meant) = HomeFile
         /\ NoEnv => HomeFile = Missing
  BY DEF InStep, Settled, Steady, Place, Home, File, HomeFile

\* A step that reads no file and does not touch one.
LEMMA QuietStep ==
  ASSUME InStep, UNCHANGED <<setup, cwd, disk, cread, lread, nolog, edited>>,
         pc' # "init" => pc # "init",
         pc' \notin Outside => pc \notin Outside,
         pc' \in {"detach", "running"} => pc \in {"detach", "running"},
         pc' \in {"detach", "running"} /\ usr1' = "idle" /\ ~restart' => usr1 = "idle" /\ ~restart,
         pc' = "close" /\ ~restart' => pc = "close" /\ ~restart,
         Settled /\ Takes /\ pc' = "exit" => cread = <<Home, Missing>> \/ Refused
  PROVE  InStep'
  <1>1. /\ Home' = Home /\ HomeFile' = HomeFile /\ Parsed[argv]' = Parsed[argv]
        /\ Settled' <=> Settled
        /\ Takes' <=> Takes
        /\ NoEnv' <=> NoEnv
        /\ Refused' <=> Refused
    BY HomeKept
  <1>2. ~Parsed[argv].deamonize' => cwd' = "start"
    BY <1>1 DEF InStep
  <1>3. Settled' /\ pc' \notin Outside => ~NoEnv'
    BY <1>1 DEF InStep
  <1>4. Settled' /\ pc' # "init" => cread'[1] = Home' /\ cread' = <<cread'[1], cread'[2]>>
    BY <1>1 DEF InStep
  <1>5. Settled' /\ pc' # "init" /\ ~edited' => cread'[2] = HomeFile'
    BY <1>1 DEF InStep
  <1>6. Settled' /\ pc' \in {"detach", "running"} /\ usr1' = "idle" /\ ~restart' /\ ~edited' =>
          lread' = cread'
    BY <1>1 DEF InStep
  <1>7. Settled' /\ Takes' /\ pc' = "close" /\ ~restart' => Refused'
    BY <1>1 DEF InStep
  <1>8. Settled' /\ Takes' /\ pc' = "exit" => cread' = <<Home, Missing>>' \/ Refused'
    BY <1>1
  <1> QED BY <1>2, <1>3, <1>4, <1>5, <1>6, <1>7, <1>8 DEF InStep, Outside

\* A step in which the C side reads the file.
LEMMA ReadStep ==
  ASSUME InStep, argv \in Argvs, ReadByC, UNCHANGED <<setup, cwd, disk, lread, nolog>>,
         NoEnv => pc' \in Outside,
         pc' \in {"detach", "running"} => usr1' # "idle",
         pc' = "close" /\ ~restart' => pc = "close" /\ ~restart,
         Settled /\ Takes /\ pc' = "exit" => ConfFile = Missing
  PROVE  InStep'
  <1>1. /\ Home' = Home /\ HomeFile' = HomeFile /\ Parsed[argv]' = Parsed[argv]
        /\ Settled' <=> Settled
        /\ Takes' <=> Takes
        /\ NoEnv' <=> NoEnv
        /\ Refused' <=> Refused
    BY HomeKept
  <1>2. Settled => cread' = <<Place(Meant), ConfFile>> /\ ConfFile = HomeFile
    BY ConfPathIsMeant, ReadsHome DEF ReadByC, Settled, ConfFile
  <1>3. ~Parsed[argv].deamonize' => cwd' = "start"
    BY <1>1 DEF InStep
  <1>4. Settled' => cread' = <<Home', HomeFile'>>
    BY <1>1, <1>2, ReadsHome
  <1>5. Settled' => /\ cread'[1] = Home' /\ cread'[2] = HomeFile'
                    /\ cread' = <<cread'[1], cread'[2]>>
    BY <1>4
  <1>6. Settled' /\ Takes' /\ pc' = "close" /\ ~restart' => Refused'
    BY <1>1 DEF InStep
  <1>7. Settled' /\ Takes' /\ pc' = "exit" => cread' = <<Home, Missing>>'
    BY <1>1, <1>2, <1>4
  <1>8. Settled' /\ pc' \notin Outside => ~NoEnv'
    BY <1>1
  <1> QED BY <1>3, <1>5, <1>6, <1>7, <1>8 DEF InStep, Outside

\* load_config_defaults goes on only with a file, and stops only over a fault in it.
LEMMA VerdictHasCause ==
  ASSUME NoWord \notin Paths
  PROVE  /\ Verdict = "go" => Takes /\ ~NoEnv
         /\ Takes /\ ~NoEnv /\ Verdict # "go" => Faulty(LuaFile)
  BY DEF Verdict, Takes, Faulty, LuaFile, File

\* A step of load_config_defaults.
LEMMA LuaStep ==
  ASSUME InStep, argv \in Argvs, pc = "config", ReadByLua,
         UNCHANGED <<setup, cwd, disk, restart, usr1, cread, edited>>,
         pc' \in {"detach", "close", "exit"},
         pc' = "detach" => Verdict = "go",
         pc' # "detach" => Verdict # "go" \/ nolog'
  PROVE  InStep'
  <1>1. /\ Home' = Home /\ HomeFile' = HomeFile /\ Parsed[argv]' = Parsed[argv]
        /\ Settled' <=> Settled
        /\ Takes' <=> Takes
        /\ NoEnv' <=> NoEnv
    BY HomeKept
  <1>2. Settled => ~NoEnv
    BY DEF InStep, Outside
  <1>3. Settled /\ Takes => lread' = <<Home, HomeFile>> /\ LuaFile = HomeFile
    <2> SUFFICES ASSUME Settled, Takes PROVE lread' = <<Home, HomeFile>> /\ LuaFile = HomeFile
      OBVIOUS
    <2>1. Parsed[argv].config_file = Meant
      BY ParsedIsMeant DEF Settled, Alike, Takes
    <2> QED BY <1>2, <2>1, ReadsHome DEF ReadByLua, LuaFile, Takes
  <1>4. Settled /\ Takes /\ pc' # "detach" => Refused'
    <2> SUFFICES ASSUME Settled, Takes, pc' # "detach" PROVE Refused'
      OBVIOUS
    <2>1. lread'[1] = Home' /\ lread'[2] = LuaFile
      BY <1>1, <1>3
    <2>2. Faulty(LuaFile) \/ nolog'
      BY <1>2, VerdictHasCause, PathAssumption
    <2>3. Faulty(LuaFile) => Faulty(lread[2])'
      BY <1>1, <2>1 DEF Faulty
    <2> QED BY <2>1, <2>2, <2>3 DEF Refused
  <1>5. Settled /\ pc' = "detach" /\ ~edited => lread' = cread
    <2> SUFFICES ASSUME Settled, pc' = "detach", ~edited PROVE lread' = cread
      OBVIOUS
    <2>1. Takes
      BY VerdictHasCause, PathAssumption
    <2>2. cread = <<Home, HomeFile>>
      BY DEF InStep
    <2> QED BY <1>3, <2>1, <2>2
  <1>6. ~Parsed[argv].deamonize' => cwd' = "start"
    BY <1>1 DEF InStep
  <1>7. /\ Settled' => cread'[1] = Home' /\ cread' = <<cread'[1], cread'[2]>>
        /\ Settled' /\ ~edited' => cread'[2] = HomeFile'
        /\ Settled' => ~NoEnv'
    BY <1>1, <1>2 DEF InStep
  <1>8. /\ Settled' /\ pc' \in {"detach", "running"} /\ ~edited' => lread' = cread'
        /\ Settled' /\ Takes' /\ pc' \in {"close", "exit"} => Refused'
    BY <1>1, <1>4, <1>5
  <1> QED BY <1>6, <1>7, <1>8 DEF InStep

LEMMA StepInStep == ConfInv /\ InStep /\ [Next]_vars => InStep'
  <1> SUFFICES ASSUME ConfInv, InStep, [Next]_vars PROVE InStep'
    OBVIOUS
  <1>1. argv \in Argvs /\ TypeOK
    BY DEF ConfInv, TypeOK
  <1> USE DEF Goto, Handler, Over, process, Outside
  <1>2. CASE UNCHANGED vars \/ Ended
    <2>1. UNCHANGED vars
      BY <1>2 DEF Ended
    <2> QED BY <2>1, QuietStep DEF vars, InStep
  <1>3. CASE SkipConfig
    <2>1. ~Settled /\ ~Settled'
      BY <1>3, HomeKept DEF SkipConfig, Settled, Alike, Plain
    <2>2. ~Parsed[argv].deamonize' => cwd' = "start"
      BY <1>3, HomeKept DEF SkipConfig, InStep
    <2> QED BY <2>1, <2>2 DEF InStep
  <1>4. CASE FirstConfig
    <2>1. Loaded = Unset <=> ConfFile = Missing
      BY UrlShape DEF Loaded
    <2>2. NoEnv => ConfFile = Missing
      BY DEF ConfFile
    <2> QED BY <1>1, <1>4, <2>1, <2>2, ReadStep DEF FirstConfig
  <1>5. CASE Loop
    BY <1>5, QuietStep DEF Loop
  <1>6. CASE LoadDefaults
    BY <1>1, <1>6, LuaStep DEF LoadDefaults
  <1>7. CASE NoDefaults \/ DefaultsRaise
    BY <1>1, <1>7, LuaStep DEF NoDefaults, DefaultsRaise
  <1>8. CASE LogFails
    BY <1>1, <1>8, LuaStep DEF LogFails
  <1>9. CASE Detach
    <2>1. /\ Home' = Home /\ HomeFile' = HomeFile /\ Parsed[argv]' = Parsed[argv]
          /\ Settled' <=> Settled
          /\ NoEnv' <=> NoEnv
      BY <1>9, HomeKept DEF Detach
    <2>2. ~Parsed[argv].deamonize' => cwd' = "start"
      BY <1>9, <2>1 DEF Detach, Daemonizes, InStep
    <2>3. UNCHANGED <<restart, usr1, cread, lread, edited>> /\ pc = "detach" /\ pc' = "running"
      BY <1>9 DEF Detach
    <2> QED BY <2>1, <2>2, <2>3 DEF InStep
  <1>10. CASE DetachFails
    BY <1>10, QuietStep DEF DetachFails
  <1>11. CASE Restart
    BY <1>11, QuietStep DEF Restart
  <1>12. CASE LeaveRun
    BY <1>12, QuietStep DEF LeaveRun
  <1>13. CASE Close
    BY <1>13, QuietStep DEF Close, InStep
  <1>14. CASE ReadNew
    BY <1>1, <1>14, ReadStep DEF ReadNew, InStep, NoEnv
  <1>15. CASE Exchange \/ PublishEmpty \/ FreeOld
    BY <1>15, QuietStep DEF Exchange, PublishEmpty, FreeOld
  <1>16. CASE Fill
    BY <1>1, <1>16, ReadStep DEF Fill, NoEnv
  <1>17. CASE Decide
    <2>1. heap[gconf] = Unset => cread[2] = Missing
      BY <1>17, UrlShape DEF Decide, ConfInv, Structures, TypeOK, Newest, Content, Null
    <2>2. Settled /\ pc' = "exit" => cread = <<Home, Missing>>
      BY <1>17, <2>1 DEF Decide, InStep
    <2>3. pc' # "exit" => restart'
      BY <1>17 DEF Decide
    <2>4. pc' = pc \/ pc' = "exit"
      BY <1>17 DEF Decide
    <2> QED BY <1>17, <2>2, <2>3, <2>4, QuietStep DEF Decide
  <1>18. ASSUME NEW l \in Lanes, TakeUrl(l) \/ CopyUrl(l) PROVE InStep'
    BY <1>18, QuietStep DEF TakeUrl, CopyUrl
  <1>19. CASE Edit
    <2>1. /\ Home' = Home /\ Parsed[argv]' = Parsed[argv]
          /\ Settled' <=> Settled
          /\ Takes' <=> Takes
          /\ NoEnv' <=> NoEnv
          /\ Refused' <=> Refused
      BY <1>19, HomeKept DEF Edit
    <2>2. UNCHANGED <<cwd, pc, restart, usr1, cread, lread>> /\ edited'
      BY <1>19 DEF Edit
    <2> QED BY <2>1, <2>2 DEF InStep
  <1> QED
    BY <1>2, <1>3, <1>4, <1>5, <1>6, <1>7, <1>8, <1>9, <1>10, <1>11, <1>12,
       <1>13, <1>14, <1>15, <1>16, <1>17, <1>18, <1>19 DEF Next

\* The two sides' readings stay in step with the file and with each other.
THEOREM InStepInvariant == Spec => []InStep
  <1>1. Init => InStep
    BY DEF Init, InStep, Outside
  <1> QED BY <1>1, StepInStep, ConfInvariant, PTL DEF Spec

\* equus_conf.c and stage0.lua have their configuration from the same contents of
\* the same file whenever a VM runs with no restart pending, wherever SIGUSR1 comes,
\* for every command line on Unix that has no help switch and one -c at most, which is
\* no operand, and on Windows, where equus_conf_init ignores -c, for those without one.
THEOREM SidesAgree == Spec => []SameConfig
  <1>1. InStep => SameConfig
    BY DEF InStep, SameConfig, Settled
  <1> QED BY <1>1, InStepInvariant, PTL

\* On such a command line the agent gives up over its configuration only if the file
\* that is meant was not there, lacked the keys, or had an interval that is no number
\* or a log level that is unknown, or if the log could not be opened.
THEOREM GivesUpForCause == Spec => []EndsForCause
  <1>1. InStep => EndsForCause
    BY DEF InStep, EndsForCause, Settled, Takes, Refused
  <1> QED BY <1>1, InStepInvariant, PTL
=============================================================================
