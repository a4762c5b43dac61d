------------------------ MODULE ExecCallWin32Proofs ------------------------
(***************************************************************************)
(* Handles of the Windows exec_call: for any number of lanes and of handle *)
(* values, no lane closes what another has opened and nothing stays open.  *)
(* Its output: a call that returns has all the text its plugin wrote.      *)
(***************************************************************************)
EXTENDS ExecCallWin32, SequenceTheorems, TLAPS

States ==
  {"start", "piped", "ready", "spawned", "half", "reading", "waiting", "done",
   "failed", "returned", "raised"}
Values == 1..MaxHandle

\* Only the shape of what the handles are about.
Shape ==
  /\ at \in [Calls -> States]
  /\ handle \in [Calls -> [Kinds -> Values \cup {Zero}]]
  /\ table \in [Values -> (Calls \X Kinds) \cup {Free}]

\* A handle variable is not set before the step that sets it.
NotYetSet ==
  \A c \in Calls :
    /\ at[c] = "start" => \A k \in Kinds : handle[c][k] = Zero
    /\ at[c] = "piped" => handle[c]["err"] = Zero /\ handle[c]["process"] = Zero
    /\ at[c] = "ready" => handle[c]["process"] = Zero

\* The inductive invariant: HandlesOwned with what it needs of the steps.
HandlesInv == Shape /\ NotYetSet /\ HandlesOwned

\* An entry of the table is not Free.
LEMMA PairNotFree ==
  ASSUME NEW x, NEW y
  PROVE  <<x, y>> # Free
  BY DEF Free

\* Two set variables of calls in progress have different values.
LEMMA Distinct ==
  ASSUME HandlesInv, NEW c \in Active, NEW d \in Active, NEW k \in Kinds, NEW l \in Kinds,
         handle[c][k] = handle[d][l], handle[c][k] # Zero
  PROVE  c = d /\ k = l
  BY DEF HandlesInv, HandlesOwned

LEMMA InitHandles == Init => HandlesInv
  <1> SUFFICES ASSUME Init PROVE HandlesInv
    OBVIOUS
  <1>1. Shape
    BY DEF Init, Shape, States, Values
  <1>2. NotYetSet
    BY DEF Init, NotYetSet
  <1>3. HandlesOwned
    BY DEF Init, HandlesOwned, Active
  <1> QED BY <1>1, <1>2, <1>3 DEF HandlesInv

-----------------------------------------------------------------------------
\* A call in progress sets a variable that was not set to a value that was free.
LEMMA Opened ==
  ASSUME HandlesInv, NEW c \in Active, NEW k \in Kinds, NEW v \in FreeValues,
         handle[c][k] = Zero,
         table' = [table EXCEPT ![v] = <<c, k>>],
         handle' = [handle EXCEPT ![c][k] = v],
         Active' = Active
  PROVE  HandlesOwned'
  <1>0. c \in Calls /\ v \in Values /\ table[v] = Free /\ v # Zero
    BY DEF Active, FreeValues, Values, Zero
  <1>1. \A d \in Active, l \in Kinds :
          handle'[d][l] = IF d = c /\ l = k THEN v ELSE handle[d][l]
    BY <1>0 DEF HandlesInv, Shape, Active
  <1>2. \A w \in Values : table'[w] = IF w = v THEN <<c, k>> ELSE table[w]
    BY <1>0 DEF HandlesInv, Shape
  <1>3. \A d \in Active, l \in Kinds : handle[d][l] # v
    <2> SUFFICES ASSUME NEW d \in Active, NEW l \in Kinds, handle[d][l] = v PROVE FALSE
      OBVIOUS
    <2>1. table[v] = <<d, l>>
      BY <1>0 DEF HandlesInv, HandlesOwned
    <2> QED BY <2>1, <1>0, PairNotFree
  <1>4. \A d \in Active, l \in Kinds : handle[d][l] # Zero => handle[d][l] \in Values
    BY DEF HandlesInv, Shape, Active
  <1>5. \A d \in Active', l \in Kinds :
          handle'[d][l] # Zero => table'[handle'[d][l]] = <<d, l>>
    <2> SUFFICES ASSUME NEW d \in Active, NEW l \in Kinds, handle'[d][l] # Zero
                 PROVE  table'[handle'[d][l]] = <<d, l>>
      OBVIOUS
    <2>1. CASE d = c /\ l = k
      BY <2>1, <1>0, <1>1, <1>2
    <2>2. CASE ~(d = c /\ l = k)
      <3>1. handle'[d][l] = handle[d][l] /\ handle[d][l] # v /\ handle[d][l] \in Values
        BY <2>2, <1>1, <1>3, <1>4
      <3>2. table[handle[d][l]] = <<d, l>>
        BY <3>1 DEF HandlesInv, HandlesOwned
      <3> QED BY <3>1, <3>2, <1>2
    <2> QED BY <2>1, <2>2
  <1>6. ASSUME NEW w \in Values, table'[w] # Free
        PROVE  \E d \in Active', l \in Kinds : handle'[d][l] = w
    <2>1. CASE w = v
      BY <2>1, <1>1
    <2>2. CASE w # v
      <3>1. PICK d \in Active, l \in Kinds : handle[d][l] = w
        BY <1>6, <1>2, <2>2 DEF HandlesInv, HandlesOwned, Values
      <3>2. ~(d = c /\ l = k)
        BY <3>1, <1>0 DEF Values, Zero
      <3> QED BY <3>1, <3>2, <1>1
    <2> QED BY <2>1, <2>2
  <1> QED BY <1>5, <1>6 DEF HandlesOwned, Values

\* A call in progress closes the handle of one of its variables and clears it.
LEMMA Closed ==
  ASSUME HandlesInv, NEW c \in Active, NEW k \in Kinds,
         table' = CloseHandle(handle[c][k]),
         handle' = [handle EXCEPT ![c][k] = Zero],
         Active' = Active
  PROVE  HandlesOwned'
  <1>0. c \in Calls /\ handle[c][k] \in Values \cup {Zero}
    BY DEF Active, HandlesInv, Shape
  <1>1. \A d \in Active, l \in Kinds :
          handle'[d][l] = IF d = c /\ l = k THEN Zero ELSE handle[d][l]
    BY <1>0 DEF HandlesInv, Shape, Active
  <1>2. \A w \in Values : table'[w] = IF w = handle[c][k] THEN Free ELSE table[w]
    BY <1>0 DEF HandlesInv, Shape, CloseHandle, Values, Zero
  <1>3. \A d \in Active, l \in Kinds :
          handle[d][l] # Zero /\ ~(d = c /\ l = k) => handle[d][l] # handle[c][k]
    BY Distinct
  <1>4. \A d \in Active, l \in Kinds : handle[d][l] # Zero => handle[d][l] \in Values
    BY DEF HandlesInv, Shape, Active
  <1>5. \A d \in Active', l \in Kinds :
          handle'[d][l] # Zero => table'[handle'[d][l]] = <<d, l>>
    BY <1>1, <1>2, <1>3, <1>4 DEF HandlesInv, HandlesOwned
  <1>6. ASSUME NEW w \in Values, table'[w] # Free
        PROVE  \E d \in Active', l \in Kinds : handle'[d][l] = w
    <2>1. w # handle[c][k] /\ table[w] # Free
      BY <1>6, <1>2
    <2>2. PICK d \in Active, l \in Kinds : handle[d][l] = w
      BY <2>1 DEF HandlesInv, HandlesOwned, Values
    <2> QED BY <2>1, <2>2, <1>1
  <1> QED BY <1>5, <1>6 DEF HandlesOwned, Values

\* The cleanup of a call: all that its variables stand for is closed, and the
\* call is over.
LEMMA Cleaned ==
  ASSUME HandlesInv, NEW c \in Active, Cleanup(c)
  PROVE  HandlesOwned'
  <1>0. c \in Calls
    BY DEF Active
  <1>1. handle' = handle /\ Active' = Active \ {c}
    BY <1>0 DEF Cleanup, Goto, Active, HandlesInv, Shape
  <1>2. \A w \in Values :
          table'[w] = IF \E k \in Kinds : handle[c][k] = w THEN Free ELSE table[w]
    BY DEF Cleanup, Values
  <1>3. \A d \in Active, l \in Kinds : handle[d][l] # Zero => handle[d][l] \in Values
    BY DEF HandlesInv, Shape, Active
  <1>4. ASSUME NEW d \in Active', NEW l \in Kinds, handle'[d][l] # Zero
        PROVE  table'[handle'[d][l]] = <<d, l>>
    <2>1. d \in Active /\ d # c /\ handle[d][l] # Zero
      BY <1>1, <1>4
    <2>2. \A k \in Kinds : handle[c][k] # handle[d][l]
      BY <2>1, Distinct
    <2> QED BY <1>1, <1>2, <1>3, <2>1, <2>2 DEF HandlesInv, HandlesOwned
  <1>5. ASSUME NEW w \in Values, table'[w] # Free
        PROVE  \E d \in Active', l \in Kinds : handle'[d][l] = w
    <2>1. (\A k \in Kinds : handle[c][k] # w) /\ table[w] # Free
      BY <1>5, <1>2
    <2>2. PICK d \in Active, l \in Kinds : handle[d][l] = w
      BY <2>1 DEF HandlesInv, HandlesOwned, Values
    <2> QED BY <2>1, <2>2, <1>1
  <1> QED BY <1>4, <1>5 DEF HandlesOwned, Values

-----------------------------------------------------------------------------
\* The shape is kept by every step.
LEMMA ShapeKept == HandlesInv /\ [Next]_vars => Shape'
  <1> SUFFICES ASSUME HandlesInv, [Next]_vars PROVE Shape'
    OBVIOUS
  <1> USE DEF Shape
  <1>0. Shape
    BY DEF HandlesInv
  <1>1. ASSUME NEW c \in Calls, Step(c) PROVE Shape'
    <2>1. CASE CreatePipe(c)
      <3>1. PICK v \in FreeValues, w \in FreeValues :
              /\ table' = [table EXCEPT ![v] = <<c, "read">>, ![w] = <<c, "write">>]
              /\ handle' = [handle EXCEPT ![c]["read"] = v, ![c]["write"] = w]
        BY <2>1 DEF CreatePipe
      <3>2. at' \in [Calls -> States]
        BY <1>0, <2>1 DEF CreatePipe, Goto, States
      <3>3. v \in Values /\ w \in Values
        BY DEF FreeValues, Values
      <3>4. table' \in [Values -> (Calls \X Kinds) \cup {Free}]
        BY <1>0, <3>1, <3>3 DEF Kinds
      <3>5. handle' \in [Calls -> [Kinds -> Values \cup {Zero}]]
        BY <1>0, <3>1, <3>3 DEF Kinds
      <3> QED BY <3>2, <3>4, <3>5
    <2>2. CASE Duplicate(c)
      BY <1>0, <2>2 DEF Duplicate, Goto, FreeValues, Values, Kinds, States
    <2>3. CASE CreateProcess(c)
      BY <1>0, <2>3 DEF CreateProcess, Goto, FreeValues, Values, Kinds, States
    <2>4. CASE CloseWrite(c)
      BY <1>0, <2>4 DEF CloseWrite, Goto, CloseHandle, Values, Kinds, States
    <2>5. CASE CloseErr(c)
      BY <1>0, <2>5 DEF CloseErr, Goto, CloseHandle, Values, Kinds, States
    <2>6. CASE ReadFile(c)
      BY <1>0, <2>6 DEF ReadFile
    <2>7. CASE ReadEnd(c)
      BY <1>0, <2>7 DEF ReadEnd, Goto, States
    <2>8. CASE Wait(c)
      BY <1>0, <2>8 DEF Wait, Goto, States
    <2>9. CASE Cleanup(c)
      <3>1. at' \in [Calls -> States]
        BY <1>0, <2>9 DEF Cleanup, Goto, States
      <3>2. table' \in [Values -> (Calls \X Kinds) \cup {Free}]
        BY <1>0, <2>9 DEF Cleanup, Values
      <3> QED BY <1>0, <3>1, <3>2, <2>9 DEF Cleanup
    <2> QED BY <1>1, <2>1, <2>2, <2>3, <2>4, <2>5, <2>6, <2>7, <2>8, <2>9 DEF Step
  <1>2. ASSUME NEW c \in Calls, SetupFails(c) \/ ReadStops(c) PROVE Shape'
    BY <1>0, <1>2 DEF SetupFails, ReadStops, Goto, States
  <1>3. ASSUME NEW c \in Calls, Write(c) \/ Exit(c) \/ Terminated(c) PROVE Shape'
    BY <1>0, <1>3 DEF Write, Exit, Terminated, Ends
  <1>4. CASE UNCHANGED vars
    BY <1>0, <1>4 DEF vars
  <1> QED BY <1>1, <1>2, <1>3, <1>4 DEF Next, AllDone

\* So is that variables are not set too early.
LEMMA NotYetSetKept == HandlesInv /\ [Next]_vars => NotYetSet'
  <1> SUFFICES ASSUME HandlesInv, [Next]_vars PROVE NotYetSet'
    OBVIOUS
  <1> USE DEF NotYetSet
  <1>0. Shape /\ NotYetSet
    BY DEF HandlesInv
  <1>1. ASSUME NEW c \in Calls, Step(c) PROVE NotYetSet'
    <2>1. CASE CreatePipe(c)
      BY <1>0, <2>1 DEF CreatePipe, Goto, Shape, Kinds
    <2>2. CASE Duplicate(c)
      BY <1>0, <2>2 DEF Duplicate, Goto, Shape, Kinds
    <2>3. CASE CreateProcess(c)
      BY <1>0, <2>3 DEF CreateProcess, Goto, Shape, Kinds
    <2>4. CASE CloseWrite(c)
      BY <1>0, <2>4 DEF CloseWrite, Goto, Shape, Kinds
    <2>5. CASE CloseErr(c)
      BY <1>0, <2>5 DEF CloseErr, Goto, Shape, Kinds
    <2>6. CASE ReadFile(c)
      BY <1>0, <2>6 DEF ReadFile
    <2>7. CASE ReadEnd(c)
      BY <1>0, <2>7 DEF ReadEnd, Goto, Shape
    <2>8. CASE Wait(c)
      BY <1>0, <2>8 DEF Wait, Goto, Shape
    <2>9. CASE Cleanup(c)
      BY <1>0, <2>9 DEF Cleanup, Goto, Shape
    <2> QED BY <1>1, <2>1, <2>2, <2>3, <2>4, <2>5, <2>6, <2>7, <2>8, <2>9 DEF Step
  <1>2. ASSUME NEW c \in Calls, SetupFails(c) \/ ReadStops(c) PROVE NotYetSet'
    BY <1>0, <1>2 DEF SetupFails, ReadStops, Goto, Shape
  <1>3. ASSUME NEW c \in Calls, Write(c) \/ Exit(c) \/ Terminated(c) PROVE NotYetSet'
    BY <1>0, <1>3 DEF Write, Exit, Terminated, Ends
  <1>4. CASE UNCHANGED vars
    BY <1>0, <1>4 DEF vars
  <1> QED BY <1>1, <1>2, <1>3, <1>4 DEF Next, AllDone

\* A step that opens and closes nothing.
LEMMA Untouched ==
  ASSUME HandlesInv, UNCHANGED <<table, handle>>,
         Active' = Active
  PROVE  HandlesOwned'
  BY DEF HandlesInv, HandlesOwned

\* The pipe's two handles are the first that a call opens.
LEMMA Piped ==
  ASSUME HandlesInv, NEW c \in Calls, CreatePipe(c)
  PROVE  HandlesOwned'
  <1>1. PICK v \in FreeValues, w \in FreeValues :
          /\ Lowest(w, FreeValues \ {v})
          /\ table' = [table EXCEPT ![v] = <<c, "read">>, ![w] = <<c, "write">>]
          /\ handle' = [handle EXCEPT ![c]["read"] = v, ![c]["write"] = w]
    BY DEF CreatePipe
  <1>2. /\ v \in Values /\ w \in Values /\ v # w /\ v # Zero /\ w # Zero
        /\ table[v] = Free /\ table[w] = Free
    BY <1>1 DEF FreeValues, Lowest, Values, Zero
  <1>3. c \notin Active /\ Active' = Active \cup {c}
    BY DEF CreatePipe, Goto, Active, HandlesInv, Shape
  <1>4. \A k \in Kinds : handle[c][k] = Zero
    BY DEF CreatePipe, Goto, HandlesInv, NotYetSet
  <1>5. \A d \in Active : handle'[d] = handle[d]
    BY <1>1, <1>3 DEF HandlesInv, Shape, Active
  <1>6. /\ handle'[c]["read"] = v /\ handle'[c]["write"] = w
        /\ handle'[c]["err"] = Zero /\ handle'[c]["process"] = Zero
    BY <1>1, <1>4 DEF HandlesInv, Shape, Kinds
  <1>7. \A u \in Values :
          table'[u] = IF u = v THEN <<c, "read">> ELSE
                      IF u = w THEN <<c, "write">> ELSE table[u]
    BY <1>1, <1>2 DEF HandlesInv, Shape
  <1>8. ASSUME NEW d \in Active', NEW l \in Kinds, handle'[d][l] # Zero
        PROVE  table'[handle'[d][l]] = <<d, l>>
    <2>1. CASE d = c
      BY <2>1, <1>8, <1>2, <1>6, <1>7 DEF Kinds
    <2>2. CASE d # c
      <3>1. d \in Active /\ handle'[d][l] = handle[d][l] /\ handle[d][l] # Zero
        BY <2>2, <1>3, <1>5, <1>8
      <3>2. table[handle[d][l]] = <<d, l>> /\ handle[d][l] \in Values
        BY <3>1 DEF HandlesInv, HandlesOwned, Shape, Active
      <3>3. handle[d][l] # v /\ handle[d][l] # w
        BY <3>2, <1>2, PairNotFree
      <3> QED BY <3>1, <3>2, <3>3, <1>7
    <2> QED BY <2>1, <2>2
  <1>9. ASSUME NEW u \in Values, table'[u] # Free
        PROVE  \E d \in Active', l \in Kinds : handle'[d][l] = u
    <2>1. CASE u = v \/ u = w
      BY <2>1, <1>3, <1>6 DEF Kinds
    <2>2. CASE u # v /\ u # w
      <3>1. PICK d \in Active, l \in Kinds : handle[d][l] = u
        BY <1>9, <1>7, <2>2 DEF HandlesInv, HandlesOwned, Values
      <3> QED BY <3>1, <1>3, <1>5
    <2> QED BY <2>1, <2>2
  <1> QED BY <1>8, <1>9 DEF HandlesOwned, Values

\* A call that fails has opened what its variables say, be it nothing.
LEMMA Failed ==
  ASSUME HandlesInv, NEW c \in Calls, SetupFails(c)
  PROVE  HandlesOwned'
  <1>1. table' = table /\ handle' = handle
    BY DEF SetupFails
  <1>2. CASE c \in Active
    <2>1. Active' = Active
      BY <1>2 DEF SetupFails, Goto, Active, HandlesInv, Shape
    <2> QED BY <1>1, <2>1, Untouched
  <1>3. CASE c \notin Active
    <2>1. at[c] = "start" /\ Active' = Active \cup {c}
      BY <1>3 DEF SetupFails, Goto, Active, HandlesInv, Shape
    <2>2. \A k \in Kinds : handle[c][k] = Zero
      BY <2>1 DEF HandlesInv, NotYetSet
    <2>3. \A d \in Active', k \in Kinds : handle[d][k] # Zero => d \in Active
      BY <2>1, <2>2
    <2> QED BY <1>1, <2>1, <2>3 DEF HandlesInv, HandlesOwned
  <1> QED BY <1>2, <1>3

LEMMA OwnedKept == HandlesInv /\ [Next]_vars => HandlesOwned'
  <1> SUFFICES ASSUME HandlesInv, [Next]_vars PROVE HandlesOwned'
    OBVIOUS
  <1>0. Shape /\ NotYetSet
    BY DEF HandlesInv
  <1>1. ASSUME NEW c \in Calls, Step(c) PROVE HandlesOwned'
    <2>1. CASE CreatePipe(c)
      BY <2>1, Piped
    <2>2. CASE Duplicate(c)
      <3>1. c \in Active /\ Active' = Active
        BY <1>0, <2>2 DEF Duplicate, Goto, Active, Shape
      <3>2. handle[c]["err"] = Zero /\ "err" \in Kinds
        BY <1>0, <2>2 DEF Duplicate, Goto, NotYetSet, Kinds
      <3>3. PICK v \in FreeValues :
              /\ table' = [table EXCEPT ![v] = <<c, "err">>]
              /\ handle' = [handle EXCEPT ![c]["err"] = v]
        BY <2>2 DEF Duplicate
      <3> QED BY <3>1, <3>2, <3>3, Opened
    <2>3. CASE CreateProcess(c)
      <3>1. c \in Active /\ Active' = Active
        BY <1>0, <2>3 DEF CreateProcess, Goto, Active, Shape
      <3>2. handle[c]["process"] = Zero /\ "process" \in Kinds
        BY <1>0, <2>3 DEF CreateProcess, Goto, NotYetSet, Kinds
      <3>3. PICK v \in FreeValues :
              /\ table' = [table EXCEPT ![v] = <<c, "process">>]
              /\ handle' = [handle EXCEPT ![c]["process"] = v]
        BY <2>3 DEF CreateProcess
      <3> QED BY <3>1, <3>2, <3>3, Opened
    <2>4. CASE CloseWrite(c)
      <3>1. c \in Active /\ Active' = Active /\ "write" \in Kinds
        BY <1>0, <2>4 DEF CloseWrite, Goto, Active, Shape, Kinds
      <3> QED BY <3>1, <2>4, Closed DEF CloseWrite
    <2>5. CASE CloseErr(c)
      <3>1. c \in Active /\ Active' = Active /\ "err" \in Kinds
        BY <1>0, <2>5 DEF CloseErr, Goto, Active, Shape, Kinds
      <3> QED BY <3>1, <2>5, Closed DEF CloseErr
    <2>6. CASE ReadFile(c)
      BY <2>6, Untouched DEF ReadFile, Active
    <2>7. CASE ReadEnd(c) \/ Wait(c)
      <3>1. Active' = Active
        BY <1>0, <2>7 DEF ReadEnd, Wait, Goto, Active, Shape
      <3> QED BY <3>1, <2>7, Untouched DEF ReadEnd, Wait
    <2>8. CASE Cleanup(c)
      <3>1. c \in Active
        BY <2>8 DEF Cleanup, Goto, Active
      <3> QED BY <3>1, <2>8, Cleaned
    <2> QED BY <1>1, <2>1, <2>2, <2>3, <2>4, <2>5, <2>6, <2>7, <2>8 DEF Step
  <1>2. ASSUME NEW c \in Calls, ReadStops(c) PROVE HandlesOwned'
    <2>1. Active' = Active
      BY <1>0, <1>2 DEF ReadStops, Goto, Active, Shape
    <2> QED BY <2>1, <1>2, Untouched DEF ReadStops
  <1>3. ASSUME NEW c \in Calls, Write(c) \/ Exit(c) \/ Terminated(c) PROVE HandlesOwned'
    BY <1>3, Untouched DEF Write, Exit, Terminated, Ends, Active
  <1>4. CASE UNCHANGED vars
    BY <1>4, Untouched DEF vars, Active
  <1> QED BY <1>1, <1>2, <1>3, <1>4, Failed DEF Next, AllDone

\* HandlesInv holds in every state of every behaviour.
THEOREM HandlesInvariant == Spec => []HandlesInv
  <1>1. HandlesInv /\ [Next]_vars => HandlesInv'
    BY ShapeKept, NotYetSetKept, OwnedKept DEF HandlesInv
  <1> QED BY InitHandles, <1>1, PTL DEF Spec

\* HandlesOwned for any number of lanes, handle values and plugins: what a lane of
\* equus_exec_call_win32_core closes is its own, and it leaves nothing open.
THEOREM OwnHandles == Spec => []HandlesOwned
  <1>1. HandlesInv => HandlesOwned
    BY DEF HandlesInv
  <1> QED BY HandlesInvariant, <1>1, PTL

-----------------------------------------------------------------------------
(***************************** the plugin's output *************************)

Bytes == {"char", "nul"}
Scripted == Chunk \in Nat \ {0} /\ Scripts \subseteq [Calls -> Seq(Bytes)]
Text(s) == \A i \in 1..Len(s) : s[i] # "nul"

OutputShape ==
  /\ script \in [Calls -> Seq(Bytes)] /\ buf \in [Calls -> Seq(Bytes)]
  /\ wrote \in [Calls -> Seq(Bytes)] /\ DOMAIN got = Calls
  /\ child \in [Calls -> {"none", "running", "exited"}]
  /\ holders \in [Calls -> SUBSET Calls]

\* As long as a plugin writes text, what it wrote is what the call has and what
\* is still in the pipe.
Accounted ==
  \A c \in Calls :
    Text(wrote[c]) => got[c] \in Seq(Bytes) /\ wrote[c] = got[c] \o buf[c]

\* A plugin that runs holds its own pipe, because its call had the write handle
\* when it created the process. So the pipe breaks after the plugin's last byte.
Dried ==
  \A c \in Calls :
    /\ at[c] \in {"piped", "ready"} => handle[c]["write"] # Zero
    /\ child[c] = "running" => c \in holders[c]
    /\ at[c] \in {"waiting", "done", "returned"} /\ c \notin cut =>
         buf[c] = <<>> /\ child[c] # "running"
    /\ at[c] \in {"done", "returned"} => child[c] = "exited"

OutputInv == HandlesInv /\ OutputShape /\ Accounted /\ Dried

\* strlen of a chunk of text is its length.
LEMMA TextKept ==
  ASSUME NEW s \in Seq(Bytes), Text(s)
  PROVE  UpToNul(s) = s
  <1>1. {i \in 1..Len(s) : s[i] = "nul"} = {}
    BY DEF Text
  <1> QED BY <1>1 DEF UpToNul, SelectInSeq

LEMMA Joined ==
  ASSUME NEW g \in Seq(Bytes), NEW x \in Seq(Bytes), NEW y \in Seq(Bytes)
  PROVE  (g \o x) \o y = g \o (x \o y)
  OBVIOUS

LEMMA JoinedEmpty == <<>> \in Seq(Bytes) /\ <<>> \o <<>> = <<>>
  OBVIOUS

LEMMA JoinedRight ==
  ASSUME NEW g \in Seq(Bytes), NEW b \in Seq(Bytes), NEW i \in 1..Len(b)
  PROVE  (g \o b)[Len(g) + i] = b[i] /\ Len(g) + i \in 1..Len(g \o b)
  <1>1. Len(g) \in Nat /\ Len(b) \in Nat /\ Len(g \o b) = Len(g) + Len(b)
    OBVIOUS
  <1>2. \A j \in 1..(Len(g) + Len(b)) : (g \o b)[j] = IF j <= Len(g) THEN g[j] ELSE b[j - Len(g)]
    BY ConcatProperties
  <1>3. Len(g) + i \in 1..(Len(g) + Len(b)) /\ ~(Len(g) + i <= Len(g)) /\ (Len(g) + i) - Len(g) = i
    BY <1>1
  <1> QED BY <1>1, <1>2, <1>3

LEMMA JoinedAppend ==
  ASSUME NEW g \in Seq(Bytes), NEW b \in Seq(Bytes), NEW h \in Bytes
  PROVE  Append(g \o b, h) = g \o Append(b, h)
  <1>1. /\ <<h>> \in Seq(Bytes) /\ g \o b \in Seq(Bytes)
        /\ Append(b, h) = b \o <<h>> /\ Append(g \o b, h) = (g \o b) \o <<h>>
    BY ConcatProperties, AppendIsConcat
  <1> QED BY <1>1, Joined

\* What ReadFile takes and what it leaves make up what was there.
LEMMA Pieces ==
  ASSUME NEW g \in Seq(Bytes), NEW b \in Seq(Bytes), NEW n \in 1..Len(b)
  PROVE  /\ SubSeq(b, 1, n) \in Seq(Bytes) /\ SubSeq(b, n + 1, Len(b)) \in Seq(Bytes)
         /\ (g \o SubSeq(b, 1, n)) \o SubSeq(b, n + 1, Len(b)) = g \o b
  <1> DEFINE x == SubSeq(b, 1, n)
             y == SubSeq(b, n + 1, Len(b))
  <1>1. x \in Seq(Bytes) /\ Len(x) = n /\ \A i \in 1..n : x[i] = b[i]
    OBVIOUS
  <1>2. y \in Seq(Bytes) /\ Len(y) = Len(b) - n /\ \A i \in 1..(Len(b) - n) : y[i] = b[n + i]
    OBVIOUS
  <1> HIDE DEF x, y
  <1>3. /\ x \o y \in Seq(Bytes) /\ Len(x \o y) = Len(x) + Len(y)
        /\ \A i \in 1..(Len(x) + Len(y)) :
             (x \o y)[i] = IF i <= Len(x) THEN x[i] ELSE y[i - Len(x)]
    BY <1>1, <1>2, ConcatProperties
  <1>4. Len(b) \in Nat /\ Len(x) + Len(y) = Len(b)
    BY <1>1, <1>2
  <1>5. ASSUME NEW i \in 1..Len(b) PROVE (x \o y)[i] = b[i]
    <2>1. (x \o y)[i] = IF i <= n THEN x[i] ELSE y[i - n]
      BY <1>1, <1>3, <1>4
    <2>2. CASE i <= n
      BY <1>1, <2>1, <2>2
    <2>3. CASE i > n
      <3>1. i - n \in 1..(Len(b) - n) /\ n + (i - n) = i /\ ~(i <= n)
        BY <1>4, <2>3
      <3> QED BY <1>2, <2>1, <3>1
    <2> QED BY <1>4, <2>2, <2>3
  <1>6. x \o y = b
    BY <1>3, <1>4, <1>5, SeqEqual
  <1>7. (g \o x) \o y = g \o (x \o y)
    <2>1. g \in Seq(Bytes) /\ x \in Seq(Bytes) /\ y \in Seq(Bytes)
      BY <1>1, <1>2
    <2> QED BY <2>1, Joined
  <1>8. (g \o x) \o y = g \o b
    BY <1>6, <1>7
  <1> QED BY <1>1, <1>2, <1>8 DEF x, y

LEMMA InitOutput ==
  ASSUME Scripted
  PROVE  Init => OutputInv
  <1> SUFFICES ASSUME Init PROVE OutputInv
    OBVIOUS
  <1>1. OutputShape
    BY DEF Init, OutputShape, Scripted
  <1>2. \A c \in Calls : got[c] = <<>> /\ wrote[c] = <<>> /\ buf[c] = <<>>
    BY DEF Init
  <1>3. Accounted
    BY <1>2, JoinedEmpty DEF Accounted
  <1>4. Dried
    BY DEF Init, Dried
  <1> QED BY <1>1, <1>3, <1>4, InitHandles DEF OutputInv

\* Bytes go from the plugin into the pipe ...
LEMMA WriteKept ==
  ASSUME OutputInv, NEW c \in Calls, Write(c)
  PROVE  OutputShape' /\ Accounted' /\ Dried'
  <1>1. OutputShape /\ Accounted /\ Dried
    BY DEF OutputInv
  <1> DEFINE h == Head(script[c])
  <1>2. /\ script[c] \in Seq(Bytes) /\ script[c] # <<>> /\ child[c] = "running"
        /\ UNCHANGED <<at, handle, child, holders, got, cut>>
        /\ buf' = [buf EXCEPT ![c] = Append(@, h)]
        /\ wrote' = [wrote EXCEPT ![c] = Append(@, h)]
        /\ script' = [script EXCEPT ![c] = Tail(@)]
    BY <1>1 DEF Write, OutputShape
  <1>3. h \in Bytes /\ Tail(script[c]) \in Seq(Bytes)
    BY <1>2
  <1> HIDE DEF h
  <1>4. OutputShape'
    BY <1>1, <1>2, <1>3 DEF OutputShape
  <1>5. Dried'
    <2>1. ~(at[c] \in {"waiting", "done", "returned"} /\ c \notin cut)
      BY <1>1, <1>2 DEF Dried
    <2>2. \A d \in Calls \ {c} : buf'[d] = buf[d]
      BY <1>1, <1>2 DEF OutputShape
    <2> QED BY <1>1, <1>2, <2>1, <2>2 DEF Dried
  <1>6. ASSUME NEW d \in Calls, Text(wrote[d])'
        PROVE  got'[d] \in Seq(Bytes) /\ wrote'[d] = got'[d] \o buf'[d]
    <2>1. CASE d # c
      BY <1>1, <1>2, <1>6, <2>1 DEF OutputShape, Accounted, Text
    <2>2. CASE d = c
      <3>1. wrote[c] \in Seq(Bytes) /\ buf[c] \in Seq(Bytes)
        BY <1>1 DEF OutputShape
      <3>2. wrote'[c] = Append(wrote[c], h) /\ buf'[c] = Append(buf[c], h) /\ got'[c] = got[c]
        BY <1>1, <1>2 DEF OutputShape
      <3>3. Text(wrote[c])
        BY <1>3, <1>6, <2>2, <3>1, <3>2 DEF Text
      <3>4. got[c] \in Seq(Bytes) /\ wrote[c] = got[c] \o buf[c]
        BY <1>1, <3>3 DEF Accounted
      <3>5. Append(got[c] \o buf[c], h) = got[c] \o Append(buf[c], h)
        BY <1>3, <3>1, <3>4, JoinedAppend
      <3> QED BY <2>2, <3>2, <3>4, <3>5
    <2> QED BY <2>1, <2>2
  <1> QED BY <1>4, <1>5, <1>6 DEF Accounted

\* ... and from there to the call, none twice and none skipped.
LEMMA ReadKept ==
  ASSUME Scripted, OutputInv, NEW c \in Calls, ReadFile(c)
  PROVE  OutputShape' /\ Accounted' /\ Dried'
  <1>1. OutputShape /\ Accounted /\ Dried
    BY DEF OutputInv
  <1> DEFINE n == Min({Len(buf[c]), Chunk})
  <1>2. buf[c] \in Seq(Bytes) /\ n \in 1..Len(buf[c])
    <2>1. buf[c] \in Seq(Bytes) /\ n > 0
      BY <1>1 DEF OutputShape, ReadFile
    <2>2. Len(buf[c]) \in Nat /\ Chunk \in Nat
      BY <2>1 DEF Scripted
    <2>3. n \in {Len(buf[c]), Chunk} /\ n <= Len(buf[c])
      BY <2>2 DEF Min
    <2> HIDE DEF n
    <2> QED BY <2>1, <2>2, <2>3
  <1>3. /\ at[c] = "reading" /\ UNCHANGED <<at, handle, child, holders, script, wrote, cut>>
        /\ got' = [got EXCEPT ![c] = @ \o UpToNul(SubSeq(buf[c], 1, n))]
        /\ buf' = [buf EXCEPT ![c] = SubSeq(@, n + 1, Len(@))]
    BY DEF ReadFile, Reads, AppendOutput
  <1> HIDE DEF n
  <1>4. SubSeq(buf[c], 1, n) \in Seq(Bytes) /\ SubSeq(buf[c], n + 1, Len(buf[c])) \in Seq(Bytes)
    BY <1>2
  <1>5. OutputShape'
    <2>1. buf' \in [Calls -> Seq(Bytes)]
      BY <1>1, <1>3, <1>4 DEF OutputShape
    <2>2. DOMAIN got' = Calls
      BY <1>1, <1>3 DEF OutputShape
    <2> QED BY <1>1, <1>3, <2>1, <2>2 DEF OutputShape
  <1>6. Dried'
    <2>1. \A d \in Calls \ {c} : buf'[d] = buf[d]
      BY <1>1, <1>3 DEF OutputShape
    <2> QED BY <1>1, <1>3, <2>1 DEF Dried
  <1>7. ASSUME NEW d \in Calls, Text(wrote[d])'
        PROVE  got'[d] \in Seq(Bytes) /\ wrote'[d] = got'[d] \o buf'[d]
    <2>1. Text(wrote[d]) /\ wrote'[d] = wrote[d]
      BY <1>3, <1>7 DEF Text
    <2>2. got[d] \in Seq(Bytes) /\ wrote[d] = got[d] \o buf[d]
      BY <1>1, <2>1 DEF Accounted
    <2>3. CASE d # c
      <3>1. got'[d] = got[d] /\ buf'[d] = buf[d]
        BY <1>1, <1>3, <2>3 DEF OutputShape
      <3> QED BY <2>1, <2>2, <3>1
    <2>4. CASE d = c
      <3>1. \A i \in 1..Len(buf[c]) : buf[c][i] = wrote[c][Len(got[c]) + i]
                                      /\ Len(got[c]) + i \in 1..Len(wrote[c])
        <4>1. got[c] \in Seq(Bytes) /\ buf[c] \in Seq(Bytes) /\ wrote[c] = got[c] \o buf[c]
          BY <1>2, <2>2, <2>4
        <4>2. \A i \in 1..Len(buf[c]) : /\ (got[c] \o buf[c])[Len(got[c]) + i] = buf[c][i]
                                        /\ Len(got[c]) + i \in 1..Len(got[c] \o buf[c])
          BY <4>1, JoinedRight
        <4> QED BY <4>1, <4>2
      <3>2. Text(SubSeq(buf[c], 1, n))
        <4>1. ASSUME NEW i \in 1..Len(SubSeq(buf[c], 1, n))
              PROVE  SubSeq(buf[c], 1, n)[i] # "nul"
          <5>1. i \in 1..Len(buf[c]) /\ SubSeq(buf[c], 1, n)[i] = buf[c][i]
            BY <1>2
          <5> QED BY <2>1, <2>4, <3>1, <5>1 DEF Text
        <4> QED BY <4>1 DEF Text
      <3>3. UpToNul(SubSeq(buf[c], 1, n)) = SubSeq(buf[c], 1, n)
        BY <1>4, <3>2, TextKept
      <3>4. /\ got'[c] = got[c] \o SubSeq(buf[c], 1, n)
            /\ buf'[c] = SubSeq(buf[c], n + 1, Len(buf[c]))
        BY <1>1, <1>3, <3>3 DEF OutputShape
      <3>5. got[c] \in Seq(Bytes) /\ wrote[c] = got[c] \o buf[c] /\ wrote'[c] = wrote[c]
        BY <2>1, <2>2, <2>4
      <3>6. (got[c] \o SubSeq(buf[c], 1, n)) \o SubSeq(buf[c], n + 1, Len(buf[c])) = got[c] \o buf[c]
        BY <1>2, <3>5, Pieces
      <3>7. got'[c] \in Seq(Bytes)
        BY <1>4, <3>4, <3>5
      <3> QED BY <2>4, <3>4, <3>5, <3>6, <3>7
    <2> QED BY <2>3, <2>4
  <1> QED BY <1>5, <1>6, <1>7 DEF Accounted

\* A step that moves no byte.
LEMMA NothingMoved ==
  ASSUME OutputInv, UNCHANGED <<script, buf, wrote, got>>,
         child' \in [Calls -> {"none", "running", "exited"}],
         holders' \in [Calls -> SUBSET Calls]
  PROVE  OutputShape' /\ Accounted'
  BY DEF OutputInv, OutputShape, Accounted, Text

\* The call that creates a process has its own write handle open.
LEMMA HoldsOwn ==
  ASSUME OutputInv, NEW c \in Calls, at[c] = "ready"
  PROVE  AgentHolds(c)
  <1>1. c \in Active /\ "write" \in Kinds
    BY DEF Active, Kinds
  <1>2. handle[c]["write"] # Zero /\ handle[c]["write"] \in Values
    BY <1>1 DEF OutputInv, Dried, HandlesInv, Shape
  <1>3. table[handle[c]["write"]] = <<c, "write">>
    BY <1>1, <1>2 DEF OutputInv, HandlesInv, HandlesOwned
  <1> QED BY <1>2, <1>3 DEF AgentHolds, Values

LEMMA OutputKept ==
  ASSUME Scripted, OutputInv, [Next]_vars
  PROVE  OutputShape' /\ Accounted' /\ Dried'
  <1>1. OutputShape /\ Dried /\ Shape
    BY DEF OutputInv, HandlesInv
  <1>2. ASSUME UNCHANGED <<child, got, plugin>> PROVE OutputShape' /\ Accounted'
    BY <1>1, <1>2, NothingMoved DEF plugin, OutputShape
  <1>3. ASSUME NEW c \in Calls, CreatePipe(c) PROVE Dried'
    <2>1. PICK v \in FreeValues, w \in FreeValues :
            handle' = [handle EXCEPT ![c]["read"] = v, ![c]["write"] = w]
      BY <1>3 DEF CreatePipe
    <2>2. w \in Values /\ w # Zero
      BY DEF FreeValues, Values, Zero
    <2>3. handle'[c]["write"] = w /\ \A d \in Calls \ {c} : handle'[d] = handle[d]
      BY <1>1, <2>1 DEF Shape, Kinds
    <2>4. at' = [at EXCEPT ![c] = "piped"] /\ UNCHANGED <<child, holders, buf, cut>>
      BY <1>3 DEF CreatePipe, Goto, plugin
    <2> QED BY <1>1, <2>2, <2>3, <2>4 DEF Dried, Shape
  <1>4. ASSUME NEW c \in Calls, Duplicate(c) PROVE Dried'
    <2>1. \A d \in Calls : handle'[d]["write"] = handle[d]["write"]
      BY <1>1, <1>4 DEF Duplicate, Shape, Kinds
    <2> QED BY <1>1, <1>4, <2>1 DEF Duplicate, Goto, plugin, Dried, Shape
  <1>5. ASSUME NEW c \in Calls, CreateProcess(c) PROVE OutputShape' /\ Accounted' /\ Dried'
    <2>1. at[c] = "ready" /\ at' = [at EXCEPT ![c] = "spawned"] /\ UNCHANGED <<script, buf, wrote, got, cut>>
      BY <1>5 DEF CreateProcess, Goto
    <2>2. /\ child' = [child EXCEPT ![c] = "running"]
          /\ holders' = [d \in Calls |-> IF AgentHolds(d) THEN holders[d] \cup {c} ELSE holders[d]]
      BY <1>5 DEF CreateProcess
    <2>3. /\ child' \in [Calls -> {"none", "running", "exited"}]
          /\ holders' \in [Calls -> SUBSET Calls]
      BY <1>1, <2>2 DEF OutputShape
    <2>4. c \in holders'[c] /\ \A d \in Calls : holders[d] \subseteq holders'[d]
      BY <1>1, <2>1, <2>2, HoldsOwn DEF OutputShape
    <2>5. \A d \in Calls : handle'[d]["write"] = handle[d]["write"]
      BY <1>1, <1>5 DEF CreateProcess, Shape, Kinds
    <2>6. /\ at'[c] = "spawned" /\ child'[c] = "running"
          /\ \A d \in Calls \ {c} : at'[d] = at[d] /\ child'[d] = child[d]
      BY <1>1, <2>1, <2>2 DEF Shape, OutputShape
    <2>7. Dried'
      BY <1>1, <2>1, <2>4, <2>5, <2>6 DEF Dried
    <2> QED BY <2>1, <2>3, <2>7, NothingMoved
  <1>6. ASSUME NEW c \in Calls, CloseWrite(c) \/ CloseErr(c) PROVE Dried'
    <2>1. /\ UNCHANGED <<child, holders, buf, cut>>
          /\ at'[c] \notin {"piped", "ready", "waiting", "done", "returned"}
          /\ \A d \in Calls \ {c} : at'[d] = at[d] /\ handle'[d]["write"] = handle[d]["write"]
      BY <1>1, <1>6 DEF CloseWrite, CloseErr, Goto, plugin, Shape, Kinds
    <2> QED BY <1>1, <2>1 DEF Dried
  <1>7. ASSUME NEW c \in Calls, ReadEnd(c) PROVE Dried'
    <2>1. buf[c] = <<>> /\ holders[c] = {}
      BY <1>7 DEF ReadEnd, Broken
    <2>2. child[c] # "running"
      BY <1>1, <2>1 DEF Dried
    <2> QED BY <1>1, <1>7, <2>1, <2>2 DEF ReadEnd, Goto, plugin, Dried, Shape
  <1>8. ASSUME NEW c \in Calls, Wait(c) PROVE Dried'
    BY <1>1, <1>8 DEF Wait, Goto, plugin, Dried, Shape
  <1>9. ASSUME NEW c \in Calls, Cleanup(c) PROVE Dried'
    BY <1>1, <1>9 DEF Cleanup, Goto, plugin, Dried, Shape
  <1>10. ASSUME NEW c \in Calls, SetupFails(c) PROVE Dried'
    BY <1>1, <1>10 DEF SetupFails, Goto, plugin, Dried, Shape
  <1>11. ASSUME NEW c \in Calls, ReadStops(c) PROVE OutputShape' /\ Accounted' /\ Dried'
    <2>1. Dried'
      BY <1>1, <1>11 DEF ReadStops, Goto, Dried, Shape
    <2> QED BY <1>1, <1>11, <2>1, NothingMoved DEF ReadStops, OutputShape
  <1>12. ASSUME NEW c \in Calls, Exit(c) \/ Terminated(c) PROVE OutputShape' /\ Accounted' /\ Dried'
    <2>1. Ends(c)
      BY <1>12 DEF Exit, Terminated
    <2>2. /\ child' \in [Calls -> {"none", "running", "exited"}]
          /\ holders' \in [Calls -> SUBSET Calls]
      BY <1>1, <2>1 DEF Ends, OutputShape
    <2>3. Dried'
      BY <1>1, <2>1 DEF Ends, Dried, OutputShape
    <2> QED BY <2>1, <2>2, <2>3, NothingMoved DEF Ends
  <1>13. CASE UNCHANGED vars
    <2>1. Dried'
      BY <1>1, <1>13 DEF vars, plugin, Dried
    <2> QED BY <1>2, <1>13, <2>1 DEF vars
  <1>14. ASSUME NEW c \in Calls, Step(c) PROVE OutputShape' /\ Accounted' /\ Dried'
    BY <1>2, <1>3, <1>4, <1>5, <1>6, <1>7, <1>8, <1>9, <1>14, ReadKept
    DEF Step, CreatePipe, Duplicate, CloseWrite, CloseErr, ReadEnd, Wait, Cleanup
  <1>15. ASSUME NEW c \in Calls, SetupFails(c) PROVE OutputShape' /\ Accounted' /\ Dried'
    BY <1>2, <1>10, <1>15 DEF SetupFails
  <1> QED BY <1>11, <1>12, <1>13, <1>14, <1>15, WriteKept DEF Next, AllDone

\* A call of equus_exec_call_win32_core that returns has all the text its plugin
\* wrote to either stream, in order, whatever processes other lanes have created
\* and whatever handles those have inherited, and the plugin has ended.
THEOREM OutputWhole ==
  ASSUME Scripted
  PROVE  Spec => []OutputComplete
  <1>1. Init => OutputInv
    BY InitOutput
  <1>2. OutputInv /\ [Next]_vars => OutputInv'
    <2> SUFFICES ASSUME OutputInv, [Next]_vars PROVE OutputInv'
      OBVIOUS
    <2>1. HandlesInv'
      BY ShapeKept, NotYetSetKept, OwnedKept DEF HandlesInv, OutputInv
    <2> QED BY <2>1, OutputKept DEF OutputInv
  <1>3. OutputInv => OutputComplete
    <2> SUFFICES ASSUME OutputInv, NEW c \in Calls, at[c] = "returned"
                 PROVE  /\ child[c] = "exited"
                        /\ c \notin cut /\ "nul" \notin Range(wrote[c]) => got[c] = wrote[c]
      BY DEF OutputComplete
    <2>1. child[c] = "exited"
      BY DEF OutputInv, Dried
    <2>2. ASSUME c \notin cut, "nul" \notin Range(wrote[c]) PROVE got[c] = wrote[c]
      <3>1. wrote[c] \in Seq(Bytes) /\ buf[c] = <<>>
        BY <2>2 DEF OutputInv, OutputShape, Dried
      <3>2. Text(wrote[c])
        BY <2>2, <3>1 DEF Text, Range
      <3>3. got[c] \in Seq(Bytes) /\ wrote[c] = got[c] \o <<>>
        BY <3>1, <3>2 DEF OutputInv, Accounted
      <3> QED BY <3>3
    <2> QED BY <2>1, <2>2
  <1> QED BY <1>1, <1>2, <1>3, PTL DEF Spec
=============================================================================
