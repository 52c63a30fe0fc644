-------------------------- MODULE SessionLockProofs --------------------------
(* Who excludes whom in SessionLock, for any number of processes, commands and *)
(* attempts.                                                                   *)
EXTENDS SessionLock, TLAPS

\* A process that goes on to try has attempts left.
AttemptsLeft == \A p \in Proc : pc[p] = "creating" => attempts[p] < MaxAttempts

Typed == TypeOK /\ AttemptsLeft

\* Where a session process is once it has looked for siblings and found none.
Past(p) == pc[p] \in {"creating", "writing", "classifying", "recleaning", "owning",
                      "unlocking", "clearing"}

\* Of the processes that a scan shows, one at most has got past its own scan.
OnePast == \A p, q \in Scannable : Past(p) /\ Past(q) => p = q

\* As long as nobody has crashed, ended or been stopped, the lock is the file of the
\* one process that writes it or owns the device, it looks so to everybody, and
\* nobody cleans up.
FreshLock ==
    /\ \A a \in Proc \cup Cmd : pc[a] \notin {"cleaning", "recleaning"}
    /\ \A p \in Proc : pc[p] = "writing" =>
                          lock # NoLock /\ lock.by = p /\ ~lock.full
    /\ \A p \in Proc : pc[p] = "owning" => lock # NoLock /\ lock.by = p /\ lock.full
    /\ \A p \in Proc : pc[p] = "classifying" => lock # NoLock
    /\ lock # NoLock => pc[lock.by] \in {"writing", "owning"}
    /\ lock # NoLock /\ ~lock.full => lock.young

FreshInv == Undisturbed => FreshLock

-----------------------------------------------------------------------------
LEMMA InitTyped == Init => Typed
<1> SUFFICES ASSUME Init PROVE Typed
  OBVIOUS
<1> USE SessionAssumption
<1>1. TypeOK
  <2>1. pc \in [Proc \cup Cmd -> SessionPc \cup CmdPc]
    BY DEF Init, SessionPc, CmdPc
  <2>2. \A p \in Proc : pc[p] \in SessionPc
    BY DEF Init, SessionPc
  <2>3. \A c \in Cmd : pc[c] \in CmdPc
    BY DEF Init, CmdPc
  <2>4. attempts \in [Proc -> 0 .. MaxAttempts]
    BY DEF Init
  <2> QED BY <2>1, <2>2, <2>3, <2>4 DEF Init, TypeOK
<1>2. AttemptsLeft
  BY DEF Init, AttemptsLeft
<1> QED BY <1>1, <1>2 DEF Typed

\* Each action keeps the types.
LEMMA StepTyped == Typed /\ [Next]_vars => Typed'
<1> SUFFICES ASSUME Typed, [Next]_vars PROVE Typed'
  OBVIOUS
<1> USE SessionAssumption DEF Typed, TypeOK, AttemptsLeft, SessionPc, CmdPc, Lock, cmdVars
<1>1. ASSUME NEW a \in Proc \cup Cmd, AskActive(a) PROVE Typed'
  <2>1. CASE ReadLock(a)
    <3>1. CASE Readable /\ Alive(lock.by)
      <4>1. lock.by \in Proc
        BY <3>1 DEF Alive
      <4>2. Siblings(a) \subseteq Proc
        BY DEF Siblings
      <4> QED BY <2>1, <3>1, <4>1, <4>2 DEF ReadLock, Found
    <3>2. CASE ~(Readable /\ Alive(lock.by))
      BY <2>1, <3>2 DEF ReadLock
    <3> QED BY <3>1, <3>2
  <2>2. CASE CleanStale(a)
    BY <2>2 DEF CleanStale, CleanUp, Goto, Alive
  <2>3. CASE Scan(a)
    <3>1. ASSUME NEW p \in Proc, Found(a, p) PROVE Typed'
      BY <3>1, <2>3 DEF Scan, Found, Siblings
    <3>2. ASSUME NotFound(a), UNCHANGED <<active, duplicates>> PROVE Typed'
      BY <3>2, <2>3 DEF Scan, NotFound
    <3> QED BY <2>3, <3>1, <3>2 DEF Scan, Siblings, Alive
  <2> QED BY <1>1, <2>1, <2>2, <2>3 DEF AskActive
<1>2. ASSUME NEW p \in Proc, SessionNext(p) PROVE Typed'
  <2>1. CASE Start(p)  BY <2>1 DEF Start, Goto
  <2>2. CASE AskActive(p)  BY <2>2, <1>1
  <2>3. CASE Create(p)
    <3>1. attempts' \in [Proc -> 0 .. MaxAttempts]
      BY <2>3 DEF Create, Goto
    <3>2. CASE lock = NoLock
      <4>0. [by |-> p, full |-> FALSE, young |-> TRUE] \in Lock
        OBVIOUS
      <4>. HIDE DEF Lock
      <4>1. lock' = [by |-> p, full |-> FALSE, young |-> TRUE]
        BY <2>3, <3>2 DEF Create
      <4>2. /\ pc' = [pc EXCEPT ![p] = "writing"] /\ pc[p] = "creating"
            /\ UNCHANGED <<background, active, duplicates, stopped>>
        BY <2>3, <3>2 DEF Create, Goto
      <4>3. TypeOK'
        BY <3>1, <4>0, <4>1, <4>2
      <4>4. AttemptsLeft'
        BY <2>3, <4>2 DEF Create
      <4> QED BY <4>3, <4>4
    <3>3. CASE lock # NoLock
      BY <2>3, <3>1, <3>3 DEF Create, Goto
    <3> QED BY <3>2, <3>3
  <2>4. CASE WritePayload(p)  BY <2>4 DEF WritePayload, Goto
  <2>5. CASE WriteFails(p)  BY <2>5 DEF WriteFails, Goto
  <2>6. CASE Classify(p)  BY <2>6 DEF Classify, NextAttempt
  <2>7. CASE CleanCollision(p)
    BY <2>7 DEF CleanCollision, CleanUp, Goto, NextAttempt, Alive
  <2>8. CASE Exit(p)  BY <2>8 DEF Exit
  <2>9. CASE Release(p)  BY <2>9 DEF Release, Goto
  <2>10. CASE Unlock(p)  BY <2>10 DEF Unlock, Goto
  <2>11. CASE Clear(p)  BY <2>11 DEF Clear, Goto
  <2>12. CASE CreateFails(p)  BY <2>12 DEF CreateFails, Goto
  <2> QED BY <1>2, <2>1, <2>2, <2>3, <2>4, <2>5, <2>6, <2>7, <2>8, <2>9, <2>10, <2>11, <2>12
          DEF SessionNext
<1>3. ASSUME NEW c \in Cmd, CmdNext(c) PROVE Typed'
  <2>1. CASE Begin(c)  BY <2>1 DEF Begin, Goto
  <2>2. CASE AskActive(c)  BY <2>2, <1>1
  <2>3. CASE Signal(c)  BY <2>3 DEF Signal, Alive
  <2>4. ASSUME NEW next \in {"idle", "awaiting"}, RemoveFiles(c, next) PROVE Typed'
    BY <2>4 DEF RemoveFiles, Goto
  <2>5. CASE Gone(c)  BY <2>5 DEF Gone, Goto
  <2>6. CASE NotGone(c)  BY <2>6 DEF NotGone, Goto
  <2>7. ASSUME NEW p \in Proc, Spawn(c, p) PROVE Typed'
    BY <2>7 DEF Spawn
  <2>8. CASE SpawnFails(c)  BY <2>8 DEF SpawnFails, Goto
  <2>9. CASE Record(c)  BY <2>9 DEF Record, Goto
  <2>10. CASE Ready(c)  BY <2>10 DEF Ready, Goto
  <2>11. CASE Kill(c)  BY <2>11 DEF Kill, Alive
  <2> QED BY <1>3, <2>1, <2>2, <2>3, <2>4, <2>5, <2>6, <2>7, <2>8, <2>9, <2>10, <2>11
          DEF CmdNext
<1>4. ASSUME NEW p \in Proc, Crash(p) PROVE Typed'
  BY <1>4 DEF Crash
<1>5. CASE Age
  BY <1>5 DEF Age
<1>6. CASE UNCHANGED vars
  BY <1>6 DEF vars
<1> QED BY <1>2, <1>3, <1>4, <1>5, <1>6 DEF Next

\* Types: TypeOK, for any sets of processes and commands.
THEOREM SessionTypes == Spec => []TypeOK
<1>1. Typed => TypeOK
  BY DEF Typed
<1> QED BY InitTyped, StepTyped, <1>1, PTL DEF Spec

-----------------------------------------------------------------------------
\* Nobody gets past a scan that another one past it would have shown in.
LEMMA StepOnePast == Typed /\ OnePast /\ [Next]_vars => OnePast'
<1> SUFFICES ASSUME Typed, OnePast, [Next]_vars PROVE OnePast'
  OBVIOUS
<1> USE SessionAssumption DEF Typed, TypeOK
\* A step keeps the property if it brings nobody past the scan.
<1>1. ASSUME \A p \in Scannable : Past(p)' => Past(p) PROVE OnePast'
  BY <1>1 DEF OnePast
<1>2. ASSUME NEW a \in Proc \cup Cmd, AskActive(a) PROVE OnePast'
  <2>1. CASE ReadLock(a)
    BY <2>1, <1>1 DEF ReadLock, Found, Past
  <2>2. CASE CleanStale(a)
    BY <2>2, <1>1 DEF CleanStale, Goto, Past
  <2>3. CASE Scan(a)
    <3>1. ASSUME NEW p \in Proc, Found(a, p) PROVE OnePast'
      BY <3>1, <1>1 DEF Found, Past
    <3>2. CASE Siblings(a) = {} /\ NotFound(a)
      <4>1. \A p \in Scannable : p # a => ~Past(p)
        BY <3>2 DEF Siblings, Past, Alive
      <4>2. \A p \in Scannable : p # a => pc'[p] = pc[p]
        BY <3>2 DEF NotFound
      <4> QED BY <4>1, <4>2 DEF OnePast, Past
    <3> QED BY <2>3, <3>1, <3>2 DEF Scan, Siblings, Alive
  <2> QED BY <1>2, <2>1, <2>2, <2>3 DEF AskActive
<1>3. ASSUME NEW p \in Proc, SessionNext(p) PROVE OnePast'
  <2>1. CASE AskActive(p)  BY <2>1, <1>2
  <2>2. CASE Start(p)  BY <2>2, <1>1 DEF Start, Goto, Past
  <2>3. CASE Create(p)  BY <2>3, <1>1 DEF Create, Goto, Past
  <2>4. CASE WritePayload(p)  BY <2>4, <1>1 DEF WritePayload, Goto, Past
  <2>5. CASE WriteFails(p)  BY <2>5, <1>1 DEF WriteFails, Goto, Past
  <2>6. CASE Classify(p)  BY <2>6, <1>1 DEF Classify, Past
  <2>7. CASE CleanCollision(p)  BY <2>7, <1>1 DEF CleanCollision, Goto, Past
  <2>8. CASE Exit(p)  BY <2>8, <1>1 DEF Exit, Past
  <2>9. CASE Release(p)  BY <2>9, <1>1 DEF Release, Goto, Past
  <2>10. CASE Unlock(p)  BY <2>10, <1>1 DEF Unlock, Goto, Past
  <2>11. CASE Clear(p)  BY <2>11, <1>1 DEF Clear, Goto, Past
  <2>12. CASE CreateFails(p)  BY <2>12, <1>1 DEF CreateFails, Goto, Past
  <2> QED BY <1>3, <2>1, <2>2, <2>3, <2>4, <2>5, <2>6, <2>7, <2>8, <2>9, <2>10, <2>11, <2>12
          DEF SessionNext
<1>4. ASSUME NEW c \in Cmd, CmdNext(c) PROVE OnePast'
  <2>1. CASE AskActive(c)  BY <2>1, <1>2
  <2>2. CASE Begin(c)  BY <2>2, <1>1 DEF Begin, Goto, Past
  <2>3. CASE Signal(c)  BY <2>3, <1>1 DEF Signal, Past
  <2>4. ASSUME NEW next \in {"idle", "awaiting"}, RemoveFiles(c, next) PROVE OnePast'
    BY <2>4, <1>1 DEF RemoveFiles, Goto, Past
  <2>5. CASE Gone(c)  BY <2>5, <1>1 DEF Gone, Goto, Past
  <2>6. CASE NotGone(c)  BY <2>6, <1>1 DEF NotGone, Goto, Past
  <2>7. ASSUME NEW p \in Proc, Spawn(c, p) PROVE OnePast'
    BY <2>7, <1>1 DEF Spawn, Past
  <2>8. CASE SpawnFails(c)  BY <2>8, <1>1 DEF SpawnFails, Goto, Past
  <2>9. CASE Record(c)  BY <2>9, <1>1 DEF Record, Goto, Past
  <2>10. CASE Ready(c)  BY <2>10, <1>1 DEF Ready, Goto, Past
  <2>11. CASE Kill(c)  BY <2>11, <1>1 DEF Kill, Past
  <2> QED BY <1>4, <2>1, <2>2, <2>3, <2>4, <2>5, <2>6, <2>7, <2>8, <2>9, <2>10, <2>11
          DEF CmdNext
<1>5. ASSUME NEW p \in Proc, Crash(p) PROVE OnePast'
  BY <1>5, <1>1 DEF Crash, Past
<1>6. CASE Age
  BY <1>6, <1>1 DEF Age, Past
<1>7. CASE UNCHANGED vars
  BY <1>7, <1>1 DEF vars, Past
<1> QED BY <1>3, <1>4, <1>5, <1>6, <1>7 DEF Next

\* Background and login starts exclude each other: ScannableExclude.
THEOREM ScannableSessionsExclude == Spec => []ScannableExclude
<1>1. Init => OnePast
  BY SessionAssumption DEF Init, OnePast, Past
<1>2. OnePast => ScannableExclude
  BY DEF OnePast, Past, ScannableExclude, Owners
<1> QED BY InitTyped, StepTyped, StepOnePast, <1>1, <1>2, PTL DEF Spec

-----------------------------------------------------------------------------
\* Once disturbed, a device stays disturbed.
LEMMA DisturbedForGood == Typed /\ [Next]_vars /\ Undisturbed' => Undisturbed
<1> SUFFICES ASSUME Typed, [Next]_vars, ~Undisturbed PROVE ~Undisturbed'
  OBVIOUS
<1> USE SessionAssumption DEF Typed, TypeOK, Undisturbed, cmdVars
<1> DEFINE Ended == {"crashed", "error", "done", "unlocking", "clearing"}
\* What ended a session is never undone.
<1>1. ASSUME \A p \in Proc : pc[p] \in Ended => pc'[p] \in Ended, stopped => stopped'
      PROVE ~Undisturbed'
  BY <1>1
<1>2. ASSUME NEW a \in Proc \cup Cmd, AskActive(a) PROVE ~Undisturbed'
  BY <1>1, <1>2 DEF AskActive, ReadLock, CleanStale, Scan, Found, NotFound, Goto
<1>3. ASSUME NEW p \in Proc, SessionNext(p) PROVE ~Undisturbed'
  <2>1. CASE AskActive(p)  BY <2>1, <1>2
  <2>2. CASE Start(p) \/ Create(p) \/ CreateFails(p) \/ WritePayload(p) \/ WriteFails(p)
    BY <2>2, <1>1 DEF Start, Create, CreateFails, WritePayload, WriteFails, Goto
  <2>3. CASE Classify(p) \/ CleanCollision(p) \/ Exit(p)
    BY <2>3, <1>1 DEF Classify, CleanCollision, Exit, Goto
  <2>4. CASE Release(p) \/ Unlock(p) \/ Clear(p)
    BY <2>4, <1>1 DEF Release, Unlock, Clear, Goto
  <2> QED BY <1>3, <2>1, <2>2, <2>3, <2>4 DEF SessionNext
<1>4. ASSUME NEW c \in Cmd, CmdNext(c) PROVE ~Undisturbed'
  <2>1. CASE AskActive(c)  BY <2>1, <1>2
  <2>2. CASE Signal(c)
    BY <2>2, <1>1 DEF Signal, Alive
  <2>3. ASSUME NEW next \in {"idle", "awaiting"}, RemoveFiles(c, next) PROVE ~Undisturbed'
    BY <2>3 DEF RemoveFiles
  <2>4. ASSUME NEW p \in Proc, Spawn(c, p) PROVE ~Undisturbed'
    BY <2>4, <1>1 DEF Spawn
  <2>5. CASE Kill(c)
    BY <2>5, <1>1 DEF Kill
  <2>6. CASE Begin(c) \/ Gone(c) \/ NotGone(c) \/ SpawnFails(c) \/ Record(c) \/ Ready(c)
    BY <2>6, <1>1 DEF Begin, Gone, NotGone, SpawnFails, Record, Ready, Goto
  <2> QED BY <1>4, <2>1, <2>2, <2>3, <2>4, <2>5, <2>6 DEF CmdNext
<1>5. CASE (\E p \in Proc : Crash(p)) \/ Age \/ UNCHANGED vars
  BY <1>5, <1>1 DEF Crash, Age, vars
<1> QED BY <1>3, <1>4, <1>5 DEF Next

\* On an undisturbed device the lock is always what it seems.
LEMMA StepFresh == Typed /\ FreshInv /\ [Next]_vars => FreshInv'
<1> SUFFICES ASSUME Typed, FreshLock, Undisturbed, Undisturbed', [Next]_vars
             PROVE  FreshLock'
  BY DisturbedForGood DEF FreshInv
<1> USE SessionAssumption DEF Typed, TypeOK, cmdVars
\* A complete lock is its live owner's.
<1>1. /\ Readable => Alive(lock.by)
      /\ lock \in Lock \cup {NoLock} /\ (lock # NoLock => lock.by \in Proc)
  BY DEF FreshLock, Readable, Alive, Lock
\* A step keeps the invariant if it leaves the lock and its process alone and brings
\* nobody to a place the invariant speaks about.
<1>2. ASSUME lock' = lock,
             \A a \in Proc \cup Cmd : pc'[a] \notin {"cleaning", "recleaning"},
             \A p \in Proc : pc'[p] \in {"writing", "owning"} <=> pc[p] \in {"writing", "owning"},
             \A p \in Proc : pc'[p] = "writing" <=> pc[p] = "writing",
             \A p \in Proc : pc'[p] = "classifying" => lock # NoLock
      PROVE  FreshLock'
  BY <1>1, <1>2 DEF FreshLock
<1>3. ASSUME NEW a \in Proc \cup Cmd, AskActive(a) PROVE FreshLock'
  <2>1. CASE ReadLock(a)
    <3>1. pc[a] = "reading" /\ lock' = lock
      BY <2>1 DEF ReadLock
    <3>2. pc'[a] \in {"refused", "idle", "signalling", "scanning"}
      BY <2>1, <1>1 DEF ReadLock, Found
    <3>3. \A b \in Proc \cup Cmd : b # a => pc'[b] = pc[b]
      BY <2>1 DEF ReadLock, Found
    <3> QED BY <3>1, <3>2, <3>3, <1>2 DEF FreshLock
  <2>2. CASE CleanStale(a)
    BY <2>2 DEF CleanStale, Goto, FreshLock
  <2>3. CASE Scan(a)
    <3>1. pc[a] = "scanning" /\ lock' = lock
      BY <2>3 DEF Scan
    <3>2. pc'[a] \in {"refused", "idle", "signalling", "spawning", "creating", "failed"}
      BY <2>3 DEF Scan, Found, NotFound
    <3>3. \A b \in Proc \cup Cmd : b # a => pc'[b] = pc[b]
      BY <2>3 DEF Scan, Found, NotFound
    <3> QED BY <3>1, <3>2, <3>3, <1>2 DEF FreshLock
  <2> QED BY <1>3, <2>1, <2>2, <2>3 DEF AskActive
<1>4. ASSUME NEW p \in Proc, SessionNext(p) PROVE FreshLock'
  <2>1. CASE AskActive(p)  BY <2>1, <1>3
  <2>2. CASE Start(p)  BY <2>2, <1>2 DEF Start, Goto, FreshLock
  <2>3. CASE Create(p)
    <3>1. CASE lock = NoLock
      <4>0. [by |-> p, full |-> FALSE, young |-> TRUE] \in Lock
        BY DEF Lock
      <4>1. lock' = [by |-> p, full |-> FALSE, young |-> TRUE]
        BY <2>3, <3>1 DEF Create
      <4>5. lock' # NoLock
        BY <4>0, <4>1
      <4>2. pc' = [pc EXCEPT ![p] = "writing"]
        BY <2>3, <3>1 DEF Create, Goto
      <4>3. \A q \in Proc : pc[q] \notin {"writing", "owning"}
        BY <3>1 DEF FreshLock
      <4>4. /\ pc'[p] = "writing" /\ lock'.by = p /\ ~lock'.full /\ lock'.young
            /\ \A b \in Proc \cup Cmd : b # p => pc'[b] = pc[b]
        BY <4>1, <4>2
      <4> QED BY <4>3, <4>4, <4>5 DEF FreshLock
    <3>2. CASE lock # NoLock
      BY <2>3, <3>2, <1>2 DEF Create, Goto, FreshLock
    <3> QED BY <3>1, <3>2
  <2>4. CASE WritePayload(p)
    <3>1. pc' = [pc EXCEPT ![p] = "owning"] /\ pc[p] = "writing"
      BY <2>4 DEF WritePayload, Goto
    <3>2. lock # NoLock /\ lock.by = p
      BY <3>1 DEF FreshLock
    <3>0. [by |-> p, full |-> TRUE, young |-> FALSE] \in Lock
      BY DEF Lock
    <3>3. lock' = [by |-> p, full |-> TRUE, young |-> FALSE]
      BY <2>4, <3>2 DEF WritePayload
    <3>6. lock' # NoLock
      BY <3>0, <3>3
    <3>4. \A q \in Proc : q # p => pc[q] \notin {"writing", "owning"}
      BY <3>2 DEF FreshLock
    <3>5. /\ pc'[p] = "owning" /\ lock'.by = p /\ lock'.full
          /\ \A b \in Proc \cup Cmd : b # p => pc'[b] = pc[b]
      BY <3>1, <3>3
    <3> QED BY <3>4, <3>5, <3>6 DEF FreshLock
  <2>5. CASE CreateFails(p) \/ WriteFails(p)
    BY <2>5 DEF CreateFails, WriteFails, Goto, Undisturbed
  <2>6. CASE Classify(p)
    <3>1. pc[p] = "classifying" /\ lock' = lock /\ lock # NoLock
      BY <2>6 DEF Classify, FreshLock
    <3>2. Readable \/ lock.young
      BY <3>1 DEF FreshLock, Readable
    <3>3. pc'[p] \in {"refused", "creating", "reading"}
      BY <2>6, <1>1, <3>1, <3>2 DEF Classify, NextAttempt
    <3>4. \A b \in Proc \cup Cmd : b # p => pc'[b] = pc[b]
      BY <2>6 DEF Classify
    <3> QED BY <3>1, <3>3, <3>4, <1>2 DEF FreshLock
  <2>7. CASE CleanCollision(p)
    BY <2>7 DEF CleanCollision, Goto, FreshLock
  <2>8. CASE Exit(p)
    BY <2>8, <1>2 DEF Exit, FreshLock
  <2>9. CASE Release(p) \/ Unlock(p) \/ Clear(p)
    BY <2>9 DEF Release, Unlock, Clear, Goto, Undisturbed
  <2> QED BY <1>4, <2>1, <2>2, <2>3, <2>4, <2>5, <2>6, <2>7, <2>8, <2>9 DEF SessionNext
<1>5. ASSUME NEW c \in Cmd, CmdNext(c) PROVE FreshLock'
  <2>1. CASE AskActive(c)  BY <2>1, <1>3
  <2>2. CASE Signal(c)
    <3>1. \A p \in Proc : pc'[p] = pc[p]
      BY <2>2 DEF Signal, Undisturbed
    <3>2. lock' = lock /\ \A a \in Cmd : pc'[a] = pc[a] \/ pc'[a] = "removing"
      BY <2>2 DEF Signal, Alive
    <3> QED BY <3>1, <3>2, <1>2 DEF FreshLock
  <2>3. ASSUME NEW next \in {"idle", "awaiting"}, RemoveFiles(c, next) PROVE FreshLock'
    BY <2>3 DEF RemoveFiles, Undisturbed
  <2>4. ASSUME NEW p \in Proc, Spawn(c, p) PROVE FreshLock'
    BY <2>4, <1>2 DEF Spawn, FreshLock
  <2>5. CASE Kill(c)
    <3>1. \A p \in Proc : pc'[p] = pc[p]
      BY <2>5 DEF Kill, Undisturbed
    <3>2. lock' = lock /\ \A a \in Cmd : pc'[a] = pc[a] \/ pc'[a] = "idle"
      BY <2>5 DEF Kill, Alive
    <3> QED BY <3>1, <3>2, <1>2 DEF FreshLock
  <2>6. CASE Begin(c) \/ Gone(c) \/ NotGone(c) \/ SpawnFails(c) \/ Record(c) \/ Ready(c)
    BY <2>6, <1>2 DEF Begin, Gone, NotGone, SpawnFails, Record, Ready, Goto, FreshLock
  <2> QED BY <1>5, <2>1, <2>2, <2>3, <2>4, <2>5, <2>6 DEF CmdNext
<1>6. ASSUME NEW p \in Proc, Crash(p) PROVE FreshLock'
  BY <1>6 DEF Crash, Undisturbed
<1>7. CASE Age
  <2>1. lock # NoLock /\ pc[lock.by] = "owning" /\ lock.by \in Proc
    BY <1>7, <1>1 DEF Age, FreshLock
  <2>2. lock' = [lock EXCEPT !.young = FALSE] /\ pc' = pc /\ lock \in Lock
    BY <1>7, <2>1 DEF Age
  <2>3. lock' # NoLock /\ lock'.by = lock.by /\ lock'.full = lock.full /\ lock.full
    BY <2>1, <2>2 DEF Lock, FreshLock
  <2> QED BY <2>1, <2>2, <2>3 DEF FreshLock
<1>8. CASE UNCHANGED vars
  BY <1>8, <1>2 DEF vars, FreshLock
<1> QED BY <1>4, <1>5, <1>6, <1>7, <1>8 DEF Next

\* Starts on a free device exclude each other: FreshStartsExclude.
THEOREM FreshSessionsExclude == Spec => []FreshStartsExclude
<1>1. Init => FreshInv
  BY SessionAssumption DEF Init, FreshInv, FreshLock
<1>2. Typed /\ FreshInv => FreshStartsExclude
  BY DEF FreshInv, FreshLock, FreshStartsExclude, AtMostOneOwner, Owners
<1> QED BY InitTyped, StepTyped, StepFresh, <1>1, <1>2, PTL DEF Spec
=============================================================================
