----------------------------- MODULE CommandQueue -----------------------------
(***************************************************************************)
(* The directory through which other processes send commands to the running  *)
(* session (cli/session_bridge.go): a file per command, named by the time    *)
(* and put there whole; the session lists, reads, removes and handles them   *)
(* every 120 ms, and removes the directory when it is released.              *)
(***************************************************************************)
EXTENDS Naturals, Sequences, FiniteSets

CONSTANTS
    Sender,     \* processes
    MaxNames     \* bound: commands named

ASSUME CommandAssumption == MaxNames \in Nat

VARIABLES
    time,       \* names given so far
    naming,     \* the name of the command each process is about to put there; 0: none
    dir,        \* the commands in the directory
    listed,     \* those listed, in the order of their names, and not handled yet
    running,    \* whether a session is
    handled     \* history: what sessions have handled

commandVars == <<time, naming, dir, listed, running, handled>>

Command == [name : 1 .. MaxNames, from : Sender]

CommandTypeOK ==
    /\ time \in 0 .. MaxNames /\ naming \in [Sender -> 0 .. MaxNames]
    /\ dir \subseteq Command /\ listed \in Seq(Command) /\ handled \in Seq(Command)
    /\ running \in BOOLEAN

CommandInit ==
    /\ time = 0 /\ naming = [s \in Sender |-> 0]
    /\ dir = {} /\ listed = <<>> /\ running = TRUE /\ handled = <<>>

\* enqueueSessionCommand: the name is made, of a clock that has moved,
Name(s) ==
    /\ naming[s] = 0 /\ time < MaxNames
    /\ time' = time + 1 /\ naming' = [naming EXCEPT ![s] = time']
    /\ UNCHANGED <<dir, listed, running, handled>>

\* and the file appears under it.
Put(s) ==
    /\ naming[s] # 0
    /\ dir' = dir \cup {[name |-> naming[s], from |-> s]}
    /\ naming' = [naming EXCEPT ![s] = 0]
    /\ UNCHANGED <<time, listed, running, handled>>

\* The commands of a directory, in the order of their names.
ByName(S) ==
    {q \in [1 .. Cardinality(S) -> S] : \A i, j \in DOMAIN q : i < j => q[i].name < q[j].name}

\* Mutant: in any order.
ListUnsorted ==
    /\ running /\ listed = <<>> /\ dir # {}
    /\ listed' \in {q \in [1 .. Cardinality(dir) -> dir] :
                     \A i, j \in DOMAIN q : i < j => q[i].name > q[j].name}
    /\ UNCHANGED <<time, naming, dir, running, handled>>

List ==
    /\ running /\ listed = <<>> /\ dir # {}
    /\ listed' \in ByName(dir)
    /\ UNCHANGED <<time, naming, dir, running, handled>>

\* A file that cannot be read is skipped.
Consume ==
    /\ listed # <<>> /\ listed' = Tail(listed)
    /\ dir' = dir \ {Head(listed)}
    /\ handled' = IF Head(listed) \in dir THEN Append(handled, Head(listed)) ELSE handled
    /\ UNCHANGED <<time, naming, running>>

\* The session ends, perhaps in the middle of its list, and removes the directory.
Leave ==
    /\ running /\ running' = FALSE /\ dir' = {} /\ listed' \in {listed, <<>>}
    /\ UNCHANGED <<time, naming, handled>>

Restart ==
    /\ ~running /\ running' = TRUE /\ listed' = <<>>
    /\ UNCHANGED <<time, naming, dir, handled>>

CommandNext ==
    \/ \E s \in Sender : Name(s) \/ Put(s)
    \/ List \/ Consume \/ Leave \/ Restart

CommandSpec == CommandInit /\ [][CommandNext]_commandVars

\* No session handles a command twice, and those of one process in the order it sent
\* them, though the names of several processes appear in another order than they were
\* made and a session may end in the middle of a list.
CommandsInOrder ==
    \A i, j \in 1 .. Len(handled) :
        i < j => handled[i] # handled[j]
                 /\ (handled[i].from = handled[j].from => handled[i].name < handled[j].name)
=============================================================================
