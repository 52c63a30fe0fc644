------------------------------ MODULE ConfigStore ------------------------------
(***************************************************************************)
(* The configuration file, its backup and its place in earlier versions     *)
(* (cli/config.go, cli/atomic_write.go), as used by several processes, any   *)
(* of which may end between two writes; a hand edit may leave the file       *)
(* damaged.  A write replaces a file whole or not at all.                    *)
(* A configuration is the edit it comes from, 0 for the defaults, with the   *)
(* nickname apart, which is left out of the file when empty.                 *)
(***************************************************************************)
EXTENDS Naturals

CONSTANTS
    Process,
    MaxEdits    \* bound

VARIABLES
    primary, backup, legacy,    \* the three files
    proc,       \* what each process is doing, what it is to put back, and the configuration it holds
    edits,      \* configurations made up so far
    saved       \* history: the configurations of completed saves

configVars == <<primary, backup, legacy, proc, edits, saved>>

Config  == [edit : 0 .. MaxEdits, named : BOOLEAN]
Default == [edit |-> 0, named |-> FALSE]

\* What a read finds: nothing, text that is not JSON, JSON some of whose fields have the
\* wrong type, or a configuration.
Missing   == [kind |-> "missing"]
NotJson   == [kind |-> "damaged", partly |-> FALSE, named |-> FALSE]
WrongType(named) == [kind |-> "damaged", partly |-> TRUE, named |-> named]
Saved(c)  == [kind |-> "saved", config |-> c]
File == {Missing, NotJson} \cup {WrongType(b) : b \in BOOLEAN} \cup {Saved(c) : c \in Config}

ConfigTypeOK ==
    /\ primary \in File /\ backup \in File /\ legacy \in File
    /\ proc \in [Process -> [at : {"idle", "migrate", "migrateWrite", "recover", "recoverWrite",
                                   "loaded", "backup"},
                             found : File, config : Config]]
    /\ edits \in 0 .. MaxEdits /\ saved \in SUBSET Config

ConfigInit ==
    /\ primary = Missing /\ backup = Missing
    /\ legacy \in {Missing, Saved([edit |-> 1, named |-> TRUE])}
    /\ proc = [p \in Process |-> [at |-> "idle", found |-> Missing, config |-> Default]]
    /\ edits = IF legacy = Missing THEN 0 ELSE 1
    /\ saved = {}

Step(p, from, to) == proc[p].at = from /\ proc' = [proc EXCEPT ![p].at = to]

\* Unmarshal over what the process has: a name that is not in the file stays as it was.
Over(c, f) ==
    CASE f.kind = "saved" -> [f.config EXCEPT !.named = @ \/ c.named]
      [] f.kind = "damaged" -> [c EXCEPT !.named = @ \/ f.named]

-----------------------------------------------------------------------------
(* loadConfig. *)

\* What was found becomes the primary file.
PutBack(p, from) ==
    /\ proc[p].at = from
    /\ primary' = proc[p].found
    /\ proc' = [proc EXCEPT ![p] = [at |-> "loaded", found |-> Missing, config |-> @.config]]
    /\ UNCHANGED <<backup, legacy, edits, saved>>

\* The file is read; what follows depends on what was found.
Load(p) ==
    /\ proc[p].at = "idle"
    /\ proc' = [proc EXCEPT ![p] =
         [at |-> CASE primary = Missing -> "migrate"
                   [] primary.kind = "damaged" -> "recover"
                   [] OTHER -> "loaded",
          found |-> Missing,
          config |-> IF primary = Missing THEN Default ELSE Over(Default, primary)]]
    /\ UNCHANGED <<primary, backup, legacy, edits, saved>>

\* No file: the one of an earlier version, if any, is copied.
ReadLegacy(p) ==
    /\ proc[p].at = "migrate"
    /\ proc' = [proc EXCEPT ![p] =
         [at |-> IF legacy = Missing THEN "loaded" ELSE "migrateWrite", found |-> legacy,
          config |-> IF legacy = Missing THEN Default ELSE Over(Default, legacy)]]
    /\ UNCHANGED <<primary, backup, legacy, edits, saved>>

CopyLegacy(p) == PutBack(p, "migrateWrite")

\* A damaged file: the backup is read over it, and put back in its place.
ReadBackup(p) ==
    /\ proc[p].at = "recover"
    /\ proc' = [proc EXCEPT ![p] =
         IF backup.kind = "saved"
         THEN [at |-> "recoverWrite", found |-> backup, config |-> Over(proc[p].config, backup)]
         ELSE [at |-> "loaded", found |-> Missing, config |-> Default]]
    /\ UNCHANGED <<primary, backup, legacy, edits, saved>>

Recover(p) == PutBack(p, "recoverWrite")

-----------------------------------------------------------------------------
(* Changes and saveConfig. *)

\* rememberTeam, forgetTeam, a setting, a name or none: another configuration.
Alter(p) ==
    /\ proc[p].at = "loaded" /\ edits < MaxEdits
    /\ edits' = edits + 1
    /\ \E b \in BOOLEAN : proc' = [proc EXCEPT ![p].config = [edit |-> edits', named |-> b]]
    /\ UNCHANGED <<primary, backup, legacy, saved>>

\* Mutant: the backup is the file that is replaced.
SaveOldAsBackup(p) ==
    /\ Step(p, "loaded", "backup") /\ proc[p].config.edit > 0
    /\ primary' = Saved(proc[p].config)
    /\ backup' = primary
    /\ UNCHANGED <<legacy, edits, saved>>

SavePrimary(p) ==
    /\ Step(p, "loaded", "backup") /\ proc[p].config.edit > 0
    /\ primary' = Saved(proc[p].config)
    /\ UNCHANGED <<backup, legacy, edits, saved>>

SaveBackup(p) ==
    /\ Step(p, "backup", "loaded")
    /\ backup' = Saved(proc[p].config) /\ saved' = saved \cup {proc[p].config}
    /\ UNCHANGED <<primary, legacy, edits>>

\* The process ends, done or killed, between any two writes; another takes its place.
End(p) ==
    /\ proc[p].at # "idle"
    /\ proc' = [proc EXCEPT ![p] = [at |-> "idle", found |-> Missing, config |-> Default]]
    /\ UNCHANGED <<primary, backup, legacy, edits, saved>>

\* An edit by hand: either JSON no longer, or a value of the wrong type.
Damage ==
    /\ primary.kind = "saved"
    /\ primary' \in {NotJson, WrongType(primary.config.named)}
    /\ UNCHANGED <<backup, legacy, proc, edits, saved>>

ConfigNext ==
    \/ \E p \in Process : \/ Load(p) \/ ReadLegacy(p) \/ CopyLegacy(p) \/ ReadBackup(p) \/ Recover(p)
                          \/ Alter(p) \/ SavePrimary(p) \/ SaveBackup(p) \/ End(p)
    \/ Damage

ConfigSpec == ConfigInit /\ [][ConfigNext]_configVars

-----------------------------------------------------------------------------
\* What a process has that found the file damaged and read the backup.
Recovered(p) == proc[p].at = "recover" /\ proc'[p].at \notin {"recover", "idle"}

\* "Damaged JSON can restore team history and preferences [...] instead of silently
\* replacing them with defaults" (README.md:356): once a save has completed, a process
\* that finds the file damaged gets a configuration that somebody saved, whoever saves or
\* ends between the two files meanwhile; but for the nickname, which stays that of the
\* damaged file when there is none in the backup.
DamageIsRecovered ==
    [][\A p \in Process : saved # {} /\ Recovered(p) =>
           \E c \in saved : proc'[p].config = [c EXCEPT !.named = @ \/ proc[p].config.named]]_configVars

\* What is recovered is a configuration that somebody saved, "the last-known-good backup" of
\* the warning (config.go:232).  NOT a property: the backup is unmarshalled over what could
\* be read of the damaged file, and a field the backup leaves out stays that of the damaged one.
RecoveredWasSaved ==
    [][\A p \in Process : saved # {} /\ Recovered(p) => proc'[p].config \in saved]_configVars
=============================================================================
