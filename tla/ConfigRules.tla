----------------------------- MODULE ConfigRules -----------------------------
(***************************************************************************)
(* What a configuration means: normalizeConfig (cli/config.go), through      *)
(* which every load and save goes, what a load makes of the server (the      *)
(* former public one is replaced, the environment overrides), the settings   *)
(* of `cliks set` and the presets (cli/main.go).  The file may be of an      *)
(* earlier version or edited by hand.  Fields that are only checked against  *)
(* a list of names are left out, levels are in hundredths, and so are        *)
(* limits.  The two URLs are one field: they name the public relay           *)
(* ("public"), the former one ("legacy") or anything else ("own").           *)
(***************************************************************************)
EXTENDS Integers

CONSTANTS
    Level    \* numbers that are found in files and given to settings, in their range or not

ASSUME LevelAssumption == Level \subseteq Int

VARIABLES stored    \* the file

rulesVars == <<stored>>

Switches == {"share.keyboard", "share.mouse", "hear.keyboard", "hear.mouse", "muted", "volumeConfigured"}
Numbers  == {"volume", "density", "spatial.shuffleMinutes", "solo.people", "batch.ms"}
Servers  == {"public", "own", "legacy"}
Field == Switches \cup Numbers \cup {"server"}

\* CLIKS_API_URL and CLIKS_WS_URL as a process finds them.
Environment == {"unset", "public", "own"}

\* No file yet.
NoFile == [f \in {} |-> 0]

Clamped(n, low, high) == IF n < low THEN low ELSE IF n > high THEN high ELSE n

OrDefault(n, default) == IF n = 0 THEN default ELSE n

-----------------------------------------------------------------------------
\* Mutant: a volume of zero is one that was never set.
NormalVolumeOf0(c) == OrDefault(Clamped(c["volume"], 0, 100), 70)

\* A volume of zero is one, unless the file is from before volumeConfigured.
NormalVolume(c) == IF c["volumeConfigured"] THEN Clamped(c["volume"], 0, 100) ELSE 70

NormalBatch(c) == IF c["server"] = "public" THEN 500 ELSE OrDefault(c["batch.ms"], 500)

\* Something is shared, and something heard.
NormalKeyboard(c) == c["share.keyboard"] \/ ~c["share.mouse"]
NormalMouse(c)    == c["share.mouse"] \/ (~c["share.keyboard"] /\ NormalBatch(c) # 500)

Deaf(c) == ~c["hear.keyboard"] /\ ~c["hear.mouse"]

\* normalizeConfig
NormalConfig(c) ==
    [c EXCEPT !["volume"] = NormalVolume(c), !["volumeConfigured"] = TRUE,
              !["density"] = Clamped(OrDefault(@, 80), 15, 100),
              !["spatial.shuffleMinutes"] = Clamped(OrDefault(@, 10), 1, 60),
              !["solo.people"] = Clamped(OrDefault(@, 4), 1, 12),
              !["batch.ms"] = NormalBatch(c),
              !["share.keyboard"] = NormalKeyboard(c), !["share.mouse"] = NormalMouse(c),
              !["hear.keyboard"] = @ \/ Deaf(c), !["hear.mouse"] = @ \/ Deaf(c)]

\* loadConfig: the URLs of the former public relay become the new ones,
Renamed(c) == IF c["server"] = "legacy" THEN [c EXCEPT !["server"] = "public"] ELSE c

\* applyEnvURLOverrides: and those of the environment go before the file's; either way
\* the public relay has its own batch window.
Overridden(c, env) ==
    LET server == IF env = "unset" THEN c["server"] ELSE env
    IN  [c EXCEPT !["server"] = server, !["batch.ms"] = IF server = "public" THEN 500 ELSE @]

\* What loadConfig returns for a file.
Loaded(c, env) == Overridden(Renamed(NormalConfig(c)), env)

-----------------------------------------------------------------------------
\* The settings `cliks set` takes.
Values(k) ==
    IF k \in Numbers THEN Level ELSE IF k = "server" THEN Servers ELSE BOOLEAN

Keys == Field \ {"volumeConfigured"}

Refused(c, k, v) == k = "batch.ms" /\ c["server"] = "public" /\ v # 500

\* applyConfigSetting: the minutes are taken as they come.
Applied(c, k, v) ==
    CASE k = "volume"      -> [c EXCEPT ![k] = Clamped(v, 0, 100), !["volumeConfigured"] = TRUE]
      [] k = "density"     -> [c EXCEPT ![k] = Clamped(v, 15, 100)]
      [] k = "solo.people" -> [c EXCEPT ![k] = Clamped(v, 1, 12)]
      [] k = "batch.ms"    -> [c EXCEPT ![k] = Clamped(v, 100, 2000)]
      [] k = "server"      -> [c EXCEPT ![k] = v, !["batch.ms"] = IF v = "public" THEN 500 ELSE @]
      [] OTHER             -> [c EXCEPT ![k] = v]

\* cmdPreset: deep, balanced, social, quiet.
Presets == {<<45, 45>>, <<65, 75>>, <<80, 100>>, <<30, 30>>}

WithPreset(c, p) == [c EXCEPT !["volume"] = p[1], !["density"] = p[2], !["muted"] = FALSE]

\* loadConfig saves at once what it has made of the former public relay, not the rest.
SaveRenamed ==
    /\ stored # NoFile /\ NormalConfig(stored)["server"] = "legacy"
    /\ stored' = NormalConfig(Renamed(NormalConfig(stored)))

\* loadConfig, a change, saveConfig: of all that was loaded, the environment's server included.
SetKey(k, v, env) ==
    LET c == Loaded(stored, env)
    IN  stored # NoFile /\ ~Refused(c, k, v) /\ stored' = NormalConfig(Applied(c, k, v))

Preset(p, env) == stored # NoFile /\ stored' = NormalConfig(WithPreset(Loaded(stored, env), p))

\* Files of any age: no volumeConfigured, fields that are missing or out of range.
OldFile(s, v, b, server, n) ==
    [f \in Field |-> CASE f \in DOMAIN s -> s[f]
                       [] f = "muted"    -> FALSE
                       [] f = "volume"   -> v
                       [] f = "batch.ms" -> b
                       [] f = "server"   -> server
                       [] OTHER          -> n]

RulesInit == stored = NoFile

\* The program finds one.
FindFile ==
    /\ stored = NoFile
    /\ \E s \in [Switches \ {"muted"} -> BOOLEAN], v, b, n \in Level, server \in Servers :
          stored' = OldFile(s, v, b, server, n)

RulesNext ==
    \/ FindFile \/ SaveRenamed
    \/ \E env \in Environment : \/ \E k \in Keys : \E v \in Values(k) : SetKey(k, v, env)
                                \/ \E p \in Presets : Preset(p, env)

-----------------------------------------------------------------------------
Audible(c)  == ~Deaf(c)
Shares(c)   == c["share.keyboard"] \/ c["share.mouse"]

\* The server a process uses for a file.
ServerFor(c, env) == IF env # "unset" THEN env ELSE Renamed(c)["server"]

\* What a value means, brought into the range the setting has.
Meant(k, v) ==
    CASE k = "volume"      -> Clamped(v, 0, 100)
      [] k = "density"     -> Clamped(v, 15, 100)
      [] k = "solo.people" -> Clamped(v, 1, 12)
      [] k = "batch.ms"    -> Clamped(v, 100, 2000)
      [] k = "spatial.shuffleMinutes" -> Clamped(OrDefault(v, 10), 1, 60)
      [] OTHER             -> v

\* Switches that normalizeConfig turns on again in a configuration that would share
\* nothing or let nothing be heard.
TurnedOn(a) ==
    (IF Shares(a) THEN {} ELSE {"share.keyboard", "share.mouse"})
      \cup (IF Audible(a) THEN {} ELSE {"hear.keyboard", "hear.mouse"})

\* What is saved for `a`, of which the settings ks were given the values of said, keeps these
\* and the file's other settings.  The server is the one in use, so the environment's is saved
\* with any setting, and with the public relay goes its batch window.
Keeps(a, ks, said, env) ==
    LET c == NormalConfig(stored)
        d == NormalConfig(a)
        server == ServerFor(c, env)
    IN  /\ \A f \in ks \ TurnedOn(a) : d[f] = said[f]
        /\ \A f \in Field \ (ks \cup TurnedOn(a) \cup {"server", "batch.ms"}) : d[f] = c[f]
        /\ "server" \notin ks => d["server"] = server
        /\ "batch.ms" \notin ks =>
              d["batch.ms"] = IF "public" \in {server, d["server"]} THEN 500 ELSE c["batch.ms"]
        /\ Shares(d) /\ Audible(d)
        /\ NormalConfig(d) = d

\* Whatever the file is like and the environment says, one setting given to `cliks set` or a
\* preset is saved with the value it means (minutes out of range are taken without a word and
\* saved in range), a volume of zero included (architecture.md:150), together with every other
\* setting of the file, and loading gives what was saved.  The exceptions are said in Keeps.
SetIsKept ==
    stored # NoFile =>
    \A env \in Environment :
        LET c == Loaded(stored, env)
        IN  /\ \A k \in Keys : \A v \in Values(k) :
                  Refused(c, k, v) \/ Keeps(Applied(c, k, v), {k}, [f \in {k} |-> Meant(k, v)], env)
            /\ \A p \in Presets :
                  Keeps(WithPreset(c, p), {"volume", "density", "muted"},
                        [volume |-> p[1], density |-> p[2], muted |-> FALSE], env)
=============================================================================
