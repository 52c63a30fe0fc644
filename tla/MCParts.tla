------------------------------- MODULE MCParts -------------------------------
(* Parts of the relay and of the client that share no state in the model and      *)
(* whose questions need no fairness, in one run: each behaviour is one of one     *)
(* part, the others stay as they start.                                           *)
EXTENDS RateLimiter, TeamStore, ConfigStore, SessionView, CommandQueue, Touchpad, ConfigRules,
        Home, Handoff

\* Too low for every level, unset or silent, and too high for all but the batch window.
Levels == {-1, 0, 500}

VARIABLES part

Part == {"limiter", "store", "config", "view", "commands", "touchpad", "rules",
         "home", "handoff"}

partsVars == <<limiterVars, storeVars, configVars, viewVars, commandVars, touchpadVars,
               rulesVars, homeVars, handoffVars, part>>

Runs(p) == part = p

\* Parts with several initial states are in one of them when they do not run.
PartsInit ==
    /\ part \in Part
    /\ LimiterInit /\ ViewInit /\ CommandInit /\ TouchpadInit /\ RulesInit
    /\ HomeInit /\ HandoffInit
    /\ ConfigInit /\ (~Runs("config") => legacy = Missing)
    /\ StoreInit
    /\ ~Runs("store") => /\ store = [kind |-> "supabase", expires |-> FALSE]
                         /\ \A i \in Id : rows[i].state = "none" /\ rows[i].code = CHOOSE c \in Code : TRUE

PartsNext ==
    /\ UNCHANGED part
    /\ IF Runs("limiter")  THEN LimiterNext  ELSE UNCHANGED limiterVars
    /\ IF Runs("store")    THEN StoreNext    ELSE UNCHANGED storeVars
    /\ IF Runs("config")   THEN ConfigNext   ELSE UNCHANGED configVars
    /\ IF Runs("view")     THEN ViewNext     ELSE UNCHANGED viewVars
    /\ IF Runs("commands") THEN CommandNext  ELSE UNCHANGED commandVars
    /\ IF Runs("touchpad") THEN TouchpadNext ELSE UNCHANGED touchpadVars
    /\ IF Runs("rules")    THEN RulesNext    ELSE UNCHANGED rulesVars
    /\ IF Runs("home")     THEN HomeNext     ELSE UNCHANGED homeVars
    /\ IF Runs("handoff")  THEN HandoffNext  ELSE UNCHANGED handoffVars

PartsSpec == PartsInit /\ [][PartsNext]_partsVars
=============================================================================
