-------------------------------- MODULE Teams --------------------------------
(* What the relay expects of any team store (server/store.go): a code names one *)
(* team at a time, and a team that is gone stays gone.                          *)
CONSTANTS Id, Code

VARIABLES
    status,     \* of each team
    codeOf      \* the code it was created with

teamsVars == <<status, codeOf>>

Named(c) == {i \in Id : status[i] = "live" /\ codeOf[i] = c}

TeamsInit ==
    /\ status \in [Id -> {"none", "live"}] /\ codeOf \in [Id -> Code]
    /\ \A c \in Code : \A i, j \in Named(c) : i = j

Begin(i, c) ==
    /\ status[i] = "none" /\ Named(c) = {}
    /\ status' = [status EXCEPT ![i] = "live"]
    /\ codeOf' = [codeOf EXCEPT ![i] = c]

\* By deletion, or all that have been idle too long.
Finish(S) ==
    /\ \A i \in S : status[i] = "live"
    /\ status' = [i \in Id |-> IF i \in S THEN "gone" ELSE status[i]]
    /\ UNCHANGED codeOf

TeamsNext ==
    /\ status' # status
    /\ (\E i \in Id, c \in Code : Begin(i, c)) \/ (\E S \in SUBSET Id : Finish(S))

TeamsSpec == TeamsInit /\ [][TeamsNext]_teamsVars
==============================================================================
