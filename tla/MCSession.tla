------------------------------ MODULE MCSession ------------------------------
(* Session and, in behaviours of its own, AudioEngine, with which it shares no    *)
(* state in the model: each behaviour is one of one of the two.                   *)
EXTENDS Session, AudioEngine

VARIABLES part

partsVars == <<vars, audioVars, part>>

\* Where a session is that has ended: its goroutines have returned.
SessionOver ==
    /\ loop = "ended" /\ cancelled = TRUE /\ stopper = "done" /\ batcher = "ended"
    /\ sender = [s \in Sender |-> "ended"]
    /\ conn = NoConn /\ ws = NoConn /\ mu = Nobody /\ fatal = FALSE /\ limited = FALSE
    /\ sock = [c \in Conn |-> "closed"] /\ first = [c \in Conn |-> "nothing"]
    /\ watcher = [c \in Conn |-> "off"]
    /\ captured = MaxEvents /\ local = <<>> /\ batch = <<>> /\ timer = FALSE /\ sent = <<>>

\* Beside the sounds there is no session that fairness could ask anything of, and beside
\* a session no sound is asked for.
PartsInit ==
    /\ AudioInit
    /\ \/ part = "session" /\ Init
       \/ part = "audio" /\ SessionOver

PartsNext ==
    /\ UNCHANGED part
    /\ IF part = "session" THEN Next      ELSE UNCHANGED vars
    /\ IF part = "audio"   THEN AudioNext ELSE UNCHANGED audioVars

PartsFairSpec ==
    /\ PartsInit /\ [][PartsNext]_partsVars
    /\ Fairness /\ WritesEnd /\ AudioFair
=============================================================================
