----------------------------- MODULE MCCapture -----------------------------
(***************************************************************************)
(* Capture for TLC.  The daemon has no connections, and a call only meets  *)
(* a listener through the server's log, whatever method it is.  So a       *)
(* behaviour follows one of three stories, chosen at the start: the daemon *)
(* and its listener, connections of the desktop with their listeners and a *)
(* single kind of write, or all calls on one connection.  The last two get *)
(* one fault and two writes, connections one call beside other clients.    *)
(***************************************************************************)
EXTENDS Capture

VARIABLE focus

First == CHOOSE c \in Conns : TRUE

MCInit ==
    /\ Init
    /\ focus \in {"daemon", "connections", "calls"}
    /\ (focus = "daemon") <=> (role = "daemon")
    /\ focus = "connections" => topology = "rs"
    /\ focus = "calls" => topology # "rs"

MCNext ==
    /\ UNCHANGED focus
    /\ \/ focus = "daemon" /\ (ListenerNext \/ OtherWrite \/ Restart \/ TokenExpires(Daemon))
       \/ focus = "connections" /\ (ListenerNext \/ ConnectionNext \/ RecordCall \/ CallReturns \/ Restart \/ OtherWrite
                                    \/ \E c \in Conns : InsertDocument(c))
       \/ focus = "calls" /\ (\/ OpenConnection(First) \/ \E o \in opening : StartFor(o)
                              \/ CommandNext \/ ShellNext \/ RecordCall \/ CallReturns \/ ShellReturns \/ Restart)
    /\ focus # "daemon" => faults' <= 1 /\ Len(writes') <= 2
    /\ focus = "connections" => calls' <= 1 /\ \A w \in DOMAIN writes' : writes'[w].type # "modify"

MCSpec == MCInit /\ [][MCNext]_<<vars, focus>> /\ (focus = "daemon" => Fairness)

\* EventuallyCaptured, under the fairness of the daemon's runtime.
DaemonCaptures == focus = "daemon" => EventuallyCaptured
=============================================================================
