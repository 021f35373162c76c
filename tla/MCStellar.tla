------------------------------ MODULE MCStellar ------------------------------
(***************************************************************************)
(* Stellar for TLC: two calls of the daemon and one of the desktop with    *)
(* the admin's key, or one each with it and a third from another account.  *)
(***************************************************************************)
EXTENDS Stellar

CONSTANTS c1, c2, c3, c4, daemon, desktop, admin, other

VARIABLE out    \* the call that is not made

MCHome == [t \in Task |-> IF t \in {c3, c4} THEN desktop ELSE daemon]
MCSigner == [t \in Task |-> IF t = c4 THEN other ELSE admin]
MCCalls == [t \in Task |-> CASE t = c1 -> {"root"} [] t = c2 -> {"plain", "upload"}
                             [] t = c3 -> {"oplog", "record"} [] OTHER -> {"root", "oplog"}]

MCInit == Init /\ out \in {c2, c4}

MCNext ==
    /\ UNCHANGED out
    /\ \/ \E t \in Task \ {out} : Starts(t) \/ Step(t) \/ PollHttpError(t)
       \/ \E tx \in pool : Apply(tx) \/ Drop(tx)
       \/ \E p \in Process : Crash(p)
       \/ (\A t \in Task \ {out} : task[t].pc = "done") /\ pool = {} /\ UNCHANGED vars

MCSpec == MCInit /\ [][MCNext]_<<vars, out>> /\ \A t \in Task : WF_vars(Step(t))
=============================================================================
