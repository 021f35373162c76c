------------------------------ MODULE MCRoles ------------------------------
(***************************************************************************)
(* Roles for TLC.  The attester, the reader and the manager meet only in   *)
(* the chain, which none of them changes, so a behaviour follows one of    *)
(* them: `focus` is chosen at the start and the other two stand still.     *)
(***************************************************************************)
EXTENDS Roles

VARIABLE focus

MCInit == Init /\ focus \in {"attester", "reader", "manager"}

\* The attester does not look at CIDs and leaves, the reader's rebuild not at oplog roots.
OnlyWhatFocusSees ==
    \A n \in DOMAIN chain' :
        IF focus = "attester" THEN chain'[n].cid /\ ~chain'[n].keyed ELSE chain'[n].root = NoOplog

MCNext ==
    /\ UNCHANGED focus
    /\ \/ focus # "manager" /\ SourceNext /\ OnlyWhatFocusSees
       \/ focus = "attester" /\ AttesterNext
       \/ focus = "reader" /\ ReaderNext
       \/ focus = "manager" /\ ManagerNext

MCSpec == MCInit /\ [][MCNext]_<<vars, focus>> /\ (focus = "attester" => Fairness)

\* Only a behaviour that follows the attester has its steps.
LoopReaches == focus = "attester" => LoopReachesEverySequence
=============================================================================
