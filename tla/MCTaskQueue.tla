----------------------------- MODULE MCTaskQueue -----------------------------
(* Small instances of TaskQueue for TLC.                                    *)
EXTENDS TaskQueue, TLC

MCSymmetry == Permutations(Workers)
MCRequests == {{"password", "root", "log"}, {"ssh"}}
MCPassword == {{"password", "log"}}

(* Two tasks without secrets that meet no disturbance, or one task: of any  *)
(* kind with one disturbance, without secrets with all of them.             *)
NoSecrets == req[1] \subseteq {"ssh"} /\ \A w \in Workers : thread[w].want \subseteq {"ssh"}
MCBounds ==
    \/ faults = 0 /\ NoSecrets
    \/ /\ status[2] = "unused"
       /\ Cardinality(Inserting) + (IF status[1] = "unused" THEN 0 ELSE 1) <= 1
       /\ faults <= 1 \/ NoSecrets
=============================================================================
