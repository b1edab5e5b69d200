---------------------------- MODULE MCSupervisor ----------------------------
(* The launcher, its loop and its operator on small instances.             *)
EXTENDS Supervisor

MCAllOutcomes == {"empty", "noexec", "wait", "execute", "other", "failed", "early"}

(* Without execute cycles the same-goal detector does not write.           *)
MCQuietOutcomes == MCAllOutcomes \ {"execute"}
MCAllMessages == {"resume", "answer", "note"}
=============================================================================
