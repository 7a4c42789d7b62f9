-------------------------- MODULE MCProcessMonitor --------------------------
(* Two ProcessMonitor instances against a table of three processes: the   *)
(* agent itself (pid 1), a protected one (pid 3) and pid 2.  Instance a    *)
(* matches by command line, b by pid (the protected one, whose first      *)
(* metric raises AccessDenied); NMetrics in the cfg bounds the loop.       *)
EXTENDS ProcessMonitor

MCInstances == {"a", "b"}
MCProcs == {1, 2, 3}
MCByCommandline == {"a"}
MCPid == [i \in MCInstances |-> IF i = "a" THEN None ELSE 3]
(* b targets pid 2 instead, so that both instances emit.                   *)
MCRacePid == [i \in MCInstances |-> IF i = "a" THEN None ELSE 2]
MCMatch == [i \in MCInstances |-> {2, 3}]
MCDenied == {3}

(* Instance a matches only pid 3, and no process denies access: the       *)
(* iteration reaches pid 2 before the match.                               *)
MCLateMatch == [i \in MCInstances |-> {3}]
MCNoneDenied == {}
=============================================================================
