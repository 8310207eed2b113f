-------------------------- MODULE MCWorkerManagement --------------------------
(* An instance of WorkerManagement for TLC.                                  *)
EXTENDS WorkerManagement, TLC

CONSTANTS r1, r2

\* A boost picks up too; "stats" and "health" read what "diagnose" reads,
\* "realtime" what "scale" reads.
MCOps == r1 :> {"status", "dashboard", "diagnose", "scale", "failed jobs", "failed job", "activate"}
      @@ r2 :> {"boost", "pause", "resume"}
===============================================================================
