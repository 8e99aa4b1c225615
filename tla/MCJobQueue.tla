----------------------------- MODULE MCJobQueue -----------------------------
(* Small instances of JobQueue for TLC. *)
EXTENDS JobQueue, TLC

CONSTANTS w1, w2

\* 5 s * 2^attempts capped at 600 s, one tick standing for 20 s.
MCBackoff == [a \in 0 .. MaxAttempts |-> IF a <= 1 THEN 1 ELSE 2]
NoBackoff == [a \in 0 .. MaxAttempts |-> 0]
OneResource == [k \in Kinds |-> "llm"]
TwoResources == [k \in Kinds |-> IF k = "media" THEN "ffmpeg" ELSE "default"]
OnePermit == [r \in Resources |-> 1]
TwoPermits == [r \in Resources |-> 2]
WorkerSymmetry == Permutations(Workers)
=============================================================================
