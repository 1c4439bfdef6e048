---------------------------- MODULE JobLifecycle ----------------------------
(***************************************************************************)
(* What GET /api/job/<job_id> shows of a job, whatever those who write its *)
(* metadata do to one another. The word a worker leaves at the end of an   *)
(* attempt stands until RQ repeats the attempt, of which there are so many,*)
(* or another gives a verdict, for which it must have found the job        *)
(* unfinished before, or the metadata is forgotten.                        *)
(***************************************************************************)
EXTENDS Naturals

VARIABLES status,   \* what a client is shown; "gone" is a 404
          attempt,  \* "none" yet, "runs", "said" (how it ended), or "over"
          retries,  \* how often RQ may still repeat it
          doubts    \* those who have found it unfinished and will say so

vars == <<status, attempt, retries, doubts>>

Judges == {"route", "abandon", "reaper"}
Terminal == {"completed", "failed", "abandoned"}
Unfinished == {"started", "running", "unknown"}

Init == status = "gone" /\ attempt = "none" /\ retries \in Nat /\ doubts = {}

Accept ==
    /\ attempt = "none" /\ status = "gone"
    /\ status' = "queued"
    /\ UNCHANGED <<attempt, retries, doubts>>

\* The route may take for failed what has begun.
Begin ==
    /\ attempt = "none" /\ attempt' = "runs"
    /\ doubts' \in {doubts, doubts \cup {"route"}}
    /\ UNCHANGED <<status, retries>>

Work ==
    /\ attempt = "runs"
    /\ status' \in Unfinished
    /\ UNCHANGED <<attempt, retries, doubts>>

\* The last word of an attempt, which may be lost.
Say ==
    /\ attempt = "runs" /\ attempt' = "said"
    /\ status' \in {status, "completed", "failed"}
    /\ UNCHANGED <<retries, doubts>>

Again ==
    /\ attempt \in {"runs", "said"} /\ retries > 0
    /\ attempt' = "runs" /\ retries' = retries - 1
    /\ UNCHANGED <<status, doubts>>

Over ==
    /\ attempt = "said" \/ (attempt = "runs" /\ retries = 0)
    /\ attempt' = "over"
    /\ UNCHANGED <<status, retries, doubts>>

Doubt(j) ==
    /\ attempt = "none" \/ status \notin Terminal
    /\ doubts' = doubts \cup {j}
    /\ UNCHANGED <<status, attempt, retries>>

\* A verdict, which may be lost or not be given after all.
Verdict(j) ==
    /\ j \in doubts /\ doubts' = doubts \ {j}
    /\ status' \in {status, "failed", "abandoned"}
    /\ UNCHANGED <<attempt, retries>>

Forget == status' = "gone" /\ UNCHANGED <<attempt, retries, doubts>>

Next ==
    \/ Accept \/ Begin \/ Work \/ Say \/ Again \/ Over \/ Forget
    \/ \E j \in Judges : Doubt(j) \/ Verdict(j)

Spec == Init /\ [][Next]_vars
=============================================================================
