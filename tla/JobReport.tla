----------------------------- MODULE JobReport -----------------------------
(***************************************************************************)
(* What a reader of the jobs table can rely on, without the queue, the     *)
(* writes in flight and the requests: how the row of a job and its dead    *)
(* letter event follow what became of the job's attempts.  The row may lag *)
(* behind, skip reports and go back to an earlier attempt; it never        *)
(* reports what did not happen.                                            *)
(***************************************************************************)
EXTENDS Integers

CONSTANTS MaxAttempts, DeadLetter

VARIABLES
    status, attempts,     \* the columns of the row
    deadLettered,         \* is there an outbox event for the dead letter queue
    succeeded, failures   \* has an attempt succeeded, and how many failed

reported == <<status, attempts, deadLettered>>
happened == <<succeeded, failures>>
reportVars == <<reported, happened>>

ReportInit ==
    /\ status = "none"
    /\ attempts = 0
    /\ deadLettered = FALSE
    /\ succeeded = FALSE
    /\ failures = 0

Create ==
    /\ status = "none"
    /\ status' = "queued"
    /\ UNCHANGED <<attempts, deadLettered, happened>>

\* Nothing happens to a job that has no row.
AttemptSucceeds ==
    /\ status # "none"
    /\ succeeded' = TRUE
    /\ UNCHANGED <<failures, reported>>

AttemptFails ==
    /\ status # "none"
    /\ failures' = failures + 1
    /\ UNCHANGED <<succeeded, reported>>

\* The number of an attempt exceeds that of the failures by at most one.
ReportActive(a) ==
    /\ status # "none"
    /\ a \in 1 .. MaxAttempts
    /\ a <= failures + 1
    /\ status' = "active"
    /\ attempts' = a
    /\ UNCHANGED <<deadLettered, happened>>

ReportCompleted ==
    /\ status # "none"
    /\ succeeded
    /\ status' = "completed"
    /\ UNCHANGED <<attempts, deadLettered, happened>>

\* A failed attempt that is not the last.
ReportRetrying(a) ==
    /\ status # "none"
    /\ a \in 1 .. MaxAttempts - 1
    /\ a <= failures
    /\ status' = "retrying"
    /\ attempts' = a
    /\ UNCHANGED <<deadLettered, happened>>

\* The last attempt failed.
ReportDeadLetter ==
    /\ status # "none"
    /\ failures >= MaxAttempts
    /\ status' = "dead_letter"
    /\ attempts' = MaxAttempts
    /\ deadLettered' = (deadLettered \/ DeadLetter)
    /\ UNCHANGED happened

Cancel ==
    /\ status = "queued"
    /\ status' = "cancelled"
    /\ UNCHANGED <<attempts, deadLettered, happened>>

ReportNext ==
    \/ Create \/ AttemptSucceeds \/ AttemptFails
    \/ \E a \in 1 .. MaxAttempts : ReportActive(a) \/ ReportRetrying(a)
    \/ ReportCompleted \/ ReportDeadLetter \/ Cancel

ReportSpec == ReportInit /\ [][ReportNext]_reportVars
=============================================================================
