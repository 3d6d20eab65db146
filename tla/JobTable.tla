------------------------------ MODULE JobTable ------------------------------
(***************************************************************************)
(* The jobs table of internal/db: one row per file that was ever queued,   *)
(* and the SQL statements the rest of the program runs against it.  Every  *)
(* statement is one operator over the table's variables, with the WHERE    *)
(* clause of the statement deciding which rows it changes; the modules     *)
(* that extend this one turn statements into steps of workers and web      *)
(* handlers.  The database executes one statement (or one transaction) at  *)
(* a time: SQLite has a single connection and immediate transactions,      *)
(* Postgres row locks.                                                     *)
(*                                                                         *)
(* Columns that no behaviour depends on (sizes, codecs, speed, messages)   *)
(* are left out.  updated_at is abstracted to the set `old` of rows that   *)
(* have not been written for stale_after.                                  *)
(***************************************************************************)
EXTENDS Integers, FiniteSets

CONSTANTS
    Job,          \* row ids; an id is never reused
    File,         \* file paths
    FileOf,       \* the file_path of each row
    Library,      \* library names
    LibOf,        \* the library column of each row
    PriorityOf,   \* the priority column of each row
    Worker,       \* worker ids
    NoWorker,     \* NULL in the worker_id column
    SkipLocked    \* does a claim pass over rows that others have locked?
                  \* Postgres: FOR UPDATE SKIP LOCKED; SQLite has no row locks

ASSUME TableAssumption ==
    /\ FileOf \in [Job -> File]
    /\ LibOf \in [Job -> Library]
    /\ PriorityOf \in [Job -> Nat]
    /\ NoWorker \notin Worker
    /\ SkipLocked \in BOOLEAN

VARIABLES
    status,     \* the status column; "absent" before INSERT, "deleted" after DELETE
    owner,      \* the worker_id column
    cancelReq,  \* rows whose cancel_requested is true
    old         \* rows whose updated_at is older than stale_after

tableVars == <<status, owner, cancelReq, old>>

Active   == {"processing", "running"}
Pending  == {"queued", "interrupted"}
Terminal == {"completed", "failed", "skipped", "cancelled"}

\* The statuses RequeueJob accepts: every status except queued itself.
Requeueable == {"failed", "skipped", "cancelled", "interrupted",
                "processing", "running", "completed"}

RowStatus == Active \cup Pending \cup Terminal \cup {"absent", "deleted"}

InTable(j) == status[j] \notin {"absent", "deleted"}

\* Slip: rows that are claimed but not yet running are not counted.
RunningOnly == {j \in Job : status[j] = "running"}

ActiveJobs == {j \in Job : status[j] \in Active}

ActiveIn(l) == {j \in ActiveJobs : LibOf[j] = l}

TableTypeOK ==
    /\ status \in [Job -> RowStatus]
    /\ owner \in [Job -> Worker \cup {NoWorker}]
    /\ cancelReq \subseteq Job
    /\ old \subseteq Job

TableInit ==
    /\ status = [j \in Job |-> "absent"]
    /\ owner = [j \in Job |-> NoWorker]
    /\ cancelReq = {}
    /\ old = {}

-----------------------------------------------------------------------------
(* Statements.  Each one bumps updated_at, that is, removes its rows from    *)
(* `old`.                                                                    *)

\* INSERT ... ON CONFLICT (file_path) DO NOTHING, for a path not in the table.
InsertRow(j) ==
    /\ status[j] = "absent"
    /\ \A k \in Job : InTable(k) => FileOf[k] # FileOf[j]
    /\ status' = [status EXCEPT ![j] = "queued"]
    /\ UNCHANGED <<owner, cancelReq, old>>

\* Slip: the SELECT forgets the status and also returns active rows.
ClaimableWithActive(libs) ==
    {j \in Job : status[j] \in Pending \cup Active /\ LibOf[j] \in libs}

\* Slip: interrupted rows are not selected.
ClaimableQueuedOnly(libs) == {j \in Job : status[j] = "queued" /\ LibOf[j] \in libs}

\* Rows the SELECT of ClaimNextJob may return for the given libraries.
Claimable(libs) == {j \in Job : status[j] \in Pending /\ LibOf[j] \in libs}

\* ORDER BY: interrupted rows first, then the higher priority; rows of equal
\* rank are ordered by created_at, which is left open here.
Before(j, k) ==
    \/ status[j] = "interrupted" /\ status[k] # "interrupted"
    \/ /\ status[j] = status[k]
       /\ PriorityOf[j] > PriorityOf[k]

\* The transaction of ClaimNextJob that picks row j for worker w: the first
\* one, unless other transactions have locked those before it.
ClaimRow(j, w, libs) ==
    /\ j \in Claimable(libs)
    /\ SkipLocked \/ \A k \in Claimable(libs) : ~ Before(k, j)
    /\ status' = [status EXCEPT ![j] = "processing"]
    /\ owner' = [owner EXCEPT ![j] = w]
    /\ cancelReq' = cancelReq \ {j}
    /\ old' = old \ {j}

\* UpdateJob with a Status: WHERE id=? and nothing else, so it applies
\* whatever the row says and whoever owns it.
SetStatus(j, st) ==
    /\ status' = IF InTable(j) THEN [status EXCEPT ![j] = st] ELSE status
    /\ old' = old \ {j}
    /\ UNCHANGED <<owner, cancelReq>>

\* UpdateJob with progress columns only.
TouchRow(j) ==
    /\ old' = old \ {j}
    /\ UNCHANGED <<status, owner, cancelReq>>

\* Slip: rows that were claimed but never started are not looked at.
StaleRunningRows == {j \in old : status[j] = "running"}

\* MarkStaleJobs: every active row, of any worker, that nobody has updated.
StaleRows == {j \in old : status[j] \in Active}

MarkStaleRows ==
    /\ status' = [j \in Job |-> IF j \in StaleRows THEN "failed" ELSE status[j]]
    /\ old' = old \ StaleRows
    /\ UNCHANGED <<owner, cancelReq>>

\* Slip: a restart reclaims the active rows of every worker.
OwnedByAnyone(w) == ActiveJobs

\* ReclaimWorkerJobs: cancel_requested and worker_id keep their values.
OwnedActive(w) == {j \in Job : status[j] \in Active /\ owner[j] = w}

ReclaimRows(w) ==
    /\ status' = [j \in Job |-> IF j \in OwnedActive(w) THEN "interrupted" ELSE status[j]]
    /\ old' = old \ OwnedActive(w)
    /\ UNCHANGED <<owner, cancelReq>>

\* RequeueJob on a row it applies to.
RequeueRow(j) ==
    /\ status[j] \in Requeueable
    /\ status' = [status EXCEPT ![j] = "queued"]
    /\ owner' = [owner EXCEPT ![j] = NoWorker]
    /\ cancelReq' = cancelReq \ {j}
    /\ old' = old \ {j}

\* Slip: the first UPDATE of RequestCancel has no condition on the status.
CancelAnyRow(j) ==
    /\ InTable(j)
    /\ status' = [status EXCEPT ![j] = "cancelled"]
    /\ old' = old \ {j}
    /\ UNCHANGED <<owner, cancelReq>>

\* The first UPDATE of RequestCancel on a row it applies to.
CancelPendingRow(j) ==
    /\ status[j] \in Pending
    /\ status' = [status EXCEPT ![j] = "cancelled"]
    /\ old' = old \ {j}
    /\ UNCHANGED <<owner, cancelReq>>

\* The second UPDATE of RequestCancel on a row it applies to.
FlagActiveRow(j) ==
    /\ status[j] \in Active
    /\ cancelReq' = cancelReq \cup {j}
    /\ old' = old \ {j}
    /\ UNCHANGED <<status, owner>>

\* Slip: DeleteJob deletes active rows too.
DeleteAnyRow(j) ==
    /\ InTable(j)
    /\ status' = [status EXCEPT ![j] = "deleted"]
    /\ owner' = [owner EXCEPT ![j] = NoWorker]
    /\ cancelReq' = cancelReq \ {j}
    /\ old' = old \ {j}

\* DeleteJob: any row that is not active.
DeleteRow(j) ==
    /\ InTable(j)
    /\ status[j] \notin Active
    /\ status' = [status EXCEPT ![j] = "deleted"]
    /\ owner' = [owner EXCEPT ![j] = NoWorker]
    /\ cancelReq' = cancelReq \ {j}
    /\ old' = old \ {j}
=============================================================================
