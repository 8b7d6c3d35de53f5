-------------------------------- MODULE Jobs --------------------------------
(***************************************************************************)
(* The job table (app/services/job.py): idempotent enqueue, and the status *)
(* transitions clients and workers make, as concurrent transactions under  *)
(* READ COMMITTED.                                                         *)
(*                                                                         *)
(* enqueue looks its Idempotency-Key up, inserts when there is none, and   *)
(* on a violation of the partial unique index rolls back and looks again.  *)
(* The transitions read the row without a lock, check its status and write *)
(* the columns they changed; the UPDATE and the COMMIT are one step here,  *)
(* because nothing the transaction reads lies between them.                *)
(***************************************************************************)
EXTENDS Naturals, FiniteSets

CONSTANTS
    Txn,         \* calls, each one database transaction
    Scope,       \* (product_id, tenant_id) pairs
    Key, NoKey,  \* (type, idempotency_key) pairs; a call without a key
    Requests,    \* the calls that may be made
    None         \* a missing row, no answer

\* A job is named after the call that inserts it: a call inserts at most one.
Job == Txn

JobStatus == {"queued", "running", "done", "failed", "cancelled"}
TERMINAL_STATUSES == {"done", "failed", "cancelled"}

\* A row of jobs.  result, error, started and completed say whether the
\* column is set; no code clears one.
Row == [scope: Scope, key: Key \cup {NoKey}, status: JobStatus,
        result: BOOLEAN, error: BOOLEAN, started: BOOLEAN, completed: BOOLEAN]

Transition == {"cancel", "running", "done", "failed"}
Request == [kind: {"enqueue"}, scope: Scope, key: Key \cup {NoKey}]
           \cup [kind: Transition, scope: Scope, job: Job]

ASSUME RequestsAssumption == Requests \subseteq Request
ASSUME NoneAssumption == None \notin Request /\ None \notin Row /\ None \notin Txn
ASSUME NoKeyAssumption == NoKey \notin Key

VARIABLES
    rows,    \* committed rows of jobs, by id
    audit,   \* committed job.* audit entries
    pc,      \* where a call is
    req,     \* what it asks for
    got,     \* the row it loaded
    answer   \* the job it returned

vars == <<rows, audit, pc, req, got, answer>>
tables == <<rows, audit>>

Init ==
    /\ rows = [j \in Job |-> None]
    /\ audit = {}
    /\ pc = [t \in Txn |-> "idle"]
    /\ req = [t \in Txn |-> None]
    /\ got = [t \in Txn |-> None]
    /\ answer = [t \in Txn |-> None]

Jobs == {j \in Job : rows[j] # None}
Goto(t, l) == pc' = [pc EXCEPT ![t] = l]

\* Without a key there is nothing to look up.
Start(t, r) ==
    /\ pc[t] = "idle"
    /\ r.kind \in Transition => r.job \in Jobs
    /\ req' = [req EXCEPT ![t] = r]
    /\ Goto(t, IF r.kind \in Transition THEN "load"
               ELSE IF r.key = NoKey THEN "insert" ELSE "find")
    /\ UNCHANGED <<tables, got, answer>>

\* What _find_by_idempotency_key selects.
SameKey(j, r) == rows[j].scope = r.scope /\ rows[j].key = r.key
ByKey(r) == {j \in Jobs : SameKey(j, r)}

\* The call returns job j; there is nothing to commit.
Return(t, j) ==
    /\ answer' = [answer EXCEPT ![t] = j]
    /\ Goto(t, "ended")
    /\ UNCHANGED <<tables, req, got>>

\* An exception: session_scope rolls back and the call answers an error.
Refuse(t) ==
    /\ Goto(t, "refused")
    /\ UNCHANGED <<tables, req, got, answer>>

\* enqueue: the lookup before the INSERT.
Find(t) ==
    /\ pc[t] = "find"
    /\ \/ \E j \in ByKey(req[t]) : Return(t, j)
       \/ /\ ByKey(req[t]) = {}
          /\ Goto(t, "insert")
          /\ UNCHANGED <<tables, req, got, answer>>

\* Mutant of Unique: a failed call's transaction is never rolled back.
UniqueAfterFailure(t, u) ==
    /\ u # t /\ pc[u] \in {"inserted", "refused"} /\ req[t].key # NoKey
    /\ req[u].scope = req[t].scope /\ req[u].key = req[t].key

\* The partial unique index: an uncommitted row makes the INSERT wait.
Unique(t, u) ==
    /\ u # t /\ pc[u] = "inserted" /\ req[t].key # NoKey
    /\ req[u].scope = req[t].scope /\ req[u].key = req[t].key
Taken(t) == req[t].key # NoKey /\ ByKey(req[t]) # {}

\* Mutant of Insert: the index was never created.
InsertWithoutIndex(t) ==
    /\ pc[t] = "insert"
    /\ Goto(t, "inserted")
    /\ UNCHANGED <<tables, req, got, answer>>

\* enqueue: db.flush().  On IntegrityError the transaction is rolled back.
Insert(t) ==
    /\ pc[t] = "insert" /\ \A u \in Txn : ~Unique(t, u)
    /\ Goto(t, IF Taken(t) THEN "refetch" ELSE "inserted")
    /\ UNCHANGED <<tables, req, got, answer>>

\* enqueue: the lookup after the rollback.
Refetch(t) ==
    /\ pc[t] = "refetch"
    /\ \/ \E j \in ByKey(req[t]) : Return(t, j)
       \/ ByKey(req[t]) = {} /\ Refuse(t)

Queued(r) ==
    [scope |-> r.scope, key |-> r.key, status |-> "queued",
     result |-> FALSE, error |-> FALSE, started |-> FALSE, completed |-> FALSE]

\* An entry of the audit log, with the call that wrote it.
Entry == [action: {"enqueue", "cancel", "done", "failed"}, job: Job, by: Txn]
Audit(t, j) ==
    audit' = audit \cup {[action |-> req[t].kind, job |-> j, by |-> t]}

\* enqueue: audit.record, then session_scope's COMMIT.
CommitJob(t) ==
    /\ pc[t] = "inserted"
    /\ rows' = [rows EXCEPT ![t] = Queued(req[t])]
    /\ Audit(t, t)
    /\ answer' = [answer EXCEPT ![t] = t]
    /\ Goto(t, "ended")
    /\ UNCHANGED <<req, got>>

\* Mutant of Refused: a worker may report twice.
RefusedOnlyCancelled(kind, row) ==
    IF kind \in {"cancel", "running"} THEN row.status # "queued" ELSE row.status = "cancelled"

\* The Conflict each transition raises: cancel and mark_running need a queued
\* job, mark_done and mark_failed one that is not terminal.
Refused(kind, row) ==
    IF kind \in {"cancel", "running"} THEN row.status # "queued"
    ELSE row.status \in TERMINAL_STATUSES

\* get() in the caller's scope, and the status check.  mark_running on a
\* running job returns it as it is.
Load(t) ==
    LET j == req[t].job
    IN  /\ pc[t] = "load"
        /\ IF rows[j].scope # req[t].scope
           THEN Refuse(t)
           ELSE IF req[t].kind = "running" /\ rows[j].status = "running"
           THEN Return(t, j)
           ELSE IF Refused(req[t].kind, rows[j])
           THEN Refuse(t)
           ELSE /\ got' = [got EXCEPT ![t] = rows[j]]
                /\ Goto(t, "write")
                /\ UNCHANGED <<tables, req, answer>>

\* The columns a transition assigns.
Cancelled(row) == [row EXCEPT !.status = "cancelled", !.completed = TRUE]
Started(row) == [row EXCEPT !.status = "running", !.started = TRUE]
Done(row) == [row EXCEPT !.status = "done", !.result = TRUE, !.completed = TRUE]
Failed(row) == [row EXCEPT !.status = "failed", !.error = TRUE, !.completed = TRUE]
Written(kind, row) ==
    CASE kind = "cancel"  -> Cancelled(row)
      [] kind = "running" -> Started(row)
      [] kind = "done"    -> Done(row)
      [] kind = "failed"  -> Failed(row)

\* The UPDATE of the columns that differ from the loaded ones.
Merge(old, new, now) ==
    [c \in DOMAIN now |-> IF new[c] # old[c] THEN new[c] ELSE now[c]]

\* Mutant of Write: what workers report is not audited.
WriteUnaudited(t) ==
    /\ pc[t] = "write"
    /\ rows' = [rows EXCEPT ![req[t].job] = Merge(got[t], Written(req[t].kind, got[t]), @)]
    /\ IF req[t].kind = "cancel" THEN Audit(t, req[t].job) ELSE UNCHANGED audit
    /\ answer' = [answer EXCEPT ![t] = req[t].job]
    /\ Goto(t, "ended")
    /\ UNCHANGED <<req, got>>

\* UPDATE, audit.record (not for mark_running) and COMMIT.
Write(t) ==
    /\ pc[t] = "write"
    /\ rows' = [rows EXCEPT ![req[t].job] = Merge(got[t], Written(req[t].kind, got[t]), @)]
    /\ IF req[t].kind = "running" THEN UNCHANGED audit ELSE Audit(t, req[t].job)
    /\ answer' = [answer EXCEPT ![t] = req[t].job]
    /\ Goto(t, "ended")
    /\ UNCHANGED <<req, got>>

Active == {"find", "insert", "refetch", "inserted", "load", "write"}

\* The process dies, or the connection is lost, before the COMMIT.
Abort(t) == pc[t] \in Active /\ Refuse(t)

Progress(t) ==
    Find(t) \/ Insert(t) \/ Refetch(t) \/ CommitJob(t) \/ Load(t) \/ Write(t)

Next == \E t \in Txn : Progress(t) \/ Abort(t) \/ \E r \in Requests : Start(t, r)

Spec == Init /\ [][Next]_vars

\* The event loop runs every begun call on; nothing makes a client call.
FairSpec == Spec /\ \A t \in Txn : WF_vars(Progress(t))

-----------------------------------------------------------------------------
(***************************************************************************)
(* Properties.                                                             *)
(***************************************************************************)

\* Types of the tables and of every call.
TypeOK ==
    /\ rows \in [Job -> Row \cup {None}]
    /\ audit \subseteq Entry
    /\ pc \in [Txn -> Active \cup {"idle", "ended", "refused"}]
    /\ req \in [Txn -> Requests \cup {None}]
    /\ got \in [Txn -> Row \cup {None}]
    /\ answer \in [Txn -> Job \cup {None}]

Enqueued(t) == pc[t] = "ended" /\ req[t].kind = "enqueue"

\* "racey clients converge" (app/services/job.py:13): calls of one tenant with
\* one key that end well returned the same job, however they overlapped and
\* whichever of them failed on the way.
ReplaysConverge ==
    \A t, u \in Txn :
        /\ Enqueued(t) /\ Enqueued(u)
        /\ req[t].scope = req[u].scope
        /\ req[t].key = req[u].key /\ req[t].key # NoKey
        => answer[t] = answer[u]

\* Calls that carry no key, or keys of different tenants, never share a job,
\* and every job a call returned exists in the caller's own scope.
AnswersAreOwn ==
    \A t \in Txn : Enqueued(t) =>
        /\ answer[t] \in Jobs /\ rows[answer[t]].scope = req[t].scope
        /\ req[t].key = NoKey => \A u \in Txn : Enqueued(u) /\ answer[u] = answer[t] => u = t

\* A call that lost the race for its key finds the winner's job when it looks
\* again: the "truly unexpected" re-raise (app/services/job.py:132) is dead code.
LoserFindsWinner == \A t \in Txn : pc[t] = "refetch" => ByKey(req[t]) # {}

\* Transitions that overlap overwrite each other's status column by column;
\* still the status a job ends on comes with the data that status promises.
StatusHasItsData ==
    \A j \in Jobs :
        /\ rows[j].status = "done" => rows[j].result
        /\ rows[j].status = "failed" => rows[j].error
        /\ rows[j].status = "running" => rows[j].started
        /\ rows[j].status \in TERMINAL_STATUSES => rows[j].completed

\* "every state change writes an audit entry" (app/services/job.py:15): each
\* job was created by one entry and every terminal status is explained by one.
AuditExplainsStatus ==
    \A j \in Jobs :
        /\ Cardinality({e \in audit : e.job = j /\ e.action = "enqueue"}) = 1
        /\ rows[j].status \in TERMINAL_STATUSES =>
              \E e \in audit : /\ e.job = j /\ e.action # "enqueue"
                              /\ Written(e.action, rows[j]).status = rows[j].status

\* A terminal status is left only by a transition that had read the job
\* before it became terminal: one call at a time, terminal is absorbing.
TerminalLeftOnlyByOverlap ==
    [][\A j \in Jobs :
         rows[j].status \in TERMINAL_STATUSES /\ rows'[j].status # rows[j].status
           => \E t \in Txn : /\ pc[t] = "write" /\ Write(t) /\ req[t].job = j
                             /\ got[t].status \notin TERMINAL_STATUSES]_vars

\* Every call that was begun ends, also one that waits for another's INSERT.
EveryCallEnds == \A t \in Txn : pc[t] \in Active ~> pc[t] \in {"ended", "refused"}

\* services/job.py enqueue: overlapping calls with one key end on one job, each
\* in its own scope, and the loser of the race finds the winner.
AnswersConverge == TypeOK /\ ReplaysConverge /\ AnswersAreOwn /\ LoserFindsWinner

\* services/job.py transitions: a job's columns and its audit entries account
\* for its status, however its transitions overlapped.
HistoryExplained == StatusHasItsData /\ AuditExplainsStatus
=============================================================================
