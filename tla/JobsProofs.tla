----------------------------- MODULE JobsProofs -----------------------------
(***************************************************************************)
(* Proofs about Jobs, for any calls, tenants and keys: enqueues with one   *)
(* key converge, a job's status comes with its data and its audit entries, *)
(* and a terminal status is left only by a call that had read the row      *)
(* before.                                                                 *)
(*                                                                         *)
(* What makes it inductive: a row belongs to the call that inserted it     *)
(* (RowsHaveInserters), one call at most holds a key, committed or not     *)
(* (KeysHeldOnce), and the row a transition loaded has no flag the present *)
(* row lacks (LoadedIsOlder), for no code clears one.                      *)
(***************************************************************************)
EXTENDS Jobs, FiniteSetTheorems, TLAPS

\* What a call asks for at each of its places.
RequestFits(t) ==
    /\ pc[t] # "idle" => req[t] \in Requests
    /\ pc[t] \in {"find", "insert", "refetch", "inserted"} => req[t].kind = "enqueue"
    /\ pc[t] \in {"find", "refetch"} => req[t].key # NoKey
    /\ pc[t] \in {"load", "write"} => req[t].kind \in Transition /\ req[t].job \in Jobs

AnswerFits(t) ==
    Enqueued(t) =>
        /\ answer[t] \in Jobs
        /\ rows[answer[t]].scope = req[t].scope /\ rows[answer[t]].key = req[t].key
        /\ req[t].key = NoKey => answer[t] = t

LoadedIsOlder(t) ==
    pc[t] = "write" =>
        /\ got[t] \in Row /\ ~Refused(req[t].kind, got[t])
        /\ got[t].scope = rows[req[t].job].scope /\ got[t].key = rows[req[t].job].key
        /\ got[t].result => rows[req[t].job].result
        /\ got[t].error => rows[req[t].job].error
        /\ got[t].started => rows[req[t].job].started
        /\ got[t].completed => rows[req[t].job].completed

CallFits(t) ==
    RequestFits(t) /\ AnswerFits(t) /\ LoadedIsOlder(t) /\ (pc[t] = "refetch" => ByKey(req[t]) # {})

RowsHaveInserters ==
    \A j \in Jobs :
        /\ pc[j] = "ended" /\ req[j].kind = "enqueue"
        /\ rows[j].scope = req[j].scope /\ rows[j].key = req[j].key

\* t's row has been inserted; others wait for it, or see it.
Holds(t) == pc[t] = "inserted" \/ t \in Jobs
SameRequest(t, u) == req[t].scope = req[u].scope /\ req[t].key = req[u].key /\ req[t].key # NoKey
KeysHeldOnce == \A t, u \in Txn : Holds(t) /\ Holds(u) /\ SameRequest(t, u) => t = u

\* The entry an insertion writes.
Birth(j) == [action |-> "enqueue", job |-> j, by |-> j]
BirthsRecorded ==
    /\ \A e \in audit : e.job \in Jobs /\ (e.action = "enqueue" => e = Birth(e.job))
    /\ \A j \in Jobs : Birth(j) \in audit
\* The status a reported action leaves.
StatusOf == [cancel |-> "cancelled", running |-> "running", done |-> "done", failed |-> "failed"]
EndsRecorded ==
    \A j \in Jobs : rows[j].status \in TERMINAL_STATUSES =>
        \E e \in audit : e.job = j /\ e.action \in Transition \ {"running"} /\ StatusOf[e.action] = rows[j].status

IInv ==
    /\ TypeOK /\ \A t \in Txn : CallFits(t)
    /\ RowsHaveInserters /\ KeysHeldOnce /\ BirthsRecorded /\ EndsRecorded /\ StatusHasItsData

-----------------------------------------------------------------------------
\* Before any call there are no rows.
LEMMA InitIInv == Init => IInv
<1> SUFFICES ASSUME Init PROVE IInv
    OBVIOUS
<1>1. TypeOK
    BY DEF Init, TypeOK, Entry
<1>2. Jobs = {}
    BY DEF Init, Jobs
<1>3. \A t \in Txn : CallFits(t)
    BY DEF Init, CallFits, RequestFits, AnswerFits, LoadedIsOlder, Enqueued
<1>4. RowsHaveInserters /\ KeysHeldOnce /\ BirthsRecorded /\ EndsRecorded /\ StatusHasItsData
    BY <1>2 DEF Init, RowsHaveInserters, KeysHeldOnce, Holds, BirthsRecorded, EndsRecorded, StatusHasItsData
<1> QED BY <1>1, <1>3, <1>4 DEF IInv

\* Rows stay where they are, and what a call has seen of one remains true.
LEMMA OthersFit ==
    ASSUME IInv, NEW t \in Txn, Jobs \subseteq Jobs',
           \A u \in Txn \ {t} : pc'[u] = pc[u] /\ req'[u] = req[u] /\ got'[u] = got[u] /\ answer'[u] = answer[u],
           \A j \in Jobs : /\ rows'[j].scope = rows[j].scope /\ rows'[j].key = rows[j].key
                           /\ rows[j].result => rows'[j].result
                           /\ rows[j].error => rows'[j].error
                           /\ rows[j].started => rows'[j].started
                           /\ rows[j].completed => rows'[j].completed
    PROVE  \A u \in Txn \ {t} : CallFits(u)'
<1> SUFFICES ASSUME NEW u \in Txn \ {t} PROVE CallFits(u)'
    OBVIOUS
<1>1. CallFits(u)
    BY DEF IInv
<1>2. RequestFits(u)'
    BY <1>1 DEF CallFits, RequestFits
<1>3. AnswerFits(u)'
    BY <1>1 DEF CallFits, AnswerFits, Enqueued
<1>4. LoadedIsOlder(u)'
    <2> SUFFICES ASSUME pc[u] = "write" PROVE LoadedIsOlder(u)'
        BY DEF LoadedIsOlder
    <2>1. req[u].job \in Jobs
        BY <1>1 DEF CallFits, RequestFits
    <2> QED BY <1>1, <2>1 DEF CallFits, LoadedIsOlder
<1>5. ASSUME pc[u] = "refetch" PROVE ByKey(req[u])' # {}
    <2>1. PICK j \in Jobs : SameKey(j, req[u])
        BY <1>1, <1>5 DEF CallFits, ByKey
    <2> QED BY <2>1 DEF ByKey, SameKey
<1> QED BY <1>2, <1>3, <1>4, <1>5 DEF CallFits

\* A call that writes no row, and has not ended, moves.
LEMMA MovesKeep ==
    ASSUME IInv, NEW t \in Txn, UNCHANGED tables, pc[t] # "ended",
           \A u \in Txn \ {t} : pc'[u] = pc[u] /\ req'[u] = req[u] /\ got'[u] = got[u] /\ answer'[u] = answer[u],
           TypeOK', CallFits(t)',
           pc'[t] = "inserted" => \A u \in Txn \ {t} : Holds(u) => ~SameRequest(t, u)'
    PROVE  IInv'
<1> USE DEF IInv
<1>1. rows' = rows /\ audit' = audit /\ Jobs' = Jobs
    BY DEF tables, Jobs
<1>2. t \notin Jobs
    BY DEF RowsHaveInserters
<1>3. \A u \in Txn : CallFits(u)'
    BY <1>1, OthersFit
<1>4. RowsHaveInserters'
    BY <1>1, <1>2 DEF RowsHaveInserters, Jobs, Job
<1>5. KeysHeldOnce'
    <2> SUFFICES ASSUME NEW u \in Txn, NEW v \in Txn, Holds(u)', Holds(v)', SameRequest(u, v)', u # v PROVE FALSE
        BY DEF KeysHeldOnce
    <2>1. CASE u # t /\ v # t
        BY <1>1, <2>1 DEF KeysHeldOnce, Holds, SameRequest
    <2>2. CASE u = t
        BY <1>1, <1>2, <2>2 DEF Holds
    <2>3. CASE v = t
        BY <1>1, <1>2, <2>3 DEF Holds, SameRequest
    <2> QED BY <2>1, <2>2, <2>3
<1>6. BirthsRecorded' /\ EndsRecorded' /\ StatusHasItsData'
    BY <1>1 DEF BirthsRecorded, EndsRecorded, StatusHasItsData, Birth
<1> QED BY <1>3, <1>4, <1>5, <1>6

-----------------------------------------------------------------------------
(* The steps of a call.                                                    *)

LEMMA StartKeeps == ASSUME IInv, NEW t \in Txn, NEW r \in Requests, Start(t, r) PROVE IInv'
<1>1. r \in Request /\ pc[t] = "idle"
    BY RequestsAssumption DEF Start
<1>2. TypeOK
    BY DEF IInv
<1>3. /\ UNCHANGED <<rows, audit, got, answer>> /\ req' = [req EXCEPT ![t] = r]
      /\ pc' = [pc EXCEPT ![t] = IF r.kind \in Transition THEN "load"
                                 ELSE IF r.key = NoKey THEN "insert" ELSE "find"]
    BY DEF Start, Goto, tables
<1>4. /\ req'[t] = r /\ pc'[t] \in {"load", "insert", "find"}
      /\ \A u \in Txn \ {t} : pc'[u] = pc[u] /\ req'[u] = req[u] /\ got'[u] = got[u] /\ answer'[u] = answer[u]
    BY <1>2, <1>3 DEF TypeOK
<1>5. TypeOK'
    BY <1>2, <1>3 DEF TypeOK, Active
<1>6. CallFits(t)'
    <2>1. RequestFits(t)'
        <3>1. r.kind \in Transition => r.job \in Jobs'
            BY <1>3 DEF Start, Jobs
        <3>2. r.kind \notin Transition => r.kind = "enqueue"
            BY <1>1 DEF Request
        <3>3. pc'[t] = "load" <=> r.kind \in Transition
            BY <1>2, <1>3 DEF TypeOK
        <3>4. pc'[t] = "find" => r.key # NoKey
            BY <1>2, <1>3 DEF TypeOK
        <3> QED BY <1>4, <3>1, <3>2, <3>3, <3>4 DEF RequestFits
    <2> QED BY <1>4, <2>1 DEF CallFits, AnswerFits, Enqueued, LoadedIsOlder
<1>7. UNCHANGED tables
    BY <1>3 DEF tables
<1> QED BY <1>1, <1>4, <1>5, <1>6, <1>7, MovesKeep

\* A call that found a row of its request, or of the job it asks about, returns it.
LEMMA ReturnKeeps ==
    ASSUME IInv, NEW t \in Txn, pc[t] \in {"find", "refetch", "load"}, NEW j \in Jobs,
           pc[t] # "load" => SameKey(j, req[t]), Return(t, j)
    PROVE  IInv'
<1>1. TypeOK /\ CallFits(t)
    BY DEF IInv
<1>2. /\ UNCHANGED <<rows, audit, req, got>>
      /\ answer' = [answer EXCEPT ![t] = j] /\ pc' = [pc EXCEPT ![t] = "ended"]
    BY DEF Return, Goto, tables
<1>3. /\ pc'[t] = "ended" /\ answer'[t] = j
      /\ \A u \in Txn \ {t} : pc'[u] = pc[u] /\ req'[u] = req[u] /\ got'[u] = got[u] /\ answer'[u] = answer[u]
    BY <1>1, <1>2 DEF TypeOK
<1>4. TypeOK'
    BY <1>1, <1>2 DEF TypeOK, Jobs
<1>5. RequestFits(t)'
    BY <1>1, <1>2, <1>3 DEF CallFits, RequestFits
<1>6. AnswerFits(t)'
    <2>1. pc[t] = "load" => req[t].kind # "enqueue"
        BY <1>1 DEF CallFits, RequestFits, Transition
    <2>2. pc[t] # "load" => req[t].key # NoKey
        BY <1>1 DEF CallFits, RequestFits
    <2> QED BY <1>2, <1>3, <2>1, <2>2 DEF AnswerFits, Enqueued, SameKey, Jobs
<1>7. CallFits(t)'
    BY <1>3, <1>5, <1>6 DEF CallFits, LoadedIsOlder
<1>8. UNCHANGED tables
    BY <1>2 DEF tables
<1> QED BY <1>3, <1>4, <1>7, <1>8, MovesKeep

\* A call goes on with nothing but its place changed.
LEMMA GotoKeeps ==
    ASSUME IInv, NEW t \in Txn, NEW p \in {"insert", "refetch", "inserted", "refused"}, pc[t] \in Active,
           Goto(t, p), UNCHANGED <<tables, req, got, answer>>,
           p # "refused" => req[t].kind = "enqueue",
           p = "refetch" => req[t].key # NoKey /\ ByKey(req[t]) # {},
           p = "inserted" => \A u \in Txn \ {t} : Holds(u) => ~SameRequest(t, u)
    PROVE  IInv'
<1>1. TypeOK /\ CallFits(t)
    BY DEF IInv
<1>2. UNCHANGED <<rows, audit, req, got, answer>> /\ pc' = [pc EXCEPT ![t] = p]
    BY DEF Goto, tables
<1>3. /\ pc'[t] = p /\ pc[t] # "ended" /\ pc[t] # "idle"
      /\ \A u \in Txn \ {t} : pc'[u] = pc[u] /\ req'[u] = req[u] /\ got'[u] = got[u] /\ answer'[u] = answer[u]
    BY <1>1, <1>2 DEF TypeOK, Active
<1>4. TypeOK'
    BY <1>1, <1>2 DEF TypeOK, Active
<1>5. RequestFits(t)'
    BY <1>1, <1>2, <1>3 DEF CallFits, RequestFits
<1>6. ByKey(req[t])' = ByKey(req[t])
    BY <1>2 DEF ByKey, SameKey, Jobs
<1>7. CallFits(t)'
    BY <1>2, <1>3, <1>5, <1>6 DEF CallFits, AnswerFits, Enqueued, LoadedIsOlder, ByKey, SameKey, Jobs
<1>8. p = "inserted" => \A u \in Txn \ {t} : Holds(u) => ~SameRequest(t, u)'
    BY <1>2 DEF SameRequest
<1> QED BY <1>3, <1>4, <1>7, <1>8, MovesKeep

LEMMA LookupsKeep == ASSUME IInv, NEW t \in Txn, Find(t) \/ Refetch(t) PROVE IInv'
<1>1. CallFits(t) /\ ByKey(req[t]) \subseteq Jobs /\ \A j \in ByKey(req[t]) : SameKey(j, req[t])
    BY DEF IInv, ByKey
<1>2. CASE \E j \in ByKey(req[t]) : Return(t, j)
    <2>1. PICK j \in ByKey(req[t]) : Return(t, j)
        BY <1>2
    <2>2. pc[t] \in {"find", "refetch"}
        BY DEF Find, Refetch
    <2> QED BY <1>1, <2>1, <2>2, ReturnKeeps
<1>3. CASE Find(t) /\ Goto(t, "insert") /\ UNCHANGED <<tables, req, got, answer>>
    <2>1. pc[t] = "find" /\ req[t].kind = "enqueue"
        BY <1>1, <1>3 DEF Find, CallFits, RequestFits
    <2>2. pc[t] \in Active
        BY <2>1 DEF Active
    <2> QED BY <1>3, <2>1, <2>2, GotoKeeps
<1>4. CASE Refetch(t) /\ Refuse(t)
    <2>1. pc[t] \in Active
        BY <1>4 DEF Refetch, Active
    <2> QED BY <1>4, <2>1, GotoKeeps DEF Refuse
<1> QED BY <1>2, <1>3, <1>4 DEF Find, Refetch

\* The index: an INSERT passes only where no other call's row has the key.
LEMMA InsertKeeps == ASSUME IInv, NEW t \in Txn, Insert(t) PROVE IInv'
<1>1. CallFits(t) /\ RowsHaveInserters /\ pc[t] = "insert" /\ req[t].kind = "enqueue"
    BY DEF IInv, Insert, CallFits, RequestFits
<1>2. pc[t] \in Active
    BY <1>1 DEF Active
<1>3. CASE Taken(t)
    BY <1>1, <1>2, <1>3, GotoKeeps DEF Insert, Taken
<1>4. CASE ~Taken(t)
    <2> SUFFICES ASSUME NEW u \in Txn \ {t}, Holds(u), SameRequest(t, u) PROVE FALSE
        BY <1>1, <1>2, <1>4, GotoKeeps DEF Insert
    <2>1. CASE pc[u] = "inserted"
        BY <2>1 DEF Insert, Unique, SameRequest
    <2>2. CASE u \in Jobs
        BY <1>1, <1>4, <2>2 DEF Taken, ByKey, SameKey, SameRequest, RowsHaveInserters
    <2> QED BY <2>1, <2>2 DEF Holds
<1> QED BY <1>3, <1>4

LEMMA AbortKeeps == ASSUME IInv, NEW t \in Txn, Abort(t) PROVE IInv'
    BY GotoKeeps DEF Abort, Refuse

LEMMA LoadKeeps == ASSUME IInv, NEW t \in Txn, Load(t) PROVE IInv'
<1>1. PICK j \in Jobs : j = req[t].job /\ pc[t] = "load" /\ req[t].kind \in Transition
    BY DEF IInv, Load, CallFits, RequestFits
<1>2. TypeOK /\ CallFits(t) /\ rows[j] \in Row /\ pc[t] \in Active
    BY <1>1 DEF IInv, TypeOK, Jobs, Active
<1>3. CASE Refuse(t)
    BY <1>2, <1>3, GotoKeeps DEF Refuse
<1>4. CASE Return(t, j)
    BY <1>1, <1>4, ReturnKeeps
<1>5. CASE /\ ~Refused(req[t].kind, rows[j]) /\ got' = [got EXCEPT ![t] = rows[j]]
           /\ Goto(t, "write") /\ UNCHANGED <<tables, req, answer>>
    <2>1. UNCHANGED <<rows, audit, req, answer>> /\ pc' = [pc EXCEPT ![t] = "write"]
        BY <1>5 DEF Goto, tables
    <2>2. /\ pc'[t] = "write" /\ got'[t] = rows[j]
          /\ \A u \in Txn \ {t} : pc'[u] = pc[u] /\ req'[u] = req[u] /\ got'[u] = got[u] /\ answer'[u] = answer[u]
        BY <1>2, <1>5, <2>1 DEF TypeOK
    <2>3. TypeOK'
        BY <1>2, <1>5, <2>1 DEF TypeOK, Active
    <2>4. RequestFits(t)'
        BY <1>1, <1>2, <2>1, <2>2 DEF CallFits, RequestFits, Jobs
    <2>5. LoadedIsOlder(t)'
        BY <1>1, <1>2, <1>5, <2>1, <2>2 DEF LoadedIsOlder, Refused
    <2>6. CallFits(t)'
        BY <2>2, <2>4, <2>5 DEF CallFits, AnswerFits, Enqueued
    <2> QED BY <1>1, <1>5, <2>2, <2>3, <2>6, MovesKeep
<1> QED BY <1>1, <1>3, <1>4, <1>5 DEF Load

LEMMA CommitJobKeeps == ASSUME IInv, NEW t \in Txn, CommitJob(t) PROVE IInv'
<1> USE DEF IInv
<1>1. /\ rows' = [rows EXCEPT ![t] = Queued(req[t])]
      /\ answer' = [answer EXCEPT ![t] = t] /\ pc' = [pc EXCEPT ![t] = "ended"]
      /\ UNCHANGED <<req, got>> /\ pc[t] = "inserted"
    BY DEF CommitJob, Goto
<1>2. req[t] \in Requests /\ req[t].kind = "enqueue" /\ t \notin Jobs
    BY <1>1 DEF CallFits, RequestFits, RowsHaveInserters
<1>3. audit' = audit \cup {Birth(t)}
    BY <1>2 DEF CommitJob, Audit, Birth
<1>4. req[t].scope \in Scope /\ req[t].key \in Key \cup {NoKey}
    BY <1>2, RequestsAssumption DEF Request, Transition
<1>5. Queued(req[t]) \in Row /\ Queued(req[t]) # None
    <2>1. Queued(req[t]) \in Row
        BY <1>4 DEF Queued, Row, JobStatus
    <2>2. None \notin Row
        BY NoneAssumption
    <2> QED BY <2>1, <2>2
<1>6. /\ rows'[t] = Queued(req[t]) /\ pc'[t] = "ended" /\ answer'[t] = t
      /\ \A j \in Txn \ {t} : rows'[j] = rows[j]
      /\ \A u \in Txn \ {t} : pc'[u] = pc[u] /\ req'[u] = req[u] /\ got'[u] = got[u] /\ answer'[u] = answer[u]
    BY <1>1 DEF TypeOK, Job
<1>7. Jobs' = Jobs \cup {t}
    BY <1>5, <1>6 DEF Jobs, Job
<1>8. \A j \in Jobs : j # t /\ rows'[j] = rows[j]
    BY <1>2, <1>6 DEF Jobs, Job
<1>9. TypeOK'
    <2>1. rows' \in [Job -> Row \cup {None}] /\ Birth(t) \in Entry
        BY <1>1, <1>5 DEF TypeOK, Birth, Entry, Job
    <2> QED BY <1>1, <1>3, <2>1 DEF TypeOK, Job
<1>10. \A u \in Txn : CallFits(u)'
    <2>1. \A u \in Txn \ {t} : CallFits(u)'
        BY <1>6, <1>7, <1>8, OthersFit
    <2>2. CallFits(t)'
        BY <1>1, <1>2, <1>6, <1>7 DEF CallFits, RequestFits, AnswerFits, Enqueued, LoadedIsOlder, Queued
    <2> QED BY <2>1, <2>2
<1>11. RowsHaveInserters'
    BY <1>1, <1>2, <1>6, <1>7, <1>8 DEF RowsHaveInserters, Queued, Jobs, Job
<1>12. KeysHeldOnce'
    <2>1. \A u \in Txn : Holds(u)' => Holds(u)
        BY <1>1, <1>6, <1>7 DEF Holds
    <2> QED BY <1>1, <2>1 DEF KeysHeldOnce, SameRequest
<1>13. BirthsRecorded'
    BY <1>3, <1>7 DEF BirthsRecorded, Birth
<1>14. EndsRecorded'
    <2>1. Queued(req[t]).status \notin TERMINAL_STATUSES
        BY DEF Queued, TERMINAL_STATUSES
    <2> QED BY <1>3, <1>6, <1>7, <1>8, <2>1 DEF EndsRecorded
<1>15. StatusHasItsData'
    BY <1>6, <1>7, <1>8 DEF StatusHasItsData, Queued, TERMINAL_STATUSES
<1> QED BY <1>9, <1>10, <1>11, <1>12, <1>13, <1>14, <1>15

-----------------------------------------------------------------------------
(* The UPDATE of what a transition changed.                                *)

Grows(old, new) ==
    /\ old.scope = new.scope /\ old.key = new.key
    /\ old.result => new.result
    /\ old.error => new.error
    /\ old.started => new.started
    /\ old.completed => new.completed

\* Every transition changes the status and sets its flags; none clears one.
LEMMA WrittenRow ==
    ASSUME NEW kind \in Transition, NEW old \in Row, ~Refused(kind, old)
    PROVE  LET new == Written(kind, old) IN
           /\ new \in Row /\ Grows(old, new)
           /\ new.status = StatusOf[kind] /\ new.status # old.status
           /\ kind = "done" => new.result
           /\ kind = "failed" => new.error
           /\ kind = "running" => new.started
           /\ kind # "running" => new.completed
<1>1. CASE kind = "cancel"
    BY <1>1 DEF Written, Cancelled, Refused, Row, JobStatus, Grows, StatusOf
<1>2. CASE kind = "running"
    BY <1>2 DEF Written, Started, Refused, Row, JobStatus, Grows, StatusOf
<1>3. CASE kind = "done"
    BY <1>3 DEF Written, Done, Refused, Row, JobStatus, Grows, StatusOf, TERMINAL_STATUSES
<1>4. CASE kind = "failed"
    BY <1>4 DEF Written, Failed, Refused, Row, JobStatus, Grows, StatusOf, TERMINAL_STATUSES
<1> QED BY <1>1, <1>2, <1>3, <1>4 DEF Transition

\* What overlapping transitions wrote stays, but for the status.
LEMMA MergedRow ==
    ASSUME NEW old \in Row, NEW new \in Row, NEW now \in Row, Grows(old, new), Grows(old, now),
           new.status # old.status
    PROVE  LET m == Merge(old, new, now) IN
           /\ m \in Row /\ Grows(now, m) /\ Grows(new, m) /\ m.status = new.status
<1>1. /\ DOMAIN now = {"scope", "key", "status", "result", "error", "started", "completed"}
      /\ \A r \in Row : /\ r.scope \in Scope /\ r.key \in Key \cup {NoKey} /\ r.status \in JobStatus
                        /\ r.result \in BOOLEAN /\ r.error \in BOOLEAN
                        /\ r.started \in BOOLEAN /\ r.completed \in BOOLEAN
    BY DEF Row
<1>2. Merge(old, new, now) = [scope |-> IF new.scope # old.scope THEN new.scope ELSE now.scope,
                              key |-> IF new.key # old.key THEN new.key ELSE now.key,
                              status |-> IF new.status # old.status THEN new.status ELSE now.status,
                              result |-> IF new.result # old.result THEN new.result ELSE now.result,
                              error |-> IF new.error # old.error THEN new.error ELSE now.error,
                              started |-> IF new.started # old.started THEN new.started ELSE now.started,
                              completed |-> IF new.completed # old.completed THEN new.completed ELSE now.completed]
    BY <1>1 DEF Merge
<1>3. PICK m : m = Merge(old, new, now)
    OBVIOUS
<1>4. m.scope = now.scope /\ m.key = now.key /\ m.status = new.status
    <2>1. /\ m.scope = IF new.scope # old.scope THEN new.scope ELSE now.scope
          /\ m.key = IF new.key # old.key THEN new.key ELSE now.key
          /\ m.status = IF new.status # old.status THEN new.status ELSE now.status
        BY <1>2, <1>3
    <2> QED BY <2>1 DEF Grows
<1>5. /\ m.result = (now.result \/ new.result) /\ m.error = (now.error \/ new.error)
      /\ m.started = (now.started \/ new.started) /\ m.completed = (now.completed \/ new.completed)
    BY <1>1, <1>2, <1>3 DEF Grows
<1>6. m \in Row
    BY <1>1, <1>2, <1>3 DEF Row
<1>7. Grows(now, m) /\ Grows(new, m)
    BY <1>4, <1>5 DEF Grows
<1> QED BY <1>3, <1>4, <1>6, <1>7

LEMMA WriteKeeps == ASSUME IInv, NEW t \in Txn, Write(t) PROVE IInv'
<1> USE DEF IInv
<1>1. PICK j \in Jobs, new \in Row, m \in Row :
        /\ pc[t] = "write" /\ j = req[t].job /\ req[t].kind \in Transition
        /\ new = Written(req[t].kind, got[t]) /\ m = Merge(got[t], new, rows[j])
        /\ new.status = StatusOf[req[t].kind] /\ m.status = new.status
        /\ Grows(rows[j], m) /\ Grows(new, m)
        /\ req[t].kind = "done" => new.result
        /\ req[t].kind = "failed" => new.error
        /\ req[t].kind = "running" => new.started
        /\ req[t].kind # "running" => new.completed
    <2>1. pc[t] = "write" /\ RequestFits(t) /\ LoadedIsOlder(t)
        BY DEF Write, CallFits
    <2>2. req[t].job \in Jobs /\ req[t].kind \in Transition /\ rows[req[t].job] \in Row
        BY <2>1 DEF RequestFits, TypeOK, Jobs
    <2>3. got[t] \in Row /\ ~Refused(req[t].kind, got[t]) /\ Grows(got[t], rows[req[t].job])
        BY <2>1 DEF LoadedIsOlder, Grows
    <2>4. PICK new : new = Written(req[t].kind, got[t])
        OBVIOUS
    <2>5. /\ new \in Row /\ Grows(got[t], new)
          /\ new.status = StatusOf[req[t].kind] /\ new.status # got[t].status
          /\ req[t].kind = "done" => new.result
          /\ req[t].kind = "failed" => new.error
          /\ req[t].kind = "running" => new.started
          /\ req[t].kind # "running" => new.completed
        BY <2>2, <2>3, <2>4, WrittenRow
    <2>6. PICK m : m = Merge(got[t], new, rows[req[t].job])
        OBVIOUS
    <2>7. m \in Row /\ Grows(rows[req[t].job], m) /\ Grows(new, m) /\ m.status = new.status
        BY <2>2, <2>3, <2>5, <2>6, MergedRow
    <2> QED BY <2>1, <2>2, <2>4, <2>5, <2>6, <2>7
<1>2. /\ rows' = [rows EXCEPT ![j] = m] /\ answer' = [answer EXCEPT ![t] = j]
      /\ pc' = [pc EXCEPT ![t] = "ended"] /\ UNCHANGED <<req, got>>
    BY <1>1 DEF Write, Goto
<1>3. /\ rows'[j] = m /\ pc'[t] = "ended"
      /\ \A i \in Txn \ {j} : rows'[i] = rows[i]
      /\ \A u \in Txn \ {t} : pc'[u] = pc[u] /\ req'[u] = req[u] /\ got'[u] = got[u] /\ answer'[u] = answer[u]
    BY <1>2 DEF TypeOK, Jobs, Job
<1>4. Jobs' = Jobs /\ t \notin Jobs
    BY <1>1, <1>3, NoneAssumption DEF Jobs, Job, RowsHaveInserters
<1>5. /\ req[t].kind # "enqueue" /\ StatusOf[req[t].kind] = m.status
      /\ req[t].kind \in Transition \ {"running"} \/ m.status = "running"
    BY <1>1 DEF Transition, StatusOf
<1>6. PICK e \in [action: {"cancel", "running", "done", "failed"}, job: Job, by: Txn] :
          /\ e.action = req[t].kind /\ e.job = j
          /\ audit' = IF req[t].kind = "running" THEN audit ELSE audit \cup {e}
    <2>1. [action |-> req[t].kind, job |-> j, by |-> t] \in [action: {"cancel", "running", "done", "failed"}, job: Job, by: Txn]
        BY <1>1 DEF Transition, Jobs
    <2>2. audit' = IF req[t].kind = "running" THEN audit
                   ELSE audit \cup {[action |-> req[t].kind, job |-> j, by |-> t]}
        BY <1>1 DEF Write, Audit
    <2> QED BY <2>1, <2>2
<1>7. TypeOK'
    <2>1. audit' \subseteq Entry
        BY <1>6 DEF TypeOK, Entry
    <2>2. rows' \in [Job -> Row \cup {None}] /\ answer' \in [Txn -> Job \cup {None}]
        BY <1>2 DEF TypeOK, Jobs
    <2> QED BY <1>2, <2>1, <2>2 DEF TypeOK
<1>8. \A u \in Txn : CallFits(u)'
    <2>1. \A u \in Txn \ {t} : CallFits(u)'
        <3>1. \A i \in Jobs : Grows(rows[i], rows'[i])
            BY <1>1, <1>3 DEF Grows, Jobs, Job
        <3> QED BY <1>3, <1>4, <3>1, OthersFit DEF Grows
    <2>2. CallFits(t)'
        BY <1>1, <1>2, <1>3, <1>5 DEF CallFits, RequestFits, AnswerFits, Enqueued, LoadedIsOlder
    <2> QED BY <2>1, <2>2
<1>9. RowsHaveInserters'
    <2>1. \A i \in Jobs : rows'[i].scope = rows[i].scope /\ rows'[i].key = rows[i].key
        BY <1>1, <1>3 DEF Grows, Jobs, Job
    <2> QED BY <1>2, <1>3, <1>4, <2>1 DEF RowsHaveInserters, Jobs, Job
<1>10. KeysHeldOnce'
    <2>1. \A u \in Txn : Holds(u)' => Holds(u)
        BY <1>3, <1>4 DEF Holds
    <2> QED BY <1>2, <2>1 DEF KeysHeldOnce, SameRequest
<1>11. BirthsRecorded'
    BY <1>4, <1>5, <1>6 DEF BirthsRecorded, Birth
<1>12. EndsRecorded'
    <2> SUFFICES ASSUME NEW i \in Jobs, rows'[i].status \in TERMINAL_STATUSES
                 PROVE  \E x \in audit' : x.job = i /\ x.action \in Transition \ {"running"}
                                          /\ StatusOf[x.action] = rows'[i].status
        BY <1>4 DEF EndsRecorded
    <2>1. audit \subseteq audit'
        BY <1>6
    <2>2. CASE i # j
        BY <1>3, <2>1, <2>2 DEF EndsRecorded, Jobs, Job
    <2>3. CASE i = j
        <3>1. req[t].kind # "running"
            BY <1>1, <1>3, <1>5, <2>3 DEF TERMINAL_STATUSES, StatusOf
        <3> QED BY <1>3, <1>5, <1>6, <2>3, <3>1 DEF TERMINAL_STATUSES
    <2> QED BY <2>2, <2>3
<1>13. StatusHasItsData'
    <2>1. \A i \in Jobs \ {j} : rows'[i] = rows[i]
        BY <1>3 DEF Jobs, Job
    <2>2. /\ m.status = "done" => m.result
          /\ m.status = "failed" => m.error
          /\ m.status = "running" => m.started
          /\ m.status \in TERMINAL_STATUSES => m.completed
        BY <1>1 DEF Grows, StatusOf, Transition, TERMINAL_STATUSES
    <2> QED BY <1>3, <1>4, <2>1, <2>2 DEF StatusHasItsData
<1> QED BY <1>7, <1>8, <1>9, <1>10, <1>11, <1>12, <1>13

LEMMA NextIInv == IInv /\ [Next]_vars => IInv'
<1> SUFFICES ASSUME IInv, [Next]_vars PROVE IInv'
    OBVIOUS
<1>1. CASE UNCHANGED vars
    <2>1. Jobs' = Jobs /\ \A t \in Txn : ByKey(req[t])' = ByKey(req[t])
        BY <1>1 DEF vars, Jobs, ByKey, SameKey
    <2>2. \A t \in Txn : CallFits(t)'
        BY <1>1, <2>1 DEF vars, IInv, CallFits, RequestFits, AnswerFits, Enqueued, LoadedIsOlder
    <2>3. RowsHaveInserters' /\ KeysHeldOnce' /\ BirthsRecorded' /\ EndsRecorded' /\ StatusHasItsData'
        BY <1>1, <2>1 DEF vars, IInv, RowsHaveInserters, KeysHeldOnce, Holds, SameRequest,
                          BirthsRecorded, Birth, EndsRecorded, StatusHasItsData
    <2> QED BY <1>1, <2>2, <2>3 DEF vars, IInv, TypeOK
<1>2. ASSUME NEW t \in Txn, NEW r \in Requests, Start(t, r) PROVE IInv'
    BY <1>2, StartKeeps
<1>3. ASSUME NEW t \in Txn, Progress(t) PROVE IInv'
    BY <1>3, LookupsKeep, InsertKeeps, CommitJobKeeps, LoadKeeps, WriteKeeps DEF Progress
<1>4. ASSUME NEW t \in Txn, Abort(t) PROVE IInv'
    BY <1>4, AbortKeeps
<1> QED BY <1>1, <1>2, <1>3, <1>4 DEF Next

\* The job table's invariant holds in every state.
THEOREM JobsInvariance == Spec => []IInv
<1> QED BY InitIInv, NextIInv, PTL DEF Spec

-----------------------------------------------------------------------------
LEMMA IInvConverges == IInv => AnswersConverge
<1> SUFFICES ASSUME IInv PROVE AnswersConverge
    OBVIOUS
<1>1. \A t \in Txn : AnswerFits(t) /\ (pc[t] = "refetch" => ByKey(req[t]) # {})
    BY DEF IInv, CallFits
<1>2. \A i \in Jobs, j \in Jobs :
        rows[i].scope = rows[j].scope /\ rows[i].key = rows[j].key /\ rows[i].key # NoKey => i = j
    BY DEF IInv, RowsHaveInserters, KeysHeldOnce, Holds, SameRequest, Jobs, Job
<1>3. ReplaysConverge
    BY <1>1, <1>2 DEF ReplaysConverge, AnswerFits
<1>4. AnswersAreOwn
    <2> SUFFICES ASSUME NEW t \in Txn, Enqueued(t), req[t].key = NoKey,
                        NEW u \in Txn, Enqueued(u), answer[u] = answer[t]
                 PROVE  u = t
        BY <1>1 DEF AnswersAreOwn, AnswerFits
    <2>1. answer[t] = t /\ rows[t].key = NoKey /\ rows[answer[u]].key = req[u].key
        BY <1>1 DEF AnswerFits
    <2> QED BY <1>1, <2>1 DEF AnswerFits
<1>5. LoserFindsWinner
    BY <1>1 DEF LoserFindsWinner
<1> QED BY <1>3, <1>4, <1>5 DEF IInv, AnswersConverge

LEMMA IInvExplains == IInv => HistoryExplained
<1> SUFFICES ASSUME IInv PROVE HistoryExplained
    OBVIOUS
<1> SUFFICES ASSUME NEW j \in Jobs
             PROVE  /\ Cardinality({e \in audit : e.job = j /\ e.action = "enqueue"}) = 1
                    /\ rows[j].status \in TERMINAL_STATUSES =>
                          \E e \in audit : /\ e.job = j /\ e.action # "enqueue"
                                          /\ Written(e.action, rows[j]).status = rows[j].status
    BY DEF IInv, HistoryExplained, AuditExplainsStatus
<1>1. {e \in audit : e.job = j /\ e.action = "enqueue"} = {Birth(j)}
    BY DEF IInv, BirthsRecorded, Birth
<1>2. Cardinality({Birth(j)}) = 1
    BY FS_Singleton
<1>3. ASSUME rows[j].status \in TERMINAL_STATUSES
      PROVE  \E e \in audit : /\ e.job = j /\ e.action # "enqueue"
                              /\ Written(e.action, rows[j]).status = rows[j].status
    <2>1. PICK e \in audit : e.job = j /\ e.action \in Transition \ {"running"} /\ StatusOf[e.action] = rows[j].status
        BY <1>3 DEF IInv, EndsRecorded
    <2>2. rows[j] \in Row
        BY DEF IInv, TypeOK, Jobs
    <2>3. PICK row \in Row : row = rows[j]
        BY <2>2
    <2>4. Cancelled(row).status = "cancelled" /\ Done(row).status = "done" /\ Failed(row).status = "failed"
        BY DEF Cancelled, Done, Failed, Row
    <2>5. Written(e.action, row).status = StatusOf[e.action] /\ e.action # "enqueue"
        BY <2>1, <2>4 DEF Written, StatusOf, Transition
    <2> QED BY <2>1, <2>3, <2>5
<1> QED BY <1>1, <1>2, <1>3

\* services/job.py:13, "racey clients converge": enqueues of one tenant under
\* one key return one job, and every answer is in the caller's own scope.
THEOREM EnqueuesConverge == Spec => []AnswersConverge
<1> QED BY JobsInvariance, IInvConverges, PTL

\* services/job.py:15: a status comes with its data and its audit entry.
THEOREM StatusIsExplained == Spec => []HistoryExplained
<1> QED BY JobsInvariance, IInvExplains, PTL

\* services/job.py cancel, mark_done, mark_failed: a terminal status is left
\* only by a call that had read the row before it was terminal.
THEOREM TerminalIsKeptSerially == Spec => TerminalLeftOnlyByOverlap
<1>1. IInv /\ [Next]_vars =>
        [\A j \in Jobs :
            rows[j].status \in TERMINAL_STATUSES /\ rows'[j].status # rows[j].status
              => \E t \in Txn : /\ pc[t] = "write" /\ Write(t) /\ req[t].job = j
                                /\ got[t].status \notin TERMINAL_STATUSES]_vars
    <2> SUFFICES ASSUME IInv, Next, NEW j \in Jobs, rows'[j].status # rows[j].status
                 PROVE  \E t \in Txn : /\ pc[t] = "write" /\ Write(t) /\ req[t].job = j
                                       /\ got[t].status \notin TERMINAL_STATUSES
        BY DEF vars
    <2>1. PICK t \in Txn : Progress(t) \/ Abort(t) \/ \E r \in Requests : Start(t, r)
        BY DEF Next
    <2>2. CASE Write(t)
        <3>1. pc[t] = "write" /\ RequestFits(t) /\ LoadedIsOlder(t) /\ rows \in [Job -> Row \cup {None}]
            BY <2>2 DEF Write, IInv, CallFits, TypeOK
        <3>2. req[t].job = j
            BY <2>2, <3>1 DEF Write, Jobs
        <3>3. req[t].kind \in Transition /\ ~Refused(req[t].kind, got[t])
            BY <3>1 DEF RequestFits, LoadedIsOlder
        <3>4. got[t].status \notin TERMINAL_STATUSES
            BY <3>3 DEF Refused, TERMINAL_STATUSES
        <3> QED BY <2>2, <3>1, <3>2, <3>4
    <2>3. CASE CommitJob(t)
        <3>1. t \notin Jobs
            BY <2>3 DEF CommitJob, IInv, RowsHaveInserters
        <3>2. rows'[j] = rows[j]
            BY <2>3, <3>1 DEF CommitJob, IInv, TypeOK, Jobs
        <3> QED BY <3>2
    <2>4. CASE \/ Find(t) \/ Insert(t) \/ Refetch(t) \/ Load(t) \/ Abort(t)
               \/ \E r \in Requests : Start(t, r)
        <3>1. rows' = rows
            BY <2>4 DEF Find, Insert, Refetch, Load, Abort, Start, Return, Refuse, tables
        <3> QED BY <3>1
    <2> QED BY <2>1, <2>2, <2>3, <2>4 DEF Progress
<1> QED BY <1>1, JobsInvariance, PTL DEF Spec, TerminalLeftOnlyByOverlap
=============================================================================
