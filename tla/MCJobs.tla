------------------------------- MODULE MCJobs -------------------------------
(***************************************************************************)
(* A small instance of Jobs for TLC.                                       *)
(***************************************************************************)
EXTENDS Jobs

CONSTANTS t1, t2, t3, t4, a, b, k

\* Tenant a enqueues with and without a key and works on its jobs, tenant b
\* uses the same key and tries to cancel.  Transitions work on the jobs t1 and
\* t2 insert; the other calls' jobs would only repeat that under another name.
Calls ==
    [kind : {"enqueue"}, scope : {a}, key : {k, NoKey}]
    \cup [kind : {"enqueue"}, scope : {b}, key : {k}]
    \cup [kind : Transition, scope : {a}, job : {t1, t2}]
    \cup [kind : {"cancel"}, scope : {b}, job : {t1}]

=============================================================================
