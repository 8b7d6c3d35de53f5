------------------------------ MODULE Reminders ------------------------------
(***************************************************************************)
(* The daily payment reminders (app/tasks/payment_reminders.py, run by the *)
(* arq worker of app/tasks/worker.py).  A run loads the unpaid invoices,   *)
(* then takes them one by one: it marks the reminder in Redis, looks the   *)
(* owner up, mails.  The mark comes first and is never taken back.         *)
(*                                                                         *)
(* arq starts a job again when its worker died over it, perhaps while the  *)
(* first run still goes on, and does not make up for a day it was down.    *)
(***************************************************************************)
EXTENDS Integers, FiniteSets

CONSTANTS
    Bill,          \* invoices
    Run,           \* attempts at the day's job
    Day,           \* the days looked at
    Due            \* the day each invoice is due

ASSUME RemindersAssumption ==
    /\ Day \subseteq Int /\ \E d \in Day : \A e \in Day : d <= e
    /\ Due \in [Bill -> Int]

FirstDay == CHOOSE d \in Day : \A e \in Day : d <= e
\* REMINDER_OFFSETS_DAYS
Offset == {-3, 0, 3, 7}
Reminder == Bill \X Offset

VARIABLES
    day,
    unpaid,    \* the invoices that are open or drafts
    reachable, \* those whose tenant has an active user
    marked,    \* reminder:{invoice}:{offset} in Redis
    run,       \* the attempts
    mails,     \* what was sent: <<invoice, days it was before due, day, run>>
    forgotten, \* reminders whose mark Redis lost
    dropped,   \* reminders marked by a run that did not get to mail them
    paidOn     \* the day an invoice was paid

reminderVars == <<day, unpaid, reachable, marked, run, mails, forgotten, dropped, paidOn>>
world == <<day, unpaid, reachable, paidOn>>
ghosts == <<forgotten, dropped>>

Idle == [pc |-> "idle", last |-> FirstDay - 1]
RemindersInit ==
    /\ day = FirstDay
    /\ unpaid \in SUBSET Bill /\ reachable \in SUBSET Bill
    /\ marked = {} /\ mails = {}
    /\ run = [r \in Run |-> Idle]
    /\ forgotten = {} /\ dropped = {}
    /\ paidOn = [i \in Bill |-> FirstDay - 1]

Now(r) == run[r].last
Loops(r, S) == [pc |-> "loop", last |-> day, left |-> S]

\* status IN (OPEN, DRAFT)
Selected == unpaid

\* One attempt each day: the cron job, or arq's retry of it.
StartRun(r) ==
    /\ run[r].pc = "idle" /\ run[r].last < day
    /\ run' = [run EXCEPT ![r] = Loops(r, Selected)]
    /\ UNCHANGED <<world, marked, mails, ghosts>>

DaysToDue(r, i) == Due[i] - Now(r)
To(r, p, i) == run' = [run EXCEPT ![r] = [pc |-> p, last |-> Now(r), left |-> run[r].left \ {i},
                                          at |-> <<i, DaysToDue(r, i)>>]]

\* Mutant of MarkKey: one mark for all the reminders of an invoice.
MarkKeyOfInvoice(r, i) == <<i, 0>>
\* f"reminder:{invoice_id}:{offset}"
MarkKey(r, i) == <<i, DaysToDue(r, i)>>

Pass(r, i) ==
    /\ run' = [run EXCEPT ![r].left = @ \ {i}]
    /\ UNCHANGED <<world, marked, mails, ghosts>>
\* Not a day for a reminder, or SET NX finds the mark.
Skip(r) ==
    /\ run[r].pc = "loop"
    /\ \E i \in run[r].left : (DaysToDue(r, i) \in Offset => MarkKey(r, i) \in marked) /\ Pass(r, i)

\* Mutant of Mark: the reminder is marked and looked for at once, unmarked or not.
MarkAnyhow(r) ==
    /\ run[r].pc = "loop"
    /\ \E i \in run[r].left :
        /\ DaysToDue(r, i) \in Offset
        /\ marked' = marked \cup {MarkKey(r, i)}
        /\ To(r, "owner", i)
    /\ UNCHANGED <<world, mails, ghosts>>
Mark(r) ==
    /\ run[r].pc = "loop"
    /\ \E i \in run[r].left :
        /\ DaysToDue(r, i) \in Offset /\ MarkKey(r, i) \notin marked
        /\ marked' = marked \cup {MarkKey(r, i)}
        /\ To(r, "owner", i)
    /\ UNCHANGED <<world, mails, ghosts>>

\* tenant, owner: without them, on to the next invoice.
Owner(r) ==
    /\ run[r].pc = "owner"
    /\ LET found == run[r].at[1] \in reachable IN
       /\ run' = [run EXCEPT ![r].pc = IF found THEN "send" ELSE "loop"]
       /\ dropped' = IF found THEN dropped ELSE dropped \cup {run[r].at}
    /\ UNCHANGED <<world, marked, mails, forgotten>>

Send(r) ==
    /\ run[r].pc = "send"
    /\ mails' = mails \cup {<<run[r].at, day, r>>}
    /\ run' = [run EXCEPT ![r].pc = "loop"]
    /\ UNCHANGED <<world, marked, ghosts>>

Done(r) ==
    /\ run[r].pc = "loop" /\ run[r].left = {}
    /\ run' = [run EXCEPT ![r] = [pc |-> "idle", last |-> Now(r)]]
    /\ UNCHANGED <<world, marked, mails, ghosts>>

\* Redis, the database or the mail provider raises, or the worker is stopped:
\* the job is over for the invoices that are left.
Break(r) ==
    /\ run[r].pc # "idle"
    /\ run' = [run EXCEPT ![r] = [pc |-> "idle", last |-> Now(r)]]
    /\ dropped' = dropped \cup IF run[r].pc \in {"owner", "send"} THEN {run[r].at} ELSE {}
    /\ UNCHANGED <<world, marked, mails, forgotten>>

-----------------------------------------------------------------------------
(* The rest of the platform, and time.                                     *)

\* A run is over before the next day's (arq's job timeout is five minutes).
\* The days between two of Day have no reminder, or the worker was down.
DaysPass ==
    /\ \A r \in Run : run[r].pc = "idle"
    /\ day' \in {d \in Day : d > day}
    /\ UNCHANGED <<unpaid, reachable, paidOn, marked, run, mails, ghosts>>
Pay(i) ==
    /\ i \in unpaid /\ unpaid' = unpaid \ {i}
    /\ paidOn' = [paidOn EXCEPT ![i] = day]
    /\ UNCHANGED <<day, reachable, marked, run, mails, ghosts>>
OwnerComesBack(i) ==
    /\ i \notin reachable /\ reachable' = reachable \cup {i}
    /\ UNCHANGED <<day, unpaid, paidOn, marked, run, mails, ghosts>>
\* Redis is a cache: it may be flushed, or come back without its data.
RedisForgets ==
    /\ marked # {} /\ marked' = {} /\ forgotten' = forgotten \cup marked
    /\ UNCHANGED <<world, run, mails, dropped>>

RemindersNext ==
    \/ \E r \in Run : StartRun(r) \/ Skip(r) \/ Mark(r) \/ Owner(r) \/ Send(r) \/ Done(r) \/ Break(r)
    \/ DaysPass \/ RedisForgets
    \/ \E i \in Bill : Pay(i) \/ OwnerComesBack(i)
RemindersSpec == RemindersInit /\ [][RemindersNext]_reminderVars

-----------------------------------------------------------------------------
(* Properties.                                                             *)

RemindersTypeOK ==
    /\ day \in Day /\ unpaid \subseteq Bill /\ reachable \subseteq Bill
    /\ marked \subseteq Reminder /\ forgotten \subseteq Reminder /\ dropped \subseteq Reminder
    /\ \A r \in Run : run[r].pc \in {"idle", "loop", "owner", "send"}
    /\ mails \subseteq Reminder \X Day \X Run

\* payment_reminders.py, "Idempotent per (invoice, day) via a Redis SETNX
\* guard": whatever is retried or overlaps, a reminder is mailed once, unless
\* Redis lost its mark.
RemindedOnce ==
    \A m, n \in mails : m[1] = n[1] => m = n \/ m[1] \in forgotten

\* payment_reminders.py _already_sent: a mark stands for a mail, for a run that
\* is about to send it, or for a reminder that was dropped for good.
MarkStandsForMail ==
    \A k \in marked :
        \/ k \in dropped
        \/ \E m \in mails : m[1] = k
        \/ \E r \in Run : run[r].pc \in {"owner", "send"} /\ run[r].at = k

\* payment_reminders.py dispatch_due_reminders: a run that gets to its end
\* leaves no invoice it selected, and that is due a reminder on its day,
\* unmailed: each was mailed, dropped, or is in the hands of another attempt.
RunReachesEveryInvoice ==
    \A r \in Run : run[r].pc = "loop" =>
        \A i \in Bill \ run[r].left :
            i \in unpaid /\ DaysToDue(r, i) \in Offset =>
                LET k == <<i, DaysToDue(r, i)>> IN
                \/ k \in dropped \cup forgotten
                \/ \E m \in mails : m[1] = k
                \/ \E o \in Run : run[o].pc \in {"owner", "send"} /\ run[o].at = k

\* dispatch_due_reminders does not look at an invoice again before it mails:
\* one that was paid is mailed about on the day it was paid, never later.
PaidIsLeftAlone ==
    \A m \in mails : m[1][1] \notin unpaid => paidOn[m[1][1]] >= m[2]

\* payment_reminders.py: every reminder is accounted for, and none goes out
\* that should not.
RemindersAccountedFor ==
    RemindersTypeOK /\ MarkStandsForMail /\ RunReachesEveryInvoice /\ PaidIsLeftAlone
=============================================================================
