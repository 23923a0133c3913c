------------------------------ MODULE Outages ------------------------------
(***************************************************************************)
(* Outages of one device, derived from the rows of device_status_log, and   *)
(* what the periodic jobs make of them: the history row of each completed   *)
(* outage, and the ticket and the alert mail for one that lasts too long.   *)
(* The log is pruned by age and by number of rows; runs of the jobs come    *)
(* late, overlap and fail.                                                  *)
(*                                                                          *)
(* A job reads what is already known before it inserts.  That read only     *)
(* saves work: a duplicate that it misses meets the unique key, with the    *)
(* same effect.  It is left out here.                                       *)
(*                                                                          *)
(* Code: lib/outage-detection.js, services/outage-history.js,               *)
(* outage-escalation.js, sla-breach-ticket.js, db/database.js               *)
(* (pruneStatusLog), routes/workspaces.js (PATCH of a ticket).              *)
(***************************************************************************)
EXTENDS Naturals, Sequences, FiniteSetsExt

CONSTANTS
    Runs,              \* runs of the escalation job that may overlap
    Retention,         \* statusLogRetentionDays
    Cap,               \* statusLogMaxRowsPerDevice
    HistoryRetention,  \* outageHistoryRetentionDays
    Threshold,         \* slaEscalationThresholdHours
    MaxTime,           \* bound: the clock
    MaxRows,           \* bound: rows written to the log
    MaxUpsets          \* bound: statements that fail, restarts, tickets changed by a person

ASSUME OutagesAssumption ==
    /\ {Retention, HistoryRetention, Threshold} \subseteq Nat
    /\ Cap \in Nat \ {0}
    /\ {MaxTime, MaxRows, MaxUpsets} \subseteq Nat

Times == 0 .. MaxTime
Ongoing == MaxTime + 1         \* an outage_end that is NULL
Row == [ts : Times, on : BOOLEAN]
Outage == [start : Times, end : Times \cup {Ongoing}]
Statuses == {"open", "in_progress", "done"}

VARIABLES
    now,
    rows,     \* every row written to device_status_log, by timestamp and id
    pruned,   \* how many of them, the oldest, are deleted
    history,  \* outage_history
    ticket,   \* the ticket for the outage that started at each time
    claims,   \* outage_escalations
    mails,    \* how often each claim was mailed
    run,      \* the runs of the escalation job
    due,      \* history variable: the outages a completed run found over and in reach
    upsets

vars == <<now, rows, pruned, history, ticket, claims, mails, run, due, upsets>>
tables == <<history, ticket, claims, mails>>
log == <<rows, pruned>>

Idle == [stage |-> "idle", seen |-> {}, todo |-> {}]

Upset == upsets < MaxUpsets /\ upsets' = upsets + 1

TypeOK ==
    /\ now \in Times
    /\ rows \in Seq(Row) /\ Len(rows) <= MaxRows
    /\ \A i \in 2 .. Len(rows) : rows[i - 1].ts <= rows[i].ts
    /\ pruned \in 0 .. Len(rows)
    /\ due \subseteq (1 .. Len(rows)) \X (1 .. Len(rows))
    /\ history \subseteq Outage /\ \A h, k \in history : h.start = k.start => h = k
    /\ ticket \in [Times -> Statuses \cup {"none"}]
    /\ claims \subseteq Times
    /\ mails \in [Times -> Nat]
    /\ \A s \in Times : mails[s] > 0 => s \in claims
    /\ run \in [Runs -> [stage : {"idle", "open", "resolve", "claim", "send"},
                         seen : SUBSET Times, todo : SUBSET Times]]
    /\ \A r \in Runs :
        /\ run[r].stage = "idle" => run[r] = Idle
        /\ run[r].stage = "resolve" => run[r].seen # {}
        /\ run[r].stage \in {"claim", "send"} => run[r].todo # {}
        /\ run[r].stage = "send" => Min(run[r].todo) \in claims
    /\ upsets \in 0 .. MaxUpsets

Init ==
    /\ now = 0 /\ rows = <<>> /\ pruned = 0
    /\ history = {} /\ claims = {} /\ due = {}
    /\ ticket = [s \in Times |-> "none"]
    /\ mails = [s \in Times |-> 0]
    /\ run = [r \in Runs |-> Idle]
    /\ upsets = 0

-----------------------------------------------------------------------------
(* The log.                                                                 *)

\* A row repeats the last one's state when the sweep finds the device gone that its
\* disconnect has logged, and after a restart, which forgets what was last written.  Any
\* number of rows may carry one second.
Write ==
    /\ Len(rows) < MaxRows
    /\ \E on \in BOOLEAN : rows' = Append(rows, [ts |-> now, on |-> on])
    /\ UNCHANGED <<now, pruned, tables, run, due, upsets>>

\* A sweep deletes by age, then by number.  It may stop before it is through.
PruneStatusLog ==
    /\ \E k \in pruned + 1 .. Len(rows) :
        /\ \A m \in 1 .. k : rows[m].ts + Retention < now \/ Len(rows) - m >= Cap
        /\ pruned' = k
    /\ UNCHANGED <<now, rows, tables, run, due, upsets>>

\* The rows that a run looks at: the last ones.
Window == {i \in DOMAIN rows : i > pruned /\ rows[i].ts + Retention >= now}

\* The outage that starts with row i ends at the next online row.
OutageFrom(i, window) ==
    LET back == {rows[j].ts : j \in {k \in window : k > i /\ rows[k].on}}
    IN  [start |-> rows[i].ts, end |-> IF back = {} THEN Ongoing ELSE Min(back)]

\* A faulty Detect that takes every offline row for the start of an outage, and the row
\* after it for its end.
DetectEveryRow ==
    {[start |-> rows[i].ts, end |-> IF i = Len(rows) THEN Ongoing ELSE rows[i + 1].ts] :
       i \in {j \in Window : ~rows[j].on}}

\* A faulty Detect that misses an outage with no row before it (LAG is NULL).
DetectAfterOnline ==
    {OutageFrom(i, Window) :
       i \in {j \in Window : ~rows[j].on /\ j - 1 \in Window /\ rows[j - 1].on}}

\* The detector: an outage starts at an offline row that follows an online row or none.
Detect ==
    LET window == Window
        starts == {i \in window : ~rows[i].on /\ (i - 1 \in window => rows[i - 1].on)}
    IN  {OutageFrom(i, window) : i \in starts}

Recovered(outages) == {o \in outages : o.end # Ongoing}
Breaching(outages) == {o.start : o \in {p \in outages : p.end = Ongoing /\ now - p.start > Threshold}}

-----------------------------------------------------------------------------
(* The outages there were: <<i, j>> when row i is the first of those that   *)
(* call the device offline and row j the first after it that does not.      *)

Over ==
    {o \in (1 .. Len(rows)) \X (1 .. Len(rows)) :
        /\ o[1] < o[2] /\ rows[o[2]].on
        /\ \A k \in o[1] .. o[2] - 1 : ~rows[k].on
        /\ o[1] = 1 \/ rows[o[1] - 1].on}

\* The row it starts with is not older than the log is kept, and not crowded out.
InReach(o) == rows[o[1]].ts + Retention >= now /\ Len(rows) - o[1] < Cap

-----------------------------------------------------------------------------
(* The recorder.                                                            *)

Missing == {o \in Recovered(Detect) : ~\E h \in history : h.start = o.start}

\* The key (device, started_at) is unique: of two that start in one second one is taken.
Inserts ==
    LET missing == Missing
    IN  {new \in SUBSET missing :
           /\ \A o, p \in new : o.start = p.start => o = p
           /\ \A o \in missing : \E p \in new : p.start = o.start}

Expired(outages) == {h \in outages : h.start + HistoryRetention < now}

\* A run that completes prunes the history last.  Its inserts touch nothing else, and
\* runs that overlap insert the same rows, so it is one step.
Record ==
    /\ \E new \in Inserts : history' = (history \cup new) \ Expired(history \cup new)
    /\ due' = due \cup {o \in Over : InReach(o)}
    /\ UNCHANGED <<now, log, ticket, claims, mails, run, upsets>>

\* A run whose statement fails has inserted the outages up to there, or all of them and
\* pruned some.
RecordFails ==
    /\ Upset
    /\ \E new \in Inserts :
        \/ \E t \in Times : history' = history \cup {o \in new : o.start < t}
        \/ \E gone \in SUBSET Expired(history \cup new) :
             history' = (history \cup new) \ gone
    /\ UNCHANGED <<now, log, ticket, claims, mails, run, due>>

-----------------------------------------------------------------------------
(* The escalation job.  Each statement of a run is a step.                  *)

Begin(r, q) ==
    /\ run' = [run EXCEPT ![r] = q]
    /\ UNCHANGED <<now, log, tables, due, upsets>>

\* A faulty After that goes on to the mails with no outage left to mail about.
AfterStuck(q) == IF q.seen # {} THEN [q EXCEPT !.stage = "resolve"] ELSE [q EXCEPT !.stage = "claim"]

\* The run goes on with what is left of its work.
After(q) ==
    IF q.seen # {} THEN [q EXCEPT !.stage = "resolve"]
    ELSE IF q.todo # {} THEN [q EXCEPT !.stage = "claim"] ELSE Idle
GoOn(r, q) ==
    /\ run' = [run EXCEPT ![r] = After(q)]
    /\ UNCHANGED <<now, log, due, upsets>>

\* What a run has to do: tickets to resolve, tickets to open and mails to send, each by the
\* start of its outage.
Work ==
    LET found == Detect
    IN  [stage |-> "open", seen |-> {o.start : o \in Recovered(found)}, todo |-> Breaching(found)]

\* A faulty StartOutage that returns when nothing is in breach, tickets or not.
StartOutageBreaches(r) ==
    /\ run[r] = Idle
    /\ LET work == Work IN work.todo # {} /\ Begin(r, work)

\* A run that finds no outage does nothing.
StartOutage(r) ==
    /\ run[r] = Idle
    /\ LET work == Work IN work.seen \cup work.todo # {} /\ Begin(r, work)

\* One INSERT per outage in breach; the key (device, source_outage_start) is unique.
OpenTicket(r) ==
    LET q == run[r] IN
    /\ q.stage = "open"
    /\ ticket' = [s \in Times |-> IF s \in q.todo /\ ticket[s] = "none"
                                  THEN "open" ELSE ticket[s]]
    /\ GoOn(r, q)
    /\ UNCHANGED <<history, claims, mails>>

\* A ticket nobody has taken up is resolved when its outage is over.
ResolveTicket(r) ==
    LET q == run[r]  s == Min(q.seen) IN
    /\ q.stage = "resolve"
    /\ ticket' = [ticket EXCEPT ![s] = IF @ = "open" THEN "done" ELSE @]
    /\ GoOn(r, [q EXCEPT !.seen = @ \ {Min(q.seen)}])
    /\ UNCHANGED <<history, claims, mails>>

\* A faulty Claim that takes a duplicate for its own.
ClaimAnyway(r) ==
    LET q == run[r]  key == Min(q.todo) IN
    /\ q.stage = "claim"
    /\ claims' = claims \cup {key}
    /\ run' = [run EXCEPT ![r].stage = "send"]
    /\ UNCHANGED <<now, log, history, ticket, mails, due, upsets>>

\* The claim comes before the mail.  Without an administrator nothing is claimed.
Claim(r) ==
    LET q == run[r]  key == Min(q.todo) IN
    /\ q.stage = "claim"
    /\ \/ /\ key \notin claims
          /\ claims' = claims \cup {key}
          /\ run' = [run EXCEPT ![r].stage = "send"]
          /\ UNCHANGED <<now, log, due, upsets>>
       \/ /\ UNCHANGED claims
          /\ GoOn(r, [q EXCEPT !.todo = @ \ {Min(q.todo)}])
    /\ UNCHANGED <<history, ticket, mails>>

\* Mail that fails is only logged.
Send(r) ==
    LET q == run[r] IN
    /\ q.stage = "send"
    /\ mails' = [mails EXCEPT ![Min(q.todo)] = @ + 1]
    /\ GoOn(r, [q EXCEPT !.todo = @ \ {Min(q.todo)}])
    /\ UNCHANGED <<history, ticket, claims>>

\* A statement fails.  The tickets' failure does not keep the mails from being sent.
RunFails(r) ==
    LET q == run[r] IN
    /\ q.stage \in {"open", "resolve", "claim"}
    /\ Upset
    /\ run' = [run EXCEPT ![r] = IF q.stage \in {"open", "resolve"}
                                 THEN After([q EXCEPT !.seen = {}]) ELSE Idle]
    /\ UNCHANGED <<now, log, tables, due>>

Restart ==
    /\ Upset
    /\ run' = [r \in Runs |-> Idle]
    /\ UNCHANGED <<now, log, tables, due>>

-----------------------------------------------------------------------------
\* A person gives a ticket another status (PATCH).
Patch(s, status) ==
    /\ ticket[s] \notin {"none", status}
    /\ Upset
    /\ ticket' = [ticket EXCEPT ![s] = status]
    /\ UNCHANGED <<now, log, history, claims, mails, run, due>>

\* The timer of the recorder may be held up, and a run that fails is not made up for
\* before the next: time passes all the same.
Pass ==
    /\ now < MaxTime
    /\ now' = now + 1
    /\ UNCHANGED <<log, tables, run, due, upsets>>

Steps(r) == OpenTicket(r) \/ ResolveTicket(r) \/ Claim(r) \/ Send(r)

Next ==
    \/ Write \/ PruneStatusLog \/ Pass
    \/ Record \/ RecordFails \/ Restart
    \/ \E r \in Runs : StartOutage(r) \/ Steps(r) \/ RunFails(r)
    \/ \E s \in Times, status \in Statuses : Patch(s, status)

\* The timers fire again and again, and a run that has begun goes on.
Fairness == \A r \in Runs : WF_vars(StartOutage(r) \/ Steps(r))

Spec == Init /\ [][Next]_vars
FairSpec == Spec /\ Fairness

-----------------------------------------------------------------------------
(* Properties.                                                              *)

\* Every row of the history ends when an outage really ended, and starts within it: no
\* phantom and no two outages run together (outage-detection.js).
HistorySound ==
    \A h \in history : \E o \in Over :
        h.end = rows[o[2]].ts /\ rows[o[1]].ts <= h.start /\ h.start <= h.end

\* An outage that a completed run of the recorder found over, with its first row still in
\* the window and among the newest, is in the history from then on, however late or often
\* failed that run came and whatever the log has lost since, until the history itself is
\* pruned.  Outages that start in one second share a row (outage-history.js).
NothingSlips ==
    \A o \in due :
        rows[o[1]].ts + HistoryRetention >= now => \E h \in history : h.start = rows[o[1]].ts

\* "A concurrent tick or a mid-send crash can't double-mail" (outage-escalation.js).
OneMail == \A s \in Times : mails[s] <= 1

\* A ticket that nobody takes up and whose outage is over is resolved, however the runs
\* overlap, unless the row the outage began with leaves the log (sla-breach-ticket.js).
Stale(s) ==
    /\ ticket[s] = "open" /\ s + Retention >= now
    /\ \E o \in Over : o[1] > pruned /\ rows[o[1]].ts = s
RecoveredTicketResolved == []<>(\A s \in Times : ~Stale(s))
=============================================================================
