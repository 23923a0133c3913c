--------------------------- MODULE OutagesOnTime ---------------------------
(***************************************************************************)
(* The outage recorder as its comments take it to run: no interval passes   *)
(* without a run that completes.                                            *)
(*                                                                          *)
(* Code: services/outage-history.js (startOutageHistoryRecorder).           *)
(***************************************************************************)
EXTENDS Outages

CONSTANT Interval      \* outageHistoryIntervalMs
VARIABLE lastRun       \* when a run of the recorder last completed

OnTimeInit == Init /\ lastRun = 0

OnTimeNext ==
    \/ Record /\ lastRun' = now
    \/ Next /\ now' <= lastRun + Interval /\ UNCHANGED lastRun

OnTimeSpec == OnTimeInit /\ [][OnTimeNext]_<<vars, lastRun>>

\* "So no outage's rows can age out unseen between two sweeps" (outage-history.js): every
\* outage is in the history once a run has begun after it ended, until the history itself
\* is pruned; and this with a log that is not cut by number.
NoOutageUnrecorded ==
    \A o \in Over :
        /\ Len(rows) <= Cap /\ rows[o[2]].ts < lastRun
        /\ lastRun <= rows[o[1]].ts + HistoryRetention
        => \E h \in history : h.end = rows[o[2]].ts
=============================================================================
