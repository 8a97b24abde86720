----------------------------- MODULE StableLog -----------------------------
(***************************************************************************)
(* What log buffer and log files promise the log manager: a log to which   *)
(* records are appended, of which a prefix is stable.  A crash keeps the   *)
(* stable records and perhaps some that follow, but leaves no gap.  The    *)
(* log starts at the last checkpoint.                                      *)
(***************************************************************************)
EXTENDS Naturals, SequencesExt

VARIABLES
    log,           \* the records since the last checkpoint, oldest first
    stable,        \* how many of them a crash keeps for certain
    up             \* the system runs

Init == log = << >> /\ stable = 0 /\ up = TRUE

Write ==
    /\ up
    /\ Len(log') = Len(log) + 1 /\ IsPrefix(log, log')
    /\ UNCHANGED <<stable, up>>

Flush ==
    /\ up
    /\ stable' = Len(log)
    /\ UNCHANGED <<log, up>>

\* A checkpoint: the first k records are not needed any more.
Truncate ==
    /\ up
    /\ \E k \in 1 .. stable :
          /\ log' = SubSeq(log, k + 1, Len(log))
          /\ stable' = stable - k
    /\ UNCHANGED up

Crash ==
    /\ up /\ ~up'
    /\ \E k \in stable .. Len(log) : stable' = k /\ log' = SubSeq(log, 1, k)

Restart ==
    /\ ~up /\ up'
    /\ UNCHANGED <<log, stable>>

Next == Write \/ Flush \/ Truncate \/ Crash \/ Restart

Spec == Init /\ [][Next]_<<log, stable, up>>

=============================================================================
