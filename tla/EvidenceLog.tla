----------------------------- MODULE EvidenceLog -----------------------------
(***************************************************************************)
(* What the evidence of a session promises its readers, without files,     *)
(* caches or cursors: a log of accepted records and a set of rejected      *)
(* ones.  A record enters once, what is in the log neither changes nor     *)
(* moves, and the log is emptied by a reset, which opens a new cycle, or   *)
(* by the removal of the session.                                          *)
(***************************************************************************)
EXTENDS Naturals, Sequences, SequencesExt

VARIABLES
    open,      \* the session exists
    cycle,     \* how many resets the session has seen
    accepted,  \* the log
    rejected   \* records that left a diagnostic instead

logVars == <<open, cycle, accepted, rejected>>

LogInit ==
    /\ open = TRUE
    /\ cycle = 0
    /\ accepted = <<>>
    /\ rejected = {}

\* The records that may come are not enumerated: one is whatever was added.
Accept ==
    /\ open
    /\ \E id \in Range(accepted') \ Range(accepted) : accepted' = Append(accepted, id)
    /\ UNCHANGED <<open, cycle, rejected>>

Reject ==
    /\ open
    /\ \E id \in rejected' \ rejected : rejected' = rejected \cup {id}
    /\ UNCHANGED <<open, cycle, accepted>>

StartCycle ==
    /\ open
    /\ cycle' = cycle + 1
    /\ accepted' = <<>>
    /\ rejected' = {}
    /\ UNCHANGED open

Close ==
    /\ open
    /\ open' = FALSE
    /\ accepted' = <<>>
    /\ rejected' = {}
    /\ UNCHANGED cycle

LogNext == Accept \/ Reject \/ StartCycle \/ Close

LogSpec == LogInit /\ [][LogNext]_logVars
=============================================================================
