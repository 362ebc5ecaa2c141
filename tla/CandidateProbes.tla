-------------------------- MODULE CandidateProbes --------------------------
(***************************************************************************)
(* Candidates and their probes: a source or a person reports a relay       *)
(* (src/src/db/candidates.ts upsertCandidate, src/src/sources/ingest.ts),  *)
(* the scheduler leases what is due and enqueues it (claimDueCandidateIds, *)
(* src/src/jobs/schedule-due-probes.ts), a worker probes it and records    *)
(* what it found (src/src/jobs/probe-candidate.ts), and a curator          *)
(* suppresses and restores it (src/src/db/curation.ts).                    *)
(*                                                                         *)
(* A probe may outlive the 60 seconds of its job, so two may overlap, and  *)
(* a curator may act between any two of their steps.                       *)
(***************************************************************************)
EXTENDS Naturals

CONSTANTS
    Candidates,
    Probes,         \* handlers that may run together
    MaxQueued,      \* bound: jobs of one candidate
    MaxCurations,   \* bound: decisions of curators
    MaxBreaks       \* bound: failing sends, dying workers and jobs that expire

ASSUME BoundsAssumption == {MaxQueued, MaxCurations, MaxBreaks} \subseteq Nat

VARIABLES
    candidate,      \* [state, classified]: classified is classifier_version IS NOT NULL
    due,            \* next_probe_at: past, the lease of a scheduler, or a day away
    outbox,         \* candidates that a scheduler or an ingest is about to enqueue
    throttled,      \* candidates enqueued within the last 60 seconds (singletonKey)
    queued,         \* jobs of discovery.probe-candidate
    probe,          \* the handlers
    exact,          \* candidates with a snapshot exact_software_and_protocol
    reprobed,       \* history: candidates probed since they were last restored
    hidden,         \* history: candidates whose last curation was a suppression
    curations,
    breaks

probeVars == <<candidate, due, outbox, throttled, queued, probe, exact, reprobed,
               hidden, curations, breaks>>

Verdicts == {"verified_buzz", "probable_buzz", "rejected"}
States == Verdicts \cup {"unknown", "discovered", "probing", "suppressed"}
Unseen == [state |-> "unknown", classified |-> FALSE]
Resting == [at |-> "idle"]

Suppressed(c) == candidate[c].state = "suppressed"

ProbesInit ==
    /\ candidate = [c \in Candidates |-> Unseen]
    /\ due = [c \in Candidates |-> "later"]
    /\ outbox = {}
    /\ throttled = {}
    /\ queued = [c \in Candidates |-> 0]
    /\ probe = [p \in Probes |-> Resting]
    /\ exact = {}
    /\ reprobed = {}
    /\ hidden = {}
    /\ curations = 0
    /\ breaks = 0

Break == breaks < MaxBreaks /\ breaks' = breaks + 1

\* One more job, or the one that is there already.
OneMore(n) == IF n < MaxQueued THEN n + 1 ELSE n

-----------------------------------------------------------------------------
(* Sources, curators and the clock                                         *)

\* A new row, or the old one made due: its state is not touched.  A submission of what
\* was seen within the hour leaves next_probe_at alone.
Sight(c) ==
    /\ candidate' = [candidate EXCEPT
          ![c] = IF @ = Unseen THEN [@ EXCEPT !.state = "discovered"] ELSE @]
    /\ \/ due' = [due EXCEPT ![c] = "now"]
       \/ candidate[c] # Unseen /\ UNCHANGED due
    /\ outbox' = outbox \cup {c}
    /\ UNCHANGED <<throttled, queued, probe, exact, reprobed, hidden, curations,
                   breaks>>

Suppress(c) ==
    /\ candidate[c] # Unseen /\ curations < MaxCurations
    /\ candidate' = [candidate EXCEPT ![c].state = "suppressed"]
    /\ hidden' = hidden \cup {c}
    /\ curations' = curations + 1
    /\ UNCHANGED <<due, outbox, throttled, queued, probe, exact, reprobed, breaks>>

\* Whatever state the row is in by now: a second curator may have been faster.
Restore(c) ==
    /\ candidate[c] # Unseen /\ curations < MaxCurations
    /\ candidate' = [candidate EXCEPT ![c].state = "discovered"]
    /\ due' = [due EXCEPT ![c] = "now"]
    /\ reprobed' = reprobed \ {c}
    /\ hidden' = hidden \ {c}
    /\ curations' = curations + 1
    /\ UNCHANGED <<outbox, throttled, queued, probe, exact, breaks>>

\* The lease of fifteen minutes, or the day after a probe, is over.
ComesDue(c) ==
    /\ candidate[c] # Unseen /\ due[c] # "now"
    /\ due' = [due EXCEPT ![c] = "now"]
    /\ UNCHANGED <<candidate, outbox, throttled, queued, probe, exact, reprobed, hidden, curations,
                   breaks>>

ThrottleEnds(c) ==
    /\ c \in throttled
    /\ throttled' = throttled \ {c}
    /\ UNCHANGED <<candidate, due, outbox, queued, probe, exact, reprobed, hidden, curations,
                   breaks>>

-----------------------------------------------------------------------------
(* The scheduler and the queue                                             *)

\* Faulty variant: a candidate that is being probed needs no second job.
ScheduleIdle ==
    LET batch == {c \in Candidates :
                    due[c] = "now" /\ candidate[c].state \notin {"suppressed", "probing"}}
    IN  /\ batch # {}
        /\ due' = [c \in Candidates |-> IF c \in batch THEN "leased" ELSE due[c]]
        /\ outbox' = outbox \cup batch
        /\ UNCHANGED <<candidate, throttled, queued, probe, exact, reprobed, hidden, curations,
                   breaks>>

\* claimDueCandidateIds, when no more than its limit are due.
Schedule ==
    LET batch == {c \in Candidates : due[c] = "now" /\ ~Suppressed(c)}
    IN  /\ batch # {}
        /\ due' = [c \in Candidates |-> IF c \in batch THEN "leased" ELSE due[c]]
        /\ outbox' = outbox \cup batch
        /\ UNCHANGED <<candidate, throttled, queued, probe, exact, reprobed, hidden, curations,
                   breaks>>

\* A send within 60 seconds of the last one makes no job.
Send(c) ==
    /\ c \in outbox
    /\ outbox' = outbox \ {c}
    /\ throttled' = throttled \cup {c}
    /\ queued' = [queued EXCEPT ![c] = IF c \in throttled THEN @ ELSE OneMore(@)]
    /\ UNCHANGED <<candidate, due, probe, exact, reprobed, hidden, curations,
                   breaks>>

\* One send fails, or its worker dies: the rest of the batch is not enqueued.
SendFails ==
    /\ Break
    /\ \E lost \in SUBSET outbox : lost # {} /\ outbox' = outbox \ lost
    /\ UNCHANGED <<candidate, due, throttled, queued, probe, exact, reprobed, hidden, curations>>

\* getCandidate finds no candidate that is suppressed.
Take(p, c) ==
    /\ probe[p] = Resting /\ queued[c] > 0
    /\ queued' = [queued EXCEPT ![c] = @ - 1]
    /\ probe' = IF Suppressed(c) THEN probe
                ELSE [probe EXCEPT ![p] = [at |-> "read", of |-> c]]
    /\ UNCHANGED <<candidate, due, outbox, throttled, exact, reprobed, hidden, curations,
                   breaks>>

-----------------------------------------------------------------------------
(* processProbeCandidateJob                                                *)

Mark(p) ==
    /\ probe[p].at = "read"
    /\ candidate' = [candidate EXCEPT
          ![probe[p].of].state = IF @ = "discovered" THEN "probing" ELSE @]
    /\ probe' = [probe EXCEPT ![p].at = "marked"]
    /\ UNCHANGED <<due, outbox, throttled, queued, exact, reprobed, hidden, curations,
                   breaks>>

\* The relay answers and is classified, or the probe fails.
Look(p) ==
    /\ probe[p].at = "marked"
    /\ \E found \in Verdicts \cup {"failed"} :
          probe' = [probe EXCEPT ![p] = [at |-> "looked", of |-> @.of, found |-> found]]
    /\ UNCHANGED <<candidate, due, outbox, throttled, queued, exact, reprobed, hidden, curations,
                   breaks>>

\* What recordProbeResult makes of a row: a failure takes a candidate that was never
\* classified back, and leaves any other as it is.
Reclassified(row, found) ==
    IF found # "failed" THEN [state |-> found, classified |-> TRUE]
    ELSE IF row.classified THEN row
    ELSE [row EXCEPT !.state = "discovered"]

\* Faulty variant: the state the handler read still counts.
RecordUnchecked(p) ==
    LET c == probe[p].of
        found == probe[p].found
    IN  /\ probe[p].at = "looked"
        /\ exact' = IF found = "verified_buzz" THEN exact \cup {c} ELSE exact
        /\ candidate' = [candidate EXCEPT ![c] = Reclassified(@, found)]
        /\ due' = [due EXCEPT ![c] = "later"]
        /\ reprobed' = reprobed \cup {c}
        /\ queued' = queued
        /\ probe' = [probe EXCEPT ![p] = Resting]
        /\ UNCHANGED <<outbox, throttled, hidden, curations, breaks>>

\* The snapshot is written for a suppressed candidate too, and the row is not.  After a
\* failure the job throws: pg-boss runs it again, unless that was the last run.
Record(p) ==
    LET c == probe[p].of
        found == probe[p].found
    IN  /\ probe[p].at = "looked"
        /\ exact' = IF found = "verified_buzz" THEN exact \cup {c} ELSE exact
        /\ candidate' = IF Suppressed(c) THEN candidate
                        ELSE [candidate EXCEPT ![c] = Reclassified(@, found)]
        /\ due' = IF Suppressed(c) THEN due ELSE [due EXCEPT ![c] = "later"]
        /\ reprobed' = reprobed \cup {c}
        /\ queued' \in IF found = "failed"
                       THEN {queued, [queued EXCEPT ![c] = OneMore(@)]} ELSE {queued}
        /\ probe' = [probe EXCEPT ![p] = Resting]
        /\ UNCHANGED <<outbox, throttled, hidden, curations, breaks>>

\* The job expires and is run again, or not; its handler goes on or dies with its worker.
Expire(p) ==
    /\ probe[p] # Resting /\ Break
    /\ queued' \in {queued, [queued EXCEPT ![probe[p].of] = OneMore(@)]}
    /\ probe' \in {probe, [probe EXCEPT ![p] = Resting]}
    /\ UNCHANGED <<candidate, due, outbox, throttled, exact, reprobed, hidden, curations>>

-----------------------------------------------------------------------------

Run(p) == Mark(p) \/ Look(p) \/ Record(p)

ProbesNext ==
    \/ \E c \in Candidates :
          \/ Sight(c) \/ Suppress(c) \/ Restore(c) \/ ComesDue(c) \/ ThrottleEnds(c)
          \/ Send(c) \/ \E p \in Probes : Take(p, c)
    \/ \E p \in Probes : Run(p) \/ Expire(p)
    \/ Schedule \/ SendFails

ProbesSpec == ProbesInit /\ [][ProbesNext]_probeVars

\* The scheduler runs every fifteen minutes, clocks go on, awaited calls end, and
\* pg-boss hands out what is queued.
ProbesFairness ==
    /\ WF_probeVars(Schedule)
    /\ \A c \in Candidates :
          /\ WF_probeVars(ComesDue(c)) /\ WF_probeVars(ThrottleEnds(c))
          /\ WF_probeVars(Send(c)) /\ SF_probeVars(\E p \in Probes : Take(p, c))
    /\ \A p \in Probes : WF_probeVars(Run(p))

-----------------------------------------------------------------------------

ProbesTypeOK ==
    /\ candidate \in [Candidates -> [state: States, classified: BOOLEAN]]
    /\ due \in [Candidates -> {"now", "leased", "later"}]
    /\ outbox \cup throttled \cup exact \cup reprobed \cup hidden \subseteq Candidates
    /\ queued \in [Candidates -> 0..MaxQueued]
    /\ probe \in [Probes ->
          {Resting} \cup [at: {"read", "marked"}, of: Candidates]
          \cup [at: {"looked"}, of: Candidates, found: Verdicts \cup {"failed"}]]
    /\ curations \in 0..MaxCurations
    /\ breaks \in 0..MaxBreaks

(* A community is listed on evidence, and only as long as curators let it: *)
(* one whose row says verified_buzz has an exact snapshot, a probe has     *)
(* recorded a result since it was last restored, and one a curator hid     *)
(* stays hidden, whatever probes and sources overlap the decisions.        *)
ListedOnEvidence ==
    \A c \in Candidates :
        /\ candidate[c].state = "verified_buzz" => c \in exact \cap reprobed
        /\ c \in hidden => Suppressed(c)

(* Every candidate that is not suppressed is probed again and again,       *)
(* although a lease hides it, a send is throttled or fails, a worker dies, *)
(* a job expires or gives up.                                              *)
ProbedAgainAndAgain ==
    \A c \in Candidates : []<>(candidate[c] = Unseen \/ Suppressed(c) \/ due[c] = "later")

=============================================================================
