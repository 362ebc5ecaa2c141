----------------------- MODULE CandidateProbesProofs -----------------------
(***************************************************************************)
(* What a candidate is listed on: proofs about CandidateProbes.            *)
(***************************************************************************)
EXTENDS CandidateProbes, TLAPS

ProbesInv == ProbesTypeOK /\ ListedOnEvidence

CandidateRow == [state: States, classified: BOOLEAN]

\* The variables that no step of a given kind touches.
Backstage == <<candidate, exact, reprobed, hidden>>

-----------------------------------------------------------------------------

(* One more job stays within the bound.                                    *)
LEMMA OneMoreType == \A n \in 0..MaxQueued : OneMore(n) \in 0..MaxQueued
BY BoundsAssumption DEF OneMore

(* A row stays a row, and only a probe that found it makes it verified.    *)
LEMMA Reclassify ==
    ASSUME NEW row \in CandidateRow, NEW found \in Verdicts \cup {"failed"}
    PROVE  /\ Reclassified(row, found) \in CandidateRow
           /\ Reclassified(row, found).state = "verified_buzz" =>
                 row.state = "verified_buzz" \/ found = "verified_buzz"
BY DEF Reclassified, CandidateRow, States, Verdicts

LEMMA ProbesInitially == ProbesInit => ProbesInv
<1>. SUFFICES ASSUME ProbesInit PROVE ProbesInv
  OBVIOUS
<1>1. ProbesTypeOK
  BY BoundsAssumption DEF ProbesInit, ProbesTypeOK, Unseen, States, Resting
<1>2. ListedOnEvidence
  BY DEF ProbesInit, ListedOnEvidence, Unseen
<1>. QED  BY <1>1, <1>2 DEF ProbesInv

(* Queues, leases and handlers that have not recorded: no row changes.     *)
LEMMA BackstageSteps ==
    ASSUME ProbesInv, ProbesTypeOK', UNCHANGED Backstage PROVE ProbesInv'
BY DEF ProbesInv, ListedOnEvidence, Suppressed, Backstage

-----------------------------------------------------------------------------
(* Sources, curators and the clock.                                        *)

LEMMA SightStep == ASSUME ProbesInv, NEW c \in Candidates, Sight(c) PROVE ProbesInv'
<1>. DEFINE row == IF candidate[c] = Unseen THEN [candidate[c] EXCEPT !.state = "discovered"]
                   ELSE candidate[c]
<1>1. /\ candidate' = [candidate EXCEPT ![c] = row]
      /\ due' = [due EXCEPT ![c] = "now"] \/ due' = due
      /\ outbox' = outbox \cup {c}
      /\ UNCHANGED <<throttled, queued, probe, exact, reprobed, hidden, curations, breaks>>
  BY DEF Sight
<1>2. row \in [state: States, classified: BOOLEAN]
      /\ (row.state # candidate[c].state => candidate[c] = Unseen /\ row.state = "discovered")
  BY DEF ProbesInv, ProbesTypeOK, States
<1>3. ProbesTypeOK'
  <2>1. candidate' \in [Candidates -> [state: States, classified: BOOLEAN]]
    BY <1>1, <1>2 DEF ProbesInv, ProbesTypeOK
  <2>2. due' \in [Candidates -> {"now", "leased", "later"}]
    BY <1>1 DEF ProbesInv, ProbesTypeOK
  <2>. QED  BY <1>1, <2>1, <2>2 DEF ProbesInv, ProbesTypeOK
<1>4. ListedOnEvidence'
  BY <1>1, <1>2 DEF ProbesInv, ProbesTypeOK, ListedOnEvidence, Suppressed, Unseen
<1>. QED  BY <1>3, <1>4 DEF ProbesInv

LEMMA SuppressStep == ASSUME ProbesInv, NEW c \in Candidates, Suppress(c) PROVE ProbesInv'
<1>1. ProbesTypeOK'
  BY BoundsAssumption DEF Suppress, ProbesInv, ProbesTypeOK, States
<1>2. ListedOnEvidence'
  BY DEF Suppress, ProbesInv, ProbesTypeOK, ListedOnEvidence, Suppressed
<1>. QED  BY <1>1, <1>2 DEF ProbesInv

(* A candidate that is restored has to be probed before it is listed.      *)
LEMMA RestoreStep == ASSUME ProbesInv, NEW c \in Candidates, Restore(c) PROVE ProbesInv'
<1>1. ProbesTypeOK'
  BY BoundsAssumption DEF Restore, Unseen, ProbesInv, ProbesTypeOK, States
<1>2. ListedOnEvidence'
  BY DEF Restore, ProbesInv, ProbesTypeOK, ListedOnEvidence, Suppressed
<1>. QED  BY <1>1, <1>2 DEF ProbesInv

LEMMA ClockSteps ==
    ASSUME ProbesInv, NEW c \in Candidates, ComesDue(c) \/ ThrottleEnds(c) PROVE ProbesInv'
<1>1. ProbesTypeOK'
  BY DEF ComesDue, ThrottleEnds, ProbesInv, ProbesTypeOK
<1>. QED  BY <1>1, BackstageSteps DEF ComesDue, ThrottleEnds, Backstage

-----------------------------------------------------------------------------
(* The scheduler, the queue and the handlers.                              *)

LEMMA ScheduleSteps == ASSUME ProbesInv, Schedule \/ SendFails PROVE ProbesInv'
<1>1. CASE Schedule
  <2>1. ProbesTypeOK'
    BY <1>1 DEF Schedule, ProbesInv, ProbesTypeOK
  <2>. QED  BY <1>1, <2>1, BackstageSteps DEF Schedule, Backstage
<1>2. CASE SendFails
  <2>1. ProbesTypeOK'
    BY <1>2, BoundsAssumption DEF SendFails, Break, ProbesInv, ProbesTypeOK
  <2>. QED  BY <1>2, <2>1, BackstageSteps DEF SendFails, Backstage
<1>. QED  BY <1>1, <1>2

LEMMA QueueSteps ==
    ASSUME ProbesInv, NEW c \in Candidates, Send(c) \/ \E p \in Probes : Take(p, c) PROVE ProbesInv'
<1>1. CASE Send(c)
  <2>1. ProbesTypeOK'
    BY <1>1, OneMoreType DEF Send, ProbesInv, ProbesTypeOK
  <2>. QED  BY <1>1, <2>1, BackstageSteps DEF Send, Backstage
<1>2. ASSUME NEW p \in Probes, Take(p, c) PROVE ProbesInv'
  <2>1. queued' \in [Candidates -> 0..MaxQueued]
    BY <1>2, BoundsAssumption DEF Take, ProbesInv, ProbesTypeOK
  <2>2. ProbesTypeOK'
    BY <1>2, <2>1 DEF Take, ProbesInv, ProbesTypeOK
  <2>. QED  BY <1>2, <2>2, BackstageSteps DEF Take, Backstage
<1>. QED  BY <1>1, <1>2

(* What a handler that is not at rest works on.                            *)
LEMMA HandlerType ==
    ASSUME ProbesTypeOK, NEW p \in Probes
    PROVE  /\ probe[p].at \in {"read", "marked", "looked"} => probe[p].of \in Candidates
           /\ probe[p] # Resting => probe[p].of \in Candidates
           /\ probe[p].at = "looked" => probe[p].found \in Verdicts \cup {"failed"}
BY DEF ProbesTypeOK, Resting

LEMMA MarkStep == ASSUME ProbesInv, NEW p \in Probes, Mark(p) PROVE ProbesInv'
<1>. DEFINE c == probe[p].of
            row == [candidate[c] EXCEPT !.state = IF @ = "discovered" THEN "probing" ELSE @]
<1>0. c \in Candidates
  BY HandlerType DEF Mark, ProbesInv
<1>1. candidate' = [candidate EXCEPT ![c] = row]
  BY <1>0 DEF Mark, ProbesInv, ProbesTypeOK
<1>2. row \in [state: States, classified: BOOLEAN]
      /\ (row.state # candidate[c].state => candidate[c].state = "discovered" /\ row.state = "probing")
  BY <1>0 DEF ProbesInv, ProbesTypeOK, States
<1>3. [probe[p] EXCEPT !.at = "marked"] \in [at: {"read", "marked"}, of: Candidates]
  BY DEF Mark, ProbesInv, ProbesTypeOK, Resting
<1>4. ProbesTypeOK'
  BY <1>1, <1>2, <1>3 DEF Mark, ProbesInv, ProbesTypeOK
<1>5. ListedOnEvidence'
  BY <1>0, <1>1, <1>2 DEF Mark, ProbesInv, ProbesTypeOK, ListedOnEvidence, Suppressed
<1>. QED  BY <1>4, <1>5 DEF ProbesInv

LEMMA LookStep == ASSUME ProbesInv, NEW p \in Probes, Look(p) PROVE ProbesInv'
<1>1. ProbesTypeOK'
  <2>1. PICK found \in Verdicts \cup {"failed"} :
           probe' = [probe EXCEPT ![p] = [at |-> "looked", of |-> probe[p].of, found |-> found]]
    BY DEF Look
  <2>2. probe[p].of \in Candidates
    BY HandlerType DEF Look, ProbesInv
  <2>. QED  BY <2>1, <2>2 DEF Look, ProbesInv, ProbesTypeOK
<1>. QED  BY <1>1, BackstageSteps DEF Look, Backstage

(* A result is recorded for a row that nobody suppressed in the meantime,  *)
(* and a result that verifies brings its snapshot along.                   *)
LEMMA RecordStep == ASSUME ProbesInv, NEW p \in Probes, Record(p) PROVE ProbesInv'
<1>. DEFINE c == probe[p].of
            found == probe[p].found
            row == Reclassified(candidate[c], found)
<1>0. c \in Candidates /\ found \in Verdicts \cup {"failed"}
  BY HandlerType DEF Record, ProbesInv
<1>1. /\ exact' = IF found = "verified_buzz" THEN exact \cup {c} ELSE exact
      /\ candidate' = IF Suppressed(c) THEN candidate ELSE [candidate EXCEPT ![c] = row]
      /\ due' = due \/ due' = [due EXCEPT ![c] = "later"]
      /\ reprobed' = reprobed \cup {c}
      /\ queued' = queued \/ queued' = [queued EXCEPT ![c] = OneMore(@)]
      /\ probe' = [probe EXCEPT ![p] = Resting]
      /\ UNCHANGED <<outbox, throttled, hidden, curations, breaks>>
  BY DEF Record
<1>2. /\ row \in [state: States, classified: BOOLEAN]
      /\ row.state = "verified_buzz" => candidate[c].state = "verified_buzz" \/ found = "verified_buzz"
  BY <1>0, Reclassify DEF ProbesInv, ProbesTypeOK, CandidateRow
<1>3. ProbesTypeOK'
  BY <1>0, <1>1, <1>2, OneMoreType DEF ProbesInv, ProbesTypeOK
<1>4. ListedOnEvidence'
  <2>1. CASE Suppressed(c)
    BY <1>0, <1>1, <2>1 DEF ProbesInv, ListedOnEvidence, Suppressed
  <2>2. CASE ~Suppressed(c)
    BY <1>0, <1>1, <1>2, <2>2 DEF ProbesInv, ProbesTypeOK, ListedOnEvidence, Suppressed
  <2>. QED  BY <2>1, <2>2
<1>. QED  BY <1>3, <1>4 DEF ProbesInv

LEMMA ExpireStep == ASSUME ProbesInv, NEW p \in Probes, Expire(p) PROVE ProbesInv'
<1>0. probe[p].of \in Candidates
  BY HandlerType DEF Expire, ProbesInv
<1>1. ProbesTypeOK'
  BY <1>0, OneMoreType, BoundsAssumption DEF Expire, Break, ProbesInv, ProbesTypeOK
<1>. QED  BY <1>1, BackstageSteps DEF Expire, Backstage

-----------------------------------------------------------------------------

(* Types and evidence are inductive together.                              *)
THEOREM ProbesInvariance == ProbesSpec => []ProbesInv
<1>1. ProbesInv /\ [ProbesNext]_probeVars => ProbesInv'
  <2>. SUFFICES ASSUME ProbesInv, [ProbesNext]_probeVars PROVE ProbesInv'
    OBVIOUS
  <2>1. CASE UNCHANGED probeVars
    BY <2>1 DEF probeVars, ProbesInv, ProbesTypeOK, ListedOnEvidence, Suppressed
  <2>2. CASE ProbesNext
    BY <2>2, SightStep, SuppressStep, RestoreStep, ClockSteps, ScheduleSteps, QueueSteps, MarkStep,
       LookStep, RecordStep, ExpireStep DEF ProbesNext, Run
  <2>. QED  BY <2>1, <2>2
<1>. QED  BY <1>1, ProbesInitially, PTL DEF ProbesSpec

(* Types are kept.                                                         *)
THEOREM ProbesTypeCorrect == ProbesSpec => []ProbesTypeOK
BY ProbesInvariance, PTL DEF ProbesInv

(* No candidate is listed without an exact snapshot and a probe since it   *)
(* was restored, and none that a curator hid, for any number of candidates *)
(* and overlapping probes.                                                 *)
THEOREM Evidence == ProbesSpec => []ListedOnEvidence
BY ProbesInvariance, PTL DEF ProbesInv

=============================================================================
