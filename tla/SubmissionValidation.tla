----------------------- MODULE SubmissionValidation -----------------------
(***************************************************************************)
(* A submitted invite: the web request inserts a row and polls it          *)
(* (src/app/api/submissions/route.ts), and a worker's poller claims a      *)
(* batch of rows and settles each by joining with its invite               *)
(* (src/src/jobs/validate-submissions.ts,                                  *)
(* src/src/db/submission-validations.ts).                                  *)
(***************************************************************************)
EXTENDS Naturals, FiniteSets

CONSTANTS
    Submissions,    \* rows of submission_validations, numbered by created_at
    Workers,        \* processes with a poller: replicas, or one after a restart
    BatchSize,      \* rows a pass claims at most
    MaxMishaps      \* bound: failing queries and dying workers

ASSUME SubmissionsAssumption == Submissions \subseteq Nat /\ MaxMishaps \in Nat

VARIABLES
    row,            \* status of each row
    pass,           \* [at, todo]: a pass of each poller; running is at # "idle"
    joined,         \* submissions whose invite let the agent in
    listed,         \* submissions ingested as a candidate
    member,         \* submissions whose membership is recorded
    answer,         \* what the web request told its author
    lost,           \* history: rows left "processing" that no pass has: their pass died or
                    \* could not write the verdict, or the claim's answer never came
    mishaps

submissionVars == <<row, pass, joined, listed, member, answer, lost, mishaps>>

Idle == [at |-> "idle", todo |-> {}]
Settled(s) == row[s] \in {"valid", "invalid", "error"}
Pending == {s \in Submissions : row[s] = "pending"}

\* The row a pass works on.  The rows of a batch do not depend on one another: the model
\* takes them by their number.
Row(w) == CHOOSE s \in pass[w].todo : \A t \in pass[w].todo : s <= t

SubmissionsInit ==
    /\ row = [s \in Submissions |-> "none"]
    /\ pass = [w \in Workers |-> Idle]
    /\ joined = {} /\ listed = {} /\ member = {}
    /\ answer = [s \in Submissions |-> "none"]
    /\ lost = {}
    /\ mishaps = 0

Mishap == mishaps < MaxMishaps /\ mishaps' = mishaps + 1

-----------------------------------------------------------------------------
(* The web request                                                         *)

Submit(s) ==
    /\ row[s] = "none" /\ \A t \in Submissions : t < s => row[t] # "none"
    /\ row' = [row EXCEPT ![s] = "pending"]
    /\ answer' = [answer EXCEPT ![s] = "waiting"]
    /\ UNCHANGED <<pass, joined, listed, member, lost, mishaps>>

\* waitForValidation, before its deadline or at it.
Poll(s) ==
    /\ answer[s] = "waiting"
    /\ answer' = [answer EXCEPT ![s] =
          IF row[s] = "valid" THEN "verified"
          ELSE IF Settled(s) THEN "invite_invalid" ELSE "verifying"]
    /\ UNCHANGED <<row, pass, joined, listed, member, lost, mishaps>>

-----------------------------------------------------------------------------
(* The poller: processPendingValidations                                   *)

\* The timer fires; a pass under way keeps the next one from starting.
Start(w) ==
    /\ pass[w] = Idle
    /\ pass' = [pass EXCEPT ![w].at = "claiming"]
    /\ UNCHANGED <<row, joined, listed, member, answer, lost, mishaps>>

\* The oldest pending rows, in one statement: SKIP LOCKED leaves them to one pass.
Batch == {s \in Pending : Cardinality({t \in Pending : t < s}) < BatchSize}

Taken == [s \in Submissions |-> IF s \in Batch THEN "processing" ELSE row[s]]

Claim(w) ==
    /\ pass[w].at = "claiming"
    /\ row' = Taken
    /\ pass' = [pass EXCEPT ![w] = IF Batch = {} THEN Idle ELSE [at |-> "joining", todo |-> Batch]]
    /\ UNCHANGED <<joined, listed, member, answer, lost, mishaps>>

\* Faulty variant: running is reset only after a pass that succeeded.
ClaimFailsRunning(w) ==
    /\ pass[w].at = "claiming" /\ Mishap
    /\ pass' = [pass EXCEPT ![w].at = "stuck"]
    /\ UNCHANGED <<row, joined, listed, member, answer, lost>>

\* The claim is refused, or was committed and only its answer is lost: then the rows are
\* taken, and no pass knows of them.
ClaimFails(w) ==
    /\ pass[w].at = "claiming" /\ Mishap
    /\ pass' = [pass EXCEPT ![w] = Idle]
    /\ \/ UNCHANGED <<row, lost>>
       \/ row' = Taken /\ lost' = lost \cup Batch
    /\ UNCHANGED <<joined, listed, member, answer>>

Goto(w, at) == pass' = [pass EXCEPT ![w].at = at]

\* joinCommunity: in, or a member already; refused, or a claim without an answer, which
\* reads as a refusal and may have let the agent in; or it throws before the last claim.
Join(w) ==
    /\ pass[w].at = "joining"
    /\ \/ joined' = joined \cup {Row(w)} /\ (Goto(w, "joined") \/ Goto(w, "refused"))
       \/ UNCHANGED joined /\ (Goto(w, "refused") \/ Goto(w, "erring"))
    /\ UNCHANGED <<row, listed, member, answer, lost, mishaps>>

\* Faulty variant: the membership is left to the presence agent.
IngestOnly(w) ==
    /\ pass[w].at = "joined"
    /\ listed' = listed \cup {Row(w)}
    /\ Goto(w, "recorded")
    /\ UNCHANGED <<row, joined, member, answer, lost, mishaps>>

IngestSubmission(w) ==
    /\ pass[w].at = "joined"
    /\ listed' = listed \cup {Row(w)}
    /\ Goto(w, "ingested")
    /\ UNCHANGED <<row, joined, member, answer, lost, mishaps>>

UpsertMembership(w) ==
    /\ pass[w].at = "ingested"
    /\ member' = member \cup {Row(w)}
    /\ Goto(w, "recorded")
    /\ UNCHANGED <<row, joined, listed, answer, lost, mishaps>>

Verdict == [recorded |-> "valid", refused |-> "invalid", erring |-> "error"]

\* A query in the try block fails, the one that writes the verdict included, or only its
\* answer is lost and what it wrote stays.
Throws(w) ==
    /\ pass[w].at \in {"joined", "ingested", "recorded", "refused"} /\ Mishap
    /\ Goto(w, "erring")
    /\ \/ UNCHANGED <<row, listed, member>>
       \/ /\ pass[w].at = "joined"
          /\ listed' = listed \cup {Row(w)}
          /\ UNCHANGED <<row, member>>
       \/ /\ pass[w].at = "ingested"
          /\ member' = member \cup {Row(w)}
          /\ UNCHANGED <<row, listed>>
       \/ /\ pass[w].at \in {"recorded", "refused"}
          /\ row' = [row EXCEPT ![Row(w)] = Verdict[pass[w].at]]
          /\ UNCHANGED <<listed, member>>
    /\ UNCHANGED <<joined, answer, lost>>

NextRow(w) ==
    LET rest == pass[w].todo \ {Row(w)}
    IN  pass' = [pass EXCEPT ![w] = IF rest = {} THEN Idle ELSE [at |-> "joining", todo |-> rest]]

\* The write has no guard on the status: "error" replaces a verdict that was committed.
Resolve(w) ==
    /\ pass[w].at \in {"recorded", "refused", "erring"}
    /\ row' = [row EXCEPT ![Row(w)] = Verdict[pass[w].at]]
    /\ NextRow(w)
    /\ UNCHANGED <<joined, listed, member, answer, lost, mishaps>>

Stranded(T) == {s \in T : row[s] = "processing"}

\* The failure of the write in the catch clause is ignored; one that was committed is as
\* good as Resolve.
ResolveFails(w) ==
    /\ pass[w].at = "erring" /\ Mishap
    /\ lost' = lost \cup Stranded({Row(w)})
    /\ NextRow(w)
    /\ UNCHANGED <<row, joined, listed, member, answer>>

WorkerDies(w) ==
    /\ pass[w] # Idle /\ Mishap
    /\ lost' = lost \cup Stranded(pass[w].todo)
    /\ pass' = [pass EXCEPT ![w] = Idle]
    /\ UNCHANGED <<row, joined, listed, member, answer>>

-----------------------------------------------------------------------------

PassStep(w) ==
    \/ Start(w) \/ Claim(w) \/ ClaimFails(w) \/ Join(w) \/ IngestSubmission(w) \/ UpsertMembership(w)
    \/ Throws(w) \/ Resolve(w) \/ ResolveFails(w)

SubmissionsNext ==
    \/ \E s \in Submissions : Submit(s) \/ Poll(s)
    \/ \E w \in Workers : PassStep(w) \/ WorkerDies(w)

SubmissionsSpec == SubmissionsInit /\ [][SubmissionsNext]_submissionVars

\* The timer fires and an awaited call ends, one way or the other.
SubmissionsFairness == \A w \in Workers : WF_submissionVars(PassStep(w))

-----------------------------------------------------------------------------

SubmissionsTypeOK ==
    /\ row \in [Submissions -> {"none", "pending", "processing", "valid", "invalid", "error"}]
    /\ pass \in [Workers ->
          [at: {"idle", "claiming", "joining", "joined", "ingested", "recorded", "refused",
                "erring"}, todo: SUBSET Submissions]]
    /\ joined \cup listed \cup member \cup lost \subseteq Submissions
    /\ answer \in [Submissions -> {"none", "waiting", "verified", "invite_invalid", "verifying"}]
    /\ mishaps \in 0..MaxMishaps

(* Who is told that the community is verified can rely on it: the agent is *)
(* in, the community is a candidate with that invite, and the membership   *)
(* that summaries start from is recorded, whatever failed on the way.      *)
VerifiedIsComplete ==
    \A s \in Submissions :
        answer[s] = "verified" \/ row[s] = "valid" => s \in joined \cap listed \cap member

(* Every submitted invite gets a verdict, unless the pass that claimed it  *)
(* was lost: no claim that was refused, and no failing row or verdict of   *)
(* another submission, holds it up.  A claim whose answer alone was lost   *)
(* strands its rows, as the death of the worker does.                      *)
SettledUnlessLost == \A s \in Submissions : row[s] = "pending" ~> (Settled(s) \/ s \in lost)

=============================================================================
