-------------------- MODULE SubmissionValidationProofs --------------------
(***************************************************************************)
(* What a verdict rests on: proofs about SubmissionValidation.             *)
(***************************************************************************)
EXTENDS SubmissionValidation, WellFoundedInduction, TLAPS

Complete == joined \cap listed \cap member

\* How far a pass has come with the row it works on.
PassKeepsUp ==
    \A w \in Workers :
        /\ pass[w].at \notin {"idle", "claiming"} => pass[w].todo # {}
        /\ pass[w].at \in {"joined", "ingested", "recorded"} => Row(w) \in joined
        /\ pass[w].at \in {"ingested", "recorded"} => Row(w) \in listed
        /\ pass[w].at = "recorded" => Row(w) \in member

SubmissionsInv == SubmissionsTypeOK /\ PassKeepsUp /\ VerifiedIsComplete

-----------------------------------------------------------------------------

(* A set of natural numbers that is not empty has a smallest element.      *)
LEMMA SmallestOf ==
    ASSUME NEW T \in SUBSET Nat, T # {}
    PROVE  \E x \in T : \A y \in T : x <= y
<1>. DEFINE R == {ss \in Nat \X Nat : ss[1] < ss[2]}
<1>1. IsWellFoundedOn(R, Nat)
  BY NatLessThanWellFounded DEF OpToRel
<1>. HIDE DEF R
<1>2. \E x \in T : \A y \in T : ~ (<<y, x>> \in R)
  BY <1>1, WFMin
<1>3. PICK x \in T : \A y \in T : ~ (<<y, x>> \in R)
  BY <1>2
<1>4. ASSUME NEW y \in T PROVE x <= y
  <2>1. ~(<<y, x>> \in R) /\ x \in Nat /\ y \in Nat
    BY <1>3
  <2>2. ~(y < x)
    BY <2>1 DEF R
  <2>. QED  BY <2>1, <2>2
<1>. QED  BY <1>4

(* A pass with something left to do works on one of the submissions.       *)
LEMMA RowIsListed ==
    ASSUME SubmissionsTypeOK, NEW w \in Workers, pass[w].todo # {}
    PROVE  Row(w) \in pass[w].todo /\ Row(w) \in Submissions
<1>1. pass[w].todo \subseteq Submissions
  BY DEF SubmissionsTypeOK
<1>2. \E s \in pass[w].todo : \A t \in pass[w].todo : s <= t
  BY <1>1, SmallestOf, SubmissionsAssumption
<1>. QED  BY <1>1, <1>2 DEF Row

LEMMA MishapType == ASSUME SubmissionsTypeOK, Mishap PROVE mishaps' \in 0..MaxMishaps
BY SubmissionsAssumption DEF SubmissionsTypeOK, Mishap

LEMMA SubmissionsInitially == SubmissionsInit => SubmissionsInv
BY SubmissionsAssumption DEF SubmissionsInit, SubmissionsInv, SubmissionsTypeOK, PassKeepsUp, VerifiedIsComplete, Idle

-----------------------------------------------------------------------------

(* Evidence only grows: the other passes, and every verdict given, keep    *)
(* what they rest on.                                                      *)
LEMMA OnePassMoves ==
    ASSUME SubmissionsInv, SubmissionsTypeOK', NEW w \in Workers,
           joined \subseteq joined', listed \subseteq listed', member \subseteq member',
           \A v \in Workers : v # w => pass'[v] = pass[v],
           /\ pass'[w].at \notin {"idle", "claiming"} => pass'[w].todo # {}
           /\ pass'[w].at \in {"joined", "ingested", "recorded"} => Row(w)' \in joined'
           /\ pass'[w].at \in {"ingested", "recorded"} => Row(w)' \in listed'
           /\ pass'[w].at = "recorded" => Row(w)' \in member',
           \A s \in Submissions : row'[s] = "valid" => row[s] = "valid" \/ s \in Complete',
           UNCHANGED answer
    PROVE  SubmissionsInv'
<1>1. \A v \in Workers : v # w => Row(v)' = Row(v)
  BY DEF Row
<1>2. PassKeepsUp'
  BY <1>1 DEF SubmissionsInv, PassKeepsUp
<1>3. VerifiedIsComplete'
  BY DEF SubmissionsInv, VerifiedIsComplete, Complete
<1>. QED  BY <1>2, <1>3 DEF SubmissionsInv

LEMMA RequestSteps ==
    ASSUME SubmissionsInv, NEW s \in Submissions, Submit(s) \/ Poll(s) PROVE SubmissionsInv'
<1>1. SubmissionsTypeOK'
  BY DEF Submit, Poll, Settled, SubmissionsInv, SubmissionsTypeOK
<1>2. PassKeepsUp'
  BY DEF Submit, Poll, SubmissionsInv, PassKeepsUp, Row
<1>3. VerifiedIsComplete'
  BY DEF Submit, Poll, Settled, SubmissionsInv, SubmissionsTypeOK, VerifiedIsComplete
<1>. QED  BY <1>1, <1>2, <1>3 DEF SubmissionsInv

(* A pass that starts or dies keeps nothing.                               *)
LEMMA RestingSteps ==
    ASSUME SubmissionsInv, NEW w \in Workers, Start(w) \/ WorkerDies(w) PROVE SubmissionsInv'
<1>1. SubmissionsTypeOK'
  <2>1. CASE Start(w)
    BY <2>1 DEF Start, SubmissionsInv, SubmissionsTypeOK
  <2>2. CASE WorkerDies(w)
    BY <2>2, MishapType DEF WorkerDies, Stranded, Idle, SubmissionsInv, SubmissionsTypeOK
  <2>. QED  BY <2>1, <2>2
<1>2. \A v \in Workers : v # w => pass'[v] = pass[v]
  BY DEF Start, WorkerDies, SubmissionsInv, SubmissionsTypeOK
<1>3. pass'[w].at \in {"idle", "claiming"}
  BY DEF Start, WorkerDies, Idle, SubmissionsInv, SubmissionsTypeOK
<1>. QED  BY <1>1, <1>2, <1>3, OnePassMoves DEF Start, WorkerDies

LEMMA ClaimStep ==
    ASSUME SubmissionsInv, NEW w \in Workers, Claim(w) \/ ClaimFails(w) PROVE SubmissionsInv'
<1>0. Batch \subseteq Submissions
  BY DEF Batch, Pending
<1>. HIDE DEF Batch
<1>1. /\ row' = row \/ row' = [s \in Submissions |-> IF s \in Batch THEN "processing" ELSE row[s]]
      /\ \/ pass' = [pass EXCEPT ![w] = Idle]
         \/ Batch # {} /\ pass' = [pass EXCEPT ![w] = [at |-> "joining", todo |-> Batch]]
      /\ lost' = lost \/ lost' = lost \cup Batch
      /\ mishaps' = mishaps \/ Mishap
      /\ UNCHANGED <<joined, listed, member, answer>>
  BY DEF Claim, ClaimFails, Taken
<1>2. SubmissionsTypeOK'
  <2>1. mishaps' \in 0..MaxMishaps
    BY <1>1, MishapType DEF SubmissionsInv, SubmissionsTypeOK
  <2>. QED  BY <1>0, <1>1, <2>1 DEF Idle, SubmissionsInv, SubmissionsTypeOK
<1>3. \A v \in Workers : v # w => pass'[v] = pass[v]
  BY <1>1 DEF SubmissionsInv, SubmissionsTypeOK
<1>4. pass'[w] = Idle \/ (pass'[w].at = "joining" /\ pass'[w].todo # {})
  BY <1>1 DEF SubmissionsInv, SubmissionsTypeOK
<1>5. \A s \in Submissions : row'[s] = "valid" => row[s] = "valid"
  BY <1>1
<1>. QED  BY <1>1, <1>2, <1>3, <1>4, <1>5, OnePassMoves DEF Idle

(* The steps within a row: it is the row the evidence is about.            *)
LEMMA WithinRow ==
    ASSUME SubmissionsInv, NEW w \in Workers, NEW at \in {"joined", "ingested", "recorded", "refused", "erring"},
           Goto(w, at), pass[w].at \notin {"idle", "claiming"},
           joined' = joined \/ joined' = joined \cup {Row(w)},
           listed' = listed \/ listed' = listed \cup {Row(w)},
           member' = member \/ member' = member \cup {Row(w)},
           at \in {"joined", "ingested", "recorded"} => Row(w) \in joined',
           at \in {"ingested", "recorded"} => Row(w) \in listed',
           at = "recorded" => Row(w) \in member',
           row' = row \/ \E v \in {"valid", "invalid"} :
                            /\ row' = [row EXCEPT ![Row(w)] = v]
                            /\ v = "valid" => pass[w].at = "recorded",
           mishaps' \in 0..MaxMishaps, UNCHANGED <<answer, lost>>
    PROVE  SubmissionsInv'
<1>0. pass[w].todo # {} /\ Row(w) \in Submissions
  BY RowIsListed DEF SubmissionsInv, PassKeepsUp
<1>4. \A s \in Submissions : row'[s] = "valid" => row[s] = "valid" \/ s \in Complete'
  <2>1. pass[w].at = "recorded" => Row(w) \in Complete'
    BY DEF SubmissionsInv, PassKeepsUp, Complete
  <2>. QED  BY <1>0, <2>1 DEF SubmissionsInv, SubmissionsTypeOK
<1>1. SubmissionsTypeOK'
  BY <1>0 DEF Goto, SubmissionsInv, SubmissionsTypeOK
<1>2. /\ \A v \in Workers : v # w => pass'[v] = pass[v]
      /\ pass'[w].at = at /\ pass'[w].todo = pass[w].todo
  BY DEF Goto, SubmissionsInv, SubmissionsTypeOK
<1>3. Row(w)' = Row(w)
  BY <1>2 DEF Row
<1>. QED  BY <1>0, <1>1, <1>2, <1>3, <1>4, OnePassMoves

LEMMA RowSteps ==
    ASSUME SubmissionsInv, NEW w \in Workers,
           Join(w) \/ IngestSubmission(w) \/ UpsertMembership(w) \/ Throws(w)
    PROVE  SubmissionsInv'
<1>0. mishaps \in 0..MaxMishaps
  BY DEF SubmissionsInv, SubmissionsTypeOK
<1>1. CASE Join(w)
  BY <1>0, <1>1, WithinRow DEF Join
<1>2. CASE IngestSubmission(w)
  BY <1>0, <1>2, WithinRow DEF IngestSubmission, SubmissionsInv, PassKeepsUp
<1>3. CASE UpsertMembership(w)
  BY <1>0, <1>3, WithinRow DEF UpsertMembership, SubmissionsInv, PassKeepsUp
<1>4. CASE Throws(w)
  <2>1. /\ Goto(w, "erring") /\ pass[w].at \notin {"idle", "claiming"}
        /\ joined' = joined
        /\ listed' = listed \/ listed' = listed \cup {Row(w)}
        /\ member' = member \/ member' = member \cup {Row(w)}
        /\ UNCHANGED <<answer, lost>>
    BY <1>4 DEF Throws
  <2>2. row' = row \/ \E v \in {"valid", "invalid"} :
                         /\ row' = [row EXCEPT ![Row(w)] = v]
                         /\ v = "valid" => pass[w].at = "recorded"
    <3>1. /\ pass[w].at = "recorded" => Verdict[pass[w].at] = "valid"
          /\ pass[w].at = "refused" => Verdict[pass[w].at] = "invalid"
      BY DEF Verdict
    <3>. QED  BY <1>4, <3>1 DEF Throws
  <2>3. mishaps' \in 0..MaxMishaps
    BY <1>4, MishapType DEF Throws, SubmissionsInv
  <2>. QED  BY <2>1, <2>2, <2>3, WithinRow
<1>. QED  BY <1>1, <1>2, <1>3, <1>4

(* A row is settled, or given up: valid only when all is recorded.         *)
LEMMA SettlingSteps ==
    ASSUME SubmissionsInv, NEW w \in Workers, Resolve(w) \/ ResolveFails(w) PROVE SubmissionsInv'
<1>. DEFINE rest == pass[w].todo \ {Row(w)}
            next == IF rest = {} THEN Idle ELSE [at |-> "joining", todo |-> rest]
<1>0. Row(w) \in Submissions /\ pass[w].todo \subseteq Submissions
  BY RowIsListed DEF Resolve, ResolveFails, SubmissionsInv, PassKeepsUp, SubmissionsTypeOK
<1>1. pass' = [pass EXCEPT ![w] = next] /\ UNCHANGED <<joined, listed, member, answer>>
  BY DEF Resolve, ResolveFails, NextRow
<1>2. CASE Resolve(w)
  <2>1. /\ pass[w].at \in {"recorded", "refused", "erring"}
        /\ row' = [row EXCEPT ![Row(w)] = Verdict[pass[w].at]]
        /\ UNCHANGED <<lost, mishaps>>
    BY <1>2 DEF Resolve
  <2>2. /\ Verdict[pass[w].at] \in {"valid", "invalid", "error"}
        /\ Verdict[pass[w].at] = "valid" => pass[w].at = "recorded"
    BY <2>1 DEF Verdict
  <2>3. SubmissionsTypeOK'
    BY <1>0, <1>1, <2>1, <2>2 DEF Idle, SubmissionsInv, SubmissionsTypeOK
  <2>4. \A s \in Submissions : row'[s] = "valid" => row[s] = "valid" \/ s \in Complete'
    BY <1>0, <1>1, <2>1, <2>2 DEF SubmissionsInv, SubmissionsTypeOK, PassKeepsUp, Complete
  <2>5. \A v \in Workers : v # w => pass'[v] = pass[v]
    BY <1>1 DEF SubmissionsInv, SubmissionsTypeOK
  <2>6. pass'[w].at = "idle" \/ (pass'[w].at = "joining" /\ pass'[w].todo # {})
    BY <1>1 DEF Idle, SubmissionsInv, SubmissionsTypeOK
  <2>. QED  BY <1>1, <2>3, <2>4, <2>5, <2>6, OnePassMoves
<1>3. CASE ResolveFails(w)
  <2>3. SubmissionsTypeOK'
    BY <1>0, <1>1, <1>3, MishapType DEF ResolveFails, Stranded, Idle, SubmissionsInv, SubmissionsTypeOK
  <2>5. \A v \in Workers : v # w => pass'[v] = pass[v]
    BY <1>1 DEF SubmissionsInv, SubmissionsTypeOK
  <2>6. pass'[w].at = "idle" \/ (pass'[w].at = "joining" /\ pass'[w].todo # {})
    BY <1>1 DEF Idle, SubmissionsInv, SubmissionsTypeOK
  <2>. QED  BY <1>1, <1>3, <2>3, <2>5, <2>6, OnePassMoves DEF ResolveFails
<1>. QED  BY <1>2, <1>3

-----------------------------------------------------------------------------

(* The inductive invariant: types, what a pass has recorded for the row it *)
(* works on, and what every verdict rests on.                              *)
THEOREM SubmissionsInvariance == SubmissionsSpec => []SubmissionsInv
<1>1. SubmissionsInv /\ [SubmissionsNext]_submissionVars => SubmissionsInv'
  <2>. SUFFICES ASSUME SubmissionsInv, [SubmissionsNext]_submissionVars PROVE SubmissionsInv'
    OBVIOUS
  <2>1. CASE UNCHANGED submissionVars
    BY <2>1 DEF submissionVars, SubmissionsInv, SubmissionsTypeOK, PassKeepsUp, VerifiedIsComplete, Row
  <2>2. CASE SubmissionsNext
    BY <2>2, RequestSteps, RestingSteps, ClaimStep, RowSteps, SettlingSteps
       DEF SubmissionsNext, PassStep
  <2>. QED  BY <2>1, <2>2
<1>. QED  BY <1>1, SubmissionsInitially, PTL DEF SubmissionsSpec

(* Types are kept.                                                         *)
THEOREM SubmissionsTypeCorrect == SubmissionsSpec => []SubmissionsTypeOK
BY SubmissionsInvariance, PTL DEF SubmissionsInv

(* A community is reported as verified only when the agent is in, the      *)
(* candidate is listed and the membership recorded, for any number of      *)
(* submissions, workers and mishaps.                                       *)
THEOREM CompleteWhenVerified == SubmissionsSpec => []VerifiedIsComplete
BY SubmissionsInvariance, PTL DEF SubmissionsInv

-----------------------------------------------------------------------------
(* No row is forgotten: a claimed one is with one pass, or lost for good.  *)

Claimed == {s \in Submissions : row[s] = "processing"}

\* The verdict of the row was committed, and its pass does not know it.
Unheard(w, s) == pass[w].at = "erring" /\ s = Row(w) /\ Settled(s)

RowsAccounted ==
    /\ \A w \in Workers :
          /\ pass[w].at \in {"idle", "claiming"} => pass[w].todo = {}
          /\ \A s \in pass[w].todo : s \notin lost /\ (s \in Claimed \/ Unheard(w, s))
          /\ \A v \in Workers : v # w => pass[v].todo \cap pass[w].todo = {}
    /\ lost \subseteq Claimed
    /\ \A s \in Claimed : s \in lost \/ \E w \in Workers : s \in pass[w].todo

\* What a step may do to the rows that have a verdict, and to the lost ones.
VerdictsKept ==
    \A s \in Submissions : (Settled(s) \/ s \in lost) /\ row'[s] # row[s] =>
        /\ s \notin lost /\ row'[s] = "error"
        /\ \E w \in Workers : Unheard(w, s) /\ s \in pass[w].todo

VerdictChangesOnlyToError == [][VerdictsKept]_submissionVars

LEMMA AccountedInitially == SubmissionsInit => RowsAccounted
BY DEF SubmissionsInit, Idle, RowsAccounted, Claimed

(* A pass other than the one that moves keeps its rows as they are.        *)
LEMMA OthersKeep ==
    ASSUME NEW v \in Workers, pass'[v] = pass[v], NEW s \in Submissions, row'[s] = row[s],
           Unheard(v, s)
    PROVE  Unheard(v, s)'
BY DEF Unheard, Settled, Row

(* A step that hands the rows of one pass on: to it, to nobody or, done    *)
(* with, to the record.                                                    *)
LEMMA RowsHandedOn ==
    ASSUME SubmissionsInv, RowsAccounted, NEW w \in Workers,
           \A v \in Workers : v # w => pass'[v] = pass[v],
           pass'[w].at \in {"idle", "claiming"} => pass'[w].todo = {},
           NEW D, D \subseteq pass[w].todo, pass'[w].todo = pass[w].todo \ D,
           \A s \in pass[w].todo \ D : s \in Claimed,
           \/ UNCHANGED row /\ lost' = lost \cup Stranded(D)
           \/ /\ UNCHANGED lost
              /\ \A s \in Submissions \ D : row'[s] = row[s]
              /\ \A s \in D : row'[s] # "processing"
              /\ \A s \in D : Unheard(w, s) => row'[s] = "error"
    PROVE  RowsAccounted' /\ VerdictsKept
<1>1. /\ \A s \in pass[w].todo : s \notin lost /\ (s \in Claimed \/ Unheard(w, s))
      /\ \A v \in Workers : v # w =>
            /\ pass[v].todo \cap D = {}
            /\ \A s \in pass[v].todo : s \notin lost /\ (s \in Claimed \/ Unheard(v, s))
  BY DEF RowsAccounted
<1>2. /\ \A v \in Workers : pass[v].todo \subseteq Submissions
      /\ D \subseteq Submissions /\ lost \subseteq Claimed
  BY DEF SubmissionsInv, SubmissionsTypeOK, RowsAccounted
<1>3. CASE UNCHANGED row /\ lost' = lost \cup Stranded(D)
  <2>1. Claimed' = Claimed /\ Stranded(D) = D \cap Claimed
    BY <1>2, <1>3 DEF Claimed, Stranded
  <2>2. ASSUME NEW v \in Workers, NEW s \in pass'[v].todo
        PROVE  s \notin lost' /\ (s \in Claimed' \/ Unheard(v, s)')
    <3>1. CASE v = w
      BY <1>1, <1>3, <2>1, <2>2, <3>1
    <3>2. CASE v # w
      BY <1>1, <1>2, <1>3, <2>1, <2>2, <3>2, OthersKeep
    <3>. QED  BY <3>1, <3>2
  <2>3. \A s \in Claimed' : s \in lost' \/ \E v \in Workers : s \in pass'[v].todo
    BY <1>3, <2>1 DEF RowsAccounted
  <2>4. VerdictsKept
    BY <1>3 DEF VerdictsKept
  <2>5. lost' \subseteq Claimed'
    BY <1>2, <1>3, <2>1
  <2>. QED  BY <1>1, <2>2, <2>3, <2>4, <2>5 DEF RowsAccounted
<1>4. CASE /\ UNCHANGED lost
           /\ \A s \in Submissions \ D : row'[s] = row[s]
           /\ \A s \in D : row'[s] # "processing"
           /\ \A s \in D : Unheard(w, s) => row'[s] = "error"
  <2>1. Claimed' = Claimed \ D
    BY <1>2, <1>4 DEF Claimed
  <2>2. ASSUME NEW v \in Workers, NEW s \in pass'[v].todo
        PROVE  s \notin lost' /\ (s \in Claimed' \/ Unheard(v, s)')
    <3>1. CASE v = w
      BY <1>1, <1>4, <2>1, <2>2, <3>1
    <3>2. CASE v # w
      BY <1>1, <1>2, <1>4, <2>1, <2>2, <3>2, OthersKeep
    <3>. QED  BY <3>1, <3>2
  <2>3. \A s \in Claimed' : s \in lost' \/ \E v \in Workers : s \in pass'[v].todo
    BY <1>4, <2>1 DEF RowsAccounted
  <2>4. VerdictsKept
    <3>. SUFFICES ASSUME NEW s \in Submissions, Settled(s) \/ s \in lost, row'[s] # row[s]
                  PROVE  /\ s \notin lost /\ row'[s] = "error"
                         /\ \E v \in Workers : Unheard(v, s) /\ s \in pass[v].todo
      BY DEF VerdictsKept
    <3>1. s \in D /\ s \notin lost
      BY <1>1, <1>4
    <3>2. Unheard(w, s)
      BY <1>1, <3>1 DEF Settled, Claimed
    <3>. QED  BY <1>4, <3>1, <3>2
  <2>5. lost' \subseteq Claimed'
    BY <1>1, <1>2, <1>4, <2>1
  <2>. QED  BY <1>1, <2>2, <2>3, <2>4, <2>5 DEF RowsAccounted
<1>. QED  BY <1>3, <1>4

LEMMA AccountedRequests ==
    ASSUME SubmissionsInv, RowsAccounted, NEW s \in Submissions, Submit(s) \/ Poll(s)
    PROVE  RowsAccounted' /\ VerdictsKept
<1>1. /\ UNCHANGED <<pass, lost>>
      /\ \A t \in Submissions : row'[t] # row[t] => row[t] = "none" /\ row'[t] = "pending"
  BY DEF Submit, Poll, SubmissionsInv, SubmissionsTypeOK
<1>2. Claimed' = Claimed
  BY <1>1 DEF Claimed
<1>3. VerdictsKept
  BY <1>1 DEF Settled, RowsAccounted, Claimed, VerdictsKept
<1>4. \A w \in Workers : \A t \in pass[w].todo : Unheard(w, t) => Unheard(w, t)'
  <2>1. \A w \in Workers : pass[w].todo \subseteq Submissions /\ pass'[w] = pass[w]
    BY <1>1 DEF SubmissionsInv, SubmissionsTypeOK
  <2>2. \A t \in Submissions : Settled(t) => row'[t] = row[t]
    BY <1>1 DEF Settled
  <2>. QED  BY <2>1, <2>2, OthersKeep DEF Unheard
<1>. QED  BY <1>1, <1>2, <1>3, <1>4 DEF RowsAccounted

(* Nobody else has the rows that are claimed: they were pending.  They go  *)
(* to the pass, or are lost with the answer.                               *)
LEMMA AccountedClaim ==
    ASSUME SubmissionsInv, RowsAccounted, NEW w \in Workers,
           pass[w].at = "claiming", row' = Taken,
           \A v \in Workers : v # w => pass'[v] = pass[v],
           pass'[w].at \in {"idle", "claiming"} => pass'[w].todo = {},
           \/ pass'[w].todo = Batch /\ UNCHANGED lost
           \/ pass'[w].todo = {} /\ lost' = lost \cup Batch
    PROVE  RowsAccounted' /\ VerdictsKept
<1>0. Batch \subseteq Submissions /\ \A s \in Batch : row[s] = "pending"
  BY DEF Batch, Pending
<1>1. \A s \in Submissions : row'[s] = IF s \in Batch THEN "processing" ELSE row[s]
  BY DEF Taken
<1>. HIDE DEF Batch
<1>2. pass[w].todo = {} /\ lost \subseteq Claimed
  BY DEF RowsAccounted
<1>3. Claimed' = Claimed \cup Batch /\ Claimed \cap Batch = {}
  BY <1>0, <1>1 DEF Claimed
<1>4. ASSUME NEW v \in Workers, v # w
      PROVE  /\ pass[v].todo \cap Batch = {}
             /\ \A s \in pass[v].todo : s \notin lost /\ (s \in Claimed \/ Unheard(v, s)')
  <2>1. \A s \in pass[v].todo :
           s \in Submissions /\ s \notin lost /\ (s \in Claimed \/ Unheard(v, s))
    BY DEF RowsAccounted, SubmissionsInv, SubmissionsTypeOK
  <2>2. \A s \in pass[v].todo : s \notin Batch
    BY <1>0, <1>3, <2>1 DEF Unheard, Settled
  <2>. QED  BY <1>1, <1>4, <2>1, <2>2, OthersKeep
<1>5. ASSUME NEW v \in Workers, NEW s \in pass'[v].todo
      PROVE  s \notin lost' /\ (s \in Claimed' \/ Unheard(v, s)')
  BY <1>2, <1>3, <1>4, <1>5
<1>6. \A s \in Claimed' : s \in lost' \/ \E v \in Workers : s \in pass'[v].todo
  BY <1>2, <1>3 DEF RowsAccounted
<1>7. VerdictsKept
  BY <1>0, <1>1, <1>2 DEF Settled, VerdictsKept, Claimed
<1>8. lost' \subseteq Claimed'
  BY <1>2, <1>3
<1>9. \A v, u \in Workers : u # v => pass'[u].todo \cap pass'[v].todo = {}
  BY <1>4 DEF RowsAccounted
<1>. QED  BY <1>4, <1>5, <1>6, <1>7, <1>8, <1>9 DEF RowsAccounted

(* A verdict is committed, and its pass only hears of a failure.           *)
LEMMA AccountedUnheard ==
    ASSUME SubmissionsInv, RowsAccounted, NEW w \in Workers, Throws(w), ~UNCHANGED row
    PROVE  RowsAccounted' /\ VerdictsKept
<1>1. /\ pass[w].at \in {"recorded", "refused"} /\ Goto(w, "erring") /\ UNCHANGED lost
      /\ row' = [row EXCEPT ![Row(w)] = Verdict[pass[w].at]]
  BY DEF Throws
<1>2. Verdict[pass[w].at] \in {"valid", "invalid", "error"}
  BY <1>1 DEF Verdict
<1>3. Row(w) \in pass[w].todo /\ Row(w) \in Submissions
  BY <1>1, RowIsListed DEF SubmissionsInv, PassKeepsUp
<1>4. /\ \A v \in Workers : v # w => pass'[v] = pass[v]
      /\ pass'[w].at = "erring" /\ pass'[w].todo = pass[w].todo
  BY <1>1 DEF Goto, SubmissionsInv, SubmissionsTypeOK
<1>5. Row(w)' = Row(w)
  BY <1>4 DEF Row
<1>6. /\ row'[Row(w)] \in {"valid", "invalid", "error"}
      /\ \A s \in Submissions : s # Row(w) => row'[s] = row[s]
  BY <1>1, <1>2, <1>3 DEF SubmissionsInv, SubmissionsTypeOK
<1>7. \A s \in pass[w].todo : s \in Claimed /\ s \notin lost
  BY <1>1 DEF RowsAccounted, Unheard
<1>. HIDE DEF Row
<1>8. Claimed' = Claimed \ {Row(w)}
  BY <1>3, <1>6 DEF Claimed
<1>9. ASSUME NEW v \in Workers, NEW s \in pass'[v].todo
      PROVE  s \notin lost' /\ (s \in Claimed' \/ Unheard(v, s)')
  <2>1. CASE v = w
    <3>1. Unheard(w, Row(w))'
      BY <1>4, <1>5, <1>6 DEF Unheard, Settled
    <3>2. s # Row(w) => s \in Claimed'
      BY <1>4, <1>7, <1>8, <1>9, <2>1
    <3>3. s = Row(w) => Unheard(w, s)'
      BY <1>4, <1>5, <1>6, <2>1 DEF Unheard, Settled
    <3>. QED  BY <1>1, <1>4, <1>7, <1>9, <2>1, <3>2, <3>3
  <2>2. CASE v # w
    <3>1. s \in pass[v].todo /\ s \in Submissions /\ s # Row(w)
      BY <1>3, <1>4, <1>9, <2>2 DEF RowsAccounted, SubmissionsInv, SubmissionsTypeOK
    <3>2. s \notin lost /\ (s \in Claimed \/ Unheard(v, s))
      BY <3>1 DEF RowsAccounted
    <3>. QED  BY <1>1, <1>4, <1>6, <1>8, <2>2, <3>1, <3>2, OthersKeep
  <2>. QED  BY <2>1, <2>2
<1>10. lost' \subseteq Claimed'
  BY <1>1, <1>3, <1>7, <1>8 DEF RowsAccounted
<1>11. \A s \in Claimed' : s \in lost' \/ \E v \in Workers : s \in pass'[v].todo
  BY <1>1, <1>4, <1>8 DEF RowsAccounted
<1>12. VerdictsKept
  BY <1>3, <1>6, <1>7 DEF VerdictsKept, Settled, Claimed
<1>. QED  BY <1>4, <1>9, <1>10, <1>11, <1>12 DEF RowsAccounted

LEMMA AccountedPass ==
    ASSUME SubmissionsInv, RowsAccounted, NEW w \in Workers, PassStep(w) \/ WorkerDies(w)
    PROVE  RowsAccounted' /\ VerdictsKept
<1>1. CASE Start(w) \/ (ClaimFails(w) /\ UNCHANGED <<row, lost>>)
  <2>. DEFINE nothing == {}
  <2>1. /\ \A v \in Workers : v # w => pass'[v] = pass[v]
        /\ pass'[w].todo = {} /\ pass[w].todo = {} /\ UNCHANGED <<row, lost>>
    BY <1>1 DEF Start, ClaimFails, Idle, RowsAccounted, SubmissionsInv, SubmissionsTypeOK
  <2>2. /\ pass'[w].todo = pass[w].todo \ nothing /\ nothing \subseteq pass[w].todo
        /\ lost' = lost \cup Stranded(nothing) /\ \A s \in pass[w].todo \ nothing : s \in Claimed
    BY <2>1 DEF Stranded
  <2>. HIDE DEF nothing
  <2>. QED  BY <2>1, <2>2, RowsHandedOn
<1>2. CASE \/ Join(w) \/ IngestSubmission(w) \/ UpsertMembership(w)
           \/ Throws(w) /\ UNCHANGED row
  <2>. DEFINE nothing == {}
  <2>1. /\ \E at \in {"joined", "ingested", "recorded", "refused", "erring"} : Goto(w, at)
        /\ pass[w].at # "erring"
    BY <1>2 DEF Join, IngestSubmission, UpsertMembership, Throws
  <2>2. /\ \A v \in Workers : v # w => pass'[v] = pass[v]
        /\ pass'[w].todo = pass[w].todo \ nothing
        /\ pass'[w].at \notin {"idle", "claiming"}
    BY <2>1 DEF Goto, SubmissionsInv, SubmissionsTypeOK
  <2>3. UNCHANGED row /\ lost' = lost \cup Stranded(nothing) /\ nothing \subseteq pass[w].todo
    BY <1>2 DEF Join, IngestSubmission, UpsertMembership, Throws, Stranded
  <2>4. \A s \in pass[w].todo \ nothing : s \in Claimed
    BY <2>1 DEF RowsAccounted, Unheard
  <2>. HIDE DEF nothing
  <2>. QED  BY <2>2, <2>3, <2>4, RowsHandedOn
<1>3. CASE Resolve(w) \/ ResolveFails(w)
  <2>. DEFINE rest == pass[w].todo \ {Row(w)}
              next == IF rest = {} THEN Idle ELSE [at |-> "joining", todo |-> rest]
  <2>1. Row(w) \in pass[w].todo /\ Row(w) \in Submissions
    BY <1>3, RowIsListed DEF Resolve, ResolveFails, PassKeepsUp, SubmissionsInv
  <2>2. pass' = [pass EXCEPT ![w] = next]
    BY <1>3 DEF Resolve, ResolveFails, NextRow
  <2>3. /\ \A v \in Workers : v # w => pass'[v] = pass[v]
        /\ pass'[w] = next
    BY <2>2 DEF SubmissionsInv, SubmissionsTypeOK
  <2>4. /\ pass'[w].todo = pass[w].todo \ {Row(w)}
        /\ pass'[w].at \in {"idle", "claiming"} => pass'[w].todo = {}
    BY <2>3 DEF Idle
  <2>5. \A s \in pass[w].todo \ {Row(w)} : s \in Claimed
    BY DEF RowsAccounted, Unheard
  <2>6. \/ UNCHANGED row /\ lost' = lost \cup Stranded({Row(w)})
        \/ /\ UNCHANGED lost
           /\ \A s \in Submissions \ {Row(w)} : row'[s] = row[s]
           /\ \A s \in {Row(w)} : row'[s] # "processing"
           /\ \A s \in {Row(w)} : Unheard(w, s) => row'[s] = "error"
    <3>1. CASE ResolveFails(w)
      BY <3>1 DEF ResolveFails
    <3>2. CASE Resolve(w)
      <4>1. /\ pass[w].at \in {"recorded", "refused", "erring"} /\ UNCHANGED lost
            /\ row' = [row EXCEPT ![Row(w)] = Verdict[pass[w].at]]
        BY <3>2 DEF Resolve
      <4>2. /\ Verdict[pass[w].at] \in {"valid", "invalid", "error"}
            /\ pass[w].at = "erring" => Verdict[pass[w].at] = "error"
        BY <4>1 DEF Verdict
      <4>3. /\ \A s \in Submissions : s # Row(w) => row'[s] = row[s]
            /\ row'[Row(w)] = Verdict[pass[w].at]
        BY <2>1, <4>1 DEF SubmissionsInv, SubmissionsTypeOK
      <4>4. \A s : Unheard(w, s) => pass[w].at = "erring"
        BY DEF Unheard
      <4>. HIDE DEF Row
      <4>. QED  BY <4>1, <4>2, <4>3, <4>4
    <3>. QED  BY <1>3, <3>1, <3>2
  <2>7. {Row(w)} \subseteq pass[w].todo
    BY <2>1
  <2>. HIDE DEF Row
  <2>. QED  BY <2>3, <2>4, <2>5, <2>6, <2>7, RowsHandedOn
<1>4. CASE WorkerDies(w)
  <2>1. /\ \A v \in Workers : v # w => pass'[v] = pass[v]
        /\ pass'[w].todo = pass[w].todo \ pass[w].todo
        /\ UNCHANGED row /\ lost' = lost \cup Stranded(pass[w].todo)
    BY <1>4 DEF WorkerDies, Idle, SubmissionsInv, SubmissionsTypeOK
  <2>. QED  BY <2>1, RowsHandedOn
<1>5. CASE Claim(w) \/ (ClaimFails(w) /\ row' = Taken /\ lost' = lost \cup Batch)
  <2>1. /\ pass[w].at = "claiming" /\ row' = Taken
        /\ \A v \in Workers : v # w => pass'[v] = pass[v]
    BY <1>5 DEF Claim, ClaimFails, SubmissionsInv, SubmissionsTypeOK
  <2>2. CASE Claim(w)
    <3>. HIDE DEF Batch
    <3>1. /\ pass' = [pass EXCEPT ![w] = IF Batch = {} THEN Idle ELSE [at |-> "joining", todo |-> Batch]]
          /\ UNCHANGED lost
      BY <2>2 DEF Claim
    <3>2. /\ pass'[w].todo = Batch
          /\ pass'[w].at \in {"idle", "claiming"} => pass'[w].todo = {}
      BY <3>1 DEF Idle, SubmissionsInv, SubmissionsTypeOK
    <3>. QED  BY <2>1, <3>1, <3>2, AccountedClaim
  <2>3. CASE ClaimFails(w) /\ lost' = lost \cup Batch
    <3>1. pass'[w].todo = {}
      BY <2>3 DEF ClaimFails, Idle, SubmissionsInv, SubmissionsTypeOK
    <3>. QED  BY <2>1, <2>3, <3>1, AccountedClaim
  <2>. QED  BY <1>5, <2>2, <2>3
<1>6. CASE Throws(w) /\ ~UNCHANGED row
  BY <1>6, AccountedUnheard
<1>. QED  BY <1>1, <1>2, <1>3, <1>4, <1>5, <1>6 DEF PassStep, ClaimFails

LEMMA AccountedStep ==
    ASSUME SubmissionsInv, RowsAccounted, [SubmissionsNext]_submissionVars
    PROVE  RowsAccounted' /\ VerdictsKept
<1>1. CASE UNCHANGED submissionVars
  BY <1>1 DEF submissionVars, RowsAccounted, Claimed, Unheard, Settled, Row, VerdictsKept
<1>2. CASE SubmissionsNext
  BY <1>2, AccountedRequests, AccountedPass DEF SubmissionsNext
<1>. QED  BY <1>1, <1>2

(* The safety side of SettledUnlessLost: at any moment a row that was      *)
(* claimed is with exactly one pass, which still has to settle it, or it   *)
(* is lost.  The one row a pass may hold that has a verdict is the one     *)
(* whose write was committed while the pass heard of a failure.            *)
THEOREM NothingForgotten == SubmissionsSpec => []RowsAccounted
<1>1. SubmissionsInv /\ RowsAccounted /\ [SubmissionsNext]_submissionVars => RowsAccounted'
  BY AccountedStep
<1>. QED  BY <1>1, AccountedInitially, SubmissionsInvariance, PTL DEF SubmissionsSpec

(* A verdict is final but for one case: resolveSubmissionValidation has no *)
(* guard on the status, so a pass whose write was committed without an     *)
(* answer puts "error" over its own verdict, once, before it takes its     *)
(* next row.  No other pass ever touches it, and a lost row gets no        *)
(* verdict at all, although its author may have been told that it would    *)
(* still be finished (README, section 3).                                  *)
THEOREM VerdictKept == SubmissionsSpec => VerdictChangesOnlyToError
<1>1. SubmissionsInv /\ RowsAccounted /\ [SubmissionsNext]_submissionVars => [VerdictsKept]_submissionVars
  BY AccountedStep
<1>. QED
  BY <1>1, SubmissionsInvariance, NothingForgotten, PTL
     DEF SubmissionsSpec, VerdictChangesOnlyToError

=============================================================================
