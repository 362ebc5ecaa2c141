---------------------------- MODULE DirectoryMC ----------------------------
(***************************************************************************)
(* What the directory is made of, on small instances: candidates and their *)
(* probes, submitted invites, a monitor's reports, the invite a community  *)
(* is listed with, and signed requests.  The parts share no state: a       *)
(* behaviour runs one of them, chosen at the start, and leaves the others  *)
(* in their initial states.                                                *)
(***************************************************************************)
EXTENDS CandidateProbes, SubmissionValidation, Nip66Source, InviteFreshness, RequestReplay

VARIABLE part

DirectoryInit ==
    /\ part \in {"probes", "submissions", "reports", "invites", "requests"}
    /\ ProbesInit /\ SubmissionsInit /\ SourceInit /\ InvitesInit /\ AuthInit
    /\ part # "requests" => db = 0 /\ createdAt = [e \in Events |-> 0]

DirectoryNext ==
    /\ UNCHANGED part
    /\ \/ /\ part = "probes" /\ ProbesNext
          /\ UNCHANGED <<submissionVars, nip66Vars, inviteVars, replayedVars>>
       \/ /\ part = "submissions" /\ SubmissionsNext
          /\ UNCHANGED <<probeVars, nip66Vars, inviteVars, replayedVars>>
       \/ /\ part = "reports" /\ SourceNext
          /\ UNCHANGED <<probeVars, submissionVars, inviteVars, replayedVars>>
       \/ /\ part = "invites" /\ InvitesNext
          /\ UNCHANGED <<probeVars, submissionVars, nip66Vars, replayedVars>>
       \/ /\ part = "requests" /\ AuthNext
          /\ UNCHANGED <<probeVars, submissionVars, nip66Vars, inviteVars>>

\* The last three promise nothing that has to happen.
DirectorySpec ==
    /\ DirectoryInit
    /\ [][DirectoryNext]_<<part, probeVars, submissionVars, nip66Vars, inviteVars, replayedVars>>
    /\ \/ part = "probes" /\ ProbesFairness
       \/ part = "submissions" /\ SubmissionsFairness
       \/ part \in {"reports", "invites", "requests"}

-----------------------------------------------------------------------------

(* Every variable of the five parts keeps its type.                        *)
DirectoryTypeOK ==
    ProbesTypeOK /\ SubmissionsTypeOK /\ SourceTypeOK /\ InvitesTypeOK /\ AuthTypeOK

=============================================================================
