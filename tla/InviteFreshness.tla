-------------------------- MODULE InviteFreshness --------------------------
(***************************************************************************)
(* The invite the directory serves for one joined community.  Sources      *)
(* report it (src/src/db/candidates.ts), members post new ones that are    *)
(* harvested, a freshness pass swaps a dying code for a live one           *)
(* (src/src/jobs/refresh-invites.ts, src/src/db/presence.ts), and another  *)
(* pass finds out whether the served code lets anybody in                  *)
(* (src/src/jobs/probe-joinability.ts, src/src/db/join-probes.ts), which   *)
(* the directory shows (src/src/db/directory.ts).                          *)
(***************************************************************************)
EXTENDS Naturals

CONSTANTS
    Sources,        \* rows of community_sources of the community
    Codes,          \* invite codes of the relay's format
    NoCode,         \* NULL
    Statuses,       \* what a claim of a code can show (JoinStatus)
    JoinPasses,     \* passes of probe-joinability that may overlap
    MaxWrites       \* bound: sightings and swaps

ASSUME WritesAssumption == MaxWrites \in Nat

VARIABLES
    writes,         \* the clock of last_seen_at: every write has its own time
    source,         \* [code, seen, observed] of each row
    life,           \* of each code: long, soon (a week or less to its expiry), over
    harvested,      \* harvested_invite_candidates
    refresh,        \* the freshness pass: [at, code]
    joinPass,       \* passes of probe-joinability: [at, code, status]
    verdict,        \* community_join_probes: [code, status, fresh]
    probed          \* history: every <<code, status>> a claim has shown

inviteVars == <<writes, source, life, harvested, refresh, joinPass, verdict, probed>>

Unreported == [code |-> NoCode, seen |-> 0, observed |-> 0]
AtRest == [at |-> "idle"]
NoVerdict == [code |-> NoCode]

InvitesInit ==
    /\ writes = 0
    /\ source = [s \in Sources |-> Unreported]
    /\ life = [c \in Codes |-> "long"]
    /\ harvested = {}
    /\ refresh = AtRest
    /\ joinPass = [p \in JoinPasses |-> AtRest]
    /\ verdict = NoVerdict
    /\ probed = {}

\* The directory's join_target, and getCandidateInviteTarget: the code observed last.
\* (Codes that are not of the format are refused before they are stored.)
Served ==
    LET coded == {s \in Sources : source[s].code # NoCode}
        last == {t \in coded : \A u \in coded : source[u].observed <= source[t].observed}
    IN  {source[s].code : s \in last}

\* getDirectoryInvite: the code seen last.
Refreshed ==
    LET coded == {s \in Sources : source[s].code # NoCode}
        last == {t \in coded : \A u \in coded : source[u].seen <= source[t].seen}
    IN  {source[s].code : s \in last}

\* What a visitor sees next to a code.
Shown(c) == verdict.code = c /\ verdict.fresh

-----------------------------------------------------------------------------
(* Sources, members and the relay                                          *)

\* upsertCandidate: the code of a new report replaces the old one, NULL included, and
\* what is reported may be older than what is known (harvest-x-invites.ts dates it by
\* its post).
Report(s) ==
    /\ writes < MaxWrites
    /\ writes' = writes + 1
    /\ \E c \in Codes \cup {NoCode}, t \in 0..writes' :
          source' = [source EXCEPT ![s] =
              [code |-> c, seen |-> writes', observed |-> IF t > @.observed THEN t ELSE @.observed]]
    /\ UNCHANGED <<life, harvested, refresh, joinPass, verdict, probed>>

Harvest(c) ==
    /\ c \notin harvested
    /\ harvested' = harvested \cup {c}
    /\ UNCHANGED <<writes, source, life, refresh, joinPass, verdict, probed>>

\* The last week of a code begins; or it expires, is used up or revoked.
Expires(c) ==
    /\ life[c] # "over"
    /\ life' \in {[life EXCEPT ![c] = l] : l \in {"soon", "over"}}
    /\ UNCHANGED <<writes, source, harvested, refresh, joinPass, verdict, probed>>

-----------------------------------------------------------------------------
(* refreshStaleInvites                                                     *)

Read ==
    /\ refresh = AtRest
    /\ \E c \in Refreshed : refresh' = [at |-> "read", code |-> c]
    /\ UNCHANGED <<writes, source, life, harvested, joinPass, verdict, probed>>

\* The code is live and lasts, or it has to go: the pass looks for another one.
Judge ==
    /\ refresh.at = "read"
    /\ refresh' = IF life[refresh.code] = "long" THEN AtRest ELSE [at |-> "searching"]
    /\ UNCHANGED <<writes, source, life, harvested, joinPass, verdict, probed>>

\* A candidate that is live.  One for a code that is live too must last longer: of two
\* in their last week, either may.
Choose ==
    /\ refresh.at = "searching"
    /\ \E c \in harvested :
          life[c] # "over" /\ refresh' = [at |-> "swapping", code |-> c]
    /\ UNCHANGED <<writes, source, life, harvested, joinPass, verdict, probed>>

\* replaceDirectoryInvite: every row of the community takes the code.
Swap ==
    /\ refresh.at = "swapping" /\ writes < MaxWrites
    /\ writes' = writes + 1
    /\ source' = [s \in Sources |->
          IF source[s] = Unreported THEN Unreported
          ELSE [source[s] EXCEPT !.code = refresh.code, !.seen = writes']]
    /\ refresh' = [refresh EXCEPT !.at = "clearing"]
    /\ UNCHANGED <<life, harvested, joinPass, verdict, probed>>

Clear ==
    /\ refresh.at = "clearing"
    /\ harvested' = harvested \ {refresh.code}
    /\ refresh' = AtRest
    /\ UNCHANGED <<writes, source, life, joinPass, verdict, probed>>

\* No suitable candidate, a relay that does not answer, a failing query, a crash.
GiveUp ==
    /\ refresh # AtRest
    /\ refresh' = AtRest
    /\ UNCHANGED <<writes, source, life, harvested, joinPass, verdict, probed>>

-----------------------------------------------------------------------------
(* probeCommunityJoinability and the directory                             *)

ListTarget(p) ==
    /\ joinPass[p] = AtRest
    /\ \E c \in Served :
          ~Shown(c) /\ joinPass' = [joinPass EXCEPT ![p] = [at |-> "listed", code |-> c]]
    /\ UNCHANGED <<writes, source, life, harvested, refresh, verdict, probed>>

ProbeJoin(p) ==
    /\ joinPass[p].at = "listed"
    /\ \E st \in Statuses :
          /\ joinPass' = [joinPass EXCEPT ![p] = [at |-> "probed", code |-> @.code, status |-> st]]
          /\ probed' = probed \cup {<<joinPass[p].code, st>>}
    /\ UNCHANGED <<writes, source, life, harvested, refresh, verdict>>

\* Faulty variant: the verdict is recorded for the code that is served by now.
RecordServed(p) ==
    /\ joinPass[p].at = "probed"
    /\ \E c \in Served : verdict' = [code |-> c, status |-> joinPass[p].status, fresh |-> TRUE]
    /\ joinPass' = [joinPass EXCEPT ![p] = AtRest]
    /\ UNCHANGED <<writes, source, life, harvested, refresh, probed>>

RecordJoin(p) ==
    /\ joinPass[p].at = "probed"
    /\ verdict' = [code |-> joinPass[p].code, status |-> joinPass[p].status, fresh |-> TRUE]
    /\ joinPass' = [joinPass EXCEPT ![p] = AtRest]
    /\ UNCHANGED <<writes, source, life, harvested, refresh, probed>>

JoinPassFails(p) ==
    /\ joinPass[p] # AtRest
    /\ joinPass' = [joinPass EXCEPT ![p] = AtRest]
    /\ UNCHANGED <<writes, source, life, harvested, refresh, verdict, probed>>

\* Twelve hours after it was recorded the directory no longer trusts a verdict.
Decays ==
    /\ verdict # NoVerdict /\ verdict.fresh
    /\ verdict' = [verdict EXCEPT !.fresh = FALSE]
    /\ UNCHANGED <<writes, source, life, harvested, refresh, joinPass, probed>>

-----------------------------------------------------------------------------

InvitesNext ==
    \/ \E s \in Sources : Report(s)
    \/ \E c \in Codes : Harvest(c) \/ Expires(c)
    \/ Read \/ Judge \/ Choose \/ Swap \/ Clear \/ GiveUp
    \/ \E p \in JoinPasses : ListTarget(p) \/ ProbeJoin(p) \/ RecordJoin(p) \/ JoinPassFails(p)
    \/ Decays

InvitesSpec == InvitesInit /\ [][InvitesNext]_inviteVars

-----------------------------------------------------------------------------

InvitesTypeOK ==
    /\ writes \in 0..MaxWrites
    /\ source \in [Sources -> [code: Codes \cup {NoCode}, seen: 0..MaxWrites, observed: 0..MaxWrites]]
    /\ life \in [Codes -> {"long", "soon", "over"}]
    /\ harvested \subseteq Codes
    /\ refresh \in {AtRest, [at |-> "searching"]} \cup [at: {"read", "swapping", "clearing"}, code: Codes]
    /\ joinPass \in [JoinPasses -> {AtRest} \cup [at: {"listed"}, code: Codes]
          \cup [at: {"probed"}, code: Codes, status: Statuses]]
    /\ verdict \in {NoVerdict} \cup [code: Codes, status: Statuses, fresh: BOOLEAN]
    /\ probed \subseteq Codes \X Statuses

(* The directory shows a verdict only next to the code it is about: a      *)
(* claim of that very code has shown it, although sources and swaps change *)
(* the code while claims are under way and passes overlap.                 *)
ShownIsProbed ==
    \A c \in Served : Shown(c) => <<c, verdict.status>> \in probed

=============================================================================
