# BuzzRouter: TLA+ models and proofs

BuzzRouter discovers Buzz communities (Nostr relays), ranks and lists them, and
runs an **open hub** that carries addressed messages between the channels of
communities that joined it. This directory holds TLA+ models of that code, TLC
configurations that check them on small instances, and TLAPS proofs of the
properties that matter most. Source references are paths in the repository.

## 1. The system

| Part | Code | State | Operations | What is hard |
|---|---|---|---|---|
| Bridge delivery | `src/shared-channels/connector.ts` (`deliver`), `store.ts` | `bridge_messages`, `bridge_deliveries`, `bridge_event_mappings`, `bridge_direct_channel_hints`, pg-boss jobs, the destination relay | ingest, read context, mark, persist, check, publish, look up, complete, retry, cancel, hint | at-least-once jobs, handlers that outlive their job, lost acknowledgements, crashes, settings edits between two awaits, replies before their parents |
| Hub routing | `connector.ts` (`handleSourceEvent`, commands), `store.ts`, `jobs/provision-peer-channels.ts` | `shared_channel_endpoints`, receipts, undeliverable notices, sessions | join, edit settings, resolve, ingest, bounce, `/open`, `/close`, provision | one community holds an inbox and many direct channels; the relay replays events; passes and commands race |
| Channel handoff | `channel-handoff.ts` | `bridge_channel_handoffs`, the channel on its relay | create, promote the owner, demote the bridge | a journaled sequence of relay calls resumed after failures, by concurrent callers |
| Connection install | `installer.ts`, `store.ts`, `owner-session.ts` | `community_connections`, `connection_install_tokens`, owner sessions | begin, redeem an invite, verify, activate | key rotation against an activation under way |
| Connector sessions | `connector.ts` (`reconcile`, `startConnection`) | sessions, failures with backoff, cursors | reconcile, connect, rebuild when idle, replay | silence looks like death; a cursor that passes an event that failed |
| Candidates and probes | `db/candidates.ts`, `jobs/probe-candidate.ts`, `jobs/schedule-due-probes.ts` | `community_candidates`, `probe_snapshots` | upsert, lease, probe, record, suppress | overlapping probes, leases against lost jobs |
| Discovery sources | `sources/*`, `db/source-state.ts` | `discovery_source_state` cursors | read pages, ingest, record | a cursor against a failing pass |
| Presence agent | `presence/*`, `jobs/auto-join-communities.ts`, `jobs/*-invites.ts`, `db/presence.ts` | memberships, summaries, harvested invites | claim an invite, accept terms, join, harvest, refresh | the code that is refreshed, the one that is served and the one that was probed are read at different times |
| Submission validation | `db/submission-validations.ts`, `jobs/validate-submissions.ts`, `app/api/submissions/route.ts` | `submission_validations` | create, claim a batch, settle, poll | a crash after the claim |
| Ranking, joinability, eligibility | `ranking/*`, `directory/joinability.ts`, `discovery/listing-eligibility.ts` | metrics, verdicts | score, decay | boundaries of ages and windows |
| HTTP | `http/rate-limit.ts`, `http/nostr-auth.ts`, `app/api/*` | sliding windows, `nostr_auth_events` | limit, authenticate | two clocks, and windows that meet |
| Directory, pages, scripts | `db/directory.ts`, `app/*`, `scripts/*` | none of their own | query, render | - |

The worker process (`src/worker.ts`) runs the connector supervisor and the
pg-boss workers; the web process runs the API. They share nothing but
PostgreSQL. A relay is outside: it accepts signed events, may lose an
acknowledgement, and replays stored events to every new subscription.

What makes each part correct, in short. Delivery: one post per message, outcomes
that tell the truth, replies in their thread. Routing: one destination, privacy
of direct channels, nobody cut off, replays without effect. Handoff: one channel
per key that never lacks an owner. Install: an active connection uses a key the
relay admitted. Sessions: every active connection has a session again and again,
and no other channel's traffic hides an event. Probes and validations: what is
claimed is settled, and what is listed or confirmed rests on evidence. Invites: a
verdict is about the code it is shown with.

`PROJECT.json` lists every hazard at its line with the properties that cover it.

## 2. Modules

### BridgeDelivery (with BridgePromise, BridgeDeliveryMC, BridgeDeliveryProofs)

A message is its source event, with its one destination. `Ingest` is the
transaction of `ingestBridgeMessage`; `Fetch`, `Expire` and `Report` are pg-boss;
`Read` to `Greet` are the awaits of `deliver` and `hintDirectChannel`, one action
each, because that is where the JavaScript may be suspended. A handler keeps what
it read (`handler[h].ev`) while the row changes under it.

| Model | Code |
|---|---|
| `state`, `attempts`, `signed` | `bridge_deliveries.state`, `.attempts`, `.destination_signed_event` |
| `mapped` | the `bridge_event_mappings` row at the destination; the one at the source exists once `Ingested` |
| `replyTo` | `bridge_messages.source_parent_event_id` |
| `job`, `tries` | the pg-boss job and its retry count |
| `relay` | the projections the destination relay accepted |
| `hinted`, `hintPosts` | `bridge_direct_channel_hints`, and the hint notices on the relay |
| `Settings.peers` | `filter_mode` and `filter_list`, as the set they let through |

A projection is identified by the attempt that signed it: `created_at` makes two
signings two different events. `Mark` may end in a failed signing: a session that is
closed during that await has its key wiped. `QueryFails` is a query that fails, or
whose answer is lost, which ends the handler; a failing claim of a hint is swallowed.
`shut` is a history variable for one property.
`BridgePromise` is the abstract specification: absent, pending, delivered or
dropped; nothing or one post on the wall; a reply after the post it needs.

### HubRouting (with HubRoutingMC, HubRoutingProofs)

An endpoint is a pair `<<community, peer>>` or `<<community, Inbox>>`.
`Destinations` is the query of `ingestBridgeMessage`, `Routable` the one of
`findRoutableCommunityBySlug`, `Routes` the one of `listActiveConnectorConfigs`,
`Missing` the one of `listHubPeersMissingDedicatedChannel`. `See`, `Resolve`,
`Ingest`, `Bounce`, `Notify` are `handleSourceEvent`; `Claim`, `FindPeer`, `Make`,
`Attach`, `Reopen`, `Unbind` the commands; `StartPass`, `ProvisionMake`,
`ProvisionAttach` a pass of the provisioner. `QueryFails` is a query of a handler that
fails: a command still answers, anything else ends. `receipts` holds
`bridge_command_receipts` and `bridge_undeliverable_notices`; an event uses one of the two
tables only. A session keeps the routes it
subscribed until `Reconcile` replaces it. `Deliver` is all of BridgeDelivery in
one step with its outcomes. The model replays any event at any time, more than
the cursor of a real subscription does.

### ChannelHandoff (with ChannelHandoffMC, ChannelHandoffProofs)

`journal` is `bridge_channel_handoffs`, `role` the relay's groups and their
roles, `call` the running calls of `createDedicatedChannel`, each with its own
copy of the row. `Start` is `findHandoffByKey`, `Reserve` is
`resolveChannelOwner` with `reserveHandoff`, `Create`, `Promote`, `AddMember`
and `Demote` the publishes of `runHandoff`, `Advance` is `advanceHandoff`. `Fail`
ends a call anywhere: an error, a timeout or a crash before or after the relay
stored what was published (a stored event whose confirmation is lost is the
step followed by `Fail`). The relay takes a 9000 from an owner only, as the
comment at `channel-handoff.ts:21-24` says; a second 9007 for a channel changes
nothing. Nothing is bounded: the state space is finite. Not modelled: rotation
of the bridge's key between two calls, owners who change roles themselves, and
the counters `attempts` and `last_error`.

### ConnectionInstall (with ConnectionInstallProofs)

A call of `createCommunityInstallToken`, the key it generates and the token it
returns are one element of `Installs`. Its transaction
(`beginCommunityConnectionInstall`) runs under READ COMMITTED, so every statement
is an action: `Snapshot` and `ExpireTokens` are the update of the pending tokens
before and after its wait for row locks, `Upsert` the insert of the connection,
`CommitInstall` the insert of the token, whose partial unique index makes
`Conflict`. `Context`, `RoundTrip`, `ConsumeToken` and `Activate` are
`verifyAndActivateCommunityConnection`. What a transaction wrote becomes visible
when it commits; the locks it holds meanwhile are `LinkLocked` and
`LockedTokens`. `link` is the row of `community_connections`.

### ConnectorSessions (proofs in ConnectionsProofs)

`session` is the map `sessions`, `backoff` says that `failures` holds a time in the
future, `call` the calls of `reconcile`: the timer starts one every 30 seconds and
waits for none, so they overlap. Between two awaits the event loop belongs to one
call (`Free`). `Begin`, `List`, `Keep`, `Rebuild` are `reconcile`; `Connect`,
`Reported`, `ReportFails`, `BlameFails` the awaits of `startConnection`. A relay
that is open and in no map entry is in `leaked`. `config` stands for the
fingerprint; `idle` is `isStale`, `deaf` a socket that stays open and delivers
nothing. Two things are left out: a subscription that closes while it is being opened
(`connector.ts:482`), which ends as a `Drop` between `Connect` and `Reported` does, and that
`start` awaits its first `reconcile` before the timer exists, so the model overlaps a
little more than the code.

### SourceReplay (proofs in ConnectionsProofs)

The subscription of one connection: `Since` is the smallest `last_event_created_at`
of its routes, `Ingest` moves one, `feed` is what the relay has still to deliver
for the subscription. Stored events come in any order, and handlers outlive their
session.

### CandidateProbes (with CandidateProbesProofs)

`candidate` is the row, `due` its `next_probe_at`, `queued` the jobs, `throttled`
pg-boss's `singletonSeconds`, `probe` the handlers. `Sight` is `upsertCandidate`
with the caller's wish to enqueue, `Schedule` `claimDueCandidateIds`, `Take`,
`Mark`, `Look` and `Record` the awaits of `processProbeCandidateJob`, `Suppress`
and `Restore` the curator. What the classifier says is a choice among its verdicts.

### SubmissionValidation (with SubmissionValidationProofs)

`row` is `submission_validations.status`; a `pass` walks over its batch
await by await. `Throws` and `Resolve` are the try and catch of one row,
`ResolveFails` the failure the catch ignores, `Poll` is `waitForValidation`. A query
that fails may have had its effect (`Throws`, `ClaimFails`): the claim may have taken its
rows, and a verdict may be on record for which the catch clause then writes "error".

### Nip66Source (proofs in DirectoryProofs)

A run reads pages newest first (`ReadPage`), then the last second of a full page
whole (`ReadBoundary`), ingests and moves the cursor. `Pages` is a relay's answer to
a filter with a limit: when a page must cut a second in two, any cut is allowed.
Reports are published at any time, `late` when a relay gets them a second after
they were dated. A report that replaces an older one of its subject is a report
of its own.

### InviteFreshness (proofs in DirectoryProofs)

One community: its source rows with a code, the time they were last seen and last
observed; the harvested codes; the freshness pass; passes that claim the served code
and record a verdict. `Served` is the directory's choice of a code and `Refreshed`
the freshness pass's.

### RequestReplay (proofs in DirectoryProofs)

`web` is the clock of the process that checks a request's timestamp, `db` the clock
of the statement that remembers its id. They differ by at most `MaxSkew`, and a
verified request waits at most `MaxDelay` for the database: both are assumptions on
the deployment, not code. `Consume` is one statement, whose delete and insert see
the same snapshot.

### Composition

HubRouting decides which endpoint a message has and BridgeDelivery takes it from
there. They share the ingest transaction: BridgeDelivery's `Target` is the one
element of HubRouting's `Destinations` (theorem `SingleDestination` is why one
is enough), and HubRouting's `Deliver` ends a delivery as posted (its parent mapped),
failed or cancelled, whatever its route is by now: BridgeDelivery can post just after a
close and, after an overrun, cancel on an active route.
HubRouting's `Make` and `ProvisionMake` are a whole call of ChannelHandoff: it
returns the channel of its key (theorem `ReturnsHandedOff`), or fails with the
channel made or not. HubRouting's sessions and replays (`Reconcile`, any event at
any time) are what ConnectorSessions and SourceReplay show in detail: HubRouting
allows more than they do, and they add when a session comes back and which event a
cursor hides.

ConnectionsMC and DirectoryMC put parts side by side that share no state. A
behaviour picks a part at its start and runs it alone, so the states are the sum
of the parts' states and each property is checked of its part. Theorems
`ConnectionsParts` and `DirectoryParts` say that such a behaviour is one of each
part's own specification, so what is proved of a part holds of the composition.

## 3. Runs

Definitions named "faulty variant" in the modules are not part of any behaviour
of `Spec`. Each is a definition with one plausible bug; putting it in place of
the definition makes TLC find the property in question violated.

| Run | Instance | Checks |
|---|---|---|
| core | m1 from a to b, m2 follows up under it in the same direction; 2 handlers, retry limit 1, one edit, one fault, one overrun | `TypeOK`, `AtMostOneProjection`, `DeliveredIsOnRelay`, `ClosedRouteRefused`, `HintAtMostOnce`, `ThreadIntegrity`, `OutcomeIsFinal`, `ImplementsPromise` |
| settles | m2 answers m1 from the other side; no overruns, one edit, one fault, fairness | `CompletedIsSettled`, `EventuallySettled` |
| routes | three communities, one message, one `/open`, one settings edit | `TypeOK`, `OneDestination`, `DirectStaysPrivate` |
| commands | two communities, two handlers; an `/open`, a `/close` and a message with a mention, typed at Home; passes, one fault, one move of the inbox | `AnsweredOnce`, `NeverStranded`, `OneRoutePerChannel`, `ClosedStaysClosed` |
| provision | three communities, passes, two faults, one edit, fairness | `EventuallyProvisioned` |
| handoff | one key, two overlapping calls, two owners a roster may name, a guest and one who is also an owner; failures without bound, fairness | `TypeOK`, `NeverOwnerless`, `OneHumanOwner`, `JournalNeverAhead`, `Promotable`, `ReturnedIsHandedOff`, `JournalIsMonotone`, `EventuallyHandedOff` |

| connections | *install*: three installs, two activations. *sessions*: two connections, two calls of `reconcile`, one new configuration, one fault. *replay*: two routes, two posts, three seconds, one loss | `ConnectionsTypeOK`, `ActiveKeyProved`, `PendingIsCurrent`, `SerialNeverLeaks`, `SessionsEventuallyMatch`, `EventuallyIngestedOrOvertaken` |
| directory | *probes*: one candidate, two handlers, two decisions, one break. *submissions*: two rows, two pollers, two mishaps. *reports*: four reports, pages of three, three seconds. *invites*: two source rows, two codes, two writes. *requests*: one event, two requests, windows of 1 and 5 seconds, skew and wait of one | `DirectoryTypeOK`, `ListedOnEvidence`, `VerifiedIsComplete`, `NoReportSkipped`, `ShownIsProbed`, `UsedOnce`, `ProbedAgainAndAgain`, `SettledUnlessLost` |

Bounds. Two handlers are enough for every overlap of two; the proofs cover any
number. A retry limit of 1 has a first and a last run, the two cases `deliver`
distinguishes (the queue has 8). `MaxEdits`, `MaxFaults` and `MaxOverruns` bound
how often owners edit, processes die or queries fail, and handlers outlive their
job; one of each already produces all the races above. Three communities are
needed for a direct channel that is somebody else's. `AnsweredOnce` is checked
with one settings edit only: receipts are kept per endpoint, and an owner who
moves the inbox onto a channel and away again, before an `/open` binds that
channel, changes the endpoint a replayed event is attributed to. `ClosedStaysClosed` says
itself what that means for a close: it allows one reopening answer per receipt. Deadlock is not checked: once every
message is settled and the bounds are spent, the system rests.

Three installs are needed for a loser between two winners, two calls for an
overlap of `reconcile`; the second connection shows that the failure of one does not
keep the other from its session. Two posts
and two routes are the least for one event to hide another, in its own
channel and in the other. Candidates do not interact except in a batch that breaks
off, and `SendFails` loses any part of it, so one is enough. `PageSize` is 3 and
there are four reports: a page can end in the middle of a second, and the second can
still be read whole. The windows of *requests* are the code's 60 and 900 seconds
scaled down to where `WindowsAssumption` is exact (2 + 2 + 1 <= 5): one second
less of retention and an id could be forgotten too early. One pass of
`probe-joinability` is checked, because the rotation of a code already happens
between its two steps; passes that overlap are left to theorem `VerdictOfItsCode`, for any
number of them.

Fairness. pg-boss polls and expires jobs for as long as a worker runs (`Fetch`,
`Expire`), an awaited promise settles (`Run`, `Read`), `reconcile` is on a timer
and passes are on a ten-minute schedule (`Reconcile`, `Provision`). No fairness is assumed of
people or crashes. Weak fairness is enough there: nothing disables these actions
for good once they are enabled. The handoff retries for ever and any attempt may
fail, so its steps get strong fairness: a step tried infinitely often succeeds
once, unless the relay refuses it. In *sessions* calls of `reconcile` and their awaits
end, a backoff ends by the clock, and so does the wait for a silent session to
count as idle; nothing is assumed of sockets. In *replay* the routes are read and
the subscription is closed again and again, because posts are finite and silence
has a session rebuilt; a connect that is tried for ever works once, and a stored
event that is requested for ever is delivered once (strong fairness). In *probes*
the scheduler runs every fifteen minutes and clocks go on; pg-boss hands out a job
some time, although the handlers may be busy each time it looks (strong fairness
of `Take`). In *submissions* the timer fires and awaits end. `EventuallyProvisioned` relies on a handoff
that finishes when it is tried again; run *stuck* shows the one way it does not.

### Disagreements

Four runs end in a counterexample, each to something a comment or document says:

- **exhausted**: when the worker dies or a query fails on the last run of a job, or
  the session is closed while the mark is written and signing throws, the delivery
  stays `retry` or `delivering` for good; nothing reads `next_attempt_at`. The design
  asks for dead letters. The last of the three needs no failure at all; theorem
  `ExhaustedUnsent` says that nothing was published then.
- **overlap**: the pre-publish route check also looks at the row's state, so an
  overlapping handler's retry makes it cancel a delivery whose route is active.
- **off**: a community that switched receiving off still resolves through a
  direct channel of somebody else, and the message is dropped without a notice.

- **stuck**: when the bridge's demotion is stored and its confirmation is lost,
  every resumed call repeats the demotion as a plain member, is refused, and the
  handoff stays `handed_off`; its callers never get the channel.

More behaviours came up while modelling. The models have them, except where they
say otherwise; no run is kept for them:

- A direct channel bound after a delivery takes the reply away from its thread
  (`Destinations` makes no exception for replies), and the reply then fails for
  want of a parent at the other end.
- An event that bounced is delivered by a later replay when the community it
  names has joined or receives again in the meantime.
- Receipts are kept per endpoint. After two moves of the inbox the channel of an event
  may belong to another endpoint than when it was first read; a replay then claims a
  second receipt, so the event is answered twice, and an `/open` can reopen a channel
  that was closed after it.
- Two overlapping calls of `reconcile` connect for the same connection; the second
  one's `sessions.set` drops the first session with its relay open and
  subscribed. `SerialNeverLeaks` says that it takes an overlap. The comment at
  `connector.ts:275-279` counts on a worst case of one wasted reconnect.
- A post is not read again once a later one of its channel has been ingested: after a
  failed ingest, and after a session that is lost in the middle of a replay, which
  comes newest first. `EventuallyIngestedOrOvertaken` says that nothing else hides
  it.
- A submission whose worker dies after the claim stays `processing`, while its author
  was told "verifying", of which `route.ts:86-87` says that "it still finishes in
  the background"; one that ended in an error of ours is answered
  `invite_invalid`. `SettledUnlessLost` says that only a death, a verdict that
  could not be written, or a claim whose answer was lost does it.
- A submission can be told `error` after it was verified: `resolveSubmissionValidation`
  has no guard on the status, so when the write of `valid` is committed and its answer is
  lost, the catch clause (`validate-submissions.ts:143`) overwrites it.
  `VerdictChangesOnlyToError` says that this is the only way a verdict changes.
- The freshness pass looks after the code seen last and the directory serves the one
  observed last; the comments at `presence.ts:184` and `189` call the first one the
  code "the directory currently serves".
- A report that reaches its relay after a run has passed its second is never read.
  More reports in one second than a page holds make every later run fail. A
  relay with a smaller limit of its own looks as if it had no more.
- The `attempts` of an install token never grow past a refusal: the count is
  rolled back with the activation it counted, so the limit of ten is never reached.
- `/open` answers "Opened" although neither insert nor reopen found anything to
  do, when the inbox has been moved to the channel of an `/open` that failed
  part way.

## 4. Proofs

TLAPS proves the following for every value of the constants that satisfies the
assumptions named in the modules: any number of messages, handlers, calls, rows and
keys, any topology, any of the exploration bounds.

| Module | Theorems, besides type correctness and the invariants |
|---|---|
| BridgeDeliveryProofs | `OneProjection`, `DeliveredTruthful`, `RepliesThreaded`, `ClosedRouteSilent`, `OneHint`, `FinalOutcome`; `CompletedSettled`, `ExhaustedUnsent`, `CancelledForItsRoute`; the refinement `DeliveryImplementsPromise` |
| HubRoutingProofs | `SingleDestination`, `Privacy`, `Reachability`, `UnambiguousRoutes`, `ClosesHold`, `AnswersPerEndpoint`, `AnsweredUnlessMoved` |
| ChannelHandoffProofs | `AlwaysOwned`, `SingleOwner`, `JournalTruthful`, `PromotionResumable`, `ReturnsHandedOff`, `HandoffForward`, `StuckForGood` |
| ConnectionInstallProofs | `ActivatedByProof`, `OneUsableToken`, `ActiveStaysActive`, `TokenUsedOnce` |
| ConnectionsProofs | sessions: `NoLeaks`; replay: `OpenMissesNothing`; together: `ConnectionsParts` |
| CandidateProbesProofs | `Evidence` |
| SubmissionValidationProofs | `CompleteWhenVerified`, `NothingForgotten`, `VerdictKept` |
| DirectoryProofs | requests: `SingleUse`; invites: `VerdictOfItsCode`; reports: `CursorPassesNothing`, `CursorAdvances`; together: `DirectoryParts` |

The theorems are about each component's own specification without fairness
(`Spec`, `InstallSpec`, `SessionsSpec`, `ReplaySpec`, `ProbesSpec`,
`SubmissionsSpec`, `SourceSpec`, `InvitesSpec`, `AuthSpec`); a fair behaviour is one of
these, and the *Parts* theorems carry them over to the two compositions the
runs check. Every invariant and every action property of a passing run is the
subject of a theorem.

Assumptions. Most say that a bound is a number, or that what stands for "nothing" is
not one of the things. The ones with content: `HandoffAssumption`, that no roster or
caller names the bridge (`resolveChannelOwner` and `normalizeMembers` leave it out);
`WindowsAssumption`, that retention covers twice the window, twice the skew and the
wait for the database; `ReplayAssumption`, that a subscription has a route (a
connection without one subscribes to no messages).

Three theorems are conditional, because the code promises no more. `CompletedSettled`
and `CancelledForItsRoute` hold as long as no handler has outlived its job
(`spent.overruns = 0`): run *overlap* is the counterexample beyond. `ExhaustedUnsent`
needs besides that no worker died and no query failed (`spent.faults = 0`); what is given
up then is settled, or `delivering` without a signed event and with nothing on the relay.
Run *exhausted* shows a delivery that is not settled. `AnsweredUnlessMoved` holds for at most one settings edit,
see the bounds in section 3; `AnswersPerEndpoint` is what remains for any number.

### Delivery

`AtMostOneProjection` alone is not inductive: the
invariant has to say what each handler holds at each step. `IInv` adds that a handler past
`Persist` holds exactly the persisted event, that a handler about to complete
holds an event the relay accepted, that a persisted reply carries a parent tag valid at its
destination, and that hints are claimed before they are posted. Each action then
preserves each conjunct by what the row's guards (`first signed event wins`,
`state = delivering`, `ON CONFLICT DO NOTHING`) leave possible.

`OwnInv` is about behaviours without overruns. There a handler at work on a message
has its active job in the run it was fetched for, and is the only one (`JobOwned`). That makes the
row follow the handler's own steps: `delivering` from the mark on, settled from the
completion on (`StepsOK`), hence `CompletedIsSettled`. Without faults every active
job also has its handler, and one that rejects has runs left or could not sign
(`FaultlessOK`); without edits every
route is active (`UneditedOK`), so that neither check of `deliver` cancels.

### Routing

`OneDestination` is a fact about the destination
query, for any endpoints of the right type. `NeverStranded` needs besides that a
direct channel never filters (`OpenDirect`): the endpoint an inbox yields to must
let through whatever the inbox would. `OneRoutePerChannel`
needs an invariant that ties an endpoint's binding to the inbox's channel: an
inbox sits on its own channel or on one no direct endpoint is bound to
(`BoundElsewhere`, `OwnInbox`), which `Free` and the guard of `Edit` keep.
`DirectStaysPrivate` needs that a handler that read an event in an inbox still
holds the community the event names, and that a step of a command belongs to an event
with its verb (`ToNamed`). `ClosedStaysClosed` needs that a pass never holds Home itself as
a peer (`PassOK`), and `OnceInv` below: a handler about to reopen holds a receipt that
nobody has answered.

`OnceInv` counts. The answers to an event are at most as many as the endpoints
that hold a receipt for it and whose handler has already let go of it (`AnswersOK`),
and there is one row per event and source (`RowsOK`): both are what the primary
keys of receipts and messages give. They bound answers per endpoint. That there
is one endpoint is `HeldOK`: until the second edit, a channel is either bound to its own
direct endpoint or holds the inbox that was moved there, so a session, a
handler, a receipt and a row all name the one endpoint that channel can have.

### Handoff

What happened is written down three times, on the
relay, in the journal and in each call's copy, and the invariant orders them:
a copy is its row, at most behind it (`Copies`); what a call is about to journal
is on the relay (`Confirmed`); the journal is not ahead of the relay
(`JournalNeverAhead`), and while it says `creating` or `created` the bridge has
not stepped down (`Promotable`), because only a call whose copy says
`handed_off` demotes. `NeverOwnerless` follows by cases on the journal's state.
`StuckForGood` turns this around: with the journal at `handed_off`, the bridge
demoted and no call left that knows it, nothing but `Demote` could move the key on, and
the relay takes that from an owner only. Run *stuck* finds such a state; the theorem says
that no retry leaves it.

### Installs

`ActiveKeyProved` and `PendingIsCurrent` need each
other: an activation that consumes a token has to know that no other token becomes
usable, and an install that commits that no activation is about to consume the one it
expires. `TokenLocks` ties both to the row locks: a token that is being consumed is
pending, is consumed by one activation, and is in no set an install has passed its
update with. `RoundTripDone` carries the round trip to the activation. `FinalInv` is
what the locks keep apart: one install has upserted, and not over an active
row (`LinkHeld`), and the tokens installs hold are pending and disjoint
(`HeldTokens`). So an active connection and a token that was used up do not change.

### Sessions and replay

`SerialNeverLeaks` follows from what one call alone finds:
at most one is busy (`OneCall`), the connection it connects for has no entry, and the
one it reports for has its own or none (`OwnEntry`), so `sessions.set` drops
nothing and the catch clause closes what it drops.

`EventuallyIngestedOrOvertaken` is liveness; what it rests on is proved. No
cursor is behind the `since` of the open subscription (`GoesBack`), and while nothing was
lost, a post not older than that is on its way or ingested (`Arrives`). A post that is
neither is older than `since`, hence than the cursor of its own channel.

### Candidates and submissions

`ListedOnEvidence` is inductive with the types: only
`Record` verifies, and it writes the snapshot in the same transaction and looks at
the row's own state, not the one its handler read. `PassKeepsUp` says for each
position of a pass what is
on record for its row; a row becomes `valid` from the last position only.
`RowsAccounted` is the account of the claimed rows: each is with exactly one pass or in
`lost`, and the only row of a pass that is no longer `processing` is the one whose verdict
was committed unheard (`Unheard`). It needs nothing but `SKIP LOCKED`, which `Batch` stands
for, and gives `VerdictChangesOnlyToError`: no other pass touches a verdict, and a lost row
gets none.

### Invites, reports, requests

A verdict passes through two hands, the pass that claimed a code and the record.
`InvitesInv` says of both that they hold a verdict of the code it is stored
with (`PassIsProbed`, `VerdictIsProbed`); a rotation in between changes the code of the row and
not that of the verdict.

`NoReportSkipped` speaks of the cursor between runs. `NothingPassed` says what a run
owes: of the reports that are still outstanding and not read, those outside the part of the
interval that is left are at least as new as everything read. Pages keep
this because what a full page leaves out is not newer than its oldest
report, and the boundary read takes that second whole; and then the newest report
read is a cursor that passes none.

An event is *gone* when the web clock is
past `createdAt + Window + MaxDelay`: nobody can verify it, and no verified request
with it can still be waiting. An accepted event is remembered or gone (`Once`),
because no id was remembered before `createdAt - Window - MaxSkew`
(`Remembered`), the clocks differ by the skew (`Skew`), and the retention covers the
difference: this is where `2 * Window + 2 * MaxSkew + MaxDelay <= Retention` comes
from. With the code's 60 and 900 seconds it leaves 780 for skew and waiting.

### Model-checked only

The liveness properties `EventuallySettled`,
`EventuallyProvisioned`, `EventuallyHandedOff`, `SessionsEventuallyMatch`,
`EventuallyIngestedOrOvertaken`, `ProbedAgainAndAgain` and `SettledUnlessLost`: they
rest on fairness, whose ENABLED the prover does not handle. For three of them the safety
side is proved (`CompletedSettled`, `OpenMissesNothing`, `NothingForgotten`). The
counterexamples of the four runs of section 3 are TLC's.

## 5. Not modelled

Within the modelled parts: signing and encryption of keys, text of messages and
notices, profile names, health columns (written and never read), the state columns
of channels and communities that only operators change, `/list` and usage replies
(they claim a receipt and answer), the limits of batches (ten peers per pass, a
hundred due candidates), the bilateral channels that a migration removed, a settings
edit that moves the inbox while a delivery is pending, the order in which one source
reads its relays and monitors, and the search for a code in a message.

Parts without a module, and why:

- **Home membership reconciliation, local channel discovery**: relay reads and
  idempotent relay writes; the relay's roster is the only state.
- **Joining handshake**: claim, accept the terms, claim again, in sequence; a
  handshake that stops half way starts over. Its outcome is a choice in
  SubmissionValidation.
- **Owner sessions, review and funnel queries**: single statements.
- **Rate limits**: lists of times in memory, judged and updated in one synchronous
  call. Its `retryAfterSeconds` is the shortest of the waits, so a client that
  obeys it may be refused again.
- **Relay probing, other discovery sources, presence reading, summaries**: network
  I/O, text extraction and calls of a language model. What they decide (a verdict, a
  sighting, a code) is a choice in the modules that use it.
- **Ranking, eligibility, addressing grammar**: pure functions of one input, scores in
  floating point; their unit tests reach them.
- **Pages, scripts, deployment, and the vendored tool under `.agents/`**: rendering
  and tooling without state of the service. The last one is about half of the
  lines of the repository and not part of the program.

What a continuation would take up first: endpoints of BridgeDelivery with a channel,
so that an inbox can move while a delivery is pending; the limit of ten peers per
pass against keys that never complete.
