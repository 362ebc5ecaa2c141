---------------------------- MODULE Nip66Source ----------------------------
(***************************************************************************)
(* The NIP-66 source (src/src/sources/nip66.ts): a run reads the reports   *)
(* of a monitor since its cursor, newest page first, ingests them and      *)
(* moves the cursor to the newest one (src/src/db/source-state.ts).  New   *)
(* reports arrive between two pages.  An advisory lock keeps runs apart    *)
(* (src/src/jobs/source-workers.ts withSourceLock).                        *)
(*                                                                         *)
(* One source relay and one monitor: a run reads the pairs one after       *)
(* another and shares nothing between them but the cursor.                 *)
(***************************************************************************)
EXTENDS Naturals, FiniteSets

CONSTANTS
    Reports,        \* kind 30166 events of an allowlisted monitor
    PageSize,       \* QUERY_PAGE_SIZE
    MaxNow          \* bound: the clock

ASSUME PageSizeAssumption == PageSize \in Nat \ {0}
ASSUME NowAssumption == MaxNow \in Nat \ {0}

VARIABLES
    now,            \* the clock, in seconds
    published,      \* [at, late]: at is created_at, late if the relay got it afterwards
    sourceCursor,   \* discovery_source_state.cursor.since
    run,            \* [at, since, until, read]
    upserted        \* reports upserted as candidates, or rejected for good

nip66Vars == <<now, published, sourceCursor, run, upserted>>

Unpublished == [at |-> 0, late |-> FALSE]
NoRun == [at |-> "idle", since |-> 0, until |-> 0, read |-> {}]

Published == {r \in Reports : published[r] # Unpublished}

SourceInit ==
    /\ now = 1
    /\ published = [r \in Reports |-> Unpublished]
    /\ sourceCursor = 1
    /\ run = NoRun
    /\ upserted = {}

Tick ==
    /\ now < MaxNow
    /\ now' = now + 1
    /\ UNCHANGED <<published, sourceCursor, run, upserted>>

\* A report reaches the relay when it is made, or a second later.
Publish(r) ==
    /\ r \notin Published
    /\ \/ published' = [published EXCEPT ![r] = [at |-> now, late |-> FALSE]]
       \/ now > 1 /\ published' = [published EXCEPT ![r] = [at |-> now - 1, late |-> TRUE]]
    /\ UNCHANGED <<now, sourceCursor, run, upserted>>

-----------------------------------------------------------------------------
(* queryNip66Events                                                        *)

Between(since, until) == {r \in Published : published[r].at \in since..until}

\* The relay answers with the newest reports there are, as many as the limit.
Pages(since, until) ==
    LET all == Between(since, until)
    IN  IF Cardinality(all) <= PageSize THEN {all}
        ELSE {page \in SUBSET all :
                /\ Cardinality(page) = PageSize
                /\ \A r \in page, s \in all \ page : published[s].at <= published[r].at}

Oldest(page) == CHOOSE t \in {published[r].at : r \in page} :
                    \A r \in page : t <= published[r].at

StartRun ==
    /\ run = NoRun
    /\ run' = [at |-> "paging", since |-> sourceCursor, until |-> now, read |-> {}]
    /\ UNCHANGED <<now, published, sourceCursor, upserted>>

\* Faulty variant: the next page begins before the second that the last one ended in.
ReadPageOnly ==
    /\ run.at = "paging"
    /\ \E page \in Pages(run.since, run.until) :
          LET last == Cardinality(page) < PageSize
              oldest == Oldest(page)
          IN  run' = [at |-> IF last \/ oldest <= run.since THEN "ingesting" ELSE "paging",
                      since |-> run.since,
                      until |-> IF last THEN run.until ELSE oldest - 1,
                      read |-> run.read \cup page]
    /\ UNCHANGED <<now, published, sourceCursor, upserted>>

\* A short page is the last one.  After a full one its last second is read whole.
ReadPage ==
    /\ run.at = "paging"
    /\ \E page \in Pages(run.since, run.until) :
          run' = IF Cardinality(page) < PageSize
                 THEN [run EXCEPT !.at = "ingesting", !.read = @ \cup page]
                 ELSE [run EXCEPT !.at = "boundary", !.read = @ \cup page, !.until = Oldest(page)]
    /\ UNCHANGED <<now, published, sourceCursor, upserted>>

\* Too many reports in one second: the run fails, and so will the next ones.
ReadBoundary ==
    LET second == Between(run.until, run.until)
    IN  /\ run.at = "boundary"
        /\ run' = IF Cardinality(second) >= PageSize THEN NoRun
                  ELSE [at |-> IF run.until <= run.since THEN "ingesting" ELSE "paging",
                        since |-> run.since,
                        until |-> run.until - 1,
                        read |-> run.read \cup second]
        /\ UNCHANGED <<now, published, sourceCursor, upserted>>

-----------------------------------------------------------------------------
(* runNip66Source, when all pages are read                                 *)

IngestReport(r) ==
    /\ run.at = "ingesting" /\ r \in run.read \ upserted
    /\ upserted' = upserted \cup {r}
    /\ UNCHANGED <<now, published, sourceCursor, run>>

\* The newest report read, and not one second more: that second may not be over.
RecordSuccess ==
    /\ run.at = "ingesting" /\ run.read \subseteq upserted
    /\ sourceCursor' = IF run.read = {} THEN run.since
                 ELSE CHOOSE t \in {published[r].at : r \in run.read} :
                          \A r \in run.read : published[r].at <= t
    /\ run' = NoRun
    /\ UNCHANGED <<now, published, upserted>>

\* A relay, a query or the worker fails: the cursor stays.
Fail ==
    /\ run # NoRun
    /\ run' = NoRun
    /\ UNCHANGED <<now, published, sourceCursor, upserted>>

SourceNext ==
    \/ Tick \/ StartRun \/ ReadPage \/ ReadBoundary \/ RecordSuccess \/ Fail
    \/ \E r \in Reports : Publish(r) \/ IngestReport(r)

SourceSpec == SourceInit /\ [][SourceNext]_nip66Vars

-----------------------------------------------------------------------------

SourceTypeOK ==
    /\ now \in 1..MaxNow
    /\ published \in [Reports -> [at: 0..MaxNow, late: BOOLEAN]]
    /\ sourceCursor \in 1..MaxNow
    /\ run \in [at: {"idle", "paging", "boundary", "ingesting"}, since: 0..MaxNow,
                until: 0..MaxNow, read: SUBSET Reports]
    /\ upserted \subseteq Published

(* The cursor never passes a report that the relay had in time: it is      *)
(* ingested, or the next run reads it.  Pages that are cut in the middle   *)
(* of a second, reports that arrive while a run is reading or later in the *)
(* second of the cursor, and runs that fail half way lose none.            *)
NoReportSkipped ==
    \A r \in Published : published[r].late \/ r \in upserted \/ published[r].at >= sourceCursor

=============================================================================
