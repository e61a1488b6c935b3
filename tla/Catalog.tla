--------------------------------- MODULE Catalog ---------------------------------
(***************************************************************************)
(* The catalog: an index over the bundles of all meetings                  *)
(* (pipeline/src/narumi/catalog/db.py and the handlers that write and read *)
(* it).                                                                    *)
(*                                                                         *)
(* A writer saves the manifest first and refreshes the rows of its meeting *)
(* after, under the write lock of the meeting; the words are indexed when  *)
(* a job succeeded.  A rebuild takes no such lock: it empties the derived  *)
(* tables and fills them meeting by meeting, while writers go on.  Each    *)
(* transaction of the database is one step.  Jobs and the log of what was  *)
(* done are not derived, and stay.                                         *)
(*                                                                         *)
(* Names, times and the order of the hits are left out.                    *)
(***************************************************************************)
EXTENDS Integers, FiniteSets

CONSTANTS
  Meeting,    \* the ids that meetings may have
  Scope,      \* names of scopes
  Word,       \* what merged transcripts are told apart by
  MaxEvents   \* bound on writes, reads, rebuilds and crashes

CatalogAssumption == MaxEvents \in Nat

Unscoped == "unscoped"
Absent == [status |-> "absent"]
Trashed == [status |-> "trashed"]
NoWord == "none"
NoMeeting == "none"

VARIABLES
  bundle,   \* the bundles: meeting |-> manifest, or Absent
  words,    \* ... and their merged/merged.json
  rows,     \* table meetings
  entries,  \* tables exports and contexts: meeting |-> ids
  found,    \* table segments_fts: meeting |-> words
  jobRow,   \* table jobs: the newest of each meeting
  logged,   \* table audit_log
  writer,   \* what holds the write lock of each meeting
  rebuild,  \* the rebuild that goes on
  doubted,  \* meetings whose rows, or words, a crash or a rebuild left behind
  told,     \* history: what was done and returned to a caller
  events

cvars == <<bundle, words, rows, entries, found, jobRow, logged, writer, rebuild, doubted, told,
           events>>
files == <<bundle, words>>
derived == <<rows, entries, found>>

Free == [pc |-> "free"]
Resting == [pc |-> "rest"]
At(m, pc) == writer[m].pc = pc
Present(m) == bundle[m] \notin {Absent, Trashed}
ActiveJob(m) == jobRow[m] \in {"queued", "running"}

NewManifest == [scope |-> Unscoped, status |-> "recorded", listed |-> {}]

Init ==
  /\ bundle = [m \in Meeting |-> Absent] /\ words = [m \in Meeting |-> NoWord]
  /\ rows = bundle /\ entries = [m \in Meeting |-> {}] /\ found = words
  /\ jobRow = [m \in Meeting |-> "none"] /\ logged = {} /\ told = {}
  /\ writer = [m \in Meeting |-> Free] /\ rebuild = Resting
  /\ doubted = [rows |-> {}, words |-> {}] /\ events = 0

Event == events < MaxEvents /\ events' = events + 1
Goto(m, pc) == writer' = [writer EXCEPT ![m].pc = pc]

\* A file of m changes while a rebuild holds what it was: it will be stale.
Notice(m) ==
  rebuild' = IF rebuild.pc \in {"upsert", "insert"} /\ rebuild.of = m
             THEN [rebuild EXCEPT !.raced = TRUE] ELSE rebuild
Doubt(rowsOf, wordsOf) ==
  doubted' = [rows |-> doubted.rows \cup rowsOf, words |-> doubted.words \cup wordsOf]
Trust(rowsOf, wordsOf) ==
  doubted' = [rows |-> doubted.rows \ rowsOf, words |-> doubted.words \ wordsOf]

-----------------------------------------------------------------------------
(* Writers, under the lock of the meeting *)

\* locked_bundle: not while a job is accepted.
MayWrite(m) == At(m, "free") /\ Present(m) /\ ~ActiveJob(m)

Save(m, manifest) == bundle' = [bundle EXCEPT ![m] = manifest] /\ Notice(m)

Create(m) == \* a recording or an import
  /\ At(m, "free") /\ bundle[m] = Absent /\ Event
  /\ Save(m, NewManifest)
  /\ writer' = [writer EXCEPT ![m] = [pc |-> "sync", next |-> "return",
                                      event |-> <<"create", m, events>>]]
  /\ UNCHANGED <<words, derived, jobRow, logged, doubted, told>>

SetScope(m, scope) ==
  /\ MayWrite(m) /\ Event /\ Save(m, [bundle[m] EXCEPT !.scope = scope])
  /\ writer' = [writer EXCEPT ![m] = [pc |-> "sync", next |-> "log",
                                      event |-> <<"scope", m, events>>]]
  /\ UNCHANGED <<words, derived, jobRow, logged, doubted, told>>

\* perform_export, _register_context: an entry in the manifest, inserted once
\* more after the rows were refreshed.
AddEntry(m) ==
  /\ MayWrite(m) /\ Event /\ Save(m, [bundle[m] EXCEPT !.listed = @ \cup {events}])
  /\ writer' = [writer EXCEPT ![m] = [pc |-> "sync", next |-> "entry",
                                      event |-> <<"entry", m, events>>]]
  /\ UNCHANGED <<words, derived, jobRow, logged, doubted, told>>

\* upsert_meeting: one transaction.
SyncCatalog(m) ==
  /\ At(m, "sync") /\ Goto(m, writer[m].next)
  /\ rows' = [rows EXCEPT ![m] = bundle[m]]
  /\ entries' = [entries EXCEPT ![m] = bundle[m].listed]
  /\ Trust({m}, {})
  /\ UNCHANGED <<files, found, jobRow, logged, rebuild, told, events>>

RecordEntry(m) == \* record_export, record_context
  /\ At(m, "entry") /\ Goto(m, "log")
  /\ entries' = [entries EXCEPT ![m] = @ \cup {writer[m].event[3]}]
  /\ UNCHANGED <<files, rows, found, jobRow, logged, rebuild, doubted, told, events>>

Audit(m) ==
  /\ At(m, "log") /\ Goto(m, "return") /\ logged' = logged \cup {writer[m].event}
  /\ UNCHANGED <<files, derived, jobRow, rebuild, doubted, told, events>>

Return(m) ==
  /\ At(m, "return") /\ writer' = [writer EXCEPT ![m] = Free]
  /\ told' = IF writer[m].event[1] = "create" THEN told ELSE told \cup {writer[m].event}
  /\ UNCHANGED <<files, derived, jobRow, logged, rebuild, doubted, events>>

\* The bundle goes to the trash, then its rows.
DeleteMeeting(m) ==
  /\ MayWrite(m) /\ Event /\ Save(m, Trashed) /\ words' = [words EXCEPT ![m] = NoWord]
  /\ writer' = [writer EXCEPT ![m] = [pc |-> "unlist", event |-> <<"delete", m, events>>]]
  /\ UNCHANGED <<derived, jobRow, logged, doubted, told>>

UnlistRows(m) ==  \* a plausible bug: the words of a deleted meeting stay
  /\ At(m, "unlist") /\ Goto(m, "log")
  /\ rows' = [rows EXCEPT ![m] = Absent] /\ entries' = [entries EXCEPT ![m] = {}]
  /\ Trust({m}, {m})
  /\ UNCHANGED <<files, found, jobRow, logged, rebuild, told, events>>

Unlist(m) ==
  /\ At(m, "unlist") /\ Goto(m, "log")
  /\ rows' = [rows EXCEPT ![m] = Absent] /\ entries' = [entries EXCEPT ![m] = {}]
  /\ found' = [found EXCEPT ![m] = NoWord] /\ Trust({m}, {m})
  /\ UNCHANGED <<files, jobRow, logged, rebuild, told, events>>

-----------------------------------------------------------------------------
(* Jobs *)

CreateJob(m) ==
  /\ MayWrite(m) /\ Event /\ jobRow' = [jobRow EXCEPT ![m] = "queued"]
  /\ UNCHANGED <<files, derived, logged, writer, rebuild, doubted, told>>

\* run_pipeline_job: the status is `processing' meanwhile.
StartJob(m) ==
  /\ jobRow[m] = "queued" /\ At(m, "free")
  /\ jobRow' = [jobRow EXCEPT ![m] = "running"]
  /\ Save(m, [bundle[m] EXCEPT !.status = "processing"])
  /\ writer' = [writer EXCEPT ![m] = [pc |-> "sync", next |-> "stage",
                                      before |-> bundle[m].status]]
  /\ UNCHANGED <<words, derived, logged, doubted, told, events>>

StageMerges(m, w) ==
  /\ At(m, "stage") /\ words[m] # w /\ words' = [words EXCEPT ![m] = w]
  /\ Notice(m) /\ Doubt({}, {m})
  /\ UNCHANGED <<bundle, derived, jobRow, logged, writer, told, events>>

\* Success, failure, or a cancellation, which restores the status.
StageEnds(m) ==
  /\ At(m, "stage")
  /\ \E end \in {<<"ready", "index">>, <<"failed", "ended">>, <<writer[m].before, "ended">>} :
       /\ Save(m, [bundle[m] EXCEPT !.status = end[1]])
       /\ writer' = [writer EXCEPT ![m] = [pc |-> "sync", next |-> end[2]]]
  /\ UNCHANGED <<words, derived, jobRow, logged, doubted, told, events>>

IndexSegments(m) ==
  /\ At(m, "index") /\ Goto(m, "ended")
  /\ found' = [found EXCEPT ![m] = words[m]] /\ Trust({}, {m})
  /\ UNCHANGED <<files, rows, entries, jobRow, logged, rebuild, told, events>>

EndJob(m) == \* the lock first, then the row
  /\ At(m, "ended") /\ writer' = [writer EXCEPT ![m] = Free]
  /\ jobRow' = [jobRow EXCEPT ![m] = "done"]
  /\ UNCHANGED <<files, derived, logged, rebuild, doubted, told, events>>

-----------------------------------------------------------------------------
(* Rebuild, which holds no lock *)

Todo == IF rebuild.pc = "rest" THEN {} ELSE rebuild.todo
Held(pcs) == IF rebuild.pc \in pcs THEN {rebuild.of} ELSE {}
NoRows == [m \in Meeting |-> Absent]

\* The tables are dropped, and the directory of the meetings is read.
StartRebuild ==
  /\ rebuild = Resting /\ Event
  /\ rows' = NoRows /\ entries' = [m \in Meeting |-> {}] /\ found' = [m \in Meeting |-> NoWord]
  /\ rebuild' = [pc |-> "open", todo |-> {m \in Meeting : Present(m)}, n |-> events]
  /\ UNCHANGED <<files, jobRow, logged, writer, doubted, told>>

OpenBundle(m) ==
  /\ rebuild.pc = "open" /\ m \in rebuild.todo
  /\ rebuild' = IF Present(m)
                THEN [pc |-> "upsert", todo |-> rebuild.todo \ {m}, n |-> rebuild.n,
                      of |-> m, manifest |-> bundle[m], raced |-> FALSE]
                ELSE [rebuild EXCEPT !.todo = @ \ {m}]
  /\ UNCHANGED <<files, derived, jobRow, logged, writer, doubted, told, events>>

UpsertOpened ==
  /\ rebuild.pc = "upsert"
  /\ rows' = [rows EXCEPT ![rebuild.of] = rebuild.manifest]
  /\ entries' = [entries EXCEPT ![rebuild.of] = rebuild.manifest.listed]
  /\ IF rebuild.raced THEN Doubt({rebuild.of}, {}) ELSE Trust({rebuild.of}, {})
  /\ rebuild' = [pc |-> "load", todo |-> rebuild.todo, n |-> rebuild.n, of |-> rebuild.of]
  /\ UNCHANGED <<files, found, jobRow, logged, writer, told, events>>

LoadMerged ==
  /\ rebuild.pc = "load"
  /\ rebuild' = [pc |-> "insert", todo |-> rebuild.todo, n |-> rebuild.n, of |-> rebuild.of,
                 words |-> words[rebuild.of], raced |-> FALSE]
  /\ UNCHANGED <<files, derived, jobRow, logged, writer, doubted, told, events>>

InsertSegments ==
  /\ rebuild.pc = "insert" /\ found' = [found EXCEPT ![rebuild.of] = rebuild.words]
  /\ IF rebuild.raced THEN Doubt({}, {rebuild.of}) ELSE Trust({}, {rebuild.of})
  /\ rebuild' = [pc |-> "open", todo |-> rebuild.todo, n |-> rebuild.n]
  /\ UNCHANGED <<files, rows, entries, jobRow, logged, writer, told, events>>

\* A bundle that cannot be read is reported and skipped.
SkipBroken ==
  /\ rebuild.pc \in {"upsert", "load"}
  /\ Doubt(Held({"upsert"}), {rebuild.of})
  /\ rebuild' = [pc |-> "open", todo |-> rebuild.todo, n |-> rebuild.n]
  /\ UNCHANGED <<files, derived, jobRow, logged, writer, told, events>>

EndRebuild ==
  /\ rebuild.pc = "open" /\ rebuild.todo = {} /\ rebuild' = Resting
  /\ logged' = logged \cup {<<"rebuild", NoMeeting, rebuild.n>>}
  /\ told' = told \cup {<<"rebuild", NoMeeting, rebuild.n>>}
  /\ UNCHANGED <<files, derived, jobRow, writer, doubted, events>>

-----------------------------------------------------------------------------
(* Readers *)

\* normalize_scope, check_scope and _scope_clause.
Covers(requested, scope) == scope = Unscoped \/ scope \in requested

\* list_meetings, by words that were said or any; search_segments.
Listed(requested, said) ==
  {m \in Meeting : /\ rows[m] # Absent /\ Covers(requested, rows[m].scope)
                   /\ said = NoWord \/ found[m] = said}
Hits(requested, said) == {m \in Listed(requested, NoWord) : found[m] = said}

\* A request for several scopes is logged before it is answered.
ReadAcrossScopes(requested) ==
  /\ Cardinality(requested) >= 2 /\ Event
  /\ logged' = logged \cup {<<"read", NoMeeting, events>>}
  /\ told' = told \cup {<<"read", NoMeeting, events>>}
  /\ UNCHANGED <<files, derived, jobRow, writer, rebuild, doubted>>

-----------------------------------------------------------------------------
(* The server is killed, and started again: mark_stale_jobs *)

Unsynced(m) == writer[m].pc \in {"sync", "unlist"}

\* The job rows that a start leaves of those it finds.
Restarted(m) == IF ActiveJob(m) THEN "failed" ELSE jobRow[m]

Crash ==
  /\ Event
  /\ Doubt({m \in Meeting : Unsynced(m)} \cup Todo \cup Held({"upsert"}),
           {m \in Meeting : At(m, "unlist")} \cup Todo \cup Held({"upsert", "load", "insert"}))
  /\ writer' = [m \in Meeting |-> Free] /\ rebuild' = Resting
  /\ jobRow' = [m \in Meeting |-> Restarted(m)]
  /\ UNCHANGED <<files, derived, logged, told>>

WriterStep(m) ==
  \/ SyncCatalog(m) \/ RecordEntry(m) \/ Audit(m) \/ Return(m) \/ Unlist(m)
  \/ StartJob(m) \/ StageEnds(m) \/ IndexSegments(m) \/ EndJob(m)
  \/ \E w \in Word : StageMerges(m, w)

RebuildStep ==
  \/ \E m \in Meeting : OpenBundle(m)
  \/ UpsertOpened \/ LoadMerged \/ InsertSegments \/ SkipBroken \/ EndRebuild

Next ==
  \/ \E m \in Meeting : \/ Create(m) \/ AddEntry(m) \/ DeleteMeeting(m) \/ CreateJob(m)
                        \/ \E s \in Scope \cup {Unscoped} : SetScope(m, s)
                        \/ WriterStep(m)
  \/ StartRebuild \/ RebuildStep \/ Crash
  \/ \E requested \in SUBSET Scope : ReadAcrossScopes(requested)

Spec == Init /\ [][Next]_cvars

-----------------------------------------------------------------------------
(* Properties *)

\* Types.
TypeOK ==
  /\ words \in [Meeting -> Word \cup {NoWord}] /\ found \in [Meeting -> Word \cup {NoWord}]
  /\ \A m \in Meeting : Present(m) => bundle[m].scope \in Scope \cup {Unscoped}
  /\ entries \in [Meeting -> SUBSET (0 .. MaxEvents)]
  /\ jobRow \in [Meeting -> {"none", "queued", "running", "done", "failed"}]
  /\ doubted \in [rows : SUBSET Meeting, words : SUBSET Meeting] /\ events \in 0 .. MaxEvents

\* "The bundle on disk is the source of truth; this database is a derived
\* index": once its writer refreshed the rows and a rebuild is past it, the
\* list, with its status, exports and contexts, says of a meeting what its
\* manifest says, whatever rebuilds, writers and crashes went before; unless a
\* crash came between a save and its rows, or a rebuild wrote back a manifest
\* that was saved again meanwhile.
RowsMirrorBundles ==
  \A m \in Meeting \ (doubted.rows \cup Todo \cup Held({"upsert"})) :
    ~Unsynced(m) => /\ rows[m] = IF Present(m) THEN bundle[m] ELSE Absent
                    /\ Present(m) => entries[m] = bundle[m].listed

\* The same of the words that a search finds, which are those of the last job
\* that succeeded: later ones, of a job that failed, wait for the next.
SearchFindsTheWords ==
  \A m \in Meeting \ (doubted.words \cup Todo \cup Held({"upsert", "load", "insert"})) :
    ~At(m, "unlist") => found[m] = words[m]

\* A scope that the request does not name is never listed nor searched, and no
\* meeting that it names is missed; by the scope of the manifest, not of the row.
ReadsFollowTheManifest ==
  \A m \in Meeting \ (doubted.rows \cup doubted.words \cup Todo
                        \cup Held({"upsert", "load", "insert"})) :
    ~Unsynced(m) => \A requested \in SUBSET Scope, w \in Word :
      (m \in Hits(requested, w)) <=>
        (Present(m) /\ Covers(requested, bundle[m].scope) /\ words[m] = w)

\* "the audit log in particular must survive a rebuild": whatever was done and
\* told to a caller is in it.
ToldIsLogged == told \subseteq logged

\* All of these, checked together.
CatalogSafe ==
  /\ RowsMirrorBundles /\ SearchFindsTheWords /\ ReadsFollowTheManifest /\ ToldIsLogged
=============================================================================
