-------------------------- MODULE ProviderRegistry --------------------------
(***************************************************************************)
(* The registry of connections of one API-key provider                     *)
(* (pipeline/src/narumi/providers: store.py, connections.py, catalog.py,   *)
(* generation.py, transcription.py, _requests.py, service.py).             *)
(*                                                                         *)
(* registry.json changes in transactions that hold a lock on it; the       *)
(* Keychain and the provider are outside.  An operation that waits for the *)
(* provider ends its transaction first and leaves a check, the provider's  *)
(* lease, in the registry; it takes the lease away in a second transaction *)
(* and trusts what it saw before only if the record is the same.  A swap   *)
(* of a credential stays inside one transaction and commits what it is     *)
(* about to do before it touches the Keychain.  The server may die between *)
(* any two steps; the next one repairs what the registry says.             *)
(*                                                                         *)
(* An account name is fresh in each update, so the update's request stands *)
(* for it.  Providers that sign in instead are in ProviderSignIn.          *)
(***************************************************************************)
EXTENDS Integers, FiniteSets

CONSTANTS
  Connection,
  KeyValue,   \* API keys
  MaxRequests, \* bound on the requests; each names the account it creates
  Task,       \* threads that wait for the provider
  None,
  MaxLeases,  \* bound on the leases taken
  MaxFaults,  \* bound on the stores' failures
  MaxBoots    \* bound on the server's starts

RequestId == 1 .. MaxRequests
Operation == {"metadata", "model_verification", "generation", "transcription"}

(* What the registry, a task, a swap and a selection hold; None where there *)
(* is nothing.                                                              *)
RecordType ==
  [revision : Nat, enabled : BOOLEAN, account : RequestId \cup {None},
   pending : SUBSET RequestId,
   auth : {"unconfigured", "unverified", "authenticated", "failed"},
   listed : {"unfetched", "ready", "stale", "failed", "authentication_required"},
   generated : {"never", "unknown", "succeeded", "failed", "cancelled"}]
CatalogType == [revision : Nat, verified : RequestId \cup {None}]
LeaseType == [token : Nat, boot : Nat, connection : Connection, kind : Operation]
ReceiptType == [state : {"pending", "succeeded", "failed", "unknown"}, boot : Nat,
                spends : KeyValue \cup {None}]
TaskType == [kind : Operation, connection : Connection, revision : Nat,
             account : RequestId \cup {None}, token : Nat,
             request : RequestId \cup {None}, sent : BOOLEAN]
SwapType == [connection : Connection, request : RequestId, value : KeyValue \cup {None},
             left : SUBSET RequestId, stored : BOOLEAN, deleting : BOOLEAN]
SelectionType == [connection : Connection, revision : Nat]

RegistryAssumption ==
  /\ None \notin Connection \cup KeyValue \cup Nat
  /\ None \notin RecordType /\ None \notin CatalogType /\ None \notin LeaseType
  /\ None \notin ReceiptType /\ None \notin TaskType /\ None \notin SwapType
  /\ None \notin SelectionType
  /\ MaxRequests \in Nat /\ MaxLeases \in Nat /\ MaxFaults \in Nat /\ MaxBoots \in Nat \ {0}

VARIABLES
  (* registry.json *)
  record,     \* of a connection
  catalog,    \* its cached models: the revision they were listed for, and
              \* the account with which the paid probe passed
  check,      \* the provider's lease
  receipt,    \* of a request: state, server and the key a probe spends
  (* other stores *)
  keychain,   \* the key an account holds
  selection,  \* the model selection some meeting or profile has saved
  (* the server process *)
  mode,       \* "up", "closing", "down", or the steps of a start
  boot,       \* server_instance_id
  swap,       \* the credential swap that holds the registry's lock
  task,       \* what a thread waits for
  remembered, \* _FAILED_RELEASES: the lease whose release failed
  stale,      \* pending accounts the start still has to delete
  (* observation and bounds *)
  unsettled,  \* probes sent whose outcome nobody knows
  leases, faults

registry == <<record, catalog, check, receipt>>
process == <<mode, boot, swap, task, remembered, stale>>
rvars == <<registry, keychain, selection, process, unsettled, leases, faults>>

Present == {c \in Connection : record[c] # None}
Accounts(c) == record[c].pending \cup ({record[c].account} \ {None})

Init ==
  /\ record = [c \in Connection |-> None]
  /\ catalog = [c \in Connection |-> None]
  /\ check = None
  /\ receipt = [r \in RequestId |-> None]
  /\ keychain = [r \in RequestId |-> None]
  /\ selection = None
  /\ mode = "up" /\ boot = 1
  /\ swap = None
  /\ task = [t \in Task |-> None]
  /\ remembered = None
  /\ stale = [c \in Connection |-> {}]
  /\ unsettled = {}
  /\ leases = 0 /\ faults = 0

-----------------------------------------------------------------------------
(* Transactions and the helpers of _common.py *)

\* A transaction can begin: the process runs and nobody holds the lock.
Unlocked == mode \in {"up", "closing"} /\ swap = None
Serving == mode = "up" /\ swap = None

\* check_provider_idle; "recovering" is the connection whose credential the
\* caller is about to replace or delete.
ProviderIdle(recovering) ==
  /\ check = None
  /\ \A c \in Present : record[c].pending # {} => c = recovering

Invalidated(rec) ==
  [rec EXCEPT !.listed = "unfetched",
              !.auth = IF rec.account = None THEN "unconfigured" ELSE "unverified"]

\* RequestId identifiers are taken in order; a repeated one only replays.
Fresh(r) == \A q \in RequestId : q < r <=> receipt[q] # None

Accept(r, state, value) ==
  receipt' = [receipt EXCEPT ![r] = [state |-> state, boot |-> boot, spends |-> value]]

Settle(r, state) == receipt' = [receipt EXCEPT ![r].state = state]

TakeLease(c, kind) ==
  /\ leases < MaxLeases
  /\ leases' = leases + 1
  /\ check' = [token |-> leases', boot |-> boot, connection |-> c, kind |-> kind]

ReleaseLease(token) ==
  check' = IF check # None /\ check.token = token THEN None ELSE check

Fault == faults < MaxFaults /\ faults' = faults + 1

-----------------------------------------------------------------------------
(* set_provider_connection without a key *)

Stale(rec, c) ==
  IF rec.listed = "ready" /\ catalog[c] # None /\ catalog[c].revision # rec.revision
  THEN [rec EXCEPT !.listed = "stale"] ELSE rec

\* A request whose only change is "enabled: false" does not wait for the lease.
\* Endpoint, authentication method and surface stay what they were.
SetFields(c, r, change) ==
  /\ Serving /\ Fresh(r) /\ c \in Present
  /\ IF change = "disable"
     THEN \A d \in Present : record[d].pending = {}
     ELSE ProviderIdle(None)
  /\ LET rec == [record[c] EXCEPT !.revision = @ + 1,
                                  !.enabled = CASE change = "disable" -> FALSE
                                                [] change = "enable" -> TRUE
                                                [] OTHER -> @]
         reenabled == change = "enable" /\ ~record[c].enabled
     IN /\ record' = [record EXCEPT ![c] =
                        IF reenabled THEN Invalidated(rec) ELSE Stale(rec, c)]
        /\ catalog' = IF reenabled THEN [catalog EXCEPT ![c] = None] ELSE catalog
  /\ Accept(r, "succeeded", None)
  /\ UNCHANGED <<check, keychain, selection, process, unsettled, leases, faults>>

-----------------------------------------------------------------------------
(* Credentials: set with api_key, and delete *)

NewRecord ==
  [revision |-> 0, enabled |-> TRUE, account |-> None, pending |-> {},
   auth |-> "unconfigured", listed |-> "unfetched", generated |-> "never"]

\* The first half of _replace_credential: the old key becomes unreachable and
\* the accounts to delete are committed before the Keychain changes.
StartSwap(c, r, value, rec, deleting) ==
  LET cleanup == rec.pending \cup ({rec.account} \ {None})
      new == IF value = None THEN {} ELSE {r}
  IN /\ record' = [record EXCEPT ![c] =
                     Invalidated([rec EXCEPT !.account = None,
                                             !.pending = cleanup \cup new])]
     /\ catalog' = [catalog EXCEPT ![c] = None]
     /\ Accept(r, "pending", None)
     /\ swap' = [connection |-> c, request |-> r, value |-> value,
                 left |-> cleanup, stored |-> value = None, deleting |-> deleting]
     /\ UNCHANGED <<check, keychain, selection, mode, boot, task, remembered, stale,
                    unsettled, leases, faults>>

SetCredential(c, r, value) ==
  /\ Serving /\ Fresh(r)
  /\ ProviderIdle(c)
  /\ LET rec == IF c \in Present THEN record[c] ELSE NewRecord
     IN StartSwap(c, r, value, [rec EXCEPT !.revision = @ + 1], FALSE)

\* connection_referenced reads the saved meetings and profiles.
Delete(c, r) ==
  /\ Serving /\ Fresh(r) /\ c \in Present
  /\ ProviderIdle(c)
  /\ ~(selection # None /\ selection.connection = c)
  /\ StartSwap(c, r, None, [record[c] EXCEPT !.enabled = FALSE, !.revision = @ + 1], TRUE)

StoreKey ==
  /\ swap # None /\ ~swap.stored
  /\ keychain' = [keychain EXCEPT ![swap.request] = swap.value]
  /\ swap' = [swap EXCEPT !.stored = TRUE]
  /\ UNCHANGED <<registry, selection, mode, boot, task, remembered, stale, unsettled,
                 leases, faults>>

DeleteOldKey(a) ==
  /\ swap # None /\ swap.stored /\ a \in swap.left
  /\ keychain' = [keychain EXCEPT ![a] = None]
  /\ swap' = [swap EXCEPT !.left = @ \ {a}]
  /\ UNCHANGED <<registry, selection, mode, boot, task, remembered, stale, unsettled,
                 leases, faults>>

\* The Keychain refuses a write; whether it stored the new key, and whether
\* the attempt to take it back succeeds, is open.
SwapFails(kept) ==
  /\ swap # None /\ Fault
  /\ ~swap.stored \/ swap.left # {}
  /\ keychain' = [keychain EXCEPT ![swap.request] = IF kept THEN swap.value ELSE None]
  /\ Settle(swap.request, "failed")
  /\ swap' = None
  /\ UNCHANGED <<record, catalog, check, selection, mode, boot, task, remembered, stale,
                 unsettled, leases>>

FinishSwap ==
  /\ swap # None /\ swap.stored /\ swap.left = {}
  /\ LET c == swap.connection
         account == IF swap.value = None THEN None ELSE swap.request
     IN /\ record' = [record EXCEPT ![c] =
                        IF swap.deleting THEN None
                        ELSE Invalidated([@ EXCEPT !.account = account, !.pending = {}])]
        /\ catalog' = [catalog EXCEPT ![c] = None]
  /\ Settle(swap.request, "succeeded")
  /\ swap' = None
  /\ UNCHANGED <<check, keychain, selection, mode, boot, task, remembered, stale, unsettled,
                 leases, faults>>

\* registry.json cannot be written: the transaction ends where it stands.
AbandonSwap ==
  /\ swap # None /\ Fault
  /\ swap' = None
  /\ UNCHANGED <<registry, keychain, selection, mode, boot, task, remembered, stale,
                 unsettled, leases>>

-----------------------------------------------------------------------------
(* Saved model selections *)

Selectable(c) ==
  /\ c \in Present
  /\ record[c].enabled /\ record[c].auth = "authenticated" /\ record[c].account # None
  /\ record[c].listed = "ready"
  /\ catalog[c] # None /\ catalog[c].revision = record[c].revision
  /\ catalog[c].verified # None

\* validated_selection: the file is saved inside the registry's transaction.
SelectModel(c) ==
  /\ Serving /\ Selectable(c)
  /\ selection' = [connection |-> c, revision |-> record[c].revision]
  /\ UNCHANGED <<registry, keychain, process, unsettled, leases, faults>>

Deselect ==
  /\ selection # None
  /\ selection' = None
  /\ UNCHANGED <<registry, keychain, process, unsettled, leases, faults>>

-----------------------------------------------------------------------------
(* Operations that wait for the provider *)

Waiting(t, kind) == task[t] # None /\ task[t].kind = kind

Begin(t, c, kind, r) ==
  /\ TakeLease(c, kind)
  /\ task' = [task EXCEPT ![t] =
       [kind |-> kind, connection |-> c, revision |-> record[c].revision,
        account |-> record[c].account, token |-> leases', request |-> r, sent |-> FALSE]]

End(t) == task' = [task EXCEPT ![t] = None]

\* same_configuration: what the operation saw is still what the registry says.
Unchanged(t) ==
  LET c == task[t].connection
  IN /\ c \in Present /\ record[c].enabled
     /\ record[c].revision = task[t].revision /\ record[c].account = task[t].account

OwnsLease(t) == check # None /\ check.token = task[t].token /\ check.boot = boot

BeginTest(t, c) ==
  /\ Serving /\ task[t] = None
  /\ c \in Present /\ record[c].enabled
  /\ ProviderIdle(None)
  /\ Begin(t, c, "metadata", None)
  /\ UNCHANGED <<record, catalog, receipt, keychain, selection, mode, boot, swap,
                 remembered, stale, unsettled, faults>>

\* ModelCatalog.apply; a listing keeps a passed probe of the same model.
Applied(rec, c, result) ==
  CASE result = "listed" -> [rec EXCEPT !.auth = "authenticated", !.listed = "ready"]
    [] result = "rejected" -> [rec EXCEPT !.auth = "failed",
                                          !.listed = "authentication_required"]
    [] OTHER -> [rec EXCEPT !.auth = "unverified",
                            !.listed = IF catalog[c] = None THEN "failed" ELSE "stale"]

EndTest(t, result, same) ==
  /\ Unlocked /\ Waiting(t, "metadata")
  /\ LET c == task[t].connection
         usable == mode = "up" /\ OwnsLease(t) /\ Unchanged(t)
         passed == IF same /\ catalog[c] # None THEN catalog[c].verified ELSE None
     IN /\ result = "listed" => record[c] # None /\ task[t].account # None
        /\ record' = IF usable THEN [record EXCEPT ![c] = Applied(@, c, result)] ELSE record
        /\ catalog' = IF usable /\ result = "listed"
                      THEN [catalog EXCEPT ![c] = [revision |-> record[c].revision,
                                                   verified |-> passed]]
                      ELSE catalog
  /\ ReleaseLease(task[t].token)
  /\ End(t)
  /\ UNCHANGED <<receipt, keychain, selection, mode, boot, swap, remembered, stale,
                 unsettled, leases, faults>>

\* _reject_duplicate_unknown_probe: a probe is paid for, so an equivalent one
\* whose outcome is unknown is never sent again.  An unknown request that names
\* no probe, a swap cut short among them, may have been any.  Endpoint, surface
\* and model do not change here, so the key tells the probes apart.
ProbeInDoubt(value) ==
  \E q \in RequestId :
    /\ receipt[q] # None /\ receipt[q].state = "unknown"
    /\ receipt[q].spends \in {None, value}

\* _probe_candidate: a listed model of the record as it is.
Candidate(c) ==
  /\ record[c].enabled /\ record[c].listed = "ready"
  /\ catalog[c] # None /\ catalog[c].revision = record[c].revision

\* verify_model; a probe that passed is not repeated.
BeginVerify(t, c, r) ==
  /\ Serving /\ task[t] = None /\ Fresh(r)
  /\ c \in Present /\ Candidate(c) /\ record[c].account # None
  /\ ProviderIdle(None)
  /\ LET value == keychain[record[c].account]
     IN /\ value # None /\ ~ProbeInDoubt(value)
        /\ IF catalog[c].verified # None
           THEN Accept(r, "succeeded", None) /\ UNCHANGED <<check, task, leases>>
           ELSE Accept(r, "pending", value) /\ Begin(t, c, "model_verification", r)
  /\ UNCHANGED <<record, catalog, keychain, selection, mode, boot, swap, remembered,
                 stale, unsettled, faults>>

OwnsReceipt(t) == receipt[task[t].request].state = "pending"

OwnsProbe(t) == mode = "up" /\ OwnsLease(t) /\ OwnsReceipt(t)

\* Only an owner that finds the record and the catalog that it probed keeps
\* the result.
KeepsResult(t) == OwnsProbe(t) /\ Unchanged(t) /\ Candidate(task[t].connection)

\* _fail_probe, _settle_probe: an outcome that is known no longer blocks.
SettleProbe(t, state) ==
  /\ Settle(task[t].request, state)
  /\ unsettled' = IF state = "unknown" THEN unsettled ELSE unsettled \ {task[t].request}
  /\ ReleaseLease(task[t].token) /\ End(t)

\* Without ownership the outcome stays unknown.
EndVerify(t, outcome) ==
  /\ Unlocked /\ Waiting(t, "model_verification")
  /\ outcome \in {"verified", "unknown"} => task[t].sent
  /\ LET unknown == outcome = "unknown" \/ (outcome = "verified" /\ ~OwnsProbe(t))
         verified == outcome = "verified" /\ KeepsResult(t)
     IN /\ SettleProbe(t, IF unknown THEN "unknown" ELSE IF verified THEN "succeeded" ELSE "failed")
        /\ catalog' = IF ~verified THEN catalog
                      ELSE [catalog EXCEPT ![task[t].connection].verified = task[t].account]
  /\ UNCHANGED <<record, keychain, selection, mode, boot, swap, remembered, stale,
                 leases, faults>>

\* _selection: what is saved must still be what the registry can serve.
BeginUse(t, kind) ==
  /\ Serving /\ task[t] = None /\ selection # None
  /\ Selectable(selection.connection)
  /\ record[selection.connection].revision = selection.revision
  /\ ProviderIdle(None)
  /\ Begin(t, selection.connection, kind, None)
  /\ UNCHANGED <<catalog, receipt, keychain, selection, mode, boot, swap, remembered,
                 stale, unsettled, faults>>

\* Minutes: a generation that finds a lease left behind only repairs it
\* (RecoverRelease).  It looks before its transaction, in which another thread
\* may have left one since: what it saw guards nothing here.
BeginGeneration(t) ==
  /\ BeginUse(t, "generation")
  /\ record' = [record EXCEPT ![selection.connection].generated = "unknown"]

\* Audio; the saved selection stands for the one of the audio model.
BeginTranscription(t) == BeginUse(t, "transcription") /\ UNCHANGED record

\* The key is read, and the request leaves, outside any transaction.
Send(t) ==
  /\ mode = "up" /\ task[t] # None /\ task[t].kind # "metadata" /\ ~task[t].sent
  /\ keychain[task[t].account] # None
  /\ task' = [task EXCEPT ![t].sent = TRUE]
  /\ unsettled' = IF task[t].kind = "model_verification"
                  THEN unsettled \cup {task[t].request} ELSE unsettled
  /\ UNCHANGED <<registry, keychain, selection, mode, boot, swap, remembered, stale,
                 leases, faults>>

Remember(t) ==
  remembered' = IF remembered # None THEN remembered
                ELSE [token |-> task[t].token, boot |-> boot,
                      connection |-> task[t].connection, kind |-> "generation"]

EndUse(t, outcome) ==
  /\ Unlocked
  /\ outcome \in {"succeeded", "unknown"} => task[t].sent
  /\ ReleaseLease(task[t].token)
  /\ End(t)
  /\ UNCHANGED <<catalog, receipt, keychain, selection, mode, boot, swap, stale,
                 unsettled, leases>>

\* When the file is replaced and its directory cannot be synced the release
\* counts as failed, although it happened.
EndGeneration(t, outcome, unsure) ==
  /\ Waiting(t, "generation") /\ EndUse(t, outcome)
  /\ LET c == task[t].connection
     IN record' = IF c \in Present THEN [record EXCEPT ![c].generated = outcome] ELSE record
  /\ IF unsure THEN Fault /\ Remember(t) ELSE UNCHANGED <<faults, remembered>>

EndTranscription(t, outcome) ==
  /\ Waiting(t, "transcription") /\ EndUse(t, outcome)
  /\ UNCHANGED <<record, faults, remembered>>

\* The transaction that ends an operation fails.  Only a generation remembers
\* the lease it leaves.
EndFails(t) ==
  /\ Unlocked /\ task[t] # None /\ Fault
  /\ IF Waiting(t, "generation") THEN Remember(t) ELSE UNCHANGED remembered
  /\ End(t)
  /\ UNCHANGED <<registry, keychain, selection, mode, boot, swap, stale, unsettled, leases>>

RecoverUnleased ==  \* a plausible bug: the lease it left counts as somebody's
  /\ Serving /\ remembered # None
  /\ check = None
  /\ LET c == remembered.connection
     IN record' = IF c \in Present THEN [record EXCEPT ![c].generated = "unknown"] ELSE record
  /\ remembered' = None
  /\ UNCHANGED <<catalog, check, receipt, keychain, selection, mode, boot, swap, task, stale,
                 unsettled, leases, faults>>

\* _recover_failed_release, from its thread or from the next generation.
RecoverRelease ==
  /\ Serving /\ remembered # None
  /\ check \in {None, remembered}
  /\ check' = None
  /\ LET c == remembered.connection
     IN record' = IF c \in Present THEN [record EXCEPT ![c].generated = "unknown"] ELSE record
  /\ remembered' = None
  /\ UNCHANGED <<catalog, receipt, keychain, selection, mode, boot, swap, task, stale,
                 unsettled, leases, faults>>

-----------------------------------------------------------------------------
(* The server closes, dies and starts *)

Close ==
  /\ mode = "up" /\ mode' = "closing"
  /\ UNCHANGED <<registry, keychain, selection, boot, swap, task, remembered, stale,
                 unsettled, leases, faults>>

Stop ==
  /\ mode # "down" /\ boot < MaxBoots
  /\ mode' = "down"
  /\ swap' = None
  /\ task' = [t \in Task |-> None]
  /\ remembered' = None
  /\ stale' = [c \in Connection |-> {}]
  /\ UNCHANGED <<registry, keychain, selection, boot, unsettled, leases, faults>>

\* _recover_pending_credentials: first the records lose what an interrupted
\* swap left, then the accounts are deleted, then the record forgets them.
Start ==
  /\ mode = "down"
  /\ boot' = boot + 1
  /\ mode' = "deleting"
  /\ stale' = [c \in Connection |-> IF c \in Present THEN record[c].pending ELSE {}]
  /\ record' = [c \in Connection |->
                  IF stale'[c] = {} THEN record[c]
                  ELSE Invalidated([record[c] EXCEPT !.account = None])]
  /\ catalog' = [c \in Connection |-> IF stale'[c] = {} THEN catalog[c] ELSE None]
  /\ UNCHANGED <<check, receipt, keychain, selection, swap, task, remembered, unsettled,
                 leases, faults>>

DeleteStale(c) ==
  /\ mode = "deleting" /\ stale[c] # {}
  /\ keychain' = [a \in RequestId |-> IF a \in stale[c] THEN None ELSE keychain[a]]
  /\ stale' = [stale EXCEPT ![c] = {}]
  /\ UNCHANGED <<registry, selection, mode, boot, swap, task, remembered, unsettled,
                 leases, faults>>

\* The Keychain fails after some deletions: the marker stays for the next start.
KeepMarker(c, deleted) ==
  /\ mode = "deleting" /\ stale[c] # {} /\ Fault
  /\ deleted \subseteq stale[c]
  /\ keychain' = [a \in RequestId |-> IF a \in deleted THEN None ELSE keychain[a]]
  /\ stale' = [stale EXCEPT ![c] = {}]
  /\ UNCHANGED <<registry, selection, mode, boot, swap, task, remembered, unsettled, leases>>

ClearMarkerUnasked(c) ==  \* a plausible bug: a deletion that failed is forgotten
  /\ mode = "deleting" /\ c \in Present /\ stale[c] = {} /\ record[c].pending # {}
  /\ record' = [record EXCEPT ![c] =
                  Invalidated([@ EXCEPT !.account = None, !.pending = {}])]
  /\ catalog' = [catalog EXCEPT ![c] = None]
  /\ UNCHANGED <<check, receipt, keychain, selection, process, unsettled, leases, faults>>

\* Clearing a marker is a transaction of its own; it may fail as well.
ClearMarker(c) ==
  /\ mode = "deleting" /\ c \in Present /\ stale[c] = {}
  /\ record[c].pending # {} /\ \A a \in record[c].pending : keychain[a] = None
  /\ record' = [record EXCEPT ![c] =
                  Invalidated([@ EXCEPT !.account = None, !.pending = {}])]
  /\ catalog' = [catalog EXCEPT ![c] = None]
  /\ UNCHANGED <<check, receipt, keychain, selection, process, unsettled, leases, faults>>

\* _recover: what another server left pending is unknown, its lease is void.
FinishStart ==
  /\ mode = "deleting" /\ \A c \in Connection : stale[c] = {}
  /\ mode' = "up"
  /\ receipt' = [r \in RequestId |->
       IF receipt[r] # None /\ receipt[r].state = "pending" /\ receipt[r].boot # boot
       THEN [receipt[r] EXCEPT !.state = "unknown"] ELSE receipt[r]]
  /\ check' = IF check # None /\ check.boot # boot THEN None ELSE check
  /\ UNCHANGED <<record, catalog, keychain, selection, boot, swap, task, remembered, stale,
                 unsettled, leases, faults>>

-----------------------------------------------------------------------------
Finish(t) ==
  \/ \E result \in {"listed", "rejected", "unavailable"}, same \in BOOLEAN :
       EndTest(t, result, same)
  \/ \E outcome \in {"verified", "failed", "unknown"} : EndVerify(t, outcome)
  \/ \E outcome \in {"succeeded", "failed", "cancelled", "unknown"} :
       \/ \E unsure \in BOOLEAN : EndGeneration(t, outcome, unsure)
       \/ EndTranscription(t, outcome)
  \/ EndFails(t)

SwapStep ==
  \/ StoreKey \/ FinishSwap \/ AbandonSwap
  \/ \E a \in RequestId : DeleteOldKey(a)
  \/ \E kept \in BOOLEAN : SwapFails(kept)

Manage ==
  \/ \E c \in Connection, r \in RequestId :
       \/ \E change \in {"rename", "enable", "disable"} : SetFields(c, r, change)
       \/ \E value \in KeyValue \cup {None} : SetCredential(c, r, value)
       \/ Delete(c, r)
  \/ \E c \in Connection : SelectModel(c)
  \/ Deselect

StartStep ==
  \/ Start \/ FinishStart
  \/ \E c \in Connection :
       \/ DeleteStale(c) \/ ClearMarker(c)
       \/ \E deleted \in SUBSET stale[c] : KeepMarker(c, deleted)

Next ==
  \/ Manage \/ SwapStep \/ RecoverRelease \/ StartStep \/ Close \/ Stop
  \/ \E t \in Task :
       \/ \E c \in Connection : BeginTest(t, c)
       \/ \E c \in Connection, r \in RequestId : BeginVerify(t, c, r)
       \/ BeginGeneration(t) \/ BeginTranscription(t)
       \/ Send(t) \/ Finish(t)

\* Threads run on, every provider call has a deadline, and the recovery
\* thread retries.
Fairness ==
  /\ WF_rvars(SwapStep) /\ WF_rvars(RecoverRelease)
  /\ \A t \in Task : WF_rvars(Finish(t))

Spec == Init /\ [][Next]_rvars /\ Fairness

-----------------------------------------------------------------------------
(* Properties *)

\* Connections, receipts, the Keychain and the tasks under way.
TypeOK ==
  /\ record \in [Connection -> RecordType \cup {None}]
  /\ catalog \in [Connection -> CatalogType \cup {None}]
  /\ check \in LeaseType \cup {None} /\ remembered \in LeaseType \cup {None}
  /\ receipt \in [RequestId -> ReceiptType \cup {None}]
  /\ keychain \in [RequestId -> KeyValue \cup {None}]
  /\ selection \in SelectionType \cup {None}
  /\ mode \in {"up", "closing", "down", "deleting"}
  /\ swap \in SwapType \cup {None} /\ task \in [Task -> TaskType \cup {None}]
  /\ boot \in 1 .. MaxBoots /\ leases \in 0 .. MaxLeases /\ faults \in 0 .. MaxFaults
  /\ unsettled \subseteq RequestId /\ stale \in [Connection -> SUBSET RequestId]

\* No secret is lost in the Keychain: at every moment, also after a death in
\* the middle of a swap or of its repair, each account that holds a key is
\* named by a record (connections.py _replace_credential, service.py
\* _recover_pending_credentials).
KeysAreNamed ==
  \A a \in RequestId : keychain[a] # None => \E c \in Present : a \in Accounts(c)

\* A record that shows a credential has one, and nobody else deletes it.
ShownKeyExists ==
  \A c \in Present : record[c].account # None =>
    /\ keychain[record[c].account] # None
    /\ \A d \in Present \ {c} : record[c].account \notin Accounts(d)

\* While a thread waits for the provider the lease is its own, so no other
\* operation runs beside it, and the key it sends stays in the Keychain.
LeaseProtects ==
  \A t \in Task : task[t] # None =>
    /\ check # None /\ check.token = task[t].token
    /\ \A u \in Task \ {t} : task[u] = None
    /\ task[t].account # None => keychain[task[t].account] # None

\* A paid probe whose outcome is unknown is not paid for again with the same
\* key, across requests, connections and restarts.
ProbePaidOnce ==
  \A q, r \in unsettled : receipt[q].spends = receipt[r].spends => q = r

\* A model is selectable only on the evidence of a probe with the very
\* credential the connection now has.
VerifiedWithThisKey ==
  \A c \in Present :
    catalog[c] # None /\ catalog[c].verified # None => catalog[c].verified = record[c].account

\* A connection that a saved configuration names is never deleted.
SelectionStands == selection # None => selection.connection \in Present

\* All of these, checked together.
RegistrySafe ==
  /\ KeysAreNamed /\ ShownKeyExists /\ LeaseProtects
  /\ ProbePaidOnce /\ VerifiedWithThisKey /\ SelectionStands

\* A lease that nobody in this process will release.
Leaked ==
  /\ check # None /\ check.boot = boot
  /\ check # remembered
  /\ \A t \in Task : task[t] # None => task[t].token # check.token

\* The lease of a generation whose release failed is released while the
\* server runs, unless another operation leaked the provider's lease:
\* Unreleased leads to Recovered.
Unreleased == remembered # None
Recovered == remembered = None \/ mode # "up" \/ Leaked
=============================================================================
