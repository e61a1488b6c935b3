----------------------- MODULE ProviderRequestProofs ------------------------
(***************************************************************************)
(* What the registry of the provider connections and one request to a      *)
(* provider promise, proved for every value of the constants of            *)
(* MCProviders.  The parts share no variable, so each has its own inductive*)
(* invariant over its own part of the state, and a step of another part    *)
(* leaves it as it is.  A lemma <Part><Action>Keeps says that an action    *)
(* keeps the part's invariant, <Part>InvIsSafe that the invariant implies  *)
(* the property that the runs check.                                       *)
(*                                                                         *)
(*   RegistryInv   keys, swaps, leases and probes each have their owner;   *)
(*   ExchangeInv   what was sent, done and answered agree with the thread  *)
(*                 of each request, and every resolver slot is accounted   *)
(*                 for.                                                    *)
(***************************************************************************)
EXTENDS MCProviders, FiniteSetTheorems, TLAPS

-----------------------------------------------------------------------------
(* The registry and its leases (ProviderRegistry)                           *)

(* Between two servers, and while the next one cleans up, nobody works; what *)
(* it cleans up is pending, and what it reads of earlier requests is older.  *)
RegistryModeInv ==
  /\ mode \in {"down", "deleting"} =>
       swap = None /\ remembered = None /\ \A t \in Task : task[t] = None
  /\ mode = "down" => boot < MaxBoots
  /\ \A c \in Connection : stale[c] # {} =>
       mode = "deleting" /\ record[c] # None /\ stale[c] \subseteq record[c].pending
  /\ \A r \in Registry!RequestId : receipt[r] # None =>
       receipt[r].boot <= boot /\ (mode = "deleting" => receipt[r].boot < boot)

(* Each account in the Keychain is one request's, and one connection's;      *)
(* while a connection changes its account it has none.                       *)
AccountsInv ==
  /\ \A r \in Registry!RequestId : receipt[r] = None =>
       keychain[r] = None /\ \A c \in Registry!Present : r \notin Registry!Accounts(c)
  /\ \A c, d \in Registry!Present : c # d => Registry!Accounts(c) \cap Registry!Accounts(d) = {}
  /\ \A c \in Registry!Present : record[c].pending # {} => record[c].account = None
  /\ Registry!KeysAreNamed
  /\ \A c \in Registry!Present : record[c].account # None => keychain[record[c].account] # None

(* A swap of a key owns the provider: its connection has no account, and     *)
(* what it has stored or has still to delete is pending there.               *)
KeySwapInv ==
  swap # None =>
    /\ check = None
    /\ receipt[swap.request] # None /\ receipt[swap.request].spends = None
    /\ swap.connection \in Registry!Present /\ record[swap.connection].account = None
    /\ swap.left \subseteq record[swap.connection].pending /\ swap.request \notin swap.left
    /\ \A d \in Registry!Present \ {swap.connection} : swap.request \notin Registry!Accounts(d)
    /\ swap.value # None => swap.request \in record[swap.connection].pending
    /\ \A a \in record[swap.connection].pending \ swap.left :
         (a = swap.request /\ swap.value # None) \/ keychain[a] = None
    /\ swap.stored /\ swap.value # None => keychain[swap.request] # None
    /\ swap.deleting => swap.value = None /\ (selection # None =>
         selection.connection # swap.connection)

(* The task and the remembered release have the lease each its own. *)
RegistryLeaseInv ==
  /\ Registry!LeaseProtects
  /\ \A t \in Task : task[t] # None =>
       /\ task[t].kind = check.kind /\ task[t].token <= leases
       /\ remembered # None => task[t].token # remembered.token
  /\ remembered # None => remembered.token <= leases /\ remembered.kind = "generation"

(* The paid probe of a request is under way. *)
PendingProbe(q) == receipt[q] # None /\ receipt[q].state = "pending" /\ receipt[q].spends # None

(* One paid probe is under way, under the lease, and for a key whose earlier *)
(* probes are all known.                                                     *)
ProbeInv ==
  /\ \A q \in unsettled : receipt[q] # None /\ receipt[q].state \in {"pending", "unknown"}
                          /\ receipt[q].spends # None
  /\ Registry!ProbePaidOnce
  /\ \A q, r \in Registry!RequestId : PendingProbe(q) /\ PendingProbe(r) => q = r
  /\ \A q \in Registry!RequestId : PendingProbe(q) /\ mode \in {"up", "closing"} =>
       check # None /\ check.kind = "model_verification"
  /\ \A t \in Task : task[t] # None /\ task[t].kind = "model_verification" =>
       /\ task[t].request \in Registry!RequestId /\ PendingProbe(task[t].request)
       /\ \A r \in Registry!RequestId : receipt[r] # None /\ receipt[r].state = "unknown" =>
            receipt[r].spends # receipt[task[t].request].spends

(* The inductive invariant of the registry. *)
RegistryInv ==
  Registry!TypeOK /\ RegistryModeInv /\ AccountsInv /\ KeySwapInv /\ RegistryLeaseInv /\ ProbeInv
  /\ Registry!VerifiedWithThisKey /\ Registry!SelectionStands

(* A step leaves the accounts of every connection as they are. *)
SameAccounts ==
  \A c \in Connection :
    /\ record'[c] = None <=> record[c] = None
    /\ record[c] # None => /\ record'[c].account = record[c].account
                           /\ record'[c].pending = record[c].pending

\* A record that is invalidated is a record, with the same accounts.
LEMMA RegistryInvalidatedType ==
  ASSUME NEW rec \in Registry!RecordType
  PROVE  /\ Registry!Invalidated(rec) \in Registry!RecordType
         /\ Registry!Invalidated(rec).account = rec.account
         /\ Registry!Invalidated(rec).pending = rec.pending
  BY DEF Registry!Invalidated, Registry!RecordType

\* A record that grows stale is a record, with the same accounts.
LEMMA RegistryStaleType ==
  ASSUME NEW rec \in Registry!RecordType, NEW c
  PROVE  /\ Registry!Stale(rec, c) \in Registry!RecordType
         /\ Registry!Stale(rec, c).account = rec.account
         /\ Registry!Stale(rec, c).pending = rec.pending
  BY DEF Registry!Stale, Registry!RecordType

\* A record that a result is applied to is a record, with the same accounts.
LEMMA RegistryAppliedType ==
  ASSUME NEW rec \in Registry!RecordType, NEW c, NEW found
  PROVE  /\ Registry!Applied(rec, c, found) \in Registry!RecordType
         /\ Registry!Applied(rec, c, found).account = rec.account
         /\ Registry!Applied(rec, c, found).pending = rec.pending
  BY DEF Registry!Applied, Registry!RecordType

\* A record of a generation is a record, with the same accounts.
LEMMA RegistryGeneratedType ==
  ASSUME NEW rec \in Registry!RecordType,
         NEW g \in {"never", "unknown", "succeeded", "failed", "cancelled"}
  PROVE  /\ [rec EXCEPT !.generated = g] \in Registry!RecordType
         /\ [rec EXCEPT !.generated = g].account = rec.account
         /\ [rec EXCEPT !.generated = g].pending = rec.pending
  BY DEF Registry!RecordType

\* None is none of the things that the variables hold.
LEMMA RegistrySomebody ==
  ASSUME Registry!RegistryAssumption
  PROVE  /\ \A x \in Registry!RecordType \cup Registry!CatalogType \cup Registry!LeaseType :
              x # None
         /\ \A x \in Registry!ReceiptType \cup Registry!TaskType \cup Registry!SwapType
              \cup Registry!SelectionType : x # None
         /\ \A x \in Connection \cup KeyValue \cup Nat : x # None
         /\ \A x \in Registry!RequestId : x # None /\ x \in Nat
  BY DEF Registry!RegistryAssumption, Registry!RequestId

\* A new record with the accounts of the old one changes no account.
LEMMA RegistryOneRecord ==
  ASSUME Registry!RegistryAssumption, Registry!TypeOK, NEW c \in Connection, record[c] # None,
         NEW rec \in Registry!RecordType, rec.account = record[c].account,
         rec.pending = record[c].pending, record' = [record EXCEPT ![c] = rec]
  PROVE  SameAccounts /\ record' \in [Connection -> Registry!RecordType \cup {None}]
<1>1. rec # None
  BY RegistrySomebody
<1>2. record \in [Connection -> Registry!RecordType \cup {None}]
  BY DEF Registry!TypeOK
<1> QED
  BY <1>1, <1>2 DEF SameAccounts

\* A step that writes no record changes no account.
LEMMA RegistrySameRecords ==
  ASSUME UNCHANGED record
  PROVE  SameAccounts
  BY DEF SameAccounts

\* While the accounts stay, so do the connections that are present.
LEMMA RegistryPresentSame ==
  ASSUME SameAccounts
  PROVE  /\ Registry!Present' = Registry!Present
         /\ \A c \in Registry!Present : Registry!Accounts(c)' = Registry!Accounts(c)
  BY DEF SameAccounts, Registry!Present, Registry!Accounts

\* A step that leaves the server as it is keeps RegistryModeInv.
LEMMA RegistryModeRests ==
  ASSUME RegistryModeInv, SameAccounts, UNCHANGED <<mode, boot, stale>>,
         mode \in {"down", "deleting"} => UNCHANGED <<swap, remembered, task>>,
         \A r \in Registry!RequestId : receipt'[r] # None =>
           \/ receipt[r] # None /\ receipt'[r].boot = receipt[r].boot
           \/ receipt'[r].boot = boot /\ mode # "deleting" /\ boot \in Nat
  PROVE  RegistryModeInv'
<1>1. ASSUME NEW c \in Connection, stale'[c] # {}
      PROVE  mode' = "deleting" /\ record'[c] # None /\ stale'[c] \subseteq record'[c].pending
  BY <1>1 DEF RegistryModeInv, SameAccounts
<1>2. ASSUME NEW r \in Registry!RequestId, receipt'[r] # None
      PROVE  receipt'[r].boot <= boot' /\ (mode' = "deleting" => receipt'[r].boot < boot')
  BY <1>2 DEF RegistryModeInv
<1>3. mode' \in {"down", "deleting"} =>
        swap' = None /\ remembered' = None /\ \A t \in Task : task'[t] = None
  BY DEF RegistryModeInv
<1>4. mode' = "down" => boot' < MaxBoots
  BY DEF RegistryModeInv
<1> QED
  BY <1>1, <1>2, <1>3, <1>4 DEF RegistryModeInv

\* A step that changes no account and no key keeps AccountsInv.
LEMMA RegistryAccountsRest ==
  ASSUME AccountsInv, SameAccounts, UNCHANGED keychain,
         \A r \in Registry!RequestId : receipt'[r] = None => receipt[r] = None
  PROVE  AccountsInv'
<1>1. /\ Registry!Present' = Registry!Present
      /\ \A c \in Registry!Present : Registry!Accounts(c)' = Registry!Accounts(c)
  BY RegistryPresentSame
<1>2. \A c \in Registry!Present :
    /\ record'[c].account = record[c].account
    /\ record'[c].pending = record[c].pending
  BY DEF SameAccounts, Registry!Present
<1>3. Registry!KeysAreNamed'
  BY <1>1 DEF AccountsInv, Registry!KeysAreNamed
<1> QED
  BY <1>1, <1>2, <1>3 DEF AccountsInv

\* A step outside the swap keeps KeySwapInv.
LEMMA RegistrySwapRests ==
  ASSUME KeySwapInv, SameAccounts, UNCHANGED <<swap, keychain>>,
         swap # None => UNCHANGED <<check, selection>>,
         Registry!TypeOK,
         \A r \in Registry!RequestId : receipt[r] # None =>
           receipt'[r] # None /\ receipt'[r].spends = receipt[r].spends
  PROVE  KeySwapInv'
<1>1. /\ Registry!Present' = Registry!Present
      /\ \A c \in Registry!Present : Registry!Accounts(c)' = Registry!Accounts(c)
  BY RegistryPresentSame
<1>2. \A c \in Registry!Present :
    /\ record'[c].account = record[c].account
    /\ record'[c].pending = record[c].pending
  BY DEF SameAccounts, Registry!Present
<1> SUFFICES ASSUME swap # None PROVE KeySwapInv'
  BY DEF KeySwapInv
<1>3. swap.request \in Registry!RequestId
  BY DEF Registry!TypeOK, Registry!SwapType
<1> QED
  BY <1>1, <1>2, <1>3 DEF KeySwapInv

\* A step that leaves the lease alone keeps RegistryLeaseInv.
LEMMA RegistryLeaseRests ==
  ASSUME RegistryLeaseInv, UNCHANGED <<task, check, remembered, leases, keychain>>
  PROVE  RegistryLeaseInv'
  BY DEF RegistryLeaseInv, Registry!LeaseProtects

\* A step that leaves the probes alone keeps ProbeInv.
LEMMA RegistryProbeRests ==
  ASSUME ProbeInv, Registry!TypeOK, UNCHANGED <<task, check, unsettled>>,
         mode' \in {"up", "closing"} => mode \in {"up", "closing"},
         \A r \in Registry!RequestId : \/ receipt'[r] = receipt[r]
                                       \/ /\ receipt[r] # None => receipt[r].spends = None
                                          /\ receipt'[r].spends = None
  PROVE  ProbeInv'
<1>1. \A r \in Registry!RequestId : PendingProbe(r)' <=> PendingProbe(r)
  BY DEF PendingProbe
<1>2. \A q \in unsettled : receipt'[q] = receipt[q]
  BY DEF ProbeInv, Registry!TypeOK
<1>3. Registry!ProbePaidOnce'
  BY <1>2 DEF ProbeInv, Registry!ProbePaidOnce
<1>4. ASSUME NEW t \in Task, task[t] # None, task[t].kind = "model_verification",
             NEW r \in Registry!RequestId, receipt'[r] # None, receipt'[r].state = "unknown"
      PROVE  receipt'[r].spends # receipt'[task[t].request].spends
  <2>1. /\ receipt'[task[t].request] = receipt[task[t].request]
        /\ receipt[task[t].request].spends # None
    BY <1>4 DEF ProbeInv, PendingProbe
  <2> QED
    BY <1>4, <2>1 DEF ProbeInv
<1> QED
  BY <1>1, <1>2, <1>3, <1>4 DEF ProbeInv

\* A step that verifies nothing keeps VerifiedWithThisKey.
LEMMA RegistryVerifiedRests ==
  ASSUME Registry!VerifiedWithThisKey, SameAccounts,
         \A c \in Connection : catalog'[c] = catalog[c] \/ catalog'[c] = None
                               \/ catalog'[c].verified = None
                               \/ (catalog[c] # None /\ catalog'[c].verified = catalog[c].verified)
  PROVE  Registry!VerifiedWithThisKey'
<1>1. Registry!Present' = Registry!Present
  BY RegistryPresentSame
<1> QED
  BY <1>1 DEF Registry!VerifiedWithThisKey, SameAccounts, Registry!Present

\* A step that selects nothing keeps SelectionStands.
LEMMA RegistrySelectionRests ==
  ASSUME Registry!SelectionStands, SameAccounts, selection' = selection \/ selection' = None
  PROVE  Registry!SelectionStands'
  BY RegistryPresentSame DEF Registry!SelectionStands

\* A connection that is present is a connection and has a record.
LEMMA RegistryPresentType ==
  ASSUME Registry!RegistryAssumption, Registry!TypeOK, NEW c \in Registry!Present
  PROVE  c \in Connection /\ record[c] \in Registry!RecordType
  BY DEF Registry!Present, Registry!TypeOK

\* Registry!SetFields keeps RegistryInv.
LEMMA RegistrySetFieldsKeeps ==
  ASSUME RegistryInv, Registry!RegistryAssumption, NEW c \in Connection,
         NEW r \in Registry!RequestId,
         NEW change \in {"rename", "enable", "disable"}, Registry!SetFields(c, r, change)
  PROVE  RegistryInv'
<1>1. /\ Registry!TypeOK /\ RegistryModeInv /\ AccountsInv /\ KeySwapInv /\ RegistryLeaseInv
      /\ ProbeInv
      /\ Registry!VerifiedWithThisKey /\ Registry!SelectionStands
  BY DEF RegistryInv
<1>2. c \in Registry!Present /\ record[c] # None /\ record[c] \in Registry!RecordType
  BY <1>1, RegistryPresentType DEF Registry!SetFields, Registry!Present
<1> DEFINE rec == [record[c] EXCEPT !.revision = @ + 1,
                                    !.enabled = CASE change = "disable" -> FALSE
                                                  [] change = "enable" -> TRUE
                                                  [] OTHER -> @]
           new == IF change = "enable" /\ ~record[c].enabled
                  THEN Registry!Invalidated(rec) ELSE Registry!Stale(rec, c)
<1>3. /\ rec \in Registry!RecordType /\ rec.account = record[c].account
      /\ rec.pending = record[c].pending
  <2> DEFINE e == CASE change = "disable" -> FALSE [] change = "enable" -> TRUE
                    [] OTHER -> record[c].enabled
  <2>1. e \in BOOLEAN /\ record[c].revision + 1 \in Nat
    <3>1. record[c].enabled \in BOOLEAN /\ record[c].revision \in Nat
      BY <1>2 DEF Registry!RecordType
    <3>2. /\ change = "disable" => e = FALSE
          /\ change = "enable" => e = TRUE
          /\ change = "rename" => e = record[c].enabled
      OBVIOUS
    <3> HIDE DEF e
    <3>3. e \in BOOLEAN
      BY <3>1, <3>2
    <3>4. record[c].revision + 1 \in Nat
      BY <3>1
    <3> QED
      BY <3>3, <3>4
  <2>2. rec = [record[c] EXCEPT !.revision = record[c].revision + 1, !.enabled = e]
    OBVIOUS
  <2> HIDE DEF e, rec
  <2> QED
    BY <1>2, <2>1, <2>2 DEF Registry!RecordType
<1>4. /\ new \in Registry!RecordType /\ new.account = record[c].account
      /\ new.pending = record[c].pending
  <2> HIDE DEF rec
  <2> QED
    BY <1>3, RegistryInvalidatedType, RegistryStaleType
<1>5. record' = [record EXCEPT ![c] = new]
  BY DEF Registry!SetFields
<1>6. SameAccounts /\ record' \in [Connection -> Registry!RecordType \cup {None}]
  <2> HIDE DEF new
  <2> QED
    BY <1>1, <1>2, <1>4, <1>5, RegistryOneRecord
<1>7. /\ receipt[r] = None /\ mode = "up" /\ swap = None
      /\ receipt' = [receipt EXCEPT ![r] = [state |-> "succeeded", boot |-> boot, spends |-> None]]
      /\ \A d \in Connection : catalog'[d] = catalog[d] \/ catalog'[d] = None
      /\ catalog' \in [Connection -> Registry!CatalogType \cup {None}]
  BY <1>1
    DEF Registry!SetFields, Registry!Serving, Registry!Fresh, Registry!Accept, Registry!TypeOK,
        Registry!RequestId
<1>8. /\ boot \in Nat /\ receipt' \in [Registry!RequestId -> Registry!ReceiptType \cup {None}]
      /\ receipt'[r] # None /\ \A q \in Registry!RequestId \ {r} : receipt'[q] = receipt[q]
      /\ receipt'[r].boot = boot /\ receipt'[r].spends = None
  <2>1. [state |-> "succeeded", boot |-> boot, spends |-> None] \in Registry!ReceiptType
    BY <1>1, Registry!RegistryAssumption DEF Registry!ReceiptType, Registry!TypeOK
  <2> QED
    BY <1>1, <1>7, <2>1, RegistrySomebody DEF Registry!TypeOK
<1>9. UNCHANGED <<check, keychain, selection, mode, boot, swap, task, remembered, stale,
                  unsettled, leases, faults>>
  BY DEF Registry!SetFields, Registry!process
<1>10. Registry!TypeOK'
  BY <1>1, <1>6, <1>7, <1>8, <1>9 DEF Registry!TypeOK
<1>11. RegistryModeInv'
  BY <1>1, <1>6, <1>7, <1>8, <1>9, RegistryModeRests DEF Registry!process
<1>12. AccountsInv'
  BY <1>1, <1>6, <1>7, <1>8, <1>9, RegistryAccountsRest DEF Registry!process
<1>13. KeySwapInv'
  BY <1>1, <1>6, <1>7, <1>8, <1>9, RegistrySwapRests DEF Registry!process
<1>14. Registry!VerifiedWithThisKey'
  BY <1>1, <1>6, <1>7, <1>8, <1>9, RegistryVerifiedRests DEF Registry!process
<1>15. RegistryLeaseInv'
  BY <1>1, <1>6, <1>7, <1>8, <1>9, RegistryLeaseRests DEF Registry!process
<1>16. ProbeInv'
  BY <1>1, <1>6, <1>7, <1>8, <1>9, RegistryProbeRests DEF Registry!process
<1>17. Registry!SelectionStands'
  BY <1>1, <1>6, <1>7, <1>8, <1>9, RegistrySelectionRests DEF Registry!process
<1> QED
  BY <1>10, <1>11, <1>12, <1>13, <1>15, <1>16, <1>14, <1>17 DEF RegistryInv

\* Registry!SelectModel keeps RegistryInv.
LEMMA RegistrySelectModelKeeps ==
  ASSUME RegistryInv, Registry!RegistryAssumption, NEW c \in Connection, Registry!SelectModel(c)
  PROVE  RegistryInv'
<1>1. /\ Registry!TypeOK /\ RegistryModeInv /\ AccountsInv /\ KeySwapInv /\ RegistryLeaseInv
      /\ ProbeInv
      /\ Registry!VerifiedWithThisKey /\ Registry!SelectionStands
  BY DEF RegistryInv
<1>2. /\ UNCHANGED <<record, catalog, check, receipt, keychain, mode, boot, swap, task,
                     remembered, stale, unsettled, leases, faults>>
      /\ selection \in Registry!SelectionType \cup {None}
  BY <1>1 DEF Registry!SelectModel, Registry!registry, Registry!process, Registry!TypeOK
<1>3. SameAccounts
  BY <1>2, RegistrySameRecords
<1>4. /\ swap = None /\ selection' \in Registry!SelectionType
      /\ selection'.connection \in Registry!Present
  <2>1. /\ c \in Registry!Present /\ swap = None
        /\ selection' = [connection |-> c, revision |-> record[c].revision]
    BY DEF Registry!SelectModel, Registry!Serving, Registry!Selectable
  <2>2. record[c].revision \in Nat
    BY <1>1, <2>1, RegistryPresentType DEF Registry!RecordType
  <2> QED
    BY <2>1, <2>2 DEF Registry!SelectionType
<1>5. Registry!TypeOK'
  BY <1>1, <1>4, <1>2 DEF Registry!TypeOK
<1>6. KeySwapInv'
  BY <1>4, <1>2 DEF KeySwapInv
<1>7. Registry!SelectionStands'
  BY <1>4, <1>2 DEF Registry!SelectionStands, Registry!Present
<1>8. RegistryModeInv'
  BY <1>1, <1>3, <1>2, RegistryModeRests DEF Registry!SelectModel
<1>9. AccountsInv'
  BY <1>1, <1>3, <1>2, RegistryAccountsRest DEF Registry!SelectModel
<1>10. RegistryLeaseInv'
  BY <1>1, <1>3, <1>2, RegistryLeaseRests DEF Registry!SelectModel
<1>11. ProbeInv'
  BY <1>1, <1>3, <1>2, RegistryProbeRests DEF Registry!SelectModel
<1>12. Registry!VerifiedWithThisKey'
  BY <1>1, <1>3, <1>2, RegistryVerifiedRests DEF Registry!SelectModel
<1> QED
  BY <1>5, <1>8, <1>9, <1>6, <1>10, <1>11, <1>12, <1>7 DEF RegistryInv

\* Registry!Deselect keeps RegistryInv.
LEMMA RegistryDeselectKeeps ==
  ASSUME RegistryInv, Registry!RegistryAssumption, Registry!Deselect
  PROVE  RegistryInv'
<1>1. /\ Registry!TypeOK /\ RegistryModeInv /\ AccountsInv /\ KeySwapInv /\ RegistryLeaseInv
      /\ ProbeInv
      /\ Registry!VerifiedWithThisKey /\ Registry!SelectionStands
  BY DEF RegistryInv
<1>2. /\ UNCHANGED <<record, catalog, check, receipt, keychain, mode, boot, swap, task,
                     remembered, stale, unsettled, leases, faults>>
      /\ selection \in Registry!SelectionType \cup {None}
  BY <1>1 DEF Registry!Deselect, Registry!registry, Registry!process, Registry!TypeOK
<1>3. SameAccounts
  BY <1>2, RegistrySameRecords
<1>4. selection' = None
  BY DEF Registry!Deselect
<1>5. Registry!TypeOK'
  BY <1>1, <1>4, <1>2 DEF Registry!TypeOK
<1>6. KeySwapInv'
  BY <1>1, <1>4, <1>2 DEF KeySwapInv, Registry!Present, Registry!Accounts
<1>7. Registry!SelectionStands'
  BY <1>4 DEF Registry!SelectionStands
<1>8. RegistryModeInv'
  BY <1>1, <1>3, <1>2, RegistryModeRests DEF Registry!Deselect
<1>9. AccountsInv'
  BY <1>1, <1>3, <1>2, RegistryAccountsRest DEF Registry!Deselect
<1>10. RegistryLeaseInv'
  BY <1>1, <1>3, <1>2, RegistryLeaseRests DEF Registry!Deselect
<1>11. ProbeInv'
  BY <1>1, <1>3, <1>2, RegistryProbeRests DEF Registry!Deselect
<1>12. Registry!VerifiedWithThisKey'
  BY <1>1, <1>3, <1>2, RegistryVerifiedRests DEF Registry!Deselect
<1> QED
  BY <1>5, <1>8, <1>9, <1>6, <1>10, <1>11, <1>12, <1>7 DEF RegistryInv

\* Registry!Close keeps RegistryInv.
LEMMA RegistryCloseKeeps ==
  ASSUME RegistryInv, Registry!RegistryAssumption, Registry!Close
  PROVE  RegistryInv'
<1>1. /\ Registry!TypeOK /\ RegistryModeInv /\ AccountsInv /\ KeySwapInv /\ RegistryLeaseInv
      /\ ProbeInv
      /\ Registry!VerifiedWithThisKey /\ Registry!SelectionStands
  BY DEF RegistryInv
<1>2. /\ UNCHANGED <<record, catalog, check, receipt, keychain, selection, boot, swap, task,
                     remembered, stale, unsettled, leases, faults>>
      /\ mode = "up" /\ mode' = "closing"
  BY DEF Registry!Close, Registry!registry
<1>3. SameAccounts
  BY <1>2, RegistrySameRecords
<1>4. Registry!TypeOK'
  BY <1>1, <1>2 DEF Registry!TypeOK
<1>5. RegistryModeInv'
  BY <1>1, <1>2 DEF RegistryModeInv
<1>6. AccountsInv'
  BY <1>1, <1>3, <1>2, RegistryAccountsRest DEF Registry!Close
<1>7. KeySwapInv'
  BY <1>1, <1>3, <1>2, RegistrySwapRests DEF Registry!Close
<1>8. RegistryLeaseInv'
  BY <1>1, <1>3, <1>2, RegistryLeaseRests DEF Registry!Close
<1>9. ProbeInv'
  BY <1>1, <1>3, <1>2, RegistryProbeRests DEF Registry!Close
<1>10. Registry!VerifiedWithThisKey'
  BY <1>1, <1>3, <1>2, RegistryVerifiedRests DEF Registry!Close
<1>11. Registry!SelectionStands'
  BY <1>1, <1>3, <1>2, RegistrySelectionRests DEF Registry!Close
<1> QED
  BY <1>4, <1>5, <1>6, <1>7, <1>8, <1>9, <1>10, <1>11 DEF RegistryInv

\* Registry!Stop keeps RegistryInv.
LEMMA RegistryStopKeeps ==
  ASSUME RegistryInv, Registry!RegistryAssumption, Registry!Stop
  PROVE  RegistryInv'
<1>1. /\ Registry!TypeOK /\ RegistryModeInv /\ AccountsInv /\ KeySwapInv /\ RegistryLeaseInv
      /\ ProbeInv
      /\ Registry!VerifiedWithThisKey /\ Registry!SelectionStands
  BY DEF RegistryInv
<1>2. /\ UNCHANGED <<record, catalog, check, receipt, keychain, selection, boot, unsettled,
                     leases, faults>>
      /\ mode' = "down" /\ boot < MaxBoots /\ swap' = None /\ remembered' = None
      /\ task' = [t \in Task |-> None] /\ stale' = [c \in Connection |-> {}]
  BY DEF Registry!Stop, Registry!registry
<1>3. SameAccounts
  BY <1>2, RegistrySameRecords
<1>4. Registry!TypeOK'
  BY <1>1, <1>2 DEF Registry!TypeOK
<1>5. RegistryModeInv'
  BY <1>1, <1>2 DEF RegistryModeInv
<1>6. KeySwapInv'
  BY <1>2 DEF KeySwapInv
<1>7. RegistryLeaseInv'
  BY <1>2 DEF RegistryLeaseInv, Registry!LeaseProtects
<1>8. ProbeInv'
  BY <1>1, <1>2 DEF ProbeInv, Registry!ProbePaidOnce, PendingProbe
<1>9. AccountsInv'
  BY <1>1, <1>3, <1>2, RegistryAccountsRest DEF Registry!Stop
<1>10. Registry!VerifiedWithThisKey'
  BY <1>1, <1>3, <1>2, RegistryVerifiedRests DEF Registry!Stop
<1>11. Registry!SelectionStands'
  BY <1>1, <1>3, <1>2, RegistrySelectionRests DEF Registry!Stop
<1> QED
  BY <1>4, <1>5, <1>9, <1>6, <1>7, <1>8, <1>10, <1>11 DEF RegistryInv

\* Registry!Start keeps RegistryInv.
LEMMA RegistryStartKeeps ==
  ASSUME RegistryInv, Registry!RegistryAssumption, Registry!Start
  PROVE  RegistryInv'
<1>1. /\ Registry!TypeOK /\ RegistryModeInv /\ AccountsInv /\ KeySwapInv /\ RegistryLeaseInv
      /\ ProbeInv
      /\ Registry!VerifiedWithThisKey /\ Registry!SelectionStands
  BY DEF RegistryInv
<1>2. /\ UNCHANGED <<check, receipt, keychain, selection, swap, task, remembered, unsettled,
                     leases, faults>>
      /\ mode = "down" /\ mode' = "deleting" /\ boot' = boot + 1
      /\ \A c \in Connection : catalog'[c] = catalog[c] \/ catalog'[c] = None
      /\ catalog' \in [Connection -> Registry!CatalogType \cup {None}]
  BY <1>1 DEF Registry!Start, Registry!TypeOK
<1>3. stale' = [c \in Connection |-> IF c \in Registry!Present THEN record[c].pending ELSE {}]
  BY DEF Registry!Start
<1>4. ASSUME NEW c \in Connection
      PROVE  /\ record'[c] \in Registry!RecordType \cup {None}
             /\ record'[c] = None <=> record[c] = None
             /\ record[c] # None => /\ record'[c].account = record[c].account
                                    /\ record'[c].pending = record[c].pending
  <2>1. CASE stale'[c] = {}
    <3>1. record'[c] = record[c]
      BY <2>1 DEF Registry!Start
    <3> QED
      BY <1>1, <3>1 DEF Registry!TypeOK
  <2>2. CASE stale'[c] # {}
    <3>1. /\ c \in Registry!Present /\ record[c].pending # {} /\ record[c] # None
          /\ record'[c] = Registry!Invalidated([record[c] EXCEPT !.account = None])
      BY <1>3, <2>2 DEF Registry!Start, Registry!Present
    <3>2. record[c].account = None /\ record[c] \in Registry!RecordType
      BY <1>1, <3>1, RegistryPresentType DEF AccountsInv
    <3>3. /\ [record[c] EXCEPT !.account = None] \in Registry!RecordType
          /\ [record[c] EXCEPT !.account = None].account = None
          /\ [record[c] EXCEPT !.account = None].pending = record[c].pending
      BY <3>2 DEF Registry!RecordType
    <3> QED
      BY <3>1, <3>2, <3>3, RegistryInvalidatedType, RegistrySomebody
  <2> QED
    BY <2>1, <2>2
<1>5. record' \in [Connection -> Registry!RecordType \cup {None}]
  BY <1>4 DEF Registry!Start
<1>6. SameAccounts
  BY <1>4 DEF SameAccounts
<1>7. stale' \in [Connection -> SUBSET Registry!RequestId]
  BY <1>1, <1>3, RegistryPresentType DEF Registry!RecordType
<1>8. boot' \in 1 .. MaxBoots
  <2>1. boot \in 1 .. MaxBoots /\ boot < MaxBoots /\ MaxBoots \in Nat
    BY <1>1, <1>2, Registry!RegistryAssumption
      DEF Registry!TypeOK, RegistryModeInv, Registry!RegistryAssumption
  <2> QED
    BY <1>2, <2>1
<1>9. Registry!TypeOK'
  BY <1>1, <1>5, <1>7, <1>8, <1>2 DEF Registry!TypeOK
<1>10. RegistryModeInv'
  <2>1. \A c \in Connection : stale'[c] # {} =>
            record'[c] # None /\ stale'[c] \subseteq record'[c].pending
    BY <1>3, <1>4 DEF Registry!Present
  <2>2. \A r \in Registry!RequestId : receipt'[r] # None =>
          receipt'[r].boot <= boot' /\ receipt'[r].boot < boot'
    BY <1>1, <1>2 DEF RegistryModeInv, Registry!TypeOK, Registry!ReceiptType
  <2> QED
    BY <1>1, <1>2, <2>1, <2>2 DEF RegistryModeInv
<1>11. AccountsInv'
  BY <1>1, <1>6, <1>2, RegistryAccountsRest DEF Registry!Start
<1>12. KeySwapInv'
  BY <1>1, <1>6, <1>2, RegistrySwapRests DEF Registry!Start
<1>13. RegistryLeaseInv'
  BY <1>1, <1>6, <1>2, RegistryLeaseRests DEF Registry!Start
<1>14. ProbeInv'
  BY <1>1, <1>6, <1>2, RegistryProbeRests DEF Registry!Start
<1>15. Registry!VerifiedWithThisKey'
  BY <1>1, <1>6, <1>2, RegistryVerifiedRests DEF Registry!Start
<1>16. Registry!SelectionStands'
  BY <1>1, <1>6, <1>2, RegistrySelectionRests DEF Registry!Start
<1> QED
  BY <1>9, <1>10, <1>11, <1>12, <1>13, <1>14, <1>15, <1>16 DEF RegistryInv

\* Registry!DeleteStale keeps RegistryInv.
LEMMA RegistryDeleteStaleKeeps ==
  ASSUME RegistryInv, Registry!RegistryAssumption, NEW c \in Connection, Registry!DeleteStale(c)
  PROVE  RegistryInv'
<1>1. /\ Registry!TypeOK /\ RegistryModeInv /\ AccountsInv /\ KeySwapInv /\ RegistryLeaseInv
      /\ ProbeInv
      /\ Registry!VerifiedWithThisKey /\ Registry!SelectionStands
  BY DEF RegistryInv
<1>2. /\ UNCHANGED <<record, catalog, check, receipt, selection, mode, boot, swap, task,
                     remembered, unsettled, leases>>
      /\ mode = "deleting" /\ stale[c] # {}
      /\ stale' = [stale EXCEPT ![c] = {}]
      /\ keychain' = [a \in Registry!RequestId |-> IF a \in stale[c] THEN None ELSE keychain[a]]
  BY DEF Registry!DeleteStale, Registry!registry
<1>3. faults' \in 0 .. MaxFaults
  BY <1>1, Registry!RegistryAssumption
    DEF Registry!DeleteStale, Registry!Fault, Registry!TypeOK, Registry!RegistryAssumption
<1>4. /\ c \in Registry!Present /\ stale[c] \subseteq record[c].pending /\ record[c].account = None
      /\ swap = None /\ \A t \in Task : task[t] = None
  BY <1>1, <1>2 DEF Registry!DeleteStale, RegistryModeInv, AccountsInv, Registry!Present
<1>5. SameAccounts
  BY <1>2, RegistrySameRecords
<1>6. /\ Registry!Present' = Registry!Present
      /\ \A d \in Registry!Present : Registry!Accounts(d)' = Registry!Accounts(d)
  BY <1>5, RegistryPresentSame
<1>7. Registry!TypeOK'
  BY <1>1, <1>2, <1>3 DEF Registry!TypeOK
<1>8. RegistryModeInv'
  BY <1>1, <1>2 DEF RegistryModeInv, Registry!TypeOK
<1>9. AccountsInv'
  <2>1. Registry!KeysAreNamed'
    BY <1>1, <1>6, <1>2 DEF AccountsInv, Registry!KeysAreNamed
  <2>2. ASSUME NEW d \in Registry!Present, record[d].account # None
        PROVE  keychain'[record[d].account] # None
    <3>1. /\ record[d].account \in Registry!Accounts(d) /\ record[d].account \in Registry!RequestId
          /\ d # c
      BY <1>1, <1>4, <2>2, RegistryPresentType DEF Registry!Accounts, Registry!RecordType
    <3>2. record[d].account \notin stale[c]
      BY <1>1, <1>4, <3>1 DEF AccountsInv, Registry!Accounts
    <3> QED
      BY <1>1, <1>2, <2>2, <3>1, <3>2 DEF AccountsInv
  <2> QED
    BY <1>1, <1>6, <1>2, <2>1, <2>2 DEF AccountsInv
<1>10. KeySwapInv'
  BY <1>4, <1>2 DEF KeySwapInv
<1>11. RegistryLeaseInv'
  BY <1>1, <1>4, <1>2 DEF RegistryLeaseInv, Registry!LeaseProtects
<1>12. ProbeInv'
  BY <1>1, <1>5, <1>2, RegistryProbeRests DEF Registry!DeleteStale
<1>13. Registry!VerifiedWithThisKey'
  BY <1>1, <1>5, <1>2, RegistryVerifiedRests DEF Registry!DeleteStale
<1>14. Registry!SelectionStands'
  BY <1>1, <1>5, <1>2, RegistrySelectionRests DEF Registry!DeleteStale
<1> QED
  BY <1>7, <1>8, <1>9, <1>10, <1>11, <1>12, <1>13, <1>14 DEF RegistryInv

\* Registry!KeepMarker keeps RegistryInv.
LEMMA RegistryKeepMarkerKeeps ==
  ASSUME RegistryInv, Registry!RegistryAssumption, NEW c \in Connection,
         NEW deleted \in SUBSET stale[c], Registry!KeepMarker(c, deleted)
  PROVE  RegistryInv'
<1>1. /\ Registry!TypeOK /\ RegistryModeInv /\ AccountsInv /\ KeySwapInv /\ RegistryLeaseInv
      /\ ProbeInv
      /\ Registry!VerifiedWithThisKey /\ Registry!SelectionStands
  BY DEF RegistryInv
<1>2. /\ UNCHANGED <<record, catalog, check, receipt, selection, mode, boot, swap, task,
                     remembered, unsettled, leases>>
      /\ mode = "deleting" /\ stale[c] # {}
      /\ stale' = [stale EXCEPT ![c] = {}]
      /\ keychain' = [a \in Registry!RequestId |-> IF a \in deleted THEN None ELSE keychain[a]]
  BY DEF Registry!KeepMarker, Registry!registry
<1>3. faults' \in 0 .. MaxFaults
  BY <1>1, Registry!RegistryAssumption
    DEF Registry!KeepMarker, Registry!Fault, Registry!TypeOK, Registry!RegistryAssumption
<1>4. /\ c \in Registry!Present /\ deleted \subseteq record[c].pending /\ record[c].account = None
      /\ swap = None /\ \A t \in Task : task[t] = None
  BY <1>1, <1>2 DEF Registry!KeepMarker, RegistryModeInv, AccountsInv, Registry!Present
<1>5. SameAccounts
  BY <1>2, RegistrySameRecords
<1>6. /\ Registry!Present' = Registry!Present
      /\ \A d \in Registry!Present : Registry!Accounts(d)' = Registry!Accounts(d)
  BY <1>5, RegistryPresentSame
<1>7. Registry!TypeOK'
  BY <1>1, <1>2, <1>3 DEF Registry!TypeOK
<1>8. RegistryModeInv'
  BY <1>1, <1>2 DEF RegistryModeInv, Registry!TypeOK
<1>9. AccountsInv'
  <2>1. Registry!KeysAreNamed'
    BY <1>1, <1>6, <1>2 DEF AccountsInv, Registry!KeysAreNamed
  <2>2. ASSUME NEW d \in Registry!Present, record[d].account # None
        PROVE  keychain'[record[d].account] # None
    <3>1. /\ record[d].account \in Registry!Accounts(d) /\ record[d].account \in Registry!RequestId
          /\ d # c
      BY <1>1, <1>4, <2>2, RegistryPresentType DEF Registry!Accounts, Registry!RecordType
    <3>2. record[d].account \notin deleted
      BY <1>1, <1>4, <3>1 DEF AccountsInv, Registry!Accounts
    <3> QED
      BY <1>1, <1>2, <2>2, <3>1, <3>2 DEF AccountsInv
  <2> QED
    BY <1>1, <1>6, <1>2, <2>1, <2>2 DEF AccountsInv
<1>10. KeySwapInv'
  BY <1>4, <1>2 DEF KeySwapInv
<1>11. RegistryLeaseInv'
  BY <1>1, <1>4, <1>2 DEF RegistryLeaseInv, Registry!LeaseProtects
<1>12. ProbeInv'
  BY <1>1, <1>5, <1>2, RegistryProbeRests DEF Registry!KeepMarker
<1>13. Registry!VerifiedWithThisKey'
  BY <1>1, <1>5, <1>2, RegistryVerifiedRests DEF Registry!KeepMarker
<1>14. Registry!SelectionStands'
  BY <1>1, <1>5, <1>2, RegistrySelectionRests DEF Registry!KeepMarker
<1> QED
  BY <1>7, <1>8, <1>9, <1>10, <1>11, <1>12, <1>13, <1>14 DEF RegistryInv

\* Registry!ClearMarker keeps RegistryInv.
LEMMA RegistryClearMarkerKeeps ==
  ASSUME RegistryInv, Registry!RegistryAssumption, NEW c \in Connection, Registry!ClearMarker(c)
  PROVE  RegistryInv'
<1>1. /\ Registry!TypeOK /\ RegistryModeInv /\ AccountsInv /\ KeySwapInv /\ RegistryLeaseInv
      /\ ProbeInv
      /\ Registry!VerifiedWithThisKey /\ Registry!SelectionStands
  BY DEF RegistryInv
<1> DEFINE rec == Registry!Invalidated([record[c] EXCEPT !.account = None, !.pending = {}])
<1>2. /\ UNCHANGED <<check, receipt, keychain, selection, mode, boot, swap, task, remembered,
                     stale, unsettled, leases, faults>>
      /\ mode = "deleting" /\ c \in Registry!Present /\ stale[c] = {} /\ record[c].pending # {}
      /\ \A a \in record[c].pending : keychain[a] = None
      /\ record' = [record EXCEPT ![c] = rec] /\ catalog' = [catalog EXCEPT ![c] = None]
  BY DEF Registry!ClearMarker, Registry!process
<1>3. record[c] \in Registry!RecordType /\ record[c] # None /\ record[c].account = None
  BY <1>1, <1>2, RegistryPresentType DEF AccountsInv, Registry!Present
<1>4. rec \in Registry!RecordType /\ rec.account = None /\ rec.pending = {} /\ rec # None
  <2>1. [record[c] EXCEPT !.account = None, !.pending = {}] \in Registry!RecordType
    BY <1>3 DEF Registry!RecordType
  <2> QED
    BY <1>3, <2>1, RegistryInvalidatedType, RegistrySomebody DEF Registry!RecordType
<1> HIDE DEF rec
<1>5. /\ record' \in [Connection -> Registry!RecordType \cup {None}] /\ record'[c] = rec
      /\ \A d \in Connection \ {c} : record'[d] = record[d]
      /\ catalog' \in [Connection -> Registry!CatalogType \cup {None}] /\ catalog'[c] = None
      /\ \A d \in Connection \ {c} : catalog'[d] = catalog[d]
  BY <1>1, <1>4, <1>2 DEF Registry!TypeOK
<1>6. /\ Registry!Present' = Registry!Present
      /\ \A d \in Registry!Present \ {c} : Registry!Accounts(d)' = Registry!Accounts(d)
      /\ Registry!Accounts(c)' = {}
  BY <1>3, <1>4, <1>5 DEF Registry!Present, Registry!Accounts
<1>7. swap = None /\ \A t \in Task : task[t] = None
  BY <1>1, <1>2 DEF RegistryModeInv
<1>8. Registry!TypeOK'
  BY <1>1, <1>5, <1>2 DEF Registry!TypeOK
<1>9. RegistryModeInv'
  BY <1>1, <1>5, <1>2 DEF RegistryModeInv
<1>10. AccountsInv'
  <2>1. Registry!KeysAreNamed'
    <3> SUFFICES ASSUME NEW a \in Registry!RequestId, keychain[a] # None
                 PROVE  \E d \in Registry!Present : a \in Registry!Accounts(d)'
      BY <1>6, <1>2 DEF Registry!KeysAreNamed
    <3>1. PICK d \in Registry!Present : a \in Registry!Accounts(d)
      BY <1>1 DEF AccountsInv, Registry!KeysAreNamed
    <3>2. d # c
      BY <1>3, <1>2, <3>1 DEF Registry!Accounts
    <3> QED
      BY <1>6, <3>1, <3>2
  <2>2. \A d \in Registry!Present : record'[d].account # None =>
            keychain'[record'[d].account] # None
    BY <1>1, <1>4, <1>5, <1>2 DEF AccountsInv, Registry!Present
  <2>3. \A d \in Registry!Present : record'[d].pending # {} => record'[d].account = None
    BY <1>1, <1>4, <1>5 DEF AccountsInv, Registry!Present
  <2>4. \A d \in Registry!Present : Registry!Accounts(d)' \subseteq Registry!Accounts(d)
    BY <1>6
  <2> QED
    BY <1>1, <1>6, <1>2, <2>1, <2>2, <2>3, <2>4 DEF AccountsInv
<1>11. KeySwapInv'
  BY <1>7, <1>2 DEF KeySwapInv
<1>12. RegistryLeaseInv'
  BY <1>1, <1>2, RegistryLeaseRests
<1>13. ProbeInv'
  BY <1>1, <1>2, RegistryProbeRests
<1>14. Registry!VerifiedWithThisKey'
  BY <1>1, <1>5, <1>6 DEF Registry!VerifiedWithThisKey, Registry!Present
<1>15. Registry!SelectionStands'
  BY <1>1, <1>6, <1>2 DEF Registry!SelectionStands
<1> QED
  BY <1>8, <1>9, <1>10, <1>11, <1>12, <1>13, <1>14, <1>15 DEF RegistryInv

\* Registry!FinishStart keeps RegistryInv.
LEMMA RegistryFinishStartKeeps ==
  ASSUME RegistryInv, Registry!RegistryAssumption, Registry!FinishStart
  PROVE  RegistryInv'
<1>1. /\ Registry!TypeOK /\ RegistryModeInv /\ AccountsInv /\ KeySwapInv /\ RegistryLeaseInv
      /\ ProbeInv
      /\ Registry!VerifiedWithThisKey /\ Registry!SelectionStands
  BY DEF RegistryInv
<1>2. /\ UNCHANGED <<record, catalog, keychain, selection, boot, swap, task, remembered,
                     stale, unsettled, leases, faults>>
      /\ mode = "deleting" /\ mode' = "up" /\ \A c \in Connection : stale[c] = {}
      /\ check' \in {check, None}
  BY DEF Registry!FinishStart
<1>3. SameAccounts
  BY <1>2, RegistrySameRecords
<1>4. swap = None /\ remembered = None /\ \A t \in Task : task[t] = None
  BY <1>1, <1>2 DEF RegistryModeInv
<1>5. ASSUME NEW r \in Registry!RequestId
      PROVE  /\ receipt'[r] \in Registry!ReceiptType \cup {None}
             /\ receipt'[r] = None <=> receipt[r] = None
             /\ receipt[r] # None => /\ receipt'[r].spends = receipt[r].spends
                                     /\ receipt'[r].boot = receipt[r].boot
                                     /\ receipt'[r].state # "pending"
                                     /\ receipt'[r].state = receipt[r].state
                                        \/ receipt'[r].state = "unknown"
  <2>1. receipt[r] \in Registry!ReceiptType \cup {None} /\ boot \in Nat
        /\ (receipt[r] # None => receipt[r].boot < boot)
    BY <1>1, <1>2 DEF Registry!TypeOK, RegistryModeInv
  <2>2. CASE receipt[r] # None /\ receipt[r].state = "pending"
    <3>1. /\ receipt'[r] = [receipt[r] EXCEPT !.state = "unknown"]
          /\ receipt[r] \in Registry!ReceiptType
      BY <2>1, <2>2 DEF Registry!FinishStart, Registry!ReceiptType
    <3>2. /\ receipt'[r] \in Registry!ReceiptType /\ receipt'[r].spends = receipt[r].spends
          /\ receipt'[r].boot = receipt[r].boot /\ receipt'[r].state = "unknown"
      BY <3>1 DEF Registry!ReceiptType
    <3> QED
      BY <2>2, <3>2, RegistrySomebody
  <2>3. CASE ~(receipt[r] # None /\ receipt[r].state = "pending")
    BY <2>1, <2>3 DEF Registry!FinishStart
  <2> QED
    BY <2>2, <2>3
<1>6. receipt' \in [Registry!RequestId -> Registry!ReceiptType \cup {None}]
  BY <1>5 DEF Registry!FinishStart
<1>7. Registry!TypeOK'
  BY <1>1, <1>6, <1>2 DEF Registry!TypeOK
<1>8. RegistryModeInv'
  BY <1>1, <1>5, <1>2 DEF RegistryModeInv
<1>9. KeySwapInv'
  BY <1>4, <1>2 DEF KeySwapInv
<1>10. RegistryLeaseInv'
  BY <1>1, <1>4, <1>2 DEF RegistryLeaseInv, Registry!LeaseProtects
<1>11. ProbeInv'
  <2>1. \A r \in Registry!RequestId : ~PendingProbe(r)'
    BY <1>5 DEF PendingProbe
  <2>2. \A q \in unsettled' : receipt'[q] # None /\ receipt'[q].state \in {"pending", "unknown"}
                             /\ receipt'[q].spends # None
    BY <1>1, <1>5, <1>2 DEF ProbeInv, Registry!TypeOK
  <2>3. Registry!ProbePaidOnce'
    BY <1>1, <1>5, <1>2 DEF ProbeInv, Registry!ProbePaidOnce, Registry!TypeOK
  <2> QED
    BY <1>4, <1>2, <2>1, <2>2, <2>3 DEF ProbeInv
<1>12. AccountsInv'
  BY <1>1, <1>3, <1>5, <1>2, RegistryAccountsRest DEF Registry!FinishStart
<1>13. Registry!VerifiedWithThisKey'
  BY <1>1, <1>3, <1>5, <1>2, RegistryVerifiedRests DEF Registry!FinishStart
<1>14. Registry!SelectionStands'
  BY <1>1, <1>3, <1>5, <1>2, RegistrySelectionRests DEF Registry!FinishStart
<1> QED
  BY <1>7, <1>8, <1>12, <1>9, <1>10, <1>11, <1>13, <1>14 DEF RegistryInv

\* Registry!StartSwap keeps RegistryInv.
LEMMA RegistryStartSwapKeeps ==
  ASSUME RegistryInv, Registry!RegistryAssumption, NEW c \in Connection,
         NEW r \in Registry!RequestId,
         NEW value \in KeyValue
           \cup {None}, NEW rec \in Registry!RecordType, NEW deleting \in BOOLEAN,
         Registry!Serving, Registry!Fresh(r), Registry!ProviderIdle(c),
           Registry!StartSwap(c, r, value, rec, deleting),
         IF c \in Registry!Present
           THEN rec.account = record[c].account /\ rec.pending = record[c].pending
                          ELSE rec.account = None /\ rec.pending = {},
         deleting => value = None /\ ~(selection # None /\ selection.connection = c)
  PROVE  RegistryInv'
<1>1. /\ Registry!TypeOK /\ RegistryModeInv /\ AccountsInv /\ KeySwapInv /\ RegistryLeaseInv
      /\ ProbeInv
      /\ Registry!VerifiedWithThisKey /\ Registry!SelectionStands
  BY DEF RegistryInv
<1> DEFINE cleanup == rec.pending \cup ({rec.account} \ {None})
           added == IF value = None THEN {} ELSE {r}
           old == [rec EXCEPT !.account = None, !.pending = cleanup \cup added]
           new == Registry!Invalidated(old)
           took == [connection |-> c, request |-> r, value |-> value, left |-> cleanup,
                    stored |-> value = None, deleting |-> deleting]
           entry == [state |-> "pending", boot |-> boot, spends |-> None]
<1>2. cleanup \subseteq Registry!RequestId /\ cleanup \cup added \subseteq Registry!RequestId
  BY DEF Registry!RecordType
<1>3. old \in Registry!RecordType /\ old.account = None /\ old.pending = cleanup \cup added
  <2> HIDE DEF cleanup, added
  <2> QED
    BY <1>2 DEF Registry!RecordType
<1>4. /\ new \in Registry!RecordType /\ new.account = None /\ new.pending = cleanup \cup added
      /\ new # None
  <2> HIDE DEF old
  <2> QED
    BY <1>3, RegistryInvalidatedType, RegistrySomebody
<1>5. /\ record' = [record EXCEPT ![c] = new] /\ catalog' = [catalog EXCEPT ![c] = None]
      /\ receipt' = [receipt EXCEPT ![r] = entry] /\ swap' = took
      /\ UNCHANGED <<check, keychain, selection, mode, boot, task, remembered, stale,
                     unsettled, leases, faults>>
  BY DEF Registry!StartSwap, Registry!Accept
<1>6. took \in Registry!SwapType /\ took # None /\ entry \in Registry!ReceiptType /\ entry # None
      /\ entry.spends = None /\ entry.boot = boot
  <2>1. boot \in Nat
    BY <1>1, Registry!RegistryAssumption DEF Registry!TypeOK
  <2>2. took \in Registry!SwapType /\ entry \in Registry!ReceiptType
    BY <1>2, <2>1 DEF Registry!SwapType, Registry!ReceiptType
  <2> QED
    BY <2>2, RegistrySomebody
<1>7. /\ took.connection = c /\ took.request = r /\ took.value = value /\ took.left = cleanup
      /\ took.stored = (value = None) /\ took.deleting = deleting
  OBVIOUS
<1>8. cleanup = IF c \in Registry!Present THEN Registry!Accounts(c) ELSE {}
  BY DEF Registry!Accounts
<1> HIDE DEF cleanup, old, new, took, entry
<1>9. /\ record' \in [Connection -> Registry!RecordType \cup {None}] /\ record'[c] = new
      /\ \A d \in Connection \ {c} : record'[d] = record[d]
      /\ catalog' \in [Connection -> Registry!CatalogType \cup {None}] /\ catalog'[c] = None
      /\ \A d \in Connection \ {c} : catalog'[d] = catalog[d]
      /\ receipt' \in [Registry!RequestId -> Registry!ReceiptType \cup {None}]
      /\ receipt'[r] = entry
      /\ \A q \in Registry!RequestId \ {r} : receipt'[q] = receipt[q]
  BY <1>1, <1>4, <1>5, <1>6 DEF Registry!TypeOK
<1>10. /\ mode = "up" /\ swap = None /\ receipt[r] = None /\ check = None
       /\ \A t \in Task : task[t] = None
       /\ \A d \in Registry!Present \ {c} : record[d].pending = {}
       /\ \A d \in Connection : stale[d] = {}
  BY <1>1
    DEF Registry!Serving, Registry!Fresh, Registry!ProviderIdle, RegistryLeaseInv,
        Registry!LeaseProtects, RegistryModeInv, Registry!RequestId
<1>11. /\ c \in Registry!Present' /\ Registry!Present \subseteq Registry!Present'
       /\ Registry!Present' \ {c} = Registry!Present \ {c}
       /\ \A d \in Registry!Present \ {c} : Registry!Accounts(d)' = Registry!Accounts(d)
       /\ Registry!Accounts(c)' = cleanup \cup added
  BY <1>4, <1>9 DEF Registry!Present, Registry!Accounts
<1>12. /\ keychain[r] = None /\ r \notin cleanup
       /\ \A d \in Registry!Present : r \notin Registry!Accounts(d)
  BY <1>1, <1>8, <1>10 DEF AccountsInv
<1>13. Registry!TypeOK'
  BY <1>1, <1>5, <1>6, <1>9 DEF Registry!TypeOK
<1>14. RegistryModeInv'
  BY <1>1, <1>5, <1>6, <1>9, <1>10 DEF RegistryModeInv, Registry!TypeOK
<1>15. AccountsInv'
  <2>1. Registry!KeysAreNamed'
    <3> SUFFICES ASSUME NEW a \in Registry!RequestId, keychain[a] # None
                 PROVE  \E d \in Registry!Present' : a \in Registry!Accounts(d)'
      BY <1>5 DEF Registry!KeysAreNamed
    <3>1. PICK d \in Registry!Present : a \in Registry!Accounts(d)
      BY <1>1 DEF AccountsInv, Registry!KeysAreNamed
    <3> QED
      BY <1>8, <1>11, <3>1
  <2>2. ASSUME NEW q \in Registry!RequestId, receipt'[q] = None
        PROVE  keychain'[q] = None /\ \A d \in Registry!Present' : q \notin Registry!Accounts(d)'
    <3>1. q # r /\ receipt[q] = None
      BY <1>6, <1>9, <2>2
    <3> QED
      BY <1>1, <1>5, <1>8, <1>11, <3>1 DEF AccountsInv
  <2>3. ASSUME NEW d \in Registry!Present', NEW e \in Registry!Present', d # e
        PROVE  Registry!Accounts(d)' \cap Registry!Accounts(e)' = {}
    BY <1>1, <1>8, <1>11, <1>12, <2>3 DEF AccountsInv
  <2>4. ASSUME NEW d \in Registry!Present'
        PROVE  /\ record'[d].pending # {} => record'[d].account = None
               /\ record'[d].account # None => keychain'[record'[d].account] # None
    BY <1>1, <1>4, <1>5, <1>9, <1>11 DEF AccountsInv, Registry!Present
  <2> QED
    BY <2>1, <2>2, <2>3, <2>4 DEF AccountsInv
<1>16. KeySwapInv'
  <2>1. swap'.connection = c /\ swap'.request = r /\ swap'.value = value /\ swap'.left = cleanup
        /\ swap'.stored = (value = None) /\ swap'.deleting = deleting
    BY <1>5, <1>7
  <2>2. record'[c].pending = cleanup \cup added /\ record'[c].account = None
    BY <1>4, <1>9
  <2>3. \A a \in (cleanup \cup added) \ cleanup : a = r /\ value # None
    OBVIOUS
  <2>4. \A d \in Registry!Present' \ {c} : r \notin Registry!Accounts(d)'
    BY <1>11, <1>12
  <2>5. deleting => value = None /\ (selection' # None => selection'.connection # c)
    BY <1>5
  <2> QED
    BY <1>5, <1>6, <1>9, <1>10, <1>11, <1>12, <2>1, <2>2, <2>3, <2>4, <2>5 DEF KeySwapInv
<1>17. RegistryLeaseInv'
  BY <1>1, <1>5, RegistryLeaseRests
<1>18. ProbeInv'
  BY <1>1, <1>5, <1>6, <1>9, <1>10, RegistryProbeRests
<1>19. Registry!VerifiedWithThisKey'
  BY <1>1, <1>9, <1>11 DEF Registry!VerifiedWithThisKey, Registry!Present
<1>20. Registry!SelectionStands'
  BY <1>1, <1>5, <1>11 DEF Registry!SelectionStands
<1> QED
  BY <1>13, <1>14, <1>15, <1>16, <1>17, <1>18, <1>19, <1>20 DEF RegistryInv

\* Registry!SetCredential keeps RegistryInv.
LEMMA RegistrySetCredentialKeeps ==
  ASSUME RegistryInv, Registry!RegistryAssumption, NEW c \in Connection,
         NEW r \in Registry!RequestId,
         NEW value \in KeyValue \cup {None}, Registry!SetCredential(c, r, value)
  PROVE  RegistryInv'
<1> DEFINE base == IF c \in Registry!Present THEN record[c] ELSE Registry!NewRecord
           rec == [base EXCEPT !.revision = @ + 1]
<1>1. base \in Registry!RecordType
  BY RegistryPresentType DEF RegistryInv, Registry!NewRecord, Registry!RecordType
<1>2. rec \in Registry!RecordType /\ rec.account = base.account /\ rec.pending = base.pending
  <2> HIDE DEF base
  <2> QED
    BY <1>1 DEF Registry!RecordType
<1>3. /\ Registry!Serving /\ Registry!Fresh(r) /\ Registry!ProviderIdle(c)
      /\ Registry!StartSwap(c, r, value, rec, FALSE)
  BY DEF Registry!SetCredential
<1>4. IF c \in Registry!Present
          THEN rec.account = record[c].account /\ rec.pending = record[c].pending
                       ELSE rec.account = None /\ rec.pending = {}
  BY <1>2 DEF Registry!NewRecord
<1> HIDE DEF rec
<1> QED
  BY <1>2, <1>3, <1>4, RegistryStartSwapKeeps

\* Registry!Delete keeps RegistryInv.
LEMMA RegistryDeleteKeeps ==
  ASSUME RegistryInv, Registry!RegistryAssumption, NEW c \in Connection,
         NEW r \in Registry!RequestId, Registry!Delete(c, r)
  PROVE  RegistryInv'
<1> DEFINE rec == [record[c] EXCEPT !.enabled = FALSE, !.revision = @ + 1]
<1>1. c \in Registry!Present /\ record[c] \in Registry!RecordType
  BY RegistryPresentType DEF RegistryInv, Registry!Delete
<1>2. /\ rec \in Registry!RecordType /\ rec.account = record[c].account
      /\ rec.pending = record[c].pending
  <2>1. record[c].revision + 1 \in Nat
    BY <1>1 DEF Registry!RecordType
  <2>2. rec = [record[c] EXCEPT !.enabled = FALSE, !.revision = record[c].revision + 1]
    OBVIOUS
  <2> HIDE DEF rec
  <2> QED
    BY <1>1, <2>1, <2>2 DEF Registry!RecordType
<1>3. /\ Registry!Serving /\ Registry!Fresh(r) /\ Registry!ProviderIdle(c)
      /\ Registry!StartSwap(c, r, None, rec, TRUE)
      /\ ~(selection # None /\ selection.connection = c)
  BY DEF Registry!Delete
<1> HIDE DEF rec
<1> QED
  BY <1>1, <1>2, <1>3, RegistryStartSwapKeeps

\* Registry!StoreKey keeps RegistryInv.
LEMMA RegistryStoreKeyKeeps ==
  ASSUME RegistryInv, Registry!RegistryAssumption, Registry!StoreKey
  PROVE  RegistryInv'
<1>1. /\ Registry!TypeOK /\ RegistryModeInv /\ AccountsInv /\ KeySwapInv /\ RegistryLeaseInv
      /\ ProbeInv
      /\ Registry!VerifiedWithThisKey /\ Registry!SelectionStands
  BY DEF RegistryInv
<1>2. /\ UNCHANGED <<record, catalog, check, receipt, selection, mode, boot, task, remembered,
                     stale, unsettled, leases, faults>>
      /\ swap # None /\ ~swap.stored
      /\ keychain' = [keychain EXCEPT ![swap.request] = swap.value]
      /\ swap' = [swap EXCEPT !.stored = TRUE]
  BY DEF Registry!StoreKey, Registry!registry
<1>3. UNCHANGED receipt
  BY <1>2
<1>4. SameAccounts
  BY <1>2, RegistrySameRecords
<1>5. /\ swap \in Registry!SwapType /\ swap.connection \in Registry!Present
      /\ swap.request \in Registry!RequestId /\ receipt[swap.request] # None
      /\ mode \in {"up", "closing"} /\ check = None /\ \A t \in Task : task[t] = None
      /\ \A d \in Connection : stale[d] = {}
  BY <1>1
    DEF Registry!StoreKey, KeySwapInv, RegistryModeInv, Registry!TypeOK, Registry!SwapType,
        RegistryLeaseInv, Registry!LeaseProtects
<1>6. /\ Registry!Present' = Registry!Present
      /\ \A d \in Registry!Present : Registry!Accounts(d)' = Registry!Accounts(d)
  BY <1>4, RegistryPresentSame

<1>7. /\ swap' \in Registry!SwapType /\ swap' # None /\ swap'.stored
      /\ swap'.connection = swap.connection
      /\ swap'.request = swap.request /\ swap'.value = swap.value /\ swap'.left = swap.left
      /\ swap'.deleting = swap.deleting
  <2>1. /\ swap' \in Registry!SwapType /\ swap'.stored /\ swap'.connection = swap.connection
        /\ swap'.request = swap.request /\ swap'.value = swap.value /\ swap'.left = swap.left
        /\ swap'.deleting = swap.deleting
    BY <1>5, <1>2 DEF Registry!SwapType
  <2> QED
    BY <2>1, RegistrySomebody
<1>8. keychain' \in [Registry!RequestId -> KeyValue \cup {None}]
  BY <1>1, <1>5, <1>2 DEF Registry!TypeOK, Registry!SwapType
<1>9. Registry!TypeOK'
  BY <1>1, <1>7, <1>8, <1>2 DEF Registry!TypeOK
<1>10. RegistryModeInv'
  BY <1>1, <1>5, <1>2 DEF RegistryModeInv
<1>11. AccountsInv'
  <2>1. Registry!KeysAreNamed'
    <3> SUFFICES ASSUME NEW a \in Registry!RequestId, keychain'[a] # None
                 PROVE  \E d \in Registry!Present : a \in Registry!Accounts(d)
      BY <1>6 DEF Registry!KeysAreNamed
    <3>1. CASE a = swap.request
      BY <1>1, <1>5, <1>2, <3>1 DEF KeySwapInv, Registry!Accounts, Registry!TypeOK
    <3>2. CASE a # swap.request
      BY <1>1, <1>2, <3>2 DEF AccountsInv, Registry!KeysAreNamed, Registry!TypeOK
    <3> QED
      BY <3>1, <3>2
  <2>2. ASSUME NEW d \in Registry!Present, record[d].account # None
        PROVE  keychain'[record[d].account] # None
    <3>1. record[d].account \in Registry!Accounts(d) /\ record[d].account \in Registry!RequestId
          /\ d # swap.connection
      BY <1>1, <1>5, <1>2, <2>2, RegistryPresentType
        DEF Registry!Accounts, Registry!RecordType, KeySwapInv
    <3>2. record[d].account # swap.request
      BY <1>1, <1>5, <1>2, <3>1 DEF AccountsInv, KeySwapInv, Registry!Accounts
    <3> QED
      BY <1>1, <1>2, <2>2, <3>1, <3>2 DEF AccountsInv, Registry!TypeOK
  <2>3. \A q \in Registry!RequestId : receipt'[q] = None => keychain'[q] = None
    BY <1>1, <1>5, <1>2, <1>3 DEF AccountsInv, Registry!TypeOK
  <2> QED
    BY <1>1, <1>6, <1>2, <1>3, <2>1, <2>2, <2>3 DEF AccountsInv

<1>12. KeySwapInv'
  <2>1. swap.value # None => keychain'[swap.request] # None
    BY <1>1, <1>5, <1>2 DEF Registry!TypeOK
  <2>2. \A a \in record[swap.connection].pending \ swap.left :
          (a = swap.request /\ swap.value # None) \/ keychain'[a] = None
    BY <1>1, <1>5, <1>2 DEF KeySwapInv, Registry!TypeOK
  <2> QED
    BY <1>1, <1>6, <1>7, <1>2, <2>1, <2>2 DEF KeySwapInv
<1>13. RegistryLeaseInv'
  BY <1>1, <1>5, <1>2 DEF RegistryLeaseInv, Registry!LeaseProtects
<1>14. ProbeInv'
  BY <1>1, <1>4, <1>2, RegistryProbeRests DEF Registry!StoreKey
<1>15. Registry!VerifiedWithThisKey'
  BY <1>1, <1>4, <1>2, RegistryVerifiedRests DEF Registry!StoreKey
<1>16. Registry!SelectionStands'
  BY <1>1, <1>4, <1>2, RegistrySelectionRests DEF Registry!StoreKey
<1> QED
  BY <1>9, <1>10, <1>11, <1>12, <1>13, <1>14, <1>15, <1>16 DEF RegistryInv

\* Registry!DeleteOldKey keeps RegistryInv.
LEMMA RegistryDeleteOldKeyKeeps ==
  ASSUME RegistryInv, Registry!RegistryAssumption, NEW a \in Registry!RequestId,
         Registry!DeleteOldKey(a)
  PROVE  RegistryInv'
<1>1. /\ Registry!TypeOK /\ RegistryModeInv /\ AccountsInv /\ KeySwapInv /\ RegistryLeaseInv
      /\ ProbeInv
      /\ Registry!VerifiedWithThisKey /\ Registry!SelectionStands
  BY DEF RegistryInv
<1>2. /\ UNCHANGED <<record, catalog, check, receipt, selection, mode, boot, task, remembered,
                     stale, unsettled, leases, faults>>
      /\ swap # None /\ swap.stored /\ a \in swap.left
      /\ keychain' = [keychain EXCEPT ![a] = None]
      /\ swap' = [swap EXCEPT !.left = swap.left \ {a}]
  BY DEF Registry!DeleteOldKey, Registry!registry
<1>3. UNCHANGED receipt
  BY <1>2
<1>4. SameAccounts
  BY <1>2, RegistrySameRecords
<1>5. /\ swap \in Registry!SwapType /\ swap.connection \in Registry!Present
      /\ swap.request \in Registry!RequestId /\ receipt[swap.request] # None
      /\ mode \in {"up", "closing"} /\ check = None /\ \A t \in Task : task[t] = None
      /\ \A d \in Connection : stale[d] = {}
  BY <1>1
    DEF Registry!DeleteOldKey, KeySwapInv, RegistryModeInv, Registry!TypeOK, Registry!SwapType,
        RegistryLeaseInv, Registry!LeaseProtects
<1>6. /\ Registry!Present' = Registry!Present
      /\ \A d \in Registry!Present : Registry!Accounts(d)' = Registry!Accounts(d)
  BY <1>4, RegistryPresentSame

<1>7. /\ swap' \in Registry!SwapType /\ swap' # None /\ swap'.stored
      /\ swap'.connection = swap.connection
      /\ swap'.request = swap.request /\ swap'.value = swap.value
      /\ swap'.left = swap.left \ {a} /\ swap'.deleting = swap.deleting
  <2>1. /\ swap' \in Registry!SwapType /\ swap'.stored /\ swap'.connection = swap.connection
        /\ swap'.request = swap.request /\ swap'.value = swap.value
        /\ swap'.left = swap.left \ {a} /\ swap'.deleting = swap.deleting
    BY <1>5, <1>2 DEF Registry!SwapType
  <2> QED
    BY <2>1, RegistrySomebody
<1>8. keychain' \in [Registry!RequestId -> KeyValue \cup {None}]
  BY <1>1, <1>2 DEF Registry!TypeOK
<1>9. a \in record[swap.connection].pending /\ a # swap.request
  BY <1>1, <1>2 DEF KeySwapInv
<1>10. Registry!TypeOK'
  BY <1>1, <1>7, <1>8, <1>2 DEF Registry!TypeOK
<1>11. RegistryModeInv'
  BY <1>1, <1>5, <1>2 DEF RegistryModeInv
<1>12. AccountsInv'
  <2>1. Registry!KeysAreNamed'
    BY <1>1, <1>6, <1>2 DEF AccountsInv, Registry!KeysAreNamed, Registry!TypeOK
  <2>2. ASSUME NEW d \in Registry!Present, record[d].account # None
        PROVE  keychain'[record[d].account] # None
    <3>1. record[d].account \in Registry!Accounts(d) /\ record[d].account \in Registry!RequestId
          /\ d # swap.connection
      BY <1>1, <1>5, <1>2, <2>2, RegistryPresentType
        DEF Registry!Accounts, Registry!RecordType, KeySwapInv
    <3>2. record[d].account # a
      BY <1>1, <1>5, <1>9, <3>1 DEF AccountsInv, Registry!Accounts
    <3> QED
      BY <1>1, <1>2, <2>2, <3>1, <3>2 DEF AccountsInv, Registry!TypeOK
  <2>3. \A q \in Registry!RequestId : receipt'[q] = None => keychain'[q] = None
    BY <1>1, <1>5, <1>2, <1>3 DEF AccountsInv, Registry!TypeOK
  <2> QED
    BY <1>1, <1>6, <1>2, <1>3, <2>1, <2>2, <2>3 DEF AccountsInv

<1>13. KeySwapInv'
  <2>1. keychain'[swap.request] = keychain[swap.request]
    BY <1>1, <1>5, <1>9, <1>2 DEF Registry!TypeOK
  <2>2. \A b \in record[swap.connection].pending \ swap'.left :
          (b = swap.request /\ swap.value # None) \/ keychain'[b] = None
    <3> SUFFICES ASSUME NEW b \in record[swap.connection].pending, b \notin swap'.left,
                        ~(b = swap.request /\ swap.value # None)
                 PROVE  keychain'[b] = None
      OBVIOUS
    <3>1. b = a \/ keychain[b] = None
      BY <1>1, <1>7, <1>2 DEF KeySwapInv
    <3> QED
      BY <1>1, <1>2, <3>1 DEF Registry!TypeOK
  <2> QED
    BY <1>1, <1>6, <1>7, <1>2, <2>1, <2>2 DEF KeySwapInv
<1>14. RegistryLeaseInv'
  BY <1>1, <1>5, <1>2 DEF RegistryLeaseInv, Registry!LeaseProtects
<1>15. ProbeInv'
  BY <1>1, <1>4, <1>2, RegistryProbeRests DEF Registry!DeleteOldKey
<1>16. Registry!VerifiedWithThisKey'
  BY <1>1, <1>4, <1>2, RegistryVerifiedRests DEF Registry!DeleteOldKey
<1>17. Registry!SelectionStands'
  BY <1>1, <1>4, <1>2, RegistrySelectionRests DEF Registry!DeleteOldKey
<1> QED
  BY <1>10, <1>11, <1>12, <1>13, <1>14, <1>15, <1>16, <1>17 DEF RegistryInv

\* Registry!SwapFails keeps RegistryInv.
LEMMA RegistrySwapFailsKeeps ==
  ASSUME RegistryInv, Registry!RegistryAssumption, NEW kept \in BOOLEAN,
         Registry!SwapFails(kept)
  PROVE  RegistryInv'
<1>1. /\ Registry!TypeOK /\ RegistryModeInv /\ AccountsInv /\ KeySwapInv /\ RegistryLeaseInv
      /\ ProbeInv
      /\ Registry!VerifiedWithThisKey /\ Registry!SelectionStands
  BY DEF RegistryInv
<1>2. /\ UNCHANGED <<record, catalog, check, selection, mode, boot, task, remembered, stale,
                     unsettled, leases>>
      /\ swap # None /\ swap' = None /\ (~swap.stored \/ swap.left # {})
      /\ keychain' = [keychain EXCEPT ![swap.request] = IF kept THEN swap.value ELSE None]
      /\ receipt' = [receipt EXCEPT ![swap.request].state = "failed"]
  BY DEF Registry!SwapFails, Registry!Settle
<1>3. faults' \in 0 .. MaxFaults
  BY <1>1, Registry!RegistryAssumption
    DEF Registry!SwapFails, Registry!Fault, Registry!TypeOK, Registry!RegistryAssumption
<1>4. SameAccounts
  BY <1>2, RegistrySameRecords
<1>5. /\ swap \in Registry!SwapType /\ swap.connection \in Registry!Present
      /\ swap.request \in Registry!RequestId /\ receipt[swap.request] # None
      /\ mode \in {"up", "closing"} /\ check = None /\ \A t \in Task : task[t] = None
      /\ \A d \in Connection : stale[d] = {}
  BY <1>1
    DEF Registry!SwapFails, KeySwapInv, RegistryModeInv, Registry!TypeOK, Registry!SwapType,
        RegistryLeaseInv, Registry!LeaseProtects
<1>6. /\ Registry!Present' = Registry!Present
      /\ \A d \in Registry!Present : Registry!Accounts(d)' = Registry!Accounts(d)
  BY <1>4, RegistryPresentSame
<1>7. ASSUME NEW q \in Registry!RequestId
      PROVE  /\ receipt'[q] \in Registry!ReceiptType \cup {None}
             /\ receipt'[q] = None <=> receipt[q] = None
             /\ receipt[q] # None => /\ receipt'[q].spends = receipt[q].spends
                                     /\ receipt'[q].boot = receipt[q].boot
             /\ q # swap.request => receipt'[q] = receipt[q]
             /\ q = swap.request => receipt'[q].spends = None /\ receipt[q].spends = None
  <2>1. CASE q = swap.request
    <3>1. receipt[q] \in Registry!ReceiptType /\ receipt[q].spends = None
      BY <1>1, <1>5, <1>2, <2>1 DEF Registry!TypeOK, KeySwapInv
    <3>2. receipt'[q] = [receipt[q] EXCEPT !.state = "failed"]
      BY <1>1, <1>5, <1>2, <2>1 DEF Registry!TypeOK
    <3>3. /\ receipt'[q] \in Registry!ReceiptType /\ receipt'[q].spends = receipt[q].spends
          /\ receipt'[q].boot = receipt[q].boot
      BY <3>1, <3>2 DEF Registry!ReceiptType
    <3> QED
      BY <1>5, <2>1, <3>1, <3>3, RegistrySomebody
  <2>2. CASE q # swap.request
    BY <1>1, <1>2, <2>2 DEF Registry!TypeOK
  <2> QED
    BY <2>1, <2>2
<1>8. receipt' \in [Registry!RequestId -> Registry!ReceiptType \cup {None}]
  BY <1>1, <1>2, <1>7 DEF Registry!TypeOK
<1>9. keychain' \in [Registry!RequestId -> KeyValue \cup {None}]
  BY <1>1, <1>5, <1>2 DEF Registry!TypeOK, Registry!SwapType
<1>10. Registry!TypeOK'
  BY <1>1, <1>3, <1>9, <1>2, <1>8 DEF Registry!TypeOK
<1>11. RegistryModeInv'
  BY <1>1, <1>5, <1>2, <1>7 DEF RegistryModeInv
<1>12. AccountsInv'
  <2>1. Registry!KeysAreNamed'
    <3> SUFFICES ASSUME NEW b \in Registry!RequestId, keychain'[b] # None
                 PROVE  \E d \in Registry!Present : b \in Registry!Accounts(d)
      BY <1>6 DEF Registry!KeysAreNamed
    <3>1. CASE b = swap.request
      BY <1>1, <1>5, <1>2, <3>1 DEF KeySwapInv, Registry!Accounts, Registry!TypeOK
    <3>2. CASE b # swap.request
      BY <1>1, <1>2, <3>2 DEF AccountsInv, Registry!KeysAreNamed, Registry!TypeOK
    <3> QED
      BY <3>1, <3>2
  <2>2. ASSUME NEW d \in Registry!Present, record[d].account # None
        PROVE  keychain'[record[d].account] # None
    <3>1. record[d].account \in Registry!Accounts(d) /\ record[d].account \in Registry!RequestId
          /\ d # swap.connection
      BY <1>1, <1>5, <1>2, <2>2, RegistryPresentType
        DEF Registry!Accounts, Registry!RecordType, KeySwapInv
    <3>2. record[d].account # swap.request
      BY <1>1, <1>5, <1>2, <3>1 DEF AccountsInv, KeySwapInv, Registry!Accounts
    <3> QED
      BY <1>1, <1>2, <2>2, <3>1, <3>2 DEF AccountsInv, Registry!TypeOK
  <2>3. \A q \in Registry!RequestId : receipt'[q] = None => keychain'[q] = None
    BY <1>1, <1>5, <1>2, <1>7 DEF AccountsInv, Registry!TypeOK
  <2> QED
    BY <1>1, <1>6, <1>2, <1>7, <2>1, <2>2, <2>3 DEF AccountsInv

<1>13. KeySwapInv'
  BY <1>2 DEF KeySwapInv
<1>14. RegistryLeaseInv'
  BY <1>1, <1>5, <1>2 DEF RegistryLeaseInv, Registry!LeaseProtects
<1>15. ProbeInv'
  BY <1>1, <1>4, <1>2, <1>7, RegistryProbeRests DEF Registry!SwapFails
<1>16. Registry!VerifiedWithThisKey'
  BY <1>1, <1>4, <1>2, <1>7, RegistryVerifiedRests DEF Registry!SwapFails
<1>17. Registry!SelectionStands'
  BY <1>1, <1>4, <1>2, <1>7, RegistrySelectionRests DEF Registry!SwapFails
<1> QED
  BY <1>10, <1>11, <1>12, <1>13, <1>14, <1>15, <1>16, <1>17 DEF RegistryInv

\* Registry!FinishSwap keeps RegistryInv.
LEMMA RegistryFinishSwapKeeps ==
  ASSUME RegistryInv, Registry!RegistryAssumption, Registry!FinishSwap
  PROVE  RegistryInv'
<1>1. /\ Registry!TypeOK /\ RegistryModeInv /\ AccountsInv /\ KeySwapInv /\ RegistryLeaseInv
      /\ ProbeInv
      /\ Registry!VerifiedWithThisKey /\ Registry!SelectionStands
  BY DEF RegistryInv
<1>2. PICK c, account : /\ c = swap.connection
                        /\ account = IF swap.value = None THEN None ELSE swap.request
  OBVIOUS
<1> DEFINE base == [record[c] EXCEPT !.account = account, !.pending = {}]
           new == IF swap.deleting THEN None ELSE Registry!Invalidated(base)
<1>3. /\ UNCHANGED <<check, keychain, selection, mode, boot, task, remembered, stale, unsettled,
                     leases, faults>>
      /\ swap # None /\ swap' = None /\ swap.stored /\ swap.left = {}
      /\ receipt' = [receipt EXCEPT ![swap.request].state = "succeeded"]
      /\ record' = [record EXCEPT ![c] = new] /\ catalog' = [catalog EXCEPT ![c] = None]
  BY <1>2 DEF Registry!FinishSwap, Registry!Settle
<1>4. /\ swap \in Registry!SwapType /\ c \in Registry!Present /\ c \in Connection
      /\ record[c] \in Registry!RecordType
      /\ swap.request \in Registry!RequestId /\ receipt[swap.request] # None
      /\ mode \in {"up", "closing"} /\ check = None /\ \A t \in Task : task[t] = None
      /\ \A d \in Connection : stale[d] = {}
  BY <1>1, <1>3, <1>2, RegistryPresentType
    DEF KeySwapInv, RegistryModeInv, Registry!TypeOK, Registry!SwapType, RegistryLeaseInv,
        Registry!LeaseProtects
<1>5. ASSUME NEW q \in Registry!RequestId
      PROVE  /\ receipt'[q] \in Registry!ReceiptType \cup {None}
             /\ receipt'[q] = None <=> receipt[q] = None
             /\ receipt[q] # None => /\ receipt'[q].spends = receipt[q].spends
                                     /\ receipt'[q].boot = receipt[q].boot
             /\ q # swap.request => receipt'[q] = receipt[q]
             /\ q = swap.request => receipt'[q].spends = None /\ receipt[q].spends = None
  <2>1. CASE q = swap.request
    <3>1. receipt[q] \in Registry!ReceiptType /\ receipt[q].spends = None
      BY <1>1, <1>4, <1>3, <2>1 DEF Registry!TypeOK, KeySwapInv
    <3>2. receipt'[q] = [receipt[q] EXCEPT !.state = "succeeded"]
      BY <1>1, <1>4, <1>3, <2>1 DEF Registry!TypeOK
    <3>3. /\ receipt'[q] \in Registry!ReceiptType /\ receipt'[q].spends = receipt[q].spends
          /\ receipt'[q].boot = receipt[q].boot
      BY <3>1, <3>2 DEF Registry!ReceiptType
    <3> QED
      BY <1>4, <2>1, <3>1, <3>3, RegistrySomebody
  <2>2. CASE q # swap.request
    BY <1>1, <1>3, <2>2 DEF Registry!TypeOK
  <2> QED
    BY <2>1, <2>2
<1>6. receipt' \in [Registry!RequestId -> Registry!ReceiptType \cup {None}]
  BY <1>1, <1>3, <1>5 DEF Registry!TypeOK
<1>7. base \in Registry!RecordType /\ base.account = account /\ base.pending = {}
  BY <1>4, <1>2 DEF Registry!RecordType
<1>8. /\ new \in Registry!RecordType \cup {None}
      /\ swap.deleting => new = None
      /\ ~swap.deleting => new # None /\ new.account = account /\ new.pending = {}
  <2> HIDE DEF base
  <2> QED
    BY <1>7, RegistryInvalidatedType, RegistrySomebody
<1> HIDE DEF new
<1>9. /\ record' \in [Connection -> Registry!RecordType \cup {None}] /\ record'[c] = new
      /\ \A d \in Connection \ {c} : record'[d] = record[d]
      /\ catalog' \in [Connection -> Registry!CatalogType \cup {None}] /\ catalog'[c] = None
      /\ \A d \in Connection \ {c} : catalog'[d] = catalog[d]
  BY <1>1, <1>4, <1>8, <1>3 DEF Registry!TypeOK
<1>10. /\ Registry!Present' \ {c} = Registry!Present \ {c}
       /\ (c \in Registry!Present' <=> ~swap.deleting)
       /\ \A d \in Registry!Present \ {c} : Registry!Accounts(d)' = Registry!Accounts(d)
       /\ c \in Registry!Present' => Registry!Accounts(c)' = {account} \ {None}
  BY <1>4, <1>8, <1>9 DEF Registry!Present, Registry!Accounts
<1>11. /\ account # None => account = swap.request /\ account \in Registry!Accounts(c)
                            /\ keychain[account] # None
       /\ swap.deleting => account = None
       /\ \A a \in Registry!Accounts(c) : a = account \/ keychain[a] = None
  BY <1>1, <1>4, <1>3, <1>2 DEF KeySwapInv, Registry!Accounts
<1>12. Registry!TypeOK'
  BY <1>1, <1>9, <1>3, <1>6 DEF Registry!TypeOK
<1>13. RegistryModeInv'
  BY <1>1, <1>4, <1>3, <1>5 DEF RegistryModeInv
<1>14. AccountsInv'
  <2>1. Registry!KeysAreNamed'
    <3> SUFFICES ASSUME NEW a \in Registry!RequestId, keychain[a] # None
                 PROVE  \E d \in Registry!Present' : a \in Registry!Accounts(d)'
      BY <1>3 DEF Registry!KeysAreNamed
    <3>1. PICK d \in Registry!Present : a \in Registry!Accounts(d)
      BY <1>1 DEF AccountsInv, Registry!KeysAreNamed
    <3>2. CASE d = c
      <4>1. a = account /\ a # None
        BY <1>11, <3>1, <3>2, RegistrySomebody
      <4> QED
        BY <1>10, <1>11, <4>1
    <3>3. CASE d # c
      BY <1>10, <3>1, <3>3
    <3> QED
      BY <3>2, <3>3
  <2>2. \A d \in Registry!Present' :
    /\ d \in Registry!Present
    /\ Registry!Accounts(d)' \subseteq Registry!Accounts(d)
    BY <1>4, <1>10, <1>11
  <2>3. ASSUME NEW d \in Registry!Present'
        PROVE  /\ record'[d].pending # {} => record'[d].account = None
               /\ record'[d].account # None => keychain'[record'[d].account] # None
    <3>1. CASE d = c
      BY <1>8, <1>9, <1>10, <1>11, <1>3, <3>1
    <3>2. CASE d # c
      BY <1>1, <1>9, <1>3, <2>2, <3>2 DEF AccountsInv, Registry!Present
    <3> QED
      BY <3>1, <3>2
  <2> QED
    BY <1>1, <1>3, <1>5, <2>1, <2>2, <2>3 DEF AccountsInv
<1>15. KeySwapInv'
  BY <1>3 DEF KeySwapInv
<1>16. RegistryLeaseInv'
  BY <1>1, <1>3, RegistryLeaseRests
<1>17. ProbeInv'
  BY <1>1, <1>3, <1>5, RegistryProbeRests
<1>18. Registry!VerifiedWithThisKey'
  BY <1>1, <1>9, <1>10 DEF Registry!VerifiedWithThisKey, Registry!Present
<1>19. Registry!SelectionStands'
  BY <1>1, <1>10, <1>3, <1>2 DEF Registry!SelectionStands, KeySwapInv
<1> QED
  BY <1>12, <1>13, <1>14, <1>15, <1>16, <1>17, <1>18, <1>19 DEF RegistryInv

\* Registry!AbandonSwap keeps RegistryInv.
LEMMA RegistryAbandonSwapKeeps ==
  ASSUME RegistryInv, Registry!RegistryAssumption, Registry!AbandonSwap
  PROVE  RegistryInv'
<1>1. /\ Registry!TypeOK /\ RegistryModeInv /\ AccountsInv /\ KeySwapInv /\ RegistryLeaseInv
      /\ ProbeInv
      /\ Registry!VerifiedWithThisKey /\ Registry!SelectionStands
  BY DEF RegistryInv
<1>2. /\ UNCHANGED <<record, catalog, check, receipt, keychain, selection, mode, boot, task,
                     remembered, stale, unsettled, leases>>
      /\ swap # None /\ swap' = None
  BY DEF Registry!AbandonSwap, Registry!registry
<1>3. faults' \in 0 .. MaxFaults
  BY <1>1, Registry!RegistryAssumption
    DEF Registry!AbandonSwap, Registry!Fault, Registry!TypeOK, Registry!RegistryAssumption
<1>4. SameAccounts
  BY <1>2, RegistrySameRecords
<1>5. Registry!TypeOK'
  BY <1>1, <1>3, <1>2 DEF Registry!TypeOK
<1>6. RegistryModeInv'
  BY <1>1, <1>2 DEF RegistryModeInv
<1>7. KeySwapInv'
  BY <1>2 DEF KeySwapInv
<1>8. AccountsInv'
  BY <1>1, <1>4, <1>2, RegistryAccountsRest DEF Registry!AbandonSwap
<1>9. RegistryLeaseInv'
  BY <1>1, <1>4, <1>2, RegistryLeaseRests DEF Registry!AbandonSwap
<1>10. ProbeInv'
  BY <1>1, <1>4, <1>2, RegistryProbeRests DEF Registry!AbandonSwap
<1>11. Registry!VerifiedWithThisKey'
  BY <1>1, <1>4, <1>2, RegistryVerifiedRests DEF Registry!AbandonSwap
<1>12. Registry!SelectionStands'
  BY <1>1, <1>4, <1>2, RegistrySelectionRests DEF Registry!AbandonSwap
<1> QED
  BY <1>5, <1>6, <1>8, <1>7, <1>9, <1>10, <1>11, <1>12 DEF RegistryInv

\* The task that a new lease belongs to.
NewTask(c, use, r) ==
  [kind |-> use, connection |-> c, revision |-> record[c].revision,
   account |-> record[c].account, token |-> leases', request |-> r, sent |-> FALSE]

\* A task that begins takes a new lease, and the lease is its own.
LEMMA RegistryBeginParts ==
  ASSUME RegistryInv, Registry!RegistryAssumption, NEW t \in Task, NEW c \in Registry!Present,
         NEW use \in Registry!Operation, NEW r \in Registry!RequestId \cup {None},
         check = None, Registry!Begin(t, c, use, r), UNCHANGED <<boot, keychain, remembered>>
  PROVE  /\ check' \in Registry!LeaseType /\ check' # None /\ check'.kind = use
         /\ task' = [task EXCEPT ![t] = NewTask(c, use, r)]
         /\ task' \in [Task -> Registry!TaskType \cup {None}]
         /\ leases' \in 0 .. MaxLeases
         /\ task'[t] # None /\ task'[t].kind = use /\ task'[t].request = r
         /\ \A u \in Task : task[u] = None /\ (u # t => task'[u] = None)
         /\ RegistryLeaseInv'
<1>1. Registry!TypeOK /\ RegistryLeaseInv /\ AccountsInv
  BY DEF RegistryInv
<1>2. /\ task' = [task EXCEPT ![t] = NewTask(c, use, r)] /\ leases' = leases + 1
      /\ leases < MaxLeases
      /\ check' = [token |-> leases', boot |-> boot, connection |-> c, kind |-> use]
  BY DEF Registry!Begin, Registry!TakeLease, NewTask
<1>3. leases \in Nat /\ leases' \in 0 .. MaxLeases /\ leases' > leases /\ boot \in Nat
  BY <1>1, <1>2, Registry!RegistryAssumption DEF Registry!TypeOK, Registry!RegistryAssumption
<1>4. c \in Connection /\ record[c] \in Registry!RecordType
  BY <1>1, RegistryPresentType
<1>5. /\ check' \in Registry!LeaseType /\ check' # None /\ check'.kind = use
      /\ check'.token = leases'
  <2>1. check' \in Registry!LeaseType /\ check'.kind = use /\ check'.token = leases'
    BY <1>2, <1>3, <1>4 DEF Registry!LeaseType
  <2> QED
    BY <2>1, RegistrySomebody
<1>6. /\ NewTask(c, use, r) \in Registry!TaskType /\ NewTask(c, use, r) # None
      /\ NewTask(c, use, r).kind = use /\ NewTask(c, use, r).request = r
      /\ NewTask(c, use, r).token = leases' /\ NewTask(c, use, r).account = record[c].account
  <2>1. record[c].revision \in Nat /\ record[c].account \in Registry!RequestId \cup {None}
    BY <1>4 DEF Registry!RecordType
  <2>2. /\ NewTask(c, use, r) \in Registry!TaskType
        /\ NewTask(c, use, r).kind = use /\ NewTask(c, use, r).request = r
        /\ NewTask(c, use, r).token = leases' /\ NewTask(c, use, r).account = record[c].account
    BY <1>3, <1>4, <2>1 DEF NewTask, Registry!TaskType
  <2> QED
    BY <2>2, RegistrySomebody
<1>7. /\ task'[t] = NewTask(c, use, r) /\ task' \in [Task -> Registry!TaskType \cup {None}]
      /\ \A u \in Task \ {t} : task'[u] = task[u]
  BY <1>1, <1>2, <1>6 DEF Registry!TypeOK
<1>8. \A u \in Task : task[u] = None
  BY <1>1 DEF RegistryLeaseInv, Registry!LeaseProtects
<1>9. record[c].account # None => keychain'[record[c].account] # None
  BY <1>1 DEF AccountsInv
<1>10. remembered # None => remembered.token \in Nat /\ remembered.token <= leases
  BY <1>1 DEF RegistryLeaseInv, Registry!TypeOK, Registry!LeaseType
<1>11. \A u \in Task : task'[u] # None => u = t
  BY <1>7, <1>8
<1>12. Registry!LeaseProtects'
  BY <1>5, <1>6, <1>7, <1>9, <1>11 DEF Registry!LeaseProtects
<1>13. RegistryLeaseInv'
  <2>1. remembered' # None => remembered'.token <= leases' /\ remembered'.kind = "generation"
                              /\ remembered'.token # leases'
    BY <1>1, <1>3, <1>10 DEF RegistryLeaseInv
  <2>2. task'[t].kind = check'.kind /\ task'[t].token <= leases'
    BY <1>3, <1>5, <1>6, <1>7
  <2> QED
    BY <1>6, <1>7, <1>11, <1>12, <2>1, <2>2 DEF RegistryLeaseInv
<1> QED
  BY <1>2, <1>3, <1>5, <1>6, <1>7, <1>8, <1>13

\* Without a lease no probe is under way.
LEMMA RegistryNoProbe ==
  ASSUME ProbeInv, Registry!TypeOK, mode \in {"up", "closing"}, check = None
  PROVE  \A q \in Registry!RequestId : ~PendingProbe(q)
  BY DEF ProbeInv

\* A task that is no probe keeps ProbeInv as it begins.
LEMMA RegistryProbeBegins ==
  ASSUME ProbeInv, Registry!TypeOK, check = None, mode \in {"up", "closing"},
         UNCHANGED <<mode, receipt, unsettled>>, NEW t \in Task,
         \A u \in Task \ {t} : task'[u] = None, task'[t].kind # "model_verification"
  PROVE  ProbeInv'
<1>1. \A q \in Registry!RequestId : ~PendingProbe(q)'
  BY RegistryNoProbe DEF PendingProbe
<1> QED
  BY <1>1 DEF ProbeInv, Registry!ProbePaidOnce

\* Registry!BeginTest keeps RegistryInv.
LEMMA RegistryBeginTestKeeps ==
  ASSUME RegistryInv, Registry!RegistryAssumption, NEW t \in Task, NEW c \in Connection,
         Registry!BeginTest(t, c)
  PROVE  RegistryInv'
<1>1. /\ Registry!TypeOK /\ RegistryModeInv /\ AccountsInv /\ KeySwapInv /\ RegistryLeaseInv
      /\ ProbeInv
      /\ Registry!VerifiedWithThisKey /\ Registry!SelectionStands
  BY DEF RegistryInv
<1>2. /\ UNCHANGED <<record, catalog, receipt, keychain, selection, mode, boot, swap, remembered,
                     stale, unsettled, faults>>
      /\ mode = "up" /\ swap = None /\ check = None /\ c \in Registry!Present
      /\ Registry!Begin(t, c, "metadata", None)
  BY DEF Registry!BeginTest, Registry!BeginUse, Registry!Serving, Registry!ProviderIdle,
         Registry!Selectable
<1>3. /\ check' \in Registry!LeaseType /\ task' \in [Task -> Registry!TaskType \cup {None}]
      /\ leases' \in 0 .. MaxLeases /\ task'[t].kind = "metadata"
      /\ \A u \in Task \ {t} : task'[u] = None
      /\ RegistryLeaseInv'
  BY <1>2, RegistryBeginParts DEF Registry!Operation
<1>4. SameAccounts /\ record' \in [Connection -> Registry!RecordType \cup {None}]
  BY <1>1, <1>2, RegistrySameRecords DEF Registry!TypeOK
<1>5. Registry!TypeOK'
  BY <1>1, <1>3, <1>2, <1>4 DEF Registry!TypeOK
<1>6. RegistryModeInv'
  BY <1>1, <1>2, <1>4, RegistryModeRests
<1>7. KeySwapInv'
  BY <1>2 DEF KeySwapInv
<1>8. RegistryLeaseInv'
  BY <1>3
<1>9. ProbeInv'
  BY <1>1, <1>3, <1>2, RegistryProbeBegins
<1>10. AccountsInv'
  BY <1>1, <1>2, <1>4, RegistryAccountsRest DEF Registry!BeginTest
<1>11. Registry!VerifiedWithThisKey'
  BY <1>1, <1>2, <1>4, RegistryVerifiedRests DEF Registry!BeginTest
<1>12. Registry!SelectionStands'
  BY <1>1, <1>2, <1>4, RegistrySelectionRests DEF Registry!BeginTest
<1> QED
  BY <1>5, <1>6, <1>10, <1>7, <1>8, <1>9, <1>11, <1>12 DEF RegistryInv

\* Registry!BeginGeneration keeps RegistryInv.
LEMMA RegistryBeginGenerationKeeps ==
  ASSUME RegistryInv, Registry!RegistryAssumption, NEW t \in Task, Registry!BeginGeneration(t)
  PROVE  RegistryInv'
<1>1. /\ Registry!TypeOK /\ RegistryModeInv /\ AccountsInv /\ KeySwapInv /\ RegistryLeaseInv
      /\ ProbeInv
      /\ Registry!VerifiedWithThisKey /\ Registry!SelectionStands
  BY DEF RegistryInv
<1>2. /\ UNCHANGED <<catalog, receipt, keychain, selection, mode, boot, swap, remembered,
                     stale, unsettled, faults>>
      /\ mode = "up" /\ swap = None /\ check = None /\ selection.connection \in Registry!Present
      /\ Registry!Begin(t, selection.connection, "generation", None)
  BY DEF Registry!BeginGeneration, Registry!BeginUse, Registry!Serving, Registry!ProviderIdle,
         Registry!Selectable
<1>3. /\ check' \in Registry!LeaseType /\ task' \in [Task -> Registry!TaskType \cup {None}]
      /\ leases' \in 0 .. MaxLeases /\ task'[t].kind = "generation"
      /\ \A u \in Task \ {t} : task'[u] = None
      /\ RegistryLeaseInv'
  BY <1>2, RegistryBeginParts DEF Registry!Operation
<1>4. SameAccounts /\ record' \in [Connection -> Registry!RecordType \cup {None}]
  <2>1. /\ selection.connection \in Connection
        /\ record[selection.connection] \in Registry!RecordType
        /\ record[selection.connection] # None
    BY <1>1, <1>2, RegistryPresentType DEF Registry!Present
  <2> DEFINE new == [record[selection.connection] EXCEPT !.generated = "unknown"]
  <2>2. new \in Registry!RecordType /\ new.account = record[selection.connection].account
        /\ new.pending = record[selection.connection].pending
    BY <2>1, RegistryGeneratedType
  <2>3. record' = [record EXCEPT ![selection.connection] = new]
    BY DEF Registry!BeginGeneration
  <2> HIDE DEF new
  <2> QED
    BY <1>1, <2>1, <2>2, <2>3, RegistryOneRecord
<1>5. Registry!TypeOK'
  BY <1>1, <1>3, <1>2, <1>4 DEF Registry!TypeOK
<1>6. RegistryModeInv'
  BY <1>1, <1>2, <1>4, RegistryModeRests
<1>7. KeySwapInv'
  BY <1>2 DEF KeySwapInv
<1>8. RegistryLeaseInv'
  BY <1>3
<1>9. ProbeInv'
  BY <1>1, <1>3, <1>2, RegistryProbeBegins
<1>10. AccountsInv'
  BY <1>1, <1>2, <1>4, RegistryAccountsRest DEF Registry!BeginGeneration
<1>11. Registry!VerifiedWithThisKey'
  BY <1>1, <1>2, <1>4, RegistryVerifiedRests DEF Registry!BeginGeneration
<1>12. Registry!SelectionStands'
  BY <1>1, <1>2, <1>4, RegistrySelectionRests DEF Registry!BeginGeneration
<1> QED
  BY <1>5, <1>6, <1>10, <1>7, <1>8, <1>9, <1>11, <1>12 DEF RegistryInv

\* Registry!BeginTranscription keeps RegistryInv.
LEMMA RegistryBeginTranscriptionKeeps ==
  ASSUME RegistryInv, Registry!RegistryAssumption, NEW t \in Task,
         Registry!BeginTranscription(t)
  PROVE  RegistryInv'
<1>1. /\ Registry!TypeOK /\ RegistryModeInv /\ AccountsInv /\ KeySwapInv /\ RegistryLeaseInv
      /\ ProbeInv
      /\ Registry!VerifiedWithThisKey /\ Registry!SelectionStands
  BY DEF RegistryInv
<1>2. /\ UNCHANGED <<record, catalog, receipt, keychain, selection, mode, boot, swap, remembered,
                     stale, unsettled, faults>>
      /\ mode = "up" /\ swap = None /\ check = None /\ selection.connection \in Registry!Present
      /\ Registry!Begin(t, selection.connection, "transcription", None)
  BY DEF Registry!BeginTranscription, Registry!BeginUse, Registry!Serving,
         Registry!ProviderIdle, Registry!Selectable
<1>3. /\ check' \in Registry!LeaseType /\ task' \in [Task -> Registry!TaskType \cup {None}]
      /\ leases' \in 0 .. MaxLeases /\ task'[t].kind = "transcription"
      /\ \A u \in Task \ {t} : task'[u] = None
      /\ RegistryLeaseInv'
  BY <1>2, RegistryBeginParts DEF Registry!Operation
<1>4. SameAccounts /\ record' \in [Connection -> Registry!RecordType \cup {None}]
  BY <1>1, <1>2, RegistrySameRecords DEF Registry!TypeOK
<1>5. Registry!TypeOK'
  BY <1>1, <1>3, <1>2, <1>4 DEF Registry!TypeOK
<1>6. RegistryModeInv'
  BY <1>1, <1>2, <1>4, RegistryModeRests
<1>7. KeySwapInv'
  BY <1>2 DEF KeySwapInv
<1>8. RegistryLeaseInv'
  BY <1>3
<1>9. ProbeInv'
  BY <1>1, <1>3, <1>2, RegistryProbeBegins
<1>10. AccountsInv'
  BY <1>1, <1>2, <1>4, RegistryAccountsRest DEF Registry!BeginTranscription
<1>11. Registry!VerifiedWithThisKey'
  BY <1>1, <1>2, <1>4, RegistryVerifiedRests DEF Registry!BeginTranscription
<1>12. Registry!SelectionStands'
  BY <1>1, <1>2, <1>4, RegistrySelectionRests DEF Registry!BeginTranscription
<1> QED
  BY <1>5, <1>6, <1>10, <1>7, <1>8, <1>9, <1>11, <1>12 DEF RegistryInv

\* Registry!BeginVerify keeps RegistryInv.
LEMMA RegistryBeginVerifyKeeps ==
  ASSUME RegistryInv, Registry!RegistryAssumption, NEW t \in Task, NEW c \in Connection,
         NEW r \in Registry!RequestId,
         Registry!BeginVerify(t, c, r)
  PROVE  RegistryInv'
<1>1. /\ Registry!TypeOK /\ RegistryModeInv /\ AccountsInv /\ KeySwapInv /\ RegistryLeaseInv
      /\ ProbeInv
      /\ Registry!VerifiedWithThisKey /\ Registry!SelectionStands
  BY DEF RegistryInv
<1> DEFINE value == keychain[record[c].account]
<1>2. /\ UNCHANGED <<record, catalog, keychain, selection, mode, boot, swap, remembered,
                     stale, unsettled, faults>>
      /\ mode = "up" /\ swap = None /\ check = None /\ c \in Registry!Present
      /\ record[c].account # None
      /\ value # None /\ ~Registry!ProbeInDoubt(value) /\ Registry!Fresh(r)
  BY DEF Registry!BeginVerify, Registry!Serving, Registry!ProviderIdle
<1>3. SameAccounts
  BY <1>2, RegistrySameRecords
<1>4. /\ receipt[r] = None /\ boot \in Nat /\ value \in KeyValue
  <2>1. record[c] \in Registry!RecordType
    BY <1>1, <1>2, RegistryPresentType
  <2>2. record[c].account \in Registry!RequestId
    BY <1>2, <2>1 DEF Registry!RecordType
  <2>3. receipt[r] = None /\ boot \in Nat
    BY <1>1, <1>2 DEF Registry!Fresh, Registry!TypeOK, Registry!RequestId
  <2> QED
    BY <1>1, <1>2, <2>2, <2>3 DEF Registry!TypeOK
<1>5. ASSUME NEW state \in {"succeeded", "pending"}, NEW key \in KeyValue \cup {None},
             Registry!Accept(r, state, key)
      PROVE  /\ receipt' \in [Registry!RequestId -> Registry!ReceiptType \cup {None}]
             /\ receipt'[r] # None /\ receipt'[r].boot = boot /\ receipt'[r].state = state
             /\ receipt'[r].spends = key
             /\ \A q \in Registry!RequestId \ {r} : receipt'[q] = receipt[q]
  <2> DEFINE new == [state |-> state, boot |-> boot, spends |-> key]
  <2>1. new \in Registry!ReceiptType /\ new.boot = boot /\ new.state = state /\ new.spends = key
    BY <1>4, <1>5 DEF Registry!ReceiptType
  <2>2. receipt' = [receipt EXCEPT ![r] = new]
    BY <1>5 DEF Registry!Accept
  <2> HIDE DEF new
  <2> QED
    BY <1>1, <2>1, <2>2, RegistrySomebody DEF Registry!TypeOK
<1>6. \A q \in Registry!RequestId : ~PendingProbe(q)
  BY <1>1, <1>2, RegistryNoProbe
<1>7. CASE catalog[c].verified # None
  <2>1. Registry!Accept(r, "succeeded", None) /\ UNCHANGED <<check, task, leases>>
    BY <1>7 DEF Registry!BeginVerify
  <2>2. /\ receipt' \in [Registry!RequestId -> Registry!ReceiptType \cup {None}]
        /\ receipt'[r] # None /\ receipt'[r].boot = boot /\ receipt'[r].spends = None
        /\ \A q \in Registry!RequestId \ {r} : receipt'[q] = receipt[q]
    BY <1>5, <2>1
  <2>3. Registry!TypeOK'
    BY <1>1, <1>2, <2>1, <2>2 DEF Registry!TypeOK
  <2>4. RegistryModeInv'
    BY <1>1, <1>4, <1>2, <1>3, <2>2, RegistryModeRests
  <2>5. AccountsInv'
    BY <1>1, <1>4, <1>2, <1>3, <2>2, RegistryAccountsRest
  <2>6. KeySwapInv'
    BY <1>2 DEF KeySwapInv
  <2>7. RegistryLeaseInv'
    BY <1>1, <1>2, <2>1, RegistryLeaseRests
  <2>8. ProbeInv'
    BY <1>1, <1>4, <1>2, <2>1, <2>2, RegistryProbeRests
  <2>9. Registry!VerifiedWithThisKey'
    BY <1>1, <1>2, <1>3, RegistryVerifiedRests
  <2>10. Registry!SelectionStands'
    BY <1>1, <1>2, <1>3, RegistrySelectionRests
  <2> QED
    BY <2>3, <2>4, <2>5, <2>6, <2>7, <2>8, <2>9, <2>10 DEF RegistryInv
<1>8. CASE catalog[c].verified = None
  <2>1. Registry!Accept(r, "pending", value) /\ Registry!Begin(t, c, "model_verification", r)
    BY <1>8 DEF Registry!BeginVerify
  <2> HIDE DEF value
  <2>2. /\ receipt' \in [Registry!RequestId -> Registry!ReceiptType \cup {None}]
        /\ receipt'[r] # None /\ receipt'[r].boot = boot /\ receipt'[r].state = "pending"
        /\ receipt'[r].spends = value
        /\ \A q \in Registry!RequestId \ {r} : receipt'[q] = receipt[q]
    BY <1>4, <1>5, <2>1
  <2>3. /\ check' \in Registry!LeaseType /\ check' # None /\ check'.kind = "model_verification"
        /\ task' \in [Task -> Registry!TaskType \cup {None}]
        /\ leases' \in 0 .. MaxLeases /\ task'[t].kind = "model_verification"
        /\ task'[t].request = r
        /\ \A u \in Task : u # t => task'[u] = None
        /\ RegistryLeaseInv'
    BY <1>2, <2>1, RegistryBeginParts DEF Registry!Operation
  <2>4. Registry!TypeOK'
    BY <1>1, <1>2, <2>2, <2>3 DEF Registry!TypeOK
  <2>5. RegistryModeInv'
    BY <1>1, <1>4, <1>2, <1>3, <2>2, RegistryModeRests
  <2>6. AccountsInv'
    BY <1>1, <1>4, <1>2, <1>3, <2>2, RegistryAccountsRest
  <2>7. KeySwapInv'
    BY <1>2 DEF KeySwapInv
  <2>8. ProbeInv'
    <3>1. \A q \in Registry!RequestId : PendingProbe(q)' <=> q = r
      BY <1>4, <1>6, <1>2, <2>2 DEF PendingProbe
    <3>2. \A q \in unsettled : q # r /\ receipt'[q] = receipt[q]
      BY <1>1, <1>4, <2>2 DEF ProbeInv, Registry!TypeOK
    <3>3. Registry!ProbePaidOnce'
      BY <1>1, <1>2, <3>2 DEF ProbeInv, Registry!ProbePaidOnce
    <3>4. \A q \in unsettled' : receipt'[q] # None /\ receipt'[q].state \in {"pending", "unknown"}
                                /\ receipt'[q].spends # None
      BY <1>1, <1>2, <3>2 DEF ProbeInv
    <3>5. ASSUME NEW q \in Registry!RequestId, receipt'[q] # None, receipt'[q].state = "unknown"
          PROVE  receipt'[q].spends # receipt'[r].spends
      <4>1. q # r
        BY <2>2, <3>5
      <4> QED
        BY <1>2, <2>2, <3>5, <4>1 DEF Registry!ProbeInDoubt
    <3> QED
      BY <2>3, <3>1, <3>3, <3>4, <3>5 DEF ProbeInv
  <2>9. Registry!VerifiedWithThisKey'
    BY <1>1, <1>2, <1>3, RegistryVerifiedRests
  <2>10. Registry!SelectionStands'
    BY <1>1, <1>2, <1>3, RegistrySelectionRests
  <2> QED
    BY <2>4, <2>5, <2>6, <2>7, <2>3, <2>8, <2>9, <2>10 DEF RegistryInv
<1> QED
  BY <1>7, <1>8

\* Registry!Send keeps RegistryInv.
LEMMA RegistrySendKeeps ==
  ASSUME RegistryInv, Registry!RegistryAssumption, NEW t \in Task, Registry!Send(t)
  PROVE  RegistryInv'
<1>1. /\ Registry!TypeOK /\ RegistryModeInv /\ AccountsInv /\ KeySwapInv /\ RegistryLeaseInv
      /\ ProbeInv
      /\ Registry!VerifiedWithThisKey /\ Registry!SelectionStands
  BY DEF RegistryInv
<1>2. /\ UNCHANGED <<record, catalog, check, receipt, keychain, selection, mode, boot, swap,
                     remembered, stale, leases, faults>>
      /\ mode = "up" /\ task[t] # None /\ task' = [task EXCEPT ![t].sent = TRUE]
      /\ unsettled' = IF task[t].kind = "model_verification"
                      THEN unsettled \cup {task[t].request} ELSE unsettled
  BY DEF Registry!Send, Registry!registry
<1>3. SameAccounts
  BY <1>2, RegistrySameRecords
<1>4. /\ task[t] \in Registry!TaskType /\ task'[t] = [task[t] EXCEPT !.sent = TRUE]
      /\ \A u \in Task \ {t} : task'[u] = task[u]
  BY <1>1, <1>2 DEF Registry!TypeOK
<1>5. /\ task'[t] \in Registry!TaskType /\ task'[t] # None /\ task'[t].kind = task[t].kind
      /\ task'[t].request = task[t].request /\ task'[t].token = task[t].token
      /\ task'[t].account = task[t].account
  <2>1. /\ task'[t] \in Registry!TaskType /\ task'[t].kind = task[t].kind
        /\ task'[t].request = task[t].request /\ task'[t].token = task[t].token
        /\ task'[t].account = task[t].account
    BY <1>4 DEF Registry!TaskType
  <2> QED
    BY <2>1, RegistrySomebody
<1>6. task' \in [Task -> Registry!TaskType \cup {None}]
  BY <1>1, <1>4, <1>5, <1>2 DEF Registry!TypeOK
<1>7. task[t].kind = "model_verification" =>
        task[t].request \in Registry!RequestId /\ PendingProbe(task[t].request)
  BY <1>1, <1>2 DEF ProbeInv
<1>8. Registry!TypeOK'
  BY <1>1, <1>6, <1>7, <1>2 DEF Registry!TypeOK
<1>9. RegistryModeInv'
  BY <1>1, <1>2, <1>3, RegistryModeRests
<1>10. RegistryLeaseInv'
  <2>1. \A u \in Task : /\ task'[u] = None <=> task[u] = None
                        /\ task[u] # None => /\ task'[u].kind = task[u].kind
                                             /\ task'[u].token = task[u].token
                                             /\ task'[u].account = task[u].account
    BY <1>4, <1>5, <1>2
  <2>2. Registry!LeaseProtects'
    BY <1>1, <1>2, <2>1 DEF RegistryLeaseInv, Registry!LeaseProtects
  <2> QED
    BY <1>1, <1>2, <2>1, <2>2 DEF RegistryLeaseInv
<1>11. ProbeInv'
  <2>1. \A u \in Task : /\ task'[u] = None <=> task[u] = None
                        /\ task[u] # None => /\ task'[u].kind = task[u].kind
                                             /\ task'[u].request = task[u].request
    BY <1>4, <1>5, <1>2
  <2>2. \A q \in Registry!RequestId : PendingProbe(q)' <=> PendingProbe(q)
    BY <1>2 DEF PendingProbe
  <2>3. \A q \in unsettled' : receipt[q] # None /\ receipt[q].state \in {"pending", "unknown"}
                              /\ receipt[q].spends # None
    BY <1>1, <1>7, <1>2 DEF ProbeInv, PendingProbe
  <2>4. Registry!ProbePaidOnce'
    <3>1. CASE task[t].kind # "model_verification"
      BY <1>1, <1>2, <3>1 DEF ProbeInv, Registry!ProbePaidOnce
    <3>2. CASE task[t].kind = "model_verification"
      <4>1. ASSUME NEW q \in unsettled, receipt[q].spends = receipt[task[t].request].spends
            PROVE  q = task[t].request
        <5>1. /\ q \in Registry!RequestId /\ receipt[q] # None
              /\ receipt[q].state \in {"pending", "unknown"}
              /\ receipt[q].spends # None
          BY <1>1 DEF Registry!TypeOK, ProbeInv
        <5>2. receipt[q].state # "unknown"
          BY <1>1, <1>2, <3>2, <4>1, <5>1 DEF ProbeInv
        <5>3. PendingProbe(q)
          BY <5>1, <5>2 DEF PendingProbe
        <5> QED
          BY <1>1, <1>7, <3>2, <5>1, <5>3 DEF ProbeInv
      <4> QED
        BY <1>1, <1>2, <3>2, <4>1 DEF ProbeInv, Registry!ProbePaidOnce
    <3> QED
      BY <3>1, <3>2
  <2> QED
    BY <1>1, <1>2, <2>1, <2>2, <2>3, <2>4 DEF ProbeInv
<1>12. AccountsInv'
  BY <1>1, <1>2, <1>3, RegistryAccountsRest DEF Registry!Send
<1>13. KeySwapInv'
  BY <1>1, <1>2, <1>3, RegistrySwapRests DEF Registry!Send
<1>14. Registry!VerifiedWithThisKey'
  BY <1>1, <1>2, <1>3, RegistryVerifiedRests DEF Registry!Send
<1>15. Registry!SelectionStands'
  BY <1>1, <1>2, <1>3, RegistrySelectionRests DEF Registry!Send
<1> QED
  BY <1>8, <1>9, <1>12, <1>13, <1>10, <1>11, <1>14, <1>15 DEF RegistryInv

\* A task ends: it alone was working, and it may give up its lease.
LEMMA RegistryEndParts ==
  ASSUME RegistryInv, Registry!RegistryAssumption, NEW t \in Task, task[t] # None,
         task' = [task EXCEPT ![t] = None]
  PROVE  /\ task[t] \in Registry!TaskType /\ check # None /\ check.token = task[t].token
         /\ check.kind = task[t].kind
         /\ task' \in [Task -> Registry!TaskType \cup {None}]
         /\ \A u \in Task : task'[u] = None
  BY DEF RegistryInv, Registry!TypeOK, RegistryLeaseInv, Registry!LeaseProtects

\* A task that ends keeps RegistryLeaseInv.
LEMMA RegistryLeaseEnds ==
  ASSUME RegistryLeaseInv, \A u \in Task : task'[u] = None, UNCHANGED leases,
         remembered' # None => remembered'.token <= leases /\ remembered'.kind = "generation"
  PROVE  RegistryLeaseInv'
  BY DEF RegistryLeaseInv, Registry!LeaseProtects

\* When the task that ends is no probe, no probe is pending.
LEMMA RegistryProbeEnds ==
  ASSUME ProbeInv, Registry!TypeOK, UNCHANGED <<mode, receipt, unsettled>>,
         mode \in {"up", "closing"},
         check # None, check.kind # "model_verification", \A u \in Task : task'[u] = None
  PROVE  ProbeInv'
<1>1. \A q \in Registry!RequestId : ~PendingProbe(q)'
  BY DEF ProbeInv, PendingProbe
<1> QED
  BY <1>1 DEF ProbeInv, Registry!ProbePaidOnce

\* Registry!EndTest keeps RegistryInv.
LEMMA RegistryEndTestKeeps ==
  ASSUME RegistryInv, Registry!RegistryAssumption, NEW t \in Task,
         NEW found \in {"listed", "rejected", "unavailable"},
         NEW same \in BOOLEAN, Registry!EndTest(t, found, same)
  PROVE  RegistryInv'
<1>1. /\ Registry!TypeOK /\ RegistryModeInv /\ AccountsInv /\ KeySwapInv /\ RegistryLeaseInv
      /\ ProbeInv
      /\ Registry!VerifiedWithThisKey /\ Registry!SelectionStands
  BY DEF RegistryInv
<1>2. PICK c, passed :
        /\ c = task[t].connection
        /\ passed = IF same /\ catalog[c] # None THEN catalog[c].verified ELSE None
  OBVIOUS
<1> DEFINE usable == mode = "up" /\ Registry!OwnsLease(t) /\ Registry!Unchanged(t)
<1>3. /\ UNCHANGED <<receipt, keychain, selection, mode, boot, swap, remembered, stale,
                     unsettled, leases, faults>>
      /\ mode \in {"up", "closing"} /\ swap = None /\ task[t] # None /\ task[t].kind = "metadata"
      /\ task' = [task EXCEPT ![t] = None] /\ check' \in {check, None}
      /\ record' =
           IF usable THEN [record EXCEPT ![c] = Registry!Applied(record[c], c, found)] ELSE record
      /\ catalog' = IF usable /\ found = "listed"
                    THEN [catalog EXCEPT ![c] = [revision |-> record[c].revision,
                                                 verified |-> passed]]
                    ELSE catalog
  BY <1>2
    DEF Registry!EndTest, Registry!Unlocked, Registry!Waiting, Registry!ReleaseLease,
        Registry!End
<1>4. /\ task[t] \in Registry!TaskType /\ check # None /\ check.kind = "metadata"
      /\ task' \in [Task -> Registry!TaskType \cup {None}] /\ \A u \in Task : task'[u] = None
  BY <1>3, RegistryEndParts
<1>5. usable =>
          /\ c \in Registry!Present /\ c \in Connection
          /\ record[c] \in Registry!RecordType /\ record[c] # None
  BY <1>1, <1>2, RegistryPresentType DEF Registry!Unchanged, Registry!Present
<1> HIDE DEF usable
<1>6. SameAccounts /\ record' \in [Connection -> Registry!RecordType \cup {None}]
  <2>1. CASE usable
    <3> DEFINE new == Registry!Applied(record[c], c, found)
    <3>1. /\ new \in Registry!RecordType /\ new.account = record[c].account
          /\ new.pending = record[c].pending
      BY <1>5, <2>1, RegistryAppliedType
    <3>2. record' = [record EXCEPT ![c] = new]
      BY <1>3, <2>1
    <3> HIDE DEF new
    <3> QED
      BY <1>1, <1>5, <2>1, <3>1, <3>2, RegistryOneRecord
  <2>2. CASE ~usable
    BY <1>1, <1>3, <2>2, RegistrySameRecords DEF Registry!TypeOK
  <2> QED
    BY <2>1, <2>2
<1>7. /\ catalog' \in [Connection -> Registry!CatalogType \cup {None}]
      /\ \A d \in Connection : \/ catalog'[d] = catalog[d]
                               \/ catalog'[d].verified = None
                               \/ catalog[d] # None /\ catalog'[d].verified = catalog[d].verified
  <2>1. CASE usable /\ found = "listed"
    <3> DEFINE new == [revision |-> record[c].revision, verified |-> passed]
    <3>1. catalog[c] # None => catalog[c] \in Registry!CatalogType
      BY <1>1, <1>5, <2>1 DEF Registry!TypeOK
    <3>2. passed \in Registry!RequestId \cup {None} /\ record[c].revision \in Nat
      BY <1>5, <1>2, <2>1, <3>1 DEF Registry!CatalogType, Registry!RecordType
    <3>3. new \in Registry!CatalogType /\ new.verified = passed
      BY <3>2 DEF Registry!CatalogType
    <3>4. catalog' = [catalog EXCEPT ![c] = new]
      BY <1>3, <2>1
    <3> HIDE DEF new
    <3>5. /\ catalog' \in [Connection -> Registry!CatalogType \cup {None}] /\ catalog'[c] = new
          /\ \A d \in Connection \ {c} : catalog'[d] = catalog[d]
      BY <1>1, <1>5, <2>1, <3>3, <3>4 DEF Registry!TypeOK
    <3> QED
      BY <1>2, <3>3, <3>5
  <2>2. CASE ~(usable /\ found = "listed")
    BY <1>1, <1>3, <2>2 DEF Registry!TypeOK
  <2> QED
    BY <2>1, <2>2
<1>8. Registry!TypeOK'
  BY <1>1, <1>4, <1>7, <1>3, <1>6 DEF Registry!TypeOK
<1>9. RegistryModeInv'
  BY <1>1, <1>3, <1>6, RegistryModeRests
<1>10. KeySwapInv'
  BY <1>3 DEF KeySwapInv
<1>11. RegistryLeaseInv'
  BY <1>1, <1>4, <1>3, RegistryLeaseEnds DEF RegistryLeaseInv
<1>12. ProbeInv'
  BY <1>1, <1>4, <1>3, RegistryProbeEnds
<1>13. Registry!VerifiedWithThisKey'
  BY <1>1, <1>7, <1>6, RegistryVerifiedRests
<1>14. AccountsInv'
  BY <1>1, <1>3, <1>6, RegistryAccountsRest DEF Registry!EndTest
<1>15. Registry!SelectionStands'
  BY <1>1, <1>3, <1>6, RegistrySelectionRests DEF Registry!EndTest
<1> QED
  BY <1>8, <1>9, <1>14, <1>10, <1>11, <1>12, <1>13, <1>15 DEF RegistryInv

\* Registry!EndVerify keeps RegistryInv.
LEMMA RegistryEndVerifyKeeps ==
  ASSUME RegistryInv, Registry!RegistryAssumption, NEW t \in Task,
         NEW ending \in {"verified", "failed", "unknown"},
         Registry!EndVerify(t, ending)
  PROVE  RegistryInv'
<1>1. /\ Registry!TypeOK /\ RegistryModeInv /\ AccountsInv /\ KeySwapInv /\ RegistryLeaseInv
      /\ ProbeInv
      /\ Registry!VerifiedWithThisKey /\ Registry!SelectionStands
  BY DEF RegistryInv
<1>2. PICK r, c : r = task[t].request /\ c = task[t].connection
  OBVIOUS
<1> DEFINE proven == ending = "verified" /\ Registry!KeepsResult(t)
           state == IF ending = "unknown" \/ (ending = "verified" /\ ~Registry!OwnsProbe(t))
                    THEN "unknown" ELSE IF proven THEN "succeeded" ELSE "failed"
<1>3. /\ proven =>
           c \in Registry!Present /\ record[c].account = task[t].account /\ catalog[c] # None
      /\ state \in {"unknown", "succeeded", "failed"}
  BY <1>2 DEF Registry!KeepsResult, Registry!Unchanged, Registry!Candidate
<1>4. /\ UNCHANGED <<record, keychain, selection, mode, boot, swap, remembered, stale, leases,
                     faults>>
      /\ mode \in {"up", "closing"} /\ swap = None
      /\ task[t] # None /\ task[t].kind = "model_verification"
      /\ task' = [task EXCEPT ![t] = None] /\ check' \in {check, None}
      /\ receipt' = [receipt EXCEPT ![r].state = state]
      /\ unsettled' = IF state = "unknown" THEN unsettled ELSE unsettled \ {r}
      /\ catalog' = IF ~proven THEN catalog
                    ELSE [catalog EXCEPT ![c].verified = task[t].account]
  BY <1>2
    DEF Registry!EndVerify, Registry!SettleProbe, Registry!Settle, Registry!Unlocked,
        Registry!Waiting, Registry!ReleaseLease, Registry!End
<1> HIDE DEF proven, state
<1>5. SameAccounts
  BY <1>4, RegistrySameRecords
<1>6. /\ task[t] \in Registry!TaskType
      /\ task' \in [Task -> Registry!TaskType \cup {None}] /\ \A u \in Task : task'[u] = None
  BY <1>4, RegistryEndParts
<1>7. /\ r \in Registry!RequestId /\ PendingProbe(r) /\ \A q \in Registry!RequestId :
           PendingProbe(q) => q = r
      /\ \A q \in Registry!RequestId : receipt[q] # None /\ receipt[q].state = "unknown" =>
           receipt[q].spends # receipt[r].spends
  BY <1>1, <1>4, <1>2 DEF ProbeInv
<1>8. /\ receipt' \in [Registry!RequestId -> Registry!ReceiptType \cup {None}]
      /\ receipt'[r] # None /\ receipt'[r].state = state
      /\ receipt'[r].spends = receipt[r].spends /\ receipt'[r].boot = receipt[r].boot
      /\ receipt[r] # None /\ \A q \in Registry!RequestId \ {r} : receipt'[q] = receipt[q]
  <2>1. receipt[r] # None /\ receipt[r] \in Registry!ReceiptType
    BY <1>1, <1>7 DEF PendingProbe, Registry!TypeOK
  <2> DEFINE new == [receipt[r] EXCEPT !.state = state]
  <2>2. /\ new \in Registry!ReceiptType /\ new.state = state
        /\ new.spends = receipt[r].spends /\ new.boot = receipt[r].boot
    BY <1>3, <2>1 DEF Registry!ReceiptType
  <2>3. receipt' = [receipt EXCEPT ![r] = new]
    BY <1>4
  <2> HIDE DEF new
  <2> QED
    BY <1>1, <1>7, <2>1, <2>2, <2>3, RegistrySomebody DEF Registry!TypeOK
<1>9. /\ catalog' \in [Connection -> Registry!CatalogType \cup {None}]
      /\ \A d \in Connection : \/ catalog'[d] = catalog[d]
                               \/ d = c /\ record[c] # None
                                  /\ catalog'[d].verified = record[c].account
  <2>1. CASE proven
    <3>1. /\ c \in Registry!Present /\ record[c].account = task[t].account
          /\ catalog[c] # None
      BY <1>3, <2>1
    <3>2. c \in Connection /\ catalog[c] \in Registry!CatalogType /\ record[c] # None
      BY <1>1, <3>1 DEF Registry!Present, Registry!TypeOK
    <3>3. task[t].account \in Registry!RequestId \cup {None}
      BY <1>6 DEF Registry!TaskType
    <3> DEFINE new == [catalog[c] EXCEPT !.verified = task[t].account]
    <3>4. new \in Registry!CatalogType /\ new.verified = task[t].account
      BY <3>2, <3>3 DEF Registry!CatalogType
    <3>5. catalog' = [catalog EXCEPT ![c] = new]
      BY <1>4, <2>1
    <3> HIDE DEF new
    <3> QED
      BY <1>1, <3>1, <3>2, <3>4, <3>5 DEF Registry!TypeOK
  <2>2. CASE ~proven
    BY <1>1, <1>4, <2>2 DEF Registry!TypeOK
  <2> QED
    BY <2>1, <2>2
<1>10. Registry!TypeOK'
  BY <1>1, <1>6, <1>8, <1>9, <1>4 DEF Registry!TypeOK
<1>11. RegistryModeInv'
  BY <1>1, <1>8, <1>4, <1>5, RegistryModeRests
<1>12. AccountsInv'
  BY <1>1, <1>8, <1>4, <1>5, RegistryAccountsRest
<1>13. KeySwapInv'
  BY <1>4 DEF KeySwapInv
<1>14. RegistryLeaseInv'
  BY <1>1, <1>6, <1>4, RegistryLeaseEnds DEF RegistryLeaseInv
<1>15. ProbeInv'
  <2>1. \A q \in Registry!RequestId : ~PendingProbe(q)'
    BY <1>7, <1>8, <1>3 DEF PendingProbe
  <2>2. \A q \in unsettled : receipt'[q].spends = receipt[q].spends
    BY <1>1, <1>8 DEF Registry!TypeOK
  <2>3. Registry!ProbePaidOnce'
    BY <1>1, <1>4, <2>2 DEF ProbeInv, Registry!ProbePaidOnce
  <2>4. \A q \in unsettled' : receipt'[q] # None /\ receipt'[q].state \in {"pending", "unknown"}
                              /\ receipt'[q].spends # None
    <3> SUFFICES ASSUME NEW q \in unsettled'
                 PROVE  receipt'[q] # None /\ receipt'[q].state \in {"pending", "unknown"}
                        /\ receipt'[q].spends # None
      OBVIOUS
    <3>1. q \in unsettled /\ q \in Registry!RequestId
      BY <1>1, <1>4 DEF Registry!TypeOK
    <3>2. /\ receipt[q] # None /\ receipt[q].state \in {"pending", "unknown"}
          /\ receipt[q].spends # None
      BY <1>1, <3>1 DEF ProbeInv
    <3>3. q = r => state = "unknown"
      BY <1>4
    <3> QED
      BY <1>8, <3>1, <3>2, <3>3
  <2> QED
    BY <1>6, <2>1, <2>3, <2>4 DEF ProbeInv
<1>16. Registry!VerifiedWithThisKey'
  <2>1. Registry!Present' = Registry!Present
    BY <1>5, RegistryPresentSame
  <2> QED
    BY <1>1, <1>9, <1>4, <2>1 DEF Registry!VerifiedWithThisKey, Registry!Present
<1>17. Registry!SelectionStands'
  BY <1>1, <1>4, <1>5, RegistrySelectionRests
<1> QED
  BY <1>10, <1>11, <1>12, <1>13, <1>14, <1>15, <1>16, <1>17 DEF RegistryInv

\* A task whose release failed leaves its token, or none, behind.
LEMMA RegistryRememberParts ==
  ASSUME RegistryInv, Registry!RegistryAssumption, NEW t \in Task, task[t] # None,
         Registry!Remember(t) \/ UNCHANGED remembered
  PROVE  /\ remembered' \in Registry!LeaseType \cup {None}
         /\ remembered' # None => remembered'.token <= leases /\ remembered'.kind = "generation"
<1>1. Registry!TypeOK /\ RegistryLeaseInv
  BY DEF RegistryInv
<1>2. CASE UNCHANGED remembered \/ remembered # None
  <2>1. remembered' = remembered
    BY <1>2 DEF Registry!Remember
  <2> QED
    BY <1>1, <2>1 DEF Registry!TypeOK, RegistryLeaseInv
<1>3. CASE Registry!Remember(t) /\ remembered = None
  <2>1. remembered' = [token |-> task[t].token, boot |-> boot,
                       connection |-> task[t].connection, kind |-> "generation"]
    BY <1>3 DEF Registry!Remember
  <2>2. task[t].token \in Nat /\ task[t].connection \in Connection /\ boot \in Nat
        /\ task[t].token <= leases
    BY <1>1 DEF Registry!TypeOK, Registry!TaskType, RegistryLeaseInv
  <2> QED
    BY <2>1, <2>2 DEF Registry!LeaseType, Registry!Operation
<1> QED
  BY <1>2, <1>3

\* Registry!EndGeneration keeps RegistryInv.
LEMMA RegistryEndGenerationKeeps ==
  ASSUME RegistryInv, Registry!RegistryAssumption, NEW t \in Task,
         NEW ending \in {"succeeded", "failed", "cancelled", "unknown"},
         NEW unsure \in BOOLEAN, Registry!EndGeneration(t, ending, unsure)
  PROVE  RegistryInv'
<1>1. /\ Registry!TypeOK /\ RegistryModeInv /\ AccountsInv /\ KeySwapInv /\ RegistryLeaseInv
      /\ ProbeInv
      /\ Registry!VerifiedWithThisKey /\ Registry!SelectionStands
  BY DEF RegistryInv
<1>2. /\ UNCHANGED <<catalog, receipt, keychain, selection, mode, boot, swap, stale, unsettled,
                     leases>>
      /\ mode \in {"up", "closing"} /\ swap = None
      /\ task[t] # None /\ task[t].kind = "generation"
      /\ task' = [task EXCEPT ![t] = None] /\ check' \in {check, None}
      /\ Registry!Remember(t) \/ UNCHANGED remembered
  BY DEF Registry!EndGeneration, Registry!EndUse, Registry!Unlocked, Registry!Waiting,
         Registry!ReleaseLease, Registry!End
<1>3. faults' \in 0 .. MaxFaults
  BY <1>1, Registry!RegistryAssumption
    DEF Registry!EndGeneration, Registry!Fault, Registry!TypeOK, Registry!RegistryAssumption
<1>4. /\ task[t] \in Registry!TaskType /\ check # None /\ check.kind = "generation"
      /\ task' \in [Task -> Registry!TaskType \cup {None}] /\ \A u \in Task : task'[u] = None
  BY <1>2, RegistryEndParts
<1>5. /\ remembered' \in Registry!LeaseType \cup {None}
      /\ remembered' # None => remembered'.token <= leases /\ remembered'.kind = "generation"
  BY <1>2, RegistryRememberParts
<1>6. SameAccounts /\ record' \in [Connection -> Registry!RecordType \cup {None}]
  <2>1. PICK c : c = task[t].connection
    OBVIOUS
  <2>2. CASE c \in Registry!Present
    <3> DEFINE new == [record[c] EXCEPT !.generated = ending]
    <3>1. c \in Connection /\ record[c] \in Registry!RecordType /\ record[c] # None
      BY <1>1, <2>2, RegistryPresentType DEF Registry!Present
    <3>2. /\ new \in Registry!RecordType /\ new.account = record[c].account
          /\ new.pending = record[c].pending
      BY <3>1, RegistryGeneratedType
    <3>3. record' = [record EXCEPT ![c] = new]
      BY <2>1, <2>2 DEF Registry!EndGeneration
    <3> HIDE DEF new
    <3> QED
      BY <1>1, <3>1, <3>2, <3>3, RegistryOneRecord
  <2>3. CASE c \notin Registry!Present
    <3>1. UNCHANGED record
      BY <2>1, <2>3 DEF Registry!EndGeneration
    <3> QED
      BY <1>1, <3>1, RegistrySameRecords DEF Registry!TypeOK
  <2> QED
    BY <2>2, <2>3
<1>7. Registry!TypeOK'
  BY <1>1, <1>4, <1>5, <1>2, <1>3, <1>6 DEF Registry!TypeOK
<1>8. RegistryModeInv'
  BY <1>1, <1>2, <1>6, RegistryModeRests
<1>9. KeySwapInv'
  BY <1>2 DEF KeySwapInv
<1>10. RegistryLeaseInv'
  BY <1>1, <1>4, <1>5, <1>2, RegistryLeaseEnds
<1>11. ProbeInv'
  BY <1>1, <1>4, <1>2, RegistryProbeEnds
<1>12. AccountsInv'
  BY <1>1, <1>2, <1>6, RegistryAccountsRest DEF Registry!EndGeneration
<1>13. Registry!VerifiedWithThisKey'
  BY <1>1, <1>2, <1>6, RegistryVerifiedRests DEF Registry!EndGeneration
<1>14. Registry!SelectionStands'
  BY <1>1, <1>2, <1>6, RegistrySelectionRests DEF Registry!EndGeneration
<1> QED
  BY <1>7, <1>8, <1>12, <1>9, <1>10, <1>11, <1>13, <1>14 DEF RegistryInv

\* Registry!EndTranscription keeps RegistryInv.
LEMMA RegistryEndTranscriptionKeeps ==
  ASSUME RegistryInv, Registry!RegistryAssumption, NEW t \in Task,
         NEW ending \in {"succeeded", "failed", "cancelled", "unknown"},
         Registry!EndTranscription(t, ending)
  PROVE  RegistryInv'
<1>1. /\ Registry!TypeOK /\ RegistryModeInv /\ AccountsInv /\ KeySwapInv /\ RegistryLeaseInv
      /\ ProbeInv
      /\ Registry!VerifiedWithThisKey /\ Registry!SelectionStands
  BY DEF RegistryInv
<1>2. /\ UNCHANGED <<record, catalog, receipt, keychain, selection, mode, boot, swap, stale,
                     unsettled,
                     leases>>
      /\ mode \in {"up", "closing"} /\ swap = None
      /\ task[t] # None /\ task[t].kind = "transcription"
      /\ task' = [task EXCEPT ![t] = None] /\ check' \in {check, None}
      /\ Registry!Remember(t) \/ UNCHANGED remembered
  BY DEF Registry!EndTranscription, Registry!EndUse, Registry!Unlocked, Registry!Waiting,
         Registry!ReleaseLease, Registry!End
<1>3. faults' \in 0 .. MaxFaults
  BY <1>1, Registry!RegistryAssumption
    DEF Registry!EndTranscription, Registry!Fault, Registry!TypeOK, Registry!RegistryAssumption
<1>4. /\ task[t] \in Registry!TaskType /\ check # None /\ check.kind = "transcription"
      /\ task' \in [Task -> Registry!TaskType \cup {None}] /\ \A u \in Task : task'[u] = None
  BY <1>2, RegistryEndParts
<1>5. /\ remembered' \in Registry!LeaseType \cup {None}
      /\ remembered' # None => remembered'.token <= leases /\ remembered'.kind = "generation"
  BY <1>2, RegistryRememberParts
<1>6. SameAccounts /\ record' \in [Connection -> Registry!RecordType \cup {None}]
  BY <1>1, <1>2, RegistrySameRecords DEF Registry!TypeOK
<1>7. Registry!TypeOK'
  BY <1>1, <1>4, <1>5, <1>2, <1>3, <1>6 DEF Registry!TypeOK
<1>8. RegistryModeInv'
  BY <1>1, <1>2, <1>6, RegistryModeRests
<1>9. KeySwapInv'
  BY <1>2 DEF KeySwapInv
<1>10. RegistryLeaseInv'
  BY <1>1, <1>4, <1>5, <1>2, RegistryLeaseEnds
<1>11. ProbeInv'
  BY <1>1, <1>4, <1>2, RegistryProbeEnds
<1>12. AccountsInv'
  BY <1>1, <1>2, <1>6, RegistryAccountsRest DEF Registry!EndTranscription
<1>13. Registry!VerifiedWithThisKey'
  BY <1>1, <1>2, <1>6, RegistryVerifiedRests DEF Registry!EndTranscription
<1>14. Registry!SelectionStands'
  BY <1>1, <1>2, <1>6, RegistrySelectionRests DEF Registry!EndTranscription
<1> QED
  BY <1>7, <1>8, <1>12, <1>9, <1>10, <1>11, <1>13, <1>14 DEF RegistryInv

\* Registry!EndFails keeps RegistryInv.
LEMMA RegistryEndFailsKeeps ==
  ASSUME RegistryInv, Registry!RegistryAssumption, NEW t \in Task, Registry!EndFails(t)
  PROVE  RegistryInv'
<1>1. /\ Registry!TypeOK /\ RegistryModeInv /\ AccountsInv /\ KeySwapInv /\ RegistryLeaseInv
      /\ ProbeInv
      /\ Registry!VerifiedWithThisKey /\ Registry!SelectionStands
  BY DEF RegistryInv
<1>2. /\ UNCHANGED <<record, catalog, check, receipt, keychain, selection, mode, boot, swap, stale,
                     unsettled, leases>>
      /\ mode \in {"up", "closing"} /\ swap = None /\ task[t] # None
      /\ task' = [task EXCEPT ![t] = None]
      /\ Registry!Remember(t) \/ UNCHANGED remembered
  BY DEF Registry!EndFails, Registry!Unlocked, Registry!End, Registry!registry
<1>3. faults' \in 0 .. MaxFaults
  BY <1>1, Registry!RegistryAssumption
    DEF Registry!EndFails, Registry!Fault, Registry!TypeOK, Registry!RegistryAssumption
<1>4. task' \in [Task -> Registry!TaskType \cup {None}] /\ \A u \in Task : task'[u] = None
  BY <1>2, RegistryEndParts
<1>5. /\ remembered' \in Registry!LeaseType \cup {None}
      /\ remembered' # None => remembered'.token <= leases /\ remembered'.kind = "generation"
  BY <1>2, RegistryRememberParts
<1>6. SameAccounts
  BY <1>2, RegistrySameRecords
<1>7. Registry!TypeOK'
  BY <1>1, <1>4, <1>5, <1>2, <1>3 DEF Registry!TypeOK
<1>8. RegistryModeInv'
  BY <1>1, <1>2, <1>6, RegistryModeRests
<1>9. KeySwapInv'
  BY <1>2 DEF KeySwapInv
<1>10. RegistryLeaseInv'
  BY <1>1, <1>4, <1>5, <1>2, RegistryLeaseEnds
<1>11. ProbeInv'
  <2>1. \A q \in Registry!RequestId : PendingProbe(q)' <=> PendingProbe(q)
    BY <1>2 DEF PendingProbe
  <2> QED
    BY <1>1, <1>4, <1>2, <2>1 DEF ProbeInv, Registry!ProbePaidOnce
<1>12. AccountsInv'
  BY <1>1, <1>2, <1>6, RegistryAccountsRest DEF Registry!EndFails
<1>13. Registry!VerifiedWithThisKey'
  BY <1>1, <1>2, <1>6, RegistryVerifiedRests DEF Registry!EndFails
<1>14. Registry!SelectionStands'
  BY <1>1, <1>2, <1>6, RegistrySelectionRests DEF Registry!EndFails
<1> QED
  BY <1>7, <1>8, <1>12, <1>9, <1>10, <1>11, <1>13, <1>14 DEF RegistryInv

\* Registry!RecoverRelease keeps RegistryInv.
LEMMA RegistryRecoverReleaseKeeps ==
  ASSUME RegistryInv, Registry!RegistryAssumption, Registry!RecoverRelease
  PROVE  RegistryInv'
<1>1. /\ Registry!TypeOK /\ RegistryModeInv /\ AccountsInv /\ KeySwapInv /\ RegistryLeaseInv
      /\ ProbeInv
      /\ Registry!VerifiedWithThisKey /\ Registry!SelectionStands
  BY DEF RegistryInv
<1>2. /\ UNCHANGED <<catalog, receipt, keychain, selection, mode, boot, swap, task, stale,
                     unsettled, leases, faults>>
      /\ mode = "up" /\ swap = None /\ remembered # None /\ check \in {None, remembered}
      /\ check' = None /\ remembered' = None
  BY DEF Registry!RecoverRelease, Registry!Serving
<1>3. \A u \in Task : task[u] = None
  BY <1>1, <1>2 DEF RegistryLeaseInv, Registry!LeaseProtects
<1>4. \A q \in Registry!RequestId : ~PendingProbe(q)
  BY <1>1, <1>2 DEF ProbeInv, RegistryLeaseInv
<1>5. SameAccounts /\ record' \in [Connection -> Registry!RecordType \cup {None}]
  <2>1. PICK c : c = remembered.connection
    OBVIOUS
  <2>2. CASE c \in Registry!Present
    <3> DEFINE new == [record[c] EXCEPT !.generated = "unknown"]
    <3>1. c \in Connection /\ record[c] \in Registry!RecordType /\ record[c] # None
      BY <1>1, <2>2, RegistryPresentType DEF Registry!Present
    <3>2. /\ new \in Registry!RecordType /\ new.account = record[c].account
          /\ new.pending = record[c].pending
      BY <3>1, RegistryGeneratedType
    <3>3. record' = [record EXCEPT ![c] = new]
      BY <2>1, <2>2 DEF Registry!RecoverRelease
    <3> HIDE DEF new
    <3> QED
      BY <1>1, <3>1, <3>2, <3>3, RegistryOneRecord
  <2>3. CASE c \notin Registry!Present
    <3>1. UNCHANGED record
      BY <2>1, <2>3 DEF Registry!RecoverRelease
    <3> QED
      BY <1>1, <3>1, RegistrySameRecords DEF Registry!TypeOK
  <2> QED
    BY <2>2, <2>3
<1>6. Registry!TypeOK'
  BY <1>1, <1>2, <1>5 DEF Registry!TypeOK
<1>7. RegistryModeInv'
  BY <1>1, <1>2, <1>5, RegistryModeRests
<1>8. KeySwapInv'
  BY <1>2 DEF KeySwapInv
<1>9. RegistryLeaseInv'
  BY <1>3, <1>2 DEF RegistryLeaseInv, Registry!LeaseProtects
<1>10. ProbeInv'
  <2>1. \A q \in Registry!RequestId : ~PendingProbe(q)'
    BY <1>4, <1>2 DEF PendingProbe
  <2> QED
    BY <1>1, <1>3, <1>2, <2>1 DEF ProbeInv, Registry!ProbePaidOnce
<1>11. AccountsInv'
  BY <1>1, <1>2, <1>5, RegistryAccountsRest DEF Registry!RecoverRelease
<1>12. Registry!VerifiedWithThisKey'
  BY <1>1, <1>2, <1>5, RegistryVerifiedRests DEF Registry!RecoverRelease
<1>13. Registry!SelectionStands'
  BY <1>1, <1>2, <1>5, RegistrySelectionRests DEF Registry!RecoverRelease
<1> QED
  BY <1>6, <1>7, <1>11, <1>8, <1>9, <1>10, <1>12, <1>13 DEF RegistryInv

\* A step of another part keeps RegistryInv.
LEMMA RegistryStutterKeeps ==
  ASSUME RegistryInv, UNCHANGED Registry!rvars
  PROVE  RegistryInv'
<1>1. /\ Registry!TypeOK /\ RegistryModeInv /\ AccountsInv /\ KeySwapInv /\ RegistryLeaseInv
      /\ ProbeInv
      /\ Registry!VerifiedWithThisKey /\ Registry!SelectionStands
  BY DEF RegistryInv
<1>2. UNCHANGED <<record, catalog, check, receipt, keychain, selection, mode, boot, swap, task,
                  remembered, stale, unsettled, leases, faults>>
  BY DEF Registry!rvars, Registry!registry, Registry!process
<1>3. SameAccounts
  BY <1>2, RegistrySameRecords
<1>4. Registry!TypeOK'
  BY <1>1, <1>2 DEF Registry!TypeOK
<1>5. RegistryModeInv'
  BY <1>1, <1>2, <1>3, RegistryModeRests
<1>6. AccountsInv'
  BY <1>1, <1>2, <1>3, RegistryAccountsRest
<1>7. KeySwapInv'
  BY <1>1, <1>2, <1>3, RegistrySwapRests
<1>8. RegistryLeaseInv'
  BY <1>1, <1>2, RegistryLeaseRests
<1>9. ProbeInv'
  BY <1>1, <1>2, RegistryProbeRests
<1>10. Registry!VerifiedWithThisKey'
  BY <1>1, <1>2, <1>3, RegistryVerifiedRests
<1>11. Registry!SelectionStands'
  BY <1>1, <1>2, <1>3, RegistrySelectionRests
<1> QED
  BY <1>4, <1>5, <1>6, <1>7, <1>8, <1>9, <1>10, <1>11 DEF RegistryInv

\* RegistryInv holds of the initial states.
LEMMA RegistryInitKeeps ==
  ASSUME Registry!RegistryAssumption, Registry!Init
  PROVE  RegistryInv
<1>1. Registry!Present = {} /\ \A r \in Registry!RequestId : receipt[r] = None
  BY DEF Registry!Init, Registry!Present
<1>2. Registry!TypeOK
  BY Registry!RegistryAssumption DEF Registry!Init, Registry!TypeOK, Registry!RegistryAssumption
<1>3. RegistryModeInv
  BY DEF Registry!Init, RegistryModeInv
<1>4. AccountsInv
  BY <1>1 DEF Registry!Init, AccountsInv, Registry!KeysAreNamed
<1>5. KeySwapInv
  BY DEF Registry!Init, KeySwapInv
<1>6. RegistryLeaseInv
  BY DEF Registry!Init, RegistryLeaseInv, Registry!LeaseProtects
<1>7. ProbeInv
  BY <1>1 DEF Registry!Init, ProbeInv, Registry!ProbePaidOnce, PendingProbe
<1>8. Registry!VerifiedWithThisKey /\ Registry!SelectionStands
  BY <1>1 DEF Registry!Init, Registry!VerifiedWithThisKey, Registry!SelectionStands
<1> QED
  BY <1>2, <1>3, <1>4, <1>5, <1>6, <1>7, <1>8 DEF RegistryInv

\* Every step of the part keeps RegistryInv.
LEMMA RegistryNextKeeps ==
  ASSUME RegistryInv, Registry!RegistryAssumption, Registry!Next
  PROVE  RegistryInv'
<1>1. CASE Registry!Manage
  BY <1>1, RegistrySetFieldsKeeps, RegistrySetCredentialKeeps, RegistryDeleteKeeps,
     RegistrySelectModelKeeps, RegistryDeselectKeeps
    DEF Registry!Manage
<1>2. CASE Registry!SwapStep
  BY <1>2, RegistryStoreKeyKeeps, RegistryFinishSwapKeeps, RegistryAbandonSwapKeeps,
     RegistryDeleteOldKeyKeeps, RegistrySwapFailsKeeps
    DEF Registry!SwapStep
<1>3. CASE Registry!StartStep
  BY <1>3, RegistryStartKeeps, RegistryFinishStartKeeps, RegistryDeleteStaleKeeps,
     RegistryClearMarkerKeeps, RegistryKeepMarkerKeeps
    DEF Registry!StartStep
<1>4. ASSUME NEW t \in Task, Registry!Finish(t)
      PROVE  RegistryInv'
  BY <1>4, RegistryEndTestKeeps, RegistryEndVerifyKeeps, RegistryEndGenerationKeeps,
     RegistryEndTranscriptionKeeps, RegistryEndFailsKeeps
    DEF Registry!Finish
<1>5. CASE \E t \in Task :
              \/ \E c \in Connection : Registry!BeginTest(t, c)
              \/ \E c \in Connection, r \in Registry!RequestId : Registry!BeginVerify(t, c, r)
              \/ Registry!BeginGeneration(t) \/ Registry!BeginTranscription(t) \/ Registry!Send(
                   t) \/ Registry!Finish(t)
  BY <1>4, <1>5, RegistryBeginTestKeeps, RegistryBeginVerifyKeeps, RegistryBeginGenerationKeeps,
     RegistryBeginTranscriptionKeeps, RegistrySendKeeps
<1>6. CASE Registry!RecoverRelease \/ Registry!Close \/ Registry!Stop
  BY <1>6, RegistryRecoverReleaseKeeps, RegistryCloseKeeps, RegistryStopKeeps
<1> QED
  BY <1>1, <1>2, <1>3, <1>5, <1>6 DEF Registry!Next

\* The invariant of the registry implies what the run checks of it.
LEMMA RegistryInvIsSafe ==
  ASSUME RegistryInv
  PROVE  Registry!RegistrySafe
<1>1. /\ Registry!TypeOK /\ AccountsInv /\ RegistryLeaseInv /\ ProbeInv
      /\ Registry!VerifiedWithThisKey /\ Registry!SelectionStands
  BY DEF RegistryInv
<1>2. Registry!ShownKeyExists
  BY <1>1 DEF AccountsInv, Registry!ShownKeyExists, Registry!Accounts
<1> QED
  BY <1>1, <1>2 DEF Registry!RegistrySafe, AccountsInv, RegistryLeaseInv, ProbeInv

(* RegistryInv is an invariant: the inductive invariant of the registry.     *)
THEOREM RegistryInvariant == Spec => []RegistryInv
<1>1. Init => RegistryInv
  BY RegistryInitKeeps, ProvidersAssumption DEF Init
<1>2. RegistryInv /\ [Next]_all => RegistryInv'
  <2> SUFFICES ASSUME RegistryInv, [Next]_all PROVE RegistryInv'
    OBVIOUS
  <2>1. Registry!Next \/ UNCHANGED rvars
    BY DEF Next, all
  <2> QED
    BY <2>1, RegistryNextKeeps, RegistryStutterKeeps, ProvidersAssumption
      DEF rvars, Registry!rvars, Registry!registry, Registry!process
<1> QED
  BY <1>1, <1>2, PTL DEF Spec

(* No key is lost in the Keychain and none is in use that a record does not *)
(* show; a call under way owns the lease and its key; a probe whose outcome *)
(* is unknown is not paid for twice; a model is selectable on the evidence  *)
(* of the connection's own key; a selected connection stays                 *)
(* (connections.py, service.py).                                            *)
THEOREM RegistryIsSafe == Spec => []RegistrySafe
<1>1. RegistryInv => RegistrySafe
  BY RegistryInvIsSafe, ProvidersAssumption DEF RegistrySafe
<1> QED
  BY <1>1, RegistryInvariant, PTL

-----------------------------------------------------------------------------
(* One request to a provider (ProviderExchange)                             *)

(* Where a request stands before its first byte, and what may be retried.  *)
Unsent == {"idle", "slot", "lookup", "connect", "tls", "mark", "again"}
Retryable == {"cancelled", "not_sent", "invalid", "unverified", "denied", "rejected"}
Verdicts == Retryable \cup {"none", "answer", "declined", "unknown", "listed", "failed"}

(* What the provider has of a request follows its thread. *)
SentAsMarked(r) ==
  /\ stage[r] \in Unsent => ~started[r]
  /\ stage[r] \in {"write", "read", "body"} => started[r]
  /\ ~started[r] => wire[r] = "none"
  /\ stage[r] = "write" => wire[r] # "whole"
  /\ wire[r] # "whole" => done[r] = "nothing"

(* A reply comes of what the provider did. *)
ReplyIsOfDone(r) ==
  /\ reply[r] # "none" => done[r] # "nothing"
  /\ done[r] = "work" => reply[r] \notin Exchange!KnownRefusals(r)
  /\ done[r] = "refuse" => reply[r] \notin Exchange!Bodies
  /\ stage[r] = "body" => reply[r] \in Exchange!Bodies

(* A request has a verdict when it has ended.  One that may be retried was *)
(* not sent, or refused, and stays so however late the provider is.        *)
VerdictStands(r) ==
  /\ stage[r] # "ended" => verdict[r] = "none"
  /\ verdict[r] \in Retryable /\ Exchange!Charged(r) => wire[r] = "none" \/ done[r] = "refuse"
  /\ verdict[r] = "answer" => done[r] = "work" /\ reply[r] = "text" /\ wire[r] = "whole"
  /\ verdict[r] = "declined" => done[r] = "work"
  /\ stage[r] = "again" => kind[r] = "ollama"

(* A pinned request is connected to an address that was approved. *)
PeerIsApproved(r) ==
  Exchange!Pinned(r) =>
    /\ stage[r] = "connect" => addresses[r] \in {"own", "public"}
    /\ stage[r] \in {"tls", "mark", "write", "read", "body"} => peer[r] \in {"own", "public"}
    /\ wire[r] # "none" => peer[r] \in {"own", "public"}

(* A resolver is waited for only by a request that looks up its host. *)
LookupIsAwaited(r) == lookup[r] # "none" => stage[r] = "lookup"

(* What holds of one request. *)
RequestInv(r) ==
  /\ SentAsMarked(r) /\ ReplyIsOfDone(r) /\ VerdictStands(r)
  /\ PeerIsApproved(r) /\ LookupIsAwaited(r)

(* The slots that running resolvers hold. *)
RunningLookups == {r \in Request : lookup[r] = "running"}
SlotsCounted ==
  IsFiniteSet(RunningLookups) /\ slots + detached + Cardinality(RunningLookups) = DnsSlots

(* The inductive invariant of the exchanges. *)
ExchangeInv == Exchange!TypeOK /\ SlotsCounted /\ \A r \in Request : RequestInv(r)

(* The state of one request. *)
OwnRequest(r) ==
  <<kind[r], stage[r], verified[r], started[r], addresses[r], peer[r], lookup[r], wire[r],
    done[r], reply[r], verdict[r]>>

\* A request whose own state stays keeps its invariant.
LEMMA ExchangeOwnRests ==
  ASSUME NEW q, RequestInv(q), UNCHANGED OwnRequest(q)
  PROVE  RequestInv(q)'
<1>1. /\ (Exchange!Pinned(q)' <=> Exchange!Pinned(q))
      /\ (Exchange!Charged(q)' <=> Exchange!Charged(q))
      /\ Exchange!KnownRefusals(q)' = Exchange!KnownRefusals(q)
  BY DEF OwnRequest, Exchange!Pinned, Exchange!Charged, Exchange!KnownRefusals
<1> QED
  BY <1>1
    DEF OwnRequest, RequestInv, SentAsMarked, ReplyIsOfDone, VerdictStands, PeerIsApproved,
        LookupIsAwaited

\* The count of the slots stays while the running resolvers do.
LEMMA ExchangeSlotsRest ==
  ASSUME SlotsCounted, UNCHANGED <<slots, detached>>,
         \A r \in Request : lookup'[r] = "running" <=> lookup[r] = "running"
  PROVE  SlotsCounted'
<1>1. RunningLookups' = RunningLookups
  BY DEF RunningLookups
<1> QED
  BY <1>1 DEF SlotsCounted

\* A resolver that ends is one running resolver less.
LEMMA ExchangeRunningLess ==
  ASSUME SlotsCounted, Exchange!TypeOK, NEW r \in Request, lookup[r] = "running", NEW a,
         a # "running",
         lookup' = [lookup EXCEPT ![r] = a]
  PROVE  /\ IsFiniteSet(RunningLookups')
         /\ Cardinality(RunningLookups') = Cardinality(RunningLookups) - 1
         /\ Cardinality(RunningLookups') \in Nat /\ Cardinality(RunningLookups) \in Nat
<1>1. RunningLookups' = RunningLookups \ {r} /\ r \in RunningLookups
  BY DEF RunningLookups, Exchange!TypeOK
<1> QED
  BY <1>1, FS_RemoveElement, FS_CardinalityType DEF SlotsCounted

\* A resolver that starts is one running resolver more.
LEMMA ExchangeRunningMore ==
  ASSUME SlotsCounted, Exchange!TypeOK, NEW r \in Request, lookup[r] # "running",
         lookup' = [lookup EXCEPT ![r] = "running"]
  PROVE  /\ IsFiniteSet(RunningLookups')
         /\ Cardinality(RunningLookups') = Cardinality(RunningLookups) + 1
         /\ Cardinality(RunningLookups') \in Nat /\ Cardinality(RunningLookups) \in Nat
<1>1. RunningLookups' = RunningLookups \cup {r} /\ r \notin RunningLookups
  BY DEF RunningLookups, Exchange!TypeOK
<1> QED
  BY <1>1, FS_AddElement, FS_CardinalityType DEF SlotsCounted

\* Exchange!Close keeps ExchangeInv.
LEMMA ExchangeCloseKeeps ==
  ASSUME SlotsCounted, Exchange!TypeOK, Exchange!ExchangeAssumption, NEW r \in Request,
         Exchange!Close(r), slots' = slots
  PROVE  /\ SlotsCounted'
         /\ detached' \in 0 .. DnsSlots
         /\ clock' \in [Request -> {"off", "running", "expired"}]
         /\ socket' \in [Request -> {"none", "open", "aborted"}]
         /\ lookup' \in [Request -> {"none", "running", "public", "mixed", "nothing"}]
         /\ lookup'[r] = "none"
         /\ \A q \in Request \ {r} : lookup'[q] = lookup[q]
<1>1. CASE lookup[r] = "running"
  <2>1. /\ IsFiniteSet(RunningLookups')
        /\ Cardinality(RunningLookups') = Cardinality(RunningLookups) - 1
        /\ Cardinality(RunningLookups') \in Nat /\ Cardinality(RunningLookups) \in Nat
    BY <1>1, ExchangeRunningLess DEF Exchange!Close
  <2>2. detached' = detached + 1
    BY <1>1 DEF Exchange!Close
  <2>3. slots + detached + Cardinality(RunningLookups) = DnsSlots
    BY DEF SlotsCounted
  <2>4. slots' + detached' + Cardinality(RunningLookups') = DnsSlots /\ detached' \in 0 .. DnsSlots
    BY <2>1, <2>2, <2>3 DEF Exchange!TypeOK, Exchange!ExchangeAssumption
  <2>5. SlotsCounted'
    BY <2>1, <2>4 DEF SlotsCounted
  <2> QED
    BY <2>4, <2>5 DEF Exchange!Close, Exchange!TypeOK
<1>2. CASE lookup[r] # "running"
  <2>1. detached' = detached /\ \A q \in Request : lookup'[q] = "running" <=> lookup[q] = "running"
    BY <1>2 DEF Exchange!Close, Exchange!TypeOK
  <2>2. SlotsCounted'
    BY <2>1, ExchangeSlotsRest
  <2> QED
    BY <2>1, <2>2 DEF Exchange!Close, Exchange!TypeOK
<1> QED
  BY <1>1, <1>2

(* The rest of a request's own state when it ends. *)
LEMMA ExchangeEndKeeps ==
  ASSUME ExchangeInv, Exchange!ExchangeAssumption, NEW r \in Request, NEW what \in Verdicts,
         Exchange!End(r, what),
         UNCHANGED <<Exchange!request, verified, cancelWish, started, peer, slots, wire, done,
                     reply>>,
         breakdowns' \in 0 .. MaxBreakdowns,
         addresses' \in [Request -> {"none", "own", "public", "mixed"}],
         \A q \in Request \ {r} : addresses'[q] = addresses[q],
         what \in Retryable /\ Exchange!Charged(r) => wire[r] = "none" \/ done[r] = "refuse",
         what = "answer" => done[r] = "work" /\ reply[r] = "text",
         what = "declined" => done[r] = "work"
  PROVE  ExchangeInv'
<1>1. Exchange!TypeOK /\ SlotsCounted
  BY DEF ExchangeInv
<1>2. /\ SlotsCounted'
      /\ detached' \in 0 .. DnsSlots
      /\ clock' \in [Request -> {"off", "running", "expired"}]
      /\ socket' \in [Request -> {"none", "open", "aborted"}]
      /\ lookup' \in [Request -> {"none", "running", "public", "mixed", "nothing"}]
      /\ lookup'[r] = "none"
      /\ \A q \in Request \ {r} : lookup'[q] = lookup[q]
  BY <1>1, ExchangeCloseKeeps DEF Exchange!End
<1>3. /\ stage'[r] = "ended" /\ verdict'[r] = what
      /\ \A q \in Request \ {r} : stage'[q] = stage[q] /\ verdict'[q] = verdict[q]
  BY <1>1 DEF Exchange!End, Exchange!Goto, Exchange!TypeOK
<1>4. Exchange!TypeOK'
  <2>1. /\ stage' \in [Request -> {"idle", "slot", "lookup", "connect", "tls", "mark", "write",
                                  "read", "body", "again", "ended"}]
        /\ verdict' \in [Request -> {"none", "answer", "declined", "unknown", "cancelled",
             "not_sent", "invalid", "unverified", "denied", "rejected", "listed", "failed"}]
    BY <1>1 DEF Exchange!End, Exchange!Goto, Exchange!TypeOK, Verdicts, Retryable
  <2> QED
    BY <1>1, <1>2, <2>1 DEF Exchange!TypeOK, Exchange!request
<1>5. RequestInv(r)
  BY DEF ExchangeInv
<1>6. /\ (Exchange!Pinned(r)' <=> Exchange!Pinned(r))
      /\ (Exchange!Charged(r)' <=> Exchange!Charged(r))
      /\ Exchange!KnownRefusals(r)' = Exchange!KnownRefusals(r)
  BY DEF Exchange!request, Exchange!Pinned, Exchange!Charged, Exchange!KnownRefusals
<1>7. RequestInv(r)'
  <2>1. SentAsMarked(r)'
    BY <1>3, <1>5 DEF RequestInv, SentAsMarked, Unsent
  <2>2. ReplyIsOfDone(r)'
    BY <1>3, <1>5, <1>6 DEF RequestInv, ReplyIsOfDone
  <2>3. VerdictStands(r)'
    BY <1>1, <1>3, <1>5, <1>6 DEF RequestInv, VerdictStands, SentAsMarked, Exchange!TypeOK
  <2>4. PeerIsApproved(r)'
    BY <1>3, <1>5, <1>6 DEF RequestInv, PeerIsApproved
  <2> QED
    BY <1>2, <2>1, <2>2, <2>3, <2>4 DEF RequestInv, LookupIsAwaited
<1>8. \A q \in Request \ {r} : RequestInv(q)'
  BY <1>2, <1>3, ExchangeOwnRests DEF ExchangeInv, OwnRequest, Exchange!request
<1> QED
  BY <1>2, <1>4, <1>7, <1>8 DEF ExchangeInv

\* A step of one request that keeps its parts keeps ExchangeInv.
LEMMA ExchangeMoveKeeps ==
  ASSUME ExchangeInv, NEW r \in Request, Exchange!TypeOK', SlotsCounted', RequestInv(r)',
         \A q \in Request \ {r} : UNCHANGED OwnRequest(q)
  PROVE  ExchangeInv'
  BY ExchangeOwnRests DEF ExchangeInv

\* Exchange!Refuse keeps ExchangeInv.
LEMMA ExchangeRefuseKeeps ==
  ASSUME ExchangeInv, Exchange!ExchangeAssumption, NEW r \in Request, Exchange!Refuse(r)
  PROVE  ExchangeInv'
<1>1. Exchange!TypeOK /\ RequestInv(r)
  BY DEF ExchangeInv
<1>2. wire[r] = "none"
  BY <1>1 DEF Exchange!Refuse, RequestInv, SentAsMarked, Unsent
<1> QED
  BY <1>1, <1>2, ExchangeEndKeeps
    DEF Exchange!Refuse, Exchange!TypeOK, Verdicts, Retryable, Exchange!request

(* An interruption is retryable only before the first byte. *)
LEMMA ExchangeInterruptedIs ==
  ASSUME NEW r \in Request, Exchange!TypeOK, RequestInv(r)
  PROVE  /\ Exchange!Interrupted(r) \in Verdicts \ {"answer", "declined"}
         /\ Exchange!Interrupted(r) \in Retryable /\ Exchange!Charged(r) => wire[r] = "none"
<1>1. started[r] \in BOOLEAN
  BY DEF Exchange!TypeOK
<1>2. CASE started[r] /\ Exchange!Charged(r)
  <2>1. Exchange!Interrupted(r) = "unknown"
    BY <1>2 DEF Exchange!Interrupted, Exchange!LocalError, Exchange!Charged
  <2> QED
    BY <2>1 DEF Verdicts, Retryable
<1>3. CASE ~(started[r] /\ Exchange!Charged(r))
  <2>1. Exchange!Interrupted(r) \in {"cancelled", "not_sent", "unverified"}
    BY <1>3 DEF Exchange!Interrupted, Exchange!LocalError
  <2>2. Exchange!Charged(r) => wire[r] = "none"
    BY <1>1, <1>3 DEF RequestInv, SentAsMarked
  <2> QED
    BY <2>1, <2>2 DEF Verdicts, Retryable
<1> QED
  BY <1>2, <1>3

\* Exchange!Break keeps ExchangeInv.
LEMMA ExchangeBreakKeeps ==
  ASSUME ExchangeInv, Exchange!ExchangeAssumption, NEW r \in Request, Exchange!Break(r)
  PROVE  ExchangeInv'
<1>1. Exchange!TypeOK /\ RequestInv(r)
  BY DEF ExchangeInv
<1>2. breakdowns' \in 0 .. MaxBreakdowns
  BY <1>1 DEF Exchange!Break, Exchange!Fault, Exchange!TypeOK, Exchange!ExchangeAssumption
<1>3. Exchange!Interrupted(r) \in Verdicts
  BY <1>1, ExchangeInterruptedIs
<1> QED
  BY <1>1, <1>2, <1>3, ExchangeInterruptedIs, ExchangeEndKeeps
    DEF Exchange!Break, Exchange!TypeOK, Exchange!request

\* Exchange!Begin keeps ExchangeInv.
LEMMA ExchangeBeginKeeps ==
  ASSUME ExchangeInv, Exchange!ExchangeAssumption, NEW r \in Request, Exchange!Begin(r)
  PROVE  ExchangeInv'
<1>1. Exchange!TypeOK /\ SlotsCounted /\ RequestInv(r)
  BY DEF ExchangeInv
<1>2. /\ addresses' \in [Request -> {"none", "own", "public", "mixed"}]
      /\ addresses'[r] \in {"own", "none"} /\ (host[r] = "numeric" => addresses'[r] = "own")
      /\ \A q \in Request \ {r} : addresses'[q] = addresses[q]
  BY <1>1 DEF Exchange!Begin, Exchange!TypeOK
<1>3. CASE cancelWish[r]
  <2>1. Exchange!End(r, "cancelled") /\ wire[r] = "none"
    BY <1>1, <1>3 DEF Exchange!Begin, RequestInv, SentAsMarked, Unsent
  <2> QED
    BY <1>1, <1>2, <2>1, ExchangeEndKeeps
      DEF Exchange!Begin, Exchange!TypeOK, Verdicts, Retryable, Exchange!request
<1>4. CASE ~cancelWish[r]
  <2>1. /\ stage'[r] = (IF host[r] = "name" THEN "slot" ELSE "connect")
        /\ \A q \in Request \ {r} : stage'[q] = stage[q]
    BY <1>1, <1>4 DEF Exchange!Begin, Exchange!Goto, Exchange!TypeOK
  <2>2. Exchange!TypeOK'
    BY <1>1, <1>2, <1>4 DEF Exchange!Begin, Exchange!Goto, Exchange!TypeOK, Exchange!request
  <2>3. SlotsCounted'
    BY <1>1, <1>4, ExchangeSlotsRest DEF Exchange!Begin
  <2>4. RequestInv(r)'
    BY <1>1, <1>2, <1>4, <2>1
      DEF Exchange!Begin, Exchange!request, Exchange!Charged, Exchange!Pinned,
          Exchange!KnownRefusals, Exchange!TypeOK, RequestInv, SentAsMarked, ReplyIsOfDone,
          VerdictStands, PeerIsApproved, LookupIsAwaited, Unsent, Retryable
  <2> QED
    BY <1>2, <1>4, <2>1, <2>2, <2>3, <2>4, ExchangeMoveKeeps
      DEF Exchange!Begin, OwnRequest, Exchange!request
<1> QED
  BY <1>3, <1>4

\* Exchange!TakeSlot keeps ExchangeInv.
LEMMA ExchangeTakeSlotKeeps ==
  ASSUME ExchangeInv, Exchange!ExchangeAssumption, NEW r \in Request, Exchange!TakeSlot(r)
  PROVE  ExchangeInv'
<1>1. Exchange!TypeOK /\ SlotsCounted /\ RequestInv(r)
  BY DEF ExchangeInv
<1>2. CASE Exchange!InTime(r)
  <2>1. /\ stage'[r] = "lookup" /\ lookup'[r] = "running" /\ lookup[r] = "none"
        /\ \A q \in Request \ {r} : stage'[q] = stage[q] /\ lookup'[q] = lookup[q]
    BY <1>1, <1>2
      DEF Exchange!TakeSlot, Exchange!Goto, Exchange!TypeOK, RequestInv, LookupIsAwaited
  <2>2. Exchange!TypeOK'
    BY <1>1, <1>2
      DEF Exchange!TakeSlot, Exchange!Goto, Exchange!TypeOK, Exchange!request,
          Exchange!ExchangeAssumption
  <2>3. SlotsCounted'
    <3>1. /\ IsFiniteSet(RunningLookups')
          /\ Cardinality(RunningLookups') = Cardinality(RunningLookups) + 1
          /\ Cardinality(RunningLookups') \in Nat /\ Cardinality(RunningLookups) \in Nat
      BY <1>1, <1>2, <2>1, ExchangeRunningMore DEF Exchange!TakeSlot
    <3>2. slots + detached + Cardinality(RunningLookups) = DnsSlots
      BY <1>1 DEF SlotsCounted
    <3>3. slots' + detached' + Cardinality(RunningLookups') = DnsSlots
      BY <1>1, <1>2, <3>1, <3>2
        DEF Exchange!TakeSlot, Exchange!TypeOK, Exchange!ExchangeAssumption
    <3> QED
      BY <3>1, <3>3 DEF SlotsCounted
  <2>4. RequestInv(r)'
    BY <1>1, <1>2, <2>1
      DEF Exchange!TakeSlot, Exchange!request, Exchange!Charged, Exchange!Pinned,
          Exchange!KnownRefusals, Exchange!TypeOK, RequestInv, SentAsMarked, ReplyIsOfDone,
          VerdictStands, PeerIsApproved, LookupIsAwaited, Unsent, Retryable
  <2> QED
    BY <1>2, <2>1, <2>2, <2>3, <2>4, ExchangeMoveKeeps
      DEF Exchange!TakeSlot, OwnRequest, Exchange!request
<1>3. CASE ~Exchange!InTime(r)
  BY <1>1, <1>3, ExchangeInterruptedIs, ExchangeEndKeeps
    DEF Exchange!TakeSlot, Exchange!TypeOK, Exchange!request
<1> QED
  BY <1>2, <1>3

(* A resolver that answers gives its slot back. *)
LEMMA ExchangeResolveKeeps ==
  ASSUME ExchangeInv, Exchange!ExchangeAssumption, NEW r \in Request,
         NEW answer \in {"public", "mixed", "nothing"}, Exchange!Resolve(r, answer)
  PROVE  ExchangeInv'
<1>1. Exchange!TypeOK /\ SlotsCounted /\ RequestInv(r)
  BY DEF ExchangeInv
<1>2. /\ IsFiniteSet(RunningLookups')
      /\ Cardinality(RunningLookups') = Cardinality(RunningLookups) - 1
      /\ Cardinality(RunningLookups') \in Nat /\ Cardinality(RunningLookups) \in Nat
  BY <1>1, ExchangeRunningLess DEF Exchange!Resolve
<1>3. slots + detached + Cardinality(RunningLookups) = DnsSlots
  BY <1>1 DEF SlotsCounted
<1>4. slots' + detached' + Cardinality(RunningLookups') = DnsSlots /\ slots' \in 0 .. DnsSlots
  BY <1>1, <1>2, <1>3 DEF Exchange!Resolve, Exchange!TypeOK, Exchange!ExchangeAssumption
<1>5. SlotsCounted'
  BY <1>2, <1>4 DEF SlotsCounted
<1>6. Exchange!TypeOK'
  BY <1>1, <1>4 DEF Exchange!Resolve, Exchange!TypeOK, Exchange!request
<1>7. lookup[r] = "running" /\ \A q \in Request \ {r} : lookup'[q] = lookup[q]
  BY <1>1 DEF Exchange!Resolve, Exchange!TypeOK
<1>8. RequestInv(r)'
  BY <1>1, <1>7
    DEF Exchange!Resolve, Exchange!request, Exchange!Charged, Exchange!Pinned,
        Exchange!KnownRefusals, RequestInv, SentAsMarked, ReplyIsOfDone, VerdictStands,
        PeerIsApproved, LookupIsAwaited, Unsent, Retryable
<1> QED
  BY <1>5, <1>6, <1>7, <1>8, ExchangeMoveKeeps DEF Exchange!Resolve, OwnRequest, Exchange!request

\* Exchange!ResolveLate keeps ExchangeInv.
LEMMA ExchangeResolveLateKeeps ==
  ASSUME ExchangeInv, Exchange!ExchangeAssumption, Exchange!ResolveLate
  PROVE  ExchangeInv'
<1>1. Exchange!TypeOK /\ SlotsCounted
  BY DEF ExchangeInv
<1>2. RunningLookups' = RunningLookups
  BY DEF Exchange!ResolveLate, RunningLookups
<1>3. /\ Cardinality(RunningLookups) \in Nat
      /\ slots + detached + Cardinality(RunningLookups) = DnsSlots
  BY <1>1, FS_CardinalityType DEF SlotsCounted
<1>4. /\ slots' + detached' + Cardinality(RunningLookups') = DnsSlots
      /\ slots' \in 0 .. DnsSlots /\ detached' \in 0 .. DnsSlots
  BY <1>1, <1>2, <1>3 DEF Exchange!ResolveLate, Exchange!TypeOK, Exchange!ExchangeAssumption
<1>5. SlotsCounted'
  BY <1>1, <1>2, <1>4 DEF SlotsCounted
<1>6. Exchange!TypeOK'
  BY <1>1, <1>4 DEF Exchange!ResolveLate, Exchange!TypeOK, Exchange!request
<1> QED
  BY <1>5, <1>6, ExchangeOwnRests
    DEF ExchangeInv, OwnRequest, Exchange!ResolveLate, Exchange!request

\* Exchange!Found keeps ExchangeInv.
LEMMA ExchangeFoundKeeps ==
  ASSUME ExchangeInv, Exchange!ExchangeAssumption, NEW r \in Request, Exchange!Found(r)
  PROVE  ExchangeInv'
<1>1. Exchange!TypeOK /\ SlotsCounted /\ RequestInv(r)
  BY DEF ExchangeInv
<1>2. wire[r] = "none"
  BY <1>1 DEF Exchange!Found, RequestInv, SentAsMarked, Unsent

<1>3. CASE lookup[r] = "nothing"
  BY <1>1, <1>3, ExchangeInterruptedIs, ExchangeEndKeeps
    DEF Exchange!Found, Exchange!TypeOK, Exchange!request
<1>4. CASE lookup[r] # "nothing" /\ Exchange!Pinned(r) /\ lookup[r] = "mixed"
  BY <1>1, <1>2, <1>4, ExchangeEndKeeps
    DEF Exchange!Found, Exchange!TypeOK, Exchange!request, Verdicts, Retryable
<1>5. CASE lookup[r] # "nothing" /\ ~(Exchange!Pinned(r) /\ lookup[r] = "mixed")
  <2>1. /\ stage'[r] = "connect" /\ lookup'[r] = "none" /\ addresses'[r] = lookup[r]
        /\ \A q \in Request \ {r} :
             stage'[q] = stage[q] /\ lookup'[q] = lookup[q] /\ addresses'[q] = addresses[q]
    BY <1>1, <1>5 DEF Exchange!Found, Exchange!Goto, Exchange!TypeOK
  <2>2. Exchange!TypeOK'
    BY <1>1, <1>5 DEF Exchange!Found, Exchange!Goto, Exchange!TypeOK, Exchange!request
  <2>3. SlotsCounted'
    BY <1>1, <1>5, <2>1, ExchangeSlotsRest DEF Exchange!Found, Exchange!TypeOK
  <2>4. RequestInv(r)'
    BY <1>1, <1>5, <2>1
      DEF Exchange!Found, Exchange!request, Exchange!Charged, Exchange!Pinned,
          Exchange!KnownRefusals, RequestInv, SentAsMarked, ReplyIsOfDone, VerdictStands,
          PeerIsApproved, LookupIsAwaited, Unsent, Retryable
  <2> QED
    BY <1>5, <2>1, <2>2, <2>3, <2>4, ExchangeMoveKeeps
      DEF Exchange!Found, OwnRequest, Exchange!request
<1> QED
  BY <1>3, <1>4, <1>5

\* Exchange!Mark keeps ExchangeInv.
LEMMA ExchangeMarkKeeps ==
  ASSUME ExchangeInv, Exchange!ExchangeAssumption, NEW r \in Request, Exchange!Mark(r)
  PROVE  ExchangeInv'
<1>1. Exchange!TypeOK /\ SlotsCounted /\ RequestInv(r)
  BY DEF ExchangeInv
<1>2. CASE Exchange!InTime(r)
  <2>1. /\ stage'[r] = "write" /\ started'[r]
        /\ \A q \in Request \ {r} : stage'[q] = stage[q] /\ started'[q] = started[q]
    BY <1>1, <1>2 DEF Exchange!Mark, Exchange!Goto, Exchange!TypeOK
  <2>2. Exchange!TypeOK'
    <3>1. started' \in [Request -> BOOLEAN]
      BY <1>1, <1>2 DEF Exchange!Mark, Exchange!TypeOK
    <3> QED
      BY <1>1, <1>2, <3>1 DEF Exchange!Mark, Exchange!Goto, Exchange!TypeOK, Exchange!request
  <2>3. SlotsCounted'
    BY <1>1, <1>2, ExchangeSlotsRest DEF Exchange!Mark
  <2>4. RequestInv(r)'
    BY <1>1, <1>2, <2>1
      DEF Exchange!Mark, Exchange!request, Exchange!Charged, Exchange!Pinned,
          Exchange!KnownRefusals, RequestInv, SentAsMarked, ReplyIsOfDone, VerdictStands,
          PeerIsApproved, LookupIsAwaited, Unsent, Retryable
  <2> QED
    BY <1>2, <2>1, <2>2, <2>3, <2>4, ExchangeMoveKeeps
      DEF Exchange!Mark, OwnRequest, Exchange!request
<1>3. CASE ~Exchange!InTime(r)
  BY <1>1, <1>3, ExchangeInterruptedIs, ExchangeEndKeeps
    DEF Exchange!Mark, Exchange!TypeOK, Exchange!request
<1> QED
  BY <1>2, <1>3

\* Exchange!ReadHead keeps ExchangeInv.
LEMMA ExchangeReadHeadKeeps ==
  ASSUME ExchangeInv, Exchange!ExchangeAssumption, NEW r \in Request, Exchange!ReadHead(r)
  PROVE  ExchangeInv'
<1>1. Exchange!TypeOK /\ SlotsCounted /\ RequestInv(r)
  BY DEF ExchangeInv
<1>2. CASE reply[r] \in Exchange!Statuses
  <2>1. /\ Exchange!StatusOutcome(r) \in Verdicts \ {"answer", "declined"}
        /\ Exchange!StatusOutcome(r) \in Retryable /\ Exchange!Charged(r) =>
             reply[r] \in Exchange!KnownRefusals(r)
    BY <1>1
      DEF Exchange!StatusOutcome, Exchange!LocalError, Exchange!Charged, Exchange!KnownRefusals,
          Verdicts, Retryable, Exchange!TypeOK
  <2>2. reply[r] \in Exchange!KnownRefusals(r) => done[r] = "refuse"
    BY <1>1, <1>2 DEF RequestInv, ReplyIsOfDone, Exchange!TypeOK, Exchange!Statuses
  <2> QED
    BY <1>1, <1>2, <2>1, <2>2, ExchangeEndKeeps
      DEF Exchange!ReadHead, Exchange!TypeOK, Exchange!request
<1>3. CASE reply[r] \notin Exchange!Statuses
  <2>1. stage'[r] = "body" /\ \A q \in Request \ {r} : stage'[q] = stage[q]
    BY <1>1, <1>3 DEF Exchange!ReadHead, Exchange!Goto, Exchange!TypeOK
  <2>2. Exchange!TypeOK'
    BY <1>1, <1>3 DEF Exchange!ReadHead, Exchange!Goto, Exchange!TypeOK, Exchange!request
  <2>3. SlotsCounted'
    BY <1>1, <1>3, ExchangeSlotsRest DEF Exchange!ReadHead
  <2>4. reply[r] \in Exchange!Bodies
    BY <1>1, <1>3 DEF Exchange!ReadHead, Exchange!TypeOK
  <2>5. RequestInv(r)'
    BY <1>1, <1>3, <2>1, <2>4
      DEF Exchange!ReadHead, Exchange!request, Exchange!Charged, Exchange!Pinned,
          Exchange!KnownRefusals, RequestInv, SentAsMarked, ReplyIsOfDone, VerdictStands,
          PeerIsApproved, LookupIsAwaited, Unsent, Retryable
  <2> QED
    BY <1>3, <2>1, <2>2, <2>3, <2>5, ExchangeMoveKeeps
      DEF Exchange!ReadHead, OwnRequest, Exchange!request
<1> QED
  BY <1>2, <1>3

\* Exchange!ReadBody keeps ExchangeInv.
LEMMA ExchangeReadBodyKeeps ==
  ASSUME ExchangeInv, Exchange!ExchangeAssumption, NEW r \in Request, Exchange!ReadBody(r)
  PROVE  ExchangeInv'
<1>1. Exchange!TypeOK /\ SlotsCounted /\ RequestInv(r)
  BY DEF ExchangeInv
<1>2. reply[r] \in Exchange!Bodies /\ done[r] = "work"
  BY <1>1 DEF Exchange!ReadBody, RequestInv, ReplyIsOfDone, Exchange!Bodies, Exchange!TypeOK
<1> DEFINE what == IF Exchange!Charged(r) THEN Exchange!Parsed(r) ELSE Exchange!Listed(r)
<1>3. /\ what \in Verdicts \ Retryable
      /\ what = "answer" => reply[r] = "text"
  BY <1>1
    DEF Exchange!Parsed, Exchange!ParsedMinutes, Exchange!ParsedCompatible,
        Exchange!ParsedLocal, Exchange!ParsedAudio, Exchange!Listed, Exchange!Charged, Verdicts,
        Retryable, Exchange!TypeOK, Exchange!AllKinds
<1>4. Exchange!End(r, what)
  BY DEF Exchange!ReadBody
<1> HIDE DEF what
<1> QED
  BY <1>1, <1>2, <1>3, <1>4, ExchangeEndKeeps
    DEF Exchange!ReadBody, Exchange!TypeOK, Exchange!request

(* A local model that was verified is asked with nothing sent yet. *)
LEMMA ExchangeVerifyLocalKeeps ==
  ASSUME ExchangeInv, Exchange!ExchangeAssumption, NEW r \in Request, Exchange!VerifyLocal(r)
  PROVE  ExchangeInv'
<1>1. Exchange!TypeOK /\ SlotsCounted /\ RequestInv(r)
  BY DEF ExchangeInv
<1>2. CASE reply[r] # "text"
  BY <1>1, <1>2, ExchangeEndKeeps
    DEF Exchange!VerifyLocal, Exchange!TypeOK, Exchange!request, Verdicts, Retryable,
        Exchange!Charged
<1>3. CASE reply[r] = "text"
  <2>1. /\ SlotsCounted'
        /\ detached' \in 0 .. DnsSlots
        /\ clock' \in [Request -> {"off", "running", "expired"}]
        /\ socket' \in [Request -> {"none", "open", "aborted"}]
        /\ lookup' \in [Request -> {"none", "running", "public", "mixed", "nothing"}]
        /\ lookup'[r] = "none"
        /\ \A q \in Request \ {r} : lookup'[q] = lookup[q]
    BY <1>1, <1>3, ExchangeCloseKeeps DEF Exchange!VerifyLocal
  <2>2. Exchange!TypeOK'
    <3>1. /\ stage' \in [Request -> {"idle", "slot", "lookup", "connect", "tls", "mark", "write",
                                  "read", "body", "again", "ended"}]
          /\ verified' \in [Request -> BOOLEAN] /\ started' \in [Request -> BOOLEAN]
          /\ peer' \in [Request -> {"none", "own", "public", "private"}]
      <4>1. stage' = [stage EXCEPT ![r] = "again"]
        BY <1>3 DEF Exchange!VerifyLocal, Exchange!Goto
      <4>2. /\ verified' = [verified EXCEPT ![r] = TRUE] /\ started' = [started EXCEPT ![r] = FALSE]
            /\ peer' = [peer EXCEPT ![r] = "none"]
        BY <1>3 DEF Exchange!VerifyLocal
      <4> QED
        BY <1>1, <4>1, <4>2 DEF Exchange!TypeOK
    <3>2. /\ wire' \in [Request -> {"none", "part", "whole"}]
          /\ done' \in [Request -> {"nothing", "work", "refuse"}]
          /\ reply' \in [Request -> {"none"} \cup Exchange!Bodies \cup Exchange!Statuses]
      BY <1>1, <1>3 DEF Exchange!VerifyLocal, Exchange!TypeOK
    <3> QED
      BY <1>1, <1>3, <2>1, <3>1, <3>2 DEF Exchange!VerifyLocal, Exchange!TypeOK, Exchange!request
  <2>3. /\ stage'[r] = "again" /\ ~started'[r] /\ wire'[r] = "none" /\ done'[r] = "nothing"
        /\ reply'[r] = "none" /\ verdict'[r] = "none" /\ kind'[r] = "ollama"
    BY <1>1, <1>3
      DEF Exchange!VerifyLocal, Exchange!Goto, Exchange!TypeOK, Exchange!request, RequestInv,
          VerdictStands
  <2>4. \A q \in Request \ {r} : UNCHANGED OwnRequest(q)
    BY <1>1, <1>3, <2>1
      DEF Exchange!VerifyLocal, Exchange!Goto, Exchange!TypeOK, Exchange!request, OwnRequest
  <2>5. RequestInv(r)'
    BY <2>1, <2>3
      DEF Exchange!Charged, Exchange!Pinned, Exchange!KnownRefusals, Exchange!Bodies,
          RequestInv, SentAsMarked, ReplyIsOfDone, VerdictStands, PeerIsApproved,
          LookupIsAwaited, Unsent, Retryable
  <2> QED
    BY <2>1, <2>2, <2>4, <2>5, ExchangeMoveKeeps
<1> QED
  BY <1>2, <1>3

\* Exchange!AskLocal keeps ExchangeInv.
LEMMA ExchangeAskLocalKeeps ==
  ASSUME ExchangeInv, Exchange!ExchangeAssumption, NEW r \in Request, Exchange!AskLocal(r)
  PROVE  ExchangeInv'
<1>1. Exchange!TypeOK /\ SlotsCounted /\ RequestInv(r)
  BY DEF ExchangeInv
<1>2. wire[r] = "none"
  BY <1>1 DEF Exchange!AskLocal, RequestInv, SentAsMarked, Unsent
<1>3. CASE cancelWish[r]
  BY <1>1, <1>2, <1>3, ExchangeEndKeeps
    DEF Exchange!AskLocal, Exchange!TypeOK, Exchange!request, Verdicts, Retryable
<1>4. CASE ~cancelWish[r]
  <2>1. stage'[r] = "connect" /\ \A q \in Request \ {r} : stage'[q] = stage[q]
    BY <1>1, <1>4 DEF Exchange!AskLocal, Exchange!Goto, Exchange!TypeOK
  <2>2. Exchange!TypeOK'
    BY <1>1, <1>4 DEF Exchange!AskLocal, Exchange!Goto, Exchange!TypeOK, Exchange!request
  <2>3. SlotsCounted'
    BY <1>1, <1>4, ExchangeSlotsRest DEF Exchange!AskLocal
  <2>4. RequestInv(r)'
    BY <1>1, <1>4, <2>1
      DEF Exchange!AskLocal, Exchange!request, Exchange!Charged, Exchange!Pinned,
          Exchange!KnownRefusals, RequestInv, SentAsMarked, ReplyIsOfDone, VerdictStands,
          PeerIsApproved, LookupIsAwaited, Unsent, Retryable
  <2> QED
    BY <1>4, <2>1, <2>2, <2>3, <2>4, ExchangeMoveKeeps
      DEF Exchange!AskLocal, OwnRequest, Exchange!request
<1> QED
  BY <1>3, <1>4

\* Exchange!AskAgain keeps ExchangeInv.
LEMMA ExchangeAskAgainKeeps ==
  ASSUME ExchangeInv, Exchange!ExchangeAssumption, NEW r \in Request, Exchange!AskAgain(r)
  PROVE  ExchangeInv'
<1>1. Exchange!TypeOK /\ SlotsCounted /\ RequestInv(r)
  BY DEF ExchangeInv
<1>2. Exchange!TypeOK'
  <2>1. kind' \in [Request -> Exchange!AllKinds] /\ host' \in [Request -> {"name", "numeric"}]
    BY <1>1
      DEF Exchange!AskAgain, Exchange!TypeOK, Exchange!ExchangeAssumption, Exchange!CustomHosts
  <2>2. asked' \in [Request -> 1 .. MaxAsked]
    BY <1>1 DEF Exchange!AskAgain, Exchange!TypeOK, Exchange!ExchangeAssumption
  <2>3. /\ stage' \in [Request -> {"idle", "slot", "lookup", "connect", "tls", "mark", "write",
                                  "read", "body", "again", "ended"}]
        /\ verified' \in [Request -> BOOLEAN] /\ started' \in [Request -> BOOLEAN]
        /\ cancelWish' \in [Request -> BOOLEAN]
        /\ peer' \in [Request -> {"none", "own", "public", "private"}]
        /\ addresses' \in [Request -> {"none", "own", "public", "mixed"}]
        /\ socket' \in [Request -> {"none", "open", "aborted"}]
    BY <1>1 DEF Exchange!AskAgain, Exchange!Goto, Exchange!TypeOK
  <2>4. /\ wire' \in [Request -> {"none", "part", "whole"}]
        /\ done' \in [Request -> {"nothing", "work", "refuse"}]
        /\ reply' \in [Request -> {"none"} \cup Exchange!Bodies \cup Exchange!Statuses]
        /\ verdict' \in [Request -> {"none", "answer", "declined", "unknown", "cancelled",
             "not_sent", "invalid", "unverified", "denied", "rejected", "listed", "failed"}]
    BY <1>1 DEF Exchange!AskAgain, Exchange!TypeOK
  <2> QED
    BY <1>1, <2>1, <2>2, <2>3, <2>4 DEF Exchange!AskAgain, Exchange!TypeOK
<1>3. SlotsCounted'
  BY <1>1, ExchangeSlotsRest DEF Exchange!AskAgain
<1>4. /\ stage'[r] = "idle" /\ ~started'[r] /\ wire'[r] = "none" /\ done'[r] = "nothing"
      /\ reply'[r] = "none" /\ verdict'[r] = "none" /\ lookup'[r] = "none"
  BY <1>1 DEF Exchange!AskAgain, Exchange!Goto, Exchange!TypeOK, RequestInv, LookupIsAwaited
<1>5. RequestInv(r)'
  BY <1>4
    DEF Exchange!Charged, Exchange!Pinned, Exchange!KnownRefusals, Exchange!Bodies, RequestInv,
        SentAsMarked, ReplyIsOfDone, VerdictStands, PeerIsApproved, LookupIsAwaited, Unsent,
        Retryable
<1>6. \A q \in Request \ {r} : UNCHANGED OwnRequest(q)
  BY <1>1 DEF Exchange!AskAgain, Exchange!Goto, Exchange!TypeOK, OwnRequest
<1> QED
  BY <1>2, <1>3, <1>5, <1>6, ExchangeMoveKeeps

\* Exchange!Connect keeps ExchangeInv.
LEMMA ExchangeConnectKeeps ==
  ASSUME ExchangeInv, Exchange!ExchangeAssumption, NEW r \in Request, Exchange!Connect(r)
  PROVE  ExchangeInv'
<1>1. Exchange!TypeOK /\ SlotsCounted /\ RequestInv(r)
  BY DEF ExchangeInv
<1>2. Exchange!TypeOK'
  BY <1>1 DEF Exchange!Connect, Exchange!Goto, Exchange!TypeOK, Exchange!request, Exchange!Peers
<1>3. SlotsCounted'
  BY <1>1, ExchangeSlotsRest DEF Exchange!Connect
<1>4. \A q \in Request \ {r} : UNCHANGED OwnRequest(q)
  BY <1>1
    DEF Exchange!Connect, Exchange!Goto, Exchange!TypeOK, Exchange!request, OwnRequest,
        Exchange!Peers
<1>5. RequestInv(r)'
  BY <1>1
    DEF Exchange!Connect, Exchange!Goto, Exchange!TypeOK, Exchange!request, Exchange!Charged,
        Exchange!Pinned, Exchange!KnownRefusals, RequestInv, SentAsMarked, ReplyIsOfDone,
        VerdictStands, PeerIsApproved, LookupIsAwaited, Unsent, Retryable, Exchange!Peers
<1> QED
  BY <1>2, <1>3, <1>4, <1>5, ExchangeMoveKeeps

\* Exchange!Handshake keeps ExchangeInv.
LEMMA ExchangeHandshakeKeeps ==
  ASSUME ExchangeInv, Exchange!ExchangeAssumption, NEW r \in Request, Exchange!Handshake(r)
  PROVE  ExchangeInv'
<1>1. Exchange!TypeOK /\ SlotsCounted /\ RequestInv(r)
  BY DEF ExchangeInv
<1>2. Exchange!TypeOK'
  BY <1>1 DEF Exchange!Handshake, Exchange!Goto, Exchange!TypeOK, Exchange!request
<1>3. SlotsCounted'
  BY <1>1, ExchangeSlotsRest DEF Exchange!Handshake
<1>4. \A q \in Request \ {r} : UNCHANGED OwnRequest(q)
  BY <1>1 DEF Exchange!Handshake, Exchange!Goto, Exchange!TypeOK, Exchange!request, OwnRequest
<1>5. RequestInv(r)'
  BY <1>1
    DEF Exchange!Handshake, Exchange!Goto, Exchange!TypeOK, Exchange!request, Exchange!Charged,
        Exchange!Pinned, Exchange!KnownRefusals, RequestInv, SentAsMarked, ReplyIsOfDone,
        VerdictStands, PeerIsApproved, LookupIsAwaited, Unsent, Retryable
<1> QED
  BY <1>2, <1>3, <1>4, <1>5, ExchangeMoveKeeps

\* Exchange!Write keeps ExchangeInv.
LEMMA ExchangeWriteKeeps ==
  ASSUME ExchangeInv, Exchange!ExchangeAssumption, NEW r \in Request, Exchange!Write(r)
  PROVE  ExchangeInv'
<1>1. Exchange!TypeOK /\ SlotsCounted /\ RequestInv(r)
  BY DEF ExchangeInv
<1>2. Exchange!TypeOK'
  BY <1>1 DEF Exchange!Write, Exchange!Goto, Exchange!TypeOK, Exchange!request
<1>3. SlotsCounted'
  BY <1>1, ExchangeSlotsRest DEF Exchange!Write
<1>4. \A q \in Request \ {r} : UNCHANGED OwnRequest(q)
  BY <1>1 DEF Exchange!Write, Exchange!Goto, Exchange!TypeOK, Exchange!request, OwnRequest
<1>5. RequestInv(r)'
  BY <1>1
    DEF Exchange!Write, Exchange!Goto, Exchange!TypeOK, Exchange!request, Exchange!Charged,
        Exchange!Pinned, Exchange!KnownRefusals, RequestInv, SentAsMarked, ReplyIsOfDone,
        VerdictStands, PeerIsApproved, LookupIsAwaited, Unsent, Retryable
<1> QED
  BY <1>2, <1>3, <1>4, <1>5, ExchangeMoveKeeps

\* Exchange!Serve keeps ExchangeInv.
LEMMA ExchangeServeKeeps ==
  ASSUME ExchangeInv, Exchange!ExchangeAssumption, NEW r \in Request,
         NEW does \in {"work", "refuse"}, Exchange!Serve(r, does)
  PROVE  ExchangeInv'
<1>1. Exchange!TypeOK /\ SlotsCounted /\ RequestInv(r)
  BY DEF ExchangeInv
<1>2. Exchange!TypeOK'
  BY <1>1 DEF Exchange!Serve, Exchange!Goto, Exchange!TypeOK, Exchange!request
<1>3. SlotsCounted'
  BY <1>1, ExchangeSlotsRest DEF Exchange!Serve
<1>4. \A q \in Request \ {r} : UNCHANGED OwnRequest(q)
  BY <1>1 DEF Exchange!Serve, Exchange!Goto, Exchange!TypeOK, Exchange!request, OwnRequest
<1>5. /\ wire[r] = "whole" /\ done[r] = "nothing" /\ reply[r] = "none" /\ done'[r] = does
      /\ stage[r] # "body" /\ verdict[r] \notin {"answer", "declined"}
  BY <1>1
    DEF Exchange!Serve, Exchange!TypeOK, RequestInv, ReplyIsOfDone, VerdictStands,
        Exchange!Bodies
<1>6. /\ (Exchange!Pinned(r)' <=> Exchange!Pinned(r))
      /\ (Exchange!Charged(r)' <=> Exchange!Charged(r))
      /\ Exchange!KnownRefusals(r)' = Exchange!KnownRefusals(r)
      /\ "none" \notin Exchange!KnownRefusals(r) \cup Exchange!Bodies
  BY DEF Exchange!Serve, Exchange!request, Exchange!Pinned, Exchange!Charged,
         Exchange!KnownRefusals, Exchange!Bodies
<1>7. SentAsMarked(r)' /\ ReplyIsOfDone(r)'
  BY <1>1, <1>5, <1>6 DEF Exchange!Serve, RequestInv, SentAsMarked, ReplyIsOfDone
<1>8. VerdictStands(r)' /\ PeerIsApproved(r)' /\ LookupIsAwaited(r)'
  BY <1>1, <1>5, <1>6
    DEF Exchange!Serve, Exchange!request, RequestInv, VerdictStands, PeerIsApproved,
        LookupIsAwaited
<1>9. RequestInv(r)'
  BY <1>7, <1>8 DEF RequestInv
<1> QED
  BY <1>2, <1>3, <1>4, <1>9, ExchangeMoveKeeps

\* Exchange!Respond keeps ExchangeInv.
LEMMA ExchangeRespondKeeps ==
  ASSUME ExchangeInv, Exchange!ExchangeAssumption, NEW r \in Request,
         NEW answer \in Exchange!Bodies \cup Exchange!Statuses, Exchange!Respond(r, answer)
  PROVE  ExchangeInv'
<1>1. Exchange!TypeOK /\ SlotsCounted /\ RequestInv(r)
  BY DEF ExchangeInv
<1>2. Exchange!TypeOK'
  BY <1>1
    DEF Exchange!Respond, Exchange!Goto, Exchange!TypeOK, Exchange!request, Exchange!Bodies,
        Exchange!Statuses
<1>3. SlotsCounted'
  BY <1>1, ExchangeSlotsRest DEF Exchange!Respond
<1>4. \A q \in Request \ {r} : UNCHANGED OwnRequest(q)
  BY <1>1
    DEF Exchange!Respond, Exchange!Goto, Exchange!TypeOK, Exchange!request, OwnRequest,
        Exchange!Bodies, Exchange!Statuses
<1>5. RequestInv(r)'
  BY <1>1
    DEF Exchange!Respond, Exchange!Goto, Exchange!TypeOK, Exchange!request, Exchange!Charged,
        Exchange!Pinned, Exchange!KnownRefusals, RequestInv, SentAsMarked, ReplyIsOfDone,
        VerdictStands, PeerIsApproved, LookupIsAwaited, Unsent, Retryable, Exchange!Bodies,
        Exchange!Statuses
<1> QED
  BY <1>2, <1>3, <1>4, <1>5, ExchangeMoveKeeps

\* Exchange!Expire keeps ExchangeInv.
LEMMA ExchangeExpireKeeps ==
  ASSUME ExchangeInv, Exchange!ExchangeAssumption, NEW r \in Request, Exchange!Expire(r)
  PROVE  ExchangeInv'
<1>1. Exchange!TypeOK /\ SlotsCounted /\ RequestInv(r)
  BY DEF ExchangeInv
<1>2. Exchange!TypeOK'
  BY <1>1 DEF Exchange!Expire, Exchange!Goto, Exchange!TypeOK, Exchange!request, Exchange!Abort
<1>3. SlotsCounted'
  BY <1>1, ExchangeSlotsRest DEF Exchange!Expire
<1>4. \A q \in Request \ {r} : UNCHANGED OwnRequest(q)
  BY <1>1
    DEF Exchange!Expire, Exchange!Goto, Exchange!TypeOK, Exchange!request, OwnRequest,
        Exchange!Abort
<1>5. RequestInv(r)'
  BY <1>1
    DEF Exchange!Expire, Exchange!Goto, Exchange!TypeOK, Exchange!request, Exchange!Charged,
        Exchange!Pinned, Exchange!KnownRefusals, RequestInv, SentAsMarked, ReplyIsOfDone,
        VerdictStands, PeerIsApproved, LookupIsAwaited, Unsent, Retryable, Exchange!Abort
<1> QED
  BY <1>2, <1>3, <1>4, <1>5, ExchangeMoveKeeps

\* Exchange!Wish keeps ExchangeInv.
LEMMA ExchangeWishKeeps ==
  ASSUME ExchangeInv, Exchange!ExchangeAssumption, NEW r \in Request, Exchange!Wish(r)
  PROVE  ExchangeInv'
<1>1. Exchange!TypeOK /\ SlotsCounted /\ RequestInv(r)
  BY DEF ExchangeInv
<1>2. Exchange!TypeOK'
  BY <1>1 DEF Exchange!Wish, Exchange!Goto, Exchange!TypeOK, Exchange!request
<1>3. SlotsCounted'
  BY <1>1, ExchangeSlotsRest DEF Exchange!Wish
<1>4. \A q \in Request \ {r} : UNCHANGED OwnRequest(q)
  BY <1>1 DEF Exchange!Wish, Exchange!Goto, Exchange!TypeOK, Exchange!request, OwnRequest
<1>5. RequestInv(r)'
  BY <1>1
    DEF Exchange!Wish, Exchange!Goto, Exchange!TypeOK, Exchange!request, Exchange!Charged,
        Exchange!Pinned, Exchange!KnownRefusals, RequestInv, SentAsMarked, ReplyIsOfDone,
        VerdictStands, PeerIsApproved, LookupIsAwaited, Unsent, Retryable
<1> QED
  BY <1>2, <1>3, <1>4, <1>5, ExchangeMoveKeeps

\* Exchange!Poll keeps ExchangeInv.
LEMMA ExchangePollKeeps ==
  ASSUME ExchangeInv, Exchange!ExchangeAssumption, NEW r \in Request, Exchange!Poll(r)
  PROVE  ExchangeInv'
<1>1. Exchange!TypeOK /\ SlotsCounted /\ RequestInv(r)
  BY DEF ExchangeInv
<1>2. Exchange!TypeOK'
  BY <1>1 DEF Exchange!Poll, Exchange!Goto, Exchange!TypeOK, Exchange!request, Exchange!Abort
<1>3. SlotsCounted'
  BY <1>1, ExchangeSlotsRest DEF Exchange!Poll
<1>4. \A q \in Request \ {r} : UNCHANGED OwnRequest(q)
  BY <1>1
    DEF Exchange!Poll, Exchange!Goto, Exchange!TypeOK, Exchange!request, OwnRequest,
        Exchange!Abort
<1>5. RequestInv(r)'
  BY <1>1
    DEF Exchange!Poll, Exchange!Goto, Exchange!TypeOK, Exchange!request, Exchange!Charged,
        Exchange!Pinned, Exchange!KnownRefusals, RequestInv, SentAsMarked, ReplyIsOfDone,
        VerdictStands, PeerIsApproved, LookupIsAwaited, Unsent, Retryable, Exchange!Abort
<1> QED
  BY <1>2, <1>3, <1>4, <1>5, ExchangeMoveKeeps

(* No request is there at first. *)
LEMMA ExchangeInit == Exchange!Init /\ Exchange!ExchangeAssumption => ExchangeInv
<1> SUFFICES ASSUME Exchange!Init, Exchange!ExchangeAssumption PROVE ExchangeInv
  OBVIOUS
<1>1. Exchange!TypeOK
  <2>1. /\ kind \in [Request -> Exchange!AllKinds] /\ detached \in 0 .. DnsSlots
        /\ slots \in 0 .. DnsSlots
    BY DEF Exchange!Init, Exchange!ExchangeAssumption
  <2> QED
    BY <2>1 DEF Exchange!Init, Exchange!TypeOK, Exchange!ExchangeAssumption
<1>2. SlotsCounted
  <2>1. RunningLookups = {}
    BY DEF RunningLookups, Exchange!Init
  <2> QED
    BY <2>1, FS_EmptySet DEF SlotsCounted, Exchange!Init, Exchange!ExchangeAssumption
<1>3. \A r \in Request : RequestInv(r)
  BY DEF Exchange!Init, RequestInv, SentAsMarked, ReplyIsOfDone, VerdictStands, PeerIsApproved,
     LookupIsAwaited, Unsent, Retryable, Exchange!Bodies, Exchange!KnownRefusals
<1> QED
  BY <1>1, <1>2, <1>3 DEF ExchangeInv

(* Every step of a request, of its resolvers, timers and provider keeps the *)
(* invariant.                                                              *)
LEMMA ExchangeNext ==
  ASSUME ExchangeInv, Exchange!ExchangeAssumption, Exchange!Next
  PROVE  ExchangeInv'
<1>1. ASSUME NEW r \in Request, Exchange!Thread(r) PROVE ExchangeInv'
  BY <1>1, ExchangeRefuseKeeps, ExchangeBeginKeeps, ExchangeTakeSlotKeeps, ExchangeFoundKeeps,
     ExchangeConnectKeeps, ExchangeHandshakeKeeps, ExchangeMarkKeeps, ExchangeWriteKeeps,
     ExchangeReadHeadKeeps, ExchangeReadBodyKeeps, ExchangeVerifyLocalKeeps,
     ExchangeAskLocalKeeps, ExchangeBreakKeeps
     DEF Exchange!Thread, Exchange!InvalidMinutes, Exchange!InvalidCompatible,
         Exchange!InvalidAudio
<1> QED
  BY <1>1, ExchangeAskAgainKeeps, ExchangeExpireKeeps, ExchangeWishKeeps, ExchangePollKeeps,
     ExchangeResolveKeeps, ExchangeServeKeeps, ExchangeRespondKeeps, ExchangeResolveLateKeeps
     DEF Exchange!Next

\* A step of another part keeps ExchangeInv.
LEMMA ExchangeStutter ==
  ASSUME ExchangeInv, UNCHANGED xvars
  PROVE  ExchangeInv'
<1>1. Exchange!TypeOK'
  BY DEF ExchangeInv, Exchange!TypeOK, xvars
<1>2. SlotsCounted'
  BY ExchangeSlotsRest DEF ExchangeInv, xvars
<1>3. \A r \in Request : RequestInv(r)'
  BY ExchangeOwnRests DEF ExchangeInv, OwnRequest, xvars
<1> QED
  BY <1>1, <1>2, <1>3 DEF ExchangeInv

\* ExchangeInv is an invariant: the inductive invariant of the exchanges.
THEOREM ExchangeInvariant == Spec => []ExchangeInv
<1>1. Init => ExchangeInv
  BY ExchangeInit, ProvidersAssumption DEF Init
<1>2. ExchangeInv /\ [Next]_all => ExchangeInv'
  <2> SUFFICES ASSUME ExchangeInv, [Next]_all PROVE ExchangeInv'
    OBVIOUS
  <2>1. Exchange!Next \/ UNCHANGED xvars
    BY DEF Next, all
  <2> QED
    BY <2>1, ExchangeNext, ExchangeStutter, ProvidersAssumption
<1> QED
  BY <1>1, <1>2, PTL DEF Spec

(* A request its caller may repeat was not done by the provider, an answer *)
(* is whole and the provider's own, a pinned host is reached only at an    *)
(* approved address, and no slot of a resolver is lost or given back twice *)
(* (http_generation.py, metadata/deadline.py, endpoints.py).               *)
THEOREM ExchangesAreSafe == Spec => []ExchangeSafe
<1>1. ExchangeInv => ExchangeSafe
  <2> SUFFICES ASSUME ExchangeInv PROVE ExchangeSafe
    OBVIOUS
  <2>1. Exchange!SlotsAreKept
    <3>1. Exchange!Cardinality(RunningLookups) = Cardinality(RunningLookups)
      BY DEF Exchange!Cardinality, Cardinality
    <3> QED
      BY <3>1 DEF ExchangeInv, SlotsCounted, RunningLookups, Exchange!SlotsAreKept
  <2>2. \A r \in Request : RequestInv(r)
    BY DEF ExchangeInv
  <2>3. Exchange!RetryIsFree /\ Exchange!AnswerIsTheProviders /\ Exchange!PinnedPeer
    BY <2>2 DEF RequestInv, VerdictStands, SentAsMarked, PeerIsApproved, Retryable,
       Exchange!RetryIsFree, Exchange!AnswerIsTheProviders, Exchange!PinnedPeer
  <2> QED
    BY <2>1, <2>3 DEF ExchangeSafe, Exchange!ExchangeSafe
<1> QED
  BY <1>1, ExchangeInvariant, PTL

(* Every variable of the registry and of the requests keeps its type, whatever *)
(* fails, ends or is retried (store.py, metadata/deadline.py).                 *)
THEOREM RequestTypes == Spec => [](Registry!TypeOK /\ Exchange!TypeOK)
<1>1. RegistryInv => Registry!TypeOK
  BY DEF RegistryInv
<1>2. ExchangeInv => Exchange!TypeOK
  BY DEF ExchangeInv
<1> QED
  BY <1>1, <1>2, RegistryInvariant, ExchangeInvariant, PTL
=============================================================================
