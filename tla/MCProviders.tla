----------------------------- MODULE MCProviders -----------------------------
(***************************************************************************)
(* Five parts of the provider layer, checked in one run: `focus' picks     *)
(* the part that moves, the others rest in their initial states.  They     *)
(* share no variable; what one assumes of another is in each module's      *)
(* header.  Fairness is each module's own, asked of the part in focus.     *)
(* The sixth part, ProviderSignIn, has a run of its own (MCSignIn).        *)
(***************************************************************************)
EXTENDS Integers, TLC

CONSTANTS
  Connection, KeyValue, MaxRequests, Task, None, MaxLeases, MaxFaults, MaxBoots, Version,
  NoVersion, MaxSetups, MaxServers, MaxSlips, Call, Image, MaxEpochs, MaxMishaps, MaxTurns,
  MaxFailures, Request, Kinds, DnsSlots, MaxBreakdowns, MaxAsked

VARIABLES
  focus,
  record, catalog, check, receipt, keychain, selection, mode, boot, swap, task, remembered,
  stale, unsettled, leases, faults,
  runtime, acceptance, installed, binary, verification, serving, server, preparer, gate, job,
  target, flagged, flock, held, slips,
  epoch, running, backend, closer, image, active, step, outcome, watchdog, leader, child,
  lifeline, wrote, lock, dirs, submitted, mishaps,
  awake, tainted, latched, wish, at, session, sent, result, turns, rpc, terminated, attempt,
  canceller, dog, proc, exit, known, guardLine, turn, failures,
  kind, host, stage, verified, clock, cancelWish, socket, started, addresses, peer, lookup,
  detached, slots, wire, done, reply, verdict, breakdowns, asked

Registry == INSTANCE ProviderRegistry
Runtime == INSTANCE RuntimePreparation
Claude == INSTANCE ClaudeWorker
Codex == INSTANCE CodexGeneration
Exchange == INSTANCE ProviderExchange

rvars ==
  <<record, catalog, check, receipt, keychain, selection, mode, boot, swap, task, remembered,
    stale, unsettled, leases, faults>>
pvars ==
  <<runtime, acceptance, installed, binary, verification, serving, server, preparer, gate,
    job, target, flagged, flock, held, slips>>
cvars ==
  <<epoch, running, backend, closer, image, active, step, outcome, watchdog, leader, child,
    lifeline, wrote, lock, dirs, submitted, mishaps>>
gvars ==
  <<awake, tainted, latched, wish, at, session, sent, result, turns, rpc, terminated, attempt,
    canceller, dog, proc, exit, known, guardLine, turn, failures>>
xvars ==
  <<kind, host, stage, verified, clock, cancelWish, socket, started, addresses, peer, lookup,
    detached, slots, wire, done, reply, verdict, breakdowns, asked>>
all == <<focus, rvars, pvars, cvars, gvars, xvars>>

Init ==
  /\ focus \in {"registry", "runtime", "claude", "codex", "exchange"}
  /\ Registry!Init
  /\ Runtime!Init
  /\ Claude!Init
  /\ Codex!Init
  /\ Exchange!Init
  /\ \* Where a part has more than one initial state, the others rest in one.
     focus # "exchange" => \A r \in Request : kind[r] = "models" /\ host[r] = "name"

Next ==
  /\ UNCHANGED focus
  /\ \/ focus = "registry" /\ Registry!Next /\ UNCHANGED <<pvars, cvars, gvars, xvars>>
     \/ focus = "runtime" /\ Runtime!Next /\ UNCHANGED <<rvars, cvars, gvars, xvars>>
     \/ focus = "claude" /\ Claude!Next /\ UNCHANGED <<rvars, pvars, gvars, xvars>>
     \/ focus = "codex" /\ Codex!Next /\ UNCHANGED <<rvars, pvars, cvars, xvars>>
     \/ focus = "exchange" /\ Exchange!Next /\ UNCHANGED <<rvars, pvars, cvars, gvars>>

Fairness ==
  /\ WF_rvars(focus = "registry" /\ Registry!SwapStep)
  /\ WF_rvars(focus = "registry" /\ Registry!RecoverRelease)
  /\ \A t \in Task : WF_rvars(focus = "registry" /\ Registry!Finish(t))
  /\ WF_pvars(focus = "runtime" /\ Runtime!Accepting)
  /\ \A r \in Runtime!Setup : WF_pvars(focus = "runtime" /\ Runtime!Work(r))
  /\ \A c \in Call : /\ WF_cvars(focus = "claude" /\ Claude!Thread(c))
                     /\ WF_cvars(focus = "claude" /\ Claude!Guard(c))
                     /\ WF_cvars(/\ focus = "claude"
                                 /\ Claude!ReadRequest(c) \/ Claude!RefuseRequest(c))
  /\ WF_gvars(focus = "codex" /\ Codex!Thread) /\ WF_gvars(focus = "codex" /\ Codex!Terminate)
  /\ WF_gvars(focus = "codex" /\ Codex!CancelTransport) /\ WF_gvars(focus = "codex" /\ Codex!Dog)
  /\ \A r \in Request : /\ WF_xvars(focus = "exchange" /\ Exchange!Thread(r))
                        /\ WF_xvars(focus = "exchange" /\ Exchange!Expire(r))

Spec == Init /\ [][Next]_all /\ Fairness

-----------------------------------------------------------------------------
(* The properties of each part; its module states each conjunct. *)

\* No key is lost in the Keychain and none is in use that a record does not
\* show; a call under way owns the lease and its key; a probe whose outcome is
\* unknown is not paid for twice; a model is selectable on the evidence of the
\* connection's own key; a selected connection stays (connections.py, service.py).
RegistrySafe == Registry!RegistrySafe

\* A runtime that is called ready is the one a job verified for that revision,
\* only the owner of the system's lock writes its files, and neither the lock
\* nor the provider stays busy for nobody (runtime.py, codex/_runtime.py).
RuntimeSafe == Runtime!RuntimeSafe

\* A Claude call that may be sent again was never submitted, its answer was
\* paid for, a worker that outlives it makes its outcome unknown, and no work
\* space goes while a process uses it (claude/transport.py, backend.py).
ClaudeSafe == Claude!ClaudeSafe

\* A Codex generation that is over leaves no process of its tree, or a
\* connection that cannot be used, and what it answers its caller is what
\* became of the turn (codex/_supervisor.py, _process_tree.py, _generation.py).
CodexSafe == Codex!CodexSafe

\* A request that its caller may repeat was not done by the provider, an answer
\* is whole and the provider's own, no key goes to a private address, and no
\* resolver slot is lost or given back twice (http_generation.py, metadata/).
ExchangeSafe == Exchange!ExchangeSafe

(* What a part promises: Begun(n) leads to Ended(n), n being the promise. *)

Begun(n) ==
  \/ focus = "registry" /\ n = 1 /\ Registry!Unreleased
  \/ focus = "runtime" /\ Runtime!Unfinished(n)
  \/ focus = "claude" /\ n = 1 /\ \E c \in Call : Claude!Called(c)
  \/ focus = "claude" /\ n = 2 /\ \E c \in Call : Claude!Orphaned(c)
  \/ focus = "codex" /\ n = 1 /\ Codex!Cancelling
  \/ focus = "codex" /\ n = 2 /\ Codex!AnyStopped
  \/ focus = "exchange" /\ n = 1 /\ \E r \in Request : Exchange!Asking(r)

Ended(n) ==
  \/ focus = "registry" /\ Registry!Recovered
  \/ focus = "runtime" /\ Runtime!Returned(n)
  \/ focus = "claude" /\ n = 1 /\ \A c \in Call : Claude!CallEnded(c)
  \/ focus = "claude" /\ n = 2 /\ \A c \in Call : Claude!OrphanEnded(c)
  \/ focus = "codex" /\ n = 1 /\ Codex!CancelEnded
  \/ focus = "codex" /\ n = 2 /\ Codex!StoppedKilled
  \/ focus = "exchange" /\ \A r \in Request : Exchange!Answered(r)

\* Whatever is begun ends: a lease whose release failed is released, and a
\* runtime job, a Claude call, an orphaned worker, a cancelled Codex turn, its
\* stopped processes and an HTTP request reach their ends.  The part in focus
\* never changes, so one leads-to states one promise of every part.
ProvidersSettle == \A n \in 1 .. 2 : Begun(n) ~> Ended(n)

ASSUME ProvidersAssumption ==
  /\ Registry!RegistryAssumption /\ Runtime!PreparationAssumption /\ Claude!ClaudeAssumption
  /\ Codex!CodexAssumption /\ Exchange!ExchangeAssumption
=============================================================================
