--------------------------- MODULE ProviderExchange --------------------------
(***************************************************************************)
(* A request to a provider over HTTP (pipeline/src/narumi/providers:       *)
(* metadata/deadline.py, http.py, client.py, endpoints.py,                 *)
(* openai_compatible_transport.py; http_generation.py,                     *)
(* openai_compatible.py, audio_transcription.py and their parsers).        *)
(*                                                                         *)
(* A request resolves a name in one of a few detached threads, connects,   *)
(* writes, and reads one reply, all under one deadline: a timer and the    *)
(* polling of the caller's wish to cancel close the socket under it.  The  *)
(* caller pays for what the provider does, so every way a request can end  *)
(* is told apart by whether the provider may have done it.  Nothing is     *)
(* ever sent twice.                                                        *)
(***************************************************************************)
EXTENDS Integers, FiniteSets

CONSTANTS
  Request,
  Kinds,      \* the kinds of request there are
  DnsSlots,   \* _DNS_SLOTS
  MaxBreakdowns,  \* bound on the failures of the network
  MaxAsked  \* bound on the requests a thread makes one after the other

AllKinds == {"models", "minutes", "ollama", "compatible", "probe", "audio"}

ExchangeAssumption ==
  /\ Kinds \subseteq AllKinds
  /\ DnsSlots \in Nat \ {0} /\ MaxBreakdowns \in Nat /\ MaxAsked \in Nat \ {0}

VARIABLES
  kind, host,
  stage,      \* where the request's thread is
  verified,   \* ollama: the local model was checked
  clock,      \* the deadline's timer: "off", "running" or "expired"
  cancelWish, \* should_cancel
  socket,     \* "none", "open" or "aborted"
  started,    \* request_started
  addresses,  \* what the name resolved to, once approved
  peer,       \* what the socket is connected to
  lookup,     \* the request's resolver thread
  detached,   \* resolver threads nobody waits for
  slots,      \* free slots of _DNS_SLOTS
  wire,       \* what the provider has of the request
  done,       \* what the provider did with it
  reply,      \* what it answered
  verdict,   \* what the caller is told
  breakdowns,
  asked

xvars == <<kind, host, stage, verified, clock, cancelWish, socket, started, addresses, peer,
           lookup, detached, slots, wire, done, reply, verdict, breakdowns, asked>>

request == <<asked, kind, host>>

\* Requests that are charged for (_OUTCOME_RESPONSE_KINDS); a list of models,
\* and the check of a local model before it is used, are not.
Charged(r) == kind[r] # "models" /\ (kind[r] = "ollama" => verified[r])
Pinned(r) == kind[r] \in {"compatible", "probe"}

\* A fixed provider is reached by its name, Ollama by a loopback address; the
\* user's own endpoint by either.
FixedHosts(r) ==
  CASE kind[r] = "ollama" -> {"numeric"}
    [] kind[r] = "models" -> {"name", "numeric"}
    [] OTHER -> {"name"}
CustomHosts == {"name", "numeric"}

Init ==
  /\ kind \in [Request -> Kinds]
  /\ host \in [Request -> {"name", "numeric"}]
  /\ \A r \in Request : host[r] \in IF Pinned(r) THEN CustomHosts ELSE FixedHosts(r)
  /\ stage = [r \in Request |-> "idle"] /\ verified = [r \in Request |-> FALSE]
  /\ clock = [r \in Request |-> "off"] /\ cancelWish = [r \in Request |-> FALSE]
  /\ socket = [r \in Request |-> "none"] /\ started = [r \in Request |-> FALSE]
  /\ addresses = [r \in Request |-> "none"] /\ peer = [r \in Request |-> "none"]
  /\ lookup = [r \in Request |-> "none"] /\ detached = 0 /\ slots = DnsSlots
  /\ wire = [r \in Request |-> "none"] /\ done = [r \in Request |-> "nothing"]
  /\ reply = [r \in Request |-> "none"] /\ verdict = [r \in Request |-> "none"]
  /\ breakdowns = 0 /\ asked = [r \in Request |-> 1]

Fault == breakdowns < MaxBreakdowns /\ breakdowns' = breakdowns + 1
Goto(r, s) == stage' = [stage EXCEPT ![r] = s]

\* RequestDeadline.remaining
InTime(r) == ~cancelWish[r] /\ clock[r] # "expired"

-----------------------------------------------------------------------------
(* The end of a request *)

\* While a local model is looked up, all but a cancellation mean "unverified".
LocalError(r, what) ==
  IF kind[r] = "ollama" /\ ~verified[r] /\ what # "cancelled" THEN "unverified" ELSE what

\* The errors of the HTTP client as its callers translate them.
Interrupted(r) ==
  LocalError(r, IF started[r] /\ Charged(r) THEN "unknown"
                ELSE IF cancelWish[r] THEN "cancelled" ELSE "not_sent")

\* RequestDeadline.close; a resolver that still runs is left to itself.
Close(r) ==
  /\ clock' = [clock EXCEPT ![r] = "off"]
  /\ socket' = [socket EXCEPT ![r] = IF @ = "none" THEN "none" ELSE "aborted"]
  /\ detached' = IF lookup[r] = "running" THEN detached + 1 ELSE detached
  /\ lookup' = [lookup EXCEPT ![r] = "none"]

End(r, what) ==
  /\ Goto(r, "ended") /\ verdict' = [verdict EXCEPT ![r] = what]
  /\ Close(r)

\* A wait ends when the deadline, the caller or the network breaks it.
Break(r) ==
  /\ stage[r] \in {"slot", "lookup", "connect", "tls", "write", "read", "body"}
  /\ \/ ~InTime(r) /\ UNCHANGED breakdowns
     \/ InTime(r) /\ stage[r] # "slot" /\ Fault
  /\ End(r, Interrupted(r))
  /\ UNCHANGED <<request, verified, cancelWish, started, addresses, peer, slots, wire, done,
                 reply>>

-----------------------------------------------------------------------------
(* Before the first byte *)

\* Each caller validates what it was given before anything else.
Refuse(r) ==
  /\ stage[r] = "idle" /\ End(r, "invalid")
  /\ UNCHANGED <<request, verified, cancelWish, started, addresses, peer, slots, wire, done,
                 reply, breakdowns>>

InvalidMinutes(r) == kind[r] \in {"minutes", "ollama"} /\ Refuse(r)
InvalidCompatible(r) == kind[r] \in {"compatible", "probe"} /\ Refuse(r)
InvalidAudio(r) == kind[r] = "audio" /\ Refuse(r)

\* A wish that is already there is seen.
Begin(r) ==
  /\ stage[r] = "idle"
  /\ IF cancelWish[r] THEN End(r, "cancelled")
     ELSE /\ clock' = [clock EXCEPT ![r] = "running"]
          /\ \/ host[r] = "name" /\ Goto(r, "slot")
             \/ host[r] = "numeric" /\ Goto(r, "connect")
          /\ UNCHANGED <<socket, detached, lookup, verdict>>
  /\ addresses' = [addresses EXCEPT ![r] = IF host[r] = "numeric" THEN "own" ELSE "none"]
  /\ UNCHANGED <<request, verified, cancelWish, started, peer, slots, wire, done, reply,
                 breakdowns>>

\* _resolve: the slot goes back if the deadline has passed while waiting.
TakeSlot(r) ==
  /\ stage[r] = "slot" /\ slots > 0
  /\ IF InTime(r)
     THEN /\ slots' = slots - 1
          /\ lookup' = [lookup EXCEPT ![r] = "running"] /\ Goto(r, "lookup")
          /\ UNCHANGED <<clock, socket, detached, verdict>>
     ELSE End(r, Interrupted(r)) /\ UNCHANGED slots
  /\ UNCHANGED <<request, verified, cancelWish, started, addresses, peer, wire, done, reply,
                 breakdowns>>

\* The resolver's own thread: it may answer late, or never.
Resolve(r, answer) ==
  /\ lookup[r] = "running"
  /\ lookup' = [lookup EXCEPT ![r] = answer]
  /\ slots' = slots + 1
  /\ UNCHANGED <<request, stage, verified, clock, cancelWish, socket, started, addresses, peer,
                 detached, wire, done, reply, verdict, breakdowns>>

ResolveLate ==
  /\ detached > 0
  /\ detached' = detached - 1 /\ slots' = slots + 1
  /\ UNCHANGED <<request, stage, verified, clock, cancelWish, socket, started, addresses, peer,
                 lookup, wire, done, reply, verdict, breakdowns>>

FoundAny(r) ==  \* a plausible bug: one public address is enough
  /\ stage[r] = "lookup" /\ lookup[r] \in {"public", "mixed", "nothing"} /\ InTime(r)
  /\ IF lookup[r] = "nothing" THEN End(r, Interrupted(r)) /\ UNCHANGED addresses
     ELSE /\ addresses' = [addresses EXCEPT ![r] = lookup[r]]
          /\ lookup' = [lookup EXCEPT ![r] = "none"]
          /\ Goto(r, "connect") /\ UNCHANGED <<clock, socket, detached, verdict>>
  /\ UNCHANGED <<request, verified, cancelWish, started, peer, slots, wire, done, reply,
                 breakdowns>>

\* resolve_openai_compatible_addresses: every address of a custom host must be
\* public, and the request goes to these and to no other.
Found(r) ==
  /\ stage[r] = "lookup" /\ lookup[r] \in {"public", "mixed", "nothing"} /\ InTime(r)
  /\ IF lookup[r] = "nothing" THEN End(r, Interrupted(r)) /\ UNCHANGED addresses
     ELSE IF Pinned(r) /\ lookup[r] = "mixed"
          THEN End(r, "invalid") /\ UNCHANGED addresses
          ELSE /\ addresses' = [addresses EXCEPT ![r] = lookup[r]]
               /\ lookup' = [lookup EXCEPT ![r] = "none"]
               /\ Goto(r, "connect") /\ UNCHANGED <<clock, socket, detached, verdict>>
  /\ UNCHANGED <<request, verified, cancelWish, started, peer, slots, wire, done, reply,
                 breakdowns>>

\* The addresses a connection may be made to.
Peers(r) == IF addresses[r] = "mixed" THEN {"public", "private"} ELSE {addresses[r]}

\* The socket is handed to the deadline before it is used.
Connect(r) ==
  /\ stage[r] = "connect" /\ InTime(r)
  /\ socket' = [socket EXCEPT ![r] = "open"]
  /\ \E p \in Peers(r) : peer' = [peer EXCEPT ![r] = p]
  /\ Goto(r, IF host[r] = "name" THEN "tls" ELSE "mark")
  /\ UNCHANGED <<request, verified, clock, cancelWish, started, addresses, lookup, detached,
                 slots, wire, done, reply, verdict, breakdowns>>

Handshake(r) ==
  /\ stage[r] = "tls" /\ socket[r] = "open" /\ InTime(r)
  /\ Goto(r, "mark")
  /\ UNCHANGED <<request, verified, clock, cancelWish, socket, started, addresses, peer,
                 lookup, detached, slots, wire, done, reply, verdict, breakdowns>>

\* mark_request_started: from here on the answer may be unknown.
Mark(r) ==
  /\ stage[r] = "mark"
  /\ IF InTime(r)
     THEN /\ started' = [started EXCEPT ![r] = TRUE] /\ Goto(r, "write")
          /\ UNCHANGED <<clock, socket, detached, lookup, verdict>>
     ELSE End(r, Interrupted(r)) /\ UNCHANGED started
  /\ UNCHANGED <<request, verified, cancelWish, addresses, peer, slots, wire, done, reply,
                 breakdowns>>

-----------------------------------------------------------------------------
(* The request and its reply *)

\* The bytes leave in pieces; what was written is never written again.
Write(r) ==
  /\ stage[r] = "write" /\ socket[r] = "open"
  /\ \/ wire[r] = "none" /\ wire' = [wire EXCEPT ![r] = "part"] /\ UNCHANGED stage
     \/ wire[r] # "whole" /\ wire' = [wire EXCEPT ![r] = "whole"] /\ Goto(r, "read")
  /\ UNCHANGED <<request, verified, clock, cancelWish, socket, started, addresses, peer,
                 lookup, detached, slots, done, reply, verdict, breakdowns>>

\* The provider does what it is asked, or refuses, whether or not anybody waits.
Serve(r, does) ==
  /\ wire[r] = "whole" /\ done[r] = "nothing"
  /\ done' = [done EXCEPT ![r] = does]
  /\ UNCHANGED <<request, stage, verified, clock, cancelWish, socket, started, addresses, peer,
                 lookup, detached, slots, wire, reply, verdict, breakdowns>>

\* Statuses that prove a request was not carried out (_GENERATION_KNOWN_REFUSALS,
\* _TRANSCRIPTION_KNOWN_REFUSALS); a slow or broken server, a time-out, a redirection
\* and any other status prove nothing.
KnownRefusals(r) ==
  {"denied", "rejected"} \cup (IF kind[r] = "audio" THEN {"throttled"} ELSE {"missing"})
Statuses == {"denied", "rejected", "throttled", "missing", "broken", "redirect"}
Bodies == {"text", "refusal", "cut", "foreign", "garbled"}

Respond(r, answer) ==
  /\ done[r] # "nothing" /\ reply[r] = "none" /\ socket[r] = "open"
  /\ \/ done[r] = "work" /\ answer \in Bodies \cup (Statuses \ KnownRefusals(r))
     \/ done[r] = "refuse" /\ answer \in Statuses
  /\ reply' = [reply EXCEPT ![r] = answer]
  /\ UNCHANGED <<request, stage, verified, clock, cancelWish, socket, started, addresses, peer,
                 lookup, detached, slots, wire, done, verdict, breakdowns>>

\* No error's body is ever read.
StatusOutcome(r) ==
  LocalError(r, CASE ~Charged(r) -> "failed"
                  [] Charged(r) /\ reply[r] = "denied" -> "denied"
                  [] Charged(r) /\ reply[r] \in KnownRefusals(r) \ {"denied"} -> "rejected"
                  [] OTHER -> "unknown")

ReadHead(r) ==
  /\ stage[r] = "read" /\ reply[r] # "none" /\ socket[r] = "open"
  /\ IF reply[r] \in Statuses THEN End(r, StatusOutcome(r))
     ELSE Goto(r, "body") /\ UNCHANGED <<clock, socket, detached, lookup, verdict>>
  /\ UNCHANGED <<request, verified, cancelWish, started, addresses, peer, slots, wire, done,
                 reply, breakdowns>>

\* Only a reply that is complete, of the model asked for and of the shape of its
\* protocol is an answer.  A probe must repeat the sentinel; a refusal is a
\* known form in all but the local and the audio protocols.
ParsedMinutes(body) ==
  CASE body = "text" -> "answer" [] body = "refusal" -> "declined" [] OTHER -> "unknown"
ParsedCompatible(body) ==
  CASE body = "text" -> "answer" [] body = "refusal" -> "declined" [] OTHER -> "unknown"
ParsedLocal(body) == IF body = "text" THEN "answer" ELSE "unknown"
ParsedAudio(body) == IF body = "text" THEN "answer" ELSE "unknown"

Parsed(r) ==
  CASE kind[r] = "minutes" -> ParsedMinutes(reply[r])
    [] kind[r] \in {"compatible", "probe"} -> ParsedCompatible(reply[r])
    [] kind[r] = "ollama" -> ParsedLocal(reply[r])
    [] kind[r] = "audio" -> ParsedAudio(reply[r])

Listed(r) == IF reply[r] = "text" THEN "listed" ELSE "failed"

\* The framed length is enforced, the deadline looked at once more, and the
\* text parsed.  A local model that was verified is then asked.
ReadBody(r) ==
  /\ stage[r] = "body" /\ socket[r] = "open" /\ InTime(r)
  /\ Charged(r) \/ kind[r] = "models"
  /\ End(r, IF Charged(r) THEN Parsed(r) ELSE Listed(r))
  /\ UNCHANGED <<request, verified, cancelWish, started, addresses, peer, slots, wire, done,
                 reply, breakdowns>>

\* The local model must still be the one that was selected.
VerifyLocal(r) ==
  /\ stage[r] = "body" /\ socket[r] = "open" /\ InTime(r)
  /\ kind[r] = "ollama" /\ ~verified[r]
  /\ IF reply[r] # "text"
     THEN /\ End(r, "unverified")
          /\ UNCHANGED <<verified, started, peer, wire, done, reply>>
     ELSE /\ verified' = [verified EXCEPT ![r] = TRUE]
          /\ Goto(r, "again") /\ Close(r)
          /\ started' = [started EXCEPT ![r] = FALSE] /\ peer' = [peer EXCEPT ![r] = "none"]
          /\ wire' = [wire EXCEPT ![r] = "none"] /\ done' = [done EXCEPT ![r] = "nothing"]
          /\ reply' = [reply EXCEPT ![r] = "none"] /\ UNCHANGED verdict
  /\ UNCHANGED <<request, cancelWish, addresses, slots, breakdowns>>

\* The generation, with a deadline of its own.
AskLocal(r) ==
  /\ stage[r] = "again"
  /\ IF cancelWish[r] THEN End(r, "cancelled")
     ELSE /\ clock' = [clock EXCEPT ![r] = "running"] /\ Goto(r, "connect")
          /\ socket' = [socket EXCEPT ![r] = "none"]
          /\ UNCHANGED <<detached, lookup, verdict>>
  /\ UNCHANGED <<request, verified, cancelWish, started, addresses, peer, slots, wire, done,
                 reply, breakdowns>>

\* The thread makes another request; resolvers it abandoned may still hold slots.
AskAgain(r) ==
  /\ stage[r] = "ended" /\ asked[r] < MaxAsked
  /\ asked' = [asked EXCEPT ![r] = @ + 1]
  /\ Goto(r, "idle")
  /\ \E k \in Kinds : kind' = [kind EXCEPT ![r] = k]
  /\ \E h \in CustomHosts :
       /\ host' = [host EXCEPT ![r] = h]
       /\ h \in IF Pinned(r)' THEN CustomHosts ELSE FixedHosts(r)'
  /\ verified' = [verified EXCEPT ![r] = FALSE] /\ cancelWish' = [cancelWish EXCEPT ![r] = FALSE]
  /\ socket' = [socket EXCEPT ![r] = "none"] /\ started' = [started EXCEPT ![r] = FALSE]
  /\ addresses' = [addresses EXCEPT ![r] = "none"] /\ peer' = [peer EXCEPT ![r] = "none"]
  /\ wire' = [wire EXCEPT ![r] = "none"] /\ done' = [done EXCEPT ![r] = "nothing"]
  /\ reply' = [reply EXCEPT ![r] = "none"] /\ verdict' = [verdict EXCEPT ![r] = "none"]
  /\ UNCHANGED <<clock, lookup, detached, slots, breakdowns>>

-----------------------------------------------------------------------------
(* The timers and the caller *)

Abort(r) == socket' = [socket EXCEPT ![r] = IF @ = "open" THEN "aborted" ELSE @]

Expire(r) ==
  /\ clock[r] = "running"
  /\ clock' = [clock EXCEPT ![r] = "expired"] /\ Abort(r)
  /\ UNCHANGED <<request, stage, verified, cancelWish, started, addresses, peer, lookup,
                 detached, slots, wire, done, reply, verdict, breakdowns>>

Wish(r) ==
  /\ stage[r] # "ended" /\ ~cancelWish[r] /\ kind[r] # "models"
  /\ cancelWish' = [cancelWish EXCEPT ![r] = TRUE]
  /\ UNCHANGED <<request, stage, verified, clock, socket, started, addresses, peer, lookup,
                 detached, slots, wire, done, reply, verdict, breakdowns>>

\* _poll_cancel
Poll(r) ==
  /\ clock[r] = "running" /\ cancelWish[r] /\ socket[r] = "open" /\ Abort(r)
  /\ UNCHANGED <<request, stage, verified, clock, cancelWish, started, addresses, peer, lookup,
                 detached, slots, wire, done, reply, verdict, breakdowns>>

-----------------------------------------------------------------------------
Thread(r) ==
  \/ InvalidMinutes(r) \/ InvalidCompatible(r) \/ InvalidAudio(r)
  \/ Begin(r) \/ TakeSlot(r) \/ Found(r) \/ Connect(r) \/ Handshake(r) \/ Mark(r) \/ Write(r)
  \/ ReadHead(r) \/ ReadBody(r) \/ VerifyLocal(r) \/ AskLocal(r) \/ Break(r)

Next ==
  \/ \E r \in Request :
       \/ Thread(r) \/ AskAgain(r) \/ Expire(r) \/ Wish(r) \/ Poll(r)
       \/ \E answer \in {"public", "mixed", "nothing"} : Resolve(r, answer)
       \/ \E does \in {"work", "refuse"} : Serve(r, does)
       \/ \E answer \in Bodies \cup Statuses : Respond(r, answer)
  \/ ResolveLate

\* Time passes and threads run; names need never be resolved, nor requests served.
Fairness == \A r \in Request : WF_xvars(Thread(r)) /\ WF_xvars(Expire(r))

Spec == Init /\ [][Next]_xvars /\ Fairness

-----------------------------------------------------------------------------
(* Properties *)

\* Where a request, its resolver and its connection may stand.
TypeOK ==
  /\ kind \in [Request -> AllKinds] /\ host \in [Request -> {"name", "numeric"}]
  /\ stage \in [Request -> {"idle", "slot", "lookup", "connect", "tls", "mark", "write", "read",
                            "body", "again", "ended"}]
  /\ \A f \in {verified, cancelWish, started} : f \in [Request -> BOOLEAN]
  /\ clock \in [Request -> {"off", "running", "expired"}]
  /\ socket \in [Request -> {"none", "open", "aborted"}]
  /\ addresses \in [Request -> {"none", "own", "public", "mixed"}]
  /\ peer \in [Request -> {"none", "own", "public", "private"}]
  /\ lookup \in [Request -> {"none", "running", "public", "mixed", "nothing"}]
  /\ detached \in 0 .. DnsSlots /\ slots \in 0 .. DnsSlots
  /\ breakdowns \in 0 .. MaxBreakdowns /\ asked \in [Request -> 1 .. MaxAsked]
  /\ wire \in [Request -> {"none", "part", "whole"}]
  /\ done \in [Request -> {"nothing", "work", "refuse"}]
  /\ reply \in [Request -> {"none"} \cup Bodies \cup Statuses]
  /\ verdict \in [Request -> {"none", "answer", "declined", "unknown", "cancelled", "not_sent",
                              "invalid", "unverified", "denied", "rejected", "listed", "failed"}]

\* What the caller may try again was not done by the provider, at whatever time
\* the request was broken off and however late the provider is.
RetryIsFree ==
  \A r \in Request :
    verdict[r] \in {"cancelled", "not_sent", "invalid", "unverified", "denied", "rejected"}
    /\ Charged(r) => done[r] # "work"

\* An answer is the provider's own, whole, and to the request it was sent.
AnswerIsTheProviders ==
  \A r \in Request :
    /\ verdict[r] = "answer" => done[r] = "work" /\ reply[r] = "text" /\ wire[r] = "whole"
    /\ verdict[r] = "declined" => done[r] = "work"

\* A key and a text for a custom host never go to a private address, even if
\* the name resolves to one a moment later.
PinnedPeer == \A r \in Request : Pinned(r) /\ wire[r] # "none" => peer[r] \in {"own", "public"}

\* No slot of the resolvers is lost, and none is given back twice.
SlotsAreKept == slots + detached + Cardinality({r \in Request : lookup[r] = "running"}) = DnsSlots

\* All of these, checked together.
ExchangeSafe == RetryIsFree /\ AnswerIsTheProviders /\ PinnedPeer /\ SlotsAreKept

\* Every request ends, though every resolver hang and no provider answer:
\* Asking(r) leads to Answered(r).
Asking(r) == stage[r] # "idle"
Answered(r) == stage[r] = "ended"
=============================================================================
