------------------------ MODULE ProviderSignInProofs ------------------------
(***************************************************************************)
(* What signing in to, out of and away from a connection promises, proved  *)
(* for every value of the constants of MCSignIn.  A lemma                  *)
(* SignIn<Action>Keeps says that an action keeps the inductive invariant   *)
(* SignInInv, SignInInvIsSafe that the invariant implies the property that *)
(* the runs check.  An action whose branches end differently has a lemma   *)
(* for each.                                                               *)
(***************************************************************************)
EXTENDS MCSignIn, TLAPS

\* The steps of a handler that clears away an operation.
Cleaning == {"register", "stop", "wait", "reserve", "clear"}

\* The steps of a worker that signs in.
LoginSteps == {"queued", "prepare", "erase", "erasing", "unverified", "login", "session",
               "installed", "skipped", "rejected", "resolve"}

\* The steps of a worker that signs out.
LeavingSteps == {"leave", "leaving", "clearing"}

\* The operation is pending; SigningIn(o) that it is a pending sign-in.
UnderWay(o) == op[o] # Nobody /\ op[o].state = "pending"

\* A pending sign-in.
SigningIn(o) == UnderWay(o) /\ op[o].action = "start"

\* Nobody's, or an operation's that is not pending.
Past(o) == o = Nobody \/ (op[o] # Nobody /\ ~UnderWay(o))

\* The record shows no credential, or one that nobody looked for.
Unseen == ~conn.present \/ conn.assumed

\* The record shows the credential in the file, or somebody was told of it.
Accounted == file => (conn.exists /\ (conn.present \/ conn.assumed)) \/ told

(* Where the worker of an operation can be: the steps of its kind, and none *)
(* once it succeeded.                                                        *)
OpAt(o) ==
  /\ op[o] = Nobody => worker[o] = "none"
  /\ worker[o] \in LoginSteps => op[o].action = "start"
  /\ worker[o] \in LeavingSteps => op[o].action = "logout"
  /\ op[o] # Nobody /\ op[o].state = "succeeded" => worker[o] \in {"none", "done"}

(* A pending operation is the connection's, which nobody changed, and has   *)
(* the provider's lease.                                                    *)
OpPending(o) ==
  UnderWay(o) =>
    /\ Matches(o)
    /\ lease # Nobody /\ lease.token = o
    /\ lease.kind = IF op[o].action = "start" THEN "authentication" ELSE "logout"

(* A worker inside the backend has the connection's slot, and no other      *)
(* operation can have registered meanwhile.                                  *)
OpSlot(o) ==
  /\ worker[o] \in {"session", "installed"} =>
       /\ slot # Nobody /\ slot.kind = "auth" /\ slot.by = o
       /\ phase # Nobody /\ phase.op = o /\ phase.at = "prepared"
  /\ worker[o] = "erasing" =>
       /\ slot # Nobody /\ slot.kind = "prepare" /\ slot.by = o
       /\ phase # Nobody /\ phase.op = o
  /\ worker[o] = "clearing" =>
       slot # Nobody /\ slot.kind = "cleanup" /\ slot.by = o /\ Generation = target[o]

(* The backend's generation is a pending sign-in's, and says how far its    *)
(* worker came.                                                              *)
OpPhase(o) ==
  SigningIn(o) /\ alive # "down" /\ worker[o] # "done" =>
    /\ phase # Nobody /\ phase.op = o
    /\ worker[o] \in {"queued", "prepare", "erase", "erasing"} => phase.at = "registered"
    /\ worker[o] \in {"login", "session", "installed"} => phase.at = "prepared"
    /\ worker[o] \in {"committed", "skipped", "resolve"} => phase.at = "settled"

(* While a worker erases or signs in, the record shows no credential; a      *)
(* record that shows one was not prepared for anything else.                 *)
OpPresent(o) ==
  /\ worker[o] = "erasing" => ~conn.present
  /\ worker[o] = "erase" /\ phase # Nobody /\ phase.op = o /\ phase.at = "registered" =>
       ~conn.present
  /\ conn.active = o =>
       /\ worker[o] \in {"erase", "erasing", "login", "session", "installed"} =>
            ~conn.present
       /\ op[o].action = "logout" => Unseen
       /\ conn.present /\ phase # Nobody /\ phase.op = o => phase.at = "registered"

(* What a pending operation's worker has done to the credential file, and    *)
(* that one which did not look at it had a reason.                           *)
OpFile(o) ==
  /\ SigningIn(o) =>
       /\ worker[o] \in {"login", "session", "rejected", "cancelled"} => ~file
       /\ worker[o] \in {"queued", "prepare", "unstarted", "dropped"} => Accounted
       /\ worker[o] \in {"installed", "committed"} /\ alive = "up" => file
  /\ UnderWay(o) /\ op[o].action = "logout" /\ worker[o] = "committed" => ~file
  /\ UnderWay(o) /\ alive = "up" /\ Unlooked(o) => breaks > 0 \/ SignOutCancelled

(* A worker that signs out is that of the active operation or of a cancelled *)
(* one; the generation it clears away is not a pending sign-in's, and no     *)
(* other, unless a sign-out was cancelled.                                   *)
OpLeaves(o) ==
  /\ worker[o] \in LeavingSteps =>
       /\ op[o].state \in {"pending", "cancelled", "unknown"}
       /\ op[o].state = "unknown" => conn.active = o
  /\ worker[o] \in {"leaving", "clearing"} => Past(target[o])
  /\ UnderWay(o) /\ worker[o] = "leaving" /\ alive = "up" =>
       Generation = target[o] \/ SignOutCancelled

\* What holds of one operation.
OpInv(o) ==
  /\ OpAt(o) /\ OpPending(o) /\ OpSlot(o) /\ OpPhase(o) /\ OpPresent(o) /\ OpFile(o)
  /\ OpLeaves(o)

\* The handler withdraws an operation: for its caller or because the server closes.
Withdraws(h) ==
  \/ handler[h].kind \in {"cancel", "disable"}
  \/ handler[h].kind = "close" /\ handler[h].pc \notin {"close", "drain"}

(* Where a handler can be, by what it was called for; one that withdraws an  *)
(* operation has withdrawn it.                                               *)
HandlerAt(h) ==
  /\ handler[h].pc = "idle" <=> handler[h].kind = "none"
  /\ handler[h].kind = "cancel" => handler[h].pc \in Cleaning \cup {"logout", "confirm", "failed"}
  /\ handler[h].kind = "disable" => handler[h].pc \in Cleaning \cup {"confirm", "failed"}
  /\ handler[h].kind = "close" =>
       handler[h].pc \in Cleaning \cup {"logout", "confirm", "failed", "close", "drain"}
  /\ handler[h].kind = "delete" =>
       handler[h].pc \in {"logout", "wait", "reserve", "clear", "confirm", "failed"}
  /\ handler[h].kind = "logout" => handler[h].pc \in Cleaning \cup {"submit", "refused"}
  /\ Withdraws(h) \/ handler[h].kind = "logout" =>
       handler[h].op \in Op /\ op[handler[h].op] # Nobody
  /\ Withdraws(h) => ~UnderWay(handler[h].op)
  /\ handler[h].pc \in {"register", "stop"} => ~SigningOut(h)
  /\ handler[h].pc = "logout" => SigningOut(h)

(* A handler that cancels, disables or deletes has the lease; one that       *)
(* closes is in a server that closes, where nothing it has to withdraw is    *)
(* pending.                                                                  *)
HandlerLease(h) ==
  /\ handler[h].kind \in {"cancel", "disable", "delete"} =>
       /\ lease # Nobody /\ lease.token = h
       /\ lease.kind = IF handler[h].kind = "delete" THEN "delete" ELSE "authentication_cancel"
  /\ handler[h].kind = "close" => alive \in {"closing", "shut"}
  /\ handler[h].pc = "drain" => alive = "shut"
  /\ handler[h].kind = "close" /\ Withdraws(h) => \A o \in Op : ~UnderWay(o)

(* A handler that signs out has an operation of its own, which no worker     *)
(* has yet, and clears away one that is cancelled.                           *)
HandlerSignsOut(h) ==
  handler[h].kind = "logout" =>
    LET own == handler[h].own
    IN /\ own \in Op /\ op[own] # Nobody /\ op[own].action = "logout" /\ worker[own] = "none"
       /\ op[own].state \in {"pending", "cancelled", "unknown"}
       /\ op[own].state = "unknown" => conn.active = own
       /\ handler[h].pc \in Cleaning => op[handler[h].op].state = "cancelled"

(* A handler that clears has the slot, and the generation is still that of   *)
(* the operation it clears away, which is no pending one.                    *)
HandlerSlot(h) ==
  /\ handler[h].pc = "clear" =>
       slot # Nobody /\ slot.kind = "cleanup" /\ slot.by = h /\ Generation = Target(h)
  /\ handler[h].pc \in {"wait", "reserve", "clear"} => Past(Target(h))

(* A handler need not clear away only what cannot have touched the           *)
(* credential: its operation never came beyond its registration.             *)
HandlerNeeds(h) ==
  handler[h].pc \in Cleaning /\ handler[h].kind # "logout" /\ ~SigningOut(h) =>
    /\ handler[h].required <=> ~conn.present
    /\ ~handler[h].required =>
         /\ phase # Nobody /\ phase.op = handler[h].op => phase.at = "registered"
         /\ worker[handler[h].op] \notin {"erase", "erasing", "login", "session", "installed"}

\* One that has to clear away marked the generation, so no worker prepares it.
HandlerMarks(h) ==
  handler[h].pc \in Cleaning \ {"register"} /\ ~SigningOut(h) /\ handler[h].required
  /\ phase # Nobody /\ phase.op = handler[h].op => phase.at # "registered"

(* Who signs out or clears away for good does so under a record that shows   *)
(* no credential, except for the sign-out that was itself overtaken.         *)
HandlerPresent(h) ==
  /\ handler[h].kind = "logout" => handler[h].required
  /\ handler[h].pc \in Cleaning /\ handler[h].kind = "logout" => Unseen \/ SignOutCancelled
  /\ handler[h].pc \in Cleaning \cup {"logout"} /\ SigningOut(h) => Unseen
  /\ handler[h].pc = "drain" /\ handler[h].op # Nobody => Unseen
  /\ handler[h].kind = "delete" => ~conn.present /\ conn.active = Nobody

\* Whoever confirms has no file left behind, or its record shows it.
HandlerFile(h) ==
  handler[h].pc = "confirm" => ~file \/ (handler[h].kind # "delete" /\ conn.present)

\* What holds of one handler.
HandlerInv(h) ==
  /\ HandlerAt(h) /\ HandlerLease(h) /\ HandlerSignsOut(h) /\ HandlerSlot(h)
  /\ HandlerNeeds(h) /\ HandlerMarks(h) /\ HandlerPresent(h) /\ HandlerFile(h)

(* No two handlers sign out for one operation, nor does one withdraw what    *)
(* another's sign-out clears away.                                           *)
PairInv ==
  \A h, k \in Handler : h # k /\ handler[h].kind = "logout" =>
    /\ handler[k].kind = "logout" => handler[h].own # handler[k].own
    /\ Withdraws(k) /\ handler[h].pc \in Cleaning => handler[h].op # handler[k].op

(* The slot is had by the worker or the handler at a step that takes it; a   *)
(* sign-in is told to stop only when it is not pending, or at the end.       *)
SlotInv ==
  slot # Nobody =>
    /\ slot.kind = "auth" => slot.by \in Op /\ worker[slot.by] \in {"session", "installed"}
    /\ slot.kind = "prepare" => slot.by \in Op /\ worker[slot.by] = "erasing"
    /\ slot.kind = "cleanup" =>
         \/ slot.by \in Handler /\ handler[slot.by].pc = "clear"
         \/ slot.by \in Op /\ worker[slot.by] = "clearing"
    /\ slot.kind \in {"auth", "prepare"} /\ slot.stop => ~UnderWay(slot.by) \/ alive = "shut"

\* Between two servers nothing of the old one is left.
DownInv ==
  alive = "down" =>
    /\ slot = Nobody /\ phase = Nobody /\ ~poisoned /\ life < MaxStarts
    /\ \A o \in Op : worker[o] = "none"
    /\ \A h \in Handler : handler[h] = Idle

(* The record, the generation and the file agree: no credential is shown     *)
(* where there is no connection, a generation that is prepared has no        *)
(* session, and a credential that a deletion leaves is told.                 *)
FileInv ==
  /\ conn.present => conn.exists
  /\ phase # Nobody =>
       op[phase.op] # Nobody /\ (UnderWay(phase.op) => op[phase.op].action = "start")
  /\ phase # Nobody /\ phase.at = "prepared" => ~conn.present
  /\ lease # Nobody /\ lease.kind = "delete" /\ file =>
       told \/ (alive # "down" /\ lease.token \in Handler /\ handler[lease.token].kind = "delete")
  /\ ShownSessionExists /\ NoSilentCredential /\ AssumedForAReason

\* The inductive invariant of the sign-ins.
SignInInv ==
  /\ TypeOK /\ ActiveIsOpen /\ PairInv /\ SlotInv /\ DownInv /\ FileInv
  /\ (\A o \in Op : OpInv(o)) /\ (\A h \in Handler : HandlerInv(h))

\* Handlers, operations, the records of the state and Nobody are all distinct.
LEMMA SignInApart ==
  ASSUME SignInAssumption
  PROVE  /\ \A h \in Handler : h \notin Op /\ h # Nobody
         /\ \A o \in Op : o # Nobody /\ o \in Nat
         /\ \A x \in OpType \cup LeaseType \cup SlotType \cup PhaseType : x # Nobody
  BY DEF SignInAssumption, Op

\* A pending operation is alone, and nobody withdraws or deletes beside it.
LEMMA SignInPendAlone ==
  ASSUME SignInInv, SignInAssumption, NEW o \in Op, UnderWay(o)
  PROVE  /\ \A p \in Op \ {o} : ~UnderWay(p)
         /\ \A k \in Handler : ~Withdraws(k) /\ handler[k].kind \notin {"cancel", "disable", "delete"}
         /\ Matches(o) /\ conn.active = o /\ conn.exists
         /\ lease # Nobody /\ lease.token = o /\ lease.kind # "delete"
<1>1. OpPending(o) /\ \A p \in Op : OpPending(p)
  BY DEF SignInInv, OpInv
<1>2. \A p \in Op \ {o} : ~UnderWay(p)
  BY <1>1 DEF OpPending, Matches
<1>3. /\ lease # Nobody /\ lease.token = o /\ Matches(o) /\ lease.kind # "delete"
      /\ conn.active = o /\ conn.exists
  BY <1>1 DEF OpPending, Matches
<1>4. \A k \in Handler : ~Withdraws(k) /\ handler[k].kind \notin {"cancel", "disable", "delete"}
  BY <1>3, SignInApart DEF SignInInv, HandlerInv, HandlerLease, Withdraws
<1> QED
  BY <1>2, <1>3, <1>4

\* Beside a handler that withdraws or deletes no operation is pending, and
\* the lease is had by no other.
LEMMA SignInLeaseAlone ==
  ASSUME SignInInv, SignInAssumption, NEW h \in Handler,
         Withdraws(h) \/ handler[h].kind = "delete"
  PROVE  /\ \A p \in Op : ~UnderWay(p)
         /\ handler[h].kind # "close" =>
              /\ \A k \in Handler \ {h} : handler[k].kind \notin {"cancel", "disable", "delete"}
              /\ lease # Nobody /\ lease.token = h
         /\ alive # "down"
<1>1. \A p \in Op : ~UnderWay(p)
  BY SignInPendAlone DEF Withdraws
<1>2. alive # "down"
  BY DEF SignInInv, DownInv, Idle, Withdraws
<1> QED
  BY <1>1, <1>2 DEF SignInInv, HandlerInv, HandlerLease, Withdraws

\* While the lease is free no operation is pending and no handler needs it.
LEMMA SignInLeaseFree ==
  ASSUME SignInInv, SignInAssumption, lease = Nobody
  PROVE  /\ \A p \in Op : ~UnderWay(p)
         /\ \A k \in Handler : handler[k].kind \notin {"cancel", "disable", "delete"}
  BY DEF SignInInv, HandlerInv, HandlerLease, OpInv, OpPending

\* Which handlers clear away, and what.
LEMMA SignInWithdrawers ==
  ASSUME SignInInv, NEW h \in Handler
  PROVE  /\ handler[h].kind \in {"none", "cancel", "disable", "close", "logout", "delete"}
         /\ handler[h].pc \in Cleaning =>
              /\ handler[h].kind \in {"cancel", "disable", "close", "logout", "delete"}
              /\ handler[h].kind # "delete" => handler[h].op \in Op /\ op[handler[h].op] # Nobody
<1>1. HandlerAt(h) /\ handler[h] \in HandlerType
  BY DEF SignInInv, HandlerInv, TypeOK
<1>2. handler[h].kind \in {"none", "cancel", "disable", "close", "logout", "delete"}
  BY <1>1 DEF HandlerType
<1>3. handler[h].pc \in Cleaning => handler[h].kind # "none"
  BY <1>1 DEF HandlerAt, Cleaning
<1> QED
  BY <1>1, <1>2, <1>3 DEF HandlerAt, Withdraws, Cleaning

\* What a handler clears away is an operation that is not pending, in a live
\* server; the generation it has in view is not a pending one's.
LEMMA SignInCleaningIs ==
  ASSUME SignInInv, SignInAssumption, NEW h \in Handler,
         handler[h].pc \in Cleaning \cup {"logout", "confirm"}
  PROVE  /\ handler[h].kind \in {"cancel", "disable", "close", "logout", "delete"}
         /\ handler[h].kind # "delete" =>
              handler[h].op \in Op /\ op[handler[h].op] # Nobody /\ ~UnderWay(handler[h].op)
         /\ handler[h].kind # "logout" => \A p \in Op : ~UnderWay(p)
         /\ alive # "down"
         /\ \A p \in Op : UnderWay(p) /\ worker[p] # "none" => SignOutCancelled
<1>1. /\ HandlerAt(h) /\ HandlerSignsOut(h) /\ DownInv
      /\ handler[h].kind \in {"none", "cancel", "disable", "close", "logout", "delete"}
  BY SignInWithdrawers DEF SignInInv, HandlerInv
<1>2. handler[h].kind # "none"
  BY <1>1 DEF HandlerAt, Cleaning
<1>3. alive # "down"
  BY <1>1, <1>2 DEF DownInv, Idle
<1>4. handler[h].kind # "logout" /\ handler[h].kind # "delete" => Withdraws(h)
  BY <1>1, <1>2 DEF Withdraws, Cleaning
<1>5. handler[h].kind # "logout" => \A p \in Op : ~UnderWay(p)
  BY <1>4, SignInLeaseAlone
<1>6. handler[h].kind # "delete" =>
        handler[h].op \in Op /\ op[handler[h].op] # Nobody /\ ~UnderWay(handler[h].op)
  <2>1. CASE handler[h].kind = "logout"
    BY <1>1, <2>1 DEF HandlerAt, HandlerSignsOut, UnderWay, Cleaning
  <2>2. CASE handler[h].kind # "logout"
    BY <1>1, <1>4, <2>2 DEF HandlerAt
  <2> QED
    BY <2>1, <2>2
<1>7. ASSUME NEW p \in Op, UnderWay(p), worker[p] # "none" PROVE SignOutCancelled
  <2>1. handler[h].kind = "logout"
    BY <1>5, <1>7
  <2>2. conn.active = p /\ \A q \in Op \ {p} : ~UnderWay(q)
    BY <1>7, SignInPendAlone
  <2>3. /\ handler[h].own \in Op /\ op[handler[h].own] # Nobody /\ handler[h].own # p
        /\ op[handler[h].own].action = "logout"
        /\ op[handler[h].own].state \in {"pending", "cancelled", "unknown"}
        /\ op[handler[h].own].state = "unknown" => conn.active = handler[h].own
    BY <1>1, <1>7, <2>1 DEF HandlerSignsOut
  <2>4. op[handler[h].own].state = "cancelled"
    BY <2>2, <2>3 DEF UnderWay
  <2> QED
    BY <2>3, <2>4 DEF SignOutCancelled
<1> QED
  BY <1>1, <1>2, <1>3, <1>5, <1>6, <1>7

\* What the record, the generation and a sign-out's reading refer to.
LEMMA SignInTyped ==
  ASSUME SignInInv
  PROVE  /\ conn.active \in Op \cup {Nobody} /\ (phase # Nobody => phase.op \in Op)
         /\ \A x \in Op \cup Handler : target[x] \in Op \cup {Nobody}
  BY DEF SignInInv, TypeOK, ConnectionType, PhaseType

\* State(o, s) changes the state of that operation and nothing else of it.
LEMMA SignInStateIs ==
  ASSUME TypeOK, SignInAssumption, NEW o \in Op, op[o] # Nobody,
         NEW s \in {"pending", "succeeded", "failed", "cancelled", "unknown"}, State(o, s)
  PROVE  /\ op' \in [Op -> OpType \cup {Nobody}] /\ op'[o] # Nobody /\ op'[o].state = s
         /\ op'[o].action = op[o].action /\ op'[o].life = op[o].life
         /\ op'[o].revision = op[o].revision
         /\ \A p \in Op \ {o} : op'[p] = op[p]
<1>1. op[o] \in OpType
  BY DEF TypeOK
<1>2. [op[o] EXCEPT !.state = s] \in OpType
  BY <1>1 DEF OpType
<1>3. /\ [op[o] EXCEPT !.state = s].state = s
      /\ [op[o] EXCEPT !.state = s].action = op[o].action
      /\ [op[o] EXCEPT !.state = s].life = op[o].life
      /\ [op[o] EXCEPT !.state = s].revision = op[o].revision
  BY <1>1 DEF OpType
<1>4. op'[o] = [op[o] EXCEPT !.state = s] /\ op' \in [Op -> OpType \cup {Nobody}]
      /\ \A p \in Op \ {o} : op'[p] = op[p]
  BY <1>2 DEF State, TypeOK
<1> QED
  BY <1>2, <1>3, <1>4, SignInApart

\* A new operation is one, and leaves the others as they are.
LEMMA SignInNewOpIs ==
  ASSUME TypeOK, SignInAssumption, NEW o \in Op,
         NEW s \in {"pending", "failed"}, NEW a \in {"start", "logout"}, NEW r \in Nat,
         op' = [op EXCEPT ![o] = [state |-> s, action |-> a, life |-> life, revision |-> r]]
  PROVE  /\ op' \in [Op -> OpType \cup {Nobody}] /\ op'[o] # Nobody /\ op'[o].state = s
         /\ op'[o].action = a /\ op'[o].life = life /\ op'[o].revision = r
         /\ \A p \in Op \ {o} : op'[p] = op[p]
<1>1. [state |-> s, action |-> a, life |-> life, revision |-> r] \in OpType
  BY DEF OpType, TypeOK
<1> QED
  BY <1>1, SignInApart DEF TypeOK

\* To(h, pc) moves the handler and changes nothing else of it.
LEMMA SignInToIs ==
  ASSUME TypeOK, NEW h \in Handler, NEW pc, To(h, pc),
         pc \in {"stop", "wait", "reserve", "clear", "logout", "confirm", "failed", "submit",
                 "refused", "close"}
  PROVE  /\ handler' \in [Handler -> HandlerType]
         /\ handler'[h].pc = pc /\ handler'[h].kind = handler[h].kind
         /\ handler'[h].op = handler[h].op /\ handler'[h].own = handler[h].own
         /\ handler'[h].required = handler[h].required
         /\ \A k \in Handler \ {h} : handler'[k] = handler[k]
<1>1. handler[h] \in HandlerType
  BY DEF TypeOK
<1>2. /\ [handler[h] EXCEPT !.pc = pc] \in HandlerType
      /\ [handler[h] EXCEPT !.pc = pc].pc = pc
      /\ [handler[h] EXCEPT !.pc = pc].kind = handler[h].kind
      /\ [handler[h] EXCEPT !.pc = pc].op = handler[h].op
      /\ [handler[h] EXCEPT !.pc = pc].own = handler[h].own
      /\ [handler[h] EXCEPT !.pc = pc].required = handler[h].required
  BY <1>1 DEF HandlerType
<1>3. /\ handler'[h] = [handler[h] EXCEPT !.pc = pc]
      /\ \A k \in Handler \ {h} : handler'[k] = handler[k]
  BY DEF To, TypeOK
<1>4. handler' \in [Handler -> HandlerType]
  BY <1>2 DEF To, TypeOK
<1> QED
  BY <1>2, <1>3, <1>4

\* Occupy gives the handler its operation, and leaves the others as they are.
LEMMA SignInOccupyIs ==
  ASSUME TypeOK, NEW h \in Handler, NEW pc, NEW kind, NEW o, NEW own, NEW required,
         Occupy(h, pc, kind, o, own, required),
         pc \in {"register", "logout", "submit", "close"},
         kind \in {"cancel", "disable", "logout", "delete", "close"},
         o \in Op \cup {Nobody}, own \in Op \cup {Nobody}, required \in BOOLEAN,
         conn' \in ConnectionType
  PROVE  /\ handler' \in [Handler -> HandlerType]
         /\ handler'[h].pc = pc /\ handler'[h].kind = kind
         /\ handler'[h].op = o /\ handler'[h].own = own /\ handler'[h].required = required
         /\ \A k \in Handler \ {h} : handler'[k] = handler[k]
<1> DEFINE new == [pc |-> pc, kind |-> kind, op |-> o, own |-> own, revision |-> conn'.revision,
                   required |-> required]
<1>1. conn'.revision \in Nat
  BY DEF ConnectionType
<1>2. new \in HandlerType
  BY <1>1 DEF HandlerType
<1>3. handler' = [handler EXCEPT ![h] = new]
  BY DEF Occupy
<1>4. new.pc = pc /\ new.kind = kind /\ new.op = o /\ new.own = own /\ new.required = required
  OBVIOUS
<1> HIDE DEF new
<1>5. /\ handler'[h] = new /\ handler' \in [Handler -> HandlerType]
      /\ \A k \in Handler \ {h} : handler'[k] = handler[k]
  BY <1>2, <1>3 DEF TypeOK
<1> QED
  BY <1>4, <1>5

\* A handler that ends is idle, and leaves the others as they are.
LEMMA SignInIdleIs ==
  ASSUME TypeOK, NEW h \in Handler, handler' = [handler EXCEPT ![h] = Idle]
  PROVE  /\ handler' \in [Handler -> HandlerType]
         /\ handler'[h] = Idle /\ handler'[h].pc = "idle" /\ handler'[h].kind = "none"
         /\ \A k \in Handler \ {h} : handler'[k] = handler[k]
<1>1. Idle \in HandlerType /\ Idle.pc = "idle" /\ Idle.kind = "none"
  BY DEF Idle, HandlerType
<1>2. /\ handler'[h] = Idle /\ handler' \in [Handler -> HandlerType]
      /\ \A k \in Handler \ {h} : handler'[k] = handler[k]
  BY <1>1 DEF TypeOK
<1> QED
  BY <1>1, <1>2

\* A slot that is taken is a slot, and it is not Nobody.
LEMMA SignInSlotIs ==
  ASSUME SignInAssumption, NEW kind \in {"auth", "prepare", "cleanup"},
         NEW by \in Op \cup Handler,
         slot' = [kind |-> kind, by |-> by, stop |-> FALSE]
  PROVE  /\ slot' \in SlotType /\ slot' # Nobody
         /\ slot'.kind = kind /\ slot'.by = by /\ slot'.stop = FALSE
<1>1. slot' \in SlotType
  BY DEF SlotType
<1> QED
  BY <1>1, SignInApart

\* A slot that is told to stop stays its owner's.
LEMMA SignInStopIs ==
  ASSUME SignInAssumption, TypeOK, slot # Nobody, slot' = [slot EXCEPT !.stop = TRUE]
  PROVE  /\ slot' \in SlotType /\ slot' # Nobody
         /\ slot'.kind = slot.kind /\ slot'.by = slot.by
<1>1. slot \in SlotType
  BY DEF TypeOK
<1>2. slot' \in SlotType /\ slot'.kind = slot.kind /\ slot'.by = slot.by
  BY <1>1 DEF SlotType
<1> QED
  BY <1>2, SignInApart

\* Lease gives the lease to that token, for that purpose.
LEMMA SignInLeaseIs ==
  ASSUME SignInAssumption, TypeOK, NEW token \in Op \cup Handler,
         NEW kind \in {"authentication", "logout", "authentication_cancel", "delete"},
         Lease(token, kind)
  PROVE  lease' \in LeaseType /\ lease' # Nobody /\ lease'.token = token /\ lease'.kind = kind
<1>1. lease' \in LeaseType /\ lease'.token = token /\ lease'.kind = kind
  BY DEF Lease, LeaseType, TypeOK
<1> QED
  BY <1>1, SignInApart

\* Go(o, pc) moves that worker only.
LEMMA SignInGoIs ==
  ASSUME TypeOK, NEW o \in Op, NEW pc \in WorkerType, Go(o, pc)
  PROVE  /\ worker' \in [Op -> WorkerType] /\ worker'[o] = pc
         /\ \A p \in Op \ {o} : worker'[p] = worker[p]
  BY DEF Go, TypeOK

\* A record that shows no credential for sure is a record.
LEMMA SignInPresentIs ==
  ASSUME NEW rec \in ConnectionType, conn' = Present(rec, FALSE)
  PROVE  /\ conn' \in ConnectionType /\ conn'.present = FALSE /\ conn'.assumed = FALSE
         /\ conn'.exists = rec.exists /\ conn'.revision = rec.revision
         /\ conn'.enabled = rec.enabled /\ conn'.active = rec.active
  BY DEF Present, ConnectionType

\* The lease goes where it was the token's, and stays otherwise.
LEMMA SignInFreeIs ==
  ASSUME TypeOK, NEW token, lease' = Free(token)
  PROVE  /\ lease' \in LeaseType \cup {Nobody} /\ (lease' = Nobody \/ lease' = lease)
         /\ lease # Nobody /\ lease.token # token => lease' = lease
         /\ lease # Nobody /\ lease.token = token => lease' = Nobody
  BY DEF Free, TypeOK

\* A break counts one failure more.
LEMMA SignInBreakIs ==
  ASSUME TypeOK, SignInAssumption, Break
  PROVE  breaks' \in 0 .. MaxBreaks /\ breaks' > 0
  BY DEF Break, TypeOK, SignInAssumption

(* A worker that goes on to a step outside the backend, or ends, keeps        *)
(* SignInInv, if what it says of the file and of its reason is so.            *)
LEMMA SignInWorkerMoves ==
  ASSUME SignInInv, SignInAssumption, NEW o \in Op,
         NEW pc \in {"prepare", "unverified", "unstarted", "done", "dropped", "cancelled", "resolve"},
         worker[o] \notin {"none", "done", "session", "installed", "erasing", "clearing"},
         alive # "down", Go(o, pc),
         UNCHANGED <<registered, backend, server, handler, told>>,
         breaks' \in 0 .. MaxBreaks, breaks > 0 => breaks' > 0,
         pc \in {"prepare", "unverified", "resolve"} => op[o].action = "start",
         pc = "prepare" => worker[o] = "queued",
         pc = "resolve" => worker[o] \in {"committed", "skipped"},
         SigningIn(o) /\ pc = "cancelled" => ~file,
         SigningIn(o) /\ pc \in {"prepare", "unstarted", "dropped"} => Accounted,
         UnderWay(o) /\ alive = "up" /\ (pc = "unstarted" \/ (pc = "cancelled" /\ op[o].action = "logout"))
           => breaks' > 0 \/ SignOutCancelled
  PROVE  SignInInv'
<1>1. /\ TypeOK /\ ActiveIsOpen /\ PairInv /\ SlotInv /\ DownInv /\ FileInv
      /\ \A p \in Op : /\ OpAt(p) /\ OpPending(p) /\ OpSlot(p) /\ OpPhase(p)
                       /\ OpPresent(p) /\ OpFile(p) /\ OpLeaves(p)
      /\ \A k \in Handler : /\ HandlerAt(k) /\ HandlerLease(k) /\ HandlerSignsOut(k)
                            /\ HandlerSlot(k) /\ HandlerNeeds(k) /\ HandlerMarks(k)
                            /\ HandlerPresent(k) /\ HandlerFile(k)
  BY DEF SignInInv, OpInv, HandlerInv
<1>2. /\ conn.active \in Op \cup {Nobody} /\ (phase # Nobody => phase.op \in Op)
      /\ \A x \in Op \cup Handler : target[x] \in Op \cup {Nobody}
      /\ \A k \in Handler : k \notin Op /\ k # Nobody
      /\ \A p \in Op : p # Nobody
      /\ \A k \in Handler :
           /\ handler[k].kind \in {"none", "cancel", "disable", "close", "logout", "delete"}
           /\ handler[k].pc \in Cleaning =>
                /\ handler[k].kind \in {"cancel", "disable", "close", "logout", "delete"}
                /\ handler[k].kind # "delete" => handler[k].op \in Op /\ op[handler[k].op] # Nobody
  BY SignInApart, SignInWithdrawers, SignInTyped
<1>3. UNCHANGED <<conn, op, lease, slot, phase, poisoned, file, alive, life, target, handler, told>>
  BY DEF registered, backend, server
<1>4. op[o] # Nobody
  BY <1>1 DEF OpAt
<1>5. /\ worker' \in [Op -> WorkerType] /\ worker'[o] = pc
      /\ \A p \in Op \ {o} : worker'[p] = worker[p]
  BY <1>1, SignInGoIs DEF WorkerType
<1> USE <1>1, <1>2, <1>3, <1>4, <1>5
<1>6. TypeOK'
  BY DEF TypeOK
<1>7. SignOutCancelled => SignOutCancelled'
  BY DEF SignOutCancelled, UnderWay
<1>8. ActiveIsOpen'
  BY <1>7 DEF ActiveIsOpen, Open
<1>9. PairInv'
  BY <1>7 DEF PairInv, Withdraws, Cleaning, HandlerSignsOut, HandlerAt, Idle
<1>10. SlotInv'
  BY <1>7 DEF SlotInv, UnderWay, HandlerSlot, OpSlot
<1>11. DownInv'
  BY <1>7 DEF DownInv, Running
<1>12. FileInv'
  BY <1>7
    DEF FileInv, ShownSessionExists, SessionHasCredential, NoSilentCredential,
        AssumedForAReason, Open, UnderWay, Running, ActiveIsOpen, Unseen
<1>13. ASSUME NEW p \in Op PROVE OpInv(p)'
  <2>1. OpAt(p) /\ OpPending(p) /\ OpSlot(p) /\ OpPhase(p)
      /\ OpPresent(p) /\ OpFile(p) /\ OpLeaves(p)
    BY <1>1
  <2> USE <1>13, <2>1, <1>7
  <2>2. OpAt(p)'
    BY DEF OpAt, LoginSteps, LeavingSteps, UnderWay
  <2>3. OpPending(p)'
    BY DEF OpPending, Matches, UnderWay
  <2>4. OpSlot(p)'
    BY DEF OpSlot, Generation
  <2>5. OpPhase(p)'
    BY DEF OpPhase, SigningIn, UnderWay
  <2>6. OpPresent(p)'
    BY DEF OpPresent, OpSlot, Unseen
  <2>7. OpFile(p)'
    BY DEF OpFile, OpPhase, SigningIn, UnderWay, Accounted, Unlooked
  <2>8. OpLeaves(p)'
    BY DEF OpLeaves, LeavingSteps, Past, UnderWay, Generation
  <2> QED
    BY <2>2, <2>3, <2>4, <2>5, <2>6, <2>7, <2>8 DEF OpInv
<1>14. ASSUME NEW k \in Handler PROVE HandlerInv(k)'
  <2>1. HandlerAt(k) /\ HandlerLease(k) /\ HandlerSignsOut(k) /\ HandlerSlot(k)
      /\ HandlerNeeds(k) /\ HandlerMarks(k) /\ HandlerPresent(k) /\ HandlerFile(k)
    BY <1>1
  <2> USE <1>14, <2>1, <1>7
  <2>2. HandlerAt(k)'
    BY DEF HandlerAt, Withdraws, SigningOut, Cleaning, Idle, UnderWay
  <2>3. HandlerLease(k)'
    BY DEF HandlerLease, Withdraws, UnderWay
  <2>4. HandlerSignsOut(k)'
    BY DEF HandlerSignsOut, Cleaning, UnderWay
  <2>5. HandlerSlot(k)'
    BY DEF HandlerSlot, Target, SigningOut, Cleaning, Generation, Past, UnderWay
  <2>6. HandlerNeeds(k)'
    BY DEF HandlerNeeds, Withdraws, SigningOut, Cleaning
  <2>7. HandlerMarks(k)'
    BY DEF HandlerMarks, SigningOut, Cleaning
  <2>8. HandlerPresent(k)'
    BY DEF HandlerPresent, HandlerAt, Withdraws, SigningOut, Unseen, Cleaning
  <2>9. HandlerFile(k)'
    BY DEF HandlerFile, HandlerAt, Withdraws, Cleaning
  <2> QED
    BY <2>2, <2>3, <2>4, <2>5, <2>6, <2>7, <2>8, <2>9 DEF HandlerInv
<1> QED
  BY <1>6, <1>8, <1>9, <1>10, <1>11, <1>12, <1>13, <1>14 DEF SignInInv

\* PrepareRecord keeps SignInInv when the record loses its session.
LEMMA SignInPrepareRecordKeeps ==
  ASSUME SignInInv, SignInAssumption, NEW o \in Op, PrepareRecord(o, TRUE), Matches(o)
  PROVE  SignInInv'
<1>1. /\ TypeOK /\ ActiveIsOpen /\ PairInv /\ SlotInv /\ DownInv /\ FileInv
      /\ \A p \in Op : /\ OpAt(p) /\ OpPending(p) /\ OpSlot(p) /\ OpPhase(p)
                       /\ OpPresent(p) /\ OpFile(p) /\ OpLeaves(p)
      /\ \A k \in Handler : /\ HandlerAt(k) /\ HandlerLease(k) /\ HandlerSignsOut(k)
                            /\ HandlerSlot(k) /\ HandlerNeeds(k) /\ HandlerMarks(k)
                            /\ HandlerPresent(k) /\ HandlerFile(k)
  BY DEF SignInInv, OpInv, HandlerInv
<1>2. /\ conn.active \in Op \cup {Nobody} /\ (phase # Nobody => phase.op \in Op)
      /\ \A x \in Op \cup Handler : target[x] \in Op \cup {Nobody}
      /\ \A k \in Handler : k \notin Op /\ k # Nobody
      /\ \A p \in Op : p # Nobody
      /\ \A k \in Handler :
           /\ handler[k].kind \in {"none", "cancel", "disable", "close", "logout", "delete"}
           /\ handler[k].pc \in Cleaning =>
                /\ handler[k].kind \in {"cancel", "disable", "close", "logout", "delete"}
                /\ handler[k].kind # "delete" => handler[k].op \in Op /\ op[handler[k].op] # Nobody
  BY SignInApart, SignInWithdrawers, SignInTyped
<1>3. UNCHANGED <<op, lease, slot, phase, poisoned, file, alive, life, target, handler, told, breaks>>
  BY DEF PrepareRecord, registered, backend, server
<1>4. worker[o] = "prepare" /\ alive # "down" /\ op[o] # Nobody
  BY <1>1 DEF PrepareRecord, At, Running, OpAt
<1>5. UnderWay(o)
  BY <1>4 DEF Matches, UnderWay
<1>6. /\ \A p \in Op \ {o} : ~UnderWay(p)
      /\ \A k \in Handler : ~Withdraws(k) /\ handler[k].kind \notin {"cancel", "disable", "delete"}
      /\ Matches(o) /\ conn.active = o /\ conn.exists
      /\ lease # Nobody /\ lease.token = o /\ lease.kind # "delete"
  BY <1>5, SignInPendAlone
<1>7. /\ worker' \in [Op -> WorkerType] /\ worker'[o] = "erase"
      /\ \A p \in Op \ {o} : worker'[p] = worker[p]
  BY <1>1, SignInGoIs DEF PrepareRecord, WorkerType
<1>8. /\ conn' \in ConnectionType /\ conn'.present = FALSE /\ conn'.assumed = FALSE
      /\ conn'.exists = conn.exists /\ conn'.revision = conn.revision
      /\ conn'.enabled = conn.enabled /\ conn'.active = conn.active
  BY <1>1, SignInPresentIs DEF PrepareRecord, TypeOK
<1> USE <1>1, <1>2, <1>3, <1>4, <1>5, <1>6, <1>7, <1>8
<1>9. TypeOK'
  BY DEF TypeOK
<1>10. SignOutCancelled => SignOutCancelled'
  BY DEF SignOutCancelled, UnderWay
<1>11. ActiveIsOpen'
  BY <1>10 DEF ActiveIsOpen, Open
<1>12. PairInv'
  BY <1>10 DEF PairInv, Withdraws, Cleaning, HandlerSignsOut, HandlerAt, Idle
<1>13. SlotInv'
  BY <1>10 DEF SlotInv, UnderWay, HandlerSlot, OpSlot
<1>14. DownInv'
  BY <1>10 DEF DownInv, Running
<1>15. FileInv'
  BY <1>10
    DEF FileInv, ShownSessionExists, SessionHasCredential, NoSilentCredential,
        AssumedForAReason, Open, UnderWay, Running, ActiveIsOpen, Unseen
<1>16. ASSUME NEW p \in Op PROVE OpInv(p)'
  <2>1. OpAt(p) /\ OpPending(p) /\ OpSlot(p) /\ OpPhase(p)
      /\ OpPresent(p) /\ OpFile(p) /\ OpLeaves(p)
    BY <1>1
  <2> USE <1>16, <2>1, <1>10
  <2>2. OpAt(p)'
    BY DEF OpAt, LoginSteps, LeavingSteps, UnderWay
  <2>3. OpPending(p)'
    BY DEF OpPending, Matches, UnderWay
  <2>4. OpSlot(p)'
    BY DEF OpSlot, Generation
  <2>5. OpPhase(p)'
    BY DEF OpPhase, SigningIn, UnderWay
  <2>6. OpPresent(p)'
    BY DEF OpPresent, OpSlot, Unseen
  <2>7. OpFile(p)'
    BY DEF OpFile, OpPhase, SigningIn, UnderWay, Accounted, Unlooked
  <2>8. OpLeaves(p)'
    BY DEF OpLeaves, LeavingSteps, Past, UnderWay, Generation
  <2> QED
    BY <2>2, <2>3, <2>4, <2>5, <2>6, <2>7, <2>8 DEF OpInv
<1>17. ASSUME NEW k \in Handler PROVE HandlerInv(k)'
  <2>1. HandlerAt(k) /\ HandlerLease(k) /\ HandlerSignsOut(k) /\ HandlerSlot(k)
      /\ HandlerNeeds(k) /\ HandlerMarks(k) /\ HandlerPresent(k) /\ HandlerFile(k)
    BY <1>1
  <2> USE <1>17, <2>1, <1>10
  <2>2. HandlerAt(k)'
    BY DEF HandlerAt, Withdraws, SigningOut, Cleaning, Idle, UnderWay
  <2>3. HandlerLease(k)'
    BY DEF HandlerLease, Withdraws, UnderWay
  <2>4. HandlerSignsOut(k)'
    BY DEF HandlerSignsOut, Cleaning, UnderWay
  <2>5. HandlerSlot(k)'
    BY DEF HandlerSlot, Target, SigningOut, Cleaning, Generation, Past, UnderWay
  <2>6. HandlerNeeds(k)'
    BY DEF HandlerNeeds, Withdraws, SigningOut, Cleaning
  <2>7. HandlerMarks(k)'
    BY DEF HandlerMarks, SigningOut, Cleaning
  <2>8. HandlerPresent(k)'
    BY DEF HandlerPresent, HandlerAt, Withdraws, SigningOut, Unseen, Cleaning
  <2>9. HandlerFile(k)'
    BY DEF HandlerFile, HandlerAt, Withdraws, Cleaning
  <2> QED
    BY <2>2, <2>3, <2>4, <2>5, <2>6, <2>7, <2>8, <2>9 DEF HandlerInv
<1> QED
  BY <1>9, <1>11, <1>12, <1>13, <1>14, <1>15, <1>16, <1>17 DEF SignInInv

\* BeginErase keeps SignInInv when the backend admits the worker.
LEMMA SignInBeginEraseKeeps ==
  ASSUME SignInInv, SignInAssumption, NEW o \in Op, BeginErase(o), Admitted(o, "registered")
  PROVE  SignInInv'
<1>1. /\ TypeOK /\ ActiveIsOpen /\ PairInv /\ SlotInv /\ DownInv /\ FileInv
      /\ \A p \in Op : /\ OpAt(p) /\ OpPending(p) /\ OpSlot(p) /\ OpPhase(p)
                       /\ OpPresent(p) /\ OpFile(p) /\ OpLeaves(p)
      /\ \A k \in Handler : /\ HandlerAt(k) /\ HandlerLease(k) /\ HandlerSignsOut(k)
                            /\ HandlerSlot(k) /\ HandlerNeeds(k) /\ HandlerMarks(k)
                            /\ HandlerPresent(k) /\ HandlerFile(k)
  BY DEF SignInInv, OpInv, HandlerInv
<1>2. /\ conn.active \in Op \cup {Nobody} /\ (phase # Nobody => phase.op \in Op)
      /\ \A x \in Op \cup Handler : target[x] \in Op \cup {Nobody}
      /\ \A k \in Handler : k \notin Op /\ k # Nobody
      /\ \A p \in Op : p # Nobody
      /\ \A k \in Handler :
           /\ handler[k].kind \in {"none", "cancel", "disable", "close", "logout", "delete"}
           /\ handler[k].pc \in Cleaning =>
                /\ handler[k].kind \in {"cancel", "disable", "close", "logout", "delete"}
                /\ handler[k].kind # "delete" => handler[k].op \in Op /\ op[handler[k].op] # Nobody
  BY SignInApart, SignInWithdrawers, SignInTyped
<1>3. UNCHANGED <<conn, op, lease, phase, poisoned, file, alive, life, target, handler, told, breaks>>
  BY DEF BeginErase, registered, backend, server
<1>4. worker[o] = "erase" /\ alive # "down" /\ op[o] # Nobody
  BY <1>1 DEF BeginErase, At, Running, OpAt
<1>5. /\ worker' \in [Op -> WorkerType] /\ worker'[o] = "erasing"
      /\ \A p \in Op \ {o} : worker'[p] = worker[p]
  BY <1>1, SignInGoIs DEF BeginErase, WorkerType
<1>6. /\ slot = Nobody /\ slot' \in SlotType /\ slot' # Nobody
      /\ slot'.kind = "prepare" /\ slot'.by = o /\ slot'.stop = FALSE
      /\ phase # Nobody /\ phase.op = o /\ phase.at = "registered"
  BY SignInSlotIs DEF BeginErase, Admitted
<1> USE <1>1, <1>2, <1>3, <1>4, <1>5, <1>6
<1>7. TypeOK'
  BY DEF TypeOK
<1>8. SignOutCancelled => SignOutCancelled'
  BY DEF SignOutCancelled, UnderWay
<1>9. ActiveIsOpen'
  BY <1>8 DEF ActiveIsOpen, Open
<1>10. PairInv'
  BY <1>8 DEF PairInv, Withdraws, Cleaning, HandlerSignsOut, HandlerAt, Idle
<1>11. SlotInv'
  BY <1>8 DEF SlotInv, UnderWay, HandlerSlot, OpSlot
<1>12. DownInv'
  BY <1>8 DEF DownInv, Running
<1>13. FileInv'
  BY <1>8
    DEF FileInv, ShownSessionExists, SessionHasCredential, NoSilentCredential,
        AssumedForAReason, Open, UnderWay, Running, ActiveIsOpen, Unseen
<1>14. ASSUME NEW p \in Op PROVE OpInv(p)'
  <2>1. OpAt(p) /\ OpPending(p) /\ OpSlot(p) /\ OpPhase(p)
      /\ OpPresent(p) /\ OpFile(p) /\ OpLeaves(p)
    BY <1>1
  <2> USE <1>14, <2>1, <1>8
  <2>2. OpAt(p)'
    BY DEF OpAt, LoginSteps, LeavingSteps, UnderWay
  <2>3. OpPending(p)'
    BY DEF OpPending, Matches, UnderWay
  <2>4. OpSlot(p)'
    BY DEF OpSlot, Generation
  <2>5. OpPhase(p)'
    BY DEF OpPhase, SigningIn, UnderWay
  <2>6. OpPresent(p)'
    BY DEF OpPresent, OpSlot, Unseen
  <2>7. OpFile(p)'
    BY DEF OpFile, OpPhase, SigningIn, UnderWay, Accounted, Unlooked
  <2>8. OpLeaves(p)'
    BY DEF OpLeaves, LeavingSteps, Past, UnderWay, Generation
  <2> QED
    BY <2>2, <2>3, <2>4, <2>5, <2>6, <2>7, <2>8 DEF OpInv
<1>15. ASSUME NEW k \in Handler PROVE HandlerInv(k)'
  <2>1. HandlerAt(k) /\ HandlerLease(k) /\ HandlerSignsOut(k) /\ HandlerSlot(k)
      /\ HandlerNeeds(k) /\ HandlerMarks(k) /\ HandlerPresent(k) /\ HandlerFile(k)
    BY <1>1
  <2> USE <1>15, <2>1, <1>8
  <2>2. HandlerAt(k)'
    BY DEF HandlerAt, Withdraws, SigningOut, Cleaning, Idle, UnderWay
  <2>3. HandlerLease(k)'
    BY DEF HandlerLease, Withdraws, UnderWay
  <2>4. HandlerSignsOut(k)'
    BY DEF HandlerSignsOut, Cleaning, UnderWay
  <2>5. HandlerSlot(k)'
    BY DEF HandlerSlot, Target, SigningOut, Cleaning, Generation, Past, UnderWay
  <2>6. HandlerNeeds(k)'
    BY DEF HandlerNeeds, Withdraws, SigningOut, Cleaning
  <2>7. HandlerMarks(k)'
    BY DEF HandlerMarks, SigningOut, Cleaning
  <2>8. HandlerPresent(k)'
    BY DEF HandlerPresent, HandlerAt, Withdraws, SigningOut, Unseen, Cleaning
  <2>9. HandlerFile(k)'
    BY DEF HandlerFile, HandlerAt, Withdraws, Cleaning
  <2> QED
    BY <2>2, <2>3, <2>4, <2>5, <2>6, <2>7, <2>8, <2>9 DEF HandlerInv
<1> QED
  BY <1>7, <1>9, <1>10, <1>11, <1>12, <1>13, <1>14, <1>15 DEF SignInInv

\* EndErase keeps SignInInv when the old credential is erased.
LEMMA SignInEndEraseKeeps ==
  ASSUME SignInInv, SignInAssumption, NEW o \in Op, EndErase(o, TRUE)
  PROVE  SignInInv'
<1>1. /\ TypeOK /\ ActiveIsOpen /\ PairInv /\ SlotInv /\ DownInv /\ FileInv
      /\ \A p \in Op : /\ OpAt(p) /\ OpPending(p) /\ OpSlot(p) /\ OpPhase(p)
                       /\ OpPresent(p) /\ OpFile(p) /\ OpLeaves(p)
      /\ \A k \in Handler : /\ HandlerAt(k) /\ HandlerLease(k) /\ HandlerSignsOut(k)
                            /\ HandlerSlot(k) /\ HandlerNeeds(k) /\ HandlerMarks(k)
                            /\ HandlerPresent(k) /\ HandlerFile(k)
  BY DEF SignInInv, OpInv, HandlerInv
<1>2. /\ conn.active \in Op \cup {Nobody} /\ (phase # Nobody => phase.op \in Op)
      /\ \A x \in Op \cup Handler : target[x] \in Op \cup {Nobody}
      /\ \A k \in Handler : k \notin Op /\ k # Nobody
      /\ \A p \in Op : p # Nobody
      /\ \A k \in Handler :
           /\ handler[k].kind \in {"none", "cancel", "disable", "close", "logout", "delete"}
           /\ handler[k].pc \in Cleaning =>
                /\ handler[k].kind \in {"cancel", "disable", "close", "logout", "delete"}
                /\ handler[k].kind # "delete" => handler[k].op \in Op /\ op[handler[k].op] # Nobody
  BY SignInApart, SignInWithdrawers, SignInTyped
<1>3. UNCHANGED <<conn, op, lease, poisoned, alive, life, target, handler, breaks>>
  BY DEF EndErase, registered, backend, server
<1>4. worker[o] = "erasing" /\ alive # "down" /\ op[o] # Nobody
  BY <1>1 DEF EndErase, At, Running, OpAt
<1>5. /\ worker' \in [Op -> WorkerType] /\ worker'[o] = "login"
      /\ \A p \in Op \ {o} : worker'[p] = worker[p]
  BY <1>1, SignInGoIs DEF EndErase, WorkerType
<1>6. /\ slot # Nobody /\ slot.kind = "prepare" /\ slot.by = o /\ slot' = Nobody
      /\ phase # Nobody /\ phase.op = o /\ ~conn.present /\ ~file' /\ ~told'
      /\ file' \in BOOLEAN /\ told' \in BOOLEAN
  BY <1>1, <1>4 DEF EndErase, OpSlot, OpPresent
<1>7. /\ phase' \in PhaseType /\ phase' # Nobody /\ phase'.op = o /\ phase'.at = "prepared"
  BY <1>6, SignInApart DEF EndErase, PhaseType
<1> USE <1>1, <1>2, <1>3, <1>4, <1>5, <1>6, <1>7
<1>8. TypeOK'
  BY DEF TypeOK
<1>9. SignOutCancelled => SignOutCancelled'
  BY DEF SignOutCancelled, UnderWay
<1>10. ActiveIsOpen'
  BY <1>9 DEF ActiveIsOpen, Open
<1>11. PairInv'
  BY <1>9 DEF PairInv, Withdraws, Cleaning, HandlerSignsOut, HandlerAt, Idle
<1>12. SlotInv'
  BY <1>9 DEF SlotInv, UnderWay, HandlerSlot, OpSlot
<1>13. DownInv'
  BY <1>9 DEF DownInv, Running
<1>14. FileInv'
  BY <1>9
    DEF FileInv, ShownSessionExists, SessionHasCredential, NoSilentCredential,
        AssumedForAReason, Open, UnderWay, Running, ActiveIsOpen, Unseen
<1>15. ASSUME NEW p \in Op PROVE OpInv(p)'
  <2>1. OpAt(p) /\ OpPending(p) /\ OpSlot(p) /\ OpPhase(p)
      /\ OpPresent(p) /\ OpFile(p) /\ OpLeaves(p)
    BY <1>1
  <2> USE <1>15, <2>1, <1>9
  <2>2. OpAt(p)'
    BY DEF OpAt, LoginSteps, LeavingSteps, UnderWay
  <2>3. OpPending(p)'
    BY DEF OpPending, Matches, UnderWay
  <2>4. OpSlot(p)'
    BY DEF OpSlot, Generation
  <2>5. OpPhase(p)'
    BY DEF OpPhase, SigningIn, UnderWay
  <2>6. OpPresent(p)'
    BY DEF OpPresent, OpSlot, Unseen
  <2>7. OpFile(p)'
    BY DEF OpFile, OpPhase, SigningIn, UnderWay, Accounted, Unlooked
  <2>8. OpLeaves(p)'
    BY DEF OpLeaves, LeavingSteps, Past, UnderWay, Generation
  <2> QED
    BY <2>2, <2>3, <2>4, <2>5, <2>6, <2>7, <2>8 DEF OpInv
<1>16. ASSUME NEW k \in Handler PROVE HandlerInv(k)'
  <2>1. HandlerAt(k) /\ HandlerLease(k) /\ HandlerSignsOut(k) /\ HandlerSlot(k)
      /\ HandlerNeeds(k) /\ HandlerMarks(k) /\ HandlerPresent(k) /\ HandlerFile(k)
    BY <1>1
  <2> USE <1>16, <2>1, <1>9
  <2>2. HandlerAt(k)'
    BY DEF HandlerAt, Withdraws, SigningOut, Cleaning, Idle, UnderWay
  <2>3. HandlerLease(k)'
    BY DEF HandlerLease, Withdraws, UnderWay
  <2>4. HandlerSignsOut(k)'
    BY DEF HandlerSignsOut, Cleaning, UnderWay
  <2>5. HandlerSlot(k)'
    BY DEF HandlerSlot, Target, SigningOut, Cleaning, Generation, Past, UnderWay
  <2>6. HandlerNeeds(k)'
    BY DEF HandlerNeeds, Withdraws, SigningOut, Cleaning
  <2>7. HandlerMarks(k)'
    BY DEF HandlerMarks, SigningOut, Cleaning
  <2>8. HandlerPresent(k)'
    BY DEF HandlerPresent, HandlerAt, Withdraws, SigningOut, Unseen, Cleaning
  <2>9. HandlerFile(k)'
    BY DEF HandlerFile, HandlerAt, Withdraws, Cleaning
  <2> QED
    BY <2>2, <2>3, <2>4, <2>5, <2>6, <2>7, <2>8, <2>9 DEF HandlerInv
<1> QED
  BY <1>8, <1>10, <1>11, <1>12, <1>13, <1>14, <1>15, <1>16 DEF SignInInv

\* EndErase keeps SignInInv when the old credential cannot be erased.
LEMMA SignInEndEraseNotKeeps ==
  ASSUME SignInInv, SignInAssumption, NEW o \in Op, EndErase(o, FALSE)
  PROVE  SignInInv'
<1>1. /\ TypeOK /\ ActiveIsOpen /\ PairInv /\ SlotInv /\ DownInv /\ FileInv
      /\ \A p \in Op : /\ OpAt(p) /\ OpPending(p) /\ OpSlot(p) /\ OpPhase(p)
                       /\ OpPresent(p) /\ OpFile(p) /\ OpLeaves(p)
      /\ \A k \in Handler : /\ HandlerAt(k) /\ HandlerLease(k) /\ HandlerSignsOut(k)
                            /\ HandlerSlot(k) /\ HandlerNeeds(k) /\ HandlerMarks(k)
                            /\ HandlerPresent(k) /\ HandlerFile(k)
  BY DEF SignInInv, OpInv, HandlerInv
<1>2. /\ conn.active \in Op \cup {Nobody} /\ (phase # Nobody => phase.op \in Op)
      /\ \A x \in Op \cup Handler : target[x] \in Op \cup {Nobody}
      /\ \A k \in Handler : k \notin Op /\ k # Nobody
      /\ \A p \in Op : p # Nobody
      /\ \A k \in Handler :
           /\ handler[k].kind \in {"none", "cancel", "disable", "close", "logout", "delete"}
           /\ handler[k].pc \in Cleaning =>
                /\ handler[k].kind \in {"cancel", "disable", "close", "logout", "delete"}
                /\ handler[k].kind # "delete" => handler[k].op \in Op /\ op[handler[k].op] # Nobody
  BY SignInApart, SignInWithdrawers, SignInTyped
<1>3. UNCHANGED <<conn, op, lease, poisoned, alive, life, target, handler, told>>
  BY DEF EndErase, registered, backend, server
<1>4. worker[o] = "erasing" /\ alive # "down" /\ op[o] # Nobody
  BY <1>1 DEF EndErase, At, Running, OpAt
<1>5. /\ worker' \in [Op -> WorkerType] /\ worker'[o] = "unverified"
      /\ \A p \in Op \ {o} : worker'[p] = worker[p]
  BY <1>1, SignInGoIs DEF EndErase, WorkerType
<1>6. breaks' \in 0 .. MaxBreaks /\ breaks' > 0
  BY <1>1, SignInBreakIs DEF EndErase
<1>7. /\ slot # Nobody /\ slot.kind = "prepare" /\ slot.by = o /\ slot' = Nobody
      /\ phase # Nobody /\ phase.op = o /\ ~conn.present /\ (file' => file) /\ file' \in BOOLEAN
  BY <1>1, <1>4 DEF EndErase, OpSlot, OpPresent, TypeOK
<1>8. /\ phase' \in PhaseType /\ phase' # Nobody /\ phase'.op = o /\ phase'.at = "cleanup_required"
  BY <1>7, SignInApart DEF EndErase, PhaseType
<1> USE <1>1, <1>2, <1>3, <1>4, <1>5, <1>6, <1>7, <1>8
<1>9. TypeOK'
  BY DEF TypeOK
<1>10. SignOutCancelled => SignOutCancelled'
  BY DEF SignOutCancelled, UnderWay
<1>11. ActiveIsOpen'
  BY <1>10 DEF ActiveIsOpen, Open
<1>12. PairInv'
  BY <1>10 DEF PairInv, Withdraws, Cleaning, HandlerSignsOut, HandlerAt, Idle
<1>13. SlotInv'
  BY <1>10 DEF SlotInv, UnderWay, HandlerSlot, OpSlot
<1>14. DownInv'
  BY <1>10 DEF DownInv, Running
<1>15. FileInv'
  BY <1>10
    DEF FileInv, ShownSessionExists, SessionHasCredential, NoSilentCredential,
        AssumedForAReason, Open, UnderWay, Running, ActiveIsOpen, Unseen
<1>16. ASSUME NEW p \in Op PROVE OpInv(p)'
  <2>1. OpAt(p) /\ OpPending(p) /\ OpSlot(p) /\ OpPhase(p)
      /\ OpPresent(p) /\ OpFile(p) /\ OpLeaves(p)
    BY <1>1
  <2> USE <1>16, <2>1, <1>10
  <2>2. OpAt(p)'
    BY DEF OpAt, LoginSteps, LeavingSteps, UnderWay
  <2>3. OpPending(p)'
    BY DEF OpPending, Matches, UnderWay
  <2>4. OpSlot(p)'
    BY DEF OpSlot, Generation
  <2>5. OpPhase(p)'
    BY DEF OpPhase, SigningIn, UnderWay
  <2>6. OpPresent(p)'
    BY DEF OpPresent, OpSlot, Unseen
  <2>7. OpFile(p)'
    BY DEF OpFile, OpPhase, SigningIn, UnderWay, Accounted, Unlooked
  <2>8. OpLeaves(p)'
    BY DEF OpLeaves, LeavingSteps, Past, UnderWay, Generation
  <2> QED
    BY <2>2, <2>3, <2>4, <2>5, <2>6, <2>7, <2>8 DEF OpInv
<1>17. ASSUME NEW k \in Handler PROVE HandlerInv(k)'
  <2>1. HandlerAt(k) /\ HandlerLease(k) /\ HandlerSignsOut(k) /\ HandlerSlot(k)
      /\ HandlerNeeds(k) /\ HandlerMarks(k) /\ HandlerPresent(k) /\ HandlerFile(k)
    BY <1>1
  <2> USE <1>17, <2>1, <1>10
  <2>2. HandlerAt(k)'
    BY DEF HandlerAt, Withdraws, SigningOut, Cleaning, Idle, UnderWay
  <2>3. HandlerLease(k)'
    BY DEF HandlerLease, Withdraws, UnderWay
  <2>4. HandlerSignsOut(k)'
    BY DEF HandlerSignsOut, Cleaning, UnderWay
  <2>5. HandlerSlot(k)'
    BY DEF HandlerSlot, Target, SigningOut, Cleaning, Generation, Past, UnderWay
  <2>6. HandlerNeeds(k)'
    BY DEF HandlerNeeds, Withdraws, SigningOut, Cleaning
  <2>7. HandlerMarks(k)'
    BY DEF HandlerMarks, SigningOut, Cleaning
  <2>8. HandlerPresent(k)'
    BY DEF HandlerPresent, HandlerAt, Withdraws, SigningOut, Unseen, Cleaning
  <2>9. HandlerFile(k)'
    BY DEF HandlerFile, HandlerAt, Withdraws, Cleaning
  <2> QED
    BY <2>2, <2>3, <2>4, <2>5, <2>6, <2>7, <2>8, <2>9 DEF HandlerInv
<1> QED
  BY <1>9, <1>11, <1>12, <1>13, <1>14, <1>15, <1>16, <1>17 DEF SignInInv

\* MarkUnknown keeps SignInInv when the operation is marked.
LEMMA SignInMarkUnknownKeeps ==
  ASSUME SignInInv, SignInAssumption, NEW o \in Op, MarkUnknown(o, TRUE), Matches(o)
  PROVE  SignInInv'
<1>1. /\ TypeOK /\ ActiveIsOpen /\ PairInv /\ SlotInv /\ DownInv /\ FileInv
      /\ \A p \in Op : /\ OpAt(p) /\ OpPending(p) /\ OpSlot(p) /\ OpPhase(p)
                       /\ OpPresent(p) /\ OpFile(p) /\ OpLeaves(p)
      /\ \A k \in Handler : /\ HandlerAt(k) /\ HandlerLease(k) /\ HandlerSignsOut(k)
                            /\ HandlerSlot(k) /\ HandlerNeeds(k) /\ HandlerMarks(k)
                            /\ HandlerPresent(k) /\ HandlerFile(k)
  BY DEF SignInInv, OpInv, HandlerInv
<1>2. /\ conn.active \in Op \cup {Nobody} /\ (phase # Nobody => phase.op \in Op)
      /\ \A x \in Op \cup Handler : target[x] \in Op \cup {Nobody}
      /\ \A k \in Handler : k \notin Op /\ k # Nobody
      /\ \A p \in Op : p # Nobody
      /\ \A k \in Handler :
           /\ handler[k].kind \in {"none", "cancel", "disable", "close", "logout", "delete"}
           /\ handler[k].pc \in Cleaning =>
                /\ handler[k].kind \in {"cancel", "disable", "close", "logout", "delete"}
                /\ handler[k].kind # "delete" => handler[k].op \in Op /\ op[handler[k].op] # Nobody
  BY SignInApart, SignInWithdrawers, SignInTyped
<1>3. UNCHANGED <<conn, lease, slot, phase, poisoned, file, alive, life, target, handler, told, breaks>>
  BY DEF MarkUnknown, registered, backend, server
<1>4. worker[o] = "unverified" /\ alive # "down" /\ op[o] # Nobody
  BY <1>1 DEF MarkUnknown, At, Running, OpAt
<1>5. /\ worker' \in [Op -> WorkerType] /\ worker'[o] = "done"
      /\ \A p \in Op \ {o} : worker'[p] = worker[p]
  BY <1>1, SignInGoIs DEF MarkUnknown, WorkerType
<1>6. UnderWay(o)
  BY <1>4 DEF Matches, UnderWay
<1>7. /\ \A p \in Op \ {o} : ~UnderWay(p)
      /\ \A k \in Handler : ~Withdraws(k) /\ handler[k].kind \notin {"cancel", "disable", "delete"}
      /\ Matches(o) /\ conn.active = o /\ conn.exists
      /\ lease # Nobody /\ lease.token = o /\ lease.kind # "delete"
  BY <1>6, SignInPendAlone
<1>8. /\ op' \in [Op -> OpType \cup {Nobody}] /\ op'[o] # Nobody /\ op'[o].state = "unknown"
      /\ op'[o].action = op[o].action /\ op'[o].life = op[o].life
      /\ op'[o].revision = op[o].revision
      /\ \A p \in Op \ {o} : op'[p] = op[p]
  BY <1>1, <1>4, SignInStateIs DEF MarkUnknown
<1> USE <1>1, <1>2, <1>3, <1>4, <1>5, <1>6, <1>7, <1>8
<1>9. TypeOK'
  BY DEF TypeOK
<1>10. SignOutCancelled => SignOutCancelled'
  BY DEF SignOutCancelled, UnderWay
<1>11. ActiveIsOpen'
  BY <1>10 DEF ActiveIsOpen, Open
<1>12. PairInv'
  BY <1>10 DEF PairInv, Withdraws, Cleaning, HandlerSignsOut, HandlerAt, Idle
<1>13. SlotInv'
  BY <1>10 DEF SlotInv, UnderWay, HandlerSlot, OpSlot
<1>14. DownInv'
  BY <1>10 DEF DownInv, Running
<1>15. FileInv'
  BY <1>10
    DEF FileInv, ShownSessionExists, SessionHasCredential, NoSilentCredential,
        AssumedForAReason, Open, UnderWay, Running, ActiveIsOpen, Unseen
<1>16. ASSUME NEW p \in Op PROVE OpInv(p)'
  <2>1. OpAt(p) /\ OpPending(p) /\ OpSlot(p) /\ OpPhase(p)
      /\ OpPresent(p) /\ OpFile(p) /\ OpLeaves(p)
    BY <1>1
  <2> USE <1>16, <2>1, <1>10
  <2>2. OpAt(p)'
    BY DEF OpAt, LoginSteps, LeavingSteps, UnderWay
  <2>3. OpPending(p)'
    BY DEF OpPending, Matches, UnderWay
  <2>4. OpSlot(p)'
    BY DEF OpSlot, Generation
  <2>5. OpPhase(p)'
    BY DEF OpPhase, SigningIn, UnderWay
  <2>6. OpPresent(p)'
    BY DEF OpPresent, OpSlot, Unseen
  <2>7. OpFile(p)'
    BY DEF OpFile, OpPhase, SigningIn, UnderWay, Accounted, Unlooked
  <2>8. OpLeaves(p)'
    BY DEF OpLeaves, LeavingSteps, Past, UnderWay, Generation
  <2> QED
    BY <2>2, <2>3, <2>4, <2>5, <2>6, <2>7, <2>8 DEF OpInv
<1>17. ASSUME NEW k \in Handler PROVE HandlerInv(k)'
  <2>1. HandlerAt(k) /\ HandlerLease(k) /\ HandlerSignsOut(k) /\ HandlerSlot(k)
      /\ HandlerNeeds(k) /\ HandlerMarks(k) /\ HandlerPresent(k) /\ HandlerFile(k)
    BY <1>1
  <2> USE <1>17, <2>1, <1>10
  <2>2. HandlerAt(k)'
    BY DEF HandlerAt, Withdraws, SigningOut, Cleaning, Idle, UnderWay
  <2>3. HandlerLease(k)'
    BY DEF HandlerLease, Withdraws, UnderWay
  <2>4. HandlerSignsOut(k)'
    BY DEF HandlerSignsOut, Cleaning, UnderWay
  <2>5. HandlerSlot(k)'
    BY DEF HandlerSlot, Target, SigningOut, Cleaning, Generation, Past, UnderWay
  <2>6. HandlerNeeds(k)'
    BY DEF HandlerNeeds, Withdraws, SigningOut, Cleaning
  <2>7. HandlerMarks(k)'
    BY DEF HandlerMarks, SigningOut, Cleaning
  <2>8. HandlerPresent(k)'
    BY DEF HandlerPresent, HandlerAt, Withdraws, SigningOut, Unseen, Cleaning
  <2>9. HandlerFile(k)'
    BY DEF HandlerFile, HandlerAt, Withdraws, Cleaning
  <2> QED
    BY <2>2, <2>3, <2>4, <2>5, <2>6, <2>7, <2>8, <2>9 DEF HandlerInv
<1> QED
  BY <1>9, <1>11, <1>12, <1>13, <1>14, <1>15, <1>16, <1>17 DEF SignInInv

\* BeginLogin keeps SignInInv when the backend admits the worker.
LEMMA SignInBeginLoginKeeps ==
  ASSUME SignInInv, SignInAssumption, NEW o \in Op, BeginLogin(o), Admitted(o, "prepared")
  PROVE  SignInInv'
<1>1. /\ TypeOK /\ ActiveIsOpen /\ PairInv /\ SlotInv /\ DownInv /\ FileInv
      /\ \A p \in Op : /\ OpAt(p) /\ OpPending(p) /\ OpSlot(p) /\ OpPhase(p)
                       /\ OpPresent(p) /\ OpFile(p) /\ OpLeaves(p)
      /\ \A k \in Handler : /\ HandlerAt(k) /\ HandlerLease(k) /\ HandlerSignsOut(k)
                            /\ HandlerSlot(k) /\ HandlerNeeds(k) /\ HandlerMarks(k)
                            /\ HandlerPresent(k) /\ HandlerFile(k)
  BY DEF SignInInv, OpInv, HandlerInv
<1>2. /\ conn.active \in Op \cup {Nobody} /\ (phase # Nobody => phase.op \in Op)
      /\ \A x \in Op \cup Handler : target[x] \in Op \cup {Nobody}
      /\ \A k \in Handler : k \notin Op /\ k # Nobody
      /\ \A p \in Op : p # Nobody
      /\ \A k \in Handler :
           /\ handler[k].kind \in {"none", "cancel", "disable", "close", "logout", "delete"}
           /\ handler[k].pc \in Cleaning =>
                /\ handler[k].kind \in {"cancel", "disable", "close", "logout", "delete"}
                /\ handler[k].kind # "delete" => handler[k].op \in Op /\ op[handler[k].op] # Nobody
  BY SignInApart, SignInWithdrawers, SignInTyped
<1>3. UNCHANGED <<conn, op, lease, phase, poisoned, file, alive, life, target, handler, told, breaks>>
  BY DEF BeginLogin, registered, backend, server
<1>4. worker[o] = "login" /\ alive # "down" /\ op[o] # Nobody
  BY <1>1 DEF BeginLogin, At, Running, OpAt
<1>5. /\ worker' \in [Op -> WorkerType] /\ worker'[o] = "session"
      /\ \A p \in Op \ {o} : worker'[p] = worker[p]
  BY <1>1, SignInGoIs DEF BeginLogin, WorkerType
<1>6. /\ slot = Nobody /\ slot' \in SlotType /\ slot' # Nobody
      /\ slot'.kind = "auth" /\ slot'.by = o /\ slot'.stop = FALSE
      /\ phase # Nobody /\ phase.op = o /\ phase.at = "prepared"
  BY SignInSlotIs DEF BeginLogin, Admitted
<1> USE <1>1, <1>2, <1>3, <1>4, <1>5, <1>6
<1>7. TypeOK'
  BY DEF TypeOK
<1>8. SignOutCancelled => SignOutCancelled'
  BY DEF SignOutCancelled, UnderWay
<1>9. ActiveIsOpen'
  BY <1>8 DEF ActiveIsOpen, Open
<1>10. PairInv'
  BY <1>8 DEF PairInv, Withdraws, Cleaning, HandlerSignsOut, HandlerAt, Idle
<1>11. SlotInv'
  BY <1>8 DEF SlotInv, UnderWay, HandlerSlot, OpSlot
<1>12. DownInv'
  BY <1>8 DEF DownInv, Running
<1>13. FileInv'
  BY <1>8
    DEF FileInv, ShownSessionExists, SessionHasCredential, NoSilentCredential,
        AssumedForAReason, Open, UnderWay, Running, ActiveIsOpen, Unseen
<1>14. ASSUME NEW p \in Op PROVE OpInv(p)'
  <2>1. OpAt(p) /\ OpPending(p) /\ OpSlot(p) /\ OpPhase(p)
      /\ OpPresent(p) /\ OpFile(p) /\ OpLeaves(p)
    BY <1>1
  <2> USE <1>14, <2>1, <1>8
  <2>2. OpAt(p)'
    BY DEF OpAt, LoginSteps, LeavingSteps, UnderWay
  <2>3. OpPending(p)'
    BY DEF OpPending, Matches, UnderWay
  <2>4. OpSlot(p)'
    BY DEF OpSlot, Generation
  <2>5. OpPhase(p)'
    BY DEF OpPhase, SigningIn, UnderWay
  <2>6. OpPresent(p)'
    BY DEF OpPresent, OpSlot, Unseen
  <2>7. OpFile(p)'
    BY DEF OpFile, OpPhase, SigningIn, UnderWay, Accounted, Unlooked
  <2>8. OpLeaves(p)'
    BY DEF OpLeaves, LeavingSteps, Past, UnderWay, Generation
  <2> QED
    BY <2>2, <2>3, <2>4, <2>5, <2>6, <2>7, <2>8 DEF OpInv
<1>15. ASSUME NEW k \in Handler PROVE HandlerInv(k)'
  <2>1. HandlerAt(k) /\ HandlerLease(k) /\ HandlerSignsOut(k) /\ HandlerSlot(k)
      /\ HandlerNeeds(k) /\ HandlerMarks(k) /\ HandlerPresent(k) /\ HandlerFile(k)
    BY <1>1
  <2> USE <1>15, <2>1, <1>8
  <2>2. HandlerAt(k)'
    BY DEF HandlerAt, Withdraws, SigningOut, Cleaning, Idle, UnderWay
  <2>3. HandlerLease(k)'
    BY DEF HandlerLease, Withdraws, UnderWay
  <2>4. HandlerSignsOut(k)'
    BY DEF HandlerSignsOut, Cleaning, UnderWay
  <2>5. HandlerSlot(k)'
    BY DEF HandlerSlot, Target, SigningOut, Cleaning, Generation, Past, UnderWay
  <2>6. HandlerNeeds(k)'
    BY DEF HandlerNeeds, Withdraws, SigningOut, Cleaning
  <2>7. HandlerMarks(k)'
    BY DEF HandlerMarks, SigningOut, Cleaning
  <2>8. HandlerPresent(k)'
    BY DEF HandlerPresent, HandlerAt, Withdraws, SigningOut, Unseen, Cleaning
  <2>9. HandlerFile(k)'
    BY DEF HandlerFile, HandlerAt, Withdraws, Cleaning
  <2> QED
    BY <2>2, <2>3, <2>4, <2>5, <2>6, <2>7, <2>8, <2>9 DEF HandlerInv
<1> QED
  BY <1>7, <1>9, <1>10, <1>11, <1>12, <1>13, <1>14, <1>15 DEF SignInInv

\* EndSession keeps SignInInv.
LEMMA SignInEndSessionKeeps ==
  ASSUME SignInInv, SignInAssumption, NEW o \in Op, NEW failed \in BOOLEAN,
         NEW result \in {"cancelled", "rejected", "skipped", "dropped"}, EndSession(o, result, failed)
  PROVE  SignInInv'
<1>1. /\ TypeOK /\ ActiveIsOpen /\ PairInv /\ SlotInv /\ DownInv /\ FileInv
      /\ \A p \in Op : /\ OpAt(p) /\ OpPending(p) /\ OpSlot(p) /\ OpPhase(p)
                       /\ OpPresent(p) /\ OpFile(p) /\ OpLeaves(p)
      /\ \A k \in Handler : /\ HandlerAt(k) /\ HandlerLease(k) /\ HandlerSignsOut(k)
                            /\ HandlerSlot(k) /\ HandlerNeeds(k) /\ HandlerMarks(k)
                            /\ HandlerPresent(k) /\ HandlerFile(k)
  BY DEF SignInInv, OpInv, HandlerInv
<1>2. /\ conn.active \in Op \cup {Nobody} /\ (phase # Nobody => phase.op \in Op)
      /\ \A x \in Op \cup Handler : target[x] \in Op \cup {Nobody}
      /\ \A k \in Handler : k \notin Op /\ k # Nobody
      /\ \A p \in Op : p # Nobody
      /\ \A k \in Handler :
           /\ handler[k].kind \in {"none", "cancel", "disable", "close", "logout", "delete"}
           /\ handler[k].pc \in Cleaning =>
                /\ handler[k].kind \in {"cancel", "disable", "close", "logout", "delete"}
                /\ handler[k].kind # "delete" => handler[k].op \in Op /\ op[handler[k].op] # Nobody
  BY SignInApart, SignInWithdrawers, SignInTyped
<1>3. UNCHANGED <<conn, op, lease, file, alive, life, target, handler, told>>
  BY DEF EndSession, Leave, registered, backend, server
<1>4. worker[o] = "session" /\ alive # "down" /\ op[o] # Nobody
  BY <1>1 DEF EndSession, At, Running, OpAt
<1>5. /\ slot # Nobody /\ slot.kind = "auth" /\ slot.by = o /\ op[o].action = "start"
      /\ phase # Nobody /\ phase.op = o /\ phase.at = "prepared" /\ ~conn.present
  BY <1>1, <1>4 DEF OpSlot, FileInv, OpAt, LoginSteps
<1>6. /\ worker' \in [Op -> WorkerType] /\ worker'[o] = result
      /\ \A p \in Op \ {o} : worker'[p] = worker[p]
  BY <1>1, SignInGoIs DEF EndSession, WorkerType
<1>7. /\ slot' = Nobody
      /\ phase' \in PhaseType /\ phase' # Nobody /\ phase'.op = o /\ phase'.at = "settled"
  BY <1>5, SignInApart DEF EndSession, Leave, PhaseType
<1>8. poisoned' \in BOOLEAN /\ breaks' \in 0 .. MaxBreaks
      /\ (breaks > 0 \/ failed => breaks' > 0)
  BY <1>1, SignInBreakIs DEF EndSession, TypeOK
<1>9. UnderWay(o) => ~file
  BY <1>1, <1>4, <1>5 DEF OpFile, SigningIn
<1>10. UnderWay(o) /\ alive = "up" /\ result = "skipped" => failed
  BY <1>1, <1>5 DEF EndSession, Stopped, Pending, OpPending, SlotInv
<1> USE <1>1, <1>2, <1>3, <1>4, <1>5, <1>6, <1>7, <1>8, <1>9, <1>10
<1>11. TypeOK'
  BY DEF TypeOK
<1>12. SignOutCancelled => SignOutCancelled'
  BY DEF SignOutCancelled, UnderWay
<1>13. ActiveIsOpen'
  BY <1>12 DEF ActiveIsOpen, Open
<1>14. PairInv'
  BY <1>12 DEF PairInv, Withdraws, Cleaning, HandlerSignsOut, HandlerAt, Idle
<1>15. SlotInv'
  BY <1>12 DEF SlotInv, UnderWay, HandlerSlot, OpSlot
<1>16. DownInv'
  BY <1>12 DEF DownInv, Running
<1>17. FileInv'
  BY <1>12
    DEF FileInv, ShownSessionExists, SessionHasCredential, NoSilentCredential,
        AssumedForAReason, Open, UnderWay, Running, ActiveIsOpen, Unseen
<1>18. ASSUME NEW p \in Op PROVE OpInv(p)'
  <2>1. OpAt(p) /\ OpPending(p) /\ OpSlot(p) /\ OpPhase(p)
      /\ OpPresent(p) /\ OpFile(p) /\ OpLeaves(p)
    BY <1>1
  <2> USE <1>18, <2>1, <1>12
  <2>2. OpAt(p)'
    BY DEF OpAt, LoginSteps, LeavingSteps, UnderWay
  <2>3. OpPending(p)'
    BY DEF OpPending, Matches, UnderWay
  <2>4. OpSlot(p)'
    BY DEF OpSlot, Generation
  <2>5. OpPhase(p)'
    BY DEF OpPhase, SigningIn, UnderWay
  <2>6. OpPresent(p)'
    BY DEF OpPresent, OpSlot, Unseen
  <2>7. OpFile(p)'
    BY DEF OpFile, OpPhase, SigningIn, UnderWay, Accounted, Unlooked
  <2>8. OpLeaves(p)'
    BY DEF OpLeaves, LeavingSteps, Past, UnderWay, Generation
  <2> QED
    BY <2>2, <2>3, <2>4, <2>5, <2>6, <2>7, <2>8 DEF OpInv
<1>19. ASSUME NEW k \in Handler PROVE HandlerInv(k)'
  <2>1. HandlerAt(k) /\ HandlerLease(k) /\ HandlerSignsOut(k) /\ HandlerSlot(k)
      /\ HandlerNeeds(k) /\ HandlerMarks(k) /\ HandlerPresent(k) /\ HandlerFile(k)
    BY <1>1
  <2> USE <1>19, <2>1, <1>12
  <2>2. HandlerAt(k)'
    BY DEF HandlerAt, Withdraws, SigningOut, Cleaning, Idle, UnderWay
  <2>3. HandlerLease(k)'
    BY DEF HandlerLease, Withdraws, UnderWay
  <2>4. HandlerSignsOut(k)'
    BY DEF HandlerSignsOut, Cleaning, UnderWay
  <2>5. HandlerSlot(k)'
    BY DEF HandlerSlot, Target, SigningOut, Cleaning, Generation, Past, UnderWay
  <2>6. HandlerNeeds(k)'
    BY DEF HandlerNeeds, Withdraws, SigningOut, Cleaning
  <2>7. HandlerMarks(k)'
    BY DEF HandlerMarks, SigningOut, Cleaning
  <2>8. HandlerPresent(k)'
    BY DEF HandlerPresent, HandlerAt, Withdraws, SigningOut, Unseen, Cleaning
  <2>9. HandlerFile(k)'
    BY DEF HandlerFile, HandlerAt, Withdraws, Cleaning
  <2> QED
    BY <2>2, <2>3, <2>4, <2>5, <2>6, <2>7, <2>8, <2>9 DEF HandlerInv
<1> QED
  BY <1>11, <1>13, <1>14, <1>15, <1>16, <1>17, <1>18, <1>19 DEF SignInInv

\* Install keeps SignInInv when the credential is in place.
LEMMA SignInInstallKeeps ==
  ASSUME SignInInv, SignInAssumption, NEW o \in Op, Install(o, TRUE)
  PROVE  SignInInv'
<1>1. /\ TypeOK /\ ActiveIsOpen /\ PairInv /\ SlotInv /\ DownInv /\ FileInv
      /\ \A p \in Op : /\ OpAt(p) /\ OpPending(p) /\ OpSlot(p) /\ OpPhase(p)
                       /\ OpPresent(p) /\ OpFile(p) /\ OpLeaves(p)
      /\ \A k \in Handler : /\ HandlerAt(k) /\ HandlerLease(k) /\ HandlerSignsOut(k)
                            /\ HandlerSlot(k) /\ HandlerNeeds(k) /\ HandlerMarks(k)
                            /\ HandlerPresent(k) /\ HandlerFile(k)
  BY DEF SignInInv, OpInv, HandlerInv
<1>2. /\ conn.active \in Op \cup {Nobody} /\ (phase # Nobody => phase.op \in Op)
      /\ \A x \in Op \cup Handler : target[x] \in Op \cup {Nobody}
      /\ \A k \in Handler : k \notin Op /\ k # Nobody
      /\ \A p \in Op : p # Nobody
      /\ \A k \in Handler :
           /\ handler[k].kind \in {"none", "cancel", "disable", "close", "logout", "delete"}
           /\ handler[k].pc \in Cleaning =>
                /\ handler[k].kind \in {"cancel", "disable", "close", "logout", "delete"}
                /\ handler[k].kind # "delete" => handler[k].op \in Op /\ op[handler[k].op] # Nobody
  BY SignInApart, SignInWithdrawers, SignInTyped
<1>3. UNCHANGED <<conn, op, lease, slot, phase, poisoned, alive, life, target, handler, told, breaks>>
  BY DEF Install, registered, backend, server
<1>4. worker[o] = "session" /\ alive # "down" /\ op[o] # Nobody
  BY <1>1 DEF Install, At, Running, OpAt
<1>5. alive = "up" /\ UnderWay(o)
  BY <1>4 DEF Install, Stopped, Pending, Matches, UnderWay
<1>6. /\ \A p \in Op \ {o} : ~UnderWay(p)
      /\ \A k \in Handler : ~Withdraws(k) /\ handler[k].kind \notin {"cancel", "disable", "delete"}
      /\ Matches(o) /\ conn.active = o /\ conn.exists
      /\ lease # Nobody /\ lease.token = o /\ lease.kind # "delete"
  BY <1>5, SignInPendAlone
<1>7. /\ slot # Nobody /\ slot.kind = "auth" /\ slot.by = o /\ op[o].action = "start"
      /\ phase # Nobody /\ phase.op = o /\ phase.at = "prepared" /\ ~conn.present
  BY <1>1, <1>4 DEF OpSlot, FileInv, OpAt, LoginSteps
<1>8. /\ worker' \in [Op -> WorkerType] /\ worker'[o] = "installed"
      /\ \A p \in Op \ {o} : worker'[p] = worker[p]
  BY <1>1, SignInGoIs DEF Install, WorkerType
<1>9. file' = TRUE
  BY DEF Install
<1> USE <1>1, <1>2, <1>3, <1>4, <1>5, <1>6, <1>7, <1>8, <1>9
<1>10. TypeOK'
  BY DEF TypeOK
<1>11. SignOutCancelled => SignOutCancelled'
  BY DEF SignOutCancelled, UnderWay
<1>12. ActiveIsOpen'
  BY <1>11 DEF ActiveIsOpen, Open
<1>13. PairInv'
  BY <1>11 DEF PairInv, Withdraws, Cleaning, HandlerSignsOut, HandlerAt, Idle
<1>14. SlotInv'
  BY <1>11 DEF SlotInv, UnderWay, HandlerSlot, OpSlot
<1>15. DownInv'
  BY <1>11 DEF DownInv, Running
<1>16. FileInv'
  BY <1>11
    DEF FileInv, ShownSessionExists, SessionHasCredential, NoSilentCredential,
        AssumedForAReason, Open, UnderWay, Running, ActiveIsOpen, Unseen
<1>17. ASSUME NEW p \in Op PROVE OpInv(p)'
  <2>1. OpAt(p) /\ OpPending(p) /\ OpSlot(p) /\ OpPhase(p)
      /\ OpPresent(p) /\ OpFile(p) /\ OpLeaves(p)
    BY <1>1
  <2> USE <1>17, <2>1, <1>11
  <2>2. OpAt(p)'
    BY DEF OpAt, LoginSteps, LeavingSteps, UnderWay
  <2>3. OpPending(p)'
    BY DEF OpPending, Matches, UnderWay
  <2>4. OpSlot(p)'
    BY DEF OpSlot, Generation
  <2>5. OpPhase(p)'
    BY DEF OpPhase, SigningIn, UnderWay
  <2>6. OpPresent(p)'
    BY DEF OpPresent, OpSlot, Unseen
  <2>7. OpFile(p)'
    BY DEF OpFile, OpPhase, SigningIn, UnderWay, Accounted, Unlooked
  <2>8. OpLeaves(p)'
    BY DEF OpLeaves, LeavingSteps, Past, UnderWay, Generation
  <2> QED
    BY <2>2, <2>3, <2>4, <2>5, <2>6, <2>7, <2>8 DEF OpInv
<1>18. ASSUME NEW k \in Handler PROVE HandlerInv(k)'
  <2>1. HandlerAt(k) /\ HandlerLease(k) /\ HandlerSignsOut(k) /\ HandlerSlot(k)
      /\ HandlerNeeds(k) /\ HandlerMarks(k) /\ HandlerPresent(k) /\ HandlerFile(k)
    BY <1>1
  <2> USE <1>18, <2>1, <1>11
  <2>2. HandlerAt(k)'
    BY DEF HandlerAt, Withdraws, SigningOut, Cleaning, Idle, UnderWay
  <2>3. HandlerLease(k)'
    BY DEF HandlerLease, Withdraws, UnderWay
  <2>4. HandlerSignsOut(k)'
    BY DEF HandlerSignsOut, Cleaning, UnderWay
  <2>5. HandlerSlot(k)'
    BY DEF HandlerSlot, Target, SigningOut, Cleaning, Generation, Past, UnderWay
  <2>6. HandlerNeeds(k)'
    BY DEF HandlerNeeds, Withdraws, SigningOut, Cleaning
  <2>7. HandlerMarks(k)'
    BY DEF HandlerMarks, SigningOut, Cleaning
  <2>8. HandlerPresent(k)'
    BY DEF HandlerPresent, HandlerAt, Withdraws, SigningOut, Unseen, Cleaning
  <2>9. HandlerFile(k)'
    BY DEF HandlerFile, HandlerAt, Withdraws, Cleaning
  <2> QED
    BY <2>2, <2>3, <2>4, <2>5, <2>6, <2>7, <2>8, <2>9 DEF HandlerInv
<1> QED
  BY <1>10, <1>12, <1>13, <1>14, <1>15, <1>16, <1>17, <1>18 DEF SignInInv

\* Install keeps SignInInv when its outcome is unsure.
LEMMA SignInInstallUnsureKeeps ==
  ASSUME SignInInv, SignInAssumption, NEW o \in Op, Install(o, FALSE)
  PROVE  SignInInv'
<1>1. /\ TypeOK /\ ActiveIsOpen /\ PairInv /\ SlotInv /\ DownInv /\ FileInv
      /\ \A p \in Op : /\ OpAt(p) /\ OpPending(p) /\ OpSlot(p) /\ OpPhase(p)
                       /\ OpPresent(p) /\ OpFile(p) /\ OpLeaves(p)
      /\ \A k \in Handler : /\ HandlerAt(k) /\ HandlerLease(k) /\ HandlerSignsOut(k)
                            /\ HandlerSlot(k) /\ HandlerNeeds(k) /\ HandlerMarks(k)
                            /\ HandlerPresent(k) /\ HandlerFile(k)
  BY DEF SignInInv, OpInv, HandlerInv
<1>2. /\ conn.active \in Op \cup {Nobody} /\ (phase # Nobody => phase.op \in Op)
      /\ \A x \in Op \cup Handler : target[x] \in Op \cup {Nobody}
      /\ \A k \in Handler : k \notin Op /\ k # Nobody
      /\ \A p \in Op : p # Nobody
      /\ \A k \in Handler :
           /\ handler[k].kind \in {"none", "cancel", "disable", "close", "logout", "delete"}
           /\ handler[k].pc \in Cleaning =>
                /\ handler[k].kind \in {"cancel", "disable", "close", "logout", "delete"}
                /\ handler[k].kind # "delete" => handler[k].op \in Op /\ op[handler[k].op] # Nobody
  BY SignInApart, SignInWithdrawers, SignInTyped
<1>3. UNCHANGED <<conn, op, lease, alive, life, target, handler>>
  BY DEF Install, Leave, registered, backend, server
<1>4. worker[o] = "session" /\ alive # "down" /\ op[o] # Nobody
  BY <1>1 DEF Install, At, Running, OpAt
<1>5. alive = "up" /\ UnderWay(o)
  BY <1>4 DEF Install, Stopped, Pending, Matches, UnderWay
<1>6. /\ \A p \in Op \ {o} : ~UnderWay(p)
      /\ \A k \in Handler : ~Withdraws(k) /\ handler[k].kind \notin {"cancel", "disable", "delete"}
      /\ Matches(o) /\ conn.active = o /\ conn.exists
      /\ lease # Nobody /\ lease.token = o /\ lease.kind # "delete"
  BY <1>5, SignInPendAlone
<1>7. /\ slot # Nobody /\ slot.kind = "auth" /\ slot.by = o /\ op[o].action = "start"
      /\ phase # Nobody /\ phase.op = o /\ phase.at = "prepared" /\ ~conn.present
  BY <1>1, <1>4 DEF OpSlot, FileInv, OpAt, LoginSteps
<1>8. \E pc \in {"resolve", "dropped"} : 
         /\ worker' \in [Op -> WorkerType] /\ worker'[o] = pc
         /\ \A p \in Op \ {o} : worker'[p] = worker[p]
  BY <1>1, SignInGoIs DEF Install, WorkerType
<1>9. /\ slot' = Nobody
      /\ phase' \in PhaseType /\ phase' # Nobody /\ phase'.op = o /\ phase'.at = "settled"
  BY <1>7, SignInApart DEF Install, Leave, PhaseType
<1>10. file' = TRUE /\ told' = TRUE /\ poisoned' = TRUE /\ breaks' \in 0 .. MaxBreaks /\ breaks' > 0
  BY <1>1, SignInBreakIs DEF Install
<1> USE <1>1, <1>2, <1>3, <1>4, <1>5, <1>6, <1>7, <1>8, <1>9, <1>10
<1>11. TypeOK'
  BY DEF TypeOK
<1>12. SignOutCancelled => SignOutCancelled'
  BY DEF SignOutCancelled, UnderWay
<1>13. ActiveIsOpen'
  BY <1>12 DEF ActiveIsOpen, Open
<1>14. PairInv'
  BY <1>12 DEF PairInv, Withdraws, Cleaning, HandlerSignsOut, HandlerAt, Idle
<1>15. SlotInv'
  BY <1>12 DEF SlotInv, UnderWay, HandlerSlot, OpSlot
<1>16. DownInv'
  BY <1>12 DEF DownInv, Running
<1>17. FileInv'
  BY <1>12
    DEF FileInv, ShownSessionExists, SessionHasCredential, NoSilentCredential,
        AssumedForAReason, Open, UnderWay, Running, ActiveIsOpen, Unseen
<1>18. ASSUME NEW p \in Op PROVE OpInv(p)'
  <2>1. OpAt(p) /\ OpPending(p) /\ OpSlot(p) /\ OpPhase(p)
      /\ OpPresent(p) /\ OpFile(p) /\ OpLeaves(p)
    BY <1>1
  <2> USE <1>18, <2>1, <1>12
  <2>2. OpAt(p)'
    BY DEF OpAt, LoginSteps, LeavingSteps, UnderWay
  <2>3. OpPending(p)'
    BY DEF OpPending, Matches, UnderWay
  <2>4. OpSlot(p)'
    BY DEF OpSlot, Generation
  <2>5. OpPhase(p)'
    BY DEF OpPhase, SigningIn, UnderWay
  <2>6. OpPresent(p)'
    BY DEF OpPresent, OpSlot, Unseen
  <2>7. OpFile(p)'
    BY DEF OpFile, OpPhase, SigningIn, UnderWay, Accounted, Unlooked
  <2>8. OpLeaves(p)'
    BY DEF OpLeaves, LeavingSteps, Past, UnderWay, Generation
  <2> QED
    BY <2>2, <2>3, <2>4, <2>5, <2>6, <2>7, <2>8 DEF OpInv
<1>19. ASSUME NEW k \in Handler PROVE HandlerInv(k)'
  <2>1. HandlerAt(k) /\ HandlerLease(k) /\ HandlerSignsOut(k) /\ HandlerSlot(k)
      /\ HandlerNeeds(k) /\ HandlerMarks(k) /\ HandlerPresent(k) /\ HandlerFile(k)
    BY <1>1
  <2> USE <1>19, <2>1, <1>12
  <2>2. HandlerAt(k)'
    BY DEF HandlerAt, Withdraws, SigningOut, Cleaning, Idle, UnderWay
  <2>3. HandlerLease(k)'
    BY DEF HandlerLease, Withdraws, UnderWay
  <2>4. HandlerSignsOut(k)'
    BY DEF HandlerSignsOut, Cleaning, UnderWay
  <2>5. HandlerSlot(k)'
    BY DEF HandlerSlot, Target, SigningOut, Cleaning, Generation, Past, UnderWay
  <2>6. HandlerNeeds(k)'
    BY DEF HandlerNeeds, Withdraws, SigningOut, Cleaning
  <2>7. HandlerMarks(k)'
    BY DEF HandlerMarks, SigningOut, Cleaning
  <2>8. HandlerPresent(k)'
    BY DEF HandlerPresent, HandlerAt, Withdraws, SigningOut, Unseen, Cleaning
  <2>9. HandlerFile(k)'
    BY DEF HandlerFile, HandlerAt, Withdraws, Cleaning
  <2> QED
    BY <2>2, <2>3, <2>4, <2>5, <2>6, <2>7, <2>8, <2>9 DEF HandlerInv
<1> QED
  BY <1>11, <1>13, <1>14, <1>15, <1>16, <1>17, <1>18, <1>19 DEF SignInInv

\* EndInstall keeps SignInInv.
LEMMA SignInEndInstallKeeps ==
  ASSUME SignInInv, SignInAssumption, NEW o \in Op, NEW result \in {"committed", "cancelled", "dropped"}, EndInstall(o, result)
  PROVE  SignInInv'
<1>1. /\ TypeOK /\ ActiveIsOpen /\ PairInv /\ SlotInv /\ DownInv /\ FileInv
      /\ \A p \in Op : /\ OpAt(p) /\ OpPending(p) /\ OpSlot(p) /\ OpPhase(p)
                       /\ OpPresent(p) /\ OpFile(p) /\ OpLeaves(p)
      /\ \A k \in Handler : /\ HandlerAt(k) /\ HandlerLease(k) /\ HandlerSignsOut(k)
                            /\ HandlerSlot(k) /\ HandlerNeeds(k) /\ HandlerMarks(k)
                            /\ HandlerPresent(k) /\ HandlerFile(k)
  BY DEF SignInInv, OpInv, HandlerInv
<1>2. /\ conn.active \in Op \cup {Nobody} /\ (phase # Nobody => phase.op \in Op)
      /\ \A x \in Op \cup Handler : target[x] \in Op \cup {Nobody}
      /\ \A k \in Handler : k \notin Op /\ k # Nobody
      /\ \A p \in Op : p # Nobody
      /\ \A k \in Handler :
           /\ handler[k].kind \in {"none", "cancel", "disable", "close", "logout", "delete"}
           /\ handler[k].pc \in Cleaning =>
                /\ handler[k].kind \in {"cancel", "disable", "close", "logout", "delete"}
                /\ handler[k].kind # "delete" => handler[k].op \in Op /\ op[handler[k].op] # Nobody
  BY SignInApart, SignInWithdrawers, SignInTyped
<1>3. UNCHANGED <<conn, op, lease, alive, life, target, handler>>
  BY DEF EndInstall, Leave, registered, backend, server
<1>4. worker[o] = "installed" /\ alive # "down" /\ op[o] # Nobody
  BY <1>1 DEF EndInstall, At, Running, OpAt
<1>5. /\ slot # Nobody /\ slot.kind = "auth" /\ slot.by = o /\ op[o].action = "start"
      /\ phase # Nobody /\ phase.op = o /\ phase.at = "prepared" /\ ~conn.present
  BY <1>1, <1>4 DEF OpSlot, FileInv, OpAt, LoginSteps
<1>6. /\ worker' \in [Op -> WorkerType] /\ worker'[o] = result
      /\ \A p \in Op \ {o} : worker'[p] = worker[p]
  BY <1>1, SignInGoIs DEF EndInstall, WorkerType
<1>7. /\ slot' = Nobody
      /\ phase' \in PhaseType /\ phase' # Nobody /\ phase'.op = o /\ phase'.at = "settled"
  BY <1>5, SignInApart DEF EndInstall, Leave, PhaseType
<1>8. /\ poisoned' \in BOOLEAN /\ file' \in BOOLEAN /\ told' \in BOOLEAN
      /\ breaks' \in 0 .. MaxBreaks /\ (breaks > 0 => breaks' > 0)
      /\ (file' => file) /\ (told => told')
      /\ result = "committed" => alive = "up" /\ file' = file
      /\ result = "cancelled" => ~file'
      /\ result = "dropped" => told' 
  <2>1. file \in BOOLEAN /\ told \in BOOLEAN /\ poisoned \in BOOLEAN /\ breaks \in 0 .. MaxBreaks
    BY <1>1 DEF TypeOK
  <2>2. CASE result = "committed"
    BY <2>1, <2>2 DEF EndInstall, Stopped, Pending
  <2>3. CASE result = "cancelled"
    <3>1. UNCHANGED breaks \/ Break
      BY <2>3 DEF EndInstall
    <3>2. file' = FALSE /\ poisoned' = poisoned /\ told' = told
      BY <2>3 DEF EndInstall
    <3> QED
      BY <1>1, <2>1, <2>3, <3>1, <3>2, SignInBreakIs
  <2>4. CASE result = "dropped"
    <3>1. Break /\ poisoned' = TRUE /\ told' = TRUE /\ file' \in {file, FALSE}
      BY <2>4 DEF EndInstall
    <3>2. file' \in BOOLEAN /\ (file' => file)
      <4>1. CASE file' = file
        BY <2>1, <4>1
      <4>2. CASE file' = FALSE
        BY <4>2
      <4> QED
        BY <3>1, <4>1, <4>2
    <3>3. breaks' \in 0 .. MaxBreaks /\ breaks' > 0
      BY <1>1, <3>1, SignInBreakIs
    <3> QED
      BY <2>4, <3>1, <3>2, <3>3
  <2> QED
    BY <2>2, <2>3, <2>4
<1> USE <1>1, <1>2, <1>3, <1>4, <1>5, <1>6, <1>7, <1>8
<1>9. TypeOK'
  BY DEF TypeOK
<1>10. SignOutCancelled => SignOutCancelled'
  BY DEF SignOutCancelled, UnderWay
<1>11. ActiveIsOpen'
  BY <1>10 DEF ActiveIsOpen, Open
<1>12. PairInv'
  BY <1>10 DEF PairInv, Withdraws, Cleaning, HandlerSignsOut, HandlerAt, Idle
<1>13. SlotInv'
  BY <1>10 DEF SlotInv, UnderWay, HandlerSlot, OpSlot
<1>14. DownInv'
  BY <1>10 DEF DownInv, Running
<1>15. FileInv'
  BY <1>10
    DEF FileInv, ShownSessionExists, SessionHasCredential, NoSilentCredential,
        AssumedForAReason, Open, UnderWay, Running, ActiveIsOpen, Unseen
<1>16. ASSUME NEW p \in Op PROVE OpInv(p)'
  <2>1. OpAt(p) /\ OpPending(p) /\ OpSlot(p) /\ OpPhase(p)
      /\ OpPresent(p) /\ OpFile(p) /\ OpLeaves(p)
    BY <1>1
  <2> USE <1>16, <2>1, <1>10
  <2>2. OpAt(p)'
    BY DEF OpAt, LoginSteps, LeavingSteps, UnderWay
  <2>3. OpPending(p)'
    BY DEF OpPending, Matches, UnderWay
  <2>4. OpSlot(p)'
    BY DEF OpSlot, Generation
  <2>5. OpPhase(p)'
    BY DEF OpPhase, SigningIn, UnderWay
  <2>6. OpPresent(p)'
    BY DEF OpPresent, OpSlot, Unseen
  <2>7. OpFile(p)'
    BY DEF OpFile, OpPhase, SigningIn, UnderWay, Accounted, Unlooked
  <2>8. OpLeaves(p)'
    BY DEF OpLeaves, LeavingSteps, Past, UnderWay, Generation
  <2> QED
    BY <2>2, <2>3, <2>4, <2>5, <2>6, <2>7, <2>8 DEF OpInv
<1>17. ASSUME NEW k \in Handler PROVE HandlerInv(k)'
  <2>1. HandlerAt(k) /\ HandlerLease(k) /\ HandlerSignsOut(k) /\ HandlerSlot(k)
      /\ HandlerNeeds(k) /\ HandlerMarks(k) /\ HandlerPresent(k) /\ HandlerFile(k)
    BY <1>1
  <2> USE <1>17, <2>1, <1>10
  <2>2. HandlerAt(k)'
    BY DEF HandlerAt, Withdraws, SigningOut, Cleaning, Idle, UnderWay
  <2>3. HandlerLease(k)'
    BY DEF HandlerLease, Withdraws, UnderWay
  <2>4. HandlerSignsOut(k)'
    BY DEF HandlerSignsOut, Cleaning, UnderWay
  <2>5. HandlerSlot(k)'
    BY DEF HandlerSlot, Target, SigningOut, Cleaning, Generation, Past, UnderWay
  <2>6. HandlerNeeds(k)'
    BY DEF HandlerNeeds, Withdraws, SigningOut, Cleaning
  <2>7. HandlerMarks(k)'
    BY DEF HandlerMarks, SigningOut, Cleaning
  <2>8. HandlerPresent(k)'
    BY DEF HandlerPresent, HandlerAt, Withdraws, SigningOut, Unseen, Cleaning
  <2>9. HandlerFile(k)'
    BY DEF HandlerFile, HandlerAt, Withdraws, Cleaning
  <2> QED
    BY <2>2, <2>3, <2>4, <2>5, <2>6, <2>7, <2>8, <2>9 DEF HandlerInv
<1> QED
  BY <1>9, <1>11, <1>12, <1>13, <1>14, <1>15, <1>16, <1>17 DEF SignInInv

\* Finish keeps SignInInv when its operation is no longer pending.
LEMMA SignInFinishLateKeeps ==
  ASSUME SignInInv, SignInAssumption, NEW o \in Op, Finish(o, TRUE), op[o].state # "pending"
  PROVE  SignInInv'
<1>1. /\ TypeOK /\ ActiveIsOpen /\ PairInv /\ SlotInv /\ DownInv /\ FileInv
      /\ \A p \in Op : /\ OpAt(p) /\ OpPending(p) /\ OpSlot(p) /\ OpPhase(p)
                       /\ OpPresent(p) /\ OpFile(p) /\ OpLeaves(p)
      /\ \A k \in Handler : /\ HandlerAt(k) /\ HandlerLease(k) /\ HandlerSignsOut(k)
                            /\ HandlerSlot(k) /\ HandlerNeeds(k) /\ HandlerMarks(k)
                            /\ HandlerPresent(k) /\ HandlerFile(k)
  BY DEF SignInInv, OpInv, HandlerInv
<1>2. /\ conn.active \in Op \cup {Nobody} /\ (phase # Nobody => phase.op \in Op)
      /\ \A x \in Op \cup Handler : target[x] \in Op \cup {Nobody}
      /\ \A k \in Handler : k \notin Op /\ k # Nobody
      /\ \A p \in Op : p # Nobody
      /\ \A k \in Handler :
           /\ handler[k].kind \in {"none", "cancel", "disable", "close", "logout", "delete"}
           /\ handler[k].pc \in Cleaning =>
                /\ handler[k].kind \in {"cancel", "disable", "close", "logout", "delete"}
                /\ handler[k].kind # "delete" => handler[k].op \in Op /\ op[handler[k].op] # Nobody
  BY SignInApart, SignInWithdrawers, SignInTyped
<1>3. UNCHANGED <<conn, op, slot, phase, poisoned, file, alive, life, target, handler, told, breaks>>
  BY DEF Finish, registered, backend, server
<1>4. worker[o] \in {"committed", "skipped", "cancelled", "rejected", "unstarted"}
      /\ alive # "down" /\ op[o] # Nobody
  BY <1>1 DEF Finish, Running, OpAt
<1>5. /\ worker' \in [Op -> WorkerType] /\ worker'[o] = "done"
      /\ \A p \in Op \ {o} : worker'[p] = worker[p]
  BY <1>1, SignInGoIs DEF Finish, WorkerType
<1>6. /\ lease' \in LeaseType \cup {Nobody} /\ (lease' = Nobody \/ lease' = lease)
      /\ lease # Nobody /\ lease.token # o => lease' = lease
      /\ lease # Nobody /\ lease.token = o => lease' = Nobody
  BY <1>1, SignInFreeIs DEF Finish
<1>7. ~UnderWay(o)
  BY DEF UnderWay
<1> USE <1>1, <1>2, <1>3, <1>4, <1>5, <1>6, <1>7
<1>8. TypeOK'
  BY DEF TypeOK
<1>9. SignOutCancelled => SignOutCancelled'
  BY DEF SignOutCancelled, UnderWay
<1>10. ActiveIsOpen'
  BY <1>9 DEF ActiveIsOpen, Open
<1>11. PairInv'
  BY <1>9 DEF PairInv, Withdraws, Cleaning, HandlerSignsOut, HandlerAt, Idle
<1>12. SlotInv'
  BY <1>9 DEF SlotInv, UnderWay, HandlerSlot, OpSlot
<1>13. DownInv'
  BY <1>9 DEF DownInv, Running
<1>14. FileInv'
  BY <1>9
    DEF FileInv, ShownSessionExists, SessionHasCredential, NoSilentCredential,
        AssumedForAReason, Open, UnderWay, Running, ActiveIsOpen, Unseen
<1>15. ASSUME NEW p \in Op PROVE OpInv(p)'
  <2>1. OpAt(p) /\ OpPending(p) /\ OpSlot(p) /\ OpPhase(p)
      /\ OpPresent(p) /\ OpFile(p) /\ OpLeaves(p)
    BY <1>1
  <2> USE <1>15, <2>1, <1>9
  <2>2. OpAt(p)'
    BY DEF OpAt, LoginSteps, LeavingSteps, UnderWay
  <2>3. OpPending(p)'
    BY DEF OpPending, Matches, UnderWay
  <2>4. OpSlot(p)'
    BY DEF OpSlot, Generation
  <2>5. OpPhase(p)'
    BY DEF OpPhase, SigningIn, UnderWay
  <2>6. OpPresent(p)'
    BY DEF OpPresent, OpSlot, Unseen
  <2>7. OpFile(p)'
    BY DEF OpFile, OpPhase, SigningIn, UnderWay, Accounted, Unlooked
  <2>8. OpLeaves(p)'
    BY DEF OpLeaves, LeavingSteps, Past, UnderWay, Generation
  <2> QED
    BY <2>2, <2>3, <2>4, <2>5, <2>6, <2>7, <2>8 DEF OpInv
<1>16. ASSUME NEW k \in Handler PROVE HandlerInv(k)'
  <2>1. HandlerAt(k) /\ HandlerLease(k) /\ HandlerSignsOut(k) /\ HandlerSlot(k)
      /\ HandlerNeeds(k) /\ HandlerMarks(k) /\ HandlerPresent(k) /\ HandlerFile(k)
    BY <1>1
  <2> USE <1>16, <2>1, <1>9
  <2>2. HandlerAt(k)'
    BY DEF HandlerAt, Withdraws, SigningOut, Cleaning, Idle, UnderWay
  <2>3. HandlerLease(k)'
    BY DEF HandlerLease, Withdraws, UnderWay
  <2>4. HandlerSignsOut(k)'
    BY DEF HandlerSignsOut, Cleaning, UnderWay
  <2>5. HandlerSlot(k)'
    BY DEF HandlerSlot, Target, SigningOut, Cleaning, Generation, Past, UnderWay
  <2>6. HandlerNeeds(k)'
    BY DEF HandlerNeeds, Withdraws, SigningOut, Cleaning
  <2>7. HandlerMarks(k)'
    BY DEF HandlerMarks, SigningOut, Cleaning
  <2>8. HandlerPresent(k)'
    BY DEF HandlerPresent, HandlerAt, Withdraws, SigningOut, Unseen, Cleaning
  <2>9. HandlerFile(k)'
    BY DEF HandlerFile, HandlerAt, Withdraws, Cleaning
  <2> QED
    BY <2>2, <2>3, <2>4, <2>5, <2>6, <2>7, <2>8, <2>9 DEF HandlerInv
<1> QED
  BY <1>8, <1>10, <1>11, <1>12, <1>13, <1>14, <1>15, <1>16 DEF SignInInv

\* Finish keeps SignInInv when its server closes.
LEMMA SignInFinishUnknownKeeps ==
  ASSUME SignInInv, SignInAssumption, NEW o \in Op, Finish(o, TRUE), op[o].state = "pending", alive # "up"
  PROVE  SignInInv'
<1>1. /\ TypeOK /\ ActiveIsOpen /\ PairInv /\ SlotInv /\ DownInv /\ FileInv
      /\ \A p \in Op : /\ OpAt(p) /\ OpPending(p) /\ OpSlot(p) /\ OpPhase(p)
                       /\ OpPresent(p) /\ OpFile(p) /\ OpLeaves(p)
      /\ \A k \in Handler : /\ HandlerAt(k) /\ HandlerLease(k) /\ HandlerSignsOut(k)
                            /\ HandlerSlot(k) /\ HandlerNeeds(k) /\ HandlerMarks(k)
                            /\ HandlerPresent(k) /\ HandlerFile(k)
  BY DEF SignInInv, OpInv, HandlerInv
<1>2. /\ conn.active \in Op \cup {Nobody} /\ (phase # Nobody => phase.op \in Op)
      /\ \A x \in Op \cup Handler : target[x] \in Op \cup {Nobody}
      /\ \A k \in Handler : k \notin Op /\ k # Nobody
      /\ \A p \in Op : p # Nobody
      /\ \A k \in Handler :
           /\ handler[k].kind \in {"none", "cancel", "disable", "close", "logout", "delete"}
           /\ handler[k].pc \in Cleaning =>
                /\ handler[k].kind \in {"cancel", "disable", "close", "logout", "delete"}
                /\ handler[k].kind # "delete" => handler[k].op \in Op /\ op[handler[k].op] # Nobody
  BY SignInApart, SignInWithdrawers, SignInTyped
<1>3. UNCHANGED <<conn, slot, phase, poisoned, file, alive, life, target, handler, told, breaks>>
  BY DEF Finish, registered, backend, server
<1>4. worker[o] \in {"committed", "skipped", "cancelled", "rejected", "unstarted"}
      /\ alive # "down" /\ op[o] # Nobody
  BY <1>1 DEF Finish, Running, OpAt
<1>5. /\ worker' \in [Op -> WorkerType] /\ worker'[o] = "done"
      /\ \A p \in Op \ {o} : worker'[p] = worker[p]
  BY <1>1, SignInGoIs DEF Finish, WorkerType
<1>6. UnderWay(o)
  BY <1>4 DEF UnderWay
<1>7. /\ \A p \in Op \ {o} : ~UnderWay(p)
      /\ \A k \in Handler : ~Withdraws(k) /\ handler[k].kind \notin {"cancel", "disable", "delete"}
      /\ Matches(o) /\ conn.active = o /\ conn.exists
      /\ lease # Nobody /\ lease.token = o /\ lease.kind # "delete"
  BY <1>6, SignInPendAlone
<1>8. /\ lease' \in LeaseType \cup {Nobody} /\ (lease' = Nobody \/ lease' = lease)
      /\ lease # Nobody /\ lease.token # o => lease' = lease
      /\ lease # Nobody /\ lease.token = o => lease' = Nobody
  BY <1>1, SignInFreeIs DEF Finish
<1>9. /\ op' \in [Op -> OpType \cup {Nobody}] /\ op'[o] # Nobody /\ op'[o].state = "unknown"
      /\ op'[o].action = op[o].action /\ op'[o].life = op[o].life
      /\ op'[o].revision = op[o].revision
      /\ \A p \in Op \ {o} : op'[p] = op[p]
  BY <1>1, <1>4, SignInStateIs DEF Finish
<1> USE <1>1, <1>2, <1>3, <1>4, <1>5, <1>6, <1>7, <1>8, <1>9
<1>10. TypeOK'
  BY DEF TypeOK
<1>11. SignOutCancelled => SignOutCancelled'
  BY DEF SignOutCancelled, UnderWay
<1>12. ActiveIsOpen'
  BY <1>11 DEF ActiveIsOpen, Open
<1>13. PairInv'
  BY <1>11 DEF PairInv, Withdraws, Cleaning, HandlerSignsOut, HandlerAt, Idle
<1>14. SlotInv'
  BY <1>11 DEF SlotInv, UnderWay, HandlerSlot, OpSlot
<1>15. DownInv'
  BY <1>11 DEF DownInv, Running
<1>16. FileInv'
  BY <1>11
    DEF FileInv, ShownSessionExists, SessionHasCredential, NoSilentCredential,
        AssumedForAReason, Open, UnderWay, Running, ActiveIsOpen, Unseen
<1>17. ASSUME NEW p \in Op PROVE OpInv(p)'
  <2>1. OpAt(p) /\ OpPending(p) /\ OpSlot(p) /\ OpPhase(p)
      /\ OpPresent(p) /\ OpFile(p) /\ OpLeaves(p)
    BY <1>1
  <2> USE <1>17, <2>1, <1>11
  <2>2. OpAt(p)'
    BY DEF OpAt, LoginSteps, LeavingSteps, UnderWay
  <2>3. OpPending(p)'
    BY DEF OpPending, Matches, UnderWay
  <2>4. OpSlot(p)'
    BY DEF OpSlot, Generation
  <2>5. OpPhase(p)'
    BY DEF OpPhase, SigningIn, UnderWay
  <2>6. OpPresent(p)'
    BY DEF OpPresent, OpSlot, Unseen
  <2>7. OpFile(p)'
    BY DEF OpFile, OpPhase, SigningIn, UnderWay, Accounted, Unlooked
  <2>8. OpLeaves(p)'
    BY DEF OpLeaves, LeavingSteps, Past, UnderWay, Generation
  <2> QED
    BY <2>2, <2>3, <2>4, <2>5, <2>6, <2>7, <2>8 DEF OpInv
<1>18. ASSUME NEW k \in Handler PROVE HandlerInv(k)'
  <2>1. HandlerAt(k) /\ HandlerLease(k) /\ HandlerSignsOut(k) /\ HandlerSlot(k)
      /\ HandlerNeeds(k) /\ HandlerMarks(k) /\ HandlerPresent(k) /\ HandlerFile(k)
    BY <1>1
  <2> USE <1>18, <2>1, <1>11
  <2>2. HandlerAt(k)'
    BY DEF HandlerAt, Withdraws, SigningOut, Cleaning, Idle, UnderWay
  <2>3. HandlerLease(k)'
    BY DEF HandlerLease, Withdraws, UnderWay
  <2>4. HandlerSignsOut(k)'
    BY DEF HandlerSignsOut, Cleaning, UnderWay
  <2>5. HandlerSlot(k)'
    BY DEF HandlerSlot, Target, SigningOut, Cleaning, Generation, Past, UnderWay
  <2>6. HandlerNeeds(k)'
    BY DEF HandlerNeeds, Withdraws, SigningOut, Cleaning
  <2>7. HandlerMarks(k)'
    BY DEF HandlerMarks, SigningOut, Cleaning
  <2>8. HandlerPresent(k)'
    BY DEF HandlerPresent, HandlerAt, Withdraws, SigningOut, Unseen, Cleaning
  <2>9. HandlerFile(k)'
    BY DEF HandlerFile, HandlerAt, Withdraws, Cleaning
  <2> QED
    BY <2>2, <2>3, <2>4, <2>5, <2>6, <2>7, <2>8, <2>9 DEF HandlerInv
<1> QED
  BY <1>10, <1>12, <1>13, <1>14, <1>15, <1>16, <1>17, <1>18 DEF SignInInv

\* Finish keeps SignInInv when its operation takes the outcome.
LEMMA SignInFinishTakesKeeps ==
  ASSUME SignInInv, SignInAssumption, NEW o \in Op, Finish(o, TRUE), op[o].state = "pending", alive = "up"
  PROVE  SignInInv'
<1>1. /\ TypeOK /\ ActiveIsOpen /\ PairInv /\ SlotInv /\ DownInv /\ FileInv
      /\ \A p \in Op : /\ OpAt(p) /\ OpPending(p) /\ OpSlot(p) /\ OpPhase(p)
                       /\ OpPresent(p) /\ OpFile(p) /\ OpLeaves(p)
      /\ \A k \in Handler : /\ HandlerAt(k) /\ HandlerLease(k) /\ HandlerSignsOut(k)
                            /\ HandlerSlot(k) /\ HandlerNeeds(k) /\ HandlerMarks(k)
                            /\ HandlerPresent(k) /\ HandlerFile(k)
  BY DEF SignInInv, OpInv, HandlerInv
<1>2. /\ conn.active \in Op \cup {Nobody} /\ (phase # Nobody => phase.op \in Op)
      /\ \A x \in Op \cup Handler : target[x] \in Op \cup {Nobody}
      /\ \A k \in Handler : k \notin Op /\ k # Nobody
      /\ \A p \in Op : p # Nobody
      /\ \A k \in Handler :
           /\ handler[k].kind \in {"none", "cancel", "disable", "close", "logout", "delete"}
           /\ handler[k].pc \in Cleaning =>
                /\ handler[k].kind \in {"cancel", "disable", "close", "logout", "delete"}
                /\ handler[k].kind # "delete" => handler[k].op \in Op /\ op[handler[k].op] # Nobody
  BY SignInApart, SignInWithdrawers, SignInTyped
<1>3. UNCHANGED <<slot, phase, poisoned, file, alive, life, target, handler, told, breaks>>
  BY DEF Finish, registered, backend, server
<1>4. worker[o] \in {"committed", "skipped", "cancelled", "rejected", "unstarted"}
      /\ alive # "down" /\ op[o] # Nobody
  BY <1>1 DEF Finish, Running, OpAt
<1>5. /\ worker' \in [Op -> WorkerType] /\ worker'[o] = "done"
      /\ \A p \in Op \ {o} : worker'[p] = worker[p]
  BY <1>1, SignInGoIs DEF Finish, WorkerType
<1>6. UnderWay(o)
  BY <1>4 DEF UnderWay
<1>7. /\ \A p \in Op \ {o} : ~UnderWay(p)
      /\ \A k \in Handler : ~Withdraws(k) /\ handler[k].kind \notin {"cancel", "disable", "delete"}
      /\ Matches(o) /\ conn.active = o /\ conn.exists
      /\ lease # Nobody /\ lease.token = o /\ lease.kind # "delete"
  BY <1>6, SignInPendAlone
<1>8. lease' = Nobody
  BY <1>1, <1>7, SignInFreeIs DEF Finish
<1>9. \E s \in {"succeeded", "failed", "cancelled"} :
         /\ s = "succeeded" <=> worker[o] \in {"committed", "skipped"}
         /\ op' \in [Op -> OpType \cup {Nobody}] /\ op'[o] # Nobody /\ op'[o].state = s
         /\ op'[o].action = op[o].action /\ \A p \in Op \ {o} : op'[p] = op[p]
         /\ conn' \in ConnectionType /\ conn'.exists = conn.exists
         /\ conn'.revision = conn.revision /\ conn'.enabled = conn.enabled
         /\ conn'.active = Nobody
         /\ conn'.present <=> s = "succeeded" /\ op[o].action = "start"
         /\ conn'.assumed <=> Unlooked(o)
  <2> DEFINE s == CASE worker[o] \in {"committed", "skipped"} -> "succeeded"
                  [] worker[o] = "rejected" -> "failed" [] OTHER -> "cancelled"
  <2>1. s \in {"succeeded", "failed", "cancelled"}
        /\ (s = "succeeded" <=> worker[o] \in {"committed", "skipped"})
    BY <1>4
  <2>2. State(o, s)
    BY <1>4, <1>7 DEF Finish
  <2>3. conn' = [conn EXCEPT !.active = Nobody,
                   !.present = s = "succeeded" /\ op[o].action = "start",
                   !.assumed = Unlooked(o)]
    BY <1>4, <1>7 DEF Finish
  <2>4. Unlooked(o) \in BOOLEAN /\ (s = "succeeded" /\ op[o].action = "start") \in BOOLEAN
    BY DEF Unlooked
  <2> HIDE DEF s
  <2>5. /\ op' \in [Op -> OpType \cup {Nobody}] /\ op'[o] # Nobody /\ op'[o].state = s
        /\ op'[o].action = op[o].action /\ \A p \in Op \ {o} : op'[p] = op[p]
    BY <1>1, <1>4, <2>1, <2>2, SignInStateIs
  <2>6. /\ conn' \in ConnectionType /\ conn'.exists = conn.exists
        /\ conn'.revision = conn.revision /\ conn'.enabled = conn.enabled
        /\ conn'.active = Nobody
        /\ conn'.present <=> s = "succeeded" /\ op[o].action = "start"
        /\ conn'.assumed <=> Unlooked(o)
    BY <1>1, <2>3, <2>4 DEF TypeOK, ConnectionType
  <2> QED
    BY <2>1, <2>5, <2>6
<1>10. op[o].action \in {"start", "logout"} /\ OpPhase(o) /\ OpFile(o) /\ OpAt(o)
  BY <1>1, <1>4 DEF TypeOK, OpType
<1>11. /\ op[o].action = "start" /\ worker[o] \in {"committed", "skipped"} =>
            phase # Nobody /\ phase.op = o /\ phase.at = "settled"
       /\ op[o].action = "start" /\ worker[o] = "committed" => file
       /\ op[o].action = "start" /\ worker[o] \in {"cancelled", "rejected"} => ~file
       /\ op[o].action = "logout" => worker[o] \in {"committed", "cancelled", "unstarted"}
       /\ op[o].action = "logout" /\ worker[o] = "committed" => ~file
       /\ Unlooked(o) => breaks > 0 \/ SignOutCancelled
  BY <1>4, <1>6, <1>10 DEF OpPhase, OpFile, OpAt, LoginSteps, SigningIn
<1>12. /\ conn'.active = Nobody
       /\ file => conn'.present \/ conn'.assumed
       /\ conn'.present => file \/ conn'.assumed
       /\ conn'.present => phase # Nobody /\ phase.op = o /\ phase.at = "settled"
       /\ conn'.exists /\ conn' \in ConnectionType
       /\ conn'.assumed => breaks > 0 \/ SignOutCancelled
       /\ op[o].action = "logout" => ~conn'.present
  BY <1>4, <1>7, <1>9, <1>10, <1>11 DEF Unlooked
<1>13. \A k \in Handler : handler[k].kind = "logout" => SignOutCancelled
  BY <1>1, <1>4, <1>6, <1>7 DEF HandlerSignsOut, SignOutCancelled, UnderWay
<1>14. \A k \in Handler : handler[k].kind # "close"
  BY <1>1 DEF HandlerLease
<1> USE <1>1, <1>2, <1>3, <1>4, <1>5, <1>6, <1>7, <1>8, <1>9, <1>10, <1>11, <1>12, <1>13, <1>14
<1>15. TypeOK'
  BY DEF TypeOK
<1>16. SignOutCancelled => SignOutCancelled'
  BY DEF SignOutCancelled, UnderWay
<1>17. ActiveIsOpen'
  BY <1>16 DEF ActiveIsOpen, Open
<1>18. PairInv'
  BY <1>16 DEF PairInv, Withdraws, Cleaning, HandlerSignsOut, HandlerAt, Idle
<1>19. SlotInv'
  BY <1>16 DEF SlotInv, UnderWay, HandlerSlot, OpSlot
<1>20. DownInv'
  BY <1>16 DEF DownInv, Running
<1>21. FileInv'
  BY <1>1, <1>3, <1>8, <1>11, <1>12, <1>16, <1>9, <1>2, <1>7
    DEF FileInv, ShownSessionExists, SessionHasCredential, NoSilentCredential,
        AssumedForAReason, UnderWay
<1>22. ASSUME NEW p \in Op PROVE OpInv(p)'
  <2>1. OpAt(p) /\ OpPending(p) /\ OpSlot(p) /\ OpPhase(p)
      /\ OpPresent(p) /\ OpFile(p) /\ OpLeaves(p)
    BY <1>1
  <2> USE <1>22, <2>1, <1>16
  <2>2. OpAt(p)'
    BY DEF OpAt, LoginSteps, LeavingSteps, UnderWay
  <2>3. OpPending(p)'
    BY DEF OpPending, Matches, UnderWay
  <2>4. OpSlot(p)'
    BY DEF OpSlot, Generation
  <2>5. OpPhase(p)'
    BY DEF OpPhase, SigningIn, UnderWay
  <2>6. OpPresent(p)'
    BY DEF OpPresent, OpSlot, Unseen
  <2>7. OpFile(p)'
    BY DEF OpFile, OpPhase, SigningIn, UnderWay, Accounted, Unlooked
  <2>8. OpLeaves(p)'
    BY DEF OpLeaves, LeavingSteps, Past, UnderWay, Generation
  <2> QED
    BY <2>2, <2>3, <2>4, <2>5, <2>6, <2>7, <2>8 DEF OpInv
<1>23. ASSUME NEW k \in Handler PROVE HandlerInv(k)'
  <2>1. HandlerAt(k) /\ HandlerLease(k) /\ HandlerSignsOut(k) /\ HandlerSlot(k)
      /\ HandlerNeeds(k) /\ HandlerMarks(k) /\ HandlerPresent(k) /\ HandlerFile(k)
    BY <1>1
  <2> USE <1>23, <2>1, <1>16
  <2>2. HandlerAt(k)'
    BY DEF HandlerAt, Withdraws, SigningOut, Cleaning, Idle, UnderWay
  <2>3. HandlerLease(k)'
    BY DEF HandlerLease, Withdraws, UnderWay
  <2>4. HandlerSignsOut(k)'
    BY DEF HandlerSignsOut, Cleaning, UnderWay
  <2>5. HandlerSlot(k)'
    BY DEF HandlerSlot, Target, SigningOut, Cleaning, Generation, Past, UnderWay
  <2>6. HandlerNeeds(k)'
    BY DEF HandlerNeeds, Withdraws, SigningOut, Cleaning
  <2>7. HandlerMarks(k)'
    BY DEF HandlerMarks, SigningOut, Cleaning
  <2>8. HandlerPresent(k)'
    BY DEF HandlerPresent, HandlerAt, Withdraws, SigningOut, Unseen, Cleaning
  <2>9. HandlerFile(k)'
    BY DEF HandlerFile, HandlerAt, Withdraws, Cleaning
  <2> QED
    BY <2>2, <2>3, <2>4, <2>5, <2>6, <2>7, <2>8, <2>9 DEF HandlerInv
<1> QED
  BY <1>15, <1>17, <1>18, <1>19, <1>20, <1>21, <1>22, <1>23 DEF SignInInv

\* Resolve keeps SignInInv when the outcome cannot be recorded.
LEMMA SignInResolveNotKeeps ==
  ASSUME SignInInv, SignInAssumption, NEW o \in Op, NEW cleared \in BOOLEAN, Resolve(o, cleared, FALSE), op[o].state \in {"pending", "succeeded"}
  PROVE  SignInInv'
<1>1. /\ TypeOK /\ ActiveIsOpen /\ PairInv /\ SlotInv /\ DownInv /\ FileInv
      /\ \A p \in Op : /\ OpAt(p) /\ OpPending(p) /\ OpSlot(p) /\ OpPhase(p)
                       /\ OpPresent(p) /\ OpFile(p) /\ OpLeaves(p)
      /\ \A k \in Handler : /\ HandlerAt(k) /\ HandlerLease(k) /\ HandlerSignsOut(k)
                            /\ HandlerSlot(k) /\ HandlerNeeds(k) /\ HandlerMarks(k)
                            /\ HandlerPresent(k) /\ HandlerFile(k)
  BY DEF SignInInv, OpInv, HandlerInv
<1>2. /\ conn.active \in Op \cup {Nobody} /\ (phase # Nobody => phase.op \in Op)
      /\ \A x \in Op \cup Handler : target[x] \in Op \cup {Nobody}
      /\ \A k \in Handler : k \notin Op /\ k # Nobody
      /\ \A p \in Op : p # Nobody
      /\ \A k \in Handler :
           /\ handler[k].kind \in {"none", "cancel", "disable", "close", "logout", "delete"}
           /\ handler[k].pc \in Cleaning =>
                /\ handler[k].kind \in {"cancel", "disable", "close", "logout", "delete"}
                /\ handler[k].kind # "delete" => handler[k].op \in Op /\ op[handler[k].op] # Nobody
  BY SignInApart, SignInWithdrawers, SignInTyped
<1>3. UNCHANGED <<conn, op, lease, slot, poisoned, alive, life, target, handler, told>>
  BY DEF Resolve, registered, backend, server
<1>4. worker[o] = "resolve" /\ alive # "down" /\ op[o] # Nobody /\ op[o].action = "start"
  BY <1>1 DEF Resolve, At, Running, OpAt, LoginSteps
<1>5. UnderWay(o)
  BY <1>1, <1>4 DEF UnderWay, OpAt
<1>6. /\ \A p \in Op \ {o} : ~UnderWay(p)
      /\ \A k \in Handler : ~Withdraws(k) /\ handler[k].kind \notin {"cancel", "disable", "delete"}
      /\ Matches(o) /\ conn.active = o /\ conn.exists
      /\ lease # Nobody /\ lease.token = o /\ lease.kind # "delete"
  BY <1>5, SignInPendAlone
<1>7. /\ conn.revision = op[o].revision /\ phase # Nobody /\ phase.op = o /\ phase.at = "settled"
      /\ Generation = o /\ ~conn.present
  BY <1>1, <1>4, <1>5, <1>6 DEF Matches, OpPhase, SigningIn, Generation, OpPresent
<1>8. /\ worker' \in [Op -> WorkerType] /\ worker'[o] = "done"
      /\ \A p \in Op \ {o} : worker'[p] = worker[p]
  BY <1>1, SignInGoIs DEF Resolve, WorkerType
<1>9. /\ breaks' \in 0 .. MaxBreaks /\ breaks' > 0 /\ file' \in BOOLEAN /\ (file' => file)
      /\ phase' \in {phase, Nobody} /\ (phase' # phase => slot = Nobody)
  <2>1. Break /\ file' \in {file, FALSE} /\ phase' \in {phase, Nobody} /\ (phase' # phase => slot = Nobody)
    BY DEF Resolve
  <2>2. breaks' \in 0 .. MaxBreaks /\ breaks' > 0
    BY <1>1, <2>1, SignInBreakIs
  <2>3. file' \in BOOLEAN /\ (file' => file)
    <3>1. CASE file' = file
      BY <1>1, <3>1 DEF TypeOK
    <3>2. CASE file' = FALSE
      BY <3>2
    <3> QED
      BY <2>1, <3>1, <3>2
  <2> QED
    BY <2>1, <2>2, <2>3
<1> USE <1>1, <1>2, <1>3, <1>4, <1>5, <1>6, <1>7, <1>8, <1>9
<1>10. TypeOK'
  BY DEF TypeOK
<1>11. SignOutCancelled => SignOutCancelled'
  BY DEF SignOutCancelled, UnderWay
<1>12. ActiveIsOpen'
  BY <1>11 DEF ActiveIsOpen, Open
<1>13. PairInv'
  BY <1>11 DEF PairInv, Withdraws, Cleaning, HandlerSignsOut, HandlerAt, Idle
<1>14. SlotInv'
  BY <1>11 DEF SlotInv, UnderWay, HandlerSlot, OpSlot
<1>15. DownInv'
  BY <1>11 DEF DownInv, Running
<1>16. FileInv'
  BY <1>11
    DEF FileInv, ShownSessionExists, SessionHasCredential, NoSilentCredential,
        AssumedForAReason, Open, UnderWay, Running, ActiveIsOpen, Unseen
<1>17. ASSUME NEW p \in Op PROVE OpInv(p)'
  <2>1. OpAt(p) /\ OpPending(p) /\ OpSlot(p) /\ OpPhase(p)
      /\ OpPresent(p) /\ OpFile(p) /\ OpLeaves(p)
    BY <1>1
  <2> USE <1>17, <2>1, <1>11
  <2>2. OpAt(p)'
    BY DEF OpAt, LoginSteps, LeavingSteps, UnderWay
  <2>3. OpPending(p)'
    BY DEF OpPending, Matches, UnderWay
  <2>4. OpSlot(p)'
    BY DEF OpSlot, Generation
  <2>5. OpPhase(p)'
    BY DEF OpPhase, SigningIn, UnderWay
  <2>6. OpPresent(p)'
    BY DEF OpPresent, OpSlot, Unseen
  <2>7. OpFile(p)'
    BY DEF OpFile, OpPhase, SigningIn, UnderWay, Accounted, Unlooked
  <2>8. OpLeaves(p)'
    BY DEF OpLeaves, LeavingSteps, Past, UnderWay, Generation
  <2> QED
    BY <2>2, <2>3, <2>4, <2>5, <2>6, <2>7, <2>8 DEF OpInv
<1>18. ASSUME NEW k \in Handler PROVE HandlerInv(k)'
  <2>1. HandlerAt(k) /\ HandlerLease(k) /\ HandlerSignsOut(k) /\ HandlerSlot(k)
      /\ HandlerNeeds(k) /\ HandlerMarks(k) /\ HandlerPresent(k) /\ HandlerFile(k)
    BY <1>1
  <2> USE <1>18, <2>1, <1>11
  <2>2. HandlerAt(k)'
    BY DEF HandlerAt, Withdraws, SigningOut, Cleaning, Idle, UnderWay
  <2>3. HandlerLease(k)'
    BY DEF HandlerLease, Withdraws, UnderWay
  <2>4. HandlerSignsOut(k)'
    BY DEF HandlerSignsOut, Cleaning, UnderWay
  <2>5. HandlerSlot(k)'
    BY DEF HandlerSlot, Target, SigningOut, Cleaning, Generation, Past, UnderWay
  <2>6. HandlerNeeds(k)'
    BY DEF HandlerNeeds, Withdraws, SigningOut, Cleaning
  <2>7. HandlerMarks(k)'
    BY DEF HandlerMarks, SigningOut, Cleaning
  <2>8. HandlerPresent(k)'
    BY DEF HandlerPresent, HandlerAt, Withdraws, SigningOut, Unseen, Cleaning
  <2>9. HandlerFile(k)'
    BY DEF HandlerFile, HandlerAt, Withdraws, Cleaning
  <2> QED
    BY <2>2, <2>3, <2>4, <2>5, <2>6, <2>7, <2>8, <2>9 DEF HandlerInv
<1> QED
  BY <1>10, <1>12, <1>13, <1>14, <1>15, <1>16, <1>17, <1>18 DEF SignInInv

\* Resolve keeps SignInInv when the outcome is recorded.
LEMMA SignInResolveKeeps ==
  ASSUME SignInInv, SignInAssumption, NEW o \in Op, NEW cleared \in BOOLEAN, Resolve(o, cleared, TRUE), op[o].state \in {"pending", "succeeded"}
  PROVE  SignInInv'
<1>1. /\ TypeOK /\ ActiveIsOpen /\ PairInv /\ SlotInv /\ DownInv /\ FileInv
      /\ \A p \in Op : /\ OpAt(p) /\ OpPending(p) /\ OpSlot(p) /\ OpPhase(p)
                       /\ OpPresent(p) /\ OpFile(p) /\ OpLeaves(p)
      /\ \A k \in Handler : /\ HandlerAt(k) /\ HandlerLease(k) /\ HandlerSignsOut(k)
                            /\ HandlerSlot(k) /\ HandlerNeeds(k) /\ HandlerMarks(k)
                            /\ HandlerPresent(k) /\ HandlerFile(k)
  BY DEF SignInInv, OpInv, HandlerInv
<1>2. /\ conn.active \in Op \cup {Nobody} /\ (phase # Nobody => phase.op \in Op)
      /\ \A x \in Op \cup Handler : target[x] \in Op \cup {Nobody}
      /\ \A k \in Handler : k \notin Op /\ k # Nobody
      /\ \A p \in Op : p # Nobody
      /\ \A k \in Handler :
           /\ handler[k].kind \in {"none", "cancel", "disable", "close", "logout", "delete"}
           /\ handler[k].pc \in Cleaning =>
                /\ handler[k].kind \in {"cancel", "disable", "close", "logout", "delete"}
                /\ handler[k].kind # "delete" => handler[k].op \in Op /\ op[handler[k].op] # Nobody
  BY SignInApart, SignInWithdrawers, SignInTyped
<1>3. UNCHANGED <<slot, poisoned, alive, life, target, handler, told>>
  BY DEF Resolve, registered, backend, server
<1>4. worker[o] = "resolve" /\ alive # "down" /\ op[o] # Nobody /\ op[o].action = "start"
  BY <1>1 DEF Resolve, At, Running, OpAt, LoginSteps
<1>5. UnderWay(o)
  BY <1>1, <1>4 DEF UnderWay, OpAt
<1>6. /\ \A p \in Op \ {o} : ~UnderWay(p)
      /\ \A k \in Handler : ~Withdraws(k) /\ handler[k].kind \notin {"cancel", "disable", "delete"}
      /\ Matches(o) /\ conn.active = o /\ conn.exists
      /\ lease # Nobody /\ lease.token = o /\ lease.kind # "delete"
  BY <1>5, SignInPendAlone
<1>7. /\ conn.revision = op[o].revision /\ phase # Nobody /\ phase.op = o /\ phase.at = "settled"
      /\ Generation = o /\ ~conn.present
  BY <1>1, <1>4, <1>5, <1>6 DEF Matches, OpPhase, SigningIn, Generation, OpPresent
<1>8. /\ worker' \in [Op -> WorkerType] /\ worker'[o] = "done"
      /\ \A p \in Op \ {o} : worker'[p] = worker[p]
  BY <1>1, SignInGoIs DEF Resolve, WorkerType
<1>9. /\ breaks' \in 0 .. MaxBreaks /\ (breaks > 0 => breaks' > 0)
      /\ phase' \in {phase, Nobody} /\ (phase' # phase => slot = Nobody)
  <2>1. breaks' = breaks \/ Break
    BY DEF Resolve
  <2>2. breaks' \in 0 .. MaxBreaks /\ (breaks > 0 => breaks' > 0)
    BY <1>1, <2>1, SignInBreakIs DEF TypeOK
  <2> QED
    BY <2>2 DEF Resolve
<1>10. \E s \in {"failed", "unknown"} :
          /\ op' \in [Op -> OpType \cup {Nobody}] /\ op'[o] # Nobody /\ op'[o].state = s
          /\ op'[o].action = op[o].action /\ \A p \in Op \ {o} : op'[p] = op[p]
          /\ file' \in BOOLEAN /\ (file' => file) /\ (s = "failed" => ~file')
          /\ conn' \in ConnectionType /\ conn'.exists = conn.exists /\ ~conn'.present /\ ~conn'.assumed
          /\ conn'.revision = conn.revision /\ conn'.enabled = conn.enabled
          /\ conn'.active = IF s = "failed" THEN Nobody ELSE o
          /\ lease' \in LeaseType \cup {Nobody} /\ (lease' = Nobody \/ lease' = lease)
  <2> DEFINE able == slot = Nobody /\ alive # "shut"
  <2> DEFINE clean == able /\ cleared /\ ~poisoned
  <2> DEFINE s == IF clean THEN "failed" ELSE "unknown"
  <2>1. /\ State(o, s)
        /\ file' \in IF ~able THEN {file} ELSE IF cleared THEN {FALSE} ELSE {file, FALSE}
        /\ lease' = IF clean THEN Free(o) ELSE lease
        /\ conn' = Present([conn EXCEPT !.active = IF clean THEN Nobody ELSE o], FALSE)
    BY <1>7, <1>6 DEF Resolve
  <2>2. /\ op' \in [Op -> OpType \cup {Nobody}] /\ op'[o] # Nobody /\ op'[o].state = s
        /\ op'[o].action = op[o].action /\ \A p \in Op \ {o} : op'[p] = op[p]
    BY <1>1, <1>4, <2>1, SignInStateIs
  <2>3. file' \in BOOLEAN /\ (file' => file) /\ (clean => ~file')
    <3>1. CASE file' = file /\ ~clean
      BY <1>1, <3>1 DEF TypeOK
    <3>2. CASE file' = FALSE
      BY <3>2
    <3> QED
      BY <2>1, <3>1, <3>2
  <2>4. lease' \in LeaseType \cup {Nobody} /\ (lease' = Nobody \/ lease' = lease)
    BY <1>1, <2>1, SignInFreeIs DEF TypeOK
  <2>5. /\ conn' \in ConnectionType /\ conn'.exists = conn.exists /\ ~conn'.present /\ ~conn'.assumed
        /\ conn'.revision = conn.revision /\ conn'.enabled = conn.enabled
        /\ conn'.active = IF clean THEN Nobody ELSE o
    <3> DEFINE rec == [conn EXCEPT !.active = IF clean THEN Nobody ELSE o]
    <3>1. rec \in ConnectionType /\ rec.exists = conn.exists /\ rec.revision = conn.revision
          /\ rec.enabled = conn.enabled /\ rec.active = IF clean THEN Nobody ELSE o
      BY <1>1 DEF TypeOK, ConnectionType
    <3> HIDE DEF rec
    <3> QED
      BY <2>1, <3>1, SignInPresentIs DEF rec
  <2>6. (s = "failed" <=> clean) /\ s \in {"failed", "unknown"}
    OBVIOUS
  <2> HIDE DEF clean, s
  <2> QED
    BY <2>2, <2>3, <2>4, <2>5, <2>6
<1> USE <1>1, <1>2, <1>3, <1>4, <1>5, <1>6, <1>7, <1>8, <1>9, <1>10
<1>11. TypeOK'
  BY DEF TypeOK
<1>12. SignOutCancelled => SignOutCancelled'
  BY DEF SignOutCancelled, UnderWay
<1>13. ActiveIsOpen'
  BY <1>12 DEF ActiveIsOpen, Open
<1>14. PairInv'
  BY <1>12 DEF PairInv, Withdraws, Cleaning, HandlerSignsOut, HandlerAt, Idle
<1>15. SlotInv'
  BY <1>12 DEF SlotInv, UnderWay, HandlerSlot, OpSlot
<1>16. DownInv'
  BY <1>12 DEF DownInv, Running
<1>17. FileInv'
  BY <1>12
    DEF FileInv, ShownSessionExists, SessionHasCredential, NoSilentCredential,
        AssumedForAReason, Open, UnderWay, Running, ActiveIsOpen, Unseen
<1>18. ASSUME NEW p \in Op PROVE OpInv(p)'
  <2>1. OpAt(p) /\ OpPending(p) /\ OpSlot(p) /\ OpPhase(p)
      /\ OpPresent(p) /\ OpFile(p) /\ OpLeaves(p)
    BY <1>1
  <2> USE <1>18, <2>1, <1>12
  <2>2. OpAt(p)'
    BY DEF OpAt, LoginSteps, LeavingSteps, UnderWay
  <2>3. OpPending(p)'
    BY DEF OpPending, Matches, UnderWay
  <2>4. OpSlot(p)'
    BY DEF OpSlot, Generation
  <2>5. OpPhase(p)'
    BY DEF OpPhase, SigningIn, UnderWay
  <2>6. OpPresent(p)'
    BY DEF OpPresent, OpSlot, Unseen
  <2>7. OpFile(p)'
    BY DEF OpFile, OpPhase, SigningIn, UnderWay, Accounted, Unlooked
  <2>8. OpLeaves(p)'
    BY DEF OpLeaves, LeavingSteps, Past, UnderWay, Generation
  <2> QED
    BY <2>2, <2>3, <2>4, <2>5, <2>6, <2>7, <2>8 DEF OpInv
<1>19. ASSUME NEW k \in Handler PROVE HandlerInv(k)'
  <2>1. HandlerAt(k) /\ HandlerLease(k) /\ HandlerSignsOut(k) /\ HandlerSlot(k)
      /\ HandlerNeeds(k) /\ HandlerMarks(k) /\ HandlerPresent(k) /\ HandlerFile(k)
    BY <1>1
  <2> USE <1>19, <2>1, <1>12
  <2>2. HandlerAt(k)'
    BY DEF HandlerAt, Withdraws, SigningOut, Cleaning, Idle, UnderWay
  <2>3. HandlerLease(k)'
    BY DEF HandlerLease, Withdraws, UnderWay
  <2>4. HandlerSignsOut(k)'
    BY DEF HandlerSignsOut, Cleaning, UnderWay
  <2>5. HandlerSlot(k)'
    BY DEF HandlerSlot, Target, SigningOut, Cleaning, Generation, Past, UnderWay
  <2>6. HandlerNeeds(k)'
    BY DEF HandlerNeeds, Withdraws, SigningOut, Cleaning
  <2>7. HandlerMarks(k)'
    BY DEF HandlerMarks, SigningOut, Cleaning
  <2>8. HandlerPresent(k)'
    BY DEF HandlerPresent, HandlerAt, Withdraws, SigningOut, Unseen, Cleaning
  <2>9. HandlerFile(k)'
    BY DEF HandlerFile, HandlerAt, Withdraws, Cleaning
  <2> QED
    BY <2>2, <2>3, <2>4, <2>5, <2>6, <2>7, <2>8, <2>9 DEF HandlerInv
<1> QED
  BY <1>11, <1>13, <1>14, <1>15, <1>16, <1>17, <1>18, <1>19 DEF SignInInv

\* Drop keeps SignInInv when a sign-out did not happen.
LEMMA SignInDropSignOutKeeps ==
  ASSUME SignInInv, SignInAssumption, NEW o \in Op, Drop(o, TRUE), op[o].state = "pending", op[o].action = "logout"
  PROVE  SignInInv'
<1>1. /\ TypeOK /\ ActiveIsOpen /\ PairInv /\ SlotInv /\ DownInv /\ FileInv
      /\ \A p \in Op : /\ OpAt(p) /\ OpPending(p) /\ OpSlot(p) /\ OpPhase(p)
                       /\ OpPresent(p) /\ OpFile(p) /\ OpLeaves(p)
      /\ \A k \in Handler : /\ HandlerAt(k) /\ HandlerLease(k) /\ HandlerSignsOut(k)
                            /\ HandlerSlot(k) /\ HandlerNeeds(k) /\ HandlerMarks(k)
                            /\ HandlerPresent(k) /\ HandlerFile(k)
  BY DEF SignInInv, OpInv, HandlerInv
<1>2. /\ conn.active \in Op \cup {Nobody} /\ (phase # Nobody => phase.op \in Op)
      /\ \A x \in Op \cup Handler : target[x] \in Op \cup {Nobody}
      /\ \A k \in Handler : k \notin Op /\ k # Nobody
      /\ \A p \in Op : p # Nobody
      /\ \A k \in Handler :
           /\ handler[k].kind \in {"none", "cancel", "disable", "close", "logout", "delete"}
           /\ handler[k].pc \in Cleaning =>
                /\ handler[k].kind \in {"cancel", "disable", "close", "logout", "delete"}
                /\ handler[k].kind # "delete" => handler[k].op \in Op /\ op[handler[k].op] # Nobody
  BY SignInApart, SignInWithdrawers, SignInTyped
<1>3. UNCHANGED <<conn, lease, slot, phase, poisoned, file, alive, life, target, handler, told, breaks>>
  BY DEF Drop, Dropped, registered, backend, server
<1>4. worker[o] = "dropped" /\ alive # "down" /\ op[o] # Nobody
  BY <1>1 DEF Drop, At, Running, OpAt
<1>5. /\ worker' \in [Op -> WorkerType] /\ worker'[o] = "done"
      /\ \A p \in Op \ {o} : worker'[p] = worker[p]
  BY <1>1, SignInGoIs DEF Drop, WorkerType
<1>6. UnderWay(o)
  BY <1>4 DEF UnderWay
<1>7. /\ \A p \in Op \ {o} : ~UnderWay(p)
      /\ \A k \in Handler : ~Withdraws(k) /\ handler[k].kind \notin {"cancel", "disable", "delete"}
      /\ Matches(o) /\ conn.active = o /\ conn.exists
      /\ lease # Nobody /\ lease.token = o /\ lease.kind # "delete"
  BY <1>6, SignInPendAlone
<1>8. /\ op' \in [Op -> OpType \cup {Nobody}] /\ op'[o] # Nobody /\ op'[o].state = "unknown"
      /\ op'[o].action = op[o].action /\ op'[o].life = op[o].life
      /\ op'[o].revision = op[o].revision
      /\ \A p \in Op \ {o} : op'[p] = op[p]
  BY <1>1, <1>4, SignInStateIs DEF Drop, Dropped
<1> USE <1>1, <1>2, <1>3, <1>4, <1>5, <1>6, <1>7, <1>8
<1>9. TypeOK'
  BY DEF TypeOK
<1>10. SignOutCancelled => SignOutCancelled'
  BY DEF SignOutCancelled, UnderWay
<1>11. ActiveIsOpen'
  BY <1>10 DEF ActiveIsOpen, Open
<1>12. PairInv'
  BY <1>10 DEF PairInv, Withdraws, Cleaning, HandlerSignsOut, HandlerAt, Idle
<1>13. SlotInv'
  BY <1>10 DEF SlotInv, UnderWay, HandlerSlot, OpSlot
<1>14. DownInv'
  BY <1>10 DEF DownInv, Running
<1>15. FileInv'
  BY <1>10
    DEF FileInv, ShownSessionExists, SessionHasCredential, NoSilentCredential,
        AssumedForAReason, Open, UnderWay, Running, ActiveIsOpen, Unseen
<1>16. ASSUME NEW p \in Op PROVE OpInv(p)'
  <2>1. OpAt(p) /\ OpPending(p) /\ OpSlot(p) /\ OpPhase(p)
      /\ OpPresent(p) /\ OpFile(p) /\ OpLeaves(p)
    BY <1>1
  <2> USE <1>16, <2>1, <1>10
  <2>2. OpAt(p)'
    BY DEF OpAt, LoginSteps, LeavingSteps, UnderWay
  <2>3. OpPending(p)'
    BY DEF OpPending, Matches, UnderWay
  <2>4. OpSlot(p)'
    BY DEF OpSlot, Generation
  <2>5. OpPhase(p)'
    BY DEF OpPhase, SigningIn, UnderWay
  <2>6. OpPresent(p)'
    BY DEF OpPresent, OpSlot, Unseen
  <2>7. OpFile(p)'
    BY DEF OpFile, OpPhase, SigningIn, UnderWay, Accounted, Unlooked
  <2>8. OpLeaves(p)'
    BY DEF OpLeaves, LeavingSteps, Past, UnderWay, Generation
  <2> QED
    BY <2>2, <2>3, <2>4, <2>5, <2>6, <2>7, <2>8 DEF OpInv
<1>17. ASSUME NEW k \in Handler PROVE HandlerInv(k)'
  <2>1. HandlerAt(k) /\ HandlerLease(k) /\ HandlerSignsOut(k) /\ HandlerSlot(k)
      /\ HandlerNeeds(k) /\ HandlerMarks(k) /\ HandlerPresent(k) /\ HandlerFile(k)
    BY <1>1
  <2> USE <1>17, <2>1, <1>10
  <2>2. HandlerAt(k)'
    BY DEF HandlerAt, Withdraws, SigningOut, Cleaning, Idle, UnderWay
  <2>3. HandlerLease(k)'
    BY DEF HandlerLease, Withdraws, UnderWay
  <2>4. HandlerSignsOut(k)'
    BY DEF HandlerSignsOut, Cleaning, UnderWay
  <2>5. HandlerSlot(k)'
    BY DEF HandlerSlot, Target, SigningOut, Cleaning, Generation, Past, UnderWay
  <2>6. HandlerNeeds(k)'
    BY DEF HandlerNeeds, Withdraws, SigningOut, Cleaning
  <2>7. HandlerMarks(k)'
    BY DEF HandlerMarks, SigningOut, Cleaning
  <2>8. HandlerPresent(k)'
    BY DEF HandlerPresent, HandlerAt, Withdraws, SigningOut, Unseen, Cleaning
  <2>9. HandlerFile(k)'
    BY DEF HandlerFile, HandlerAt, Withdraws, Cleaning
  <2> QED
    BY <2>2, <2>3, <2>4, <2>5, <2>6, <2>7, <2>8, <2>9 DEF HandlerInv
<1> QED
  BY <1>9, <1>11, <1>12, <1>13, <1>14, <1>15, <1>16, <1>17 DEF SignInInv

\* Drop keeps SignInInv when a sign-in has failed.
LEMMA SignInDropSignInKeeps ==
  ASSUME SignInInv, SignInAssumption, NEW o \in Op, Drop(o, TRUE), op[o].state = "pending", op[o].action # "logout"
  PROVE  SignInInv'
<1>1. /\ TypeOK /\ ActiveIsOpen /\ PairInv /\ SlotInv /\ DownInv /\ FileInv
      /\ \A p \in Op : /\ OpAt(p) /\ OpPending(p) /\ OpSlot(p) /\ OpPhase(p)
                       /\ OpPresent(p) /\ OpFile(p) /\ OpLeaves(p)
      /\ \A k \in Handler : /\ HandlerAt(k) /\ HandlerLease(k) /\ HandlerSignsOut(k)
                            /\ HandlerSlot(k) /\ HandlerNeeds(k) /\ HandlerMarks(k)
                            /\ HandlerPresent(k) /\ HandlerFile(k)
  BY DEF SignInInv, OpInv, HandlerInv
<1>2. /\ conn.active \in Op \cup {Nobody} /\ (phase # Nobody => phase.op \in Op)
      /\ \A x \in Op \cup Handler : target[x] \in Op \cup {Nobody}
      /\ \A k \in Handler : k \notin Op /\ k # Nobody
      /\ \A p \in Op : p # Nobody
      /\ \A k \in Handler :
           /\ handler[k].kind \in {"none", "cancel", "disable", "close", "logout", "delete"}
           /\ handler[k].pc \in Cleaning =>
                /\ handler[k].kind \in {"cancel", "disable", "close", "logout", "delete"}
                /\ handler[k].kind # "delete" => handler[k].op \in Op /\ op[handler[k].op] # Nobody
  BY SignInApart, SignInWithdrawers, SignInTyped
<1>3. UNCHANGED <<slot, phase, poisoned, file, alive, life, target, handler, told, breaks>>
  BY DEF Drop, Dropped, registered, backend, server
<1>4. worker[o] = "dropped" /\ alive # "down" /\ op[o] # Nobody
  BY <1>1 DEF Drop, At, Running, OpAt
<1>5. /\ worker' \in [Op -> WorkerType] /\ worker'[o] = "done"
      /\ \A p \in Op \ {o} : worker'[p] = worker[p]
  BY <1>1, SignInGoIs DEF Drop, WorkerType
<1>6. UnderWay(o)
  BY <1>4 DEF UnderWay
<1>7. /\ \A p \in Op \ {o} : ~UnderWay(p)
      /\ \A k \in Handler : ~Withdraws(k) /\ handler[k].kind \notin {"cancel", "disable", "delete"}
      /\ Matches(o) /\ conn.active = o /\ conn.exists
      /\ lease # Nobody /\ lease.token = o /\ lease.kind # "delete"
  BY <1>6, SignInPendAlone
<1>8. /\ op' \in [Op -> OpType \cup {Nobody}] /\ op'[o] # Nobody /\ op'[o].state = "failed"
      /\ op'[o].action = op[o].action /\ op'[o].life = op[o].life
      /\ op'[o].revision = op[o].revision
      /\ \A p \in Op \ {o} : op'[p] = op[p]
  BY <1>1, <1>4, SignInStateIs DEF Drop, Dropped
<1>9. lease' = Nobody
  BY <1>1, <1>7, SignInFreeIs DEF Drop, Dropped
<1>10. /\ conn' \in ConnectionType /\ conn'.present = conn.present /\ conn'.assumed = conn.assumed
       /\ conn'.exists = conn.exists /\ conn'.revision = conn.revision
       /\ conn'.enabled = conn.enabled /\ conn'.active = Nobody
  BY <1>1, <1>7 DEF Drop, Dropped, TypeOK, ConnectionType
<1>11. Accounted
  BY <1>1, <1>4, <1>6 DEF OpFile, SigningIn, TypeOK, OpType
<1> USE <1>1, <1>2, <1>3, <1>4, <1>5, <1>6, <1>7, <1>8, <1>9, <1>10, <1>11
<1>12. TypeOK'
  BY DEF TypeOK
<1>13. SignOutCancelled => SignOutCancelled'
  BY DEF SignOutCancelled, UnderWay
<1>14. ActiveIsOpen'
  BY <1>13 DEF ActiveIsOpen, Open
<1>15. PairInv'
  BY <1>13 DEF PairInv, Withdraws, Cleaning, HandlerSignsOut, HandlerAt, Idle
<1>16. SlotInv'
  BY <1>13 DEF SlotInv, UnderWay, HandlerSlot, OpSlot
<1>17. DownInv'
  BY <1>13 DEF DownInv, Running
<1>18. FileInv'
  BY <1>13
    DEF FileInv, ShownSessionExists, SessionHasCredential, NoSilentCredential,
        AssumedForAReason, UnderWay, Accounted
<1>19. ASSUME NEW p \in Op PROVE OpInv(p)'
  <2>1. OpAt(p) /\ OpPending(p) /\ OpSlot(p) /\ OpPhase(p)
      /\ OpPresent(p) /\ OpFile(p) /\ OpLeaves(p)
    BY <1>1
  <2> USE <1>19, <2>1, <1>13
  <2>2. OpAt(p)'
    BY DEF OpAt, LoginSteps, LeavingSteps, UnderWay
  <2>3. OpPending(p)'
    BY DEF OpPending, Matches, UnderWay
  <2>4. OpSlot(p)'
    BY DEF OpSlot, Generation
  <2>5. OpPhase(p)'
    BY DEF OpPhase, SigningIn, UnderWay
  <2>6. OpPresent(p)'
    BY DEF OpPresent, OpSlot, Unseen
  <2>7. OpFile(p)'
    BY DEF OpFile, OpPhase, SigningIn, UnderWay, Accounted, Unlooked
  <2>8. OpLeaves(p)'
    BY DEF OpLeaves, LeavingSteps, Past, UnderWay, Generation
  <2> QED
    BY <2>2, <2>3, <2>4, <2>5, <2>6, <2>7, <2>8 DEF OpInv
<1>20. ASSUME NEW k \in Handler PROVE HandlerInv(k)'
  <2>1. HandlerAt(k) /\ HandlerLease(k) /\ HandlerSignsOut(k) /\ HandlerSlot(k)
      /\ HandlerNeeds(k) /\ HandlerMarks(k) /\ HandlerPresent(k) /\ HandlerFile(k)
    BY <1>1
  <2> USE <1>20, <2>1, <1>13
  <2>2. HandlerAt(k)'
    BY DEF HandlerAt, Withdraws, SigningOut, Cleaning, Idle, UnderWay
  <2>3. HandlerLease(k)'
    BY DEF HandlerLease, Withdraws, UnderWay
  <2>4. HandlerSignsOut(k)'
    BY DEF HandlerSignsOut, Cleaning, UnderWay
  <2>5. HandlerSlot(k)'
    BY DEF HandlerSlot, Target, SigningOut, Cleaning, Generation, Past, UnderWay
  <2>6. HandlerNeeds(k)'
    BY DEF HandlerNeeds, Withdraws, SigningOut, Cleaning
  <2>7. HandlerMarks(k)'
    BY DEF HandlerMarks, SigningOut, Cleaning
  <2>8. HandlerPresent(k)'
    BY DEF HandlerPresent, HandlerAt, Withdraws, SigningOut, Unseen, Cleaning
  <2>9. HandlerFile(k)'
    BY DEF HandlerFile, HandlerAt, Withdraws, Cleaning
  <2> QED
    BY <2>2, <2>3, <2>4, <2>5, <2>6, <2>7, <2>8, <2>9 DEF HandlerInv
<1> QED
  BY <1>12, <1>14, <1>15, <1>16, <1>17, <1>18, <1>19, <1>20 DEF SignInInv

\* BeginSignOut keeps SignInInv when the worker looks for the generation.
LEMMA SignInBeginSignOutKeeps ==
  ASSUME SignInInv, SignInAssumption, NEW o \in Op, BeginSignOut(o, TRUE), Pending(o), slot = Nobody \/ slot.kind = "auth"
  PROVE  SignInInv'
<1>1. /\ TypeOK /\ ActiveIsOpen /\ PairInv /\ SlotInv /\ DownInv /\ FileInv
      /\ \A p \in Op : /\ OpAt(p) /\ OpPending(p) /\ OpSlot(p) /\ OpPhase(p)
                       /\ OpPresent(p) /\ OpFile(p) /\ OpLeaves(p)
      /\ \A k \in Handler : /\ HandlerAt(k) /\ HandlerLease(k) /\ HandlerSignsOut(k)
                            /\ HandlerSlot(k) /\ HandlerNeeds(k) /\ HandlerMarks(k)
                            /\ HandlerPresent(k) /\ HandlerFile(k)
  BY DEF SignInInv, OpInv, HandlerInv
<1>2. /\ conn.active \in Op \cup {Nobody} /\ (phase # Nobody => phase.op \in Op)
      /\ \A x \in Op \cup Handler : target[x] \in Op \cup {Nobody}
      /\ \A k \in Handler : k \notin Op /\ k # Nobody
      /\ \A p \in Op : p # Nobody
      /\ \A k \in Handler :
           /\ handler[k].kind \in {"none", "cancel", "disable", "close", "logout", "delete"}
           /\ handler[k].pc \in Cleaning =>
                /\ handler[k].kind \in {"cancel", "disable", "close", "logout", "delete"}
                /\ handler[k].kind # "delete" => handler[k].op \in Op /\ op[handler[k].op] # Nobody
  BY SignInApart, SignInWithdrawers, SignInTyped
<1>3. UNCHANGED <<conn, op, lease, phase, poisoned, file, alive, life, handler, told, breaks>>
  BY DEF BeginSignOut, registered, backend, server
<1>4. worker[o] = "leave" /\ alive = "up" /\ op[o] # Nobody /\ op[o].action = "logout"
  BY <1>1 DEF BeginSignOut, At, Pending, OpAt, LeavingSteps
<1>5. UnderWay(o)
  BY <1>4 DEF Pending, Matches, UnderWay
<1>6. /\ \A p \in Op \ {o} : ~UnderWay(p)
      /\ \A k \in Handler : ~Withdraws(k) /\ handler[k].kind \notin {"cancel", "disable", "delete"}
      /\ Matches(o) /\ conn.active = o /\ conn.exists
      /\ lease # Nobody /\ lease.token = o /\ lease.kind # "delete"
  BY <1>5, SignInPendAlone
<1>7. /\ worker' \in [Op -> WorkerType] /\ worker'[o] = "leaving"
      /\ \A p \in Op \ {o} : worker'[p] = worker[p]
  BY <1>1, SignInGoIs DEF BeginSignOut, WorkerType
<1>8. Generation \in Op \cup {Nobody} /\ Past(Generation)
  BY <1>1, <1>2, <1>4, <1>6 DEF Generation, Past, FileInv, UnderWay
<1>9. /\ target' \in [Op \cup Handler -> Op \cup {Nobody}] /\ target'[o] = Generation
      /\ \A x \in (Op \cup Handler) \ {o} : target'[x] = target[x]
  BY <1>1, <1>8 DEF BeginSignOut, TypeOK
<1>10. /\ slot' \in SlotType \cup {Nobody} /\ (slot = Nobody <=> slot' = Nobody)
       /\ slot # Nobody => slot'.kind = "auth" /\ slot.kind = "auth" /\ slot'.by = slot.by
                           /\ ~UnderWay(slot.by)
  <2>1. CASE slot = Nobody
    BY <2>1 DEF BeginSignOut
  <2>2. CASE slot # Nobody
    <3>1. slot' = [slot EXCEPT !.stop = TRUE]
      BY <2>2 DEF BeginSignOut
    <3>2. slot' \in SlotType /\ slot' # Nobody /\ slot'.kind = slot.kind /\ slot'.by = slot.by
      BY <1>1, <2>2, <3>1, SignInStopIs
    <3>3. slot.by \in Op /\ worker[slot.by] \in {"session", "installed"}
      BY <1>1, <2>2 DEF SlotInv
    <3> QED
      BY <1>4, <1>6, <2>2, <3>2, <3>3
  <2> QED
    BY <2>1, <2>2
<1> USE <1>1, <1>2, <1>3, <1>4, <1>5, <1>6, <1>7, <1>8, <1>9, <1>10
<1>11. TypeOK'
  BY DEF TypeOK
<1>12. SignOutCancelled => SignOutCancelled'
  BY DEF SignOutCancelled, UnderWay
<1>13. ActiveIsOpen'
  BY <1>12 DEF ActiveIsOpen, Open
<1>14. PairInv'
  BY <1>12 DEF PairInv, Withdraws, Cleaning, HandlerSignsOut, HandlerAt, Idle
<1>15. SlotInv'
  BY <1>12 DEF SlotInv, UnderWay, HandlerSlot, OpSlot
<1>16. DownInv'
  BY <1>12 DEF DownInv, Running
<1>17. FileInv'
  BY <1>12
    DEF FileInv, ShownSessionExists, SessionHasCredential, NoSilentCredential,
        AssumedForAReason, Open, UnderWay, Running, ActiveIsOpen, Unseen
<1>18. ASSUME NEW p \in Op PROVE OpInv(p)'
  <2>1. OpAt(p) /\ OpPending(p) /\ OpSlot(p) /\ OpPhase(p)
      /\ OpPresent(p) /\ OpFile(p) /\ OpLeaves(p)
    BY <1>1
  <2> USE <1>18, <2>1, <1>12
  <2>2. OpAt(p)'
    BY DEF OpAt, LoginSteps, LeavingSteps, UnderWay
  <2>3. OpPending(p)'
    BY DEF OpPending, Matches, UnderWay
  <2>4. OpSlot(p)'
    BY DEF OpSlot, Generation
  <2>5. OpPhase(p)'
    BY DEF OpPhase, SigningIn, UnderWay
  <2>6. OpPresent(p)'
    BY DEF OpPresent, OpSlot, Unseen
  <2>7. OpFile(p)'
    BY DEF OpFile, OpPhase, SigningIn, UnderWay, Accounted, Unlooked
  <2>8. OpLeaves(p)'
    BY DEF OpLeaves, LeavingSteps, Past, UnderWay, Generation
  <2> QED
    BY <2>2, <2>3, <2>4, <2>5, <2>6, <2>7, <2>8 DEF OpInv
<1>19. ASSUME NEW k \in Handler PROVE HandlerInv(k)'
  <2>1. HandlerAt(k) /\ HandlerLease(k) /\ HandlerSignsOut(k) /\ HandlerSlot(k)
      /\ HandlerNeeds(k) /\ HandlerMarks(k) /\ HandlerPresent(k) /\ HandlerFile(k)
    BY <1>1
  <2> USE <1>19, <2>1, <1>12
  <2>2. HandlerAt(k)'
    BY DEF HandlerAt, Withdraws, SigningOut, Cleaning, Idle, UnderWay
  <2>3. HandlerLease(k)'
    BY DEF HandlerLease, Withdraws, UnderWay
  <2>4. HandlerSignsOut(k)'
    BY DEF HandlerSignsOut, Cleaning, UnderWay
  <2>5. HandlerSlot(k)'
    BY DEF HandlerSlot, Target, SigningOut, Cleaning, Generation, Past, UnderWay
  <2>6. HandlerNeeds(k)'
    BY DEF HandlerNeeds, Withdraws, SigningOut, Cleaning
  <2>7. HandlerMarks(k)'
    BY DEF HandlerMarks, SigningOut, Cleaning
  <2>8. HandlerPresent(k)'
    BY DEF HandlerPresent, HandlerAt, Withdraws, SigningOut, Unseen, Cleaning
  <2>9. HandlerFile(k)'
    BY DEF HandlerFile, HandlerAt, Withdraws, Cleaning
  <2> QED
    BY <2>2, <2>3, <2>4, <2>5, <2>6, <2>7, <2>8, <2>9 DEF HandlerInv
<1> QED
  BY <1>11, <1>13, <1>14, <1>15, <1>16, <1>17, <1>18, <1>19 DEF SignInInv

\* AwaitSignOut keeps SignInInv when the worker takes the slot.
LEMMA SignInAwaitSignOutKeeps ==
  ASSUME SignInInv, SignInAssumption, NEW o \in Op, AwaitSignOut(o), slot = Nobody, alive # "shut", Generation = target[o]
  PROVE  SignInInv'
<1>1. /\ TypeOK /\ ActiveIsOpen /\ PairInv /\ SlotInv /\ DownInv /\ FileInv
      /\ \A p \in Op : /\ OpAt(p) /\ OpPending(p) /\ OpSlot(p) /\ OpPhase(p)
                       /\ OpPresent(p) /\ OpFile(p) /\ OpLeaves(p)
      /\ \A k \in Handler : /\ HandlerAt(k) /\ HandlerLease(k) /\ HandlerSignsOut(k)
                            /\ HandlerSlot(k) /\ HandlerNeeds(k) /\ HandlerMarks(k)
                            /\ HandlerPresent(k) /\ HandlerFile(k)
  BY DEF SignInInv, OpInv, HandlerInv
<1>2. /\ conn.active \in Op \cup {Nobody} /\ (phase # Nobody => phase.op \in Op)
      /\ \A x \in Op \cup Handler : target[x] \in Op \cup {Nobody}
      /\ \A k \in Handler : k \notin Op /\ k # Nobody
      /\ \A p \in Op : p # Nobody
      /\ \A k \in Handler :
           /\ handler[k].kind \in {"none", "cancel", "disable", "close", "logout", "delete"}
           /\ handler[k].pc \in Cleaning =>
                /\ handler[k].kind \in {"cancel", "disable", "close", "logout", "delete"}
                /\ handler[k].kind # "delete" => handler[k].op \in Op /\ op[handler[k].op] # Nobody
  BY SignInApart, SignInWithdrawers, SignInTyped
<1>3. UNCHANGED <<conn, op, lease, phase, poisoned, file, alive, life, target, handler, told, breaks>>
  BY DEF AwaitSignOut, registered, backend, server
<1>4. worker[o] = "leaving" /\ alive # "down" /\ op[o] # Nobody
  BY <1>1 DEF AwaitSignOut, At, Running, OpAt
<1>5. /\ worker' \in [Op -> WorkerType] /\ worker'[o] = "clearing"
      /\ \A p \in Op \ {o} : worker'[p] = worker[p]
  BY <1>1, SignInGoIs DEF AwaitSignOut, WorkerType
<1>6. /\ slot' \in SlotType /\ slot' # Nobody
      /\ slot'.kind = "cleanup" /\ slot'.by = o /\ slot'.stop = FALSE
  BY SignInSlotIs DEF AwaitSignOut
<1> USE <1>1, <1>2, <1>3, <1>4, <1>5, <1>6
<1>7. TypeOK'
  BY DEF TypeOK
<1>8. SignOutCancelled => SignOutCancelled'
  BY DEF SignOutCancelled, UnderWay
<1>9. ActiveIsOpen'
  BY <1>8 DEF ActiveIsOpen, Open
<1>10. PairInv'
  BY <1>8 DEF PairInv, Withdraws, Cleaning, HandlerSignsOut, HandlerAt, Idle
<1>11. SlotInv'
  BY <1>8 DEF SlotInv, UnderWay, HandlerSlot, OpSlot
<1>12. DownInv'
  BY <1>8 DEF DownInv, Running
<1>13. FileInv'
  BY <1>8
    DEF FileInv, ShownSessionExists, SessionHasCredential, NoSilentCredential,
        AssumedForAReason, Open, UnderWay, Running, ActiveIsOpen, Unseen
<1>14. ASSUME NEW p \in Op PROVE OpInv(p)'
  <2>1. OpAt(p) /\ OpPending(p) /\ OpSlot(p) /\ OpPhase(p)
      /\ OpPresent(p) /\ OpFile(p) /\ OpLeaves(p)
    BY <1>1
  <2> USE <1>14, <2>1, <1>8
  <2>2. OpAt(p)'
    BY DEF OpAt, LoginSteps, LeavingSteps, UnderWay
  <2>3. OpPending(p)'
    BY DEF OpPending, Matches, UnderWay
  <2>4. OpSlot(p)'
    BY DEF OpSlot, Generation
  <2>5. OpPhase(p)'
    BY DEF OpPhase, SigningIn, UnderWay
  <2>6. OpPresent(p)'
    BY DEF OpPresent, OpSlot, Unseen
  <2>7. OpFile(p)'
    BY DEF OpFile, OpPhase, SigningIn, UnderWay, Accounted, Unlooked
  <2>8. OpLeaves(p)'
    BY DEF OpLeaves, LeavingSteps, Past, UnderWay, Generation
  <2> QED
    BY <2>2, <2>3, <2>4, <2>5, <2>6, <2>7, <2>8 DEF OpInv
<1>15. ASSUME NEW k \in Handler PROVE HandlerInv(k)'
  <2>1. HandlerAt(k) /\ HandlerLease(k) /\ HandlerSignsOut(k) /\ HandlerSlot(k)
      /\ HandlerNeeds(k) /\ HandlerMarks(k) /\ HandlerPresent(k) /\ HandlerFile(k)
    BY <1>1
  <2> USE <1>15, <2>1, <1>8
  <2>2. HandlerAt(k)'
    BY DEF HandlerAt, Withdraws, SigningOut, Cleaning, Idle, UnderWay
  <2>3. HandlerLease(k)'
    BY DEF HandlerLease, Withdraws, UnderWay
  <2>4. HandlerSignsOut(k)'
    BY DEF HandlerSignsOut, Cleaning, UnderWay
  <2>5. HandlerSlot(k)'
    BY DEF HandlerSlot, Target, SigningOut, Cleaning, Generation, Past, UnderWay
  <2>6. HandlerNeeds(k)'
    BY DEF HandlerNeeds, Withdraws, SigningOut, Cleaning
  <2>7. HandlerMarks(k)'
    BY DEF HandlerMarks, SigningOut, Cleaning
  <2>8. HandlerPresent(k)'
    BY DEF HandlerPresent, HandlerAt, Withdraws, SigningOut, Unseen, Cleaning
  <2>9. HandlerFile(k)'
    BY DEF HandlerFile, HandlerAt, Withdraws, Cleaning
  <2> QED
    BY <2>2, <2>3, <2>4, <2>5, <2>6, <2>7, <2>8, <2>9 DEF HandlerInv
<1> QED
  BY <1>7, <1>9, <1>10, <1>11, <1>12, <1>13, <1>14, <1>15 DEF SignInInv

\* EndSignOut keeps SignInInv when the files are removed.
LEMMA SignInEndSignOutKeeps ==
  ASSUME SignInInv, SignInAssumption, NEW o \in Op, EndSignOut(o, TRUE)
  PROVE  SignInInv'
<1>1. /\ TypeOK /\ ActiveIsOpen /\ PairInv /\ SlotInv /\ DownInv /\ FileInv
      /\ \A p \in Op : /\ OpAt(p) /\ OpPending(p) /\ OpSlot(p) /\ OpPhase(p)
                       /\ OpPresent(p) /\ OpFile(p) /\ OpLeaves(p)
      /\ \A k \in Handler : /\ HandlerAt(k) /\ HandlerLease(k) /\ HandlerSignsOut(k)
                            /\ HandlerSlot(k) /\ HandlerNeeds(k) /\ HandlerMarks(k)
                            /\ HandlerPresent(k) /\ HandlerFile(k)
  BY DEF SignInInv, OpInv, HandlerInv
<1>2. /\ conn.active \in Op \cup {Nobody} /\ (phase # Nobody => phase.op \in Op)
      /\ \A x \in Op \cup Handler : target[x] \in Op \cup {Nobody}
      /\ \A k \in Handler : k \notin Op /\ k # Nobody
      /\ \A p \in Op : p # Nobody
      /\ \A k \in Handler :
           /\ handler[k].kind \in {"none", "cancel", "disable", "close", "logout", "delete"}
           /\ handler[k].pc \in Cleaning =>
                /\ handler[k].kind \in {"cancel", "disable", "close", "logout", "delete"}
                /\ handler[k].kind # "delete" => handler[k].op \in Op /\ op[handler[k].op] # Nobody
  BY SignInApart, SignInWithdrawers, SignInTyped
<1>3. UNCHANGED <<conn, op, lease, poisoned, alive, life, target, handler, breaks>>
  BY DEF EndSignOut, registered, backend, server
<1>4. worker[o] = "clearing" /\ alive # "down" /\ op[o] # Nobody
  BY <1>1 DEF EndSignOut, At, Running, OpAt
<1>5. op[o].action = "logout"
  BY <1>1, <1>4 DEF OpAt, LeavingSteps
<1>6. slot # Nobody /\ slot.kind = "cleanup" /\ slot.by = o /\ Past(Generation) /\ slot' = Nobody
  BY <1>1, <1>4 DEF EndSignOut, OpSlot, OpLeaves
<1>7. \A p \in Op : SigningIn(p) => worker[p] = "done"
  <2> SUFFICES ASSUME NEW p \in Op, SigningIn(p), worker[p] # "done" PROVE FALSE
    OBVIOUS
  <2>1. phase # Nobody /\ phase.op = p
    BY <1>1, <1>4 DEF OpPhase
  <2>2. Generation = p
    BY <2>1 DEF Generation
  <2> QED
    BY <1>2, <1>6, <2>2 DEF Past, SigningIn
<1>8. Unseen \/ SignOutCancelled
  <2>1. op[o].state \in {"pending", "cancelled", "unknown"} /\ (op[o].state = "unknown" => conn.active = o)
    BY <1>1, <1>4 DEF OpLeaves, LeavingSteps
  <2>2. op[o].state = "pending" => conn.active = o
    BY <1>1, <1>4 DEF OpPending, UnderWay, Matches
  <2> QED
    BY <1>1, <1>4, <1>5, <2>1, <2>2 DEF OpPresent, SignOutCancelled
<1>9. \A p \in Op \ {o} : UnderWay(p) => SignOutCancelled
  <2> SUFFICES ASSUME NEW p \in Op \ {o}, UnderWay(p) PROVE SignOutCancelled
    OBVIOUS
  <2>1. conn.active = p /\ ~UnderWay(o)
    BY SignInPendAlone
  <2>2. op[o].state \in {"pending", "cancelled", "unknown"} /\ (op[o].state = "unknown" => conn.active = o)
    BY <1>1, <1>4 DEF OpLeaves, LeavingSteps
  <2> QED
    BY <1>4, <1>5, <2>1, <2>2 DEF UnderWay, SignOutCancelled
<1>10. \E pc \in {"dropped", "committed"} : 
          /\ worker' \in [Op -> WorkerType] /\ worker'[o] = pc
          /\ \A p \in Op \ {o} : worker'[p] = worker[p]
  BY <1>1, SignInGoIs DEF EndSignOut, WorkerType
<1>11. file' = FALSE /\ told' = FALSE /\ phase' = Nobody
  BY DEF EndSignOut
<1> USE <1>1, <1>2, <1>3, <1>4, <1>5, <1>6, <1>7, <1>8, <1>9, <1>10, <1>11
<1>12. TypeOK'
  BY DEF TypeOK
<1>13. SignOutCancelled => SignOutCancelled'
  BY DEF SignOutCancelled, UnderWay
<1>14. ActiveIsOpen'
  BY <1>13 DEF ActiveIsOpen, Open
<1>15. PairInv'
  BY <1>13 DEF PairInv, Withdraws, Cleaning, HandlerSignsOut, HandlerAt, Idle
<1>16. SlotInv'
  BY <1>13 DEF SlotInv, UnderWay, HandlerSlot, OpSlot
<1>17. DownInv'
  BY <1>13 DEF DownInv, Running
<1>18. FileInv'
  BY <1>13
    DEF FileInv, ShownSessionExists, SessionHasCredential, NoSilentCredential,
        AssumedForAReason, Open, UnderWay, Running, ActiveIsOpen, Unseen
<1>19. ASSUME NEW p \in Op PROVE OpInv(p)'
  <2>1. OpAt(p) /\ OpPending(p) /\ OpSlot(p) /\ OpPhase(p)
      /\ OpPresent(p) /\ OpFile(p) /\ OpLeaves(p)
    BY <1>1
  <2> USE <1>19, <2>1, <1>13
  <2>2. OpAt(p)'
    BY DEF OpAt, LoginSteps, LeavingSteps, UnderWay
  <2>3. OpPending(p)'
    BY DEF OpPending, Matches, UnderWay
  <2>4. OpSlot(p)'
    BY DEF OpSlot, Generation
  <2>5. OpPhase(p)'
    BY DEF OpPhase, SigningIn, UnderWay
  <2>6. OpPresent(p)'
    BY DEF OpPresent, OpSlot, Unseen
  <2>7. OpFile(p)'
    BY DEF OpFile, OpPhase, SigningIn, UnderWay, Accounted, Unlooked
  <2>8. OpLeaves(p)'
    BY DEF OpLeaves, LeavingSteps, Past, UnderWay, Generation
  <2> QED
    BY <2>2, <2>3, <2>4, <2>5, <2>6, <2>7, <2>8 DEF OpInv
<1>20. ASSUME NEW k \in Handler PROVE HandlerInv(k)'
  <2>1. HandlerAt(k) /\ HandlerLease(k) /\ HandlerSignsOut(k) /\ HandlerSlot(k)
      /\ HandlerNeeds(k) /\ HandlerMarks(k) /\ HandlerPresent(k) /\ HandlerFile(k)
    BY <1>1
  <2> USE <1>20, <2>1, <1>13
  <2>2. HandlerAt(k)'
    BY DEF HandlerAt, Withdraws, SigningOut, Cleaning, Idle, UnderWay
  <2>3. HandlerLease(k)'
    BY DEF HandlerLease, Withdraws, UnderWay
  <2>4. HandlerSignsOut(k)'
    BY DEF HandlerSignsOut, Cleaning, UnderWay
  <2>5. HandlerSlot(k)'
    BY DEF HandlerSlot, Target, SigningOut, Cleaning, Generation, Past, UnderWay
  <2>6. HandlerNeeds(k)'
    BY DEF HandlerNeeds, Withdraws, SigningOut, Cleaning
  <2>7. HandlerMarks(k)'
    BY DEF HandlerMarks, SigningOut, Cleaning
  <2>8. HandlerPresent(k)'
    BY DEF HandlerPresent, HandlerAt, Withdraws, SigningOut, Unseen, Cleaning
  <2>9. HandlerFile(k)'
    BY DEF HandlerFile, HandlerAt, Withdraws, Cleaning
  <2> QED
    BY <2>2, <2>3, <2>4, <2>5, <2>6, <2>7, <2>8, <2>9 DEF HandlerInv
<1> QED
  BY <1>12, <1>14, <1>15, <1>16, <1>17, <1>18, <1>19, <1>20 DEF SignInInv

\* EndSignOut keeps SignInInv when the files cannot be removed.
LEMMA SignInEndSignOutNotKeeps ==
  ASSUME SignInInv, SignInAssumption, NEW o \in Op, EndSignOut(o, FALSE)
  PROVE  SignInInv'
<1>1. /\ TypeOK /\ ActiveIsOpen /\ PairInv /\ SlotInv /\ DownInv /\ FileInv
      /\ \A p \in Op : /\ OpAt(p) /\ OpPending(p) /\ OpSlot(p) /\ OpPhase(p)
                       /\ OpPresent(p) /\ OpFile(p) /\ OpLeaves(p)
      /\ \A k \in Handler : /\ HandlerAt(k) /\ HandlerLease(k) /\ HandlerSignsOut(k)
                            /\ HandlerSlot(k) /\ HandlerNeeds(k) /\ HandlerMarks(k)
                            /\ HandlerPresent(k) /\ HandlerFile(k)
  BY DEF SignInInv, OpInv, HandlerInv
<1>2. /\ conn.active \in Op \cup {Nobody} /\ (phase # Nobody => phase.op \in Op)
      /\ \A x \in Op \cup Handler : target[x] \in Op \cup {Nobody}
      /\ \A k \in Handler : k \notin Op /\ k # Nobody
      /\ \A p \in Op : p # Nobody
      /\ \A k \in Handler :
           /\ handler[k].kind \in {"none", "cancel", "disable", "close", "logout", "delete"}
           /\ handler[k].pc \in Cleaning =>
                /\ handler[k].kind \in {"cancel", "disable", "close", "logout", "delete"}
                /\ handler[k].kind # "delete" => handler[k].op \in Op /\ op[handler[k].op] # Nobody
  BY SignInApart, SignInWithdrawers, SignInTyped
<1>3. UNCHANGED <<conn, op, lease, phase, poisoned, alive, life, target, handler, told>>
  BY DEF EndSignOut, registered, backend, server
<1>4. worker[o] = "clearing" /\ alive # "down" /\ op[o] # Nobody
  BY <1>1 DEF EndSignOut, At, Running, OpAt
<1>5. op[o].action = "logout"
  BY <1>1, <1>4 DEF OpAt, LeavingSteps
<1>6. slot # Nobody /\ slot.kind = "cleanup" /\ slot.by = o /\ Past(Generation) /\ slot' = Nobody
  BY <1>1, <1>4 DEF EndSignOut, OpSlot, OpLeaves
<1>7. \A p \in Op : SigningIn(p) => worker[p] = "done"
  <2> SUFFICES ASSUME NEW p \in Op, SigningIn(p), worker[p] # "done" PROVE FALSE
    OBVIOUS
  <2>1. phase # Nobody /\ phase.op = p
    BY <1>1, <1>4 DEF OpPhase
  <2>2. Generation = p
    BY <2>1 DEF Generation
  <2> QED
    BY <1>2, <1>6, <2>2 DEF Past, SigningIn
<1>8. Unseen \/ SignOutCancelled
  <2>1. op[o].state \in {"pending", "cancelled", "unknown"} /\ (op[o].state = "unknown" => conn.active = o)
    BY <1>1, <1>4 DEF OpLeaves, LeavingSteps
  <2>2. op[o].state = "pending" => conn.active = o
    BY <1>1, <1>4 DEF OpPending, UnderWay, Matches
  <2> QED
    BY <1>1, <1>4, <1>5, <2>1, <2>2 DEF OpPresent, SignOutCancelled
<1>9. \A p \in Op \ {o} : UnderWay(p) => SignOutCancelled
  <2> SUFFICES ASSUME NEW p \in Op \ {o}, UnderWay(p) PROVE SignOutCancelled
    OBVIOUS
  <2>1. conn.active = p /\ ~UnderWay(o)
    BY SignInPendAlone
  <2>2. op[o].state \in {"pending", "cancelled", "unknown"} /\ (op[o].state = "unknown" => conn.active = o)
    BY <1>1, <1>4 DEF OpLeaves, LeavingSteps
  <2> QED
    BY <1>4, <1>5, <2>1, <2>2 DEF UnderWay, SignOutCancelled
<1>10. /\ worker' \in [Op -> WorkerType] /\ worker'[o] = "dropped"
       /\ \A p \in Op \ {o} : worker'[p] = worker[p]
  BY <1>1, SignInGoIs DEF EndSignOut, WorkerType
<1>11. breaks' \in 0 .. MaxBreaks /\ breaks' > 0
  BY <1>1, SignInBreakIs DEF EndSignOut
<1>12. file' \in BOOLEAN /\ (file' => file)
  <2>1. CASE file' = file
    BY <1>1, <2>1 DEF TypeOK
  <2>2. CASE file' = FALSE
    BY <2>2
  <2> QED
    BY <2>1, <2>2 DEF EndSignOut
<1> USE <1>1, <1>2, <1>3, <1>4, <1>5, <1>6, <1>7, <1>8, <1>9, <1>10, <1>11, <1>12
<1>13. TypeOK'
  BY DEF TypeOK
<1>14. SignOutCancelled => SignOutCancelled'
  BY DEF SignOutCancelled, UnderWay
<1>15. ActiveIsOpen'
  BY <1>14 DEF ActiveIsOpen, Open
<1>16. PairInv'
  BY <1>14 DEF PairInv, Withdraws, Cleaning, HandlerSignsOut, HandlerAt, Idle
<1>17. SlotInv'
  BY <1>14 DEF SlotInv, UnderWay, HandlerSlot, OpSlot
<1>18. DownInv'
  BY <1>14 DEF DownInv, Running
<1>19. FileInv'
  BY <1>14
    DEF FileInv, ShownSessionExists, SessionHasCredential, NoSilentCredential,
        AssumedForAReason, Open, UnderWay, Running, ActiveIsOpen, Unseen
<1>20. ASSUME NEW p \in Op PROVE OpInv(p)'
  <2>1. OpAt(p) /\ OpPending(p) /\ OpSlot(p) /\ OpPhase(p)
      /\ OpPresent(p) /\ OpFile(p) /\ OpLeaves(p)
    BY <1>1
  <2> USE <1>20, <2>1, <1>14
  <2>2. OpAt(p)'
    BY DEF OpAt, LoginSteps, LeavingSteps, UnderWay
  <2>3. OpPending(p)'
    BY DEF OpPending, Matches, UnderWay
  <2>4. OpSlot(p)'
    BY DEF OpSlot, Generation
  <2>5. OpPhase(p)'
    BY DEF OpPhase, SigningIn, UnderWay
  <2>6. OpPresent(p)'
    BY DEF OpPresent, OpSlot, Unseen
  <2>7. OpFile(p)'
    BY DEF OpFile, OpPhase, SigningIn, UnderWay, Accounted, Unlooked
  <2>8. OpLeaves(p)'
    BY DEF OpLeaves, LeavingSteps, Past, UnderWay, Generation
  <2> QED
    BY <2>2, <2>3, <2>4, <2>5, <2>6, <2>7, <2>8 DEF OpInv
<1>21. ASSUME NEW k \in Handler PROVE HandlerInv(k)'
  <2>1. HandlerAt(k) /\ HandlerLease(k) /\ HandlerSignsOut(k) /\ HandlerSlot(k)
      /\ HandlerNeeds(k) /\ HandlerMarks(k) /\ HandlerPresent(k) /\ HandlerFile(k)
    BY <1>1
  <2> USE <1>21, <2>1, <1>14
  <2>2. HandlerAt(k)'
    BY DEF HandlerAt, Withdraws, SigningOut, Cleaning, Idle, UnderWay
  <2>3. HandlerLease(k)'
    BY DEF HandlerLease, Withdraws, UnderWay
  <2>4. HandlerSignsOut(k)'
    BY DEF HandlerSignsOut, Cleaning, UnderWay
  <2>5. HandlerSlot(k)'
    BY DEF HandlerSlot, Target, SigningOut, Cleaning, Generation, Past, UnderWay
  <2>6. HandlerNeeds(k)'
    BY DEF HandlerNeeds, Withdraws, SigningOut, Cleaning
  <2>7. HandlerMarks(k)'
    BY DEF HandlerMarks, SigningOut, Cleaning
  <2>8. HandlerPresent(k)'
    BY DEF HandlerPresent, HandlerAt, Withdraws, SigningOut, Unseen, Cleaning
  <2>9. HandlerFile(k)'
    BY DEF HandlerFile, HandlerAt, Withdraws, Cleaning
  <2> QED
    BY <2>2, <2>3, <2>4, <2>5, <2>6, <2>7, <2>8, <2>9 DEF HandlerInv
<1> QED
  BY <1>13, <1>15, <1>16, <1>17, <1>18, <1>19, <1>20, <1>21 DEF SignInInv

(* A handler that goes on to a step at which it has nothing in hand, or fails, *)
(* keeps SignInInv.                                                            *)
LEMMA SignInHandlerMovesKeeps ==
  ASSUME SignInInv, SignInAssumption, NEW h \in Handler, NEW pc \in {"failed", "refused", "reserve"},
         handler[h].pc \in {"register", "stop", "wait", "reserve", "logout", "confirm"}, To(h, pc),
         pc = "reserve" => handler[h].pc \in {"stop", "wait"},
         pc # "reserve" => (pc = "refused" <=> handler[h].kind = "logout"),
         UNCHANGED <<registered, backend, server, worker, told>>,
         breaks' \in 0 .. MaxBreaks, breaks > 0 => breaks' > 0
  PROVE  SignInInv'
<1>1. /\ TypeOK /\ ActiveIsOpen /\ PairInv /\ SlotInv /\ DownInv /\ FileInv
      /\ \A p \in Op : /\ OpAt(p) /\ OpPending(p) /\ OpSlot(p) /\ OpPhase(p)
                       /\ OpPresent(p) /\ OpFile(p) /\ OpLeaves(p)
      /\ \A k \in Handler : /\ HandlerAt(k) /\ HandlerLease(k) /\ HandlerSignsOut(k)
                            /\ HandlerSlot(k) /\ HandlerNeeds(k) /\ HandlerMarks(k)
                            /\ HandlerPresent(k) /\ HandlerFile(k)
  BY DEF SignInInv, OpInv, HandlerInv
<1>2. /\ conn.active \in Op \cup {Nobody} /\ (phase # Nobody => phase.op \in Op)
      /\ \A x \in Op \cup Handler : target[x] \in Op \cup {Nobody}
      /\ \A k \in Handler : k \notin Op /\ k # Nobody
      /\ \A p \in Op : p # Nobody
      /\ \A k \in Handler :
           /\ handler[k].kind \in {"none", "cancel", "disable", "close", "logout", "delete"}
           /\ handler[k].pc \in Cleaning =>
                /\ handler[k].kind \in {"cancel", "disable", "close", "logout", "delete"}
                /\ handler[k].kind # "delete" => handler[k].op \in Op /\ op[handler[k].op] # Nobody
  BY SignInApart, SignInWithdrawers, SignInTyped
<1>3. UNCHANGED <<conn, op, lease, slot, phase, poisoned, file, alive, life, target, worker, told>>
  BY DEF registered, backend, server
<1>4. /\ handler' \in [Handler -> HandlerType]
      /\ handler'[h].pc = pc /\ handler'[h].kind = handler[h].kind
      /\ handler'[h].op = handler[h].op /\ handler'[h].own = handler[h].own
      /\ handler'[h].required = handler[h].required
      /\ \A k \in Handler \ {h} : handler'[k] = handler[k]
  BY <1>1, SignInToIs
<1>5. /\ handler[h].kind \in {"cancel", "disable", "close", "logout", "delete"}
      /\ handler[h].kind # "delete" =>
           handler[h].op \in Op /\ op[handler[h].op] # Nobody /\ ~UnderWay(handler[h].op)
      /\ handler[h].kind # "logout" => \A p \in Op : ~UnderWay(p)
      /\ alive # "down"
      /\ \A p \in Op : UnderWay(p) /\ worker[p] # "none" => SignOutCancelled
  BY SignInCleaningIs DEF Cleaning
<1>6. pc = "reserve" => Past(Target(h))
  <2>1. CASE handler[h].pc = "wait"
    BY <1>1, <2>1 DEF HandlerSlot
  <2>2. CASE pc = "reserve" /\ handler[h].pc = "stop"
    BY <1>1, <1>5, <2>2 DEF HandlerAt, Target, SigningOut, Past
  <2> QED
    BY <2>1, <2>2
<1> USE <1>1, <1>2, <1>3, <1>4, <1>5, <1>6
<1>7. TypeOK'
  BY DEF TypeOK
<1>8. SignOutCancelled => SignOutCancelled'
  BY DEF SignOutCancelled, UnderWay
<1>9. ActiveIsOpen'
  BY <1>8 DEF ActiveIsOpen, Open
<1>10. PairInv'
  BY <1>8 DEF PairInv, Withdraws, Cleaning, HandlerSignsOut, HandlerAt, Idle
<1>11. SlotInv'
  BY <1>8 DEF SlotInv, UnderWay, HandlerSlot, OpSlot
<1>12. DownInv'
  BY <1>8 DEF DownInv, Running
<1>13. FileInv'
  BY <1>8
    DEF FileInv, ShownSessionExists, SessionHasCredential, NoSilentCredential,
        AssumedForAReason, Open, UnderWay, Running, ActiveIsOpen, Unseen
<1>14. ASSUME NEW p \in Op PROVE OpInv(p)'
  <2>1. OpAt(p) /\ OpPending(p) /\ OpSlot(p) /\ OpPhase(p)
      /\ OpPresent(p) /\ OpFile(p) /\ OpLeaves(p)
    BY <1>1
  <2> USE <1>14, <2>1, <1>8
  <2>2. OpAt(p)'
    BY DEF OpAt, LoginSteps, LeavingSteps, UnderWay
  <2>3. OpPending(p)'
    BY DEF OpPending, Matches, UnderWay
  <2>4. OpSlot(p)'
    BY DEF OpSlot, Generation
  <2>5. OpPhase(p)'
    BY DEF OpPhase, SigningIn, UnderWay
  <2>6. OpPresent(p)'
    BY DEF OpPresent, OpSlot, Unseen
  <2>7. OpFile(p)'
    BY DEF OpFile, OpPhase, SigningIn, UnderWay, Accounted, Unlooked
  <2>8. OpLeaves(p)'
    BY DEF OpLeaves, LeavingSteps, Past, UnderWay, Generation
  <2> QED
    BY <2>2, <2>3, <2>4, <2>5, <2>6, <2>7, <2>8 DEF OpInv
<1>15. ASSUME NEW k \in Handler PROVE HandlerInv(k)'
  <2>1. HandlerAt(k) /\ HandlerLease(k) /\ HandlerSignsOut(k) /\ HandlerSlot(k)
      /\ HandlerNeeds(k) /\ HandlerMarks(k) /\ HandlerPresent(k) /\ HandlerFile(k)
    BY <1>1
  <2> USE <1>15, <2>1, <1>8
  <2>2. HandlerAt(k)'
    BY DEF HandlerAt, Withdraws, SigningOut, Cleaning, Idle, UnderWay
  <2>3. HandlerLease(k)'
    BY DEF HandlerLease, Withdraws, UnderWay
  <2>4. HandlerSignsOut(k)'
    BY DEF HandlerSignsOut, Cleaning, UnderWay
  <2>5. HandlerSlot(k)'
    BY DEF HandlerSlot, Target, SigningOut, Cleaning, Generation, Past, UnderWay
  <2>6. HandlerNeeds(k)'
    BY DEF HandlerNeeds, Withdraws, SigningOut, Cleaning
  <2>7. HandlerMarks(k)'
    BY DEF HandlerMarks, SigningOut, Cleaning
  <2>8. HandlerPresent(k)'
    BY DEF HandlerPresent, HandlerAt, Withdraws, SigningOut, Unseen, Cleaning
  <2>9. HandlerFile(k)'
    BY DEF HandlerFile, HandlerAt, Withdraws, Cleaning
  <2> QED
    BY <2>2, <2>3, <2>4, <2>5, <2>6, <2>7, <2>8, <2>9 DEF HandlerInv
<1> QED
  BY <1>7, <1>9, <1>10, <1>11, <1>12, <1>13, <1>14, <1>15 DEF SignInInv

\* A sign-out whose handler returns with its operation resolved or unsaved keeps SignInInv.
LEMMA SignInHandlerEndsKeeps ==
  ASSUME SignInInv, SignInAssumption, NEW h \in Handler, handler[h].kind = "logout", handler[h].pc = "refused", handler' = [handler EXCEPT ![h] = Idle],
         UNCHANGED <<registered, backend, server, worker, told>>,
         breaks' \in 0 .. MaxBreaks, breaks > 0 => breaks' > 0
  PROVE  SignInInv'
<1>1. /\ TypeOK /\ ActiveIsOpen /\ PairInv /\ SlotInv /\ DownInv /\ FileInv
      /\ \A p \in Op : /\ OpAt(p) /\ OpPending(p) /\ OpSlot(p) /\ OpPhase(p)
                       /\ OpPresent(p) /\ OpFile(p) /\ OpLeaves(p)
      /\ \A k \in Handler : /\ HandlerAt(k) /\ HandlerLease(k) /\ HandlerSignsOut(k)
                            /\ HandlerSlot(k) /\ HandlerNeeds(k) /\ HandlerMarks(k)
                            /\ HandlerPresent(k) /\ HandlerFile(k)
  BY DEF SignInInv, OpInv, HandlerInv
<1>2. /\ conn.active \in Op \cup {Nobody} /\ (phase # Nobody => phase.op \in Op)
      /\ \A x \in Op \cup Handler : target[x] \in Op \cup {Nobody}
      /\ \A k \in Handler : k \notin Op /\ k # Nobody
      /\ \A p \in Op : p # Nobody
      /\ \A k \in Handler :
           /\ handler[k].kind \in {"none", "cancel", "disable", "close", "logout", "delete"}
           /\ handler[k].pc \in Cleaning =>
                /\ handler[k].kind \in {"cancel", "disable", "close", "logout", "delete"}
                /\ handler[k].kind # "delete" => handler[k].op \in Op /\ op[handler[k].op] # Nobody
  BY SignInApart, SignInWithdrawers, SignInTyped
<1>3. UNCHANGED <<conn, op, lease, slot, phase, poisoned, file, alive, life, target, worker, told>>
  BY DEF registered, backend, server
<1>4. /\ handler' \in [Handler -> HandlerType]
      /\ handler'[h] = Idle /\ handler'[h].pc = "idle" /\ handler'[h].kind = "none"
      /\ \A k \in Handler \ {h} : handler'[k] = handler[k]
  BY <1>1, SignInIdleIs
<1> USE <1>1, <1>2, <1>3, <1>4
<1>5. TypeOK'
  BY DEF TypeOK
<1>6. SignOutCancelled => SignOutCancelled'
  BY DEF SignOutCancelled, UnderWay
<1>7. ActiveIsOpen'
  BY <1>6 DEF ActiveIsOpen, Open
<1>8. PairInv'
  BY <1>6 DEF PairInv, Withdraws, Cleaning, HandlerSignsOut, HandlerAt, Idle
<1>9. SlotInv'
  BY <1>6 DEF SlotInv, UnderWay, HandlerSlot, OpSlot
<1>10. DownInv'
  BY <1>6 DEF DownInv, Running
<1>11. FileInv'
  BY <1>6
    DEF FileInv, ShownSessionExists, SessionHasCredential, NoSilentCredential,
        AssumedForAReason, Open, UnderWay, Running, ActiveIsOpen, Unseen
<1>12. ASSUME NEW p \in Op PROVE OpInv(p)'
  <2>1. OpAt(p) /\ OpPending(p) /\ OpSlot(p) /\ OpPhase(p)
      /\ OpPresent(p) /\ OpFile(p) /\ OpLeaves(p)
    BY <1>1
  <2> USE <1>12, <2>1, <1>6
  <2>2. OpAt(p)'
    BY DEF OpAt, LoginSteps, LeavingSteps, UnderWay
  <2>3. OpPending(p)'
    BY DEF OpPending, Matches, UnderWay
  <2>4. OpSlot(p)'
    BY DEF OpSlot, Generation
  <2>5. OpPhase(p)'
    BY DEF OpPhase, SigningIn, UnderWay
  <2>6. OpPresent(p)'
    BY DEF OpPresent, OpSlot, Unseen
  <2>7. OpFile(p)'
    BY DEF OpFile, OpPhase, SigningIn, UnderWay, Accounted, Unlooked
  <2>8. OpLeaves(p)'
    BY DEF OpLeaves, LeavingSteps, Past, UnderWay, Generation
  <2> QED
    BY <2>2, <2>3, <2>4, <2>5, <2>6, <2>7, <2>8 DEF OpInv
<1>13. ASSUME NEW k \in Handler PROVE HandlerInv(k)'
  <2>1. HandlerAt(k) /\ HandlerLease(k) /\ HandlerSignsOut(k) /\ HandlerSlot(k)
      /\ HandlerNeeds(k) /\ HandlerMarks(k) /\ HandlerPresent(k) /\ HandlerFile(k)
    BY <1>1
  <2> USE <1>13, <2>1, <1>6
  <2>2. HandlerAt(k)'
    BY DEF HandlerAt, Withdraws, SigningOut, Cleaning, Idle, UnderWay
  <2>3. HandlerLease(k)'
    BY DEF HandlerLease, Withdraws, UnderWay
  <2>4. HandlerSignsOut(k)'
    BY DEF HandlerSignsOut, Cleaning, UnderWay
  <2>5. HandlerSlot(k)'
    BY DEF HandlerSlot, Target, SigningOut, Cleaning, Generation, Past, UnderWay
  <2>6. HandlerNeeds(k)'
    BY DEF HandlerNeeds, Withdraws, SigningOut, Cleaning
  <2>7. HandlerMarks(k)'
    BY DEF HandlerMarks, SigningOut, Cleaning
  <2>8. HandlerPresent(k)'
    BY DEF HandlerPresent, HandlerAt, Withdraws, SigningOut, Unseen, Cleaning
  <2>9. HandlerFile(k)'
    BY DEF HandlerFile, HandlerAt, Withdraws, Cleaning
  <2> QED
    BY <2>2, <2>3, <2>4, <2>5, <2>6, <2>7, <2>8, <2>9 DEF HandlerInv
<1> QED
  BY <1>5, <1>7, <1>8, <1>9, <1>10, <1>11, <1>12, <1>13 DEF SignInInv

\* Register keeps SignInInv when the backend takes the generation.
LEMMA SignInRegisterKeeps ==
  ASSUME SignInInv, SignInAssumption, NEW h \in Handler, Register(h), alive # "shut",
         \/ slot = Nobody /\ phase = Nobody
         \/ /\ phase # Nobody /\ phase.op = handler[h].op
            /\ slot # Nobody => slot.kind \in {"auth", "prepare"} /\ slot.by = handler[h].op
  PROVE  SignInInv'
<1>1. /\ TypeOK /\ ActiveIsOpen /\ PairInv /\ SlotInv /\ DownInv /\ FileInv
      /\ \A p \in Op : /\ OpAt(p) /\ OpPending(p) /\ OpSlot(p) /\ OpPhase(p)
                       /\ OpPresent(p) /\ OpFile(p) /\ OpLeaves(p)
      /\ \A k \in Handler : /\ HandlerAt(k) /\ HandlerLease(k) /\ HandlerSignsOut(k)
                            /\ HandlerSlot(k) /\ HandlerNeeds(k) /\ HandlerMarks(k)
                            /\ HandlerPresent(k) /\ HandlerFile(k)
  BY DEF SignInInv, OpInv, HandlerInv
<1>2. /\ conn.active \in Op \cup {Nobody} /\ (phase # Nobody => phase.op \in Op)
      /\ \A x \in Op \cup Handler : target[x] \in Op \cup {Nobody}
      /\ \A k \in Handler : k \notin Op /\ k # Nobody
      /\ \A p \in Op : p # Nobody
      /\ \A k \in Handler :
           /\ handler[k].kind \in {"none", "cancel", "disable", "close", "logout", "delete"}
           /\ handler[k].pc \in Cleaning =>
                /\ handler[k].kind \in {"cancel", "disable", "close", "logout", "delete"}
                /\ handler[k].kind # "delete" => handler[k].op \in Op /\ op[handler[k].op] # Nobody
  BY SignInApart, SignInWithdrawers, SignInTyped
<1>3. UNCHANGED <<conn, op, lease, slot, poisoned, file, alive, life, target, worker, told, breaks>>
  BY DEF Register, registered, backend, server
<1>4. handler[h].pc = "register" /\ alive # "down"
  BY DEF Register, Running
<1>5. /\ handler[h].kind \in {"cancel", "disable", "close", "logout", "delete"}
      /\ handler[h].kind # "delete" =>
           handler[h].op \in Op /\ op[handler[h].op] # Nobody /\ ~UnderWay(handler[h].op)
      /\ handler[h].kind # "logout" => \A p \in Op : ~UnderWay(p)
      /\ alive # "down"
      /\ \A p \in Op : UnderWay(p) /\ worker[p] # "none" => SignOutCancelled
  BY <1>4, SignInCleaningIs DEF Cleaning
<1>6. /\ handler' \in [Handler -> HandlerType]
      /\ handler'[h].pc = "stop" /\ handler'[h].kind = handler[h].kind
      /\ handler'[h].op = handler[h].op /\ handler'[h].own = handler[h].own
      /\ handler'[h].required = handler[h].required
      /\ \A k \in Handler \ {h} : handler'[k] = handler[k]
  BY <1>1, SignInToIs DEF Register
<1>7. /\ ~SigningOut(h) /\ handler[h].kind # "delete" /\ handler[h].op \in Op
      /\ handler[h].kind = "logout" => handler[h].required /\ conn.active # handler[h].op
      /\ handler[h].kind # "logout" => Withdraws(h)
  <2>1. ~SigningOut(h) /\ handler[h].kind # "delete" /\ handler[h].op \in Op
    BY <1>1, <1>4, <1>5 DEF HandlerAt, SigningOut
  <2>2. handler[h].kind = "logout" => handler[h].required /\ op[handler[h].op].state = "cancelled"
    BY <1>1, <1>4 DEF HandlerPresent, HandlerSignsOut, Cleaning
  <2>3. handler[h].kind = "logout" => conn.active # handler[h].op
    BY <1>1, <1>2, <2>1, <2>2 DEF ActiveIsOpen, Open
  <2> QED
    BY <1>4, <1>5, <2>1, <2>2, <2>3 DEF Withdraws
<1>8. /\ phase' \in PhaseType /\ phase' # Nobody /\ phase'.op = handler[h].op
      /\ phase'.at = "registered" <=> ~handler[h].required /\ (phase = Nobody \/ phase.at = "registered")
      /\ phase # Nobody /\ phase.at # "registered" => phase'.at = phase.at
      /\ phase'.at = "prepared" => phase # Nobody /\ phase.at = "prepared"
  <2> DEFINE a == CASE phase = Nobody /\ ~handler[h].required -> "registered"
                  [] handler[h].required /\ (phase = Nobody \/ phase.at = "registered")
                       -> "cleanup_required"
                  [] OTHER -> phase.at
  <2>1. phase # Nobody => phase.at \in {"registered", "prepared", "cleanup_required", "settled"}
    BY <1>1 DEF TypeOK, PhaseType
  <2>2. /\ a \in {"registered", "prepared", "cleanup_required", "settled"}
        /\ a = "registered" <=> ~handler[h].required /\ (phase = Nobody \/ phase.at = "registered")
        /\ phase # Nobody /\ phase.at # "registered" => a = phase.at
        /\ a = "prepared" => phase # Nobody /\ phase.at = "prepared"
    BY <2>1
  <2>3. phase' = [op |-> handler[h].op, at |-> a]
    BY <1>4 DEF Register
  <2> HIDE DEF a
  <2>4. phase' \in PhaseType /\ phase'.op = handler[h].op /\ phase'.at = a
    BY <1>7, <2>2, <2>3 DEF PhaseType
  <2> QED
    BY SignInApart, <2>2, <2>4
<1>9. \A k \in Handler \ {h} : /\ handler[k].pc \in Cleaning /\ ~SigningOut(k)
                               /\ handler[k].kind # "delete" /\ handler[k].op = handler[h].op
                               => \/ handler[h].kind = "logout" /\ handler[k].kind = "logout"
                                  \/ handler[k].required = handler[h].required
  <2> SUFFICES ASSUME NEW k \in Handler \ {h}, handler[k].pc \in Cleaning, ~SigningOut(k),
                      handler[k].kind # "delete", handler[k].op = handler[h].op
               PROVE  \/ handler[h].kind = "logout" /\ handler[k].kind = "logout"
                      \/ handler[k].required = handler[h].required
    OBVIOUS
  <2>1. handler[k].kind # "logout" => Withdraws(k)
    BY <1>2 DEF Withdraws, Cleaning
  <2>2. handler[h].kind = "logout" <=> handler[k].kind = "logout"
    BY <1>1, <1>4, <1>7, <2>1 DEF PairInv, Cleaning
  <2>3. CASE handler[h].kind = "logout"
    BY <2>2, <2>3
  <2>4. CASE handler[h].kind # "logout"
    <3>1. (handler[h].required <=> ~conn.present) /\ (handler[k].required <=> ~conn.present)
      BY <1>1, <1>4, <1>7, <2>2, <2>4 DEF HandlerNeeds, Cleaning
    <3>2. handler[h].required \in BOOLEAN /\ handler[k].required \in BOOLEAN
      BY <1>1 DEF TypeOK, HandlerType
    <3> QED
      BY <3>1, <3>2
  <2> QED
    BY <2>3, <2>4
<1>10. \A p \in Op : SigningIn(p) => worker[p] = "done"
  BY <1>1, <1>4, <1>5, <1>7 DEF OpPhase, SigningIn
<1>11. /\ ~handler[h].required => worker[handler[h].op] \notin {"erase", "erasing", "login", "session", "installed"}
       /\ conn.active = handler[h].op /\ conn.present => ~handler[h].required
       /\ conn.active = handler[h].op /\ conn.present /\ phase # Nobody => phase.at = "registered"
  <2>1. HandlerNeeds(h) /\ OpPresent(handler[h].op)
    BY <1>1, <1>7
  <2>2. handler[h].kind = "logout" => handler[h].required /\ conn.active # handler[h].op
    BY <1>7
  <2>3. phase # Nobody => phase.op = handler[h].op
    OBVIOUS
  <2> QED
    BY <1>4, <1>7, <2>1, <2>2, <2>3 DEF HandlerNeeds, OpPresent, Cleaning
<1> USE <1>1, <1>2, <1>3, <1>4, <1>5, <1>6, <1>7, <1>8, <1>9, <1>10, <1>11
<1>12. TypeOK'
  BY DEF TypeOK
<1>13. SignOutCancelled => SignOutCancelled'
  BY DEF SignOutCancelled, UnderWay
<1>14. ActiveIsOpen'
  BY <1>13 DEF ActiveIsOpen, Open
<1>15. PairInv'
  BY <1>13 DEF PairInv, Withdraws, Cleaning, HandlerSignsOut, HandlerAt, Idle
<1>16. SlotInv'
  BY <1>13 DEF SlotInv, UnderWay, HandlerSlot, OpSlot
<1>17. DownInv'
  BY <1>13 DEF DownInv, Running
<1>18. FileInv'
  BY <1>13
    DEF FileInv, ShownSessionExists, SessionHasCredential, NoSilentCredential,
        AssumedForAReason, Open, UnderWay, Running, ActiveIsOpen, Unseen
<1>19. ASSUME NEW p \in Op PROVE OpInv(p)'
  <2>1. OpAt(p) /\ OpPending(p) /\ OpSlot(p) /\ OpPhase(p)
      /\ OpPresent(p) /\ OpFile(p) /\ OpLeaves(p)
    BY <1>1
  <2> USE <1>19, <2>1, <1>13
  <2>2. OpAt(p)'
    BY DEF OpAt, LoginSteps, LeavingSteps, UnderWay
  <2>3. OpPending(p)'
    BY DEF OpPending, Matches, UnderWay
  <2>4. OpSlot(p)'
    BY DEF OpSlot, Generation
  <2>5. OpPhase(p)'
    BY DEF OpPhase, SigningIn, UnderWay
  <2>6. OpPresent(p)'
    BY DEF OpPresent, OpSlot, Unseen
  <2>7. OpFile(p)'
    BY DEF OpFile, OpPhase, SigningIn, UnderWay, Accounted, Unlooked
  <2>8. OpLeaves(p)'
    BY DEF OpLeaves, LeavingSteps, Past, UnderWay, Generation
  <2> QED
    BY <2>2, <2>3, <2>4, <2>5, <2>6, <2>7, <2>8 DEF OpInv
<1>20. ASSUME NEW k \in Handler PROVE HandlerInv(k)'
  <2>1. HandlerAt(k) /\ HandlerLease(k) /\ HandlerSignsOut(k) /\ HandlerSlot(k)
      /\ HandlerNeeds(k) /\ HandlerMarks(k) /\ HandlerPresent(k) /\ HandlerFile(k)
    BY <1>1
  <2> USE <1>20, <2>1, <1>13
  <2>2. HandlerAt(k)'
    BY DEF HandlerAt, Withdraws, SigningOut, Cleaning, Idle, UnderWay
  <2>3. HandlerLease(k)'
    BY DEF HandlerLease, Withdraws, UnderWay
  <2>4. HandlerSignsOut(k)'
    BY DEF HandlerSignsOut, Cleaning, UnderWay
  <2>5. HandlerSlot(k)'
    BY DEF HandlerSlot, Target, SigningOut, Cleaning, Generation, Past, UnderWay
  <2>6. HandlerNeeds(k)'
    BY DEF HandlerNeeds, Withdraws, SigningOut, Cleaning
  <2>7. HandlerMarks(k)'
    BY DEF HandlerMarks, SigningOut, Cleaning
  <2>8. HandlerPresent(k)'
    BY DEF HandlerPresent, HandlerAt, Withdraws, SigningOut, Unseen, Cleaning
  <2>9. HandlerFile(k)'
    BY DEF HandlerFile, HandlerAt, Withdraws, Cleaning
  <2> QED
    BY <2>2, <2>3, <2>4, <2>5, <2>6, <2>7, <2>8, <2>9 DEF HandlerInv
<1> QED
  BY <1>12, <1>14, <1>15, <1>16, <1>17, <1>18, <1>19, <1>20 DEF SignInInv

\* StopWorker keeps SignInInv when it signals the worker.
LEMMA SignInStopWorkerKeeps ==
  ASSUME SignInInv, SignInAssumption, NEW h \in Handler, StopWorker(h), phase # Nobody, phase.op = handler[h].op, slot # Nobody,
         slot.by = handler[h].op
  PROVE  SignInInv'
<1>1. /\ TypeOK /\ ActiveIsOpen /\ PairInv /\ SlotInv /\ DownInv /\ FileInv
      /\ \A p \in Op : /\ OpAt(p) /\ OpPending(p) /\ OpSlot(p) /\ OpPhase(p)
                       /\ OpPresent(p) /\ OpFile(p) /\ OpLeaves(p)
      /\ \A k \in Handler : /\ HandlerAt(k) /\ HandlerLease(k) /\ HandlerSignsOut(k)
                            /\ HandlerSlot(k) /\ HandlerNeeds(k) /\ HandlerMarks(k)
                            /\ HandlerPresent(k) /\ HandlerFile(k)
  BY DEF SignInInv, OpInv, HandlerInv
<1>2. /\ conn.active \in Op \cup {Nobody} /\ (phase # Nobody => phase.op \in Op)
      /\ \A x \in Op \cup Handler : target[x] \in Op \cup {Nobody}
      /\ \A k \in Handler : k \notin Op /\ k # Nobody
      /\ \A p \in Op : p # Nobody
      /\ \A k \in Handler :
           /\ handler[k].kind \in {"none", "cancel", "disable", "close", "logout", "delete"}
           /\ handler[k].pc \in Cleaning =>
                /\ handler[k].kind \in {"cancel", "disable", "close", "logout", "delete"}
                /\ handler[k].kind # "delete" => handler[k].op \in Op /\ op[handler[k].op] # Nobody
  BY SignInApart, SignInWithdrawers, SignInTyped
<1>3. UNCHANGED <<conn, op, lease, phase, poisoned, file, alive, life, target, worker, told, breaks>>
  BY DEF StopWorker, registered, backend, server
<1>4. handler[h].pc = "stop" /\ alive # "down"
  BY DEF StopWorker, Running
<1>5. /\ handler[h].kind \in {"cancel", "disable", "close", "logout", "delete"}
      /\ handler[h].kind # "delete" =>
           handler[h].op \in Op /\ op[handler[h].op] # Nobody /\ ~UnderWay(handler[h].op)
      /\ handler[h].kind # "logout" => \A p \in Op : ~UnderWay(p)
      /\ alive # "down"
      /\ \A p \in Op : UnderWay(p) /\ worker[p] # "none" => SignOutCancelled
  BY <1>4, SignInCleaningIs DEF Cleaning
<1>6. /\ handler' \in [Handler -> HandlerType]
      /\ handler'[h].pc = "wait" /\ handler'[h].kind = handler[h].kind
      /\ handler'[h].op = handler[h].op /\ handler'[h].own = handler[h].own
      /\ handler'[h].required = handler[h].required
      /\ \A k \in Handler \ {h} : handler'[k] = handler[k]
  BY <1>1, SignInToIs DEF StopWorker
<1>7. /\ slot' \in SlotType /\ slot' # Nobody /\ slot'.kind = slot.kind /\ slot'.by = slot.by
  BY <1>1, SignInStopIs DEF StopWorker
<1>8. ~SigningOut(h) /\ handler[h].kind # "delete"
  BY <1>1, <1>4 DEF HandlerAt, SigningOut
<1> USE <1>1, <1>2, <1>3, <1>4, <1>5, <1>6, <1>7, <1>8
<1>9. TypeOK'
  BY DEF TypeOK
<1>10. SignOutCancelled => SignOutCancelled'
  BY DEF SignOutCancelled, UnderWay
<1>11. ActiveIsOpen'
  BY <1>10 DEF ActiveIsOpen, Open
<1>12. PairInv'
  BY <1>10 DEF PairInv, Withdraws, Cleaning, HandlerSignsOut, HandlerAt, Idle
<1>13. SlotInv'
  BY <1>10 DEF SlotInv, UnderWay, HandlerSlot, OpSlot
<1>14. DownInv'
  BY <1>10 DEF DownInv, Running
<1>15. FileInv'
  BY <1>10
    DEF FileInv, ShownSessionExists, SessionHasCredential, NoSilentCredential,
        AssumedForAReason, Open, UnderWay, Running, ActiveIsOpen, Unseen
<1>16. ASSUME NEW p \in Op PROVE OpInv(p)'
  <2>1. OpAt(p) /\ OpPending(p) /\ OpSlot(p) /\ OpPhase(p)
      /\ OpPresent(p) /\ OpFile(p) /\ OpLeaves(p)
    BY <1>1
  <2> USE <1>16, <2>1, <1>10
  <2>2. OpAt(p)'
    BY DEF OpAt, LoginSteps, LeavingSteps, UnderWay
  <2>3. OpPending(p)'
    BY DEF OpPending, Matches, UnderWay
  <2>4. OpSlot(p)'
    BY DEF OpSlot, Generation
  <2>5. OpPhase(p)'
    BY DEF OpPhase, SigningIn, UnderWay
  <2>6. OpPresent(p)'
    BY DEF OpPresent, OpSlot, Unseen
  <2>7. OpFile(p)'
    BY DEF OpFile, OpPhase, SigningIn, UnderWay, Accounted, Unlooked
  <2>8. OpLeaves(p)'
    BY DEF OpLeaves, LeavingSteps, Past, UnderWay, Generation
  <2> QED
    BY <2>2, <2>3, <2>4, <2>5, <2>6, <2>7, <2>8 DEF OpInv
<1>17. ASSUME NEW k \in Handler PROVE HandlerInv(k)'
  <2>1. HandlerAt(k) /\ HandlerLease(k) /\ HandlerSignsOut(k) /\ HandlerSlot(k)
      /\ HandlerNeeds(k) /\ HandlerMarks(k) /\ HandlerPresent(k) /\ HandlerFile(k)
    BY <1>1
  <2> USE <1>17, <2>1, <1>10
  <2>2. HandlerAt(k)'
    BY DEF HandlerAt, Withdraws, SigningOut, Cleaning, Idle, UnderWay
  <2>3. HandlerLease(k)'
    BY DEF HandlerLease, Withdraws, UnderWay
  <2>4. HandlerSignsOut(k)'
    BY DEF HandlerSignsOut, Cleaning, UnderWay
  <2>5. HandlerSlot(k)'
    BY DEF HandlerSlot, Target, SigningOut, Cleaning, Generation, Past, UnderWay
  <2>6. HandlerNeeds(k)'
    BY DEF HandlerNeeds, Withdraws, SigningOut, Cleaning
  <2>7. HandlerMarks(k)'
    BY DEF HandlerMarks, SigningOut, Cleaning
  <2>8. HandlerPresent(k)'
    BY DEF HandlerPresent, HandlerAt, Withdraws, SigningOut, Unseen, Cleaning
  <2>9. HandlerFile(k)'
    BY DEF HandlerFile, HandlerAt, Withdraws, Cleaning
  <2> QED
    BY <2>2, <2>3, <2>4, <2>5, <2>6, <2>7, <2>8, <2>9 DEF HandlerInv
<1> QED
  BY <1>9, <1>11, <1>12, <1>13, <1>14, <1>15, <1>16, <1>17 DEF SignInInv

\* SignOut keeps SignInInv when the handler looks for the generation.
LEMMA SignInSignOutKeeps ==
  ASSUME SignInInv, SignInAssumption, NEW h \in Handler, SignOut(h), slot = Nobody \/ slot.kind = "auth"
  PROVE  SignInInv'
<1>1. /\ TypeOK /\ ActiveIsOpen /\ PairInv /\ SlotInv /\ DownInv /\ FileInv
      /\ \A p \in Op : /\ OpAt(p) /\ OpPending(p) /\ OpSlot(p) /\ OpPhase(p)
                       /\ OpPresent(p) /\ OpFile(p) /\ OpLeaves(p)
      /\ \A k \in Handler : /\ HandlerAt(k) /\ HandlerLease(k) /\ HandlerSignsOut(k)
                            /\ HandlerSlot(k) /\ HandlerNeeds(k) /\ HandlerMarks(k)
                            /\ HandlerPresent(k) /\ HandlerFile(k)
  BY DEF SignInInv, OpInv, HandlerInv
<1>2. /\ conn.active \in Op \cup {Nobody} /\ (phase # Nobody => phase.op \in Op)
      /\ \A x \in Op \cup Handler : target[x] \in Op \cup {Nobody}
      /\ \A k \in Handler : k \notin Op /\ k # Nobody
      /\ \A p \in Op : p # Nobody
      /\ \A k \in Handler :
           /\ handler[k].kind \in {"none", "cancel", "disable", "close", "logout", "delete"}
           /\ handler[k].pc \in Cleaning =>
                /\ handler[k].kind \in {"cancel", "disable", "close", "logout", "delete"}
                /\ handler[k].kind # "delete" => handler[k].op \in Op /\ op[handler[k].op] # Nobody
  BY SignInApart, SignInWithdrawers, SignInTyped
<1>3. UNCHANGED <<conn, op, lease, phase, poisoned, file, alive, life, worker, told, breaks>>
  BY DEF SignOut, registered, backend, server
<1>4. handler[h].pc = "logout" /\ alive # "down"
  BY DEF SignOut, Running
<1>5. /\ handler[h].kind \in {"cancel", "disable", "close", "logout", "delete"}
      /\ handler[h].kind # "delete" =>
           handler[h].op \in Op /\ op[handler[h].op] # Nobody /\ ~UnderWay(handler[h].op)
      /\ handler[h].kind # "logout" => \A p \in Op : ~UnderWay(p)
      /\ alive # "down"
      /\ \A p \in Op : UnderWay(p) /\ worker[p] # "none" => SignOutCancelled
  BY <1>4, SignInCleaningIs DEF Cleaning
<1>6. \E pc \in {"wait", "reserve"} :
         /\ handler' \in [Handler -> HandlerType]
         /\ handler'[h].pc = pc /\ handler'[h].kind = handler[h].kind
         /\ handler'[h].op = handler[h].op /\ handler'[h].own = handler[h].own
         /\ handler'[h].required = handler[h].required
         /\ \A k \in Handler \ {h} : handler'[k] = handler[k]
  BY <1>1, SignInToIs DEF SignOut
<1>7. SigningOut(h) /\ handler[h].kind \notin {"logout", "disable"}
  BY <1>1, <1>4 DEF HandlerAt, SigningOut
<1>8. Generation \in Op \cup {Nobody} /\ Past(Generation)
  BY <1>1, <1>2, <1>5, <1>7 DEF Generation, Past, FileInv
<1>9. /\ target' \in [Op \cup Handler -> Op \cup {Nobody}] /\ target'[h] = Generation
      /\ \A x \in (Op \cup Handler) \ {h} : target'[x] = target[x]
  BY <1>1, <1>8 DEF SignOut, TypeOK
<1>10. /\ slot' \in SlotType \cup {Nobody} /\ (slot = Nobody <=> slot' = Nobody)
       /\ slot # Nobody => slot'.kind = "auth" /\ slot.kind = "auth" /\ slot'.by = slot.by
                           /\ ~UnderWay(slot.by)
  <2>1. CASE slot = Nobody
    BY <2>1 DEF SignOut
  <2>2. CASE slot # Nobody
    <3>1. slot' = [slot EXCEPT !.stop = TRUE]
      BY <2>2 DEF SignOut
    <3>2. slot' \in SlotType /\ slot' # Nobody /\ slot'.kind = slot.kind /\ slot'.by = slot.by
      BY <1>1, <2>2, <3>1, SignInStopIs
    <3>3. slot.by \in Op
      BY <1>1, <2>2 DEF SlotInv
    <3> QED
      BY <1>5, <1>7, <2>2, <3>2, <3>3
  <2> QED
    BY <2>1, <2>2
<1> USE <1>1, <1>2, <1>3, <1>4, <1>5, <1>6, <1>7, <1>8, <1>9, <1>10
<1>11. TypeOK'
  BY DEF TypeOK
<1>12. SignOutCancelled => SignOutCancelled'
  BY DEF SignOutCancelled, UnderWay
<1>13. ActiveIsOpen'
  BY <1>12 DEF ActiveIsOpen, Open
<1>14. PairInv'
  BY <1>12 DEF PairInv, Withdraws, Cleaning, HandlerSignsOut, HandlerAt, Idle
<1>15. SlotInv'
  BY <1>12 DEF SlotInv, UnderWay, HandlerSlot, OpSlot
<1>16. DownInv'
  BY <1>12 DEF DownInv, Running
<1>17. FileInv'
  BY <1>12
    DEF FileInv, ShownSessionExists, SessionHasCredential, NoSilentCredential,
        AssumedForAReason, Open, UnderWay, Running, ActiveIsOpen, Unseen
<1>18. ASSUME NEW p \in Op PROVE OpInv(p)'
  <2>1. OpAt(p) /\ OpPending(p) /\ OpSlot(p) /\ OpPhase(p)
      /\ OpPresent(p) /\ OpFile(p) /\ OpLeaves(p)
    BY <1>1
  <2> USE <1>18, <2>1, <1>12
  <2>2. OpAt(p)'
    BY DEF OpAt, LoginSteps, LeavingSteps, UnderWay
  <2>3. OpPending(p)'
    BY DEF OpPending, Matches, UnderWay
  <2>4. OpSlot(p)'
    BY DEF OpSlot, Generation
  <2>5. OpPhase(p)'
    BY DEF OpPhase, SigningIn, UnderWay
  <2>6. OpPresent(p)'
    BY DEF OpPresent, OpSlot, Unseen
  <2>7. OpFile(p)'
    BY DEF OpFile, OpPhase, SigningIn, UnderWay, Accounted, Unlooked
  <2>8. OpLeaves(p)'
    BY DEF OpLeaves, LeavingSteps, Past, UnderWay, Generation
  <2> QED
    BY <2>2, <2>3, <2>4, <2>5, <2>6, <2>7, <2>8 DEF OpInv
<1>19. ASSUME NEW k \in Handler PROVE HandlerInv(k)'
  <2>1. HandlerAt(k) /\ HandlerLease(k) /\ HandlerSignsOut(k) /\ HandlerSlot(k)
      /\ HandlerNeeds(k) /\ HandlerMarks(k) /\ HandlerPresent(k) /\ HandlerFile(k)
    BY <1>1
  <2> USE <1>19, <2>1, <1>12
  <2>2. HandlerAt(k)'
    BY DEF HandlerAt, Withdraws, SigningOut, Cleaning, Idle, UnderWay
  <2>3. HandlerLease(k)'
    BY DEF HandlerLease, Withdraws, UnderWay
  <2>4. HandlerSignsOut(k)'
    BY DEF HandlerSignsOut, Cleaning, UnderWay
  <2>5. HandlerSlot(k)'
    BY DEF HandlerSlot, Target, SigningOut, Cleaning, Generation, Past, UnderWay
  <2>6. HandlerNeeds(k)'
    BY DEF HandlerNeeds, Withdraws, SigningOut, Cleaning
  <2>7. HandlerMarks(k)'
    BY DEF HandlerMarks, SigningOut, Cleaning
  <2>8. HandlerPresent(k)'
    BY DEF HandlerPresent, HandlerAt, Withdraws, SigningOut, Unseen, Cleaning
  <2>9. HandlerFile(k)'
    BY DEF HandlerFile, HandlerAt, Withdraws, Cleaning
  <2> QED
    BY <2>2, <2>3, <2>4, <2>5, <2>6, <2>7, <2>8, <2>9 DEF HandlerInv
<1> QED
  BY <1>11, <1>13, <1>14, <1>15, <1>16, <1>17, <1>18, <1>19 DEF SignInInv

\* Reserve keeps SignInInv when the handler takes the slot.
LEMMA SignInReserveKeeps ==
  ASSUME SignInInv, SignInAssumption, NEW h \in Handler, Reserve(h), slot = Nobody, alive # "shut", Generation = Target(h)
  PROVE  SignInInv'
<1>1. /\ TypeOK /\ ActiveIsOpen /\ PairInv /\ SlotInv /\ DownInv /\ FileInv
      /\ \A p \in Op : /\ OpAt(p) /\ OpPending(p) /\ OpSlot(p) /\ OpPhase(p)
                       /\ OpPresent(p) /\ OpFile(p) /\ OpLeaves(p)
      /\ \A k \in Handler : /\ HandlerAt(k) /\ HandlerLease(k) /\ HandlerSignsOut(k)
                            /\ HandlerSlot(k) /\ HandlerNeeds(k) /\ HandlerMarks(k)
                            /\ HandlerPresent(k) /\ HandlerFile(k)
  BY DEF SignInInv, OpInv, HandlerInv
<1>2. /\ conn.active \in Op \cup {Nobody} /\ (phase # Nobody => phase.op \in Op)
      /\ \A x \in Op \cup Handler : target[x] \in Op \cup {Nobody}
      /\ \A k \in Handler : k \notin Op /\ k # Nobody
      /\ \A p \in Op : p # Nobody
      /\ \A k \in Handler :
           /\ handler[k].kind \in {"none", "cancel", "disable", "close", "logout", "delete"}
           /\ handler[k].pc \in Cleaning =>
                /\ handler[k].kind \in {"cancel", "disable", "close", "logout", "delete"}
                /\ handler[k].kind # "delete" => handler[k].op \in Op /\ op[handler[k].op] # Nobody
  BY SignInApart, SignInWithdrawers, SignInTyped
<1>3. UNCHANGED <<conn, op, lease, phase, poisoned, file, alive, life, target, worker, told, breaks>>
  BY DEF Reserve, registered, backend, server
<1>4. handler[h].pc = "reserve" /\ alive # "down"
  BY DEF Reserve, Running
<1>5. /\ handler[h].kind \in {"cancel", "disable", "close", "logout", "delete"}
      /\ handler[h].kind # "delete" =>
           handler[h].op \in Op /\ op[handler[h].op] # Nobody /\ ~UnderWay(handler[h].op)
      /\ handler[h].kind # "logout" => \A p \in Op : ~UnderWay(p)
      /\ alive # "down"
      /\ \A p \in Op : UnderWay(p) /\ worker[p] # "none" => SignOutCancelled
  BY <1>4, SignInCleaningIs DEF Cleaning
<1>6. /\ handler' \in [Handler -> HandlerType]
      /\ handler'[h].pc = "clear" /\ handler'[h].kind = handler[h].kind
      /\ handler'[h].op = handler[h].op /\ handler'[h].own = handler[h].own
      /\ handler'[h].required = handler[h].required
      /\ \A k \in Handler \ {h} : handler'[k] = handler[k]
  BY <1>1, SignInToIs DEF Reserve
<1>7. /\ slot' \in SlotType /\ slot' # Nobody
      /\ slot'.kind = "cleanup" /\ slot'.by = h /\ slot'.stop = FALSE
  BY SignInSlotIs DEF Reserve
<1> USE <1>1, <1>2, <1>3, <1>4, <1>5, <1>6, <1>7
<1>8. TypeOK'
  BY DEF TypeOK
<1>9. SignOutCancelled => SignOutCancelled'
  BY DEF SignOutCancelled, UnderWay
<1>10. ActiveIsOpen'
  BY <1>9 DEF ActiveIsOpen, Open
<1>11. PairInv'
  BY <1>9 DEF PairInv, Withdraws, Cleaning, HandlerSignsOut, HandlerAt, Idle
<1>12. SlotInv'
  BY <1>9 DEF SlotInv, UnderWay, HandlerSlot, OpSlot
<1>13. DownInv'
  BY <1>9 DEF DownInv, Running
<1>14. FileInv'
  BY <1>9
    DEF FileInv, ShownSessionExists, SessionHasCredential, NoSilentCredential,
        AssumedForAReason, Open, UnderWay, Running, ActiveIsOpen, Unseen
<1>15. ASSUME NEW p \in Op PROVE OpInv(p)'
  <2>1. OpAt(p) /\ OpPending(p) /\ OpSlot(p) /\ OpPhase(p)
      /\ OpPresent(p) /\ OpFile(p) /\ OpLeaves(p)
    BY <1>1
  <2> USE <1>15, <2>1, <1>9
  <2>2. OpAt(p)'
    BY DEF OpAt, LoginSteps, LeavingSteps, UnderWay
  <2>3. OpPending(p)'
    BY DEF OpPending, Matches, UnderWay
  <2>4. OpSlot(p)'
    BY DEF OpSlot, Generation
  <2>5. OpPhase(p)'
    BY DEF OpPhase, SigningIn, UnderWay
  <2>6. OpPresent(p)'
    BY DEF OpPresent, OpSlot, Unseen
  <2>7. OpFile(p)'
    BY DEF OpFile, OpPhase, SigningIn, UnderWay, Accounted, Unlooked
  <2>8. OpLeaves(p)'
    BY DEF OpLeaves, LeavingSteps, Past, UnderWay, Generation
  <2> QED
    BY <2>2, <2>3, <2>4, <2>5, <2>6, <2>7, <2>8 DEF OpInv
<1>16. ASSUME NEW k \in Handler PROVE HandlerInv(k)'
  <2>1. HandlerAt(k) /\ HandlerLease(k) /\ HandlerSignsOut(k) /\ HandlerSlot(k)
      /\ HandlerNeeds(k) /\ HandlerMarks(k) /\ HandlerPresent(k) /\ HandlerFile(k)
    BY <1>1
  <2> USE <1>16, <2>1, <1>9
  <2>2. HandlerAt(k)'
    BY DEF HandlerAt, Withdraws, SigningOut, Cleaning, Idle, UnderWay
  <2>3. HandlerLease(k)'
    BY DEF HandlerLease, Withdraws, UnderWay
  <2>4. HandlerSignsOut(k)'
    BY DEF HandlerSignsOut, Cleaning, UnderWay
  <2>5. HandlerSlot(k)'
    BY DEF HandlerSlot, Target, SigningOut, Cleaning, Generation, Past, UnderWay
  <2>6. HandlerNeeds(k)'
    BY DEF HandlerNeeds, Withdraws, SigningOut, Cleaning
  <2>7. HandlerMarks(k)'
    BY DEF HandlerMarks, SigningOut, Cleaning
  <2>8. HandlerPresent(k)'
    BY DEF HandlerPresent, HandlerAt, Withdraws, SigningOut, Unseen, Cleaning
  <2>9. HandlerFile(k)'
    BY DEF HandlerFile, HandlerAt, Withdraws, Cleaning
  <2> QED
    BY <2>2, <2>3, <2>4, <2>5, <2>6, <2>7, <2>8, <2>9 DEF HandlerInv
<1> QED
  BY <1>8, <1>10, <1>11, <1>12, <1>13, <1>14, <1>15, <1>16 DEF SignInInv

\* Clear keeps SignInInv when the files are removed.
LEMMA SignInClearKeeps ==
  ASSUME SignInInv, SignInAssumption, NEW h \in Handler, Clear(h, TRUE)
  PROVE  SignInInv'
<1>1. /\ TypeOK /\ ActiveIsOpen /\ PairInv /\ SlotInv /\ DownInv /\ FileInv
      /\ \A p \in Op : /\ OpAt(p) /\ OpPending(p) /\ OpSlot(p) /\ OpPhase(p)
                       /\ OpPresent(p) /\ OpFile(p) /\ OpLeaves(p)
      /\ \A k \in Handler : /\ HandlerAt(k) /\ HandlerLease(k) /\ HandlerSignsOut(k)
                            /\ HandlerSlot(k) /\ HandlerNeeds(k) /\ HandlerMarks(k)
                            /\ HandlerPresent(k) /\ HandlerFile(k)
  BY DEF SignInInv, OpInv, HandlerInv
<1>2. /\ conn.active \in Op \cup {Nobody} /\ (phase # Nobody => phase.op \in Op)
      /\ \A x \in Op \cup Handler : target[x] \in Op \cup {Nobody}
      /\ \A k \in Handler : k \notin Op /\ k # Nobody
      /\ \A p \in Op : p # Nobody
      /\ \A k \in Handler :
           /\ handler[k].kind \in {"none", "cancel", "disable", "close", "logout", "delete"}
           /\ handler[k].pc \in Cleaning =>
                /\ handler[k].kind \in {"cancel", "disable", "close", "logout", "delete"}
                /\ handler[k].kind # "delete" => handler[k].op \in Op /\ op[handler[k].op] # Nobody
  BY SignInApart, SignInWithdrawers, SignInTyped
<1>3. UNCHANGED <<conn, op, lease, poisoned, alive, life, target, worker, breaks>>
  BY DEF Clear, registered, backend, server
<1>4. handler[h].pc = "clear" /\ alive # "down"
  BY DEF Clear, Running
<1>5. /\ handler[h].kind \in {"cancel", "disable", "close", "logout", "delete"}
      /\ handler[h].kind # "delete" =>
           handler[h].op \in Op /\ op[handler[h].op] # Nobody /\ ~UnderWay(handler[h].op)
      /\ handler[h].kind # "logout" => \A p \in Op : ~UnderWay(p)
      /\ alive # "down"
      /\ \A p \in Op : UnderWay(p) /\ worker[p] # "none" => SignOutCancelled
  BY <1>4, SignInCleaningIs DEF Cleaning
<1>6. /\ slot # Nobody /\ slot.kind = "cleanup" /\ slot.by = h /\ Generation = Target(h)
      /\ Past(Target(h)) /\ slot' = Nobody
  BY <1>1, <1>4 DEF HandlerSlot, Clear
<1>7. \A p \in Op : SigningIn(p) => worker[p] = "done"
  <2> SUFFICES ASSUME NEW p \in Op, SigningIn(p), worker[p] # "done" PROVE FALSE
    OBVIOUS
  <2>1. phase # Nobody /\ phase.op = p
    BY <1>1, <1>4 DEF OpPhase
  <2>2. Generation = p
    BY <2>1 DEF Generation
  <2> QED
    BY <1>2, <1>6, <2>2 DEF Past, SigningIn
<1>8. ~SigningOut(h) => /\ handler[h].kind # "delete" /\ handler[h].op \in Op
                        /\ phase # Nobody /\ phase.op = handler[h].op
  BY <1>2, <1>5, <1>6 DEF Target, SigningOut, Generation
<1>9. ~SigningOut(h) /\ phase.at = "registered" => ~handler[h].required
  BY <1>1, <1>4, <1>8 DEF HandlerMarks, Cleaning
<1>10. SigningOut(h) \/ phase.at # "registered" => Unseen \/ SignOutCancelled
  <2>1. CASE SigningOut(h)
    BY <1>1, <1>4, <2>1 DEF HandlerPresent, Cleaning
  <2>2. CASE ~SigningOut(h) /\ handler[h].kind = "logout"
    BY <1>1, <1>4, <2>2 DEF HandlerPresent, Cleaning
  <2>3. CASE ~SigningOut(h) /\ handler[h].kind # "logout" /\ phase.at # "registered"
    BY <1>1, <1>4, <1>8, <2>3 DEF HandlerNeeds, Cleaning, Unseen
  <2> QED
    BY <2>1, <2>2, <2>3
<1>11. \E pc \in {"failed", "refused", "submit", "confirm"} :
          /\ pc \in {"refused", "submit"} <=> handler[h].kind = "logout"
          /\ handler' \in [Handler -> HandlerType]
          /\ handler'[h].pc = pc /\ handler'[h].kind = handler[h].kind
          /\ handler'[h].op = handler[h].op /\ handler'[h].own = handler[h].own
          /\ handler'[h].required = handler[h].required
          /\ \A k \in Handler \ {h} : handler'[k] = handler[k]
  <2> DEFINE pc == IF poisoned THEN Failed(h)
                ELSE IF handler[h].kind = "logout" THEN "submit" ELSE "confirm"
  <2>1. To(h, pc)
    BY DEF Clear
  <2>2. /\ pc \in {"failed", "refused", "submit", "confirm"}
        /\ pc \in {"refused", "submit"} <=> handler[h].kind = "logout"
    BY DEF Failed
  <2> HIDE DEF pc
  <2>3. /\ handler' \in [Handler -> HandlerType]
        /\ handler'[h].pc = pc /\ handler'[h].kind = handler[h].kind
        /\ handler'[h].op = handler[h].op /\ handler'[h].own = handler[h].own
        /\ handler'[h].required = handler[h].required
        /\ \A k \in Handler \ {h} : handler'[k] = handler[k]
    BY <1>1, <2>1, <2>2, SignInToIs
  <2> QED
    BY <2>2, <2>3
<1>12. /\ phase' = Nobody /\ file' \in BOOLEAN /\ told' \in BOOLEAN
       /\ file' => file /\ told' = told /\ ~SigningOut(h) /\ phase.at = "registered"
       /\ ~SigningOut(h) /\ phase.at = "registered" => file' = file
  <2> DEFINE kept == ~SigningOut(h) /\ phase.at = "registered"
  <2>1. file' = (file /\ kept) /\ told' = (told /\ kept) /\ phase' = Nobody
    BY DEF Clear
  <2>2. file \in BOOLEAN /\ told \in BOOLEAN /\ kept \in BOOLEAN
    BY <1>1 DEF TypeOK
  <2>3. CASE kept
    BY <2>1, <2>2, <2>3
  <2>4. CASE ~kept
    BY <2>1, <2>2, <2>4
  <2> QED
    BY <2>3, <2>4
<1>13. file' /\ handler[h].kind # "logout" => handler[h].kind # "delete" /\ conn.present
  BY <1>1, <1>4, <1>8, <1>9, <1>12 DEF HandlerNeeds, Cleaning
<1> USE <1>1, <1>2, <1>3, <1>4, <1>5, <1>6, <1>7, <1>8, <1>9, <1>10, <1>11, <1>12, <1>13
<1>14. TypeOK'
  BY DEF TypeOK
<1>15. SignOutCancelled => SignOutCancelled'
  BY DEF SignOutCancelled, UnderWay
<1>16. ActiveIsOpen'
  BY <1>15 DEF ActiveIsOpen, Open
<1>17. PairInv'
  BY <1>15 DEF PairInv, Withdraws, Cleaning, HandlerSignsOut, HandlerAt, Idle
<1>18. SlotInv'
  BY <1>15 DEF SlotInv, UnderWay, HandlerSlot, OpSlot
<1>19. DownInv'
  BY <1>15 DEF DownInv, Running
<1>20. FileInv'
  BY <1>15
    DEF FileInv, ShownSessionExists, SessionHasCredential, NoSilentCredential,
        AssumedForAReason, Open, UnderWay, Running, ActiveIsOpen, Unseen
<1>21. ASSUME NEW p \in Op PROVE OpInv(p)'
  <2>1. OpAt(p) /\ OpPending(p) /\ OpSlot(p) /\ OpPhase(p)
      /\ OpPresent(p) /\ OpFile(p) /\ OpLeaves(p)
    BY <1>1
  <2> USE <1>21, <2>1, <1>15
  <2>2. OpAt(p)'
    BY DEF OpAt, LoginSteps, LeavingSteps, UnderWay
  <2>3. OpPending(p)'
    BY DEF OpPending, Matches, UnderWay
  <2>4. OpSlot(p)'
    BY DEF OpSlot, Generation
  <2>5. OpPhase(p)'
    BY DEF OpPhase, SigningIn, UnderWay
  <2>6. OpPresent(p)'
    BY DEF OpPresent, OpSlot, Unseen
  <2>7. OpFile(p)'
    BY DEF OpFile, OpPhase, SigningIn, UnderWay, Accounted, Unlooked
  <2>8. OpLeaves(p)'
    BY DEF OpLeaves, LeavingSteps, Past, UnderWay, Generation
  <2> QED
    BY <2>2, <2>3, <2>4, <2>5, <2>6, <2>7, <2>8 DEF OpInv
<1>22. ASSUME NEW k \in Handler PROVE HandlerInv(k)'
  <2>1. HandlerAt(k) /\ HandlerLease(k) /\ HandlerSignsOut(k) /\ HandlerSlot(k)
      /\ HandlerNeeds(k) /\ HandlerMarks(k) /\ HandlerPresent(k) /\ HandlerFile(k)
    BY <1>1
  <2> USE <1>22, <2>1, <1>15
  <2>2. HandlerAt(k)'
    BY DEF HandlerAt, Withdraws, SigningOut, Cleaning, Idle, UnderWay
  <2>3. HandlerLease(k)'
    BY DEF HandlerLease, Withdraws, UnderWay
  <2>4. HandlerSignsOut(k)'
    BY DEF HandlerSignsOut, Cleaning, UnderWay
  <2>5. HandlerSlot(k)'
    <3>1. CASE k = h
      BY <1>11, <3>1 DEF HandlerSlot
    <3>2. CASE k # h
      <4>1. handler'[k] = handler[k] /\ handler[k].pc # "clear"
        BY <1>11, <1>6, <3>2 DEF HandlerSlot
      <4>2. Target(k)' = Target(k) /\ (Past(Target(k)) => Past(Target(k))')
        BY <1>3, <4>1 DEF Target, SigningOut, Past, UnderWay
      <4> QED
        BY <4>1, <4>2 DEF HandlerSlot
    <3> QED
      BY <3>1, <3>2
  <2>6. HandlerNeeds(k)'
    BY DEF HandlerNeeds, Withdraws, SigningOut, Cleaning
  <2>7. HandlerMarks(k)'
    BY DEF HandlerMarks, SigningOut, Cleaning
  <2>8. HandlerPresent(k)'
    BY DEF HandlerPresent, HandlerAt, Withdraws, SigningOut, Unseen, Cleaning
  <2>9. HandlerFile(k)'
    BY DEF HandlerFile, HandlerAt, Withdraws, Cleaning
  <2> QED
    BY <2>2, <2>3, <2>4, <2>5, <2>6, <2>7, <2>8, <2>9 DEF HandlerInv
<1> QED
  BY <1>14, <1>16, <1>17, <1>18, <1>19, <1>20, <1>21, <1>22 DEF SignInInv

\* Clear keeps SignInInv when the files cannot be removed.
LEMMA SignInClearNotKeeps ==
  ASSUME SignInInv, SignInAssumption, NEW h \in Handler, Clear(h, FALSE)
  PROVE  SignInInv'
<1>1. /\ TypeOK /\ ActiveIsOpen /\ PairInv /\ SlotInv /\ DownInv /\ FileInv
      /\ \A p \in Op : /\ OpAt(p) /\ OpPending(p) /\ OpSlot(p) /\ OpPhase(p)
                       /\ OpPresent(p) /\ OpFile(p) /\ OpLeaves(p)
      /\ \A k \in Handler : /\ HandlerAt(k) /\ HandlerLease(k) /\ HandlerSignsOut(k)
                            /\ HandlerSlot(k) /\ HandlerNeeds(k) /\ HandlerMarks(k)
                            /\ HandlerPresent(k) /\ HandlerFile(k)
  BY DEF SignInInv, OpInv, HandlerInv
<1>2. /\ conn.active \in Op \cup {Nobody} /\ (phase # Nobody => phase.op \in Op)
      /\ \A x \in Op \cup Handler : target[x] \in Op \cup {Nobody}
      /\ \A k \in Handler : k \notin Op /\ k # Nobody
      /\ \A p \in Op : p # Nobody
      /\ \A k \in Handler :
           /\ handler[k].kind \in {"none", "cancel", "disable", "close", "logout", "delete"}
           /\ handler[k].pc \in Cleaning =>
                /\ handler[k].kind \in {"cancel", "disable", "close", "logout", "delete"}
                /\ handler[k].kind # "delete" => handler[k].op \in Op /\ op[handler[k].op] # Nobody
  BY SignInApart, SignInWithdrawers, SignInTyped
<1>3. UNCHANGED <<conn, op, lease, phase, poisoned, alive, life, target, worker>>
  BY DEF Clear, registered, backend, server
<1>4. handler[h].pc = "clear" /\ alive # "down"
  BY DEF Clear, Running
<1>5. /\ handler[h].kind \in {"cancel", "disable", "close", "logout", "delete"}
      /\ handler[h].kind # "delete" =>
           handler[h].op \in Op /\ op[handler[h].op] # Nobody /\ ~UnderWay(handler[h].op)
      /\ handler[h].kind # "logout" => \A p \in Op : ~UnderWay(p)
      /\ alive # "down"
      /\ \A p \in Op : UnderWay(p) /\ worker[p] # "none" => SignOutCancelled
  BY <1>4, SignInCleaningIs DEF Cleaning
<1>6. /\ slot # Nobody /\ slot.kind = "cleanup" /\ slot.by = h /\ Generation = Target(h)
      /\ Past(Target(h)) /\ slot' = Nobody
  BY <1>1, <1>4 DEF HandlerSlot, Clear
<1>7. \A p \in Op : SigningIn(p) => worker[p] = "done"
  <2> SUFFICES ASSUME NEW p \in Op, SigningIn(p), worker[p] # "done" PROVE FALSE
    OBVIOUS
  <2>1. phase # Nobody /\ phase.op = p
    BY <1>1, <1>4 DEF OpPhase
  <2>2. Generation = p
    BY <2>1 DEF Generation
  <2> QED
    BY <1>2, <1>6, <2>2 DEF Past, SigningIn
<1>8. ~SigningOut(h) => /\ handler[h].kind # "delete" /\ handler[h].op \in Op
                        /\ phase # Nobody /\ phase.op = handler[h].op
  BY <1>2, <1>5, <1>6 DEF Target, SigningOut, Generation
<1>9. ~SigningOut(h) /\ phase.at = "registered" => ~handler[h].required
  BY <1>1, <1>4, <1>8 DEF HandlerMarks, Cleaning
<1>10. SigningOut(h) \/ phase.at # "registered" => Unseen \/ SignOutCancelled
  <2>1. CASE SigningOut(h)
    BY <1>1, <1>4, <2>1 DEF HandlerPresent, Cleaning
  <2>2. CASE ~SigningOut(h) /\ handler[h].kind = "logout"
    BY <1>1, <1>4, <2>2 DEF HandlerPresent, Cleaning
  <2>3. CASE ~SigningOut(h) /\ handler[h].kind # "logout" /\ phase.at # "registered"
    BY <1>1, <1>4, <1>8, <2>3 DEF HandlerNeeds, Cleaning, Unseen
  <2> QED
    BY <2>1, <2>2, <2>3
<1>11. \E pc \in {"failed", "refused"} :
          /\ pc = "refused" <=> handler[h].kind = "logout"
          /\ handler' \in [Handler -> HandlerType]
          /\ handler'[h].pc = pc /\ handler'[h].kind = handler[h].kind
          /\ handler'[h].op = handler[h].op /\ handler'[h].own = handler[h].own
          /\ handler'[h].required = handler[h].required
          /\ \A k \in Handler \ {h} : handler'[k] = handler[k]
  BY <1>1, SignInToIs DEF Clear, Failed
<1>12. /\ breaks' \in 0 .. MaxBreaks /\ breaks' > 0 /\ told' = TRUE
       /\ file' \in BOOLEAN /\ (file' => file)
       /\ SigningOut(h) \/ phase.at # "registered"
  <2>1. Break /\ told' = TRUE /\ file' \in {file, FALSE} /\ (SigningOut(h) \/ phase.at # "registered")
    BY DEF Clear
  <2>2. breaks' \in 0 .. MaxBreaks /\ breaks' > 0
    BY <1>1, <2>1, SignInBreakIs
  <2>3. file' \in BOOLEAN /\ (file' => file)
    <3>1. CASE file' = file
      BY <1>1, <3>1 DEF TypeOK
    <3>2. CASE file' = FALSE
      BY <3>2
    <3> QED
      BY <2>1, <3>1, <3>2
  <2> QED
    BY <2>1, <2>2, <2>3
<1> USE <1>1, <1>2, <1>3, <1>4, <1>5, <1>6, <1>7, <1>8, <1>9, <1>10, <1>11, <1>12
<1>13. TypeOK'
  BY DEF TypeOK
<1>14. SignOutCancelled => SignOutCancelled'
  BY DEF SignOutCancelled, UnderWay
<1>15. ActiveIsOpen'
  BY <1>14 DEF ActiveIsOpen, Open
<1>16. PairInv'
  BY <1>14 DEF PairInv, Withdraws, Cleaning, HandlerSignsOut, HandlerAt, Idle
<1>17. SlotInv'
  BY <1>14 DEF SlotInv, UnderWay, HandlerSlot, OpSlot
<1>18. DownInv'
  BY <1>14 DEF DownInv, Running
<1>19. FileInv'
  BY <1>14
    DEF FileInv, ShownSessionExists, SessionHasCredential, NoSilentCredential,
        AssumedForAReason, Open, UnderWay, Running, ActiveIsOpen, Unseen
<1>20. ASSUME NEW p \in Op PROVE OpInv(p)'
  <2>1. OpAt(p) /\ OpPending(p) /\ OpSlot(p) /\ OpPhase(p)
      /\ OpPresent(p) /\ OpFile(p) /\ OpLeaves(p)
    BY <1>1
  <2> USE <1>20, <2>1, <1>14
  <2>2. OpAt(p)'
    BY DEF OpAt, LoginSteps, LeavingSteps, UnderWay
  <2>3. OpPending(p)'
    BY DEF OpPending, Matches, UnderWay
  <2>4. OpSlot(p)'
    BY DEF OpSlot, Generation
  <2>5. OpPhase(p)'
    BY DEF OpPhase, SigningIn, UnderWay
  <2>6. OpPresent(p)'
    BY DEF OpPresent, OpSlot, Unseen
  <2>7. OpFile(p)'
    BY DEF OpFile, OpPhase, SigningIn, UnderWay, Accounted, Unlooked
  <2>8. OpLeaves(p)'
    BY DEF OpLeaves, LeavingSteps, Past, UnderWay, Generation
  <2> QED
    BY <2>2, <2>3, <2>4, <2>5, <2>6, <2>7, <2>8 DEF OpInv
<1>21. ASSUME NEW k \in Handler PROVE HandlerInv(k)'
  <2>1. HandlerAt(k) /\ HandlerLease(k) /\ HandlerSignsOut(k) /\ HandlerSlot(k)
      /\ HandlerNeeds(k) /\ HandlerMarks(k) /\ HandlerPresent(k) /\ HandlerFile(k)
    BY <1>1
  <2> USE <1>21, <2>1, <1>14
  <2>2. HandlerAt(k)'
    BY DEF HandlerAt, Withdraws, SigningOut, Cleaning, Idle, UnderWay
  <2>3. HandlerLease(k)'
    BY DEF HandlerLease, Withdraws, UnderWay
  <2>4. HandlerSignsOut(k)'
    BY DEF HandlerSignsOut, Cleaning, UnderWay
  <2>5. HandlerSlot(k)'
    <3>1. CASE k = h
      BY <1>11, <3>1 DEF HandlerSlot
    <3>2. CASE k # h
      <4>1. handler'[k] = handler[k] /\ handler[k].pc # "clear"
        BY <1>11, <1>6, <3>2 DEF HandlerSlot
      <4>2. Target(k)' = Target(k) /\ (Past(Target(k)) => Past(Target(k))')
        BY <1>3, <4>1 DEF Target, SigningOut, Past, UnderWay
      <4> QED
        BY <4>1, <4>2 DEF HandlerSlot
    <3> QED
      BY <3>1, <3>2
  <2>6. HandlerNeeds(k)'
    BY DEF HandlerNeeds, Withdraws, SigningOut, Cleaning
  <2>7. HandlerMarks(k)'
    BY DEF HandlerMarks, SigningOut, Cleaning
  <2>8. HandlerPresent(k)'
    BY DEF HandlerPresent, HandlerAt, Withdraws, SigningOut, Unseen, Cleaning
  <2>9. HandlerFile(k)'
    BY DEF HandlerFile, HandlerAt, Withdraws, Cleaning
  <2> QED
    BY <2>2, <2>3, <2>4, <2>5, <2>6, <2>7, <2>8, <2>9 DEF HandlerInv
<1> QED
  BY <1>13, <1>15, <1>16, <1>17, <1>18, <1>19, <1>20, <1>21 DEF SignInInv

\* Confirm keeps SignInInv when the connection is deleted.
LEMMA SignInConfirmDeleteKeeps ==
  ASSUME SignInInv, SignInAssumption, NEW h \in Handler, Confirm(h, TRUE), handler[h].kind = "delete", conn.exists,
         conn.revision = handler[h].revision
  PROVE  SignInInv'
<1>1. /\ TypeOK /\ ActiveIsOpen /\ PairInv /\ SlotInv /\ DownInv /\ FileInv
      /\ \A p \in Op : /\ OpAt(p) /\ OpPending(p) /\ OpSlot(p) /\ OpPhase(p)
                       /\ OpPresent(p) /\ OpFile(p) /\ OpLeaves(p)
      /\ \A k \in Handler : /\ HandlerAt(k) /\ HandlerLease(k) /\ HandlerSignsOut(k)
                            /\ HandlerSlot(k) /\ HandlerNeeds(k) /\ HandlerMarks(k)
                            /\ HandlerPresent(k) /\ HandlerFile(k)
  BY DEF SignInInv, OpInv, HandlerInv
<1>2. /\ conn.active \in Op \cup {Nobody} /\ (phase # Nobody => phase.op \in Op)
      /\ \A x \in Op \cup Handler : target[x] \in Op \cup {Nobody}
      /\ \A k \in Handler : k \notin Op /\ k # Nobody
      /\ \A p \in Op : p # Nobody
      /\ \A k \in Handler :
           /\ handler[k].kind \in {"none", "cancel", "disable", "close", "logout", "delete"}
           /\ handler[k].pc \in Cleaning =>
                /\ handler[k].kind \in {"cancel", "disable", "close", "logout", "delete"}
                /\ handler[k].kind # "delete" => handler[k].op \in Op /\ op[handler[k].op] # Nobody
  BY SignInApart, SignInWithdrawers, SignInTyped
<1>3. UNCHANGED <<op, slot, phase, poisoned, file, alive, life, target, worker, told, breaks>>
  BY DEF Confirm, registered, backend, server
<1>4. handler[h].pc = "confirm" /\ alive # "down"
  BY DEF Confirm, Running
<1>5. /\ handler[h].kind \in {"cancel", "disable", "close", "logout", "delete"}
      /\ handler[h].kind # "delete" =>
           handler[h].op \in Op /\ op[handler[h].op] # Nobody /\ ~UnderWay(handler[h].op)
      /\ handler[h].kind # "logout" => \A p \in Op : ~UnderWay(p)
      /\ alive # "down"
      /\ \A p \in Op : UnderWay(p) /\ worker[p] # "none" => SignOutCancelled
  BY <1>4, SignInCleaningIs DEF Cleaning
<1>6. /\ \A p \in Op : ~UnderWay(p)
      /\ \A k \in Handler \ {h} : handler[k].kind \notin {"cancel", "disable", "delete"}
      /\ lease # Nobody /\ lease.token = h
  BY SignInLeaseAlone
<1>7. /\ handler' \in [Handler -> HandlerType]
      /\ handler'[h] = Idle /\ handler'[h].pc = "idle" /\ handler'[h].kind = "none"
      /\ \A k \in Handler \ {h} : handler'[k] = handler[k]
  BY <1>1, SignInIdleIs DEF Confirm, Return
<1>8. lease' = Nobody
  BY <1>1, <1>6, SignInFreeIs DEF Confirm
<1>9. ~conn.present /\ conn.active = Nobody /\ ~file
  BY <1>1, <1>4 DEF HandlerPresent, HandlerFile
<1>10. /\ conn' \in ConnectionType /\ ~conn'.exists /\ conn'.active = Nobody
       /\ conn'.present = conn.present /\ conn'.assumed = conn.assumed
       /\ conn'.revision = conn.revision /\ conn'.enabled = conn.enabled
  BY <1>1 DEF Confirm, TypeOK, ConnectionType
<1> USE <1>1, <1>2, <1>3, <1>4, <1>5, <1>6, <1>7, <1>8, <1>9, <1>10
<1>11. TypeOK'
  BY DEF TypeOK
<1>12. SignOutCancelled => SignOutCancelled'
  BY DEF SignOutCancelled, UnderWay
<1>13. ActiveIsOpen'
  BY <1>12 DEF ActiveIsOpen, Open
<1>14. PairInv'
  BY <1>12 DEF PairInv, Withdraws, Cleaning, HandlerSignsOut, HandlerAt, Idle
<1>15. SlotInv'
  BY <1>12 DEF SlotInv, UnderWay, HandlerSlot, OpSlot
<1>16. DownInv'
  BY <1>12 DEF DownInv, Running
<1>17. FileInv'
  BY <1>12
    DEF FileInv, ShownSessionExists, SessionHasCredential, NoSilentCredential,
        AssumedForAReason, Open, UnderWay, Running, ActiveIsOpen, Unseen
<1>18. ASSUME NEW p \in Op PROVE OpInv(p)'
  <2>1. OpAt(p) /\ OpPending(p) /\ OpSlot(p) /\ OpPhase(p)
      /\ OpPresent(p) /\ OpFile(p) /\ OpLeaves(p)
    BY <1>1
  <2> USE <1>18, <2>1, <1>12
  <2>2. OpAt(p)'
    BY DEF OpAt, LoginSteps, LeavingSteps, UnderWay
  <2>3. OpPending(p)'
    BY DEF OpPending, Matches, UnderWay
  <2>4. OpSlot(p)'
    BY DEF OpSlot, Generation
  <2>5. OpPhase(p)'
    BY DEF OpPhase, SigningIn, UnderWay
  <2>6. OpPresent(p)'
    BY DEF OpPresent, OpSlot, Unseen
  <2>7. OpFile(p)'
    BY DEF OpFile, OpPhase, SigningIn, UnderWay, Accounted, Unlooked
  <2>8. OpLeaves(p)'
    BY DEF OpLeaves, LeavingSteps, Past, UnderWay, Generation
  <2> QED
    BY <2>2, <2>3, <2>4, <2>5, <2>6, <2>7, <2>8 DEF OpInv
<1>19. ASSUME NEW k \in Handler PROVE HandlerInv(k)'
  <2>1. HandlerAt(k) /\ HandlerLease(k) /\ HandlerSignsOut(k) /\ HandlerSlot(k)
      /\ HandlerNeeds(k) /\ HandlerMarks(k) /\ HandlerPresent(k) /\ HandlerFile(k)
    BY <1>1
  <2> USE <1>19, <2>1, <1>12
  <2>2. HandlerAt(k)'
    BY DEF HandlerAt, Withdraws, SigningOut, Cleaning, Idle, UnderWay
  <2>3. HandlerLease(k)'
    BY DEF HandlerLease, Withdraws, UnderWay
  <2>4. HandlerSignsOut(k)'
    BY DEF HandlerSignsOut, Cleaning, UnderWay
  <2>5. HandlerSlot(k)'
    BY DEF HandlerSlot, Target, SigningOut, Cleaning, Generation, Past, UnderWay
  <2>6. HandlerNeeds(k)'
    BY DEF HandlerNeeds, Withdraws, SigningOut, Cleaning
  <2>7. HandlerMarks(k)'
    BY DEF HandlerMarks, SigningOut, Cleaning
  <2>8. HandlerPresent(k)'
    BY DEF HandlerPresent, HandlerAt, Withdraws, SigningOut, Unseen, Cleaning
  <2>9. HandlerFile(k)'
    BY DEF HandlerFile, HandlerAt, Withdraws, Cleaning
  <2> QED
    BY <2>2, <2>3, <2>4, <2>5, <2>6, <2>7, <2>8, <2>9 DEF HandlerInv
<1> QED
  BY <1>11, <1>13, <1>14, <1>15, <1>16, <1>17, <1>18, <1>19 DEF SignInInv

\* Confirm keeps SignInInv when the operation is cancelled.
LEMMA SignInConfirmKeeps ==
  ASSUME SignInInv, SignInAssumption, NEW h \in Handler, Confirm(h, TRUE), handler[h].kind \in {"cancel", "disable", "close"}, conn.exists,
         handler[h].kind # "close" => conn.revision = handler[h].revision,
         handler[h].kind = "close" => op[handler[h].op].state = "unknown"
  PROVE  SignInInv'
<1>1. /\ TypeOK /\ ActiveIsOpen /\ PairInv /\ SlotInv /\ DownInv /\ FileInv
      /\ \A p \in Op : /\ OpAt(p) /\ OpPending(p) /\ OpSlot(p) /\ OpPhase(p)
                       /\ OpPresent(p) /\ OpFile(p) /\ OpLeaves(p)
      /\ \A k \in Handler : /\ HandlerAt(k) /\ HandlerLease(k) /\ HandlerSignsOut(k)
                            /\ HandlerSlot(k) /\ HandlerNeeds(k) /\ HandlerMarks(k)
                            /\ HandlerPresent(k) /\ HandlerFile(k)
  BY DEF SignInInv, OpInv, HandlerInv
<1>2. /\ conn.active \in Op \cup {Nobody} /\ (phase # Nobody => phase.op \in Op)
      /\ \A x \in Op \cup Handler : target[x] \in Op \cup {Nobody}
      /\ \A k \in Handler : k \notin Op /\ k # Nobody
      /\ \A p \in Op : p # Nobody
      /\ \A k \in Handler :
           /\ handler[k].kind \in {"none", "cancel", "disable", "close", "logout", "delete"}
           /\ handler[k].pc \in Cleaning =>
                /\ handler[k].kind \in {"cancel", "disable", "close", "logout", "delete"}
                /\ handler[k].kind # "delete" => handler[k].op \in Op /\ op[handler[k].op] # Nobody
  BY SignInApart, SignInWithdrawers, SignInTyped
<1>3. UNCHANGED <<slot, phase, poisoned, file, alive, life, target, worker, told, breaks>>
  BY DEF Confirm, registered, backend, server
<1>4. handler[h].pc = "confirm" /\ alive # "down"
  BY DEF Confirm, Running
<1>5. /\ handler[h].kind \in {"cancel", "disable", "close", "logout", "delete"}
      /\ handler[h].kind # "delete" =>
           handler[h].op \in Op /\ op[handler[h].op] # Nobody /\ ~UnderWay(handler[h].op)
      /\ handler[h].kind # "logout" => \A p \in Op : ~UnderWay(p)
      /\ alive # "down"
      /\ \A p \in Op : UnderWay(p) /\ worker[p] # "none" => SignOutCancelled
  BY <1>4, SignInCleaningIs DEF Cleaning
<1>6. Withdraws(h) /\ handler[h].op \in Op /\ op[handler[h].op] # Nobody
  BY <1>4, <1>5 DEF Withdraws
<1>7. /\ \A p \in Op : ~UnderWay(p)
      /\ handler[h].kind # "close" =>
           \A k \in Handler \ {h} : handler[k].kind \notin {"cancel", "disable", "delete"}
  BY <1>6, SignInLeaseAlone
<1>8. /\ handler' \in [Handler -> HandlerType]
      /\ \A k \in Handler \ {h} : handler'[k] = handler[k]
      /\ IF handler[h].kind = "close" THEN handler'[h].pc = "close" /\ handler'[h].kind = "close"
         ELSE handler'[h] = Idle /\ handler'[h].pc = "idle" /\ handler'[h].kind = "none"
  <2>1. CASE handler[h].kind = "close"
    <3>1. To(h, "close")
      BY <2>1 DEF Confirm, Return
    <3> QED
      BY <1>1, <2>1, <3>1, SignInToIs
  <2>2. CASE handler[h].kind # "close"
    <3>1. handler' = [handler EXCEPT ![h] = Idle]
      BY <2>2 DEF Confirm, Return
    <3> QED
      BY <1>1, <2>2, <3>1, SignInIdleIs
  <2> QED
    BY <2>1, <2>2
<1>9. /\ lease' \in LeaseType \cup {Nobody} /\ (lease' = Nobody \/ lease' = lease)
      /\ handler[h].kind = "close" /\ lease # Nobody /\ lease.token \in Handler => lease' = lease
  <2>1. CASE handler[h].kind = "close"
    <3>1. lease' = Free(handler[h].op)
      BY <2>1 DEF Confirm
    <3> QED
      BY <1>1, <1>2, <1>6, <3>1, SignInFreeIs
  <2>2. CASE handler[h].kind # "close"
    <3>1. lease' = Free(h)
      BY <2>2 DEF Confirm
    <3> QED
      BY <1>1, <2>2, <3>1, SignInFreeIs
  <2> QED
    BY <2>1, <2>2
<1>10. /\ op' \in [Op -> OpType \cup {Nobody}] /\ op'[handler[h].op] # Nobody /\ op'[handler[h].op].state = "cancelled"
       /\ op'[handler[h].op].action = op[handler[h].op].action /\ op'[handler[h].op].life = op[handler[h].op].life
       /\ op'[handler[h].op].revision = op[handler[h].op].revision
       /\ \A p \in Op \ {handler[h].op} : op'[p] = op[p]
  BY <1>1, <1>6, SignInStateIs DEF Confirm, Cancelled
<1>11. /\ conn' \in ConnectionType /\ conn'.exists = conn.exists
       /\ conn'.present = conn.present /\ conn'.assumed = conn.assumed
       /\ conn'.revision = conn.revision /\ conn'.enabled = conn.enabled
       /\ conn'.active = IF conn.active = handler[h].op THEN Nobody ELSE conn.active
  BY <1>1 DEF Confirm, Cancelled, TypeOK, ConnectionType
<1>12. file => conn.present
  BY <1>1, <1>4 DEF HandlerFile
<1> USE <1>1, <1>2, <1>3, <1>4, <1>5, <1>6, <1>7, <1>8, <1>9, <1>10, <1>11, <1>12
<1>13. TypeOK'
  BY DEF TypeOK
<1>14. SignOutCancelled => SignOutCancelled'
  BY DEF SignOutCancelled, UnderWay
<1>15. ActiveIsOpen'
  BY <1>14 DEF ActiveIsOpen, Open
<1>16. PairInv'
  BY <1>14 DEF PairInv, Withdraws, Cleaning, HandlerSignsOut, HandlerAt, Idle
<1>17. SlotInv'
  BY <1>14 DEF SlotInv, UnderWay, HandlerSlot, OpSlot
<1>18. DownInv'
  BY <1>14 DEF DownInv, Running
<1>19. FileInv'
  BY <1>14
    DEF FileInv, ShownSessionExists, SessionHasCredential, NoSilentCredential,
        AssumedForAReason, Open, UnderWay, Running, ActiveIsOpen, Unseen
<1>20. ASSUME NEW p \in Op PROVE OpInv(p)'
  <2>1. OpAt(p) /\ OpPending(p) /\ OpSlot(p) /\ OpPhase(p)
      /\ OpPresent(p) /\ OpFile(p) /\ OpLeaves(p)
    BY <1>1
  <2> USE <1>20, <2>1, <1>14
  <2>2. OpAt(p)'
    BY DEF OpAt, LoginSteps, LeavingSteps, UnderWay
  <2>3. OpPending(p)'
    BY DEF OpPending, Matches, UnderWay
  <2>4. OpSlot(p)'
    BY DEF OpSlot, Generation
  <2>5. OpPhase(p)'
    BY DEF OpPhase, SigningIn, UnderWay
  <2>6. OpPresent(p)'
    BY DEF OpPresent, OpSlot, Unseen
  <2>7. OpFile(p)'
    BY DEF OpFile, OpPhase, SigningIn, UnderWay, Accounted, Unlooked
  <2>8. OpLeaves(p)'
    BY DEF OpLeaves, LeavingSteps, Past, UnderWay, Generation
  <2> QED
    BY <2>2, <2>3, <2>4, <2>5, <2>6, <2>7, <2>8 DEF OpInv
<1>21. ASSUME NEW k \in Handler PROVE HandlerInv(k)'
  <2>1. HandlerAt(k) /\ HandlerLease(k) /\ HandlerSignsOut(k) /\ HandlerSlot(k)
      /\ HandlerNeeds(k) /\ HandlerMarks(k) /\ HandlerPresent(k) /\ HandlerFile(k)
    BY <1>1
  <2> USE <1>21, <2>1, <1>14
  <2>2. HandlerAt(k)'
    BY DEF HandlerAt, Withdraws, SigningOut, Cleaning, Idle, UnderWay
  <2>3. HandlerLease(k)'
    BY DEF HandlerLease, Withdraws, UnderWay
  <2>4. HandlerSignsOut(k)'
    BY DEF HandlerSignsOut, Cleaning, UnderWay
  <2>5. HandlerSlot(k)'
    BY DEF HandlerSlot, Target, SigningOut, Cleaning, Generation, Past, UnderWay
  <2>6. HandlerNeeds(k)'
    BY DEF HandlerNeeds, Withdraws, SigningOut, Cleaning
  <2>7. HandlerMarks(k)'
    BY DEF HandlerMarks, SigningOut, Cleaning
  <2>8. HandlerPresent(k)'
    BY DEF HandlerPresent, HandlerAt, Withdraws, SigningOut, Unseen, Cleaning
  <2>9. HandlerFile(k)'
    BY DEF HandlerFile, HandlerAt, Withdraws, Cleaning
  <2> QED
    BY <2>2, <2>3, <2>4, <2>5, <2>6, <2>7, <2>8, <2>9 DEF HandlerInv
<1> QED
  BY <1>13, <1>15, <1>16, <1>17, <1>18, <1>19, <1>20, <1>21 DEF SignInInv

\* GiveUp keeps SignInInv.
LEMMA SignInGiveUpKeeps ==
  ASSUME SignInInv, SignInAssumption, NEW h \in Handler, NEW saved \in BOOLEAN, GiveUp(h, saved)
  PROVE  SignInInv'
<1>1. /\ TypeOK /\ ActiveIsOpen /\ PairInv /\ SlotInv /\ DownInv /\ FileInv
      /\ \A p \in Op : /\ OpAt(p) /\ OpPending(p) /\ OpSlot(p) /\ OpPhase(p)
                       /\ OpPresent(p) /\ OpFile(p) /\ OpLeaves(p)
      /\ \A k \in Handler : /\ HandlerAt(k) /\ HandlerLease(k) /\ HandlerSignsOut(k)
                            /\ HandlerSlot(k) /\ HandlerNeeds(k) /\ HandlerMarks(k)
                            /\ HandlerPresent(k) /\ HandlerFile(k)
  BY DEF SignInInv, OpInv, HandlerInv
<1>2. /\ conn.active \in Op \cup {Nobody} /\ (phase # Nobody => phase.op \in Op)
      /\ \A x \in Op \cup Handler : target[x] \in Op \cup {Nobody}
      /\ \A k \in Handler : k \notin Op /\ k # Nobody
      /\ \A p \in Op : p # Nobody
      /\ \A k \in Handler :
           /\ handler[k].kind \in {"none", "cancel", "disable", "close", "logout", "delete"}
           /\ handler[k].pc \in Cleaning =>
                /\ handler[k].kind \in {"cancel", "disable", "close", "logout", "delete"}
                /\ handler[k].kind # "delete" => handler[k].op \in Op /\ op[handler[k].op] # Nobody
  BY SignInApart, SignInWithdrawers, SignInTyped
<1>3. UNCHANGED <<conn, op, slot, phase, poisoned, file, alive, life, target, worker>>
  BY DEF GiveUp, registered, backend, server
<1>4. /\ handler[h].pc = "failed" /\ alive # "down"
      /\ handler[h].kind \in {"cancel", "disable", "close", "delete"}
  BY <1>1, <1>2 DEF GiveUp, Running, HandlerAt, Cleaning
<1>5. /\ handler' \in [Handler -> HandlerType]
      /\ \A k \in Handler \ {h} : handler'[k] = handler[k]
      /\ IF handler[h].kind = "close" THEN handler'[h].pc = "close" /\ handler'[h].kind = "close"
         ELSE handler'[h] = Idle /\ handler'[h].pc = "idle" /\ handler'[h].kind = "none"
  <2>1. CASE handler[h].kind = "close"
    <3>1. To(h, "close")
      BY <2>1 DEF GiveUp, Return
    <3> QED
      BY <1>1, <2>1, <3>1, SignInToIs
  <2>2. CASE handler[h].kind # "close"
    <3>1. handler' = [handler EXCEPT ![h] = Idle]
      BY <2>2 DEF GiveUp, Return
    <3> QED
      BY <1>1, <2>2, <3>1, SignInIdleIs
  <2> QED
    BY <2>1, <2>2
<1>6. /\ lease' \in LeaseType \cup {Nobody} /\ (lease' = Nobody \/ lease' = lease)
      /\ lease # Nobody /\ lease.token # h => lease' = lease
  BY <1>1, SignInFreeIs DEF GiveUp, TypeOK
<1>7. told' = TRUE /\ breaks' \in 0 .. MaxBreaks /\ (breaks > 0 => breaks' > 0)
  BY <1>1, SignInBreakIs DEF GiveUp, TypeOK
<1> USE <1>1, <1>2, <1>3, <1>4, <1>5, <1>6, <1>7
<1>8. TypeOK'
  BY DEF TypeOK
<1>9. SignOutCancelled => SignOutCancelled'
  BY DEF SignOutCancelled, UnderWay
<1>10. ActiveIsOpen'
  BY <1>9 DEF ActiveIsOpen, Open
<1>11. PairInv'
  BY <1>9 DEF PairInv, Withdraws, Cleaning, HandlerSignsOut, HandlerAt, Idle
<1>12. SlotInv'
  BY <1>9 DEF SlotInv, UnderWay, HandlerSlot, OpSlot
<1>13. DownInv'
  BY <1>9 DEF DownInv, Running
<1>14. FileInv'
  BY <1>9
    DEF FileInv, ShownSessionExists, SessionHasCredential, NoSilentCredential,
        AssumedForAReason, Open, UnderWay, Running, ActiveIsOpen, Unseen
<1>15. ASSUME NEW p \in Op PROVE OpInv(p)'
  <2>1. OpAt(p) /\ OpPending(p) /\ OpSlot(p) /\ OpPhase(p)
      /\ OpPresent(p) /\ OpFile(p) /\ OpLeaves(p)
    BY <1>1
  <2> USE <1>15, <2>1, <1>9
  <2>2. OpAt(p)'
    BY DEF OpAt, LoginSteps, LeavingSteps, UnderWay
  <2>3. OpPending(p)'
    BY DEF OpPending, Matches, UnderWay
  <2>4. OpSlot(p)'
    BY DEF OpSlot, Generation
  <2>5. OpPhase(p)'
    BY DEF OpPhase, SigningIn, UnderWay
  <2>6. OpPresent(p)'
    BY DEF OpPresent, OpSlot, Unseen
  <2>7. OpFile(p)'
    BY DEF OpFile, OpPhase, SigningIn, UnderWay, Accounted, Unlooked
  <2>8. OpLeaves(p)'
    BY DEF OpLeaves, LeavingSteps, Past, UnderWay, Generation
  <2> QED
    BY <2>2, <2>3, <2>4, <2>5, <2>6, <2>7, <2>8 DEF OpInv
<1>16. ASSUME NEW k \in Handler PROVE HandlerInv(k)'
  <2>1. HandlerAt(k) /\ HandlerLease(k) /\ HandlerSignsOut(k) /\ HandlerSlot(k)
      /\ HandlerNeeds(k) /\ HandlerMarks(k) /\ HandlerPresent(k) /\ HandlerFile(k)
    BY <1>1
  <2> USE <1>16, <2>1, <1>9
  <2>2. HandlerAt(k)'
    BY DEF HandlerAt, Withdraws, SigningOut, Cleaning, Idle, UnderWay
  <2>3. HandlerLease(k)'
    BY DEF HandlerLease, Withdraws, UnderWay
  <2>4. HandlerSignsOut(k)'
    BY DEF HandlerSignsOut, Cleaning, UnderWay
  <2>5. HandlerSlot(k)'
    BY DEF HandlerSlot, Target, SigningOut, Cleaning, Generation, Past, UnderWay
  <2>6. HandlerNeeds(k)'
    BY DEF HandlerNeeds, Withdraws, SigningOut, Cleaning
  <2>7. HandlerMarks(k)'
    BY DEF HandlerMarks, SigningOut, Cleaning
  <2>8. HandlerPresent(k)'
    BY DEF HandlerPresent, HandlerAt, Withdraws, SigningOut, Unseen, Cleaning
  <2>9. HandlerFile(k)'
    BY DEF HandlerFile, HandlerAt, Withdraws, Cleaning
  <2> QED
    BY <2>2, <2>3, <2>4, <2>5, <2>6, <2>7, <2>8, <2>9 DEF HandlerInv
<1> QED
  BY <1>8, <1>10, <1>11, <1>12, <1>13, <1>14, <1>15, <1>16 DEF SignInInv

\* Submit keeps SignInInv.
LEMMA SignInSubmitKeeps ==
  ASSUME SignInInv, SignInAssumption, NEW h \in Handler, Submit(h)
  PROVE  SignInInv'
<1>1. /\ TypeOK /\ ActiveIsOpen /\ PairInv /\ SlotInv /\ DownInv /\ FileInv
      /\ \A p \in Op : /\ OpAt(p) /\ OpPending(p) /\ OpSlot(p) /\ OpPhase(p)
                       /\ OpPresent(p) /\ OpFile(p) /\ OpLeaves(p)
      /\ \A k \in Handler : /\ HandlerAt(k) /\ HandlerLease(k) /\ HandlerSignsOut(k)
                            /\ HandlerSlot(k) /\ HandlerNeeds(k) /\ HandlerMarks(k)
                            /\ HandlerPresent(k) /\ HandlerFile(k)
  BY DEF SignInInv, OpInv, HandlerInv
<1>2. /\ conn.active \in Op \cup {Nobody} /\ (phase # Nobody => phase.op \in Op)
      /\ \A x \in Op \cup Handler : target[x] \in Op \cup {Nobody}
      /\ \A k \in Handler : k \notin Op /\ k # Nobody
      /\ \A p \in Op : p # Nobody
      /\ \A k \in Handler :
           /\ handler[k].kind \in {"none", "cancel", "disable", "close", "logout", "delete"}
           /\ handler[k].pc \in Cleaning =>
                /\ handler[k].kind \in {"cancel", "disable", "close", "logout", "delete"}
                /\ handler[k].kind # "delete" => handler[k].op \in Op /\ op[handler[k].op] # Nobody
  BY SignInApart, SignInWithdrawers, SignInTyped
<1>3. UNCHANGED <<conn, op, lease, slot, phase, poisoned, file, alive, life, target, told, breaks>>
  BY DEF Submit, registered, backend, server
<1>4. handler[h].pc = "submit" /\ alive # "down"
  BY DEF Submit, Running
<1>5. /\ handler[h].kind = "logout" /\ handler[h].own \in Op /\ op[handler[h].own] # Nobody
      /\ op[handler[h].own].action = "logout" /\ worker[handler[h].own] = "none"
      /\ op[handler[h].own].state \in {"pending", "cancelled", "unknown"}
      /\ op[handler[h].own].state = "unknown" => conn.active = handler[h].own
  BY <1>1, <1>2, <1>4 DEF HandlerAt, HandlerSignsOut, Cleaning
<1>6. /\ handler' \in [Handler -> HandlerType]
      /\ handler'[h] = Idle /\ handler'[h].pc = "idle" /\ handler'[h].kind = "none"
      /\ \A k \in Handler \ {h} : handler'[k] = handler[k]
  BY <1>1, SignInIdleIs DEF Submit
<1>7. /\ worker' \in [Op -> WorkerType] /\ worker'[handler[h].own] = "leave"
      /\ \A p \in Op \ {handler[h].own} : worker'[p] = worker[p]
  BY <1>1, <1>5 DEF Submit, TypeOK, WorkerType
<1> USE <1>1, <1>2, <1>3, <1>4, <1>5, <1>6, <1>7
<1>8. TypeOK'
  BY DEF TypeOK
<1>9. SignOutCancelled => SignOutCancelled'
  BY DEF SignOutCancelled, UnderWay
<1>10. ActiveIsOpen'
  BY <1>9 DEF ActiveIsOpen, Open
<1>11. PairInv'
  BY <1>9 DEF PairInv, Withdraws, Cleaning, HandlerSignsOut, HandlerAt, Idle
<1>12. SlotInv'
  BY <1>9 DEF SlotInv, UnderWay, HandlerSlot, OpSlot
<1>13. DownInv'
  BY <1>9 DEF DownInv, Running
<1>14. FileInv'
  BY <1>9
    DEF FileInv, ShownSessionExists, SessionHasCredential, NoSilentCredential,
        AssumedForAReason, Open, UnderWay, Running, ActiveIsOpen, Unseen
<1>15. ASSUME NEW p \in Op PROVE OpInv(p)'
  <2>1. OpAt(p) /\ OpPending(p) /\ OpSlot(p) /\ OpPhase(p)
      /\ OpPresent(p) /\ OpFile(p) /\ OpLeaves(p)
    BY <1>1
  <2> USE <1>15, <2>1, <1>9
  <2>2. OpAt(p)'
    BY DEF OpAt, LoginSteps, LeavingSteps, UnderWay
  <2>3. OpPending(p)'
    BY DEF OpPending, Matches, UnderWay
  <2>4. OpSlot(p)'
    BY DEF OpSlot, Generation
  <2>5. OpPhase(p)'
    BY DEF OpPhase, SigningIn, UnderWay
  <2>6. OpPresent(p)'
    BY DEF OpPresent, OpSlot, Unseen
  <2>7. OpFile(p)'
    BY DEF OpFile, OpPhase, SigningIn, UnderWay, Accounted, Unlooked
  <2>8. OpLeaves(p)'
    BY DEF OpLeaves, LeavingSteps, Past, UnderWay, Generation
  <2> QED
    BY <2>2, <2>3, <2>4, <2>5, <2>6, <2>7, <2>8 DEF OpInv
<1>16. ASSUME NEW k \in Handler PROVE HandlerInv(k)'
  <2>1. HandlerAt(k) /\ HandlerLease(k) /\ HandlerSignsOut(k) /\ HandlerSlot(k)
      /\ HandlerNeeds(k) /\ HandlerMarks(k) /\ HandlerPresent(k) /\ HandlerFile(k)
    BY <1>1
  <2> USE <1>16, <2>1, <1>9
  <2>2. HandlerAt(k)'
    BY DEF HandlerAt, Withdraws, SigningOut, Cleaning, Idle, UnderWay
  <2>3. HandlerLease(k)'
    BY DEF HandlerLease, Withdraws, UnderWay
  <2>4. HandlerSignsOut(k)'
    <3>1. k # h /\ handler[k].kind = "logout" => handler[k].own # handler[h].own
      BY <1>1, <1>5 DEF PairInv
    <3>2. CASE k = h
      BY <1>6, <3>2 DEF HandlerSignsOut
    <3>3. CASE k # h
      BY <1>6, <1>7, <1>5, <1>3, <3>1, <3>3 DEF HandlerSignsOut
    <3> QED
      BY <3>2, <3>3
  <2>5. HandlerSlot(k)'
    BY DEF HandlerSlot, Target, SigningOut, Cleaning, Generation, Past, UnderWay
  <2>6. HandlerNeeds(k)'
    BY DEF HandlerNeeds, Withdraws, SigningOut, Cleaning
  <2>7. HandlerMarks(k)'
    BY DEF HandlerMarks, SigningOut, Cleaning
  <2>8. HandlerPresent(k)'
    BY DEF HandlerPresent, HandlerAt, Withdraws, SigningOut, Unseen, Cleaning
  <2>9. HandlerFile(k)'
    BY DEF HandlerFile, HandlerAt, Withdraws, Cleaning
  <2> QED
    BY <2>2, <2>3, <2>4, <2>5, <2>6, <2>7, <2>8, <2>9 DEF HandlerInv
<1> QED
  BY <1>8, <1>10, <1>11, <1>12, <1>13, <1>14, <1>15, <1>16 DEF SignInInv

\* Refuse keeps SignInInv when the sign-out is marked.
LEMMA SignInRefuseKeeps ==
  ASSUME SignInInv, SignInAssumption, NEW h \in Handler, Refuse(h, TRUE), op[handler[h].own].state = "pending"
  PROVE  SignInInv'
<1>1. /\ TypeOK /\ ActiveIsOpen /\ PairInv /\ SlotInv /\ DownInv /\ FileInv
      /\ \A p \in Op : /\ OpAt(p) /\ OpPending(p) /\ OpSlot(p) /\ OpPhase(p)
                       /\ OpPresent(p) /\ OpFile(p) /\ OpLeaves(p)
      /\ \A k \in Handler : /\ HandlerAt(k) /\ HandlerLease(k) /\ HandlerSignsOut(k)
                            /\ HandlerSlot(k) /\ HandlerNeeds(k) /\ HandlerMarks(k)
                            /\ HandlerPresent(k) /\ HandlerFile(k)
  BY DEF SignInInv, OpInv, HandlerInv
<1>2. /\ conn.active \in Op \cup {Nobody} /\ (phase # Nobody => phase.op \in Op)
      /\ \A x \in Op \cup Handler : target[x] \in Op \cup {Nobody}
      /\ \A k \in Handler : k \notin Op /\ k # Nobody
      /\ \A p \in Op : p # Nobody
      /\ \A k \in Handler :
           /\ handler[k].kind \in {"none", "cancel", "disable", "close", "logout", "delete"}
           /\ handler[k].pc \in Cleaning =>
                /\ handler[k].kind \in {"cancel", "disable", "close", "logout", "delete"}
                /\ handler[k].kind # "delete" => handler[k].op \in Op /\ op[handler[k].op] # Nobody
  BY SignInApart, SignInWithdrawers, SignInTyped
<1>3. handler[h].pc = "refused" /\ alive # "down"
  BY DEF Refuse, Running
<1>4. /\ handler[h].kind = "logout" /\ handler[h].own \in Op /\ op[handler[h].own] # Nobody
      /\ op[handler[h].own].action = "logout" /\ worker[handler[h].own] = "none"
      /\ op[handler[h].own].state \in {"pending", "cancelled", "unknown"}
      /\ op[handler[h].own].state = "unknown" => conn.active = handler[h].own
  BY <1>1, <1>2, <1>3 DEF HandlerAt, HandlerSignsOut, Cleaning
<1>5. UNCHANGED <<conn, lease, slot, phase, poisoned, file, alive, life, target, worker, told, breaks>>
  BY <1>4 DEF Refuse, Dropped, registered, backend, server
<1>6. UnderWay(handler[h].own)
  BY <1>4 DEF UnderWay
<1>7. /\ \A p \in Op \ {handler[h].own} : ~UnderWay(p)
      /\ \A k \in Handler : ~Withdraws(k) /\ handler[k].kind \notin {"cancel", "disable", "delete"}
      /\ Matches(handler[h].own) /\ conn.active = handler[h].own /\ conn.exists
      /\ lease # Nobody /\ lease.token = handler[h].own /\ lease.kind # "delete"
  BY <1>4, <1>6, SignInPendAlone
<1>8. /\ handler' \in [Handler -> HandlerType]
      /\ handler'[h] = Idle /\ handler'[h].pc = "idle" /\ handler'[h].kind = "none"
      /\ \A k \in Handler \ {h} : handler'[k] = handler[k]
  BY <1>1, SignInIdleIs DEF Refuse
<1>9. /\ op' \in [Op -> OpType \cup {Nobody}] /\ op'[handler[h].own] # Nobody /\ op'[handler[h].own].state = "unknown"
      /\ op'[handler[h].own].action = op[handler[h].own].action /\ op'[handler[h].own].life = op[handler[h].own].life
      /\ op'[handler[h].own].revision = op[handler[h].own].revision
      /\ \A p \in Op \ {handler[h].own} : op'[p] = op[p]
  BY <1>1, <1>4, SignInStateIs DEF Refuse, Dropped
<1> USE <1>1, <1>2, <1>3, <1>4, <1>5, <1>6, <1>7, <1>8, <1>9
<1>10. TypeOK'
  BY DEF TypeOK
<1>11. SignOutCancelled => SignOutCancelled'
  BY DEF SignOutCancelled, UnderWay
<1>12. ActiveIsOpen'
  BY <1>11 DEF ActiveIsOpen, Open
<1>13. PairInv'
  BY <1>11 DEF PairInv, Withdraws, Cleaning, HandlerSignsOut, HandlerAt, Idle
<1>14. SlotInv'
  BY <1>11 DEF SlotInv, UnderWay, HandlerSlot, OpSlot
<1>15. DownInv'
  BY <1>11 DEF DownInv, Running
<1>16. FileInv'
  BY <1>11
    DEF FileInv, ShownSessionExists, SessionHasCredential, NoSilentCredential,
        AssumedForAReason, Open, UnderWay, Running, ActiveIsOpen, Unseen
<1>17. ASSUME NEW p \in Op PROVE OpInv(p)'
  <2>1. OpAt(p) /\ OpPending(p) /\ OpSlot(p) /\ OpPhase(p)
      /\ OpPresent(p) /\ OpFile(p) /\ OpLeaves(p)
    BY <1>1
  <2> USE <1>17, <2>1, <1>11
  <2>2. OpAt(p)'
    BY DEF OpAt, LoginSteps, LeavingSteps, UnderWay
  <2>3. OpPending(p)'
    BY DEF OpPending, Matches, UnderWay
  <2>4. OpSlot(p)'
    BY DEF OpSlot, Generation
  <2>5. OpPhase(p)'
    BY DEF OpPhase, SigningIn, UnderWay
  <2>6. OpPresent(p)'
    BY DEF OpPresent, OpSlot, Unseen
  <2>7. OpFile(p)'
    BY DEF OpFile, OpPhase, SigningIn, UnderWay, Accounted, Unlooked
  <2>8. OpLeaves(p)'
    BY DEF OpLeaves, LeavingSteps, Past, UnderWay, Generation
  <2> QED
    BY <2>2, <2>3, <2>4, <2>5, <2>6, <2>7, <2>8 DEF OpInv
<1>18. ASSUME NEW k \in Handler PROVE HandlerInv(k)'
  <2>1. HandlerAt(k) /\ HandlerLease(k) /\ HandlerSignsOut(k) /\ HandlerSlot(k)
      /\ HandlerNeeds(k) /\ HandlerMarks(k) /\ HandlerPresent(k) /\ HandlerFile(k)
    BY <1>1
  <2> USE <1>18, <2>1, <1>11
  <2>2. HandlerAt(k)'
    BY DEF HandlerAt, Withdraws, SigningOut, Cleaning, Idle, UnderWay
  <2>3. HandlerLease(k)'
    BY DEF HandlerLease, Withdraws, UnderWay
  <2>4. HandlerSignsOut(k)'
    BY DEF HandlerSignsOut, Cleaning, UnderWay
  <2>5. HandlerSlot(k)'
    BY DEF HandlerSlot, Target, SigningOut, Cleaning, Generation, Past, UnderWay
  <2>6. HandlerNeeds(k)'
    BY DEF HandlerNeeds, Withdraws, SigningOut, Cleaning
  <2>7. HandlerMarks(k)'
    BY DEF HandlerMarks, SigningOut, Cleaning
  <2>8. HandlerPresent(k)'
    BY DEF HandlerPresent, HandlerAt, Withdraws, SigningOut, Unseen, Cleaning
  <2>9. HandlerFile(k)'
    BY DEF HandlerFile, HandlerAt, Withdraws, Cleaning
  <2> QED
    BY <2>2, <2>3, <2>4, <2>5, <2>6, <2>7, <2>8, <2>9 DEF HandlerInv
<1> QED
  BY <1>10, <1>12, <1>13, <1>14, <1>15, <1>16, <1>17, <1>18 DEF SignInInv

\* A handler that closes the backend goes on with what the slot's owner did.
LEMMA SignInDrainIs ==
  ASSUME TypeOK, NEW h \in Handler, NEW o \in Op \cup {Nobody},
         handler' = [handler EXCEPT ![h].pc = "drain", ![h].op = o]
  PROVE  /\ handler' \in [Handler -> HandlerType]
         /\ handler'[h].pc = "drain" /\ handler'[h].op = o
         /\ handler'[h].kind = handler[h].kind
         /\ \A k \in Handler \ {h} : handler'[k] = handler[k]
<1> DEFINE new == [[handler[h] EXCEPT !.pc = "drain"] EXCEPT !.op = o]
<1>1. handler[h] \in HandlerType
  BY DEF TypeOK
<1>2. new \in HandlerType /\ new.pc = "drain" /\ new.op = o /\ new.kind = handler[h].kind
  BY <1>1 DEF HandlerType
<1>3. handler' = [handler EXCEPT ![h] = new]
  BY DEF TypeOK
<1> HIDE DEF new
<1>4. handler'[h] = new /\ handler' \in [Handler -> HandlerType]
      /\ \A k \in Handler \ {h} : handler'[k] = handler[k]
  BY <1>2, <1>3 DEF TypeOK
<1> QED
  BY <1>2, <1>4

\* CloseBackend keeps SignInInv.
LEMMA SignInCloseBackendKeeps ==
  ASSUME SignInInv, SignInAssumption, NEW h \in Handler, CloseBackend(h)
  PROVE  SignInInv'
<1>1. /\ TypeOK /\ ActiveIsOpen /\ PairInv /\ SlotInv /\ DownInv /\ FileInv
      /\ \A p \in Op : /\ OpAt(p) /\ OpPending(p) /\ OpSlot(p) /\ OpPhase(p)
                       /\ OpPresent(p) /\ OpFile(p) /\ OpLeaves(p)
      /\ \A k \in Handler : /\ HandlerAt(k) /\ HandlerLease(k) /\ HandlerSignsOut(k)
                            /\ HandlerSlot(k) /\ HandlerNeeds(k) /\ HandlerMarks(k)
                            /\ HandlerPresent(k) /\ HandlerFile(k)
  BY DEF SignInInv, OpInv, HandlerInv
<1>2. /\ conn.active \in Op \cup {Nobody} /\ (phase # Nobody => phase.op \in Op)
      /\ \A x \in Op \cup Handler : target[x] \in Op \cup {Nobody}
      /\ \A k \in Handler : k \notin Op /\ k # Nobody
      /\ \A p \in Op : p # Nobody
      /\ \A k \in Handler :
           /\ handler[k].kind \in {"none", "cancel", "disable", "close", "logout", "delete"}
           /\ handler[k].pc \in Cleaning =>
                /\ handler[k].kind \in {"cancel", "disable", "close", "logout", "delete"}
                /\ handler[k].kind # "delete" => handler[k].op \in Op /\ op[handler[k].op] # Nobody
  BY SignInApart, SignInWithdrawers, SignInTyped
<1>3. UNCHANGED <<conn, op, lease, phase, poisoned, file, life, target, worker, told, breaks>>
  BY DEF CloseBackend, registered, backend, server
<1>4. handler[h].pc = "close" /\ alive # "down" /\ handler[h].kind = "close" /\ alive' = "shut"
  BY <1>1, <1>2 DEF CloseBackend, Running, HandlerAt, Cleaning
<1>5. /\ handler' \in [Handler -> HandlerType]
      /\ \A k \in Handler \ {h} : handler'[k] = handler[k]
      /\ slot' \in SlotType \cup {Nobody} /\ (slot = Nobody <=> slot' = Nobody)
      /\ slot # Nobody => slot'.kind = slot.kind /\ slot'.by = slot.by
      /\ \/ handler'[h] = Idle /\ handler'[h].pc = "idle" /\ handler'[h].kind = "none"
         \/ /\ handler'[h].pc = "drain" /\ handler'[h].kind = "close"
            /\ handler'[h].op # Nobody => slot # Nobody /\ slot.kind \in {"auth", "prepare"}
  <2>1. CASE slot = Nobody
    <3>1. handler' = [handler EXCEPT ![h] = Idle] /\ slot' = Nobody
      BY <2>1 DEF CloseBackend
    <3> QED
      BY <1>1, <2>1, <3>1, SignInIdleIs
  <2>2. CASE slot # Nobody
    <3> DEFINE by == IF slot.kind \in {"auth", "prepare"} THEN slot.by ELSE Nobody
    <3>1. slot' = [slot EXCEPT !.stop = TRUE]
          /\ handler' = [handler EXCEPT ![h].pc = "drain", ![h].op = by]
      BY <2>2 DEF CloseBackend
    <3>2. by \in Op \cup {Nobody} /\ (by # Nobody => slot.kind \in {"auth", "prepare"})
      BY <1>1, <2>2 DEF SlotInv
    <3> HIDE DEF by
    <3>3. slot' # Nobody /\ slot' \in SlotType /\ slot'.kind = slot.kind /\ slot'.by = slot.by
      BY <1>1, <2>2, <3>1, SignInStopIs
    <3>4. /\ handler' \in [Handler -> HandlerType]
          /\ handler'[h].pc = "drain" /\ handler'[h].op = by
          /\ handler'[h].kind = handler[h].kind
          /\ \A k \in Handler \ {h} : handler'[k] = handler[k]
      BY <1>1, <3>1, <3>2, SignInDrainIs
    <3> QED
      BY <1>4, <2>2, <3>2, <3>3, <3>4
  <2> QED
    BY <2>1, <2>2
<1>6. slot # Nobody /\ slot.kind \in {"auth", "prepare"} => Unseen
  BY <1>1 DEF SlotInv, OpSlot, OpPresent, FileInv, Unseen
<1> USE <1>1, <1>2, <1>3, <1>4, <1>5, <1>6
<1>7. TypeOK'
  BY DEF TypeOK
<1>8. SignOutCancelled => SignOutCancelled'
  BY DEF SignOutCancelled, UnderWay
<1>9. ActiveIsOpen'
  BY <1>8 DEF ActiveIsOpen, Open
<1>10. PairInv'
  BY <1>8 DEF PairInv, Withdraws, Cleaning, HandlerSignsOut, HandlerAt, Idle
<1>11. SlotInv'
  BY <1>8 DEF SlotInv, UnderWay, HandlerSlot, OpSlot
<1>12. DownInv'
  BY <1>8 DEF DownInv, Running
<1>13. FileInv'
  BY <1>8
    DEF FileInv, ShownSessionExists, SessionHasCredential, NoSilentCredential,
        AssumedForAReason, Open, UnderWay, Running, ActiveIsOpen, Unseen
<1>14. ASSUME NEW p \in Op PROVE OpInv(p)'
  <2>1. OpAt(p) /\ OpPending(p) /\ OpSlot(p) /\ OpPhase(p)
      /\ OpPresent(p) /\ OpFile(p) /\ OpLeaves(p)
    BY <1>1
  <2> USE <1>14, <2>1, <1>8
  <2>2. OpAt(p)'
    BY DEF OpAt, LoginSteps, LeavingSteps, UnderWay
  <2>3. OpPending(p)'
    BY DEF OpPending, Matches, UnderWay
  <2>4. OpSlot(p)'
    BY DEF OpSlot, Generation
  <2>5. OpPhase(p)'
    BY DEF OpPhase, SigningIn, UnderWay
  <2>6. OpPresent(p)'
    BY DEF OpPresent, OpSlot, Unseen
  <2>7. OpFile(p)'
    BY DEF OpFile, OpPhase, SigningIn, UnderWay, Accounted, Unlooked
  <2>8. OpLeaves(p)'
    BY DEF OpLeaves, LeavingSteps, Past, UnderWay, Generation
  <2> QED
    BY <2>2, <2>3, <2>4, <2>5, <2>6, <2>7, <2>8 DEF OpInv
<1>15. ASSUME NEW k \in Handler PROVE HandlerInv(k)'
  <2>1. HandlerAt(k) /\ HandlerLease(k) /\ HandlerSignsOut(k) /\ HandlerSlot(k)
      /\ HandlerNeeds(k) /\ HandlerMarks(k) /\ HandlerPresent(k) /\ HandlerFile(k)
    BY <1>1
  <2> USE <1>15, <2>1, <1>8
  <2>2. HandlerAt(k)'
    BY DEF HandlerAt, Withdraws, SigningOut, Cleaning, Idle, UnderWay
  <2>3. HandlerLease(k)'
    BY DEF HandlerLease, Withdraws, UnderWay
  <2>4. HandlerSignsOut(k)'
    BY DEF HandlerSignsOut, Cleaning, UnderWay
  <2>5. HandlerSlot(k)'
    BY DEF HandlerSlot, Target, SigningOut, Cleaning, Generation, Past, UnderWay
  <2>6. HandlerNeeds(k)'
    BY DEF HandlerNeeds, Withdraws, SigningOut, Cleaning
  <2>7. HandlerMarks(k)'
    BY DEF HandlerMarks, SigningOut, Cleaning
  <2>8. HandlerPresent(k)'
    BY DEF HandlerPresent, HandlerAt, Withdraws, SigningOut, Unseen, Cleaning
  <2>9. HandlerFile(k)'
    BY DEF HandlerFile, HandlerAt, Withdraws, Cleaning
  <2> QED
    BY <2>2, <2>3, <2>4, <2>5, <2>6, <2>7, <2>8, <2>9 DEF HandlerInv
<1> QED
  BY <1>7, <1>9, <1>10, <1>11, <1>12, <1>13, <1>14, <1>15 DEF SignInInv

\* Drain keeps SignInInv.
LEMMA SignInDrainKeeps ==
  ASSUME SignInInv, SignInAssumption, NEW h \in Handler, NEW cleared \in BOOLEAN, Drain(h, cleared)
  PROVE  SignInInv'
<1>1. /\ TypeOK /\ ActiveIsOpen /\ PairInv /\ SlotInv /\ DownInv /\ FileInv
      /\ \A p \in Op : /\ OpAt(p) /\ OpPending(p) /\ OpSlot(p) /\ OpPhase(p)
                       /\ OpPresent(p) /\ OpFile(p) /\ OpLeaves(p)
      /\ \A k \in Handler : /\ HandlerAt(k) /\ HandlerLease(k) /\ HandlerSignsOut(k)
                            /\ HandlerSlot(k) /\ HandlerNeeds(k) /\ HandlerMarks(k)
                            /\ HandlerPresent(k) /\ HandlerFile(k)
  BY DEF SignInInv, OpInv, HandlerInv
<1>2. /\ conn.active \in Op \cup {Nobody} /\ (phase # Nobody => phase.op \in Op)
      /\ \A x \in Op \cup Handler : target[x] \in Op \cup {Nobody}
      /\ \A k \in Handler : k \notin Op /\ k # Nobody
      /\ \A p \in Op : p # Nobody
      /\ \A k \in Handler :
           /\ handler[k].kind \in {"none", "cancel", "disable", "close", "logout", "delete"}
           /\ handler[k].pc \in Cleaning =>
                /\ handler[k].kind \in {"cancel", "disable", "close", "logout", "delete"}
                /\ handler[k].kind # "delete" => handler[k].op \in Op /\ op[handler[k].op] # Nobody
  BY SignInApart, SignInWithdrawers, SignInTyped
<1>3. UNCHANGED <<conn, op, lease, slot, phase, alive, life, target, worker>>
  BY DEF Drain, registered, backend, server
<1>4. handler[h].pc = "drain" /\ handler[h].kind = "close" /\ alive = "shut"
  BY <1>1, <1>2 DEF Drain, Running, HandlerAt, HandlerLease, Cleaning
<1>5. /\ handler' \in [Handler -> HandlerType]
      /\ handler'[h] = Idle /\ handler'[h].pc = "idle" /\ handler'[h].kind = "none"
      /\ \A k \in Handler \ {h} : handler'[k] = handler[k]
  BY <1>1, SignInIdleIs DEF Drain
<1>6. handler[h].op # Nobody => Unseen
  BY <1>1, <1>4 DEF HandlerPresent
<1>7. /\ poisoned' \in BOOLEAN /\ file' \in BOOLEAN /\ told' \in BOOLEAN
      /\ breaks' \in 0 .. MaxBreaks /\ (breaks > 0 => breaks' > 0)
      /\ file' => file /\ (told => told')
      /\ handler[h].op = Nobody => file' = file
  <2>1. poisoned \in BOOLEAN /\ file \in BOOLEAN /\ told \in BOOLEAN /\ breaks \in 0 .. MaxBreaks
    BY <1>1 DEF TypeOK
  <2>2. CASE slot = Nobody /\ cleared
    <3>1. CASE handler[h].op = Nobody
      BY <2>1, <2>2, <3>1 DEF Drain
    <3>2. CASE handler[h].op # Nobody
      BY <2>1, <2>2, <3>2 DEF Drain
    <3> QED
      BY <3>1, <3>2
  <2>3. CASE ~(slot = Nobody /\ cleared)
    <3>1. /\ Break /\ told' = TRUE /\ poisoned' \in {poisoned, TRUE} /\ file' \in {file, FALSE}
          /\ handler[h].op = Nobody => file' = file
      BY <2>3 DEF Drain
    <3>2. breaks' \in 0 .. MaxBreaks /\ breaks' > 0
      BY <1>1, <3>1, SignInBreakIs
    <3>3. file' \in BOOLEAN /\ (file' => file)
      <4>1. CASE file' = file
        BY <2>1, <4>1
      <4>2. CASE file' = FALSE
        BY <4>2
      <4> QED
        BY <3>1, <4>1, <4>2
    <3>4. poisoned' \in BOOLEAN
      BY <2>1, <3>1
    <3> QED
      BY <3>1, <3>2, <3>3, <3>4
  <2> QED
    BY <2>2, <2>3
<1> USE <1>1, <1>2, <1>3, <1>4, <1>5, <1>6, <1>7
<1>8. TypeOK'
  BY DEF TypeOK
<1>9. SignOutCancelled => SignOutCancelled'
  BY DEF SignOutCancelled, UnderWay
<1>10. ActiveIsOpen'
  BY <1>9 DEF ActiveIsOpen, Open
<1>11. PairInv'
  BY <1>9 DEF PairInv, Withdraws, Cleaning, HandlerSignsOut, HandlerAt, Idle
<1>12. SlotInv'
  BY <1>9 DEF SlotInv, UnderWay, HandlerSlot, OpSlot
<1>13. DownInv'
  BY <1>9 DEF DownInv, Running
<1>14. FileInv'
  BY <1>9
    DEF FileInv, ShownSessionExists, SessionHasCredential, NoSilentCredential,
        AssumedForAReason, Open, UnderWay, Running, ActiveIsOpen, Unseen
<1>15. ASSUME NEW p \in Op PROVE OpInv(p)'
  <2>1. OpAt(p) /\ OpPending(p) /\ OpSlot(p) /\ OpPhase(p)
      /\ OpPresent(p) /\ OpFile(p) /\ OpLeaves(p)
    BY <1>1
  <2> USE <1>15, <2>1, <1>9
  <2>2. OpAt(p)'
    BY DEF OpAt, LoginSteps, LeavingSteps, UnderWay
  <2>3. OpPending(p)'
    BY DEF OpPending, Matches, UnderWay
  <2>4. OpSlot(p)'
    BY DEF OpSlot, Generation
  <2>5. OpPhase(p)'
    BY DEF OpPhase, SigningIn, UnderWay
  <2>6. OpPresent(p)'
    BY DEF OpPresent, OpSlot, Unseen
  <2>7. OpFile(p)'
    BY DEF OpFile, OpPhase, SigningIn, UnderWay, Accounted, Unlooked
  <2>8. OpLeaves(p)'
    BY DEF OpLeaves, LeavingSteps, Past, UnderWay, Generation
  <2> QED
    BY <2>2, <2>3, <2>4, <2>5, <2>6, <2>7, <2>8 DEF OpInv
<1>16. ASSUME NEW k \in Handler PROVE HandlerInv(k)'
  <2>1. HandlerAt(k) /\ HandlerLease(k) /\ HandlerSignsOut(k) /\ HandlerSlot(k)
      /\ HandlerNeeds(k) /\ HandlerMarks(k) /\ HandlerPresent(k) /\ HandlerFile(k)
    BY <1>1
  <2> USE <1>16, <2>1, <1>9
  <2>2. HandlerAt(k)'
    BY DEF HandlerAt, Withdraws, SigningOut, Cleaning, Idle, UnderWay
  <2>3. HandlerLease(k)'
    BY DEF HandlerLease, Withdraws, UnderWay
  <2>4. HandlerSignsOut(k)'
    BY DEF HandlerSignsOut, Cleaning, UnderWay
  <2>5. HandlerSlot(k)'
    BY DEF HandlerSlot, Target, SigningOut, Cleaning, Generation, Past, UnderWay
  <2>6. HandlerNeeds(k)'
    BY DEF HandlerNeeds, Withdraws, SigningOut, Cleaning
  <2>7. HandlerMarks(k)'
    BY DEF HandlerMarks, SigningOut, Cleaning
  <2>8. HandlerPresent(k)'
    BY DEF HandlerPresent, HandlerAt, Withdraws, SigningOut, Unseen, Cleaning
  <2>9. HandlerFile(k)'
    BY DEF HandlerFile, HandlerAt, Withdraws, Cleaning
  <2> QED
    BY <2>2, <2>3, <2>4, <2>5, <2>6, <2>7, <2>8, <2>9 DEF HandlerInv
<1> QED
  BY <1>8, <1>10, <1>11, <1>12, <1>13, <1>14, <1>15, <1>16 DEF SignInInv

\* StartSignIn keeps SignInInv when the executor takes the work.
LEMMA SignInStartSignInKeeps ==
  ASSUME SignInInv, SignInAssumption, NEW o \in Op, StartSignIn(o, TRUE)
  PROVE  SignInInv'
<1>1. /\ TypeOK /\ ActiveIsOpen /\ PairInv /\ SlotInv /\ DownInv /\ FileInv
      /\ \A p \in Op : /\ OpAt(p) /\ OpPending(p) /\ OpSlot(p) /\ OpPhase(p)
                       /\ OpPresent(p) /\ OpFile(p) /\ OpLeaves(p)
      /\ \A k \in Handler : /\ HandlerAt(k) /\ HandlerLease(k) /\ HandlerSignsOut(k)
                            /\ HandlerSlot(k) /\ HandlerNeeds(k) /\ HandlerMarks(k)
                            /\ HandlerPresent(k) /\ HandlerFile(k)
  BY DEF SignInInv, OpInv, HandlerInv
<1>2. /\ conn.active \in Op \cup {Nobody} /\ (phase # Nobody => phase.op \in Op)
      /\ \A x \in Op \cup Handler : target[x] \in Op \cup {Nobody}
      /\ \A k \in Handler : k \notin Op /\ k # Nobody
      /\ \A p \in Op : p # Nobody
      /\ \A k \in Handler :
           /\ handler[k].kind \in {"none", "cancel", "disable", "close", "logout", "delete"}
           /\ handler[k].pc \in Cleaning =>
                /\ handler[k].kind \in {"cancel", "disable", "close", "logout", "delete"}
                /\ handler[k].kind # "delete" => handler[k].op \in Op /\ op[handler[k].op] # Nobody
  BY SignInApart, SignInWithdrawers, SignInTyped
<1>3. UNCHANGED <<slot, poisoned, file, alive, life, target, handler, told, breaks>>
  BY DEF StartSignIn, registered, backend, server
<1>4. alive = "up" /\ op[o] = Nobody /\ lease = Nobody /\ conn.active = Nobody /\ slot = Nobody /\ worker[o] = "none"
  BY <1>1 DEF StartSignIn, Unused, ProviderFree, Op, ActiveIsOpen, OpAt
<1>5. /\ \A p \in Op : ~UnderWay(p)
      /\ \A k \in Handler : handler[k].kind \notin {"cancel", "disable", "delete", "close"}
  BY <1>1, <1>4, SignInLeaseFree DEF HandlerLease
<1>6. /\ phase' \in PhaseType /\ phase' # Nobody /\ phase'.op = o /\ phase'.at = "registered"
  BY SignInApart DEF StartSignIn, PhaseType
<1>7. file => (conn.exists /\ (conn.present \/ conn.assumed)) \/ told
  BY <1>1, <1>4 DEF FileInv, NoSilentCredential
<1>8. /\ op' \in [Op -> OpType \cup {Nobody}] /\ op'[o] # Nobody /\ op'[o].state = "pending"
      /\ op'[o].action = "start" /\ op'[o].life = life
      /\ \A p \in Op \ {o} : op'[p] = op[p]
      /\ op'[o].revision = conn.revision
  BY <1>1, SignInNewOpIs DEF StartSignIn, NewOp, TypeOK, ConnectionType
<1>9. /\ conn' \in ConnectionType /\ conn'.present = conn.present /\ conn'.assumed = conn.assumed
      /\ conn'.exists /\ conn.exists /\ conn'.revision = conn.revision
      /\ conn'.enabled /\ conn'.active = o
  BY <1>1 DEF StartSignIn, TypeOK, ConnectionType
<1>10. /\ lease' \in LeaseType /\ lease' # Nobody /\ lease'.token = o
       /\ lease'.kind = "authentication"
  BY <1>1, SignInLeaseIs DEF StartSignIn
<1>11. /\ worker' \in [Op -> WorkerType] /\ worker'[o] = "queued"
       /\ \A p \in Op \ {o} : worker'[p] = worker[p]
  BY <1>1 DEF StartSignIn, TypeOK, WorkerType
<1> USE <1>1, <1>2, <1>3, <1>4, <1>5, <1>6, <1>7, <1>8, <1>9, <1>10, <1>11
<1>12. TypeOK'
  BY DEF TypeOK
<1>13. SignOutCancelled => SignOutCancelled'
  BY DEF SignOutCancelled, UnderWay
<1>14. ActiveIsOpen'
  BY <1>13 DEF ActiveIsOpen, Open
<1>15. PairInv'
  BY <1>13 DEF PairInv, Withdraws, Cleaning, HandlerSignsOut, HandlerAt, Idle
<1>16. SlotInv'
  BY <1>13 DEF SlotInv, UnderWay, HandlerSlot, OpSlot
<1>17. DownInv'
  BY <1>13 DEF DownInv, Running
<1>18. FileInv'
  BY <1>13
    DEF FileInv, ShownSessionExists, SessionHasCredential, NoSilentCredential,
        AssumedForAReason, Open, UnderWay, Running, ActiveIsOpen, Unseen
<1>19. ASSUME NEW p \in Op PROVE OpInv(p)'
  <2>1. OpAt(p) /\ OpPending(p) /\ OpSlot(p) /\ OpPhase(p)
      /\ OpPresent(p) /\ OpFile(p) /\ OpLeaves(p)
    BY <1>1
  <2> USE <1>19, <2>1, <1>13
  <2>2. OpAt(p)'
    BY DEF OpAt, LoginSteps, LeavingSteps, UnderWay
  <2>3. OpPending(p)'
    BY DEF OpPending, Matches, UnderWay
  <2>4. OpSlot(p)'
    BY DEF OpSlot, Generation
  <2>5. OpPhase(p)'
    BY DEF OpPhase, SigningIn, UnderWay
  <2>6. OpPresent(p)'
    BY DEF OpPresent, OpSlot, Unseen
  <2>7. OpFile(p)'
    BY DEF OpFile, OpPhase, SigningIn, UnderWay, Accounted, Unlooked
  <2>8. OpLeaves(p)'
    BY DEF OpLeaves, LeavingSteps, Past, UnderWay, Generation
  <2> QED
    BY <2>2, <2>3, <2>4, <2>5, <2>6, <2>7, <2>8 DEF OpInv
<1>20. ASSUME NEW k \in Handler PROVE HandlerInv(k)'
  <2>1. HandlerAt(k) /\ HandlerLease(k) /\ HandlerSignsOut(k) /\ HandlerSlot(k)
      /\ HandlerNeeds(k) /\ HandlerMarks(k) /\ HandlerPresent(k) /\ HandlerFile(k)
    BY <1>1
  <2> USE <1>20, <2>1, <1>13
  <2>2. HandlerAt(k)'
    BY DEF HandlerAt, Withdraws, SigningOut, Cleaning, Idle, UnderWay
  <2>3. HandlerLease(k)'
    BY DEF HandlerLease, Withdraws, UnderWay
  <2>4. HandlerSignsOut(k)'
    BY DEF HandlerSignsOut, Cleaning, UnderWay
  <2>5. HandlerSlot(k)'
    BY DEF HandlerSlot, Target, SigningOut, Cleaning, Generation, Past, UnderWay
  <2>6. HandlerNeeds(k)'
    BY DEF HandlerNeeds, Withdraws, SigningOut, Cleaning
  <2>7. HandlerMarks(k)'
    BY DEF HandlerMarks, SigningOut, Cleaning
  <2>8. HandlerPresent(k)'
    BY DEF HandlerPresent, HandlerAt, Withdraws, SigningOut, Unseen, Cleaning
  <2>9. HandlerFile(k)'
    BY DEF HandlerFile, HandlerAt, Withdraws, Cleaning
  <2> QED
    BY <2>2, <2>3, <2>4, <2>5, <2>6, <2>7, <2>8, <2>9 DEF HandlerInv
<1> QED
  BY <1>12, <1>14, <1>15, <1>16, <1>17, <1>18, <1>19, <1>20 DEF SignInInv

\* StartSignIn keeps SignInInv when the executor takes no more work.
LEMMA SignInStartSignInRefusedKeeps ==
  ASSUME SignInInv, SignInAssumption, NEW o \in Op, StartSignIn(o, FALSE)
  PROVE  SignInInv'
<1>1. /\ TypeOK /\ ActiveIsOpen /\ PairInv /\ SlotInv /\ DownInv /\ FileInv
      /\ \A p \in Op : /\ OpAt(p) /\ OpPending(p) /\ OpSlot(p) /\ OpPhase(p)
                       /\ OpPresent(p) /\ OpFile(p) /\ OpLeaves(p)
      /\ \A k \in Handler : /\ HandlerAt(k) /\ HandlerLease(k) /\ HandlerSignsOut(k)
                            /\ HandlerSlot(k) /\ HandlerNeeds(k) /\ HandlerMarks(k)
                            /\ HandlerPresent(k) /\ HandlerFile(k)
  BY DEF SignInInv, OpInv, HandlerInv
<1>2. /\ conn.active \in Op \cup {Nobody} /\ (phase # Nobody => phase.op \in Op)
      /\ \A x \in Op \cup Handler : target[x] \in Op \cup {Nobody}
      /\ \A k \in Handler : k \notin Op /\ k # Nobody
      /\ \A p \in Op : p # Nobody
      /\ \A k \in Handler :
           /\ handler[k].kind \in {"none", "cancel", "disable", "close", "logout", "delete"}
           /\ handler[k].pc \in Cleaning =>
                /\ handler[k].kind \in {"cancel", "disable", "close", "logout", "delete"}
                /\ handler[k].kind # "delete" => handler[k].op \in Op /\ op[handler[k].op] # Nobody
  BY SignInApart, SignInWithdrawers, SignInTyped
<1>3. UNCHANGED <<lease, slot, poisoned, file, alive, life, target, worker, handler, told>>
  BY DEF StartSignIn, registered, backend, server
<1>4. alive = "up" /\ op[o] = Nobody /\ lease = Nobody /\ conn.active = Nobody /\ slot = Nobody /\ worker[o] = "none"
  BY <1>1 DEF StartSignIn, Unused, ProviderFree, Op, ActiveIsOpen, OpAt
<1>5. /\ \A p \in Op : ~UnderWay(p)
      /\ \A k \in Handler : handler[k].kind \notin {"cancel", "disable", "delete", "close"}
  BY <1>1, <1>4, SignInLeaseFree DEF HandlerLease
<1>6. /\ phase' \in PhaseType /\ phase' # Nobody /\ phase'.op = o /\ phase'.at = "registered"
  BY SignInApart DEF StartSignIn, PhaseType
<1>7. file => (conn.exists /\ (conn.present \/ conn.assumed)) \/ told
  BY <1>1, <1>4 DEF FileInv, NoSilentCredential
<1>8. /\ op' \in [Op -> OpType \cup {Nobody}] /\ op'[o] # Nobody /\ op'[o].state = "failed"
      /\ op'[o].action = "start" /\ op'[o].life = life
      /\ \A p \in Op \ {o} : op'[p] = op[p]
  BY <1>1, SignInNewOpIs DEF StartSignIn, TypeOK, ConnectionType
<1>9. /\ conn' \in ConnectionType /\ conn'.present = conn.present /\ conn'.assumed = conn.assumed
      /\ conn'.exists /\ conn.exists /\ conn'.revision = conn.revision
      /\ conn'.enabled /\ conn'.active = Nobody
  BY <1>1 DEF StartSignIn, TypeOK, ConnectionType
<1>10. breaks' \in 0 .. MaxBreaks /\ breaks' > 0
  BY <1>1, SignInBreakIs DEF StartSignIn
<1> USE <1>1, <1>2, <1>3, <1>4, <1>5, <1>6, <1>7, <1>8, <1>9, <1>10
<1>11. TypeOK'
  BY DEF TypeOK
<1>12. SignOutCancelled => SignOutCancelled'
  BY DEF SignOutCancelled, UnderWay
<1>13. ActiveIsOpen'
  BY <1>12 DEF ActiveIsOpen, Open
<1>14. PairInv'
  BY <1>12 DEF PairInv, Withdraws, Cleaning, HandlerSignsOut, HandlerAt, Idle
<1>15. SlotInv'
  BY <1>12 DEF SlotInv, UnderWay, HandlerSlot, OpSlot
<1>16. DownInv'
  BY <1>12 DEF DownInv, Running
<1>17. FileInv'
  BY <1>12
    DEF FileInv, ShownSessionExists, SessionHasCredential, NoSilentCredential,
        AssumedForAReason, Open, UnderWay, Running, ActiveIsOpen, Unseen
<1>18. ASSUME NEW p \in Op PROVE OpInv(p)'
  <2>1. OpAt(p) /\ OpPending(p) /\ OpSlot(p) /\ OpPhase(p)
      /\ OpPresent(p) /\ OpFile(p) /\ OpLeaves(p)
    BY <1>1
  <2> USE <1>18, <2>1, <1>12
  <2>2. OpAt(p)'
    BY DEF OpAt, LoginSteps, LeavingSteps, UnderWay
  <2>3. OpPending(p)'
    BY DEF OpPending, Matches, UnderWay
  <2>4. OpSlot(p)'
    BY DEF OpSlot, Generation
  <2>5. OpPhase(p)'
    BY DEF OpPhase, SigningIn, UnderWay
  <2>6. OpPresent(p)'
    BY DEF OpPresent, OpSlot, Unseen
  <2>7. OpFile(p)'
    BY DEF OpFile, OpPhase, SigningIn, UnderWay, Accounted, Unlooked
  <2>8. OpLeaves(p)'
    BY DEF OpLeaves, LeavingSteps, Past, UnderWay, Generation
  <2> QED
    BY <2>2, <2>3, <2>4, <2>5, <2>6, <2>7, <2>8 DEF OpInv
<1>19. ASSUME NEW k \in Handler PROVE HandlerInv(k)'
  <2>1. HandlerAt(k) /\ HandlerLease(k) /\ HandlerSignsOut(k) /\ HandlerSlot(k)
      /\ HandlerNeeds(k) /\ HandlerMarks(k) /\ HandlerPresent(k) /\ HandlerFile(k)
    BY <1>1
  <2> USE <1>19, <2>1, <1>12
  <2>2. HandlerAt(k)'
    BY DEF HandlerAt, Withdraws, SigningOut, Cleaning, Idle, UnderWay
  <2>3. HandlerLease(k)'
    BY DEF HandlerLease, Withdraws, UnderWay
  <2>4. HandlerSignsOut(k)'
    BY DEF HandlerSignsOut, Cleaning, UnderWay
  <2>5. HandlerSlot(k)'
    BY DEF HandlerSlot, Target, SigningOut, Cleaning, Generation, Past, UnderWay
  <2>6. HandlerNeeds(k)'
    BY DEF HandlerNeeds, Withdraws, SigningOut, Cleaning
  <2>7. HandlerMarks(k)'
    BY DEF HandlerMarks, SigningOut, Cleaning
  <2>8. HandlerPresent(k)'
    BY DEF HandlerPresent, HandlerAt, Withdraws, SigningOut, Unseen, Cleaning
  <2>9. HandlerFile(k)'
    BY DEF HandlerFile, HandlerAt, Withdraws, Cleaning
  <2> QED
    BY <2>2, <2>3, <2>4, <2>5, <2>6, <2>7, <2>8, <2>9 DEF HandlerInv
<1> QED
  BY <1>11, <1>13, <1>14, <1>15, <1>16, <1>17, <1>18, <1>19 DEF SignInInv

\* Cancel keeps SignInInv when it withdraws the active operation.
LEMMA SignInCancelKeeps ==
  ASSUME SignInInv, SignInAssumption, NEW h \in Handler, NEW o \in Op, Cancel(h, o), conn.active = o
  PROVE  SignInInv'
<1>1. /\ TypeOK /\ ActiveIsOpen /\ PairInv /\ SlotInv /\ DownInv /\ FileInv
      /\ \A p \in Op : /\ OpAt(p) /\ OpPending(p) /\ OpSlot(p) /\ OpPhase(p)
                       /\ OpPresent(p) /\ OpFile(p) /\ OpLeaves(p)
      /\ \A k \in Handler : /\ HandlerAt(k) /\ HandlerLease(k) /\ HandlerSignsOut(k)
                            /\ HandlerSlot(k) /\ HandlerNeeds(k) /\ HandlerMarks(k)
                            /\ HandlerPresent(k) /\ HandlerFile(k)
  BY DEF SignInInv, OpInv, HandlerInv
<1>2. /\ conn.active \in Op \cup {Nobody} /\ (phase # Nobody => phase.op \in Op)
      /\ \A x \in Op \cup Handler : target[x] \in Op \cup {Nobody}
      /\ \A k \in Handler : k \notin Op /\ k # Nobody
      /\ \A p \in Op : p # Nobody
      /\ \A k \in Handler :
           /\ handler[k].kind \in {"none", "cancel", "disable", "close", "logout", "delete"}
           /\ handler[k].pc \in Cleaning =>
                /\ handler[k].kind \in {"cancel", "disable", "close", "logout", "delete"}
                /\ handler[k].kind # "delete" => handler[k].op \in Op /\ op[handler[k].op] # Nobody
  BY SignInApart, SignInWithdrawers, SignInTyped
<1>3. UNCHANGED <<slot, phase, poisoned, file, alive, life, target, worker, told, breaks>>
  BY DEF Cancel, registered, backend, server
<1>4. /\ alive = "up" /\ op[o] # Nobody /\ op[o].state \in {"pending", "unknown"} /\ conn.exists
      /\ handler[h].pc = "idle" /\ handler[h].kind = "none"
      /\ lease # Nobody => lease.token = o
      /\ Withdraw(h, o, "cancel", conn)
  BY DEF Cancel, Open, Idle
<1>5. /\ \A p \in Op \ {o} : ~UnderWay(p)
      /\ \A k \in Handler : handler[k].kind \notin {"cancel", "disable", "delete", "close"}
  BY <1>1, <1>2, <1>4 DEF HandlerLease, OpPending, Matches
<1>6. /\ op' \in [Op -> OpType \cup {Nobody}] /\ op'[o] # Nobody /\ op'[o].state = "unknown"
      /\ op'[o].action = op[o].action /\ op'[o].life = op[o].life
      /\ op'[o].revision = op[o].revision
      /\ \A p \in Op \ {o} : op'[p] = op[p]
  BY <1>1, <1>4, SignInStateIs DEF Withdraw
<1>7. /\ conn' \in ConnectionType /\ conn'.present = conn.present /\ conn'.assumed = conn.assumed
      /\ conn'.exists = conn.exists /\ conn'.revision = conn.revision
      /\ conn'.enabled = conn.enabled /\ conn'.active = o
  BY <1>1, <1>4 DEF Withdraw, TypeOK, ConnectionType
<1>8. /\ lease' \in LeaseType /\ lease' # Nobody /\ lease'.token = h
      /\ lease'.kind = "authentication_cancel"
  BY <1>1, <1>4, SignInLeaseIs DEF Withdraw
<1>9. op[o].action \in {"start", "logout"} /\ conn.present \in BOOLEAN
  BY <1>1, <1>4 DEF TypeOK, OpType, ConnectionType
<1>10. /\ conn.present => /\ phase # Nobody /\ phase.op = o => phase.at = "registered"
                          /\ worker[o] \notin {"erase", "erasing", "login", "session", "installed"}
       /\ op[o].action = "logout" => Unseen
  BY <1>1 DEF OpPresent
<1>11. /\ handler' \in [Handler -> HandlerType]
       /\ handler'[h].pc = (IF op[o].action = "logout" THEN "logout" ELSE "register") /\ handler'[h].kind = "cancel"
       /\ handler'[h].op = o /\ handler'[h].own = Nobody
       /\ \A k \in Handler \ {h} : handler'[k] = handler[k]
       /\ op[o].action = "start" => (handler'[h].required <=> ~conn.present)
  <2> DEFINE pc == IF op[o].action = "logout" THEN "logout" ELSE "register"
  <2> DEFINE required == op[o].action = "start" /\ ~conn.present
  <2>1. Occupy(h, pc, "cancel", o, Nobody, required)
    BY <1>4 DEF Withdraw
  <2>2. pc \in {"register", "logout"} /\ required \in BOOLEAN
    BY <1>9
  <2> HIDE DEF pc, required
  <2>3. /\ handler' \in [Handler -> HandlerType]
        /\ handler'[h].pc = pc /\ handler'[h].kind = "cancel"
        /\ handler'[h].op = o /\ handler'[h].own = Nobody /\ handler'[h].required = required
        /\ \A k \in Handler \ {h} : handler'[k] = handler[k]
    BY <1>1, <1>7, <2>1, <2>2, SignInOccupyIs
  <2>4. op[o].action = "start" => (required <=> ~conn.present)
    BY DEF required
  <2> QED
    BY <2>3, <2>4 DEF pc
<1> USE <1>1, <1>2, <1>3, <1>4, <1>5, <1>6, <1>7, <1>8, <1>9, <1>10, <1>11
<1>12. TypeOK'
  BY DEF TypeOK
<1>13. SignOutCancelled => SignOutCancelled'
  BY DEF SignOutCancelled, UnderWay
<1>14. ActiveIsOpen'
  BY <1>13 DEF ActiveIsOpen, Open
<1>15. PairInv'
  BY <1>13 DEF PairInv, Withdraws, Cleaning, HandlerSignsOut, HandlerAt, Idle
<1>16. SlotInv'
  BY <1>13 DEF SlotInv, UnderWay, HandlerSlot, OpSlot
<1>17. DownInv'
  BY <1>13 DEF DownInv, Running
<1>18. FileInv'
  BY <1>13
    DEF FileInv, ShownSessionExists, SessionHasCredential, NoSilentCredential,
        AssumedForAReason, Open, UnderWay, Running, ActiveIsOpen, Unseen
<1>19. ASSUME NEW p \in Op PROVE OpInv(p)'
  <2>1. OpAt(p) /\ OpPending(p) /\ OpSlot(p) /\ OpPhase(p)
      /\ OpPresent(p) /\ OpFile(p) /\ OpLeaves(p)
    BY <1>1
  <2> USE <1>19, <2>1, <1>13
  <2>2. OpAt(p)'
    BY DEF OpAt, LoginSteps, LeavingSteps, UnderWay
  <2>3. OpPending(p)'
    BY DEF OpPending, Matches, UnderWay
  <2>4. OpSlot(p)'
    BY DEF OpSlot, Generation
  <2>5. OpPhase(p)'
    BY DEF OpPhase, SigningIn, UnderWay
  <2>6. OpPresent(p)'
    BY DEF OpPresent, OpSlot, Unseen
  <2>7. OpFile(p)'
    BY DEF OpFile, OpPhase, SigningIn, UnderWay, Accounted, Unlooked
  <2>8. OpLeaves(p)'
    BY DEF OpLeaves, LeavingSteps, Past, UnderWay, Generation
  <2> QED
    BY <2>2, <2>3, <2>4, <2>5, <2>6, <2>7, <2>8 DEF OpInv
<1>20. ASSUME NEW k \in Handler PROVE HandlerInv(k)'
  <2>1. HandlerAt(k) /\ HandlerLease(k) /\ HandlerSignsOut(k) /\ HandlerSlot(k)
      /\ HandlerNeeds(k) /\ HandlerMarks(k) /\ HandlerPresent(k) /\ HandlerFile(k)
    BY <1>1
  <2> USE <1>20, <2>1, <1>13
  <2>2. HandlerAt(k)'
    BY DEF HandlerAt, Withdraws, SigningOut, Cleaning, Idle, UnderWay
  <2>3. HandlerLease(k)'
    BY DEF HandlerLease, Withdraws, UnderWay
  <2>4. HandlerSignsOut(k)'
    BY DEF HandlerSignsOut, Cleaning, UnderWay
  <2>5. HandlerSlot(k)'
    BY DEF HandlerSlot, Target, SigningOut, Cleaning, Generation, Past, UnderWay
  <2>6. HandlerNeeds(k)'
    BY DEF HandlerNeeds, Withdraws, SigningOut, Cleaning
  <2>7. HandlerMarks(k)'
    BY DEF HandlerMarks, SigningOut, Cleaning
  <2>8. HandlerPresent(k)'
    BY DEF HandlerPresent, HandlerAt, Withdraws, SigningOut, Unseen, Cleaning
  <2>9. HandlerFile(k)'
    BY DEF HandlerFile, HandlerAt, Withdraws, Cleaning
  <2> QED
    BY <2>2, <2>3, <2>4, <2>5, <2>6, <2>7, <2>8, <2>9 DEF HandlerInv
<1> QED
  BY <1>12, <1>14, <1>15, <1>16, <1>17, <1>18, <1>19, <1>20 DEF SignInInv

\* Cancel keeps SignInInv when the operation is not the active one.
LEMMA SignInCancelOldKeeps ==
  ASSUME SignInInv, SignInAssumption, NEW h \in Handler, NEW o \in Op, Cancel(h, o), conn.active # o
  PROVE  SignInInv'
<1>1. /\ TypeOK /\ ActiveIsOpen /\ PairInv /\ SlotInv /\ DownInv /\ FileInv
      /\ \A p \in Op : /\ OpAt(p) /\ OpPending(p) /\ OpSlot(p) /\ OpPhase(p)
                       /\ OpPresent(p) /\ OpFile(p) /\ OpLeaves(p)
      /\ \A k \in Handler : /\ HandlerAt(k) /\ HandlerLease(k) /\ HandlerSignsOut(k)
                            /\ HandlerSlot(k) /\ HandlerNeeds(k) /\ HandlerMarks(k)
                            /\ HandlerPresent(k) /\ HandlerFile(k)
  BY DEF SignInInv, OpInv, HandlerInv
<1>2. /\ conn.active \in Op \cup {Nobody} /\ (phase # Nobody => phase.op \in Op)
      /\ \A x \in Op \cup Handler : target[x] \in Op \cup {Nobody}
      /\ \A k \in Handler : k \notin Op /\ k # Nobody
      /\ \A p \in Op : p # Nobody
      /\ \A k \in Handler :
           /\ handler[k].kind \in {"none", "cancel", "disable", "close", "logout", "delete"}
           /\ handler[k].pc \in Cleaning =>
                /\ handler[k].kind \in {"cancel", "disable", "close", "logout", "delete"}
                /\ handler[k].kind # "delete" => handler[k].op \in Op /\ op[handler[k].op] # Nobody
  BY SignInApart, SignInWithdrawers, SignInTyped
<1>3. UNCHANGED <<conn, lease, slot, phase, poisoned, file, alive, life, target, worker, handler, told, breaks>>
  BY DEF Cancel, registered, backend, server
<1>4. /\ alive = "up" /\ op[o] # Nobody /\ op[o].state = "unknown" /\ ~UnderWay(o)
  BY <1>1 DEF Cancel, Open, OpPending, UnderWay, Matches
<1>5. /\ op' \in [Op -> OpType \cup {Nobody}] /\ op'[o] # Nobody /\ op'[o].state = "cancelled"
      /\ op'[o].action = op[o].action /\ op'[o].life = op[o].life
      /\ op'[o].revision = op[o].revision
      /\ \A p \in Op \ {o} : op'[p] = op[p]
  BY <1>1, <1>4, SignInStateIs DEF Cancel
<1> USE <1>1, <1>2, <1>3, <1>4, <1>5
<1>6. TypeOK'
  BY DEF TypeOK
<1>7. SignOutCancelled => SignOutCancelled'
  BY DEF SignOutCancelled, UnderWay
<1>8. ActiveIsOpen'
  BY <1>7 DEF ActiveIsOpen, Open
<1>9. PairInv'
  BY <1>7 DEF PairInv, Withdraws, Cleaning, HandlerSignsOut, HandlerAt, Idle
<1>10. SlotInv'
  BY <1>7 DEF SlotInv, UnderWay, HandlerSlot, OpSlot
<1>11. DownInv'
  BY <1>7 DEF DownInv, Running
<1>12. FileInv'
  BY <1>7
    DEF FileInv, ShownSessionExists, SessionHasCredential, NoSilentCredential,
        AssumedForAReason, Open, UnderWay, Running, ActiveIsOpen, Unseen
<1>13. ASSUME NEW p \in Op PROVE OpInv(p)'
  <2>1. OpAt(p) /\ OpPending(p) /\ OpSlot(p) /\ OpPhase(p)
      /\ OpPresent(p) /\ OpFile(p) /\ OpLeaves(p)
    BY <1>1
  <2> USE <1>13, <2>1, <1>7
  <2>2. OpAt(p)'
    BY DEF OpAt, LoginSteps, LeavingSteps, UnderWay
  <2>3. OpPending(p)'
    BY DEF OpPending, Matches, UnderWay
  <2>4. OpSlot(p)'
    BY DEF OpSlot, Generation
  <2>5. OpPhase(p)'
    BY DEF OpPhase, SigningIn, UnderWay
  <2>6. OpPresent(p)'
    BY DEF OpPresent, OpSlot, Unseen
  <2>7. OpFile(p)'
    BY DEF OpFile, OpPhase, SigningIn, UnderWay, Accounted, Unlooked
  <2>8. OpLeaves(p)'
    BY DEF OpLeaves, LeavingSteps, Past, UnderWay, Generation
  <2> QED
    BY <2>2, <2>3, <2>4, <2>5, <2>6, <2>7, <2>8 DEF OpInv
<1>14. ASSUME NEW k \in Handler PROVE HandlerInv(k)'
  <2>1. HandlerAt(k) /\ HandlerLease(k) /\ HandlerSignsOut(k) /\ HandlerSlot(k)
      /\ HandlerNeeds(k) /\ HandlerMarks(k) /\ HandlerPresent(k) /\ HandlerFile(k)
    BY <1>1
  <2> USE <1>14, <2>1, <1>7
  <2>2. HandlerAt(k)'
    BY DEF HandlerAt, Withdraws, SigningOut, Cleaning, Idle, UnderWay
  <2>3. HandlerLease(k)'
    BY DEF HandlerLease, Withdraws, UnderWay
  <2>4. HandlerSignsOut(k)'
    BY DEF HandlerSignsOut, Cleaning, UnderWay
  <2>5. HandlerSlot(k)'
    BY DEF HandlerSlot, Target, SigningOut, Cleaning, Generation, Past, UnderWay
  <2>6. HandlerNeeds(k)'
    BY DEF HandlerNeeds, Withdraws, SigningOut, Cleaning
  <2>7. HandlerMarks(k)'
    BY DEF HandlerMarks, SigningOut, Cleaning
  <2>8. HandlerPresent(k)'
    BY DEF HandlerPresent, HandlerAt, Withdraws, SigningOut, Unseen, Cleaning
  <2>9. HandlerFile(k)'
    BY DEF HandlerFile, HandlerAt, Withdraws, Cleaning
  <2> QED
    BY <2>2, <2>3, <2>4, <2>5, <2>6, <2>7, <2>8, <2>9 DEF HandlerInv
<1> QED
  BY <1>6, <1>8, <1>9, <1>10, <1>11, <1>12, <1>13, <1>14 DEF SignInInv

\* Disable keeps SignInInv when it withdraws the active operation.
LEMMA SignInDisableKeeps ==
  ASSUME SignInInv, SignInAssumption, NEW h \in Handler, NEW o \in Op, Disable(h), conn.active = o, Open(o)
  PROVE  SignInInv'
<1>1. /\ TypeOK /\ ActiveIsOpen /\ PairInv /\ SlotInv /\ DownInv /\ FileInv
      /\ \A p \in Op : /\ OpAt(p) /\ OpPending(p) /\ OpSlot(p) /\ OpPhase(p)
                       /\ OpPresent(p) /\ OpFile(p) /\ OpLeaves(p)
      /\ \A k \in Handler : /\ HandlerAt(k) /\ HandlerLease(k) /\ HandlerSignsOut(k)
                            /\ HandlerSlot(k) /\ HandlerNeeds(k) /\ HandlerMarks(k)
                            /\ HandlerPresent(k) /\ HandlerFile(k)
  BY DEF SignInInv, OpInv, HandlerInv
<1>2. /\ conn.active \in Op \cup {Nobody} /\ (phase # Nobody => phase.op \in Op)
      /\ \A x \in Op \cup Handler : target[x] \in Op \cup {Nobody}
      /\ \A k \in Handler : k \notin Op /\ k # Nobody
      /\ \A p \in Op : p # Nobody
      /\ \A k \in Handler :
           /\ handler[k].kind \in {"none", "cancel", "disable", "close", "logout", "delete"}
           /\ handler[k].pc \in Cleaning =>
                /\ handler[k].kind \in {"cancel", "disable", "close", "logout", "delete"}
                /\ handler[k].kind # "delete" => handler[k].op \in Op /\ op[handler[k].op] # Nobody
  BY SignInApart, SignInWithdrawers, SignInTyped
<1>3. UNCHANGED <<slot, phase, poisoned, file, alive, life, target, worker, told, breaks>>
  BY DEF Disable, registered, backend, server
<1>4. o # Nobody
  BY <1>2
<1>5. /\ alive = "up" /\ op[o] # Nobody /\ op[o].state \in {"pending", "unknown"} /\ conn.exists
      /\ handler[h].pc = "idle" /\ handler[h].kind = "none"
      /\ lease # Nobody => lease.kind \notin {"logout", "delete", "authentication_cancel"}
      /\ Withdraw(h, o, "disable", [conn EXCEPT !.enabled = FALSE, !.revision = @ + 1])
  BY <1>4 DEF Disable, Open, Idle, Revisable
<1>6. /\ \A p \in Op \ {o} : ~UnderWay(p)
      /\ \A k \in Handler : handler[k].kind \notin {"cancel", "disable", "delete", "close"}
  BY <1>1, <1>2, <1>5 DEF HandlerLease, OpPending, Matches
<1>7. /\ op' \in [Op -> OpType \cup {Nobody}] /\ op'[o] # Nobody /\ op'[o].state = "unknown"
      /\ op'[o].action = op[o].action /\ op'[o].life = op[o].life
      /\ op'[o].revision = op[o].revision
      /\ \A p \in Op \ {o} : op'[p] = op[p]
  BY <1>1, <1>5, SignInStateIs DEF Withdraw
<1>8. /\ conn' \in ConnectionType /\ conn'.present = conn.present /\ conn'.assumed = conn.assumed
      /\ conn'.exists = conn.exists /\ conn'.active = o
  <2> DEFINE r == conn.revision + 1
  <2>1. conn \in ConnectionType /\ r \in Nat /\ r = conn.revision + 1
    BY <1>1 DEF TypeOK, ConnectionType
  <2>2. conn' = [conn EXCEPT !.enabled = FALSE, !.revision = r, !.active = o]
    BY <1>5 DEF Withdraw
  <2> HIDE DEF r
  <2> QED
    BY <1>1, <1>5, <2>1, <2>2 DEF ConnectionType
<1>9. /\ lease' \in LeaseType /\ lease' # Nobody /\ lease'.token = h
      /\ lease'.kind = "authentication_cancel"
  BY <1>1, <1>5, SignInLeaseIs DEF Withdraw
<1>10. op[o].action \in {"start", "logout"} /\ conn.present \in BOOLEAN
  BY <1>1, <1>5 DEF TypeOK, OpType, ConnectionType
<1>11. /\ conn.present => /\ phase # Nobody /\ phase.op = o => phase.at = "registered"
                          /\ worker[o] \notin {"erase", "erasing", "login", "session", "installed"}
       /\ op[o].action = "logout" => Unseen
  BY <1>1 DEF OpPresent
<1>12. /\ handler' \in [Handler -> HandlerType]
       /\ handler'[h].pc = "register" /\ handler'[h].kind = "disable"
       /\ handler'[h].op = o /\ handler'[h].own = Nobody
       /\ \A k \in Handler \ {h} : handler'[k] = handler[k]
       /\ handler'[h].required <=> ~conn.present
  <2>1. [conn EXCEPT !.enabled = FALSE, !.revision = @ + 1].present = conn.present
    BY <1>1 DEF TypeOK, ConnectionType
  <2> DEFINE required == ~conn.present
  <2>2. Occupy(h, "register", "disable", o, Nobody, required)
    BY <1>5, <2>1 DEF Withdraw
  <2>3. required \in BOOLEAN /\ (required <=> ~conn.present)
    OBVIOUS
  <2> HIDE DEF required
  <2>4. /\ handler' \in [Handler -> HandlerType]
        /\ handler'[h].pc = "register" /\ handler'[h].kind = "disable"
        /\ handler'[h].op = o /\ handler'[h].own = Nobody /\ handler'[h].required = required
        /\ \A k \in Handler \ {h} : handler'[k] = handler[k]
    BY <1>1, <1>8, <2>2, <2>3, SignInOccupyIs
  <2> QED
    BY <2>3, <2>4
<1> USE <1>1, <1>2, <1>3, <1>4, <1>5, <1>6, <1>7, <1>8, <1>9, <1>10, <1>11, <1>12
<1>13. TypeOK'
  BY DEF TypeOK
<1>14. SignOutCancelled => SignOutCancelled'
  BY DEF SignOutCancelled, UnderWay
<1>15. ActiveIsOpen'
  BY <1>14 DEF ActiveIsOpen, Open
<1>16. PairInv'
  BY <1>14 DEF PairInv, Withdraws, Cleaning, HandlerSignsOut, HandlerAt, Idle
<1>17. SlotInv'
  BY <1>14 DEF SlotInv, UnderWay, HandlerSlot, OpSlot
<1>18. DownInv'
  BY <1>14 DEF DownInv, Running
<1>19. FileInv'
  BY <1>14
    DEF FileInv, ShownSessionExists, SessionHasCredential, NoSilentCredential,
        AssumedForAReason, Open, UnderWay, Running, ActiveIsOpen, Unseen
<1>20. ASSUME NEW p \in Op PROVE OpInv(p)'
  <2>1. OpAt(p) /\ OpPending(p) /\ OpSlot(p) /\ OpPhase(p)
      /\ OpPresent(p) /\ OpFile(p) /\ OpLeaves(p)
    BY <1>1
  <2> USE <1>20, <2>1, <1>14
  <2>2. OpAt(p)'
    BY DEF OpAt, LoginSteps, LeavingSteps, UnderWay
  <2>3. OpPending(p)'
    BY DEF OpPending, Matches, UnderWay
  <2>4. OpSlot(p)'
    BY DEF OpSlot, Generation
  <2>5. OpPhase(p)'
    BY DEF OpPhase, SigningIn, UnderWay
  <2>6. OpPresent(p)'
    BY DEF OpPresent, OpSlot, Unseen
  <2>7. OpFile(p)'
    BY DEF OpFile, OpPhase, SigningIn, UnderWay, Accounted, Unlooked
  <2>8. OpLeaves(p)'
    BY DEF OpLeaves, LeavingSteps, Past, UnderWay, Generation
  <2> QED
    BY <2>2, <2>3, <2>4, <2>5, <2>6, <2>7, <2>8 DEF OpInv
<1>21. ASSUME NEW k \in Handler PROVE HandlerInv(k)'
  <2>1. HandlerAt(k) /\ HandlerLease(k) /\ HandlerSignsOut(k) /\ HandlerSlot(k)
      /\ HandlerNeeds(k) /\ HandlerMarks(k) /\ HandlerPresent(k) /\ HandlerFile(k)
    BY <1>1
  <2> USE <1>21, <2>1, <1>14
  <2>2. HandlerAt(k)'
    BY DEF HandlerAt, Withdraws, SigningOut, Cleaning, Idle, UnderWay
  <2>3. HandlerLease(k)'
    BY DEF HandlerLease, Withdraws, UnderWay
  <2>4. HandlerSignsOut(k)'
    BY DEF HandlerSignsOut, Cleaning, UnderWay
  <2>5. HandlerSlot(k)'
    BY DEF HandlerSlot, Target, SigningOut, Cleaning, Generation, Past, UnderWay
  <2>6. HandlerNeeds(k)'
    BY DEF HandlerNeeds, Withdraws, SigningOut, Cleaning
  <2>7. HandlerMarks(k)'
    BY DEF HandlerMarks, SigningOut, Cleaning
  <2>8. HandlerPresent(k)'
    BY DEF HandlerPresent, HandlerAt, Withdraws, SigningOut, Unseen, Cleaning
  <2>9. HandlerFile(k)'
    BY DEF HandlerFile, HandlerAt, Withdraws, Cleaning
  <2> QED
    BY <2>2, <2>3, <2>4, <2>5, <2>6, <2>7, <2>8, <2>9 DEF HandlerInv
<1> QED
  BY <1>13, <1>15, <1>16, <1>17, <1>18, <1>19, <1>20, <1>21 DEF SignInInv

\* Disable keeps SignInInv when no operation is open.
LEMMA SignInDisableQuietKeeps ==
  ASSUME SignInInv, SignInAssumption, NEW h \in Handler, Disable(h), conn.active = Nobody
  PROVE  SignInInv'
<1>1. /\ TypeOK /\ ActiveIsOpen /\ PairInv /\ SlotInv /\ DownInv /\ FileInv
      /\ \A p \in Op : /\ OpAt(p) /\ OpPending(p) /\ OpSlot(p) /\ OpPhase(p)
                       /\ OpPresent(p) /\ OpFile(p) /\ OpLeaves(p)
      /\ \A k \in Handler : /\ HandlerAt(k) /\ HandlerLease(k) /\ HandlerSignsOut(k)
                            /\ HandlerSlot(k) /\ HandlerNeeds(k) /\ HandlerMarks(k)
                            /\ HandlerPresent(k) /\ HandlerFile(k)
  BY DEF SignInInv, OpInv, HandlerInv
<1>2. /\ conn.active \in Op \cup {Nobody} /\ (phase # Nobody => phase.op \in Op)
      /\ \A x \in Op \cup Handler : target[x] \in Op \cup {Nobody}
      /\ \A k \in Handler : k \notin Op /\ k # Nobody
      /\ \A p \in Op : p # Nobody
      /\ \A k \in Handler :
           /\ handler[k].kind \in {"none", "cancel", "disable", "close", "logout", "delete"}
           /\ handler[k].pc \in Cleaning =>
                /\ handler[k].kind \in {"cancel", "disable", "close", "logout", "delete"}
                /\ handler[k].kind # "delete" => handler[k].op \in Op /\ op[handler[k].op] # Nobody
  BY SignInApart, SignInWithdrawers, SignInTyped
<1>3. UNCHANGED <<op, lease, slot, phase, poisoned, file, alive, life, target, worker, handler, told, breaks>>
  BY DEF Disable, registered, backend, server
<1>4. /\ alive = "up" /\ conn.exists
      /\ lease # Nobody => lease.kind \notin {"logout", "delete", "authentication_cancel"}
  BY DEF Disable, Revisable
<1>5. /\ \A p \in Op : ~UnderWay(p)
      /\ \A k \in Handler : handler[k].kind \notin {"cancel", "disable", "delete", "close"}
  BY <1>1, <1>2, <1>4 DEF HandlerLease, OpPending, Matches
<1>6. /\ conn' \in ConnectionType /\ conn'.present = conn.present /\ conn'.assumed = conn.assumed
      /\ conn'.exists = conn.exists /\ conn'.active = Nobody
  <2> DEFINE r == conn.revision + 1
  <2>1. conn \in ConnectionType /\ r \in Nat /\ r = conn.revision + 1
    BY <1>1 DEF TypeOK, ConnectionType
  <2>2. conn' = [conn EXCEPT !.enabled = FALSE, !.revision = r, !.active = Nobody]
    BY <1>2 DEF Disable
  <2> HIDE DEF r
  <2> QED
    BY <1>1, <1>4, <2>1, <2>2 DEF ConnectionType
<1> USE <1>1, <1>2, <1>3, <1>4, <1>5, <1>6
<1>7. TypeOK'
  BY DEF TypeOK
<1>8. SignOutCancelled => SignOutCancelled'
  BY DEF SignOutCancelled, UnderWay
<1>9. ActiveIsOpen'
  BY <1>8 DEF ActiveIsOpen, Open
<1>10. PairInv'
  BY <1>8 DEF PairInv, Withdraws, Cleaning, HandlerSignsOut, HandlerAt, Idle
<1>11. SlotInv'
  BY <1>8 DEF SlotInv, UnderWay, HandlerSlot, OpSlot
<1>12. DownInv'
  BY <1>8 DEF DownInv, Running
<1>13. FileInv'
  BY <1>8
    DEF FileInv, ShownSessionExists, SessionHasCredential, NoSilentCredential,
        AssumedForAReason, Open, UnderWay, Running, ActiveIsOpen, Unseen
<1>14. ASSUME NEW p \in Op PROVE OpInv(p)'
  <2>1. OpAt(p) /\ OpPending(p) /\ OpSlot(p) /\ OpPhase(p)
      /\ OpPresent(p) /\ OpFile(p) /\ OpLeaves(p)
    BY <1>1
  <2> USE <1>14, <2>1, <1>8
  <2>2. OpAt(p)'
    BY DEF OpAt, LoginSteps, LeavingSteps, UnderWay
  <2>3. OpPending(p)'
    BY DEF OpPending, Matches, UnderWay
  <2>4. OpSlot(p)'
    BY DEF OpSlot, Generation
  <2>5. OpPhase(p)'
    BY DEF OpPhase, SigningIn, UnderWay
  <2>6. OpPresent(p)'
    BY DEF OpPresent, OpSlot, Unseen
  <2>7. OpFile(p)'
    BY DEF OpFile, OpPhase, SigningIn, UnderWay, Accounted, Unlooked
  <2>8. OpLeaves(p)'
    BY DEF OpLeaves, LeavingSteps, Past, UnderWay, Generation
  <2> QED
    BY <2>2, <2>3, <2>4, <2>5, <2>6, <2>7, <2>8 DEF OpInv
<1>15. ASSUME NEW k \in Handler PROVE HandlerInv(k)'
  <2>1. HandlerAt(k) /\ HandlerLease(k) /\ HandlerSignsOut(k) /\ HandlerSlot(k)
      /\ HandlerNeeds(k) /\ HandlerMarks(k) /\ HandlerPresent(k) /\ HandlerFile(k)
    BY <1>1
  <2> USE <1>15, <2>1, <1>8
  <2>2. HandlerAt(k)'
    BY DEF HandlerAt, Withdraws, SigningOut, Cleaning, Idle, UnderWay
  <2>3. HandlerLease(k)'
    BY DEF HandlerLease, Withdraws, UnderWay
  <2>4. HandlerSignsOut(k)'
    BY DEF HandlerSignsOut, Cleaning, UnderWay
  <2>5. HandlerSlot(k)'
    BY DEF HandlerSlot, Target, SigningOut, Cleaning, Generation, Past, UnderWay
  <2>6. HandlerNeeds(k)'
    BY DEF HandlerNeeds, Withdraws, SigningOut, Cleaning
  <2>7. HandlerMarks(k)'
    BY DEF HandlerMarks, SigningOut, Cleaning
  <2>8. HandlerPresent(k)'
    BY DEF HandlerPresent, HandlerAt, Withdraws, SigningOut, Unseen, Cleaning
  <2>9. HandlerFile(k)'
    BY DEF HandlerFile, HandlerAt, Withdraws, Cleaning
  <2> QED
    BY <2>2, <2>3, <2>4, <2>5, <2>6, <2>7, <2>8, <2>9 DEF HandlerInv
<1> QED
  BY <1>7, <1>9, <1>10, <1>11, <1>12, <1>13, <1>14, <1>15 DEF SignInInv

\* Enable keeps SignInInv.
LEMMA SignInEnableKeeps ==
  ASSUME SignInInv, SignInAssumption, Enable
  PROVE  SignInInv'
<1>1. /\ TypeOK /\ ActiveIsOpen /\ PairInv /\ SlotInv /\ DownInv /\ FileInv
      /\ \A p \in Op : /\ OpAt(p) /\ OpPending(p) /\ OpSlot(p) /\ OpPhase(p)
                       /\ OpPresent(p) /\ OpFile(p) /\ OpLeaves(p)
      /\ \A k \in Handler : /\ HandlerAt(k) /\ HandlerLease(k) /\ HandlerSignsOut(k)
                            /\ HandlerSlot(k) /\ HandlerNeeds(k) /\ HandlerMarks(k)
                            /\ HandlerPresent(k) /\ HandlerFile(k)
  BY DEF SignInInv, OpInv, HandlerInv
<1>2. /\ conn.active \in Op \cup {Nobody} /\ (phase # Nobody => phase.op \in Op)
      /\ \A x \in Op \cup Handler : target[x] \in Op \cup {Nobody}
      /\ \A k \in Handler : k \notin Op /\ k # Nobody
      /\ \A p \in Op : p # Nobody
      /\ \A k \in Handler :
           /\ handler[k].kind \in {"none", "cancel", "disable", "close", "logout", "delete"}
           /\ handler[k].pc \in Cleaning =>
                /\ handler[k].kind \in {"cancel", "disable", "close", "logout", "delete"}
                /\ handler[k].kind # "delete" => handler[k].op \in Op /\ op[handler[k].op] # Nobody
  BY SignInApart, SignInWithdrawers, SignInTyped
<1>3. UNCHANGED <<op, lease, slot, phase, poisoned, file, alive, life, target, worker, handler, told, breaks>>
  BY DEF Enable, registered, backend, server
<1>4. /\ alive = "up" /\ conn.exists /\ lease = Nobody
  BY DEF Enable, Revisable, ProviderFree
<1>5. /\ \A p \in Op : ~UnderWay(p)
      /\ \A k \in Handler : handler[k].kind \notin {"cancel", "disable", "delete", "close"}
  BY <1>1, <1>4, SignInLeaseFree DEF HandlerLease
<1>6. /\ conn' \in ConnectionType /\ conn'.present = conn.present /\ conn'.assumed = conn.assumed
      /\ conn'.exists = conn.exists /\ conn'.active = conn.active
  <2> DEFINE r == conn.revision + 1
  <2>1. conn \in ConnectionType /\ r \in Nat /\ r = conn.revision + 1
    BY <1>1 DEF TypeOK, ConnectionType
  <2>2. conn' = [conn EXCEPT !.enabled = TRUE, !.revision = r]
    BY DEF Enable
  <2> HIDE DEF r
  <2> QED
    BY <1>1, <1>4, <2>1, <2>2 DEF ConnectionType
<1> USE <1>1, <1>2, <1>3, <1>4, <1>5, <1>6
<1>7. TypeOK'
  BY DEF TypeOK
<1>8. SignOutCancelled => SignOutCancelled'
  BY DEF SignOutCancelled, UnderWay
<1>9. ActiveIsOpen'
  BY <1>8 DEF ActiveIsOpen, Open
<1>10. PairInv'
  BY <1>8 DEF PairInv, Withdraws, Cleaning, HandlerSignsOut, HandlerAt, Idle
<1>11. SlotInv'
  BY <1>8 DEF SlotInv, UnderWay, HandlerSlot, OpSlot
<1>12. DownInv'
  BY <1>8 DEF DownInv, Running
<1>13. FileInv'
  BY <1>8
    DEF FileInv, ShownSessionExists, SessionHasCredential, NoSilentCredential,
        AssumedForAReason, Open, UnderWay, Running, ActiveIsOpen, Unseen
<1>14. ASSUME NEW p \in Op PROVE OpInv(p)'
  <2>1. OpAt(p) /\ OpPending(p) /\ OpSlot(p) /\ OpPhase(p)
      /\ OpPresent(p) /\ OpFile(p) /\ OpLeaves(p)
    BY <1>1
  <2> USE <1>14, <2>1, <1>8
  <2>2. OpAt(p)'
    BY DEF OpAt, LoginSteps, LeavingSteps, UnderWay
  <2>3. OpPending(p)'
    BY DEF OpPending, Matches, UnderWay
  <2>4. OpSlot(p)'
    BY DEF OpSlot, Generation
  <2>5. OpPhase(p)'
    BY DEF OpPhase, SigningIn, UnderWay
  <2>6. OpPresent(p)'
    BY DEF OpPresent, OpSlot, Unseen
  <2>7. OpFile(p)'
    BY DEF OpFile, OpPhase, SigningIn, UnderWay, Accounted, Unlooked
  <2>8. OpLeaves(p)'
    BY DEF OpLeaves, LeavingSteps, Past, UnderWay, Generation
  <2> QED
    BY <2>2, <2>3, <2>4, <2>5, <2>6, <2>7, <2>8 DEF OpInv
<1>15. ASSUME NEW k \in Handler PROVE HandlerInv(k)'
  <2>1. HandlerAt(k) /\ HandlerLease(k) /\ HandlerSignsOut(k) /\ HandlerSlot(k)
      /\ HandlerNeeds(k) /\ HandlerMarks(k) /\ HandlerPresent(k) /\ HandlerFile(k)
    BY <1>1
  <2> USE <1>15, <2>1, <1>8
  <2>2. HandlerAt(k)'
    BY DEF HandlerAt, Withdraws, SigningOut, Cleaning, Idle, UnderWay
  <2>3. HandlerLease(k)'
    BY DEF HandlerLease, Withdraws, UnderWay
  <2>4. HandlerSignsOut(k)'
    BY DEF HandlerSignsOut, Cleaning, UnderWay
  <2>5. HandlerSlot(k)'
    BY DEF HandlerSlot, Target, SigningOut, Cleaning, Generation, Past, UnderWay
  <2>6. HandlerNeeds(k)'
    BY DEF HandlerNeeds, Withdraws, SigningOut, Cleaning
  <2>7. HandlerMarks(k)'
    BY DEF HandlerMarks, SigningOut, Cleaning
  <2>8. HandlerPresent(k)'
    BY DEF HandlerPresent, HandlerAt, Withdraws, SigningOut, Unseen, Cleaning
  <2>9. HandlerFile(k)'
    BY DEF HandlerFile, HandlerAt, Withdraws, Cleaning
  <2> QED
    BY <2>2, <2>3, <2>4, <2>5, <2>6, <2>7, <2>8, <2>9 DEF HandlerInv
<1> QED
  BY <1>7, <1>9, <1>10, <1>11, <1>12, <1>13, <1>14, <1>15 DEF SignInInv

\* LogOut keeps SignInInv when there is no operation to take over.
LEMMA SignInLogOutKeeps ==
  ASSUME SignInInv, SignInAssumption, NEW h \in Handler, NEW o \in Op, LogOut(h, o), conn.active = Nobody
  PROVE  SignInInv'
<1>1. /\ TypeOK /\ ActiveIsOpen /\ PairInv /\ SlotInv /\ DownInv /\ FileInv
      /\ \A p \in Op : /\ OpAt(p) /\ OpPending(p) /\ OpSlot(p) /\ OpPhase(p)
                       /\ OpPresent(p) /\ OpFile(p) /\ OpLeaves(p)
      /\ \A k \in Handler : /\ HandlerAt(k) /\ HandlerLease(k) /\ HandlerSignsOut(k)
                            /\ HandlerSlot(k) /\ HandlerNeeds(k) /\ HandlerMarks(k)
                            /\ HandlerPresent(k) /\ HandlerFile(k)
  BY DEF SignInInv, OpInv, HandlerInv
<1>2. /\ conn.active \in Op \cup {Nobody} /\ (phase # Nobody => phase.op \in Op)
      /\ \A x \in Op \cup Handler : target[x] \in Op \cup {Nobody}
      /\ \A k \in Handler : k \notin Op /\ k # Nobody
      /\ \A p \in Op : p # Nobody
      /\ \A k \in Handler :
           /\ handler[k].kind \in {"none", "cancel", "disable", "close", "logout", "delete"}
           /\ handler[k].pc \in Cleaning =>
                /\ handler[k].kind \in {"cancel", "disable", "close", "logout", "delete"}
                /\ handler[k].kind # "delete" => handler[k].op \in Op /\ op[handler[k].op] # Nobody
  BY SignInApart, SignInWithdrawers, SignInTyped
<1>3. UNCHANGED <<slot, phase, poisoned, file, alive, life, target, worker, told, breaks>>
  BY DEF LogOut, registered, backend, server
<1>4. /\ alive = "up" /\ op[o] = Nobody /\ conn.exists /\ worker[o] = "none"
      /\ handler[h].pc = "idle" /\ handler[h].kind = "none"
      /\ lease # Nobody => lease.kind = "authentication"
  BY <1>1 DEF LogOut, Unused, Op, Idle, Revisable, OpAt
<1>5. /\ conn' \in ConnectionType /\ ~conn'.present /\ ~conn'.assumed
      /\ conn'.exists = conn.exists /\ conn'.active = o /\ conn'.revision = conn.revision + 1
  <2> DEFINE r == conn.revision + 1
  <2>1. conn \in ConnectionType /\ r \in Nat /\ r = conn.revision + 1
    BY <1>1 DEF TypeOK, ConnectionType
  <2>2. conn' = Present([conn EXCEPT !.active = o, !.revision = r], FALSE)
    BY DEF LogOut
  <2> HIDE DEF r
  <2> QED
    BY <1>1, <1>4, <2>1, <2>2 DEF ConnectionType, Present
<1>6. /\ lease' \in LeaseType /\ lease' # Nobody /\ lease'.token = o
      /\ lease'.kind = "logout"
  BY <1>1, SignInLeaseIs DEF LogOut
<1>7. \A k \in Handler : handler[k].kind \notin {"cancel", "disable", "delete", "close"}
  BY <1>1, <1>4 DEF HandlerLease
<1>8. \A p \in Op : ~UnderWay(p)
  BY <1>1, <1>2 DEF OpPending, Matches
<1>9. /\ op' \in [Op -> OpType \cup {Nobody}] /\ op'[o] # Nobody /\ op'[o].state = "pending"
      /\ op'[o].action = "logout" /\ op'[o].life = life
      /\ \A p \in Op \ {o} : op'[p] = op[p]
      /\ op'[o].revision = conn.revision + 1
  <2>1. conn.revision + 1 \in Nat
    BY <1>1 DEF TypeOK, ConnectionType
  <2>2. op' = [op EXCEPT ![o] = [state |-> "pending", action |-> "logout", life |-> life,
                              revision |-> conn.revision + 1]]
    BY DEF LogOut
  <2> QED
    BY <1>1, <2>1, <2>2, SignInNewOpIs
<1>10. /\ handler' \in [Handler -> HandlerType]
       /\ handler'[h].pc = "submit" /\ handler'[h].kind = "logout"
       /\ handler'[h].op = o /\ handler'[h].own = o
       /\ \A k \in Handler \ {h} : handler'[k] = handler[k]
       /\ handler'[h].required
  <2> DEFINE required == TRUE
  <2>1. Occupy(h, "submit", "logout", o, o, required)
    BY DEF LogOut
  <2>2. required \in BOOLEAN /\ required = TRUE /\ o \in Op \cup {Nobody}
    OBVIOUS
  <2> HIDE DEF required
  <2>3. TypeOK /\ conn' \in ConnectionType
    BY <1>1, <1>5
  <2>4. /\ handler' \in [Handler -> HandlerType]
        /\ handler'[h].pc = "submit" /\ handler'[h].kind = "logout"
        /\ handler'[h].op = o /\ handler'[h].own = o /\ handler'[h].required = required
        /\ \A k \in Handler \ {h} : handler'[k] = handler[k]
    BY <2>1, <2>2, <2>3, SignInOccupyIs, ZenonT(60)
  <2> QED
    BY <2>2, <2>4
<1> USE <1>1, <1>2, <1>3, <1>4, <1>5, <1>6, <1>7, <1>8, <1>9, <1>10
<1>11. TypeOK'
  BY DEF TypeOK
<1>12. SignOutCancelled => SignOutCancelled'
  BY DEF SignOutCancelled, UnderWay
<1>13. ActiveIsOpen'
  BY <1>12 DEF ActiveIsOpen, Open
<1>14. PairInv'
  BY <1>12 DEF PairInv, Withdraws, Cleaning, HandlerSignsOut, HandlerAt, Idle
<1>15. SlotInv'
  BY <1>12 DEF SlotInv, UnderWay, HandlerSlot, OpSlot
<1>16. DownInv'
  BY <1>12 DEF DownInv, Running
<1>17. FileInv'
  BY <1>12
    DEF FileInv, ShownSessionExists, SessionHasCredential, NoSilentCredential,
        AssumedForAReason, Open, UnderWay, Running, ActiveIsOpen, Unseen
<1>18. ASSUME NEW p \in Op PROVE OpInv(p)'
  <2>1. OpAt(p) /\ OpPending(p) /\ OpSlot(p) /\ OpPhase(p)
      /\ OpPresent(p) /\ OpFile(p) /\ OpLeaves(p)
    BY <1>1
  <2> USE <1>18, <2>1, <1>12
  <2>2. OpAt(p)'
    BY DEF OpAt, LoginSteps, LeavingSteps, UnderWay
  <2>3. OpPending(p)'
    BY DEF OpPending, Matches, UnderWay
  <2>4. OpSlot(p)'
    BY DEF OpSlot, Generation
  <2>5. OpPhase(p)'
    BY DEF OpPhase, SigningIn, UnderWay
  <2>6. OpPresent(p)'
    BY DEF OpPresent, OpSlot, Unseen
  <2>7. OpFile(p)'
    BY DEF OpFile, OpPhase, SigningIn, UnderWay, Accounted, Unlooked
  <2>8. OpLeaves(p)'
    BY DEF OpLeaves, LeavingSteps, Past, UnderWay, Generation
  <2> QED
    BY <2>2, <2>3, <2>4, <2>5, <2>6, <2>7, <2>8 DEF OpInv
<1>19. ASSUME NEW k \in Handler PROVE HandlerInv(k)'
  <2>1. HandlerAt(k) /\ HandlerLease(k) /\ HandlerSignsOut(k) /\ HandlerSlot(k)
      /\ HandlerNeeds(k) /\ HandlerMarks(k) /\ HandlerPresent(k) /\ HandlerFile(k)
    BY <1>1
  <2> USE <1>19, <2>1, <1>12
  <2>2. HandlerAt(k)'
    BY DEF HandlerAt, Withdraws, SigningOut, Cleaning, Idle, UnderWay
  <2>3. HandlerLease(k)'
    BY DEF HandlerLease, Withdraws, UnderWay
  <2>4. HandlerSignsOut(k)'
    BY DEF HandlerSignsOut, Cleaning, UnderWay
  <2>5. HandlerSlot(k)'
    BY DEF HandlerSlot, Target, SigningOut, Cleaning, Generation, Past, UnderWay
  <2>6. HandlerNeeds(k)'
    BY DEF HandlerNeeds, Withdraws, SigningOut, Cleaning
  <2>7. HandlerMarks(k)'
    BY DEF HandlerMarks, SigningOut, Cleaning
  <2>8. HandlerPresent(k)'
    BY DEF HandlerPresent, HandlerAt, Withdraws, SigningOut, Unseen, Cleaning
  <2>9. HandlerFile(k)'
    BY DEF HandlerFile, HandlerAt, Withdraws, Cleaning
  <2> QED
    BY <2>2, <2>3, <2>4, <2>5, <2>6, <2>7, <2>8, <2>9 DEF HandlerInv
<1> QED
  BY <1>11, <1>13, <1>14, <1>15, <1>16, <1>17, <1>18, <1>19 DEF SignInInv

\* LogOut keeps SignInInv when it takes over from an operation.
LEMMA SignInLogOutTakesOverKeeps ==
  ASSUME SignInInv, SignInAssumption, NEW h \in Handler, NEW o \in Op, LogOut(h, o), NEW e \in Op, conn.active = e, Open(e)
  PROVE  SignInInv'
<1>1. /\ TypeOK /\ ActiveIsOpen /\ PairInv /\ SlotInv /\ DownInv /\ FileInv
      /\ \A p \in Op : /\ OpAt(p) /\ OpPending(p) /\ OpSlot(p) /\ OpPhase(p)
                       /\ OpPresent(p) /\ OpFile(p) /\ OpLeaves(p)
      /\ \A k \in Handler : /\ HandlerAt(k) /\ HandlerLease(k) /\ HandlerSignsOut(k)
                            /\ HandlerSlot(k) /\ HandlerNeeds(k) /\ HandlerMarks(k)
                            /\ HandlerPresent(k) /\ HandlerFile(k)
  BY DEF SignInInv, OpInv, HandlerInv
<1>2. /\ conn.active \in Op \cup {Nobody} /\ (phase # Nobody => phase.op \in Op)
      /\ \A x \in Op \cup Handler : target[x] \in Op \cup {Nobody}
      /\ \A k \in Handler : k \notin Op /\ k # Nobody
      /\ \A p \in Op : p # Nobody
      /\ \A k \in Handler :
           /\ handler[k].kind \in {"none", "cancel", "disable", "close", "logout", "delete"}
           /\ handler[k].pc \in Cleaning =>
                /\ handler[k].kind \in {"cancel", "disable", "close", "logout", "delete"}
                /\ handler[k].kind # "delete" => handler[k].op \in Op /\ op[handler[k].op] # Nobody
  BY SignInApart, SignInWithdrawers, SignInTyped
<1>3. UNCHANGED <<slot, phase, poisoned, file, alive, life, target, worker, told, breaks>>
  BY DEF LogOut, registered, backend, server
<1>4. /\ alive = "up" /\ op[o] = Nobody /\ conn.exists /\ worker[o] = "none"
      /\ handler[h].pc = "idle" /\ handler[h].kind = "none"
      /\ lease # Nobody => lease.kind = "authentication"
  BY <1>1 DEF LogOut, Unused, Op, Idle, Revisable, OpAt
<1>5. /\ conn' \in ConnectionType /\ ~conn'.present /\ ~conn'.assumed
      /\ conn'.exists = conn.exists /\ conn'.active = o /\ conn'.revision = conn.revision + 1
  <2> DEFINE r == conn.revision + 1
  <2>1. conn \in ConnectionType /\ r \in Nat /\ r = conn.revision + 1
    BY <1>1 DEF TypeOK, ConnectionType
  <2>2. conn' = Present([conn EXCEPT !.active = o, !.revision = r], FALSE)
    BY DEF LogOut
  <2> HIDE DEF r
  <2> QED
    BY <1>1, <1>4, <2>1, <2>2 DEF ConnectionType, Present
<1>6. /\ lease' \in LeaseType /\ lease' # Nobody /\ lease'.token = o
      /\ lease'.kind = "logout"
  BY <1>1, SignInLeaseIs DEF LogOut
<1>7. \A k \in Handler : handler[k].kind \notin {"cancel", "disable", "delete", "close"}
  BY <1>1, <1>4 DEF HandlerLease
<1>8. /\ e # Nobody /\ e # o /\ op[e] # Nobody /\ op[e].state \in {"pending", "unknown"}
      /\ \A p \in Op \ {e} : ~UnderWay(p)
  BY <1>1, <1>2, <1>4 DEF OpPending, Matches, Open
<1>9. /\ op' \in [Op -> OpType \cup {Nobody}] /\ op'[o] # Nobody /\ op'[o].state = "pending"
      /\ op'[o].action = "logout" /\ op'[o].life = life
      /\ \A p \in Op \ {o, e} : op'[p] = op[p]
      /\ op'[o].revision = conn.revision + 1
      /\ op'[e] # Nobody /\ op'[e].state = "cancelled" /\ op'[e].action = op[e].action
  <2> DEFINE ops == [op EXCEPT ![e].state = "cancelled"]
  <2> DEFINE new == [state |-> "pending", action |-> "logout", life |-> life,
                     revision |-> conn.revision + 1]
  <2>1. op' = [ops EXCEPT ![o] = new]
    BY <1>8 DEF LogOut
  <2>2. conn.revision + 1 \in Nat /\ op[e] \in OpType
    BY <1>1, <1>8 DEF TypeOK, ConnectionType
  <2>3. new \in OpType /\ new.state = "pending" /\ new.action = "logout" /\ new.life = life
        /\ new.revision = conn.revision + 1
    BY <1>1, <2>2 DEF OpType, TypeOK
  <2>4. /\ ops \in [Op -> OpType \cup {Nobody}] /\ ops[e] \in OpType /\ ops[e].state = "cancelled"
        /\ ops[e].action = op[e].action /\ \A p \in Op \ {e} : ops[p] = op[p]
    <3>1. [op[e] EXCEPT !.state = "cancelled"] \in OpType
      BY <2>2 DEF OpType
    <3>2. /\ [op[e] EXCEPT !.state = "cancelled"].state = "cancelled"
          /\ [op[e] EXCEPT !.state = "cancelled"].action = op[e].action
      BY <2>2 DEF OpType
    <3> QED
      BY <1>1, <3>1, <3>2 DEF TypeOK
  <2> HIDE DEF ops, new
  <2>5. /\ op' \in [Op -> OpType \cup {Nobody}] /\ op'[o] = new /\ op'[e] = ops[e]
        /\ \A p \in Op \ {o, e} : op'[p] = op[p]
    BY <1>8, <2>1, <2>3, <2>4
  <2> QED
    BY SignInApart, <2>3, <2>4, <2>5
<1>10. /\ handler' \in [Handler -> HandlerType]
       /\ handler'[h].pc = "register" /\ handler'[h].kind = "logout"
       /\ handler'[h].op = e /\ handler'[h].own = o
       /\ \A k \in Handler \ {h} : handler'[k] = handler[k]
       /\ handler'[h].required
  <2> DEFINE required == TRUE
  <2>1. Occupy(h, "register", "logout", e, o, required)
    BY <1>8 DEF LogOut
  <2>2. required \in BOOLEAN /\ required = TRUE /\ o \in Op \cup {Nobody} /\ e \in Op \cup {Nobody}
    OBVIOUS
  <2> HIDE DEF required
  <2>3. TypeOK /\ conn' \in ConnectionType
    BY <1>1, <1>5
  <2>4. /\ handler' \in [Handler -> HandlerType]
        /\ handler'[h].pc = "register" /\ handler'[h].kind = "logout"
        /\ handler'[h].op = e /\ handler'[h].own = o /\ handler'[h].required = required
        /\ \A k \in Handler \ {h} : handler'[k] = handler[k]
    BY <2>1, <2>2, <2>3, SignInOccupyIs, ZenonT(60)
  <2> QED
    BY <2>2, <2>4
<1> USE <1>1, <1>2, <1>3, <1>4, <1>5, <1>6, <1>7, <1>8, <1>9, <1>10
<1>11. TypeOK'
  BY DEF TypeOK
<1>12. SignOutCancelled => SignOutCancelled'
  BY DEF SignOutCancelled, UnderWay
<1>13. ActiveIsOpen'
  BY <1>12 DEF ActiveIsOpen, Open
<1>14. PairInv'
  BY <1>12 DEF PairInv, Withdraws, Cleaning, HandlerSignsOut, HandlerAt, Idle
<1>15. SlotInv'
  BY <1>12 DEF SlotInv, UnderWay, HandlerSlot, OpSlot
<1>16. DownInv'
  BY <1>12 DEF DownInv, Running
<1>17. FileInv'
  BY <1>12
    DEF FileInv, ShownSessionExists, SessionHasCredential, NoSilentCredential,
        AssumedForAReason, Open, UnderWay, Running, ActiveIsOpen, Unseen
<1>18. ASSUME NEW p \in Op PROVE OpInv(p)'
  <2>1. OpAt(p) /\ OpPending(p) /\ OpSlot(p) /\ OpPhase(p)
      /\ OpPresent(p) /\ OpFile(p) /\ OpLeaves(p)
    BY <1>1
  <2> USE <1>18, <2>1, <1>12
  <2>2. OpAt(p)'
    BY DEF OpAt, LoginSteps, LeavingSteps, UnderWay
  <2>3. OpPending(p)'
    BY DEF OpPending, Matches, UnderWay
  <2>4. OpSlot(p)'
    BY DEF OpSlot, Generation
  <2>5. OpPhase(p)'
    BY DEF OpPhase, SigningIn, UnderWay
  <2>6. OpPresent(p)'
    BY DEF OpPresent, OpSlot, Unseen
  <2>7. OpFile(p)'
    BY DEF OpFile, OpPhase, SigningIn, UnderWay, Accounted, Unlooked
  <2>8. OpLeaves(p)'
    BY DEF OpLeaves, LeavingSteps, Past, UnderWay, Generation
  <2> QED
    BY <2>2, <2>3, <2>4, <2>5, <2>6, <2>7, <2>8 DEF OpInv
<1>19. ASSUME NEW k \in Handler PROVE HandlerInv(k)'
  <2>1. HandlerAt(k) /\ HandlerLease(k) /\ HandlerSignsOut(k) /\ HandlerSlot(k)
      /\ HandlerNeeds(k) /\ HandlerMarks(k) /\ HandlerPresent(k) /\ HandlerFile(k)
    BY <1>1
  <2> USE <1>19, <2>1, <1>12
  <2>2. HandlerAt(k)'
    BY DEF HandlerAt, Withdraws, SigningOut, Cleaning, Idle, UnderWay
  <2>3. HandlerLease(k)'
    BY DEF HandlerLease, Withdraws, UnderWay
  <2>4. HandlerSignsOut(k)'
    BY DEF HandlerSignsOut, Cleaning, UnderWay
  <2>5. HandlerSlot(k)'
    BY DEF HandlerSlot, Target, SigningOut, Cleaning, Generation, Past, UnderWay
  <2>6. HandlerNeeds(k)'
    BY DEF HandlerNeeds, Withdraws, SigningOut, Cleaning
  <2>7. HandlerMarks(k)'
    BY DEF HandlerMarks, SigningOut, Cleaning
  <2>8. HandlerPresent(k)'
    BY DEF HandlerPresent, HandlerAt, Withdraws, SigningOut, Unseen, Cleaning
  <2>9. HandlerFile(k)'
    BY DEF HandlerFile, HandlerAt, Withdraws, Cleaning
  <2> QED
    BY <2>2, <2>3, <2>4, <2>5, <2>6, <2>7, <2>8, <2>9 DEF HandlerInv
<1> QED
  BY <1>11, <1>13, <1>14, <1>15, <1>16, <1>17, <1>18, <1>19 DEF SignInInv

\* Delete keeps SignInInv.
LEMMA SignInDeleteKeeps ==
  ASSUME SignInInv, SignInAssumption, NEW h \in Handler, Delete(h)
  PROVE  SignInInv'
<1>1. /\ TypeOK /\ ActiveIsOpen /\ PairInv /\ SlotInv /\ DownInv /\ FileInv
      /\ \A p \in Op : /\ OpAt(p) /\ OpPending(p) /\ OpSlot(p) /\ OpPhase(p)
                       /\ OpPresent(p) /\ OpFile(p) /\ OpLeaves(p)
      /\ \A k \in Handler : /\ HandlerAt(k) /\ HandlerLease(k) /\ HandlerSignsOut(k)
                            /\ HandlerSlot(k) /\ HandlerNeeds(k) /\ HandlerMarks(k)
                            /\ HandlerPresent(k) /\ HandlerFile(k)
  BY DEF SignInInv, OpInv, HandlerInv
<1>2. /\ conn.active \in Op \cup {Nobody} /\ (phase # Nobody => phase.op \in Op)
      /\ \A x \in Op \cup Handler : target[x] \in Op \cup {Nobody}
      /\ \A k \in Handler : k \notin Op /\ k # Nobody
      /\ \A p \in Op : p # Nobody
      /\ \A k \in Handler :
           /\ handler[k].kind \in {"none", "cancel", "disable", "close", "logout", "delete"}
           /\ handler[k].pc \in Cleaning =>
                /\ handler[k].kind \in {"cancel", "disable", "close", "logout", "delete"}
                /\ handler[k].kind # "delete" => handler[k].op \in Op /\ op[handler[k].op] # Nobody
  BY SignInApart, SignInWithdrawers, SignInTyped
<1>3. UNCHANGED <<op, slot, phase, poisoned, file, alive, life, target, worker, told, breaks>>
  BY DEF Delete, registered, backend, server
<1>4. /\ alive = "up" /\ conn.exists /\ lease = Nobody /\ conn.active = Nobody
      /\ handler[h].pc = "idle" /\ handler[h].kind = "none"
  BY <1>1 DEF Delete, Revisable, ProviderFree, ActiveIsOpen, Idle
<1>5. /\ \A p \in Op : ~UnderWay(p)
      /\ \A k \in Handler : handler[k].kind \notin {"cancel", "disable", "delete", "close"}
  BY <1>1, <1>4, SignInLeaseFree DEF HandlerLease
<1>6. /\ conn' \in ConnectionType /\ ~conn'.present /\ ~conn'.assumed
      /\ conn'.exists = conn.exists /\ conn'.active = Nobody
  <2> DEFINE r == conn.revision + 1
  <2>1. conn \in ConnectionType /\ r \in Nat /\ r = conn.revision + 1
    BY <1>1 DEF TypeOK, ConnectionType
  <2>2. conn' = Present([conn EXCEPT !.enabled = FALSE, !.revision = r], FALSE)
    BY DEF Delete
  <2> HIDE DEF r
  <2> QED
    BY <1>1, <1>4, <2>1, <2>2 DEF ConnectionType, Present
<1>7. /\ lease' \in LeaseType /\ lease' # Nobody /\ lease'.token = h
      /\ lease'.kind = "delete"
  BY <1>1, SignInLeaseIs DEF Delete
<1>8. /\ handler' \in [Handler -> HandlerType]
      /\ handler'[h].pc = "logout" /\ handler'[h].kind = "delete"
      /\ handler'[h].op = Nobody /\ handler'[h].own = Nobody
      /\ \A k \in Handler \ {h} : handler'[k] = handler[k]
  <2> DEFINE required == TRUE
  <2>1. Occupy(h, "logout", "delete", Nobody, Nobody, required)
    BY DEF Delete
  <2>2. required \in BOOLEAN /\ required = TRUE
    OBVIOUS
  <2> HIDE DEF required
  <2>3. TypeOK /\ conn' \in ConnectionType
    BY <1>1, <1>6
  <2>4. /\ handler' \in [Handler -> HandlerType]
        /\ handler'[h].pc = "logout" /\ handler'[h].kind = "delete"
        /\ handler'[h].op = Nobody /\ handler'[h].own = Nobody /\ handler'[h].required = required
        /\ \A k \in Handler \ {h} : handler'[k] = handler[k]
    BY <2>1, <2>2, <2>3, SignInOccupyIs
  <2> QED
    BY <2>2, <2>4
<1> USE <1>1, <1>2, <1>3, <1>4, <1>5, <1>6, <1>7, <1>8
<1>9. TypeOK'
  BY DEF TypeOK
<1>10. SignOutCancelled => SignOutCancelled'
  BY DEF SignOutCancelled, UnderWay
<1>11. ActiveIsOpen'
  BY <1>10 DEF ActiveIsOpen, Open
<1>12. PairInv'
  BY <1>10 DEF PairInv, Withdraws, Cleaning, HandlerSignsOut, HandlerAt, Idle
<1>13. SlotInv'
  BY <1>10 DEF SlotInv, UnderWay, HandlerSlot, OpSlot
<1>14. DownInv'
  BY <1>10 DEF DownInv, Running
<1>15. FileInv'
  BY <1>10
    DEF FileInv, ShownSessionExists, SessionHasCredential, NoSilentCredential,
        AssumedForAReason, Open, UnderWay, Running, ActiveIsOpen, Unseen
<1>16. ASSUME NEW p \in Op PROVE OpInv(p)'
  <2>1. OpAt(p) /\ OpPending(p) /\ OpSlot(p) /\ OpPhase(p)
      /\ OpPresent(p) /\ OpFile(p) /\ OpLeaves(p)
    BY <1>1
  <2> USE <1>16, <2>1, <1>10
  <2>2. OpAt(p)'
    BY DEF OpAt, LoginSteps, LeavingSteps, UnderWay
  <2>3. OpPending(p)'
    BY DEF OpPending, Matches, UnderWay
  <2>4. OpSlot(p)'
    BY DEF OpSlot, Generation
  <2>5. OpPhase(p)'
    BY DEF OpPhase, SigningIn, UnderWay
  <2>6. OpPresent(p)'
    BY DEF OpPresent, OpSlot, Unseen
  <2>7. OpFile(p)'
    BY DEF OpFile, OpPhase, SigningIn, UnderWay, Accounted, Unlooked
  <2>8. OpLeaves(p)'
    BY DEF OpLeaves, LeavingSteps, Past, UnderWay, Generation
  <2> QED
    BY <2>2, <2>3, <2>4, <2>5, <2>6, <2>7, <2>8 DEF OpInv
<1>17. ASSUME NEW k \in Handler PROVE HandlerInv(k)'
  <2>1. HandlerAt(k) /\ HandlerLease(k) /\ HandlerSignsOut(k) /\ HandlerSlot(k)
      /\ HandlerNeeds(k) /\ HandlerMarks(k) /\ HandlerPresent(k) /\ HandlerFile(k)
    BY <1>1
  <2> USE <1>17, <2>1, <1>10
  <2>2. HandlerAt(k)'
    BY DEF HandlerAt, Withdraws, SigningOut, Cleaning, Idle, UnderWay
  <2>3. HandlerLease(k)'
    BY DEF HandlerLease, Withdraws, UnderWay
  <2>4. HandlerSignsOut(k)'
    BY DEF HandlerSignsOut, Cleaning, UnderWay
  <2>5. HandlerSlot(k)'
    BY DEF HandlerSlot, Target, SigningOut, Cleaning, Generation, Past, UnderWay
  <2>6. HandlerNeeds(k)'
    BY DEF HandlerNeeds, Withdraws, SigningOut, Cleaning
  <2>7. HandlerMarks(k)'
    BY DEF HandlerMarks, SigningOut, Cleaning
  <2>8. HandlerPresent(k)'
    BY DEF HandlerPresent, HandlerAt, Withdraws, SigningOut, Unseen, Cleaning
  <2>9. HandlerFile(k)'
    BY DEF HandlerFile, HandlerAt, Withdraws, Cleaning
  <2> QED
    BY <2>2, <2>3, <2>4, <2>5, <2>6, <2>7, <2>8, <2>9 DEF HandlerInv
<1> QED
  BY <1>9, <1>11, <1>12, <1>13, <1>14, <1>15, <1>16, <1>17 DEF SignInInv

\* Every pending operation is marked, and the others stay as they are.
LEMMA SignInMarkedIs ==
  ASSUME TypeOK, SignInAssumption, op' = [p \in Op |-> op'[p]],
         \A p \in Op : op'[p] = IF op[p] # Nobody /\ op[p].state = "pending"
                                THEN [op[p] EXCEPT !.state = "unknown"] ELSE op[p]
  PROVE  /\ op' \in [Op -> OpType \cup {Nobody}]
         /\ \A p \in Op : op[p] = Nobody => op'[p] = Nobody
         /\ \A p \in Op : op[p] # Nobody =>
              /\ op'[p] # Nobody /\ op'[p].action = op[p].action
              /\ op'[p].state = IF op[p].state = "pending" THEN "unknown" ELSE op[p].state
<1>1. ASSUME NEW p \in Op, op[p] # Nobody
      PROVE  /\ [op[p] EXCEPT !.state = "unknown"] \in OpType
             /\ [op[p] EXCEPT !.state = "unknown"].state = "unknown"
             /\ [op[p] EXCEPT !.state = "unknown"].action = op[p].action
  BY <1>1 DEF TypeOK, OpType
<1>2. ASSUME NEW p \in Op PROVE op'[p] \in OpType \cup {Nobody}
  BY <1>1 DEF TypeOK
<1>3. op' \in [Op -> OpType \cup {Nobody}]
  BY <1>2
<1> QED
  BY <1>1, <1>3, SignInApart

\* Close keeps SignInInv when it withdraws an operation.
LEMMA SignInCloseKeeps ==
  ASSUME SignInInv, SignInAssumption, NEW h \in Handler, NEW o \in Op, Close(h, TRUE), conn.active = o, Open(o),
         op[o].life = life, conn.exists
  PROVE  SignInInv'
<1>1. /\ TypeOK /\ ActiveIsOpen /\ PairInv /\ SlotInv /\ DownInv /\ FileInv
      /\ \A p \in Op : /\ OpAt(p) /\ OpPending(p) /\ OpSlot(p) /\ OpPhase(p)
                       /\ OpPresent(p) /\ OpFile(p) /\ OpLeaves(p)
      /\ \A k \in Handler : /\ HandlerAt(k) /\ HandlerLease(k) /\ HandlerSignsOut(k)
                            /\ HandlerSlot(k) /\ HandlerNeeds(k) /\ HandlerMarks(k)
                            /\ HandlerPresent(k) /\ HandlerFile(k)
  BY DEF SignInInv, OpInv, HandlerInv
<1>2. /\ conn.active \in Op \cup {Nobody} /\ (phase # Nobody => phase.op \in Op)
      /\ \A x \in Op \cup Handler : target[x] \in Op \cup {Nobody}
      /\ \A k \in Handler : k \notin Op /\ k # Nobody
      /\ \A p \in Op : p # Nobody
      /\ \A k \in Handler :
           /\ handler[k].kind \in {"none", "cancel", "disable", "close", "logout", "delete"}
           /\ handler[k].pc \in Cleaning =>
                /\ handler[k].kind \in {"cancel", "disable", "close", "logout", "delete"}
                /\ handler[k].kind # "delete" => handler[k].op \in Op /\ op[handler[k].op] # Nobody
  BY SignInApart, SignInWithdrawers, SignInTyped
<1>3. UNCHANGED <<conn, lease, slot, phase, poisoned, file, life, target, worker, told, breaks>>
  BY DEF Close, registered, backend, server
<1>4. /\ alive = "up" /\ alive' = "closing"
      /\ handler[h].pc = "idle" /\ handler[h].kind = "none"
  BY DEF Close, Idle
<1>5. /\ op' \in [Op -> OpType \cup {Nobody}]
      /\ \A p \in Op : op[p] = Nobody => op'[p] = Nobody
      /\ \A p \in Op : op[p] # Nobody =>
           /\ op'[p] # Nobody /\ op'[p].action = op[p].action
           /\ op'[p].state = IF op[p].state = "pending" THEN "unknown" ELSE op[p].state
  <2>1. \A p \in Op : op[p] # Nobody /\ op[p].state = "pending" => op[p].life = life
    BY <1>1 DEF OpPending, UnderWay, Matches
  <2>2. op' = [p \in Op |-> IF op[p] # Nobody /\ op[p].state = "pending" /\ op[p].life = life
                         THEN [op[p] EXCEPT !.state = "unknown"] ELSE op[p]]
    BY DEF Close
  <2>3. op' = [p \in Op |-> op'[p]]
    BY <2>2
  <2>4. \A p \in Op : op'[p] = IF op[p] # Nobody /\ op[p].state = "pending"
                            THEN [op[p] EXCEPT !.state = "unknown"] ELSE op[p]
    BY <2>1, <2>2
  <2> QED
    BY <1>1, <2>3, <2>4, SignInMarkedIs
<1>6. \A p \in Op : ~UnderWay(p)' /\ (UnderWay(p) => conn.active = p)
               /\ (op[p] # Nobody /\ op'[p].state = "unknown" /\ op[p].state # "unknown" => conn.active = p)
  BY <1>1, <1>5 DEF OpPending, UnderWay, Matches
<1>7. op[o] # Nobody /\ o # Nobody /\ op[o].state \in {"pending", "unknown"} /\ op[o].action \in {"start", "logout"}
      /\ conn.present \in BOOLEAN /\ conn' \in ConnectionType
  BY <1>1, <1>2, <1>3 DEF TypeOK, OpType, ConnectionType, Open
<1>8. /\ conn.present => /\ phase # Nobody /\ phase.op = o => phase.at = "registered"
                         /\ worker[o] \notin {"erase", "erasing", "login", "session", "installed"}
      /\ op[o].action = "logout" => Unseen
  BY <1>1 DEF OpPresent
<1>9. /\ handler' \in [Handler -> HandlerType]
      /\ handler'[h].pc = (IF op[o].action = "logout" THEN "logout" ELSE "register") /\ handler'[h].kind = "close"
      /\ handler'[h].op = o /\ handler'[h].own = Nobody
      /\ \A k \in Handler \ {h} : handler'[k] = handler[k]
      /\ handler'[h].required <=> ~conn.present
  <2> DEFINE pc == IF op[o].action = "logout" THEN "logout" ELSE "register"
  <2> DEFINE required == ~conn.present
  <2>1. Occupy(h, pc, "close", o, Nobody, required)
    BY <1>7 DEF Close
  <2>2. pc \in {"register", "logout"} /\ required \in BOOLEAN
    BY <1>7
  <2>4. required <=> ~conn.present
    OBVIOUS
  <2> HIDE DEF pc, required
  <2>3. /\ handler' \in [Handler -> HandlerType]
        /\ handler'[h].pc = pc /\ handler'[h].kind = "close"
        /\ handler'[h].op = o /\ handler'[h].own = Nobody /\ handler'[h].required = required
        /\ \A k \in Handler \ {h} : handler'[k] = handler[k]
    BY <1>1, <1>7, <2>1, <2>2, SignInOccupyIs
  <2> QED
    BY <1>7, <2>3, <2>4 DEF pc
<1> USE <1>1, <1>2, <1>3, <1>4, <1>5, <1>6, <1>7, <1>8, <1>9
<1>10. TypeOK'
  BY DEF TypeOK
<1>11. SignOutCancelled => SignOutCancelled'
  BY DEF SignOutCancelled, UnderWay
<1>12. ActiveIsOpen'
  BY <1>11 DEF ActiveIsOpen, Open
<1>13. PairInv'
  BY <1>11 DEF PairInv, Withdraws, Cleaning, HandlerSignsOut, HandlerAt, Idle
<1>14. SlotInv'
  BY <1>11 DEF SlotInv, UnderWay, HandlerSlot, OpSlot
<1>15. DownInv'
  BY <1>11 DEF DownInv, Running
<1>16. FileInv'
  BY <1>11
    DEF FileInv, ShownSessionExists, SessionHasCredential, NoSilentCredential,
        AssumedForAReason, Open, UnderWay, Running, ActiveIsOpen, Unseen
<1>17. ASSUME NEW p \in Op PROVE OpInv(p)'
  <2>1. OpAt(p) /\ OpPending(p) /\ OpSlot(p) /\ OpPhase(p)
      /\ OpPresent(p) /\ OpFile(p) /\ OpLeaves(p)
    BY <1>1
  <2> USE <1>17, <2>1, <1>11
  <2>2. OpAt(p)'
    BY DEF OpAt, LoginSteps, LeavingSteps, UnderWay
  <2>3. OpPending(p)'
    BY DEF OpPending, Matches, UnderWay
  <2>4. OpSlot(p)'
    BY DEF OpSlot, Generation
  <2>5. OpPhase(p)'
    BY DEF OpPhase, SigningIn, UnderWay
  <2>6. OpPresent(p)'
    BY DEF OpPresent, OpSlot, Unseen
  <2>7. OpFile(p)'
    BY DEF OpFile, OpPhase, SigningIn, UnderWay, Accounted, Unlooked
  <2>8. OpLeaves(p)'
    BY DEF OpLeaves, LeavingSteps, Past, UnderWay, Generation
  <2> QED
    BY <2>2, <2>3, <2>4, <2>5, <2>6, <2>7, <2>8 DEF OpInv
<1>18. ASSUME NEW k \in Handler PROVE HandlerInv(k)'
  <2>1. HandlerAt(k) /\ HandlerLease(k) /\ HandlerSignsOut(k) /\ HandlerSlot(k)
      /\ HandlerNeeds(k) /\ HandlerMarks(k) /\ HandlerPresent(k) /\ HandlerFile(k)
    BY <1>1
  <2> USE <1>18, <2>1, <1>11
  <2>2. HandlerAt(k)'
    BY DEF HandlerAt, Withdraws, SigningOut, Cleaning, Idle, UnderWay
  <2>3. HandlerLease(k)'
    BY DEF HandlerLease, Withdraws, UnderWay
  <2>4. HandlerSignsOut(k)'
    BY DEF HandlerSignsOut, Cleaning, UnderWay
  <2>5. HandlerSlot(k)'
    BY DEF HandlerSlot, Target, SigningOut, Cleaning, Generation, Past, UnderWay
  <2>6. HandlerNeeds(k)'
    BY DEF HandlerNeeds, Withdraws, SigningOut, Cleaning
  <2>7. HandlerMarks(k)'
    BY DEF HandlerMarks, SigningOut, Cleaning
  <2>8. HandlerPresent(k)'
    BY DEF HandlerPresent, HandlerAt, Withdraws, SigningOut, Unseen, Cleaning
  <2>9. HandlerFile(k)'
    BY DEF HandlerFile, HandlerAt, Withdraws, Cleaning
  <2> QED
    BY <2>2, <2>3, <2>4, <2>5, <2>6, <2>7, <2>8, <2>9 DEF HandlerInv
<1> QED
  BY <1>10, <1>12, <1>13, <1>14, <1>15, <1>16, <1>17, <1>18 DEF SignInInv

\* Close keeps SignInInv when there is no operation to withdraw.
LEMMA SignInCloseQuietKeeps ==
  ASSUME SignInInv, SignInAssumption, NEW h \in Handler, Close(h, TRUE),
         ~(conn.active # Nobody /\ Open(conn.active) /\ op[conn.active].life = life /\ conn.exists)
  PROVE  SignInInv'
<1>1. /\ TypeOK /\ ActiveIsOpen /\ PairInv /\ SlotInv /\ DownInv /\ FileInv
      /\ \A p \in Op : /\ OpAt(p) /\ OpPending(p) /\ OpSlot(p) /\ OpPhase(p)
                       /\ OpPresent(p) /\ OpFile(p) /\ OpLeaves(p)
      /\ \A k \in Handler : /\ HandlerAt(k) /\ HandlerLease(k) /\ HandlerSignsOut(k)
                            /\ HandlerSlot(k) /\ HandlerNeeds(k) /\ HandlerMarks(k)
                            /\ HandlerPresent(k) /\ HandlerFile(k)
  BY DEF SignInInv, OpInv, HandlerInv
<1>2. /\ conn.active \in Op \cup {Nobody} /\ (phase # Nobody => phase.op \in Op)
      /\ \A x \in Op \cup Handler : target[x] \in Op \cup {Nobody}
      /\ \A k \in Handler : k \notin Op /\ k # Nobody
      /\ \A p \in Op : p # Nobody
      /\ \A k \in Handler :
           /\ handler[k].kind \in {"none", "cancel", "disable", "close", "logout", "delete"}
           /\ handler[k].pc \in Cleaning =>
                /\ handler[k].kind \in {"cancel", "disable", "close", "logout", "delete"}
                /\ handler[k].kind # "delete" => handler[k].op \in Op /\ op[handler[k].op] # Nobody
  BY SignInApart, SignInWithdrawers, SignInTyped
<1>3. UNCHANGED <<conn, lease, slot, phase, poisoned, file, life, target, worker, told, breaks>>
  BY DEF Close, registered, backend, server
<1>4. /\ alive = "up" /\ alive' = "closing"
      /\ handler[h].pc = "idle" /\ handler[h].kind = "none"
  BY DEF Close, Idle
<1>5. /\ op' \in [Op -> OpType \cup {Nobody}]
      /\ \A p \in Op : op[p] = Nobody => op'[p] = Nobody
      /\ \A p \in Op : op[p] # Nobody =>
           /\ op'[p] # Nobody /\ op'[p].action = op[p].action
           /\ op'[p].state = IF op[p].state = "pending" THEN "unknown" ELSE op[p].state
  <2>1. \A p \in Op : op[p] # Nobody /\ op[p].state = "pending" => op[p].life = life
    BY <1>1 DEF OpPending, UnderWay, Matches
  <2>2. op' = [p \in Op |-> IF op[p] # Nobody /\ op[p].state = "pending" /\ op[p].life = life
                         THEN [op[p] EXCEPT !.state = "unknown"] ELSE op[p]]
    BY DEF Close
  <2>3. op' = [p \in Op |-> op'[p]]
    BY <2>2
  <2>4. \A p \in Op : op'[p] = IF op[p] # Nobody /\ op[p].state = "pending"
                            THEN [op[p] EXCEPT !.state = "unknown"] ELSE op[p]
    BY <2>1, <2>2
  <2> QED
    BY <1>1, <2>3, <2>4, SignInMarkedIs
<1>6. \A p \in Op : ~UnderWay(p)' /\ (UnderWay(p) => conn.active = p)
               /\ (op[p] # Nobody /\ op'[p].state = "unknown" /\ op[p].state # "unknown" => conn.active = p)
  BY <1>1, <1>5 DEF OpPending, UnderWay, Matches
<1>7. /\ handler' \in [Handler -> HandlerType]
      /\ handler'[h].pc = "close" /\ handler'[h].kind = "close"
      /\ handler'[h].op = Nobody /\ handler'[h].own = Nobody
      /\ \A k \in Handler \ {h} : handler'[k] = handler[k]
  <2>1. Occupy(h, "close", "close", Nobody, Nobody, FALSE)
    BY DEF Close
  <2>2. conn' \in ConnectionType
    BY <1>1, <1>3 DEF TypeOK
  <2> QED
    BY <1>1, <2>1, <2>2, SignInOccupyIs
<1> USE <1>1, <1>2, <1>3, <1>4, <1>5, <1>6, <1>7
<1>8. TypeOK'
  BY DEF TypeOK
<1>9. SignOutCancelled => SignOutCancelled'
  BY DEF SignOutCancelled, UnderWay
<1>10. ActiveIsOpen'
  BY <1>9 DEF ActiveIsOpen, Open
<1>11. PairInv'
  BY <1>9 DEF PairInv, Withdraws, Cleaning, HandlerSignsOut, HandlerAt, Idle
<1>12. SlotInv'
  BY <1>9 DEF SlotInv, UnderWay, HandlerSlot, OpSlot
<1>13. DownInv'
  BY <1>9 DEF DownInv, Running
<1>14. FileInv'
  BY <1>9
    DEF FileInv, ShownSessionExists, SessionHasCredential, NoSilentCredential,
        AssumedForAReason, Open, UnderWay, Running, ActiveIsOpen, Unseen
<1>15. ASSUME NEW p \in Op PROVE OpInv(p)'
  <2>1. OpAt(p) /\ OpPending(p) /\ OpSlot(p) /\ OpPhase(p)
      /\ OpPresent(p) /\ OpFile(p) /\ OpLeaves(p)
    BY <1>1
  <2> USE <1>15, <2>1, <1>9
  <2>2. OpAt(p)'
    BY DEF OpAt, LoginSteps, LeavingSteps, UnderWay
  <2>3. OpPending(p)'
    BY DEF OpPending, Matches, UnderWay
  <2>4. OpSlot(p)'
    BY DEF OpSlot, Generation
  <2>5. OpPhase(p)'
    BY DEF OpPhase, SigningIn, UnderWay
  <2>6. OpPresent(p)'
    BY DEF OpPresent, OpSlot, Unseen
  <2>7. OpFile(p)'
    BY DEF OpFile, OpPhase, SigningIn, UnderWay, Accounted, Unlooked
  <2>8. OpLeaves(p)'
    BY DEF OpLeaves, LeavingSteps, Past, UnderWay, Generation
  <2> QED
    BY <2>2, <2>3, <2>4, <2>5, <2>6, <2>7, <2>8 DEF OpInv
<1>16. ASSUME NEW k \in Handler PROVE HandlerInv(k)'
  <2>1. HandlerAt(k) /\ HandlerLease(k) /\ HandlerSignsOut(k) /\ HandlerSlot(k)
      /\ HandlerNeeds(k) /\ HandlerMarks(k) /\ HandlerPresent(k) /\ HandlerFile(k)
    BY <1>1
  <2> USE <1>16, <2>1, <1>9
  <2>2. HandlerAt(k)'
    BY DEF HandlerAt, Withdraws, SigningOut, Cleaning, Idle, UnderWay
  <2>3. HandlerLease(k)'
    BY DEF HandlerLease, Withdraws, UnderWay
  <2>4. HandlerSignsOut(k)'
    BY DEF HandlerSignsOut, Cleaning, UnderWay
  <2>5. HandlerSlot(k)'
    BY DEF HandlerSlot, Target, SigningOut, Cleaning, Generation, Past, UnderWay
  <2>6. HandlerNeeds(k)'
    BY DEF HandlerNeeds, Withdraws, SigningOut, Cleaning
  <2>7. HandlerMarks(k)'
    BY DEF HandlerMarks, SigningOut, Cleaning
  <2>8. HandlerPresent(k)'
    BY DEF HandlerPresent, HandlerAt, Withdraws, SigningOut, Unseen, Cleaning
  <2>9. HandlerFile(k)'
    BY DEF HandlerFile, HandlerAt, Withdraws, Cleaning
  <2> QED
    BY <2>2, <2>3, <2>4, <2>5, <2>6, <2>7, <2>8, <2>9 DEF HandlerInv
<1> QED
  BY <1>8, <1>10, <1>11, <1>12, <1>13, <1>14, <1>15, <1>16 DEF SignInInv

\* Close keeps SignInInv when the withdrawal cannot be recorded.
LEMMA SignInCloseNotKeeps ==
  ASSUME SignInInv, SignInAssumption, NEW h \in Handler, Close(h, FALSE)
  PROVE  SignInInv'
<1>1. /\ TypeOK /\ ActiveIsOpen /\ PairInv /\ SlotInv /\ DownInv /\ FileInv
      /\ \A p \in Op : /\ OpAt(p) /\ OpPending(p) /\ OpSlot(p) /\ OpPhase(p)
                       /\ OpPresent(p) /\ OpFile(p) /\ OpLeaves(p)
      /\ \A k \in Handler : /\ HandlerAt(k) /\ HandlerLease(k) /\ HandlerSignsOut(k)
                            /\ HandlerSlot(k) /\ HandlerNeeds(k) /\ HandlerMarks(k)
                            /\ HandlerPresent(k) /\ HandlerFile(k)
  BY DEF SignInInv, OpInv, HandlerInv
<1>2. /\ conn.active \in Op \cup {Nobody} /\ (phase # Nobody => phase.op \in Op)
      /\ \A x \in Op \cup Handler : target[x] \in Op \cup {Nobody}
      /\ \A k \in Handler : k \notin Op /\ k # Nobody
      /\ \A p \in Op : p # Nobody
      /\ \A k \in Handler :
           /\ handler[k].kind \in {"none", "cancel", "disable", "close", "logout", "delete"}
           /\ handler[k].pc \in Cleaning =>
                /\ handler[k].kind \in {"cancel", "disable", "close", "logout", "delete"}
                /\ handler[k].kind # "delete" => handler[k].op \in Op /\ op[handler[k].op] # Nobody
  BY SignInApart, SignInWithdrawers, SignInTyped
<1>3. UNCHANGED <<conn, op, lease, slot, phase, poisoned, file, life, target, worker, told>>
  BY DEF Close, registered, backend, server
<1>4. /\ alive = "up" /\ alive' = "closing"
      /\ handler[h].pc = "idle" /\ handler[h].kind = "none"
  BY DEF Close, Idle
<1>5. breaks' \in 0 .. MaxBreaks /\ breaks' > 0
  BY <1>1, SignInBreakIs DEF Close
<1>6. /\ handler' \in [Handler -> HandlerType]
      /\ handler'[h].pc = "close" /\ handler'[h].kind = "close"
      /\ handler'[h].op = Nobody /\ handler'[h].own = Nobody
      /\ \A k \in Handler \ {h} : handler'[k] = handler[k]
  <2>1. Occupy(h, "close", "close", Nobody, Nobody, FALSE)
    BY DEF Close
  <2>2. conn' \in ConnectionType
    BY <1>1, <1>3 DEF TypeOK
  <2> QED
    BY <1>1, <2>1, <2>2, SignInOccupyIs
<1> USE <1>1, <1>2, <1>3, <1>4, <1>5, <1>6
<1>7. TypeOK'
  BY DEF TypeOK
<1>8. SignOutCancelled => SignOutCancelled'
  BY DEF SignOutCancelled, UnderWay
<1>9. ActiveIsOpen'
  BY <1>8 DEF ActiveIsOpen, Open
<1>10. PairInv'
  BY <1>8 DEF PairInv, Withdraws, Cleaning, HandlerSignsOut, HandlerAt, Idle
<1>11. SlotInv'
  BY <1>8 DEF SlotInv, UnderWay, HandlerSlot, OpSlot
<1>12. DownInv'
  BY <1>8 DEF DownInv, Running
<1>13. FileInv'
  BY <1>8
    DEF FileInv, ShownSessionExists, SessionHasCredential, NoSilentCredential,
        AssumedForAReason, Open, UnderWay, Running, ActiveIsOpen, Unseen
<1>14. ASSUME NEW p \in Op PROVE OpInv(p)'
  <2>1. OpAt(p) /\ OpPending(p) /\ OpSlot(p) /\ OpPhase(p)
      /\ OpPresent(p) /\ OpFile(p) /\ OpLeaves(p)
    BY <1>1
  <2> USE <1>14, <2>1, <1>8
  <2>2. OpAt(p)'
    BY DEF OpAt, LoginSteps, LeavingSteps, UnderWay
  <2>3. OpPending(p)'
    BY DEF OpPending, Matches, UnderWay
  <2>4. OpSlot(p)'
    BY DEF OpSlot, Generation
  <2>5. OpPhase(p)'
    BY DEF OpPhase, SigningIn, UnderWay
  <2>6. OpPresent(p)'
    BY DEF OpPresent, OpSlot, Unseen
  <2>7. OpFile(p)'
    BY DEF OpFile, OpPhase, SigningIn, UnderWay, Accounted, Unlooked
  <2>8. OpLeaves(p)'
    BY DEF OpLeaves, LeavingSteps, Past, UnderWay, Generation
  <2> QED
    BY <2>2, <2>3, <2>4, <2>5, <2>6, <2>7, <2>8 DEF OpInv
<1>15. ASSUME NEW k \in Handler PROVE HandlerInv(k)'
  <2>1. HandlerAt(k) /\ HandlerLease(k) /\ HandlerSignsOut(k) /\ HandlerSlot(k)
      /\ HandlerNeeds(k) /\ HandlerMarks(k) /\ HandlerPresent(k) /\ HandlerFile(k)
    BY <1>1
  <2> USE <1>15, <2>1, <1>8
  <2>2. HandlerAt(k)'
    BY DEF HandlerAt, Withdraws, SigningOut, Cleaning, Idle, UnderWay
  <2>3. HandlerLease(k)'
    BY DEF HandlerLease, Withdraws, UnderWay
  <2>4. HandlerSignsOut(k)'
    BY DEF HandlerSignsOut, Cleaning, UnderWay
  <2>5. HandlerSlot(k)'
    BY DEF HandlerSlot, Target, SigningOut, Cleaning, Generation, Past, UnderWay
  <2>6. HandlerNeeds(k)'
    BY DEF HandlerNeeds, Withdraws, SigningOut, Cleaning
  <2>7. HandlerMarks(k)'
    BY DEF HandlerMarks, SigningOut, Cleaning
  <2>8. HandlerPresent(k)'
    BY DEF HandlerPresent, HandlerAt, Withdraws, SigningOut, Unseen, Cleaning
  <2>9. HandlerFile(k)'
    BY DEF HandlerFile, HandlerAt, Withdraws, Cleaning
  <2> QED
    BY <2>2, <2>3, <2>4, <2>5, <2>6, <2>7, <2>8, <2>9 DEF HandlerInv
<1> QED
  BY <1>7, <1>9, <1>10, <1>11, <1>12, <1>13, <1>14, <1>15 DEF SignInInv

\* Die keeps SignInInv.
LEMMA SignInDieKeeps ==
  ASSUME SignInInv, SignInAssumption, Die
  PROVE  SignInInv'
<1>1. /\ TypeOK /\ ActiveIsOpen /\ PairInv /\ SlotInv /\ DownInv /\ FileInv
      /\ \A p \in Op : /\ OpAt(p) /\ OpPending(p) /\ OpSlot(p) /\ OpPhase(p)
                       /\ OpPresent(p) /\ OpFile(p) /\ OpLeaves(p)
      /\ \A k \in Handler : /\ HandlerAt(k) /\ HandlerLease(k) /\ HandlerSignsOut(k)
                            /\ HandlerSlot(k) /\ HandlerNeeds(k) /\ HandlerMarks(k)
                            /\ HandlerPresent(k) /\ HandlerFile(k)
  BY DEF SignInInv, OpInv, HandlerInv
<1>2. /\ conn.active \in Op \cup {Nobody} /\ (phase # Nobody => phase.op \in Op)
      /\ \A x \in Op \cup Handler : target[x] \in Op \cup {Nobody}
      /\ \A k \in Handler : k \notin Op /\ k # Nobody
      /\ \A p \in Op : p # Nobody
      /\ \A k \in Handler :
           /\ handler[k].kind \in {"none", "cancel", "disable", "close", "logout", "delete"}
           /\ handler[k].pc \in Cleaning =>
                /\ handler[k].kind \in {"cancel", "disable", "close", "logout", "delete"}
                /\ handler[k].kind # "delete" => handler[k].op \in Op /\ op[handler[k].op] # Nobody
  BY SignInApart, SignInWithdrawers, SignInTyped
<1>3. UNCHANGED <<conn, op, lease, file, life, breaks>>
  BY DEF Die, registered, backend, server
<1>4. /\ alive' = "down" /\ life < MaxStarts /\ slot' = Nobody /\ phase' = Nobody /\ poisoned' = FALSE
      /\ \A p \in Op : worker'[p] = "none"
      /\ \A k \in Handler : handler'[k] = Idle /\ handler'[k].pc = "idle" /\ handler'[k].kind = "none"
      /\ worker' \in [Op -> WorkerType] /\ handler' \in [Handler -> HandlerType]
      /\ target' \in [Op \cup Handler -> Op \cup {Nobody}]
      /\ told' = (told \/ \E k \in Handler : handler[k].kind = "delete")
  BY DEF Die, Idle, WorkerType, HandlerType
<1>5. told' \in BOOLEAN
  BY <1>1, <1>4 DEF TypeOK
<1> USE <1>1, <1>2, <1>3, <1>4, <1>5
<1>6. TypeOK'
  BY DEF TypeOK
<1>7. SignOutCancelled => SignOutCancelled'
  BY DEF SignOutCancelled, UnderWay
<1>8. ActiveIsOpen'
  BY <1>7 DEF ActiveIsOpen, Open
<1>9. PairInv'
  BY <1>7 DEF PairInv, Withdraws, Cleaning, HandlerSignsOut, HandlerAt, Idle
<1>10. SlotInv'
  BY <1>7 DEF SlotInv, UnderWay, HandlerSlot, OpSlot
<1>11. DownInv'
  BY <1>7 DEF DownInv, Running
<1>12. FileInv'
  BY <1>7
    DEF FileInv, ShownSessionExists, SessionHasCredential, NoSilentCredential,
        AssumedForAReason, Open, UnderWay, Running, ActiveIsOpen, Unseen
<1>13. ASSUME NEW p \in Op PROVE OpInv(p)'
  <2>1. OpAt(p) /\ OpPending(p) /\ OpSlot(p) /\ OpPhase(p)
      /\ OpPresent(p) /\ OpFile(p) /\ OpLeaves(p)
    BY <1>1
  <2> USE <1>13, <2>1, <1>7
  <2>2. OpAt(p)'
    BY DEF OpAt, LoginSteps, LeavingSteps, UnderWay
  <2>3. OpPending(p)'
    BY DEF OpPending, Matches, UnderWay
  <2>4. OpSlot(p)'
    BY DEF OpSlot, Generation
  <2>5. OpPhase(p)'
    BY DEF OpPhase, SigningIn, UnderWay
  <2>6. OpPresent(p)'
    BY DEF OpPresent, OpSlot, Unseen
  <2>7. OpFile(p)'
    BY DEF OpFile, OpPhase, SigningIn, UnderWay, Accounted, Unlooked
  <2>8. OpLeaves(p)'
    BY DEF OpLeaves, LeavingSteps, Past, UnderWay, Generation
  <2> QED
    BY <2>2, <2>3, <2>4, <2>5, <2>6, <2>7, <2>8 DEF OpInv
<1>14. ASSUME NEW k \in Handler PROVE HandlerInv(k)'
  <2>1. HandlerAt(k) /\ HandlerLease(k) /\ HandlerSignsOut(k) /\ HandlerSlot(k)
      /\ HandlerNeeds(k) /\ HandlerMarks(k) /\ HandlerPresent(k) /\ HandlerFile(k)
    BY <1>1
  <2> USE <1>14, <2>1, <1>7
  <2>2. HandlerAt(k)'
    BY DEF HandlerAt, Withdraws, SigningOut, Cleaning, Idle, UnderWay
  <2>3. HandlerLease(k)'
    BY DEF HandlerLease, Withdraws, UnderWay
  <2>4. HandlerSignsOut(k)'
    BY DEF HandlerSignsOut, Cleaning, UnderWay
  <2>5. HandlerSlot(k)'
    BY DEF HandlerSlot, Target, SigningOut, Cleaning, Generation, Past, UnderWay
  <2>6. HandlerNeeds(k)'
    BY DEF HandlerNeeds, Withdraws, SigningOut, Cleaning
  <2>7. HandlerMarks(k)'
    BY DEF HandlerMarks, SigningOut, Cleaning
  <2>8. HandlerPresent(k)'
    BY DEF HandlerPresent, HandlerAt, Withdraws, SigningOut, Unseen, Cleaning
  <2>9. HandlerFile(k)'
    BY DEF HandlerFile, HandlerAt, Withdraws, Cleaning
  <2> QED
    BY <2>2, <2>3, <2>4, <2>5, <2>6, <2>7, <2>8, <2>9 DEF HandlerInv
<1> QED
  BY <1>6, <1>8, <1>9, <1>10, <1>11, <1>12, <1>13, <1>14 DEF SignInInv

\* Start keeps SignInInv.
LEMMA SignInStartKeeps ==
  ASSUME SignInInv, SignInAssumption, NEW recovered \in BOOLEAN, Start(recovered)
  PROVE  SignInInv'
<1>1. /\ TypeOK /\ ActiveIsOpen /\ PairInv /\ SlotInv /\ DownInv /\ FileInv
      /\ \A p \in Op : /\ OpAt(p) /\ OpPending(p) /\ OpSlot(p) /\ OpPhase(p)
                       /\ OpPresent(p) /\ OpFile(p) /\ OpLeaves(p)
      /\ \A k \in Handler : /\ HandlerAt(k) /\ HandlerLease(k) /\ HandlerSignsOut(k)
                            /\ HandlerSlot(k) /\ HandlerNeeds(k) /\ HandlerMarks(k)
                            /\ HandlerPresent(k) /\ HandlerFile(k)
  BY DEF SignInInv, OpInv, HandlerInv
<1>2. /\ conn.active \in Op \cup {Nobody} /\ (phase # Nobody => phase.op \in Op)
      /\ \A x \in Op \cup Handler : target[x] \in Op \cup {Nobody}
      /\ \A k \in Handler : k \notin Op /\ k # Nobody
      /\ \A p \in Op : p # Nobody
      /\ \A k \in Handler :
           /\ handler[k].kind \in {"none", "cancel", "disable", "close", "logout", "delete"}
           /\ handler[k].pc \in Cleaning =>
                /\ handler[k].kind \in {"cancel", "disable", "close", "logout", "delete"}
                /\ handler[k].kind # "delete" => handler[k].op \in Op /\ op[handler[k].op] # Nobody
  BY SignInApart, SignInWithdrawers, SignInTyped
<1>3. UNCHANGED <<slot, phase, poisoned, file, target, worker, handler, told>>
  BY DEF Start, registered, backend, server
<1>4. /\ alive = "down" /\ alive' = "up" /\ life' = life + 1 /\ lease' = Nobody
      /\ slot = Nobody /\ phase = Nobody /\ life < MaxStarts
      /\ \A p \in Op : worker[p] = "none"
      /\ \A k \in Handler : handler[k].pc = "idle" /\ handler[k].kind = "none"
  BY <1>1 DEF Start, DownInv, Idle
<1>5. life' \in 1 .. MaxStarts
  BY <1>1, <1>4 DEF TypeOK, SignInAssumption
<1>6. /\ op' \in [Op -> OpType \cup {Nobody}]
      /\ \A p \in Op : op[p] = Nobody => op'[p] = Nobody
      /\ \A p \in Op : op[p] # Nobody =>
           /\ op'[p] # Nobody /\ op'[p].action = op[p].action
           /\ op'[p].state = IF op[p].state = "pending" THEN "unknown" ELSE op[p].state
  <2>1. op' = [p \in Op |-> IF op[p] # Nobody /\ op[p].state = "pending"
                         THEN [op[p] EXCEPT !.state = "unknown"] ELSE op[p]]
    BY DEF Start
  <2>2. op' = [p \in Op |-> op'[p]]
    BY <2>1
  <2>3. \A p \in Op : op'[p] = IF op[p] # Nobody /\ op[p].state = "pending"
                            THEN [op[p] EXCEPT !.state = "unknown"] ELSE op[p]
    BY <2>1
  <2> QED
    BY <1>1, <2>2, <2>3, SignInMarkedIs
<1>7. /\ conn' \in ConnectionType /\ conn'.exists = conn.exists /\ conn'.active = conn.active
      /\ breaks' \in 0 .. MaxBreaks /\ (breaks > 0 => breaks' > 0)
      /\ \/ conn' = conn
         \/ conn.exists /\ conn'.present /\ conn'.assumed /\ breaks' > 0
  BY <1>1, SignInBreakIs DEF Start, TypeOK, ConnectionType
<1> USE <1>1, <1>2, <1>3, <1>4, <1>5, <1>6, <1>7
<1>8. TypeOK'
  BY DEF TypeOK
<1>9. SignOutCancelled => SignOutCancelled'
  BY DEF SignOutCancelled, UnderWay
<1>10. ActiveIsOpen'
  BY <1>9 DEF ActiveIsOpen, Open
<1>11. PairInv'
  BY <1>9 DEF PairInv, Withdraws, Cleaning, HandlerSignsOut, HandlerAt, Idle
<1>12. SlotInv'
  BY <1>9 DEF SlotInv, UnderWay, HandlerSlot, OpSlot
<1>13. DownInv'
  BY <1>9 DEF DownInv, Running
<1>14. FileInv'
  BY <1>9
    DEF FileInv, ShownSessionExists, SessionHasCredential, NoSilentCredential,
        AssumedForAReason, Open, UnderWay, Running, ActiveIsOpen, Unseen
<1>15. ASSUME NEW p \in Op PROVE OpInv(p)'
  <2>1. OpAt(p) /\ OpPending(p) /\ OpSlot(p) /\ OpPhase(p)
      /\ OpPresent(p) /\ OpFile(p) /\ OpLeaves(p)
    BY <1>1
  <2> USE <1>15, <2>1, <1>9
  <2>2. OpAt(p)'
    BY DEF OpAt, LoginSteps, LeavingSteps, UnderWay
  <2>3. OpPending(p)'
    BY DEF OpPending, Matches, UnderWay
  <2>4. OpSlot(p)'
    BY DEF OpSlot, Generation
  <2>5. OpPhase(p)'
    BY DEF OpPhase, SigningIn, UnderWay
  <2>6. OpPresent(p)'
    BY DEF OpPresent, OpSlot, Unseen
  <2>7. OpFile(p)'
    BY DEF OpFile, OpPhase, SigningIn, UnderWay, Accounted, Unlooked
  <2>8. OpLeaves(p)'
    BY DEF OpLeaves, LeavingSteps, Past, UnderWay, Generation
  <2> QED
    BY <2>2, <2>3, <2>4, <2>5, <2>6, <2>7, <2>8 DEF OpInv
<1>16. ASSUME NEW k \in Handler PROVE HandlerInv(k)'
  <2>1. HandlerAt(k) /\ HandlerLease(k) /\ HandlerSignsOut(k) /\ HandlerSlot(k)
      /\ HandlerNeeds(k) /\ HandlerMarks(k) /\ HandlerPresent(k) /\ HandlerFile(k)
    BY <1>1
  <2> USE <1>16, <2>1, <1>9
  <2>2. HandlerAt(k)'
    BY DEF HandlerAt, Withdraws, SigningOut, Cleaning, Idle, UnderWay
  <2>3. HandlerLease(k)'
    BY DEF HandlerLease, Withdraws, UnderWay
  <2>4. HandlerSignsOut(k)'
    BY DEF HandlerSignsOut, Cleaning, UnderWay
  <2>5. HandlerSlot(k)'
    BY DEF HandlerSlot, Target, SigningOut, Cleaning, Generation, Past, UnderWay
  <2>6. HandlerNeeds(k)'
    BY DEF HandlerNeeds, Withdraws, SigningOut, Cleaning
  <2>7. HandlerMarks(k)'
    BY DEF HandlerMarks, SigningOut, Cleaning
  <2>8. HandlerPresent(k)'
    BY DEF HandlerPresent, HandlerAt, Withdraws, SigningOut, Unseen, Cleaning
  <2>9. HandlerFile(k)'
    BY DEF HandlerFile, HandlerAt, Withdraws, Cleaning
  <2> QED
    BY <2>2, <2>3, <2>4, <2>5, <2>6, <2>7, <2>8, <2>9 DEF HandlerInv
<1> QED
  BY <1>8, <1>10, <1>11, <1>12, <1>13, <1>14, <1>15, <1>16 DEF SignInInv

\* Stuttering keeps SignInInv.
LEMMA SignInStutterKeeps ==
  ASSUME SignInInv, SignInAssumption, UNCHANGED svars
  PROVE  SignInInv'
<1>1. /\ TypeOK /\ ActiveIsOpen /\ PairInv /\ SlotInv /\ DownInv /\ FileInv
      /\ \A p \in Op : /\ OpAt(p) /\ OpPending(p) /\ OpSlot(p) /\ OpPhase(p)
                       /\ OpPresent(p) /\ OpFile(p) /\ OpLeaves(p)
      /\ \A k \in Handler : /\ HandlerAt(k) /\ HandlerLease(k) /\ HandlerSignsOut(k)
                            /\ HandlerSlot(k) /\ HandlerNeeds(k) /\ HandlerMarks(k)
                            /\ HandlerPresent(k) /\ HandlerFile(k)
  BY DEF SignInInv, OpInv, HandlerInv
<1>2. /\ conn.active \in Op \cup {Nobody} /\ (phase # Nobody => phase.op \in Op)
      /\ \A x \in Op \cup Handler : target[x] \in Op \cup {Nobody}
      /\ \A k \in Handler : k \notin Op /\ k # Nobody
      /\ \A p \in Op : p # Nobody
      /\ \A k \in Handler :
           /\ handler[k].kind \in {"none", "cancel", "disable", "close", "logout", "delete"}
           /\ handler[k].pc \in Cleaning =>
                /\ handler[k].kind \in {"cancel", "disable", "close", "logout", "delete"}
                /\ handler[k].kind # "delete" => handler[k].op \in Op /\ op[handler[k].op] # Nobody
  BY SignInApart, SignInWithdrawers, SignInTyped
<1>3. UNCHANGED <<conn, op, lease, slot, phase, poisoned, file, alive, life, target, worker, handler, told, breaks>>
  BY DEF svars, registered, backend, server
<1> USE <1>1, <1>2, <1>3
<1>4. TypeOK'
  BY DEF TypeOK
<1>5. SignOutCancelled => SignOutCancelled'
  BY DEF SignOutCancelled, UnderWay
<1>6. ActiveIsOpen'
  BY <1>5 DEF ActiveIsOpen, Open
<1>7. PairInv'
  BY <1>5 DEF PairInv, Withdraws, Cleaning, HandlerSignsOut, HandlerAt, Idle
<1>8. SlotInv'
  BY <1>5 DEF SlotInv, UnderWay, HandlerSlot, OpSlot
<1>9. DownInv'
  BY <1>5 DEF DownInv, Running
<1>10. FileInv'
  BY <1>5
    DEF FileInv, ShownSessionExists, SessionHasCredential, NoSilentCredential,
        AssumedForAReason, Open, UnderWay, Running, ActiveIsOpen, Unseen
<1>11. ASSUME NEW p \in Op PROVE OpInv(p)'
  <2>1. OpAt(p) /\ OpPending(p) /\ OpSlot(p) /\ OpPhase(p)
      /\ OpPresent(p) /\ OpFile(p) /\ OpLeaves(p)
    BY <1>1
  <2> USE <1>11, <2>1, <1>5
  <2>2. OpAt(p)'
    BY DEF OpAt, LoginSteps, LeavingSteps, UnderWay
  <2>3. OpPending(p)'
    BY DEF OpPending, Matches, UnderWay
  <2>4. OpSlot(p)'
    BY DEF OpSlot, Generation
  <2>5. OpPhase(p)'
    BY DEF OpPhase, SigningIn, UnderWay
  <2>6. OpPresent(p)'
    BY DEF OpPresent, OpSlot, Unseen
  <2>7. OpFile(p)'
    BY DEF OpFile, OpPhase, SigningIn, UnderWay, Accounted, Unlooked
  <2>8. OpLeaves(p)'
    BY DEF OpLeaves, LeavingSteps, Past, UnderWay, Generation
  <2> QED
    BY <2>2, <2>3, <2>4, <2>5, <2>6, <2>7, <2>8 DEF OpInv
<1>12. ASSUME NEW k \in Handler PROVE HandlerInv(k)'
  <2>1. HandlerAt(k) /\ HandlerLease(k) /\ HandlerSignsOut(k) /\ HandlerSlot(k)
      /\ HandlerNeeds(k) /\ HandlerMarks(k) /\ HandlerPresent(k) /\ HandlerFile(k)
    BY <1>1
  <2> USE <1>12, <2>1, <1>5
  <2>2. HandlerAt(k)'
    BY DEF HandlerAt, Withdraws, SigningOut, Cleaning, Idle, UnderWay
  <2>3. HandlerLease(k)'
    BY DEF HandlerLease, Withdraws, UnderWay
  <2>4. HandlerSignsOut(k)'
    BY DEF HandlerSignsOut, Cleaning, UnderWay
  <2>5. HandlerSlot(k)'
    BY DEF HandlerSlot, Target, SigningOut, Cleaning, Generation, Past, UnderWay
  <2>6. HandlerNeeds(k)'
    BY DEF HandlerNeeds, Withdraws, SigningOut, Cleaning
  <2>7. HandlerMarks(k)'
    BY DEF HandlerMarks, SigningOut, Cleaning
  <2>8. HandlerPresent(k)'
    BY DEF HandlerPresent, HandlerAt, Withdraws, SigningOut, Unseen, Cleaning
  <2>9. HandlerFile(k)'
    BY DEF HandlerFile, HandlerAt, Withdraws, Cleaning
  <2> QED
    BY <2>2, <2>3, <2>4, <2>5, <2>6, <2>7, <2>8, <2>9 DEF HandlerInv
<1> QED
  BY <1>4, <1>6, <1>7, <1>8, <1>9, <1>10, <1>11, <1>12 DEF SignInInv

\* A handler that fails keeps SignInInv.
LEMMA SignInHandlerFailsKeeps ==
  ASSUME SignInInv, SignInAssumption, NEW h \in Handler,
         handler[h].pc \in {"register", "stop", "wait", "reserve", "logout", "confirm"},
         To(h, Failed(h)), UNCHANGED <<registered, backend, server, worker, told>>,
         breaks' \in 0 .. MaxBreaks, breaks > 0 => breaks' > 0
  PROVE  SignInInv'
<1>1. Failed(h) \in {"failed", "refused"} /\ (Failed(h) = "refused" <=> handler[h].kind = "logout")
  BY DEF Failed
<1> QED
  BY <1>1, SignInHandlerMovesKeeps

\* Work keeps SignInInv.
LEMMA SignInWorkKeeps ==
  ASSUME SignInInv, SignInAssumption, NEW o \in Op, Work(o)
  PROVE  SignInInv'
<1>1. /\ TypeOK /\ OpAt(o) /\ OpPending(o) /\ OpFile(o) /\ OpLeaves(o)
      /\ op[o] # Nobody => op[o].action \in {"start", "logout"}
      /\ breaks' = breaks => breaks' \in 0 .. MaxBreaks
      /\ Break => breaks' \in 0 .. MaxBreaks /\ breaks' > 0
      /\ UnderWay(o) => Matches(o)
  BY SignInBreakIs DEF SignInInv, OpInv, OpPending, TypeOK, OpType
<1>2. ASSUME NEW read \in BOOLEAN, Dequeue(o, read) PROVE SignInInv'
  <2>1. /\ worker[o] = "queued" /\ alive # "down" /\ op[o].action = "start"
        /\ UNCHANGED <<registered, backend, server, handler, told>>
        /\ breaks' \in 0 .. MaxBreaks /\ (breaks > 0 => breaks' > 0)
    BY <1>1, <1>2 DEF Dequeue, At, Running, OpAt, LoginSteps
  <2>2. SigningIn(o) => Accounted
    BY <1>1, <2>1 DEF OpFile
  <2>3. CASE Go(o, "prepare")
    BY <2>1, <2>2, <2>3, SignInWorkerMoves
  <2>4. CASE Go(o, "unstarted") /\ (UnderWay(o) /\ alive = "up" => breaks' > 0)
    BY <2>1, <2>2, <2>4, SignInWorkerMoves
  <2> QED
    BY <1>1, <1>2, <2>3, <2>4 DEF Dequeue, Pending
<1>3. ASSUME NEW saved \in BOOLEAN, PrepareRecord(o, saved) PROVE SignInInv'
  <2>1. /\ worker[o] = "prepare" /\ alive # "down" /\ op[o].action = "start"
        /\ breaks' \in 0 .. MaxBreaks /\ (breaks > 0 => breaks' > 0)
        /\ UNCHANGED <<op, lease, backend, server, handler, told>>
    BY <1>1, <1>3 DEF PrepareRecord, At, Running, OpAt, LoginSteps
  <2>2. CASE saved /\ Matches(o)
    BY <1>3, <2>2, SignInPrepareRecordKeeps
  <2>3. CASE ~saved
    <3>1. Go(o, "unverified") /\ UNCHANGED <<registered, backend, server, handler, told>>
      BY <1>3, <2>3 DEF PrepareRecord, registered
    <3> QED
      BY <2>1, <3>1, SignInWorkerMoves
  <2>4. CASE saved /\ ~Matches(o)
    <3>1. Go(o, "done") /\ UNCHANGED <<registered, backend, server, handler, told>>
      BY <1>3, <2>4 DEF PrepareRecord, registered
    <3> QED
      BY <2>1, <3>1, SignInWorkerMoves
  <2> QED
    BY <2>2, <2>3, <2>4
<1>4. ASSUME BeginErase(o) PROVE SignInInv'
  <2>1. CASE Admitted(o, "registered")
    BY <1>4, <2>1, SignInBeginEraseKeeps
  <2>2. CASE ~Admitted(o, "registered")
    <3>1. /\ worker[o] = "erase" /\ alive # "down" /\ op[o].action = "start"
          /\ breaks' \in 0 .. MaxBreaks /\ (breaks > 0 => breaks' > 0) /\ Go(o, "unverified")
          /\ UNCHANGED <<registered, backend, server, handler, told>>
      BY <1>1, <1>4, <2>2 DEF BeginErase, At, Running, OpAt, LoginSteps, backend
    <3> QED
      BY <3>1, SignInWorkerMoves
  <2> QED
    BY <2>1, <2>2
<1>5. ASSUME NEW cleared \in BOOLEAN, EndErase(o, cleared) PROVE SignInInv'
  <2>1. CASE cleared = TRUE
    BY <1>5, <2>1, SignInEndEraseKeeps
  <2>2. CASE cleared = FALSE
    BY <1>5, <2>2, SignInEndEraseNotKeeps
  <2> QED
    BY <1>5, <2>1, <2>2
<1>6. ASSUME NEW saved \in BOOLEAN, MarkUnknown(o, saved) PROVE SignInInv'
  <2>1. CASE saved /\ Matches(o)
    BY <1>6, <2>1, SignInMarkUnknownKeeps
  <2>2. CASE ~(saved /\ Matches(o))
    <3>1. /\ worker[o] = "unverified" /\ alive # "down" /\ Go(o, "done")
          /\ breaks' \in 0 .. MaxBreaks /\ (breaks > 0 => breaks' > 0)
          /\ UNCHANGED <<registered, backend, server, handler, told>>
      BY <1>1, <1>6, <2>2 DEF MarkUnknown, At, Running, registered
    <3> QED
      BY <3>1, SignInWorkerMoves
  <2> QED
    BY <2>1, <2>2
<1>7. ASSUME BeginLogin(o) PROVE SignInInv'
  <2>1. CASE Admitted(o, "prepared")
    BY <1>7, <2>1, SignInBeginLoginKeeps
  <2>2. CASE ~Admitted(o, "prepared")
    <3>1. /\ worker[o] = "login" /\ alive # "down" /\ op[o].action = "start"
          /\ breaks' \in 0 .. MaxBreaks /\ (breaks > 0 => breaks' > 0)
          /\ UNCHANGED <<registered, backend, server, handler, told>>
          /\ Go(o, "dropped") \/ Go(o, "cancelled")
      BY <1>1, <1>7, <2>2 DEF BeginLogin, At, Running, OpAt, LoginSteps, backend
    <3>2. SigningIn(o) => ~file /\ Accounted
      BY <1>1, <3>1 DEF OpFile, Accounted
    <3>3. CASE Go(o, "dropped")
      BY <3>1, <3>2, <3>3, SignInWorkerMoves
    <3>4. CASE Go(o, "cancelled")
      BY <3>1, <3>2, <3>4, SignInWorkerMoves
    <3> QED
      BY <3>1, <3>3, <3>4
  <2> QED
    BY <2>1, <2>2
<1>8. ASSUME NEW result \in {"cancelled", "rejected", "skipped", "dropped"},
             NEW failed \in BOOLEAN, EndSession(o, result, failed)
      PROVE  SignInInv'
  BY <1>8, SignInEndSessionKeeps
<1>9. ASSUME NEW sure \in BOOLEAN, Install(o, sure) PROVE SignInInv'
  <2>1. CASE sure = TRUE
    BY <1>9, <2>1, SignInInstallKeeps
  <2>2. CASE sure = FALSE
    BY <1>9, <2>2, SignInInstallUnsureKeeps
  <2> QED
    BY <1>9, <2>1, <2>2
<1>10. ASSUME NEW result \in {"committed", "cancelled", "dropped"}, EndInstall(o, result)
       PROVE  SignInInv'
  BY <1>10, SignInEndInstallKeeps
<1>11. ASSUME NEW saved \in BOOLEAN, Finish(o, saved) PROVE SignInInv'
  <2>1. CASE saved = FALSE
    <3>1. /\ worker[o] \in {"committed", "skipped", "cancelled", "rejected", "unstarted"}
          /\ alive # "down" /\ op[o] # Nobody
          /\ breaks' \in 0 .. MaxBreaks /\ breaks' > 0
          /\ UNCHANGED <<registered, backend, server, handler, told>>
      BY <1>1, <1>11, <2>1 DEF Finish, Running, OpAt
    <3>2. CASE Go(o, "done")
      BY <3>1, <3>2, SignInWorkerMoves
    <3>3. CASE Go(o, "dropped") /\ (worker[o] = "unstarted" \/ op[o].action = "logout")
      <4>1. SigningIn(o) => Accounted
        BY <1>1, <3>3 DEF OpFile, SigningIn
      <4> QED
        BY <3>1, <3>3, <4>1, SignInWorkerMoves
    <3>4. CASE Go(o, "resolve") /\ worker[o] \in {"committed", "skipped"} /\ op[o].action # "logout"
      <4>1. op[o].action = "start"
        BY <1>1, <3>1, <3>4
      <4> QED
        BY <3>1, <3>4, <4>1, SignInWorkerMoves
    <3> QED
      BY <1>11, <2>1, <3>1, <3>2, <3>3, <3>4 DEF Finish
  <2>2. CASE saved = TRUE /\ op[o].state # "pending"
    BY <1>11, <2>2, SignInFinishLateKeeps
  <2>3. CASE saved = TRUE /\ op[o].state = "pending" /\ alive # "up"
    BY <1>11, <2>3, SignInFinishUnknownKeeps
  <2>4. CASE saved = TRUE /\ op[o].state = "pending" /\ alive = "up"
    BY <1>11, <2>4, SignInFinishTakesKeeps
  <2> QED
    BY <1>11, <2>1, <2>2, <2>3, <2>4
<1>12. ASSUME NEW cleared \in BOOLEAN, NEW saved \in BOOLEAN, Resolve(o, cleared, saved)
       PROVE  SignInInv'
  <2>1. CASE op[o].state \notin {"pending", "succeeded"}
    <3>1. /\ worker[o] = "resolve" /\ alive # "down" /\ Go(o, "done")
          /\ breaks' \in 0 .. MaxBreaks /\ (breaks > 0 => breaks' > 0)
          /\ UNCHANGED <<registered, backend, server, handler, told>>
      BY <1>1, <1>12, <2>1 DEF Resolve, At, Running, backend
    <3> QED
      BY <3>1, SignInWorkerMoves
  <2>2. CASE op[o].state \in {"pending", "succeeded"} /\ saved = TRUE
    BY <1>12, <2>2, SignInResolveKeeps
  <2>3. CASE op[o].state \in {"pending", "succeeded"} /\ saved = FALSE
    BY <1>12, <2>3, SignInResolveNotKeeps
  <2> QED
    BY <1>12, <2>1, <2>2, <2>3
<1>13. ASSUME NEW saved \in BOOLEAN, Drop(o, saved) PROVE SignInInv'
  <2>1. CASE ~saved \/ op[o].state # "pending"
    <3>1. /\ worker[o] = "dropped" /\ alive # "down" /\ Go(o, "done")
          /\ breaks' \in 0 .. MaxBreaks /\ (breaks > 0 => breaks' > 0)
          /\ UNCHANGED <<registered, backend, server, handler, told>>
      BY <1>1, <1>13, <2>1 DEF Drop, Dropped, At, Running
    <3> QED
      BY <3>1, SignInWorkerMoves
  <2>2. CASE saved = TRUE /\ op[o].state = "pending" /\ op[o].action = "logout"
    BY <1>13, <2>2, SignInDropSignOutKeeps
  <2>3. CASE saved = TRUE /\ op[o].state = "pending" /\ op[o].action # "logout"
    BY <1>13, <2>3, SignInDropSignInKeeps
  <2> QED
    BY <1>13, <2>1, <2>2, <2>3
<1>14. ASSUME NEW read \in BOOLEAN, BeginSignOut(o, read) PROVE SignInInv'
  <2>1. /\ worker[o] = "leave" /\ alive # "down" /\ op[o].action = "logout"
        /\ breaks' \in 0 .. MaxBreaks /\ (breaks > 0 => breaks' > 0)
        /\ UNCHANGED <<registered, phase, poisoned, file, alive, life, handler, told>>
    BY <1>1, <1>14 DEF BeginSignOut, At, Running, OpAt, LeavingSteps
  <2>2. CASE ~read \/ ~Pending(o)
    <3>1. /\ Go(o, "unstarted") /\ UNCHANGED <<registered, backend, server, handler, told>>
          /\ UnderWay(o) /\ alive = "up" => breaks' > 0
      BY <1>1, <1>14, <2>2 DEF BeginSignOut, Pending, backend, server
    <3> QED
      BY <2>1, <3>1, SignInWorkerMoves DEF SigningIn
  <2>3. CASE read /\ Pending(o) /\ slot # Nobody /\ slot.kind # "auth"
    <3>1. /\ Go(o, "dropped") /\ UNCHANGED <<registered, backend, server, handler, told>>
      BY <1>14, <2>3 DEF BeginSignOut, backend, server
    <3> QED
      BY <2>1, <3>1, SignInWorkerMoves DEF SigningIn
  <2>4. CASE read = TRUE /\ Pending(o) /\ (slot = Nobody \/ slot.kind = "auth")
    BY <1>14, <2>4, SignInBeginSignOutKeeps
  <2> QED
    BY <1>14, <2>2, <2>3, <2>4
<1>15. ASSUME AwaitSignOut(o) PROVE SignInInv'
  <2>1. /\ worker[o] = "leaving" /\ alive # "down" /\ op[o].action = "logout"
        /\ breaks' \in 0 .. MaxBreaks /\ (breaks > 0 => breaks' > 0)
    BY <1>1, <1>15 DEF AwaitSignOut, At, Running, OpAt, LeavingSteps
  <2>2. CASE slot = Nobody /\ alive # "shut" /\ Generation = target[o]
    BY <1>15, <2>2, SignInAwaitSignOutKeeps
  <2>3. CASE Go(o, "dropped") /\ UNCHANGED slot
    <3>1. UNCHANGED <<registered, backend, server, handler, told>>
      BY <1>15, <2>3 DEF AwaitSignOut, backend
    <3> QED
      BY <2>1, <2>3, <3>1, SignInWorkerMoves DEF SigningIn
  <2>4. CASE Go(o, "cancelled") /\ UNCHANGED slot /\ Generation # target[o]
    <3>1. /\ UNCHANGED <<registered, backend, server, handler, told>>
          /\ UnderWay(o) /\ alive = "up" => SignOutCancelled
      BY <1>1, <1>15, <2>1, <2>4 DEF AwaitSignOut, backend, OpLeaves
    <3> QED
      BY <2>1, <2>4, <3>1, SignInWorkerMoves DEF SigningIn
  <2> QED
    BY <1>15, <2>2, <2>3, <2>4 DEF AwaitSignOut
<1>16. ASSUME NEW cleared \in BOOLEAN, EndSignOut(o, cleared) PROVE SignInInv'
  <2>1. CASE cleared = TRUE
    BY <1>16, <2>1, SignInEndSignOutKeeps
  <2>2. CASE cleared = FALSE
    BY <1>16, <2>2, SignInEndSignOutNotKeeps
  <2> QED
    BY <1>16, <2>1, <2>2
<1> QED
  BY <1>2, <1>3, <1>4, <1>5, <1>6, <1>7, <1>8, <1>9, <1>10, <1>11, <1>12, <1>13, <1>14, <1>15,
     <1>16
  DEF Work

\* Handle keeps SignInInv.
LEMMA SignInHandleKeeps ==
  ASSUME SignInInv, SignInAssumption, NEW h \in Handler, Handle(h)
  PROVE  SignInInv'
<1>1. /\ TypeOK
      /\ breaks' = breaks => breaks' \in 0 .. MaxBreaks
      /\ Break => breaks' \in 0 .. MaxBreaks /\ breaks' > 0
  BY SignInBreakIs DEF SignInInv, TypeOK
<1>2. ASSUME Register(h) PROVE SignInInv'
  <2> DEFINE taken == /\ alive # "shut"
                      /\ \/ slot = Nobody /\ phase = Nobody
                         \/ /\ phase # Nobody /\ phase.op = handler[h].op
                            /\ slot # Nobody => /\ slot.kind \in {"auth", "prepare"}
                                                /\ slot.by = handler[h].op
  <2>1. CASE ~taken
    <3>1. /\ handler[h].pc = "register" /\ To(h, Failed(h)) /\ breaks' = breaks
          /\ UNCHANGED <<registered, backend, server, worker, told>>
      BY <1>2, <2>1 DEF Register, backend
    <3> QED
      BY <1>1, <3>1, SignInHandlerFailsKeeps
  <2>2. CASE taken
    BY <1>2, <2>2, SignInRegisterKeeps
  <2> QED
    BY <2>1, <2>2
<1>3. ASSUME StopWorker(h) PROVE SignInInv'
  <2> DEFINE mine == /\ phase # Nobody /\ phase.op = handler[h].op
                     /\ slot = Nobody \/ slot.by = handler[h].op
  <2>1. CASE ~mine
    <3>1. /\ handler[h].pc = "stop" /\ To(h, Failed(h)) /\ breaks' = breaks
          /\ UNCHANGED <<registered, backend, server, worker, told>>
      BY <1>3, <2>1 DEF StopWorker, backend
    <3> QED
      BY <1>1, <3>1, SignInHandlerFailsKeeps
  <2>2. CASE mine /\ slot = Nobody
    <3>1. /\ handler[h].pc = "stop" /\ To(h, "reserve") /\ breaks' = breaks
          /\ UNCHANGED <<registered, backend, server, worker, told>>
      BY <1>3, <2>2 DEF StopWorker, backend
    <3> QED
      BY <1>1, <3>1, SignInHandlerMovesKeeps
  <2>3. CASE mine /\ slot # Nobody
    BY <1>3, <2>3, SignInStopWorkerKeeps
  <2> QED
    BY <2>1, <2>2, <2>3
<1>4. ASSUME SignOut(h) PROVE SignInInv'
  <2>1. CASE slot # Nobody /\ slot.kind # "auth"
    <3>1. /\ handler[h].pc = "logout" /\ To(h, "failed") /\ breaks' = breaks
          /\ UNCHANGED <<registered, backend, server, worker, told>>
      BY <1>4, <2>1 DEF SignOut, backend, server
    <3>2. handler[h].kind # "logout"
      BY <3>1 DEF SignInInv, HandlerInv, HandlerAt, Cleaning
    <3> QED
      BY <1>1, <3>1, <3>2, SignInHandlerMovesKeeps
  <2>2. CASE slot = Nobody \/ slot.kind = "auth"
    BY <1>4, <2>2, SignInSignOutKeeps
  <2> QED
    BY <2>1, <2>2
<1>5. ASSUME AwaitWorker(h) PROVE SignInInv'
  <2>1. /\ handler[h].pc = "wait" /\ UNCHANGED <<registered, backend, server, worker, told>>
        /\ (To(h, "reserve") /\ breaks' = breaks) \/ (To(h, Failed(h)) /\ Break)
    BY <1>5 DEF AwaitWorker
  <2>2. CASE To(h, "reserve") /\ breaks' = breaks
    BY <1>1, <2>1, <2>2, SignInHandlerMovesKeeps
  <2>3. CASE To(h, Failed(h)) /\ Break
    BY <1>1, <2>1, <2>3, SignInHandlerFailsKeeps
  <2> QED
    BY <2>1, <2>2, <2>3
<1>6. ASSUME Reserve(h) PROVE SignInInv'
  <2>1. CASE slot = Nobody /\ alive # "shut" /\ Generation = Target(h)
    BY <1>6, <2>1, SignInReserveKeeps
  <2>2. CASE ~(slot = Nobody /\ alive # "shut" /\ Generation = Target(h))
    <3>1. /\ handler[h].pc = "reserve" /\ To(h, Failed(h)) /\ breaks' = breaks
          /\ UNCHANGED <<registered, backend, server, worker, told>>
      BY <1>6, <2>2 DEF Reserve, backend
    <3> QED
      BY <1>1, <3>1, SignInHandlerFailsKeeps
  <2> QED
    BY <2>1, <2>2
<1>7. ASSUME Submit(h) PROVE SignInInv'
  BY <1>7, SignInSubmitKeeps
<1>8. ASSUME CloseBackend(h) PROVE SignInInv'
  BY <1>8, SignInCloseBackendKeeps
<1>9. ASSUME NEW ok \in BOOLEAN, Clear(h, ok) PROVE SignInInv'
  <2>1. CASE ok = TRUE
    BY <1>9, <2>1, SignInClearKeeps
  <2>2. CASE ok = FALSE
    BY <1>9, <2>2, SignInClearNotKeeps
  <2> QED
    BY <1>9, <2>1, <2>2
<1>10. ASSUME NEW ok \in BOOLEAN, Confirm(h, ok) PROVE SignInInv'
  <2>1. handler[h].pc = "confirm" /\ handler[h].kind \in {"cancel", "disable", "close", "delete"}
    BY <1>10, SignInWithdrawers DEF Confirm, SignInInv, HandlerInv, HandlerAt, Cleaning
  <2>2. CASE \/ ~ok
             \/ handler[h].kind = "close" /\ (~conn.exists \/ op[handler[h].op].state # "unknown")
             \/ /\ handler[h].kind \in {"cancel", "disable", "delete"}
                /\ ~conn.exists \/ conn.revision # handler[h].revision
    <3>1. /\ To(h, "failed") /\ UNCHANGED <<registered, backend, server, worker, told>>
          /\ breaks' = breaks \/ Break
      BY <1>10, <2>2 DEF Confirm
    <3> QED
      BY <1>1, <2>1, <3>1, SignInHandlerMovesKeeps
  <2>3. CASE /\ ok = TRUE /\ conn.exists
             /\ handler[h].kind = "close" => op[handler[h].op].state = "unknown"
             /\ handler[h].kind # "close" => conn.revision = handler[h].revision
    <3>1. CASE handler[h].kind = "delete"
      BY <1>10, <2>3, <3>1, SignInConfirmDeleteKeeps
    <3>2. CASE handler[h].kind \in {"cancel", "disable", "close"}
      BY <1>10, <2>3, <3>2, SignInConfirmKeeps
    <3> QED
      BY <2>1, <3>1, <3>2
  <2> QED
    BY <1>10, <2>1, <2>2, <2>3
<1>11. ASSUME NEW ok \in BOOLEAN, GiveUp(h, ok) PROVE SignInInv'
  BY <1>11, SignInGiveUpKeeps
<1>12. ASSUME NEW ok \in BOOLEAN, Refuse(h, ok) PROVE SignInInv'
  <2>1. handler[h].pc = "refused" /\ handler[h].kind = "logout"
    BY <1>12, SignInWithdrawers DEF Refuse, SignInInv, HandlerInv, HandlerAt, Cleaning
  <2>2. CASE ok = TRUE /\ op[handler[h].own].state = "pending"
    BY <1>12, <2>2, SignInRefuseKeeps
  <2>3. CASE ~(ok /\ op[handler[h].own].state = "pending")
    <3>1. /\ handler' = [handler EXCEPT ![h] = Idle]
          /\ UNCHANGED <<registered, backend, server, worker, told>>
          /\ breaks' = breaks \/ Break
      BY <1>12, <2>3 DEF Refuse, Dropped
    <3> QED
      BY <1>1, <2>1, <3>1, SignInHandlerEndsKeeps
  <2> QED
    BY <1>12, <2>2, <2>3
<1>13. ASSUME NEW ok \in BOOLEAN, Drain(h, ok) PROVE SignInInv'
  BY <1>13, SignInDrainKeeps
<1> QED
  BY <1>2, <1>3, <1>4, <1>5, <1>6, <1>7, <1>8, <1>9, <1>10, <1>11, <1>12, <1>13 DEF Handle

\* Every step keeps SignInInv.
LEMMA SignInNextKeeps ==
  ASSUME SignInInv, SignInAssumption, Next \/ UNCHANGED svars
  PROVE  SignInInv'
<1>1. conn.active = Nobody \/ (conn.active \in Op /\ conn.active # Nobody /\ Open(conn.active))
  BY DEF SignInInv, TypeOK, ActiveIsOpen, ConnectionType
<1>2. ASSUME NEW o \in Op, Work(o) PROVE SignInInv'
  BY <1>2, SignInWorkKeeps
<1>3. ASSUME NEW o \in Op, NEW ok \in BOOLEAN, StartSignIn(o, ok) PROVE SignInInv'
  <2>1. CASE ok = TRUE
    BY <1>3, <2>1, SignInStartSignInKeeps
  <2>2. CASE ok = FALSE
    BY <1>3, <2>2, SignInStartSignInRefusedKeeps
  <2> QED
    BY <1>3, <2>1, <2>2
<1>4. ASSUME NEW h \in Handler, Handle(h) PROVE SignInInv'
  BY <1>4, SignInHandleKeeps
<1>5. ASSUME NEW h \in Handler, Disable(h) PROVE SignInInv'
  <2>1. CASE conn.active = Nobody
    BY <1>5, <2>1, SignInDisableQuietKeeps
  <2>2. CASE conn.active \in Op /\ Open(conn.active)
    BY <1>5, <2>2, SignInDisableKeeps
  <2> QED
    BY <1>1, <2>1, <2>2
<1>6. ASSUME NEW h \in Handler, Delete(h) PROVE SignInInv'
  BY <1>6, SignInDeleteKeeps
<1>7. ASSUME NEW h \in Handler, NEW saved \in BOOLEAN, Close(h, saved) PROVE SignInInv'
  <2>1. CASE saved = FALSE
    BY <1>7, <2>1, SignInCloseNotKeeps
  <2>2. CASE /\ saved = TRUE /\ conn.active # Nobody /\ Open(conn.active)
             /\ op[conn.active].life = life /\ conn.exists
    <3>1. conn.active \in Op
      BY <1>1, <2>2
    <3> QED
      BY <1>7, <2>2, <3>1, SignInCloseKeeps
  <2>3. CASE /\ saved = TRUE
             /\ ~(/\ conn.active # Nobody /\ Open(conn.active)
                  /\ op[conn.active].life = life /\ conn.exists)
    BY <1>7, <2>3, SignInCloseQuietKeeps
  <2> QED
    BY <1>7, <2>1, <2>2, <2>3
<1>8. ASSUME NEW h \in Handler, NEW o \in Op, Cancel(h, o) PROVE SignInInv'
  <2>1. CASE conn.active = o
    BY <1>8, <2>1, SignInCancelKeeps
  <2>2. CASE conn.active # o
    BY <1>8, <2>2, SignInCancelOldKeeps
  <2> QED
    BY <2>1, <2>2
<1>9. ASSUME NEW h \in Handler, NEW o \in Op, LogOut(h, o) PROVE SignInInv'
  <2>1. CASE conn.active = Nobody
    BY <1>9, <2>1, SignInLogOutKeeps
  <2>2. CASE conn.active \in Op /\ Open(conn.active)
    BY <1>9, <2>2, SignInLogOutTakesOverKeeps
  <2> QED
    BY <1>1, <2>1, <2>2
<1>10. ASSUME NEW recovered \in BOOLEAN, Start(recovered) PROVE SignInInv'
  BY <1>10, SignInStartKeeps
<1> QED
  BY <1>2, <1>3, <1>4, <1>5, <1>6, <1>7, <1>8, <1>9, <1>10, SignInEnableKeeps, SignInDieKeeps,
     SignInStutterKeeps
  DEF Next

\* SignInInv holds of the initial states.
LEMMA SignInInitKeeps ==
  ASSUME SignInAssumption, Init
  PROVE  SignInInv
<1>1. TypeOK
  <2>1. Idle \in HandlerType
    BY DEF Idle, HandlerType
  <2>2. conn \in ConnectionType
    BY DEF Init, ConnectionType
  <2>3. handler \in [Handler -> HandlerType] /\ worker \in [Op -> WorkerType]
    BY <2>1 DEF Init, WorkerType
  <2>4. life \in 1 .. MaxStarts /\ breaks \in 0 .. MaxBreaks
    BY DEF Init, SignInAssumption
  <2>5. op \in [Op -> OpType \cup {Nobody}] /\ target \in [Op \cup Handler -> Op \cup {Nobody}]
    BY DEF Init
  <2> QED
    BY <2>2, <2>3, <2>4, <2>5 DEF Init, TypeOK
<1>2. /\ conn.active = Nobody /\ ~conn.present /\ ~conn.assumed
      /\ lease = Nobody /\ slot = Nobody /\ phase = Nobody
      /\ alive = "up" /\ file = FALSE
      /\ \A o \in Op : op[o] = Nobody /\ worker[o] = "none"
      /\ \A h \in Handler : handler[h].pc = "idle" /\ handler[h].kind = "none"
  BY DEF Init, Idle
<1>3. ActiveIsOpen /\ PairInv /\ SlotInv /\ DownInv /\ FileInv
  BY <1>2 DEF ActiveIsOpen, PairInv, SlotInv, DownInv, FileInv, ShownSessionExists,
         SessionHasCredential, NoSilentCredential, AssumedForAReason
<1>4. ASSUME NEW o \in Op PROVE OpInv(o)
  BY <1>2, <1>4, SignInApart
    DEF OpInv, OpAt, OpPending, OpSlot, OpPhase, OpPresent, OpFile, OpLeaves, UnderWay,
        SigningIn, LoginSteps, LeavingSteps
<1>5. ASSUME NEW h \in Handler PROVE HandlerInv(h)
  BY <1>2, <1>5
    DEF HandlerInv, HandlerAt, HandlerLease, HandlerSignsOut, HandlerSlot, HandlerNeeds,
        HandlerMarks, HandlerPresent, HandlerFile, Cleaning, Withdraws
<1> QED
  BY <1>1, <1>3, <1>4, <1>5 DEF SignInInv

\* The invariant of the sign-ins implies what the run checks of them.
LEMMA SignInInvIsSafe ==
  ASSUME SignInInv, SignInAssumption
  PROVE  SignInSafe
<1>1. SlotIsCurrent
  BY DEF SignInInv, OpInv, SlotInv, OpSlot, SlotIsCurrent
<1> QED
  BY <1>1 DEF SignInInv, FileInv, SignInSafe

\* SignInInv is an invariant: the inductive invariant of the sign-ins.
THEOREM SignInInvariant == Spec => []SignInInv
<1>1. Init => SignInInv
  BY SignInInitKeeps, SignInsAssumption
<1>2. SignInInv /\ [Next]_svars => SignInInv'
  BY SignInNextKeeps, SignInsAssumption
<1> QED
  BY <1>1, <1>2, PTL DEF Spec

(* Connection, operations, lease, slot, generation, workers and handlers keep *)
(* their types (auth.py, _codex_auth.py, codex/backend.py).                  *)
THEOREM TypeCorrect == Spec => []TypeOK
<1>1. SignInInv => TypeOK
  BY DEF SignInInv
<1> QED
  BY <1>1, SignInInvariant, PTL

(* A credential file without a session or an operation that shows it is never *)
(* left silently; a shown session has one, except after the sign-out that     *)
(* overtakes a later sign-in and where the record was written without a look  *)
(* at the file; and it is written so only for a failure or such a sign-out    *)
(* (auth.py, _codex_auth.py, service.py).                                     *)
THEOREM SignInsAreSafe == Spec => []SignInSafe
<1>1. SignInInv => SignInSafe
  BY SignInInvIsSafe, SignInsAssumption
<1> QED
  BY <1>1, SignInInvariant, PTL
=============================================================================
