---------------------- MODULE TranscriptionLedgerProofs ----------------------
(***************************************************************************)
(* Type correctness and the resend guarantees of TranscriptionLedger, what *)
(* a run publishes and what the ledger promises: every transcript that the *)
(* manifest names is proven by the ledger, and the ledger implements       *)
(* ConfirmedDelivery, for every number of processes, plans, chunks, epochs *)
(* and attempts.                                                           *)
(***************************************************************************)
EXTENDS TranscriptionLedger, TLAPS

(* Types: of the job a process holds between runs, of the initial state, of
   the chunk at hand, and of what a run leaves when it ends. *)
LEMMA IdleJobType == IdleJob \in Job
  BY LedgerAssumption DEF IdleJob, Job, Assembly, Epoch

(* The initial state is well typed. *)
LEMMA InitType == Init => TypeOK
<1> SUFFICES ASSUME Init PROVE TypeOK
  OBVIOUS
<1>1. NoEntry \in Entry
  BY LedgerAssumption DEF NoEntry, Entry, EntryStates, Epoch
<1>2. entry \in [Chunk -> Entry]
  BY <1>1 DEF Init
<1>3. published \in [Track -> Assembly]
  BY DEF Init, Assembly
<1>4. pc \in [Proc -> PC]
  BY DEF Init, PC
<1>5. job \in [Proc -> Job]
  BY IdleJobType DEF Init
<1>6. QED
  BY <1>2, <1>3, <1>4, <1>5 DEF Init, TypeOK

(* The chunk a job is at is a chunk, as long as its position is inside its plan. *)
LEMMA HereType ==
  ASSUME TypeOK, NEW p \in Proc, job[p].at \in DOMAIN ChunksOf[job[p].plan]
  PROVE  Here(p) \in Chunk /\ TrackOf[Here(p)] \in Track
<1>1. ChunksOf[job[p].plan] \in Seq(Chunk)
  BY LedgerAssumption DEF TypeOK, Job
<1>2. QED
  BY <1>1, LedgerAssumption DEF Here

(* The end of a run leaves a well typed process. *)
LEMMA LeaveType ==
  ASSUME TypeOK, NEW p \in Proc, Leave(p)
  PROVE  pc' \in [Proc -> PC] /\ job' \in [Proc -> Job] /\ lease' \in Proc \cup {Nobody}
<1>1. "idle" \in PC
  BY DEF PC
<1>2. QED
  BY <1>1, IdleJobType DEF TypeOK, Leave, Goto, With

(* Updates of single fields of a job keep its type and its other fields. *)
LEMMA JobUpdate ==
  ASSUME NEW j \in Job
  PROVE  /\ \A x \in Plan : [j EXCEPT !.plan = x] \in Job
         /\ \A x \in Epoch, r \in Retry \cup {NoRetry} :
              [j EXCEPT !.epoch = x, !.retry = r] \in Job
         /\ \A x \in BOOLEAN : [j EXCEPT !.known = x] \in Job
         /\ \A x \in [Track -> Assembly] : [j EXCEPT !.view = x] \in Job
         /\ \A n \in Nat, w, s \in BOOLEAN :
              [j EXCEPT !.attempt = n, !.was = w, !.spent = s] \in Job
         /\ \A n \in Nat, g \in Assembly :
              [j EXCEPT !.at = n, !.got = g] \in Job
  BY DEF Job

(***************************************************************************)
(* Control: who holds the lease, and where each run stands in its plan     *)
(***************************************************************************)
(* The steps of a run that hold an attempt. *)
InHand == {"dispatch", "in_flight", "failing", "replied", "saving"}

LeaseInv == \A p \in Proc : pc[p] \in Leased <=> lease = p

PositionInv ==
  \A p \in Proc :
    /\ job[p].at \in DOMAIN ChunksOf[job[p].plan]
    /\ pc[p] \in {"idle", "opened"} => job[p].at = 1
    /\ ((pc[p] \in InHand /\ job[p].was) => job[p].retry # NoRetry)

Control == TypeOK /\ LeaseInv /\ PositionInv

(* A plan has a first chunk: plans are not empty. *)
LEMMA FirstPosition ==
  ASSUME NEW pl \in Plan
  PROVE  1 \in DOMAIN ChunksOf[pl]
<1>1. ChunksOf[pl] \in Seq(Chunk) /\ ChunksOf[pl] # << >>
  BY LedgerAssumption
<1>2. QED
  BY <1>1

(* A chunk that is not the last of its plan has a successor in the plan. *)
LEMMA NextPosition ==
  ASSUME TypeOK, NEW p \in Proc, job[p].at \in DOMAIN ChunksOf[job[p].plan],
         ~LastOfPlan(p)
  PROVE  job[p].at + 1 \in DOMAIN ChunksOf[job[p].plan]
<1>1. ChunksOf[job[p].plan] \in Seq(Chunk)
  BY LedgerAssumption DEF TypeOK, Job
<1>2. QED
  BY <1>1 DEF LastOfPlan

(* The idle job stands at the first position of some plan. *)
LEMMA IdlePosition == IdleJob.plan \in Plan /\ IdleJob.at = 1
  BY LedgerAssumption DEF IdleJob

(* The control invariant holds initially. *)
LEMMA InitControl == Init => Control
<1> SUFFICES ASSUME Init PROVE Control
  OBVIOUS
<1>1. LeaseInv
  BY LedgerAssumption DEF Init, LeaseInv, Leased, PC
<1>2. PositionInv
  BY IdlePosition, FirstPosition DEF Init, PositionInv, InHand
<1>3. QED
  BY <1>1, <1>2, InitType DEF Control

(* A step of p that ends its run keeps the control invariant. *)
LEMMA LeaveControl ==
  ASSUME Control, NEW p \in Proc, Leave(p)
  PROVE  LeaseInv' /\ PositionInv'
<1>1. \A q \in Proc : q # p => pc'[q] = pc[q] /\ job'[q] = job[q]
  BY DEF Control, TypeOK, Leave, Goto, With
<1>2. pc'[p] = "idle" /\ job'[p] = IdleJob
  BY DEF Control, TypeOK, Leave, Goto, With
<1>3. LeaseInv'
  BY <1>1, <1>2, LedgerAssumption DEF Control, LeaseInv, Leave, Leased
<1>4. PositionInv'
  BY <1>1, <1>2, IdlePosition, FirstPosition DEF Control, PositionInv, InHand
<1>5. QED
  BY <1>3, <1>4

(* So does a step of the lease holder that stays within its run. *)
LEMMA MoveControl ==
  ASSUME Control, NEW p \in Proc, NEW l \in Leased, pc[p] \in Leased,
         Goto(p, l), UNCHANGED lease,
         NEW j \in Job, With(p, j), j.plan = job[p].plan,
         j.at \in DOMAIN ChunksOf[job[p].plan],
         (l \in InHand /\ j.was) => j.retry # NoRetry
  PROVE  LeaseInv' /\ PositionInv' /\ pc' \in [Proc -> PC] /\ job' \in [Proc -> Job]
<1>1. \A q \in Proc : q # p => pc'[q] = pc[q] /\ job'[q] = job[q]
  BY DEF Control, TypeOK, Goto, With
<1>2. pc'[p] = l /\ job'[p] = j
  BY DEF Control, TypeOK, Goto, With
<1>3. LeaseInv'
  BY <1>1, <1>2 DEF Control, LeaseInv
<1>4. PositionInv'
  BY <1>1, <1>2, LedgerAssumption DEF Control, PositionInv, Leased, InHand
<1>5. QED
  BY <1>3, <1>4 DEF Control, TypeOK, Goto, With, Leased

(* The steps before the plan is registered keep the control invariant. *)
LEMMA StartControl ==
  ASSUME Control, NEW p \in Proc,
         Open(p) \/ (\E pl \in Plan : Acquire(p, pl)) \/ Busy(p) \/ Stop(p)
  PROVE  Control'
<1>1. CASE Open(p)
  <2>1. [IdleJob EXCEPT !.view = published] \in Job
    BY <1>1, IdleJobType, JobUpdate DEF Control, TypeOK
  <2> DEFINE j == [IdleJob EXCEPT !.view = published]
  <2>2. j.plan \in Plan /\ j.at = 1
    BY IdlePosition DEF IdleJob
  <2> HIDE DEF j
  <2>3. pc'[p] = "opened" /\ job'[p] = j
        /\ \A q \in Proc : q # p => pc'[q] = pc[q] /\ job'[q] = job[q]
    BY <1>1 DEF Control, TypeOK, Open, Goto, With, j
  <2>4. TypeOK'
    BY <1>1, <2>1 DEF Control, TypeOK, Open, Goto, With, disk, history, PC, j
  <2>5. LeaseInv' /\ PositionInv'
    BY <1>1, <2>2, <2>3, FirstPosition DEF Control, LeaseInv, PositionInv, Open, Leased, InHand
  <2>6. QED
    BY <2>4, <2>5 DEF Control
<1>2. ASSUME NEW pl \in Plan, Acquire(p, pl)
      PROVE  Control'
  <2> DEFINE j == [job[p] EXCEPT !.plan = pl]
  <2>1. j \in Job /\ j.plan = pl /\ j.at = 1
    <3>1. job[p] \in Job /\ job[p].at = 1
      BY <1>2 DEF Control, TypeOK, PositionInv, Acquire
    <3>2. j \in Job
      BY <3>1, JobUpdate
    <3>3. QED
      BY <3>1, <3>2 DEF Job
  <2> HIDE DEF j
  <2>2. pc'[p] = "init" /\ job'[p] = j
        /\ \A q \in Proc : q # p => pc'[q] = pc[q] /\ job'[q] = job[q]
    BY <1>2 DEF Control, TypeOK, Acquire, Goto, With, j
  <2>3. TypeOK'
    BY <1>2, <2>1 DEF Control, TypeOK, Acquire, Goto, With, disk, history, PC, j
  <2>4. LeaseInv'
    BY <1>2, <2>2, LedgerAssumption DEF Control, LeaseInv, Acquire, Leased, PC
  <2>5. PositionInv'
    BY <2>1, <2>2, FirstPosition DEF Control, PositionInv, InHand
  <2>6. QED
    BY <2>3, <2>4, <2>5 DEF Control
<1>3. CASE Busy(p) \/ Stop(p)
  BY <1>3, LeaveType, LeaveControl DEF Control, TypeOK, Busy, Stop, disk, history
<1>4. QED
  BY <1>1, <1>2, <1>3

(* The steps that check and register the plan keep the control invariant. *)
LEMMA PlanControl ==
  ASSUME Control, NEW p \in Proc,
         Initialize(p) \/ StorageError(p) \/ WritePlan(p) \/ SavePlan(p)
  PROVE  Control'
<1>1. job[p] \in Job /\ job[p].plan \in Plan
      /\ job[p].at \in DOMAIN ChunksOf[job[p].plan]
  BY DEF Control, TypeOK, PositionInv, Job
<1>2. job = [job EXCEPT ![p] = job[p]]
  BY DEF Control, TypeOK
<1>3. {"preflight", "write_plan", "save_plan", "init"} \subseteq Leased
  BY DEF Leased, PC
<1>4. CASE Initialize(p)
  BY <1>1, <1>2, <1>3, <1>4, MoveControl
  DEF Control, TypeOK, Initialize, With, disk, history, InHand
<1>5. CASE StorageError(p)
  BY <1>5, LeaveType, LeaveControl DEF Control, TypeOK, StorageError, disk, history
<1>6. CASE WritePlan(p)
  BY <1>1, <1>2, <1>3, <1>6, MoveControl
  DEF Control, TypeOK, WritePlan, With, history, InHand
<1>7. CASE SavePlan(p)
  <2>1. LeaseInv' /\ PositionInv' /\ pc' \in [Proc -> PC] /\ job' \in [Proc -> Job]
    BY <1>1, <1>2, <1>3, <1>7, MoveControl DEF SavePlan, With, InHand
  <2>2. Unattempted \in Entry
    BY LedgerAssumption DEF Unattempted, Entry, EntryStates, Epoch
  <2>3. entry' \in [Chunk -> Entry]
    BY <1>7, <2>2 DEF SavePlan, Control, TypeOK
  <2>4. QED
    BY <1>1, <1>7, <2>1, <2>3 DEF Control, TypeOK, SavePlan, history
<1>8. QED
  BY <1>4, <1>5, <1>6, <1>7

(* Preflight, with or without success, keeps the control invariant. *)
LEMMA CheckControl ==
  ASSUME Control, NEW p \in Proc,
         \/ \E e \in Epoch, r \in Retry \cup {NoRetry} :
              Preflight(p, e, r) \/ PreflightRefuses(p, e, r)
         \/ AttemptRefused(p)
  PROVE  Control'
<1>1. job[p] \in Job /\ job[p].plan \in Plan
      /\ job[p].at \in DOMAIN ChunksOf[job[p].plan]
  BY DEF Control, TypeOK, PositionInv, Job
<1>2. ASSUME NEW e \in Epoch, NEW r \in Retry \cup {NoRetry}, Preflight(p, e, r)
      PROVE  Control'
  <2> DEFINE j == [job[p] EXCEPT !.epoch = e, !.retry = r]
  <2>1. j \in Job /\ j.plan = job[p].plan /\ j.at = job[p].at
    <3>1. j \in Job
      BY <1>1, JobUpdate
    <3> QED
      BY <1>1, <3>1 DEF Job
  <2> HIDE DEF j
  <2>2. "chunk" \in Leased /\ pc[p] \in Leased
    BY <1>2 DEF Leased, PC, Preflight
  <2>3. QED
    BY <1>1, <1>2, <2>1, <2>2, MoveControl
    DEF Control, TypeOK, Preflight, disk, history, j, InHand
<1>3. ASSUME NEW e \in Epoch, NEW r \in Retry \cup {NoRetry},
             PreflightRefuses(p, e, r)
      PROVE  Control'
  BY <1>3, LeaveType, LeaveControl DEF Control, TypeOK, PreflightRefuses, disk, history
<1>4. CASE AttemptRefused(p)
  BY <1>4, LeaveType, LeaveControl DEF Control, TypeOK, AttemptRefused, disk, history
<1>5. QED
  BY <1>2, <1>3, <1>4

(* A chunk that joins its track moves the run on inside its plan. *)
LEMMA AssembleControl ==
  ASSUME Control, NEW p \in Proc, pc[p] \in Leased, NEW n \in Nat, Assemble(p, n),
         UNCHANGED lease
  PROVE  LeaseInv' /\ PositionInv' /\ pc' \in [Proc -> PC] /\ job' \in [Proc -> Job]
<1>1. job[p] \in Job /\ job[p].plan \in Plan
      /\ job[p].at \in DOMAIN ChunksOf[job[p].plan]
  BY DEF Control, TypeOK, PositionInv, Job
<1> DEFINE g == job[p].got \cup {<<Here(p), n>>}
           j == [job[p] EXCEPT !.got = g]
           k == [j EXCEPT !.at = job[p].at + 1]
<1>2. g \in Assembly
  BY <1>1, HereType DEF Control, Assembly, Job
<1>3. j \in Job /\ j.plan = job[p].plan /\ j.at = job[p].at
  BY <1>1, <1>2 DEF Job
<1> HIDE DEF j
<1>4. k \in Job /\ k.plan = job[p].plan /\ k.at = job[p].at + 1
  BY <1>1, <1>3 DEF Job
<1>5. {"publish", "chunk"} \subseteq Leased
  BY DEF Leased, PC
<1>6. \/ Goto(p, "publish") /\ With(p, j)
      \/ ~LastOfPlan(p) /\ Goto(p, "chunk") /\ With(p, k)
  BY <1>3 DEF Assemble, LastOfTrack, j
<1> HIDE DEF k
<1>7. QED
  BY <1>1, <1>3, <1>4, <1>5, <1>6, MoveControl, NextPosition DEF Control, InHand

(* Noting whether a failure is certain changes nothing else of a job. *)
LEMMA KnownUpdate ==
  ASSUME NEW j \in Job, NEW known \in BOOLEAN
  PROVE  /\ [j EXCEPT !.known = known] \in Job
         /\ [j EXCEPT !.known = known].plan = j.plan
         /\ [j EXCEPT !.known = known].at = j.at
         /\ [j EXCEPT !.known = known].was = j.was
         /\ [j EXCEPT !.known = known].retry = j.retry
         /\ [j EXCEPT !.known = known].epoch = j.epoch
         /\ [j EXCEPT !.known = known].attempt = j.attempt
         /\ [j EXCEPT !.known = known].known = known
  BY DEF Job

(* The steps around the upload keep the control invariant. *)
LEMMA SendControl ==
  ASSUME Control, NEW p \in Proc,
         \/ SendAudio(p) \/ LoseOutcome(p) \/ Reply(p)
         \/ \E known \in BOOLEAN : FailBeforeSend(p, known) \/ Refuse(p, known)
  PROVE  Control'
<1>1. job[p] \in Job /\ job[p].plan \in Plan
      /\ job[p].at \in DOMAIN ChunksOf[job[p].plan]
      /\ job[p].attempt \in Nat
  BY DEF Control, TypeOK, PositionInv, Job
<1>2. job = [job EXCEPT ![p] = job[p]]
  BY DEF Control, TypeOK
<1>3. {"in_flight", "failing", "replied", "dispatch"} \subseteq Leased
  BY DEF Leased, PC
<1>4. pc[p] \in InHand /\ (job[p].was => job[p].retry # NoRetry)
  BY DEF Control, PositionInv, InHand, SendAudio, LoseOutcome, Reply,
         FailBeforeSend, Refuse
<1>5. CASE SendAudio(p)
  <2> DEFINE u == [chunk |-> Here(p), attempt |-> job[p].attempt,
                   epoch |-> job[p].epoch,
                   proof |-> IF job[p].was THEN job[p].retry.blocked ELSE NoProof]
  <2>1. LeaseInv' /\ PositionInv' /\ pc' \in [Proc -> PC] /\ job' \in [Proc -> Job]
    BY <1>1, <1>2, <1>3, <1>4, <1>5, MoveControl DEF SendAudio, With, InHand
  <2>2. job[p].was => job[p].retry.blocked \in Epoch
    BY <1>1, <1>4 DEF Retry, Job
  <2>3. u \in Upload
    BY <1>1, <2>2, HereType DEF Control, Upload, Job
  <2>4. QED
    BY <1>5, <2>1, <2>3 DEF Control, TypeOK, SendAudio, disk
<1>6. CASE Reply(p)
  <2>1. LeaseInv' /\ PositionInv' /\ pc' \in [Proc -> PC] /\ job' \in [Proc -> Job]
    BY <1>1, <1>2, <1>3, <1>4, <1>6, MoveControl DEF Reply, With
  <2>2. QED
    BY <1>6, <2>1 DEF Control, TypeOK, Reply, disk, history
<1>7. ASSUME NEW known \in BOOLEAN,
             Goto(p, "failing"), With(p, [job[p] EXCEPT !.known = known]),
             UNCHANGED lease
      PROVE  LeaseInv' /\ PositionInv' /\ pc' \in [Proc -> PC] /\ job' \in [Proc -> Job]
  <2> DEFINE j == [job[p] EXCEPT !.known = known]
  <2>1. j \in Job /\ j.plan = job[p].plan /\ j.at = job[p].at
        /\ j.was = job[p].was /\ j.retry = job[p].retry
    BY <1>1, KnownUpdate
  <2>2. With(p, j)
    BY <1>7
  <2> HIDE DEF j
  <2>3. pc[p] \in Leased
    BY <1>4 DEF InHand, Leased, PC
  <2>4. QED
    BY <1>1, <1>3, <1>4, <1>7, <2>1, <2>2, <2>3, MoveControl
<1>8. CASE LoseOutcome(p)
  BY <1>7, <1>8 DEF Control, TypeOK, LoseOutcome, disk, history
<1>9. ASSUME NEW known \in BOOLEAN, FailBeforeSend(p, known)
      PROVE  Control'
  BY <1>7, <1>9 DEF Control, TypeOK, FailBeforeSend, disk, history
<1>10. ASSUME NEW known \in BOOLEAN, Refuse(p, known)
       PROVE  Control'
  BY <1>1, <1>7, <1>10 DEF Control, TypeOK, Refuse, disk
<1>11. QED
  BY <1>5, <1>6, <1>8, <1>9, <1>10

(* Noting the attempt in hand keeps a job's type, plan and position. *)
LEMMA AttemptUpdate ==
  ASSUME NEW j \in Job, NEW n \in Nat, NEW w \in BOOLEAN, NEW z \in BOOLEAN
  PROVE  /\ [j EXCEPT !.attempt = n, !.was = w, !.spent = z] \in Job
         /\ [j EXCEPT !.attempt = n, !.was = w, !.spent = z].plan = j.plan
         /\ [j EXCEPT !.attempt = n, !.was = w, !.spent = z].at = j.at
         /\ [j EXCEPT !.attempt = n, !.was = w, !.spent = z].retry = j.retry
         /\ [j EXCEPT !.attempt = n, !.was = w, !.spent = z].epoch = j.epoch
         /\ [j EXCEPT !.attempt = n, !.was = w, !.spent = z].was = w
         /\ [j EXCEPT !.attempt = n, !.was = w, !.spent = z].attempt = n
  BY DEF Job

(* The pending receipt keeps the control invariant. *)
LEMMA BeginControl ==
  ASSUME Control, NEW p \in Proc, BeginAttempt(p)
  PROVE  Control'
<1> DEFINE w == InDoubt(Here(p))
           n == attempts + 1
           z == job[p].spent \/ w
           j == [job[p] EXCEPT !.attempt = n, !.was = w, !.spent = z]
<1>1. job[p] \in Job /\ job[p].at \in DOMAIN ChunksOf[job[p].plan] /\ n \in Nat
  BY DEF Control, TypeOK, PositionInv
<1>2. w \in BOOLEAN /\ z \in BOOLEAN
  BY DEF InDoubt
<1>3. w => job[p].retry # NoRetry
  BY DEF BeginAttempt, MayAttempt
<1>4. Goto(p, "dispatch") /\ With(p, j)
  BY DEF BeginAttempt
<1>5. entry' = [entry EXCEPT ![Here(p)] = [state |-> "pending", attempt |-> n,
                                           epoch |-> job[p].epoch, was |-> w]]
  BY DEF BeginAttempt
<1> HIDE DEF w, n, z
<1>6. j \in Job /\ j.plan = job[p].plan /\ j.at = job[p].at
      /\ j.retry = job[p].retry /\ j.was = w
  BY <1>1, <1>2 DEF Job
<1> HIDE DEF j
<1>7. "dispatch" \in Leased /\ pc[p] \in Leased
  BY DEF BeginAttempt, Leased, PC
<1>8. UNCHANGED lease
  BY DEF BeginAttempt
<1>9. LeaseInv' /\ PositionInv' /\ pc' \in [Proc -> PC] /\ job' \in [Proc -> Job]
  BY <1>1, <1>3, <1>4, <1>6, <1>7, <1>8, MoveControl DEF InHand
<1>10. [state |-> "pending", attempt |-> n, epoch |-> job[p].epoch, was |-> w] \in Entry
  BY <1>1, <1>2 DEF Entry, EntryStates, UnknownStates, Job
<1>11. entry' \in [Chunk -> Entry]
  BY <1>5, <1>10 DEF Control, TypeOK
<1>12. QED
  BY <1>1, <1>9, <1>11 DEF Control, TypeOK, BeginAttempt, n

(* A new state of one entry keeps the entries' types and all other entries. *)
LEMMA StateUpdate ==
  ASSUME NEW f \in [Chunk -> Entry], NEW c \in Chunk, NEW s \in EntryStates
  PROVE  /\ [f EXCEPT ![c].state = s] \in [Chunk -> Entry]
         /\ [f EXCEPT ![c].state = s][c].state = s
         /\ [f EXCEPT ![c].state = s][c].attempt = f[c].attempt
         /\ [f EXCEPT ![c].state = s][c].epoch = f[c].epoch
         /\ [f EXCEPT ![c].state = s][c].was = f[c].was
         /\ \A d \in Chunk : d # c => [f EXCEPT ![c].state = s][d] = f[d]
  BY DEF Entry

(* So do the steps that save the outcome of an attempt. *)
LEMMA OutcomeControl ==
  ASSUME Control, NEW p \in Proc,
         RecordFailure(p) \/ SaveResult(p) \/ RecordSuccess(p) \/ Reuse(p)
  PROVE  Control'
<1>1. job[p] \in Job /\ job[p].plan \in Plan
      /\ job[p].at \in DOMAIN ChunksOf[job[p].plan]
      /\ job[p].attempt \in Nat
      /\ Here(p) \in Chunk
  BY HereType DEF Control, TypeOK, PositionInv, Job
<1>2. job = [job EXCEPT ![p] = job[p]]
  BY DEF Control, TypeOK
<1>3. CASE RecordFailure(p)
  <2>1. FailedState(p) \in EntryStates
    BY DEF FailedState, EntryStates, UnknownStates
  <2>2. entry' \in [Chunk -> Entry]
    BY <1>1, <1>3, <2>1, StateUpdate DEF RecordFailure, Control, TypeOK
  <2>3. QED
    BY <1>3, <2>2, LeaveType, LeaveControl DEF RecordFailure, Control, TypeOK, history
<1>4. CASE SaveResult(p)
  <2>1. CASE StillPending(p)
    <3>1. "saving" \in Leased /\ pc[p] \in Leased
      BY <1>4 DEF SaveResult, Leased, PC
    <3>2. job[p].was => job[p].retry # NoRetry
      BY <1>4 DEF SaveResult, Control, PositionInv, InHand
    <3>3. UNCHANGED lease /\ With(p, job[p]) /\ Goto(p, "saving")
      BY <1>2, <1>4, <2>1 DEF SaveResult, With
    <3>4. LeaseInv' /\ PositionInv' /\ pc' \in [Proc -> PC] /\ job' \in [Proc -> Job]
      BY <1>1, <3>1, <3>2, <3>3, MoveControl
    <3>5. QED
      BY <1>1, <1>4, <2>1, <3>4 DEF SaveResult, Control, TypeOK, history
  <2>2. CASE ~StillPending(p)
    BY <1>4, <2>2, LeaveType, LeaveControl DEF SaveResult, Control, TypeOK, history
  <2>3. QED
    BY <2>1, <2>2
<1>5. CASE RecordSuccess(p)
  <2>1. "succeeded" \in EntryStates
    BY DEF EntryStates
  <2>2. entry' \in [Chunk -> Entry]
    BY <1>1, <1>5, <2>1, StateUpdate DEF RecordSuccess, Control, TypeOK
  <2>3. pc[p] \in Leased /\ UNCHANGED lease /\ Assemble(p, job[p].attempt)
    BY <1>5 DEF RecordSuccess, Leased, PC
  <2>4. QED
    BY <1>1, <1>5, <2>2, <2>3, AssembleControl DEF RecordSuccess, Control, TypeOK, history
<1>6. CASE Reuse(p)
  <2>1. entry[Here(p)].attempt \in Nat
    BY <1>1 DEF Control, TypeOK, Entry
  <2>2. pc[p] \in Leased /\ UNCHANGED lease /\ Assemble(p, entry[Here(p)].attempt)
    BY <1>6 DEF Reuse, Leased, PC
  <2>3. QED
    BY <1>6, <2>1, <2>2, AssembleControl DEF Reuse, Control, TypeOK, disk, history
<1>7. QED
  BY <1>3, <1>4, <1>5, <1>6

(* And the publication of a track. *)
LEMMA PublishControl ==
  ASSUME Control, NEW p \in Proc, WriteTranscript(p) \/ RegisterTranscript(p)
  PROVE  Control'
<1>1. job[p] \in Job /\ job[p].plan \in Plan
      /\ job[p].at \in DOMAIN ChunksOf[job[p].plan]
      /\ job[p].got \in Assembly /\ job[p].view \in [Track -> Assembly]
      /\ job[p].at \in Nat
      /\ TrackOf[Here(p)] \in Track
  BY HereType DEF Control, TypeOK, PositionInv, Job
<1>2. job = [job EXCEPT ![p] = job[p]]
  BY DEF Control, TypeOK
<1>3. CASE WriteTranscript(p)
  <2>1. "register" \in Leased /\ pc[p] \in Leased
    BY <1>3 DEF WriteTranscript, Leased, PC
  <2>2. LeaseInv' /\ PositionInv' /\ pc' \in [Proc -> PC] /\ job' \in [Proc -> Job]
    BY <1>1, <1>2, <1>3, <2>1, MoveControl DEF WriteTranscript, With, InHand
  <2>3. QED
    BY <1>1, <1>3, <2>2 DEF WriteTranscript, Control, TypeOK, history
<1>4. CASE RegisterTranscript(p)
  <2> DEFINE view == [job[p].view EXCEPT ![TrackOf[Here(p)]] = job[p].got]
             m == job[p].at + 1
             j == [job[p] EXCEPT !.at = m, !.got = {}, !.view = view]
  <2>1. view \in [Track -> Assembly]
    BY <1>1
  <2>2. published' \in [Track -> Assembly]
    BY <1>4, <2>1 DEF RegisterTranscript, Control, TypeOK
  <2>3. {} \in Assembly /\ m \in Nat
    BY <1>1 DEF Assembly
  <2>4. CASE LastOfPlan(p)
    BY <1>4, <2>2, <2>4, LeaveType, LeaveControl
    DEF RegisterTranscript, Control, TypeOK, history
  <2>5. CASE ~LastOfPlan(p)
    <3>1. With(p, j) /\ Goto(p, "chunk") /\ UNCHANGED lease
      BY <1>4, <2>5 DEF RegisterTranscript
    <3>2. m \in DOMAIN ChunksOf[job[p].plan]
      BY <1>1, <2>5, NextPosition DEF Control
    <3> HIDE DEF view, m
    <3>3. j \in Job /\ j.plan = job[p].plan /\ j.at = m
      BY <1>1, <2>1, <2>3 DEF Job
    <3> HIDE DEF j
    <3>4. "chunk" \in Leased /\ pc[p] \in Leased /\ "chunk" \notin InHand
      BY <1>4 DEF RegisterTranscript, Leased, PC, InHand
    <3>5. LeaseInv' /\ PositionInv' /\ pc' \in [Proc -> PC] /\ job' \in [Proc -> Job]
      BY <1>1, <3>1, <3>2, <3>3, <3>4, MoveControl
    <3>6. QED
      BY <1>4, <2>2, <3>1, <3>5 DEF RegisterTranscript, Control, TypeOK, history
  <2>6. QED
    BY <2>4, <2>5
<1>5. QED
  BY <1>3, <1>4

(* Every step keeps the control invariant. *)
LEMMA NextControl == Control /\ [Next]_vars => Control'
<1> SUFFICES ASSUME Control, [Next]_vars PROVE Control'
  OBVIOUS
<1>1. CASE UNCHANGED vars
  BY <1>1 DEF Control, TypeOK, LeaseInv, PositionInv, LastOfPlan, vars, disk, history
<1>2. ASSUME NEW p \in Proc, Open(p) \/ Step(p) \/ Stop(p)
      PROVE  Control'
  BY <1>2, StartControl, PlanControl, CheckControl, SendControl, BeginControl,
     OutcomeControl, PublishControl DEF Step
<1>3. QED
  BY <1>1, <1>2 DEF Next

(* Every reachable state is well typed, the lease names the only run between
   transcription_execution_lock and its release, and each run that is past the
   registration of its plan stands at a chunk of that plan (run_api_transcribe). *)
THEOREM ControlInvariant == Spec => []Control
<1>1. Init => Control
  BY InitControl
<1>2. Control /\ [Next]_vars => Control'
  BY NextControl
<1>3. QED
  BY <1>1, <1>2, PTL DEF Spec

(* Every reachable state is well typed. *)
THEOREM TypeCorrect == Spec => []TypeOK
  BY ControlInvariant, PTL DEF Control

(* However many processes share the meeting directory, at most one of them is
   between taking the execution lease and giving it back
   (transcription_execution_lock). *)
THEOREM LeaseIsExclusive == Spec => []LeaseExclusive
<1>1. Control => LeaseExclusive
  BY DEF Control, LeaseInv, LeaseExclusive
<1>2. QED
  BY <1>1, ControlInvariant, PTL

(***************************************************************************)
(* Data: what the receipt on disk says of the uploads made so far.  An     *)
(* upload counts when it may have been accepted, or when a confirmation    *)
(* paid for it (its chunk stays in doubt whatever the answer was).         *)
(***************************************************************************)
Counts(u) == u.attempt \notin refused \/ u.proof # NoProof
InDoubtOrDone == UnknownStates \cup {"succeeded"}

(* The attempt in hand is the receipt on disk, and what it resends was
   confirmed under an older epoch. *)
ReceiptInv ==
  \A p \in Proc : pc[p] \in InHand =>
    /\ StillPending(p)
    /\ job[p].was => job[p].retry.blocked < job[p].epoch

(* What is known of the uploads of the chunk in hand, step by step. *)
PhaseInv ==
  \A p \in Proc : \A u \in uploads : (pc[p] \in InHand /\ u.chunk = Here(p)) =>
    /\ pc[p] = "dispatch" =>
         /\ u.attempt < job[p].attempt
         /\ Counts(u) => (job[p].was /\ u.epoch <= job[p].retry.blocked)
    /\ (pc[p] = "in_flight" /\ ~job[p].was /\ Counts(u)) =>
         (u.attempt = job[p].attempt /\ u.proof = NoProof)
    /\ (pc[p] = "failing" /\ ~job[p].was /\ job[p].known) => ~Counts(u)

SavingInv ==
  \A p \in Proc : pc[p] = "saving" => <<Here(p), job[p].attempt>> \in resultFiles

UploadInv ==
  \A u \in uploads :
    /\ u.attempt <= attempts
    /\ u.proof # NoProof => u.proof < u.epoch
    /\ Counts(u) => /\ entry[u.chunk].state \in InDoubtOrDone
                    /\ u.epoch <= entry[u.chunk].epoch

AttemptsInv == \A p \in Proc : pc[p] \in InHand => job[p].attempt <= attempts

Data == /\ ReceiptInv /\ AttemptsInv /\ PhaseInv /\ SavingInv /\ UploadInv
        /\ SuccessHasResult /\ ResendIsConfirmed /\ ConfirmationSpentOnce

(* The data invariant holds initially. *)
LEMMA InitData == Init => Data
  BY DEF Init, Data, ReceiptInv, AttemptsInv, PhaseInv, SavingInv, UploadInv, SuccessHasResult,
         ResendIsConfirmed, ConfirmationSpentOnce, InHand, Succeeded, NoEntry

(* While p holds the lease no other run has an attempt in hand. *)
LEMMA Alone ==
  ASSUME Control, NEW p \in Proc, pc[p] \in Leased
  PROVE  \A q \in Proc : q # p => pc[q] \notin InHand
  BY DEF Control, LeaseInv, InHand, Leased, PC

(* A step that touches neither the entries nor the uploads and takes no
   attempt in hand keeps the data invariant. *)
LEMMA QuietData ==
  ASSUME Control, Data, UNCHANGED <<entry, resultFiles, attempts, uploads, refused>>,
         \A q \in Proc : pc'[q] \in InHand => pc'[q] = pc[q] /\ job'[q] = job[q]
  PROVE  Data'
<1>1. ReceiptInv' /\ AttemptsInv'
  <2>1. ASSUME NEW p \in Proc, pc'[p] \in InHand
        PROVE  StillPending(p)' /\ (job[p].was => job[p].retry.blocked < job[p].epoch)'
    <3>1. pc'[p] = pc[p] /\ job'[p] = job[p]
      BY <2>1
    <3> QED
      BY <2>1, <3>1 DEF Data, ReceiptInv, StillPending, Here
  <2>2. AttemptsInv'
    BY DEF Data, AttemptsInv
  <2> QED
    BY <2>1, <2>2 DEF ReceiptInv
<1>2. PhaseInv'
  <2> SUFFICES ASSUME NEW p \in Proc, NEW u \in uploads,
                      pc'[p] \in InHand, u.chunk = Here(p)'
               PROVE  (/\ pc[p] = "dispatch" =>
                            /\ u.attempt < job[p].attempt
                            /\ Counts(u) => (job[p].was /\ u.epoch <= job[p].retry.blocked)
                       /\ (pc[p] = "in_flight" /\ ~job[p].was /\ Counts(u)) =>
                            (u.attempt = job[p].attempt /\ u.proof = NoProof)
                       /\ (pc[p] = "failing" /\ ~job[p].was /\ job[p].known) => ~Counts(u))'
    BY DEF PhaseInv
  <2>1. pc'[p] = pc[p] /\ job'[p] = job[p]
    OBVIOUS
  <2>2. u.chunk = Here(p)
    BY <2>1 DEF Here
  <2>3. QED
    BY <2>1, <2>2 DEF Data, PhaseInv, Counts
<1>3. SavingInv'
  <2> SUFFICES ASSUME NEW p \in Proc, pc'[p] = "saving"
               PROVE  <<Here(p), job[p].attempt>>' \in resultFiles
    BY DEF SavingInv
  <2>1. pc'[p] = pc[p] /\ job'[p] = job[p]
    BY DEF InHand
  <2>2. QED
    BY <2>1 DEF Data, SavingInv, Here
<1>4. UploadInv' /\ SuccessHasResult' /\ ResendIsConfirmed' /\ ConfirmationSpentOnce'
  BY DEF Data, UploadInv, SuccessHasResult, ResendIsConfirmed, ConfirmationSpentOnce,
         Counts, Succeeded, Saved
<1>5. QED
  BY <1>1, <1>2, <1>3, <1>4 DEF Data

(* A run that ends takes no attempt in hand. *)
LEMMA LeaveMoves ==
  ASSUME Control, NEW p \in Proc, Leave(p)
  PROVE  \A q \in Proc : pc'[q] \in InHand => pc'[q] = pc[q] /\ job'[q] = job[q]
<1>1. \A q \in Proc : q # p => pc'[q] = pc[q] /\ job'[q] = job[q]
  BY DEF Control, TypeOK, Leave, Goto, With
<1>2. pc'[p] \notin InHand
  BY DEF Control, TypeOK, Leave, Goto, InHand
<1>3. QED
  BY <1>1, <1>2

(* A step of p leaves the attempts of the other processes alone. *)
LEMMA OtherMoves ==
  ASSUME Control, NEW p \in Proc, NEW l, Goto(p, l), l \notin InHand,
         NEW j, With(p, j)
  PROVE  \A q \in Proc : pc'[q] \in InHand => pc'[q] = pc[q] /\ job'[q] = job[q]
<1>1. \A q \in Proc : q # p => pc'[q] = pc[q] /\ job'[q] = job[q]
  BY DEF Control, TypeOK, Goto, With
<1>2. pc'[p] \notin InHand
  BY DEF Control, TypeOK, Goto
<1>3. QED
  BY <1>1, <1>2

(* The steps without an attempt keep the data invariant. *)
LEMMA QuietSteps ==
  ASSUME Control, Data, NEW p \in Proc,
         \/ Open(p) \/ Busy(p) \/ Stop(p) \/ StorageError(p) \/ AttemptRefused(p)
         \/ \E pl \in Plan : Acquire(p, pl)
         \/ \E e \in Epoch, r \in Retry \cup {NoRetry} :
              Preflight(p, e, r) \/ PreflightRefuses(p, e, r)
         \/ Initialize(p) \/ WritePlan(p)
         \/ Reuse(p) \/ WriteTranscript(p) \/ RegisterTranscript(p)
  PROVE  Data'
<1>1. UNCHANGED <<entry, resultFiles, attempts, uploads, refused>>
  BY DEF Open, Busy, Stop, StorageError, AttemptRefused, Acquire, Preflight,
         PreflightRefuses, Initialize, WritePlan, Reuse, WriteTranscript,
         RegisterTranscript, disk, history
<1>2. \A q \in Proc : pc'[q] \in InHand => pc'[q] = pc[q] /\ job'[q] = job[q]
  <2>1. CASE \/ Busy(p) \/ Stop(p) \/ StorageError(p) \/ AttemptRefused(p)
             \/ \E e \in Epoch, r \in Retry \cup {NoRetry} : PreflightRefuses(p, e, r)
    BY <2>1, LeaveMoves DEF Busy, Stop, StorageError, AttemptRefused, PreflightRefuses
  <2>2. CASE Open(p)
    BY <2>2, OtherMoves DEF Open, InHand
  <2>3. CASE \E pl \in Plan : Acquire(p, pl)
    BY <2>3, OtherMoves DEF Acquire, InHand
  <2>4. CASE \E e \in Epoch, r \in Retry \cup {NoRetry} : Preflight(p, e, r)
    BY <2>4, OtherMoves DEF Preflight, InHand
  <2>5. CASE Initialize(p) \/ WritePlan(p) \/ WriteTranscript(p)
    <3>1. job = [job EXCEPT ![p] = job[p]]
      BY DEF Control, TypeOK
    <3>2. With(p, job[p])
      BY <2>5, <3>1 DEF Initialize, WritePlan, WriteTranscript, With
    <3>3. QED
      BY <2>5, <3>2, OtherMoves DEF Initialize, WritePlan, WriteTranscript, InHand
  <2>6. CASE Reuse(p)
    BY <2>6, OtherMoves DEF Reuse, Assemble, InHand
  <2>7. CASE RegisterTranscript(p)
    BY <2>7, OtherMoves, LeaveMoves DEF RegisterTranscript, InHand
  <2>8. QED
    BY <2>1, <2>2, <2>3, <2>4, <2>5, <2>6, <2>7
<1>3. QED
  BY <1>1, <1>2, QuietData

(* A step of the lease holder: only it can have an attempt in hand after. *)
LEMMA HolderMoves ==
  ASSUME Control, NEW p \in Proc, pc[p] \in Leased, NEW l, Goto(p, l)
  PROVE  pc'[p] = l /\ \A q \in Proc : pc'[q] \in InHand => q = p
<1>1. pc'[p] = l /\ \A q \in Proc : q # p => pc'[q] = pc[q]
  BY DEF Control, TypeOK, Goto
<1>2. QED
  BY <1>1, Alone

(* Registering a plan adds entries of chunks that were never uploaded. *)
LEMMA SavePlanData ==
  ASSUME Control, Data, NEW p \in Proc, SavePlan(p)
  PROVE  Data'
<1>1. pc[p] \in Leased /\ Goto(p, "preflight")
  BY DEF SavePlan, Leased, PC
<1>2. \A q \in Proc : pc'[q] \notin InHand
  BY <1>1, HolderMoves DEF InHand
<1>3. ReceiptInv' /\ AttemptsInv' /\ PhaseInv' /\ SavingInv'
  BY <1>2 DEF ReceiptInv, AttemptsInv, PhaseInv, SavingInv, InHand
<1>4. \A c \in Chunk :
        entry'[c] = entry[c] \/ (entry[c].state = "absent" /\ entry'[c] = Unattempted)
  BY DEF SavePlan
<1>5. UNCHANGED <<resultFiles, attempts, uploads, refused>>
  BY DEF SavePlan, history
<1>6. UploadInv'
  <2> SUFFICES ASSUME NEW u \in uploads, Counts(u)
               PROVE  /\ entry'[u.chunk].state \in InDoubtOrDone
                      /\ u.epoch <= entry'[u.chunk].epoch
    BY <1>5 DEF Data, UploadInv, Counts
  <2>1. entry[u.chunk].state \in InDoubtOrDone /\ u.epoch <= entry[u.chunk].epoch
    BY DEF Data, UploadInv
  <2>2. u.chunk \in Chunk
    BY DEF Control, TypeOK, Upload
  <2>3. QED
    BY <1>4, <2>1, <2>2 DEF InDoubtOrDone, UnknownStates
<1>7. SuccessHasResult'
  BY <1>4, <1>5 DEF Data, SuccessHasResult, Succeeded, Saved, Unattempted
<1>8. ResendIsConfirmed' /\ ConfirmationSpentOnce'
  BY <1>5 DEF Data, ResendIsConfirmed, ConfirmationSpentOnce
<1>9. QED
  BY <1>3, <1>6, <1>7, <1>8 DEF Data

(* The receipt of a new attempt: every upload of the chunk that counts left it
   in doubt, so the attempt was confirmed under a newer epoch. *)
LEMMA BeginData ==
  ASSUME Control, Data, NEW p \in Proc, BeginAttempt(p)
  PROVE  Data'
<1> DEFINE c == Here(p)
           w == InDoubt(c)
           n == attempts + 1
           z == job[p].spent \/ w
           j == [job[p] EXCEPT !.attempt = n, !.was = w, !.spent = z]
           new == [state |-> "pending", attempt |-> n, epoch |-> job[p].epoch, was |-> w]
<1>1. job[p] \in Job /\ job[p].epoch \in Nat /\ c \in Chunk /\ n \in Nat /\ attempts \in Nat
  BY HereType, LedgerAssumption DEF Control, TypeOK, PositionInv, Job, Epoch
<1>2. w \in BOOLEAN /\ z \in BOOLEAN
  BY DEF InDoubt
<1>3. With(p, j) /\ Goto(p, "dispatch") /\ pc[p] \in Leased
  BY DEF BeginAttempt, Leased, PC
<1>4. entry' = [entry EXCEPT ![c] = new] /\ attempts' = n
  BY DEF BeginAttempt
<1>5. UNCHANGED <<resultFiles, uploads, refused>>
  BY DEF BeginAttempt
<1>6. entry[c].state # "succeeded"
  BY DEF BeginAttempt, Succeeded
<1>7. w => job[p].retry \in Retry /\ job[p].retry.blocked = entry[c].epoch
           /\ entry[c].epoch < job[p].epoch
  <2>1. w => job[p].retry # NoRetry /\ ~job[p].spent /\ job[p].retry.chunk = c
    BY DEF BeginAttempt, MayAttempt
  <2>2. w => VerifyRetry(job[p].plan, job[p].epoch, job[p].retry)
    BY <2>1 DEF BeginAttempt, MayAttempt
  <2>3. entry[c].epoch \in Nat
    BY <1>1, LedgerAssumption DEF Control, TypeOK, Entry, Epoch
  <2>4. QED
    BY <1>1, <2>1, <2>2, <2>3 DEF VerifyRetry, Job
<1>8. \A u \in uploads : u.attempt <= attempts /\ u.attempt \in Nat /\ u.chunk \in Chunk
                         /\ u.epoch \in Nat
  BY LedgerAssumption DEF Data, UploadInv, Control, TypeOK, Upload, Epoch
<1>9. \A u \in uploads : (u.chunk = c /\ Counts(u)) => (w /\ u.epoch <= entry[c].epoch)
  BY <1>6 DEF Data, UploadInv, InDoubtOrDone, InDoubt
<1> HIDE DEF c, w, n, z
<1>10. j.plan = job[p].plan /\ j.at = job[p].at /\ j.retry = job[p].retry
       /\ j.was = w /\ j.attempt = n /\ j.epoch = job[p].epoch
  BY <1>1, <1>2 DEF Job
<1> HIDE DEF j
<1>11. pc'[p] = "dispatch" /\ job'[p] = j /\ \A q \in Proc : pc'[q] \in InHand => q = p
  BY <1>3, HolderMoves DEF Control, TypeOK, With
<1>12. Here(p)' = c
  BY <1>10, <1>11 DEF Here, c
<1>13. entry'[c] = new /\ \A d \in Chunk : d # c => entry'[d] = entry[d]
  BY <1>1, <1>4 DEF Control, TypeOK
<1>14. new.state = "pending" /\ new.attempt = n /\ new.epoch = job[p].epoch /\ new.was = w
  OBVIOUS
<1> HIDE DEF new
<1>15. AttemptsInv'
  BY <1>1, <1>4, <1>10, <1>11 DEF AttemptsInv
<1>22. ReceiptInv'
  BY <1>7, <1>10, <1>11, <1>12, <1>13, <1>14 DEF ReceiptInv, StillPending
<1>16. PhaseInv'
  <2> SUFFICES ASSUME NEW u \in uploads, u.chunk = c
               PROVE  /\ u.attempt < n
                      /\ Counts(u) => (w /\ u.epoch <= job[p].retry.blocked)
    BY <1>5, <1>10, <1>11, <1>12 DEF PhaseInv, Counts
  <2>1. u.attempt < n
    BY <1>1, <1>8 DEF n
  <2>2. QED
    BY <1>7, <1>9, <2>1
<1>17. SavingInv'
  BY <1>11 DEF SavingInv, InHand
<1>18. UploadInv'
  <2> SUFFICES ASSUME NEW u \in uploads
               PROVE  /\ u.attempt <= n
                      /\ u.proof # NoProof => u.proof < u.epoch
                      /\ Counts(u) => /\ entry'[u.chunk].state \in InDoubtOrDone
                                      /\ u.epoch <= entry'[u.chunk].epoch
    BY <1>4, <1>5 DEF UploadInv, Counts
  <2>1. u.attempt <= n
    BY <1>1, <1>8 DEF n
  <2>2. CASE u.chunk # c
    BY <1>8, <1>13, <2>1, <2>2 DEF Data, UploadInv
  <2>3. CASE u.chunk = c
    <3>1. Counts(u) => u.epoch <= job[p].epoch
      <4>1. entry[c].epoch \in Nat
        BY <1>1, LedgerAssumption DEF Control, TypeOK, Entry, Epoch
      <4>2. QED
        BY <1>1, <1>7, <1>8, <1>9, <2>3, <4>1
    <3>2. QED
      BY <1>13, <1>14, <2>1, <2>3, <3>1
      DEF Data, UploadInv, InDoubtOrDone, UnknownStates
  <2>4. QED
    BY <2>2, <2>3
<1>19. SuccessHasResult'
  BY <1>5, <1>13, <1>14 DEF Data, SuccessHasResult, Succeeded, Saved
<1>20. ResendIsConfirmed' /\ ConfirmationSpentOnce'
  BY <1>5 DEF Data, ResendIsConfirmed, ConfirmationSpentOnce
<1>21. QED
  BY <1>15, <1>16, <1>17, <1>18, <1>19, <1>20, <1>22 DEF Data

(* The upload itself. *)
LEMMA SendData ==
  ASSUME Control, Data, NEW p \in Proc, SendAudio(p)
  PROVE  Data'
<1> DEFINE c == Here(p)
           pr == IF job[p].was THEN job[p].retry.blocked ELSE NoProof
           u == [chunk |-> c, attempt |-> job[p].attempt, epoch |-> job[p].epoch,
                 proof |-> pr]
<1>1. /\ job[p].attempt \in Nat /\ job[p].epoch \in Nat
      /\ job[p].was => job[p].retry.blocked \in Nat
      /\ c \in Chunk
      /\ entry \in [Chunk -> Entry]
  <2>1. job[p].attempt \in Nat /\ job[p].epoch \in Nat
    BY LedgerAssumption DEF Control, TypeOK, Job, Epoch
  <2>2. job[p].was => job[p].retry.blocked \in Nat
    <3>1. job[p] \in Job /\ (job[p].was => job[p].retry # NoRetry)
      BY DEF SendAudio, Control, TypeOK, PositionInv, InHand
    <3>2. job[p].was => job[p].retry \in Retry
      BY <3>1 DEF Job
    <3> QED
      BY <3>2, LedgerAssumption DEF Retry, Epoch
  <2>3. c \in Chunk
    BY HereType DEF Control, PositionInv
  <2> QED
    BY <2>1, <2>2, <2>3 DEF Control, TypeOK
<1>2. pc[p] = "dispatch" /\ pc[p] \in Leased /\ pc[p] \in InHand /\ Goto(p, "in_flight")
  BY DEF SendAudio, Leased, PC, InHand
<1>3. uploads' = uploads \cup {u}
      /\ UNCHANGED <<entry, resultFiles, attempts, refused, job>>
  BY DEF SendAudio, disk
<1>4. pc'[p] = "in_flight" /\ \A q \in Proc : pc'[q] \in InHand => q = p
  BY <1>2, HolderMoves
<1>5. StillPending(p) /\ (job[p].was => job[p].retry.blocked < job[p].epoch)
  BY <1>2 DEF Data, ReceiptInv
<1>6. \A v \in uploads : v.chunk = c =>
        /\ v.attempt < job[p].attempt
        /\ Counts(v) => (job[p].was /\ v.epoch <= job[p].retry.blocked)
  BY <1>2 DEF Data, PhaseInv
<1>7. \A v \in uploads : v.attempt \in Nat /\ v.epoch \in Nat /\ v.chunk \in Chunk
                         /\ v.proof \in Nat \cup {NoProof}
  BY LedgerAssumption DEF Control, TypeOK, Upload, Epoch
<1>8. entry[c].state = "pending" /\ entry[c].attempt = job[p].attempt
      /\ entry[c].epoch = job[p].epoch
  BY <1>5 DEF StillPending
<1>9. pr # NoProof <=> job[p].was
  BY <1>1 DEF NoProof
<1> HIDE DEF c, pr
<1>10. u.chunk = c /\ u.attempt = job[p].attempt /\ u.epoch = job[p].epoch /\ u.proof = pr
  OBVIOUS
<1> HIDE DEF u
<1>11. ReceiptInv'
  BY <1>2, <1>3, <1>4, <1>5 DEF ReceiptInv, StillPending, Here
<1>12. Here(p)' = c
  BY <1>3 DEF Here, c
<1>13. PhaseInv'
  <2> SUFFICES ASSUME NEW v \in uploads', v.chunk = c, ~job[p].was, Counts(v)
               PROVE  v.attempt = job[p].attempt /\ v.proof = NoProof
    BY <1>3, <1>4, <1>12 DEF PhaseInv, Counts
  <2>1. v = u
    BY <1>3, <1>6
  <2>2. QED
    BY <1>9, <1>10, <2>1
<1>14. SavingInv'
  BY <1>4 DEF SavingInv, InHand
<1>15. UploadInv'
  <2> SUFFICES ASSUME NEW v \in uploads'
               PROVE  /\ v.attempt <= attempts
                      /\ v.proof # NoProof => v.proof < v.epoch
                      /\ Counts(v) => /\ entry[v.chunk].state \in InDoubtOrDone
                                      /\ v.epoch <= entry[v.chunk].epoch
    BY <1>3 DEF UploadInv, Counts
  <2>1. CASE v \in uploads
    BY <2>1 DEF Data, UploadInv
  <2>2. CASE v = u
    <3>1. job[p].attempt <= attempts
      BY <1>2 DEF Data, AttemptsInv
    <3>2. v.proof # NoProof => v.proof < v.epoch
      BY <1>5, <1>9, <1>10, <2>2 DEF pr
    <3>3. entry[v.chunk].state \in InDoubtOrDone /\ v.epoch <= entry[v.chunk].epoch
      BY <1>1, <1>8, <1>10, <2>2 DEF InDoubtOrDone, UnknownStates
    <3>4. QED
      BY <1>10, <2>2, <3>1, <3>2, <3>3
  <2>3. QED
    BY <1>3, <2>1, <2>2
<1>16. SuccessHasResult'
  BY <1>3 DEF Data, SuccessHasResult, Succeeded, Saved
<1>17. ResendIsConfirmed'
  <2> SUFFICES ASSUME NEW x \in uploads', NEW y \in uploads', x.chunk = y.chunk,
                      x.attempt < y.attempt, x.attempt \notin refused
               PROVE  y.proof # NoProof /\ x.epoch <= y.proof /\ y.proof < y.epoch
    BY <1>3 DEF ResendIsConfirmed
  <2>1. CASE y \in uploads /\ x \in uploads
    BY <2>1 DEF Data, ResendIsConfirmed
  <2>2. CASE y = u /\ x \in uploads
    <3>1. Counts(x)
      BY DEF Counts
    <3>2. QED
      BY <1>5, <1>6, <1>9, <1>10, <2>2, <3>1 DEF pr
  <2>3. CASE y \in uploads /\ x = u
    BY <1>1, <1>6, <1>7, <1>10, <2>3
  <2>4. CASE y = u /\ x = u
    BY <1>1, <1>10, <2>4
  <2>5. QED
    BY <1>3, <2>1, <2>2, <2>3, <2>4
<1>18. ConfirmationSpentOnce'
  <2> SUFFICES ASSUME NEW x \in uploads', NEW y \in uploads', x.chunk = y.chunk,
                      x.proof # NoProof, x.proof = y.proof
               PROVE  x = y
    BY DEF ConfirmationSpentOnce
  <2>1. \A v \in uploads : ~(v.chunk = c /\ v.proof # NoProof /\ v.proof = pr)
    <3> SUFFICES ASSUME NEW v \in uploads, v.chunk = c, v.proof # NoProof, v.proof = pr
                 PROVE  FALSE
      OBVIOUS
    <3>1. v.proof < v.epoch
      BY DEF Data, UploadInv
    <3>2. v.epoch <= pr
      BY <1>6, <1>9 DEF Counts, pr
    <3>3. v.epoch \in Nat /\ v.proof \in Nat
      BY <1>7
    <3>4. QED
      BY <3>1, <3>2, <3>3
  <2>2. CASE x \in uploads /\ y \in uploads
    BY <2>2 DEF Data, ConfirmationSpentOnce
  <2>3. CASE x = u \/ y = u
    BY <1>3, <1>10, <2>1, <2>3
  <2>4. QED
    BY <1>3, <2>2, <2>3
<1>19. AttemptsInv'
  BY <1>2, <1>3, <1>4 DEF Data, AttemptsInv
<1>20. QED
  BY <1>11, <1>13, <1>14, <1>15, <1>16, <1>17, <1>18, <1>19 DEF Data

(* The answer, or its loss: the run moves on with the same receipt in hand,
   and it learns the non-delivery of the only upload that counted. *)
LEMMA AnswerData ==
  ASSUME Control, Data, NEW p \in Proc,
         \/ LoseOutcome(p) \/ Reply(p)
         \/ \E known \in BOOLEAN : FailBeforeSend(p, known) \/ Refuse(p, known)
  PROVE  Data'
<1>1. job[p] \in Job /\ job \in [Proc -> Job] /\ attempts \in Nat
  BY DEF Control, TypeOK
<1>2. pc[p] \in InHand /\ pc[p] \in Leased /\ pc[p] \in {"dispatch", "in_flight"}
  BY DEF LoseOutcome, Reply, FailBeforeSend, Refuse, InHand, Leased, PC
<1>3. \E l \in {"failing", "replied"} : Goto(p, l)
  BY DEF LoseOutcome, Reply, FailBeforeSend, Refuse
<1>4. /\ pc'[p] \in {"failing", "replied"}
      /\ \A q \in Proc : pc'[q] \in InHand => q = p
  BY <1>2, <1>3, HolderMoves
<1>5. /\ job'[p].plan = job[p].plan /\ job'[p].at = job[p].at
      /\ job'[p].was = job[p].was /\ job'[p].retry = job[p].retry
      /\ job'[p].epoch = job[p].epoch /\ job'[p].attempt = job[p].attempt
  <2>1. CASE Reply(p)
    BY <2>1 DEF Reply
  <2>2. CASE LoseOutcome(p)
    BY <1>1, <2>2, KnownUpdate DEF LoseOutcome, With
  <2>3. CASE \E known \in BOOLEAN : FailBeforeSend(p, known)
    BY <1>1, <2>3, KnownUpdate DEF FailBeforeSend, With
  <2>4. CASE \E known \in BOOLEAN : Refuse(p, known)
    BY <1>1, <2>4, KnownUpdate DEF Refuse, With
  <2>5. QED
    BY <2>1, <2>2, <2>3, <2>4
<1>6. UNCHANGED <<entry, resultFiles, attempts, uploads>> /\ refused \subseteq refused'
  BY DEF LoseOutcome, Reply, FailBeforeSend, Refuse, disk, history
<1>7. Here(p)' = Here(p)
  BY <1>5 DEF Here
<1>8. ReceiptInv' /\ AttemptsInv'
  BY <1>2, <1>4, <1>5, <1>6, <1>7 DEF Data, ReceiptInv, AttemptsInv, StillPending
<1>9. SavingInv'
  BY <1>4 DEF SavingInv, InHand
<1>10. \A u \in uploads : Counts(u)' => Counts(u)
  BY <1>6 DEF Counts
<1>11. PhaseInv'
  <2> SUFFICES ASSUME pc'[p] = "failing", ~job[p].was, job'[p].known,
                      NEW u \in uploads, u.chunk = Here(p), Counts(u)'
               PROVE  FALSE
    BY <1>4, <1>5, <1>6, <1>7 DEF PhaseInv
  <2>1. Counts(u)
    BY <1>10
  <2>2. CASE pc[p] = "dispatch"
    BY <1>2, <2>1, <2>2 DEF Data, PhaseInv
  <2>3. CASE pc[p] = "in_flight"
    <3>1. u.attempt = job[p].attempt /\ u.proof = NoProof
      BY <1>2, <2>1, <2>3 DEF Data, PhaseInv
    <3>2. CASE LoseOutcome(p)
      BY <1>1, <3>2, KnownUpdate DEF LoseOutcome, With
    <3>3. CASE \E known \in BOOLEAN : Refuse(p, known)
      BY <3>1, <3>3 DEF Refuse, Counts
    <3>4. CASE Reply(p)
      BY <3>4 DEF Reply, Goto, Control, TypeOK
    <3>5. QED
      BY <2>3, <3>2, <3>3, <3>4 DEF FailBeforeSend
  <2>4. QED
    BY <1>2, <2>2, <2>3
<1>12. UploadInv'
  BY <1>6, <1>10 DEF Data, UploadInv
<1>13. SuccessHasResult'
  BY <1>6 DEF Data, SuccessHasResult, Succeeded, Saved
<1>14. ResendIsConfirmed'
  BY <1>6 DEF Data, ResendIsConfirmed
<1>15. ConfirmationSpentOnce'
  BY <1>6 DEF Data, ConfirmationSpentOnce
<1>16. QED
  BY <1>8, <1>9, <1>11, <1>12, <1>13, <1>14, <1>15 DEF Data

(* fail: the entry stays in doubt unless no upload of its chunk counts. *)
LEMMA FailureData ==
  ASSUME Control, Data, NEW p \in Proc, RecordFailure(p)
  PROVE  Data'
<1> DEFINE c == Here(p)
<1>1. c \in Chunk /\ entry \in [Chunk -> Entry]
  BY HereType DEF Control, TypeOK, PositionInv
<1>2. pc[p] = "failing" /\ pc[p] \in Leased /\ pc[p] \in InHand /\ Goto(p, "idle")
  BY DEF RecordFailure, Leave, Leased, PC, InHand
<1>3. \A q \in Proc : pc'[q] \notin InHand
  BY <1>2, HolderMoves DEF InHand
<1>4. StillPending(p)
  BY <1>2 DEF Data, ReceiptInv
<1>5. entry' = [entry EXCEPT ![c].state = FailedState(p)]
  BY <1>4 DEF RecordFailure
<1>6. FailedState(p) \in EntryStates /\ FailedState(p) # "succeeded"
  BY DEF FailedState, EntryStates, UnknownStates
<1>7. UNCHANGED <<resultFiles, attempts, uploads, refused>>
  BY DEF RecordFailure, history
<1>8. FailedState(p) \in UnknownStates \/ (~job[p].was /\ job[p].known)
  BY DEF FailedState, UnknownStates
<1>9. \A u \in uploads : (u.chunk = c /\ Counts(u)) => FailedState(p) \in UnknownStates
  BY <1>2, <1>8 DEF Data, PhaseInv
<1> HIDE DEF c
<1>10. /\ entry'[c].state = FailedState(p) /\ entry'[c].epoch = entry[c].epoch
       /\ \A d \in Chunk : d # c => entry'[d] = entry[d]
  BY <1>1, <1>5, <1>6, StateUpdate
<1>11. ReceiptInv' /\ AttemptsInv' /\ PhaseInv' /\ SavingInv'
  BY <1>3 DEF ReceiptInv, AttemptsInv, PhaseInv, SavingInv, InHand
<1>12. UploadInv'
  <2> SUFFICES ASSUME NEW u \in uploads, Counts(u)
               PROVE  entry'[u.chunk].state \in InDoubtOrDone
                      /\ u.epoch <= entry'[u.chunk].epoch
    BY <1>7 DEF Data, UploadInv, Counts
  <2>1. u.chunk \in Chunk
    BY DEF Control, TypeOK, Upload
  <2>2. QED
    BY <1>9, <1>10, <2>1 DEF Data, UploadInv, InDoubtOrDone
<1>13. SuccessHasResult'
  BY <1>6, <1>7, <1>10 DEF Data, SuccessHasResult, Succeeded, Saved
<1>14. ResendIsConfirmed' /\ ConfirmationSpentOnce'
  BY <1>7 DEF Data, ResendIsConfirmed, ConfirmationSpentOnce
<1>15. QED
  BY <1>11, <1>12, <1>13, <1>14 DEF Data

(* succeed: first the result file, then the entry. *)
LEMMA ResultData ==
  ASSUME Control, Data, NEW p \in Proc, SaveResult(p)
  PROVE  Data'
<1>1. pc[p] = "replied" /\ pc[p] \in InHand /\ pc[p] \in Leased
  BY DEF SaveResult, InHand, Leased, PC
<1>2. StillPending(p)
  BY <1>1 DEF Data, ReceiptInv
<1>3. /\ resultFiles' = resultFiles \cup {<<Here(p), job[p].attempt>>}
      /\ Goto(p, "saving")
      /\ UNCHANGED <<job, entry, attempts, uploads, refused>>
  BY <1>2 DEF SaveResult, history
<1>4. pc'[p] = "saving" /\ \A q \in Proc : pc'[q] \in InHand => q = p
  BY <1>1, <1>3, HolderMoves
<1>5. ReceiptInv' /\ AttemptsInv' /\ SavingInv'
  BY <1>1, <1>3, <1>4
  DEF Data, ReceiptInv, AttemptsInv, SavingInv, StillPending, Here, InHand
<1>6. PhaseInv'
  BY <1>4 DEF PhaseInv
<1>7. UploadInv' /\ ResendIsConfirmed' /\ ConfirmationSpentOnce' /\ SuccessHasResult'
  BY <1>3 DEF Data, UploadInv, Counts, ResendIsConfirmed, ConfirmationSpentOnce,
              SuccessHasResult, Succeeded, Saved
<1>8. QED
  BY <1>5, <1>6, <1>7 DEF Data

(* The entry follows: it names the result file just saved. *)
LEMMA SuccessData ==
  ASSUME Control, Data, NEW p \in Proc, RecordSuccess(p)
  PROVE  Data'
<1> DEFINE c == Here(p)
<1>1. c \in Chunk /\ entry \in [Chunk -> Entry] /\ "succeeded" \in EntryStates
  BY HereType DEF Control, TypeOK, PositionInv, EntryStates
<1>2. pc[p] = "saving" /\ pc[p] \in Leased /\ pc[p] \in InHand
  BY DEF RecordSuccess, Leased, PC, InHand
<1>3. entry[c].attempt = job[p].attempt /\ <<c, job[p].attempt>> \in resultFiles
  BY <1>2 DEF Data, ReceiptInv, StillPending, SavingInv
<1>4. entry' = [entry EXCEPT ![c].state = "succeeded"]
      /\ UNCHANGED <<resultFiles, attempts, uploads, refused>>
  BY DEF RecordSuccess, history
<1>5. \E l \in {"publish", "chunk"} : Goto(p, l)
  BY DEF RecordSuccess, Assemble
<1>6. \A q \in Proc : pc'[q] \notin InHand
  BY <1>2, <1>5, HolderMoves DEF InHand
<1> HIDE DEF c
<1>7. /\ entry'[c].state = "succeeded" /\ entry'[c].epoch = entry[c].epoch
      /\ entry'[c].attempt = entry[c].attempt
      /\ \A d \in Chunk : d # c => entry'[d] = entry[d]
  BY <1>1, <1>4, StateUpdate
<1>8. ReceiptInv' /\ AttemptsInv' /\ PhaseInv' /\ SavingInv'
  BY <1>6 DEF ReceiptInv, AttemptsInv, PhaseInv, SavingInv, InHand
<1>9. UploadInv'
  <2> SUFFICES ASSUME NEW u \in uploads, Counts(u)
               PROVE  entry'[u.chunk].state \in InDoubtOrDone
                      /\ u.epoch <= entry'[u.chunk].epoch
    BY <1>4 DEF Data, UploadInv, Counts
  <2>1. u.chunk \in Chunk
    BY DEF Control, TypeOK, Upload
  <2>2. QED
    BY <1>7, <2>1 DEF Data, UploadInv, InDoubtOrDone
<1>10. SuccessHasResult'
  BY <1>3, <1>4, <1>7 DEF Data, SuccessHasResult, Succeeded, Saved
<1>11. ResendIsConfirmed' /\ ConfirmationSpentOnce'
  BY <1>4 DEF Data, ResendIsConfirmed, ConfirmationSpentOnce
<1>12. QED
  BY <1>8, <1>9, <1>10, <1>11 DEF Data

(* Every step keeps the data invariant. *)
LEMMA NextData == Control /\ Data /\ [Next]_vars => Data'
<1> SUFFICES ASSUME Control, Data, [Next]_vars PROVE Data'
  OBVIOUS
<1>1. CASE UNCHANGED vars
  BY <1>1, QuietData DEF vars, disk, history
<1>2. ASSUME NEW p \in Proc, Open(p) \/ Step(p) \/ Stop(p)
      PROVE  Data'
  BY <1>2, QuietSteps, SavePlanData, BeginData, SendData, AnswerData, FailureData,
     ResultData, SuccessData DEF Step
<1>3. QED
  BY <1>1, <1>2 DEF Next

(* What the ledger, the result files and the runs say of one another in every
   reachable state: receipts precede uploads, attempts are unique and ordered,
   and entries remember every upload that may count (begin_attempt, fail,
   succeed). *)
THEOREM DataInvariant == Spec => [](Control /\ Data)
<1>1. Init => Control /\ Data
  BY InitControl, InitData
<1>2. Control /\ Data /\ [Next]_vars => (Control /\ Data)'
  BY NextControl, NextData
<1>3. QED
  BY <1>1, <1>2, PTL DEF Spec

(* Audio that may have been accepted keeps its chunk blocked, whatever crashes,
   lost answers and later known failures follow (fail, _first_unknown). *)
THEOREM DoubtNeverLost == Spec => []DoubtIsKept
<1>1. Data => DoubtIsKept
  BY DEF Data, UploadInv, DoubtIsKept, Counts, InDoubtOrDone
<1>2. QED
  BY <1>1, DataInvariant, PTL

(* Audio in doubt is uploaded again only with a confirmation that names the
   epoch in doubt, under a newer one (_verify_retry, begin_attempt). *)
THEOREM ResendsAreConfirmed == Spec => []ResendIsConfirmed
<1>1. Data => ResendIsConfirmed
  BY DEF Data
<1>2. QED
  BY <1>1, DataInvariant, PTL

(* One confirmation pays for at most one upload, for any number of crashes,
   restarts and repeated requests (begin_attempt, _proof_consumed). *)
THEOREM ConfirmationsAreSpentOnce == Spec => []ConfirmationSpentOnce
<1>1. Data => ConfirmationSpentOnce
  BY DEF Data
<1>2. QED
  BY <1>1, DataInvariant, PTL

(* A recorded success has its result on disk (succeed writes it first). *)
THEOREM SuccessesHaveResults == Spec => []SuccessHasResult
<1>1. Data => SuccessHasResult
  BY DEF Data
<1>2. QED
  BY <1>1, DataInvariant, PTL

(* No step changes the entry of a success, nor uploads its chunk. *)
LEMMA FinalStep ==
  ASSUME Control, Data, [Next]_vars, NEW c \in Chunk, Succeeded(c)
  PROVE  entry'[c] = entry[c] /\ \A u \in uploads' \ uploads : u.chunk # c
<1>1. entry[c].state = "succeeded" /\ entry \in [Chunk -> Entry]
  BY DEF Succeeded, Control, TypeOK
<1>2. ASSUME NEW p \in Proc, pc[p] \in InHand
      PROVE  Here(p) \in Chunk /\ Here(p) # c /\ StillPending(p)
  BY <1>1, <1>2, HereType DEF Control, PositionInv, Data, ReceiptInv, StillPending
<1>3. CASE UNCHANGED <<entry, uploads>>
  BY <1>3
<1>4. ASSUME NEW p \in Proc, Step(p)
      PROVE  entry'[c] = entry[c] /\ \A u \in uploads' \ uploads : u.chunk # c
  <2>1. CASE SavePlan(p)
    BY <1>1, <2>1 DEF SavePlan, history
  <2>2. CASE BeginAttempt(p)
    BY <1>1, <2>2 DEF BeginAttempt, Succeeded
  <2>3. CASE SendAudio(p)
    BY <1>2, <2>3 DEF SendAudio, disk, InHand
  <2>4. CASE RecordFailure(p) \/ RecordSuccess(p)
    BY <1>1, <1>2, <2>4 DEF RecordFailure, RecordSuccess, history, InHand
  <2>5. CASE UNCHANGED <<entry, uploads>>
    BY <2>5
  <2>6. QED
    BY <1>4, <2>1, <2>2, <2>3, <2>4, <2>5
    DEF Step, Acquire, Busy, Initialize, StorageError, WritePlan, Preflight,
        PreflightRefuses, Reuse, AttemptRefused, FailBeforeSend, Refuse,
        LoseOutcome, Reply, SaveResult, WriteTranscript, RegisterTranscript,
        disk, history
<1>5. QED
  BY <1>3, <1>4 DEF Next, Open, Stop, disk, history, vars

(* A recorded success is final: no run changes its entry or uploads its chunk
   again (get_success, begin_attempt). *)
THEOREM SuccessesAreFinal == Spec => SuccessIsFinal
<1>1. Control /\ Data /\ [Next]_vars =>
        [\A c \in Chunk : Succeeded(c) =>
           /\ entry'[c] = entry[c]
           /\ \A u \in uploads' \ uploads : u.chunk # c]_vars
  BY FinalStep
<1>2. QED
  BY <1>1, DataInvariant, PTL DEF Spec, SuccessIsFinal

-----------------------------------------------------------------------------
(* What is published *)

(* Each chunk of an assembly gave the very result the ledger keeps. *)
Backed(a) == \A x \in a : Succeeded(x[1]) /\ entry[x[1]].attempt = x[2]

(* A transcript file covers one recorded plan's track with such results. *)
Proven(a, t) ==
  /\ a \in transcripts
  /\ \E pl \in recorded : {x[1] : x \in a} = TrackChunks(pl, t)
  /\ Backed(a)

(* Of plan pl, the chunks before position n on the track of its h-th chunk. *)
PartOf(pl, h, n) ==
  {ChunksOf[pl][i] : i \in {k \in DOMAIN ChunksOf[pl] :
     k < n /\ TrackOf[ChunksOf[pl][k]] = TrackOf[ChunksOf[pl][h]]}}

Walking == {"chunk", "dispatch", "in_flight", "failing", "replied", "saving"}
Publishing == {"publish", "register"}

(* A run assembles the track at hand chunk by chunk from what is saved,    *)
(* and its manifest is one that was published, or that it will publish.    *)
AssemblyAt(p) ==
  /\ pc[p] \notin Walking \cup Publishing => job[p].got = {} /\ job[p].at = 1
  /\ pc[p] \in Walking \cup Publishing \cup {"preflight"} => job[p].plan \in recorded
  /\ pc[p] \in Walking =>
       {x[1] : x \in job[p].got} = PartOf(job[p].plan, job[p].at, job[p].at)
  /\ pc[p] \in Publishing =>
       /\ {x[1] : x \in job[p].got} = PartOf(job[p].plan, job[p].at, job[p].at + 1)
       /\ LastOfTrack(p)
  /\ pc[p] = "register" => job[p].got \in transcripts
  /\ Backed(job[p].got)
  /\ \A t \in Track : job[p].view[t] # {} => Proven(job[p].view[t], t)

AssemblyInv == \A p \in Proc : AssemblyAt(p)

PublishedInv == \A t \in Track : published[t] # {} => Proven(published[t], t)

-----------------------------------------------------------------------------
(* What the upload protocol needs beyond the data invariant *)

(* What the ledger lacks is as Init left it. *)
AbsentInv == \A c \in Chunk : entry[c].state = "absent" => entry[c] = NoEntry

(* A request in flight, or answered, is one of the uploads. *)
SentInv ==
  \A p \in Proc : pc[p] \in {"in_flight", "replied", "saving"} =>
    \E u \in uploads : u.chunk = Here(p)

(***************************************************************************)
(* The parts of a plan                                                     *)
(***************************************************************************)
(* A run starts with nothing, and with nothing again on the next track.    *)
LEMMA PartStarts ==
  ASSUME NEW pl \in Plan, NEW h \in DOMAIN ChunksOf[pl], h \in Nat,
         \/ h = 1
         \/ /\ h - 1 \in DOMAIN ChunksOf[pl]
            /\ TrackOf[ChunksOf[pl][h - 1]] # TrackOf[ChunksOf[pl][h]]
  PROVE  PartOf(pl, h, h) = {}
<1>1. ChunksOf[pl] \in Seq(Chunk)
  BY LedgerAssumption
<1>2. \A k \in DOMAIN ChunksOf[pl] : k \in Nat /\ k >= 1
  BY <1>1
<1>3. ASSUME NEW k \in DOMAIN ChunksOf[pl], k < h,
             TrackOf[ChunksOf[pl][k]] = TrackOf[ChunksOf[pl][h]]
      PROVE  FALSE
  <2>1. h # 1 /\ k # h - 1
    BY <1>2, <1>3
  <2>2. k < h - 1 /\ h - 1 < h
    BY <1>2, <1>3, <2>1
  <2> QED
    BY <1>3, <2>1, <2>2, TracksAreTogether
<1> QED
  BY <1>3 DEF PartOf

(* The chunk at hand joins the part before it. *)
LEMMA PartGrows ==
  ASSUME NEW pl \in Plan, NEW h \in DOMAIN ChunksOf[pl], h \in Nat
  PROVE  PartOf(pl, h, h + 1) = PartOf(pl, h, h) \cup {ChunksOf[pl][h]}
<1>1. ChunksOf[pl] \in Seq(Chunk)
  BY LedgerAssumption
<1>2. \A k \in DOMAIN ChunksOf[pl] : k \in Nat /\ (k < h + 1 <=> k < h \/ k = h)
  BY <1>1
<1> QED
  BY <1>2 DEF PartOf

(* The next chunk of the same track takes the part over. *)
LEMMA PartContinues ==
  ASSUME NEW pl \in Plan, NEW h \in Nat,
         TrackOf[ChunksOf[pl][h]] = TrackOf[ChunksOf[pl][h + 1]]
  PROVE  PartOf(pl, h + 1, h + 1) = PartOf(pl, h, h + 1)
  BY DEF PartOf

(* After its last chunk the part is the whole track. *)
LEMMA PartIsTrack ==
  ASSUME NEW pl \in Plan, NEW h \in DOMAIN ChunksOf[pl], h \in Nat,
         h = Len(ChunksOf[pl]) \/ TrackOf[ChunksOf[pl][h + 1]] # TrackOf[ChunksOf[pl][h]]
  PROVE  PartOf(pl, h, h + 1) = TrackChunks(pl, TrackOf[ChunksOf[pl][h]])
<1>1. ChunksOf[pl] \in Seq(Chunk)
  BY LedgerAssumption
<1>2. \A k \in DOMAIN ChunksOf[pl] : k \in Nat /\ k >= 1 /\ k <= Len(ChunksOf[pl])
  BY <1>1
<1>3. ASSUME NEW k \in DOMAIN ChunksOf[pl],
             TrackOf[ChunksOf[pl][k]] = TrackOf[ChunksOf[pl][h]]
      PROVE  k < h + 1
  <2> SUFFICES ASSUME h < k PROVE FALSE
    BY <1>2
  <2>1. h + 1 \in DOMAIN ChunksOf[pl] /\ h # Len(ChunksOf[pl])
    BY <1>1, <1>2
  <2>2. CASE k = h + 1
    BY <1>3, <2>1, <2>2
  <2>3. CASE h + 1 < k
    BY <1>2, <1>3, <2>1, <2>3, TracksAreTogether
  <2> QED
    BY <1>2, <2>2, <2>3
<1> QED
  BY <1>3 DEF PartOf, TrackChunks, Chunks

(***************************************************************************)
(* What is proven stays proven                                             *)
(***************************************************************************)
(* Plans and transcript files are never removed. *)
LEMMA FilesStay ==
  ASSUME [Next]_vars
  PROVE  recorded \subseteq recorded' /\ transcripts \subseteq transcripts'
<1> USE DEF disk
<1>1. CASE UNCHANGED vars
  BY <1>1 DEF vars
<1>2. ASSUME NEW p \in Proc, Open(p) \/ Stop(p) \/ Step(p)
      PROVE  recorded \subseteq recorded' /\ transcripts \subseteq transcripts'
  BY <1>2 DEF Open, Stop, Step, Acquire, Busy, Initialize, StorageError, WritePlan, SavePlan,
     Preflight, PreflightRefuses, Reuse, BeginAttempt, AttemptRefused, SendAudio,
     FailBeforeSend, Refuse, LoseOutcome, Reply, RecordFailure, SaveResult, RecordSuccess,
     WriteTranscript, RegisterTranscript
<1> QED
  BY <1>1, <1>2 DEF Next

(* Results an assembly is built from are final. *)
LEMMA BackedStays ==
  ASSUME Control, Data, [Next]_vars, NEW a \in Assembly, Backed(a)
  PROVE  Backed(a)'
<1>1. \A x \in a : x[1] \in Chunk
  BY DEF Assembly
<1> QED
  BY <1>1, FinalStep DEF Backed, Succeeded

(* A transcript file that is proven stays so: plans, files and results do. *)
LEMMA ProvenStays ==
  ASSUME Control, Data, [Next]_vars, NEW a \in Assembly, NEW t \in Track, Proven(a, t)
  PROVE  Proven(a, t)'
  BY FilesStay, BackedStays DEF Proven

(* A step of another process leaves a run where it is. *)
LEMMA OtherAssembly ==
  ASSUME Control, Data, [Next]_vars, NEW q \in Proc, AssemblyAt(q),
         pc'[q] = pc[q], job'[q] = job[q]
  PROVE  AssemblyAt(q)'
<1>1. job[q] \in Job
  BY DEF Control, TypeOK
<1>2. job[q].got \in Assembly /\ job[q].view \in [Track -> Assembly]
  BY <1>1 DEF Job
<1>3. Backed(job[q].got)'
  BY <1>2, BackedStays DEF AssemblyAt, Backed
<1>4. ASSUME NEW t \in Track, job'[q].view[t] # {}
      PROVE  Proven(job[q].view[t], t)'
  <2>1. job[q].view[t] \in Assembly /\ Proven(job[q].view[t], t)
    BY <1>2, <1>4 DEF AssemblyAt
  <2>2. \A a \in Assembly : Proven(a, t) => Proven(a, t)'
    BY ProvenStays
  <2> QED
    BY <2>1, <2>2 DEF Proven, Backed
<1>5. LastOfTrack(q) => LastOfTrack(q)'
  BY DEF LastOfTrack, LastOfPlan, Here
<1> QED
  BY <1>3, <1>4, <1>5, FilesStay DEF AssemblyAt

(***************************************************************************)
(* The steps of a run                                                      *)
(***************************************************************************)
(* What AssemblyAt asks of a run that is between its tracks or has none.   *)
LEMMA OwnView ==
  ASSUME Control, Data, [Next]_vars, NEW p \in Proc, AssemblyAt(p),
         job'[p].view = job[p].view, job'[p].got = job[p].got
  PROVE  /\ Backed(job[p].got)'
         /\ \A t \in Track : job'[p].view[t] # {} => Proven(job[p].view[t], t)'
<1>1. job[p] \in Job
  BY DEF Control, TypeOK
<1>2. job[p].got \in Assembly /\ job[p].view \in [Track -> Assembly]
  BY <1>1 DEF Job
<1>3. Backed(job[p].got)'
  BY <1>2, BackedStays DEF AssemblyAt, Backed
<1>4. ASSUME NEW t \in Track, job'[p].view[t] # {}
      PROVE  Proven(job[p].view[t], t)'
  <2>1. job[p].view[t] \in Assembly /\ Proven(job[p].view[t], t)
    BY <1>2, <1>4 DEF AssemblyAt
  <2>2. \A a \in Assembly : Proven(a, t) => Proven(a, t)'
    BY ProvenStays
  <2> QED
    BY <2>1, <2>2 DEF Proven, Backed
<1> QED
  BY <1>3, <1>4

(* The end of a run. *)
LEMMA LeaveAssembly ==
  ASSUME Control, NEW p \in Proc, Leave(p)
  PROVE  AssemblyAt(p)'
<1>1. pc'[p] = "idle" /\ job'[p] = IdleJob
  BY DEF Control, TypeOK, Leave, Goto, With
<1> QED
  BY <1>1 DEF AssemblyAt, IdleJob, Walking, Publishing, Backed

(* A run opens on the manifest that is published. *)
LEMMA OpenAssembly ==
  ASSUME Control, PublishedInv, NEW p \in Proc, Open(p)
  PROVE  AssemblyAt(p)'
<1>1. pc'[p] = "opened" /\ job'[p] = [IdleJob EXCEPT !.view = published]
  BY DEF Control, TypeOK, Open, Goto, With
<1>2. job'[p].view = published /\ job'[p].got = {} /\ job'[p].at = 1
  BY <1>1 DEF IdleJob
<1>3. \A t \in Track : published[t] # {} => Proven(published[t], t)'
  BY DEF PublishedInv, Open, disk, Proven, Backed, Succeeded
<1>4. ASSUME NEW t \in Track, job'[p].view[t] # {}
      PROVE  Proven(job[p].view[t], t)'
  <2>1. job'[p].view[t] = published[t] /\ published' = published
    BY <1>2 DEF Open, disk
  <2> QED
    BY <1>3, <1>4, <2>1 DEF Proven, Backed
<1>5. Backed(job[p].got)'
  BY <1>2 DEF Backed
<1> QED
  BY <1>1, <1>2, <1>4, <1>5 DEF AssemblyAt, Walking, Publishing

(* Steps before the plan is at hand. *)
LEMMA EarlyAssembly ==
  ASSUME Control, Data, [Next]_vars, NEW p \in Proc, AssemblyAt(p),
         \/ \E pl \in Plan : Acquire(p, pl)
         \/ Initialize(p) \/ WritePlan(p) \/ SavePlan(p)
  PROVE  AssemblyAt(p)'
<1>1. /\ pc[p] \notin Walking \cup Publishing
      /\ pc'[p] \in {"init", "write_plan", "save_plan", "preflight"}
      /\ job'[p].got = job[p].got /\ job'[p].at = job[p].at /\ job'[p].view = job[p].view
      /\ pc'[p] = "preflight" => job'[p].plan \in recorded'
  BY DEF Control, TypeOK, Job, Acquire, Initialize, WritePlan, SavePlan, Goto, With, disk,
         Walking, Publishing
<1>2. Backed(job[p].got)' /\ \A t \in Track : job'[p].view[t] # {} => Proven(job[p].view[t], t)'
  BY <1>1, OwnView
<1> QED
  BY <1>1, <1>2 DEF AssemblyAt, Walking, Publishing

(* Steps that stay at one chunk of a walk, or that start it. *)
LEMMA WalkAssembly ==
  ASSUME Control, Data, [Next]_vars, NEW p \in Proc, AssemblyAt(p),
         \/ \E e \in Epoch, r \in Retry \cup {NoRetry} : Preflight(p, e, r)
         \/ BeginAttempt(p) \/ SendAudio(p) \/ LoseOutcome(p) \/ Reply(p)
         \/ \E known \in BOOLEAN : FailBeforeSend(p, known) \/ Refuse(p, known)
  PROVE  AssemblyAt(p)'
<1>1. job[p] \in Job /\ job[p].at \in DOMAIN ChunksOf[job[p].plan] /\ job[p].at \in Nat
  BY DEF Control, TypeOK, PositionInv, Job
<1>2. /\ pc[p] \in Walking \/ (pc[p] = "preflight" /\ job[p].got = {} /\ job[p].at = 1)
      /\ pc'[p] \in Walking
      /\ job'[p].got = job[p].got /\ job'[p].at = job[p].at /\ job'[p].view = job[p].view
      /\ job'[p].plan = job[p].plan
  <2>1. pc \in [Proc -> PC] /\ job \in [Proc -> Job]
    BY DEF Control, TypeOK
  <2>2. CASE \E e \in Epoch, r \in Retry \cup {NoRetry} : Preflight(p, e, r)
    <3>1. PICK e \in Epoch, r \in Retry \cup {NoRetry} : Preflight(p, e, r)
      BY <2>2
    <3>2. pc[p] = "preflight" /\ pc'[p] = "chunk"
          /\ job'[p] = [job[p] EXCEPT !.epoch = e, !.retry = r]
      BY <2>1, <3>1 DEF Preflight, Goto, With
    <3>3. job[p].got = {} /\ job[p].at = 1
      BY <3>2 DEF AssemblyAt, Walking, Publishing
    <3> QED
      BY <1>1, <3>2, <3>3 DEF Job, Walking
  <2>3. CASE BeginAttempt(p)
    BY <1>1, <2>1, <2>3 DEF Job, BeginAttempt, Goto, With, Walking
  <2>4. CASE SendAudio(p) \/ Reply(p)
    BY <1>1, <2>1, <2>4 DEF SendAudio, Reply, Goto, Walking
  <2>5. CASE LoseOutcome(p) \/ \E known \in BOOLEAN : FailBeforeSend(p, known) \/ Refuse(p, known)
    BY <1>1, <2>1, <2>5 DEF Job, LoseOutcome, FailBeforeSend, Refuse, Goto, With, Walking
  <2> QED
    BY <2>2, <2>3, <2>4, <2>5
<1>3. {x[1] : x \in job[p].got} = PartOf(job[p].plan, job[p].at, job[p].at)
  BY <1>1, <1>2, PartStarts DEF AssemblyAt, Job
<1>4. Backed(job[p].got)' /\ \A t \in Track : job'[p].view[t] # {} => Proven(job[p].view[t], t)'
  BY <1>2, OwnView
<1>5. job'[p].plan \in recorded'
  BY <1>2, FilesStay DEF AssemblyAt
<1> QED
  BY <1>2, <1>3, <1>4, <1>5 DEF AssemblyAt, Walking, Publishing

(* What a set of chunk results names once one more result has joined it.   *)
LEMMA PairJoins ==
  ASSUME NEW a, NEW c, NEW n
  PROVE  {x[1] : x \in a \cup {<<c, n>>}} = {x[1] : x \in a} \cup {c}
<1>1. <<c, n>>[1] = c
  OBVIOUS
<1> QED
  BY <1>1

(* The chunk at hand joins its track with a result the ledger keeps. *)
LEMMA AssembleAssembly ==
  ASSUME Control, Data, [Next]_vars, NEW p \in Proc, AssemblyAt(p), pc[p] \in Walking,
         NEW n \in Nat, Assemble(p, n),
         entry'[Here(p)].state = "succeeded", entry'[Here(p)].attempt = n
  PROVE  AssemblyAt(p)'
<1> DEFINE pl == job[p].plan
           h == job[p].at
           g == job[p].got \cup {<<Here(p), n>>}
<1>1. job[p] \in Job /\ h \in DOMAIN ChunksOf[pl] /\ h \in Nat /\ pl \in Plan
  BY DEF Control, TypeOK, PositionInv, Job
<1>2. /\ job'[p].got = g /\ job'[p].plan = pl /\ job'[p].view = job[p].view
      /\ \/ LastOfTrack(p) /\ pc'[p] = "publish" /\ job'[p].at = h
         \/ ~LastOfTrack(p) /\ pc'[p] = "chunk" /\ job'[p].at = h + 1
  <2> DEFINE j == [job[p] EXCEPT !.got = g]
             k == [j EXCEPT !.at = h + 1]
  <2>1. j.got = g /\ j.plan = pl /\ j.view = job[p].view /\ j.at = h
    BY <1>1 DEF Job
  <2>2. k.got = g /\ k.plan = pl /\ k.view = job[p].view /\ k.at = h + 1
    BY <1>1 DEF Job
  <2>3. \/ LastOfTrack(p) /\ Goto(p, "publish") /\ With(p, j)
        \/ ~LastOfTrack(p) /\ Goto(p, "chunk") /\ With(p, k)
    BY <2>1 DEF Assemble
  <2> HIDE DEF j, k
  <2> QED
    BY <2>1, <2>2, <2>3 DEF Control, TypeOK, Goto, With
<1>3. {x[1] : x \in g} = PartOf(pl, h, h + 1)
  <2>1. {x[1] : x \in job[p].got} = PartOf(pl, h, h)
    BY DEF AssemblyAt
  <2>2. {x[1] : x \in g} = {x[1] : x \in job[p].got} \cup {Here(p)}
    BY PairJoins
  <2> QED
    BY <1>1, <2>1, <2>2, PartGrows DEF Here
<1>5. \A x \in g : entry'[x[1]].state = "succeeded" /\ entry'[x[1]].attempt = x[2]
  <2>1. job[p].got \in Assembly /\ Backed(job[p].got)
    BY <1>1 DEF AssemblyAt, Job
  <2>2. \A a \in Assembly : Backed(a) =>
          \A x \in a : entry'[x[1]].state = "succeeded" /\ entry'[x[1]].attempt = x[2]
    BY BackedStays DEF Backed, Succeeded
  <2> QED
    BY <2>1, <2>2
<1>6. \A t \in Track : job'[p].view[t] # {} => Proven(job[p].view[t], t)'
  <2>1. job[p].view \in [Track -> Assembly]
    BY <1>1 DEF Job
  <2> SUFFICES ASSUME NEW t \in Track, job'[p].view[t] # {}
               PROVE  Proven(job[p].view[t], t)'
    OBVIOUS
  <2>2. job[p].view[t] \in Assembly /\ Proven(job[p].view[t], t)
    BY <1>2, <2>1 DEF AssemblyAt
  <2>3. \A a \in Assembly : Proven(a, t) => Proven(a, t)'
    BY ProvenStays
  <2> QED
    BY <1>2, <2>2, <2>3 DEF Proven, Backed
<1>7. pl \in recorded'
  BY FilesStay DEF AssemblyAt
<1>8. CASE LastOfTrack(p) /\ pc'[p] = "publish" /\ job'[p].at = h
  <2>1. LastOfTrack(p)'
    BY <1>2, <1>8 DEF LastOfTrack, LastOfPlan, Here
  <2> QED
    BY <1>2, <1>3, <1>5, <1>6, <1>7, <1>8, <2>1
    DEF AssemblyAt, Walking, Publishing, Backed, Succeeded
<1>9. CASE ~LastOfTrack(p) /\ pc'[p] = "chunk" /\ job'[p].at = h + 1
  <2>1. TrackOf[ChunksOf[pl][h]] = TrackOf[ChunksOf[pl][h + 1]]
    BY <1>9 DEF LastOfTrack, Here
  <2>2. {x[1] : x \in g} = PartOf(pl, h + 1, h + 1)
    BY <1>1, <1>3, <2>1, PartContinues
  <2> QED
    BY <1>2, <1>5, <1>6, <1>7, <1>9, <2>2
    DEF AssemblyAt, Walking, Publishing, Backed, Succeeded
<1> QED
  BY <1>2, <1>8, <1>9

(* A step that publishes nothing leaves the manifest's transcripts proven. *)
LEMMA PublishedStays ==
  ASSUME Control, Data, [Next]_vars, PublishedInv, UNCHANGED published
  PROVE  PublishedInv'
<1> SUFFICES ASSUME NEW s \in Track, published'[s] # {}
             PROVE  Proven(published[s], s)'
  BY DEF PublishedInv
<1>1. published[s] \in Assembly /\ Proven(published[s], s)
  BY DEF PublishedInv, Control, TypeOK
<1>2. \A a \in Assembly : Proven(a, s) => Proven(a, s)'
  BY ProvenStays
<1> QED
  BY <1>1, <1>2 DEF Proven, Backed

(* A track's transcript is written, then registered in the manifest. *)
LEMMA PublishAssembly ==
  ASSUME Control, Data, [Next]_vars, NEW p \in Proc, AssemblyAt(p), PublishedInv,
         WriteTranscript(p) \/ RegisterTranscript(p)
  PROVE  AssemblyAt(p)' /\ PublishedInv'
<1> DEFINE pl == job[p].plan
           h == job[p].at
           t == TrackOf[Here(p)]
<1>1. /\ job[p] \in Job /\ h \in DOMAIN ChunksOf[pl] /\ h \in Nat /\ pl \in Plan
      /\ job[p].got \in Assembly /\ job[p].view \in [Track -> Assembly]
      /\ published \in [Track -> Assembly] /\ Here(p) \in Chunk /\ t \in Track
  BY HereType DEF Control, TypeOK, PositionInv, Job
<1>2. \A a \in Assembly, s \in Track : Proven(a, s) => Proven(a, s)'
  BY ProvenStays
<1>3. CASE WriteTranscript(p)
  <2>1. pc[p] = "publish" /\ pc'[p] = "register" /\ UNCHANGED <<job, published>>
        /\ job[p].got \in transcripts'
    BY <1>3 DEF Control, TypeOK, WriteTranscript, Goto, history
  <2>2. Backed(job[p].got)' /\ \A s \in Track : job'[p].view[s] # {} => Proven(job[p].view[s], s)'
    BY <2>1, OwnView
  <2>3. LastOfTrack(p)'
    BY <2>1 DEF AssemblyAt, Publishing, LastOfTrack, LastOfPlan, Here
  <2>4. AssemblyAt(p)'
    BY <2>1, <2>2, <2>3, FilesStay DEF AssemblyAt, Walking, Publishing
  <2>5. PublishedInv'
    BY <2>1, PublishedStays
  <2> QED
    BY <2>4, <2>5
<1>4. CASE RegisterTranscript(p)
  <2> DEFINE view == [job[p].view EXCEPT ![t] = job[p].got]
             j == [job[p] EXCEPT !.at = h + 1, !.got = {}, !.view = view]
  <2>1. pc[p] = "register" /\ LastOfTrack(p) /\ job[p].got \in transcripts
        /\ pl \in recorded /\ Backed(job[p].got)
        /\ {x[1] : x \in job[p].got} = PartOf(pl, h, h + 1)
    BY <1>4 DEF RegisterTranscript, AssemblyAt, Publishing
  <2>2. Proven(job[p].got, t)
    <3>1. PartOf(pl, h, h + 1) = TrackChunks(pl, t)
      BY <1>1, <2>1, PartIsTrack DEF LastOfTrack, LastOfPlan, Here
    <3> QED
      BY <2>1, <3>1 DEF Proven
  <2>3. view \in [Track -> Assembly]
    BY <1>1
  <2>4. \A s \in Track : view[s] # {} => Proven(view[s], s)
    BY <1>1, <2>2 DEF AssemblyAt
  <2>5. published' \in {published, view}
    BY <1>4 DEF RegisterTranscript
  <2> HIDE DEF view
  <2>6. PublishedInv'
    <3> SUFFICES ASSUME NEW s \in Track, published'[s] # {}
                 PROVE  Proven(published[s], s)'
      BY DEF PublishedInv
    <3>1. published'[s] \in Assembly /\ Proven(published'[s], s)
      BY <1>1, <2>3, <2>4, <2>5 DEF PublishedInv
    <3> QED
      BY <1>2, <3>1 DEF Proven, Backed
  <2>7. CASE LastOfPlan(p)
    BY <1>4, <2>6, <2>7, LeaveAssembly DEF RegisterTranscript
  <2>8. CASE ~LastOfPlan(p)
    <3>1. j.at = h + 1 /\ j.got = {} /\ j.view = view /\ j.plan = pl
      BY <1>1 DEF Job
    <3>2. Goto(p, "chunk") /\ With(p, j)
      BY <1>4, <2>8 DEF RegisterTranscript, view
    <3> HIDE DEF j
    <3>3. pc'[p] = "chunk" /\ job'[p] = j
      BY <3>2 DEF Control, TypeOK, Goto, With
    <3>4. h + 1 \in DOMAIN ChunksOf[pl] /\ TrackOf[ChunksOf[pl][h]] # TrackOf[ChunksOf[pl][h + 1]]
      BY <1>1, <2>1, <2>8, NextPosition DEF LastOfTrack, Here, Control
    <3>5. PartOf(pl, h + 1, h + 1) = {}
      <4>1. (h + 1) - 1 = h /\ h + 1 \in Nat
        BY <1>1
      <4> QED
        BY <1>1, <3>4, <4>1, PartStarts
    <3>6. \A s \in Track : view[s] # {} => Proven(job[p].view[s], s)'
      <4> SUFFICES ASSUME NEW s \in Track, view[s] # {}
                   PROVE  Proven(job[p].view[s], s)'
        OBVIOUS
      <4>1. view[s] \in Assembly /\ Proven(view[s], s) /\ job'[p].view[s] = view[s]
        BY <2>3, <2>4, <3>1, <3>3
      <4> QED
        BY <1>2, <4>1 DEF Proven, Backed
    <3>7. AssemblyAt(p)'
      BY <2>1, <3>1, <3>3, <3>5, <3>6, FilesStay DEF AssemblyAt, Walking, Publishing, Backed
    <3> QED
      BY <2>6, <3>7
  <2> QED
    BY <2>7, <2>8
<1> QED
  BY <1>3, <1>4

(* Saving an outcome ends the run, or moves it on with its result. *)
LEMMA OutcomeAssembly ==
  ASSUME Control, Data, [Next]_vars, NEW p \in Proc, AssemblyAt(p),
         Reuse(p) \/ RecordSuccess(p) \/ SaveResult(p)
  PROVE  AssemblyAt(p)'
<1>1. Here(p) \in Chunk /\ entry \in [Chunk -> Entry] /\ job[p] \in Job
  BY HereType DEF Control, TypeOK, PositionInv
<1>2. CASE Reuse(p)
  <2>1. entry[Here(p)].attempt \in Nat
    BY <1>1 DEF Entry
  <2>2. pc[p] \in Walking /\ UNCHANGED entry /\ Succeeded(Here(p))
        /\ Assemble(p, entry[Here(p)].attempt)
    BY <1>2 DEF Reuse, Walking, disk
  <2> QED
    BY <2>1, <2>2, AssembleAssembly DEF Succeeded
<1>3. CASE RecordSuccess(p)
  <2>1. pc[p] = "saving" /\ StillPending(p) /\ job[p].attempt \in Nat
    BY <1>1, <1>3 DEF RecordSuccess, Data, ReceiptInv, InHand, Job
  <2>2. entry'[Here(p)].state = "succeeded" /\ entry'[Here(p)].attempt = job[p].attempt
    BY <1>1, <1>3, <2>1 DEF RecordSuccess, StillPending, Entry
  <2> QED
    BY <1>3, <2>1, <2>2, AssembleAssembly DEF RecordSuccess, Walking
<1>4. CASE SaveResult(p)
  <2>1. CASE StillPending(p)
    <3>1. pc[p] = "replied" /\ pc'[p] = "saving" /\ job' = job
      BY <1>4, <2>1 DEF SaveResult, Control, TypeOK, Goto
    <3>2. Backed(job[p].got)' /\ \A t \in Track : job'[p].view[t] # {} => Proven(job[p].view[t], t)'
      BY <3>1, OwnView
    <3> QED
      BY <3>1, <3>2, FilesStay DEF AssemblyAt, Walking, Publishing
  <2>2. CASE ~StillPending(p)
    BY <1>4, <2>2, LeaveAssembly DEF SaveResult
  <2> QED
    BY <2>1, <2>2
<1> QED
  BY <1>2, <1>3, <1>4

(* A step of p moves no other run. *)
LEMMA OthersRest ==
  ASSUME Control, NEW p \in Proc, Open(p) \/ Step(p) \/ Stop(p)
  PROVE  \A q \in Proc : q # p => pc'[q] = pc[q] /\ job'[q] = job[q]
  BY DEF Control, TypeOK, Open, Stop, Step, Acquire, Busy, Initialize, StorageError, WritePlan,
     SavePlan, Preflight, PreflightRefuses, Reuse, BeginAttempt, AttemptRefused, SendAudio,
     FailBeforeSend, Refuse, LoseOutcome, Reply, RecordFailure, SaveResult, RecordSuccess,
     WriteTranscript, RegisterTranscript, Leave, Goto, With, Assemble

(* Every step keeps assemblies and published transcripts proven, whichever *)
(* run takes it.                                                           *)
LEMMA NextAssembly ==
  ASSUME Control, Data, AssemblyInv, PublishedInv, [Next]_vars
  PROVE  AssemblyInv' /\ PublishedInv'
<1>1. CASE UNCHANGED vars
  <2>1. PublishedInv'
    BY <1>1, PublishedStays DEF vars, disk
  <2>2. ASSUME NEW q \in Proc PROVE AssemblyAt(q)'
    BY <1>1, OtherAssembly DEF AssemblyInv, vars
  <2> QED
    BY <2>1, <2>2 DEF AssemblyInv
<1>2. ASSUME NEW p \in Proc, Open(p) \/ Step(p) \/ Stop(p)
      PROVE  AssemblyInv' /\ PublishedInv'
  <2>1. AssemblyAt(p)
    BY DEF AssemblyInv
  <2>2. ASSUME NEW q \in Proc, q # p PROVE AssemblyAt(q)'
    BY <1>2, <2>2, OthersRest, OtherAssembly DEF AssemblyInv
  <2>3. CASE WriteTranscript(p) \/ RegisterTranscript(p)
    BY <2>1, <2>2, <2>3, PublishAssembly DEF AssemblyInv
  <2>4. CASE ~(WriteTranscript(p) \/ RegisterTranscript(p))
    <3>1. UNCHANGED published
      BY <1>2, <2>4 DEF Open, Stop, Step, Acquire, Busy, Initialize, StorageError, WritePlan,
         SavePlan, Preflight, PreflightRefuses, Reuse, BeginAttempt, AttemptRefused, SendAudio,
         FailBeforeSend, Refuse, LoseOutcome, Reply, RecordFailure, SaveResult, RecordSuccess,
         disk
    <3>2. ASSUME Leave(p) PROVE AssemblyAt(p)'
      BY <3>2, LeaveAssembly
    <3>3. ~Leave(p) => AssemblyAt(p)'
      BY <1>2, <2>1, <2>4, OpenAssembly, EarlyAssembly, WalkAssembly, OutcomeAssembly
      DEF Step, Stop, Busy, StorageError, PreflightRefuses, AttemptRefused, RecordFailure
    <3>4. PublishedInv'
      BY <3>1, PublishedStays
    <3> QED
      BY <2>2, <3>2, <3>3, <3>4 DEF AssemblyInv
  <2> QED
    BY <2>3, <2>4
<1> QED
  BY <1>1, <1>2 DEF Next

(* No run assembles and nothing is published at first. *)
LEMMA InitAssembly == Init => AssemblyInv /\ PublishedInv
<1> SUFFICES ASSUME Init PROVE AssemblyInv /\ PublishedInv
  OBVIOUS
<1>1. ASSUME NEW p \in Proc PROVE AssemblyAt(p)
  <2>1. /\ pc[p] = "idle" /\ job[p].got = {} /\ job[p].at = 1
        /\ \A t \in Track : job[p].view[t] = {}
    BY DEF Init, IdleJob
  <2>2. pc[p] \notin Walking \cup Publishing \cup {"preflight", "register"}
    BY <2>1 DEF Walking, Publishing
  <2>3. Backed(job[p].got)
    BY <2>1 DEF Backed
  <2> QED
    BY <2>1, <2>2, <2>3 DEF AssemblyAt
<1>2. PublishedInv
  BY DEF Init, PublishedInv
<1> QED
  BY <1>1, <1>2 DEF AssemblyInv

(* What runs assemble, hold and have published is proven in every          *)
(* reachable state.                                                        *)
THEOREM AssemblyInvariant == Spec => [](AssemblyInv /\ PublishedInv)
<1>1. Init => AssemblyInv /\ PublishedInv
  BY InitAssembly
<1>2. (Control /\ Data) /\ (AssemblyInv /\ PublishedInv) /\ [Next]_vars
        => (AssemblyInv /\ PublishedInv)'
  BY NextAssembly
<1> QED
  BY <1>1, <1>2, DataInvariant, PTL DEF Spec

(* A transcript the manifest names is on disk, covers a recorded plan's    *)
(* track completely and holds the very results the ledger keeps, even when *)
(* a process saved an older manifest over a newer one (publish_transcript, *)
(* Bundle.save).                                                           *)
THEOREM TranscriptsAreProven == Spec => []PublishedIsProven
<1>1. PublishedInv => PublishedIsProven
  BY DEF PublishedInv, PublishedIsProven, Proven, Backed
<1> QED
  BY <1>1, AssemblyInvariant, PTL

(***************************************************************************)
(* The ledger implements ConfirmedDelivery                                 *)
(***************************************************************************)
(* What is known of a chunk, as ConfirmedDelivery sees it. *)
HasCredit(c) == \E p \in Proc : pc[p] = "dispatch" /\ Here(p) = c
SentOf(c) == {u.attempt : u \in {w \in uploads : w.chunk = c}}

Marks == [c \in Chunk |-> Mark(c)]
Epochs == [c \in Chunk |-> entry[c].epoch]
Resents == [c \in Chunk |-> entry[c].was]
Credits == [c \in Chunk |-> HasCredit(c)]
Sents == [c \in Chunk |-> SentOf(c)]

(* One entry of the ledger, or one chunk of the protocol, changes. *)
EntryBecomes(c, e) == entry' = [entry EXCEPT ![c] = e]
StateBecomes(c, s) == entry' = [entry EXCEPT ![c].state = s]
MarkBecomes(c, m) == Marks' = [Marks EXCEPT ![c] = m]
GrantBecomes(c, e, w) == /\ Epochs' = [Epochs EXCEPT ![c] = e]
                         /\ Resents' = [Resents EXCEPT ![c] = w]
GrantsRest ==
  Epochs' = Epochs /\ Resents' = Resents /\ Credits' = Credits /\ Sents' = Sents

(* A chunk's place in the protocol depends on the state of its entry. *)
MarkIn(s) == CASE s \in UnknownStates -> "doubt"
               [] s = "succeeded" -> "done"
               [] OTHER -> "open"

(* The mark of a chunk is that of its entry, before and after a step. *)
LEMMA MarkOf ==
  ASSUME NEW c \in Chunk
  PROVE  Mark(c) = MarkIn(entry[c].state) /\ Mark(c)' = MarkIn(entry'[c].state)
<1>1. Mark(c) = MarkIn(entry[c].state)
  BY DEF Mark, MarkIn, InDoubt, Succeeded
<1>2. Mark(c)' = MarkIn(entry'[c].state)
  BY DEF Mark, MarkIn, InDoubt, Succeeded
<1> QED
  BY <1>1, <1>2

(* The three places, by the states of an entry. *)
LEMMA MarkValues ==
  ASSUME NEW s
  PROVE  /\ s \in UnknownStates => MarkIn(s) = "doubt"
         /\ s = "succeeded" => MarkIn(s) = "done"
         /\ s \notin UnknownStates /\ s # "succeeded" => MarkIn(s) = "open"
  BY DEF MarkIn, UnknownStates

(* A step that touches no entry, no upload and no run about to upload is   *)
(* not visible.                                                            *)
LEMMA Unseen ==
  ASSUME UNCHANGED <<entry, uploads>>,
         \A p \in Proc : pc[p] = "dispatch" \/ pc'[p] = "dispatch" =>
           pc'[p] = pc[p] /\ Here(p)' = Here(p)
  PROVE  UNCHANGED D!dvars
<1>1. \A c \in Chunk : Mark(c)' = Mark(c)
  BY DEF Mark, InDoubt, Succeeded
<1>2. \A c \in Chunk : (\E p \in Proc : pc'[p] = "dispatch" /\ Here(p)' = c)
                         <=> \E p \in Proc : pc[p] = "dispatch" /\ Here(p) = c
  OBVIOUS
<1> QED
  BY <1>1, <1>2 DEF D!dvars

(* A step that changes one entry changes what is known of that chunk only. *)
LEMMA EntryStep ==
  ASSUME Control, NEW c \in Chunk, NEW e \in Entry, EntryBecomes(c, e)
  PROVE  MarkBecomes(c, MarkIn(e.state)) /\ GrantBecomes(c, e.epoch, e.was)
<1> USE DEF EntryBecomes
<1>1. \A d \in Chunk : d # c => entry'[d] = entry[d]
  BY DEF Control, TypeOK
<1>2. entry'[c] = e
  BY DEF Control, TypeOK
<1>3. \A d \in Chunk : d # c => Mark(d)' = Mark(d)
  BY <1>1 DEF Mark, InDoubt, Succeeded
<1>4. Marks' = [Marks EXCEPT ![c] = MarkIn(e.state)]
  <2>1. Mark(c)' = MarkIn(e.state)
    BY <1>2, MarkOf
  <2> QED
    BY <1>3, <2>1 DEF Marks
<1>5. Epochs' = [Epochs EXCEPT ![c] = e.epoch]
  <2>1. \A d \in Chunk : entry'[d].epoch = IF d = c THEN e.epoch ELSE entry[d].epoch
    BY <1>1, <1>2
  <2> QED
    BY <2>1 DEF Epochs
<1>6. Resents' = [Resents EXCEPT ![c] = e.was]
  <2>1. \A d \in Chunk : entry'[d].was = IF d = c THEN e.was ELSE entry[d].was
    BY <1>1, <1>2
  <2> QED
    BY <2>1 DEF Resents
<1> QED
  BY <1>4, <1>5, <1>6 DEF MarkBecomes, GrantBecomes

(* While p has the lease no other run has a credit. *)
LEMMA CreditIsOwn ==
  ASSUME Control, NEW p \in Proc, pc[p] \in Leased, NEW c \in Chunk
  PROVE  HasCredit(c) <=> pc[p] = "dispatch" /\ Here(p) = c
  BY Alone DEF HasCredit, InHand

(* The credits after a step of p. *)
LEMMA CreditAfter ==
  ASSUME Control, NEW p \in Proc, pc[p] \in Leased,
         \A q \in Proc : q # p => pc'[q] = pc[q] /\ job'[q] = job[q], NEW c \in Chunk
  PROVE  HasCredit(c)' <=> pc'[p] = "dispatch" /\ Here(p)' = c
<1>1. \A q \in Proc : q # p => pc'[q] # "dispatch"
  BY Alone DEF InHand
<1> QED
  BY <1>1 DEF HasCredit

(* begin_attempt grants an upload, over a doubt only above its epoch. *)
LEMMA BeginDelivers ==
  ASSUME Control, Data, NEW p \in Proc, BeginAttempt(p),
         NEW c, c = Here(p), NEW e, e = job[p].epoch
  PROVE  c \in Chunk /\ e \in Epoch /\ (D!Grant(c, e) \/ D!Confirm(c, e))
<1> DEFINE new == [state |-> "pending", attempt |-> attempts + 1, epoch |-> e, was |-> InDoubt(c)]
<1>1. /\ c \in Chunk /\ e \in Epoch /\ pc[p] \in Leased /\ pc[p] = "chunk"
      /\ attempts \in Nat /\ job[p] \in Job /\ entry \in [Chunk -> Entry]
  BY HereType DEF BeginAttempt, Control, TypeOK, PositionInv, Job, Leased, PC
<1>2. EntryBecomes(c, new) /\ UNCHANGED uploads
  BY DEF BeginAttempt, EntryBecomes
<1>3. new \in Entry
  BY <1>1 DEF Entry, EntryStates, UnknownStates, InDoubt
<1>4. /\ pc'[p] = "dispatch" /\ job'[p].plan = job[p].plan /\ job'[p].at = job[p].at
      /\ \A q \in Proc : q # p => pc'[q] = pc[q] /\ job'[q] = job[q]
  BY <1>1 DEF BeginAttempt, Control, TypeOK, Goto, With, Job
<1>5. Here(p)' = c
  BY <1>4 DEF Here
<1>6. \A d \in Chunk : ~HasCredit(d) /\ (HasCredit(d)' <=> d = c)
  BY <1>1, <1>4, <1>5, CreditIsOwn, CreditAfter
<1>7. Credits' = [Credits EXCEPT ![c] = TRUE]
  BY <1>1, <1>6 DEF Credits, HasCredit
<1>8. MarkIn(new.state) = "doubt"
  BY MarkValues DEF UnknownStates
<1>9. ~Succeeded(c)
  BY DEF BeginAttempt
<1>13. new.epoch = e /\ new.was = InDoubt(c)
  OBVIOUS
<1> HIDE DEF new
<1>10. MarkBecomes(c, "doubt") /\ GrantBecomes(c, e, InDoubt(c))
  BY <1>1, <1>2, <1>3, <1>4, <1>8, <1>13, EntryStep
<1>11. CASE InDoubt(c)
  <2>1. e > entry[c].epoch
    BY <1>11 DEF BeginAttempt, MayAttempt, VerifyRetry
  <2>2. Mark(c) = "doubt"
    BY <1>1, <1>11, MarkOf, MarkValues DEF InDoubt
  <2>3. Marks' = Marks
    BY <1>1, <1>10, <2>2 DEF Marks, MarkBecomes
  <2>4. D!Confirm(c, e)
    BY <1>1, <1>2, <1>6, <1>7, <1>10, <1>11, <2>1, <2>2, <2>3
    DEF GrantBecomes, D!Confirm, Marks, Epochs, Resents, Credits, Sents, HasCredit, SentOf
  <2> QED
    BY <1>1, <2>4
<1>12. CASE ~InDoubt(c)
  <2>1. Mark(c) = "open"
    BY <1>1, <1>9, <1>12, MarkOf, MarkValues DEF InDoubt, Succeeded
  <2>2. InDoubt(c) = FALSE
    BY <1>12 DEF InDoubt
  <2>3. D!Grant(c, e)
    BY <1>1, <1>2, <1>6, <1>7, <1>10, <2>1, <2>2
      DEF MarkBecomes, GrantBecomes, D!Grant, Marks, Epochs, Resents, Credits, Sents, HasCredit,
          SentOf
  <2> QED
    BY <1>1, <2>3
<1> QED
  BY <1>11, <1>12

(* What the ledger lacks and what was sent: both hold initially. *)
LEMMA InitSent == Init => AbsentInv /\ SentInv
  BY DEF Init, AbsentInv, SentInv

(* No step makes an entry disappear. *)
LEMMA AbsentStays ==
  ASSUME Control, Data, AbsentInv, [Next]_vars
  PROVE  AbsentInv'
<1> SUFFICES ASSUME NEW c \in Chunk, entry'[c].state = "absent"
             PROVE  entry'[c] = entry[c]
  BY DEF AbsentInv
<1>1. CASE UNCHANGED entry
  BY <1>1
<1>2. ASSUME NEW p \in Proc, SavePlan(p)
      PROVE  entry'[c] = entry[c]
  BY <1>2 DEF SavePlan, Unattempted
<1>3. ASSUME NEW p \in Proc, BeginAttempt(p)
      PROVE  entry'[c] = entry[c]
  BY <1>3 DEF BeginAttempt, Control, TypeOK
<1>4. ASSUME NEW p \in Proc, RecordFailure(p)
      PROVE  entry'[c] = entry[c]
  <2>1. FailedState(p) # "absent"
    BY DEF FailedState
  <2> QED
    BY <1>4, <2>1 DEF RecordFailure, Control, TypeOK, Entry
<1>5. ASSUME NEW p \in Proc, RecordSuccess(p)
      PROVE  entry'[c] = entry[c]
  BY <1>5 DEF RecordSuccess, Control, TypeOK, Entry
<1>6. ASSUME NEW p \in Proc, Open(p) \/ Stop(p) \/ Step(p)
      PROVE  entry'[c] = entry[c]
  BY <1>1, <1>2, <1>3, <1>4, <1>5, <1>6
  DEF Open, Stop, Step, Acquire, Busy, Initialize, StorageError, WritePlan, Preflight,
      PreflightRefuses, Reuse, AttemptRefused, SendAudio, FailBeforeSend, Refuse,
      LoseOutcome, Reply, SaveResult, WriteTranscript, RegisterTranscript, disk
<1> QED
  BY <1>1, <1>6 DEF Next, vars, disk

(* A run is in flight only after its upload, and uploads are never undone. *)
LEMMA SentStays ==
  ASSUME Control, Data, SentInv, [Next]_vars
  PROVE  SentInv'
<1> DEFINE Sending == {"in_flight", "replied", "saving"}
<1>1. uploads \subseteq uploads'
  <2>1. CASE \E p \in Proc : SendAudio(p)
    BY <2>1 DEF SendAudio
  <2>2. CASE \A p \in Proc : ~SendAudio(p)
    <3>1. ASSUME NEW p \in Proc, Step(p) PROVE UNCHANGED uploads
      BY <2>2, <3>1 DEF Step, Acquire, Busy, Initialize, StorageError, WritePlan, SavePlan,
         Preflight, PreflightRefuses, Reuse, BeginAttempt, AttemptRefused, FailBeforeSend,
         Refuse, LoseOutcome, Reply, RecordFailure, SaveResult, RecordSuccess,
         WriteTranscript, RegisterTranscript, history
    <3>2. ASSUME NEW p \in Proc, Open(p) \/ Stop(p) PROVE UNCHANGED uploads
      BY <3>2 DEF Open, Stop, history
    <3> QED
      BY <3>1, <3>2 DEF Next, vars, history
  <2> QED
    BY <2>1, <2>2
<1>2. ASSUME NEW q \in Proc, pc'[q] = pc[q], job'[q] = job[q], pc'[q] \in Sending
      PROVE  \E u \in uploads' : u.chunk = Here(q)'
  <2>1. Here(q)' = Here(q)
    BY <1>2 DEF Here
  <2>2. PICK u \in uploads : u.chunk = Here(q)
    BY <1>2 DEF SentInv
  <2> QED
    BY <1>1, <2>1, <2>2
<1>3. ASSUME NEW p \in Proc, Open(p) \/ Step(p) \/ Stop(p), pc'[p] \in Sending
      PROVE  \E u \in uploads' : u.chunk = Here(p)'
  <2>1. CASE SendAudio(p)
    <3>1. Here(p)' = Here(p)
      BY <2>1 DEF SendAudio, Here
    <3> DEFINE u == [chunk |-> Here(p), attempt |-> job[p].attempt, epoch |-> job[p].epoch,
                     proof |-> IF job[p].was THEN job[p].retry.blocked ELSE NoProof]
    <3>2. u \in uploads'
      BY <2>1 DEF SendAudio
    <3>3. u.chunk = Here(p)
      OBVIOUS
    <3> QED
      BY <3>1, <3>2, <3>3
  <2>2. CASE Reply(p) \/ SaveResult(p)
    <3>1. job'[p] = job[p] /\ pc[p] \in Sending
      BY <1>3, <2>2 DEF Reply, SaveResult, Leave, Goto, Control, TypeOK
    <3>2. Here(p)' = Here(p)
      BY <3>1 DEF Here
    <3>3. PICK u \in uploads : u.chunk = Here(p)
      BY <3>1 DEF SentInv
    <3> QED
      BY <1>1, <3>2, <3>3
  <2>3. ASSUME NEW l, Goto(p, l), l \notin Sending
        PROVE  FALSE
    BY <1>3, <2>3 DEF Goto, Control, TypeOK
  <2> QED
    BY <1>3, <2>1, <2>2, <2>3
    DEF Open, Stop, Step, Acquire, Busy, Initialize, StorageError, WritePlan, SavePlan,
     Preflight, PreflightRefuses, Reuse, BeginAttempt, AttemptRefused,
     FailBeforeSend, Refuse, LoseOutcome, RecordFailure, RecordSuccess,
     WriteTranscript, RegisterTranscript, Leave, Assemble
<1>4. ASSUME NEW p \in Proc, Open(p) \/ Step(p) \/ Stop(p), NEW q \in Proc, pc'[q] \in Sending
      PROVE  \E u \in uploads' : u.chunk = Here(q)'
  BY <1>2, <1>3, <1>4, OthersRest
<1>5. CASE UNCHANGED vars
  BY <1>2, <1>5 DEF vars, SentInv
<1> QED
  BY <1>4, <1>5 DEF Next, SentInv

(* An upload spends the grant, with an attempt number never sent before. *)
LEMMA SendDelivers ==
  ASSUME Control, Data, NEW p \in Proc, SendAudio(p), NEW c, c = Here(p)
  PROVE  c \in Chunk /\ D!Send(c)
<1> DEFINE n == job[p].attempt
<1>1. c \in Chunk /\ pc[p] = "dispatch" /\ pc[p] \in Leased /\ n \in Nat
  BY HereType DEF SendAudio, Control, TypeOK, PositionInv, Leased, PC, Job
<1>2. pc'[p] = "in_flight" /\ \A q \in Proc : q # p => pc'[q] = pc[q] /\ job'[q] = job[q]
  BY DEF SendAudio, Control, TypeOK, Goto
<1>3. \A d \in Chunk : (HasCredit(d) <=> d = c) /\ ~HasCredit(d)'
  BY <1>1, <1>2, CreditIsOwn, CreditAfter
<1>4. Credits' = [Credits EXCEPT ![c] = FALSE]
  BY <1>1, <1>3 DEF Credits, HasCredit
<1>5. PICK u : uploads' = uploads \cup {u} /\ u.chunk = c /\ u.attempt = n
  <2> DEFINE u == [chunk |-> c, attempt |-> n, epoch |-> job[p].epoch,
                   proof |-> IF job[p].was THEN job[p].retry.blocked ELSE NoProof]
  <2>1. uploads' = uploads \cup {u}
    BY DEF SendAudio
  <2>2. u.chunk = c /\ u.attempt = n
    OBVIOUS
  <2> HIDE DEF u
  <2> QED
    BY <2>1, <2>2
<1>6. \A d \in Chunk : SentOf(d)' = IF d = c THEN SentOf(d) \cup {n} ELSE SentOf(d)
  BY <1>5 DEF SentOf
<1>7. n \notin SentOf(c)
  <2>1. \A v \in uploads : v.chunk = c => v.attempt \in Nat /\ v.attempt < n
    BY <1>1 DEF Control, TypeOK, Upload, Data, PhaseInv, InHand
  <2> QED
    BY <1>1, <2>1 DEF SentOf
<1>8. Sents' = [Sents EXCEPT ![c] = @ \cup {n}]
  BY <1>1, <1>6 DEF Sents
<1>9. n \in Sents'[c] \ Sents[c]
  BY <1>1, <1>6, <1>7 DEF Sents
<1>10. /\ Marks' = Marks
       /\ Epochs' = Epochs
       /\ Resents' = Resents
  BY DEF Marks, Epochs, Resents, SendAudio, disk, Mark, InDoubt, Succeeded
<1> HIDE DEF n
<1> QED
  BY <1>1, <1>3, <1>4, <1>8, <1>9, <1>10
    DEF D!Send, Marks, Epochs, Resents, Credits, Sents, HasCredit, SentOf

(* A run that ends or fails before its upload lets the grant lapse. *)
LEMMA LapseDelivers ==
  ASSUME Control, NEW p \in Proc, pc[p] = "dispatch", NEW c, c = Here(p),
         UNCHANGED <<entry, uploads>>, pc'[p] # "dispatch",
         \A q \in Proc : q # p => pc'[q] = pc[q] /\ job'[q] = job[q]
  PROVE  c \in Chunk /\ D!Lapse(c)
<1>1. c \in Chunk /\ pc[p] \in Leased
  BY HereType DEF Control, PositionInv, Leased, PC
<1>2. \A d \in Chunk : (HasCredit(d) <=> d = c) /\ ~HasCredit(d)'
  BY <1>1, CreditIsOwn, CreditAfter
<1>3. Credits' = [Credits EXCEPT ![c] = FALSE]
  BY <1>1, <1>2 DEF Credits, HasCredit
<1>4. /\ Marks' = Marks
      /\ Epochs' = Epochs
      /\ Resents' = Resents
      /\ Sents' = Sents
  BY DEF Marks, Epochs, Resents, Sents, Mark, InDoubt, Succeeded, SentOf
<1> QED
  BY <1>1, <1>2, <1>3, <1>4 DEF D!Lapse, Marks, Epochs, Resents, Credits, Sents, HasCredit, SentOf

(* A saved outcome changes the state of the chunk at hand and nothing else *)
(* that the protocol sees.                                                 *)
LEMMA OutcomeStep ==
  ASSUME Control, NEW p \in Proc, pc[p] \in {"failing", "saving"}, pc'[p] # "dispatch",
         NEW c, c = Here(p), NEW s \in EntryStates,
         StateBecomes(c, s), UNCHANGED uploads,
         \A q \in Proc : q # p => pc'[q] = pc[q] /\ job'[q] = job[q]
  PROVE  /\ c \in Chunk /\ entry'[c].state = s
         /\ MarkBecomes(c, MarkIn(s))
         /\ GrantsRest /\ ~HasCredit(c)
<1>1. c \in Chunk /\ pc[p] \in Leased /\ pc[p] \in InHand /\ pc[p] # "dispatch"
  BY HereType DEF Control, PositionInv, Leased, PC, InHand
<1>2. entry \in [Chunk -> Entry]
  BY DEF Control, TypeOK
<1>3. [entry[c] EXCEPT !.state = s] \in Entry
  BY <1>1, <1>2 DEF Entry
<1>4. entry' = [entry EXCEPT ![c] = [entry[c] EXCEPT !.state = s]]
  BY <1>1, <1>2 DEF StateBecomes
<1>5. \A d \in Chunk : entry'[d].epoch = entry[d].epoch /\ entry'[d].was = entry[d].was
  BY <1>1, <1>2, <1>4 DEF Entry
<1>6. MarkBecomes(c, MarkIn(s))
  <2>1. PICK new \in Entry : EntryBecomes(c, new) /\ new.state = s
    BY <1>1, <1>2, <1>3, <1>4 DEF Entry, EntryBecomes
  <2> QED
    BY <1>1, <2>1, EntryStep
<1>7. \A d \in Chunk : ~HasCredit(d) /\ ~HasCredit(d)'
  BY <1>1, CreditIsOwn, CreditAfter
<1>8. Credits' = Credits
  BY <1>7 DEF Credits, HasCredit
<1>9. Sents' = Sents
  BY DEF Sents, SentOf
<1>10. entry'[c].state = s
  BY <1>1, <1>2, <1>3, <1>4 DEF Entry
<1> QED
  BY <1>1, <1>5, <1>6, <1>7, <1>8, <1>9, <1>10 DEF GrantsRest, Epochs, Resents

(* fail: a first attempt may be certain to have failed, a resent one never. *)
LEMMA FailureDelivers ==
  ASSUME Control, Data, NEW p \in Proc, RecordFailure(p), NEW c, c = Here(p)
  PROVE  c \in Chunk /\ (D!Reopen(c) \/ UNCHANGED D!dvars)
<1>0. PICK s : s = FailedState(p)
  OBVIOUS
<1>1. StillPending(p) /\ pc[p] = "failing" /\ pc[p] \in {"failing", "saving"}
  BY DEF RecordFailure, Data, ReceiptInv, InHand
<1>2. StateBecomes(c, s) /\ s \in EntryStates /\ UNCHANGED uploads
  BY <1>0, <1>1
  DEF StateBecomes, RecordFailure, FailedState, EntryStates, UnknownStates, history
<1>3. pc'[p] # "dispatch" /\ \A q \in Proc : q # p => pc'[q] = pc[q] /\ job'[q] = job[q]
  BY DEF RecordFailure, Leave, Goto, With, Control, TypeOK
<1>4. InDoubt(c)
  BY <1>1 DEF StillPending, InDoubt, UnknownStates
<1>9. c \in Chunk /\ entry'[c].state = s
  BY <1>1, <1>2, HereType DEF StateBecomes, Control, TypeOK, PositionInv, Entry
<1>5. /\ c \in Chunk /\ entry'[c].state = s
      /\ MarkBecomes(c, MarkIn(s))
      /\ GrantsRest /\ ~HasCredit(c)
  BY <1>1, <1>2, <1>3, OutcomeStep
<1>6. Mark(c) = "doubt"
  BY <1>4, <1>5, MarkOf, MarkValues DEF InDoubt
<1>7. CASE s = "unknown"
  <2>1. MarkIn(s) = "doubt"
    BY <1>7, MarkValues DEF UnknownStates
  <2>2. Marks' = Marks
    BY <1>5, <1>6, <2>1 DEF MarkBecomes, Marks
  <2> QED
    BY <1>5, <2>2
      DEF GrantsRest, MarkBecomes, D!dvars, Marks, Epochs, Resents, Credits, Sents, HasCredit,
          SentOf
<1>8. CASE s = "known_failed"
  <2>1. entry[c].was = FALSE
    BY <1>0, <1>1, <1>8 DEF FailedState, StillPending, Control, TypeOK, Job
  <2>2. MarkIn(s) = "open"
    BY <1>8, MarkValues DEF UnknownStates
  <2>3. D!Reopen(c)
    BY <1>5, <1>6, <2>1, <2>2
      DEF GrantsRest, MarkBecomes, D!Reopen, Marks, Epochs, Resents, Credits, Sents, HasCredit,
          SentOf
  <2> QED
    BY <1>5, <2>3
<1> QED
  BY <1>0, <1>7, <1>8 DEF FailedState

(* succeed: the result of an upload that was made is delivered. *)
LEMMA SuccessDelivers ==
  ASSUME Control, Data, SentInv, NEW p \in Proc, RecordSuccess(p), NEW c, c = Here(p)
  PROVE  c \in Chunk /\ D!Deliver(c)
<1>1. StillPending(p) /\ pc[p] = "saving" /\ pc[p] \in {"failing", "saving"}
  BY DEF RecordSuccess, Data, ReceiptInv, InHand
<1>2. /\ StateBecomes(c, "succeeded") /\ "succeeded" \in EntryStates
      /\ UNCHANGED uploads
  BY DEF StateBecomes, RecordSuccess, EntryStates, history
<1>3. pc'[p] # "dispatch" /\ \A q \in Proc : q # p => pc'[q] = pc[q] /\ job'[q] = job[q]
  BY DEF RecordSuccess, Assemble, Goto, With, Control, TypeOK
<1>4. InDoubt(c)
  BY <1>1 DEF StillPending, InDoubt, UnknownStates
<1>9. c \in Chunk /\ entry'[c].state = "succeeded"
  BY <1>1, <1>2, HereType DEF StateBecomes, Control, TypeOK, PositionInv, Entry
<1>5. /\ c \in Chunk /\ entry'[c].state = "succeeded"
      /\ MarkBecomes(c, MarkIn("succeeded"))
      /\ GrantsRest /\ ~HasCredit(c)
  BY <1>1, <1>2, <1>3, OutcomeStep
<1>6. Mark(c) = "doubt"
  BY <1>4, <1>5, MarkOf, MarkValues DEF InDoubt
<1>7. MarkIn("succeeded") = "done"
  BY MarkValues
<1>8. SentOf(c) # {}
  <2>1. PICK u \in uploads : u.chunk = c
    BY <1>1 DEF SentInv
  <2> QED
    BY <2>1 DEF SentOf
<1> QED
  BY <1>5, <1>6, <1>7, <1>8
    DEF GrantsRest, MarkBecomes, D!Deliver, Marks, Epochs, Resents, Credits, Sents, HasCredit,
        SentOf

(* Registering a plan is not visible: its new entries read like no entry. *)
LEMMA SavePlanUnseen ==
  ASSUME Control, AbsentInv, NEW p \in Proc, SavePlan(p)
  PROVE  UNCHANGED D!dvars
<1>1. pc[p] = "save_plan" /\ pc[p] \in Leased /\ pc'[p] = "preflight"
  BY DEF SavePlan, Leased, PC, Control, TypeOK, Goto
<1>2. \A q \in Proc : q # p => pc'[q] = pc[q] /\ job'[q] = job[q]
  BY DEF SavePlan, Control, TypeOK, Goto
<1>3. \A d \in Chunk : entry'[d] = entry[d] \/ (entry[d] = NoEntry /\ entry'[d] = Unattempted)
  BY DEF SavePlan, AbsentInv
<1>4. \A d \in Chunk : entry'[d].epoch = entry[d].epoch /\ entry'[d].was = entry[d].was
  <2>1. NoEntry.epoch = Unattempted.epoch /\ NoEntry.was = Unattempted.was
    BY DEF NoEntry, Unattempted
  <2> QED
    BY <1>3, <2>1
<1>5. \A d \in Chunk : (InDoubt(d)' <=> InDoubt(d)) /\ (Succeeded(d)' <=> Succeeded(d))
  BY <1>3 DEF NoEntry, Unattempted, InDoubt, Succeeded, UnknownStates
<1>6. \A d \in Chunk : Mark(d)' = Mark(d)
  BY <1>3, MarkOf, MarkValues DEF NoEntry, Unattempted, UnknownStates
<1>7. \A d \in Chunk : ~HasCredit(d) /\ ~HasCredit(d)'
  BY <1>1, <1>2, CreditIsOwn, CreditAfter
<1>8. Credits' = Credits
  BY <1>7 DEF Credits, HasCredit
<1>9. Sents' = Sents
  BY DEF Sents, SavePlan, SentOf, history
<1>10. /\ Marks' = Marks
       /\ Epochs' = Epochs
       /\ Resents' = Resents
  BY <1>4, <1>6 DEF Marks, Epochs, Resents
<1> QED
  BY <1>8, <1>9, <1>10
    DEF GrantsRest, MarkBecomes, D!dvars, Marks, Epochs, Resents, Credits, Sents, HasCredit,
        SentOf

(* The remaining steps of a run with no grant in hand are not visible. *)
LEMMA QuietUnseen ==
  ASSUME Control, Data, NEW p \in Proc, Open(p) \/ Step(p) \/ Stop(p), pc[p] # "dispatch",
         ~SavePlan(p), ~BeginAttempt(p), ~RecordFailure(p), ~RecordSuccess(p)
  PROVE  UNCHANGED D!dvars
<1>1. UNCHANGED <<entry, uploads>>
  BY DEF Open, Stop, Step, Acquire, Busy, Initialize, StorageError, WritePlan, Preflight,
      PreflightRefuses, Reuse, AttemptRefused, SendAudio, FailBeforeSend, Refuse,
      LoseOutcome, Reply, SaveResult, WriteTranscript, RegisterTranscript, disk, history
<1>2. pc'[p] # "dispatch"
  <2>1. ASSUME NEW l, Goto(p, l), l # "dispatch"
        PROVE  pc'[p] # "dispatch"
    BY <2>1 DEF Goto, Control, TypeOK
  <2> QED
    BY <2>1
    DEF Open, Stop, Step, Acquire, Busy, Initialize, StorageError, WritePlan, Preflight,
      PreflightRefuses, Reuse, AttemptRefused, SendAudio, FailBeforeSend, Refuse,
      LoseOutcome, Reply, SaveResult, WriteTranscript, RegisterTranscript, Leave, Assemble
<1>3. \A q \in Proc : q # p => pc'[q] = pc[q] /\ Here(q)' = Here(q)
  BY OthersRest DEF Here
<1> QED
  BY <1>1, <1>2, <1>3, Unseen

(* Every step of the ledger is a step of ConfirmedDelivery, or not visible. *)
LEMMA NextDelivers ==
  ASSUME Control, Data, AbsentInv, SentInv, [Next]_vars
  PROVE  [D!Next]_(D!dvars)
<1>1. CASE UNCHANGED vars
  BY <1>1, Unseen DEF vars, disk, history, Here
<1>2. ASSUME NEW p \in Proc, Open(p) \/ Step(p) \/ Stop(p)
      PROVE  [D!Next]_(D!dvars)
  <2>1. CASE SavePlan(p)
    BY <2>1, SavePlanUnseen
  <2>2. CASE BeginAttempt(p)
    BY <2>2, BeginDelivers DEF D!Next
  <2>3. CASE SendAudio(p)
    BY <2>3, SendDelivers DEF D!Next
  <2>4. CASE RecordFailure(p)
    BY <2>4, FailureDelivers DEF D!Next
  <2>5. CASE RecordSuccess(p)
    BY <2>5, SuccessDelivers DEF D!Next
  <2>6. CASE Stop(p) \/ (\E known \in BOOLEAN : FailBeforeSend(p, known))
    <3>1. CASE pc[p] = "dispatch"
      <4>1. UNCHANGED <<entry, uploads>> /\ pc'[p] # "dispatch"
        BY <2>6 DEF Stop, FailBeforeSend, Leave, Goto, Control, TypeOK, disk, history
      <4> QED
        BY <1>2, <3>1, <4>1, OthersRest, LapseDelivers DEF D!Next
    <3>2. CASE pc[p] # "dispatch"
      <4>1. \/ ~SavePlan(p) /\ ~BeginAttempt(p) /\ ~RecordFailure(p) /\ ~RecordSuccess(p)
            \/ SavePlan(p) \/ BeginAttempt(p) \/ RecordFailure(p) \/ RecordSuccess(p)
        OBVIOUS
      <4> QED
        BY <1>2, <2>1, <2>2, <2>4, <2>5, <3>2, <4>1, QuietUnseen
    <3> QED
      BY <3>1, <3>2
  <2>7. CASE /\ ~SavePlan(p) /\ ~BeginAttempt(p) /\ ~SendAudio(p) /\ ~RecordFailure(p)
             /\ ~RecordSuccess(p) /\ ~Stop(p) /\ ~\E known \in BOOLEAN : FailBeforeSend(p, known)
    <3>1. pc[p] # "dispatch"
      BY <1>2, <2>7
      DEF Open, Step, Acquire, Busy, Initialize, StorageError, WritePlan, Preflight,
        PreflightRefuses, Reuse, AttemptRefused, Refuse, LoseOutcome, Reply, SaveResult,
        WriteTranscript, RegisterTranscript
    <3> QED
      BY <1>2, <2>7, <3>1, QuietUnseen
  <2> QED
    BY <2>1, <2>2, <2>3, <2>4, <2>5, <2>6, <2>7
<1> QED
  BY <1>1, <1>2 DEF Next

(* The initial ledger is the initial state of the protocol. *)
LEMMA InitDelivers == Init => D!Init
<1> SUFFICES ASSUME Init PROVE D!Init
  OBVIOUS
<1>1. \A c \in Chunk : entry[c] = NoEntry
  BY DEF Init
<1>2. \A c \in Chunk : /\ Mark(c) = "open" /\ entry[c].epoch = 0 /\ entry[c].was = FALSE
                       /\ HasCredit(c) = FALSE /\ SentOf(c) = {}
  <2> TAKE c \in Chunk
  <2>1. Mark(c) = "open"
    BY <1>1, MarkOf, MarkValues DEF NoEntry, UnknownStates
  <2>2. entry[c].epoch = 0 /\ entry[c].was = FALSE
    BY <1>1 DEF NoEntry
  <2>3. HasCredit(c) = FALSE /\ SentOf(c) = {}
    BY DEF Init, HasCredit, SentOf
  <2> QED
    BY <2>1, <2>2, <2>3
<1> QED
  BY <1>2 DEF D!Init, Marks, Epochs, Resents, Credits, Sents, HasCredit, SentOf

(* The ledger delivers each chunk as ConfirmedDelivery promises: one upload *)
(* per grant, a further grant only above the epoch in doubt, none after the *)
(* result (begin_attempt, _verify_retry, fail, succeed).                    *)
THEOREM LedgerImplementsDelivery == Spec => ImplementsDelivery
<1>1. Init => AbsentInv /\ SentInv
  BY InitSent
<1>2. (Control /\ Data) /\ (AbsentInv /\ SentInv) /\ [Next]_vars => (AbsentInv /\ SentInv)'
  BY AbsentStays, SentStays
<1>3. Spec => [](Control /\ Data /\ AbsentInv /\ SentInv)
  BY <1>1, <1>2, DataInvariant, PTL DEF Spec
<1>4. Init => D!Init
  BY InitDelivers
<1>5. Control /\ Data /\ AbsentInv /\ SentInv /\ [Next]_vars => [D!Next]_(D!dvars)
  BY NextDelivers
<1> QED
  BY <1>3, <1>4, <1>5, PTL DEF Spec, ImplementsDelivery, D!Spec
=============================================================================
